--------------------------- MODULE AdmissionLedger ---------------------------
(***************************************************************************)
(* The durable ledger that stands between a mutation request and the file  *)
(* tables: operation_admissions (one leased slot per request), the          *)
(* mutation_claims that give a slot the ownership of an idempotency key,    *)
(* the receipts of what was published, and the revoked grants.  Every       *)
(* operator here is what one SQLite transaction of SqliteAdmissionAuthority *)
(* reads or writes; the actions that combine them are in VaultAuthority.    *)
(*                                                                          *)
(* Admission identifiers are fresh random identifiers: the identifier of    *)
(* the request that reserved the slot stands for it.                        *)
(***************************************************************************)
EXTENDS Integers, FiniteSets, Sequences

CONSTANTS
  Requests,     \* requests that may reach the Worker
  Clients,      \* registered clients and devices
  Grants,       \* OAuth grants
  GrantClient,  \* the client a grant belongs to
  Scopes,       \* the scopes of a grant: a set of {"write", "delete"}
  Keys,         \* idempotency keys
  OpaqueKeys,   \* the keys that are not UUIDv7 and carry no time
  KeyTime,      \* the time inside a UUIDv7 key
  NoKey,        \* a request without an idempotency key
  Ttl,          \* an admission's lease: 60 s
  KeyPast,      \* how old a UUIDv7 key may be: 25 days
  KeyFuture,    \* how far ahead of the clock it may be: 5 minutes
  Retention,    \* how long receipts, changes and revisions stay: 30 days
  ClientLimit,  \* unexpired admissions of one client: 16
  VaultLimit,   \* admission rows of the vault: 1024
  CleanupBatch  \* other clients' expired rows one admission deletes: 64

ASSUME RequestsAssumption == IsFiniteSet(Requests)
ASSUME KeysAssumption ==
  /\ NoKey \notin Keys
  /\ OpaqueKeys \subseteq Keys
  /\ KeyTime \in [Keys \ OpaqueKeys -> Nat]
ASSUME GrantsAssumption ==
  /\ GrantClient \in [Grants -> Clients]
  /\ Scopes \in [Grants -> SUBSET {"write", "delete"}]
ASSUME DurationsAssumption ==
  /\ Ttl \in Nat \ {0} /\ KeyPast \in Nat /\ KeyFuture \in Nat
  /\ Retention \in Nat
ASSUME AdmissionLimitsAssumption ==
  /\ ClientLimit \in Nat /\ VaultLimit \in Nat /\ CleanupBatch \in Nat

\* 25 days + 5 minutes <= 30 days: a key is refused before its receipt may go.
ASSUME WindowAssumption == KeyPast + KeyFuture <= Retention

VARIABLES
  now,         \* the Durable Object's clock
  admissions,  \* [Requests -> row], state "none" for no row
  claims,      \* rows [client, key, id] of mutation_claims
  receipts,    \* rows of receipts
  revoked      \* revoked_grants

ledgerVars == <<now, admissions, claims, receipts, revoked>>

NoAdmission == [state |-> "none"]
AdmissionStates == {"reserved", "active", "uncertain"}

InitLedger ==
  /\ now = 0
  /\ admissions = [r \in Requests |-> NoAdmission]
  /\ claims = {}
  /\ receipts = {}
  /\ revoked = {}

-----------------------------------------------------------------------------
Rows == {r \in Requests : admissions[r].state # "none"}
Expired(r) == admissions[r].expires <= now
ClientOf(r) == GrantClient[admissions[r].grant]

RequiredScope(op) == IF op = "delete" THEN "delete" ELSE "write"

\* assertPolicyInTransaction: the refusal, or "none".  The grant's revocation
\* is read in the transaction, its scopes come with the request.
PolicyFailure(grant, op) ==
  IF grant \in revoked THEN "revoked"
  ELSE IF RequiredScope(op) \notin Scopes[grant] THEN "forbidden_scope"
  ELSE "none"

\* assertIdempotencyWindow: opaque keys are exempt.
InWindow(k) ==
  k \in OpaqueKeys \/ (now - KeyPast <= KeyTime[k] /\ KeyTime[k] <= now + KeyFuture)

ReceiptsOf(client, key) == {x \in receipts : x.client = client /\ x.key = key}
ClaimsOf(client, key) == {c \in claims : c.client = client /\ c.key = key}

ExpiredRows == {r \in Rows : Expired(r)}
Unexpired(client) == {r \in Rows \ ExpiredRows : ClientOf(r) = client}

\* What cleanupExpiredAdmissions may leave: every expired row of the client
\* goes, and then any CleanupBatch of the vault's other expired rows.
CleanedFor(client) ==
  LET others == {r \in ExpiredRows : ClientOf(r) # client}
      excess == Cardinality(others) - CleanupBatch
  IN {(Rows \ ExpiredRows) \cup late :
        late \in {s \in SUBSET others :
                   Cardinality(s) = IF excess > 0 THEN excess ELSE 0}}

\* Mutant: one admission too many.
AdmissionFull_OffByOne(client, kept) ==
  Cardinality(Unexpired(client)) > ClientLimit \/ Cardinality(kept) > VaultLimit

\* checkClientLimit and checkVaultLimit, once only the rows in kept are left.
AdmissionFull(client, kept) ==
  \/ Cardinality(Unexpired(client)) >= ClientLimit
  \/ Cardinality(kept) >= VaultLimit

\* Mutant: claims do not go with their admissions.
Keep_NoCascade(ids) ==
  /\ admissions' = [r \in Requests |-> IF r \in ids THEN admissions[r] ELSE NoAdmission]
  /\ UNCHANGED claims

\* Keeping only some admissions: a claim goes with the row it points to.
Keep(ids) ==
  /\ admissions' = [r \in Requests |-> IF r \in ids THEN admissions[r] ELSE NoAdmission]
  /\ claims' = {c \in claims : c.id \in ids}

\* The insertions of reserveInTransaction and of beginMutation's claim, after a
\* cleanup that kept the rows in kept.
Reserve(r, grant, key, fingerprint, kept) ==
  /\ admissions' = [q \in Requests |->
       IF q = r THEN [state |-> "reserved", grant |-> grant,
                      fp |-> fingerprint, expires |-> now + Ttl]
       ELSE IF q \in kept THEN admissions[q] ELSE NoAdmission]
  /\ claims' = {c \in claims : c.id \in kept} \cup
       (IF key = NoKey THEN {}
        ELSE {[client |-> GrantClient[grant], key |-> key, id |-> r]})

\* An update of a row's state and fingerprint: the deadline is kept.
Restated(a, state, fingerprint) ==
  [state |-> state, grant |-> a.grant, fp |-> fingerprint, expires |-> a.expires]

Activate(r, fingerprint) ==
  admissions' = [admissions EXCEPT ![r] = Restated(@, "active", fingerprint)]

\* The claim that points to an admission is exactly the request's key.
ClaimMatches(r, grant, key) ==
  {<<c.client, c.key>> : c \in {d \in claims : d.id = r}}
    = IF key = NoKey THEN {} ELSE {<<GrantClient[grant], key>>}

\* assertActiveTicketInTransaction, past the policy check.
ActiveTicket(r, grant, key, fingerprint) ==
  /\ r \in Rows
  /\ admissions[r].state = "active"
  /\ admissions[r].grant = grant
  /\ admissions[r].fp = fingerprint
  /\ ~Expired(r)
  /\ ClaimMatches(r, grant, key)

Tick(last) == /\ now < last
              /\ now' = now + 1
              /\ UNCHANGED <<admissions, claims, receipts, revoked>>

\* recordRevocation; a revoked client loses all its grants in one transaction.
RevokeClient(client) ==
  /\ revoked' = revoked \cup {g \in Grants : GrantClient[g] = client}
  /\ revoked' # revoked
  /\ UNCHANGED <<now, admissions, claims, receipts>>

-----------------------------------------------------------------------------
(* What the ledger promises.                                                *)

\* A key has at most one owner and one receipt, and its owner is a retained
\* admission of the same client: the foreign key and its cascade.
ClaimsOwned ==
  /\ \A c \in claims : c.id \in Rows /\ ClientOf(c.id) = c.client
  /\ \A c, d \in claims : c.client = d.client /\ c.key = d.key => c = d
  /\ \A c, d \in claims : c.id = d.id => c = d

\* No client holds more unexpired slots than its limit and the vault no more
\* rows than its own, whatever expired, crashed or was left uncertain.
AdmissionsBounded ==
  /\ \A client \in Clients : Cardinality(Unexpired(client)) <= ClientLimit
  /\ Cardinality(Rows) <= VaultLimit

=============================================================================
