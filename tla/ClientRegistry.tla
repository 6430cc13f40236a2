---------------------------- MODULE ClientRegistry ----------------------------
(***************************************************************************)
(* The owner's registry of OAuth clients, the provider that issues their    *)
(* tokens, and the console in which the owner revokes and removes them.     *)
(*                                                                          *)
(* A registry call is one SQLite transaction of the vault object; a call to *)
(* the provider's KV store is one more step, and a consent, an exchange of  *)
(* a code or refresh token and an owner's request take several of both, so  *)
(* they overlap.  The grant that a consent leads to has the consent's       *)
(* number: completeAuthorization is called once for each.  Names, scopes,   *)
(* PKCE and the one configured owner subject are left out.                  *)
(***************************************************************************)
EXTENDS Integers, FiniteSets

CONSTANTS
  Clients,      \* OAuth client ids
  MaxConsents,  \* bound on consents
  Legacy,       \* consents of a grant kept under the raw subject's prefix
  MaxTokens,    \* bound on token keys of one grant
  Exchanges,    \* token endpoint calls that may be in flight
  Posts,        \* owner form posts that may be in flight
  ClientLimit,  \* MAX_OAUTH_CLIENTS
  GrantLimit,   \* MAX_OAUTH_GRANTS
  ConsentLimit, \* MAX_PENDING_CONSENTS
  ConsentTtl,   \* CONSENT_TTL_MS
  StaleAge,     \* STALE_CLIENT_AGE_MS
  CleanupBatch, \* MAX_GRANT_CLEANUP_BATCH
  Budget,       \* OWNER_CLEANUP_EXTERNAL_CALL_LIMIT
  MaxGen,       \* the last safe generation: Number.MAX_SAFE_INTEGER
  MaxFaults,    \* bound on failed KV calls and requests that end early
  LastTime      \* bound on the clock

ASSUME RegistryAssumption ==
  /\ {MaxConsents, MaxTokens, ConsentTtl, StaleAge, Budget, MaxGen, MaxFaults, LastTime} \subseteq Nat
  /\ {ClientLimit, GrantLimit, ConsentLimit, CleanupBatch} \subseteq Nat \ {0}
  /\ ConsentTtl < StaleAge

Ids == 1..MaxConsents
NoClient == [gen |-> -1, created |-> 0]
NoPost == [at |-> "idle"]
NoExchange == [at |-> "idle"]
\* minimumStepCalls of the provider's cleanup.
StepCalls == 4

VARIABLES
  now,       \* Date.now()
  clients,   \* client_generations: [Clients -> generation and creation time]
  consents,  \* client_consents: pending consent ids
  grants,    \* client_grants: [id, pending]
  revoked,   \* revoked_grants: durable denials
  issued,    \* what the provider keeps of each consent: its client, generation and time
  kv,        \* ids whose grant record the provider's KV holds
  tokens,    \* [Ids -> token keys of the grant in KV]
  exchange,  \* [Exchanges -> where a token endpoint call is]
  form,      \* the browser's page has a form state that can still be used
  post,      \* [Posts -> where an owner's form post is]
  faults,    \* failures so far
  recalled,  \* ids whose client the owner has since revoked or removed
  late       \* ids whose tokens were stored after they were denied

tables == <<clients, consents, grants, revoked>>
provider == <<issued, kv, tokens, exchange>>
console == <<form, post>>
vars == <<now, tables, provider, console, faults, recalled, late>>

Init ==
  /\ now = 1
  /\ clients = [c \in Clients |-> NoClient]
  /\ consents = {} /\ grants = {} /\ revoked = {}
  /\ issued = [i \in {} |-> NoClient]
  /\ kv = {} /\ tokens = [i \in Ids |-> 0]
  /\ exchange = [x \in Exchanges |-> NoExchange]
  /\ form = FALSE
  /\ post = [p \in Posts |-> NoPost]
  /\ faults = 0 /\ recalled = {} /\ late = {}

Known(c) == clients[c].gen >= 0
Begun == DOMAIN issued
Of(c) == {i \in Begun : issued[i].client = c}
Rows(c) == {g \in grants : g.id \in Of(c)}
HasRow(i) == \E g \in grants : g.id = i
Accepted(c) == {g.id : g \in Rows(c)}

Tick ==
  /\ now < LastTime /\ now' = now + 1
  /\ UNCHANGED <<tables, provider, console, faults, recalled, late>>

-----------------------------------------------------------------------------
(* Consent and the token endpoint.                                          *)

\* approveConsent has spent the browser's handle; beginClientConsent records
\* the client, drops the consents that expired and starts a new one.
BeginConsent(c) ==
  LET i   == Cardinality(Begun) + 1
      row == IF Known(c) THEN clients[c] ELSE [gen |-> 0, created |-> now]
      young == {j \in consents : issued[j].at > now - ConsentTtl}
  IN /\ i \in Ids
     /\ Known(c) \/ Cardinality({d \in Clients : Known(d)}) < ClientLimit
     /\ Cardinality(young) < ConsentLimit
     /\ clients' = [clients EXCEPT ![c] = row]
     /\ consents' = young \cup {i}
     /\ issued' = [j \in 1..i |-> IF j < i THEN issued[j]
                                  ELSE [client |-> c, gen |-> row.gen, at |-> now]]
     /\ UNCHANGED <<now, grants, revoked, kv, tokens, exchange, console, faults, recalled, late>>

\* completeAuthorization: the provider stores the grant, with its code.  It is
\* called once for a consent; only a denied grant ever leaves the store again.
CompleteAuthorization(i) ==
  /\ i \in Begun \ (kv \cup revoked)
  /\ kv' = kv \cup {i}
  /\ UNCHANGED <<now, tables, issued, tokens, exchange, console, faults, recalled, late>>

\* A call with a code or a refresh token of grant i, which the provider knows.
StartExchange(x, i) ==
  /\ exchange[x].at = "idle" /\ i \in kv /\ tokens[i] < MaxTokens
  /\ exchange' = [exchange EXCEPT ![x] = [at |-> "callback", id |-> i]]
  /\ UNCHANGED <<now, tables, issued, kv, tokens, console, faults, recalled, late>>

\* Mutant: the generation alone decides.
Admissible_GenerationOnly(i) ==
  /\ clients[issued[i].client].gen = issued[i].gen
  /\ HasRow(i) \/ Cardinality(grants) < GrantLimit

\* registerClientGrant: the client's generation is the consent's, and either
\* the grant is on record or its consent is still waiting for it.
Admissible(i) ==
  /\ clients[issued[i].client].gen = issued[i].gen
  /\ HasRow(i) \/ (i \in consents /\ Cardinality(grants) < GrantLimit)

\* tokenExchangeCallback: an inadmissible grant is answered with invalid_grant.
RegisterGrant(x) ==
  LET i == exchange[x].id
  IN /\ exchange[x].at = "callback"
     /\ IF Admissible(i)
        THEN /\ exchange' = [exchange EXCEPT ![x].at = "issue"]
             /\ grants' = IF HasRow(i) THEN grants
                          ELSE grants \cup {[id |-> i, pending |-> FALSE]}
             /\ consents' = consents \ {i}
        ELSE /\ exchange' = [exchange EXCEPT ![x] = NoExchange]
             /\ UNCHANGED <<grants, consents>>
     /\ UNCHANGED <<now, clients, revoked, issued, kv, tokens, console, faults, recalled, late>>

\* The provider stores the new token and the grant's record, whatever has
\* happened to the grant since its callback.
IssueToken(x) ==
  LET i == exchange[x].id
  IN /\ exchange[x].at = "issue"
     /\ exchange' = [exchange EXCEPT ![x] = NoExchange]
     /\ tokens' = [tokens EXCEPT ![i] = IF @ < MaxTokens THEN @ + 1 ELSE @]
     /\ kv' = kv \cup {i}
     /\ late' = IF i \in revoked THEN late \cup {i} ELSE late
     /\ UNCHANGED <<now, tables, issued, console, faults, recalled>>

-----------------------------------------------------------------------------
(* The owner's console.                                                     *)

\* Mutant: an old registration is swept although its consent is fresh.
Stale_ConsentIgnored(c) ==
  Known(c) /\ clients[c].created < now - StaleAge /\ Rows(c) = {}

Stale(c) ==
  /\ Known(c) /\ clients[c].created < now - StaleAge
  /\ Rows(c) = {}
  /\ \A i \in consents \cap Of(c) : issued[i].at <= now - ConsentTtl

\* GET /owner/clients: a new form state replaces the browser's last one, then
\* sweepStaleClients and the list.
OpenPage ==
  LET swept == {c \in Clients : Stale(c)}
  IN /\ form' = TRUE
     /\ consents' = consents \ UNION {Of(c) : c \in swept}
     /\ clients' = [c \in Clients |-> IF c \in swept THEN NoClient ELSE clients[c]]
     /\ UNCHANGED <<now, grants, revoked, provider, post, faults, recalled, late>>

\* OWNER_STATE_TTL_MS has passed.
FormExpires ==
  /\ form /\ form' = FALSE
  /\ UNCHANGED <<now, tables, provider, post, faults, recalled, late>>

\* A form is posted: its state is consumed before anything else is done, so a
\* second post of the same page, or one of an older page, changes nothing.
ConsumeForm(p, op, c) ==
  /\ post[p].at = "idle" /\ form
  /\ form' = FALSE
  /\ post' = [post EXCEPT ![p] = [at |-> op, client |-> c]]
  /\ UNCHANGED <<now, tables, provider, faults, recalled, late>>

\* Mutant: a revoked client can be removed while its cleanup is pending.
Removable_WhilePending(c) ==
  clients[c].gen > 0 /\ \A g \in Rows(c) : g.id \in revoked

Removable(c) ==
  clients[c].gen > 0 /\ \A g \in Rows(c) : ~g.pending /\ g.id \in revoked

RemoveClient(p) ==
  LET c == post[p].client
  IN /\ post[p].at = "remove"
     /\ post' = [post EXCEPT ![p] = NoPost]
     /\ IF Removable(c)
        THEN /\ consents' = consents \ Of(c)
             /\ grants' = grants \ Rows(c)
             /\ clients' = [clients EXCEPT ![c] = NoClient]
             /\ recalled' = recalled \cup Of(c)
        ELSE UNCHANGED <<consents, grants, clients, recalled>>
     /\ UNCHANGED <<now, revoked, provider, form, faults, late>>

\* The first CleanupBatch of a set of grant ids.
FirstOf(s) == {i \in s : Cardinality({j \in s : j <= i}) <= CleanupBatch}

\* The next grant to clean up, or the end of the request.
NextGrant(q) ==
  IF q.todo = {} THEN NoPost
  ELSE LET i == CHOOSE i \in q.todo : \A j \in q.todo : i <= j
       IN IF q.budget < StepCalls + 1 THEN NoPost
          ELSE [q EXCEPT !.at = "list", !.id = i, !.todo = @ \ {i}]

\* revokeClient of the registry: one transaction closes the generation, drops
\* the consents and denies every grant; it hands some out for cleanup.
RevokeClient(p) ==
  LET c == post[p].client
      pending == {g.id : g \in {r \in Rows(c) : r.pending \/ r.id \notin revoked}}
  IN /\ post[p].at = "revoke"
     /\ IF Known(c) /\ clients[c].gen < MaxGen
        THEN /\ clients' = [clients EXCEPT ![c].gen = @ + 1]
             /\ consents' = consents \ Of(c)
             /\ grants' = (grants \ Rows(c))
                  \cup {[id |-> i, pending |-> i \in pending] : i \in Accepted(c)}
             /\ revoked' = revoked \cup Accepted(c)
             /\ recalled' = recalled \cup Of(c)
             /\ post' = [post EXCEPT ![p] =
                  NextGrant([at |-> "list", client |-> c, id |-> 0,
                             todo |-> FirstOf(pending), budget |-> Budget - 2])]
        ELSE /\ post' = [post EXCEPT ![p] = NoPost]
             /\ UNCHANGED <<clients, consents, grants, revoked, recalled>>
     /\ UNCHANGED <<now, provider, form, faults, late>>

\* The request goes on with n calls less: the same grant again if the budget
\* has a step and its completion left, else the next grant.
Again(q, n) ==
  LET left == [q EXCEPT !.budget = @ - n]
  IN IF left.budget >= StepCalls + 1 THEN [left EXCEPT !.at = "list"] ELSE NextGrant(left)

\* cleanupStep lists one token key under each of the two prefixes.
ListTokens(p) ==
  LET q == post[p]
      calls == IF q.id \in Legacy /\ tokens[q.id] > 0 THEN 1 ELSE 2
  IN /\ q.at = "list"
     /\ post' = [post EXCEPT ![p] =
          [q EXCEPT !.at = IF tokens[q.id] > 0 THEN "drop" ELSE "erase",
                    !.budget = @ - calls]]
     /\ UNCHANGED <<now, tables, provider, form, faults, recalled, late>>

\* The token that was found is deleted; the step is not complete.
DropToken(p) ==
  LET q == post[p]
  IN /\ q.at = "drop"
     /\ tokens' = [tokens EXCEPT ![q.id] = IF @ > 0 THEN @ - 1 ELSE 0]
     /\ post' = [post EXCEPT ![p] = Again(q, 1)]
     /\ UNCHANGED <<now, tables, issued, kv, exchange, form, faults, recalled, late>>

\* No token was found: both grant records are deleted.
EraseGrant(p) ==
  LET q == post[p]
  IN /\ q.at = "erase"
     /\ kv' = kv \ {q.id}
     /\ post' = [post EXCEPT ![p] = [q EXCEPT !.at = "mark", !.budget = @ - 2]]
     /\ UNCHANGED <<now, tables, issued, tokens, exchange, form, faults, recalled, late>>

\* markGrantCleanupComplete, and the next grant.
MarkComplete(p) ==
  LET q == post[p]
  IN /\ q.at = "mark"
     /\ grants' = {IF g.id = q.id THEN [g EXCEPT !.pending = FALSE] ELSE g : g \in grants}
     /\ post' = [post EXCEPT ![p] = NextGrant([q EXCEPT !.budget = @ - 1])]
     /\ UNCHANGED <<now, clients, consents, revoked, provider, form,
                    faults, recalled, late>>

\* A call of the cleanup throws: the request leaves this grant pending.
CleanupFails(p) ==
  /\ post[p].at \in {"list", "drop", "erase", "mark"} /\ faults < MaxFaults
  /\ faults' = faults + 1
  /\ post' = [post EXCEPT ![p] = NextGrant(post[p])]
  /\ UNCHANGED <<now, tables, provider, form, recalled, late>>

\* The Worker that serves a post stops; what it has done stays.
PostDies(p) ==
  /\ post[p].at # "idle" /\ faults < MaxFaults
  /\ faults' = faults + 1
  /\ post' = [post EXCEPT ![p] = NoPost]
  /\ UNCHANGED <<now, tables, provider, form, recalled, late>>

-----------------------------------------------------------------------------
Next ==
  \/ Tick
  \/ \E c \in Clients : BeginConsent(c)
  \/ \E i \in Ids : CompleteAuthorization(i)
  \/ \E x \in Exchanges, i \in Ids : StartExchange(x, i)
  \/ \E x \in Exchanges : RegisterGrant(x) \/ IssueToken(x)
  \/ OpenPage \/ FormExpires
  \/ \E p \in Posts, op \in {"remove", "revoke"}, c \in Clients : ConsumeForm(p, op, c)
  \/ \E p \in Posts : RemoveClient(p) \/ RevokeClient(p)
  \/ \E p \in Posts : ListTokens(p) \/ DropToken(p) \/ EraseGrant(p) \/ MarkComplete(p)
  \/ \E p \in Posts : CleanupFails(p) \/ PostDies(p)

Spec == Init /\ [][Next]_vars

-----------------------------------------------------------------------------
\* A token of a consent that the owner has recalled opens nothing: however the
\* exchange raced with the revocation, and although the client was removed,
\* came back and is at generation 0 again, its grant is on the list of denials.
RecalledNeverUsable == \A i \in recalled : tokens[i] > 0 => i \in revoked

\* Until the owner recalls it, an approved consent that has not expired is
\* acceptable: no sweep of stale registrations and no purge takes it away.
CurrentConsentStands ==
  \A i \in Begun \ recalled :
    issued[i].at > now - ConsentTtl =>
      (HasRow(i) \/ i \in consents) /\ clients[issued[i].client].gen = issued[i].gen

\* What the provider still holds of a denied grant stays on the owner's list as
\* pending, so that Revoke can be repeated and Remove waits, unless it was
\* stored by an exchange that the denial overtook.
LeftoversStayListed ==
  \A i \in revoked \ late :
    i \in kv \/ tokens[i] > 0 => \E g \in grants : g.id = i /\ g.pending
=============================================================================
