------------------------- MODULE ClientRegistryProofs -------------------------
(***************************************************************************)
(* Theorems about ClientRegistry, for any clients, consents, exchanges and  *)
(* posts, any limits, and any number of failures.                           *)
(***************************************************************************)
EXTENDS ClientRegistry, FiniteSetTheorems, WellFoundedInduction, TLAPS

-----------------------------------------------------------------------------
(* The inductive invariant.                                                 *)

Steps == {"list", "drop", "erase", "mark"}
Cleanup == [at : Steps, client : Clients, id : Ids, todo : SUBSET Ids, budget : Int]
Call == [at : {"callback", "issue"}, id : Ids]
FormPost == [at : {"remove", "revoke"}, client : Clients]

\* The shapes that the argument needs.
ConsentShapes ==
  /\ now \in Nat
  /\ clients \in [Clients -> [gen : Nat \cup {-1}, created : Nat]]
  /\ \E n \in 0..MaxConsents : issued \in [1..n -> [client : Clients, gen : Nat, at : Nat]]
  /\ consents \subseteq Begun /\ recalled \subseteq Begun
GrantShapes ==
  /\ grants \subseteq [id : Ids, pending : BOOLEAN]
  /\ kv \subseteq Ids /\ revoked \subseteq Ids
  /\ tokens \in [Ids -> Nat]
  /\ exchange \in [Exchanges -> {NoExchange} \cup Call]
PostShapes == post \in [Posts -> {NoPost} \cup FormPost \cup Cleanup]
Shapes == ConsentShapes /\ GrantShapes /\ PostShapes

\* A grant is on record, or denied, before the provider issues a token for it.
IssuedIsOnRecord ==
  \A i \in Ids :
    \/ tokens[i] > 0
    \/ \E x \in Exchanges : exchange[x].at = "issue" /\ exchange[x].id = i
    => HasRow(i) \/ i \in revoked

\* A consent that the owner recalled never becomes admissible again.
RecallIsFinal == \A i \in recalled : i \notin consents /\ (HasRow(i) => i \in revoked)

\* A cleanup works on denied grants, and what it has not found, or has deleted,
\* comes back only by an exchange that the denial overtook.
CleanupHolds ==
  \A p \in Posts : post[p].at \in Steps =>
    /\ post[p].id \in revoked /\ post[p].todo \subseteq revoked
    /\ post[p].at \in {"erase", "mark"} /\ post[p].id \notin late => tokens[post[p].id] = 0
    /\ post[p].at = "mark" /\ post[p].id \notin late => post[p].id \notin kv

Inv == /\ Shapes /\ IssuedIsOnRecord /\ RecallIsFinal /\ CleanupHolds
       /\ CurrentConsentStands /\ LeftoversStayListed

-----------------------------------------------------------------------------
(* What the operators return.                                               *)

\* A set of ids has a least one, so that NextGrant finds a grant.
LEMMA LeastId ==
  ASSUME NEW T, T \subseteq Nat, T # {}
  PROVE  \E i \in T : \A j \in T : i <= j
<1> DEFINE Less == {ss \in Nat \X Nat : ss[1] < ss[2]}
<1>1. IsWellFoundedOn(Less, Nat)
  BY NatLessThanWellFounded DEF OpToRel
<1> HIDE DEF Less
<1>2. PICK i \in T : \A j \in T : <<j, i>> \notin Less
  BY <1>1, WFMin
<1>3. \A j \in T : <<j, i>> \in Nat \X Nat
  OBVIOUS
<1>4. \A j \in T : ~(j < i)
  BY <1>2, <1>3 DEF Less
<1>5. QED
  BY <1>4

\* NextGrant ends the request, or lists a grant of what was left to do.
LEMMA NextGrantGoesOn ==
  ASSUME NEW c \in Clients, NEW a \in Steps, NEW d \in Nat, NEW T \in SUBSET Ids, NEW n \in Int,
         NEW q, q = [at |-> a, client |-> c, id |-> d, todo |-> T, budget |-> n]
  PROVE  \/ NextGrant(q) = NoPost
         \/ /\ NextGrant(q) \in Cleanup /\ NextGrant(q).at = "list"
            /\ NextGrant(q).id \in T /\ NextGrant(q).todo \subseteq T
<1>1. CASE T = {}
  BY <1>1 DEF NextGrant
<1>2. CASE T # {}
  <2>1. T \subseteq Nat
    BY RegistryAssumption DEF Ids
  <2> DEFINE i == CHOOSE i \in q.todo : \A j \in q.todo : i <= j
  <2>2. i \in T
    BY <2>1, <1>2, LeastId
  <2>3. NextGrant(q) = IF q.budget < StepCalls + 1 THEN NoPost
                       ELSE [q EXCEPT !.at = "list", !.id = i, !.todo = @ \ {i}]
    BY <1>2, Zenon DEF NextGrant
  <2> HIDE DEF i
  <2>4. QED
    BY <2>2, <2>3 DEF Cleanup, Steps
<1>3. QED
  BY <1>1, <1>2

\* The members of a cleanup.
LEMMA CleanupParts ==
  ASSUME NEW p \in Posts, Shapes, post[p].at \in Steps
  PROVE  /\ post[p] \in Cleanup
         /\ post[p] = [at |-> post[p].at, client |-> post[p].client, id |-> post[p].id,
                       todo |-> post[p].todo, budget |-> post[p].budget]
<1>1. post[p] \in {NoPost} \cup FormPost \cup Cleanup
  BY DEF Shapes, PostShapes
<1>2. post[p] \in Cleanup
  BY <1>1 DEF NoPost, FormPost, Steps
<1>3. QED
  BY <1>2 DEF Cleanup

\* A cleanup that goes on with its grant.
LEMMA CleanupGoesOn ==
  ASSUME NEW q \in Cleanup, NEW a \in Steps, NEW k \in {1, 2}
  PROVE  LET r == [q EXCEPT !.at = a, !.budget = @ - k]
         IN  r \in Cleanup /\ r.at = a /\ r.id = q.id /\ r.todo = q.todo
<1> DEFINE m == q.budget - k
<1>1. m \in Int
  BY DEF Cleanup
<1>2. [q EXCEPT !.at = a, !.budget = @ - k] = [q EXCEPT !.at = a, !.budget = m]
  BY DEF Cleanup
<1> HIDE DEF m
<1>3. QED
  BY <1>1, <1>2 DEF Cleanup

\* What is known of a consent.
LEMMA BegunParts ==
  ASSUME Shapes, NEW i \in Begun
  PROVE  i \in Ids /\ issued[i] \in [client : Clients, gen : Nat, at : Nat]
<1>1. PICK n \in 0..MaxConsents : issued \in [1..n -> [client : Clients, gen : Nat, at : Nat]]
  BY DEF Shapes, ConsentShapes
<1>2. QED
  BY <1>1, RegistryAssumption DEF Begun, Ids

-----------------------------------------------------------------------------
(* The steps preserve the invariant.                                        *)

\* At first there is nothing.
LEMMA InitInv == Init => Inv
<1> SUFFICES ASSUME Init PROVE Inv
  OBVIOUS
<1>1. Shapes
  <2>1. clients \in [Clients -> [gen : Nat \cup {-1}, created : Nat]]
    BY DEF Init, NoClient
  <2>2. issued \in [1..0 -> [client : Clients, gen : Nat, at : Nat]] /\ 0 \in 0..MaxConsents
    BY RegistryAssumption DEF Init
  <2>3. tokens \in [Ids -> Nat] /\ now \in Nat
    BY DEF Init
  <2>4. exchange \in [Exchanges -> {NoExchange} \cup Call]
    BY DEF Init
  <2>5. post \in [Posts -> {NoPost} \cup FormPost \cup Cleanup]
    BY DEF Init
  <2>6. consents = {} /\ recalled = {} /\ grants = {} /\ kv = {}
    BY DEF Init
  <2>7. revoked = {}
    BY DEF Init
  <2>8. QED
    BY <2>1, <2>2, <2>3, <2>4, <2>5, <2>6, <2>7 DEF Shapes, ConsentShapes, GrantShapes, PostShapes
<1>2. \A x \in Exchanges : exchange[x].at # "issue"
  BY DEF Init, NoExchange
<1>3. \A p \in Posts : post[p].at \notin Steps
  BY DEF Init, NoPost, Steps
<1>4. IssuedIsOnRecord /\ RecallIsFinal /\ CleanupHolds
  BY <1>2, <1>3 DEF Init, IssuedIsOnRecord, RecallIsFinal, CleanupHolds
<1>5. Begun = {}
  BY DEF Init, Begun
<1>6. CurrentConsentStands /\ LeftoversStayListed
  BY <1>5 DEF Init, CurrentConsentStands, LeftoversStayListed
<1>7. QED
  BY <1>1, <1>4, <1>6 DEF Inv

\* A consent adds a number that was not used yet, and takes no other away that
\* has not expired: a client whose generation it sets anew had none.
LEMMA ConsentInv ==
  ASSUME Inv, NEW c \in Clients, BeginConsent(c)
  PROVE  Inv'
<1> DEFINE i == Cardinality(Begun) + 1
           row == IF Known(c) THEN clients[c] ELSE [gen |-> 0, created |-> now]
           young == {j \in consents : issued[j].at > now - ConsentTtl}
<1>1. PICK n \in 0..MaxConsents : issued \in [1..n -> [client : Clients, gen : Nat, at : Nat]]
  BY DEF Inv, Shapes, ConsentShapes
<1>2. Begun = 1..n /\ i = n + 1
  BY <1>1, FS_Interval DEF Begun
<1> HIDE DEF i
<1>3. /\ i \in Ids
      /\ clients' = [clients EXCEPT ![c] = row] /\ consents' = young \cup {i}
      /\ issued' = [j \in 1..i |-> IF j < i THEN issued[j]
                                   ELSE [client |-> c, gen |-> row.gen, at |-> now]]
      /\ UNCHANGED <<now, grants, revoked, kv, tokens, exchange, console, faults, recalled, late>>
  BY DEF BeginConsent, i
<1>4. row \in [gen : Nat, created : Nat]
  BY DEF Inv, Shapes, ConsentShapes, Known
<1> HIDE DEF row
<1>5. Begun' = Begun \cup {i} /\ i \notin Begun
  BY <1>2, <1>3, RegistryAssumption DEF Begun, Ids
<1>6. \A j \in Begun : issued'[j] = issued[j]
  BY <1>1, <1>2, <1>3
<1>7. issued'[i] = [client |-> c, gen |-> row.gen, at |-> now]
  BY <1>2, <1>3
<1>8. Shapes'
  <2>1. clients' \in [Clients -> [gen : Nat \cup {-1}, created : Nat]]
    BY <1>3, <1>4 DEF Inv, Shapes, ConsentShapes
  <2>2. i \in 0..MaxConsents /\ issued' \in [1..i -> [client : Clients, gen : Nat, at : Nat]]
    <3>1. i \in 0..MaxConsents
      BY <1>3, RegistryAssumption DEF Ids
    <3>2. [client |-> c, gen |-> row.gen, at |-> now] \in [client : Clients, gen : Nat, at : Nat]
      BY <1>4 DEF Inv, Shapes, ConsentShapes
    <3>3. QED
      BY <1>1, <1>2, <1>3, <3>1, <3>2
  <2>3. consents' \subseteq Begun' /\ recalled' \subseteq Begun'
    BY <1>3, <1>5 DEF Inv, Shapes, ConsentShapes
  <2>4. QED
    BY <1>3, <2>1, <2>2, <2>3 DEF Inv, Shapes, ConsentShapes, GrantShapes, PostShapes, console
<1>9. IssuedIsOnRecord' /\ CleanupHolds' /\ LeftoversStayListed'
  BY <1>3 DEF Inv, IssuedIsOnRecord, CleanupHolds, LeftoversStayListed, HasRow, console
<1>10. RecallIsFinal'
  BY <1>3, <1>5 DEF Inv, Shapes, ConsentShapes, RecallIsFinal, HasRow
<1>11. CurrentConsentStands'
  <2> SUFFICES ASSUME NEW j \in Begun' \ recalled', issued'[j].at > now' - ConsentTtl
               PROVE  /\ HasRow(j)' \/ j \in consents'
                      /\ clients'[issued'[j].client].gen = issued'[j].gen
    BY DEF CurrentConsentStands
  <2>1. CASE j = i
    BY <2>1, <1>3, <1>7 DEF Inv, Shapes, ConsentShapes
  <2>2. CASE j \in Begun
    <3>1. issued'[j] = issued[j] /\ issued[j].at > now - ConsentTtl
      BY <1>3, <1>6, <2>2
    <3>2. (HasRow(j) \/ j \in consents) /\ clients[issued[j].client].gen = issued[j].gen
      BY <1>3, <3>1, <2>2 DEF Inv, CurrentConsentStands
    <3>3. issued[j].client \in Clients /\ issued[j].gen \in Nat
      BY <1>1, <1>2, <2>2
    <3>4. issued[j].client = c => row = clients[c]
      BY <3>2, <3>3 DEF Known, row
    <3>5. QED
      BY <1>3, <3>1, <3>2, <3>3, <3>4 DEF Inv, Shapes, ConsentShapes, HasRow
  <2>3. QED
    BY <1>5, <2>1, <2>2
<1>12. QED
  BY <1>8, <1>9, <1>10, <1>11 DEF Inv

\* Time only ends consents.
LEMMA TickInv ==
  ASSUME Inv, Tick
  PROVE  Inv'
<1>1. now' = now + 1 /\ UNCHANGED <<tables, provider, console, recalled, late>>
  BY DEF Tick
<1>2. UNCHANGED <<clients, consents, grants, revoked, issued, kv, tokens, exchange, post, recalled, late>>
  BY <1>1 DEF tables, provider, console
<1>3. now \in Nat /\ ConsentTtl \in Nat /\ \A i \in Begun : issued[i].at \in Nat
  BY RegistryAssumption DEF Inv, Shapes, ConsentShapes, Begun
<1>4. Shapes'
  BY <1>1, <1>2, <1>3 DEF Inv, Shapes, ConsentShapes, GrantShapes, PostShapes, Begun
<1>5. IssuedIsOnRecord' /\ RecallIsFinal' /\ CleanupHolds' /\ LeftoversStayListed'
  BY <1>2 DEF Inv, IssuedIsOnRecord, RecallIsFinal, CleanupHolds, LeftoversStayListed, HasRow
<1>6. CurrentConsentStands'
  BY <1>1, <1>2, <1>3 DEF Inv, CurrentConsentStands, HasRow, Begun
<1>7. QED
  BY <1>4, <1>5, <1>6 DEF Inv

\* The provider stores a grant, and starts a call, only for what was not denied
\* or is still looked up.
LEMMA ProviderInv ==
  ASSUME Inv, NEW i \in Ids,
         CompleteAuthorization(i) \/ \E x \in Exchanges : StartExchange(x, i)
  PROVE  Inv'
<1>1. UNCHANGED <<now, tables, issued, tokens, console, faults, recalled, late>>
  BY DEF CompleteAuthorization, StartExchange
<1>2. \/ kv' = kv \cup {i} /\ i \notin revoked /\ exchange' = exchange
      \/ /\ kv' = kv
         /\ \E x \in Exchanges : exchange' = [exchange EXCEPT ![x] = [at |-> "callback", id |-> i]]
  BY DEF CompleteAuthorization, StartExchange
<1>3. Shapes'
  <2>1. [at |-> "callback", id |-> i] \in Call
    BY DEF Call
  <2>2. exchange' \in [Exchanges -> {NoExchange} \cup Call] /\ kv' \subseteq Ids
    BY <1>2, <2>1 DEF Inv, Shapes, GrantShapes
  <2>3. QED
    BY <1>1, <2>2 DEF Inv, Shapes, ConsentShapes, GrantShapes, PostShapes, Begun, tables, console
<1>4. \A y \in Exchanges : exchange'[y].at = "issue" => exchange'[y] = exchange[y]
  BY <1>2 DEF Inv, Shapes, GrantShapes
<1>5. IssuedIsOnRecord' /\ RecallIsFinal' /\ CurrentConsentStands'
  BY <1>1, <1>4 DEF Inv, IssuedIsOnRecord, RecallIsFinal, CurrentConsentStands, HasRow, Begun, tables
<1>6. CleanupHolds' /\ LeftoversStayListed'
  BY <1>1, <1>2 DEF Inv, CleanupHolds, LeftoversStayListed, HasRow, tables, console
<1>7. QED
  BY <1>3, <1>5, <1>6 DEF Inv

\* The callback registers only what is admissible, and nothing recalled is.
LEMMA RegisterInv ==
  ASSUME Inv, NEW x \in Exchanges, RegisterGrant(x)
  PROVE  Inv'
<1>1. PICK i \in Ids : exchange[x] = [at |-> "callback", id |-> i]
  BY DEF Inv, Shapes, GrantShapes, RegisterGrant, NoExchange, Call
<1>2. UNCHANGED <<now, clients, revoked, issued, kv, tokens, console, faults, recalled, late>>
  BY DEF RegisterGrant
<1>3. CASE Admissible(i)
  <2>1. /\ exchange' = [exchange EXCEPT ![x].at = "issue"]
        /\ grants' = IF HasRow(i) THEN grants ELSE grants \cup {[id |-> i, pending |-> FALSE]}
        /\ consents' = consents \ {i}
    BY <1>1, <1>3 DEF RegisterGrant
  <2>2. exchange' \in [Exchanges -> {NoExchange} \cup Call] /\ exchange'[x].id = i
    BY <1>1, <2>1 DEF Inv, Shapes, GrantShapes, Call
  <2>3. /\ grants' \subseteq [id : Ids, pending : BOOLEAN]
        /\ \A j \in Ids : HasRow(j)' <=> (HasRow(j) \/ j = i)
    <3> DEFINE row == [id |-> i, pending |-> FALSE]
    <3>1. row \in [id : Ids, pending : BOOLEAN] /\ row.id = i
      OBVIOUS
    <3> HIDE DEF row
    <3>2. CASE HasRow(i)
      BY <2>1, <3>2 DEF Inv, Shapes, GrantShapes, HasRow
    <3>3. CASE ~HasRow(i)
      <4>1. grants' = grants \cup {row}
        BY <2>1, <3>3 DEF row
      <4>2. QED
        BY <4>1, <3>1 DEF Inv, Shapes, GrantShapes, HasRow
    <3>4. QED
      BY <3>2, <3>3
  <2>4. Shapes'
    BY <1>2, <2>1, <2>2, <2>3
    DEF Inv, Shapes, ConsentShapes, GrantShapes, PostShapes, Begun, console
  <2>5. \A y \in Exchanges : y # x => exchange'[y] = exchange[y]
    BY <2>1 DEF Inv, Shapes, GrantShapes
  <2>6. IssuedIsOnRecord'
    BY <1>2, <2>2, <2>3, <2>5 DEF Inv, IssuedIsOnRecord
  <2>7. RecallIsFinal'
    <3>1. HasRow(i) \/ i \in consents
      BY <1>3 DEF Admissible
    <3>2. recalled \subseteq Ids
      BY RegistryAssumption DEF Inv, Shapes, ConsentShapes, Begun, Ids
    <3>3. QED
      BY <1>2, <2>1, <2>3, <3>1, <3>2 DEF Inv, RecallIsFinal
  <2>8. CurrentConsentStands'
    <3>1. Begun \subseteq Ids /\ Begun' = Begun
      BY <1>2, RegistryAssumption DEF Inv, Shapes, ConsentShapes, Begun, Ids
    <3>2. QED
      BY <1>2, <2>1, <2>3, <3>1 DEF Inv, CurrentConsentStands
  <2>9. CleanupHolds' /\ LeftoversStayListed'
    BY <1>2, <2>1 DEF Inv, CleanupHolds, LeftoversStayListed, console
  <2>10. QED
    BY <2>4, <2>6, <2>7, <2>8, <2>9 DEF Inv
<1>4. CASE ~Admissible(i)
  <2>1. exchange' = [exchange EXCEPT ![x] = NoExchange] /\ UNCHANGED <<grants, consents>>
    BY <1>1, <1>4 DEF RegisterGrant
  <2>2. Shapes'
    BY <1>2, <2>1 DEF Inv, Shapes, ConsentShapes, GrantShapes, PostShapes, Begun, console
  <2>3. \A y \in Exchanges : exchange'[y].at = "issue" => exchange'[y] = exchange[y]
    BY <2>1 DEF Inv, Shapes, GrantShapes, NoExchange
  <2>4. IssuedIsOnRecord' /\ RecallIsFinal' /\ CurrentConsentStands'
    BY <1>2, <2>1, <2>3 DEF Inv, IssuedIsOnRecord, RecallIsFinal, CurrentConsentStands, HasRow, Begun
  <2>5. CleanupHolds' /\ LeftoversStayListed'
    BY <1>2, <2>1 DEF Inv, CleanupHolds, LeftoversStayListed, console
  <2>6. QED
    BY <2>2, <2>4, <2>5 DEF Inv
<1>5. QED
  BY <1>3, <1>4

\* A token is issued for a grant on record or a denied one; what is stored for
\* a denied one is late.
LEMMA IssueInv ==
  ASSUME Inv, NEW x \in Exchanges, IssueToken(x)
  PROVE  Inv'
<1>1. PICK i \in Ids : exchange[x] = [at |-> "issue", id |-> i]
  BY DEF Inv, Shapes, GrantShapes, IssueToken, NoExchange, Call
<1>2. /\ exchange' = [exchange EXCEPT ![x] = NoExchange]
      /\ tokens' = [tokens EXCEPT ![i] = IF @ < MaxTokens THEN @ + 1 ELSE @]
      /\ kv' = kv \cup {i}
      /\ late' = IF i \in revoked THEN late \cup {i} ELSE late
      /\ UNCHANGED <<now, tables, issued, console, faults, recalled>>
  BY <1>1 DEF IssueToken
<1>3. \A j \in Ids : j # i => tokens'[j] = tokens[j]
  BY <1>2 DEF Inv, Shapes, GrantShapes
<1>4. Shapes'
  <2>1. tokens' \in [Ids -> Nat]
    BY <1>1, <1>2 DEF Inv, Shapes, GrantShapes
  <2>2. QED
    BY <1>2, <2>1 DEF Inv, Shapes, ConsentShapes, GrantShapes, PostShapes, Begun, tables, console
<1>5. HasRow(i) \/ i \in revoked
  BY <1>1 DEF Inv, IssuedIsOnRecord, IssueToken
<1>6. IssuedIsOnRecord'
  <2>1. \A y \in Exchanges : exchange'[y].at = "issue" => exchange'[y] = exchange[y]
    BY <1>2 DEF Inv, Shapes, GrantShapes, NoExchange
  <2>2. QED
    BY <1>2, <1>3, <1>5, <2>1 DEF Inv, IssuedIsOnRecord, HasRow, tables
<1>7. RecallIsFinal' /\ CurrentConsentStands'
  BY <1>2 DEF Inv, RecallIsFinal, CurrentConsentStands, HasRow, Begun, tables
<1>8. CleanupHolds'
  <2>1. \A p \in Posts : post[p].at \in Steps => post[p].id \in Ids
    BY CleanupParts DEF Inv, Cleanup
  <2>2. QED
    BY <1>2, <1>3, <2>1 DEF Inv, CleanupHolds, tables, console
<1>9. LeftoversStayListed'
  <2>1. \A j \in revoked' \ late' : j # i
    BY <1>2 DEF tables
  <2>2. \A j \in revoked' \ late' : (j \in kv' => j \in kv) /\ j \in revoked \ late
    BY <1>2, <2>1 DEF tables
  <2>3. QED
    BY <1>2, <1>3, <2>1, <2>2 DEF Inv, Shapes, GrantShapes, LeftoversStayListed, tables
<1>10. QED
  BY <1>4, <1>6, <1>7, <1>8, <1>9 DEF Inv

\* The page and the posted form leave the tables alone, but for the sweep of
\* clients that have no row and no consent that is still good.
LEMMA PageInv ==
  ASSUME Inv, OpenPage \/ FormExpires
  PROVE  Inv'
<1> DEFINE swept == {c \in Clients : Stale(c)}
<1>1. UNCHANGED <<now, grants, revoked, issued, kv, tokens, exchange, post, recalled, late>>
  BY DEF OpenPage, FormExpires, tables, provider
<1>2. \/ /\ consents' = consents \ UNION {Of(c) : c \in swept}
         /\ clients' = [c \in Clients |-> IF c \in swept THEN NoClient ELSE clients[c]]
      \/ UNCHANGED <<consents, clients>>
  BY DEF OpenPage, FormExpires, tables
<1>3. consents' \subseteq consents
  BY <1>2
<1>4. Shapes'
  <2>1. NoClient \in [gen : Nat \cup {-1}, created : Nat]
    BY DEF NoClient
  <2>2. clients' \in [Clients -> [gen : Nat \cup {-1}, created : Nat]]
    BY <1>2, <2>1 DEF Inv, Shapes, ConsentShapes
  <2>3. QED
    BY <1>1, <1>3, <2>2 DEF Inv, Shapes, ConsentShapes, GrantShapes, PostShapes, Begun
<1>5. IssuedIsOnRecord' /\ RecallIsFinal' /\ CleanupHolds' /\ LeftoversStayListed'
  BY <1>1, <1>3 DEF Inv, IssuedIsOnRecord, RecallIsFinal, CleanupHolds, LeftoversStayListed, HasRow
<1>6. ASSUME NEW i \in Begun, issued[i].at > now - ConsentTtl, HasRow(i) \/ i \in consents,
             NEW c \in swept
      PROVE  i \notin Of(c)
  <2>1. SUFFICES ASSUME i \in Of(c) PROVE FALSE
    OBVIOUS
  <2>2. Rows(c) = {} /\ \A j \in consents \cap Of(c) : issued[j].at <= now - ConsentTtl
    BY DEF Stale
  <2>3. ~HasRow(i)
    BY <2>1, <2>2 DEF Rows, HasRow
  <2>4. issued[i].at <= now - ConsentTtl
    BY <1>6, <2>1, <2>2, <2>3
  <2>5. issued[i].at \in Nat /\ now \in Nat /\ ConsentTtl \in Nat
    BY RegistryAssumption DEF Inv, Shapes, ConsentShapes, Begun
  <2>6. QED
    BY <1>6, <2>4, <2>5
<1>7. CurrentConsentStands'
  <2> SUFFICES ASSUME NEW i \in Begun \ recalled, issued[i].at > now - ConsentTtl
               PROVE  /\ HasRow(i) \/ i \in consents'
                      /\ clients'[issued[i].client].gen = issued[i].gen
    BY <1>1 DEF CurrentConsentStands, HasRow, Begun
  <2>1. (HasRow(i) \/ i \in consents) /\ clients[issued[i].client].gen = issued[i].gen
    BY DEF Inv, CurrentConsentStands
  <2>2. issued[i].client \in Clients
    BY DEF Inv, Shapes, ConsentShapes, Begun
  <2>3. \A c \in swept : i \notin Of(c)
    BY <1>6, <2>1
  <2>4. issued[i].client \notin swept
    BY <2>2, <2>3 DEF Of
  <2> HIDE DEF swept
  <2>5. QED
    BY <1>2, <2>1, <2>2, <2>3, <2>4
<1>8. QED
  BY <1>4, <1>5, <1>7 DEF Inv

\* A post that begins or ends is no cleanup.
LEMMA PostInv ==
  ASSUME Inv, NEW p \in Posts, NEW q \in {NoPost} \cup FormPost,
         post' = [post EXCEPT ![p] = q],
         UNCHANGED <<now, tables, provider, recalled, late>>
  PROVE  Inv'
<1>1. UNCHANGED <<clients, consents, grants, revoked, issued, kv, tokens, exchange>>
  BY DEF tables, provider
<1>2. q.at \notin Steps
  BY DEF NoPost, FormPost, Steps
<1>3. Shapes'
  BY <1>1 DEF Inv, Shapes, ConsentShapes, GrantShapes, PostShapes, Begun
<1>4. \A r \in Posts : post'[r].at \in Steps => post'[r] = post[r]
  BY <1>2 DEF Inv, Shapes, PostShapes
<1>5. CleanupHolds'
  BY <1>1, <1>4 DEF Inv, CleanupHolds
<1>6. IssuedIsOnRecord' /\ RecallIsFinal' /\ CurrentConsentStands' /\ LeftoversStayListed'
  BY <1>1 DEF Inv, IssuedIsOnRecord, RecallIsFinal, CurrentConsentStands, LeftoversStayListed,
       HasRow, Begun
<1>7. QED
  BY <1>3, <1>5, <1>6 DEF Inv

\* Remove takes rows away only when all of them are denied and cleaned up.
LEMMA RemoveInv ==
  ASSUME Inv, NEW p \in Posts, RemoveClient(p)
  PROVE  Inv'
<1>1. PICK c \in Clients : post[p] = [at |-> "remove", client |-> c]
  BY DEF Inv, Shapes, PostShapes, RemoveClient, NoPost, FormPost, Cleanup, Steps
<1>2. CASE ~Removable(c)
  <2>1. post' = [post EXCEPT ![p] = NoPost] /\ UNCHANGED <<now, tables, provider, recalled, late>>
    BY <1>1, <1>2 DEF RemoveClient, tables
  <2>2. QED
    BY <2>1, PostInv
<1>3. CASE Removable(c)
  <2>1. /\ post' = [post EXCEPT ![p] = NoPost]
        /\ consents' = consents \ Of(c) /\ grants' = grants \ Rows(c)
        /\ clients' = [clients EXCEPT ![c] = NoClient]
        /\ recalled' = recalled \cup Of(c)
        /\ UNCHANGED <<now, revoked, issued, kv, tokens, exchange, late>>
    BY <1>1, <1>3 DEF RemoveClient, provider
  <2>2. \A g \in Rows(c) : ~g.pending /\ g.id \in revoked
    BY <1>3 DEF Removable
  <2>3. Of(c) \subseteq Begun /\ \A g \in grants : g \in Rows(c) <=> g.id \in Of(c)
    BY DEF Of, Rows
  <2>4. NoClient \in [gen : Nat \cup {-1}, created : Nat]
    BY DEF NoClient
  <2>5. Shapes'
    BY <2>1, <2>3, <2>4 DEF Inv, Shapes, ConsentShapes, GrantShapes, PostShapes, Begun
  <2>6. IssuedIsOnRecord' /\ RecallIsFinal'
    BY <2>1, <2>2, <2>3 DEF Inv, IssuedIsOnRecord, RecallIsFinal, HasRow
  <2>7. CleanupHolds'
    <3>1. \A r \in Posts : post'[r].at \in Steps => post'[r] = post[r]
      BY <2>1 DEF Inv, Shapes, PostShapes, NoPost, Steps
    <3>2. QED
      BY <2>1, <3>1 DEF Inv, CleanupHolds
  <2>8. CurrentConsentStands'
    <3>1. \A i \in Begun \ Of(c) : issued[i].client # c
      BY DEF Of
    <3>2. \A i \in Begun : issued[i].client \in Clients
      BY DEF Inv, Shapes, ConsentShapes, Begun
    <3>3. \A i \in Begun \ Of(c) : clients'[issued[i].client] = clients[issued[i].client]
      BY <2>1, <3>1, <3>2 DEF Inv, Shapes, ConsentShapes
    <3>4. \A i \in Begun \ Of(c) : HasRow(i) => HasRow(i)'
      BY <2>1, <2>3 DEF HasRow
    <3>5. QED
      BY <2>1, <3>3, <3>4 DEF Inv, CurrentConsentStands, Begun
  <2>9. LeftoversStayListed'
    BY <2>1, <2>2 DEF Inv, LeftoversStayListed
  <2>10. QED
    BY <2>5, <2>6, <2>7, <2>8, <2>9 DEF Inv
<1>4. QED
  BY <1>2, <1>3

\* Revoke denies every row of the client, and lists as pending those it denies
\* only now, with those that were pending.
LEMMA RevokeInv ==
  ASSUME Inv, NEW p \in Posts, RevokeClient(p)
  PROVE  Inv'
<1>1. PICK c \in Clients : post[p] = [at |-> "revoke", client |-> c]
  BY DEF Inv, Shapes, PostShapes, RevokeClient, NoPost, FormPost, Cleanup, Steps
<1> DEFINE pending == {g.id : g \in {r \in Rows(c) : r.pending \/ r.id \notin revoked}}
<1>2. CASE ~(Known(c) /\ clients[c].gen < MaxGen)
  <2>1. post' = [post EXCEPT ![p] = NoPost] /\ UNCHANGED <<now, tables, provider, recalled, late>>
    BY <1>1, <1>2 DEF RevokeClient, tables
  <2>2. QED
    BY <2>1, PostInv
<1>3. CASE Known(c) /\ clients[c].gen < MaxGen
  <2> DEFINE start == [at |-> "list", client |-> c, id |-> 0,
                       todo |-> FirstOf(pending), budget |-> Budget - 2]
             q == NextGrant(start)
             rows == {[id |-> i, pending |-> i \in pending] : i \in Accepted(c)}
  <2>1. /\ clients' = [clients EXCEPT ![c].gen = @ + 1]
        /\ consents' = consents \ Of(c)
        /\ grants' = (grants \ Rows(c)) \cup rows
        /\ revoked' = revoked \cup Accepted(c)
        /\ recalled' = recalled \cup Of(c)
        /\ post' = [post EXCEPT ![p] = q]
        /\ UNCHANGED <<now, issued, kv, tokens, exchange, late>>
    BY <1>1, <1>3 DEF RevokeClient, provider
  <2>2. /\ pending \subseteq Accepted(c) /\ Accepted(c) \subseteq Ids
        /\ Accepted(c) \subseteq Of(c) /\ Of(c) \subseteq Begun
        /\ \A g \in grants : g \in Rows(c) <=> g.id \in Of(c)
        /\ \A i \in Of(c) : HasRow(i) => i \in Accepted(c)
    BY DEF Inv, Shapes, GrantShapes, Accepted, Rows, Of, HasRow
  <2>3. \/ q = NoPost
        \/ q \in Cleanup /\ q.at = "list" /\ q.id \in Accepted(c) /\ q.todo \subseteq Accepted(c)
    <3>1. FirstOf(pending) \in SUBSET Ids /\ FirstOf(pending) \subseteq Accepted(c)
      BY <2>2 DEF FirstOf
    <3>2. Budget - 2 \in Int /\ 0 \in Nat /\ "list" \in Steps
      BY RegistryAssumption DEF Steps
    <3> HIDE DEF pending
    <3>3. \E T \in SUBSET Ids, n \in Int :
            /\ start = [at |-> "list", client |-> c, id |-> 0, todo |-> T, budget |-> n]
            /\ T \subseteq Accepted(c)
      BY <3>1, <3>2
    <3> HIDE DEF start
    <3>4. QED
      BY <3>2, <3>3, NextGrantGoesOn
  <2> HIDE DEF q
  <2>4. /\ rows \subseteq [id : Ids, pending : BOOLEAN]
        /\ \A i \in Accepted(c) : \E g \in rows : g.id = i /\ (g.pending <=> i \in pending)
        /\ \A g \in rows : g.id \in Accepted(c)
    <3> DEFINE row(i) == [id |-> i, pending |-> i \in pending]
    <3> HIDE DEF pending
    <3>1. ASSUME NEW i \in Accepted(c)
          PROVE  row(i) \in [id : Ids, pending : BOOLEAN]
      <4>1. i \in Ids /\ (i \in pending) \in BOOLEAN
        BY <2>2
      <4>2. QED
        BY <4>1
    <3>2. ASSUME NEW i \in Accepted(c)
          PROVE  row(i).id = i /\ row(i).pending = (i \in pending)
      OBVIOUS
    <3>3. rows = {row(i) : i \in Accepted(c)}
      OBVIOUS
    <3> HIDE DEF row, rows
    <3>4. QED
      BY <3>1, <3>2, <3>3
  <2>5. /\ \A i \in Ids : HasRow(i)' <=> HasRow(i)
        /\ grants' \subseteq [id : Ids, pending : BOOLEAN]
    <3>1. \A i \in Accepted(c) : HasRow(i)
      BY DEF Accepted, Rows, HasRow
    <3> HIDE DEF pending, rows
    <3>2. \A i \in Ids : HasRow(i)' <=> \/ \E g \in grants \ Rows(c) : g.id = i
                                        \/ i \in Accepted(c)
      BY <2>1, <2>2, <2>4 DEF HasRow
    <3>3. QED
      BY <2>1, <2>2, <2>4, <3>1, <3>2 DEF Inv, Shapes, GrantShapes, HasRow
  <2>6. Shapes'
    <3>1. clients' \in [Clients -> [gen : Nat \cup {-1}, created : Nat]]
      <4>1. clients[c].gen \in Nat /\ clients[c] \in [gen : Nat \cup {-1}, created : Nat]
        BY <1>3 DEF Inv, Shapes, ConsentShapes, Known
      <4>2. [clients[c] EXCEPT !.gen = @ + 1] \in [gen : Nat \cup {-1}, created : Nat]
        BY <4>1
      <4>3. QED
        BY <2>1, <4>2 DEF Inv, Shapes, ConsentShapes
    <3>2. post' \in [Posts -> {NoPost} \cup FormPost \cup Cleanup]
      BY <2>1, <2>3 DEF Inv, Shapes, PostShapes
    <3> HIDE DEF pending
    <3>3. QED
      BY <2>1, <2>2, <2>5, <3>1, <3>2 DEF Inv, Shapes, ConsentShapes, GrantShapes, PostShapes, Begun
  <2> HIDE DEF pending
  <2>7. IssuedIsOnRecord'
    BY <2>1, <2>5 DEF Inv, IssuedIsOnRecord
  <2>8. RecallIsFinal'
    <3>1. recalled \subseteq Ids /\ Of(c) \subseteq Ids
      BY <2>2, RegistryAssumption DEF Inv, Shapes, ConsentShapes, Begun, Ids
    <3>2. QED
      BY <2>1, <2>2, <2>5, <3>1 DEF Inv, RecallIsFinal
  <2>9. CleanupHolds'
    <3>1. \A r \in Posts : r # p => post'[r] = post[r]
      BY <2>1 DEF Inv, Shapes, PostShapes
    <3>2. post'[p] = q
      BY <2>1 DEF Inv, Shapes, PostShapes
    <3>3. QED
      BY <2>1, <2>3, <3>1, <3>2 DEF Inv, CleanupHolds, NoPost, Steps
  <2>10. CurrentConsentStands'
    <3>1. \A i \in Begun \ Of(c) : issued[i].client # c
      BY DEF Of
    <3>2. \A i \in Begun : issued[i].client \in Clients /\ i \in Ids
      BY BegunParts DEF Inv
    <3>3. \A i \in Begun \ Of(c) : clients'[issued[i].client] = clients[issued[i].client]
      BY <2>1, <3>1, <3>2 DEF Inv, Shapes, ConsentShapes
    <3> HIDE DEF rows
    <3>4. Begun' = Begun /\ recalled' = recalled \cup Of(c) /\ now' = now /\ issued' = issued
      BY <2>1 DEF Begun
    <3>5. SUFFICES ASSUME NEW i \in Begun \ recalled', issued[i].at > now - ConsentTtl
                   PROVE  /\ HasRow(i)' \/ i \in consents'
                          /\ clients'[issued[i].client].gen = issued[i].gen
      BY <3>4 DEF CurrentConsentStands
    <3>6. (HasRow(i) \/ i \in consents) /\ clients[issued[i].client].gen = issued[i].gen
      BY <3>4, <3>5 DEF Inv, CurrentConsentStands
    <3>7. QED
      BY <2>1, <2>5, <3>2, <3>3, <3>4, <3>6
  <2>11. LeftoversStayListed'
    <3> SUFFICES ASSUME NEW i \in revoked' \ late', i \in kv' \/ tokens'[i] > 0
                 PROVE  \E g \in grants' : g.id = i /\ g.pending
      BY DEF LeftoversStayListed
    <3>1. i \in kv \/ tokens[i] > 0
      BY <2>1
    <3>2. CASE i \in revoked
      <4>1. PICK g \in grants : g.id = i /\ g.pending
        BY <2>1, <3>1, <3>2 DEF Inv, LeftoversStayListed
      <4>2. CASE i \in Of(c)
        <5>1. i \in pending /\ i \in Accepted(c)
          BY <2>2, <4>1, <4>2 DEF pending, HasRow
        <5>2. QED
          BY <2>1, <2>4, <5>1
      <4>3. CASE i \notin Of(c)
        BY <2>1, <2>2, <4>1, <4>3
      <4>4. QED
        BY <4>2, <4>3
    <3>3. CASE i \notin revoked
      <4>1. i \in Accepted(c)
        BY <2>1, <3>3
      <4>2. i \in pending
        BY <3>3, <4>1 DEF pending, Accepted
      <4>3. QED
        BY <2>1, <2>4, <4>1, <4>2
    <3>4. QED
      BY <3>2, <3>3
  <2>12. QED
    BY <2>6, <2>7, <2>8, <2>9, <2>10, <2>11 DEF Inv
<1>4. QED
  BY <1>2, <1>3

\* A step of a cleanup: what it finds, deletes and marks.
LEMMA CleanupInv ==
  ASSUME Inv, NEW p \in Posts, ListTokens(p) \/ DropToken(p) \/ EraseGrant(p) \/ MarkComplete(p)
  PROVE  Inv'
<1> DEFINE q == post[p]
<1>1. q.at \in Steps
  BY DEF ListTokens, DropToken, EraseGrant, MarkComplete, Steps
<1>2. q \in Cleanup /\ q = [at |-> q.at, client |-> q.client, id |-> q.id,
                            todo |-> q.todo, budget |-> q.budget]
  BY <1>1, CleanupParts DEF Inv
<1>3. q.id \in revoked /\ q.todo \subseteq revoked
  BY <1>1 DEF Inv, CleanupHolds
<1>4. PICK a \in Steps, d \in Ids, c \in Clients, T \in SUBSET Ids, n \in Int :
        q = [at |-> a, client |-> c, id |-> d, todo |-> T, budget |-> n]
  BY <1>2 DEF Cleanup
<1>5. /\ d \in revoked /\ T \subseteq revoked /\ q.id = d /\ q.at = a /\ d \in Nat
      /\ a \in {"erase", "mark"} /\ d \notin late => tokens[d] = 0
      /\ a = "mark" /\ d \notin late => d \notin kv
  <2>1. d \in revoked /\ T \subseteq revoked /\ q.id = d /\ q.at = a /\ d \in Nat
    BY <1>3, <1>4, RegistryAssumption DEF Ids
  <2>2. QED
    BY <2>1 DEF Inv, CleanupHolds
<1>6. UNCHANGED <<now, clients, consents, revoked, issued, exchange, recalled, late>>
  BY DEF ListTokens, DropToken, EraseGrant, MarkComplete, tables, provider
<1>7. \A b \in Steps, m \in Int :
        LET r == NextGrant([at |-> b, client |-> c, id |-> d, todo |-> T, budget |-> m])
        IN  r = NoPost \/ (r \in Cleanup /\ r.at = "list" /\ r.id \in revoked /\ r.todo \subseteq revoked)
  <2> SUFFICES ASSUME NEW b \in Steps, NEW m \in Int
               PROVE LET r == NextGrant([at |-> b, client |-> c, id |-> d, todo |-> T, budget |-> m])
                     IN  \/ r = NoPost
                         \/ r \in Cleanup /\ r.at = "list" /\ r.id \in revoked /\ r.todo \subseteq revoked
    OBVIOUS
  <2> DEFINE s == [at |-> b, client |-> c, id |-> d, todo |-> T, budget |-> m]
  <2>1. \/ NextGrant(s) = NoPost
        \/ /\ NextGrant(s) \in Cleanup /\ NextGrant(s).at = "list"
           /\ NextGrant(s).id \in T /\ NextGrant(s).todo \subseteq T
    BY <1>5, NextGrantGoesOn
  <2> HIDE DEF s
  <2>2. QED
    BY <2>1, <1>5 DEF s
\* How the post goes on.
<1> DEFINE Goes(r) ==
      /\ r \in {NoPost} \cup Cleanup
      /\ r.at \in Steps => r.id \in revoked /\ r.todo \subseteq revoked
      /\ r.at \in {"erase", "mark"} /\ r.id \notin late => tokens'[r.id] = 0
      /\ r.at = "mark" /\ r.id \notin late => r.id \notin kv'
<1>8. ASSUME NEW r, post' = [post EXCEPT ![p] = r], Goes(r),
             kv' \subseteq kv, tokens' \in [Ids -> Nat], \A i \in Ids : tokens'[i] <= tokens[i],
             grants' \subseteq [id : Ids, pending : BOOLEAN],
             \A i \in Ids : HasRow(i)' <=> HasRow(i)
      PROVE  Shapes' /\ IssuedIsOnRecord' /\ RecallIsFinal' /\ CleanupHolds' /\ CurrentConsentStands'
  <2>1. Shapes'
    BY <1>6, <1>8 DEF Inv, Shapes, ConsentShapes, GrantShapes, PostShapes, Begun
  <2>2. \A i \in Ids : tokens'[i] > 0 => tokens[i] > 0
    BY <1>8 DEF Inv, Shapes, GrantShapes
  <2>3. IssuedIsOnRecord'
    BY <1>6, <1>8, <2>2 DEF Inv, IssuedIsOnRecord
  <2>4. recalled \subseteq Ids /\ Begun \subseteq Ids /\ Begun' = Begun
    BY <1>6, BegunParts DEF Inv, Shapes, ConsentShapes, Begun
  <2>5. RecallIsFinal' /\ CurrentConsentStands'
    BY <1>6, <1>8, <2>4 DEF Inv, RecallIsFinal, CurrentConsentStands
  <2>6. CleanupHolds'
    <3> SUFFICES ASSUME NEW o \in Posts, post'[o].at \in Steps
                 PROVE  /\ post'[o].id \in revoked /\ post'[o].todo \subseteq revoked
                        /\ post'[o].at \in {"erase", "mark"} /\ post'[o].id \notin late
                             => tokens'[post'[o].id] = 0
                        /\ post'[o].at = "mark" /\ post'[o].id \notin late => post'[o].id \notin kv'
      BY <1>6 DEF CleanupHolds
    <3>1. CASE o = p
      BY <1>8, <3>1 DEF Inv, Shapes, PostShapes
    <3>2. CASE o # p
      <4>1. post'[o] = post[o]
        BY <1>8, <3>2 DEF Inv, Shapes, PostShapes
      <4>2. post[o].id \in Ids
        BY <4>1, CleanupParts DEF Inv, Cleanup
      <4>3. tokens[post[o].id] = 0 => tokens'[post[o].id] = 0
        BY <1>8, <2>2, <4>2
      <4>4. QED
        BY <1>8, <4>1, <4>3 DEF Inv, CleanupHolds
    <3>3. QED
      BY <3>1, <3>2
  <2>7. QED
    BY <2>1, <2>3, <2>5, <2>6
<1> HIDE DEF q
<1>9. CASE ListTokens(p)
  <2>1. /\ UNCHANGED <<grants, kv, tokens>>
        /\ \E k \in {1, 2} : post' = [post EXCEPT ![p] =
             [q EXCEPT !.at = IF tokens[d] > 0 THEN "drop" ELSE "erase", !.budget = @ - k]]
    BY <1>5, <1>9 DEF ListTokens, tables, provider, q
  <2>2. PICK k \in {1, 2} : post' = [post EXCEPT ![p] =
             [q EXCEPT !.at = IF tokens[d] > 0 THEN "drop" ELSE "erase", !.budget = @ - k]]
    BY <2>1
  <2> DEFINE to == IF tokens[d] > 0 THEN "drop" ELSE "erase"
             next == [q EXCEPT !.at = to, !.budget = @ - k]
  <2>3. tokens \in [Ids -> Nat]
    BY DEF Inv, Shapes, GrantShapes
  <2>4. Goes(next)
    <3>1. next \in Cleanup /\ next.at = to /\ next.id = d /\ next.todo = T
      <4>1. to \in Steps
        BY DEF Steps
      <4>2. q.id = d /\ q.todo = T
        BY <1>4
      <4> HIDE DEF to
      <4>3. QED
        BY <1>2, <4>1, <4>2, CleanupGoesOn
    <3>2. to \in {"drop", "erase"} /\ (to = "erase" => tokens[d] = 0)
      BY <2>3
    <3> HIDE DEF next, to
    <3>3. QED
      BY <1>5, <2>1, <3>1, <3>2 DEF Cleanup, Steps
  <2>5. LeftoversStayListed'
    BY <1>6, <2>1 DEF Inv, LeftoversStayListed
  <2>6. post' = [post EXCEPT ![p] = next]
    BY <2>2
  <2> HIDE DEF Goes, next
  <2>7. /\ kv' \subseteq kv /\ tokens' \in [Ids -> Nat] /\ \A i \in Ids : tokens'[i] <= tokens[i]
        /\ grants' \subseteq [id : Ids, pending : BOOLEAN] /\ \A i \in Ids : HasRow(i)' <=> HasRow(i)
    BY <2>1 DEF Inv, Shapes, GrantShapes, HasRow
  <2>8. QED
    BY <1>8, <2>4, <2>5, <2>6, <2>7 DEF Inv
<1>10. CASE DropToken(p)
  <2>1. /\ UNCHANGED <<grants, kv>>
        /\ q.at = "drop"
        /\ tokens' = [tokens EXCEPT ![d] = IF @ > 0 THEN @ - 1 ELSE 0]
        /\ post' = [post EXCEPT ![p] = Again(q, 1)]
    BY <1>5, <1>10 DEF DropToken, tables, q
  <2> DEFINE left == [at |-> "drop", client |-> c, id |-> d, todo |-> T, budget |-> n - 1]
  <2>2. Again(q, 1) = [left EXCEPT !.at = "list"] \/ Again(q, 1) = NextGrant(left)
    <3>1. q.at = "drop" /\ [q EXCEPT !.budget = @ - 1] = left
      BY <1>4, <1>5, <2>1
    <3> HIDE DEF left
    <3>2. QED
      BY <3>1 DEF Again
  <2>3. "drop" \in Steps /\ n - 1 \in Int
    BY DEF Steps
  <2>4. Goes(NextGrant(left))
    <3>1. \/ NextGrant(left) = NoPost
          \/ /\ NextGrant(left) \in Cleanup /\ NextGrant(left).at = "list"
             /\ NextGrant(left).id \in revoked /\ NextGrant(left).todo \subseteq revoked
      BY <1>7, <2>3
    <3> HIDE DEF left
    <3>2. QED
      BY <3>1 DEF NoPost, Steps
  <2>5. Goes([left EXCEPT !.at = "list"])
    BY <1>5 DEF Cleanup, Steps
  <2>6. tokens' \in [Ids -> Nat] /\ \A i \in Ids : tokens'[i] <= tokens[i]
    BY <2>1 DEF Inv, Shapes, GrantShapes
  <2>7. LeftoversStayListed'
    <3>1. \A i \in revoked : tokens'[i] > 0 => tokens[i] > 0
      BY <2>6 DEF Inv, Shapes, GrantShapes
    <3>2. QED
      BY <1>6, <2>1, <3>1 DEF Inv, LeftoversStayListed
  <2> HIDE DEF Goes, left
  <2>8. Goes(Again(q, 1))
    BY <2>2, <2>4, <2>5
  <2>9. /\ kv' \subseteq kv /\ grants' \subseteq [id : Ids, pending : BOOLEAN]
        /\ \A i \in Ids : HasRow(i)' <=> HasRow(i)
    BY <2>1 DEF Inv, Shapes, GrantShapes, HasRow
  <2>10. QED
    BY <1>8, <2>1, <2>6, <2>7, <2>8, <2>9 DEF Inv
<1>11. CASE EraseGrant(p)
  <2>1. /\ UNCHANGED <<grants, tokens>>
        /\ q.at = "erase" /\ kv' = kv \ {d}
        /\ post' = [post EXCEPT ![p] = [q EXCEPT !.at = "mark", !.budget = @ - 2]]
    BY <1>5, <1>11 DEF EraseGrant, tables, q
  <2> DEFINE next == [q EXCEPT !.at = "mark", !.budget = @ - 2]
  <2>2. next \in Cleanup /\ next.at = "mark" /\ next.id = d /\ next.todo = T
    <3>1. "mark" \in Steps /\ q.id = d /\ q.todo = T
      BY <1>4 DEF Steps
    <3>2. QED
      BY <1>2, <3>1, CleanupGoesOn
  <2>3. d \notin late => tokens[d] = 0
    BY <1>5, <2>1
  <2>4. Goes(next)
    <3> HIDE DEF next
    <3>1. QED
      BY <1>5, <2>1, <2>2, <2>3 DEF Cleanup, Steps
  <2>5. LeftoversStayListed'
    BY <1>6, <2>1 DEF Inv, LeftoversStayListed
  <2>6. post' = [post EXCEPT ![p] = next]
    BY <2>1
  <2> HIDE DEF Goes, next
  <2>7. /\ kv' \subseteq kv /\ tokens' \in [Ids -> Nat] /\ \A i \in Ids : tokens'[i] <= tokens[i]
        /\ grants' \subseteq [id : Ids, pending : BOOLEAN] /\ \A i \in Ids : HasRow(i)' <=> HasRow(i)
    BY <2>1 DEF Inv, Shapes, GrantShapes, HasRow
  <2>8. QED
    BY <1>8, <2>4, <2>5, <2>6, <2>7 DEF Inv
<1>12. CASE MarkComplete(p)
  <2>1. /\ UNCHANGED <<kv, tokens>>
        /\ q.at = "mark"
        /\ grants' = {IF g.id = d THEN [g EXCEPT !.pending = FALSE] ELSE g : g \in grants}
        /\ post' = [post EXCEPT ![p] = NextGrant([q EXCEPT !.budget = @ - 1])]
    BY <1>5, <1>12 DEF MarkComplete, provider, q
  <2> DEFINE left == [at |-> "mark", client |-> c, id |-> d, todo |-> T, budget |-> n - 1]
  <2>2. [q EXCEPT !.budget = @ - 1] = left
    BY <1>4, <1>5, <2>1
  <2>3. "mark" \in Steps /\ n - 1 \in Int
    BY DEF Steps
  <2>4. Goes(NextGrant(left))
    <3>1. \/ NextGrant(left) = NoPost
          \/ /\ NextGrant(left) \in Cleanup /\ NextGrant(left).at = "list"
             /\ NextGrant(left).id \in revoked /\ NextGrant(left).todo \subseteq revoked
      BY <1>7, <2>3
    <3> HIDE DEF left
    <3>2. QED
      BY <3>1 DEF NoPost, Steps
  <2>5. \A g \in grants : /\ [g EXCEPT !.pending = FALSE] \in [id : Ids, pending : BOOLEAN]
                          /\ [g EXCEPT !.pending = FALSE].id = g.id
    BY DEF Inv, Shapes, GrantShapes
  <2> DEFINE marked(g) == IF g.id = d THEN [g EXCEPT !.pending = FALSE] ELSE g
  <2>6. /\ grants' \subseteq [id : Ids, pending : BOOLEAN]
        /\ \A i \in Ids : HasRow(i)' <=> HasRow(i)
    <3>1. \A g \in grants : marked(g) \in [id : Ids, pending : BOOLEAN] /\ marked(g).id = g.id
      BY <2>5 DEF Inv, Shapes, GrantShapes
    <3>2. grants' = {marked(g) : g \in grants}
      BY <2>1
    <3> HIDE DEF marked
    <3>3. QED
      BY <3>1, <3>2 DEF HasRow
  <2>7. d \notin late => d \notin kv /\ tokens[d] = 0
    BY <1>5, <2>1
  <2>8. LeftoversStayListed'
    <3>1. \A g \in grants : g.id # d => g \in grants'
      BY <2>1
    <3>2. \A i \in revoked \ late : i \in kv \/ tokens[i] > 0 => i # d
      BY <2>7
    <3>3. QED
      BY <1>6, <2>1, <3>1, <3>2 DEF Inv, LeftoversStayListed
  <2>9. post' = [post EXCEPT ![p] = NextGrant(left)]
    BY <2>1, <2>2
  <2> HIDE DEF Goes, left
  <2>10. kv' \subseteq kv /\ tokens' \in [Ids -> Nat] /\ \A i \in Ids : tokens'[i] <= tokens[i]
    BY <2>1 DEF Inv, Shapes, GrantShapes
  <2>11. QED
    BY <1>8, <2>4, <2>6, <2>8, <2>9, <2>10 DEF Inv
<1>13. QED
  BY <1>9, <1>10, <1>11, <1>12

\* A cleanup that throws goes on with the next grant, or ends.
LEMMA FailureInv ==
  ASSUME Inv, NEW p \in Posts, CleanupFails(p)
  PROVE  Inv'
<1>1. post[p].at \in Steps
  BY DEF CleanupFails, Steps
<1>2. /\ post' = [post EXCEPT ![p] = NextGrant(post[p])]
      /\ UNCHANGED <<now, clients, consents, grants, revoked, issued, kv, tokens, exchange, recalled, late>>
  BY DEF CleanupFails, tables, provider
<1>3. PICK a \in Steps, d \in Ids, c \in Clients, T \in SUBSET Ids, n \in Int :
        post[p] = [at |-> a, client |-> c, id |-> d, todo |-> T, budget |-> n]
  BY <1>1, CleanupParts DEF Inv, Cleanup
<1>4. d \in Nat /\ post[p].todo = T /\ T \subseteq revoked
  BY <1>1, <1>3, RegistryAssumption DEF Ids, Inv, CleanupHolds
<1> DEFINE r == NextGrant(post[p])
<1>5. r = NoPost \/ (r \in Cleanup /\ r.at = "list" /\ r.id \in T /\ r.todo \subseteq T)
  BY <1>3, <1>4, NextGrantGoesOn
<1> HIDE DEF r
<1>6. Shapes'
  <2>1. post' \in [Posts -> {NoPost} \cup FormPost \cup Cleanup]
    BY <1>2, <1>5 DEF Inv, Shapes, PostShapes, r
  <2>2. QED
    BY <1>2, <2>1 DEF Inv, Shapes, ConsentShapes, GrantShapes, PostShapes, Begun
<1>7. CleanupHolds'
  <2>1. post'[p] = r /\ \A o \in Posts : o # p => post'[o] = post[o]
    BY <1>2 DEF Inv, Shapes, PostShapes, r
  <2>2. \A o \in Posts : o # p /\ post[o].at \in Steps =>
          /\ post[o].id \in revoked /\ post[o].todo \subseteq revoked
          /\ post[o].at \in {"erase", "mark"} /\ post[o].id \notin late => tokens[post[o].id] = 0
          /\ post[o].at = "mark" /\ post[o].id \notin late => post[o].id \notin kv
    BY DEF Inv, CleanupHolds
  <2>3. r.at \in Steps => r.at = "list" /\ r.id \in revoked /\ r.todo \subseteq revoked
    <3>1. NoPost.at \notin Steps
      BY DEF NoPost, Steps
    <3>2. QED
      BY <1>4, <1>5, <3>1
  <2>4. QED
    BY <1>2, <2>1, <2>2, <2>3 DEF CleanupHolds
<1>8. IssuedIsOnRecord' /\ RecallIsFinal' /\ CurrentConsentStands' /\ LeftoversStayListed'
  BY <1>2 DEF Inv, IssuedIsOnRecord, RecallIsFinal, CurrentConsentStands, LeftoversStayListed,
       HasRow, Begun
<1>9. QED
  BY <1>6, <1>7, <1>8 DEF Inv

-----------------------------------------------------------------------------
(* The theorems.                                                            *)

\* Every step preserves the invariant.
LEMMA NextInv == Inv /\ [Next]_vars => Inv'
<1> SUFFICES ASSUME Inv, [Next]_vars PROVE Inv'
  OBVIOUS
<1>1. CASE UNCHANGED vars
  BY <1>1 DEF vars, tables, provider, console, Inv, Shapes, ConsentShapes, GrantShapes, PostShapes,
       IssuedIsOnRecord, RecallIsFinal, CleanupHolds, CurrentConsentStands, LeftoversStayListed,
       HasRow, Begun
<1>2. CASE Tick
  BY <1>2, TickInv
<1>3. CASE \E c \in Clients : BeginConsent(c)
  BY <1>3, ConsentInv
<1>4. CASE \E i \in Ids : CompleteAuthorization(i)
  BY <1>4, ProviderInv
<1>5. CASE \E x \in Exchanges, i \in Ids : StartExchange(x, i)
  BY <1>5, ProviderInv
<1>6. CASE \E x \in Exchanges : RegisterGrant(x) \/ IssueToken(x)
  BY <1>6, RegisterInv, IssueInv
<1>7. CASE OpenPage \/ FormExpires
  BY <1>7, PageInv
<1>8. CASE \E p \in Posts, op \in {"remove", "revoke"}, c \in Clients : ConsumeForm(p, op, c)
  <2>1. PICK p \in Posts, op \in {"remove", "revoke"}, c \in Clients : ConsumeForm(p, op, c)
    BY <1>8
  <2>2. [at |-> op, client |-> c] \in FormPost
    BY DEF FormPost
  <2>3. QED
    BY <2>1, <2>2, PostInv DEF ConsumeForm
<1>9. CASE \E p \in Posts : RemoveClient(p) \/ RevokeClient(p)
  BY <1>9, RemoveInv, RevokeInv
<1>10. CASE \E p \in Posts : ListTokens(p) \/ DropToken(p) \/ EraseGrant(p) \/ MarkComplete(p)
  BY <1>10, CleanupInv
<1>11. CASE \E p \in Posts : CleanupFails(p) \/ PostDies(p)
  <2>1. ASSUME NEW p \in Posts, PostDies(p) PROVE Inv'
    BY <2>1, PostInv DEF PostDies
  <2>2. QED
    BY <1>11, <2>1, FailureInv
<1>12. QED
  BY <1>1, <1>2, <1>3, <1>4, <1>5, <1>6, <1>7, <1>8, <1>9, <1>10, <1>11 DEF Next

\* The inductive invariant: a grant is on record or denied before a token is
\* issued, a recalled consent stays inadmissible, and a cleanup works on denied
\* grants only.
THEOREM RegistryInvHolds == Spec => []Inv
<1>1. QED
  BY InitInv, NextInv, PTL DEF Spec

\* A token of a recalled consent opens nothing: registerClientGrant,
\* revokeClient and removeClient of the registry suffice for any exchanges and
\* posts that overlap, although the provider stores its token later.
THEOREM RecalledNeverUsableHolds == Spec => []RecalledNeverUsable
<1>1. Inv => RecalledNeverUsable
  <2> SUFFICES ASSUME Inv, NEW i \in recalled, tokens[i] > 0 PROVE i \in revoked
    BY DEF RecalledNeverUsable
  <2>1. i \in Ids
    BY BegunParts DEF Inv, Shapes, ConsentShapes
  <2>2. QED
    BY <2>1 DEF Inv, IssuedIsOnRecord, RecallIsFinal
<1>2. QED
  BY <1>1, RegistryInvHolds, PTL

\* No sweep of stale clients takes away a consent that is still good.
THEOREM CurrentConsentStandsHolds == Spec => []CurrentConsentStands
<1>1. Inv => CurrentConsentStands
  BY DEF Inv
<1>2. QED
  BY <1>1, RegistryInvHolds, PTL

\* What the provider keeps of a denied grant stays pending on the owner's list.
THEOREM LeftoversStayListedHolds == Spec => []LeftoversStayListed
<1>1. Inv => LeftoversStayListed
  BY DEF Inv
<1>2. QED
  BY <1>1, RegistryInvHolds, PTL
=============================================================================
