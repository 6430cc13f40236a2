-------------------------- MODULE DeviceSessionProofs --------------------------
(* Theorems about DeviceSession, for any requests, clients, tokens, failures and turns.            *)
EXTENDS DeviceSession, FiniteSetTheorems, TLAPS

-----------------------------------------------------------------------------
(* The inductive invariant.                                                                        *)

Held == [client : Clients, token : Nat] \cup {NoCredential}
InFlight == {"asked", "answered"}
Call == [at : {"idle", "exchange", "answered", "journal"}, client : {0} \cup Clients,
         previous : Held, live : BOOLEAN]
Ask == [at : {"idle", "queued"} \cup InFlight, from : Held, token : Nat, live : BOOLEAN]

(* The shapes that the argument needs. *)
ProviderShapes ==
    /\ valid \in [Clients -> SUBSET Nat] /\ issued \in [Clients -> Nat]
    /\ registered \in {0} \cup Clients /\ consent \in 0..registered
StoreShapes ==
    /\ disk \in Held /\ mem \in Held /\ NoCredential \notin expired
    /\ clientId \in {0} \cup Clients /\ clientDoc \in {0} \cup Clients
CallShapes == call \in Call /\ (call.at # "idle" => call.client \in Clients)
AskShapes ==
    /\ ask \in [Callers -> Ask]
    /\ \A k \in Callers : ask[k].at # "idle" => ask[k].from # NoCredential

(* The clients that the device holds or has committed, or that a refresh started from. *)
Older(c) ==
    /\ clientId < c /\ clientDoc < c /\ mem.client < c
    /\ \A k \in Callers : ask[k].from.client < c

(* A client that signs in is newer than all of these: its id was never committed. *)
ClientsInOrder ==
    /\ Older(registered + 1) /\ disk.client <= registered
    /\ consent # 0 => Older(consent) /\ disk.client < consent
    /\ call.at # "idle" =>
         /\ Older(call.client) /\ call.client <= registered
         /\ consent # 0 => call.client < consent
         /\ call.at # "journal" => disk.client < call.client

(* A callback that waits for the journal has written its credential over what memory holds. *)
CallbackWrites == call.at = "journal" => disk = NewCredential /\ call.previous = mem

(* One refresh is in flight at a time, from what is stored if that is its client's. *)
OneRefresh ==
    \A k \in Callers : ask[k].at \in InFlight =>
        /\ \A o \in Callers : ask[o].at \in InFlight => o = k
        /\ mem.client = ask[k].from.client => mem = ask[k].from
        /\ disk.client = ask[k].from.client => disk = ask[k].from
        /\ ask[k].at = "answered" =>
             {ask[k].from.token, ask[k].token} \subseteq valid[ask[k].from.client]

(* What is held can be refreshed, and so can what a callback is about to store. *)
HeldAccepted ==
    /\ SessionUsable
    /\ mem # NoCredential => mem.token \in valid[mem.client]
    /\ call.at = "answered" => 1 \in valid[call.client]

Shapes == ProviderShapes /\ StoreShapes /\ CallShapes /\ AskShapes
Inv == Shapes /\ ClientsInOrder /\ CallbackWrites /\ OneRefresh /\ HeldAccepted /\ IdentityAgrees

-----------------------------------------------------------------------------
(* Facts about the shapes.                                                                         *)

(* Client ids are positive numbers. *)
LEMMA ClientsArePositive == \A c \in Clients : c \in Nat /\ c > 0
BY SessionAssumption, FS_CardinalityType

(* The numbers and the records that the invariant speaks of. *)
LEMMA Numbers ==
    ASSUME Shapes
    PROVE  /\ {registered, consent, clientId, clientDoc, mem.client, disk.client, call.client} \subseteq Nat
           /\ \A k \in Callers : ask[k] \in Ask /\ ask[k].from \in Held /\ ask[k].from.client \in Nat
           /\ mem # NoCredential => mem.client \in Clients
           /\ disk # NoCredential => disk.client \in Clients
           /\ \A k \in Callers : ask[k].at # "idle" => ask[k].from.client \in Clients
<1>1. \A h \in Held : h.client \in Nat /\ (h # NoCredential => h.client \in Clients)
  <2> SUFFICES ASSUME NEW h \in Held
               PROVE  h.client \in Nat /\ (h # NoCredential => h.client \in Clients)
    OBVIOUS
  <2>1. CASE h \in [client : Clients, token : Nat]
    <3>1. h.client \in Clients
      BY <2>1
    <3>2. QED
      BY <3>1, ClientsArePositive
  <2>2. CASE h = NoCredential
    BY <2>2 DEF NoCredential
  <2>3. QED
    BY <2>1, <2>2 DEF Held
<1>2. \A k \in Callers : ask[k] \in Ask /\ ask[k].from \in Held
  BY DEF Shapes, AskShapes, Ask
<1>3. registered \in Nat /\ consent \in Nat
  BY ClientsArePositive DEF Shapes, ProviderShapes
<1>4. clientId \in Nat /\ clientDoc \in Nat /\ mem \in Held /\ disk \in Held
  BY ClientsArePositive DEF Shapes, StoreShapes
<1>5. call.client \in Nat
  <2>1. call.client \in {0} \cup Clients
    BY DEF Shapes, CallShapes, Call
  <2>2. QED
    BY <2>1, ClientsArePositive
<1>6. QED
  BY <1>1, <1>2, <1>3, <1>4, <1>5 DEF Shapes, AskShapes

(* At first nothing is held and nothing is asked. *)
LEMMA InitInv == Init => Inv
<1> SUFFICES ASSUME Init PROVE Inv
  OBVIOUS
<1>1. NoCredential \in Held /\ NoCredential.client = 0
  BY DEF Held, NoCredential
<1>2. NoCall \in Call /\ NoCall.at = "idle" /\ NoAsk \in Ask /\ NoAsk.at = "idle" /\ NoAsk.from = NoCredential
  BY <1>1 DEF NoCall, NoAsk, Call, Ask
<1>3. \A k \in Callers : ask[k] = NoAsk
  BY DEF Init
<1>4. Shapes
  BY <1>1, <1>2, <1>3 DEF Init, Shapes, ProviderShapes, StoreShapes, CallShapes, AskShapes
<1>5. ClientsInOrder
  BY <1>1, <1>2, <1>3 DEF Init, ClientsInOrder, Older
<1>6. CallbackWrites /\ OneRefresh /\ HeldAccepted /\ IdentityAgrees
  BY <1>2, <1>3 DEF Init, CallbackWrites, OneRefresh, InFlight, HeldAccepted, SessionUsable, IdentityAgrees
<1>7. QED
  BY <1>4, <1>5, <1>6 DEF Inv

-----------------------------------------------------------------------------
(* The steps preserve the invariant.                                                               *)

(* A step that at most registers a client, drops the consent or makes attempts stale. *)
LEMMA FrameInv ==
    ASSUME Inv,
           UNCHANGED <<valid, issued, disk, mem, clientId, clientDoc>>,
           NoCredential \notin expired',
           \/ registered' = registered /\ consent' \in {0, consent}
           \/ registered' = registered + 1 /\ registered' \in Clients /\ consent' = registered',
           call' = call \/ call' = [call EXCEPT !.live = FALSE],
           ask' = ask \/ ask' = [k \in Callers |-> [ask[k] EXCEPT !.live = FALSE]]
    PROVE  Inv'
<1>1. /\ call' \in Call /\ call'.at = call.at /\ call'.client = call.client
      /\ call'.previous = call.previous
  BY DEF Inv, Shapes, CallShapes, Call
<1>2. ask' \in [Callers -> Ask] /\ \A k \in Callers :
        /\ ask'[k].at = ask[k].at /\ ask'[k].from = ask[k].from /\ ask'[k].token = ask[k].token
  <2>1. ask \in [Callers -> Ask]
    BY DEF Inv, Shapes, AskShapes
  <2> DEFINE stale(k) == [ask[k] EXCEPT !.live = FALSE]
  <2>2. \A k \in Callers : /\ stale(k) \in Ask /\ stale(k).at = ask[k].at
                          /\ stale(k).from = ask[k].from /\ stale(k).token = ask[k].token
    BY <2>1 DEF Ask
  <2>3. ask' = ask \/ ask' = [k \in Callers |-> stale(k)]
    OBVIOUS
  <2> HIDE DEF stale
  <2>4. QED
    BY <2>1, <2>2, <2>3
<1>3. {registered, consent, clientId, clientDoc, mem.client, disk.client, call.client} \subseteq Nat
      /\ \A k \in Callers : ask[k].from.client \in Nat
  BY Numbers DEF Inv
<1>4. Shapes'
    <2>1. registered' \in {0} \cup Clients /\ consent' \in 0..registered'
        BY <1>3 DEF Inv, Shapes, ProviderShapes
    <2>2. QED
        BY <1>1, <1>2, <2>1 DEF Inv, Shapes, ProviderShapes, StoreShapes, CallShapes, AskShapes
<1>5. ClientsInOrder'
    <2>1. \A c : Older(c)' <=> Older(c)
        BY <1>2 DEF Older
    <2>2. Older(registered + 1) => Older(registered + 2)
        BY <1>3 DEF Older
    <2>3. QED
        BY <1>1, <1>3, <2>1, <2>2 DEF Inv, ClientsInOrder
<1>6. CallbackWrites' /\ IdentityAgrees'
  BY <1>1 DEF Inv, CallbackWrites, IdentityAgrees, NewCredential
<1>7. OneRefresh'
  BY <1>2 DEF Inv, OneRefresh
<1>8. HeldAccepted'
  BY <1>1 DEF Inv, HeldAccepted, SessionUsable
<1>9. QED
  BY <1>4, <1>5, <1>6, <1>7, <1>8 DEF Inv

(* What is held of the client of memory is what memory holds. *)
LEMMA DiskIsMemory ==
  ASSUME Inv, mem # NoCredential, disk.client = mem.client
  PROVE  disk = mem
<1>1. CASE call.at = "journal"
  <2>1. disk.client = call.client /\ mem.client < call.client
    BY <1>1 DEF Inv, CallbackWrites, NewCredential, ClientsInOrder, Older
  <2>2. QED
    BY <2>1, Numbers DEF Inv
<1>2. CASE call.at # "journal"
  BY <1>2 DEF Inv, IdentityAgrees
<1>3. QED
  BY <1>1, <1>2

(* A request that ends, waits for its turn, or asks for what memory holds. *)
LEMMA AskInv ==
  ASSUME Inv, NEW k \in Callers, NEW a,
         UNCHANGED <<provider, store, registered, consent, call>>,
         ask' = [ask EXCEPT ![k] = a],
         \/ a = NoAsk
         \/ /\ a \in Ask /\ a.from = mem /\ mem # NoCredential
            /\ \/ a.at = "queued"
               \/ a.at = "asked" /\ \A o \in Callers : ask[o].at \notin InFlight
  PROVE  Inv'
<1>1. UNCHANGED <<valid, issued, disk, mem, clientId, clientDoc, expired, registered, consent, call>>
  BY DEF provider, store
<1>2. NoAsk \in Ask /\ NoAsk.at = "idle" /\ NoAsk.from.client = 0
  BY DEF NoAsk, NoCredential, Ask, Held
<1>3. a \in Ask /\ (a.at # "idle" => a.from # NoCredential) /\ a.from.client \in {0, mem.client}
  BY <1>2
<1>4. ask \in [Callers -> Ask] /\ ask'[k] = a /\ \A o \in Callers : o # k => ask'[o] = ask[o]
  BY DEF Inv, Shapes, AskShapes
<1>5. Shapes'
  BY <1>1, <1>3, <1>4 DEF Inv, Shapes, ProviderShapes, StoreShapes, CallShapes, AskShapes
<1>6. ClientsInOrder'
  <2>1. \A c \in Nat : c > 0 /\ Older(c) => Older(c)'
    BY <1>1, <1>3, <1>4 DEF Older
  <2>2. registered + 1 \in Nat /\ consent \in Nat /\ call.client \in Nat
    BY Numbers DEF Inv
  <2>3. call.at # "idle" => call.client > 0
    BY ClientsArePositive DEF Inv, Shapes, CallShapes
  <2>4. QED
    BY <1>1, <2>1, <2>2, <2>3, Numbers DEF Inv, ClientsInOrder
<1>7. CallbackWrites' /\ IdentityAgrees' /\ HeldAccepted'
  BY <1>1 DEF Inv, CallbackWrites, IdentityAgrees, HeldAccepted, SessionUsable, NewCredential
<1>8. OneRefresh'
  <2>1. CASE a.at \in InFlight
    <3>1. a.from = mem /\ a.at = "asked" /\ \A o \in Callers : ask[o].at \notin InFlight
      BY <1>2, <2>1 DEF InFlight
    <3>2. disk.client = mem.client => disk = mem
      BY <1>2, <2>1, DiskIsMemory DEF InFlight
    <3>3. QED
      BY <1>1, <1>4, <3>1, <3>2 DEF OneRefresh
  <2>2. CASE a.at \notin InFlight
    BY <1>1, <1>4, <2>2 DEF Inv, OneRefresh
  <2>3. QED
    BY <2>1, <2>2
<1>9. QED
  BY <1>5, <1>6, <1>7, <1>8 DEF Inv

(* The callback starts: its client is the one of the consent. *)
LEMMA CallbackInv ==
  ASSUME Inv, Callback
  PROVE  Inv'
<1>1. /\ consent # 0 /\ call.at = "idle" /\ consent' = 0
      /\ call' = [NoCall EXCEPT !.at = "exchange", !.client = consent, !.live = TRUE]
      /\ UNCHANGED <<valid, issued, disk, mem, clientId, clientDoc, expired, registered, ask>>
  BY DEF Callback, provider, store
<1>2. consent \in Clients /\ consent <= registered
  <2>1. registered \in Clients /\ consent \in 1..registered
    BY <1>1, ClientsArePositive DEF Inv, Shapes, ProviderShapes
  <2>2. Cardinality(Clients) \in Nat /\ Clients = 1..Cardinality(Clients)
    BY SessionAssumption, FS_CardinalityType
  <2>3. QED
    BY <2>1, <2>2
<1>3. call' = [at |-> "exchange", client |-> consent, previous |-> NoCredential, live |-> TRUE]
  BY <1>1 DEF NoCall
<1>4. call' \in Call /\ call'.at = "exchange" /\ call'.client = consent
  BY <1>2, <1>3 DEF Call, Held
<1>5. Shapes'
  BY <1>1, <1>2, <1>4, Numbers DEF Inv, Shapes, ProviderShapes, StoreShapes, CallShapes, AskShapes
<1>6. ClientsInOrder'
  BY <1>1, <1>2, <1>4 DEF Inv, ClientsInOrder, Older
<1>7. CallbackWrites' /\ OneRefresh' /\ HeldAccepted' /\ IdentityAgrees'
  BY <1>1, <1>4 DEF Inv, CallbackWrites, OneRefresh, HeldAccepted, SessionUsable, IdentityAgrees
<1>8. QED
  BY <1>5, <1>6, <1>7 DEF Inv

(* The exchange gives a new client its first token. *)
LEMMA ExchangeInv ==
  ASSUME Inv, Exchange
  PROVE  Inv'
<1> DEFINE c == call.client
<1>1. /\ call.at = "exchange"
      /\ issued' = [issued EXCEPT ![c] = 1] /\ valid' = [valid EXCEPT ![c] = {1}]
      /\ call' = [call EXCEPT !.at = "answered"]
      /\ UNCHANGED <<disk, mem, clientId, clientDoc, expired, registered, consent, ask>>
  BY DEF Exchange, store, browser
<1>2. c \in Clients /\ c \in Nat
  BY <1>1, ClientsArePositive DEF Inv, Shapes, CallShapes
<1>3. call' \in Call /\ call'.at = "answered" /\ call'.client = c
  BY <1>1 DEF Inv, Shapes, CallShapes, Call
<1>4. valid'[c] = {1} /\ \A d \in Clients : d # c => valid'[d] = valid[d]
  BY <1>1, <1>2 DEF Inv, Shapes, ProviderShapes
<1>5. mem.client < c /\ disk.client < c /\ \A k \in Callers : ask[k].from.client < c
  BY <1>1 DEF Inv, ClientsInOrder, Older
<1>6. Shapes'
  BY <1>1, <1>2, <1>3 DEF Inv, Shapes, ProviderShapes, StoreShapes, CallShapes, AskShapes
<1>7. ClientsInOrder' /\ CallbackWrites' /\ IdentityAgrees'
  BY <1>1, <1>3 DEF Inv, ClientsInOrder, Older, CallbackWrites, IdentityAgrees
<1>8. HeldAccepted'
  <2>1. /\ mem # NoCredential => mem.client \in Clients /\ mem.client # c
        /\ disk # NoCredential => disk.client \in Clients /\ disk.client # c
    BY <1>2, <1>5, Numbers DEF Inv
  <2>2. QED
    BY <1>1, <1>3, <1>4, <2>1 DEF Inv, HeldAccepted, SessionUsable
<1>9. OneRefresh'
  <2>1. \A k \in Callers : ask[k].at \in InFlight => ask[k].from.client \in Clients /\ ask[k].from.client # c
    BY <1>2, <1>5, Numbers DEF Inv, InFlight
  <2>2. QED
    BY <1>1, <1>4, <2>1 DEF Inv, OneRefresh
<1>10. QED
  BY <1>6, <1>7, <1>8, <1>9 DEF Inv

(* What is known when no call is under way. *)
LEMMA NoCallFacts ==
  NoCall \in Call /\ NoCall.at = "idle" /\ NoCredential \in Held /\ NoCredential.client = 0
BY DEF NoCall, NoCredential, Call, Held

(* A callback that has not written yet ends. *)
LEMMA CallEndsInv ==
  ASSUME Inv, call.at \in {"exchange", "answered"}, call' = NoCall, consent' \in {0, consent},
         UNCHANGED <<provider, store, registered, ask>>
  PROVE  Inv'
<1>1. UNCHANGED <<valid, issued, disk, mem, clientId, clientDoc, expired, registered, ask>>
  BY DEF provider, store
<1>2. call'.at = "idle" /\ call' \in Call
  BY NoCallFacts
<1>3. Shapes'
  BY <1>1, <1>2, Numbers DEF Inv, Shapes, ProviderShapes, StoreShapes, CallShapes, AskShapes
<1>4. ClientsInOrder'
  BY <1>1, <1>2 DEF Inv, ClientsInOrder, Older
<1>5. CallbackWrites' /\ OneRefresh' /\ HeldAccepted' /\ IdentityAgrees'
  BY <1>1, <1>2 DEF Inv, CallbackWrites, OneRefresh, HeldAccepted, SessionUsable, IdentityAgrees
<1>6. QED
  BY <1>3, <1>4, <1>5 DEF Inv

(* The answer of the exchange is dropped, or written before the journal is asked. *)
LEMMA AnsweredInv ==
  ASSUME Inv, CallbackAnswered
  PROVE  Inv'
<1>1. call.at = "answered" /\ UNCHANGED <<provider, clientId, clientDoc, mem, expired, browser, ask>>
  BY DEF CallbackAnswered
<1>2. UNCHANGED <<valid, issued, registered, consent>>
  BY <1>1 DEF provider, browser
<1>3. CASE ~call.live
  <2>1. call' = NoCall /\ disk' = disk
    BY <1>3 DEF CallbackAnswered
  <2>2. QED
    BY <1>1, <1>2, <2>1, CallEndsInv DEF store
<1>4. CASE call.live
  <2>1. call' = [call EXCEPT !.at = "journal", !.previous = mem] /\ disk' = NewCredential
    BY <1>4 DEF CallbackAnswered
  <2>2. call.client \in Clients /\ call.client \in Nat /\ mem \in Held
    BY <1>1, ClientsArePositive DEF Inv, Shapes, CallShapes, StoreShapes
  <2>3. /\ call' \in Call /\ call'.at = "journal" /\ call'.client = call.client
        /\ call'.previous = mem
    BY <2>1, <2>2 DEF Inv, Shapes, CallShapes, Call
  <2>4. disk' \in Held /\ disk'.client = call.client /\ disk'.token = 1
    BY <2>1, <2>2 DEF NewCredential, Held
  <2>5. Shapes'
    BY <1>1, <1>2, <2>2, <2>3, <2>4 DEF Inv, Shapes, ProviderShapes, StoreShapes, CallShapes, AskShapes
  <2>6. ClientsInOrder'
    BY <1>1, <1>2, <2>3, <2>4 DEF Inv, ClientsInOrder, Older
  <2>7. CallbackWrites'
    BY <1>1, <2>1, <2>3 DEF CallbackWrites, NewCredential
  <2>8. OneRefresh'
    <3>1. \A k \in Callers : ask[k].from.client # call.client
      BY <1>1, <2>2, Numbers DEF Inv, ClientsInOrder, Older
    <3>2. QED
      BY <1>1, <1>2, <2>4, <3>1 DEF Inv, OneRefresh
  <2>9. HeldAccepted'
    BY <1>1, <1>2, <2>3, <2>4 DEF Inv, HeldAccepted, SessionUsable
  <2>10. IdentityAgrees'
    BY <1>1, <2>3 DEF Inv, IdentityAgrees
  <2>11. QED
    BY <2>5, <2>6, <2>7, <2>8, <2>9, <2>10 DEF Inv
<1>5. QED
  BY <1>3, <1>4

(* The journal commits the client: memory adopts what was written. *)
LEMMA CommitsInv ==
  ASSUME Inv, CallbackCommits
  PROVE  Inv'
<1>1. /\ call.at = "journal" /\ clientId' = call.client /\ clientDoc' = call.client
      /\ call' = NoCall /\ mem' = NewCredential
      /\ UNCHANGED <<valid, issued, disk, expired, registered, consent, ask>>
  BY DEF CallbackCommits, Commits, provider, browser
<1>2. disk = NewCredential
  BY <1>1 DEF Inv, CallbackWrites
<1>3. call.client \in Clients /\ call.client \in Nat /\ NewCredential.client = call.client
  BY <1>1, ClientsArePositive DEF Inv, Shapes, CallShapes, NewCredential
<1>4. call'.at = "idle" /\ call' \in Call
  BY <1>1, NoCallFacts
<1>5. Shapes'
  BY <1>1, <1>2, <1>3, <1>4 DEF Inv, Shapes, ProviderShapes, StoreShapes, CallShapes, AskShapes
<1>6. ClientsInOrder'
  <2>1. call.client <= registered /\ (consent # 0 => call.client < consent)
    BY <1>1 DEF Inv, ClientsInOrder
  <2>2. QED
    BY <1>1, <1>2, <1>3, <1>4, <2>1, Numbers DEF Inv, ClientsInOrder, Older
<1>7. OneRefresh'
  <2>1. \A k \in Callers : ask[k].from.client # call.client
    BY <1>1, <1>3, Numbers DEF Inv, ClientsInOrder, Older
  <2>2. QED
    BY <1>1, <1>3, <2>1 DEF Inv, OneRefresh
<1>8. CallbackWrites' /\ HeldAccepted' /\ IdentityAgrees'
  BY <1>1, <1>2, <1>3, <1>4 DEF Inv, CallbackWrites, HeldAccepted, SessionUsable, IdentityAgrees
<1>9. QED
  BY <1>5, <1>6, <1>7, <1>8 DEF Inv

(* The journal refuses: what was there is written back, or memory forgets it. *)
LEMMA RefusedInv ==
  ASSUME Inv, CallbackRefused
  PROVE  Inv'
<1>1. /\ call.at = "journal" /\ call' = NoCall /\ clientDoc' \in {clientDoc, call.client}
      /\ UNCHANGED <<valid, issued, clientId, expired, registered, consent, ask>>
  BY DEF CallbackRefused, provider, browser
<1>2. disk = NewCredential /\ call.previous = mem /\ NewCredential.client = call.client
  BY <1>1 DEF Inv, CallbackWrites, NewCredential
<1>3. \/ disk' = mem /\ mem' = mem
      \/ disk' \in {disk, mem} /\ mem' = NoCredential
  BY <1>2 DEF CallbackRefused, RollBack, RollBackFails
<1>4. call.client \in Clients /\ call.client \in Nat /\ call.client <= registered
      /\ (consent # 0 => call.client < consent)
  BY <1>1, ClientsArePositive DEF Inv, Shapes, CallShapes, ClientsInOrder
<1>5. call'.at = "idle" /\ call' \in Call /\ NoCredential \in Held /\ NoCredential.client = 0
  BY <1>1, NoCallFacts
<1>6. Shapes'
  BY <1>1, <1>3, <1>4, <1>5 DEF Inv, Shapes, ProviderShapes, StoreShapes, CallShapes, AskShapes
<1>7. ClientsInOrder'
  <2>1. Older(registered + 1) /\ (consent # 0 => Older(consent) /\ disk.client < consent)
    BY DEF Inv, ClientsInOrder
  <2>2. disk.client <= registered
    BY <1>2, <1>4
  <2>3. {mem'.client, disk'.client} \subseteq {0, mem.client, disk.client}
    BY <1>3, <1>5
  <2>4. registered \in Nat /\ consent \in Nat
    BY Numbers DEF Inv
  <2>5. Older(registered + 1)' /\ disk'.client <= registered'
    BY <1>1, <1>4, <2>1, <2>2, <2>3, <2>4, Numbers DEF Inv, Older
  <2>6. consent # 0 => Older(consent)' /\ disk'.client < consent
    BY <1>1, <1>4, <2>1, <2>3, <2>4, Numbers DEF Inv, Older
  <2>7. QED
    BY <1>1, <1>5, <2>5, <2>6 DEF ClientsInOrder
<1>8. OneRefresh'
  <2>1. \A k \in Callers : ask[k].at \in InFlight => ask[k].from.client # 0
    BY ClientsArePositive, Numbers DEF Inv, InFlight
  <2>2. QED
    BY <1>1, <1>3, <1>5, <2>1 DEF Inv, OneRefresh
<1>9. HeldAccepted' /\ CallbackWrites' /\ IdentityAgrees'
  BY <1>1, <1>3, <1>5 DEF Inv, CallbackWrites, HeldAccepted, SessionUsable, IdentityAgrees
<1>10. QED
  BY <1>6, <1>7, <1>8, <1>9 DEF Inv

(* A session without a credential takes the stored one only if the journal names its client. *)
LEMMA RecallInv ==
  ASSUME Inv, NEW k \in Callers, Recall(k)
  PROVE  Inv'
<1>1. /\ mem = NoCredential /\ disk # NoCredential
      /\ mem' = mem \/ (disk.client = clientId /\ mem' = disk)
      /\ UNCHANGED <<valid, issued, disk, clientId, clientDoc, expired, registered, consent, call, ask>>
  BY DEF Recall, Identified, provider, browser
<1>2. CASE mem' = mem
  BY <1>1, <1>2 DEF Inv, Shapes, ProviderShapes, StoreShapes, CallShapes, AskShapes, ClientsInOrder, Older,
     CallbackWrites, NewCredential, OneRefresh, HeldAccepted, SessionUsable, IdentityAgrees
<1>3. CASE disk.client = clientId /\ mem' = disk
  <2>1. call.at # "journal"
    <3>1. call.at = "journal" => clientId < call.client /\ disk.client = call.client
      BY DEF Inv, ClientsInOrder, Older, CallbackWrites, NewCredential
    <3>2. QED
      BY <1>3, <3>1, Numbers DEF Inv
  <2>2. Shapes'
    BY <1>1, <1>3 DEF Inv, Shapes, ProviderShapes, StoreShapes, CallShapes, AskShapes
  <2>3. ClientsInOrder'
    BY <1>1, <1>3 DEF Inv, ClientsInOrder, Older
  <2>4. CallbackWrites' /\ OneRefresh' /\ HeldAccepted' /\ IdentityAgrees'
    BY <1>1, <1>3, <2>1
    DEF Inv, CallbackWrites, OneRefresh, HeldAccepted, SessionUsable, IdentityAgrees
  <2>5. QED
    BY <2>2, <2>3, <2>4 DEF Inv
<1>4. QED
  BY <1>1, <1>2, <1>3

(* The provider rotates the token of the one refresh that is in flight; what is held of its client *)
(* is the token it was asked with.                                                                 *)
LEMMA RotateInv ==
  ASSUME Inv, NEW k \in Callers, Rotate(k)
  PROVE  Inv'
<1> DEFINE c == ask[k].from.client
           t == ask[k].from.token
           n == issued[c] + 1
<1>1. /\ ask[k].at = "asked" /\ t \in valid[c]
      /\ issued' = [issued EXCEPT ![c] = n]
      /\ UNCHANGED <<disk, mem, clientId, clientDoc, expired, registered, consent, call>>
  BY DEF Rotate, store, browser
<1>2. c \in Clients /\ c \in Nat /\ ask[k] \in Ask /\ ask[k].from \in Held
  BY <1>1, Numbers, ClientsArePositive DEF Inv
<1>3. n \in Nat /\ issued'[c] = n /\ issued' \in [Clients -> Nat]
  BY <1>1, <1>2 DEF Inv, Shapes, ProviderShapes
<1>4. /\ valid' = [valid EXCEPT ![c] = {t, n}]
      /\ ask' = [ask EXCEPT ![k].at = "answered", ![k].token = n]
  BY <1>3 DEF Rotate
<1>5. t \in Nat
  BY <1>2, <1>1 DEF Inv, Shapes, ProviderShapes
<1>6. valid' \in [Clients -> SUBSET Nat] /\ valid'[c] = {t, n}
      /\ \A d \in Clients : d # c => valid'[d] = valid[d]
  BY <1>2, <1>3, <1>4, <1>5 DEF Inv, Shapes, ProviderShapes
<1>7. /\ ask' \in [Callers -> Ask] /\ \A o \in Callers : o # k => ask'[o] = ask[o]
      /\ ask'[k].at = "answered" /\ ask'[k].from = ask[k].from /\ ask'[k].token = n
  <2>1. ask \in [Callers -> Ask]
    BY DEF Inv, Shapes, AskShapes
  <2> DEFINE a == [ask[k] EXCEPT !.at = "answered", !.token = n]
  <2> HIDE DEF n
  <2>2. a \in Ask /\ a.at = "answered" /\ a.from = ask[k].from /\ a.token = n
    BY <1>2, <1>3 DEF Ask, InFlight
  <2>3. ask' = [ask EXCEPT ![k] = a]
    BY <1>4, <2>1
  <2> HIDE DEF a
  <2>4. QED
    BY <2>1, <2>2, <2>3
<1>8. Shapes'
  <2>1. ask[k].from # NoCredential
    BY <1>1 DEF Inv, Shapes, AskShapes
  <2>2. QED
    BY <1>1, <1>3, <1>6, <1>7, <2>1
    DEF Inv, Shapes, ProviderShapes, StoreShapes, CallShapes, AskShapes
<1>9. ClientsInOrder'
  <2>1. \A o \in Callers : ask'[o].from = ask[o].from
    BY <1>7
  <2>2. QED
    BY <1>1, <2>1 DEF Inv, ClientsInOrder, Older
<1>10. CallbackWrites' /\ IdentityAgrees'
  BY <1>1 DEF Inv, CallbackWrites, NewCredential, IdentityAgrees
<1>11. /\ mem.client = c => mem = ask[k].from
       /\ disk.client = c => disk = ask[k].from
       /\ \A o \in Callers : ask[o].at \in InFlight => o = k
  BY <1>1 DEF Inv, OneRefresh, InFlight
<1>12. HeldAccepted'
  <2>1. /\ mem # NoCredential => mem.client \in Clients
        /\ disk # NoCredential => disk.client \in Clients
    BY Numbers DEF Inv
  <2>2. call.at = "answered" => call.client \in Clients /\ call.client # c
    BY <1>2, Numbers DEF Inv, Shapes, CallShapes, ClientsInOrder, Older
  <2>3. QED
    BY <1>1, <1>6, <1>11, <2>1, <2>2 DEF Inv, HeldAccepted, SessionUsable
<1>13. OneRefresh'
  BY <1>1, <1>6, <1>7, <1>11 DEF OneRefresh, InFlight
<1>14. QED
  BY <1>8, <1>9, <1>10, <1>12, <1>13 DEF Inv

(* A refresh that still owns its credential ends: the new token or the old one is stored, and      *)
(* memory holds the same or nothing.                                                               *)
LEMMA StoredInv ==
  ASSUME Inv, NEW k \in Callers, ask[k].at = "answered", call.at # "journal", Owns(k),
         ask' = [ask EXCEPT ![k] = NoAsk],
         disk' \in {ask[k].from, Rotated(k)}, mem' \in {disk', NoCredential},
         UNCHANGED <<provider, clientId, clientDoc, expired, browser, call>>
  PROVE  Inv'
<1> DEFINE c == ask[k].from.client
<1>1. UNCHANGED <<valid, issued, registered, consent>>
  BY DEF provider, browser
<1>2. /\ mem = ask[k].from /\ mem # NoCredential /\ c \in Clients /\ c \in Nat /\ mem \in Held
      /\ ask[k].token \in Nat
  BY Numbers, ClientsArePositive DEF Owns, Inv, Shapes, AskShapes, StoreShapes, Ask
<1>3. disk = mem /\ clientId = c
  BY <1>2 DEF Inv, IdentityAgrees
<1>4. disk' \in Held /\ disk'.client = c /\ disk' # NoCredential
  BY <1>2, ClientsArePositive DEF Rotated, Held, NoCredential
<1>5. disk'.token \in valid[c]
  BY DEF Inv, OneRefresh, InFlight, Rotated
<1>6. NoAsk \in Ask /\ NoAsk.at = "idle" /\ NoAsk.from = NoCredential
  BY DEF NoAsk, Ask, Held
<1>7. NoCredential \in Held /\ NoCredential.client = 0
  BY DEF Held, NoCredential
<1>8. ask \in [Callers -> Ask] /\ ask'[k] = NoAsk /\ \A o \in Callers : o # k => ask'[o] = ask[o]
  BY DEF Inv, Shapes, AskShapes
<1>9. Shapes'
  BY <1>1, <1>4, <1>6, <1>7, <1>8
  DEF Inv, Shapes, ProviderShapes, StoreShapes, CallShapes, AskShapes
<1>10. ClientsInOrder'
  <2>1. mem'.client \in {0, c} /\ \A o \in Callers : ask'[o].from.client \in {0, ask[o].from.client}
    BY <1>4, <1>6, <1>7, <1>8
  <2>2. \A d \in Nat : d > 0 /\ Older(d) => Older(d)'
    BY <1>2, <2>1 DEF Older
  <2>3. call.at # "idle" => call.client > 0
    BY ClientsArePositive DEF Inv, Shapes, CallShapes
  <2>4. registered + 1 \in Nat /\ consent \in Nat /\ call.client \in Nat
    BY Numbers DEF Inv
  <2>5. QED
    BY <1>1, <1>2, <1>3, <1>4, <2>2, <2>3, <2>4, Numbers DEF Inv, ClientsInOrder
<1>11. OneRefresh'
  <2>1. \A o \in Callers : o # k => ask[o].at \notin InFlight
    BY DEF Inv, OneRefresh, InFlight
  <2>2. QED
    BY <1>6, <1>8, <2>1 DEF OneRefresh, InFlight
<1>12. CallbackWrites' /\ HeldAccepted' /\ IdentityAgrees'
  BY <1>1, <1>3, <1>4, <1>5 DEF Inv, CallbackWrites, HeldAccepted, SessionUsable, IdentityAgrees
<1>13. QED
  BY <1>9, <1>10, <1>11, <1>12 DEF Inv

(* A restart reads what is stored, and restores it only if the document names its client. *)
LEMMA RestartInv ==
  ASSUME Inv, Restart
  PROVE  Inv'
<1>1. /\ disk' \in (IF call.at = "journal" THEN {disk, call.previous} ELSE {disk})
      /\ clientId' = clientDoc /\ UNCHANGED <<valid, issued, clientDoc, expired, registered>>
      /\ consent' = 0 /\ call' = NoCall /\ ask' = [k \in Callers |-> NoAsk]
      /\ mem' = IF disk'.client \in {0, clientDoc} THEN disk' ELSE NoCredential
  BY DEF Restart, provider
<1>2. disk' \in {disk, mem}
  BY <1>1 DEF Inv, CallbackWrites
<1>3. NoAsk \in Ask /\ NoAsk.at = "idle" /\ NoAsk.from = NoCredential
  BY DEF NoAsk, Ask, Held
<1>4. call' \in Call /\ call'.at = "idle" /\ NoCredential \in Held /\ NoCredential.client = 0
  BY <1>1, NoCallFacts
<1>5. \A k \in Callers : ask'[k] = NoAsk
  BY <1>1
<1>6. Shapes'
  <2>1. ask' \in [Callers -> Ask]
    BY <1>1, <1>3
  <2>2. QED
    BY <1>1, <1>2, <1>3, <1>4, <1>5, <2>1, Numbers
    DEF Inv, Shapes, ProviderShapes, StoreShapes, CallShapes, AskShapes
<1>7. ClientsInOrder'
  <2>1. disk'.client <= registered
    BY <1>2, Numbers DEF Inv, ClientsInOrder, Older
  <2>2. clientDoc < registered + 1 /\ disk'.client \in Nat /\ registered \in Nat
    BY <1>2, Numbers DEF Inv, ClientsInOrder, Older
  <2>3. mem'.client <= registered
    BY <1>1, <1>4, <2>1, <2>2
  <2>4. QED
    BY <1>1, <1>3, <1>4, <1>5, <2>1, <2>2, <2>3, Numbers DEF Inv, ClientsInOrder, Older
<1>8. CallbackWrites' /\ OneRefresh'
  BY <1>1, <1>3, <1>4, <1>5 DEF CallbackWrites, OneRefresh, InFlight
<1>9. HeldAccepted'
  BY <1>1, <1>2, <1>4 DEF Inv, HeldAccepted, SessionUsable
<1>10. IdentityAgrees'
  <2>1. disk' # NoCredential => disk'.client # 0
    BY <1>2, ClientsArePositive, Numbers DEF Inv
  <2>2. QED
    BY <1>1, <2>1 DEF IdentityAgrees
<1>11. QED
  BY <1>6, <1>7, <1>8, <1>9, <1>10 DEF Inv

(* The steps that only move an attempt, the status or the clock. *)
LEMMA OwnerInv ==
  ASSUME Inv, Connect \/ ConnectAnswered \/ ConnectFails \/ Cancel \/ ConsentFails \/ Expire \/ Revoke
  PROVE  Inv'
<1>1. UNCHANGED <<valid, issued, disk, mem, clientId, clientDoc>>
  BY DEF Connect, ConnectAnswered, ConnectFails, Cancel, ConsentFails, Expire, Revoke, Supersede,
     provider, store
<1>2. NoCredential \notin expired'
  <2>1. expired' = expired \/ (expired' = expired \cup {mem} /\ mem # NoCredential)
    BY DEF Connect, ConnectAnswered, ConnectFails, Cancel, ConsentFails, Expire, Revoke, Supersede, store
  <2>2. QED
    BY <2>1 DEF Inv, Shapes, StoreShapes
<1>3. \/ registered' = registered /\ consent' \in {0, consent}
      \/ registered' = registered + 1 /\ registered' \in Clients /\ consent' = registered'
  BY DEF Connect, ConnectAnswered, ConnectFails, Cancel, ConsentFails, Expire, Revoke, Supersede, browser
<1>4. /\ call' = call \/ call' = [call EXCEPT !.live = FALSE]
      /\ ask' = ask \/ ask' = [k \in Callers |-> [ask[k] EXCEPT !.live = FALSE]]
  BY DEF Connect, ConnectAnswered, ConnectFails, Cancel, ConsentFails, Expire, Revoke, Supersede
<1>5. QED
  BY <1>1, <1>2, <1>3, <1>4, FrameInv

(* The steps of a request for the credential. *)
LEMMA RefreshInv ==
  ASSUME Inv, NEW k \in Callers, Refresh(k)
  PROVE  Inv'
<1>1. CASE Recall(k)
  BY <1>1, RecallInv
<1>2. CASE NeedsRefresh(k)
  <2> DEFINE a == [at |-> "queued", from |-> mem, token |-> 0, live |-> TRUE]
  <2>1. /\ ask' = [ask EXCEPT ![k] = a] /\ mem \in expired
        /\ UNCHANGED <<provider, store, registered, consent, call>>
    BY <1>2 DEF NeedsRefresh, browser
  <2>2. a \in Ask /\ a.from = mem /\ a.at = "queued" /\ mem # NoCredential
    BY <2>1 DEF Ask, Inv, Shapes, StoreShapes
  <2> HIDE DEF a
  <2>3. QED
    BY <2>1, <2>2, AskInv
<1>3. CASE StartRefresh(k)
  <2> DEFINE a == [ask[k] EXCEPT !.at = "asked"]
  <2>1. /\ ask[k].at = "queued" /\ \A o \in Callers : o # k => ask[o].at \notin InFlight
        /\ ask' = [ask EXCEPT ![k] = IF ask[k].live /\ mem = ask[k].from THEN a ELSE NoAsk]
        /\ UNCHANGED <<provider, store, registered, consent, call>>
    BY <1>3 DEF StartRefresh, Asks, InFlight, browser, Inv, Shapes, AskShapes
  <2>2. a \in Ask /\ a.from = ask[k].from /\ a.at = "asked" /\ ask[k].from # NoCredential
    BY <2>1 DEF Inv, Shapes, AskShapes, Ask, InFlight
  <2>3. \A o \in Callers : ask[o].at \notin InFlight
    BY <2>1 DEF InFlight
  <2> HIDE DEF a
  <2>4. CASE mem = ask[k].from /\ ask[k].live
    BY <2>1, <2>2, <2>3, <2>4, AskInv
  <2>5. CASE ~(mem = ask[k].from /\ ask[k].live)
    BY <2>1, <2>5, AskInv
  <2>6. QED
    BY <2>4, <2>5
<1>4. CASE Rotate(k)
  BY <1>4, RotateInv
<1>5. CASE RefreshAnswered(k)
  <2>1. CASE Owns(k)
    BY <1>5, <2>1, StoredInv DEF RefreshAnswered
  <2>2. CASE ~Owns(k)
    BY <1>5, <2>2, AskInv DEF RefreshAnswered, store, browser
  <2>3. QED
    BY <2>1, <2>2
<1>6. CASE RefreshNotStored(k)
  <2>1. /\ ask[k].at = "answered" /\ call.at # "journal" /\ Owns(k)
        /\ ask' = [ask EXCEPT ![k] = NoAsk]
        /\ UNCHANGED <<provider, clientId, clientDoc, expired, browser, call>>
    BY <1>6 DEF RefreshNotStored
  <2>2. disk' \in {ask[k].from, Rotated(k)} /\ mem' \in {disk', NoCredential}
    BY <1>6, <2>1 DEF RefreshNotStored, Owns
  <2>3. QED
    BY <2>1, <2>2, StoredInv
<1>7. CASE RefreshFails(k)
  BY <1>7, AskInv DEF RefreshFails, browser
<1>8. QED
  BY <1>1, <1>2, <1>3, <1>4, <1>5, <1>6, <1>7 DEF Refresh

-----------------------------------------------------------------------------
(* What the status tells.                                                                          *)

(* An attempt that may still tell a status. *)
Attempt == connecting \/ consent # 0 \/ (call.at # "idle" /\ call.live)

(* A session that forgot its credential, without a failure of the store, has none that it would    *)
(* recall: what the disk holds is of another client than the journal.                              *)
NothingToRecall == mem = NoCredential => disk = NoCredential \/ disk.client # clientId
StatusAgrees ==
    /\ status = "connected" => mem # NoCredential
    /\ status \in {"disconnected", "reconnect"} => mem = NoCredential
StatusInv == ~lapsed => NothingToRecall /\ (~Attempt => StatusAgrees)

(* A step that tells nothing: it ends no attempt, and what it does to a credential leaves one.     *)
LEMMA QuietStep ==
  ASSUME StatusInv, Quietly, ~Attempt' => ~Attempt,
         \/ mem' = mem /\ (mem # NoCredential \/ UNCHANGED <<disk, clientId>>)
         \/ mem # NoCredential /\ mem' # NoCredential
  PROVE  StatusInv'
<1>1. lapsed' = lapsed /\ status' = status
  BY DEF Quietly
<1>2. NothingToRecall => NothingToRecall'
  BY DEF NothingToRecall
<1>3. StatusAgrees => StatusAgrees'
  BY <1>1 DEF StatusAgrees
<1>4. QED
  BY <1>1, <1>2, <1>3 DEF StatusInv

(* A failure of a refresh or of the store is on record. *)
LEMMA LapsedStep == ASSUME lapsed' = TRUE PROVE StatusInv'
BY DEF StatusInv

(* A step that tells whether there is a credential now. *)
LEMMA ToldStep ==
  ASSUME StatusInv, NEW s, Tell(s),
         \/ s = "connected" /\ mem' # NoCredential
         \/ s \in {"disconnected", "reconnect"} /\ mem' = NoCredential /\ (~lapsed => NothingToRecall')
  PROVE  StatusInv'
<1>1. status' = s /\ lapsed' = (lapsed /\ s # "connected")
  BY DEF Tell
<1>2. StatusAgrees'
  BY <1>1 DEF StatusAgrees
<1>3. ~lapsed' => NothingToRecall'
  BY <1>1 DEF NothingToRecall
<1>4. QED
  BY <1>2, <1>3 DEF StatusInv

(* A failed attempt tells what is left. *)
LEMMA FailureTold ==
  ASSUME StatusInv, TellAfterFailure, mem' = mem,
         mem # NoCredential \/ disk' = mem \/ UNCHANGED <<disk, clientId>>
  PROVE  StatusInv'
<1>1. CASE mem' # NoCredential
  <2>1. Tell("connected")
    BY <1>1 DEF TellAfterFailure
  <2>2. QED
    BY <1>1, <2>1, ToldStep
<1>2. CASE mem' = NoCredential
  <2>1. Tell("reconnect")
    BY <1>2 DEF TellAfterFailure
  <2>2. ~lapsed => NothingToRecall'
    BY <1>2 DEF StatusInv, NothingToRecall
  <2>3. QED
    BY <1>2, <2>1, <2>2, ToldStep
<1>3. QED
  BY <1>1, <1>2

(* Connecting, cancelling, and an attempt that ends before its callback. *)
LEMMA OwnerTold ==
  ASSUME Inv, StatusInv, Connect \/ ConnectAnswered \/ ConnectFails \/ Cancel \/ ConsentFails
  PROVE  StatusInv'
<1>1. UNCHANGED <<disk, mem, clientId>>
  BY DEF Connect, ConnectAnswered, ConnectFails, Cancel, ConsentFails, Supersede, store
<1>2. CASE Connect
  <2>1. connecting' = TRUE /\ (lapsed' <=> lapsed)
    BY <1>2 DEF Connect, Tell, StatusInv
  <2>2. NothingToRecall' <=> NothingToRecall
    BY <1>1 DEF NothingToRecall
  <2>3. Attempt'
    BY <2>1 DEF Attempt
  <2>4. QED
    BY <2>1, <2>2, <2>3 DEF StatusInv
<1>3. CASE ConnectAnswered
  <2>1. registered' = registered + 1 /\ consent' = registered' /\ Quietly
    BY <1>3 DEF ConnectAnswered
  <2>2. registered \in Nat
    BY Numbers DEF Inv
  <2>3. Attempt'
    BY <2>1, <2>2 DEF Attempt
  <2>4. QED
    BY <1>1, <2>1, <2>3, QuietStep
<1>4. CASE Cancel
  <2>1. CASE mem # NoCredential
    BY <1>1, <1>4, <2>1, ToldStep DEF Cancel
  <2>2. CASE mem = NoCredential
    <3>1. ~lapsed => NothingToRecall'
      BY <1>1 DEF StatusInv, NothingToRecall
    <3>2. QED
      BY <1>1, <1>4, <2>2, <3>1, ToldStep DEF Cancel
  <2>3. QED
    BY <2>1, <2>2
<1>5. CASE ConnectFails \/ ConsentFails
  BY <1>1, <1>5, FailureTold DEF ConnectFails, ConsentFails
<1>6. QED
  BY <1>2, <1>3, <1>4, <1>5

(* A callback tells a status when it ends, unless a later attempt has made it stale. *)
LEMMA CallbackTold ==
  ASSUME Inv, StatusInv,
         Callback \/ Exchange \/ CallbackAnswered \/ CallbackFails \/ CallbackCommits \/ CallbackRefused
  PROVE  StatusInv'
<1>1. call \in Call /\ NoCall.at = "idle"
  BY DEF Inv, Shapes, CallShapes, NoCall
<1>2. CASE Callback
  <2>1. Quietly /\ UNCHANGED <<mem, disk, clientId>>
    BY <1>2 DEF Callback, store
  <2>2. call'.at = "exchange" /\ call'.live = TRUE
    BY <1>2 DEF Callback, NoCall
  <2>3. Attempt'
    BY <2>2 DEF Attempt
  <2>4. QED
    BY <2>1, <2>3, QuietStep
<1>3. CASE Exchange
  <2>1. Quietly /\ UNCHANGED <<mem, disk, clientId, connecting, consent>>
    BY <1>3 DEF Exchange, store, browser
  <2>2. call.at # "idle" /\ call'.at = "answered" /\ call'.live = call.live
    BY <1>1, <1>3 DEF Exchange, Call
  <2>3. ~Attempt' => ~Attempt
    BY <2>1, <2>2 DEF Attempt
  <2>4. QED
    BY <2>1, <2>3, QuietStep
<1>4. CASE CallbackAnswered
  <2>1. Quietly /\ UNCHANGED <<mem, clientId, connecting, consent>> /\ call.at = "answered"
    BY <1>4 DEF CallbackAnswered, browser
  <2>2. CASE call.live
    <3>1. call'.at = "journal" /\ call'.live = call.live /\ disk' = NewCredential
      BY <1>1, <1>4, <2>2 DEF CallbackAnswered, Call
    <3>2. Attempt'
      BY <2>2, <3>1 DEF Attempt
    <3>3. NothingToRecall'
      <4>1. clientId < call.client /\ disk'.client = call.client
        BY <2>1, <3>1 DEF Inv, ClientsInOrder, Older, NewCredential
      <4>2. clientId \in Nat /\ call.client \in Nat
        BY Numbers DEF Inv
      <4>3. QED
        BY <2>1, <4>1, <4>2 DEF NothingToRecall
    <3>4. QED
      BY <3>2, <3>3 DEF StatusInv
  <2>3. CASE ~call.live
    <3>1. disk' = disk
      BY <1>4, <2>3 DEF CallbackAnswered
    <3>2. ~Attempt' => ~Attempt
      BY <2>1, <2>3 DEF Attempt
    <3>3. QED
      BY <2>1, <3>1, <3>2, QuietStep
  <2>4. QED
    BY <2>2, <2>3
<1>5. CASE CallbackFails
  <2>1. UNCHANGED <<mem, disk, clientId, connecting>>
    BY <1>5 DEF CallbackFails, store
  <2>2. CASE call.live
    BY <1>5, <2>1, <2>2, FailureTold DEF CallbackFails
  <2>3. CASE ~call.live
    <3>1. Quietly /\ consent' = consent
      BY <1>5, <2>3 DEF CallbackFails
    <3>2. ~Attempt' => ~Attempt
      BY <2>1, <2>3, <3>1 DEF Attempt
    <3>3. QED
      BY <2>1, <3>1, <3>2, QuietStep
  <2>4. QED
    BY <2>2, <2>3
<1>6. CASE CallbackCommits
  <2>1. mem' = NewCredential /\ Tell("connected") /\ call.at = "journal"
    BY <1>6 DEF CallbackCommits
  <2>2. NewCredential # NoCredential
    BY <2>1, ClientsArePositive DEF Inv, Shapes, CallShapes, NewCredential, NoCredential
  <2>3. QED
    BY <2>1, <2>2, ToldStep
<1>7. CASE CallbackRefused
  <2>1. call.at = "journal" /\ UNCHANGED <<clientId, connecting, consent>>
    BY <1>7 DEF CallbackRefused, browser
  <2>2. call.previous = mem
    BY <2>1 DEF Inv, CallbackWrites
  <2>3. CASE ~call.live /\ RollBack /\ Quietly
    <3>1. ~Attempt' => ~Attempt
      BY <2>1, <2>3 DEF Attempt
    <3>2. mem' = mem /\ disk' = mem
      BY <2>2, <2>3 DEF RollBack
    <3>3. mem' = NoCredential => NothingToRecall'
      BY <3>2 DEF NothingToRecall
    <3>4. CASE mem # NoCredential
      BY <2>3, <3>1, <3>2, <3>4, QuietStep
    <3>5. CASE mem = NoCredential
      <4>1. StatusAgrees => StatusAgrees'
        BY <2>3, <3>2 DEF StatusAgrees, Quietly
      <4>2. lapsed' = lapsed
        BY <2>3 DEF Quietly
      <4>3. QED
        BY <3>1, <3>2, <3>3, <3>5, <4>1, <4>2 DEF StatusInv
    <3>6. QED
      BY <3>4, <3>5
  <2>4. CASE RollBackFails
    BY <2>4, LapsedStep DEF RollBackFails, Lapse
  <2>5. CASE RollBack /\ TellAfterFailure
    BY <2>2, <2>5, FailureTold DEF RollBack
  <2>6. QED
    BY <1>7, <2>3, <2>4, <2>5 DEF CallbackRefused
<1>8. QED
  BY <1>2, <1>3, <1>4, <1>5, <1>6, <1>7

(* A refresh replaces a credential by another one, or its failure is on record. *)
LEMMA RefreshTold ==
  ASSUME Inv, StatusInv, NEW k \in Callers, Refresh(k)
  PROVE  StatusInv'
<1>1. UNCHANGED <<connecting, consent, call, clientId>>
  BY DEF Refresh, Recall, NeedsRefresh, StartRefresh, Asks, Rotate, RefreshAnswered,
         RefreshNotStored, RefreshFails, browser, store
<1>2. Attempt' <=> Attempt
  BY <1>1 DEF Attempt
<1>3. CASE Recall(k)
  <2>1. mem = NoCredential /\ disk # NoCredential /\ disk' = disk
    BY <1>3 DEF Recall
  <2>2. CASE Identified(disk)
    <3>1. lapsed' = lapsed
      BY <1>3, <2>2 DEF Recall, Quietly
    <3>2. ~NothingToRecall
      BY <2>1, <2>2 DEF NothingToRecall, Identified
    <3>3. QED
      BY <3>1, <3>2 DEF StatusInv
  <2>3. CASE ~Identified(disk)
    <3>1. mem' = mem /\ Tell("reconnect")
      BY <1>3, <2>3 DEF Recall
    <3>2. NothingToRecall'
      BY <1>1, <2>1, <2>3 DEF NothingToRecall, Identified
    <3>3. QED
      BY <2>1, <3>1, <3>2, ToldStep
  <2>4. QED
    BY <2>2, <2>3
<1>4. CASE NeedsRefresh(k) \/ StartRefresh(k) \/ Rotate(k)
  <2>1. Quietly /\ UNCHANGED <<mem, disk>>
    BY <1>4 DEF NeedsRefresh, StartRefresh, Asks, Rotate, store
  <2>2. QED
    BY <1>1, <1>2, <2>1, QuietStep
<1>5. CASE RefreshAnswered(k)
  <2>1. Quietly /\ ask[k].at = "answered"
    BY <1>5 DEF RefreshAnswered
  <2>2. CASE Owns(k)
    <3>1. mem = ask[k].from /\ mem' = Rotated(k)
      BY <1>5, <2>2 DEF RefreshAnswered, Owns
    <3>2. mem # NoCredential /\ ask[k].from.client \in Clients
      BY <2>1, <3>1, Numbers DEF Inv, Shapes, AskShapes
    <3>3. Rotated(k) # NoCredential
      BY <3>2, ClientsArePositive DEF Rotated, NoCredential
    <3>4. QED
      BY <1>2, <2>1, <3>1, <3>2, <3>3, QuietStep
  <2>3. CASE ~Owns(k)
    BY <1>1, <1>2, <1>5, <2>1, <2>3, QuietStep DEF RefreshAnswered
  <2>4. QED
    BY <2>2, <2>3
<1>6. CASE RefreshNotStored(k)
  BY <1>6, LapsedStep DEF RefreshNotStored, Lapse
<1>7. CASE RefreshFails(k)
  <2>1. CASE Owns(k)
    BY <1>7, <2>1, LapsedStep DEF RefreshFails, Lapse
  <2>2. CASE ~Owns(k)
    BY <1>1, <1>2, <1>7, <2>2, QuietStep DEF RefreshFails, store
  <2>3. QED
    BY <2>1, <2>2
<1>8. QED
  BY <1>3, <1>4, <1>5, <1>6, <1>7 DEF Refresh

(* A new session tells what it restores. *)
LEMMA RestartTold ==
  ASSUME Inv, StatusInv, Restart
  PROVE  StatusInv'
<1>1. clientId' = clientDoc
  BY DEF Restart
<1>2. CASE disk'.client \in {0, clientDoc}
  <2>1. mem' = disk' /\ Tell(IF disk' = NoCredential THEN "disconnected" ELSE "connected")
    BY <1>2 DEF Restart
  <2>2. CASE disk' = NoCredential
    <3>1. NothingToRecall'
      BY <2>2 DEF NothingToRecall
    <3>2. QED
      BY <2>1, <2>2, <3>1, ToldStep
  <2>3. CASE disk' # NoCredential
    BY <2>1, <2>3, ToldStep
  <2>4. QED
    BY <2>2, <2>3
<1>3. CASE disk'.client \notin {0, clientDoc}
  <2>1. mem' = NoCredential /\ Tell("reconnect")
    BY <1>3 DEF Restart
  <2>2. NothingToRecall'
    BY <1>1, <1>3 DEF NothingToRecall
  <2>3. QED
    BY <2>1, <2>2, ToldStep
<1>4. QED
  BY <1>2, <1>3

(* Every step keeps the status true. *)
LEMMA StatusStep == Inv /\ StatusInv /\ [Next]_vars => StatusInv'
<1> SUFFICES ASSUME Inv, StatusInv, [Next]_vars PROVE StatusInv'
  OBVIOUS
<1>1. CASE Expire \/ Revoke \/ UNCHANGED vars
  <2>1. Quietly /\ UNCHANGED <<mem, disk, clientId, connecting, consent, call>>
    BY <1>1 DEF Expire, Revoke, vars, Quietly, store, browser
  <2>2. ~Attempt' => ~Attempt
    BY <2>1 DEF Attempt
  <2>3. QED
    BY <2>1, <2>2, QuietStep
<1>2. CASE SignIn
  BY <1>2, OwnerTold, CallbackTold DEF SignIn
<1>3. CASE \E k \in Callers : Refresh(k)
  BY <1>3, RefreshTold
<1>4. CASE Restart
  BY <1>4, RestartTold
<1>5. QED
  BY <1>1, <1>2, <1>3, <1>4 DEF Next

-----------------------------------------------------------------------------
(* The theorems.                                                                                   *)

(* Every step preserves the invariant. *)
LEMMA NextInv == Inv /\ [Next]_vars => Inv'
<1> SUFFICES ASSUME Inv, [Next]_vars PROVE Inv'
  OBVIOUS
<1>1. CASE UNCHANGED vars
  BY <1>1, FrameInv DEF vars, provider, store, browser, Inv, Shapes, StoreShapes
<1>2. CASE SignIn
  <2>1. CASE CallbackFails
    BY <2>1, CallEndsInv DEF CallbackFails
  <2>2. QED
    BY <1>2, <2>1, OwnerInv, CallbackInv, ExchangeInv, AnsweredInv, CommitsInv, RefusedInv DEF SignIn
<1>3. CASE \E k \in Callers : Refresh(k)
  BY <1>3, RefreshInv
<1>4. CASE Expire \/ Revoke
  BY <1>4, OwnerInv
<1>5. CASE Restart
  BY <1>5, RestartInv
<1>6. QED
  BY <1>1, <1>2, <1>3, <1>4, <1>5 DEF Next

(* The inductive invariant: a client that signs in is newer than all that the device ever held,    *)
(* and one refresh at a time starts from what is stored.                                           *)
THEOREM SessionInvHolds == Spec => []Inv
<1>1. QED
  BY InitInv, NextInv, PTL DEF Spec

(* The credential in memory is the stored one and the journal names its client (callback and       *)
(* getCredential of DeviceSession), for any requests, sign-ins, failures and restarts.             *)
THEOREM IdentityAgreesHolds == Spec => []IdentityAgrees
<1>1. Inv => IdentityAgrees
  BY DEF Inv
<1>2. QED
  BY <1>1, SessionInvHolds, PTL

(* No race of refreshes leaves a token that the provider no longer accepts (refreshTail, and the   *)
(* checks after each wait of getCredential).                                                       *)
THEOREM SessionUsableHolds == Spec => []SessionUsable
<1>1. Inv => SessionUsable
  BY DEF Inv, HeldAccepted
<1>2. QED
  BY <1>1, SessionInvHolds, PTL

(* Between attempts the status tells whether there is a credential, unless a refresh or the store  *)
(* failed: every end of a live attempt tells, and a stale one has nothing to tell (setStatus).     *)
THEOREM StatusTrueHolds == Spec => []StatusTrue
<1>1. Init => StatusInv
  BY DEF Init, StatusInv, NothingToRecall, StatusAgrees
<1>2. StatusInv => StatusTrue
  BY DEF StatusInv, StatusAgrees, StatusTrue, Quiet, Attempt, Usable
<1>3. QED
  BY <1>1, <1>2, StatusStep, SessionInvHolds, PTL DEF Spec
=============================================================================
