---------------------------- MODULE DeviceSession ----------------------------
(* The plugin's sign-in (DeviceSession): connecting in a browser, the callback that stores a       *)
(* credential and the journal's client id under one write transaction, refreshes that rotate the   *)
(* token, cancellation, restarts, and the provider that issues the tokens. A step is what runs     *)
(* between two waits. The credential store is synchronous, so that a write and its read-back are   *)
(* one step; the journal's queue, the browser and the network are what is waited for. An attempt,  *)
(* or a refresh, is live as long as its generation is the session's.                               *)
EXTENDS Integers, FiniteSets

CONSTANTS Callers,     \* requests that may need a credential at once
          Clients,     \* OAuth client ids, 1..n, in the order in which they are registered
          MaxTokens,   \* refresh tokens issued to one client
          MaxFaults,   \* network failures, storage failures and restarts
          MaxTurns     \* connects and cancels by the owner

ASSUME SessionAssumption ==
    /\ IsFiniteSet(Callers) /\ IsFiniteSet(Clients)
    /\ Clients = 1..Cardinality(Clients)
    /\ {MaxTokens, MaxFaults, MaxTurns} \subseteq Nat

VARIABLES valid,       \* the refresh tokens of each client that the provider accepts
          issued,      \* how many it has issued
          revoked,     \* clients the owner revoked
          registered,  \* the newest client id
          disk,        \* the credential store
          clientId,    \* the journal's client id in memory
          clientDoc,   \* the same in the journal's document
          mem,         \* this.credential
          expired,     \* credentials whose access token is about to expire
          status,      \* the status told last
          connecting,  \* connect() of the live generation waits for the network
          consent,     \* the client of the pending consent, or 0
          call,        \* the callback under way
          ask,         \* the credential request of each caller
          lapsed,      \* history: a refresh or the store failed since "connected" was last told
          faults, turns

provider == <<valid, issued, revoked>>
store    == <<disk, clientId, clientDoc, mem, expired>>
browser  == <<registered, connecting, consent>>
bounds   == <<faults, turns>>
vars     == <<provider, store, browser, status, call, ask, lapsed, bounds>>

NoCredential == [client |-> 0, token |-> 0]
Credential   == [client : Clients, token : 1..MaxTokens]
NoCall == [at |-> "idle", client |-> 0, previous |-> NoCredential, live |-> FALSE]
NoAsk  == [at |-> "idle", from |-> NoCredential, token |-> 0, live |-> FALSE]

Init ==
    /\ valid = [c \in Clients |-> {}] /\ issued = [c \in Clients |-> 0] /\ revoked = {}
    /\ registered = 0 /\ connecting = FALSE /\ consent = 0
    /\ disk = NoCredential /\ mem = NoCredential /\ clientId = 0 /\ clientDoc = 0
    /\ expired = {} /\ status = "disconnected"
    /\ call = NoCall /\ ask = [k \in Callers |-> NoAsk]
    /\ lapsed = FALSE /\ faults = 0 /\ turns = 0

(* setStatus. *)
Tell(s) == status' = s /\ lapsed' = (lapsed /\ s # "connected")
Lapse == status' = "reconnect" /\ lapsed' = TRUE
TellAfterFailure == Tell(IF mem' # NoCredential THEN "connected" ELSE "reconnect")
Quietly == UNCHANGED <<status, lapsed>>
Fault == faults < MaxFaults /\ faults' = faults + 1 /\ turns' = turns

(* assertCredentialIdentity: the journal names the client of the credential. *)
Identified(cred) == cred.client = clientId

(* ++generation: every attempt and refresh under way is stale from now on. *)
Supersede ==
    /\ turns < MaxTurns /\ turns' = turns + 1 /\ faults' = faults
    /\ consent' = 0
    /\ call' = [call EXCEPT !.live = FALSE]
    /\ ask' = [k \in Callers |-> [ask[k] EXCEPT !.live = FALSE]]
    /\ UNCHANGED <<provider, store, registered>>

-----------------------------------------------------------------------------
(* Signing in. *)

Connect == Supersede /\ connecting' = TRUE /\ Tell("connecting")

ConnectAnswered ==
    /\ connecting /\ registered + 1 \in Clients
    /\ registered' = registered + 1
    /\ consent' = registered' /\ connecting' = FALSE
    /\ Quietly /\ UNCHANGED <<provider, store, call, ask, bounds>>

ConnectFails ==
    /\ connecting /\ connecting' = FALSE /\ consent' = 0
    /\ UNCHANGED <<provider, store, registered, call, ask, bounds>>
    /\ TellAfterFailure

Cancel_ForgetsSession == Supersede /\ connecting' = FALSE /\ Tell("disconnected")
Cancel ==
    /\ Supersede /\ connecting' = FALSE
    /\ Tell(IF mem # NoCredential THEN "connected" ELSE "disconnected")

(* finishConsentAsFailed: the consent expired, or the callback is an error. *)
ConsentFails ==
    /\ consent # 0 /\ consent' = 0
    /\ UNCHANGED <<provider, store, registered, connecting, call, ask, bounds>>
    /\ TellAfterFailure

(* The callback with a code. A second one finds no pending consent. *)
Callback ==
    /\ consent # 0 /\ call.at = "idle"
    /\ consent' = 0
    /\ call' = [NoCall EXCEPT !.at = "exchange", !.client = consent, !.live = TRUE]
    /\ Quietly /\ UNCHANGED <<provider, store, registered, connecting, ask, bounds>>

(* The provider exchanges the code. *)
Exchange ==
    /\ call.at = "exchange" /\ call.client \notin revoked
    /\ issued' = [issued EXCEPT ![call.client] = 1]
    /\ valid' = [valid EXCEPT ![call.client] = {1}]
    /\ call' = [call EXCEPT !.at = "answered"]
    /\ Quietly /\ UNCHANGED <<revoked, store, browser, ask, bounds>>

NewCredential == [client |-> call.client, token |-> 1]

(* The callback's answer: a stale one ends; a live one writes the credential under the transaction *)
(* and waits for the journal.                                                                      *)
CallbackAnswered ==
    /\ call.at = "answered"
    /\ IF call.live
         THEN /\ call' = [call EXCEPT !.at = "journal", !.previous = mem]
              /\ disk' = NewCredential
         ELSE call' = NoCall /\ disk' = disk
    /\ Quietly /\ UNCHANGED <<provider, clientId, clientDoc, mem, expired, browser, ask, bounds>>

(* Its exchange is refused, or the network fails. *)
CallbackFails ==
    /\ call.at \in {"exchange", "answered"} /\ call' = NoCall
    /\ UNCHANGED <<provider, store, registered, connecting, ask, bounds>>
    /\ IF call.live THEN consent' = 0 /\ TellAfterFailure ELSE consent' = consent /\ Quietly

(* setClientId commits, if the generation is current at its turn; the session adopts both. *)
Commits ==
    /\ clientId' = call.client /\ clientDoc' = call.client
    /\ call' = NoCall
    /\ UNCHANGED <<provider, disk, expired, browser, ask, bounds>>
CallbackCommits_Unfenced ==
    /\ call.at = "journal" /\ Commits
    /\ IF call.live THEN mem' = NewCredential /\ Tell("connected") ELSE mem' = mem /\ Quietly
CallbackCommits ==
    /\ call.at = "journal" /\ call.live /\ Commits
    /\ mem' = NewCredential /\ Tell("connected")

(* The journal refuses a stale attempt, or its commit fails, before or after its document was      *)
(* written: the credential that was there is written back.                                         *)
RollBack == disk' = call.previous /\ mem' = mem
RollBackFails == disk' \in {disk, call.previous} /\ mem' = NoCredential /\ Lapse
CallbackRefused ==
    /\ call.at = "journal" /\ call' = NoCall
    /\ \/ ~call.live /\ UNCHANGED <<clientDoc, bounds>>
          /\ RollBack /\ Quietly
       \/ ~call.live /\ Fault /\ clientDoc' = clientDoc /\ RollBackFails
       \/ call.live /\ Fault /\ clientDoc' \in {clientDoc, call.client}
          /\ \/ RollBack /\ TellAfterFailure
             \/ RollBackFails
    /\ UNCHANGED <<provider, clientId, expired, browser, ask>>

-----------------------------------------------------------------------------
(* getCredential *)

(* A session without a credential looks into the store. *)
Recall(k) ==
    /\ ask[k].at = "idle" /\ mem = NoCredential /\ disk # NoCredential
    /\ IF Identified(disk)
         THEN mem' = disk /\ Quietly
         ELSE mem' = mem /\ Tell("reconnect")
    /\ UNCHANGED <<provider, disk, clientId, clientDoc, expired, browser, call, ask, bounds>>

(* A credential that is about to expire is refreshed, after the refreshes before it. *)
NeedsRefresh(k) ==
    /\ ask[k].at = "idle" /\ mem \in expired /\ Identified(mem)
    /\ ask' = [ask EXCEPT ![k] = [at |-> "queued", from |-> mem, token |-> 0, live |-> TRUE]]
    /\ Quietly /\ UNCHANGED <<provider, store, browser, call, bounds>>

(* Its turn: it asks only if the credential is still the one it saw. *)
Asks(k) ==
    /\ ask[k].at = "queued"
    /\ ask' = [ask EXCEPT ![k] =
                 IF @.live /\ mem = @.from THEN [@ EXCEPT !.at = "asked"] ELSE NoAsk]
    /\ Quietly /\ UNCHANGED <<provider, store, browser, call, bounds>>
StartRefresh_AtOnce(k) == Asks(k)
StartRefresh(k) ==
    /\ \A other \in Callers : ask[other].at \notin {"asked", "answered"}
    /\ Asks(k)

(* The provider accepts the newest token and the one it was issued for, and issues another one. *)
Rotate(k) ==
    LET c == ask[k].from.client IN
    /\ ask[k].at = "asked" /\ ask[k].from.token \in valid[c] /\ c \notin revoked
    /\ issued[c] < MaxTokens
    /\ issued' = [issued EXCEPT ![c] = @ + 1]
    /\ valid' = [valid EXCEPT ![c] = {ask[k].from.token, issued'[c]}]
    /\ ask' = [ask EXCEPT ![k].at = "answered", ![k].token = issued'[c]]
    /\ Quietly /\ UNCHANGED <<revoked, store, browser, call, bounds>>

Owns(k) == ask[k].live /\ mem = ask[k].from
Rotated(k) == [client |-> ask[k].from.client, token |-> ask[k].token]

(* The answer is stored only over the credential it was asked for; else it is dropped. *)
RefreshAnswered(k) ==
    /\ ask[k].at = "answered" /\ call.at # "journal" /\ ask' = [ask EXCEPT ![k] = NoAsk]
    /\ IF Owns(k)
         THEN disk' = Rotated(k) /\ mem' = Rotated(k)
         ELSE UNCHANGED <<disk, mem>>
    /\ Quietly /\ UNCHANGED <<provider, clientId, clientDoc, expired, browser, call, bounds>>

(* The store fails: what was there is written back, or the memory forgets it. *)
RefreshNotStored(k) ==
    /\ ask[k].at = "answered" /\ call.at # "journal" /\ Owns(k) /\ Fault
    /\ ask' = [ask EXCEPT ![k] = NoAsk]
    /\ \/ disk' = ask[k].from /\ mem' = mem /\ Lapse
       \/ disk' \in {ask[k].from, Rotated(k)} /\ mem' = NoCredential
          /\ status' = status /\ lapsed' = TRUE
    /\ UNCHANGED <<provider, clientId, clientDoc, expired, browser, call>>

(* The refresh is refused, or its request or its answer is lost. *)
RefreshFails(k) ==
    /\ \/ ask[k].at = "asked" /\ UNCHANGED bounds
          /\ \/ ask[k].from.token \notin valid[ask[k].from.client]
             \/ ask[k].from.client \in revoked
       \/ ask[k].at \in {"asked", "answered"} /\ Fault
    /\ ask' = [ask EXCEPT ![k] = NoAsk]
    /\ IF Owns(k) THEN Lapse ELSE Quietly
    /\ UNCHANGED <<provider, store, browser, call>>

-----------------------------------------------------------------------------
(* The clock, the owner's console, and Obsidian. *)

Expire ==
    /\ mem # NoCredential /\ mem \notin expired /\ expired' = expired \cup {mem}
    /\ Quietly
    /\ UNCHANGED <<provider, disk, clientId, clientDoc, mem, browser, call, ask, bounds>>

Revoke ==
    /\ \E c \in 1..registered \ revoked : revoked' = revoked \cup {c}
    /\ Quietly /\ UNCHANGED <<valid, issued, store, browser, call, ask, bounds>>

(* Obsidian stops, in order or not, and the next session restores what the disk holds. *)
Restart ==
    /\ Fault
    /\ disk' \in IF call.at = "journal" THEN {disk, call.previous} ELSE {disk}
    /\ clientId' = clientDoc
    /\ IF disk'.client \in {0, clientDoc}
         THEN mem' = disk' /\ Tell(IF disk' = NoCredential THEN "disconnected" ELSE "connected")
         ELSE mem' = NoCredential /\ Tell("reconnect")
    /\ connecting' = FALSE /\ consent' = 0
    /\ call' = NoCall /\ ask' = [k \in Callers |-> NoAsk]
    /\ UNCHANGED <<provider, clientDoc, expired, registered>>

SignIn ==
    \/ Connect \/ ConnectAnswered \/ ConnectFails \/ Cancel \/ ConsentFails
    \/ Callback \/ Exchange \/ CallbackAnswered \/ CallbackFails \/ CallbackCommits \/ CallbackRefused
Refresh(k) ==
    \/ Recall(k) \/ NeedsRefresh(k) \/ StartRefresh(k) \/ Rotate(k)
    \/ RefreshAnswered(k) \/ RefreshNotStored(k) \/ RefreshFails(k)
Next == SignIn \/ (\E k \in Callers : Refresh(k)) \/ Expire \/ Revoke \/ Restart
Spec == Init /\ [][Next]_vars

-----------------------------------------------------------------------------
(* The credential in memory is the stored one, and the journal names its client, whenever no       *)
(* callback is between its write and the journal: whatever was cancelled, refused or rolled back   *)
(* on the way (device-session.ts callback, getCredential).                                         *)
IdentityAgrees ==
    mem # NoCredential =>
        /\ clientId = mem.client
        /\ call.at # "journal" => disk = mem

(* The stored credential can be refreshed as long as its client is not revoked: no race of two     *)
(* refreshes, and no answer that is dropped, leaves a token that the provider no longer accepts    *)
(* (refreshTail, and the checks after each wait of getCredential).                                 *)
SessionUsable ==
    disk # NoCredential => disk.token \in valid[disk.client]

Usable == \/ mem # NoCredential
          \/ disk # NoCredential /\ disk.client = clientId
Quiet == call.at = "idle" /\ ~connecting /\ consent = 0

(* Between attempts the status tells whether the device has a credential, unless a refresh or the  *)
(* store failed: then it stays at reconnect even after a later refresh succeeded, since only       *)
(* connecting, cancelling and restarting tell a status again.                                      *)
StatusTrue ==
    Quiet /\ ~lapsed =>
        /\ status = "connected" => Usable
        /\ status \in {"disconnected", "reconnect"} => mem = NoCredential
=============================================================================
