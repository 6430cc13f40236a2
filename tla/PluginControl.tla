---------------------------- MODULE PluginControl ----------------------------
(* The plugin's lifecycle (main.ts) around one sync loop (DesktopSyncController): Pause and Resume *)
(* with their durable flag, sign-in and revocation, settings updates, a mobile host that hides the *)
(* window, and the scope of settings sync with its duty to read the whole manifest. Effects that   *)
(* change the controller or its composition wait in one queue, settings updates in another one.    *)
(* A step is what runs between two waits: for the network, a journal write, saveData, or the end   *)
(* of a cycle. Only the owner's newest update, and the newest Pause, count: the others are stale.  *)
EXTENDS Integers, Sequences, FiniteSets

CONSTANTS Scopes,      \* settings sync policies, 0..n, each admitting what the smaller one admits
          MaxActs,     \* what the owner does
          MaxFaults    \* failed journal writes, refused saves and restarts

ASSUME ControlAssumption ==
    /\ Scopes = 0..(Cardinality(Scopes) - 1) /\ IsFiniteSet(Scopes)
    /\ {MaxActs, MaxFaults} \subseteq Nat

VARIABLES status,          \* sessionStatus
          client,          \* the client of the session's credential
          signedIn,        \* the session has a credential
          revokedClients,  \* clients the owner has revoked at the service
          syncPaused, pausedDoc,   \* Pause in memory and in the journal
          pausing,         \* a Pause waits for its journal write, and the controller is still its own
          syncRevoked,
          revoking,        \* handleRevocation waits for the cycle to end
          ctl,             \* desktopSync
          comp,            \* the controller has a composition
          cycle,           \* its cycle, with the client that sent its requests
          scope, scopeDoc, duty, dutyDoc,   \* policy and hydrationPending, in memory and stored
          covered,         \* history: the scope under which the whole manifest has been read
          updates,         \* settingsSaveTail
          effects,         \* syncEffectTail
          scopeResume,     \* pendingSettingsScopeResume
          hidden, shown,   \* the window, and its handler waiting for the recovery it started
          lost,            \* history: a step that left sync stopped although nobody asked it to
          acts, faults

session == <<status, client, signedIn, revokedClients>>
pauses  == <<syncPaused, pausedDoc, pausing>>
loop    == <<ctl, comp, cycle>>
revocation == <<syncRevoked, revoking>>
manifest == <<scope, scopeDoc, duty, dutyDoc, covered>>
queues  == <<updates, effects, scopeResume>>
window  == <<hidden, shown>>
bounds  == <<acts, faults>>
vars == <<session, pauses, loop, revocation, manifest, queues, window, lost, bounds>>

NoController == [on |-> FALSE, closed |-> FALSE, paused |-> FALSE, suspended |-> FALSE,
                 polling |-> FALSE, recover |-> FALSE]
Idle == [at |-> "idle", own |-> FALSE, client |-> 0]
Update(kind, to) == [kind |-> kind, at |-> "new", mine |-> TRUE, scope |-> to]
(* A task of the effect queue: whether its update and its Pause generation are current, and its    *)
(* controller and composition still those it started with.                                         *)
Task(kind) == [kind |-> kind, at |-> "new", mine |-> TRUE, live |-> TRUE, own |-> TRUE,
               comp |-> TRUE, resume |-> FALSE, scope |-> 0, client |-> 0]
NoResume == [Task("none") EXCEPT !.mine = FALSE, !.comp = FALSE]

Act == acts < MaxActs /\ acts' = acts + 1 /\ faults' = faults
Fault == faults < MaxFaults /\ faults' = faults + 1 /\ acts' = acts

(* startSync, with DesktopSyncController.start or pause. *)
NewController(paused) ==
    [on |-> TRUE, closed |-> FALSE, paused |-> paused, suspended |-> ~paused /\ hidden,
     polling |-> ~paused /\ ~hidden, recover |-> ~paused /\ ~hidden]

Init ==
    /\ status = "connected" /\ client = 1 /\ signedIn = TRUE /\ revokedClients = {}
    /\ syncPaused = FALSE /\ pausedDoc = FALSE /\ pausing = "no"
    /\ syncRevoked = FALSE /\ revoking = FALSE
    /\ hidden = FALSE /\ shown = FALSE
    /\ ctl = NewController(FALSE) /\ comp = TRUE /\ cycle = Idle
    /\ scope = 0 /\ scopeDoc = 0 /\ covered = 0 /\ duty = FALSE /\ dutyDoc = FALSE
    /\ updates = <<>> /\ effects = <<>> /\ scopeResume = NoResume
    /\ lost = FALSE /\ acts = 0 /\ faults = 0

-----------------------------------------------------------------------------
(* DesktopSyncController *)

Paused(c) == IF c.closed THEN c
             ELSE [c EXCEPT !.paused = TRUE, !.polling = FALSE, !.recover = FALSE]
Resumed(c) == IF c.closed THEN c
              ELSE [c EXCEPT !.paused = FALSE, !.suspended = @ \/ hidden,
                             !.polling = @ /\ ~hidden, !.recover = ~hidden]
Closed(c) == [c EXCEPT !.closed = TRUE, !.polling = FALSE, !.recover = FALSE]
Suspended(c) == IF ~c.on \/ c.closed THEN c
                ELSE [c EXCEPT !.suspended = TRUE, !.polling = FALSE, !.recover = FALSE]
Visible(c) == IF ~c.on \/ c.closed THEN c
              ELSE [c EXCEPT !.suspended = FALSE, !.polling = @ \/ ~(c.paused \/ c.suspended),
                             !.recover = ~c.paused]

CycleIdle == cycle.at = "idle"

Head1 == effects[1]
HeadIs(kind, at) == Len(effects) > 0 /\ Head1.kind = kind /\ Head1.at = at
HeadBecomes(task) == effects' = [effects EXCEPT ![1] = task]
HeadEnds == effects' = Tail(effects) /\ UNCHANGED updates
(* A name or a policy holds the settings queue until its effect has ended. *)
UpdateEnds == effects' = Tail(effects) /\ updates' = Tail(updates)

(* What waits for a cycle that ended runs before a timer starts another one. *)
SomeoneWaitsForIdle ==
    \/ revoking
    \/ Len(effects) > 0 /\ (Head1.at = "wait" \/ Head1.kind = "dispose")
    \/ Len(updates) > 0 /\ updates[1].at = "stop"

StartCycle ==
    /\ CycleIdle
    /\ ctl.on /\ ~ctl.closed /\ ~ctl.paused /\ ~ctl.suspended
    /\ ctl.recover \/ (ctl.polling /\ ~SomeoneWaitsForIdle)
    /\ ctl' = [ctl EXCEPT !.polling = TRUE, !.recover = FALSE]
    /\ cycle' = IF comp /\ ~hidden
                  THEN [at |-> IF duty THEN "hydrate" ELSE "work", own |-> TRUE, client |-> client]
                  ELSE cycle
    /\ UNCHANGED <<session, pauses, comp, revocation, manifest, queues, window, lost, bounds>>

-----------------------------------------------------------------------------
(* hydrateSettingsScope: the duty is cleared after a full pass that still owns its effects. *)

Current == cycle.own /\ ~syncPaused /\ ~syncRevoked /\ status = "connected" /\ ~hidden

Hydrated(current) ==
    /\ covered' = scope
    /\ IF current THEN duty' = FALSE /\ dutyDoc' = FALSE ELSE UNCHANGED <<duty, dutyDoc>>
    /\ UNCHANGED <<scope, scopeDoc>>

CycleHydrates ==
    /\ cycle.at = "hydrate"
    /\ Hydrated(Current)
    /\ cycle' = IF Current THEN [cycle EXCEPT !.at = "work", !.client = client] ELSE Idle
    /\ UNCHANGED <<session, pauses, ctl, comp, revocation, queues, window, lost, bounds>>

(* The cycle's other steps, or its failure, or a manifest that could not be read to its end. *)
CycleEnds ==
    /\ ~CycleIdle /\ cycle' = Idle
    /\ UNCHANGED <<session, pauses, ctl, comp, revocation, manifest, queues, window, lost, bounds>>

(* releaseSyncOwners *)
Unowned(tasks) == [i \in DOMAIN tasks |-> [tasks[i] EXCEPT !.comp = FALSE,
                     !.mine = @ /\ tasks[i].kind # "visible"]]
Release ==
    /\ ctl' = Closed(ctl) /\ comp' = FALSE
    /\ scopeResume' = NoResume

(* handleRevocation, of an answer to a request that this client had sent. *)
Revoked(sender) ==
    /\ sender \in revokedClients
    /\ syncRevoked' = TRUE /\ revoking' = TRUE
    /\ Release
    /\ lost' = (lost \/ sender # client)

CycleRevoked ==
    /\ ~CycleIdle /\ ~revoking /\ Revoked(cycle.client)
    /\ cycle' = [cycle EXCEPT !.own = FALSE] /\ effects' = Unowned(effects)
    /\ UNCHANGED <<session, pauses, manifest, updates, window, bounds>>

(* The controller is gone: tasks and a waiting Pause that saw it do not own it any longer. *)
Orphaned(tasks) == [i \in DOMAIN tasks |-> [tasks[i] EXCEPT !.own = FALSE]]
ControllerGone ==
    /\ effects' = Orphaned(effects)
    /\ pausing' = IF pausing = "no" THEN "no" ELSE "orphan"
    /\ UNCHANGED <<syncPaused, pausedDoc>>

RevocationSettles ==
    /\ revoking /\ CycleIdle /\ revoking' = FALSE
    /\ IF ctl.on /\ ctl.closed
         THEN /\ ControllerGone
              /\ IF ~syncRevoked /\ status = "connected"
                   THEN ctl' = NewController(syncPaused) /\ comp' = TRUE
                   ELSE ctl' = NoController /\ comp' = comp
         ELSE /\ UNCHANGED <<effects, pauses>>
              /\ IF ~ctl.on /\ ~syncRevoked /\ status = "connected"
                   THEN ctl' = NewController(syncPaused) /\ comp' = TRUE
                   ELSE UNCHANGED <<ctl, comp>>
    /\ UNCHANGED <<session, cycle, syncRevoked, manifest, updates, scopeResume, window, lost, bounds>>

-----------------------------------------------------------------------------
(* The session tells its status. *)

TellsConnected ==
    /\ status' = "connected" /\ syncRevoked' = FALSE
    /\ IF ~ctl.on
         THEN ctl' = NewController(syncPaused) /\ comp' = TRUE /\ effects' = effects
         ELSE /\ UNCHANGED <<ctl, comp>>
              /\ effects' = IF syncPaused THEN effects ELSE Append(effects, Task("resume"))
    /\ UNCHANGED <<pauses, cycle, revoking, manifest, updates, scopeResume, window, lost>>

Connect ==
    /\ Act /\ status' = "connecting"
    /\ UNCHANGED <<client, signedIn, revokedClients, pauses, loop, revocation, manifest, queues,
                    window, lost>>

SignedIn ==
    /\ status = "connecting" /\ client' = client + 1 /\ signedIn' = TRUE
    /\ TellsConnected /\ UNCHANGED <<revokedClients, bounds>>

(* The attempt fails or is cancelled: the old credential, if there is one, is still good. *)
ConnectEnds ==
    /\ status = "connecting"
    /\ \/ signedIn /\ TellsConnected
       \/ /\ ~signedIn /\ status' = "disconnected"
          /\ UNCHANGED <<pauses, loop, revocation, manifest, queues, window, lost>>
    /\ UNCHANGED <<client, signedIn, revokedClients, bounds>>

(* A refresh fails. *)
Disconnects ==
    /\ status = "connected" /\ Fault /\ status' = "reconnect"
    /\ UNCHANGED <<client, signedIn, revokedClients, pauses, loop, revocation, manifest, queues, window, lost>>

RevokeAtService ==
    /\ Act /\ client \notin revokedClients /\ revokedClients' = revokedClients \cup {client}
    /\ UNCHANGED <<status, client, signedIn, pauses, loop, revocation, manifest, queues, window, lost>>

-----------------------------------------------------------------------------
(* Pause and Resume. *)

Superseded(tasks) ==
    [i \in DOMAIN tasks |-> [tasks[i] EXCEPT !.live = FALSE,
                               !.mine = @ /\ tasks[i].kind # "visible"]]
Pause ==
    /\ ~syncPaused /\ Act
    /\ syncPaused' = TRUE /\ ctl' = IF ctl.on THEN Paused(ctl) ELSE ctl
    /\ pausing' = IF ctl.on THEN "own" ELSE "orphan"
    /\ scopeResume' = NoResume /\ effects' = Superseded(effects)
    /\ UNCHANGED <<session, pausedDoc, comp, cycle, revocation, manifest, updates, window, lost>>

PausePersists ==
    /\ pausing # "no" /\ pausing' = "no"
    /\ \/ /\ pausedDoc' = TRUE /\ UNCHANGED bounds
          /\ effects' = Append(effects, [Task("dispose") EXCEPT !.own = (pausing = "own")])
       \/ Fault /\ UNCHANGED <<pausedDoc, effects>>
    /\ UNCHANGED <<session, syncPaused, loop, revocation, manifest, updates, scopeResume, window, lost>>

(* disposePausedComposition *)
DisposePaused ==
    /\ HeadIs("dispose", "new") /\ CycleIdle
    /\ comp' = (comp /\ ~(Head1.own /\ syncPaused))
    /\ HeadEnds
    /\ UNCHANGED <<session, pauses, ctl, cycle, revocation, manifest, scopeResume, window, lost, bounds>>

Resume ==
    /\ syncPaused /\ Act
    /\ effects' = Append(effects, Task("resume"))
    /\ UNCHANGED <<session, pauses, loop, revocation, manifest, updates, scopeResume, window, lost>>

(* resumeSync in the effect queue: it waits for the cycle, then for the journal. *)
ResumeBegins ==
    /\ HeadIs("resume", "new")
    /\ IF ctl.on /\ ~syncRevoked
         THEN HeadBecomes([Head1 EXCEPT !.at = "wait", !.own = TRUE]) /\ UNCHANGED updates
         ELSE HeadEnds
    /\ UNCHANGED <<session, pauses, loop, revocation, manifest, scopeResume, window, lost, bounds>>

ResumeChecks ==
    /\ HeadIs("resume", "wait") /\ CycleIdle
    /\ IF Head1.own /\ status = "connected" /\ Head1.live
         THEN HeadBecomes([Head1 EXCEPT !.at = "persist"]) /\ UNCHANGED updates
         ELSE HeadEnds
    /\ UNCHANGED <<session, pauses, loop, revocation, manifest, scopeResume, window, lost, bounds>>

Resumes ==
    /\ pausedDoc' = FALSE /\ syncPaused' = FALSE /\ comp' = TRUE
    /\ ctl' = IF Head1.own THEN Resumed(ctl) ELSE ctl
    /\ HeadBecomes([Head1 EXCEPT !.at = "recover"])
    /\ UNCHANGED <<pausing, updates, bounds>>
ResumePersists ==
    /\ HeadIs("resume", "persist") /\ (Head1.live => pausing = "no")
    /\ \/ Head1.live /\ Resumes /\ lost' = (lost \/ ~Head1.own)
       \/ ~Head1.live /\ HeadEnds /\ UNCHANGED <<pauses, ctl, comp, lost, bounds>>
       \/ Fault /\ HeadEnds /\ UNCHANGED <<pauses, ctl, comp>> /\ lost' = (lost \/ ~syncPaused)
    /\ UNCHANGED <<session, cycle, revocation, manifest, scopeResume, window>>

(* The queue waits for the recovery cycle of what it resumed. *)
Recovered ==
    /\ Len(effects) > 0 /\ Head1.at = "recover"
    /\ ~Head1.own \/ (CycleIdle /\ ~ctl.recover)
    /\ IF Head1.kind \in {"name", "policy"} THEN UpdateEnds ELSE HeadEnds
    /\ UNCHANGED <<session, pauses, loop, revocation, manifest, scopeResume, window, lost, bounds>>

-----------------------------------------------------------------------------
(* Settings updates *)

(* A newer update makes the older ones stale; a policy also forgets a pending resume. *)
Asks(update) ==
    /\ Act
    /\ updates' = Append([i \in DOMAIN updates |-> [updates[i] EXCEPT !.mine = FALSE]], update)
    /\ effects' = [i \in DOMAIN effects |->
                     IF effects[i].kind \in {"name", "policy"} \/ update.kind = "policy"
                       THEN [effects[i] EXCEPT !.mine = FALSE] ELSE effects[i]]
    /\ lost' = (lost \/ scopeResume.mine)
    /\ scopeResume' = IF update.kind = "policy" THEN NoResume
                      ELSE [scopeResume EXCEPT !.mine = FALSE]
    /\ UNCHANGED <<session, pauses, loop, revocation, manifest, window>>
AskName == Asks(Update("name", 0))
AskServer == Asks(Update("server", 0))
AskMode == Asks(Update("mode", 0))
AskPolicy == \E to \in Scopes : Asks(Update("policy", to))

FirstIs(kind, at) == Len(updates) > 0 /\ updates[1].kind = kind /\ updates[1].at = at

(* The coexistence mode, or a name that is refused: it only supersedes what was asked before. *)
SaveMode ==
    /\ FirstIs("mode", "new") /\ updates' = Tail(updates)
    /\ UNCHANGED <<session, pauses, loop, revocation, manifest, effects, scopeResume, window, lost, bounds>>

(* A name is saved, a policy is not, before its effect enters the queue. *)
QueueEffect ==
    /\ Len(updates) > 0 /\ updates[1].at = "new" /\ updates[1].kind \in {"name", "policy"}
    /\ \/ /\ updates' = [updates EXCEPT ![1].at = "effect"]
          /\ effects' = Append(effects, [Task(updates[1].kind) EXCEPT !.mine = updates[1].mine,
                                                                      !.scope = updates[1].scope])
          /\ UNCHANGED bounds
       \/ updates[1].kind = "name" /\ Fault /\ updates' = Tail(updates) /\ effects' = effects
    /\ UNCHANGED <<session, pauses, loop, revocation, manifest, scopeResume, window, lost>>

(* A server: saved, then stopSync, then the session is replaced. *)
SaveServer ==
    /\ FirstIs("server", "new")
    /\ IF updates[1].mine
         THEN /\ updates' = [updates EXCEPT ![1].at = "stop"]
              /\ Release /\ effects' = Unowned(effects)
              /\ cycle' = [cycle EXCEPT !.own = FALSE]
         ELSE updates' = Tail(updates) /\ UNCHANGED <<loop, effects, scopeResume>>
    /\ UNCHANGED <<session, pauses, revocation, manifest, window, lost, bounds>>

ReplaceSession ==
    /\ FirstIs("server", "stop") /\ CycleIdle
    /\ updates' = Tail(updates)
    /\ IF ctl.closed
         THEN ctl' = NoController /\ ControllerGone
         ELSE UNCHANGED <<ctl, effects, pauses>>
    /\ IF updates[1].mine
         THEN status' = "disconnected" /\ signedIn' = FALSE /\ lost' = lost
         ELSE UNCHANGED <<status, signedIn>> /\ lost' = TRUE
    /\ UNCHANGED <<client, revokedClients, comp, cycle, revocation, manifest, scopeResume, window, bounds>>

-----------------------------------------------------------------------------
(* A device name replaces the composition of an idle controller: reconfigureDeviceName. *)

Connected == status = "connected" /\ ~syncPaused /\ ~syncRevoked

NameBegins ==
    /\ HeadIs("name", "new")
    /\ IF Head1.mine /\ ctl.on /\ ~syncRevoked
         THEN /\ HeadBecomes([Head1 EXCEPT !.at = "wait", !.own = TRUE, !.comp = comp,
                                           !.resume = Connected])
              /\ ctl' = Paused(ctl) /\ UNCHANGED <<comp, updates>>
         ELSE /\ UpdateEnds
              /\ IF Head1.mine /\ ~ctl.on /\ Connected
                   THEN ctl' = NewController(FALSE) /\ comp' = TRUE
                   ELSE UNCHANGED <<ctl, comp>>
    /\ UNCHANGED <<session, pauses, cycle, revocation, manifest, scopeResume, window, lost, bounds>>

(* resumeControllerIfOwned *)
ResumeIfOwned_EvenPaused(task) ==
    IF task.resume /\ task.own /\ task.comp /\ status = "connected" /\ ~syncRevoked
      THEN /\ ctl' = Resumed(ctl) /\ HeadBecomes([task EXCEPT !.at = "recover"])
           /\ UNCHANGED updates
      ELSE ctl' = ctl /\ UpdateEnds
ResumeIfOwned(task) ==
    IF task.resume /\ task.own /\ task.comp /\ Connected
      THEN /\ ctl' = Resumed(ctl) /\ HeadBecomes([task EXCEPT !.at = "recover"])
           /\ UNCHANGED updates
      ELSE ctl' = ctl /\ UpdateEnds

(* A name that was superseded while the controller stopped still resumes it. *)
NotApplied_Stopped(task) == [task EXCEPT !.resume = FALSE]
NotApplied(task) == [task EXCEPT !.resume = @ /\ ~task.mine]

NameApplies ==
    /\ HeadIs("name", "wait") /\ CycleIdle
    /\ IF Head1.mine /\ Head1.own /\ ~syncRevoked
         THEN comp' = TRUE /\ ResumeIfOwned([Head1 EXCEPT !.comp = TRUE])
         ELSE comp' = comp /\ ResumeIfOwned(NotApplied(Head1))
    /\ scopeResume' = [scopeResume EXCEPT !.comp = @ /\ ~Head1.mine]
    /\ UNCHANGED <<session, pauses, cycle, revocation, manifest, window, lost, bounds>>

-----------------------------------------------------------------------------
(* A policy: changeSettingsSyncPolicy. *)

OwnsTransition(task) == task.mine /\ task.own /\ task.comp /\ task.live /\ Connected
CanRun(task) == OwnsTransition(task) /\ ~hidden

PolicyBegins ==
    /\ HeadIs("policy", "new")
    /\ IF Head1.mine
         THEN LET started == [Head1 EXCEPT !.at = "wait", !.live = TRUE, !.own = ctl.on,
                                           !.comp = comp] IN
              LET resume == CanRun(started) IN
              /\ HeadBecomes([started EXCEPT !.resume = resume])
              /\ ctl' = IF resume THEN Paused(ctl) ELSE ctl
              /\ UNCHANGED updates
         ELSE ctl' = ctl /\ UpdateEnds
    /\ UNCHANGED <<session, pauses, comp, cycle, revocation, manifest, scopeResume, window, lost, bounds>>

(* The controller is resumed now, or stays paused for good: a newer update came, or the window is  *)
(* hidden. This is how a transition ends that is stale once the cycle is idle, or could not save.  *)
ResumeNow(task) ==
    /\ ResumeIfOwned([task EXCEPT !.resume = @ /\ CanRun(task)])
    /\ scopeResume' = scopeResume
    /\ lost' = (lost \/ (task.resume /\ (~task.mine \/ (OwnsTransition(task) /\ hidden))))

(* The end of a transition that was saved: under a hidden window the resume is kept for later.     *)
PolicyEnds(task) ==
    IF task.resume /\ OwnsTransition(task) /\ hidden
      THEN /\ scopeResume' = [task EXCEPT !.kind = "pending"]
           /\ ctl' = ctl /\ UpdateEnds /\ lost' = lost
      ELSE ResumeNow(task)

Wider(to) == to > scope
SavedDuty_Later(to) == duty
SavedDuty(to) == duty \/ Wider(to)

PolicySaves ==
    /\ HeadIs("policy", "wait") /\ CycleIdle
    /\ IF ~Head1.mine
         THEN ResumeNow(Head1) /\ UNCHANGED <<manifest, bounds>>
         ELSE \/ /\ scopeDoc' = Head1.scope /\ scope' = Head1.scope
                 /\ dutyDoc' = SavedDuty(Head1.scope) /\ duty' = dutyDoc'
                 /\ covered' = IF Wider(Head1.scope) THEN covered
                               ELSE IF covered > Head1.scope THEN Head1.scope ELSE covered
                 /\ IF Head1.resume /\ CanRun(Head1)
                      THEN /\ HeadBecomes([Head1 EXCEPT !.at = IF duty' THEN "hydrate" ELSE "flush",
                                                        !.client = client])
                           /\ UNCHANGED <<ctl, scopeResume, updates, lost>>
                      ELSE PolicyEnds(Head1)
                 /\ UNCHANGED bounds
              \/ Fault /\ ResumeNow(Head1) /\ UNCHANGED manifest
    /\ UNCHANGED <<session, pauses, comp, cycle, revocation, window>>

PolicyHydrates ==
    /\ HeadIs("policy", "hydrate")
    /\ Hydrated(CanRun(Head1))
    /\ IF CanRun(Head1)
         THEN /\ HeadBecomes([Head1 EXCEPT !.at = "flush", !.client = client])
              /\ UNCHANGED <<ctl, scopeResume, updates, lost>>
         ELSE PolicyEnds(Head1)
    /\ UNCHANGED <<session, pauses, comp, cycle, revocation, window, bounds>>

(* The scan and the flush, or a failure, or a manifest that could not be read to its end. *)
PolicyFlushes ==
    /\ HeadIs("policy", "hydrate") \/ HeadIs("policy", "flush")
    /\ PolicyEnds(Head1)
    /\ UNCHANGED <<session, pauses, comp, cycle, revocation, manifest, window, bounds>>

PolicyRevoked ==
    /\ HeadIs("policy", "hydrate") \/ HeadIs("policy", "flush")
    /\ Revoked(Head1.client)
    /\ updates' = Tail(updates) /\ effects' = Unowned(Tail(effects))
    /\ cycle' = [cycle EXCEPT !.own = FALSE]
    /\ UNCHANGED <<session, pauses, manifest, window, bounds>>

-----------------------------------------------------------------------------
(* The window of a mobile host. *)

Hide ==
    /\ ~hidden /\ Act /\ hidden' = TRUE /\ ctl' = Suspended(ctl)
    /\ UNCHANGED <<session, pauses, comp, cycle, revocation, manifest, queues, shown, lost>>

Show ==
    /\ hidden /\ hidden' = FALSE /\ ctl' = Visible(ctl)
    /\ shown' = (ctl.on /\ ~ctl.closed)
    /\ UNCHANGED <<session, pauses, comp, cycle, revocation, manifest, queues, lost, bounds>>

(* Its handler waits for the recovery, if there is one, then queues the resume that a transition left. *)
AfterShow ==
    /\ shown /\ (ctl.paused \/ (CycleIdle /\ ~ctl.recover)) /\ shown' = FALSE
    /\ effects' = IF scopeResume.kind = "pending" /\ ~hidden
                    THEN Append(effects, Task("visible")) ELSE effects
    /\ UNCHANGED <<session, pauses, loop, revocation, manifest, updates, scopeResume, hidden, lost, bounds>>

ResumeAfterShow ==
    /\ HeadIs("visible", "new")
    /\ IF Head1.mine /\ scopeResume.kind = "pending" /\ ~hidden
         THEN /\ scopeResume' = NoResume
              /\ IF CanRun(scopeResume)
                   THEN /\ ctl' = Resumed(ctl) /\ UNCHANGED updates
                        /\ effects' = [i \in DOMAIN effects |->
                             IF i = 1 THEN [Head1 EXCEPT !.at = "recover"]
                             ELSE IF effects[i].kind = "visible"
                               THEN [effects[i] EXCEPT !.mine = FALSE] ELSE effects[i]]
                   ELSE ctl' = ctl /\ HeadEnds
         ELSE UNCHANGED <<ctl, scopeResume>> /\ HeadEnds
    /\ UNCHANGED <<session, pauses, comp, cycle, revocation, manifest, window, lost, bounds>>

-----------------------------------------------------------------------------
(* Obsidian restarts: onload reads what is stored. A credential that is not for the saved server,  *)
(* or that the store does not give, is not restored.                                               *)
Restart ==
    /\ Fault
    /\ status' \in {"connected", "reconnect"} /\ signedIn' = (status' = "connected")
    /\ signedIn' => signedIn
    /\ syncPaused' = pausedDoc /\ scope' = scopeDoc /\ duty' = dutyDoc
    /\ pausing' = "no" /\ syncRevoked' = FALSE /\ revoking' = FALSE
    /\ comp' = (status' = "connected") /\ cycle' = Idle
    /\ ctl' = IF status' = "connected" THEN NewController(pausedDoc) ELSE NoController
    /\ updates' = <<>> /\ effects' = <<>> /\ scopeResume' = NoResume
    /\ shown' = FALSE /\ lost' = FALSE
    /\ UNCHANGED <<client, revokedClients, pausedDoc, scopeDoc, dutyDoc, covered, hidden>>

(* What runs as soon as nothing else does, before any timer, answer or click. *)
Prompt ==
    \/ CycleIdle /\ (ctl.recover \/ SomeoneWaitsForIdle)
    \/ Len(effects) > 0 /\ (Head1.at = "new" \/ (Head1.at = "recover" /\ ~Head1.own))
    \/ Len(effects) > 0 /\ Head1.at = "recover" /\ CycleIdle
Promptly ==
    \/ RevocationSettles \/ DisposePaused \/ ReplaceSession
    \/ ResumeBegins \/ ResumeChecks \/ Recovered
    \/ NameBegins \/ NameApplies \/ PolicyBegins \/ PolicySaves
    \/ ResumeAfterShow \/ (ctl.recover /\ StartCycle)

Session == Connect \/ SignedIn \/ ConnectEnds \/ Disconnects \/ RevokeAtService
Owner == \/ Pause \/ Resume \/ AskName \/ AskServer \/ AskMode \/ AskPolicy \/ Hide \/ Show
Waited == \/ StartCycle \/ CycleHydrates \/ CycleEnds \/ CycleRevoked
          \/ PausePersists \/ ResumePersists \/ SaveMode \/ QueueEffect \/ SaveServer
          \/ PolicyHydrates \/ PolicyFlushes \/ PolicyRevoked \/ AfterShow
Next == Promptly \/ (~Prompt /\ (Session \/ Owner \/ Waited \/ Restart))
Spec == Init /\ [][Next]_vars

-----------------------------------------------------------------------------
Works(t) == t.at \in {"hydrate", "flush"}
TaskWorks == Len(effects) > 0 /\ Works(Head1)

(* Once the owner has paused, no cycle and no transition starts to read or to publish, however     *)
(* many resumes, updates and recoveries were on their way; and none starts at all on a hidden      *)
(* mobile host (main.ts pause, resumeSync, resumeControllerIfOwned, isMobileSuspended).            *)
PausedStartsNothing ==
    [][/\ CycleIdle /\ cycle'.at # "idle" => ~syncPaused /\ ~hidden
       /\ ~TaskWorks /\ TaskWorks' => ~syncPaused /\ ~hidden]_vars

(* The stored duty to read the whole manifest is cleared only after a pass under the stored        *)
(* policy: a restart at any time reads again what a wider policy admits (changeSettingsSyncPolicy, *)
(* hydrateSettingsScope).                                                                          *)
DutyCovers == dutyDoc \/ covered >= scopeDoc

AtRest ==
    /\ CycleIdle /\ ~ctl.recover /\ ~revoking /\ pausing = "no" /\ ~shown
    /\ updates = <<>> /\ effects = <<>>
Running == ctl.on /\ ~ctl.closed /\ ~ctl.paused /\ ctl.polling /\ comp

(* When all is done, a connected device that nobody paused, hid or revoked runs its loop, and a    *)
(* paused one is paused for good. What does not hold it sets lost: a policy whose resume a newer   *)
(* update supersedes, or that cannot be saved while the window is hidden, a server address         *)
(* superseded while its sync stops, a revocation told to the request of an earlier client, a       *)
(* resume that writes the journal while a new controller starts, and a journal that refuses the    *)
(* write of a resume.                                                                              *)
ConnectedRuns ==
    AtRest /\ status = "connected" /\ client \notin revokedClients /\ ~hidden /\ ~lost =>
        IF syncPaused THEN ctl.paused ELSE Running
=============================================================================
