------------------------- MODULE PluginControlProofs -------------------------
(* What the plugin's lifecycle owes its loop, for every number of policies, acts and faults.       *)
(* DutyCovers and PausedStartsNothing are close to inductive. ConnectedRuns is not: it speaks of a *)
(* plugin at rest, and a paused loop on a connected device is only safe because somebody is on his *)
(* way to resume it. The invariant names that debt (Debt), and what keeps two debtors apart: one   *)
(* settings update at a time holds its queue (QueueInv), and a name and a policy are never both    *)
(* the newest one (NewestInv).                                                                     *)
EXTENDS PluginControl, FiniteSetTheorems, TLAPS

Kinds == {"none", "resume", "dispose", "name", "policy", "visible", "pending"}
Stages == {"new", "wait", "persist", "hydrate", "flush", "recover"}
TaskSet == [kind : Kinds, at : Stages, mine : BOOLEAN, live : BOOLEAN, own : BOOLEAN,
            comp : BOOLEAN, resume : BOOLEAN, scope : Nat, client : Nat]
UpdateSet == [kind : {"name", "server", "mode", "policy"}, at : {"new", "effect", "stop"},
              mine : BOOLEAN, scope : Nat]
ControllerSet == [on : BOOLEAN, closed : BOOLEAN, paused : BOOLEAN, suspended : BOOLEAN,
                  polling : BOOLEAN, recover : BOOLEAN]
CycleSet == [at : {"idle", "hydrate", "work"}, own : BOOLEAN, client : Nat]

TypeInv ==
    /\ status \in {"connected", "connecting", "reconnect", "disconnected"}
    /\ client \in Nat /\ cycle \in CycleSet /\ ctl \in ControllerSet
    /\ {syncPaused, pausedDoc, syncRevoked, revoking, comp, duty, dutyDoc, hidden, shown, lost}
         \subseteq BOOLEAN
    /\ pausing \in {"no", "own", "orphan"}
    /\ {scope, scopeDoc, covered} \subseteq Nat
    /\ updates \in Seq(UpdateSet) /\ effects \in Seq(TaskSet) /\ scopeResume \in TaskSet

(* One update at a time has left the settings queue's wait, and holds it until its effect ends;    *)
(* only the head of the effect queue has begun.                                                    *)
OfUpdate(t) == t.kind \in {"name", "policy"}
QueueInv ==
    /\ \A i \in DOMAIN updates : i > 1 => updates[i].at = "new"
    /\ \A i \in DOMAIN effects : i > 1 => effects[i].at = "new"
    /\ \A i \in DOMAIN effects : OfUpdate(effects[i]) => updates # <<>> /\ updates[1].at = "effect"
    /\ \A i, j \in DOMAIN effects : OfUpdate(effects[i]) /\ OfUpdate(effects[j]) => i = j

(* A name and a policy are not both the newest update.                                             *)
Stale(kind) ==
    /\ \A i \in DOMAIN updates : updates[i].kind = kind => ~updates[i].mine
    /\ \A i \in DOMAIN effects : effects[i].kind = kind => ~effects[i].mine
NewestInv == Stale("name") \/ (Stale("policy") /\ ~scopeResume.mine)

ManifestInv == scope = scopeDoc /\ duty = dutyDoc /\ DutyCovers

Open == ctl.on /\ ~ctl.closed
LoopInv ==
    /\ Open /\ syncPaused => ctl.paused
    /\ Open /\ ~comp => syncPaused
    /\ Open /\ ~ctl.paused /\ ~hidden => ctl.polling \/ ctl.recover
    /\ ctl.on /\ ctl.closed => revoking \/ FirstIs("server", "stop")
    /\ status = "connected" => ctl.on \/ syncRevoked \/ lost
    /\ syncRevoked => client \in revokedClients \/ lost

(* What will resume a paused loop. *)
Resuming(t) == t.kind = "resume" /\ t.live /\ (t.at = "new" \/ (t.at \in {"wait", "persist"} /\ t.own))
Changing(t) ==
    /\ t.resume /\ t.own /\ t.comp
    /\ \/ t.kind = "name" /\ t.at = "wait"
       \/ t.kind = "policy" /\ t.live /\ t.at \in {"wait", "hydrate", "flush"}
Visiting(t) == t.kind = "visible" /\ t.at = "new" /\ t.mine
Owed(tasks) == \E i \in DOMAIN tasks : Resuming(tasks[i]) \/ Changing(tasks[i])
Called(tasks) == \E i \in DOMAIN tasks : Visiting(tasks[i])
Kept(task) == task.kind = "pending" /\ task.mine /\ task.live /\ task.own /\ task.comp
Debt == Owed(effects) \/ (Kept(scopeResume) /\ (hidden \/ shown \/ Called(effects)))
Stuck == Open /\ ctl.paused /\ Connected /\ ~lost
DebtInv == Stuck => Debt

IInv == TypeInv /\ QueueInv /\ NewestInv /\ ManifestInv /\ LoopInv /\ DebtInv

-----------------------------------------------------------------------------
(* Sequences *)

LEMMA Appended ==
  ASSUME NEW T, NEW s \in Seq(T), NEW t \in T, NEW r, r = Append(s, t)
  PROVE  /\ r \in Seq(T) /\ r # <<>>
         /\ DOMAIN s = 1..Len(s) /\ DOMAIN r = 1..(Len(s) + 1) /\ Len(s) \in Nat
         /\ \A i \in DOMAIN s : i \in DOMAIN r /\ r[i] = s[i]
         /\ r[Len(s) + 1] = t
  OBVIOUS

LEMMA Dropped ==
  ASSUME NEW T, NEW s \in Seq(T), s # <<>>, NEW r, r = Tail(s)
  PROVE  /\ r \in Seq(T) /\ 1 \in DOMAIN s /\ s[1] \in T
         /\ DOMAIN r \subseteq Nat \ {0}
         /\ \A i \in DOMAIN r : i + 1 \in DOMAIN s /\ r[i] = s[i + 1]
         /\ \A i \in DOMAIN s : i > 1 => i - 1 \in DOMAIN r /\ r[i - 1] = s[i]
  OBVIOUS

LEMMA Headed ==
  ASSUME NEW T, NEW s \in Seq(T), s # <<>>, NEW t \in T, NEW r, r = [s EXCEPT ![1] = t]
  PROVE  /\ r \in Seq(T) /\ r # <<>> /\ 1 \in DOMAIN s /\ s[1] \in T
         /\ DOMAIN r = DOMAIN s /\ r[1] = t
         /\ \A i \in DOMAIN s : i # 1 => r[i] = s[i]
  OBVIOUS

LEMMA Mapped ==
  ASSUME NEW T, NEW s \in Seq(T), NEW r, r = [i \in DOMAIN s |-> r[i]],
         \A i \in DOMAIN s : r[i] \in T
  PROVE  /\ r \in Seq(T) /\ DOMAIN r = DOMAIN s /\ DOMAIN s = 1..Len(s) /\ Len(s) \in Nat
         /\ s # <<>> => r # <<>> /\ 1 \in DOMAIN s
  OBVIOUS

-----------------------------------------------------------------------------
(* What a step does to the queues. *)

(* The tasks that remain: what was stale stays so, and an update still holds its queue. *)
QueuesKept ==
    /\ updates' \in Seq(UpdateSet) /\ effects' \in Seq(TaskSet) /\ QueueInv'
    /\ Stale("name") => Stale("name")'
    /\ Stale("policy") => Stale("policy")'
    /\ FirstIs("server", "stop") => FirstIs("server", "stop")'
DebtsKept == (Owed(effects) => Owed(effects')) /\ (Called(effects) => Called(effects'))

LEMMA HeadFacts ==
  ASSUME TypeInv, QueueInv
  PROVE  /\ effects # <<>> => /\ Head1 \in TaskSet /\ 1 \in DOMAIN effects
                              /\ Head1.kind \in Kinds /\ Head1.at \in Stages /\ Head1.client \in Nat
                              /\ {Head1.mine, Head1.live, Head1.own, Head1.comp, Head1.resume} \subseteq BOOLEAN
                              /\ Head1.scope \in Nat
                              /\ OfUpdate(Head1) => updates # <<>> /\ updates[1].at = "effect"
         /\ updates # <<>> => updates[1] \in UpdateSet /\ 1 \in DOMAIN updates
         /\ Len(effects) > 0 <=> effects # <<>>
         /\ Len(updates) > 0 <=> updates # <<>>
         /\ DOMAIN effects = 1..Len(effects) /\ DOMAIN updates = 1..Len(updates)
         /\ Len(effects) \in Nat /\ Len(updates) \in Nat
<1>1. updates \in Seq(UpdateSet) /\ effects \in Seq(TaskSet)
  BY DEF TypeInv
<1>2. /\ effects # <<>> => Head1 \in TaskSet /\ 1 \in DOMAIN effects
      /\ updates # <<>> => updates[1] \in UpdateSet /\ 1 \in DOMAIN updates
  BY <1>1 DEF Head1
<1>3. /\ Len(effects) > 0 <=> effects # <<>>
      /\ Len(updates) > 0 <=> updates # <<>>
      /\ DOMAIN effects = 1..Len(effects) /\ DOMAIN updates = 1..Len(updates)
      /\ Len(effects) \in Nat /\ Len(updates) \in Nat
  BY <1>1
<1>4. Head1 \in TaskSet =>
        /\ Head1.kind \in Kinds /\ Head1.at \in Stages /\ Head1.client \in Nat
        /\ {Head1.mine, Head1.live, Head1.own, Head1.comp, Head1.resume} \subseteq BOOLEAN
        /\ Head1.scope \in Nat
  BY DEF TaskSet
<1>5. effects # <<>> /\ OfUpdate(Head1) => updates # <<>> /\ updates[1].at = "effect"
  BY <1>2 DEF QueueInv, Head1
<1>6. QED
  BY <1>2, <1>3, <1>4, <1>5

LEMMA QueuesSame ==
  ASSUME TypeInv, QueueInv, UNCHANGED <<updates, effects>>
  PROVE  QueuesKept /\ DebtsKept
BY DEF TypeInv, QueueInv, QueuesKept, DebtsKept, Stale, FirstIs, OfUpdate, Owed, Called

LEMMA TaskAppended ==
  ASSUME TypeInv, QueueInv, NEW t \in TaskSet, effects' = Append(effects, t), UNCHANGED updates,
         t.at = "new", ~OfUpdate(t)
  PROVE  /\ QueuesKept /\ DebtsKept /\ effects' # <<>>
         /\ Visiting(t) => Called(effects')
         /\ Resuming(t) => Owed(effects')
<1>1. updates \in Seq(UpdateSet) /\ effects \in Seq(TaskSet)
  BY DEF TypeInv
<1>2. /\ effects' \in Seq(TaskSet) /\ effects' # <<>>
      /\ DOMAIN effects = 1..Len(effects) /\ DOMAIN effects' = 1..(Len(effects) + 1) /\ Len(effects) \in Nat
      /\ \A i \in DOMAIN effects : i \in DOMAIN effects' /\ effects'[i] = effects[i]
      /\ effects'[Len(effects) + 1] = t
  BY <1>1, Appended
<1>3. \A i \in DOMAIN effects' : i \in DOMAIN effects \/ effects'[i] = t
  BY <1>2
<1>4. QueueInv'
  BY <1>2, <1>3 DEF QueueInv, OfUpdate
<1>5. /\ Stale("name") => Stale("name")'
      /\ Stale("policy") => Stale("policy")'
  BY <1>2, <1>3 DEF Stale, OfUpdate
<1>6. DebtsKept
  BY <1>2 DEF DebtsKept, Owed, Called
<1>7. Len(effects) + 1 \in DOMAIN effects'
  BY <1>2
<1>8. /\ Visiting(t) => Called(effects')
      /\ Resuming(t) => Owed(effects')
  BY <1>2, <1>7 DEF Owed, Called
<1>9. QED
  BY <1>1, <1>2, <1>4, <1>5, <1>6, <1>8 DEF QueuesKept, FirstIs

(* The head goes: with its update if it is one of the settings queue's. *)
LEMMA HeadGone ==
  ASSUME TypeInv, QueueInv, effects # <<>>, effects' = Tail(effects),
         \/ ~OfUpdate(Head1) /\ UNCHANGED updates
         \/ OfUpdate(Head1) /\ updates' = Tail(updates)
  PROVE  /\ QueuesKept
         /\ Owed(effects) /\ ~Resuming(Head1) /\ ~Changing(Head1) => Owed(effects')
         /\ Called(effects) /\ ~Visiting(Head1) => Called(effects')
         /\ effects' # <<>> => effects'[1].at = "new"
<1>1. updates \in Seq(UpdateSet) /\ effects \in Seq(TaskSet)
  BY DEF TypeInv
<1>2. /\ effects' \in Seq(TaskSet) /\ 1 \in DOMAIN effects /\ DOMAIN effects' \subseteq Nat \ {0}
      /\ \A i \in DOMAIN effects' : i + 1 \in DOMAIN effects /\ effects'[i] = effects[i + 1]
      /\ \A i \in DOMAIN effects : i > 1 => i - 1 \in DOMAIN effects' /\ effects'[i - 1] = effects[i]
  BY <1>1, Dropped
<1>3. /\ Owed(effects) /\ ~Resuming(Head1) /\ ~Changing(Head1) => Owed(effects')
      /\ Called(effects) /\ ~Visiting(Head1) => Called(effects')
  <2>1. \A i \in DOMAIN effects : i = 1 \/ i > 1
    BY <1>1
  <2>2. QED
    BY <1>2, <2>1 DEF Owed, Called, Head1
<1>4. effects' # <<>> => effects'[1].at = "new"
  <2>1. effects' # <<>> => 1 \in DOMAIN effects'
    BY <1>2
  <2>2. QED
    BY <1>2, <2>1 DEF QueueInv
<1>5. CASE ~OfUpdate(Head1) /\ UNCHANGED updates
  <2>1. QueueInv'
    BY <1>2, <1>5 DEF QueueInv, OfUpdate
  <2>2. /\ Stale("name") => Stale("name")'
        /\ Stale("policy") => Stale("policy")'
    BY <1>2, <1>5 DEF Stale
  <2>3. QED
    BY <1>1, <1>2, <1>3, <1>4, <1>5, <2>1, <2>2 DEF QueuesKept, FirstIs
<1>6. CASE OfUpdate(Head1) /\ updates' = Tail(updates)
  <2>1. updates # <<>> /\ updates[1].at = "effect"
    BY <1>2, <1>6 DEF QueueInv, Head1
  <2>2. /\ updates' \in Seq(UpdateSet) /\ DOMAIN updates' \subseteq Nat \ {0}
        /\ \A i \in DOMAIN updates' : i + 1 \in DOMAIN updates /\ updates'[i] = updates[i + 1]
    BY <1>1, <1>6, <2>1, Dropped
  <2>3. \A i \in DOMAIN effects' : ~OfUpdate(effects'[i])
    BY <1>2, <1>6 DEF QueueInv, Head1
  <2>4. QueueInv'
    BY <1>2, <2>2, <2>3 DEF QueueInv
  <2>5. ASSUME NEW kind, Stale(kind)
        PROVE  Stale(kind)'
    <3>1. \A i \in DOMAIN updates' : updates'[i].kind = kind => ~updates'[i].mine
      BY <2>2, <2>5 DEF Stale
    <3>2. \A i \in DOMAIN effects' : effects'[i].kind = kind => ~effects'[i].mine
      BY <1>2, <2>5 DEF Stale
    <3>3. QED
      BY <3>1, <3>2 DEF Stale
  <2>6. ~FirstIs("server", "stop")
    BY <2>1 DEF FirstIs
  <2>7. QED
    BY <1>2, <1>3, <1>4, <2>2, <2>4, <2>5, <2>6 DEF QueuesKept
<1>7. QED
  BY <1>5, <1>6

LEMMA HeadChanges ==
  ASSUME TypeInv, QueueInv, effects # <<>>, NEW t \in TaskSet, HeadBecomes(t), UNCHANGED updates,
         t.kind = Head1.kind, t.mine => Head1.mine
  PROVE  /\ QueuesKept /\ effects' # <<>> /\ effects'[1] = t
         /\ Owed(effects) /\ ~Resuming(Head1) /\ ~Changing(Head1) => Owed(effects')
         /\ Resuming(t) \/ Changing(t) => Owed(effects')
         /\ Called(effects) /\ ~Visiting(Head1) => Called(effects')
<1>1. updates \in Seq(UpdateSet) /\ effects \in Seq(TaskSet)
  BY DEF TypeInv
<1>2. /\ effects' \in Seq(TaskSet) /\ effects' # <<>> /\ 1 \in DOMAIN effects
      /\ DOMAIN effects' = DOMAIN effects /\ effects'[1] = t
      /\ \A i \in DOMAIN effects : i # 1 => effects'[i] = effects[i]
  BY <1>1, Headed DEF HeadBecomes
<1>3. QueueInv'
  BY <1>1, <1>2 DEF QueueInv, OfUpdate, Head1
<1>4. /\ Stale("name") => Stale("name")'
      /\ Stale("policy") => Stale("policy")'
  BY <1>2 DEF Stale, Head1
<1>5. /\ Owed(effects) /\ ~Resuming(Head1) /\ ~Changing(Head1) => Owed(effects')
      /\ Resuming(t) \/ Changing(t) => Owed(effects')
      /\ Called(effects) /\ ~Visiting(Head1) => Called(effects')
  BY <1>2 DEF Owed, Called, Head1
<1>6. QED
  BY <1>1, <1>2, <1>3, <1>4, <1>5 DEF QueuesKept, FirstIs

(* Tasks lose what they were current for, and nothing else. *)
LEMMA TasksFade ==
  ASSUME TypeInv, QueueInv, UNCHANGED updates, effects' = [i \in DOMAIN effects |-> effects'[i]],
         \A i \in DOMAIN effects :
           /\ effects'[i] \in TaskSet
           /\ effects'[i].kind = effects[i].kind /\ (i > 1 => effects'[i].at = effects[i].at)
           /\ effects'[i].mine => effects[i].mine
  PROVE  QueuesKept
<1>1. updates \in Seq(UpdateSet) /\ effects \in Seq(TaskSet)
  BY DEF TypeInv
<1>2. effects' \in Seq(TaskSet) /\ DOMAIN effects' = DOMAIN effects
  BY <1>1, Mapped
<1>3. QueueInv'
  BY <1>2 DEF QueueInv, OfUpdate
<1>4. /\ Stale("name") => Stale("name")'
      /\ Stale("policy") => Stale("policy")'
  BY <1>2 DEF Stale
<1>5. QED
  BY <1>1, <1>2, <1>3, <1>4 DEF QueuesKept, FirstIs

-----------------------------------------------------------------------------
(* The controller, the manifest and the debt. *)

LEMMA Controllers ==
  ASSUME TypeInv
  PROVE  /\ ctl \in ControllerSet
         /\ {ctl.on, ctl.closed, ctl.paused, ctl.suspended, ctl.polling, ctl.recover} \subseteq BOOLEAN
         /\ \A p \in BOOLEAN :
              /\ NewController(p) \in ControllerSet
              /\ NewController(p).on /\ ~NewController(p).closed /\ NewController(p).paused = p
              /\ ~p /\ ~hidden => NewController(p).polling
         /\ NoController \in ControllerSet /\ ~NoController.on /\ ~NoController.closed
         /\ \A c \in {Paused(ctl), Resumed(ctl), Closed(ctl), Suspended(ctl), Visible(ctl)} :
              c \in ControllerSet /\ c.on = ctl.on
         /\ \A c \in {Paused(ctl), Resumed(ctl), Suspended(ctl), Visible(ctl)} : c.closed = ctl.closed
         /\ Open => Paused(ctl).paused /\ ~Resumed(ctl).paused /\ (~hidden => Resumed(ctl).recover)
         /\ Closed(ctl).closed
         /\ Suspended(ctl).paused = ctl.paused /\ Visible(ctl).paused = ctl.paused
         /\ Open /\ ~ctl.paused => Visible(ctl).recover
<1>1. /\ ctl \in ControllerSet /\ hidden \in BOOLEAN
      /\ {ctl.on, ctl.closed, ctl.paused, ctl.suspended, ctl.polling, ctl.recover} \subseteq BOOLEAN
  BY DEF TypeInv, ControllerSet
<1>2. \A p \in BOOLEAN :
        /\ NewController(p) \in ControllerSet
        /\ NewController(p).on /\ ~NewController(p).closed /\ NewController(p).paused = p
        /\ ~p /\ ~hidden => NewController(p).polling
  BY <1>1 DEF NewController, ControllerSet
<1>3. NoController \in ControllerSet /\ ~NoController.on /\ ~NoController.closed
  BY DEF NoController, ControllerSet
<1>4. /\ Paused(ctl) \in ControllerSet /\ Paused(ctl).on = ctl.on /\ Paused(ctl).closed = ctl.closed
      /\ Open => Paused(ctl).paused
  BY <1>1 DEF Paused, ControllerSet, Open
<1>5. /\ Resumed(ctl) \in ControllerSet /\ Resumed(ctl).on = ctl.on /\ Resumed(ctl).closed = ctl.closed
      /\ Open => ~Resumed(ctl).paused /\ (~hidden => Resumed(ctl).recover)
  BY <1>1 DEF Resumed, ControllerSet, Open
<1>6. Closed(ctl) \in ControllerSet /\ Closed(ctl).on = ctl.on /\ Closed(ctl).closed
  BY <1>1 DEF Closed, ControllerSet
<1>7. /\ Suspended(ctl) \in ControllerSet /\ Suspended(ctl).on = ctl.on
      /\ Suspended(ctl).closed = ctl.closed /\ Suspended(ctl).paused = ctl.paused
  BY <1>1 DEF Suspended, ControllerSet
<1>8. /\ Visible(ctl) \in ControllerSet /\ Visible(ctl).on = ctl.on
      /\ Visible(ctl).closed = ctl.closed /\ Visible(ctl).paused = ctl.paused
      /\ Open /\ ~ctl.paused => Visible(ctl).recover
  BY <1>1 DEF Visible, ControllerSet, Open
<1>9. QED
  BY <1>1, <1>2, <1>3, <1>4, <1>5, <1>6, <1>7, <1>8

LEMMA NewestKept ==
  ASSUME NewestInv, QueuesKept, scopeResume'.mine => scopeResume.mine
  PROVE  NewestInv'
BY DEF NewestInv, QueuesKept

LEMMA ManifestKept ==
  ASSUME ManifestInv, UNCHANGED manifest
  PROVE  ManifestInv'
BY DEF ManifestInv, manifest, DutyCovers

(* The loop was owed its resume, and what owes it is still there. *)
LEMMA DebtStays ==
  ASSUME DebtInv, Stuck' => /\ Stuck /\ DebtsKept
                            /\ Kept(scopeResume) => Kept(scopeResume')
                            /\ hidden \/ shown => hidden' \/ shown' \/ Called(effects')
  PROVE  DebtInv'
BY DEF DebtInv, DebtsKept, Debt

-----------------------------------------------------------------------------
(* Steps that leave both queues alone *)

LEMMA QuietSteps ==
  ASSUME IInv, StartCycle \/ CycleEnds \/ Connect \/ Disconnects \/ RevokeAtService \/ Hide \/ Show
  PROVE  IInv'
<1> USE DEF IInv
<1>1. QueuesKept /\ DebtsKept /\ UNCHANGED <<scopeResume, manifest>>
  <2>1. UNCHANGED <<updates, effects, scopeResume, manifest>>
    BY DEF StartCycle, CycleEnds, Connect, Disconnects, RevokeAtService, Hide, Show, queues
  <2>2. QED
    BY <2>1, QueuesSame
<1>2. QueueInv' /\ NewestInv' /\ ManifestInv'
  BY <1>1, NewestKept, ManifestKept DEF QueuesKept
<1>3. CASE StartCycle
  <2>1. /\ UNCHANGED <<session, pauses, comp, revocation, queues, window, lost>>
        /\ ctl' = [ctl EXCEPT !.polling = TRUE, !.recover = FALSE]
        /\ \/ cycle' = cycle
           \/ cycle' = [at |-> "hydrate", own |-> TRUE, client |-> client]
           \/ cycle' = [at |-> "work", own |-> TRUE, client |-> client]
    BY <1>3 DEF StartCycle
  <2>2. /\ ctl' \in ControllerSet /\ ctl'.on = ctl.on /\ ctl'.closed = ctl.closed
        /\ ctl'.paused = ctl.paused /\ ctl'.polling
    BY <2>1, Controllers DEF ControllerSet
  <2>3. client \in Nat /\ cycle \in CycleSet
    BY DEF TypeInv
  <2>4. cycle' \in CycleSet
    <3>1. /\ [at |-> "hydrate", own |-> TRUE, client |-> client] \in CycleSet
          /\ [at |-> "work", own |-> TRUE, client |-> client] \in CycleSet
      BY <2>3 DEF CycleSet
    <3>2. QED
      BY <2>1, <2>3, <3>1
  <2>5. TypeInv'
    BY <1>1, <2>1, <2>2, <2>4 DEF TypeInv, session, pauses, revocation, queues, window, manifest
  <2>6. LoopInv'
    BY <2>1, <2>2 DEF LoopInv, Open, session, pauses, revocation, queues, window, FirstIs
  <2>7. DebtInv'
    BY <1>1, <2>1, <2>2, DebtStays DEF Stuck, Open, Connected, session, pauses, revocation, window
  <2>8. QED
    BY <1>2, <2>5, <2>6, <2>7
<1>4. CASE CycleEnds
  <2>1. UNCHANGED <<session, pauses, ctl, comp, revocation, queues, window, lost>> /\ cycle' = Idle
    BY <1>4 DEF CycleEnds
  <2>2. cycle' \in CycleSet
    BY <2>1 DEF TypeInv, CycleSet, Idle
  <2>3. TypeInv'
    BY <1>1, <2>1, <2>2 DEF TypeInv, session, pauses, revocation, queues, window, manifest
  <2>4. LoopInv'
    BY <2>1 DEF LoopInv, Open, session, pauses, revocation, queues, window, FirstIs
  <2>5. DebtInv'
    BY <1>1, <2>1, DebtStays DEF Stuck, Open, Connected, session, pauses, revocation, window
  <2>6. QED
    BY <1>2, <2>3, <2>4, <2>5
<1>5. CASE Connect \/ Disconnects \/ RevokeAtService
  <2>1. /\ UNCHANGED <<client, pauses, loop, revocation, queues, window, lost>>
        /\ status' \in {status, "connecting", "reconnect"}
        /\ client \in revokedClients => client \in revokedClients'
    BY <1>5 DEF Connect, Disconnects, RevokeAtService
  <2>2. status' \in {"connected", "connecting", "reconnect", "disconnected"}
    BY <2>1 DEF TypeInv
  <2>3. TypeInv'
    BY <1>1, <2>1, <2>2 DEF TypeInv, pauses, loop, revocation, queues, window, manifest
  <2>4. LoopInv'
    BY <2>1 DEF LoopInv, Open, pauses, loop, revocation, queues, window, FirstIs
  <2>5. DebtInv'
    BY <1>1, <2>1, DebtStays DEF Stuck, Open, Connected, pauses, loop, revocation, window
  <2>6. QED
    BY <1>2, <2>3, <2>4, <2>5
<1>6. CASE Hide
  <2>1. /\ UNCHANGED <<session, pauses, comp, cycle, revocation, queues, shown, lost>>
        /\ hidden' /\ hidden' \in BOOLEAN /\ ctl' = Suspended(ctl)
    BY <1>6 DEF Hide
  <2>2. /\ ctl' \in ControllerSet /\ ctl'.on = ctl.on /\ ctl'.closed = ctl.closed
        /\ ctl'.paused = ctl.paused
    BY <2>1, Controllers
  <2>3. TypeInv'
    BY <1>1, <2>1, <2>2 DEF TypeInv, session, pauses, revocation, queues, manifest
  <2>4. LoopInv'
    BY <2>1, <2>2 DEF LoopInv, Open, session, pauses, revocation, queues, FirstIs
  <2>5. DebtInv'
    BY <1>1, <2>1, <2>2, DebtStays DEF Stuck, Open, Connected, session, pauses, revocation
  <2>6. QED
    BY <1>2, <2>3, <2>4, <2>5
<1>7. CASE Show
  <2>1. /\ UNCHANGED <<session, pauses, comp, cycle, revocation, queues, lost>>
        /\ hidden' = FALSE /\ ctl' = Visible(ctl) /\ shown' = (ctl.on /\ ~ctl.closed)
    BY <1>7 DEF Show
  <2>2. /\ ctl' \in ControllerSet /\ ctl'.on = ctl.on /\ ctl'.closed = ctl.closed
        /\ ctl'.paused = ctl.paused /\ (Open /\ ~ctl.paused => ctl'.recover)
    BY <2>1, Controllers
  <2>3. TypeInv'
    BY <1>1, <2>1, <2>2, Controllers DEF TypeInv, session, pauses, revocation, queues, manifest
  <2>4. LoopInv'
    BY <2>1, <2>2 DEF LoopInv, Open, session, pauses, revocation, queues, FirstIs
  <2>5. Stuck' => Stuck /\ shown'
    BY <2>1, <2>2 DEF Stuck, Open, Connected, session, pauses, revocation
  <2>6. DebtInv'
    BY <1>1, <2>5 DEF DebtInv, Debt, DebtsKept
  <2>7. QED
    BY <1>2, <2>3, <2>4, <2>6
<1>8. QED
  BY <1>3, <1>4, <1>5, <1>6, <1>7

-----------------------------------------------------------------------------
(* Steps of the controller's owners, and of the resume task *)

LEMMA TasksMarked ==
  ASSUME TypeInv, QueueInv, UNCHANGED updates,
         \/ effects' = Orphaned(effects)
         \/ effects' = Unowned(effects)
         \/ effects' = Superseded(effects)
  PROVE  QueuesKept
<1>1. \A i \in DOMAIN effects : effects[i] \in TaskSet
  BY DEF TypeInv
<1>2. CASE effects' = Orphaned(effects)
  <2>1. ASSUME NEW i \in DOMAIN effects
        PROVE  /\ effects'[i] \in TaskSet
               /\ effects'[i].kind = effects[i].kind /\ effects'[i].at = effects[i].at
               /\ effects'[i].mine => effects[i].mine
    <3>1. effects[i] \in TaskSet
      BY <1>1
    <3>2. QED
      BY <1>2, <3>1 DEF Orphaned, TaskSet
  <2>2. effects' = [i \in DOMAIN effects |-> effects'[i]]
    BY <1>2 DEF Orphaned
  <2>3. QED
    BY <2>1, <2>2, TasksFade
<1>3. CASE effects' = Unowned(effects)
  <2>1. ASSUME NEW i \in DOMAIN effects
        PROVE  /\ effects'[i] \in TaskSet
               /\ effects'[i].kind = effects[i].kind /\ effects'[i].at = effects[i].at
               /\ effects'[i].mine => effects[i].mine
    <3>1. effects[i] \in TaskSet
      BY <1>1
    <3>2. QED
      BY <1>3, <3>1 DEF Unowned, TaskSet
  <2>2. effects' = [i \in DOMAIN effects |-> effects'[i]]
    BY <1>3 DEF Unowned
  <2>3. QED
    BY <2>1, <2>2, TasksFade
<1>4. CASE effects' = Superseded(effects)
  <2>1. ASSUME NEW i \in DOMAIN effects
        PROVE  /\ effects'[i] \in TaskSet
               /\ effects'[i].kind = effects[i].kind /\ effects'[i].at = effects[i].at
               /\ effects'[i].mine => effects[i].mine
    <3>1. effects[i] \in TaskSet
      BY <1>1
    <3>2. QED
      BY <1>4, <3>1 DEF Superseded, TaskSet
  <2>2. effects' = [i \in DOMAIN effects |-> effects'[i]]
    BY <1>4 DEF Superseded
  <2>3. QED
    BY <2>1, <2>2, TasksFade
<1>5. QED
  BY <1>2, <1>3, <1>4

LEMMA RevocationSettlesStep ==
  ASSUME IInv, RevocationSettles
  PROVE  IInv'
<1> USE DEF IInv
<1>1. /\ UNCHANGED <<session, cycle, syncRevoked, manifest, updates, scopeResume, window, lost>>
      /\ revoking' = FALSE /\ UNCHANGED <<syncPaused, pausedDoc>>
      /\ pausing' \in {pausing, "no", "orphan"}
      /\ \/ effects' = Orphaned(effects)
         \/ UNCHANGED effects
  BY DEF RevocationSettles, ControllerGone, pauses
<1>2. \/ ctl' = NewController(syncPaused) /\ comp' = TRUE /\ ~syncRevoked
      \/ ctl' = NoController /\ comp' = comp /\ ~(~syncRevoked /\ status = "connected")
      \/ /\ ctl' = ctl /\ comp' = comp /\ ~(ctl.on /\ ctl.closed) /\ UNCHANGED effects
         /\ ctl.on \/ syncRevoked \/ status # "connected"
  BY DEF RevocationSettles
<1>3. QueuesKept /\ (UNCHANGED effects => DebtsKept)
  BY <1>1, TasksMarked, QueuesSame
<1>4. QueueInv' /\ NewestInv' /\ ManifestInv'
  BY <1>1, <1>3, NewestKept, ManifestKept DEF QueuesKept
<1>5. TypeInv'
  BY <1>1, <1>2, <1>3, Controllers DEF TypeInv, session, manifest, window, QueuesKept
<1>6. LoopInv'
  BY <1>1, <1>2, Controllers DEF LoopInv, Open, session, window, TypeInv
<1>7. CASE ctl' = NewController(syncPaused)
  BY <1>1, <1>4, <1>5, <1>6, <1>7, Controllers DEF DebtInv, Stuck, Connected, TypeInv
<1>8. CASE ctl' = NoController
  BY <1>4, <1>5, <1>6, <1>8, Controllers DEF DebtInv, Stuck, Open
<1>9. CASE ctl' = ctl /\ UNCHANGED effects
  <2>1. DebtInv'
    BY <1>1, <1>3, <1>9, DebtStays DEF Stuck, Open, Connected, session, window
  <2>2. QED
    BY <1>4, <1>5, <1>6, <2>1
<1>10. QED
  BY <1>2, <1>7, <1>8, <1>9

LEMMA ReplaceSessionStep ==
  ASSUME IInv, ReplaceSession
  PROVE  IInv'
<1> USE DEF IInv
<1>1. /\ UNCHANGED <<client, revokedClients, comp, cycle, revocation, manifest, scopeResume, window>>
      /\ UNCHANGED <<syncPaused, pausedDoc>>
      /\ pausing' \in {pausing, "no", "orphan"}
      /\ updates # <<>> /\ updates[1].at = "stop" /\ updates' = Tail(updates)
      /\ \/ effects' = Orphaned(effects) /\ ctl' = NoController
         \/ UNCHANGED effects /\ ctl' = ctl /\ ~ctl.closed
      /\ \/ status' = "disconnected" /\ lost' = lost
         \/ status' = status /\ lost' = TRUE
  BY HeadFacts DEF ReplaceSession, ControllerGone, FirstIs, pauses
<1>2. /\ updates' \in Seq(UpdateSet) /\ DOMAIN updates' \subseteq Nat \ {0}
      /\ \A i \in DOMAIN updates' : i + 1 \in DOMAIN updates /\ updates'[i] = updates[i + 1]
  BY <1>1, Dropped DEF TypeInv
<1>3. \A i \in DOMAIN effects : ~OfUpdate(effects[i])
  BY <1>1 DEF QueueInv
<1>4. /\ effects' \in Seq(TaskSet) /\ DOMAIN effects' = DOMAIN effects
      /\ \A i \in DOMAIN effects : /\ effects'[i].kind = effects[i].kind
                                   /\ effects'[i].at = effects[i].at
                                   /\ effects'[i].mine = effects[i].mine
  <2>1. CASE UNCHANGED effects
    BY <2>1 DEF TypeInv
  <2>2. CASE effects' = Orphaned(effects)
    <3>1. \A i \in DOMAIN effects : effects[i] \in TaskSet
      BY DEF TypeInv
    <3>2. \A t \in TaskSet : [t EXCEPT !.own = FALSE] \in TaskSet
      BY DEF TaskSet
    <3>3. \A i \in DOMAIN effects : effects'[i] \in TaskSet
      BY <2>2, <3>1, <3>2 DEF Orphaned
    <3>4. effects' \in Seq(TaskSet) /\ DOMAIN effects' = DOMAIN effects
      BY <2>2, <3>3, Mapped DEF Orphaned, TypeInv
    <3>5. QED
      BY <2>2, <3>1, <3>4 DEF Orphaned, TaskSet
  <2>3. QED
    BY <1>1, <2>1, <2>2
<1>5. QueueInv'
  BY <1>2, <1>3, <1>4 DEF QueueInv, OfUpdate
<1>6. ASSUME NEW kind, Stale(kind)
      PROVE  Stale(kind)'
  <2>1. \A i \in DOMAIN updates' : updates'[i].kind = kind => ~updates'[i].mine
    BY <1>2, <1>6 DEF Stale
  <2>2. \A i \in DOMAIN effects' : effects'[i].kind = kind => ~effects'[i].mine
    BY <1>4, <1>6 DEF Stale
  <2>3. QED
    BY <2>1, <2>2 DEF Stale
<1>7. NewestInv' /\ ManifestInv'
  BY <1>1, <1>6, ManifestKept DEF NewestInv
<1>8. TypeInv'
  BY <1>1, <1>2, <1>4, Controllers DEF TypeInv, revocation, manifest, window
<1>9. LoopInv'
  BY <1>1, Controllers DEF LoopInv, Open, revocation, window
<1>10. ~Stuck'
  BY <1>1 DEF Stuck, Connected
<1>11. QED
  BY <1>5, <1>7, <1>8, <1>9, <1>10 DEF DebtInv

LEMMA DisposePausedStep ==
  ASSUME IInv, DisposePaused
  PROVE  IInv'
<1> USE DEF IInv
<1>1. /\ UNCHANGED <<session, pauses, ctl, cycle, revocation, manifest, scopeResume, window, lost>>
      /\ effects # <<>> /\ Head1.kind = "dispose" /\ effects' = Tail(effects) /\ UNCHANGED updates
      /\ comp' = (comp /\ ~(Head1.own /\ syncPaused))
  BY HeadFacts DEF DisposePaused, HeadIs, HeadEnds
<1>2. QueuesKept /\ DebtsKept
  BY <1>1, HeadGone DEF OfUpdate, Resuming, Changing, Visiting, DebtsKept
<1>3. QueueInv' /\ NewestInv' /\ ManifestInv'
  BY <1>1, <1>2, NewestKept, ManifestKept DEF QueuesKept
<1>4. TypeInv'
  BY <1>1, <1>2 DEF TypeInv, session, pauses, revocation, manifest, window, QueuesKept
<1>5. LoopInv'
  BY <1>1, <1>2 DEF LoopInv, Open, session, pauses, revocation, window, TypeInv, QueuesKept, FirstIs
<1>6. DebtInv'
  BY <1>1, <1>2, DebtStays DEF Stuck, Open, Connected, session, pauses, revocation, window
<1>7. QED
  BY <1>3, <1>4, <1>5, <1>6

LEMMA NewTasks ==
         /\ \A kind \in Kinds : /\ Task(kind) \in TaskSet /\ Task(kind).kind = kind
                                /\ Task(kind).at = "new" /\ Task(kind).live /\ Task(kind).mine
         /\ NoResume \in TaskSet /\ NoResume.kind = "none" /\ ~NoResume.mine
BY DEF Task, NoResume, TaskSet, Kinds, Stages

LEMMA ResumeSteps ==
  ASSUME IInv, ResumeBegins \/ ResumeChecks
  PROVE  IInv'
<1> USE DEF IInv
<1>1. /\ UNCHANGED <<session, pauses, loop, revocation, manifest, scopeResume, window, lost, updates>>
      /\ effects # <<>> /\ Head1.kind = "resume" /\ Head1.at \in {"new", "wait"}
  BY HeadFacts DEF ResumeBegins, ResumeChecks, HeadIs, HeadEnds
<1>2. Head1 \in TaskSet /\ ~Changing(Head1) /\ ~Visiting(Head1) /\ ~OfUpdate(Head1)
  BY <1>1, HeadFacts DEF Changing, Visiting, OfUpdate
<1>3. \/ \E t \in TaskSet : /\ HeadBecomes(t) /\ t.kind = Head1.kind /\ t.mine = Head1.mine
                            /\ Resuming(Head1) => Resuming(t)
      \/ effects' = Tail(effects) /\ (Resuming(Head1) => ~Stuck)
  <2>1. CASE ResumeBegins
    <3>1. CASE ctl.on /\ ~syncRevoked
      <4>1. HeadBecomes([Head1 EXCEPT !.at = "wait", !.own = TRUE])
        BY <2>1, <3>1 DEF ResumeBegins
      <4>2. PICK t : t = [Head1 EXCEPT !.at = "wait", !.own = TRUE]
        OBVIOUS
      <4>3. /\ t \in TaskSet /\ t.kind = Head1.kind /\ t.mine = Head1.mine /\ t.live = Head1.live
            /\ t.own /\ t.at = "wait"
        BY <1>2, <4>2 DEF TaskSet, Stages
      <4>4. QED
        BY <4>1, <4>2, <4>3 DEF Resuming
    <3>2. CASE ~(ctl.on /\ ~syncRevoked)
      BY <2>1, <3>2 DEF ResumeBegins, HeadEnds, Stuck, Open, Connected
    <3>3. QED
      BY <3>1, <3>2
  <2>2. CASE ResumeChecks
    <3>1. CASE Head1.own /\ status = "connected" /\ Head1.live
      <4>1. HeadBecomes([Head1 EXCEPT !.at = "persist"])
        BY <2>2, <3>1 DEF ResumeChecks
      <4>2. PICK t : t = [Head1 EXCEPT !.at = "persist"]
        OBVIOUS
      <4>3. /\ t \in TaskSet /\ t.kind = Head1.kind /\ t.mine = Head1.mine /\ t.live = Head1.live
            /\ t.own = Head1.own /\ t.at = "persist"
        BY <1>2, <4>2 DEF TaskSet, Stages
      <4>4. QED
        BY <3>1, <4>1, <4>2, <4>3 DEF Resuming
    <3>2. CASE ~(Head1.own /\ status = "connected" /\ Head1.live)
      BY <2>2, <3>2 DEF ResumeChecks, HeadIs, HeadEnds, Stuck, Connected, Resuming
    <3>3. QED
      BY <3>1, <3>2
  <2>3. QED
    BY <2>1, <2>2
<1>4. QueuesKept /\ (Stuck => DebtsKept)
  <2>1. CASE \E t \in TaskSet : /\ HeadBecomes(t) /\ t.kind = Head1.kind /\ t.mine = Head1.mine
                                /\ Resuming(Head1) => Resuming(t)
    <3>1. PICK t \in TaskSet : /\ HeadBecomes(t) /\ t.kind = Head1.kind /\ t.mine = Head1.mine
                               /\ Resuming(Head1) => Resuming(t)
      BY <2>1
    <3>2. QED
      BY <1>1, <1>2, <3>1, HeadChanges DEF DebtsKept
  <2>2. CASE effects' = Tail(effects) /\ (Resuming(Head1) => ~Stuck)
    BY <1>1, <1>2, <2>2, HeadGone DEF DebtsKept
  <2>3. QED
    BY <1>3, <2>1, <2>2
<1>5. QueueInv' /\ NewestInv' /\ ManifestInv'
  BY <1>1, <1>4, NewestKept, ManifestKept DEF QueuesKept
<1>6. TypeInv'
  BY <1>1, <1>4 DEF TypeInv, session, pauses, loop, revocation, manifest, window, QueuesKept
<1>7. LoopInv'
  BY <1>1, <1>4 DEF LoopInv, Open, session, pauses, loop, revocation, window, QueuesKept, FirstIs
<1>8. DebtInv'
  BY <1>1, <1>4, DebtStays DEF Stuck, Open, Connected, session, pauses, loop, revocation, window
<1>9. QED
  BY <1>5, <1>6, <1>7, <1>8

LEMMA RecoveredStep ==
  ASSUME IInv, Recovered
  PROVE  IInv'
<1> USE DEF IInv
<1>1. /\ UNCHANGED <<session, pauses, loop, revocation, manifest, scopeResume, window, lost>>
      /\ effects # <<>> /\ Head1.at = "recover" /\ effects' = Tail(effects)
      /\ \/ ~OfUpdate(Head1) /\ UNCHANGED updates
         \/ OfUpdate(Head1) /\ updates' = Tail(updates)
  BY HeadFacts DEF Recovered, HeadEnds, UpdateEnds, OfUpdate
<1>2. QueuesKept /\ DebtsKept
  BY <1>1, HeadGone DEF Resuming, Changing, Visiting, DebtsKept
<1>3. QueueInv' /\ NewestInv' /\ ManifestInv'
  BY <1>1, <1>2, NewestKept, ManifestKept DEF QueuesKept
<1>4. TypeInv'
  BY <1>1, <1>2 DEF TypeInv, session, pauses, loop, revocation, manifest, window, QueuesKept
<1>5. LoopInv'
  BY <1>1, <1>2 DEF LoopInv, Open, session, pauses, loop, revocation, window, QueuesKept, FirstIs
<1>6. DebtInv'
  BY <1>1, <1>2, DebtStays DEF Stuck, Open, Connected, session, pauses, loop, revocation, window
<1>7. QED
  BY <1>3, <1>4, <1>5, <1>6

LEMMA PauseStep ==
  ASSUME IInv, Pause
  PROVE  IInv'
<1> USE DEF IInv
<1>1. /\ UNCHANGED <<session, pausedDoc, comp, cycle, revocation, manifest, updates, window, lost>>
      /\ syncPaused' = TRUE /\ pausing' \in {"own", "orphan"}
      /\ \/ ctl.on /\ ctl' = Paused(ctl)
         \/ ~ctl.on /\ ctl' = ctl
      /\ scopeResume' = NoResume /\ effects' = Superseded(effects)
  BY DEF Pause
<1>2. QueuesKept
  BY <1>1, TasksMarked
<1>3. QueueInv' /\ NewestInv' /\ ManifestInv'
  BY <1>1, <1>2, NewestKept, ManifestKept, NewTasks DEF QueuesKept
<1>4. TypeInv'
  BY <1>1, <1>2, Controllers, NewTasks
  DEF TypeInv, session, revocation, manifest, window, QueuesKept
<1>5. LoopInv'
  BY <1>1, <1>2, Controllers DEF LoopInv, Open, session, revocation, window, QueuesKept, FirstIs
<1>6. ~Stuck'
  BY <1>1 DEF Stuck, Connected
<1>7. QED
  BY <1>3, <1>4, <1>5, <1>6 DEF DebtInv

LEMMA PauseResumeSteps ==
  ASSUME IInv, PausePersists \/ Resume
  PROVE  IInv'
<1> USE DEF IInv
<1>1. /\ UNCHANGED <<session, syncPaused, loop, revocation, manifest, updates, scopeResume, window, lost>>
      /\ pausing' \in {pausing, "no"} /\ pausedDoc' \in BOOLEAN
      /\ \/ UNCHANGED effects
         \/ effects' = Append(effects, Task("resume"))
         \/ \E own \in BOOLEAN : effects' = Append(effects, [Task("dispose") EXCEPT !.own = own])
  BY DEF PausePersists, Resume, pauses, TypeInv
<1>2. QueuesKept /\ DebtsKept
  <2>1. CASE UNCHANGED effects
    BY <1>1, <2>1, QueuesSame
  <2>2. CASE effects' = Append(effects, Task("resume"))
    BY <1>1, <2>2, TaskAppended, NewTasks DEF OfUpdate, Kinds
  <2>3. CASE \E own \in BOOLEAN : effects' = Append(effects, [Task("dispose") EXCEPT !.own = own])
    <3>1. PICK own \in BOOLEAN : effects' = Append(effects, [Task("dispose") EXCEPT !.own = own])
      BY <2>3
    <3>2. PICK t : t = [Task("dispose") EXCEPT !.own = own]
      OBVIOUS
    <3>3. t \in TaskSet /\ t.kind = "dispose" /\ t.at = "new"
      BY <3>2, NewTasks DEF TaskSet, Kinds
    <3>4. QED
      BY <1>1, <3>1, <3>2, <3>3, TaskAppended DEF OfUpdate
  <2>4. QED
    BY <1>1, <2>1, <2>2, <2>3
<1>3. QueueInv' /\ NewestInv' /\ ManifestInv'
  BY <1>1, <1>2, NewestKept, ManifestKept DEF QueuesKept
<1>4. TypeInv'
  BY <1>1, <1>2 DEF TypeInv, session, loop, revocation, manifest, window, QueuesKept
<1>5. LoopInv'
  BY <1>1, <1>2 DEF LoopInv, Open, session, loop, revocation, window, QueuesKept, FirstIs
<1>6. DebtInv'
  BY <1>1, <1>2, DebtStays DEF Stuck, Open, Connected, session, loop, revocation, window
<1>7. QED
  BY <1>3, <1>4, <1>5, <1>6

LEMMA ResumePersistsStep ==
  ASSUME IInv, ResumePersists
  PROVE  IInv'
<1> USE DEF IInv
<1>1. /\ UNCHANGED <<session, cycle, revocation, manifest, scopeResume, window, updates, pausing>>
      /\ effects # <<>> /\ Head1.kind = "resume" /\ Head1.at = "persist"
  BY HeadFacts DEF ResumePersists, HeadIs, HeadEnds, Resumes, pauses
<1>2. Head1 \in TaskSet /\ ~Changing(Head1) /\ ~Visiting(Head1) /\ ~OfUpdate(Head1)
  BY <1>1, HeadFacts DEF Changing, Visiting, OfUpdate
<1>3. CASE Head1.live /\ Resumes /\ lost' = (lost \/ ~Head1.own)
  <2>1. /\ pausedDoc' = FALSE /\ syncPaused' = FALSE /\ comp' = TRUE
        /\ \/ Head1.own /\ ctl' = Resumed(ctl)
           \/ ~Head1.own /\ ctl' = ctl
        /\ HeadBecomes([Head1 EXCEPT !.at = "recover"])
    BY <1>3 DEF Resumes
  <2>2. PICK t : t = [Head1 EXCEPT !.at = "recover"]
    OBVIOUS
  <2>3. t \in TaskSet /\ t.kind = Head1.kind /\ t.mine = Head1.mine
    BY <1>2, <2>2 DEF TaskSet, Stages
  <2>4. QueuesKept
    BY <1>1, <2>1, <2>2, <2>3, HeadChanges
  <2>5. QueueInv' /\ NewestInv' /\ ManifestInv'
    BY <1>1, <2>4, NewestKept, ManifestKept DEF QueuesKept
  <2>6. {Head1.own, lost} \subseteq BOOLEAN
    BY <1>1, HeadFacts DEF TypeInv
  <2>7. TypeInv'
    BY <1>1, <1>3, <2>1, <2>4, <2>6, Controllers
    DEF TypeInv, session, revocation, manifest, window, QueuesKept
  <2>8. LoopInv'
    BY <1>1, <1>3, <2>1, <2>4, Controllers
    DEF LoopInv, Open, session, revocation, window, QueuesKept, FirstIs
  <2>9. ~Stuck'
    BY <1>3, <2>1, Controllers DEF Stuck, Open
  <2>10. QED
    BY <2>5, <2>7, <2>8, <2>9 DEF DebtInv
<1>4. CASE /\ effects' = Tail(effects) /\ UNCHANGED <<pauses, ctl, comp>>
           /\ \/ ~Head1.live /\ lost' = lost
              \/ lost' = (lost \/ ~syncPaused)
  <2>1. QueuesKept /\ (~Head1.live => DebtsKept)
    BY <1>1, <1>2, <1>4, HeadGone DEF DebtsKept, Resuming
  <2>2. Stuck' => Stuck /\ ~Head1.live
    BY <1>1, <1>4 DEF Stuck, Open, Connected, session, pauses, revocation
  <2>3. QueueInv' /\ NewestInv' /\ ManifestInv'
    BY <1>1, <2>1, NewestKept, ManifestKept DEF QueuesKept
  <2>4. lost' \in BOOLEAN /\ (lost => lost')
    <3>1. lost \in BOOLEAN
      BY DEF TypeInv
    <3>2. CASE lost' = lost
      BY <3>1, <3>2
    <3>3. CASE lost' = (lost \/ ~syncPaused)
      BY <3>3
    <3>4. QED
      BY <1>4, <3>2, <3>3
  <2>5. TypeInv'
    BY <1>1, <1>4, <2>1, <2>4
    DEF TypeInv, session, pauses, revocation, manifest, window, QueuesKept
  <2>6. LoopInv'
    BY <1>1, <1>4, <2>1, <2>4
    DEF LoopInv, Open, session, pauses, revocation, window, QueuesKept, FirstIs
  <2>7. DebtInv'
    BY <1>1, <2>1, <2>2, DebtStays DEF window
  <2>8. QED
    BY <2>3, <2>5, <2>6, <2>7
<1>5. QED
  BY <1>3, <1>4 DEF ResumePersists, HeadEnds

-----------------------------------------------------------------------------
(* The session tells its status *)

LEMMA ConnectedSteps ==
  ASSUME IInv, SignedIn \/ ConnectEnds
  PROVE  IInv'
<1> USE DEF IInv
<1>1. CASE /\ UNCHANGED <<client, pauses, loop, revocation, manifest, queues, window, lost>>
           /\ status' = "disconnected"
  <2>1. QueuesKept
    BY <1>1, QueuesSame DEF queues
  <2>2. QueueInv' /\ NewestInv' /\ ManifestInv'
    BY <1>1, <2>1, NewestKept, ManifestKept DEF QueuesKept, queues
  <2>3. UNCHANGED revokedClients
    BY DEF SignedIn, ConnectEnds
  <2>4. TypeInv'
    BY <1>1, <2>1 DEF TypeInv, pauses, loop, revocation, manifest, queues, window
  <2>5. LoopInv'
    BY <1>1, <2>1, <2>3 DEF LoopInv, Open, pauses, loop, revocation, queues, window, FirstIs
  <2>6. ~Stuck'
    BY <1>1 DEF Stuck, Connected
  <2>7. QED
    BY <2>2, <2>4, <2>5, <2>6 DEF DebtInv
<1>2. CASE TellsConnected /\ client' \in Nat
  <2>1. /\ UNCHANGED <<pauses, cycle, revoking, manifest, updates, scopeResume, window, lost>>
        /\ status' = "connected" /\ syncRevoked' = FALSE
        /\ \/ ~ctl.on /\ ctl' = NewController(syncPaused) /\ comp' = TRUE /\ UNCHANGED effects
           \/ ctl.on /\ UNCHANGED <<ctl, comp>> /\ syncPaused /\ UNCHANGED effects
           \/ ctl.on /\ UNCHANGED <<ctl, comp>> /\ effects' = Append(effects, Task("resume"))
    BY <1>2 DEF TellsConnected
  <2>2. Resuming(Task("resume")) /\ ~OfUpdate(Task("resume")) /\ Task("resume").at = "new"
    BY NewTasks DEF Resuming, OfUpdate, Kinds
  <2>3. QueuesKept /\ (~UNCHANGED effects => Owed(effects'))
    <3>1. CASE UNCHANGED effects
      BY <2>1, <3>1, QueuesSame
    <3>2. CASE effects' = Append(effects, Task("resume"))
      BY <2>1, <2>2, <3>2, TaskAppended, NewTasks DEF Kinds
    <3>3. QED
      BY <2>1, <3>1, <3>2
  <2>4. QueueInv' /\ NewestInv' /\ ManifestInv'
    BY <2>1, <2>3, NewestKept, ManifestKept DEF QueuesKept
  <2>5. TypeInv'
    BY <1>2, <2>1, <2>3, Controllers DEF TypeInv, pauses, manifest, window, QueuesKept
  <2>6. LoopInv'
    BY <2>1, <2>3, Controllers DEF LoopInv, Open, pauses, window, QueuesKept, FirstIs, TypeInv
  <2>7. Stuck' => ~syncPaused /\ ctl.on
    BY <2>1, Controllers DEF Stuck, Connected, pauses, TypeInv
  <2>8. Stuck' => Owed(effects')
    BY <2>1, <2>2, <2>7, TaskAppended, NewTasks DEF Kinds
  <2>9. QED
    BY <2>4, <2>5, <2>6, <2>8 DEF DebtInv, Debt
<1>3. QED
  BY <1>1, <1>2 DEF SignedIn, ConnectEnds, TypeInv

-----------------------------------------------------------------------------
(* Settings updates *)

LEMMA AskSteps ==
  ASSUME IInv, NEW u \in UpdateSet, u.at = "new", Asks(u)
  PROVE  IInv'
<1> USE DEF IInv
<1>1. /\ UNCHANGED <<session, pauses, loop, revocation, manifest, window>>
      /\ updates' = Append([i \in DOMAIN updates |-> [updates[i] EXCEPT !.mine = FALSE]], u)
      /\ effects' = [i \in DOMAIN effects |->
                       IF effects[i].kind \in {"name", "policy"} \/ u.kind = "policy"
                         THEN [effects[i] EXCEPT !.mine = FALSE] ELSE effects[i]]
      /\ lost' = (lost \/ scopeResume.mine)
      /\ \/ scopeResume' = NoResume
         \/ u.kind # "policy" /\ scopeResume' = [scopeResume EXCEPT !.mine = FALSE]
  BY DEF Asks
<1>2. PICK old : old = [i \in DOMAIN updates |-> [updates[i] EXCEPT !.mine = FALSE]]
  OBVIOUS
<1>3. ASSUME NEW i \in DOMAIN updates
      PROVE  /\ old[i] \in UpdateSet /\ ~old[i].mine
             /\ old[i].at = updates[i].at /\ old[i].kind = updates[i].kind
  <2>1. updates[i] \in UpdateSet
    BY DEF TypeInv
  <2>2. QED
    BY <1>2, <2>1 DEF UpdateSet
<1>4. /\ old \in Seq(UpdateSet) /\ DOMAIN old = DOMAIN updates
      /\ DOMAIN updates = 1..Len(updates) /\ Len(updates) \in Nat
      /\ updates # <<>> => old # <<>> /\ 1 \in DOMAIN updates
  <2>1. old = [i \in DOMAIN updates |-> old[i]]
    BY <1>2
  <2>2. QED
    BY <1>3, <2>1, Mapped DEF TypeInv
<1>5. updates' = Append(old, u)
  BY <1>1, <1>2
<1>6. /\ updates' \in Seq(UpdateSet) /\ updates' # <<>>
      /\ DOMAIN old = 1..Len(old) /\ DOMAIN updates' = 1..(Len(old) + 1) /\ Len(old) \in Nat
      /\ \A i \in DOMAIN old : i \in DOMAIN updates' /\ updates'[i] = old[i]
      /\ updates'[Len(old) + 1] = u
  BY <1>4, <1>5, Appended
<1>7. \A i \in DOMAIN updates' : i \in DOMAIN updates \/ updates'[i] = u
  BY <1>4, <1>6
<1>8. ASSUME NEW i \in DOMAIN effects
      PROVE  /\ effects'[i] \in TaskSet
             /\ effects'[i].kind = effects[i].kind /\ effects'[i].at = effects[i].at
             /\ effects'[i].mine => effects[i].mine /\ ~OfUpdate(effects[i])
             /\ Resuming(effects[i]) => Resuming(effects'[i])
             /\ Changing(effects[i]) => Changing(effects'[i])
  <2>1. effects[i] \in TaskSet
    BY DEF TypeInv
  <2>2. PICK t : t = [effects[i] EXCEPT !.mine = FALSE]
    OBVIOUS
  <2>3. /\ t \in TaskSet /\ t.kind = effects[i].kind /\ t.at = effects[i].at /\ t.mine = FALSE
        /\ t.live = effects[i].live /\ t.own = effects[i].own /\ t.comp = effects[i].comp
        /\ t.resume = effects[i].resume
    BY <2>1, <2>2 DEF TaskSet
  <2>4. effects'[i] = t \/ (effects'[i] = effects[i] /\ ~OfUpdate(effects[i]))
    BY <1>1, <2>2 DEF OfUpdate
  <2>5. QED
    BY <2>1, <2>3, <2>4 DEF Resuming, Changing
<1>9. effects' \in Seq(TaskSet) /\ DOMAIN effects' = DOMAIN effects
  <2>1. effects' = [i \in DOMAIN effects |-> effects'[i]]
    BY <1>1
  <2>2. QED
    BY <1>8, <2>1, Mapped DEF TypeInv
<1>10. scopeResume' \in TaskSet /\ scopeResume'.mine = FALSE
  <2>1. scopeResume \in TaskSet
    BY DEF TypeInv
  <2>2. [scopeResume EXCEPT !.mine = FALSE] \in TaskSet /\ [scopeResume EXCEPT !.mine = FALSE].mine = FALSE
    BY <2>1 DEF TaskSet
  <2>3. NoResume.mine = FALSE
    BY DEF NoResume, Task
  <2>4. QED
    BY <1>1, <2>2, <2>3, NewTasks
<1>11. QueueInv'
  <2>1. \A i \in DOMAIN updates' : i > 1 => updates'[i].at = "new"
    BY <1>3, <1>6, <1>7, <1>4 DEF QueueInv
  <2>2. \A i \in DOMAIN effects' : i > 1 => effects'[i].at = "new"
    BY <1>8, <1>9 DEF QueueInv
  <2>3. updates # <<>> => updates'[1].at = updates[1].at
    BY <1>3, <1>4, <1>6
  <2>4. \A i \in DOMAIN effects' : OfUpdate(effects'[i]) => OfUpdate(effects[i])
    BY <1>8, <1>9 DEF OfUpdate
  <2>5. QED
    BY <1>6, <1>9, <2>1, <2>2, <2>3, <2>4 DEF QueueInv
<1>12. NewestInv'
  <2>1. ASSUME NEW kind \in {"name", "policy"}, u.kind # kind
        PROVE  Stale(kind)'
    <3>1. \A i \in DOMAIN updates' : updates'[i].kind = kind => ~updates'[i].mine
      BY <1>3, <1>4, <1>6, <1>7, <2>1
    <3>2. \A i \in DOMAIN effects' : effects'[i].kind = kind => ~effects'[i].mine
      BY <1>8, <1>9 DEF OfUpdate
    <3>3. QED
      BY <3>1, <3>2 DEF Stale
  <2>2. QED
    BY <1>10, <2>1 DEF NewestInv
<1>13. lost' \in BOOLEAN /\ (lost => lost') /\ (scopeResume.mine => lost')
  BY <1>1
<1>14. TypeInv'
  BY <1>1, <1>6, <1>9, <1>10, <1>13 DEF TypeInv, session, pauses, loop, revocation, manifest, window
<1>15. FirstIs("server", "stop") => FirstIs("server", "stop")'
  <2>1. FirstIs("server", "stop") => updates # <<>>
    BY DEF FirstIs, TypeInv
  <2>2. Len(updates') > 0
    BY <1>6
  <2>3. QED
    BY <1>3, <1>4, <1>6, <2>1, <2>2 DEF FirstIs
<1>16. LoopInv'
  BY <1>1, <1>13, <1>15 DEF LoopInv, Open, session, pauses, loop, revocation, window
<1>17. Owed(effects) => Owed(effects')
  BY <1>8, <1>9 DEF Owed
<1>18. Stuck' => Stuck /\ ~Kept(scopeResume)
  BY <1>1, <1>13 DEF Stuck, Open, Connected, session, pauses, loop, revocation, Kept
<1>19. DebtInv'
  BY <1>17, <1>18 DEF DebtInv, Debt
<1>20. ManifestInv'
  BY <1>1, ManifestKept
<1>21. QED
  BY <1>11, <1>12, <1>14, <1>16, <1>19, <1>20

LEMMA UpdateGone ==
  ASSUME TypeInv, QueueInv, updates # <<>>, updates[1].at = "new",
         updates' = Tail(updates), UNCHANGED effects
  PROVE  QueuesKept /\ DebtsKept
<1>1. /\ updates' \in Seq(UpdateSet) /\ DOMAIN updates' \subseteq Nat \ {0}
      /\ \A i \in DOMAIN updates' : i + 1 \in DOMAIN updates /\ updates'[i] = updates[i + 1]
  BY Dropped DEF TypeInv
<1>2. \A i \in DOMAIN effects : ~OfUpdate(effects[i])
  BY DEF QueueInv
<1>3. QueueInv'
  BY <1>1, <1>2 DEF QueueInv, OfUpdate
<1>4. ASSUME NEW kind, Stale(kind)
      PROVE  Stale(kind)'
  BY <1>1, <1>4 DEF Stale
<1>5. ~FirstIs("server", "stop")
  BY DEF FirstIs
<1>6. DebtsKept
  BY DEF DebtsKept, Owed, Called
<1>7. QED
  BY <1>1, <1>3, <1>4, <1>5, <1>6 DEF QueuesKept, TypeInv

(* The first update goes to its next stage. *)
LEMMA UpdateMoves ==
  ASSUME TypeInv, updates # <<>>, NEW at \in {"effect", "stop"},
         updates' = [updates EXCEPT ![1].at = at]
  PROVE  /\ updates' \in Seq(UpdateSet) /\ updates' # <<>> /\ Len(updates') > 0
         /\ DOMAIN updates' = DOMAIN updates /\ 1 \in DOMAIN updates
         /\ updates'[1].at = at
         /\ \A i \in DOMAIN updates : i # 1 => updates'[i].at = updates[i].at
         /\ \A i \in DOMAIN updates :
              updates'[i].kind = updates[i].kind /\ updates'[i].mine = updates[i].mine
<1>1. updates \in Seq(UpdateSet) /\ updates[1] \in UpdateSet
  BY DEF TypeInv
<1>2. PICK u : u = [updates[1] EXCEPT !.at = at]
  OBVIOUS
<1>3. /\ u \in UpdateSet /\ u.at = at
      /\ u.kind = updates[1].kind /\ u.mine = updates[1].mine
  BY <1>1, <1>2 DEF UpdateSet
<1>4. updates' = [updates EXCEPT ![1] = u]
  BY <1>2
<1>5. /\ updates' \in Seq(UpdateSet) /\ updates' # <<>> /\ 1 \in DOMAIN updates
      /\ DOMAIN updates' = DOMAIN updates /\ updates'[1] = u
      /\ \A i \in DOMAIN updates : i # 1 => updates'[i] = updates[i]
  BY <1>1, <1>3, <1>4, Headed
<1>6. Len(updates') > 0
  BY <1>5
<1>7. QED
  BY <1>3, <1>5, <1>6

LEMMA SaveModeStep ==
  ASSUME IInv, SaveMode
  PROVE  IInv'
<1> USE DEF IInv
<1>1. /\ UNCHANGED <<session, pauses, loop, revocation, manifest, effects, scopeResume, window, lost>>
      /\ updates # <<>> /\ updates[1].at = "new" /\ updates' = Tail(updates)
  BY HeadFacts DEF SaveMode, FirstIs
<1>2. QueuesKept /\ DebtsKept
  BY <1>1, UpdateGone
<1>3. QueueInv' /\ NewestInv' /\ ManifestInv'
  BY <1>1, <1>2, NewestKept, ManifestKept DEF QueuesKept
<1>4. TypeInv'
  BY <1>1, <1>2 DEF TypeInv, session, pauses, loop, revocation, manifest, window, QueuesKept
<1>5. LoopInv'
  BY <1>1, <1>2 DEF LoopInv, Open, session, pauses, loop, revocation, window, QueuesKept, FirstIs
<1>6. DebtInv'
  BY <1>1, <1>2, DebtStays DEF Stuck, Open, Connected, session, pauses, loop, revocation, window
<1>7. QED
  BY <1>3, <1>4, <1>5, <1>6

LEMMA QueueEffectStep ==
  ASSUME IInv, QueueEffect
  PROVE  IInv'
<1> USE DEF IInv
<1>1. /\ UNCHANGED <<session, pauses, loop, revocation, manifest, scopeResume, window, lost>>
      /\ updates # <<>> /\ updates[1].at = "new" /\ updates[1].kind \in {"name", "policy"}
  BY HeadFacts DEF QueueEffect
<1>2. ~FirstIs("server", "stop")
  BY <1>1 DEF FirstIs
<1>3. QueuesKept /\ DebtsKept
  <2>1. CASE updates' = Tail(updates) /\ effects' = effects
    BY <1>1, <2>1, UpdateGone
  <2>2. CASE /\ updates' = [updates EXCEPT ![1].at = "effect"]
             /\ effects' = Append(effects, [Task(updates[1].kind) EXCEPT !.mine = updates[1].mine,
                                                                         !.scope = updates[1].scope])
    <3>1. PICK t : t = [Task(updates[1].kind) EXCEPT !.mine = updates[1].mine,
                                                     !.scope = updates[1].scope]
      OBVIOUS
    <3>2. updates[1] \in UpdateSet /\ 1 \in DOMAIN updates
      BY <1>1, HeadFacts
    <3>3. t \in TaskSet /\ t.kind = updates[1].kind /\ t.at = "new" /\ t.mine = updates[1].mine
      BY <1>1, <3>1, <3>2 DEF Task, TaskSet, UpdateSet, Kinds, Stages
    <3>4. /\ effects' \in Seq(TaskSet)
          /\ DOMAIN effects = 1..Len(effects) /\ DOMAIN effects' = 1..(Len(effects) + 1)
          /\ Len(effects) \in Nat
          /\ \A i \in DOMAIN effects : i \in DOMAIN effects' /\ effects'[i] = effects[i]
          /\ effects'[Len(effects) + 1] = t
      BY <2>2, <3>1, <3>3, Appended DEF TypeInv
    <3>5. \A i \in DOMAIN effects' : i \in DOMAIN effects \/ (i = Len(effects) + 1 /\ effects'[i] = t)
      BY <3>4
    <3>6. /\ updates' \in Seq(UpdateSet) /\ updates' # <<>>
          /\ DOMAIN updates' = DOMAIN updates
          /\ updates'[1].at = "effect"
          /\ \A i \in DOMAIN updates : i # 1 => updates'[i].at = updates[i].at
          /\ \A i \in DOMAIN updates :
               updates'[i].kind = updates[i].kind /\ updates'[i].mine = updates[i].mine
      BY <1>1, <2>2, UpdateMoves
    <3>7. \A i \in DOMAIN effects : ~OfUpdate(effects[i])
      BY <1>1 DEF QueueInv
    <3>8. \A i \in DOMAIN effects' : OfUpdate(effects'[i]) => i = Len(effects) + 1
      BY <3>4, <3>5, <3>7
    <3>9. \A i \in DOMAIN updates' : i > 1 => updates'[i].at = "new"
      BY <3>6, HeadFacts DEF QueueInv
    <3>10. \A i \in DOMAIN effects' : i > 1 => effects'[i].at = "new"
      BY <3>3, <3>4, <3>5 DEF QueueInv
    <3>11. QueueInv'
      BY <3>6, <3>8, <3>9, <3>10 DEF QueueInv
    <3>12. ASSUME NEW kind, Stale(kind)
           PROVE  Stale(kind)'
      <4>1. \A i \in DOMAIN updates' : updates'[i].kind = kind => ~updates'[i].mine
        BY <3>6, <3>12 DEF Stale
      <4>2. t.kind = kind => ~t.mine
        BY <3>2, <3>3, <3>12 DEF Stale
      <4>3. \A i \in DOMAIN effects' : effects'[i].kind = kind => ~effects'[i].mine
        BY <3>4, <3>5, <3>12, <4>2 DEF Stale
      <4>4. QED
        BY <4>1, <4>3 DEF Stale
    <3>13. DebtsKept
      BY <3>4 DEF DebtsKept, Owed, Called
    <3>14. QED
      BY <1>2, <3>4, <3>6, <3>11, <3>12, <3>13 DEF QueuesKept
  <2>3. QED
    BY <2>1, <2>2 DEF QueueEffect
<1>4. QueueInv' /\ NewestInv' /\ ManifestInv'
  BY <1>1, <1>3, NewestKept, ManifestKept DEF QueuesKept
<1>5. TypeInv'
  BY <1>1, <1>3 DEF TypeInv, session, pauses, loop, revocation, manifest, window, QueuesKept
<1>6. LoopInv'
  BY <1>1, <1>2 DEF LoopInv, Open, session, pauses, loop, revocation, window
<1>7. DebtInv'
  BY <1>1, <1>3, DebtStays DEF Stuck, Open, Connected, session, pauses, loop, revocation, window
<1>8. QED
  BY <1>4, <1>5, <1>6, <1>7

LEMMA SaveServerStep ==
  ASSUME IInv, SaveServer
  PROVE  IInv'
<1> USE DEF IInv
<1>1. /\ UNCHANGED <<session, pauses, revocation, manifest, window, lost>>
      /\ updates # <<>> /\ updates[1].at = "new" /\ updates[1].kind = "server"
  BY HeadFacts DEF SaveServer, FirstIs
<1>2. CASE updates' = Tail(updates) /\ UNCHANGED <<loop, effects, scopeResume>>
  <2>1. QueuesKept /\ DebtsKept
    BY <1>1, <1>2, UpdateGone
  <2>2. QueueInv' /\ NewestInv' /\ ManifestInv'
    BY <1>1, <1>2, <2>1, NewestKept, ManifestKept DEF QueuesKept
  <2>3. TypeInv'
    BY <1>1, <1>2, <2>1 DEF TypeInv, session, pauses, loop, revocation, manifest, window, QueuesKept
  <2>4. LoopInv'
    BY <1>1, <1>2, <2>1
    DEF LoopInv, Open, session, pauses, loop, revocation, window, QueuesKept, FirstIs
  <2>5. DebtInv'
    BY <1>1, <1>2, <2>1, DebtStays
    DEF Stuck, Open, Connected, session, pauses, loop, revocation, window
  <2>6. QED
    BY <2>2, <2>3, <2>4, <2>5
<1>3. CASE /\ updates' = [updates EXCEPT ![1].at = "stop"]
           /\ Release /\ effects' = Unowned(effects) /\ cycle' = [cycle EXCEPT !.own = FALSE]
  <2>1. ctl' = Closed(ctl) /\ comp' = FALSE /\ scopeResume' = NoResume
    BY <1>3 DEF Release
  <2>2. /\ updates' \in Seq(UpdateSet) /\ updates' # <<>> /\ Len(updates') > 0
        /\ DOMAIN updates' = DOMAIN updates /\ 1 \in DOMAIN updates
        /\ updates'[1].at = "stop"
        /\ \A i \in DOMAIN updates : i # 1 => updates'[i].at = updates[i].at
        /\ \A i \in DOMAIN updates :
             updates'[i].kind = updates[i].kind /\ updates'[i].mine = updates[i].mine
    BY <1>1, <1>3, UpdateMoves
  <2>3. ASSUME NEW i \in DOMAIN effects
        PROVE  /\ effects'[i] \in TaskSet
               /\ effects'[i].kind = effects[i].kind /\ effects'[i].at = effects[i].at
               /\ effects'[i].mine => effects[i].mine
    <3>1. effects[i] \in TaskSet
      BY DEF TypeInv
    <3>2. QED
      BY <1>3, <3>1 DEF Unowned, TaskSet
  <2>4. effects' \in Seq(TaskSet) /\ DOMAIN effects' = DOMAIN effects
    <3>1. effects' = [i \in DOMAIN effects |-> effects'[i]]
      BY <1>3 DEF Unowned
    <3>2. QED
      BY <2>3, <3>1, Mapped DEF TypeInv
  <2>5. \A i \in DOMAIN effects : ~OfUpdate(effects[i])
    BY <1>1 DEF QueueInv
  <2>6. QueueInv'
    <3>1. \A i \in DOMAIN updates' : i > 1 => updates'[i].at = "new"
      BY <2>2, HeadFacts DEF QueueInv
    <3>2. \A i \in DOMAIN effects' : i > 1 => effects'[i].at = "new"
      BY <2>3, <2>4 DEF QueueInv
    <3>3. \A i \in DOMAIN effects' : ~OfUpdate(effects'[i])
      BY <2>3, <2>4, <2>5 DEF OfUpdate
    <3>4. QED
      BY <3>1, <3>2, <3>3 DEF QueueInv
  <2>7. ASSUME NEW kind, Stale(kind)
        PROVE  Stale(kind)'
    BY <2>2, <2>3, <2>4, <2>7 DEF Stale
  <2>8. NewestInv' /\ ManifestInv'
    BY <1>1, <2>1, <2>7, NewTasks, ManifestKept DEF NewestInv
  <2>9. cycle' \in CycleSet
    BY <1>3 DEF TypeInv, CycleSet
  <2>10. TypeInv'
    BY <1>1, <2>1, <2>2, <2>4, <2>9, NewTasks, Controllers
    DEF TypeInv, session, pauses, revocation, manifest, window
  <2>11. FirstIs("server", "stop")'
    BY <1>1, <2>2 DEF FirstIs
  <2>12. LoopInv'
    BY <1>1, <2>1, <2>11, Controllers DEF LoopInv, Open, session, pauses, revocation, window
  <2>13. ~Stuck'
    BY <2>1, Controllers DEF Stuck, Open
  <2>14. QED
    BY <2>6, <2>8, <2>10, <2>12, <2>13 DEF DebtInv
<1>4. QED
  BY <1>1, <1>2, <1>3 DEF SaveServer

-----------------------------------------------------------------------------
(* Steps of a cycle and of the window *)

LEMMA HydratedKeeps ==
  ASSUME TypeInv, ManifestInv, NEW current, Hydrated(current)
  PROVE  /\ ManifestInv'
         /\ scope' \in Nat /\ scopeDoc' \in Nat /\ covered' \in Nat
         /\ duty' \in BOOLEAN /\ dutyDoc' \in BOOLEAN
<1>1. /\ scope \in Nat /\ scopeDoc \in Nat /\ covered \in Nat
      /\ duty \in BOOLEAN /\ dutyDoc \in BOOLEAN /\ scope = scopeDoc /\ duty = dutyDoc
  BY DEF TypeInv, ManifestInv
<1>2. /\ UNCHANGED <<scope, scopeDoc>> /\ covered' = scope
      /\ \/ duty' = FALSE /\ dutyDoc' = FALSE
         \/ duty' = duty /\ dutyDoc' = dutyDoc
  BY DEF Hydrated
<1>3. /\ scope' \in Nat /\ scopeDoc' \in Nat /\ covered' \in Nat
      /\ scope' = scopeDoc' /\ covered' >= scopeDoc'
  BY <1>1, <1>2
<1>4. /\ duty' = dutyDoc'
      /\ duty' \in BOOLEAN /\ dutyDoc' \in BOOLEAN
  BY <1>1, <1>2, Zenon
<1>5. QED
  BY <1>3, <1>4 DEF ManifestInv, DutyCovers

LEMMA CycleHydratesStep ==
  ASSUME IInv, CycleHydrates
  PROVE  IInv'
<1> USE DEF IInv
<1>1. /\ UNCHANGED <<session, pauses, ctl, comp, revocation, queues, window, lost>>
      /\ Hydrated(Current)
      /\ cycle' = [cycle EXCEPT !.at = "work", !.client = client] \/ cycle' = Idle
  BY DEF CycleHydrates
<1>2. QueuesKept /\ DebtsKept
  BY <1>1, QueuesSame DEF queues
<1>3. QueueInv' /\ NewestInv'
  BY <1>1, <1>2, NewestKept DEF QueuesKept, queues
<1>4. cycle' \in CycleSet
  <2>1. [cycle EXCEPT !.at = "work", !.client = client] \in CycleSet
    BY DEF TypeInv, CycleSet
  <2>2. Idle \in CycleSet
    BY DEF Idle, CycleSet
  <2>3. QED
    BY <1>1, <2>1, <2>2
<1>5. /\ ManifestInv'
      /\ scope' \in Nat /\ scopeDoc' \in Nat /\ covered' \in Nat
      /\ duty' \in BOOLEAN /\ dutyDoc' \in BOOLEAN
  BY <1>1, HydratedKeeps
<1>6. TypeInv'
  BY <1>1, <1>4, <1>5 DEF TypeInv, session, pauses, revocation, queues, window
<1>7. LoopInv'
  BY <1>1 DEF LoopInv, Open, session, pauses, revocation, queues, window, FirstIs
<1>8. DebtInv'
  BY <1>1, <1>2, DebtStays DEF Stuck, Open, Connected, session, pauses, revocation, queues, window
<1>9. QED
  BY <1>3, <1>5, <1>6, <1>7, <1>8

LEMMA CycleRevokedStep ==
  ASSUME IInv, CycleRevoked
  PROVE  IInv'
<1> USE DEF IInv
<1>1. /\ UNCHANGED <<session, pauses, manifest, updates, window>>
      /\ effects' = Unowned(effects) /\ cycle' = [cycle EXCEPT !.own = FALSE]
      /\ Revoked(cycle.client)
  BY DEF CycleRevoked
<1>2. /\ cycle.client \in revokedClients /\ syncRevoked' = TRUE /\ revoking' = TRUE
      /\ ctl' = Closed(ctl) /\ comp' = FALSE /\ scopeResume' = NoResume
      /\ lost' = (lost \/ cycle.client # client)
  BY <1>1 DEF Revoked, Release
<1>3. QueuesKept
  BY <1>1, TasksMarked
<1>4. QueueInv' /\ NewestInv' /\ ManifestInv'
  BY <1>1, <1>2, <1>3, NewestKept, ManifestKept, NewTasks DEF QueuesKept
<1>5. cycle' \in CycleSet
  BY <1>1 DEF TypeInv, CycleSet
<1>6. lost' \in BOOLEAN
  BY <1>2
<1>7. TypeInv'
  BY <1>1, <1>2, <1>3, <1>5, <1>6, NewTasks, Controllers
  DEF TypeInv, session, pauses, manifest, window, QueuesKept
<1>8. client \in revokedClients \/ lost'
  BY <1>2
<1>9. LoopInv'
  BY <1>1, <1>2, <1>8, Controllers DEF LoopInv, Open, session, pauses, window
<1>10. ~Stuck'
  BY <1>2, Controllers DEF Stuck, Open
<1>11. QED
  BY <1>4, <1>7, <1>9, <1>10 DEF DebtInv

LEMMA AfterShowStep ==
  ASSUME IInv, AfterShow
  PROVE  IInv'
<1> USE DEF IInv
<1>1. /\ UNCHANGED <<session, pauses, loop, revocation, manifest, updates, scopeResume, hidden, lost>>
      /\ shown' = FALSE
      /\ \/ scopeResume.kind = "pending" /\ ~hidden /\ effects' = Append(effects, Task("visible"))
         \/ ~(scopeResume.kind = "pending" /\ ~hidden) /\ UNCHANGED effects
  BY DEF AfterShow
<1>2. /\ Task("visible") \in TaskSet /\ Task("visible").at = "new"
      /\ ~OfUpdate(Task("visible")) /\ Visiting(Task("visible"))
  BY NewTasks DEF OfUpdate, Visiting, Kinds
<1>3. QueuesKept /\ DebtsKept /\ (scopeResume.kind = "pending" /\ ~hidden => Called(effects'))
  <2>1. CASE UNCHANGED effects /\ ~(scopeResume.kind = "pending" /\ ~hidden)
    BY <1>1, <2>1, QueuesSame
  <2>2. CASE effects' = Append(effects, Task("visible"))
    BY <1>1, <1>2, <2>2, TaskAppended
  <2>3. QED
    BY <1>1, <2>1, <2>2
<1>4. QueueInv' /\ NewestInv' /\ ManifestInv'
  BY <1>1, <1>3, NewestKept, ManifestKept DEF QueuesKept
<1>5. TypeInv'
  BY <1>1, <1>3 DEF TypeInv, session, pauses, loop, revocation, manifest, QueuesKept
<1>6. LoopInv'
  BY <1>1, <1>3 DEF LoopInv, Open, session, pauses, loop, revocation, QueuesKept, FirstIs
<1>7. Stuck' => Stuck
  BY <1>1 DEF Stuck, Open, Connected, session, pauses, loop, revocation
<1>8. DebtInv'
  BY <1>1, <1>3, <1>7 DEF DebtInv, Debt, DebtsKept, Kept
<1>9. QED
  BY <1>4, <1>5, <1>6, <1>8

LEMMA ResumeAfterShowStep ==
  ASSUME IInv, ResumeAfterShow
  PROVE  IInv'
<1> USE DEF IInv
<1>1. /\ UNCHANGED <<session, pauses, comp, cycle, revocation, manifest, window, lost, updates>>
      /\ effects # <<>> /\ Head1.kind = "visible" /\ Head1.at = "new"
  BY HeadFacts DEF ResumeAfterShow, HeadIs, HeadEnds
<1>2. Head1 \in TaskSet /\ ~OfUpdate(Head1) /\ ~Resuming(Head1) /\ ~Changing(Head1)
  BY <1>1, HeadFacts DEF OfUpdate, Resuming, Changing
<1>3. CASE /\ scopeResume' = NoResume /\ ctl' = Resumed(ctl) /\ Connected
           /\ effects' = [i \in DOMAIN effects |->
                            IF i = 1 THEN [Head1 EXCEPT !.at = "recover"]
                            ELSE IF effects[i].kind = "visible"
                              THEN [effects[i] EXCEPT !.mine = FALSE] ELSE effects[i]]
  <2>1. ASSUME NEW i \in DOMAIN effects
        PROVE  /\ effects'[i] \in TaskSet
               /\ effects'[i].kind = effects[i].kind /\ (i > 1 => effects'[i].at = effects[i].at)
               /\ effects'[i].mine => effects[i].mine
    <3>1. effects[i] \in TaskSet
      BY DEF TypeInv
    <3>2. CASE i = 1
      BY <1>2, <1>3, <3>1, <3>2 DEF TaskSet, Stages, Head1
    <3>3. CASE i # 1
      BY <1>3, <3>1, <3>3 DEF TaskSet
    <3>4. QED
      BY <3>2, <3>3
  <2>2. QueuesKept
    <3>1. effects' = [i \in DOMAIN effects |-> effects'[i]]
      BY <1>3
    <3>2. QED
      BY <1>1, <2>1, <3>1, TasksFade
  <2>3. QueueInv' /\ NewestInv' /\ ManifestInv'
    BY <1>1, <1>3, <2>2, NewestKept, ManifestKept, NewTasks DEF QueuesKept
  <2>4. TypeInv'
    BY <1>1, <1>3, <2>2, NewTasks, Controllers
    DEF TypeInv, session, pauses, revocation, manifest, window, QueuesKept
  <2>5. LoopInv'
    BY <1>1, <1>3, <2>2, Controllers
    DEF LoopInv, Connected, Open, session, pauses, revocation, window, QueuesKept, FirstIs
  <2>6. ~Stuck'
    BY <1>3, Controllers DEF Stuck, Open
  <2>7. QED
    BY <2>3, <2>4, <2>5, <2>6 DEF DebtInv
<1>4. CASE /\ effects' = Tail(effects) /\ ctl' = ctl
           /\ \/ /\ scopeResume' = NoResume /\ ~hidden
                 /\ ~CanRun(scopeResume)
              \/ /\ scopeResume' = scopeResume
                 /\ ~(Head1.mine /\ scopeResume.kind = "pending" /\ ~hidden)
  <2>1. /\ QueuesKept
        /\ Owed(effects) => Owed(effects')
        /\ Called(effects) /\ ~Visiting(Head1) => Called(effects')
    BY <1>1, <1>2, <1>4, HeadGone
  <2>2. QueueInv' /\ NewestInv' /\ ManifestInv'
    BY <1>1, <1>4, <2>1, NewestKept, ManifestKept, NewTasks DEF QueuesKept
  <2>3. TypeInv'
    BY <1>1, <1>4, <2>1, NewTasks
    DEF TypeInv, session, pauses, revocation, manifest, window, QueuesKept
  <2>4. LoopInv'
    BY <1>1, <1>4, <2>1 DEF LoopInv, Open, session, pauses, revocation, window, QueuesKept, FirstIs
  <2>5. Stuck' => Stuck
    BY <1>1, <1>4 DEF Stuck, Open, Connected, session, pauses, revocation
  <2>6. ASSUME Stuck
        PROVE  Debt'
    <3>1. CASE scopeResume' = NoResume /\ ~hidden /\ ~CanRun(scopeResume)
      <4>1. ~Kept(scopeResume)
        BY <2>6, <3>1 DEF Kept, CanRun, OwnsTransition, Stuck
      <4>2. QED
        BY <2>1, <2>6, <4>1 DEF DebtInv, Debt
    <3>2. CASE /\ scopeResume' = scopeResume
               /\ ~(Head1.mine /\ scopeResume.kind = "pending" /\ ~hidden)
      BY <1>1, <2>1, <2>6, <3>2 DEF DebtInv, Debt, Kept, Visiting, window
    <3>3. QED
      BY <1>4, <3>1, <3>2
  <2>7. DebtInv'
    BY <2>5, <2>6 DEF DebtInv
  <2>8. QED
    BY <2>2, <2>3, <2>4, <2>7
<1>5. QED
  BY <1>3, <1>4 DEF ResumeAfterShow, HeadEnds, CanRun, OwnsTransition

-----------------------------------------------------------------------------
(* A device name *)

(* resumeControllerIfOwned resumes what the task still owns, or ends the task and its update. *)
LEMMA ResumeIfOwnedForms ==
  ASSUME TypeInv, QueueInv, effects # <<>>, NEW t \in TaskSet, t.kind = Head1.kind,
         t.mine => Head1.mine, OfUpdate(Head1), ResumeIfOwned(t)
  PROVE  /\ QueuesKept
         /\ \/ ctl' = Resumed(ctl) /\ Connected
            \/ /\ ctl' = ctl /\ ~(t.resume /\ t.own /\ t.comp /\ Connected)
               /\ Owed(effects) /\ ~Changing(Head1) => Owed(effects')
               /\ Called(effects) => Called(effects')
         /\ effects' # <<>> => effects'[1].at \in {"new", "recover"}
<1>1. ~Resuming(Head1) /\ ~Visiting(Head1)
  BY DEF OfUpdate, Resuming, Visiting
<1>2. CASE t.resume /\ t.own /\ t.comp /\ Connected
  <2>1. PICK r : r = [t EXCEPT !.at = "recover"]
    OBVIOUS
  <2>2. r \in TaskSet /\ r.kind = t.kind /\ r.mine = t.mine /\ r.at = "recover"
    BY <2>1 DEF TaskSet, Stages
  <2>3. ctl' = Resumed(ctl) /\ HeadBecomes(r) /\ UNCHANGED updates
    BY <1>2, <2>1 DEF ResumeIfOwned
  <2>4. QueuesKept /\ effects'[1] = r
    BY <2>2, <2>3, HeadChanges
  <2>5. QED
    BY <1>2, <2>2, <2>3, <2>4
<1>3. CASE ~(t.resume /\ t.own /\ t.comp /\ Connected)
  <2>1. ctl' = ctl /\ effects' = Tail(effects) /\ updates' = Tail(updates)
    BY <1>3 DEF ResumeIfOwned, UpdateEnds
  <2>2. QED
    BY <1>1, <1>3, <2>1, HeadGone
<1>4. QED
  BY <1>2, <1>3

LEMMA NameBeginsStep ==
  ASSUME IInv, NameBegins
  PROVE  IInv'
<1> USE DEF IInv
<1>1. /\ UNCHANGED <<session, pauses, cycle, revocation, manifest, scopeResume, window, lost>>
      /\ effects # <<>> /\ Head1.kind = "name" /\ Head1.at = "new"
  BY HeadFacts DEF NameBegins, HeadIs
<1>2. /\ Head1 \in TaskSet /\ OfUpdate(Head1)
      /\ ~Resuming(Head1) /\ ~Changing(Head1) /\ ~Visiting(Head1)
  BY <1>1, HeadFacts DEF OfUpdate, Resuming, Changing, Visiting
<1>3. CASE /\ ctl.on /\ ~syncRevoked
           /\ HeadBecomes([Head1 EXCEPT !.at = "wait", !.own = TRUE, !.comp = comp,
                                        !.resume = Connected])
           /\ ctl' = Paused(ctl) /\ UNCHANGED <<comp, updates>>
  <2>1. PICK t : t = [Head1 EXCEPT !.at = "wait", !.own = TRUE, !.comp = comp,
                                   !.resume = Connected]
    OBVIOUS
  <2>2. comp \in BOOLEAN /\ Connected \in BOOLEAN
    BY DEF TypeInv, Connected
  <2>3. /\ t \in TaskSet /\ t.kind = "name" /\ t.mine = Head1.mine /\ t.at = "wait"
        /\ t.own = TRUE /\ t.comp = comp /\ t.resume = Connected
    BY <1>1, <1>2, <2>1, <2>2 DEF TaskSet, Stages
  <2>4. QueuesKept /\ (Changing(t) => Owed(effects'))
    BY <1>1, <1>3, <2>1, <2>3, HeadChanges
  <2>5. QueueInv' /\ NewestInv' /\ ManifestInv'
    BY <1>1, <2>4, NewestKept, ManifestKept DEF QueuesKept
  <2>6. TypeInv'
    BY <1>1, <1>3, <2>4, Controllers
    DEF TypeInv, session, pauses, revocation, manifest, window, QueuesKept
  <2>7. LoopInv'
    BY <1>1, <1>3, <2>4, Controllers
    DEF LoopInv, Open, session, pauses, revocation, window, QueuesKept, FirstIs
  <2>8. ASSUME Stuck'
        PROVE  Debt'
    <3>1. Connected /\ Open
      BY <1>1, <1>3, <2>8, Controllers
      DEF Stuck, Open, Connected, session, pauses, revocation
    <3>2. comp
      BY <3>1 DEF LoopInv, Connected
    <3>3. Changing(t)
      BY <2>3, <3>1, <3>2 DEF Changing
    <3>4. QED
      BY <2>4, <3>3 DEF Debt
  <2>9. QED
    BY <2>5, <2>6, <2>7, <2>8 DEF DebtInv
<1>4. CASE /\ UpdateEnds
           /\ \/ ~ctl.on /\ Connected /\ ctl' = NewController(FALSE) /\ comp' = TRUE
              \/ UNCHANGED <<ctl, comp>>
  <2>1. QueuesKept /\ DebtsKept
    BY <1>1, <1>2, <1>4, HeadGone DEF UpdateEnds, DebtsKept
  <2>2. QueueInv' /\ NewestInv' /\ ManifestInv'
    BY <1>1, <2>1, NewestKept, ManifestKept DEF QueuesKept
  <2>3. ctl' \in ControllerSet /\ comp' \in BOOLEAN
    <3>1. ctl \in ControllerSet /\ comp \in BOOLEAN
      BY DEF TypeInv
    <3>2. NewController(FALSE) \in ControllerSet
      BY Controllers
    <3>3. QED
      BY <1>4, <3>1, <3>2
  <2>4. TypeInv'
    BY <1>1, <2>1, <2>3
    DEF TypeInv, session, pauses, revocation, manifest, window, QueuesKept
  <2>5. /\ NewController(FALSE).on /\ ~NewController(FALSE).closed /\ ~NewController(FALSE).paused
        /\ ~hidden => NewController(FALSE).polling
    BY Controllers
  <2>6. LoopInv'
    <3>1. CASE ~ctl.on /\ Connected /\ ctl' = NewController(FALSE) /\ comp' = TRUE
      BY <1>1, <2>5, <3>1
      DEF LoopInv, Open, Connected, session, pauses, revocation, window
    <3>2. CASE UNCHANGED <<ctl, comp>>
      BY <1>1, <2>1, <3>2
      DEF LoopInv, Open, session, pauses, revocation, window, QueuesKept, FirstIs
    <3>3. QED
      BY <1>4, <3>1, <3>2
  <2>7. Stuck' => Stuck
    BY <1>1, <1>4, <2>5 DEF Stuck, Open, Connected, session, pauses, revocation
  <2>8. DebtInv'
    BY <1>1, <2>1, <2>7, DebtStays DEF window
  <2>9. QED
    BY <2>2, <2>4, <2>6, <2>8
<1>5. QED
  BY <1>3, <1>4 DEF NameBegins

LEMMA NameAppliesStep ==
  ASSUME IInv, NameApplies
  PROVE  IInv'
<1> USE DEF IInv
<1>1. /\ UNCHANGED <<session, pauses, cycle, revocation, manifest, window, lost>>
      /\ effects # <<>> /\ Head1.kind = "name" /\ Head1.at = "wait"
      /\ scopeResume' = [scopeResume EXCEPT !.comp = @ /\ ~Head1.mine]
  BY HeadFacts DEF NameApplies, HeadIs
<1>2. /\ Head1 \in TaskSet /\ OfUpdate(Head1) /\ 1 \in DOMAIN effects
      /\ {Head1.mine, Head1.own, Head1.comp, Head1.resume} \subseteq BOOLEAN
  BY <1>1, HeadFacts DEF OfUpdate
<1>3. PICK t \in TaskSet :
        /\ t.kind = Head1.kind /\ t.mine = Head1.mine /\ ResumeIfOwned(t)
        /\ comp' = TRUE \/ comp' = comp
        /\ ~syncRevoked /\ Changing(Head1) => t.resume /\ t.own /\ t.comp
  <2>1. CASE Head1.mine /\ Head1.own /\ ~syncRevoked
    <3>1. comp' = TRUE /\ ResumeIfOwned([Head1 EXCEPT !.comp = TRUE])
      BY <2>1 DEF NameApplies
    <3>2. PICK t : t = [Head1 EXCEPT !.comp = TRUE]
      OBVIOUS
    <3>3. /\ t \in TaskSet /\ t.kind = Head1.kind /\ t.mine = Head1.mine
          /\ t.resume = Head1.resume /\ t.own = Head1.own /\ t.comp = TRUE
      BY <1>2, <3>2 DEF TaskSet
    <3>4. QED
      BY <3>1, <3>2, <3>3 DEF Changing
  <2>2. CASE ~(Head1.mine /\ Head1.own /\ ~syncRevoked)
    <3>1. comp' = comp /\ ResumeIfOwned(NotApplied(Head1))
      BY <2>2 DEF NameApplies
    <3>2. PICK t : t = NotApplied(Head1)
      OBVIOUS
    <3>3. /\ t \in TaskSet /\ t.kind = Head1.kind /\ t.mine = Head1.mine
          /\ t.resume = (Head1.resume /\ ~Head1.mine) /\ t.own = Head1.own /\ t.comp = Head1.comp
      BY <1>2, <3>2 DEF TaskSet, NotApplied
    <3>4. ~syncRevoked /\ Changing(Head1) => t.resume /\ t.own /\ t.comp
      BY <2>2, <3>3 DEF Changing
    <3>5. QED
      BY <3>1, <3>2, <3>3, <3>4
  <2>3. QED
    BY <2>1, <2>2
<1>4. /\ QueuesKept
      /\ \/ ctl' = Resumed(ctl) /\ Connected
         \/ /\ ctl' = ctl /\ ~(t.resume /\ t.own /\ t.comp /\ Connected)
            /\ Owed(effects) /\ ~Changing(Head1) => Owed(effects')
            /\ Called(effects) => Called(effects')
  BY <1>1, <1>2, <1>3, ResumeIfOwnedForms
<1>5. /\ scopeResume' \in TaskSet /\ scopeResume'.mine = scopeResume.mine
      /\ Kept(scopeResume) /\ ~Head1.mine => Kept(scopeResume')
  <2>1. scopeResume \in TaskSet
    BY DEF TypeInv
  <2>2. QED
    BY <1>1, <1>2, <2>1 DEF TaskSet, Kept
<1>6. Kept(scopeResume) => ~Head1.mine
  <2>1. Stale("name") => ~Head1.mine
    BY <1>1, <1>2 DEF Stale, Head1
  <2>2. QED
    BY <2>1 DEF NewestInv, Kept
<1>7. QueueInv' /\ NewestInv' /\ ManifestInv'
  BY <1>1, <1>4, <1>5, NewestKept, ManifestKept DEF QueuesKept
<1>8. comp' \in BOOLEAN
  BY <1>3 DEF TypeInv
<1>9. TypeInv'
  BY <1>1, <1>4, <1>5, <1>8, Controllers
  DEF TypeInv, session, pauses, revocation, manifest, window, QueuesKept
<1>10. LoopInv'
  BY <1>1, <1>3, <1>4, Controllers
  DEF LoopInv, Open, Connected, session, pauses, revocation, window, QueuesKept, FirstIs
<1>11. CASE ctl' = Resumed(ctl)
  BY <1>7, <1>9, <1>10, <1>11, Controllers DEF DebtInv, Stuck, Open
<1>12. CASE /\ ctl' = ctl /\ ~(t.resume /\ t.own /\ t.comp /\ Connected)
            /\ Owed(effects) /\ ~Changing(Head1) => Owed(effects')
            /\ Called(effects) => Called(effects')
  <2>1. Stuck' => Stuck
    BY <1>1, <1>12 DEF Stuck, Open, Connected, session, pauses, revocation
  <2>2. Stuck => ~Changing(Head1)
    BY <1>3, <1>12 DEF Stuck, Connected
  <2>3. DebtInv'
    BY <1>1, <1>5, <1>6, <1>12, <2>1, <2>2, DebtStays DEF DebtsKept, window
  <2>4. QED
    BY <1>7, <1>9, <1>10, <2>3
<1>13. QED
  BY <1>4, <1>11, <1>12

-----------------------------------------------------------------------------
(* A settings policy *)

(* The end of a transition, with what it leaves of the invariant whatever it did to the manifest:  *)
(* the controller is resumed, or the step says that it is lost, or somebody else owes the resume.  *)
LEMMA ResumeNowKeeps ==
  ASSUME IInv, effects # <<>>, Head1.kind = "policy", Head1.at \in {"wait", "hydrate", "flush"},
         ResumeNow(Head1), UNCHANGED <<session, pauses, comp, cycle, revocation, window>>
  PROVE  /\ QueueInv' /\ NewestInv' /\ LoopInv' /\ DebtInv'
         /\ updates' \in Seq(UpdateSet) /\ effects' \in Seq(TaskSet) /\ scopeResume' \in TaskSet
         /\ ctl' \in ControllerSet /\ lost' \in BOOLEAN
         /\ effects' # <<>> => effects'[1].at \in {"new", "recover"}
<1> USE DEF IInv
<1>1. /\ Head1 \in TaskSet /\ OfUpdate(Head1) /\ 1 \in DOMAIN effects
      /\ ~Resuming(Head1) /\ ~Visiting(Head1)
      /\ {Head1.mine, Head1.own, Head1.comp, Head1.resume, Head1.live} \subseteq BOOLEAN
  BY HeadFacts DEF OfUpdate, Resuming, Visiting
<1>2. PICK t : t = [Head1 EXCEPT !.resume = @ /\ CanRun(Head1)]
  OBVIOUS
<1>3. /\ ResumeIfOwned(t) /\ scopeResume' = scopeResume
      /\ lost' = (lost \/ (Head1.resume /\ (~Head1.mine \/ (OwnsTransition(Head1) /\ hidden))))
  BY <1>2 DEF ResumeNow
<1>4. /\ t \in TaskSet /\ t.kind = Head1.kind /\ t.mine = Head1.mine
      /\ t.resume = (Head1.resume /\ CanRun(Head1)) /\ t.own = Head1.own /\ t.comp = Head1.comp
  BY <1>1, <1>2 DEF TaskSet
<1>5. /\ QueuesKept
      /\ \/ ctl' = Resumed(ctl) /\ Connected
         \/ /\ ctl' = ctl /\ ~(t.resume /\ t.own /\ t.comp /\ Connected)
            /\ Owed(effects) /\ ~Changing(Head1) => Owed(effects')
            /\ Called(effects) => Called(effects')
      /\ effects' # <<>> => effects'[1].at \in {"new", "recover"}
  BY <1>1, <1>3, <1>4, ResumeIfOwnedForms
<1>6. QueueInv' /\ NewestInv'
  BY <1>3, <1>5, NewestKept DEF QueuesKept
<1>7. /\ lost' \in BOOLEAN /\ (lost => lost')
      /\ Head1.resume /\ (~Head1.mine \/ (OwnsTransition(Head1) /\ hidden)) => lost'
  BY <1>3
<1>8. ctl' \in ControllerSet
  BY <1>5, Controllers
<1>9. LoopInv'
  BY <1>5, <1>7, Controllers
  DEF LoopInv, Open, Connected, session, pauses, revocation, window, QueuesKept, FirstIs
<1>10. DebtInv'
  <2>1. CASE ctl' = Resumed(ctl)
    BY <2>1, Controllers DEF DebtInv, Stuck, Open
  <2>2. CASE /\ ctl' = ctl /\ ~(t.resume /\ t.own /\ t.comp /\ Connected)
             /\ Owed(effects) /\ ~Changing(Head1) => Owed(effects')
             /\ Called(effects) => Called(effects')
    <3>1. Stuck' => /\ Stuck
                    /\ ~(Head1.resume /\ (~Head1.mine \/ (OwnsTransition(Head1) /\ hidden)))
      BY <1>7, <2>2 DEF Stuck, Open, Connected, session, pauses, revocation
    <3>2. Stuck' => ~Changing(Head1)
      BY <1>4, <2>2, <3>1 DEF Changing, CanRun, OwnsTransition, Stuck
    <3>3. QED
      BY <1>3, <2>2, <3>1, <3>2, DebtStays DEF DebtsKept, window
  <2>3. QED
    BY <1>5, <2>1, <2>2
<1>11. scopeResume' \in TaskSet
  BY <1>3 DEF TypeInv
<1>12. QED
  BY <1>5, <1>6, <1>7, <1>8, <1>9, <1>10, <1>11 DEF QueuesKept

LEMMA PolicyEndsKeeps ==
  ASSUME IInv, effects # <<>>, Head1.kind = "policy", Head1.at \in {"wait", "hydrate", "flush"},
         PolicyEnds(Head1) \/ ResumeNow(Head1),
         UNCHANGED <<session, pauses, comp, cycle, revocation, window>>
  PROVE  /\ QueueInv' /\ NewestInv' /\ LoopInv' /\ DebtInv'
         /\ updates' \in Seq(UpdateSet) /\ effects' \in Seq(TaskSet) /\ scopeResume' \in TaskSet
         /\ ctl' \in ControllerSet /\ lost' \in BOOLEAN
         /\ effects' # <<>> => effects'[1].at \in {"new", "recover"}
<1> USE DEF IInv
<1>1. /\ Head1 \in TaskSet /\ OfUpdate(Head1) /\ 1 \in DOMAIN effects
      /\ ~Resuming(Head1) /\ ~Visiting(Head1)
      /\ {Head1.mine, Head1.own, Head1.comp, Head1.resume, Head1.live} \subseteq BOOLEAN
  BY HeadFacts DEF OfUpdate, Resuming, Visiting
<1>2. CASE PolicyEnds(Head1) /\ Head1.resume /\ OwnsTransition(Head1) /\ hidden
  <2>1. /\ scopeResume' = [Head1 EXCEPT !.kind = "pending"]
        /\ ctl' = ctl /\ lost' = lost
        /\ effects' = Tail(effects) /\ updates' = Tail(updates)
    BY <1>2 DEF PolicyEnds, UpdateEnds
  <2>2. QueuesKept /\ (effects' # <<>> => effects'[1].at = "new")
    BY <1>1, <2>1, HeadGone
  <2>3. /\ scopeResume' \in TaskSet /\ scopeResume'.kind = "pending"
        /\ scopeResume'.mine = Head1.mine /\ scopeResume'.own = Head1.own
        /\ scopeResume'.live = Head1.live /\ scopeResume'.comp = Head1.comp
    BY <1>1, <2>1 DEF TaskSet, Kinds
  <2>4. Kept(scopeResume')
    BY <1>2, <2>3 DEF Kept, OwnsTransition
  <2>5. ~Stale("policy")
    BY <1>1, <1>2 DEF Stale, Head1, OwnsTransition
  <2>6. NewestInv' /\ QueueInv'
    BY <2>2, <2>5 DEF NewestInv, QueuesKept
  <2>7. LoopInv'
    BY <2>1, <2>2 DEF LoopInv, Open, session, pauses, revocation, window, QueuesKept, FirstIs
  <2>8. DebtInv'
    BY <1>2, <2>4 DEF DebtInv, Debt, window
  <2>9. QED
    BY <2>1, <2>2, <2>3, <2>6, <2>7, <2>8 DEF TypeInv, QueuesKept
<1>3. CASE ResumeNow(Head1)
  BY <1>3, ResumeNowKeeps
<1>4. QED
  BY <1>2, <1>3 DEF PolicyEnds

(* The transition goes on: what it owes, it still owes. *)
LEMMA PolicyGoesOn ==
  ASSUME IInv, effects # <<>>, Head1.kind = "policy", NEW t \in TaskSet, HeadBecomes(t),
         t.kind = Head1.kind, t.mine = Head1.mine, Changing(Head1) => Changing(t),
         UNCHANGED <<session, pauses, comp, cycle, revocation, window, ctl, scopeResume, updates, lost>>
  PROVE  /\ QueueInv' /\ NewestInv' /\ LoopInv' /\ DebtInv'
         /\ updates' \in Seq(UpdateSet) /\ effects' \in Seq(TaskSet) /\ scopeResume' \in TaskSet
         /\ ctl' \in ControllerSet /\ lost' \in BOOLEAN
<1> USE DEF IInv
<1>1. ~Resuming(Head1) /\ ~Visiting(Head1)
  BY DEF Resuming, Visiting
<1>2. QueuesKept /\ DebtsKept
  BY <1>1, HeadChanges DEF DebtsKept
<1>3. QueueInv' /\ NewestInv'
  BY <1>2, NewestKept DEF QueuesKept
<1>4. LoopInv'
  BY <1>2 DEF LoopInv, Open, session, pauses, revocation, window, QueuesKept, FirstIs
<1>5. DebtInv'
  BY <1>2, DebtStays DEF Stuck, Open, Connected, session, pauses, revocation, window
<1>6. QED
  BY <1>2, <1>3, <1>4, <1>5 DEF QueuesKept, TypeInv

LEMMA PolicyBeginsStep ==
  ASSUME IInv, PolicyBegins
  PROVE  IInv'
<1> USE DEF IInv
<1>1. /\ UNCHANGED <<session, pauses, comp, cycle, revocation, manifest, scopeResume, window, lost>>
      /\ effects # <<>> /\ Head1.kind = "policy" /\ Head1.at = "new"
  BY HeadFacts DEF PolicyBegins, HeadIs
<1>2. /\ Head1 \in TaskSet /\ OfUpdate(Head1)
      /\ ~Resuming(Head1) /\ ~Changing(Head1) /\ ~Visiting(Head1)
  BY <1>1, HeadFacts DEF OfUpdate, Resuming, Changing, Visiting
<1>3. /\ QueuesKept
      /\ \/ DebtsKept /\ ctl' = ctl
         \/ Owed(effects') /\ ctl' = Paused(ctl) /\ Connected
  <2>1. CASE Head1.mine
    <3>1. PICK started : started = [Head1 EXCEPT !.at = "wait", !.live = TRUE, !.own = ctl.on,
                                                 !.comp = comp]
      OBVIOUS
    <3>2. PICK t : t = [started EXCEPT !.resume = CanRun(started)]
      OBVIOUS
    <3>3. /\ HeadBecomes(t) /\ UNCHANGED updates
          /\ ctl' = IF CanRun(started) THEN Paused(ctl) ELSE ctl
      BY <2>1, <3>1, <3>2 DEF PolicyBegins
    <3>4. /\ started \in TaskSet /\ started.kind = "policy" /\ started.mine = Head1.mine
          /\ started.at = "wait" /\ started.live = TRUE
      <4>1. comp \in BOOLEAN /\ ctl.on \in BOOLEAN
        BY Controllers DEF TypeInv
      <4>2. QED
        BY <1>1, <1>2, <3>1, <4>1 DEF TaskSet, Stages
    <3>5. /\ t \in TaskSet /\ t.kind = "policy" /\ t.mine = Head1.mine /\ t.at = "wait"
          /\ t.live = TRUE /\ t.own = started.own /\ t.comp = started.comp
          /\ t.resume = CanRun(started)
      <4>1. CanRun(started) \in BOOLEAN
        BY DEF CanRun
      <4>2. QED
        BY <3>2, <3>4, <4>1 DEF TaskSet
    <3>6. CanRun(started) => Changing(t) /\ Connected
      BY <3>5 DEF CanRun, OwnsTransition, Changing
    <3>7. QueuesKept /\ DebtsKept /\ (Changing(t) => Owed(effects'))
      BY <1>1, <1>2, <3>3, <3>5, HeadChanges DEF DebtsKept
    <3>8. QED
      BY <3>3, <3>6, <3>7
  <2>2. CASE ~Head1.mine
    BY <1>1, <1>2, <2>2, HeadGone DEF PolicyBegins, UpdateEnds, DebtsKept
  <2>3. QED
    BY <2>1, <2>2
<1>4. QueueInv' /\ NewestInv' /\ ManifestInv'
  BY <1>1, <1>3, NewestKept, ManifestKept DEF QueuesKept
<1>5. TypeInv'
  BY <1>1, <1>3, Controllers DEF TypeInv, session, pauses, revocation, manifest, window, QueuesKept
<1>6. LoopInv'
  BY <1>1, <1>3, Controllers
  DEF LoopInv, Open, session, pauses, revocation, window, QueuesKept, FirstIs
<1>7. DebtInv'
  <2>1. CASE DebtsKept /\ ctl' = ctl
    BY <1>1, <2>1, DebtStays DEF Stuck, Open, Connected, session, pauses, revocation, window
  <2>2. CASE Owed(effects')
    BY <2>2 DEF DebtInv, Debt
  <2>3. QED
    BY <1>3, <2>1, <2>2
<1>8. QED
  BY <1>4, <1>5, <1>6, <1>7

LEMMA PolicySavesStep ==
  ASSUME IInv, PolicySaves
  PROVE  IInv'
<1> USE DEF IInv
<1>1. /\ UNCHANGED <<session, pauses, comp, cycle, revocation, window>>
      /\ effects # <<>> /\ Head1.kind = "policy" /\ Head1.at = "wait"
  BY HeadFacts DEF PolicySaves, HeadIs
<1>2. Head1 \in TaskSet /\ Head1.scope \in Nat /\ client \in Nat
  BY <1>1, HeadFacts DEF TypeInv
<1>3. /\ ManifestInv'
      /\ scope' \in Nat /\ scopeDoc' \in Nat /\ covered' \in Nat
      /\ duty' \in BOOLEAN /\ dutyDoc' \in BOOLEAN
  <2>1. /\ scope \in Nat /\ scopeDoc \in Nat /\ covered \in Nat
        /\ duty \in BOOLEAN /\ dutyDoc \in BOOLEAN /\ duty = dutyDoc /\ scope = scopeDoc
        /\ dutyDoc \/ covered >= scopeDoc
    BY DEF TypeInv, ManifestInv, DutyCovers
  <2>2. CASE UNCHANGED manifest
    BY <2>1, <2>2, ManifestKept DEF manifest
  <2>3. CASE /\ scopeDoc' = Head1.scope /\ scope' = Head1.scope
             /\ dutyDoc' = SavedDuty(Head1.scope) /\ duty' = dutyDoc'
             /\ covered' = IF Wider(Head1.scope) THEN covered
                           ELSE IF covered > Head1.scope THEN Head1.scope ELSE covered
    <3>1. dutyDoc' = (duty \/ Head1.scope > scope)
      BY <2>3 DEF SavedDuty, Wider
    <3>2. covered' \in Nat
      BY <1>2, <2>1, <2>3
    <3>3. ~(Head1.scope > scope) /\ covered >= scope => covered' >= Head1.scope
      BY <1>2, <2>1, <2>3 DEF Wider
    <3>4. ~dutyDoc' => covered' >= scopeDoc'
      BY <2>1, <2>3, <3>1, <3>3
    <3>5. dutyDoc' \in BOOLEAN /\ duty' \in BOOLEAN
      BY <2>3, <3>1
    <3>6. QED
      BY <1>2, <2>3, <3>2, <3>4, <3>5 DEF ManifestInv, DutyCovers
  <2>4. QED
    BY <2>2, <2>3 DEF PolicySaves
<1>4. /\ QueueInv' /\ NewestInv' /\ LoopInv' /\ DebtInv'
      /\ updates' \in Seq(UpdateSet) /\ effects' \in Seq(TaskSet) /\ scopeResume' \in TaskSet
      /\ ctl' \in ControllerSet /\ lost' \in BOOLEAN
  <2>1. CASE PolicyEnds(Head1) \/ ResumeNow(Head1)
    BY <1>1, <2>1, PolicyEndsKeeps
  <2>2. CASE /\ \E at \in {"hydrate", "flush"} :
                  HeadBecomes([Head1 EXCEPT !.at = at, !.client = client])
             /\ UNCHANGED <<ctl, scopeResume, updates, lost>>
    <3>1. PICK at \in {"hydrate", "flush"} :
            HeadBecomes([Head1 EXCEPT !.at = at, !.client = client])
      BY <2>2
    <3>2. PICK t : t = [Head1 EXCEPT !.at = at, !.client = client]
      OBVIOUS
    <3>3. /\ t \in TaskSet /\ t.kind = Head1.kind /\ t.mine = Head1.mine /\ t.at = at
          /\ t.resume = Head1.resume /\ t.own = Head1.own /\ t.comp = Head1.comp
          /\ t.live = Head1.live
      BY <1>2, <3>2 DEF TaskSet, Stages
    <3>4. Changing(Head1) => Changing(t)
      BY <1>1, <3>3 DEF Changing
    <3>5. QED
      BY <1>1, <2>2, <3>1, <3>2, <3>3, <3>4, PolicyGoesOn
  <2>3. QED
    BY <2>1, <2>2 DEF PolicySaves
<1>5. TypeInv'
  BY <1>1, <1>3, <1>4 DEF TypeInv, session, pauses, revocation, window
<1>6. QED
  BY <1>3, <1>4, <1>5

LEMMA PolicyPasses ==
  ASSUME IInv, PolicyHydrates \/ PolicyFlushes
  PROVE  IInv'
<1> USE DEF IInv
<1>1. /\ UNCHANGED <<session, pauses, comp, cycle, revocation, window>>
      /\ effects # <<>> /\ Head1.kind = "policy" /\ Head1.at \in {"hydrate", "flush"}
  BY HeadFacts DEF PolicyHydrates, PolicyFlushes, HeadIs
<1>2. Head1 \in TaskSet /\ client \in Nat
  BY <1>1, HeadFacts DEF TypeInv
<1>3. /\ ManifestInv'
      /\ scope' \in Nat /\ scopeDoc' \in Nat /\ covered' \in Nat
      /\ duty' \in BOOLEAN /\ dutyDoc' \in BOOLEAN
  <2>1. CASE PolicyHydrates
    BY <2>1, HydratedKeeps DEF PolicyHydrates
  <2>2. CASE PolicyFlushes
    <3>1. UNCHANGED manifest
      BY <2>2 DEF PolicyFlushes
    <3>2. QED
      BY <3>1, ManifestKept DEF manifest, TypeInv
  <2>3. QED
    BY <2>1, <2>2
<1>4. /\ QueueInv' /\ NewestInv' /\ LoopInv' /\ DebtInv'
      /\ updates' \in Seq(UpdateSet) /\ effects' \in Seq(TaskSet) /\ scopeResume' \in TaskSet
      /\ ctl' \in ControllerSet /\ lost' \in BOOLEAN
  <2>1. CASE PolicyEnds(Head1)
    BY <1>1, <2>1, PolicyEndsKeeps
  <2>2. CASE /\ HeadBecomes([Head1 EXCEPT !.at = "flush", !.client = client])
             /\ UNCHANGED <<ctl, scopeResume, updates, lost>>
    <3>1. PICK t : t = [Head1 EXCEPT !.at = "flush", !.client = client]
      OBVIOUS
    <3>2. /\ t \in TaskSet /\ t.kind = Head1.kind /\ t.mine = Head1.mine /\ t.at = "flush"
          /\ t.resume = Head1.resume /\ t.own = Head1.own /\ t.comp = Head1.comp
          /\ t.live = Head1.live
      BY <1>2, <3>1 DEF TaskSet, Stages
    <3>3. Changing(Head1) => Changing(t)
      BY <1>1, <3>2 DEF Changing
    <3>4. QED
      BY <1>1, <2>2, <3>1, <3>2, <3>3, PolicyGoesOn
  <2>3. QED
    BY <2>1, <2>2 DEF PolicyHydrates, PolicyFlushes
<1>5. TypeInv'
  BY <1>1, <1>3, <1>4 DEF TypeInv, session, pauses, revocation, window
<1>6. QED
  BY <1>3, <1>4, <1>5

LEMMA PolicyRevokedStep ==
  ASSUME IInv, PolicyRevoked
  PROVE  IInv'
<1> USE DEF IInv
<1>1. /\ UNCHANGED <<session, pauses, manifest, window>>
      /\ effects # <<>> /\ Head1.kind = "policy"
      /\ Revoked(Head1.client)
      /\ updates' = Tail(updates) /\ effects' = Unowned(Tail(effects))
      /\ cycle' = [cycle EXCEPT !.own = FALSE]
  BY HeadFacts DEF PolicyRevoked, HeadIs
<1>2. /\ Head1.client \in revokedClients /\ syncRevoked' = TRUE /\ revoking' = TRUE
      /\ ctl' = Closed(ctl) /\ comp' = FALSE /\ scopeResume' = NoResume
      /\ lost' = (lost \/ Head1.client # client)
  BY <1>1 DEF Revoked, Release
<1>3. PICK rest : rest = Tail(effects)
  OBVIOUS
<1>4. /\ rest \in Seq(TaskSet) /\ 1 \in DOMAIN effects /\ DOMAIN rest \subseteq Nat \ {0}
      /\ \A i \in DOMAIN rest : i + 1 \in DOMAIN effects /\ rest[i] = effects[i + 1]
  BY <1>1, <1>3, Dropped DEF TypeInv
<1>5. ASSUME NEW i \in DOMAIN rest
      PROVE  /\ effects'[i] \in TaskSet
             /\ effects'[i].kind = rest[i].kind /\ effects'[i].at = rest[i].at
             /\ effects'[i].mine => rest[i].mine
  <2>1. rest[i] \in TaskSet
    BY <1>4
  <2>2. effects' = Unowned(rest)
    BY <1>1, <1>3
  <2>3. QED
    BY <2>1, <2>2 DEF Unowned, TaskSet
<1>6. effects' \in Seq(TaskSet) /\ DOMAIN effects' = DOMAIN rest
  <2>1. effects' = [i \in DOMAIN rest |-> effects'[i]]
    BY <1>1, <1>3 DEF Unowned
  <2>2. QED
    BY <1>4, <1>5, <2>1, Mapped
<1>7. OfUpdate(Head1) /\ updates # <<>>
  BY <1>1, HeadFacts DEF OfUpdate
<1>8. /\ updates' \in Seq(UpdateSet) /\ DOMAIN updates' \subseteq Nat \ {0}
      /\ \A i \in DOMAIN updates' : i + 1 \in DOMAIN updates /\ updates'[i] = updates[i + 1]
  BY <1>1, <1>7, Dropped DEF TypeInv
<1>9. \A i \in DOMAIN rest : ~OfUpdate(rest[i])
  BY <1>4, <1>7 DEF QueueInv, Head1
<1>10. QueueInv'
  <2>1. \A i \in DOMAIN updates' : i > 1 => updates'[i].at = "new"
    BY <1>8 DEF QueueInv
  <2>2. \A i \in DOMAIN effects' : i > 1 => effects'[i].at = "new"
    BY <1>4, <1>5, <1>6 DEF QueueInv
  <2>3. \A i \in DOMAIN effects' : ~OfUpdate(effects'[i])
    BY <1>5, <1>6, <1>9 DEF OfUpdate
  <2>4. QED
    BY <2>1, <2>2, <2>3 DEF QueueInv
<1>11. ASSUME NEW kind, Stale(kind)
       PROVE  Stale(kind)'
  <2>1. \A i \in DOMAIN updates' : updates'[i].kind = kind => ~updates'[i].mine
    BY <1>8, <1>11 DEF Stale
  <2>2. \A i \in DOMAIN effects' : effects'[i].kind = kind => ~effects'[i].mine
    BY <1>4, <1>5, <1>6, <1>11 DEF Stale
  <2>3. QED
    BY <2>1, <2>2 DEF Stale
<1>12. NewestInv' /\ ManifestInv'
  BY <1>1, <1>2, <1>11, NewTasks, ManifestKept DEF NewestInv
<1>13. cycle' \in CycleSet
  BY <1>1 DEF TypeInv, CycleSet
<1>14. lost' \in BOOLEAN /\ (client \in revokedClients \/ lost')
  BY <1>2
<1>15. TypeInv'
  BY <1>1, <1>2, <1>6, <1>8, <1>13, <1>14, NewTasks, Controllers
  DEF TypeInv, session, pauses, manifest, window
<1>16. LoopInv'
  BY <1>1, <1>2, <1>14, Controllers DEF LoopInv, Open, session, pauses, window
<1>17. ~Stuck'
  BY <1>2, Controllers DEF Stuck, Open
<1>18. QED
  BY <1>10, <1>12, <1>15, <1>16, <1>17 DEF DebtInv

-----------------------------------------------------------------------------
(* Start and restart *)

(* A plugin that has just loaded: empty queues, and a controller as the journal says, or none.     *)
LEMMA Loaded ==
  ASSUME TypeInv', ManifestInv', updates' = <<>>, effects' = <<>>, scopeResume' = NoResume,
         syncRevoked' = FALSE,
         \/ /\ ctl'.on /\ ~ctl'.closed /\ ctl'.paused = syncPaused' /\ comp'
            /\ ~syncPaused' /\ ~hidden' => ctl'.polling
         \/ ctl' = NoController /\ status' # "connected"
  PROVE  IInv'
<1>1. QueueInv'
  BY DEF QueueInv
<1>2. NewestInv'
  BY DEF NewestInv, Stale
<1>3. ~NoController.on
  BY DEF NoController
<1>4. LoopInv'
  BY <1>3 DEF LoopInv, Open
<1>5. DebtInv'
  BY <1>3 DEF DebtInv, Stuck, Open, Connected
<1>6. QED
  BY <1>1, <1>2, <1>4, <1>5 DEF IInv

LEMMA RestartStep ==
  ASSUME IInv, Restart
  PROVE  IInv'
<1> USE DEF IInv
<1>1. /\ status' \in {"connected", "reconnect"}
      /\ syncPaused' = pausedDoc /\ scope' = scopeDoc /\ duty' = dutyDoc
      /\ pausing' = "no" /\ syncRevoked' = FALSE /\ revoking' = FALSE
      /\ comp' = (status' = "connected") /\ cycle' = Idle
      /\ ctl' = IF status' = "connected" THEN NewController(pausedDoc) ELSE NoController
      /\ updates' = <<>> /\ effects' = <<>> /\ scopeResume' = NoResume
      /\ shown' = FALSE /\ lost' = FALSE
      /\ UNCHANGED <<client, revokedClients, pausedDoc, scopeDoc, dutyDoc, covered, hidden>>
  BY DEF Restart
<1>2. ManifestInv'
  BY <1>1 DEF ManifestInv, DutyCovers
<1>3. cycle' \in CycleSet
  BY <1>1 DEF Idle, CycleSet
<1>4. pausedDoc \in BOOLEAN
  BY DEF TypeInv
<1>5. ctl' \in ControllerSet
  BY <1>1, <1>4, Controllers
<1>6. comp' \in BOOLEAN
  BY <1>1
<1>7. TypeInv'
  <2>1. updates' \in Seq(UpdateSet) /\ effects' \in Seq(TaskSet) /\ scopeResume' \in TaskSet
    BY <1>1, NewTasks
  <2>2. /\ {syncPaused', pausedDoc', syncRevoked', revoking', duty', dutyDoc', hidden', shown', lost'}
             \subseteq BOOLEAN
        /\ {scope', scopeDoc', covered'} \subseteq Nat /\ client' \in Nat
    BY <1>1, <1>4 DEF TypeInv
  <2>3. /\ status' \in {"connected", "connecting", "reconnect", "disconnected"}
        /\ pausing' \in {"no", "own", "orphan"}
    BY <1>1
  <2>4. QED
    BY <1>3, <1>5, <1>6, <2>1, <2>2, <2>3 DEF TypeInv
<1>8. CASE status' = "connected"
  <2>1. comp' /\ ctl' = NewController(pausedDoc)
    BY <1>1, <1>8
  <2>2. /\ ctl'.on /\ ~ctl'.closed /\ ctl'.paused = pausedDoc
        /\ ~pausedDoc /\ ~hidden => ctl'.polling
    BY <1>4, <2>1, Controllers
  <2>3. QED
    BY <1>1, <1>2, <1>7, <2>1, <2>2, Loaded
<1>9. CASE status' # "connected"
  BY <1>1, <1>2, <1>7, <1>9, Loaded
<1>10. QED
  BY <1>8, <1>9

LEMMA InitIInv ==
  Init => IInv
<1> SUFFICES ASSUME Init PROVE IInv
  OBVIOUS
<1>1. ctl \in ControllerSet /\ ctl.on /\ ~ctl.closed /\ ~ctl.paused /\ ctl.polling
  BY DEF Init, NewController, ControllerSet
<1>2. cycle \in CycleSet
  BY DEF Init, Idle, CycleSet
<1>3. TypeInv
  <2>1. updates \in Seq(UpdateSet) /\ effects \in Seq(TaskSet) /\ scopeResume \in TaskSet
    BY NewTasks DEF Init
  <2>2. /\ {syncPaused, pausedDoc, syncRevoked, revoking, comp, duty, dutyDoc, hidden, shown, lost}
             \subseteq BOOLEAN
        /\ {scope, scopeDoc, covered} \subseteq Nat /\ client \in Nat
    <3>1. {scope, scopeDoc, covered} \subseteq Nat /\ client \in Nat
      BY DEF Init
    <3>2. {syncPaused, pausedDoc, syncRevoked, revoking, comp} \subseteq BOOLEAN
      BY DEF Init
    <3>3. {duty, dutyDoc, hidden, shown, lost} \subseteq BOOLEAN
      BY DEF Init
    <3>4. QED
      BY <3>1, <3>2, <3>3
  <2>3. /\ status \in {"connected", "connecting", "reconnect", "disconnected"}
        /\ pausing \in {"no", "own", "orphan"}
    BY DEF Init
  <2>4. QED
    BY <1>1, <1>2, <2>1, <2>2, <2>3 DEF TypeInv
<1>4. QueueInv /\ NewestInv
  BY DEF Init, QueueInv, NewestInv, Stale
<1>5. ManifestInv
  <2>1. covered >= scopeDoc /\ scope = scopeDoc
    BY DEF Init
  <2>2. duty = dutyDoc
    BY DEF Init
  <2>3. QED
    BY <2>1, <2>2 DEF ManifestInv, DutyCovers
<1>6. LoopInv /\ DebtInv
  BY <1>1 DEF Init, LoopInv, DebtInv, Stuck, Open
<1>7. QED
  BY <1>3, <1>4, <1>5, <1>6 DEF IInv

LEMMA AskFacts ==
  ASSUME AskName \/ AskServer \/ AskMode \/ AskPolicy
  PROVE  \E u \in UpdateSet : u.at = "new" /\ Asks(u)
<1>1. \A kind \in {"name", "server", "mode", "policy"}, to \in Nat :
        Update(kind, to) \in UpdateSet /\ Update(kind, to).at = "new"
  BY DEF Update, UpdateSet
<1>2. Scopes \subseteq Nat
  <2>1. Cardinality(Scopes) \in Nat
    BY ControlAssumption, FS_CardinalityType
  <2>2. QED
    BY <2>1, ControlAssumption
<1>3. PICK kind \in {"name", "server", "mode", "policy"}, to \in Nat : Asks(Update(kind, to))
  BY <1>2 DEF AskName, AskServer, AskMode, AskPolicy
<1>4. QED
  BY <1>1, <1>3

(* The inductive invariant of the lifecycle. *)
LEMMA NextIInv ==
  IInv /\ [Next]_vars => IInv'
<1> SUFFICES ASSUME IInv, [Next]_vars PROVE IInv'
  OBVIOUS
<1>1. CASE Promptly
  BY <1>1, RevocationSettlesStep, DisposePausedStep, ReplaceSessionStep, ResumeSteps, RecoveredStep,
     NameBeginsStep, NameAppliesStep, PolicyBeginsStep, PolicySavesStep, ResumeAfterShowStep,
     QuietSteps
  DEF Promptly
<1>2. CASE Session
  BY <1>2, QuietSteps, ConnectedSteps DEF Session
<1>3. CASE Owner
  <2>1. CASE AskName \/ AskServer \/ AskMode \/ AskPolicy
    BY <2>1, AskFacts, AskSteps
  <2>2. CASE Pause \/ Resume \/ Hide \/ Show
    BY <2>2, PauseStep, PauseResumeSteps, QuietSteps
  <2>3. QED
    BY <1>3, <2>1, <2>2 DEF Owner
<1>4. CASE Waited
  BY <1>4, QuietSteps, CycleHydratesStep, CycleRevokedStep, PauseResumeSteps, ResumePersistsStep,
     SaveModeStep, QueueEffectStep, SaveServerStep, PolicyPasses, PolicyRevokedStep, AfterShowStep
  DEF Waited
<1>5. CASE Restart
  BY <1>5, RestartStep
<1>6. CASE UNCHANGED vars
  <2>1. UNCHANGED <<session, pauses, loop, revocation, manifest, queues, window, lost, bounds>>
    BY <1>6 DEF vars
  <2>2. QueuesKept /\ DebtsKept
    BY <2>1, QueuesSame DEF queues, IInv
  <2>3. TypeInv'
    BY <2>1 DEF IInv, TypeInv, session, pauses, loop, revocation, manifest, queues, window
  <2>4. LoopInv'
    BY <2>1 DEF IInv, LoopInv, Open, session, pauses, loop, revocation, queues, window, FirstIs
  <2>5. QueueInv' /\ NewestInv' /\ ManifestInv'
    BY <2>1, <2>2, NewestKept, ManifestKept DEF IInv, QueuesKept, queues
  <2>6. DebtInv'
    BY <2>1, <2>2, DebtStays
    DEF IInv, Stuck, Open, Connected, session, pauses, loop, revocation, queues, window
  <2>7. QED
    BY <2>3, <2>4, <2>5, <2>6 DEF IInv
<1>7. QED
  BY <1>1, <1>2, <1>3, <1>4, <1>5, <1>6 DEF Next

LEMMA IInvHolds ==
  Spec => []IInv
<1>1. QED
  BY InitIInv, NextIInv, PTL DEF Spec

(* The stored duty to read the whole manifest outlives every order of policy changes, hydrations,  *)
(* failures and restarts (hydrateSettingsScope, changeSettingsSyncPolicy).                         *)
THEOREM DutyCoversHolds ==
  Spec => []DutyCovers
<1>1. IInv => DutyCovers
  BY DEF IInv, ManifestInv
<1>2. QED
  BY <1>1, IInvHolds, PTL

(* A connected device at rest that nobody paused, hid or revoked, and that took none of the named  *)
(* steps that lose it, runs its loop; a paused one is paused (resumeSync, reconfigureDeviceName,   *)
(* changeSettingsSyncPolicy, handleRevocation).                                                    *)
THEOREM ConnectedRunsHolds ==
  Spec => []ConnectedRuns
<1>1. IInv => ConnectedRuns
  <2> SUFFICES ASSUME IInv, AtRest, status = "connected", client \notin revokedClients,
                      ~hidden, ~lost
               PROVE  IF syncPaused THEN ctl.paused ELSE Running
    BY DEF ConnectedRuns
  <2>1. ctl.on /\ ~syncRevoked
    BY DEF IInv, LoopInv
  <2>2. ~FirstIs("server", "stop")
    BY DEF AtRest, FirstIs
  <2>3. Open
    BY <2>1, <2>2 DEF Open, IInv, LoopInv, AtRest
  <2>4. ~Owed(effects) /\ ~Called(effects)
    BY DEF AtRest, Owed, Called
  <2>5. ~Stuck
    BY <2>4 DEF IInv, DebtInv, Debt, AtRest
  <2>6. QED
    BY <2>1, <2>3, <2>5 DEF Running, Stuck, Connected, Open, IInv, LoopInv, AtRest
<1>2. QED
  BY <1>1, IInvHolds, PTL

-----------------------------------------------------------------------------
(* What a paused plugin starts *)

(* The head of the effect queue begins to read or publish. *)
Starts == ~TaskWorks /\ TaskWorks'

LEMMA QueueStartsNothing ==
  ASSUME TypeInv, QueueInv,
         \/ UNCHANGED effects
         \/ \E t : effects' = Append(effects, t) /\ t \in TaskSet /\ t.at = "new"
         \/ effects # <<>> /\ effects' = Tail(effects)
         \/ effects # <<>> /\ \E t \in TaskSet : HeadBecomes(t) /\ ~Works(t)
         \/ effects' = <<>>
         \/ effects' # <<>> => effects'[1].at \in {"new", "recover"}
         \/ /\ effects' = [i \in DOMAIN effects |-> effects'[i]]
            /\ \A i \in DOMAIN effects : effects'[i].at \in {effects[i].at, "recover"}
  PROVE  ~Starts
<1>1. effects \in Seq(TaskSet)
  BY DEF TypeInv
<1>2. CASE UNCHANGED effects
  BY <1>2 DEF Starts, TaskWorks, Head1
<1>3. CASE \E t : effects' = Append(effects, t) /\ t \in TaskSet /\ t.at = "new"
  <2>1. PICK t : effects' = Append(effects, t) /\ t \in TaskSet /\ t.at = "new"
    BY <1>3
  <2>2. CASE effects = <<>>
    <3>1. effects'[1] = t
      BY <1>1, <2>1, <2>2
    <3>2. QED
      BY <2>1, <3>1 DEF Starts, TaskWorks, Head1, Works
  <2>3. CASE effects # <<>>
    <3>1. effects'[1] = effects[1] /\ Len(effects) > 0
      BY <1>1, <2>1, <2>3
    <3>2. QED
      BY <3>1 DEF Starts, TaskWorks, Head1, Works
  <2>4. QED
    BY <2>2, <2>3
<1>4. CASE effects # <<>> /\ effects' = Tail(effects)
  <2>1. Len(effects') > 0 => effects'[1] = effects[2] /\ 2 \in DOMAIN effects
    BY <1>1, <1>4
  <2>2. Len(effects') > 0 => effects'[1].at = "new"
    BY <2>1 DEF QueueInv
  <2>3. QED
    BY <2>2 DEF Starts, TaskWorks, Head1, Works
<1>5. CASE effects # <<>> /\ \E t \in TaskSet : HeadBecomes(t) /\ ~Works(t)
  <2>1. PICK t \in TaskSet : HeadBecomes(t) /\ ~Works(t)
    BY <1>5
  <2>2. effects'[1] = t
    BY <1>1, <1>5, <2>1, Headed DEF HeadBecomes
  <2>3. QED
    BY <2>1, <2>2 DEF Starts, TaskWorks, Head1
<1>6. CASE effects' = <<>>
  BY <1>6 DEF Starts, TaskWorks
<1>7. CASE effects' # <<>> => effects'[1].at \in {"new", "recover"}
  <2>1. Len(<<>>) = 0
    OBVIOUS
  <2>2. QED
    BY <1>7, <2>1 DEF Starts, TaskWorks, Head1, Works
<1>8. CASE /\ effects' = [i \in DOMAIN effects |-> effects'[i]]
           /\ \A i \in DOMAIN effects : effects'[i].at \in {effects[i].at, "recover"}
  <2>1. Len(effects') = Len(effects)
    <3>1. DOMAIN effects' = 1..Len(effects) /\ Len(effects) \in Nat
      BY <1>1, <1>8
    <3>2. QED
      BY <3>1
  <2>2. Len(effects) > 0 => 1 \in DOMAIN effects
    BY <1>1
  <2>3. QED
    BY <1>8, <2>1, <2>2 DEF Starts, TaskWorks, Head1, Works
<1>9. QED
  BY <1>2, <1>3, <1>4, <1>5, <1>6, <1>7, <1>8

LEMMA MarksStartNothing ==
  ASSUME TypeInv, QueueInv,
         \/ effects' = Orphaned(effects)
         \/ effects' = Unowned(effects)
         \/ effects' = Superseded(effects)
  PROVE  ~Starts
<1>1. \A i \in DOMAIN effects : effects[i] \in TaskSet
  BY DEF TypeInv
<1>2. /\ effects' = [i \in DOMAIN effects |-> effects'[i]]
      /\ \A i \in DOMAIN effects : effects'[i].at = effects[i].at
  <2>1. CASE effects' = Orphaned(effects)
    BY <1>1, <2>1 DEF Orphaned, TaskSet
  <2>2. CASE effects' = Unowned(effects)
    BY <1>1, <2>2 DEF Unowned, TaskSet
  <2>3. CASE effects' = Superseded(effects)
    BY <1>1, <2>3 DEF Superseded, TaskSet
  <2>4. QED
    BY <2>1, <2>2, <2>3
<1>3. QED
  BY <1>2, QueueStartsNothing

LEMMA PromptStarts ==
  ASSUME IInv, Promptly
  PROVE  Starts => PolicySaves /\ CanRun(Head1)
<1> USE DEF IInv
<1>1. CASE RevocationSettles
  <2>1. effects' = Orphaned(effects) \/ UNCHANGED effects
    BY <1>1 DEF RevocationSettles, ControllerGone
  <2>2. QED
    BY <2>1, MarksStartNothing, QueueStartsNothing
<1>2. CASE ReplaceSession
  <2>1. effects' = Orphaned(effects) \/ UNCHANGED effects
    BY <1>2 DEF ReplaceSession, ControllerGone
  <2>2. QED
    BY <2>1, MarksStartNothing, QueueStartsNothing
<1>3. CASE DisposePaused \/ Recovered
  <2>1. effects # <<>> /\ effects' = Tail(effects)
    BY <1>3, HeadFacts DEF DisposePaused, Recovered, HeadIs, HeadEnds, UpdateEnds
  <2>2. QED
    BY <2>1, QueueStartsNothing
<1>4. CASE ResumeBegins \/ ResumeChecks
  <2>1. effects # <<>> /\ Head1 \in TaskSet
    BY <1>4, HeadFacts DEF ResumeBegins, ResumeChecks, HeadIs
  <2>2. \/ effects' = Tail(effects)
        \/ HeadBecomes([Head1 EXCEPT !.at = "wait", !.own = TRUE])
        \/ HeadBecomes([Head1 EXCEPT !.at = "persist"])
    BY <1>4 DEF ResumeBegins, ResumeChecks, HeadEnds
  <2>3. /\ [Head1 EXCEPT !.at = "wait", !.own = TRUE] \in TaskSet
        /\ [Head1 EXCEPT !.at = "persist"] \in TaskSet
        /\ ~Works([Head1 EXCEPT !.at = "wait", !.own = TRUE])
        /\ ~Works([Head1 EXCEPT !.at = "persist"])
    BY <2>1 DEF TaskSet, Stages, Works
  <2>4. QED
    BY <2>1, <2>2, <2>3, QueueStartsNothing
<1>5. CASE NameBegins
  <2>1. effects # <<>> /\ Head1 \in TaskSet
    BY <1>5, HeadFacts DEF NameBegins, HeadIs
  <2>2. \/ effects' = Tail(effects)
        \/ HeadBecomes([Head1 EXCEPT !.at = "wait", !.own = TRUE, !.comp = comp,
                                     !.resume = Connected])
    BY <1>5 DEF NameBegins, UpdateEnds
  <2>3. PICK t : t = [Head1 EXCEPT !.at = "wait", !.own = TRUE, !.comp = comp,
                                   !.resume = Connected]
    OBVIOUS
  <2>4. comp \in BOOLEAN /\ Connected \in BOOLEAN
    BY DEF TypeInv, Connected
  <2>5. t \in TaskSet /\ ~Works(t)
    BY <2>1, <2>3, <2>4 DEF TaskSet, Stages, Works
  <2>6. QED
    BY <2>1, <2>2, <2>3, <2>5, QueueStartsNothing
<1>6. CASE NameApplies
  <2>1. /\ effects # <<>> /\ Head1 \in TaskSet /\ OfUpdate(Head1)
        /\ {Head1.mine, Head1.own, Head1.comp, Head1.resume} \subseteq BOOLEAN
    BY <1>6, HeadFacts DEF NameApplies, HeadIs, OfUpdate
  <2>2. PICK t : /\ t \in {[Head1 EXCEPT !.comp = TRUE], NotApplied(Head1)}
                 /\ ResumeIfOwned(t)
    BY <1>6 DEF NameApplies
  <2>3. t \in TaskSet /\ t.kind = Head1.kind /\ t.mine = Head1.mine
    BY <2>1, <2>2 DEF TaskSet, NotApplied
  <2>4. effects' # <<>> => effects'[1].at \in {"new", "recover"}
    BY <2>1, <2>2, <2>3, ResumeIfOwnedForms
  <2>5. QED
    BY <2>4, QueueStartsNothing
<1>7. CASE PolicyBegins
  <2>1. effects # <<>> /\ Head1 \in TaskSet
    BY <1>7, HeadFacts DEF PolicyBegins, HeadIs
  <2>2. CASE Head1.mine
    <3>1. PICK started : started = [Head1 EXCEPT !.at = "wait", !.live = TRUE, !.own = ctl.on,
                                                 !.comp = comp]
      OBVIOUS
    <3>2. PICK t : t = [started EXCEPT !.resume = CanRun(started)]
      OBVIOUS
    <3>3. HeadBecomes(t)
      BY <1>7, <2>2, <3>1, <3>2 DEF PolicyBegins
    <3>4. comp \in BOOLEAN /\ ctl.on \in BOOLEAN /\ CanRun(started) \in BOOLEAN
      BY Controllers DEF TypeInv, CanRun
    <3>5. started \in TaskSet /\ started.at = "wait"
      BY <2>1, <3>1, <3>4 DEF TaskSet, Stages
    <3>6. t \in TaskSet /\ ~Works(t)
      BY <3>2, <3>4, <3>5 DEF TaskSet, Works
    <3>7. QED
      BY <2>1, <3>3, <3>6, QueueStartsNothing
  <2>3. CASE ~Head1.mine
    <3>1. effects' = Tail(effects)
      BY <1>7, <2>3 DEF PolicyBegins, UpdateEnds
    <3>2. QED
      BY <2>1, <3>1, QueueStartsNothing
  <2>4. QED
    BY <2>2, <2>3
<1>8. CASE PolicySaves
  <2>1. CASE PolicyEnds(Head1) \/ ResumeNow(Head1)
    <3>1. /\ UNCHANGED <<session, pauses, comp, cycle, revocation, window>>
          /\ effects # <<>> /\ Head1.kind = "policy" /\ Head1.at = "wait"
      BY <1>8, HeadFacts DEF PolicySaves, HeadIs
    <3>2. effects' # <<>> => effects'[1].at \in {"new", "recover"}
      BY <2>1, <3>1, PolicyEndsKeeps
    <3>3. QED
      BY <3>2, QueueStartsNothing
  <2>2. CASE ~PolicyEnds(Head1) /\ ~ResumeNow(Head1)
    BY <1>8, <2>2 DEF PolicySaves
  <2>3. QED
    BY <2>1, <2>2
<1>9. CASE ResumeAfterShow
  <2>1. effects # <<>> /\ Head1 \in TaskSet
    BY <1>9, HeadFacts DEF ResumeAfterShow, HeadIs
  <2>2. CASE effects' = Tail(effects)
    BY <2>1, <2>2, QueueStartsNothing
  <2>3. CASE effects' # Tail(effects)
    <3>1. effects' = [i \in DOMAIN effects |->
                        IF i = 1 THEN [Head1 EXCEPT !.at = "recover"]
                        ELSE IF effects[i].kind = "visible"
                          THEN [effects[i] EXCEPT !.mine = FALSE] ELSE effects[i]]
      BY <1>9, <2>3 DEF ResumeAfterShow, HeadEnds
    <3>2. \A i \in DOMAIN effects : effects[i] \in TaskSet
      BY DEF TypeInv
    <3>3. \A i \in DOMAIN effects : effects'[i].at \in {effects[i].at, "recover"}
      BY <2>1, <3>1, <3>2 DEF TaskSet
    <3>4. effects' = [i \in DOMAIN effects |-> effects'[i]]
      BY <3>1
    <3>5. QED
      BY <3>3, <3>4, QueueStartsNothing
  <2>4. QED
    BY <2>2, <2>3
<1>10. CASE StartCycle
  <2>1. UNCHANGED effects
    BY <1>10 DEF StartCycle, queues
  <2>2. QED
    BY <2>1, QueueStartsNothing
<1>11. QED
  BY <1>1, <1>2, <1>3, <1>4, <1>5, <1>6, <1>7, <1>8, <1>9, <1>10 DEF Promptly

LEMMA OtherStarts ==
  ASSUME IInv, Session \/ Owner \/ Waited \/ Restart \/ UNCHANGED vars
  PROVE  ~Starts
<1> USE DEF IInv
<1>1. CASE \/ StartCycle \/ CycleHydrates \/ CycleEnds \/ SaveMode \/ Hide \/ Show
           \/ Connect \/ Disconnects \/ RevokeAtService \/ UNCHANGED vars
  <2>1. UNCHANGED effects
    BY <1>1 DEF StartCycle, CycleHydrates, CycleEnds, SaveMode, Hide, Show, Connect, Disconnects,
                RevokeAtService, queues, vars
  <2>2. QED
    BY <2>1, QueueStartsNothing
<1>2. CASE CycleRevoked \/ SaveServer \/ Pause
  <2>1. \/ effects' = Unowned(effects)
        \/ effects' = Superseded(effects)
        \/ UNCHANGED effects
    BY <1>2 DEF CycleRevoked, SaveServer, Pause
  <2>2. QED
    BY <2>1, MarksStartNothing, QueueStartsNothing
<1>3. CASE SignedIn \/ ConnectEnds \/ PausePersists \/ Resume \/ AfterShow
  <2>1. \/ UNCHANGED effects
        \/ effects' = Append(effects, Task("resume"))
        \/ effects' = Append(effects, Task("visible"))
        \/ \E own \in BOOLEAN : effects' = Append(effects, [Task("dispose") EXCEPT !.own = own])
    BY <1>3 DEF SignedIn, ConnectEnds, TellsConnected, PausePersists, Resume, AfterShow, queues
  <2>2. \A own \in BOOLEAN : /\ [Task("dispose") EXCEPT !.own = own] \in TaskSet
                             /\ [Task("dispose") EXCEPT !.own = own].at = "new"
    BY DEF Task, TaskSet, Kinds, Stages
  <2>3. \A kind \in {"resume", "visible"} : Task(kind) \in TaskSet /\ Task(kind).at = "new"
    BY NewTasks DEF Kinds
  <2>4. QED
    BY <2>1, <2>2, <2>3, QueueStartsNothing
<1>4. CASE QueueEffect
  <2>1. CASE UNCHANGED effects
    BY <2>1, QueueStartsNothing
  <2>2. CASE ~UNCHANGED effects
    <3>1. updates # <<>> /\ updates[1].kind \in {"name", "policy"}
      BY <1>4, HeadFacts DEF QueueEffect
    <3>2. updates[1] \in UpdateSet
      BY <3>1, HeadFacts
    <3>3. PICK t : t = [Task(updates[1].kind) EXCEPT !.mine = updates[1].mine,
                                                     !.scope = updates[1].scope]
      OBVIOUS
    <3>4. t \in TaskSet /\ t.at = "new"
      BY <3>1, <3>2, <3>3 DEF Task, TaskSet, UpdateSet, Kinds, Stages
    <3>5. effects' = Append(effects, t)
      BY <1>4, <2>2, <3>3 DEF QueueEffect
    <3>6. QED
      BY <3>4, <3>5, QueueStartsNothing
  <2>3. QED
    BY <2>1, <2>2
<1>5. CASE AskName \/ AskServer \/ AskMode \/ AskPolicy
  <2>1. PICK u : effects' = [i \in DOMAIN effects |->
                               IF effects[i].kind \in {"name", "policy"} \/ u.kind = "policy"
                                 THEN [effects[i] EXCEPT !.mine = FALSE] ELSE effects[i]]
    BY <1>5, AskFacts DEF Asks
  <2>2. \A i \in DOMAIN effects : effects[i] \in TaskSet
    BY DEF TypeInv
  <2>3. \A i \in DOMAIN effects : effects'[i].at = effects[i].at
    BY <2>1, <2>2 DEF TaskSet
  <2>4. effects' = [i \in DOMAIN effects |-> effects'[i]]
    BY <2>1
  <2>5. QED
    BY <2>3, <2>4, QueueStartsNothing
<1>6. CASE ResumePersists
  <2>1. effects # <<>> /\ Head1 \in TaskSet
    BY <1>6, HeadFacts DEF ResumePersists, HeadIs
  <2>2. effects' = Tail(effects) \/ HeadBecomes([Head1 EXCEPT !.at = "recover"])
    BY <1>6 DEF ResumePersists, Resumes, HeadEnds
  <2>3. [Head1 EXCEPT !.at = "recover"] \in TaskSet /\ ~Works([Head1 EXCEPT !.at = "recover"])
    BY <2>1 DEF TaskSet, Stages, Works
  <2>4. QED
    BY <2>1, <2>2, <2>3, QueueStartsNothing
<1>7. CASE PolicyHydrates \/ PolicyFlushes \/ PolicyRevoked
  BY <1>7, HeadFacts
  DEF PolicyHydrates, PolicyFlushes, PolicyRevoked, HeadIs, Starts, TaskWorks, Works
<1>8. CASE Restart
  <2>1. effects' = <<>>
    BY <1>8 DEF Restart
  <2>2. QED
    BY <2>1, QueueStartsNothing
<1>9. QED
  BY <1>1, <1>2, <1>3, <1>4, <1>5, <1>6, <1>7, <1>8 DEF Session, Owner, Waited

(* Only a free loop starts a cycle. *)
LEMMA CycleStarts ==
  ASSUME IInv, [Next]_vars, CycleIdle, cycle'.at # "idle"
  PROVE  ~syncPaused /\ ~hidden
<1>1. cycle \in CycleSet
  BY DEF IInv, TypeInv
<1>2. CASE StartCycle
  BY <1>2 DEF StartCycle, IInv, LoopInv, Open, CycleIdle
<1>3. CASE /\ ~StartCycle
           /\ Promptly \/ Session \/ Owner
  <2>1. UNCHANGED cycle
    BY <1>3 DEF Promptly, RevocationSettles, DisposePaused, ReplaceSession, ResumeBegins, ResumeChecks,
                Recovered, NameBegins, NameApplies, PolicyBegins, PolicySaves, ResumeAfterShow,
                Session, Connect, SignedIn, ConnectEnds, TellsConnected, Disconnects, RevokeAtService,
                Owner, Pause, Resume, AskName, AskServer, AskMode, AskPolicy, Asks, Hide, Show, loop
  <2>2. QED
    BY <2>1 DEF CycleIdle
<1>4. CASE ~StartCycle /\ (Waited \/ Restart)
  <2>1. \/ UNCHANGED cycle
        \/ cycle' = Idle
        \/ cycle' = [cycle EXCEPT !.own = FALSE]
        \/ cycle.at = "hydrate"
    BY <1>4 DEF Waited, CycleHydrates, CycleEnds, CycleRevoked, PausePersists, ResumePersists, SaveMode,
                QueueEffect, SaveServer, PolicyHydrates, PolicyFlushes, PolicyRevoked, AfterShow,
                Restart, loop
  <2>2. [cycle EXCEPT !.own = FALSE].at = cycle.at /\ Idle.at = "idle"
    BY <1>1 DEF CycleSet, Idle
  <2>3. QED
    BY <2>1, <2>2 DEF CycleIdle
<1>5. CASE UNCHANGED vars
  BY <1>5 DEF vars, loop, CycleIdle
<1>6. QED
  BY <1>2, <1>3, <1>4, <1>5 DEF Next

(* Once the owner has paused, whatever resumes, updates and recoveries were on their way, nothing  *)
(* starts to read or to publish; nor does anything on a hidden mobile host (pause, resumeSync,     *)
(* changeSettingsSyncPolicy, DesktopSyncController).                                               *)
THEOREM PausedStartsNothingHolds ==
  Spec => PausedStartsNothing
<1>1. IInv /\ [Next]_vars =>
        [/\ CycleIdle /\ cycle'.at # "idle" => ~syncPaused /\ ~hidden
         /\ ~TaskWorks /\ TaskWorks' => ~syncPaused /\ ~hidden]_vars
  <2> SUFFICES ASSUME IInv, [Next]_vars
               PROVE  /\ CycleIdle /\ cycle'.at # "idle" => ~syncPaused /\ ~hidden
                      /\ ~TaskWorks /\ TaskWorks' => ~syncPaused /\ ~hidden
    OBVIOUS
  <2>1. CycleIdle /\ cycle'.at # "idle" => ~syncPaused /\ ~hidden
    BY CycleStarts
  <2>2. ~TaskWorks /\ TaskWorks' => ~syncPaused /\ ~hidden
    <3>1. CASE Promptly
      BY <3>1, PromptStarts DEF Starts, CanRun, OwnsTransition, Connected
    <3>2. CASE Session \/ Owner \/ Waited \/ Restart \/ UNCHANGED vars
      BY <3>2, OtherStarts DEF Starts
    <3>3. QED
      BY <3>1, <3>2 DEF Next
  <2>3. QED
    BY <2>1, <2>2
<1>2. QED
  BY <1>1, IInvHolds, PTL DEF PausedStartsNothing, Spec
=============================================================================
