------------------------------ MODULE VaultAlarm ------------------------------
(***************************************************************************)
(* One alarm slot drives three kinds of background work: retention, the     *)
(* active export and blob collection.  alarm() runs a batch of each and     *)
(* sets the slot again from what it saw; owner requests run collection      *)
(* batches and start exports meanwhile, and set the slot too.  The last     *)
(* setAlarm wins.                                                           *)
(*                                                                          *)
(* The slot holds how soon the alarm is due; an alarm that is set may fire  *)
(* at any moment.  An export is the number of steps it still needs and a    *)
(* collection the pages, then the batches, it still has: what they do is in *)
(* PackedExport and BlobCollection.  An action is what runs between two     *)
(* awaits of R2.                                                            *)
(***************************************************************************)
EXTENDS Integers

CONSTANTS
  OwnerCalls, \* collectBlobGcBatch requests that may be in flight
  Alarm,      \* the running alarm handler
  MaxSteps,   \* bound on the steps of an export
  Pages,      \* bound on the pages of a listing and the batches of marks
  MaxWork,    \* bound on exports started and collection runs
  MaxFailures \* bound on failures and restarts

ASSUME AlarmAssumption == Alarm \notin OwnerCalls /\ "free" \notin OwnerCalls \cup {Alarm}

Calls == OwnerCalls \cup {Alarm}

VARIABLES
  slot,      \* getAlarm(): "none", "now", "second", "minute" or "night"
  exporting, \* steps the active export needs; 0: there is none
  gc,        \* blob_gc_phase, with what is left of it
  claim,     \* blob_gc_delete_owner: "free", a call, or "unknown"
  call,      \* [Calls -> where a call waits for R2, and what it saw]
  started,   \* exports and runs started
  failures   \* failures and restarts

alarmVars == <<slot, exporting, gc, claim, call, started, failures>>

AtRest == [at |-> "rest"]

AlarmInit ==
  /\ slot = "night" /\ exporting = 0
  /\ gc = [phase |-> "idle", left |-> 0, run |-> 0] /\ claim = "free"
  /\ call = [c \in Calls |-> AtRest]
  /\ started = 0 /\ failures = 0

\* status.phase # idle and status.delete_state = idle.
GcMore(g, holder) == g.phase # "idle" /\ holder = "free"

\* Mutant: a collection waits for the night.
NextAlarm_NoCollection(exportsPending, more, gcMore) ==
  IF exportsPending THEN "second" ELSE IF more THEN "minute" ELSE "night"

\* What alarm() sets when its batches are done.
NextAlarm(exportsPending, more, gcMore) ==
  IF exportsPending THEN "second" ELSE IF more \/ gcMore THEN "minute" ELSE "night"

\* The end of a call, in the turn that leaves gc' and claim' and began with slot s.
Return(c, saw, s) ==
  /\ call' = [call EXCEPT ![c] = AtRest]
  /\ slot' = IF c = Alarm THEN NextAlarm(saw.pending, saw.more, GcMore(gc', claim'))
             ELSE IF GcMore(gc', claim') THEN "minute" ELSE s

\* collectBatch of collection g: up to its await, or to its end if it has none.
Collect(c, g, saw, s) ==
  \/ /\ g.phase = "marking"
     /\ gc' = g /\ slot' = s /\ UNCHANGED claim
     /\ call' = [call EXCEPT ![c] = [at |-> "list", saw |-> saw, gc |-> g]]
  \/ /\ g.phase = "deleting" /\ claim = "free" /\ g.left > 0
     /\ gc' = g /\ slot' = s /\ claim' = c
     /\ call' = [call EXCEPT ![c] = [at |-> "delete", saw |-> saw]]
  \/ /\ g.phase = "deleting" /\ claim = "free" /\ g.left = 0
     /\ gc' = [g EXCEPT !.phase = "idle"] /\ UNCHANGED claim
     /\ Return(c, saw, s)
  \/ /\ g.phase = "idle" \/ (g.phase = "deleting" /\ claim # "free")
     /\ gc' = g /\ UNCHANGED claim
     /\ Return(c, saw, s)

\* A page was listed: it counts if no other call has advanced the run.
EndList(c) ==
  /\ call[c].at = "list"
  /\ \/ /\ gc = call[c].gc
        /\ \/ gc.left > 1 /\ gc' = [gc EXCEPT !.left = @ - 1]
           \/ gc.left = 1 /\ \E n \in 0..Pages : gc' = [gc EXCEPT !.phase = "deleting", !.left = n]
        /\ UNCHANGED failures
     \/ gc # call[c].gc /\ UNCHANGED <<gc, failures>>
     \/ failures < MaxFailures /\ failures' = failures + 1 /\ UNCHANGED gc
  /\ UNCHANGED <<claim, exporting, started>>
  /\ Return(c, call[c].saw, slot)

\* Mutant: a failed delete keeps its claim.
Released_OnSuccess(c, deleted) == IF deleted THEN "free" ELSE c

\* clear and recordFailure both release the claim of a call that R2 answered.
Released(c, deleted) == "free"

EndDelete(c) ==
  /\ call[c].at = "delete"
  /\ \E deleted \in BOOLEAN :
       /\ gc' = [gc EXCEPT !.left = IF deleted THEN @ - 1 ELSE @]
       /\ claim' = Released(c, deleted)
       /\ failures' = IF deleted THEN failures ELSE failures + 1
  /\ failures' <= MaxFailures
  /\ UNCHANGED <<exporting, started>>
  /\ Return(c, call[c].saw, slot)

-----------------------------------------------------------------------------
(* Requests.                                                                *)

\* startPackedExport; a start while an export is active only hastens it.
StartExport ==
  /\ IF exporting > 0 THEN UNCHANGED <<started, exporting>>
     ELSE started < MaxWork /\ started' = started + 1 /\ exporting' \in 1..MaxSteps
  /\ slot' = "now"
  /\ UNCHANGED <<gc, claim, call, failures>>

\* collectBlobGcBatch, which starts a run if there is none.
OwnerCollects(c) ==
  /\ call[c] = AtRest
  /\ IF gc.phase # "idle"
     THEN UNCHANGED started /\ Collect(c, gc, AtRest, slot)
     ELSE /\ started < MaxWork /\ started' = started + 1
          /\ \E n \in 1..Pages :
               Collect(c, [phase |-> "marking", left |-> n, run |-> started'], AtRest, slot)
  /\ UNCHANGED <<exporting, failures>>

-----------------------------------------------------------------------------
(* alarm().                                                                 *)

\* Retention's batch and, without an export, the collection's up to its await.
FireAlarm ==
  /\ slot # "none" /\ call[Alarm] = AtRest
  /\ \E more \in BOOLEAN :
       \/ /\ exporting > 0
          /\ slot' = "none"
          /\ call' = [call EXCEPT ![Alarm] = [at |-> "export", more |-> more]]
          /\ UNCHANGED <<gc, claim>>
       \/ exporting = 0 /\ Collect(Alarm, gc, [pending |-> FALSE, more |-> more], "none")
  /\ UNCHANGED <<exporting, started, failures>>

\* The export's step is done: exportsPending is decided before collection awaits.
EndExportStep ==
  /\ call[Alarm].at = "export"
  /\ \/ exporting' \in {exporting - 1, 0} /\ UNCHANGED failures
     \/ failures < MaxFailures /\ failures' = failures + 1 /\ UNCHANGED exporting
  /\ Collect(Alarm, gc, [pending |-> exporting' > 0, more |-> call[Alarm].more], slot)
  /\ UNCHANGED started

\* The catch of alarm().
ThrowSets == "minute"

\* Retention throws before anything else is done, or the export's step does.
AlarmThrows ==
  /\ call[Alarm].at = "export" \/ (slot # "none" /\ call[Alarm] = AtRest)
  /\ failures < MaxFailures
  /\ failures' = failures + 1
  /\ slot' = ThrowSets
  /\ call' = [call EXCEPT ![Alarm] = AtRest]
  /\ UNCHANGED <<exporting, gc, claim, started>>

\* A new instance: markInterruptedDeleteUnknown, and the constructor's alarm.
Restart ==
  /\ \E c \in Calls : call[c] # AtRest
  /\ failures < MaxFailures /\ failures' = failures + 1
  /\ call' = [c \in Calls |-> AtRest]
  /\ claim' = IF claim \in Calls THEN "unknown" ELSE claim
  /\ slot' = IF exporting > 0 \/ GcMore(gc, claim') THEN "now"
             ELSE IF slot = "none" THEN "night" ELSE slot
  /\ UNCHANGED <<exporting, gc, started>>

Answer == EndExportStep \/ \E c \in Calls : EndList(c) \/ EndDelete(c)

AlarmNext ==
  \/ StartExport \/ FireAlarm \/ Answer \/ AlarmThrows \/ Restart
  \/ \E c \in OwnerCalls : OwnerCollects(c)

\* The platform fires an alarm that is set, and R2 goes on answering calls.
AlarmSpec ==
  AlarmInit /\ [][AlarmNext]_alarmVars /\ WF_alarmVars(FireAlarm) /\ WF_alarmVars(Answer)

-----------------------------------------------------------------------------
\* The slot is never empty unless the handler that will set it is running, and
\* a collection in progress is not left to the night by calls that overlapped:
\* once they have ended, its next batch is due within a minute.
CollectionIsArmed ==
  /\ slot = "none" => call[Alarm] # AtRest
  /\ (\A c \in Calls : call[c] = AtRest) /\ GcMore(gc, claim) => slot # "night"

\* Whatever else sets the slot: a collection that was started ends, in spite of pages
\* and deletes that fail and of calls that race, unless a restart left a delete unknown;
\* and an export ends.
JobsEnd ==
  /\ gc.phase # "idle" ~> gc.phase = "idle" \/ claim = "unknown"
  /\ exporting > 0 ~> exporting = 0

=============================================================================
