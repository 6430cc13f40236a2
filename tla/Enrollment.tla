----------------------------- MODULE Enrollment -----------------------------
(***************************************************************************)
(* runReconciliation of ReconciliationController: a device that was never   *)
(* enrolled, or whose cursor has expired, reads the manifest instead of the *)
(* feed.  It takes the row of the path over, uploads a file that the vault  *)
(* does not have, and then sets its cursor to the head of the manifest.     *)
(* After each of these it saves a checkpoint, from which it goes on after a *)
(* restart or a cycle that failed.                                          *)
(***************************************************************************)
EXTENDS TextApply, DevicePublication

check == mem.check

\* The row of the manifest page that was read, and of the manifest of now.
Entry == Row(task.head)
HasEntry == task.head > 0

\* Sent operations of the path, but for the one whose rejection is recovered.
Unresolved ==
  {mem.ops[i].key : i \in {j \in DOMAIN mem.ops : mem.ops[j].state = "sent"}} \ {task.spare}

\* resolveSentCreate, acknowledgeObservedCreate: a first upload that was sent, and whose
\* text is that of the manifest's row.
Confirmed(row, except) ==
  {k \in SentCreates \ {except} : row.text # Absent /\ OpOf(mem, k).text = row.text}

\* Such a row is about to become the base.
Adopt(head, except) ==
  adopted' = adopted \cup
    {v \in {head} : v > 0 /\ Confirmed(Row(v), except) # {} /\ MaySetBase(mem, Row(v))}

EnrollFrame == UNCHANGED events /\ PublicationFrame /\ NoWire
Unsaved == UNCHANGED <<journal, budget>>
Checked(c, next) == Save(SetCheckpoint(mem, c), next)

\* The manifest is read again from its first page, and the rejection is forgotten.
Restarted == [At("manifest") EXCEPT !.spare = NoKey]

-----------------------------------------------------------------------------
(* The first page, and the checkpoint.                                      *)

\* A checkpoint of another head is given up.
ReadManifest ==
  /\ task.pc = "manifest"
  /\ IF check.stage = "manifest" /\ check.head # Head_ THEN Checked(NoCheck, Restarted)
     ELSE /\ task' = [At(IF check # NoCheck THEN "hold" ELSE IF mem.bound THEN "list" ELSE "bind")
                      EXCEPT !.head = Head_]
          /\ Unsaved
  /\ EnrollFrame

Bind ==
  /\ task.pc = "bind"
  /\ Save(BindEpoch(mem), At("list")) /\ EnrollFrame

ListFiles ==
  /\ task.pc = "list"
  /\ Checked([stage |-> "manifest", head |-> task.head, listed |-> local # Absent,
              pending |-> HasEntry, known |-> HasEntry], At("hold"))
  /\ EnrollFrame

\* resumeApply, before any row.
Hold ==
  /\ task.pc = "hold"
  /\ task' = IF a = NoApply THEN At("entry")
             ELSE [At("begun") EXCEPT !.row = a.row, !.for = "held"]
  /\ Unsaved /\ EnrollFrame

-----------------------------------------------------------------------------
(* The rows of the manifest: applyManifestEntry.                            *)

SameContent == Live(Entry) /\ local = Entry.text

TakeEntry ==
  /\ task.pc = "entry" /\ check.stage = "manifest"
  /\ CASE ~HasEntry -> Goto("page_done") /\ Unsaved
       [] HasEntry /\ ~check.pending ->
            Checked([check EXCEPT !.pending = TRUE, !.known = TRUE], task)
       [] HasEntry /\ check.pending /\ Confirmed(Entry, task.spare) # {} ->
            IF MaySetBase(mem, Entry) THEN Save(SetBase(mem, Entry), At("resolve_entry"))
            ELSE task' = Idle /\ Unsaved
       [] HasEntry /\ check.pending /\ Confirmed(Entry, task.spare) = {} ->
            IF Unresolved # {} THEN task' = Finished(task) /\ Unsaved
            ELSE IF ~SameContent
            THEN task' = [At("begin") EXCEPT !.row = task.head, !.for = "manifest"] /\ Unsaved
            ELSE IF MaySetBase(mem, Entry) THEN Save(SetBase(mem, Entry), At("applied"))
            ELSE task' = Idle /\ Unsaved
  /\ shown' = IF HasEntry /\ SameContent /\ task.head > shown THEN task.head ELSE shown
  /\ UNCHANGED <<events, files, feed, floor, mine, knew, undone>> /\ NoWire
  /\ IF check.pending THEN Adopt(task.head, task.spare) ELSE UNCHANGED adopted

ResolveEntry ==
  /\ task.pc = "resolve_entry"
  /\ \E k \in Confirmed(Entry, task.spare) : Save(Resolve(mem, k, Entry), At("entry_done"))
  /\ EnrollFrame

Acknowledge ==
  /\ task.pc = "applied"
  /\ IF Confirmed(Entry, NoKey) = {} THEN Goto("entry_done") /\ Unsaved
     ELSE \E k \in Confirmed(Entry, NoKey) : Save(ResolveAlone(mem, k), task)
  /\ EnrollFrame

EndEntry ==
  /\ task.pc = "entry_done"
  /\ Checked([check EXCEPT !.pending = FALSE], At("page_done")) /\ EnrollFrame

EndPage ==
  /\ task.pc = "page_done"
  /\ Checked([check EXCEPT !.stage = "local", !.pending = FALSE], At("entry")) /\ EnrollFrame

-----------------------------------------------------------------------------
(* Local files that the manifest does not have: publishLocalCreate.         *)

\* resolveSentCreates reads the manifest of now.
FindSent ==
  /\ task.pc = "entry" /\ check.stage = "local"
  /\ IF Head_ = 0 \/ Confirmed(Row(Head_), NoKey) = {} THEN Goto("publish") /\ Unsaved
     ELSE IF ~MaySetBase(mem, Row(Head_)) THEN task' = Idle /\ Unsaved
     ELSE Save(SetBase(mem, Row(Head_)), [At("resolve_sent") EXCEPT !.head = Head_])
  /\ Adopt(Head_, NoKey)
  /\ UNCHANGED <<events, files, feed, floor, mine, shown, knew, undone>> /\ NoWire

ResolveSent ==
  /\ task.pc = "resolve_sent"
  /\ \E k \in Confirmed(Entry, NoKey) : Save(Resolve(mem, k, Entry), At("sent_known"))
  /\ EnrollFrame

SentKnown ==
  /\ task.pc = "sent_known"
  /\ Checked([check EXCEPT !.known = TRUE], At("publish")) /\ EnrollFrame

\* The first upload that the queue has for the path.
Creates == {i \in DOMAIN mem.ops : mem.ops[i].op = "put" /\ mem.ops[i].pre = 0}
Create == mem.ops[CHOOSE i \in Creates : \A j \in Creates : i <= j]

ToPublish == check.listed /\ ~check.known

\* A path whose upload was refused is left alone, and what was sent is given up.
PublishLocal ==
  /\ task.pc = "publish"
  /\ CASE ~ToPublish -> Checked([check EXCEPT !.stage = "cursor"], At("entry"))
       [] ToPublish /\ mem.refused ->
            IF SentCreates = {} THEN Goto("published") /\ Unsaved
            ELSE \E k \in SentCreates : Save(RecordRejected(mem, k), task)
       [] ToPublish /\ ~mem.refused /\ local = Absent -> Goto("published") /\ Unsaved
       [] ToPublish /\ ~mem.refused /\ local # Absent /\ Creates # {} ->
            Goto("prepare_create") /\ Unsaved
       [] ToPublish /\ ~mem.refused /\ local # Absent /\ Creates = {} ->
            FreeKeys # {} /\ Save(Enqueue(mem, [NewPut(mem, local) EXCEPT !.pre = 0]), At("prepare_create"))
  /\ EnrollFrame

PrepareCreate ==
  /\ task.pc = "prepare_create"
  /\ IF blocked \/ ~MayPrepare(mem, Create.key) THEN task' = Idle /\ Unsaved
     ELSE IF Create.state = "sent" THEN Goto("send_create") /\ Unsaved
     ELSE Save(Prepare(mem, Create.key), At("send_create"))
  /\ EnrollFrame

SendCreate ==
  /\ task.pc = "send_create"
  /\ wire' = wire \cup {Request(Create)} /\ reply' = NoReply /\ Goto("creating")
  /\ UNCHANGED events /\ Unsaved /\ PublicationFrame

\* The request or its answer is lost: the cycle ends, and the operation stays sent.
LoseCreated ==
  /\ task.pc = "creating" /\ Spend("faults")
  /\ wire' \in {wire, wire \ {Request(Create)}} /\ reply' = NoReply /\ task' = Idle
  /\ UNCHANGED <<journal, events>> /\ PublicationFrame

\* isTerminalEnrollmentFailure: attention for the path, before the operation is given up.
RefuseCreate ==
  /\ task.pc = "creating" /\ Spend("faults") /\ reply = NoReply
  /\ wire' = wire \ {Request(Create)} /\ Goto("create_refused")
  /\ UNCHANGED <<journal, events, reply>> /\ PublicationFrame

Created == [rev |-> reply, text |-> Create.text]

\* The receipt, however old, is the base.
ConfirmCreate ==
  /\ task.pc = "creating" /\ reply \in 1..Head_
  /\ IF MaySetBase(mem, Created) THEN Save(SetBase(mem, Created), At("resolve_create"))
     ELSE task' = Idle /\ Unsaved
  /\ EnrollFrame

SettleCreate ==
  /\ \/ task.pc = "resolve_create" /\ Save(ResolveAlone(mem, Create.key), At("published"))
     \/ task.pc = "create_refused" /\ Save([mem EXCEPT !.refused = TRUE], At("create_rejected"))
     \/ task.pc = "create_rejected" /\ Save(RecordRejected(mem, Create.key), At("published"))
     \/ /\ task.pc = "creating" /\ reply = Stale
        /\ Save(RecordRejected(mem, Create.key), At("create_stale"))
     \/ task.pc = "create_stale" /\ Checked(NoCheck, Restarted)
  /\ EnrollFrame

Published ==
  /\ task.pc = "published"
  /\ Checked([check EXCEPT !.listed = FALSE], At("publish")) /\ EnrollFrame

-----------------------------------------------------------------------------
\* Mutant: the cursor goes to the head of now.
ReachedHead_Now == Head_

ReachedHead == check.head

\* setCursor refuses to go back.
EndEnrollment ==
  /\ \/ /\ task.pc = "entry" /\ check.stage = "cursor"
        /\ IF ReachedHead < mem.cursor THEN task' = Idle /\ Unsaved
           ELSE Save(SetCursor(mem, ReachedHead), At("cursor_set"))
     \/ task.pc = "cursor_set" /\ Checked(NoCheck, Finished(task))
  /\ EnrollFrame

EnrollStep ==
  \/ ReadManifest \/ Bind \/ ListFiles \/ Hold \/ TakeEntry \/ ResolveEntry \/ Acknowledge
  \/ EndEntry \/ EndPage \/ FindSent \/ ResolveSent \/ SentKnown \/ PublishLocal
  \/ PrepareCreate \/ SendCreate \/ ConfirmCreate \/ SettleCreate \/ Published \/ EndEnrollment

=============================================================================
