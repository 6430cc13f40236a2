------------------------------ MODULE DeviceSync ------------------------------
(***************************************************************************)
(* A device that syncs one text path: the cycle of DesktopSyncController    *)
(* (resume, scan, flush, replay), the replay of feed rows by                *)
(* ReconciliationController, Enrollment, TextApply and DevicePublication    *)
(* under it, and the vault that executes the requests.                      *)
(***************************************************************************)
EXTENDS Enrollment

ReplayFrame == UNCHANGED <<files, events, remote, history>>
Quietly == UNCHANGED <<journal, budget>>

\* runCycle, from a timer or a command: it need not wait for events that were
\* observed after it was admitted to the queue.
StartCycle ==
  /\ task = Idle /\ FreeKeys # {}
  /\ task' = [Idle EXCEPT !.pc = "resume", !.rest = <<"resume", "scan", "flush", "replay">>]
  /\ Quietly /\ ReplayFrame

-----------------------------------------------------------------------------
(* runReplay: a page of the feed is read, and its rows are taken one by one. *)

\* Rows after the cursor that are no longer there: the manifest is read, once what was
\* sent is settled.
ReadPage ==
  /\ task.pc = "read_page"
  /\ task' = IF mem.cursor >= floor THEN [At("next_row") EXCEPT !.head = Head_]
             ELSE IF Unresolved # {} THEN Finished(task) ELSE At("manifest")
  /\ Quietly /\ ReplayFrame

\* A delete row that changes nothing: the base has it, or the manifest has a
\* newer row.
Skipped(v) == feed[v].text = Absent /\ (Obsolete(mem, v) \/ v < Head_)

NextRow ==
  /\ task.pc = "next_row"
  /\ LET row == mem.cursor + 1
     IN IF row > task.head \/ Unresolved # {} THEN task' = Finished(task) /\ Quietly
        ELSE IF Skipped(row) THEN Save(SetCursor(mem, row), task)
        ELSE task' = [At("begin") EXCEPT !.row = row] /\ Quietly
  /\ ReplayFrame

\* A row of the page advances the cursor; a resumed apply is followed by the page, or by
\* the rows of the manifest.
EndRow ==
  /\ task.pc = "row_done"
  /\ IF task.for = "held" THEN Goto("entry") /\ Quietly
     ELSE IF task.for = "manifest" THEN Goto("applied") /\ Quietly
     ELSE IF task.head = 0 THEN Goto("read_page") /\ Quietly
     ELSE Save(SetCursor(mem, task.row), At("next_row"))
  /\ ReplayFrame

ReplayStep == ReadPage \/ NextRow \/ EndRow

-----------------------------------------------------------------------------
(* The vault: a receipt is found by its key, then the precondition decides. *)

Executed(q) == {v \in DOMAIN feed : feed[v].key = q.key}

\* If-None-Match: * over no live file, or If-Match of the head.
Holding(q) == IF q.pre = 0 THEN feed = <<>> \/ feed[Head_].text = Absent ELSE q.pre = Head_

Answer(q) ==
  IF Executed(q) # {} THEN CHOOSE v \in Executed(q) : TRUE
  ELSE IF Holding(q) THEN Head_ + 1 ELSE Stale

\* Whom the task waits for hears the answer; a request that was given up may still
\* be executed.
Awaited(q) ==
  \/ task.pc = "await" /\ q = Request(op)
  \/ task.pc = "creating" /\ q = Request(Create)

Execute ==
  \E q \in wire :
    /\ wire' = wire \ {q}
    /\ feed' = IF Executed(q) = {} /\ Holding(q)
               THEN Append(feed, [text |-> q.text, key |-> q.key]) ELSE feed
    /\ reply' = IF Awaited(q) THEN Answer(q) ELSE reply
    /\ UNCHANGED <<files, journal, events, floor, task, budget, history>>

-----------------------------------------------------------------------------
TaskStep == ApplyStep \/ PublicationStep \/ ReplayStep \/ EnrollStep
Device == TaskStep \/ DrainEvent \/ StartCycle
Environment ==
  UserEdit \/ UserEditsCopy \/ OtherWrites \/ DeleteRows \/ Restart \/ LoseAnswer \/ Refuse
  \/ LoseCreated \/ RefuseCreate \/ Execute

Next == Device \/ Environment
Spec == Init /\ [][Next]_vars

\* The loop runs what it has started and polls, and requests under way arrive.  A
\* poll that finds events drains them instead, so that cycles do not starve them; the
\* deadline of a retry passes in time.
FairSpec ==
  /\ Spec
  /\ WF_vars(TaskStep) /\ WF_vars(StartCycle) /\ WF_vars(Execute)
  /\ SF_vars(DrainEvent) /\ SF_vars(Take)

-----------------------------------------------------------------------------
Documents == {mem, disk}

\* A text that the user saved, and did not overwrite himself, is always where he can
\* find it: in the file, a conflict copy, the trash, or the vault's history, and never
\* only in a payload of the journal (spec.md 15.2, AC-04).  But for one: a text whose
\* copy he changed between the check of the copy and the write (Overwrites).
NoEditLost ==
  mine \subseteq {local} \cup {c.text : c \in copies} \cup trashed \cup {feed[v].text : v \in DOMAIN feed}

\* A base is a revision that the vault has, with the text it has there, through
\* receipts out of order, failed journal writes and restarts: what is compared with
\* it, and every precondition made from it, is true.
BaseTrue ==
  \A d \in Documents : d.base.rev > 0 => d.base.rev <= Head_ /\ d.base = Row(d.base.rev)

\* Every row at or below the cursor was applied, or is being applied, or a later
\* row has taken its place: nothing that the cursor has left behind is missed.
CursorCovered ==
  \A d \in Documents :
    \/ d.cursor <= d.base.rev \/ d.cursor <= d.apply.row
    \/ d.cursor < Head_ /\ feed[d.cursor].text = Absent

\* Requests under one key are one request: whichever of them the vault executes,
\* the journal knows what it did.
SameKeySameRequest ==
  \A q, r \in wire : q.key = r.key => [q EXCEPT !.again = FALSE] = [r EXCEPT !.again = FALSE]

\* A device replaces a live revision of another writer only when the user had that
\* revision before him when he saved, or when it holds the very text of his own first
\* upload.  The code makes another exception, against spec.md 15.2 ("an obsolete revision
\* never overwrites"): a revision whose text an apply of an older row has taken from the file.
KnownOverwrites ==
  [][\A q \in wire :
       (feed' # feed /\ feed'[Head_ + 1].key = q.key) =>
         \/ feed = <<>> \/ feed[Head_].text = Absent \/ feed[Head_].key # NoKey
         \/ Head_ <= q.knew \/ Head_ \in adopted \cup undone]_vars

\* A delete enters the queue only from a delete event, with the file still gone: a file
\* that is only found missing never becomes one (spec.md 7.7).  And the event is passed
\* over, but by a restart (which spends a fault), only when the file is there again,
\* although a scan may have put it there before the event's turn, or when the vault has
\* no live file.
DeletesFollowEvents ==
  [][/\ \A i \in DOMAIN mem'.ops :
          (mem'.ops[i].op = "delete" /\ mem'.ops[i].key \notin Keys(mem) \cup Keys(disk)) =>
            events # <<>> /\ Head(events) = "delete" /\ local = Absent
     /\ (events # <<>> /\ Head(events) = "delete" /\ events' = Tail(events) /\ budget' = budget) =>
          local # Absent \/ ~Live(mem.base) \/ \E i \in DOMAIN mem'.ops : mem'.ops[i].op = "delete"]_vars

-----------------------------------------------------------------------------
\* The vault's head is the device's base and what the file holds, and nothing waits.
Synced ==
  /\ mem.ops = <<>> /\ events = <<>> /\ mem.cursor = Head_
  /\ Head_ > 0 => mem.base = Row(Head_)
  /\ local = mem.base.text

\* An apply that only the owner can finish: he edited the copy, or the file after
\* the copy was planned or made.
NeedsOwner ==
  /\ a.step \in {"named", "copied"}
  /\ IF Copied THEN local \notin {Absent, a.text, a.copy.text}
     ELSE a.step = "copied" \/ Named \/ local # a.copy.text

\* A pending apply past its first step, over a base that is newer by now: its completion
\* is refused in every cycle, which ends there.
Outrun == a.step \in {"named", "copied"} /\ Obsolete(mem, a.rev)

\* An operation that the journal does not release: its last write did not verify,
\* and nothing else is left to be written.
Withheld == blocked /\ mem.ops # <<>>

\* When the user, the other writers and the faults leave the device alone, it comes
\* to hold what the vault holds; or to an apply that waits for its owner; or, against
\* spec.md 7.5, to an apply that its base has outrun, or to the withheld operation, which
\* only another edit or a restart releases.
Settles == <>[](Synced \/ NeedsOwner \/ Outrun \/ Withheld)

=============================================================================
