----------------------------- MODULE DeviceState -----------------------------
(***************************************************************************)
(* One device and the vault it syncs one text path with: the file and the   *)
(* conflict copies beside it, the journal in memory and on disk, the events *)
(* that wait to be drained, the requests on the wire, and the one task that *)
(* DesktopSyncController lets run.  Next to the device are its user, who    *)
(* edits at any moment, and other writers of the vault.                     *)
(*                                                                          *)
(* The vault is a feed of revisions of the path; a row's key is the         *)
(* operation that published it, NoKey for another writer.  Receipts are     *)
(* found again in the feed by key.                                          *)
(***************************************************************************)
EXTENDS DeviceJournal, FiniteSets

CONSTANTS
  OpKeys,    \* idempotency keys; one is free again when nothing refers to it
  MaxEdits,  \* bound on the edits of the user
  MaxWrites, \* bound on the rows of other writers
  MaxFaults, \* bound on restarts, lost or refused requests, pruned revisions or rows,
             \* and failed journal writes
  MaxChanges,  \* all of these together
  FreshChanges \* the same, for a device that was never enrolled

ASSUME DeviceAssumption == NoKey \notin OpKeys /\ OpKeys # {}

VARIABLES
  local,   \* the file: a text, or Absent
  copies,  \* conflict copies: the revision in their name, and their text
  trashed, \* texts in Obsidian's trash
  mem,     \* the journal's verified state in memory
  disk,    \* the journal's document on disk
  blocked, \* attentionReason: the last journal write did not verify
  events,  \* "save" and "delete" events that are not drained yet
  feed,    \* the vault: [text, key] by revision
  floor,   \* the rows up to here were deleted by retention
  wire,    \* requests under way, whether the task waits for them or not
  reply,   \* the answer to the request the task waits for
  task,    \* where the running task is
  budget,  \* what is left of the bounds
  \* History variables: the texts that the user saved and did not overwrite, the
  \* newest revision whose text the file has held, the one it had held when the user
  \* last saved, revisions taken for the device's own first upload, and revisions whose
  \* text an apply of an older row took from the file.
  mine, shown, knew, adopted, undone

vars == <<local, copies, trashed, mem, disk, blocked, events, feed, floor, wire, reply,
          task, budget, mine, shown, knew, adopted, undone>>
journal == <<mem, disk, blocked>>
files == <<local, copies, trashed>>
history == <<mine, shown, knew, adopted, undone>>
remote == <<feed, floor, wire, reply>>

\* A reply is the revision that was published, or one of these.
NoReply == 0
Stale == -1

\* `rest' is what the task has still to do, its present stage first; `head' ends
\* the page of rows it read; `seen' is the text an effect expects; `key' is the
\* operation it sends, and `keys' those it has still to look at; `spare' is a rejected
\* operation that is being recovered; `for' is what an apply is part of: the feed, the
\* manifest, or an apply that was pending when the manifest was read.
Idle == [pc |-> "idle", rest |-> <<>>, row |-> 0, head |-> 0, seen |-> Absent,
         key |-> NoKey, keys |-> <<>>, spare |-> NoKey, for |-> "feed"]

\* The next stage of the task, or its end.
Finished(t) ==
  IF Len(t.rest) <= 1 THEN Idle
  ELSE [t EXCEPT !.pc = t.rest[2], !.rest = Tail(@), !.row = 0, !.head = 0, !.seen = Absent,
                    !.spare = NoKey, !.for = "feed"]
At(pc) == [task EXCEPT !.pc = pc]
Goto(pc) == task' = At(pc)
Saw(pc, text) == [task EXCEPT !.pc = pc, !.seen = text]
Holds(rev) == shown' = IF rev > shown THEN rev ELSE shown

Head_ == Len(feed)
Row(v) == [rev |-> v, text |-> feed[v].text]

Spend(kind) == budget[kind] > 0 /\ budget' = [budget EXCEPT ![kind] = @ - 1]

\* commit: a document that does not read back leaves memory as it was, and the
\* disk with either document; what the task did then throws.
SaveOr(d, next, failed) ==
  \/ /\ mem' = d /\ disk' = d /\ blocked' = FALSE /\ task' = next /\ UNCHANGED budget
  \/ /\ Spend("faults") /\ UNCHANGED mem /\ disk' \in {disk, d}
     /\ blocked' = TRUE /\ task' = failed
Save(d, next) == SaveOr(d, next, Idle)
\* recordAttention: the item itself is not modelled, the write is.
NoteAttention(next) == Save(mem, next)
\* clearExpectedWrite, which writes nothing when nothing is expected.
ClearExpected(next) ==
  IF mem.expected = Absent THEN task' = next /\ UNCHANGED <<mem, disk, blocked, budget>>
  ELSE Save(Expect(mem, Absent), next)

\* The event that Obsidian sends for a change of the file, whoever made it.
Emit(event) == events' = Append(events, event)

-----------------------------------------------------------------------------
\* Every mixture of n changes.
Changes(n) ==
  /\ budget \in [edits : 0..MaxEdits, writes : 0..MaxWrites, faults : 0..MaxFaults]
  /\ budget.edits + budget.writes + budget.faults = n

\* A device that is in sync, or one that was never enrolled, with a file of its own or none.
Enrolled ==
  /\ local = IF feed = <<>> THEN Absent ELSE feed[1].text
  /\ mem = Document([rev |-> Len(feed), text |-> local])
  /\ mine = {} /\ shown = Len(feed) /\ knew = Len(feed)
  /\ Changes(MaxChanges)
Fresh ==
  /\ local \in Texts \cup {Absent} /\ mem = FreshDocument
  /\ mine = {local} \ {Absent} /\ shown = 0 /\ knew = 0
  /\ Changes(FreshChanges)

Init ==
  /\ feed \in {<<>>} \cup {<<[text |-> t, key |-> NoKey]>> : t \in Texts}
  /\ Enrolled \/ Fresh
  /\ disk = mem /\ blocked = FALSE /\ floor = 0
  /\ copies = {} /\ trashed = {}
  /\ events = <<>> /\ wire = {} /\ reply = NoReply /\ task = Idle
  /\ adopted = {} /\ undone = {}

\* The user saves another text in the file, or deletes it.
UserEdit ==
  /\ Spend("edits")
  /\ local' \in (Texts \cup {Absent}) \ {local}
  /\ Emit(IF local' = Absent THEN "delete" ELSE "save")
  /\ mine' = ((mine \ {local}) \cup {local'}) \ {Absent} /\ knew' = shown
  /\ UNCHANGED <<copies, trashed, journal, remote, task, shown, adopted, undone>>

\* The user edits or removes a conflict copy: its own events are another path's.
UserEditsCopy ==
  /\ Spend("edits")
  /\ \E c \in copies : \E t \in (Texts \cup {Absent}) \ {c.text} :
       /\ copies' = (copies \ {c}) \cup (IF t = Absent THEN {} ELSE {[c EXCEPT !.text = t]})
       /\ mine' = ((mine \ {c.text}) \cup {t}) \ {Absent}
  /\ UNCHANGED <<local, trashed, journal, events, remote, task, shown, knew, adopted, undone>>

\* Another device or an agent publishes over the head.
OtherWrites ==
  /\ Spend("writes")
  /\ \E t \in Texts \cup {Absent} :
       /\ t = Absent => feed # <<>> /\ feed[Head_].text # Absent
       /\ feed' = Append(feed, [text |-> t, key |-> NoKey])
  /\ UNCHANGED <<files, journal, events, floor, wire, reply, task, history>>

\* Retention deletes rows of the feed; the manifest still has the head.  It makes no
\* difference before the feed is read, nor for rows that the cursor has passed.
DeleteRows ==
  /\ task.pc = "read_page" /\ mem.cursor >= floor /\ Spend("faults")
  /\ floor' \in (mem.cursor + 1)..Head_
  /\ UNCHANGED <<files, journal, events, feed, wire, reply, task, history>>

\* The plugin is closed or killed, and loaded again: DeviceJournal.open reads
\* the disk; events that were not drained are gone.
Restart ==
  /\ Spend("faults")
  /\ mem' = disk /\ blocked' = FALSE /\ events' = <<>> /\ reply' = NoReply /\ task' = Idle
  /\ UNCHANGED <<files, disk, feed, floor, wire, history>>

=============================================================================
