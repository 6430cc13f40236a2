----------------------------- MODULE BinaryApply -----------------------------
(***************************************************************************)
(* The apply of one remote row, when the file's bytes are not decoded: from *)
(* the feed to the journal, the bytes behind the row's revision, the plan of*)
(* copies, the guarded effect and the confirmed base.  A step ends where the*)
(* engine waits; it resumes, after a restart, from what the journal holds.  *)
(*                                                                          *)
(* A put of text onto such a file trashes the bytes and creates the text.   *)
(* Onto no file it is the text engine's create (module TextApply), one step *)
(* here.                                                                    *)
(***************************************************************************)
EXTENDS BinaryDevice

Keep(pc) == task' = [task EXCEPT !.pc = pc]
Frame == UNCHANGED <<copies, outside, budget, raced, held, meddled>>

\* Mutant: recovery copies of the pending plan are pruned too.
Pruned_Unprotected == [b \in Bytes |-> IF hidden[b] = "old" THEN "none" ELSE hidden[b]]
\* Recovery copies of seven days go, but for those that the pending apply needs.
Pruned == [b \in Bytes |->
  IF hidden[b] = "old" /\ ~\E c \in Copies : c.purpose = "pre_apply" /\ c.hash = b
  THEN "none" ELSE hidden[b]]

\* A cycle: what is pending is resumed, else the next row of the feed is taken.
Start ==
  /\ task = Idle /\ (Pending \/ journal.cursor < Len(feed))
  /\ hidden' = Pruned
  /\ IF Pending THEN UNCHANGED <<journal, held, meddled>> /\ Goto("resume")
     ELSE LET r == journal.cursor + 1
          IN /\ SaveApply([NoApply EXCEPT !.row = r, !.op = feed[r].op, !.rev = r,
                             !.bytes = feed[r].bytes, !.step = "prepared"], At("resume"))
             /\ held' = [p \in Paths |-> {local[p]}] /\ meddled' = FALSE
  /\ UNCHANGED <<local, visible, trash, touched, outside, budget, raced>>

Obsolete == a.op # "rename" /\ a.rev <= BaseOf(To).rev

Resume ==
  /\ task.pc = "resume"
  /\ CASE a.step = "named" -> Goto("check") /\ UNCHANGED journal
       [] a.step = "copied" -> Goto("copied") /\ UNCHANGED journal
       [] a.step = "prepared" /\ Obsolete -> SaveApply(NoApply, At("done"))
       [] OTHER -> /\ Goto(CASE a.op = "put" -> "fetch" [] a.op = "delete" -> "look"
                             [] a.op = "rename" -> "rename")
                   /\ UNCHANGED journal
  /\ Unchanged

\* The row is done with: the cursor passes it.
Advance ==
  /\ task.pc = "done"
  /\ Save([journal EXCEPT !.cursor = @ + 1], Idle)
  /\ Unchanged

\* The cycle ends with the apply still pending.
Stop ==
  /\ task.pc \in {"attend", "throw"} /\ task' = Idle
  /\ UNCHANGED journal /\ Unchanged

Complete(bytes) ==
  Save([journal EXCEPT !.base[To] = [rev |-> a.rev, bytes |-> bytes], !.apply = NoApply],
       At("done"))

-----------------------------------------------------------------------------
(* The bytes behind the row's revision.                                     *)

Resolving ==
  \/ task.pc \in {"fetch", "inline_fetch", "rename_fetch"}
  \/ task.pc = "finish_fetch" /\ DestinationPending
  \/ task.pc = "copied" /\ a.op # "delete" /\ DestinationPending
     /\ \A c \in Copies : c.mode = "local"

\* The plan of an apply that only replaces clean bytes.
ReplacementOnly == Len(a.plan) = 1 /\ a.plan[1].purpose = "pre_apply"

\* The apply moves to a newer revision and goes back to its plan.
Rebased(rev, bytes) ==
  LET dropped == bytes = Absent /\ ReplacementOnly
  IN [a EXCEPT !.rev = rev, !.bytes = bytes, !.op = IF bytes = Absent THEN "delete" ELSE @,
               !.plan = IF dropped THEN <<>> ELSE @,
               !.kind = IF dropped THEN "none" ELSE @,
               !.step = IF dropped THEN "prepared" ELSE IF a.plan # <<>> THEN "named" ELSE @]

\* The pinned revision is pruned: the vault answers with the path's newest.
Rebase ==
  /\ Resolving /\ a.rev < HeadOf(To)
  /\ LET rev == HeadOf(To)
         bytes == ContentAt(To, rev)
     IN IF bytes = Absent /\ a.op = "rename" THEN Goto("throw") /\ UNCHANGED journal
        ELSE SaveApply(Rebased(rev, bytes), At("resume"))
  /\ Unchanged

\* A put's revision is retained.  Text goes the way of the inline replacement.
Fetched ==
  /\ task.pc = "fetch"
  /\ IF KindAt(a.rev) = "blob" THEN Goto("look") /\ UNCHANGED journal
     ELSE IF a.plan = <<>> THEN Goto("inline_look") /\ UNCHANGED journal
     ELSE SaveApply([a EXCEPT !.kind = "text"], At("resume"))
  /\ Unchanged

-----------------------------------------------------------------------------
(* What the file holds, and the copies it needs.                            *)

\* A path that only differs in case or Unicode form has a file: the row becomes a copy.
NameRemoteCopy ==
  IF a.plan = <<>>
  THEN SaveApply(Named(<<Conflict(To, a.rev, Absent, a.bytes, "remote")>>, "blob"), At("resume"))
  ELSE Goto("throw") /\ UNCHANGED journal

Look ==
  /\ task.pc = "look" /\ touched' = touched \ {To}
  /\ CASE local[To] = Absent /\ a.op = "delete" -> Complete(Absent)
       [] local[To] = Absent /\ a.op = "put" ->
            IF clash THEN NameRemoteCopy
            ELSE task' = [task EXCEPT !.pc = "create", !.seen = Absent] /\ UNCHANGED journal
       [] local[To] # Absent /\ local[To] = a.bytes -> Complete(a.bytes)
       [] OTHER -> /\ task' = [task EXCEPT !.pc = "second", !.seen = local[To],
                                           !.clean = Clean(To, local[To])]
                   /\ UNCHANGED journal
  /\ UNCHANGED local /\ Frame

\* Bytes that the vault does not have become a visible copy; all that go, a hidden one.
FirstPlan(b, clean) ==
  IF clean THEN <<PreApply(To, b)>>
  ELSE <<Conflict(To, a.rev, Absent, b, "local"), PreApply(To, b)>>

\* The second stat.  A clean file that a tombstone takes goes to the trash without a plan.
Second ==
  /\ task.pc = "second"
  /\ LET same == To \notin touched
         b == local[To]
         clean == task.clean /\ same
     IN CASE ~same /\ b = Absent -> Goto("throw") /\ UNCHANGED <<journal, visible>>
          [] ~same /\ b # Absent /\ ~Exact /\ a.op = "put" ->
               Preserve({task.seen, b, a.bytes}) /\ UNCHANGED journal
          [] OTHER ->
               /\ UNCHANGED visible
               /\ IF a.op = "delete" /\ clean THEN Keep("trash_look") /\ UNCHANGED journal
                  ELSE IF a.plan # <<>>
                  THEN task' = [task EXCEPT !.pc = "covered", !.seen = b, !.same = same]
                       /\ UNCHANGED journal
                  ELSE SaveApply(Named(FirstPlan(b, clean), "blob"),
                         IF same THEN At("resume") ELSE [At("persist") EXCEPT !.next = "throw"])
  /\ UNCHANGED <<local, hidden, trash, touched, outside, budget, raced, held, meddled>>

\* The copies that the file as observed still lacks.
Missing ==
  IF Covers(To, "conflict", task.seen) THEN <<>>
  ELSE <<Conflict(To, a.rev, task.seen, task.seen, "local")>>
MissingRecovery == IF Covers(To, "pre_apply", task.seen) THEN <<>> ELSE <<PreApply(To, task.seen)>>

NotCovered ==
  \/ ~Covers(To, "pre_apply", task.seen)
  \/ ~task.clean /\ ~Covers(To, "conflict", task.seen)

Covered ==
  /\ task.pc = "covered"
  /\ IF ~Verified THEN Goto("attend") /\ UNCHANGED journal
     ELSE IF NotCovered
     THEN IF Len(a.plan \o Missing \o MissingRecovery) > MaxCopies
          THEN Goto("attend") /\ UNCHANGED journal
          ELSE SaveApply(Named(a.plan \o Missing \o MissingRecovery, a.kind),
                         [task EXCEPT !.pc = "persist", !.i = 1, !.next = "extended"])
     ELSE Keep(IF task.same THEN "last_look" ELSE "throw") /\ UNCHANGED journal
  /\ Unchanged

\* After an extension the file must still be as it was at the first stat.
Extended ==
  /\ task.pc = "extended"
  /\ IF task.same /\ local[To] = task.seen /\ To \notin touched THEN Keep("covered")
     ELSE Goto("throw")
  /\ UNCHANGED journal /\ Unchanged

-----------------------------------------------------------------------------
(* The replacement.                                                         *)

\* Mutant: the file is not read once more after its copies were made.
StillSeen_Unread == To \in DOMAIN local
StillSeen == local[To] = task.seen

LastLook ==
  /\ task.pc = "last_look"
  /\ IF StillSeen THEN Keep("modify") /\ UNCHANGED visible
     ELSE IF Exact THEN Goto("throw") /\ UNCHANGED visible
     ELSE Preserve({task.seen, local[To], a.bytes})
  /\ UNCHANGED <<local, hidden, trash, journal, touched, outside, budget, raced, held, meddled>>

\* The host writes over whatever is there: bytes saved since the last look are lost.
WriteOver ==
  SetLocal(To, a.bytes) /\ Keep("written")

\* The host's modify of an indexed file has no guard; under .obsidian/ the adapter looks
\* once more, and then writes.
Modify ==
  /\ task.pc = "modify"
  /\ CASE Exact /\ local[To] # Absent -> WriteOver /\ UNCHANGED visible
       [] ~Exact /\ local[To] = task.seen ->
            Keep("write") /\ UNCHANGED <<local, held, visible>>
       [] Exact /\ local[To] = Absent -> Goto("throw") /\ UNCHANGED <<local, held, visible>>
       [] ~Exact /\ local[To] # task.seen ->
            Preserve({task.seen, a.bytes, local[To]}) /\ UNCHANGED <<local, held>>
  /\ UNCHANGED <<hidden, trash, journal, touched, outside, budget, raced, meddled>>

Write ==
  /\ task.pc = "write" /\ WriteOver
  /\ UNCHANGED <<copies, journal, touched, outside, budget, raced, meddled>>

\* The host's create fails where a file is; the settings adapter looks, and then writes.
Create ==
  /\ task.pc = "create"
  /\ CASE Exact /\ local[To] = Absent /\ ~clash -> WriteOver /\ UNCHANGED <<journal, visible>>
       [] Exact /\ local[To] = Absent /\ clash ->
            NameRemoteCopy /\ UNCHANGED <<local, held, visible>>
       [] Exact /\ local[To] # Absent ->
            /\ IF clash THEN NameRemoteCopy ELSE Goto("throw") /\ UNCHANGED journal
            /\ UNCHANGED <<local, held, visible>>
       [] ~Exact /\ local[To] = Absent ->
            Keep("write") /\ UNCHANGED <<local, held, journal, visible>>
       [] ~Exact /\ local[To] # Absent ->
            Preserve({a.bytes, local[To]}) /\ UNCHANGED <<local, held, journal>>
  /\ UNCHANGED <<hidden, trash, touched, outside, budget, raced, meddled>>

Confirmed == local[To] = a.bytes

\* What was written is read back before the base is confirmed.
ReadBack ==
  /\ task.pc = "written"
  /\ CASE Confirmed /\ a.op # "rename" -> Complete(a.bytes) /\ UNCHANGED visible
       [] Confirmed /\ a.op = "rename" -> Keep("rename_source") /\ UNCHANGED <<journal, visible>>
       [] ~Confirmed /\ Exact -> Goto("throw") /\ UNCHANGED <<journal, visible>>
       [] ~Confirmed /\ ~Exact -> Preserve({task.seen, a.bytes, local[To]}) /\ UNCHANGED journal
  /\ UNCHANGED <<local, hidden, trash, touched, outside, budget, raced, held, meddled>>
=============================================================================
