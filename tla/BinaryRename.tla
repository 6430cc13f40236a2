---------------------------- MODULE BinaryRename ----------------------------
(***************************************************************************)
(* What follows once the copies of an apply are made: the put goes on in    *)
(* module BinaryApply; here are the trash for a tombstone, the replacement  *)
(* of bytes by inline text, and both sides of a rename.                     *)
(***************************************************************************)
EXTENDS BinaryApply

\* Every copy of the plan still has its bytes.
CopiesHold == Verified

Copied ==
  /\ task.pc = "copied"
  /\ IF a.kind = "text" /\ a.op = "put" THEN Goto("inline") /\ UNCHANGED <<journal, hidden>>
     ELSE IF ~CopiesHold THEN Goto("attend") /\ UNCHANGED <<journal, hidden>>
     ELSE /\ hidden' = Refreshed
          /\ IF a.op = "put" /\ \E c \in Copies : c.mode = "remote" THEN Complete(a.bytes)
             ELSE /\ Goto(CASE a.op = "put" -> "fetch" [] a.op = "delete" -> "conflict_look"
                            [] a.op = "rename" -> "finish_fetch")
                  /\ UNCHANGED journal
  /\ UNCHANGED <<local, visible, trash, touched, outside, budget, raced, held, meddled>>

-----------------------------------------------------------------------------
(* The trash.  `seen' is what it must find, and `src' is set for a rename's *)
(* source.                                                                  *)

Victim == IF a.op = "rename" THEN From ELSE To
Expected == IF a.op = "rename" THEN task.src ELSE task.seen

\* A tombstone takes a clean file.
TrashLook ==
  /\ task.pc = "trash_look"
  /\ IF local[To] = task.seen /\ To \notin touched
     THEN task' = [task EXCEPT !.pc = "trash", !.next = "throw"]
     ELSE Goto("throw")
  /\ UNCHANGED journal /\ Unchanged

\* The bytes have a visible copy.
HasCopy(b) == \E c \in Copies : c.purpose = "conflict" /\ c.hash = b

\* A tombstone takes a file that was copied.
ConflictLook ==
  /\ task.pc = "conflict_look"
  /\ CASE local[To] = Absent -> Complete(Absent)
       [] local[To] # Absent /\ HasCopy(local[To]) ->
            /\ task' = [task EXCEPT !.pc = "trash", !.seen = local[To], !.next = "attend"]
            /\ UNCHANGED journal
       [] local[To] # Absent /\ ~HasCopy(local[To]) -> Goto("attend") /\ UNCHANGED journal
  /\ Unchanged

TrashGuard ==
  /\ task.pc = "trash"
  /\ IF local[Victim] = Expected THEN Keep("trashing") ELSE Goto(task.next)
  /\ UNCHANGED journal /\ Unchanged

\* Obsidian moves what is there.
Trash ==
  /\ task.pc = "trashing" /\ Keep("trashed")
  /\ trash' = trash \cup ({local[Victim]} \ {Absent})
  /\ SetLocal(Victim, Absent)
  /\ UNCHANGED <<visible, hidden, journal, touched, outside, budget, raced, meddled>>

CompleteRename ==
  LET to == IF DestinationPending THEN [rev |-> a.rev, bytes |-> a.bytes] ELSE BaseOf(To)
      from == IF SourcePending THEN [rev |-> a.row, bytes |-> Absent] ELSE BaseOf(From)
  IN Save([journal EXCEPT !.base = [p \in Paths |-> IF p = To THEN to ELSE from],
                          !.apply = NoApply], At("done"))

Trashed ==
  /\ task.pc = "trashed"
  /\ CASE local[Victim] # Absent -> Goto(task.next) /\ UNCHANGED journal
       [] local[Victim] = Absent /\ a.op = "delete" -> Complete(Absent)
       [] local[Victim] = Absent /\ a.op = "put" -> Keep("inline_create") /\ UNCHANGED journal
       [] local[Victim] = Absent /\ a.op = "rename" -> CompleteRename
  /\ Unchanged

-----------------------------------------------------------------------------
(* Inline text over bytes: copies, trash, create.                           *)

InlineLook ==
  /\ task.pc = "inline_look"
  /\ CASE local[To] = Absent ->
            SetLocal(To, a.bytes) /\ Keep("written") /\ UNCHANGED journal
       [] local[To] = a.bytes -> Complete(a.bytes) /\ UNCHANGED <<local, held>>
       [] OTHER -> /\ SaveApply(Named(FirstPlan(local[To], FALSE), "text"), At("resume"))
                   /\ UNCHANGED <<local, held>>
  /\ UNCHANGED <<copies, touched, outside, budget, raced, meddled>>

\* The current bytes must be those of a recovery copy of the plan.
InlineIdentity ==
  LET b == local[To]
  IN Covers(To, "pre_apply", b) /\ (Covers(To, "conflict", b) \/ Clean(To, b))

Inline ==
  /\ task.pc = "inline"
  /\ IF InlineIdentity /\ CopiesHold
     THEN hidden' = Refreshed /\ task' = [task EXCEPT !.pc = "inline_fetch", !.seen = local[To]]
     ELSE Goto("attend") /\ UNCHANGED hidden
  /\ UNCHANGED <<local, visible, trash, journal, touched, outside, budget, raced, held, meddled>>

\* Authority that turned to bytes goes the way of the bytes.
InlineFetched ==
  /\ task.pc = "inline_fetch"
  /\ IF KindAt(a.rev) = "blob" THEN SaveApply([a EXCEPT !.kind = "blob"], At("copied"))
     ELSE Keep("inline_replace") /\ UNCHANGED journal
  /\ Unchanged

InlineReplace ==
  /\ task.pc = "inline_replace"
  /\ task' = CASE local[To] \in {Absent, a.bytes} -> [task EXCEPT !.pc = "inline_create"]
               [] local[To] \notin {Absent, a.bytes} /\ local[To] = task.seen ->
                    [task EXCEPT !.pc = "trash", !.next = "throw"]
               [] OTHER -> At("attend")
  /\ UNCHANGED journal /\ Unchanged

InlineCreate ==
  /\ task.pc = "inline_create"
  /\ CASE local[To] = Absent -> SetLocal(To, a.bytes) /\ Keep("written")
       [] local[To] = a.bytes -> Keep("written") /\ UNCHANGED <<local, held>>
       [] OTHER -> Goto("attend") /\ UNCHANGED <<local, held>>
  /\ UNCHANGED <<copies, journal, touched, outside, budget, raced, meddled>>

-----------------------------------------------------------------------------
(* A rename.                                                                *)

\* What each side of the row that is still to change holds.
SourceBytes == IF SourcePending THEN local[From] ELSE Absent
DestinationBytes == IF DestinationPending THEN local[To] ELSE Absent

RenamePlan(src, dst) ==
  (IF src # Absent /\ ~Clean(From, src)
   THEN <<Conflict(From, a.row, Absent, src, "local")>> ELSE <<>>)
  \o (IF dst \notin {Absent, a.bytes} /\ ~Clean(To, dst)
      THEN <<Conflict(To, a.rev, Absent, dst, "local")>> ELSE <<>>)
  \o (IF dst \notin {Absent, a.bytes} THEN <<PreApply(To, dst)>> ELSE <<>>)

\* A clean source and a free destination move in one; else dirty sides are copied first.
Rename ==
  /\ task.pc = "rename"
  /\ LET src == SourceBytes
         dst == DestinationBytes
     IN CASE ~SourcePending /\ ~DestinationPending -> CompleteRename
          [] DestinationPending /\ Clean(From, src) /\ src = a.bytes /\ dst = Absent ->
               /\ task' = [task EXCEPT !.pc = "rename_fetch", !.src = src]
               /\ UNCHANGED journal
          [] OTHER -> IF RenamePlan(src, dst) = <<>> THEN Goto("finish_fetch") /\ UNCHANGED journal
                      ELSE SaveApply(Named(RenamePlan(src, dst), "blob"), At("resume"))
  /\ touched' = touched \ {From}
  /\ UNCHANGED local /\ Frame

RenameFetched ==
  /\ task.pc = "rename_fetch"
  /\ IF local[From] = task.src /\ From \notin touched THEN Keep("rename_guard")
     ELSE Goto("throw")
  /\ UNCHANGED journal /\ Unchanged

\* A move that is refused leaves the row to the plain way.
RenameGuard ==
  /\ task.pc = "rename_guard"
  /\ IF local[From] = task.src /\ local[To] = Absent THEN Keep("moving")
     ELSE Goto("finish_fetch")
  /\ UNCHANGED journal /\ Unchanged

\* The host moves what is there, and refuses a destination that exists.
Move ==
  /\ task.pc = "moving"
  /\ IF local[From] = Absent \/ local[To] # Absent THEN Goto("throw") /\ UNCHANGED <<local, held>>
     ELSE /\ Keep("moved")
          /\ local' = [local EXCEPT ![To] = local[From], ![From] = Absent]
          /\ held' = [held EXCEPT ![To] = @ \cup {local[From]}, ![From] = @ \cup {Absent}]
  /\ UNCHANGED <<copies, journal, touched, outside, budget, raced, meddled>>

Moved ==
  /\ task.pc = "moved"
  /\ IF local[From] = Absent /\ local[To] = a.bytes THEN CompleteRename
     ELSE Goto("finish_fetch") /\ UNCHANGED journal
  /\ Unchanged

\* Mutant: a destination that was copied is not written.
NeedsWrite_Copied(dst) ==
  DestinationPending /\ dst # a.bytes /\ ~Covers(To, "conflict", dst)
NeedsWrite(dst) == DestinationPending /\ dst # a.bytes

\* finishBinaryRename reads both sides when the destination's bytes are there.  A
\* destination that is neither the row's nor clean must have its copy.
FinishFetched ==
  /\ task.pc = "finish_fetch"
  /\ LET dst == local[To]
         unsafe == dst \notin {Absent, a.bytes} /\ ~Clean(To, dst)
                     /\ ~Covers(To, "conflict", dst)
     IN task' = CASE ~CopiesHold \/ (DestinationPending /\ unsafe) -> At("attend")
                  [] OTHER -> [task EXCEPT
                       !.pc = IF NeedsWrite(dst) THEN "destination"
                              ELSE "rename_source",
                       !.seen = dst, !.src = local[From]]
  /\ UNCHANGED journal /\ Unchanged

Destination ==
  /\ task.pc = "destination"
  /\ CASE local[To] # task.seen -> Goto("throw")
       [] local[To] = task.seen /\ task.seen = Absent -> Keep("create")
       [] local[To] = task.seen /\ task.seen # Absent ->
            IF Covers(To, "pre_apply", task.seen) /\ hidden[task.seen] # "none"
            THEN Keep("modify") ELSE Goto("attend")
  /\ UNCHANGED journal /\ Unchanged

\* The source goes to the trash if it is as the row left it, or copied.
Source ==
  /\ task.pc = "rename_source"
  /\ LET src == task.src
         copied == Covers(From, "conflict", src)
     IN CASE ~SourcePending \/ src = Absent -> CompleteRename
          [] SourcePending /\ src # Absent ->
               /\ IF IF copied THEN CopiesHold ELSE Clean(From, src)
                  THEN task' = [task EXCEPT !.pc = "trash", !.next = "throw"]
                  ELSE Goto("attend")
               /\ UNCHANGED journal
  /\ Unchanged
=============================================================================
