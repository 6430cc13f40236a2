------------------------------ MODULE TextApply ------------------------------
(***************************************************************************)
(* TextApplyEngine on a text put or delete: every step is recorded in the   *)
(* journal before its effect on the file, and every effect on the file      *)
(* compares it with the text that the step was decided on.  Between two     *)
(* steps the user may edit, the vault may move on, and the plugin may be    *)
(* killed; a pending apply is resumed from its step.                        *)
(*                                                                          *)
(* An action ends where the engine awaits the journal or the file.          *)
(***************************************************************************)
EXTENDS DeviceState

a == mem.apply

\* The row is dealt with, applied or not: the caller goes on.
RowDone == At("row_done")

\* attend: the apply stays pending, for the owner.
Attended == NoteAttention(RowDone)

ApplyFrame == UNCHANGED <<remote, mine, knew, adopted>>
NoEffect == ApplyFrame /\ UNCHANGED <<files, events, shown, undone>>

\* readResolved: the pinned revision, or the current one if it was pruned, which
\* then takes its place in the journal and starts the apply again (the code does so
\* once in an apply: a second time would end the cycle, and no instance gets there).
Pruned(d) == d.apply.text # Absent /\ d.apply.rev < Head_
Rebase ==
  /\ task.pc \in {"decide", "finish"} /\ Pruned(mem) /\ Spend("faults")
  /\ mem' = RebaseApply(mem, Head_, feed[Head_].text) /\ disk' = mem' /\ blocked' = FALSE
  /\ Goto("begun") /\ NoEffect

\* A file that still holds the confirmed base.
Clean(text) == Live(mem.base) /\ text = mem.base.text

-----------------------------------------------------------------------------
\* applyEntry and resumePending: where a row, or a pending apply, begins.
Begin ==
  /\ task.pc = "begin"
  /\ IF a = NoApply
     THEN Save(BeginApply(mem, task.row, feed[task.row].text), At("begun"))
     ELSE /\ task' = IF a.row # task.row THEN Idle \* Another remote apply is pending
                     ELSE At("begun")
          /\ UNCHANGED <<journal, budget>>
  /\ NoEffect

\* resume and runReplay: without a cursor, or with a traversal to go on with, the
\* manifest is read; else a pending apply is resumed before a page of rows is read.
Resume ==
  /\ task.pc \in {"resume", "replay"}
  /\ task' = IF mem.cursor = NoCursor \/ (task.pc = "resume" /\ mem.check # NoCheck)
             THEN At("manifest")
             ELSE [At(IF a = NoApply THEN "read_page" ELSE "begun") EXCEPT !.row = a.row]
  /\ UNCHANGED <<journal, budget>> /\ NoEffect

Begun ==
  /\ task.pc = "begun"
  /\ IF a.step = "prepared" /\ Obsolete(mem, a.rev) THEN Save(EndApply(mem), RowDone)
     ELSE /\ Goto(CASE a.step = "prepared" -> "decide" [] a.step = "named" -> "copy"
                    [] a.step = "copied" -> "finish")
          /\ UNCHANGED <<journal, budget>>
  /\ NoEffect

\* applyPathChange: the file against the remote text, then against the base.
Decide ==
  /\ task.pc = "decide"
  /\ UNCHANGED <<files, events, undone>> /\ ApplyFrame
  /\ CASE local = a.text -> /\ Save(CompleteApply(mem), RowDone)
                            /\ IF local = Absent THEN UNCHANGED shown ELSE Holds(a.rev)
       [] local # a.text /\ local = Absent ->
            Save(Expect(mem, a.text), Saw("write", Absent)) /\ UNCHANGED shown
       [] local # a.text /\ Clean(local) ->
            /\ IF a.text = Absent
               THEN task' = Saw("trash", local) /\ UNCHANGED <<journal, budget>>
               ELSE Save(Expect(mem, a.text), Saw("write", local))
            /\ UNCHANGED shown
       [] local # Absent /\ local # a.text /\ ~Clean(local) ->
            Save(NameCopy(mem, local), At("copy")) /\ UNCHANGED shown

\* Mutant: the write does not compare the file with what the step has seen.
WriteFile_Blind(t) ==
  /\ local' = t /\ Holds(a.rev) /\ Emit("save") /\ UNCHANGED <<copies, trashed>>

\* Vault.process, or Vault.create over no file: it writes only over `seen'.  No event is
\* sent for a text that was there already.
WriteFile(t) ==
  IF local = task.seen
  THEN /\ local' = t /\ Holds(a.rev) /\ UNCHANGED <<copies, trashed>>
       /\ IF local = t THEN UNCHANGED events ELSE Emit("save")
  ELSE /\ IF local = t THEN Holds(a.rev) ELSE UNCHANGED shown
       /\ UNCHANGED <<files, events>>

\* An apply that its base has outrun takes the text of the base from the file.
Undoes ==
  undone' = undone \cup {v \in {mem.base.rev} : Obsolete(mem, a.rev) /\ local' # local}

Copied == a.copy \in copies

\* Between the check of the copy and the write the journal is written: a copy that the
\* user has changed by then no longer holds what the write takes from the file.
Overwrites ==
  /\ local = task.seen /\ local # a.text
  /\ a.step = "copied" /\ ~Copied

\* A create, and a write after a copy, are read back; the compare-and-write
\* before one believes its own callback.
Write ==
  /\ task.pc = "write" /\ WriteFile(a.text)
  /\ mine' = IF Overwrites THEN mine \ {local} ELSE mine
  /\ LET written == local = task.seen
     IN Goto(IF task.seen = Absent \/ a.step = "copied"
             THEN (IF written THEN "written" ELSE "unwritten")
             ELSE (IF written THEN "complete" ELSE "refused"))
  /\ Undoes /\ UNCHANGED <<journal, budget, remote, knew, adopted>>

ReadBack ==
  /\ task.pc \in {"written", "unwritten"}
  /\ task' = IF local = a.text THEN At("complete")
             ELSE IF a.step # "copied" THEN At("refused")
             ELSE At(IF task.pc = "written" THEN "attend" ELSE "clear")
  /\ IF local = a.text THEN Holds(a.rev) ELSE UNCHANGED shown
  /\ UNCHANGED <<journal, budget, files, events, undone>> /\ ApplyFrame

\* A refused write: the text that is there now becomes the conflict copy.
RefusedWrite ==
  /\ task.pc = "refused"
  /\ ClearExpected(IF local = Absent THEN Idle ELSE Saw("conflict", local))
  /\ NoEffect

StartConflict ==
  /\ task.pc = "conflict"
  /\ Save(NameCopy(mem, task.seen), At("copy")) /\ NoEffect

\* TextVault.trash: the recheck, then the move of whatever the file is by then.
Trash ==
  /\ task.pc = "trash"
  /\ task' = IF local = task.seen THEN At("trashing")
             ELSE IF local = Absent THEN At("complete")
             ELSE IF a.step = "copied" THEN At("attend") ELSE Idle
  /\ UNCHANGED <<journal, budget>> /\ NoEffect

Moved == {local} \ {Absent}

MoveToTrash ==
  /\ task.pc = "trashing"
  /\ trashed' = trashed \cup Moved
  /\ IF local = Absent THEN UNCHANGED <<local, events>> ELSE local' = Absent /\ Emit("delete")
  /\ Goto(IF a.step = "copied" THEN "trashed" ELSE "complete")
  /\ Undoes /\ UNCHANGED <<copies, journal, budget, shown>> /\ ApplyFrame

\* confirmLocalTrash, after a conflict: nothing is there any more.
Trashed ==
  /\ task.pc = "trashed"
  /\ Goto(IF local = Absent THEN "complete" ELSE "attend")
  /\ UNCHANGED <<journal, budget>> /\ NoEffect

\* The effect is confirmed: the base follows, unless it is newer already.
Complete ==
  /\ task.pc = "complete"
  /\ IF Obsolete(mem, a.rev) THEN task' = Idle /\ UNCHANGED <<journal, budget>>
     ELSE Save(CompleteApply(mem), RowDone)
  /\ NoEffect

-----------------------------------------------------------------------------
\* A file has the name of the copy.
Named == \E c \in copies : c.at = a.copy.at

\* resumePending, step named: the copy is made once, from the text that was named.
CreateCopy ==
  /\ task.pc = "copy" /\ ~Named /\ local = a.copy.text
  /\ copies' = copies \cup {a.copy} /\ Goto("check")
  /\ UNCHANGED <<local, trashed, events, shown, undone, journal, budget>> /\ ApplyFrame

MarkCopy ==
  /\ task.pc \in {"copy", "check"} /\ Copied
  /\ Save(MarkCopied(mem), At("finish")) /\ NoEffect

\* The copy was edited, or its source before it could be copied.
CopyAttended ==
  /\ task.pc \in {"copy", "check"} /\ ~Copied
  /\ task.pc = "copy" /\ ~Named => local # a.copy.text
  /\ Attended /\ NoEffect

\* finishCopiedApply: only the text that is safe in the copy may go.
Finish ==
  /\ task.pc = "finish"
  /\ IF \/ ~Copied
        \/ local \notin {Absent, a.text, a.copy.text} /\ (a.text = Absent \/ ~Clean(local))
     THEN Attended
     ELSE IF a.text # Absent THEN Save(Expect(mem, a.text), Saw("write", local))
     ELSE /\ task' = Saw(IF local = Absent THEN "complete" ELSE "trash", local)
          /\ UNCHANGED <<journal, budget>>
  /\ NoEffect

\* A write that was refused after the copy.
AttendRefused ==
  /\ \/ task.pc = "clear" /\ ClearExpected(At("attend"))
     \/ task.pc = "attend" /\ Attended
  /\ NoEffect

ApplyStep ==
  \/ Rebase \/ Begin \/ Resume \/ Begun \/ Decide \/ Write \/ ReadBack \/ RefusedWrite \/ StartConflict
  \/ Trash \/ MoveToTrash \/ Trashed \/ Complete \/ CreateCopy \/ MarkCopy \/ CopyAttended \/ Finish \/ AttendRefused

=============================================================================
