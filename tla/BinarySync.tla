----------------------------- MODULE BinarySync -----------------------------
(***************************************************************************)
(* A device that applies remote rows to a file of bytes while its user      *)
(* edits the file and the copies, other devices write, revisions are pruned,*)
(* weeks pass and the plugin is restarted.                                  *)
(***************************************************************************)
EXTENDS BinaryRename

EngineStep ==
  \/ Start \/ Resume \/ Advance \/ Stop \/ PlanStep
  \/ Rebase \/ Fetched \/ Look \/ Second \/ Covered \/ Extended
  \/ LastLook \/ Modify \/ Write \/ Create \/ ReadBack \/ Copied
  \/ TrashLook \/ ConflictLook \/ TrashGuard \/ Trash \/ Trashed
  \/ InlineLook \/ Inline \/ InlineFetched \/ InlineReplace \/ InlineCreate
  \/ Rename \/ RenameFetched \/ RenameGuard \/ Move \/ Moved
  \/ FinishFetched \/ Destination \/ Source

Next ==
  \/ EngineStep
  \/ RemoteWrites \/ UserEdit(From) \/ UserEdit(To) \/ UserEditsCopy \/ UserAddsClash
  \/ WeekPasses \/ Interrupted

Spec == Init /\ [][Next]_vars

-----------------------------------------------------------------------------
(* Properties.                                                              *)

\* Where the user finds bytes again: files, conflict copies, the trash, the vault.
Findable ==
  {local[p] : p \in Paths} \cup {visible[n] : n \in DOMAIN visible} \cup trash
    \cup {feed[v].bytes : v \in DOMAIN feed}

\* No apply loses bytes that the user saved, through any edit, restart, rebase or prune,
\* but for those saved between the last look and the write that follows it, and those whose
\* only copy he changed himself after the engine had found it there; and whatever a write or
\* a replacement's trash takes from a file has a recovery copy as young as the attempt.
\* (extendBinaryRecovery, applyBlobChange, finishBinaryRename)
NoBytesLost ==
  /\ mine \subseteq Findable \cup raced
  /\ task.pc = "modify" \/ (task.pc = "trash" /\ a.op = "put") => hidden[task.seen] = "fresh"

\* The journal never confirms for a path what the path did not hold, or have a copy for,
\* since the apply began.  (completeApply, completeRenameApply)
BaseConfirmed ==
  [][\A p \in Paths : journal'.base[p] # journal.base[p] => journal'.base[p].bytes \in held[p]]_vars

\* The stops that no user brought about: an apply that is interrupted once the trash or
\* the create of an inline replacement is done; bytes that an interrupted apply wrote, and
\* the vault deleted before the apply was resumed; a plan with no room for the copies of
\* one version more; a remote copy whose revision is pruned; a rename whose destination
\* was rewritten or deleted since.
KnownStop ==
  \/ a.kind = "text" /\ local[To] \in {Absent} \cup {feed[v].bytes : v \in a.row..a.rev}
  \/ a.op = "delete" /\ local[To] \in {feed[v].bytes : v \in a.row..(a.rev - 1)}
  \/ Len(a.plan) + 2 > MaxCopies
  \/ a.op # "delete" /\ a.rev < HeadOf(To) /\ \E c \in Copies : c.mode = "remote"
  \/ a.op = "rename" /\ a.row < HeadOf(To)

\* An apply only stops for attention, or throws, when the user has changed a file or a
\* copy since it began, or in one of the known cases.  (attend, recordApplyFailure)
StopsOnlyForEdits == task.pc \in {"attend", "throw"} => meddled \/ KnownStop
=============================================================================
