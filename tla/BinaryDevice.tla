---------------------------- MODULE BinaryDevice ----------------------------
(***************************************************************************)
(* What a device keeps while it applies remote rows to a file whose bytes   *)
(* it does not decode: the file, the conflict copies beside it, the hidden  *)
(* recovery copies under .ai-bridge/pre-apply, and the journal's pending    *)
(* apply with its plan of copies.  The plan is named in the journal before   *)
(* a copy is made, and every copy is made before the file is touched.       *)
(*                                                                          *)
(* Rows are for the path To; a rename row moves the path From there.        *)
(* Obsidian has no atomic replacement for bytes, so the engine compares     *)
(* stat pairs: `touched' says which file was written since the engine took  *)
(* the pair it compares with.                                               *)
(***************************************************************************)
EXTENDS Integers, Sequences, FiniteSets

CONSTANTS
  Bytes,     \* what a file can hold
  Absent,    \* no file, or a tombstone
  MaxCopies, \* MAX_PENDING_CONFLICT_COPIES
  Scenes,    \* which of the four settings below are examined
  MaxEdits,  \* bound on the edits of the user
  MaxRows,   \* bound on the rows of the feed
  MaxStops   \* bound on restarts

ASSUME BinaryAssumption == Absent \notin Bytes /\ MaxCopies \in Nat

From == "from"
To == "to"
Paths == {From, To}

VARIABLES
  local,   \* the files
  visible, \* conflict copies, by the path, revision and recovery suffix in their name
  hidden,  \* recovery copies, by their bytes: "none", "fresh", or "old" after 7 days
  trash,   \* bytes in Obsidian's trash
  journal, \* confirmed bases, the pending apply and the cursor
  feed,    \* the vault's rows
  task,    \* where the engine is
  touched, \* paths written since the stat pair that the engine compares with
  clash,   \* another file has the path key of To
  scene,   \* "plain", "settings" (under .obsidian/), "inline" (text rows too) or "rename"
  budget,
  \* History variables: bytes that the user saved and did not overwrite; those saved in the
  \* window between the engine's last look and its write, or whose copy the user changed
  \* after the engine had found it there; what each path has held since the apply began;
  \* and whether the user has done anything since.
  mine, raced, held, meddled

copies == <<visible, hidden, trash>>
outside == <<feed, clash, scene, mine>>
vars == <<local, copies, journal, task, touched, outside, budget, raced, held, meddled>>

Exact == scene # "settings"

\* `seen' is what the engine compares the file with, `src' what it read of a rename's
\* source; `same' and `clean' are what it concluded from its first reads; `i' is the copy
\* it is at, and `next' where it goes then, or after the trash has taken a file.
Idle == [pc |-> "idle", seen |-> Absent, src |-> Absent, same |-> TRUE, clean |-> FALSE,
         i |-> 1, next |-> "none"]
At(pc) == [Idle EXCEPT !.pc = pc]
Goto(pc) == task' = At(pc)

NoApply == [row |-> 0, op |-> "none", rev |-> 0, bytes |-> Absent, step |-> "none",
            kind |-> "none", plan |-> <<>>]
Pending == journal.apply # NoApply
a == journal.apply
BaseOf(p) == journal.base[p]
Clean(p, bytes) == bytes # Absent /\ bytes = BaseOf(p).bytes
\* The sides of a rename that its row still has to change.
SourcePending == a.op = "rename" /\ BaseOf(From).rev \in 1..(a.row - 1)
DestinationPending == a.op # "rename" \/ BaseOf(To).rev < a.rev

Save(d, next) == journal' = d /\ task' = next
SaveApply(apply, next) == Save([journal EXCEPT !.apply = apply], next)

Unchanged == UNCHANGED <<local, copies, touched, outside, budget, raced, held, meddled>>
Spend(kind) == budget[kind] > 0 /\ budget' = [budget EXCEPT ![kind] = @ - 1]

SetLocal(p, bytes) ==
  /\ local' = [local EXCEPT ![p] = bytes]
  /\ held' = [held EXCEPT ![p] = @ \cup {bytes}]

-----------------------------------------------------------------------------
(* The vault's rows.  Both paths of a rename get the row as their revision. *)

Touches(v, p) == IF p = From THEN feed[v].op \in {"source", "rename"} ELSE feed[v].op # "source"
Revisions(p) == {v \in DOMAIN feed : Touches(v, p)} \cup {0}
HeadOf(p) == CHOOSE v \in Revisions(p) : \A w \in Revisions(p) : w <= v
ContentAt(p, v) ==
  IF v = 0 \/ feed[v].op = (IF p = From THEN "rename" ELSE "delete") THEN Absent
  ELSE feed[v].bytes
KindAt(v) == feed[v].kind

RemoteWrites ==
  /\ Len(feed) < MaxRows
  /\ \E op \in {"put", "delete", "rename"}, b \in Bytes \cup {Absent}, k \in {"blob", "text"} :
       /\ CASE op = "put" -> b # Absent
            [] op = "delete" -> b = Absent /\ ContentAt(To, HeadOf(To)) # Absent
            [] op = "rename" -> /\ b # Absent /\ b = ContentAt(From, HeadOf(From))
                                /\ ContentAt(To, HeadOf(To)) = Absent
       /\ k = "text" => scene = "inline" /\ op = "put"
       /\ feed' = Append(feed, [op |-> op, bytes |-> b, kind |-> k])
  /\ UNCHANGED <<local, copies, journal, task, touched, clash, scene, budget, mine, raced, held, meddled>>

-----------------------------------------------------------------------------
(* The user, and time.                                                      *)

UserEdit(p) ==
  /\ Spend("edits") /\ (p = From => scene = "rename")
  /\ \E b \in (Bytes \cup {Absent}) \ {local[p]} :
       /\ SetLocal(p, b) /\ mine' = ((mine \ {local[p]}) \cup {b}) \ {Absent}
       /\ raced' = IF p = To /\ task.pc \in {"modify", "write"} THEN raced \cup {b} ELSE raced
  /\ touched' = touched \cup {p} /\ meddled' = TRUE
  /\ UNCHANGED <<copies, journal, task, feed, clash, scene>>

\* The engine has found the copies, and has yet to write over what they save.
CopiesFound == task.pc \in {"last_look", "destination", "modify", "write"}

UserEditsCopy ==
  /\ Spend("edits")
  /\ \E n \in {m \in DOMAIN visible : visible[m] # Absent} :
       \E b \in (Bytes \cup {Absent}) \ {visible[n]} :
         /\ visible' = [visible EXCEPT ![n] = b]
         /\ mine' = ((mine \ {visible[n]}) \cup {b}) \ {Absent}
         /\ raced' = IF CopiesFound /\ visible[n] = task.seen THEN raced \cup {visible[n]}
                     ELSE raced
  /\ meddled' = TRUE
  /\ UNCHANGED <<local, hidden, trash, journal, task, touched, feed, clash, scene, held>>

\* A file appears whose path key is that of To.
UserAddsClash ==
  /\ ~clash /\ scene = "plain" /\ Spend("edits") /\ clash' = TRUE /\ meddled' = TRUE
  /\ UNCHANGED <<local, copies, journal, task, touched, feed, scene, mine, raced, held>>

\* Seven days pass between two cycles, while an apply is pending.
WeekPasses ==
  /\ task = Idle /\ Pending
  /\ hidden' = [b \in Bytes |-> IF hidden[b] = "fresh" THEN "old" ELSE hidden[b]]
  /\ UNCHANGED <<local, visible, trash, journal, task, touched, outside, budget, raced, held, meddled>>

\* The plugin is closed, or `effect' refuses because of the coexistence fence or an
\* iCloud placeholder: the engine stops where it is, and the journal stays.
Interrupted ==
  /\ task # Idle /\ Spend("stops") /\ task' = Idle
  /\ UNCHANGED <<local, copies, journal, touched, outside, raced, held, meddled>>

Init ==
  /\ scene \in Scenes /\ clash \in {FALSE} \cup (IF scene = "plain" THEN {TRUE} ELSE {})
  /\ feed \in {<<>>} \cup {<<[op |-> IF scene = "rename" THEN "source" ELSE "put",
                              bytes |-> b, kind |-> "blob"]>> : b \in Bytes}
  /\ local \in [Paths -> Bytes \cup {Absent}] /\ (scene # "rename" => local[From] = Absent)
  /\ journal = [base |-> [p \in Paths |-> [rev |-> HeadOf(p), bytes |-> ContentAt(p, HeadOf(p))]],
                apply |-> NoApply, cursor |-> Len(feed)]
  /\ visible = <<>> /\ hidden = [b \in Bytes |-> "none"] /\ trash = {}
  /\ task = Idle /\ touched = {}
  /\ budget = [edits |-> MaxEdits, stops |-> MaxStops]
  /\ mine = {local[p] : p \in Paths} \ {Absent} /\ raced = {}
  /\ held = [p \in Paths |-> {local[p]}] /\ meddled = FALSE

-----------------------------------------------------------------------------
(* The plan of copies.                                                      *)

Conflict(p, rev, suffix, hash, mode) ==
  [purpose |-> "conflict", source |-> p, mode |-> mode, hash |-> hash,
   name |-> <<p, rev, suffix>>]
PreApply(p, hash) ==
  [purpose |-> "pre_apply", source |-> p, mode |-> "local", hash |-> hash,
   name |-> <<p, 0, hash>>]

Copies == {a.plan[i] : i \in DOMAIN a.plan}
CopiesOf(p, purpose) == {c \in Copies : c.source = p /\ c.purpose = purpose}
Covers(p, purpose, hash) == \E c \in CopiesOf(p, purpose) : c.hash = hash

Saved(c) ==
  IF c.purpose = "pre_apply" THEN (IF hidden[c.hash] = "none" THEN Absent ELSE c.hash)
  ELSE IF c.name \in DOMAIN visible THEN visible[c.name] ELSE Absent
Verified == \A c \in Copies : Saved(c) = c.hash

\* The retention clock of every recovery copy of the plan starts again.
Refreshed == [b \in Bytes |-> IF \E c \in Copies : c.purpose = "pre_apply" /\ c.hash = b
                              THEN "fresh" ELSE hidden[b]]

\* A copy is created over no file only.
AddVisible(made) ==
  visible' = [n \in DOMAIN visible \cup DOMAIN made |->
                IF n \in DOMAIN made /\ (n \notin DOMAIN visible \/ visible[n] = Absent)
                THEN made[n] ELSE visible[n]]

Named(plan, kind) == [a EXCEPT !.step = "named", !.plan = plan, !.kind = kind]

\* resumePending, step named: nothing is copied unless everything can be.
PlanHolds ==
  \A c \in Copies :
    \/ Saved(c) = c.hash
    \/ Saved(c) = Absent /\ (c.mode = "local" => local[c.source] = c.hash)

CheckPlan ==
  /\ task.pc = "check"
  /\ task' = IF PlanHolds THEN [At("persist") EXCEPT !.next = "copied"] ELSE At("attend")
  /\ UNCHANGED journal /\ Unchanged

TheCopy == a.plan[task.i]
NextCopy == task' = [task EXCEPT !.i = @ + 1]
PersistFrame == UNCHANGED <<local, trash, journal, touched, outside, raced, meddled>>

\* A copy that is there is kept, and its retention clock started again.
KeepCopy ==
  /\ task.pc = "persist" /\ task.i <= Len(a.plan) /\ Saved(TheCopy) # Absent
  /\ IF Saved(TheCopy) # TheCopy.hash THEN Goto("attend") /\ UNCHANGED hidden
     ELSE /\ NextCopy
          /\ hidden' = IF TheCopy.purpose = "pre_apply" /\ task.next = "copied"
                       THEN [hidden EXCEPT ![TheCopy.hash] = "fresh"] ELSE hidden
  /\ UNCHANGED <<visible, held, budget>> /\ PersistFrame

MakeCopy ==
  /\ task.pc = "persist" /\ task.i <= Len(a.plan) /\ Saved(TheCopy) = Absent
  /\ TheCopy.mode = "local" => local[TheCopy.source] = TheCopy.hash
  /\ IF TheCopy.purpose = "pre_apply"
     THEN hidden' = [hidden EXCEPT ![TheCopy.hash] = "fresh"] /\ UNCHANGED visible
     ELSE AddVisible([n \in {TheCopy.name} |-> TheCopy.hash]) /\ UNCHANGED hidden
  /\ held' = IF TheCopy.mode = "remote" THEN [held EXCEPT ![To] = @ \cup {TheCopy.hash}] ELSE held
  /\ NextCopy /\ UNCHANGED budget /\ PersistFrame

\* The file changed before its copy was made, or the pinned bytes are pruned.
NoCopy ==
  /\ task.pc = "persist" /\ task.i <= Len(a.plan) /\ Saved(TheCopy) = Absent
  /\ IF TheCopy.mode = "local" THEN local[TheCopy.source] # TheCopy.hash
     ELSE a.rev < HeadOf(To)
  /\ Goto("attend") /\ UNCHANGED <<visible, hidden, held, budget>> /\ PersistFrame

PlanCopied ==
  /\ task.pc = "persist" /\ task.i > Len(a.plan)
  /\ SaveApply([a EXCEPT !.step = "copied"], [task EXCEPT !.pc = task.next, !.i = 1, !.next = "none"])
  /\ Unchanged

\* preserveSettingsWriteRace: every version that was observed becomes a visible copy,
\* and the apply ends.
Preserve(versions) ==
  /\ AddVisible([n \in {<<To, a.rev, b>> : b \in versions \ {Absent}} |-> n[3]])
  /\ Goto("throw")

PlanStep == CheckPlan \/ KeepCopy \/ MakeCopy \/ NoCopy \/ PlanCopied
=============================================================================
