--------------------------- MODULE BinarySyncProofs ---------------------------
(***************************************************************************)
(* The device on bytes, for any bytes, edits, rows, limits and restarts.    *)
(*                                                                          *)
(* NoBytesLost only fails where the host writes over a file, and there      *)
(* nothing in the state says that the bytes are kept: the copies were found *)
(* some steps before.  So the invariant says, of the bytes the task has     *)
(* seen, what it knows of them at each step: that they are clean and then   *)
(* in the vault, or that their copy was found (SeenInv), and that recovery  *)
(* copies do not age while a task is under way (HiddenInv).                 *)
(***************************************************************************)
EXTENDS BinarySync, WellFoundedInduction, TLAPS

-----------------------------------------------------------------------------
(* The state.                                                               *)

\* What a path may hold, and the steps of the engine.
B0 == Bytes \cup {Absent}
Pcs == {"idle", "resume", "check", "persist", "copied", "attend", "throw", "done",
        "fetch", "look", "second", "covered", "extended", "last_look",
        "modify", "write", "create", "written",
        "trash_look", "conflict_look", "trash", "trashing", "trashed",
        "inline", "inline_look", "inline_fetch", "inline_replace", "inline_create",
        "rename", "rename_fetch", "rename_guard", "moving", "moved",
        "finish_fetch", "destination", "rename_source"}
TaskSet == [pc : Pcs, seen : B0, src : B0, same : BOOLEAN, clean : BOOLEAN, i : Nat \ {0},
            next : {"none", "copied", "extended", "throw", "attend"}]

\* Names of copies, copies of a plan, the apply and the journal, and rows of the feed.
NameSet == Paths \X Nat \X B0
CopySet == [purpose : {"conflict", "pre_apply"}, source : Paths, mode : {"local", "remote"},
            hash : Bytes, name : NameSet]
ApplySet == [row : Nat, op : {"none", "put", "delete", "rename"}, rev : Nat, bytes : B0,
             step : {"none", "prepared", "named", "copied"}, kind : {"none", "blob", "text"},
             plan : Seq(CopySet)]
BaseSet == [Paths -> [rev : Nat, bytes : B0]]
JournalSet == [base : BaseSet, apply : ApplySet, cursor : Nat]
RowSet == [op : {"put", "delete", "rename", "source"}, bytes : B0, kind : {"blob", "text"}]

\* What each variable holds.
TypeInv ==
  /\ local \in [Paths -> B0] /\ held \in [Paths -> SUBSET B0]
  /\ hidden \in [Bytes -> {"none", "fresh", "old"}]
  /\ DOMAIN visible \subseteq NameSet /\ \A n \in DOMAIN visible : visible[n] \in B0
  /\ journal \in JournalSet /\ feed \in Seq(RowSet) /\ task \in TaskSet
  /\ mine \subseteq Bytes

(* The vault's rows, and what the journal took from them. *)
FeedBytes == {feed[v].bytes : v \in DOMAIN feed}
FeedInv ==
  /\ clash => scene = "plain"
  /\ \A v \in DOMAIN feed :
       /\ feed[v].op \in {"put", "rename"} => feed[v].bytes # Absent
       /\ feed[v].op = "delete" => feed[v].bytes = Absent
       /\ feed[v].op \in {"rename", "source"} => scene = "rename"
       /\ feed[v].op = "source" => v <= journal.cursor
  /\ \A p \in Paths : BaseOf(p).bytes \in {Absent} \cup FeedBytes

\* What the journal's apply is made of, once there is one.
ApplyInv ==
  Pending =>
    /\ a.op \in {"put", "delete", "rename"}
    /\ a.row \in DOMAIN feed /\ a.rev \in DOMAIN feed
    /\ a.op = "delete" <=> a.bytes = Absent
    /\ a.bytes \in {Absent} \cup FeedBytes
    /\ a.op = "rename" => scene = "rename"
    /\ a.step \in {"prepared", "named", "copied"}
    /\ a.step = "prepared" <=> a.plan = <<>>

(* The copies of the plan, and the names that copies have. *)
Remote == \E c \in Copies : c.mode = "remote"
PlanInv ==
  /\ \A c \in Copies : c.mode = "remote" =>
       /\ Copies = {c} /\ a.op = "put" /\ a.kind = "blob"
       /\ c.hash = a.bytes /\ c.purpose = "conflict"
       /\ c.name \in DOMAIN visible => a.bytes \in held[To]
  /\ \A c \in Copies : c.name[1] = To /\ c.name[3] = Absent => c.name[2] <= a.rev
  /\ \A n \in DOMAIN visible : n[1] = To /\ n[3] = Absent =>
       n[2] <= BaseOf(To).rev \/ \E c \in Copies : c.purpose = "conflict" /\ c.name = n

\* A path holds what it has held, and the user's bytes are kept.
KeptInv ==
  /\ \A p \in Paths : local[p] \in held[p]
  /\ mine \subseteq Findable \cup raced

DataInv == TypeInv /\ FeedInv /\ ApplyInv /\ PlanInv /\ KeptInv

(* Which apply a step belongs to. *)
Extending == task.pc = "persist" /\ task.next = "extended"
PcInv ==
  /\ task.pc = "done" => ~Pending
  /\ ~Pending => task.pc \in {"idle", "done"}
  /\ a.op # "rename" /\ Pending /\ (a.plan # <<>> \/ task.pc \notin {"idle", "resume"}) =>
       a.rev > BaseOf(To).rev
  /\ task.pc \in {"fetch", "inline", "inline_look", "inline_fetch", "inline_replace", "inline_create",
                  "covered", "extended", "last_look"} \/ Extending => a.op = "put"
  /\ task.pc \in {"look", "second"} => a.op \in {"put", "delete"}
  /\ task.pc \in {"look", "second"} /\ a.op = "delete" => a.plan = <<>>
  /\ task.pc \in {"modify", "write", "create", "written"} => a.op \in {"put", "rename"}
  /\ task.pc \in {"trash_look", "conflict_look"} => a.op = "delete"
  /\ task.pc \in {"rename", "rename_fetch", "rename_guard", "moving", "moved",
                  "finish_fetch", "destination", "rename_source"} => a.op = "rename"
  /\ task.pc \in {"inline_look", "rename"} => a.plan = <<>>
  /\ task.pc \in {"check", "persist", "covered", "extended"} => a.plan # <<>>
  /\ task.pc = "persist" => task.next \in {"copied", "extended", "throw"}
  /\ task.pc \in {"trash", "trashing", "trashed"} => task.next \in {"throw", "attend"}
  /\ Remote => task.pc \in {"idle", "resume", "check", "persist", "copied", "attend", "throw"} /\ ~Extending

(* Recovery copies do not age under a task, but for those that its plan will make fresh. *)
Protected == {c.hash : c \in {d \in Copies : d.purpose = "pre_apply"}}
Early == {"idle", "resume", "check", "copied", "inline", "attend", "throw", "done"}
Late == IF task.pc = "persist" THEN task.next = "extended" ELSE task.pc \notin Early
HiddenInv ==
  /\ task.pc \notin {"idle", "done"} /\ a.op # "delete" =>
       \A b \in Bytes : hidden[b] = "old" => b \in Protected
  /\ Late /\ a.op # "delete" => \A b \in Bytes : hidden[b] # "old"
  /\ task.pc \in {"last_look", "modify", "inline_fetch", "inline_replace"}
       \/ (task.pc = "trash" /\ a.op = "put") =>
        task.seen \in Bytes /\ hidden[task.seen] = "fresh"

(* What the task knows of the bytes it has seen. *)
KeptBytes ==
  {Absent} \cup {visible[n] : n \in DOMAIN visible} \cup trash \cup FeedBytes \cup raced
SeenInv ==
  /\ task.pc = "second" =>
       /\ task.clean => Clean(To, task.seen)
       /\ To \notin touched => local[To] = task.seen
  /\ task.pc \in {"covered", "extended"} \/ Extending =>
       (task.same /\ task.clean => Clean(To, task.seen))
  /\ task.pc \in {"second", "covered", "extended"} \/ Extending => task.seen # Absent
  /\ task.pc = "create" => task.seen = Absent
  /\ CopiesFound => task.seen \in KeptBytes
  /\ task.pc \in {"modify", "write"} => local[To] \in {Absent, task.seen} \cup raced

(* What the task will confirm. *)
RenameInv ==
  /\ a.op = "rename"
       /\ task.pc \in {"destination", "create", "modify", "write", "written", "rename_source"} =>
       task.src \in held[From]
  /\ a.op = "rename" /\ task.pc \in {"rename_source", "trash", "trashing", "trashed"}
       /\ DestinationPending => a.bytes \in held[To]

TaskInv == PcInv /\ HiddenInv /\ SeenInv /\ RenameInv
IInv == DataInv /\ TaskInv

-----------------------------------------------------------------------------
(* Helpers.                                                                 *)

\* What depends on the journal alone.
LEMMA SameJournal ==
  ASSUME journal' = journal
  PROVE  /\ a' = a /\ Pending' = Pending /\ Copies' = Copies /\ Remote' = Remote
         /\ Protected' = Protected /\ DestinationPending' = DestinationPending
<1>1. a' = a
  BY DEF a
<1>2. Copies' = Copies
  BY <1>1 DEF Copies
<1>3. Remote' = Remote /\ Protected' = Protected
  BY <1>2 DEF Remote, Protected
<1>4. Pending' = Pending /\ DestinationPending' = DestinationPending
  BY <1>1 DEF Pending, DestinationPending, BaseOf, a
<1>5. QED
  BY <1>1, <1>2, <1>3, <1>4

\* A task starts anew, or goes on.
Afresh(pc) ==
  /\ task' \in TaskSet /\ task'.pc = pc
  /\ task'.seen = Absent /\ task'.src = Absent /\ task'.same = TRUE /\ task'.clean = FALSE
  /\ task'.i = 1 /\ task'.next = "none"
Onward(pc) ==
  /\ task' \in TaskSet /\ task'.pc = pc
  /\ task'.seen = task.seen /\ task'.src = task.src
  /\ task'.same = task.same /\ task'.clean = task.clean
  /\ task'.i = task.i /\ task'.next = task.next

\* What a task starts anew with.
LEMMA AtTypes ==
  ASSUME NEW pc \in Pcs
  PROVE  /\ At(pc) = [pc |-> pc, seen |-> Absent, src |-> Absent, same |-> TRUE,
                      clean |-> FALSE, i |-> 1, next |-> "none"]
         /\ At(pc) \in TaskSet
<1>1. Absent \in B0
  BY DEF B0
<1>2. At(pc) = [Idle EXCEPT !.pc = pc]
  BY DEF At
<1>3. At(pc) = [pc |-> pc, seen |-> Absent, src |-> Absent, same |-> TRUE,
                clean |-> FALSE, i |-> 1, next |-> "none"]
  BY <1>2 DEF Idle
<1>4. [pc |-> pc, seen |-> Absent, src |-> Absent, same |-> TRUE,
       clean |-> FALSE, i |-> 1, next |-> "none"] \in TaskSet
  BY <1>1 DEF TaskSet
<1>5. QED
  BY <1>3, <1>4
OnTo(pc, next) ==
  /\ task' \in TaskSet /\ task'.pc = pc
  /\ task'.seen = task.seen /\ task'.src = task.src
  /\ task'.same = task.same /\ task'.clean = task.clean
  /\ task'.i = task.i /\ task'.next = next

\* The idle task is a task.
LEMMA IdleTypes == "idle" \in Pcs /\ Idle = At("idle")
<1>1. "idle" \in Pcs
  BY DEF Pcs
<1>2. At("idle") = [pc |-> "idle", seen |-> Absent, src |-> Absent, same |-> TRUE,
                    clean |-> FALSE, i |-> 1, next |-> "none"]
  BY <1>1, AtTypes
<1>3. QED
  BY <1>1, <1>2 DEF Idle

\* What each form of assignment to the task leaves of it.
LEMMA TaskTypes ==
  ASSUME task \in TaskSet, NEW pc \in Pcs
  PROVE  /\ task' = At(pc) => Afresh(pc)
         /\ task' = [task EXCEPT !.pc = pc] => Onward(pc)
         /\ \A next \in {"throw", "attend", "none"} :
              task' = [task EXCEPT !.pc = pc, !.next = next] => OnTo(pc, next)
<1>4. task' = At(pc) => Afresh(pc)
  BY AtTypes DEF Afresh
<1>5. task' = [task EXCEPT !.pc = pc] => Onward(pc)
  <2> DEFINE on == [task EXCEPT !.pc = pc]
  <2>1. on \in TaskSet
    BY DEF TaskSet
  <2>2. /\ on.pc = pc /\ on.seen = task.seen /\ on.src = task.src /\ on.same = task.same
        /\ on.clean = task.clean /\ on.i = task.i /\ on.next = task.next
    BY DEF TaskSet
  <2> HIDE DEF on
  <2>3. QED
    BY <2>1, <2>2 DEF Onward, on
<1>6. \A next \in {"throw", "attend", "none"} :
        task' = [task EXCEPT !.pc = pc, !.next = next] => OnTo(pc, next)
  <2> SUFFICES ASSUME NEW next \in {"throw", "attend", "none"},
                      task' = [task EXCEPT !.pc = pc, !.next = next]
               PROVE  OnTo(pc, next)
    OBVIOUS
  <2> DEFINE on == [task EXCEPT !.pc = pc, !.next = next]
  <2>1. on \in TaskSet
    BY DEF TaskSet
  <2>2. /\ on.pc = pc /\ on.seen = task.seen /\ on.src = task.src /\ on.same = task.same
        /\ on.clean = task.clean /\ on.i = task.i /\ on.next = next
    BY DEF TaskSet
  <2> HIDE DEF on
  <2>3. task' = on
    BY DEF on
  <2>4. QED
    BY <2>1, <2>2, <2>3 DEF OnTo
<1>7. QED
  BY <1>4, <1>5, <1>6

\* A step that changes the task alone keeps what is said of the data.
LEMMA TaskStep ==
  ASSUME DataInv, UNCHANGED <<local, copies, journal, feed, clash, scene, mine, raced, held>>,
         task' \in TaskSet
  PROVE  DataInv'
<1>1. /\ a' = a /\ Pending' = Pending /\ Copies' = Copies /\ Remote' = Remote
      /\ FeedBytes' = FeedBytes /\ Findable' = Findable
  BY SameJournal DEF FeedBytes, Findable, copies
<1>2. TypeInv'
  BY DEF DataInv, TypeInv, copies
<1>3. FeedInv'
  BY <1>1 DEF DataInv, FeedInv, BaseOf, FeedBytes
<1>4. ApplyInv'
  BY <1>1 DEF DataInv, ApplyInv
<1>5. PlanInv'
  BY <1>1 DEF DataInv, PlanInv, BaseOf, copies
<1>6. KeptInv'
  BY <1>1 DEF DataInv, KeptInv
<1>7. QED
  BY <1>2, <1>3, <1>4, <1>5, <1>6 DEF DataInv

\* Bytes stay kept while copies, trash and rows stay.
LEMMA SameKept ==
  ASSUME UNCHANGED <<visible, trash, feed, raced>>
  PROVE  KeptBytes' = KeptBytes
BY DEF KeptBytes, FeedBytes

\* Nothing changes but the task.
SameData ==
  /\ DataInv'
  /\ a' = a /\ Pending' = Pending /\ Remote' = Remote /\ Protected' = Protected
  /\ DestinationPending' = DestinationPending /\ KeptBytes' = KeptBytes

\* A step that changes the task alone keeps what is said of the data.
LEMMA DataStays ==
  ASSUME IInv, UNCHANGED <<local, copies, journal, feed, clash, scene, mine, raced, held>>,
         task' \in TaskSet
  PROVE  SameData
BY TaskStep, SameJournal, SameKept DEF IInv, SameData, copies

\* The plan is checked before a copy is made.
LEMMA CheckPlanStep == ASSUME IInv, CheckPlan PROVE IInv'
<1>1. task.pc = "check" /\ task \in TaskSet
  BY DEF CheckPlan, IInv, DataInv, TypeInv
<1>2. (task' \in TaskSet /\ task'.pc = "persist" /\ task'.next = "copied") \/ Afresh("attend")
  <2>1. {"persist", "attend"} \subseteq Pcs
    BY DEF Pcs
  <2>2. task' = [At("persist") EXCEPT !.next = "copied"] =>
          task' \in TaskSet /\ task'.pc = "persist" /\ task'.next = "copied"
    BY <2>1, AtTypes DEF TaskSet
  <2>3. QED
    BY <1>1, <2>1, <2>2, TaskTypes DEF CheckPlan, Goto
<1>3. UNCHANGED <<local, copies, journal, touched, feed, clash, scene, mine, raced, held>>
  BY DEF CheckPlan, Unchanged, outside
<1>4. SameData
  BY <1>2, <1>3, DataStays DEF Afresh, Onward, OnTo
<1>5. PcInv'
  BY <1>1, <1>2, <1>3, <1>4 DEF Afresh, Onward, OnTo, SameData, IInv, TaskInv, PcInv, BaseOf, Extending
<1>6. HiddenInv'
  BY <1>1, <1>2, <1>3, <1>4 DEF Afresh, Onward, OnTo, SameData, IInv, TaskInv, HiddenInv, Late, Early, copies
<1>7. SeenInv'
  BY <1>1, <1>2, <1>3, <1>4 DEF Afresh, Onward, OnTo, SameData, IInv, TaskInv, SeenInv, CopiesFound, Extending, Clean, BaseOf
<1>8. RenameInv'
  BY <1>1, <1>2, <1>3, <1>4 DEF Afresh, Onward, OnTo, SameData, IInv, TaskInv, RenameInv
<1>9. QED
  BY <1>4, <1>5, <1>6, <1>7, <1>8 DEF SameData, IInv, TaskInv

\* The file is compared after its plan was extended.
LEMMA ExtendedStep == ASSUME IInv, Extended PROVE IInv'
<1>1. task.pc = "extended" /\ task \in TaskSet
  BY DEF Extended, IInv, DataInv, TypeInv
<1>2. Onward("covered") \/ Afresh("throw")
  <2>1. {"covered", "throw"} \subseteq Pcs
    BY DEF Pcs
  <2>2. QED
    BY <1>1, <2>1, TaskTypes DEF Extended, Keep, Goto
<1>3. UNCHANGED <<local, copies, journal, touched, feed, clash, scene, mine, raced, held>>
  BY DEF Extended, Unchanged, outside
<1>4. SameData
  BY <1>2, <1>3, DataStays DEF Afresh, Onward, OnTo
<1>5. PcInv'
  BY <1>1, <1>2, <1>3, <1>4 DEF Afresh, Onward, OnTo, SameData, IInv, TaskInv, PcInv, BaseOf, Extending
<1>6. HiddenInv'
  BY <1>1, <1>2, <1>3, <1>4 DEF Afresh, Onward, OnTo, SameData, IInv, TaskInv, HiddenInv, Late, Early, copies
<1>7. SeenInv'
  BY <1>1, <1>2, <1>3, <1>4 DEF Afresh, Onward, OnTo, SameData, IInv, TaskInv, SeenInv, CopiesFound, Extending, Clean, BaseOf
<1>8. RenameInv'
  BY <1>1, <1>2, <1>3, <1>4 DEF Afresh, Onward, OnTo, SameData, IInv, TaskInv, RenameInv
<1>9. QED
  BY <1>4, <1>5, <1>6, <1>7, <1>8 DEF SameData, IInv, TaskInv

\* The source of a rename is compared.
LEMMA RenameFetchedStep == ASSUME IInv, RenameFetched PROVE IInv'
<1>1. task.pc = "rename_fetch" /\ task \in TaskSet
  BY DEF RenameFetched, IInv, DataInv, TypeInv
<1>2. Onward("rename_guard") \/ Afresh("throw")
  <2>1. {"rename_guard", "throw"} \subseteq Pcs
    BY DEF Pcs
  <2>2. QED
    BY <1>1, <2>1, TaskTypes DEF RenameFetched, Keep, Goto
<1>3. UNCHANGED <<local, copies, journal, touched, feed, clash, scene, mine, raced, held>>
  BY DEF RenameFetched, Unchanged, outside
<1>4. SameData
  BY <1>2, <1>3, DataStays DEF Afresh, Onward, OnTo
<1>5. PcInv'
  BY <1>1, <1>2, <1>3, <1>4 DEF Afresh, Onward, OnTo, SameData, IInv, TaskInv, PcInv, BaseOf, Extending
<1>6. HiddenInv'
  BY <1>1, <1>2, <1>3, <1>4 DEF Afresh, Onward, OnTo, SameData, IInv, TaskInv, HiddenInv, Late, Early, copies
<1>7. SeenInv'
  BY <1>1, <1>2, <1>3, <1>4 DEF Afresh, Onward, OnTo, SameData, IInv, TaskInv, SeenInv, CopiesFound, Extending, Clean, BaseOf
<1>8. RenameInv'
  BY <1>1, <1>2, <1>3, <1>4 DEF Afresh, Onward, OnTo, SameData, IInv, TaskInv, RenameInv
<1>9. QED
  BY <1>4, <1>5, <1>6, <1>7, <1>8 DEF SameData, IInv, TaskInv

\* A rename moves a clean file, or goes the plain way.
LEMMA RenameGuardStep == ASSUME IInv, RenameGuard PROVE IInv'
<1>1. task.pc = "rename_guard" /\ task \in TaskSet
  BY DEF RenameGuard, IInv, DataInv, TypeInv
<1>2. Onward("moving") \/ Afresh("finish_fetch")
  <2>1. {"moving", "finish_fetch"} \subseteq Pcs
    BY DEF Pcs
  <2>2. QED
    BY <1>1, <2>1, TaskTypes DEF RenameGuard, Keep, Goto
<1>3. UNCHANGED <<local, copies, journal, touched, feed, clash, scene, mine, raced, held>>
  BY DEF RenameGuard, Unchanged, outside
<1>4. SameData
  BY <1>2, <1>3, DataStays DEF Afresh, Onward, OnTo
<1>5. PcInv'
  BY <1>1, <1>2, <1>3, <1>4 DEF Afresh, Onward, OnTo, SameData, IInv, TaskInv, PcInv, BaseOf, Extending
<1>6. HiddenInv'
  BY <1>1, <1>2, <1>3, <1>4 DEF Afresh, Onward, OnTo, SameData, IInv, TaskInv, HiddenInv, Late, Early, copies
<1>7. SeenInv'
  BY <1>1, <1>2, <1>3, <1>4 DEF Afresh, Onward, OnTo, SameData, IInv, TaskInv, SeenInv, CopiesFound, Extending, Clean, BaseOf
<1>8. RenameInv'
  BY <1>1, <1>2, <1>3, <1>4 DEF Afresh, Onward, OnTo, SameData, IInv, TaskInv, RenameInv
<1>9. QED
  BY <1>4, <1>5, <1>6, <1>7, <1>8 DEF SameData, IInv, TaskInv

\* A tombstone looks at a clean file once more.
LEMMA TrashLookStep == ASSUME IInv, TrashLook PROVE IInv'
<1>1. task.pc = "trash_look" /\ task \in TaskSet /\ a.op = "delete"
  BY DEF TrashLook, IInv, DataInv, TypeInv, TaskInv, PcInv
<1>2. OnTo("trash", "throw") \/ Afresh("throw")
  <2>1. {"trash", "throw"} \subseteq Pcs
    BY DEF Pcs
  <2>2. QED
    BY <1>1, <2>1, TaskTypes DEF TrashLook, Goto
<1>3. UNCHANGED <<local, copies, journal, touched, feed, clash, scene, mine, raced, held>>
  BY DEF TrashLook, Unchanged, outside
<1>4. SameData
  BY <1>2, <1>3, DataStays DEF Afresh, Onward, OnTo
<1>5. PcInv'
  BY <1>1, <1>2, <1>3, <1>4 DEF Afresh, Onward, OnTo, SameData, IInv, TaskInv, PcInv, BaseOf, Extending
<1>6. HiddenInv'
  BY <1>1, <1>2, <1>3, <1>4 DEF Afresh, Onward, OnTo, SameData, IInv, TaskInv, HiddenInv, Late, Early, copies
<1>7. SeenInv'
  BY <1>1, <1>2, <1>3, <1>4 DEF Afresh, Onward, OnTo, SameData, IInv, TaskInv, SeenInv, CopiesFound, Extending, Clean, BaseOf
<1>8. RenameInv'
  BY <1>1, <1>2, <1>3, <1>4 DEF Afresh, Onward, OnTo, SameData, IInv, TaskInv, RenameInv
<1>9. QED
  BY <1>4, <1>5, <1>6, <1>7, <1>8 DEF SameData, IInv, TaskInv

\* The file is compared before the trash takes it.
LEMMA TrashGuardStep == ASSUME IInv, TrashGuard PROVE IInv'
<1>1. task.pc = "trash" /\ task \in TaskSet
  BY DEF TrashGuard, IInv, DataInv, TypeInv
<1>2. Onward("trashing") \/ \E pc \in {"throw", "attend"} : Afresh(pc)
  <2>1. {"trashing", "throw", "attend"} \subseteq Pcs
    BY DEF Pcs
  <2>2. task.next \in {"throw", "attend"}
    BY <1>1 DEF IInv, TaskInv, PcInv
  <2>3. QED
    BY <1>1, <2>1, <2>2, TaskTypes DEF TrashGuard, Keep, Goto
<1>3. UNCHANGED <<local, copies, journal, touched, feed, clash, scene, mine, raced, held>>
  BY DEF TrashGuard, Unchanged, outside
<1>4. SameData
  BY <1>2, <1>3, DataStays DEF Afresh, Onward, OnTo
<1>5. PcInv'
  BY <1>1, <1>2, <1>3, <1>4 DEF Afresh, Onward, OnTo, SameData, IInv, TaskInv, PcInv, BaseOf, Extending
<1>6. HiddenInv'
  BY <1>1, <1>2, <1>3, <1>4 DEF Afresh, Onward, OnTo, SameData, IInv, TaskInv, HiddenInv, Late, Early, copies
<1>7. SeenInv'
  BY <1>1, <1>2, <1>3, <1>4 DEF Afresh, Onward, OnTo, SameData, IInv, TaskInv, SeenInv, CopiesFound, Extending, Clean, BaseOf
<1>8. RenameInv'
  BY <1>1, <1>2, <1>3, <1>4 DEF Afresh, Onward, OnTo, SameData, IInv, TaskInv, RenameInv
<1>9. QED
  BY <1>4, <1>5, <1>6, <1>7, <1>8 DEF SameData, IInv, TaskInv

\* Inline text replaces the bytes that were copied.
LEMMA InlineReplaceStep == ASSUME IInv, InlineReplace PROVE IInv'
<1>1. task.pc = "inline_replace" /\ task \in TaskSet /\ a.op = "put"
  BY DEF InlineReplace, IInv, DataInv, TypeInv, TaskInv, PcInv
<1>2. Onward("inline_create") \/ OnTo("trash", "throw") \/ Afresh("attend")
  <2>1. {"inline_create", "trash", "attend"} \subseteq Pcs
    BY DEF Pcs
  <2>2. QED
    BY <1>1, <2>1, TaskTypes DEF InlineReplace
<1>3. UNCHANGED <<local, copies, journal, touched, feed, clash, scene, mine, raced, held>>
  BY DEF InlineReplace, Unchanged, outside
<1>4. SameData
  BY <1>2, <1>3, DataStays DEF Afresh, Onward, OnTo
<1>5. PcInv'
  BY <1>1, <1>2, <1>3, <1>4 DEF Afresh, Onward, OnTo, SameData, IInv, TaskInv, PcInv, BaseOf, Extending
<1>6. HiddenInv'
  BY <1>1, <1>2, <1>3, <1>4 DEF Afresh, Onward, OnTo, SameData, IInv, TaskInv, HiddenInv, Late, Early, copies
<1>7. SeenInv'
  BY <1>1, <1>2, <1>3, <1>4 DEF Afresh, Onward, OnTo, SameData, IInv, TaskInv, SeenInv, CopiesFound, Extending, Clean, BaseOf
<1>8. RenameInv'
  BY <1>1, <1>2, <1>3, <1>4 DEF Afresh, Onward, OnTo, SameData, IInv, TaskInv, RenameInv
<1>9. QED
  BY <1>4, <1>5, <1>6, <1>7, <1>8 DEF SameData, IInv, TaskInv

\* What a copy of the plan says of the bytes that it is of.
LEMMA CopyTypes ==
  ASSUME TypeInv, NEW c \in Copies
  PROVE  c \in CopySet
BY DEF TypeInv, JournalSet, ApplySet, Copies, a

\* What a recovery copy saves are bytes.
LEMMA RecoveryTypes ==
  ASSUME TypeInv, NEW p, NEW purpose, NEW b, Covers(p, purpose, b)
  PROVE  b \in Bytes
BY CopyTypes DEF Covers, CopiesOf, CopySet

\* What a conflict copy of a verified plan saves is kept.
LEMMA CopyKept ==
  ASSUME TypeInv, Verified, NEW p, NEW b, Covers(p, "conflict", b)
  PROVE  b \in KeptBytes
<1>1. PICK c \in Copies : c.purpose = "conflict" /\ c.hash = b
  BY DEF Covers, CopiesOf
<1>2. b \in Bytes /\ b # Absent /\ Saved(c) = b
  BY <1>1, CopyTypes, BinaryAssumption DEF Verified, CopySet
<1>3. QED
  BY <1>1, <1>2 DEF Saved, KeptBytes

\* A recovery copy of a verified plan is there.
LEMMA RecoveryThere ==
  ASSUME TypeInv, Verified, NEW p, NEW b, Covers(p, "pre_apply", b)
  PROVE  b \in Bytes /\ hidden[b] # "none"
<1>1. PICK c \in Copies : c.purpose = "pre_apply" /\ c.hash = b
  BY DEF Covers, CopiesOf
<1>2. b \in Bytes /\ b # Absent /\ Saved(c) = b
  BY <1>1, CopyTypes, BinaryAssumption DEF Verified, CopySet
<1>3. QED
  BY <1>1, <1>2 DEF Saved

\* Clean bytes are those of a row.
LEMMA CleanKept ==
  ASSUME FeedInv, NEW p \in Paths, NEW b, Clean(p, b)
  PROVE  b \in KeptBytes
BY DEF FeedInv, Clean, KeptBytes

\* A set of numbers that is not empty has a least one.
LEMMA LeastNumber ==
  ASSUME NEW S, S \subseteq Nat, S # {}
  PROVE  \E m \in S : \A n \in S : m <= n
<1> DEFINE Less == {ss \in Nat \X Nat : ss[1] < ss[2]}
<1>1. IsWellFoundedOn(Less, Nat)
  BY NatLessThanWellFounded DEF OpToRel
<1> HIDE DEF Less
<1>2. PICK m \in S : \A n \in S : <<n, m>> \notin Less
  BY <1>1, WFMin
<1>3. \A n \in S : ~(n < m)
  BY <1>2 DEF Less
<1>4. QED
  BY <1>3

\* A set of numbers that is bounded and not empty has a greatest one.
LEMMA GreatestNumber ==
  ASSUME NEW S, S \subseteq Nat, S # {}, NEW k \in Nat, \A n \in S : n <= k
  PROVE  \E m \in S : \A n \in S : n <= m
<1> DEFINE Bounds == {b \in Nat : \A n \in S : n <= b}
<1>1. PICK m \in Bounds : \A b \in Bounds : m <= b
  <2>1. Bounds \subseteq Nat /\ k \in Bounds
    OBVIOUS
  <2>2. QED
    BY <2>1, LeastNumber
<1>2. m \in S
  <2> SUFFICES ASSUME m \notin S PROVE FALSE
    OBVIOUS
  <2>1. PICK n \in S : TRUE
    OBVIOUS
  <2>2. \A o \in S : o \in Nat /\ o <= m /\ o # m
    BY <1>1
  <2>3. m \in Nat /\ m > 0
    BY <1>1, <2>1, <2>2
  <2>4. m - 1 \in Bounds
    BY <2>2, <2>3
  <2>5. QED
    BY <1>1, <2>3, <2>4
<1>3. QED
  BY <1>1, <1>2

\* The newest revision of a path is one of its revisions.
LEMMA HeadIsRevision ==
  ASSUME feed \in Seq(RowSet), NEW p \in Paths
  PROVE  /\ HeadOf(p) \in Revisions(p)
         /\ \A w \in Revisions(p) : w <= HeadOf(p)
         /\ Revisions(p) \subseteq 0..Len(feed) /\ Len(feed) \in Nat /\ DOMAIN feed = 1..Len(feed)
<1>1. Len(feed) \in Nat /\ DOMAIN feed = 1..Len(feed)
  OBVIOUS
<1>2. Revisions(p) \subseteq 0..Len(feed) /\ 0 \in Revisions(p)
  BY <1>1 DEF Revisions
<1>3. PICK v \in Revisions(p) : \A w \in Revisions(p) : w <= v
  <2>1. Revisions(p) \subseteq Nat /\ Revisions(p) # {} /\ \A w \in Revisions(p) : w <= Len(feed)
    BY <1>1, <1>2
  <2>2. QED
    BY <1>1, <2>1, GreatestNumber
<1>4. QED
  BY <1>1, <1>2, <1>3 DEF HeadOf

\* The cycle ends with the apply still pending.
LEMMA StopStep == ASSUME IInv, Stop PROVE IInv'
<1>1. task.pc \in {"attend", "throw"} /\ task \in TaskSet /\ Pending
  BY DEF Stop, IInv, DataInv, TypeInv, TaskInv, PcInv
<1>2. Afresh("idle")
  <2>1. "idle" \in Pcs /\ task' = At("idle")
    BY IdleTypes DEF Stop
  <2>2. QED
    BY <1>1, <2>1, TaskTypes
<1>3. UNCHANGED <<local, copies, journal, touched, feed, clash, scene, mine, raced, held>>
  BY DEF Stop, Unchanged, outside
<1>4. SameData
  BY <1>2, <1>3, DataStays DEF Afresh, Onward, OnTo
<1>5. PcInv'
  BY <1>1, <1>2, <1>3, <1>4 DEF Afresh, Onward, OnTo, SameData, IInv, TaskInv, PcInv, BaseOf, Extending
<1>6. HiddenInv'
  BY <1>1, <1>2, <1>3, <1>4 DEF Afresh, Onward, OnTo, SameData, IInv, TaskInv, HiddenInv, Late, Early, copies
<1>7. SeenInv'
  BY <1>1, <1>2, <1>3, <1>4 DEF Afresh, Onward, OnTo, SameData, IInv, TaskInv, SeenInv, CopiesFound, Extending, Clean, BaseOf
<1>8. RenameInv'
  BY <1>1, <1>2, <1>3, <1>4 DEF Afresh, Onward, OnTo, SameData, IInv, TaskInv, RenameInv
<1>9. QED
  BY <1>4, <1>5, <1>6, <1>7, <1>8 DEF SameData, IInv, TaskInv

\* The engine stops where it is.
LEMMA InterruptedStep == ASSUME IInv, Interrupted PROVE IInv'
<1>1. task' = Idle /\ task \in TaskSet
  BY DEF Interrupted, IInv, DataInv, TypeInv
<1>2. Afresh("idle")
  <2>1. "idle" \in Pcs /\ task' = At("idle")
    BY <1>1, IdleTypes
  <2>2. QED
    BY <1>1, <2>1, TaskTypes
<1>3. UNCHANGED <<local, copies, journal, touched, feed, clash, scene, mine, raced, held>>
  BY DEF Interrupted, copies, outside
<1>4. SameData
  BY <1>2, <1>3, DataStays DEF Afresh, Onward, OnTo
<1>5. PcInv'
  BY <1>1, <1>2, <1>3, <1>4 DEF Afresh, Onward, OnTo, SameData, IInv, TaskInv, PcInv, BaseOf, Extending
<1>6. HiddenInv'
  BY <1>1, <1>2, <1>3, <1>4 DEF Afresh, Onward, OnTo, SameData, IInv, TaskInv, HiddenInv, Late, Early, copies
<1>7. SeenInv'
  BY <1>1, <1>2, <1>3, <1>4 DEF Afresh, Onward, OnTo, SameData, IInv, TaskInv, SeenInv, CopiesFound, Extending, Clean, BaseOf
<1>8. RenameInv'
  BY <1>1, <1>2, <1>3, <1>4 DEF Afresh, Onward, OnTo, SameData, IInv, TaskInv, RenameInv
<1>9. QED
  BY <1>4, <1>5, <1>6, <1>7, <1>8 DEF SameData, IInv, TaskInv

\* A rename looks at both sides.
LEMMA FinishFetchedStep == ASSUME IInv, FinishFetched PROVE IInv'
<1>1. task.pc = "finish_fetch" /\ task \in TaskSet /\ a.op = "rename"
  BY DEF FinishFetched, IInv, DataInv, TypeInv, TaskInv, PcInv
<1>a. local[From] \in held[From] /\ local[To] \in held[To]
  BY DEF IInv, DataInv, KeptInv, Paths
<1>2. \/ /\ task' \in TaskSet /\ task'.seen = local[To] /\ task'.src = local[From]
         /\ \/ task'.pc = "destination" /\ local[To] \in KeptBytes
            \/ task'.pc = "rename_source" /\ (DestinationPending => a.bytes = local[To])
      \/ Afresh("attend")
  <2>1. {"destination", "rename_source", "attend"} \subseteq Pcs
    BY DEF Pcs
  <2>2. CASE task' = At("attend")
    BY <1>1, <2>1, <2>2, TaskTypes
  <2>3. CASE task' # At("attend")
    <3> DEFINE pc == IF NeedsWrite(local[To]) THEN "destination" ELSE "rename_source"
               on == [task EXCEPT !.pc = pc, !.seen = local[To], !.src = local[From]]
    <3>1. task' = on
      BY <1>1, <2>3 DEF FinishFetched
    <3>2. pc \in Pcs /\ local[To] \in B0 /\ local[From] \in B0
      BY <2>1 DEF IInv, DataInv, TypeInv, Paths
    <3>3. on \in TaskSet /\ on.pc = pc /\ on.seen = local[To] /\ on.src = local[From]
      <4> HIDE DEF pc
      <4>1. QED
        BY <1>1, <3>2 DEF TaskSet
    <3>4. /\ Verified
          /\ DestinationPending => \/ local[To] \in {Absent, a.bytes} \/ Clean(To, local[To])
                                   \/ Covers(To, "conflict", local[To])
      BY <1>1, <2>3 DEF FinishFetched, CopiesHold
    <3>5. NeedsWrite(local[To]) => local[To] \in KeptBytes
      BY <3>4, CopyKept, CleanKept DEF NeedsWrite, KeptBytes, IInv, DataInv, Paths
    <3>6. ~NeedsWrite(local[To]) => (DestinationPending => a.bytes = local[To])
      BY DEF NeedsWrite
    <3> HIDE DEF on
    <3>7. QED
      BY <3>1, <3>3, <3>5, <3>6
  <2>4. QED
    BY <2>2, <2>3
<1>3. UNCHANGED <<local, copies, journal, touched, feed, clash, scene, mine, raced, held>>
  BY DEF FinishFetched, Unchanged, outside
<1>4. SameData
  BY <1>2, <1>3, DataStays DEF Afresh, Onward, OnTo
<1>5. PcInv'
  BY <1>1, <1>2, <1>3, <1>4 DEF Afresh, Onward, OnTo, SameData, IInv, TaskInv, PcInv, BaseOf, Extending
<1>6. HiddenInv'
  BY <1>1, <1>2, <1>3, <1>4 DEF Afresh, Onward, OnTo, SameData, IInv, TaskInv, HiddenInv, Late, Early, copies
<1>7. SeenInv'
  BY <1>1, <1>2, <1>3, <1>4 DEF Afresh, Onward, OnTo, SameData, IInv, TaskInv, SeenInv, CopiesFound, Extending, Clean, BaseOf
<1>8. RenameInv'
  BY <1>1, <1>2, <1>3, <1>4, <1>a DEF Afresh, Onward, OnTo, SameData, IInv, TaskInv, RenameInv
<1>9. QED
  BY <1>4, <1>5, <1>6, <1>7, <1>8 DEF SameData, IInv, TaskInv

\* The destination of a rename is compared before it is written.
LEMMA DestinationStep == ASSUME IInv, Destination PROVE IInv'
<1>1. task.pc = "destination" /\ task \in TaskSet /\ a.op = "rename"
  BY DEF Destination, IInv, DataInv, TypeInv, TaskInv, PcInv
<1>2. \/ Afresh("throw") \/ Afresh("attend")
      \/ Onward("create") /\ task.seen = Absent
      \/ /\ Onward("modify") /\ local[To] = task.seen
         /\ task.seen \in Bytes /\ hidden[task.seen] = "fresh"
  <2>1. {"throw", "attend", "create", "modify"} \subseteq Pcs
    BY DEF Pcs
  <2>2. Covers(To, "pre_apply", task.seen) => task.seen \in Bytes
    BY RecoveryTypes DEF IInv, DataInv
  <2>3. task.seen \in Bytes /\ hidden[task.seen] # "none" => hidden[task.seen] = "fresh"
    BY <1>1 DEF IInv, DataInv, TypeInv, TaskInv, HiddenInv, Late, Early
  <2>4. QED
    BY <1>1, <2>1, <2>2, <2>3, TaskTypes DEF Destination, Goto, Keep
<1>3. UNCHANGED <<local, copies, journal, touched, feed, clash, scene, mine, raced, held>>
  BY DEF Destination, Unchanged, outside
<1>4. SameData
  BY <1>2, <1>3, DataStays DEF Afresh, Onward, OnTo
<1>5. PcInv'
  BY <1>1, <1>2, <1>3, <1>4 DEF Afresh, Onward, OnTo, SameData, IInv, TaskInv, PcInv, BaseOf, Extending
<1>6. HiddenInv'
  BY <1>1, <1>2, <1>3, <1>4 DEF Afresh, Onward, OnTo, SameData, IInv, TaskInv, HiddenInv, Late, Early, copies
<1>7. SeenInv'
  BY <1>1, <1>2, <1>3, <1>4 DEF Afresh, Onward, OnTo, SameData, IInv, TaskInv, SeenInv, CopiesFound, Extending, Clean, BaseOf
<1>8. RenameInv'
  BY <1>1, <1>2, <1>3, <1>4 DEF Afresh, Onward, OnTo, SameData, IInv, TaskInv, RenameInv
<1>9. QED
  BY <1>4, <1>5, <1>6, <1>7, <1>8 DEF SameData, IInv, TaskInv

\* What the task knows of the journal, while both stay.
LEMMA TaskStays ==
  ASSUME IInv, UNCHANGED <<task, journal>>
  PROVE  /\ PcInv'
         /\ hidden' = hidden => HiddenInv'
         /\ (\A p \in Paths : held[p] \subseteq held'[p]) => RenameInv'
<1>1. /\ a' = a /\ Pending' = Pending /\ Remote' = Remote /\ Protected' = Protected
      /\ DestinationPending' = DestinationPending
  BY SameJournal
<1>2. PcInv'
  BY <1>1 DEF IInv, TaskInv, PcInv, BaseOf, Extending
<1>3. hidden' = hidden => HiddenInv'
  BY <1>1 DEF IInv, TaskInv, HiddenInv, Late, Early
<1>4. (\A p \in Paths : held[p] \subseteq held'[p]) => RenameInv'
  BY <1>1 DEF IInv, TaskInv, RenameInv, Paths
<1>5. QED
  BY <1>2, <1>3, <1>4

\* Another device writes.
LEMMA RemoteWritesStep == ASSUME IInv, RemoteWrites PROVE IInv'
<1>1. PICK row \in RowSet :
        /\ feed' = Append(feed, row)
        /\ row.op \in {"put", "rename"} => row.bytes # Absent
        /\ row.op = "delete" => row.bytes = Absent
        /\ row.op = "rename" => scene = "rename"
        /\ row.op # "source"
  <2>1. PICK op \in {"put", "delete", "rename"}, b \in B0, k \in {"blob", "text"} :
          /\ feed' = Append(feed, [op |-> op, bytes |-> b, kind |-> k])
          /\ op \in {"put", "rename"} => b # Absent
          /\ op = "delete" => b = Absent
          /\ op = "rename" => b = ContentAt(From, HeadOf(From))
    BY DEF RemoteWrites, B0
  <2>2. op = "rename" => scene = "rename"
    <3> SUFFICES ASSUME op = "rename" PROVE scene = "rename"
      OBVIOUS
    <3> DEFINE v == HeadOf(From)
    <3>1. v # 0 /\ feed[v].op # "rename"
      BY <2>1 DEF ContentAt
    <3>2. v \in Revisions(From)
      BY HeadIsRevision DEF IInv, DataInv, TypeInv, Paths
    <3>3. v \in DOMAIN feed /\ feed[v].op \in {"source", "rename"}
      BY <3>1, <3>2 DEF Revisions, Touches
    <3>4. QED
      BY <3>3 DEF IInv, DataInv, FeedInv
  <2>3. [op |-> op, bytes |-> b, kind |-> k] \in RowSet
    BY DEF RowSet
  <2>4. QED
    BY <2>1, <2>2, <2>3
<1>2. UNCHANGED <<local, copies, journal, task, touched, clash, scene, mine, raced, held>>
  BY DEF RemoteWrites
<1>3. /\ feed \in Seq(RowSet) /\ feed' \in Seq(RowSet)
      /\ DOMAIN feed \subseteq DOMAIN feed'
      /\ \A v \in DOMAIN feed' : feed'[v] = row \/ (v \in DOMAIN feed /\ feed'[v] = feed[v])
      /\ \A v \in DOMAIN feed : feed'[v] = feed[v]
  BY <1>1 DEF IInv, DataInv, TypeInv
<1>4. a' = a /\ Pending' = Pending /\ Copies' = Copies
  BY <1>2, SameJournal
<1>5. FeedBytes \subseteq FeedBytes'
  BY <1>3 DEF FeedBytes
<1>6. TypeInv'
  BY <1>2, <1>3 DEF IInv, DataInv, TypeInv, copies
<1>7. FeedInv'
  BY <1>1, <1>2, <1>3, <1>5 DEF IInv, DataInv, FeedInv, BaseOf
<1>8. ApplyInv'
  BY <1>2, <1>3, <1>4, <1>5 DEF IInv, DataInv, ApplyInv
<1>9. PlanInv'
  BY <1>2, <1>4 DEF IInv, DataInv, PlanInv, BaseOf, copies
<1>10. KeptInv'
  <2>1. Findable \subseteq Findable'
    BY <1>2, <1>5 DEF Findable, FeedBytes, copies
  <2>2. QED
    BY <1>2, <2>1 DEF IInv, DataInv, KeptInv
<1>11. SeenInv'
  <2>1. KeptBytes \subseteq KeptBytes'
    BY <1>2, <1>5 DEF KeptBytes, copies
  <2>2. QED
    BY <1>2, <1>4, <2>1 DEF IInv, TaskInv, SeenInv, CopiesFound, Extending, Clean, BaseOf
<1>12. QED
  BY <1>2, <1>6, <1>7, <1>8, <1>9, <1>10, <1>11, TaskStays DEF IInv, DataInv, TaskInv, copies

\* The user saves a file, or deletes it.
LEMMA UserEditStep == ASSUME IInv, NEW p \in Paths, UserEdit(p) PROVE IInv'
<1>1. PICK b \in B0 \ {local[p]} :
        /\ local' = [local EXCEPT ![p] = b] /\ held' = [held EXCEPT ![p] = @ \cup {b}]
        /\ mine' = ((mine \ {local[p]}) \cup {b}) \ {Absent}
        /\ raced' = IF p = To /\ task.pc \in {"modify", "write"} THEN raced \cup {b} ELSE raced
  BY DEF UserEdit, SetLocal, B0
<1>2. UNCHANGED <<copies, journal, task, feed, clash, scene>> /\ touched' = touched \cup {p}
  BY DEF UserEdit
<1>3. a' = a /\ Pending' = Pending /\ Copies' = Copies /\ FeedBytes' = FeedBytes
  BY <1>2, SameJournal DEF FeedBytes
<1>4. /\ local \in [Paths -> B0] /\ held \in [Paths -> SUBSET B0]
      /\ local'[p] = b /\ \A q \in Paths \ {p} : local'[q] = local[q]
      /\ held'[p] = held[p] \cup {b} /\ \A q \in Paths \ {p} : held'[q] = held[q]
  BY <1>1 DEF IInv, DataInv, TypeInv
<1>5. TypeInv'
  <2>1. local' \in [Paths -> B0] /\ held' \in [Paths -> SUBSET B0]
    BY <1>1, <1>4
  <2>2. mine' \subseteq Bytes
    BY <1>1 DEF B0, IInv, DataInv, TypeInv
  <2>3. QED
    BY <1>2, <2>1, <2>2 DEF IInv, DataInv, TypeInv, copies
<1>6. FeedInv' /\ ApplyInv'
  BY <1>2, <1>3 DEF IInv, DataInv, FeedInv, ApplyInv, BaseOf
<1>7. \A q \in Paths : held[q] \subseteq held'[q]
  BY <1>4
<1>8. PlanInv'
  BY <1>2, <1>3, <1>7 DEF IInv, DataInv, PlanInv, BaseOf, copies, Paths
<1>9. KeptInv'
  <2>1. \A q \in Paths : local'[q] \in held'[q]
    BY <1>4 DEF IInv, DataInv, KeptInv
  <2>2. Findable \ {local[p]} \subseteq Findable' /\ b \in Findable'
    BY <1>2, <1>3, <1>4 DEF Findable, FeedBytes, copies
  <2>3. raced \subseteq raced'
    BY <1>1
  <2>4. QED
    BY <1>1, <2>1, <2>2, <2>3 DEF IInv, DataInv, KeptInv
<1>10. SeenInv'
  <2>1. KeptBytes \subseteq KeptBytes'
    BY <1>1, <1>2, <1>3 DEF KeptBytes, copies
  <2>2. To \notin touched' => To \notin touched /\ local'[To] = local[To]
    BY <1>2, <1>4 DEF Paths
  <2>3. task.pc \in {"modify", "write"} => local'[To] \in {Absent, task.seen} \cup raced'
    BY <1>1, <1>4 DEF Paths, IInv, TaskInv, SeenInv
  <2>4. QED
    BY <1>2, <1>3, <2>1, <2>2, <2>3 DEF IInv, TaskInv, SeenInv, CopiesFound, Extending, Clean, BaseOf
<1>11. QED
  BY <1>2, <1>5, <1>6, <1>7, <1>8, <1>9, <1>10, TaskStays DEF IInv, DataInv, TaskInv, copies

\* The user saves a copy, or deletes it.
LEMMA UserEditsCopyStep == ASSUME IInv, UserEditsCopy PROVE IInv'
<1>1. PICK n \in DOMAIN visible, b \in B0 :
        /\ visible' = [visible EXCEPT ![n] = b]
        /\ mine' = ((mine \ {visible[n]}) \cup {b}) \ {Absent}
        /\ raced' = IF CopiesFound /\ visible[n] = task.seen THEN raced \cup {visible[n]} ELSE raced
  BY DEF UserEditsCopy, B0
<1>2. UNCHANGED <<local, hidden, trash, journal, task, touched, feed, clash, scene, held>>
  BY DEF UserEditsCopy
<1>3. a' = a /\ Pending' = Pending /\ Copies' = Copies /\ FeedBytes' = FeedBytes
  BY <1>2, SameJournal DEF FeedBytes
<1>4. /\ DOMAIN visible' = DOMAIN visible /\ visible'[n] = b
      /\ \A m \in DOMAIN visible \ {n} : visible'[m] = visible[m]
  BY <1>1
<1>5. TypeInv'
  <2>1. \A m \in DOMAIN visible' : visible'[m] \in B0
    BY <1>4 DEF IInv, DataInv, TypeInv
  <2>2. mine' \subseteq Bytes
    BY <1>1 DEF B0, IInv, DataInv, TypeInv
  <2>3. QED
    BY <1>2, <1>4, <2>1, <2>2 DEF IInv, DataInv, TypeInv
<1>6. FeedInv' /\ ApplyInv'
  BY <1>2, <1>3 DEF IInv, DataInv, FeedInv, ApplyInv, BaseOf
<1>7. PlanInv'
  BY <1>2, <1>3, <1>4 DEF IInv, DataInv, PlanInv, BaseOf
<1>8. KeptInv'
  <2>1. Findable \ {visible[n]} \subseteq Findable' /\ b \in Findable'
    BY <1>2, <1>3, <1>4 DEF Findable, FeedBytes
  <2>2. raced \subseteq raced'
    BY <1>1
  <2>3. QED
    BY <1>1, <1>2, <2>1, <2>2 DEF IInv, DataInv, KeptInv
<1>9. SeenInv'
  <2>1. KeptBytes \ {visible[n]} \subseteq KeptBytes'
    BY <1>1, <1>2, <1>3, <1>4 DEF KeptBytes
  <2>2. CopiesFound /\ task.seen = visible[n] => task.seen \in KeptBytes'
    BY <1>1 DEF KeptBytes
  <2>3. CopiesFound => task.seen \in KeptBytes'
    BY <2>1, <2>2 DEF IInv, TaskInv, SeenInv
  <2>4. task.pc \in {"modify", "write"} => local[To] \in {Absent, task.seen} \cup raced'
    BY <1>1 DEF IInv, TaskInv, SeenInv
  <2>5. QED
    BY <1>2, <1>3, <2>3, <2>4 DEF IInv, TaskInv, SeenInv, CopiesFound, Extending, Clean, BaseOf
<1>10. QED
  BY <1>2, <1>5, <1>6, <1>7, <1>8, <1>9, TaskStays DEF IInv, DataInv, TaskInv

\* A file appears under the path key of To.
LEMMA UserAddsClashStep == ASSUME IInv, UserAddsClash PROVE IInv'
<1>1. /\ UNCHANGED <<local, copies, journal, task, touched, feed, scene, mine, raced, held>>
      /\ scene = "plain"
  BY DEF UserAddsClash
<1>2. /\ a' = a /\ Pending' = Pending /\ Copies' = Copies /\ FeedBytes' = FeedBytes
      /\ Findable' = Findable /\ KeptBytes' = KeptBytes
  BY <1>1, SameJournal, SameKept DEF FeedBytes, Findable, copies
<1>3. TypeInv' /\ FeedInv' /\ ApplyInv'
  BY <1>1, <1>2 DEF IInv, DataInv, TypeInv, FeedInv, ApplyInv, BaseOf, copies
<1>4. PlanInv' /\ KeptInv'
  BY <1>1, <1>2 DEF IInv, DataInv, PlanInv, KeptInv, BaseOf, copies
<1>5. SeenInv'
  BY <1>1, <1>2 DEF IInv, TaskInv, SeenInv, CopiesFound, Extending, Clean, BaseOf
<1>6. QED
  BY <1>1, <1>3, <1>4, <1>5, TaskStays DEF IInv, DataInv, TaskInv, copies

\* Only recovery copies change.
LEMMA HiddenStep ==
  ASSUME IInv, hidden' \in [Bytes -> {"none", "fresh", "old"}],
         UNCHANGED <<local, visible, trash, journal, feed, clash, scene, mine, raced, held>>,
         task' \in TaskSet
  PROVE  SameData
<1>1. /\ a' = a /\ Pending' = Pending /\ Copies' = Copies /\ Remote' = Remote
      /\ Protected' = Protected /\ DestinationPending' = DestinationPending
      /\ FeedBytes' = FeedBytes /\ Findable' = Findable /\ KeptBytes' = KeptBytes
  BY SameJournal, SameKept DEF FeedBytes, Findable
<1>2. TypeInv'
  BY DEF IInv, DataInv, TypeInv
<1>3. FeedInv' /\ ApplyInv'
  BY <1>1 DEF IInv, DataInv, FeedInv, ApplyInv, BaseOf
<1>4. PlanInv' /\ KeptInv'
  BY <1>1 DEF IInv, DataInv, PlanInv, KeptInv, BaseOf
<1>5. QED
  BY <1>1, <1>2, <1>3, <1>4 DEF DataInv, SameData

\* Seven days pass.
LEMMA WeekPassesStep == ASSUME IInv, WeekPasses PROVE IInv'
<1>1. /\ UNCHANGED <<local, visible, trash, journal, task, touched, feed, clash, scene, mine, raced, held>>
      /\ hidden' = [b \in Bytes |-> IF hidden[b] = "fresh" THEN "old" ELSE hidden[b]]
  BY DEF WeekPasses, outside
<1>2. task.pc = "idle" /\ task' \in TaskSet
  BY <1>1, IdleTypes, AtTypes DEF WeekPasses
<1>3. hidden' \in [Bytes -> {"none", "fresh", "old"}]
  BY <1>1 DEF IInv, DataInv, TypeInv
<1>4. SameData
  BY <1>1, <1>2, <1>3, HiddenStep
<1>5. HiddenInv'
  BY <1>1, <1>2 DEF HiddenInv, Late, Early
<1>6. SeenInv'
  BY <1>1, <1>2 DEF SeenInv, CopiesFound, Extending
<1>7. QED
  BY <1>1, <1>4, <1>5, <1>6, TaskStays DEF SameData, IInv, TaskInv

\* What a step that confirms a base must not do.
Confirms ==
  \A p \in Paths : journal'.base[p] # journal.base[p] => journal'.base[p].bytes \in held[p]

\* The journal of a step that saves the apply.
LEMMA ApplySaved ==
  ASSUME TypeInv, NEW apply \in ApplySet, journal' = [journal EXCEPT !.apply = apply]
  PROVE  /\ journal' \in JournalSet /\ a' = apply
         /\ journal'.base = journal.base /\ journal'.cursor = journal.cursor
         /\ Copies' = {apply.plan[i] : i \in DOMAIN apply.plan}
         /\ Confirms
<1>1. journal' \in JournalSet /\ journal'.apply = apply
  BY DEF TypeInv, JournalSet
<1>2. journal'.base = journal.base /\ journal'.cursor = journal.cursor
  BY DEF TypeInv, JournalSet
<1>3. a' = apply
  BY <1>1 DEF a
<1>4. Copies' = {apply.plan[i] : i \in DOMAIN apply.plan}
  BY <1>3 DEF Copies
<1>5. QED
  BY <1>1, <1>2, <1>3, <1>4 DEF Confirms

\* No apply is an apply, without rows or copies.
LEMMA NoApplyTypes ==
  NoApply \in ApplySet /\ NoApply.plan = <<>> /\ NoApply.op = "none" /\ NoApply.row = 0
<1>1. <<>> \in Seq(CopySet) /\ Absent \in B0
  BY DEF B0
<1>2. QED
  BY <1>1 DEF NoApply, ApplySet

\* What is said of the rows and of the bytes, while only the apply changes.
LEMMA ApplyStep ==
  ASSUME DataInv, NEW apply \in ApplySet, journal' = [journal EXCEPT !.apply = apply],
         UNCHANGED <<local, copies, feed, clash, scene, mine, raced, held>>,
         task' \in TaskSet
  PROVE  TypeInv' /\ FeedInv' /\ KeptInv' /\ KeptBytes' = KeptBytes /\ FeedBytes' = FeedBytes
<1>1. journal' \in JournalSet /\ journal'.base = journal.base /\ journal'.cursor = journal.cursor
  BY ApplySaved DEF DataInv
<1>2. FeedBytes' = FeedBytes /\ Findable' = Findable /\ KeptBytes' = KeptBytes
  BY SameKept DEF FeedBytes, Findable, copies
<1>3. TypeInv'
  BY <1>1 DEF DataInv, TypeInv, copies
<1>4. FeedInv'
  BY <1>1, <1>2 DEF DataInv, FeedInv, BaseOf
<1>5. KeptInv'
  BY <1>2 DEF DataInv, KeptInv
<1>6. QED
  BY <1>2, <1>3, <1>4, <1>5

\* The apply ends: its bases are those that the journal confirms.
LEMMA Closed ==
  ASSUME IInv, journal' \in JournalSet, a' = NoApply, journal'.cursor = journal.cursor,
         \A p \in Paths : journal'.base[p].bytes \in {Absent} \cup FeedBytes,
         BaseOf(To).rev <= journal'.base[To].rev,
         Copies = {} \/ a.rev <= journal'.base[To].rev,
         hidden' \in [Bytes -> {"none", "fresh", "old"}],
         UNCHANGED <<local, visible, trash, feed, clash, scene, mine, raced, held>>,
         Afresh("done")
  PROVE  IInv'
<1>1. ~Pending' /\ Copies' = {} /\ a'.op = "none"
  BY DEF Pending, Copies, a, NoApply
<1>2. ~Remote'
  BY <1>1 DEF Remote
<1>3. FeedBytes' = FeedBytes /\ Findable' = Findable
  BY DEF FeedBytes, Findable
<1>4. TypeInv'
  BY DEF IInv, DataInv, TypeInv, Afresh
<1>5. FeedInv'
  BY <1>3 DEF IInv, DataInv, FeedInv, BaseOf
<1>6. ApplyInv'
  BY <1>1 DEF ApplyInv
<1>7. PlanInv'
  <2>1. \A n \in DOMAIN visible : n[1] = To /\ n[3] = Absent =>
          n[2] <= BaseOf(To).rev \/ (Copies # {} /\ n[2] <= a.rev)
    BY DEF IInv, DataInv, PlanInv
  <2>2. \A n \in DOMAIN visible : n[2] \in Nat
    BY DEF IInv, DataInv, TypeInv, NameSet
  <2>3. BaseOf(To).rev \in Nat /\ journal'.base[To].rev \in Nat /\ a.rev \in Nat
    BY DEF IInv, DataInv, TypeInv, JournalSet, BaseSet, ApplySet, BaseOf, a, Paths
  <2>4. \A n \in DOMAIN visible : n[1] = To /\ n[3] = Absent => n[2] <= journal'.base[To].rev
    BY <2>1, <2>2, <2>3
  <2>5. QED
    BY <1>1, <2>4 DEF PlanInv, BaseOf
<1>8. KeptInv'
  BY <1>3 DEF IInv, DataInv, KeptInv
<1>9. PcInv'
  BY <1>1, <1>2 DEF Afresh, PcInv, Extending
<1>10. HiddenInv'
  BY DEF Afresh, HiddenInv, Late, Early
<1>11. SeenInv' /\ RenameInv'
  BY <1>1 DEF Afresh, SeenInv, RenameInv, CopiesFound, Extending
<1>12. QED
  BY <1>4, <1>5, <1>6, <1>7, <1>8, <1>9, <1>10, <1>11 DEF IInv, DataInv, TaskInv

\* An apply that is not a rename's confirms what the file held.
LEMMA Completes ==
  ASSUME IInv, Pending, a.op # "rename", task.pc \notin {"idle", "resume"},
         NEW bytes \in {a.bytes, Absent}, bytes \in held[To], Complete(bytes),
         hidden' \in [Bytes -> {"none", "fresh", "old"}],
         UNCHANGED <<local, visible, trash, feed, clash, scene, mine, raced, held>>
  PROVE  IInv' /\ Confirms
<1> DEFINE row == [rev |-> a.rev, bytes |-> bytes]
<1>1. journal' = [journal EXCEPT !.base[To] = row, !.apply = NoApply] /\ task' = At("done")
  BY DEF Complete, Save
<1>2. a.rev \in Nat /\ a.bytes \in B0 /\ journal \in JournalSet /\ bytes \in B0
  BY DEF IInv, DataInv, TypeInv, JournalSet, ApplySet, a, B0
<1>3. row \in [rev : Nat, bytes : B0]
  BY <1>2
<1>4. NoApply \in ApplySet
  BY NoApplyTypes
<1> HIDE DEF row
<1>5. /\ journal' \in JournalSet /\ journal'.apply = NoApply
      /\ journal'.cursor = journal.cursor
      /\ journal'.base = [journal.base EXCEPT ![To] = row]
  BY <1>1, <1>2, <1>3, <1>4 DEF JournalSet, BaseSet, Paths
<1>6. /\ journal'.base[To] = row
      /\ \A p \in Paths \ {To} : journal'.base[p] = journal.base[p]
  BY <1>2, <1>5 DEF JournalSet, BaseSet, Paths
<1>7. row.rev = a.rev /\ row.bytes = bytes
  BY DEF row
<1>8. a.bytes \in {Absent} \cup FeedBytes
  BY DEF IInv, DataInv, ApplyInv
<1>9. \A p \in Paths : journal'.base[p].bytes \in {Absent} \cup FeedBytes
  BY <1>6, <1>7, <1>8 DEF IInv, DataInv, FeedInv, BaseOf
<1>10. a.rev > BaseOf(To).rev
  BY DEF IInv, TaskInv, PcInv
<1>11. BaseOf(To).rev <= journal'.base[To].rev /\ a.rev <= journal'.base[To].rev
  <2>1. BaseOf(To).rev \in Nat
    BY <1>2 DEF JournalSet, BaseSet, BaseOf, Paths
  <2>2. QED
    BY <1>2, <1>6, <1>7, <1>10, <2>1
<1>12. Afresh("done")
  <2>1. "done" \in Pcs
    BY DEF Pcs
  <2>2. QED
    BY <1>1, <2>1, TaskTypes DEF IInv, DataInv, TypeInv
<1>13. IInv'
  BY <1>5, <1>9, <1>11, <1>12, Closed DEF a
<1>14. Confirms
  BY <1>6, <1>7 DEF Confirms
<1>15. QED
  BY <1>13, <1>14

\* A rename confirms what both sides held.
LEMMA CompletesRename ==
  ASSUME IInv, Pending, a.op = "rename", CompleteRename,
         SourcePending => Absent \in held[From],
         DestinationPending => a.bytes \in held[To],
         hidden' \in [Bytes -> {"none", "fresh", "old"}],
         UNCHANGED <<local, visible, trash, feed, clash, scene, mine, raced, held>>
  PROVE  IInv' /\ Confirms
<1> DEFINE to == IF DestinationPending THEN [rev |-> a.rev, bytes |-> a.bytes] ELSE BaseOf(To)
           from == IF SourcePending THEN [rev |-> a.row, bytes |-> Absent] ELSE BaseOf(From)
           base == [p \in Paths |-> IF p = To THEN to ELSE from]
<1>1. journal' = [journal EXCEPT !.base = base, !.apply = NoApply] /\ task' = At("done")
  BY DEF CompleteRename, Save
<1>2. /\ a.rev \in Nat /\ a.row \in Nat /\ a.bytes \in B0 /\ journal \in JournalSet
      /\ BaseOf(To) \in [rev : Nat, bytes : B0] /\ BaseOf(From) \in [rev : Nat, bytes : B0]
  BY DEF IInv, DataInv, TypeInv, JournalSet, BaseSet, ApplySet, BaseOf, a, Paths
<1>3. to \in [rev : Nat, bytes : B0] /\ from \in [rev : Nat, bytes : B0]
  BY <1>2 DEF B0
<1>4. NoApply \in ApplySet
  BY NoApplyTypes
<1>5. a.bytes \in {Absent} \cup FeedBytes
  BY DEF IInv, DataInv, ApplyInv
<1>6. /\ to.bytes \in {Absent} \cup FeedBytes /\ from.bytes \in {Absent} \cup FeedBytes
      /\ to.rev >= BaseOf(To).rev /\ to.rev >= a.rev
      /\ to # BaseOf(To) => to.bytes \in held[To]
      /\ from # BaseOf(From) => from.bytes \in held[From]
  <2>1. /\ BaseOf(To).bytes \in {Absent} \cup FeedBytes
        /\ BaseOf(From).bytes \in {Absent} \cup FeedBytes
    BY DEF IInv, DataInv, FeedInv, Paths
  <2>2. BaseOf(To).rev \in Nat
    BY <1>2
  <2>3. ~DestinationPending => BaseOf(To).rev >= a.rev
    BY <1>2, <2>2 DEF DestinationPending
  <2>4. DestinationPending => a.rev >= BaseOf(To).rev
    BY <1>2, <2>2 DEF DestinationPending
  <2>5. QED
    BY <1>2, <1>5, <2>1, <2>2, <2>3, <2>4
<1> HIDE DEF to, from
<1>7. base \in BaseSet /\ base[To] = to /\ base[From] = from
  BY <1>3 DEF BaseSet, Paths, To, From
<1> HIDE DEF base
<1>8. /\ journal' \in JournalSet /\ journal'.apply = NoApply
      /\ journal'.cursor = journal.cursor /\ journal'.base = base
  BY <1>1, <1>2, <1>4, <1>7 DEF JournalSet
<1>9. Afresh("done")
  <2>1. "done" \in Pcs
    BY DEF Pcs
  <2>2. QED
    BY <1>1, <2>1, TaskTypes DEF IInv, DataInv, TypeInv
<1>10. BaseOf(To).rev <= journal'.base[To].rev /\ a.rev <= journal'.base[To].rev
  <2>1. BaseOf(To).rev \in Nat /\ to.rev \in Nat
    BY <1>2, <1>3
  <2>2. QED
    BY <1>2, <1>6, <1>7, <1>8, <2>1
<1>11. \A p \in Paths : journal'.base[p].bytes \in {Absent} \cup FeedBytes
  BY <1>6, <1>7, <1>8 DEF Paths
<1>12. IInv'
  BY <1>8, <1>9, <1>10, <1>11, Closed DEF a
<1>13. Confirms
  BY <1>6, <1>7, <1>8 DEF Confirms, Paths, BaseOf
<1>14. QED
  BY <1>12, <1>13

\* The journal's cursor passes the row.
LEMMA AdvanceStep == ASSUME IInv, Advance PROVE IInv' /\ Confirms
<1>1. /\ task.pc = "done" /\ journal' = [journal EXCEPT !.cursor = @ + 1] /\ task' = At("idle")
      /\ UNCHANGED <<local, copies, touched, feed, clash, scene, mine, raced, held>>
  BY IdleTypes DEF Advance, Save, Unchanged, outside
<1>2. /\ journal \in JournalSet /\ journal' \in JournalSet
      /\ journal'.base = journal.base /\ journal'.apply = journal.apply
      /\ journal'.cursor = journal.cursor + 1 /\ journal.cursor \in Nat
  BY <1>1 DEF IInv, DataInv, TypeInv, JournalSet
<1>3. a' = a /\ ~Pending /\ a.op = "none" /\ a.plan = <<>>
  BY <1>1, <1>2 DEF IInv, TaskInv, PcInv, a, Pending, NoApply
<1>4. Copies = {} /\ Copies' = {} /\ ~Pending'
  BY <1>2, <1>3 DEF Copies, Pending, a
<1>5. FeedBytes' = FeedBytes /\ Findable' = Findable
  BY <1>1 DEF FeedBytes, Findable, copies
<1>6. Afresh("idle")
  BY <1>1, IdleTypes, TaskTypes DEF IInv, DataInv, TypeInv
<1>7. TypeInv'
  BY <1>1, <1>2, <1>6 DEF IInv, DataInv, TypeInv, Afresh, copies
<1>8. FeedInv'
  <2>1. \A v \in DOMAIN feed : v \in Nat
    BY DEF IInv, DataInv, TypeInv
  <2>2. QED
    BY <1>1, <1>2, <1>5, <2>1 DEF IInv, DataInv, FeedInv, BaseOf
<1>9. ApplyInv' /\ PlanInv' /\ KeptInv'
  BY <1>1, <1>2, <1>4, <1>5 DEF IInv, DataInv, ApplyInv, PlanInv, KeptInv, BaseOf, copies
<1>10. TaskInv'
  BY <1>3, <1>4, <1>6 DEF Afresh, TaskInv, PcInv, HiddenInv, SeenInv, RenameInv, Late, Early,
     CopiesFound, Extending, Remote
<1>11. QED
  BY <1>2, <1>7, <1>8, <1>9, <1>10 DEF IInv, DataInv, Confirms

\* A cycle starts: the next row becomes the pending apply, or the pending one goes on.
LEMMA StartStep == ASSUME IInv, Start PROVE IInv' /\ Confirms
<1>1. /\ task = Idle /\ hidden' = Pruned
      /\ UNCHANGED <<local, visible, trash, touched, feed, clash, scene, mine, raced>>
  BY DEF Start, outside
<1>2. task.pc = "idle" /\ "resume" \in Pcs
  BY <1>1, IdleTypes, AtTypes DEF Pcs
<1>3. /\ hidden' \in [Bytes -> {"none", "fresh", "old"}]
      /\ \A b \in Bytes : hidden'[b] = "old" => b \in Protected
  BY <1>1 DEF Pruned, Protected, IInv, DataInv, TypeInv
<1>4. CASE Pending
  <2>1. UNCHANGED <<journal, held>> /\ task' = At("resume")
    BY <1>4 DEF Start, Goto
  <2>2. Afresh("resume")
    BY <1>2, <2>1, TaskTypes DEF IInv, DataInv, TypeInv
  <2>3. SameData
    BY <1>1, <1>3, <2>1, <2>2, HiddenStep DEF Afresh
  <2>4. PcInv'
    BY <1>2, <1>4, <2>1, <2>2, <2>3 DEF SameData, Afresh, IInv, TaskInv, PcInv, BaseOf, Extending
  <2>5. HiddenInv'
    BY <1>3, <2>2, <2>3 DEF SameData, Afresh, HiddenInv, Late, Early
  <2>6. SeenInv' /\ RenameInv'
    BY <2>2 DEF Afresh, SeenInv, RenameInv, CopiesFound, Extending
  <2>7. QED
    BY <2>1, <2>3, <2>4, <2>5, <2>6 DEF SameData, IInv, TaskInv, Confirms
<1>5. CASE ~Pending
  <2> DEFINE r == journal.cursor + 1
             apply == [NoApply EXCEPT !.row = r, !.op = feed[r].op, !.rev = r,
                                      !.bytes = feed[r].bytes, !.step = "prepared"]
  <2>1. /\ journal.cursor < Len(feed) /\ journal' = [journal EXCEPT !.apply = apply]
        /\ task' = At("resume") /\ held' = [p \in Paths |-> {local[p]}]
    BY <1>5 DEF Start, SaveApply, Save, Goto
  <2>2. /\ r \in DOMAIN feed /\ r \in Nat /\ feed[r] \in RowSet /\ r > journal.cursor
        /\ journal \in JournalSet
    BY <2>1 DEF IInv, DataInv, TypeInv, JournalSet
  <2>4. feed[r].op # "source" /\ feed[r].op \in {"put", "delete", "rename"} /\ feed[r].bytes \in B0
    <3>1. feed[r].op # "source"
      BY <2>2 DEF IInv, DataInv, FeedInv, JournalSet
    <3>2. QED
      BY <2>2, <3>1 DEF RowSet
  <2>5. /\ apply \in ApplySet /\ apply.row = r /\ apply.rev = r /\ apply.op = feed[r].op
        /\ apply.bytes = feed[r].bytes /\ apply.step = "prepared" /\ apply.plan = <<>>
    <3> HIDE DEF r
    <3>1. QED
      BY <2>2, <2>4, NoApplyTypes DEF ApplySet
  <2> HIDE DEF apply
  <2>7. /\ journal' \in JournalSet /\ a' = apply /\ Confirms
        /\ journal'.base = journal.base /\ journal'.cursor = journal.cursor
        /\ Copies' = {}
    <3>1. /\ journal' \in JournalSet /\ a' = apply /\ Confirms
          /\ journal'.base = journal.base /\ journal'.cursor = journal.cursor
          /\ Copies' = {apply.plan[i] : i \in DOMAIN apply.plan}
      BY <2>1, <2>5, ApplySaved DEF IInv, DataInv
    <3>2. QED
      BY <2>5, <3>1
  <2> HIDE DEF r
  <2>8. Copies = {} /\ Protected = {} /\ Protected' = {} /\ ~Remote' /\ Pending'
    <3>1. Copies = {}
      BY <1>5 DEF Pending, Copies, NoApply, a
    <3>2. a' # NoApply
      BY <2>5, <2>7 DEF NoApply
    <3>3. QED
      BY <2>7, <3>1, <3>2 DEF Protected, Remote, Pending, a
  <2>9. Afresh("resume")
    BY <1>2, <2>1, TaskTypes DEF IInv, DataInv, TypeInv
  <2>10. FeedBytes' = FeedBytes /\ Findable' = Findable
    BY <1>1 DEF FeedBytes, Findable
  <2>11. TypeInv'
    <3>1. held' \in [Paths -> SUBSET B0]
      BY <2>1 DEF IInv, DataInv, TypeInv
    <3>2. QED
      BY <1>1, <1>3, <2>7, <2>9, <3>1 DEF IInv, DataInv, TypeInv, Afresh
  <2>12. FeedInv'
    BY <1>1, <2>7, <2>10 DEF IInv, DataInv, FeedInv, BaseOf
  <2>13. ApplyInv'
    <3>1. feed[r].bytes \in FeedBytes /\ (feed[r].op = "delete" <=> feed[r].bytes = Absent)
          /\ (feed[r].op = "rename" => scene = "rename")
      BY <2>2, <2>4 DEF FeedBytes, IInv, DataInv, FeedInv
    <3>2. QED
      BY <1>1, <2>2, <2>4, <2>5, <2>7, <2>10, <3>1 DEF ApplyInv
  <2>14. PlanInv'
    BY <1>1, <2>7, <2>8 DEF IInv, DataInv, PlanInv, BaseOf
  <2>15. KeptInv'
    BY <1>1, <2>1, <2>10 DEF IInv, DataInv, KeptInv
  <2>16. PcInv'
    BY <2>5, <2>7, <2>8, <2>9 DEF Afresh, PcInv, Extending
  <2>17. HiddenInv'
    BY <1>3, <2>8, <2>9 DEF Afresh, HiddenInv, Late, Early
  <2>18. SeenInv' /\ RenameInv'
    BY <2>9 DEF Afresh, SeenInv, RenameInv, CopiesFound, Extending
  <2>19. QED
    BY <2>7, <2>11, <2>12, <2>13, <2>14, <2>15, <2>16, <2>17, <2>18 DEF IInv, DataInv, TaskInv
<1>6. QED
  BY <1>4, <1>5

\* What is known of a pending apply.
LEMMA PendingFacts ==
  ASSUME DataInv, Pending
  PROVE  /\ a \in ApplySet /\ journal \in JournalSet
         /\ a.row \in Nat \ {0} /\ a.rev \in Nat \ {0}
         /\ BaseOf(To).rev \in Nat /\ BaseOf(From).rev \in Nat
<1>1. a \in ApplySet /\ journal \in JournalSet
  BY DEF DataInv, TypeInv, JournalSet, a
<1>2. a.row \in DOMAIN feed /\ a.rev \in DOMAIN feed /\ \A v \in DOMAIN feed : v \in Nat \ {0}
  BY DEF DataInv, TypeInv, ApplyInv
<1>3. QED
  BY <1>1, <1>2 DEF JournalSet, BaseSet, BaseOf, Paths

\* A step that says no more than how far the plan is, or of what kind the row is.
LEMMA SamePlan ==
  ASSUME IInv, Pending, NEW apply \in ApplySet, journal' = [journal EXCEPT !.apply = apply],
         apply.row = a.row, apply.op = a.op, apply.rev = a.rev, apply.bytes = a.bytes,
         apply.plan = a.plan, apply.step \in {"prepared", "named", "copied"},
         apply.step = "prepared" <=> a.plan = <<>>,
         Remote => apply.kind = "blob",
         UNCHANGED <<local, copies, feed, clash, scene, mine, raced, held>>,
         task' \in TaskSet
  PROVE  /\ DataInv' /\ Confirms
         /\ a' = apply /\ Pending' /\ Remote' = Remote /\ Protected' = Protected
         /\ DestinationPending' = DestinationPending /\ KeptBytes' = KeptBytes
         /\ journal'.base = journal.base
<1>1. /\ TypeInv' /\ FeedInv' /\ KeptInv' /\ KeptBytes' = KeptBytes /\ FeedBytes' = FeedBytes
  BY ApplyStep DEF IInv
<1>2. /\ a' = apply /\ Confirms /\ journal'.base = journal.base
      /\ Copies' = {apply.plan[i] : i \in DOMAIN apply.plan}
  BY ApplySaved DEF IInv, DataInv
<1>3. Copies' = Copies
  BY <1>2 DEF Copies
<1>4. Remote' = Remote /\ Protected' = Protected
  BY <1>3 DEF Remote, Protected
<1>5. Pending'
  <2>1. a'.row # 0 /\ NoApply.row = 0
    BY <1>2, PendingFacts, NoApplyTypes DEF IInv
  <2>2. QED
    BY <2>1 DEF Pending, a
<1>6. DestinationPending' = DestinationPending
  BY <1>2 DEF DestinationPending, BaseOf
<1>7. ApplyInv'
  BY <1>1, <1>2 DEF IInv, DataInv, ApplyInv
<1>8. PlanInv'
  <2>1. Remote => a.kind = "blob"
    BY DEF Remote, IInv, DataInv, PlanInv
  <2>2. QED
    BY <1>2, <1>3, <1>4, <2>1 DEF IInv, DataInv, PlanInv, BaseOf, Remote, copies
<1>9. QED
  BY <1>1, <1>2, <1>4, <1>5, <1>6, <1>7, <1>8 DEF DataInv

\* What is pending goes on where its step says.
LEMMA ResumeStep == ASSUME IInv, Resume PROVE IInv' /\ Confirms
<1>1. /\ task.pc = "resume" /\ task \in TaskSet /\ Pending
      /\ a.step \in {"prepared", "named", "copied"} /\ (a.step = "prepared" <=> a.plan = <<>>)
      /\ a.op \in {"put", "delete", "rename"}
      /\ UNCHANGED <<local, copies, touched, feed, clash, scene, mine, raced, held>>
  BY DEF Resume, Unchanged, outside, IInv, DataInv, TypeInv, TaskInv, PcInv, ApplyInv
<1>2. CASE a.step = "prepared" /\ Obsolete
  <2>1. journal' = [journal EXCEPT !.apply = NoApply] /\ task' = At("done")
    BY <1>1, <1>2 DEF Resume, SaveApply, Save
  <2>2. /\ journal' \in JournalSet /\ a' = NoApply
        /\ journal'.base = journal.base /\ journal'.cursor = journal.cursor /\ Confirms
    BY <2>1, NoApplyTypes, ApplySaved DEF IInv, DataInv
  <2>3. Copies = {}
    BY <1>1, <1>2 DEF Copies
  <2>4. Afresh("done")
    <3>1. "done" \in Pcs
      BY DEF Pcs
    <3>2. QED
      BY <1>1, <2>1, <3>1, TaskTypes
  <2>5. hidden' \in [Bytes -> {"none", "fresh", "old"}]
    BY <1>1 DEF copies, IInv, DataInv, TypeInv
  <2>6. \A p \in Paths : journal'.base[p].bytes \in {Absent} \cup FeedBytes
    BY <2>2 DEF IInv, DataInv, FeedInv, BaseOf
  <2>7. BaseOf(To).rev <= journal'.base[To].rev
    BY <1>1, <2>2, PendingFacts DEF IInv, BaseOf
  <2>8. IInv'
    BY <1>1, <2>2, <2>3, <2>4, <2>5, <2>6, <2>7, Closed DEF copies
  <2>9. QED
    BY <2>2, <2>8
<1>3. CASE ~(a.step = "prepared" /\ Obsolete)
  <2> DEFINE pc == CASE a.step = "named" -> "check" [] a.step = "copied" -> "copied"
                     [] OTHER -> CASE a.op = "put" -> "fetch" [] a.op = "delete" -> "look"
                                   [] a.op = "rename" -> "rename"
  <2>1. task' = At(pc) /\ UNCHANGED journal
    BY <1>1, <1>3 DEF Resume, Goto
  <2>2. \/ pc \in {"check", "copied"} /\ a.plan # <<>>
        \/ /\ a.plan = <<>> /\ ~Obsolete
           /\ \/ pc = "fetch" /\ a.op = "put"
              \/ pc = "look" /\ a.op = "delete"
              \/ pc = "rename" /\ a.op = "rename"
    BY <1>1, <1>3
  <2> HIDE DEF pc
  <2>3. Afresh(pc)
    <3>1. pc \in Pcs
      BY <2>2 DEF Pcs
    <3>2. QED
      BY <1>1, <2>1, <3>1, TaskTypes
  <2>4. SameData
    BY <1>1, <2>1, <2>3, DataStays DEF Afresh
  <2>5. a.plan = <<>> => ~Remote /\ Protected = {}
    BY DEF Remote, Protected, Copies
  <2>6. a.op # "rename" => a.rev > BaseOf(To).rev
    BY <1>1, <2>2, PendingFacts DEF IInv, TaskInv, PcInv, Obsolete
  <2>7. PcInv'
    BY <1>1, <2>1, <2>2, <2>3, <2>4, <2>5, <2>6 DEF SameData, Afresh, IInv, TaskInv, PcInv, BaseOf, Extending
  <2>8. HiddenInv'
    BY <1>1, <2>2, <2>3, <2>4, <2>5 DEF SameData, Afresh, IInv, TaskInv, HiddenInv, Late, Early, copies
  <2>9. SeenInv' /\ RenameInv'
    BY <2>2, <2>3 DEF Afresh, SeenInv, RenameInv, CopiesFound, Extending
  <2>10. QED
    BY <2>1, <2>4, <2>7, <2>8, <2>9 DEF SameData, IInv, TaskInv, Confirms
<1>4. QED
  BY <1>2, <1>3

\* Every copy of the plan is made.
LEMMA PlanCopiedStep == ASSUME IInv, PlanCopied PROVE IInv' /\ Confirms
<1>1. /\ task.pc = "persist" /\ task \in TaskSet /\ Pending /\ a.plan # <<>>
      /\ task.next \in {"copied", "extended", "throw"}
      /\ UNCHANGED <<local, copies, touched, feed, clash, scene, mine, raced, held>>
  BY DEF PlanCopied, Unchanged, outside, IInv, DataInv, TypeInv, TaskInv, PcInv
<1> DEFINE apply == [a EXCEPT !.step = "copied"]
           on == [task EXCEPT !.pc = task.next, !.i = 1, !.next = "none"]
<1>2. journal' = [journal EXCEPT !.apply = apply] /\ task' = on
  BY DEF PlanCopied, SaveApply, Save
<1>3. /\ apply \in ApplySet /\ apply.row = a.row /\ apply.op = a.op /\ apply.rev = a.rev
      /\ apply.bytes = a.bytes /\ apply.plan = a.plan /\ apply.kind = a.kind /\ apply.step = "copied"
  BY <1>1, PendingFacts DEF IInv, ApplySet
<1>4. /\ on \in TaskSet /\ on.pc = task.next /\ on.seen = task.seen /\ on.src = task.src
      /\ on.same = task.same /\ on.clean = task.clean
  <2>1. task.next \in Pcs
    BY <1>1 DEF Pcs
  <2> DEFINE mid == [task EXCEPT !.pc = task.next]
  <2>2. /\ mid \in TaskSet /\ mid.pc = task.next /\ mid.seen = task.seen /\ mid.src = task.src
        /\ mid.same = task.same /\ mid.clean = task.clean
    BY <1>1, <2>1 DEF TaskSet
  <2>3. on = [mid EXCEPT !.i = 1, !.next = "none"]
    BY <1>1
  <2> HIDE DEF mid, on
  <2>4. on \in TaskSet
    <3> DEFINE one == [mid EXCEPT !.i = 1]
    <3>1. one \in TaskSet
      BY <2>2 DEF TaskSet
    <3>2. on = [one EXCEPT !.next = "none"]
      BY <2>2, <2>3
    <3> HIDE DEF one
    <3>3. QED
      BY <3>1, <3>2 DEF TaskSet
  <2>5. /\ on.pc = mid.pc /\ on.seen = mid.seen /\ on.src = mid.src
        /\ on.same = mid.same /\ on.clean = mid.clean
    BY <2>2, <2>3 DEF TaskSet
  <2>6. QED
    BY <2>2, <2>4, <2>5
<1> HIDE DEF apply, on
<1>5. /\ DataInv' /\ Confirms
      /\ a' = apply /\ Pending' /\ Remote' = Remote /\ Protected' = Protected
      /\ DestinationPending' = DestinationPending /\ KeptBytes' = KeptBytes
      /\ journal'.base = journal.base
  <2>1. Remote => apply.kind = "blob"
    BY <1>3 DEF Remote, IInv, DataInv, PlanInv
  <2>2. QED
    BY <1>1, <1>2, <1>3, <1>4, <2>1, SamePlan
<1>6. PcInv'
  BY <1>1, <1>2, <1>3, <1>4, <1>5 DEF IInv, TaskInv, PcInv, BaseOf, Extending
<1>7. HiddenInv'
  BY <1>1, <1>2, <1>3, <1>4, <1>5 DEF IInv, TaskInv, HiddenInv, Late, Early, copies
<1>8. SeenInv'
  BY <1>1, <1>2, <1>3, <1>4, <1>5 DEF IInv, TaskInv, SeenInv, CopiesFound, Extending, Clean, BaseOf
<1>9. RenameInv'
  BY <1>1, <1>2, <1>4 DEF RenameInv
<1>10. QED
  BY <1>5, <1>6, <1>7, <1>8, <1>9 DEF IInv, TaskInv

\* A put's revision is there.
LEMMA FetchedStep == ASSUME IInv, Fetched PROVE IInv' /\ Confirms
<1>1. /\ task.pc = "fetch" /\ task \in TaskSet /\ Pending /\ a.op = "put" /\ ~Remote
      /\ UNCHANGED <<local, copies, touched, feed, clash, scene, mine, raced, held>>
  BY DEF Fetched, Unchanged, outside, IInv, DataInv, TypeInv, TaskInv, PcInv
<1>2. {"look", "inline_look", "resume"} \subseteq Pcs
  BY DEF Pcs
<1>3. CASE KindAt(a.rev) = "blob" \/ a.plan = <<>>
  <2>1. /\ UNCHANGED journal
        /\ Afresh("look") \/ (Afresh("inline_look") /\ a.plan = <<>>)
    BY <1>1, <1>2, <1>3, TaskTypes DEF Fetched, Goto
  <2>2. SameData
    BY <1>1, <2>1, DataStays DEF Afresh
  <2>3. PcInv'
    BY <1>1, <2>1, <2>2 DEF Afresh, SameData, IInv, TaskInv, PcInv, BaseOf, Extending
  <2>4. HiddenInv'
    BY <1>1, <2>1, <2>2 DEF Afresh, SameData, IInv, TaskInv, HiddenInv, Late, Early, copies
  <2>5. SeenInv' /\ RenameInv'
    BY <2>1 DEF Afresh, SeenInv, RenameInv, CopiesFound, Extending
  <2>6. QED
    BY <2>1, <2>2, <2>3, <2>4, <2>5 DEF SameData, IInv, TaskInv, Confirms
<1>4. CASE KindAt(a.rev) # "blob" /\ a.plan # <<>>
  <2> DEFINE apply == [a EXCEPT !.kind = "text"]
  <2>1. journal' = [journal EXCEPT !.apply = apply] /\ Afresh("resume")
    BY <1>1, <1>2, <1>4, TaskTypes DEF Fetched, SaveApply, Save
  <2>2. /\ apply \in ApplySet /\ apply.row = a.row /\ apply.op = a.op /\ apply.rev = a.rev
        /\ apply.bytes = a.bytes /\ apply.plan = a.plan /\ apply.step = a.step
    BY <1>1, PendingFacts DEF IInv, ApplySet
  <2>3. a.step \in {"prepared", "named", "copied"} /\ (a.step = "prepared" <=> a.plan = <<>>)
    BY <1>1 DEF IInv, DataInv, ApplyInv
  <2> HIDE DEF apply
  <2>4. /\ DataInv' /\ Confirms
        /\ a' = apply /\ Pending' /\ Remote' = Remote /\ Protected' = Protected
        /\ DestinationPending' = DestinationPending /\ KeptBytes' = KeptBytes
        /\ journal'.base = journal.base
    BY <1>1, <2>1, <2>2, <2>3, SamePlan DEF Afresh
  <2>5. PcInv'
    BY <1>1, <2>1, <2>2, <2>4 DEF Afresh, IInv, TaskInv, PcInv, BaseOf, Extending
  <2>6. HiddenInv'
    BY <1>1, <2>1, <2>2, <2>4 DEF Afresh, IInv, TaskInv, HiddenInv, Late, Early, copies
  <2>7. SeenInv' /\ RenameInv'
    BY <2>1 DEF Afresh, SeenInv, RenameInv, CopiesFound, Extending
  <2>8. QED
    BY <2>4, <2>5, <2>6, <2>7 DEF IInv, TaskInv
<1>5. QED
  BY <1>3, <1>4

\* Authority that turned to bytes goes the way of the bytes.
LEMMA InlineFetchedStep == ASSUME IInv, InlineFetched PROVE IInv' /\ Confirms
<1>1. /\ task.pc = "inline_fetch" /\ task \in TaskSet /\ Pending /\ a.op = "put" /\ ~Remote
      /\ UNCHANGED <<local, copies, touched, feed, clash, scene, mine, raced, held>>
  BY DEF InlineFetched, Unchanged, outside, IInv, DataInv, TypeInv, TaskInv, PcInv
<1>2. {"inline_replace", "copied"} \subseteq Pcs
  BY DEF Pcs
<1>3. CASE KindAt(a.rev) # "blob"
  <2>1. UNCHANGED journal /\ Onward("inline_replace")
    BY <1>1, <1>2, <1>3, TaskTypes DEF InlineFetched, Keep
  <2>2. SameData
    BY <1>1, <2>1, DataStays DEF Onward
  <2>3. PcInv'
    BY <1>1, <2>1, <2>2 DEF Onward, SameData, IInv, TaskInv, PcInv, BaseOf, Extending
  <2>4. HiddenInv'
    BY <1>1, <2>1, <2>2 DEF Onward, SameData, IInv, TaskInv, HiddenInv, Late, Early, copies
  <2>5. SeenInv' /\ RenameInv'
    BY <2>1 DEF Onward, SeenInv, RenameInv, CopiesFound, Extending
  <2>6. QED
    BY <2>1, <2>2, <2>3, <2>4, <2>5 DEF SameData, IInv, TaskInv, Confirms
<1>4. CASE KindAt(a.rev) = "blob"
  <2> DEFINE apply == [a EXCEPT !.kind = "blob"]
  <2>1. journal' = [journal EXCEPT !.apply = apply] /\ Afresh("copied")
    BY <1>1, <1>2, <1>4, TaskTypes DEF InlineFetched, SaveApply, Save
  <2>2. /\ apply \in ApplySet /\ apply.row = a.row /\ apply.op = a.op /\ apply.rev = a.rev
        /\ apply.bytes = a.bytes /\ apply.plan = a.plan /\ apply.step = a.step
    BY <1>1, PendingFacts DEF IInv, ApplySet
  <2>3. a.step \in {"prepared", "named", "copied"} /\ (a.step = "prepared" <=> a.plan = <<>>)
    BY <1>1 DEF IInv, DataInv, ApplyInv
  <2> HIDE DEF apply
  <2>4. /\ DataInv' /\ Confirms
        /\ a' = apply /\ Pending' /\ Remote' = Remote /\ Protected' = Protected
        /\ DestinationPending' = DestinationPending /\ KeptBytes' = KeptBytes
        /\ journal'.base = journal.base
    BY <1>1, <2>1, <2>2, <2>3, SamePlan DEF Afresh
  <2>5. PcInv'
    BY <1>1, <2>1, <2>2, <2>4 DEF Afresh, IInv, TaskInv, PcInv, BaseOf, Extending
  <2>6. HiddenInv'
    BY <1>1, <2>1, <2>2, <2>4 DEF Afresh, IInv, TaskInv, HiddenInv, Late, Early, copies
  <2>7. SeenInv' /\ RenameInv'
    BY <2>1 DEF Afresh, SeenInv, RenameInv, CopiesFound, Extending
  <2>8. QED
    BY <2>4, <2>5, <2>6, <2>7 DEF IInv, TaskInv
<1>5. QED
  BY <1>3, <1>4

\* What naming a plan leaves of the apply.
LEMMA NamedTypes ==
  ASSUME a \in ApplySet, NEW plan \in Seq(CopySet), NEW kind \in {"none", "blob", "text"}
  PROVE  /\ Named(plan, kind) \in ApplySet
         /\ Named(plan, kind).row = a.row /\ Named(plan, kind).op = a.op
         /\ Named(plan, kind).rev = a.rev /\ Named(plan, kind).bytes = a.bytes
         /\ Named(plan, kind).step = "named" /\ Named(plan, kind).plan = plan
         /\ Named(plan, kind).kind = kind
<1> DEFINE apply == [a EXCEPT !.step = "named", !.plan = plan, !.kind = kind]
<1>1. apply \in ApplySet
  BY DEF ApplySet
<1>2. /\ apply.row = a.row /\ apply.op = a.op /\ apply.rev = a.rev /\ apply.bytes = a.bytes
      /\ apply.step = "named" /\ apply.plan = plan /\ apply.kind = kind
  BY DEF ApplySet
<1> HIDE DEF apply
<1>3. Named(plan, kind) = apply
  BY DEF Named, apply
<1>4. QED
  BY <1>1, <1>2, <1>3

\* A plan is named in the journal before a copy is made.
LEMMA PlanNamed ==
  ASSUME IInv, Pending, a.plan = <<>>,
         task.pc \in {"look", "second", "inline_look", "rename", "create"},
         NEW plan \in Seq(CopySet), plan # <<>>, NEW kind \in {"none", "blob", "text"},
         NEW P, P = {plan[i] : i \in DOMAIN plan},
         \A c \in P : c.mode = "local" \/
           /\ P = {c} /\ a.op = "put" /\ kind = "blob" /\ c.hash = a.bytes
           /\ c.purpose = "conflict" /\ c.name \notin DOMAIN visible,
         \A c \in P : c.name[1] = To /\ c.name[3] = Absent => c.name[2] <= a.rev,
         journal' = [journal EXCEPT !.apply = Named(plan, kind)],
         UNCHANGED <<local, copies, feed, clash, scene, mine, raced, held>>,
         Afresh("resume") \/ (task' \in TaskSet /\ task'.pc = "persist" /\ task'.next = "throw")
  PROVE  IInv' /\ Confirms
<1> DEFINE apply == Named(plan, kind)
<1>1. a \in ApplySet /\ a.row # 0 /\ a.rev \in Nat
  BY PendingFacts DEF IInv
<1>2. /\ apply \in ApplySet /\ apply.row = a.row /\ apply.op = a.op /\ apply.rev = a.rev
      /\ apply.bytes = a.bytes /\ apply.step = "named" /\ apply.plan = plan /\ apply.kind = kind
  BY <1>1, NamedTypes
<1> HIDE DEF apply
<1>3. task' \in TaskSet
  BY DEF Afresh
<1>4. journal' = [journal EXCEPT !.apply = apply]
  BY DEF apply
<1>5. /\ a' = apply /\ Confirms /\ journal'.base = journal.base /\ Copies' = P
  BY <1>2, <1>4, ApplySaved DEF IInv, DataInv
<1>6. TypeInv' /\ FeedInv' /\ KeptInv' /\ FeedBytes' = FeedBytes
  BY <1>2, <1>3, <1>4, ApplyStep DEF IInv
<1>7. Pending' /\ Copies = {}
  <2>1. a'.row # 0 /\ NoApply.row = 0
    BY <1>1, <1>2, <1>5, NoApplyTypes
  <2>2. QED
    BY <2>1 DEF Pending, a, Copies
<1>8. ApplyInv'
  BY <1>2, <1>5, <1>6, <1>7 DEF IInv, DataInv, ApplyInv
<1>9. PlanInv'
  <2>1. \A n \in DOMAIN visible : n[1] = To /\ n[3] = Absent => n[2] <= BaseOf(To).rev
    BY <1>7 DEF IInv, DataInv, PlanInv
  <2>2. QED
    BY <1>2, <1>5, <2>1 DEF PlanInv, BaseOf, copies
<1>10. PcInv'
  <2>1. a.op # "rename" => a.rev > BaseOf(To).rev
    BY DEF IInv, TaskInv, PcInv
  <2>2. QED
    BY <1>2, <1>5, <1>7, <2>1 DEF Afresh, PcInv, BaseOf, Extending
<1>11. HiddenInv'
  <2>1. a.op # "delete" => \A b \in Bytes : hidden[b] # "old"
    BY DEF IInv, TaskInv, HiddenInv, Late, Early
  <2>2. QED
    BY <1>2, <1>5, <2>1 DEF Afresh, HiddenInv, Late, Early, copies
<1>12. SeenInv' /\ RenameInv'
  BY DEF Afresh, SeenInv, RenameInv, CopiesFound, Extending
<1>13. QED
  BY <1>5, <1>6, <1>8, <1>9, <1>10, <1>11, <1>12 DEF IInv, DataInv, TaskInv

\* What the newest revision of To holds, when it is newer than that of the apply.
LEMMA HeadContent ==
  ASSUME DataInv, Pending, a.rev < HeadOf(To)
  PROVE  /\ HeadOf(To) \in DOMAIN feed /\ HeadOf(To) \in Nat
         /\ ContentAt(To, HeadOf(To)) \in B0
         /\ ContentAt(To, HeadOf(To)) \in {Absent} \cup FeedBytes
<1> DEFINE v == HeadOf(To)
<1>1. v \in Revisions(To) /\ Revisions(To) \subseteq 0..Len(feed) /\ DOMAIN feed = 1..Len(feed)
      /\ Len(feed) \in Nat
  BY HeadIsRevision DEF DataInv, TypeInv, Paths
<1>2. a.rev \in Nat \ {0}
  BY PendingFacts
<1> HIDE DEF v
<1>3. v \in DOMAIN feed /\ v \in Nat
  BY <1>1, <1>2 DEF v
<1>4. feed[v].bytes \in B0 /\ feed[v].bytes \in FeedBytes
  <2>1. feed \in Seq(RowSet)
    BY DEF DataInv, TypeInv
  <2>2. feed[v] \in RowSet
    BY <1>3, <2>1
  <2>3. QED
    BY <1>3, <2>2 DEF RowSet, FeedBytes
<1>5. QED
  BY <1>3, <1>4 DEF v, ContentAt, B0

\* What a rebase leaves of the apply.
LEMMA RebasedTypes ==
  ASSUME a \in ApplySet, NEW rev \in Nat, NEW bytes \in B0
  PROVE  LET r == Rebased(rev, bytes)
             dropped == bytes = Absent /\ ReplacementOnly
         IN /\ r \in ApplySet /\ r.row = a.row /\ r.rev = rev /\ r.bytes = bytes
            /\ r.op = IF bytes = Absent THEN "delete" ELSE a.op
            /\ r.plan = IF dropped THEN <<>> ELSE a.plan
            /\ r.kind = IF dropped THEN "none" ELSE a.kind
            /\ r.step = IF dropped THEN "prepared"
                        ELSE IF a.plan # <<>> THEN "named" ELSE a.step
<1> DEFINE dropped == bytes = Absent /\ ReplacementOnly
           op == IF bytes = Absent THEN "delete" ELSE a.op
           plan == IF dropped THEN <<>> ELSE a.plan
           kind == IF dropped THEN "none" ELSE a.kind
           step == IF dropped THEN "prepared" ELSE IF a.plan # <<>> THEN "named" ELSE a.step
           one == [a EXCEPT !.rev = rev, !.bytes = bytes, !.op = op]
           r == [one EXCEPT !.plan = plan, !.kind = kind, !.step = step]
<1>1. Rebased(rev, bytes) = r
  BY DEF Rebased, ApplySet
<1>2. /\ op \in {"none", "put", "delete", "rename"} /\ plan \in Seq(CopySet)
      /\ kind \in {"none", "blob", "text"} /\ step \in {"none", "prepared", "named", "copied"}
  BY DEF ApplySet
<1> HIDE DEF op, plan, kind, step, dropped
<1>3. /\ one \in ApplySet /\ one.row = a.row /\ one.rev = rev /\ one.bytes = bytes /\ one.op = op
  BY <1>2 DEF ApplySet
<1> HIDE DEF one
<1>4. /\ r \in ApplySet /\ r.row = one.row /\ r.rev = one.rev /\ r.bytes = one.bytes
      /\ r.op = one.op /\ r.plan = plan /\ r.kind = kind /\ r.step = step
  BY <1>2, <1>3 DEF ApplySet
<1> HIDE DEF r
<1>5. QED
  BY <1>1, <1>3, <1>4 DEF op, plan, kind, step, dropped

\* The apply moves to a newer revision.
LEMMA RebaseStep == ASSUME IInv, Rebase PROVE IInv' /\ Confirms
<1> DEFINE rev == HeadOf(To)
           bytes == ContentAt(To, rev)
           apply == Rebased(rev, bytes)
<1>1. /\ task \in TaskSet /\ Pending /\ Resolving /\ a.rev < rev
      /\ UNCHANGED <<local, copies, touched, feed, clash, scene, mine, raced, held>>
  BY DEF Rebase, Resolving, Unchanged, outside, IInv, DataInv, TypeInv, TaskInv, PcInv
<1>2. {"throw", "resume"} \subseteq Pcs
  BY DEF Pcs
<1>3. /\ ~Remote /\ a.op \in {"put", "rename"}
      /\ task.pc \in {"fetch", "inline_fetch", "rename_fetch", "finish_fetch", "copied"}
  BY <1>1 DEF Resolving, Remote, CopySet, IInv, DataInv, ApplyInv, TaskInv, PcInv
<1>4. CASE bytes = Absent /\ a.op = "rename"
  <2>1. UNCHANGED journal /\ Afresh("throw")
    BY <1>1, <1>2, <1>4, TaskTypes DEF Rebase, Goto
  <2>2. SameData
    BY <1>1, <2>1, DataStays DEF Afresh
  <2>3. PcInv' /\ SeenInv' /\ RenameInv'
    BY <1>1, <1>3, <2>1, <2>2 DEF Afresh, SameData, IInv, TaskInv, PcInv, SeenInv, RenameInv,
       BaseOf, Extending, CopiesFound
  <2>4. HiddenInv'
    BY <1>1, <1>3, <2>1, <2>2 DEF Afresh, SameData, IInv, TaskInv, HiddenInv, Late, Early, copies
  <2>5. QED
    BY <2>1, <2>2, <2>3, <2>4 DEF SameData, IInv, TaskInv, Confirms
<1>5. CASE ~(bytes = Absent /\ a.op = "rename")
  <2>1. journal' = [journal EXCEPT !.apply = apply] /\ Afresh("resume")
    BY <1>1, <1>2, <1>5, TaskTypes DEF Rebase, SaveApply, Save
  <2>2. /\ a \in ApplySet /\ a.row # 0 /\ a.rev \in Nat /\ BaseOf(To).rev \in Nat
        /\ rev \in DOMAIN feed /\ rev \in Nat
        /\ bytes \in B0 /\ bytes \in {Absent} \cup FeedBytes
    BY <1>1, PendingFacts, HeadContent DEF IInv
  <2> DEFINE dropped == bytes = Absent /\ ReplacementOnly
  <2>3. /\ apply \in ApplySet /\ apply.row = a.row /\ apply.rev = rev /\ apply.bytes = bytes
        /\ apply.op = (IF bytes = Absent THEN "delete" ELSE a.op)
        /\ apply.plan = (IF dropped THEN <<>> ELSE a.plan)
        /\ apply.kind = (IF dropped THEN "none" ELSE a.kind)
        /\ apply.step = (IF dropped THEN "prepared"
                         ELSE IF a.plan # <<>> THEN "named" ELSE a.step)
    <3> HIDE DEF rev, bytes
    <3>1. QED
      BY <2>2, RebasedTypes
  <2>4. dropped => \A c \in Copies : c.purpose = "pre_apply"
    <3> SUFFICES ASSUME dropped, NEW c \in Copies PROVE c.purpose = "pre_apply"
      OBVIOUS
    <3>1. a.plan \in Seq(CopySet) /\ Len(a.plan) = 1 /\ a.plan[1].purpose = "pre_apply"
      BY <2>2 DEF ReplacementOnly, ApplySet
    <3>2. PICK i \in DOMAIN a.plan : c = a.plan[i]
      BY DEF Copies
    <3>3. i = 1
      BY <3>1, <3>2
    <3>4. QED
      BY <3>1, <3>2, <3>3
  <2> HIDE DEF apply
  <2>5. /\ a' = apply /\ Confirms /\ journal'.base = journal.base
        /\ Copies' = {apply.plan[i] : i \in DOMAIN apply.plan}
    BY <2>1, <2>3, ApplySaved DEF IInv, DataInv
  <2>6. TypeInv' /\ FeedInv' /\ KeptInv' /\ FeedBytes' = FeedBytes
    BY <1>1, <2>1, <2>3, ApplyStep DEF IInv, Afresh
  <2>7. Copies' = IF dropped THEN {} ELSE Copies
    BY <2>3, <2>5 DEF Copies
  <2> HIDE DEF dropped, rev, bytes
  <2>8. Pending'
    <3>1. a'.row # 0 /\ NoApply.row = 0
      BY <2>2, <2>3, <2>5, NoApplyTypes
    <3>2. QED
      BY <3>1 DEF Pending, a
  <2>9. ~Remote' /\ (a'.op # "delete" => Protected' = Protected)
    <3>1. a'.op # "delete" => ~dropped
      BY <2>3, <2>5 DEF dropped
    <3>2. QED
      BY <1>3, <2>7, <3>1 DEF Remote, Protected
  <2>10. ApplyInv'
    <3>1. /\ a.row \in DOMAIN feed /\ a.op \in {"put", "delete", "rename"}
          /\ (a.op = "rename" => scene = "rename")
          /\ a.step \in {"prepared", "named", "copied"} /\ (a.step = "prepared" <=> a.plan = <<>>)
      BY <1>1 DEF IInv, DataInv, ApplyInv
    <3>2. a'.op = "delete" <=> a'.bytes = Absent
      BY <1>3, <2>3, <2>5
    <3>3. a'.step \in {"prepared", "named", "copied"} /\ (a'.step = "prepared" <=> a'.plan = <<>>)
      BY <2>3, <2>5, <3>1
    <3>4. QED
      BY <1>1, <1>3, <2>2, <2>3, <2>5, <2>6, <3>1, <3>2, <3>3 DEF ApplyInv
  <2>11. PlanInv'
    <3>1. \A c \in Copies' : c.mode # "remote"
      BY <2>9 DEF Remote
    <3>2. \A c \in Copies : c.name[2] \in Nat
      BY CopyTypes DEF IInv, DataInv, CopySet, NameSet
    <3>3. \A c \in Copies' : c.name[1] = To /\ c.name[3] = Absent => c.name[2] <= a'.rev
      BY <1>1, <2>2, <2>3, <2>5, <2>7, <3>2 DEF IInv, DataInv, PlanInv
    <3>4. \A n \in DOMAIN visible : n[1] = To /\ n[3] = Absent =>
            n[2] <= BaseOf(To).rev \/ \E c \in Copies' : c.purpose = "conflict" /\ c.name = n
      BY <2>4, <2>7 DEF IInv, DataInv, PlanInv
    <3>5. QED
      BY <1>1, <2>5, <3>1, <3>3, <3>4 DEF PlanInv, BaseOf, copies
  <2>12. PcInv'
    <3>1. a'.op # "rename" => a'.rev > BaseOf(To).rev
      BY <1>1, <1>3, <1>5, <2>2, <2>3, <2>5 DEF IInv, TaskInv, PcInv
    <3>2. QED
      BY <2>1, <2>5, <2>8, <2>9, <3>1 DEF Afresh, PcInv, BaseOf, Extending
  <2>13. HiddenInv'
    BY <1>1, <1>3, <2>1, <2>9 DEF Afresh, IInv, TaskInv, HiddenInv, Late, Early, copies
  <2>14. SeenInv' /\ RenameInv'
    BY <2>1 DEF Afresh, SeenInv, RenameInv, CopiesFound, Extending
  <2>15. QED
    BY <2>5, <2>6, <2>10, <2>11, <2>12, <2>13, <2>14 DEF IInv, DataInv, TaskInv
<1>6. QED
  BY <1>4, <1>5

\* Copies are added under names that have no file, for no apply that pins remote bytes.
LEMMA CopiesAdded ==
  ASSUME IInv, NEW made, AddVisible(made), DOMAIN made \subseteq NameSet,
         \A n \in DOMAIN made : made[n] \in B0,
         ~Remote,
         \A n \in DOMAIN made : n[1] = To /\ n[3] = Absent =>
           \E c \in Copies : c.purpose = "conflict" /\ c.name = n,
         UNCHANGED <<local, hidden, trash, journal, feed, clash, scene, mine, raced, held>>,
         task' \in TaskSet
  PROVE  /\ DataInv' /\ Confirms
         /\ a' = a /\ Pending' = Pending /\ Remote' = Remote /\ Protected' = Protected
         /\ DestinationPending' = DestinationPending
<1>1. /\ a' = a /\ Pending' = Pending /\ Copies' = Copies /\ Remote' = Remote
      /\ Protected' = Protected /\ DestinationPending' = DestinationPending
      /\ FeedBytes' = FeedBytes
  BY SameJournal DEF FeedBytes
<1>2. /\ DOMAIN visible' = DOMAIN visible \cup DOMAIN made
      /\ \A n \in DOMAIN visible' :
           \/ n \in DOMAIN visible /\ visible'[n] = visible[n]
           \/ n \in DOMAIN made /\ visible'[n] = made[n]
      /\ \A n \in DOMAIN visible : visible[n] # Absent => visible'[n] = visible[n]
  BY DEF AddVisible
<1>3. TypeInv'
  BY <1>2 DEF IInv, DataInv, TypeInv
<1>4. FeedInv' /\ ApplyInv'
  BY <1>1 DEF IInv, DataInv, FeedInv, ApplyInv, BaseOf
<1>5. PlanInv'
  <2>1. \A c \in Copies : c.mode # "remote"
    BY DEF Remote
  <2>2. QED
    BY <1>1, <1>2, <2>1 DEF IInv, DataInv, PlanInv, BaseOf
<1>6. KeptInv'
  <2>1. Findable \ {Absent} \subseteq Findable'
    BY <1>1, <1>2 DEF Findable, FeedBytes
  <2>2. Absent \notin mine
    BY BinaryAssumption DEF IInv, DataInv, TypeInv
  <2>3. QED
    BY <2>1, <2>2 DEF IInv, DataInv, KeptInv
<1>7. QED
  BY <1>1, <1>3, <1>4, <1>5, <1>6 DEF DataInv, Confirms

\* Every version that was observed becomes a copy, and the apply ends.
LEMMA PreserveStep ==
  ASSUME IInv, Pending, ~Remote, task.pc \notin {"idle", "resume", "done"},
         NEW versions \in SUBSET B0, Preserve(versions),
         UNCHANGED <<local, hidden, trash, journal, feed, clash, scene, mine, raced, held>>
  PROVE  IInv' /\ Confirms
<1> DEFINE made == [n \in {<<To, a.rev, b>> : b \in versions \ {Absent}} |-> n[3]]
<1>1. AddVisible(made) /\ task' = At("throw")
  BY DEF Preserve, Goto
<1>2. "throw" \in Pcs /\ a.rev \in Nat
  BY PendingFacts DEF Pcs, IInv
<1>3. Afresh("throw")
  BY <1>1, <1>2, TaskTypes DEF IInv, DataInv, TypeInv
<1>4. \A n \in DOMAIN made : n \in NameSet /\ made[n] \in B0 /\ n[3] # Absent
  BY <1>2 DEF NameSet, Paths
<1> HIDE DEF made
<1>5. /\ DataInv' /\ Confirms
      /\ a' = a /\ Pending' = Pending /\ Remote' = Remote /\ Protected' = Protected
      /\ DestinationPending' = DestinationPending
  <2>1. DOMAIN made \subseteq NameSet /\ \A n \in DOMAIN made : made[n] \in B0
    BY <1>4
  <2>2. \A n \in DOMAIN made : n[1] = To /\ n[3] = Absent =>
           \E c \in Copies : c.purpose = "conflict" /\ c.name = n
    BY <1>4
  <2>3. task' \in TaskSet
    BY <1>3 DEF Afresh
  <2>4. QED
    BY <1>1, <2>1, <2>2, <2>3, CopiesAdded
<1>6. PcInv'
  BY <1>3, <1>5 DEF Afresh, IInv, TaskInv, PcInv, BaseOf, Extending
<1>7. HiddenInv'
  BY <1>3, <1>5 DEF Afresh, IInv, TaskInv, HiddenInv, Late, Early
<1>8. SeenInv' /\ RenameInv'
  BY <1>3 DEF Afresh, SeenInv, RenameInv, CopiesFound, Extending
<1>9. QED
  BY <1>5, <1>6, <1>7, <1>8 DEF IInv, TaskInv

\* A file is written; what it held was kept.
LEMMA FileWritten ==
  ASSUME IInv, NEW b \in B0, SetLocal(To, b), local[To] \in KeptBytes,
         UNCHANGED <<copies, journal, feed, clash, scene, mine, raced>>,
         task' \in TaskSet
  PROVE  SameData /\ Confirms /\ \A p \in Paths : held[p] \subseteq held'[p]
<1>1. /\ a' = a /\ Pending' = Pending /\ Copies' = Copies /\ Remote' = Remote
      /\ Protected' = Protected /\ DestinationPending' = DestinationPending
      /\ FeedBytes' = FeedBytes /\ KeptBytes' = KeptBytes
  BY SameJournal, SameKept DEF FeedBytes, copies
<1>2. /\ local \in [Paths -> B0] /\ held \in [Paths -> SUBSET B0] /\ To \in Paths
      /\ local' = [local EXCEPT ![To] = b] /\ held' = [held EXCEPT ![To] = @ \cup {b}]
  BY DEF SetLocal, IInv, DataInv, TypeInv, Paths
<1>3. /\ local'[To] = b /\ \A p \in Paths \ {To} : local'[p] = local[p]
      /\ held'[To] = held[To] \cup {b} /\ \A p \in Paths \ {To} : held'[p] = held[p]
      /\ local' \in [Paths -> B0] /\ held' \in [Paths -> SUBSET B0]
  BY <1>2
<1>4. TypeInv'
  BY <1>3 DEF IInv, DataInv, TypeInv, copies
<1>5. FeedInv' /\ ApplyInv'
  BY <1>1 DEF IInv, DataInv, FeedInv, ApplyInv, BaseOf
<1>6. \A p \in Paths : held[p] \subseteq held'[p]
  BY <1>3
<1>7. PlanInv'
  BY <1>1, <1>2, <1>6 DEF IInv, DataInv, PlanInv, BaseOf, copies
<1>8. KeptInv'
  <2>1. \A p \in Paths : local'[p] \in held'[p]
    BY <1>3 DEF IInv, DataInv, KeptInv
  <2>2. Findable \ {local[To]} \subseteq Findable'
    BY <1>1, <1>3 DEF Findable, FeedBytes, copies
  <2>3. local[To] \in Findable' \cup raced \cup {Absent}
    BY <1>1 DEF KeptBytes, Findable, FeedBytes, copies
  <2>4. Absent \notin mine
    BY BinaryAssumption DEF IInv, DataInv, TypeInv
  <2>5. QED
    BY <2>1, <2>2, <2>3, <2>4 DEF IInv, DataInv, KeptInv
<1>9. QED
  BY <1>1, <1>4, <1>5, <1>6, <1>7, <1>8 DEF SameData, DataInv, Confirms

\* A row for a path whose key another file has becomes a copy.
LEMMA RemoteCopyNamed ==
  ASSUME IInv, NameRemoteCopy, task.pc \in {"look", "create"}, a.op = "put",
         UNCHANGED <<local, copies, feed, clash, scene, mine, raced, held>>
  PROVE  IInv' /\ Confirms
<1>1. Pending /\ ~Remote /\ task \in TaskSet /\ {"resume", "throw"} \subseteq Pcs
  BY DEF IInv, DataInv, TypeInv, TaskInv, PcInv, Pcs
<1>2. CASE a.plan = <<>>
  <2> DEFINE c == Conflict(To, a.rev, Absent, a.bytes, "remote")
             plan == <<c>>
  <2>1. journal' = [journal EXCEPT !.apply = Named(plan, "blob")] /\ Afresh("resume")
    BY <1>1, <1>2, TaskTypes DEF NameRemoteCopy, SaveApply, Save
  <2>2. a.rev \in Nat /\ a.bytes \in Bytes
    BY <1>1, PendingFacts DEF ApplySet, B0, IInv, DataInv, ApplyInv
  <2>3. /\ c \in CopySet /\ c.mode = "remote" /\ c.hash = a.bytes /\ c.purpose = "conflict"
        /\ c.name = <<To, a.rev, Absent>>
    BY <2>2 DEF Conflict, CopySet, NameSet, Paths, B0
  <2> HIDE DEF c
  <2>4. plan \in Seq(CopySet) /\ plan # <<>> /\ {plan[i] : i \in DOMAIN plan} = {c}
    BY <2>3
  <2>5. c.name \notin DOMAIN visible
    <3>1. Copies = {}
      BY <1>2 DEF Copies
    <3>2. a.rev > BaseOf(To).rev
      BY <1>1 DEF IInv, TaskInv, PcInv
    <3>3. BaseOf(To).rev \in Nat
      BY <1>1, PendingFacts DEF IInv
    <3>4. QED
      BY <2>2, <2>3, <3>1, <3>2, <3>3 DEF IInv, DataInv, PlanInv
  <2>6. c.name[1] = To /\ c.name[3] = Absent => c.name[2] <= a.rev
    BY <2>2, <2>3
  <2> HIDE DEF plan
  <2> DEFINE P == {plan[i] : i \in DOMAIN plan}
  <2>7. \A d \in P : d.mode = "local" \/
          /\ P = {d} /\ a.op = "put" /\ "blob" = "blob" /\ d.hash = a.bytes
          /\ d.purpose = "conflict" /\ d.name \notin DOMAIN visible
    BY <2>3, <2>4, <2>5
  <2>8. \A d \in P : d.name[1] = To /\ d.name[3] = Absent => d.name[2] <= a.rev
    BY <2>4, <2>6
  <2>9. P = {plan[i] : i \in DOMAIN plan} /\ "blob" \in {"none", "blob", "text"}
    OBVIOUS
  <2> HIDE DEF P
  <2>10. QED
    BY <1>1, <1>2, <2>1, <2>4, <2>7, <2>8, <2>9, PlanNamed
<1>3. CASE a.plan # <<>>
  <2>1. UNCHANGED journal /\ Afresh("throw")
    BY <1>1, <1>3, TaskTypes DEF NameRemoteCopy, Goto
  <2>2. SameData
    BY <2>1, DataStays DEF Afresh
  <2>3. PcInv'
    BY <1>1, <2>1, <2>2 DEF Afresh, SameData, IInv, TaskInv, PcInv, BaseOf, Extending
  <2>4. HiddenInv'
    BY <1>1, <2>1, <2>2 DEF Afresh, SameData, IInv, TaskInv, HiddenInv, Late, Early, copies
  <2>5. SeenInv' /\ RenameInv'
    BY <2>1 DEF Afresh, SeenInv, RenameInv, CopiesFound, Extending
  <2>6. QED
    BY <2>1, <2>2, <2>3, <2>4, <2>5 DEF SameData, IInv, TaskInv, Confirms
<1>4. QED
  BY <1>2, <1>3

\* The file is looked at for the first time.
LEMMA LookStep == ASSUME IInv, Look PROVE IInv' /\ Confirms
<1>1. /\ task.pc = "look" /\ task \in TaskSet /\ Pending /\ ~Remote
      /\ a.op \in {"put", "delete"} /\ local \in [Paths -> B0]
      /\ UNCHANGED <<local, copies, feed, clash, scene, mine, raced, held>>
      /\ touched' = touched \ {To}
  BY DEF Look, Frame, outside, IInv, DataInv, TypeInv, TaskInv, PcInv
<1>2. local[To] \in held[To] /\ To \in Paths
  BY DEF IInv, DataInv, KeptInv, Paths
<1>3. hidden' \in [Bytes -> {"none", "fresh", "old"}]
  BY <1>1 DEF IInv, DataInv, TypeInv, copies
<1>4. {"create", "second"} \subseteq Pcs /\ Absent \in B0
  BY DEF Pcs, B0
<1>5. CASE local[To] = Absent /\ a.op = "delete"
  <2>1. Complete(Absent)
    BY <1>1, <1>5 DEF Look
  <2>2. QED
    BY <1>1, <1>2, <1>3, <1>5, <2>1, Completes DEF copies
<1>6. CASE local[To] # Absent /\ local[To] = a.bytes
  <2>1. Complete(a.bytes)
    BY <1>1, <1>6 DEF Look
  <2>2. QED
    BY <1>1, <1>2, <1>3, <1>6, <2>1, Completes DEF copies
<1>7. CASE local[To] = Absent /\ a.op = "put" /\ clash
  <2>1. NameRemoteCopy
    BY <1>1, <1>7 DEF Look
  <2>2. QED
    BY <1>1, <1>7, <2>1, RemoteCopyNamed
<1>8. CASE local[To] = Absent /\ a.op = "put" /\ ~clash
  <2> DEFINE on == [task EXCEPT !.pc = "create", !.seen = Absent]
  <2>1. task' = on /\ UNCHANGED journal
    BY <1>1, <1>8 DEF Look
  <2>2. on \in TaskSet /\ on.pc = "create" /\ on.seen = Absent
    BY <1>1, <1>4 DEF TaskSet
  <2> HIDE DEF on
  <2>3. SameData
    BY <1>1, <2>1, <2>2, DataStays
  <2>4. PcInv'
    BY <1>1, <1>8, <2>1, <2>2, <2>3 DEF SameData, IInv, TaskInv, PcInv, BaseOf, Extending
  <2>5. HiddenInv'
    BY <1>1, <2>1, <2>2, <2>3 DEF SameData, IInv, TaskInv, HiddenInv, Late, Early, copies
  <2>6. SeenInv' /\ RenameInv'
    BY <1>1, <1>8, <2>1, <2>2, <2>3 DEF SameData, SeenInv, RenameInv, CopiesFound, Extending
  <2>7. QED
    BY <2>1, <2>3, <2>4, <2>5, <2>6 DEF SameData, IInv, TaskInv, Confirms
<1>9. CASE local[To] # Absent /\ local[To] # a.bytes
  <2> DEFINE on == [task EXCEPT !.pc = "second", !.seen = local[To], !.clean = Clean(To, local[To])]
  <2>1. task' = on /\ UNCHANGED journal
    BY <1>1, <1>9 DEF Look
  <2>2. on \in TaskSet /\ on.pc = "second" /\ on.seen = local[To] /\ on.clean = Clean(To, local[To])
    <3>1. Clean(To, local[To]) \in BOOLEAN /\ local[To] \in B0
      BY <1>1, <1>2 DEF Clean
    <3>2. QED
      BY <1>1, <1>4, <3>1 DEF TaskSet
  <2> HIDE DEF on
  <2>3. SameData
    BY <1>1, <2>1, <2>2, DataStays
  <2>4. PcInv'
    BY <1>1, <2>1, <2>2, <2>3 DEF SameData, IInv, TaskInv, PcInv, BaseOf, Extending
  <2>5. HiddenInv'
    BY <1>1, <2>1, <2>2, <2>3 DEF SameData, IInv, TaskInv, HiddenInv, Late, Early, copies
  <2>6. SeenInv' /\ RenameInv'
    BY <1>1, <1>9, <2>1, <2>2, <2>3 DEF SameData, SeenInv, RenameInv, CopiesFound, Extending, Clean, BaseOf
  <2>7. QED
    BY <2>1, <2>3, <2>4, <2>5, <2>6 DEF SameData, IInv, TaskInv, Confirms
<1>10. QED
  BY <1>1, <1>5, <1>6, <1>7, <1>8, <1>9

\* A copy of bytes that a file of the device holds.
LocalCopy(c) ==
  /\ c \in CopySet /\ c.mode = "local"
  /\ c.name[1] = To /\ c.name[3] = Absent => c.name[2] <= a.rev

\* The copies that a plan is built from are local ones, named after the apply.
LEMMA LocalCopies ==
  ASSUME a \in ApplySet, NEW p \in Paths, NEW b \in Bytes
  PROVE  /\ LocalCopy(PreApply(p, b))
         /\ LocalCopy(Conflict(p, a.rev, Absent, b, "local"))
         /\ LocalCopy(Conflict(p, a.rev, b, b, "local"))
         /\ LocalCopy(Conflict(From, a.row, Absent, b, "local"))
<1>1. a.rev \in Nat /\ a.row \in Nat /\ b # Absent /\ b \in B0 /\ Absent \in B0 /\ From # To
      /\ From \in Paths
  BY BinaryAssumption DEF ApplySet, B0, From, To, Paths
<1>2. LocalCopy(PreApply(p, b))
  BY <1>1 DEF LocalCopy, PreApply, CopySet, NameSet
<1>3. LocalCopy(Conflict(p, a.rev, Absent, b, "local"))
  BY <1>1 DEF LocalCopy, Conflict, CopySet, NameSet
<1>4. LocalCopy(Conflict(p, a.rev, b, b, "local"))
  BY <1>1 DEF LocalCopy, Conflict, CopySet, NameSet
<1>5. LocalCopy(Conflict(From, a.row, Absent, b, "local"))
  BY <1>1 DEF LocalCopy, Conflict, CopySet, NameSet
<1>6. QED
  BY <1>2, <1>3, <1>4, <1>5

\* A plan of such copies.
LEMMA LocalPlanNamed ==
  ASSUME IInv, Pending, a.plan = <<>>,
         task.pc \in {"second", "inline_look", "rename"},
         NEW plan \in Seq({c \in CopySet : LocalCopy(c)}), plan # <<>>,
         NEW kind \in {"none", "blob", "text"},
         journal' = [journal EXCEPT !.apply = Named(plan, kind)],
         UNCHANGED <<local, copies, feed, clash, scene, mine, raced, held>>,
         Afresh("resume") \/ (task' \in TaskSet /\ task'.pc = "persist" /\ task'.next = "throw")
  PROVE  IInv' /\ Confirms
<1> DEFINE P == {plan[i] : i \in DOMAIN plan}
<1>1. \A c \in P : LocalCopy(c)
  OBVIOUS
<1>2. plan \in Seq(CopySet)
  OBVIOUS
<1>3. P = {plan[i] : i \in DOMAIN plan}
  OBVIOUS
<1> HIDE DEF P
<1>4. \A c \in P : c.mode = "local" \/
        /\ P = {c} /\ a.op = "put" /\ kind = "blob" /\ c.hash = a.bytes
        /\ c.purpose = "conflict" /\ c.name \notin DOMAIN visible
  BY <1>1 DEF LocalCopy
<1>5. \A c \in P : c.name[1] = To /\ c.name[3] = Absent => c.name[2] <= a.rev
  BY <1>1 DEF LocalCopy
<1>6. QED
  BY <1>2, <1>3, <1>4, <1>5, PlanNamed

\* A first plan is a sequence of local copies, and has one.
LEMMA FirstPlanTypes ==
  ASSUME a \in ApplySet, NEW b \in Bytes, NEW clean
  PROVE  /\ FirstPlan(b, clean) \in Seq({c \in CopySet : LocalCopy(c)})
         /\ FirstPlan(b, clean) # <<>>
<1> DEFINE c1 == PreApply(To, b)
           c2 == Conflict(To, a.rev, Absent, b, "local")
           S == {c \in CopySet : LocalCopy(c)}
<1>1. c1 \in S /\ c2 \in S
  <2>1. LocalCopy(c1) /\ LocalCopy(c2)
    BY LocalCopies DEF Paths
  <2>2. QED
    BY <2>1 DEF LocalCopy
<1> HIDE DEF c1, c2, S
<1>2. <<c1>> \in Seq(S) /\ <<c2, c1>> \in Seq(S) /\ <<c1>> # <<>> /\ <<c2, c1>> # <<>>
  BY <1>1
<1>3. FirstPlan(b, clean) = IF clean THEN <<c1>> ELSE <<c2, c1>>
  BY DEF FirstPlan, c1, c2
<1>4. QED
  BY <1>2, <1>3 DEF S

\* The file is looked at for the second time.
LEMMA SecondStep == ASSUME IInv, Second PROVE IInv' /\ Confirms
<1> DEFINE same == To \notin touched
           b == local[To]
           clean == task.clean /\ same
<1>1. /\ task.pc = "second" /\ task \in TaskSet /\ Pending /\ ~Remote /\ task.seen # Absent
      /\ a.op \in {"put", "delete"} /\ (a.op = "delete" => a.plan = <<>>)
      /\ local \in [Paths -> B0] /\ To \in Paths /\ b \in B0
      /\ UNCHANGED <<local, hidden, trash, touched, feed, clash, scene, mine, raced, held>>
  BY DEF Second, outside, IInv, DataInv, TypeInv, TaskInv, PcInv, SeenInv, Paths
<1>2. /\ task.clean => Clean(To, task.seen)
      /\ same => b = task.seen
  BY <1>1 DEF IInv, TaskInv, SeenInv
<1>3. {"throw", "trash_look", "covered", "resume", "persist"} \subseteq Pcs /\ Absent \in B0
  BY DEF Pcs, B0
<1>4. CASE ~same /\ b = Absent
  <2>1. UNCHANGED <<journal, visible>> /\ Afresh("throw")
    BY <1>1, <1>3, <1>4, TaskTypes DEF Second, Goto
  <2>2. SameData
    BY <1>1, <2>1, DataStays DEF Afresh, copies
  <2>3. PcInv'
    BY <1>1, <2>1, <2>2 DEF Afresh, SameData, IInv, TaskInv, PcInv, BaseOf, Extending
  <2>4. HiddenInv'
    BY <1>1, <2>1, <2>2 DEF Afresh, SameData, IInv, TaskInv, HiddenInv, Late, Early
  <2>5. SeenInv' /\ RenameInv'
    BY <2>1 DEF Afresh, SeenInv, RenameInv, CopiesFound, Extending
  <2>6. QED
    BY <2>1, <2>2, <2>3, <2>4, <2>5 DEF SameData, IInv, TaskInv, Confirms
<1>5. CASE ~same /\ b # Absent /\ ~Exact /\ a.op = "put"
  <2>1. Preserve({task.seen, b, a.bytes}) /\ UNCHANGED journal
    BY <1>1, <1>5 DEF Second
  <2>2. {task.seen, b, a.bytes} \in SUBSET B0
    BY <1>1, PendingFacts DEF TaskSet, ApplySet, IInv
  <2>3. QED
    BY <1>1, <2>1, <2>2, PreserveStep
<1>6. CASE ~(~same /\ b = Absent) /\ ~(~same /\ b # Absent /\ ~Exact /\ a.op = "put")
  <2>1. b # Absent /\ b \in Bytes /\ UNCHANGED <<visible, hidden, trash>>
    BY <1>1, <1>2, <1>6 DEF B0, Second
  <2>2. CASE a.op = "delete" /\ clean
    <3>1. UNCHANGED journal /\ Onward("trash_look")
      BY <1>1, <1>3, <1>6, <2>2, TaskTypes DEF Second, Keep
    <3>2. SameData
      BY <1>1, <2>1, <3>1, DataStays DEF Onward, copies
    <3>3. PcInv'
      BY <1>1, <2>2, <3>1, <3>2 DEF Onward, SameData, IInv, TaskInv, PcInv, BaseOf, Extending
    <3>4. HiddenInv'
      BY <1>1, <2>2, <3>1, <3>2 DEF Onward, SameData, HiddenInv, Late, Early
    <3>5. SeenInv' /\ RenameInv'
      BY <3>1 DEF Onward, SeenInv, RenameInv, CopiesFound, Extending
    <3>6. QED
      BY <3>1, <3>2, <3>3, <3>4, <3>5 DEF SameData, IInv, TaskInv, Confirms
  <2>3. CASE ~(a.op = "delete" /\ clean) /\ a.plan # <<>>
    <3> DEFINE on == [task EXCEPT !.pc = "covered", !.seen = b, !.same = same]
    <3>1. UNCHANGED journal /\ task' = on
      BY <1>1, <1>6, <2>3 DEF Second
    <3>2. on \in TaskSet /\ on.pc = "covered" /\ on.seen = b /\ on.same = same /\ on.clean = task.clean
      <4>1. same \in BOOLEAN
        OBVIOUS
      <4> HIDE DEF same, b
      <4>2. QED
        BY <1>1, <1>3, <4>1 DEF TaskSet
    <3> HIDE DEF on
    <3>3. SameData
      BY <1>1, <2>1, <3>1, <3>2, DataStays DEF copies
    <3>4. PcInv'
      BY <1>1, <2>3, <3>1, <3>2, <3>3 DEF SameData, IInv, TaskInv, PcInv, BaseOf, Extending
    <3>5. HiddenInv'
      BY <1>1, <2>1, <3>1, <3>2, <3>3 DEF SameData, IInv, TaskInv, HiddenInv, Late, Early
    <3>6. SeenInv' /\ RenameInv'
      BY <1>2, <2>1, <3>1, <3>2, <3>3 DEF SeenInv, RenameInv, CopiesFound, Extending, Clean, BaseOf
    <3>7. QED
      BY <3>1, <3>3, <3>4, <3>5, <3>6 DEF SameData, IInv, TaskInv, Confirms
  <2>4. CASE ~(a.op = "delete" /\ clean) /\ a.plan = <<>>
    <3> DEFINE plan == FirstPlan(b, clean)
    <3>1. /\ journal' = [journal EXCEPT !.apply = Named(plan, "blob")]
          /\ task' = IF same THEN At("resume") ELSE [At("persist") EXCEPT !.next = "throw"]
      BY <1>1, <1>6, <2>4 DEF Second, SaveApply, Save
    <3>2. a \in ApplySet
      BY <1>1, PendingFacts DEF IInv
    <3>3. plan \in Seq({c \in CopySet : LocalCopy(c)}) /\ plan # <<>>
      <4> HIDE DEF b, clean
      <4>1. QED
        BY <2>1, <3>2, FirstPlanTypes
    <3>4. task' = At("resume") => Afresh("resume")
      BY <1>1, <1>3, TaskTypes
    <3>5. task' = [At("persist") EXCEPT !.next = "throw"] =>
            task' \in TaskSet /\ task'.pc = "persist" /\ task'.next = "throw"
      BY <1>3, AtTypes DEF TaskSet
    <3> HIDE DEF plan
    <3>6. QED
      BY <1>1, <2>1, <2>4, <3>1, <3>3, <3>4, <3>5, LocalPlanNamed DEF copies
  <2>5. QED
    BY <2>2, <2>3, <2>4
<1>7. QED
  BY <1>4, <1>5, <1>6

\* Concatenations of sequences.
LEMMA ConcatAssociates ==
  ASSUME NEW S, NEW r \in Seq(S), NEW s \in Seq(S), NEW t \in Seq(S)
  PROVE  r \o s \o t = r \o (s \o t)
OBVIOUS

\* What a sequence is made of.
Elements(s) == {s[i] : i \in DOMAIN s}

\* Concatenation joins what two sequences are made of.
LEMMA ConcatRange ==
  ASSUME NEW S, NEW s \in Seq(S), NEW t \in Seq(S)
  PROVE  /\ s \o t \in Seq(S)
         /\ s # <<>> => s \o t # <<>>
         /\ Elements(s \o t) = Elements(s) \cup Elements(t)
<1> DEFINE u == s \o t
<1>1. /\ u \in Seq(S) /\ Len(u) = Len(s) + Len(t) /\ DOMAIN u = 1..Len(u)
      /\ DOMAIN s = 1..Len(s) /\ DOMAIN t = 1..Len(t) /\ Len(s) \in Nat /\ Len(t) \in Nat
  OBVIOUS
<1>2. \A i \in 1..Len(s) : i \in DOMAIN u /\ u[i] = s[i]
  BY <1>1
<1>3. \A i \in 1..Len(t) : Len(s) + i \in DOMAIN u /\ u[Len(s) + i] = t[i]
  BY <1>1
<1>4. \A i \in DOMAIN u : i \in 1..Len(s) \/ (i - Len(s) \in 1..Len(t) /\ u[i] = t[i - Len(s)])
  BY <1>1
<1>5. s # <<>> => Len(s) # 0
  OBVIOUS
<1>6. Len(u) # 0 => u # <<>>
  OBVIOUS
<1> HIDE DEF u
<1>7. Elements(u) = Elements(s) \cup Elements(t)
  <2> DEFINE su == {u[i] : i \in DOMAIN u}
             ss == {s[i] : i \in DOMAIN s}
             st == {t[i] : i \in DOMAIN t}
  <2>1. su \subseteq ss \cup st
    <3> SUFFICES ASSUME NEW i \in DOMAIN u PROVE u[i] \in ss \cup st
      OBVIOUS
    <3>1. CASE i \in 1..Len(s)
      BY <1>1, <1>2, <3>1
    <3>2. CASE i - Len(s) \in 1..Len(t) /\ u[i] = t[i - Len(s)]
      BY <1>1, <3>2
    <3>3. QED
      BY <1>4, <3>1, <3>2
  <2>2. ss \subseteq su
    BY <1>1, <1>2
  <2>3. st \subseteq su
    BY <1>1, <1>3
  <2>4. QED
    BY <2>1, <2>2, <2>3 DEF Elements
<1>8. s # <<>> => u # <<>>
  BY <1>1, <1>5, <1>6
<1>9. QED
  BY <1>1, <1>7, <1>8 DEF u

\* The plan is extended, or the file is covered by it.
LEMMA CoveredStep == ASSUME IInv, Covered PROVE IInv' /\ Confirms
<1>1. /\ task.pc = "covered" /\ task \in TaskSet /\ Pending /\ ~Remote /\ task.seen # Absent
      /\ a.op = "put" /\ a.plan # <<>> /\ (task.same /\ task.clean => Clean(To, task.seen))
      /\ \A b \in Bytes : hidden[b] # "old"
      /\ UNCHANGED <<local, copies, touched, feed, clash, scene, mine, raced, held>>
  BY DEF Covered, Unchanged, outside, IInv, DataInv, TypeInv, TaskInv, PcInv, SeenInv, HiddenInv, Late, Early
<1>2. task.seen \in Bytes /\ hidden \in [Bytes -> {"none", "fresh", "old"}]
  BY <1>1 DEF TaskSet, B0, IInv, DataInv, TypeInv
<1>3. {"attend", "persist", "last_look", "throw"} \subseteq Pcs
  BY DEF Pcs
<1> DEFINE plan == a.plan \o Missing \o MissingRecovery
<1>4. CASE ~Verified \/ (NotCovered /\ Len(plan) > MaxCopies)
  <2>1. UNCHANGED journal /\ Afresh("attend")
    BY <1>1, <1>3, <1>4, TaskTypes DEF Covered, Goto
  <2>2. SameData
    BY <1>1, <2>1, DataStays DEF Afresh
  <2>3. PcInv'
    BY <1>1, <2>1, <2>2 DEF Afresh, SameData, IInv, TaskInv, PcInv, BaseOf, Extending
  <2>4. HiddenInv'
    BY <1>1, <2>1, <2>2 DEF Afresh, SameData, HiddenInv, Late, Early, copies
  <2>5. SeenInv' /\ RenameInv'
    BY <2>1 DEF Afresh, SeenInv, RenameInv, CopiesFound, Extending
  <2>6. QED
    BY <2>1, <2>2, <2>3, <2>4, <2>5 DEF SameData, IInv, TaskInv, Confirms
<1>5. CASE Verified /\ ~NotCovered
  <2>1. UNCHANGED journal /\ (IF task.same THEN Onward("last_look") ELSE Onward("throw"))
    BY <1>1, <1>3, <1>5, TaskTypes DEF Covered, Keep
  <2>2. SameData
    BY <1>1, <2>1, DataStays DEF Onward
  <2>3. task.seen \in Bytes /\ hidden[task.seen] = "fresh"
    <3>1. hidden[task.seen] # "none"
      BY <1>5, RecoveryThere DEF NotCovered, IInv, DataInv
    <3>2. QED
      BY <1>1, <1>2, <3>1
  <2>4. task.same => task.seen \in KeptBytes
    BY <1>1, <1>5, CopyKept, CleanKept DEF NotCovered, IInv, DataInv, Paths
  <2>5. PcInv'
    BY <1>1, <2>1, <2>2 DEF Onward, SameData, IInv, TaskInv, PcInv, BaseOf, Extending
  <2>6. HiddenInv'
    BY <1>1, <2>1, <2>2, <2>3 DEF Onward, SameData, HiddenInv, Late, Early, copies
  <2>7. SeenInv' /\ RenameInv'
    BY <2>1, <2>2, <2>4 DEF Onward, SameData, SeenInv, RenameInv, CopiesFound, Extending
  <2>8. QED
    BY <2>1, <2>2, <2>5, <2>6, <2>7 DEF SameData, IInv, TaskInv, Confirms
<1>6. CASE Verified /\ NotCovered /\ ~(Len(plan) > MaxCopies)
  <2> DEFINE apply == Named(plan, a.kind)
             on == [task EXCEPT !.pc = "persist", !.i = 1, !.next = "extended"]
             Q == {c \in CopySet : LocalCopy(c)}
             extra == Missing \o MissingRecovery
  <2>1. journal' = [journal EXCEPT !.apply = apply] /\ task' = on
    BY <1>1, <1>6 DEF Covered, SaveApply, Save
  <2>2. /\ on \in TaskSet /\ on.pc = "persist" /\ on.next = "extended" /\ on.seen = task.seen
        /\ on.same = task.same /\ on.clean = task.clean
    <3> DEFINE one == [task EXCEPT !.i = 1]
               mid == [one EXCEPT !.pc = "persist"]
    <3>1. /\ one \in TaskSet /\ one.seen = task.seen
          /\ one.same = task.same /\ one.clean = task.clean
      BY <1>1 DEF TaskSet
    <3> HIDE DEF one
    <3>2. /\ mid \in TaskSet /\ mid.pc = "persist" /\ mid.seen = task.seen
          /\ mid.same = task.same /\ mid.clean = task.clean
      BY <1>3, <3>1 DEF TaskSet
    <3>3. on = [mid EXCEPT !.next = "extended"]
      BY <1>1 DEF one
    <3> HIDE DEF mid, on
    <3>4. QED
      BY <3>2, <3>3 DEF TaskSet
  <2>3. a \in ApplySet /\ a.row # 0 /\ a.rev \in Nat
    BY <1>1, PendingFacts DEF IInv
  <2>4. Missing \in Seq(Q) /\ MissingRecovery \in Seq(Q)
    <3>1. LocalCopy(Conflict(To, a.rev, task.seen, task.seen, "local")) /\ LocalCopy(PreApply(To, task.seen))
      BY <1>2, <2>3, LocalCopies DEF Paths
    <3>2. /\ Conflict(To, a.rev, task.seen, task.seen, "local") \in Q
          /\ PreApply(To, task.seen) \in Q
      BY <3>1 DEF LocalCopy
    <3> HIDE DEF Q
    <3>3. QED
      BY <3>2 DEF Missing, MissingRecovery
  <2>5. a.plan \in Seq(CopySet)
    BY <2>3 DEF ApplySet
  <2>6. /\ plan \in Seq(CopySet) /\ plan # <<>>
        /\ {plan[i] : i \in DOMAIN plan} = Copies \cup {extra[i] : i \in DOMAIN extra}
        /\ extra \in Seq(Q)
    <3>1. extra \in Seq(Q)
      <4> HIDE DEF Q
      <4>1. QED
        BY <2>4
    <3>2. Missing \in Seq(CopySet) /\ MissingRecovery \in Seq(CopySet)
      BY <2>4
    <3>3. extra \in Seq(CopySet)
      BY <3>2
    <3> DEFINE old == a.plan
    <3>4. old \in Seq(CopySet) /\ old # <<>> /\ plan = old \o Missing \o MissingRecovery
      BY <1>1, <2>5
    <3> HIDE DEF old, plan, Q
    <3>5. plan = old \o extra
      BY <3>2, <3>4, ConcatAssociates
    <3> HIDE DEF extra
    <3>6. /\ plan \in Seq(CopySet) /\ plan # <<>>
          /\ Elements(plan) = Elements(old) \cup Elements(extra)
      BY <3>3, <3>4, <3>5, ConcatRange
    <3>7. QED
      BY <3>1, <3>6 DEF Copies, Elements, old
  <2>7. a.kind \in {"none", "blob", "text"}
    BY <2>3 DEF ApplySet
  <2> HIDE DEF extra, plan, on
  <2>8. /\ apply \in ApplySet /\ apply.row = a.row /\ apply.op = a.op /\ apply.rev = a.rev
        /\ apply.bytes = a.bytes /\ apply.step = "named" /\ apply.plan = plan
    BY <2>3, <2>6, <2>7, NamedTypes
  <2> HIDE DEF apply
  <2>9. /\ a' = apply /\ Confirms /\ journal'.base = journal.base
        /\ Copies' = Copies \cup {extra[i] : i \in DOMAIN extra}
    BY <2>1, <2>6, <2>8, ApplySaved DEF IInv, DataInv
  <2>10. \A c \in Copies' : c \in Copies \/ LocalCopy(c)
    BY <2>6, <2>9
  <2>11. TypeInv' /\ FeedInv' /\ KeptInv' /\ FeedBytes' = FeedBytes
    BY <1>1, <2>1, <2>2, <2>8, ApplyStep DEF IInv
  <2>12. Pending' /\ ~Remote' /\ Protected \subseteq Protected'
    <3>1. a'.row # 0 /\ NoApply.row = 0
      BY <2>3, <2>8, <2>9, NoApplyTypes
    <3>2. QED
      BY <1>1, <2>9, <2>10, <3>1 DEF Pending, a, Remote, Protected, LocalCopy
  <2>13. ApplyInv'
    BY <1>1, <2>6, <2>8, <2>9, <2>11 DEF IInv, DataInv, ApplyInv
  <2>14. PlanInv'
    <3>1. \A c \in Copies' : c.mode # "remote"
      BY <2>12 DEF Remote
    <3>2. \A c \in Copies' : c.name[1] = To /\ c.name[3] = Absent => c.name[2] <= a'.rev
      BY <2>8, <2>9, <2>10 DEF LocalCopy, IInv, DataInv, PlanInv
    <3>3. QED
      BY <1>1, <2>9, <3>1, <3>2 DEF IInv, DataInv, PlanInv, BaseOf, copies
  <2>15. PcInv'
    BY <1>1, <2>1, <2>2, <2>6, <2>8, <2>9, <2>12 DEF IInv, TaskInv, PcInv, BaseOf, Extending
  <2>16. HiddenInv'
    BY <1>1, <2>1, <2>2, <2>12 DEF HiddenInv, Late, Early, copies
  <2>17. SeenInv' /\ RenameInv'
    BY <1>1, <2>1, <2>2, <2>9 DEF SeenInv, RenameInv, CopiesFound, Extending, Clean, BaseOf
  <2>18. QED
    BY <2>9, <2>11, <2>13, <2>14, <2>15, <2>16, <2>17 DEF IInv, DataInv, TaskInv
<1>7. QED
  BY <1>4, <1>5, <1>6

\* The file is compared once more before it is written.
LEMMA LastLookStep == ASSUME IInv, LastLook PROVE IInv' /\ Confirms
<1>1. /\ task.pc = "last_look" /\ task \in TaskSet /\ Pending /\ ~Remote /\ a.op = "put"
      /\ UNCHANGED <<local, hidden, trash, journal, touched, feed, clash, scene, mine, raced, held>>
      /\ local \in [Paths -> B0] /\ To \in Paths
  BY DEF LastLook, outside, IInv, DataInv, TypeInv, TaskInv, PcInv, Paths
<1>p. {"modify", "throw"} \subseteq Pcs
  BY DEF Pcs
<1>2. CASE StillSeen
  <2>1. UNCHANGED journal /\ Onward("modify") /\ UNCHANGED visible /\ local[To] = task.seen
    BY <1>1, <1>p, <1>2, TaskTypes DEF LastLook, StillSeen, Goto, Keep
  <2>2. SameData
    BY <1>1, <1>2, <2>1, DataStays DEF Afresh, Onward, OnTo, copies
  <2>3. PcInv'
    BY <1>1, <2>1, <2>2 DEF Afresh, Onward, OnTo, SameData, IInv, TaskInv, PcInv, BaseOf, Extending
  <2>4. HiddenInv'
    BY <1>1, <1>2, <2>1, <2>2 DEF Afresh, Onward, OnTo, SameData, IInv, TaskInv, HiddenInv, Late, Early, copies
  <2>5. SeenInv' /\ RenameInv'
    BY <1>1, <1>2, <2>1, <2>2 DEF Afresh, Onward, OnTo, SameData, IInv, TaskInv, SeenInv, RenameInv, CopiesFound, Extending
  <2>6. QED
    BY <2>1, <2>2, <2>3, <2>4, <2>5 DEF SameData, IInv, TaskInv, Confirms
<1>3. CASE ~StillSeen /\ Exact
  <2>1. UNCHANGED journal /\ Afresh("throw") /\ UNCHANGED visible
    BY <1>1, <1>p, <1>3, TaskTypes DEF LastLook, StillSeen, Goto, Keep
  <2>2. SameData
    BY <1>1, <1>3, <2>1, DataStays DEF Afresh, Onward, OnTo, copies
  <2>3. PcInv'
    BY <1>1, <2>1, <2>2 DEF Afresh, Onward, OnTo, SameData, IInv, TaskInv, PcInv, BaseOf, Extending
  <2>4. HiddenInv'
    BY <1>1, <1>3, <2>1, <2>2 DEF Afresh, Onward, OnTo, SameData, IInv, TaskInv, HiddenInv, Late, Early, copies
  <2>5. SeenInv' /\ RenameInv'
    BY <1>1, <1>3, <2>1, <2>2 DEF Afresh, Onward, OnTo, SameData, IInv, TaskInv, SeenInv, RenameInv, CopiesFound, Extending
  <2>6. QED
    BY <2>1, <2>2, <2>3, <2>4, <2>5 DEF SameData, IInv, TaskInv, Confirms
<1>4. CASE ~StillSeen /\ ~Exact
  <2>1. Preserve({task.seen, local[To], a.bytes})
    BY <1>4 DEF LastLook
  <2>2. {task.seen, local[To], a.bytes} \in SUBSET B0
    BY <1>1, PendingFacts DEF TaskSet, ApplySet, IInv
  <2>3. QED
    BY <1>1, <2>1, <2>2, PreserveStep
<1>5. QED
  BY <1>2, <1>3, <1>4

\* What a write leaves behind.
LEMMA WriteOverStep ==
  ASSUME IInv, WriteOver, task.pc \in {"modify", "write", "create", "inline_look", "inline_create"},
         local[To] \in KeptBytes,
         UNCHANGED <<copies, journal, feed, clash, scene, mine, raced>>
  PROVE  IInv' /\ Confirms
<1>1. /\ task \in TaskSet /\ Pending /\ ~Remote /\ a.op \in {"put", "rename"} /\ "written" \in Pcs
  BY DEF IInv, DataInv, TypeInv, TaskInv, PcInv, Pcs
<1>2. Onward("written") /\ SetLocal(To, a.bytes)
  BY <1>1, TaskTypes DEF WriteOver, Keep
<1>3. a.bytes \in B0
  BY <1>1, PendingFacts DEF ApplySet, IInv
<1>4. SameData /\ Confirms /\ \A p \in Paths : held[p] \subseteq held'[p]
  BY <1>2, <1>3, FileWritten DEF Onward
<1>5. PcInv'
  BY <1>1, <1>2, <1>4 DEF Onward, SameData, IInv, TaskInv, PcInv, BaseOf, Extending
<1>6. HiddenInv'
  BY <1>1, <1>2, <1>4 DEF Onward, SameData, IInv, TaskInv, HiddenInv, Late, Early, copies
<1>7. SeenInv'
  BY <1>2 DEF Onward, SeenInv, CopiesFound, Extending
<1>8. RenameInv'
  BY <1>2, <1>4 DEF Onward, SameData, IInv, TaskInv, PcInv, RenameInv, Paths
<1>9. QED
  BY <1>4, <1>5, <1>6, <1>7, <1>8 DEF SameData, IInv, TaskInv

\* The host writes over the file.
LEMMA ModifyStep == ASSUME IInv, Modify PROVE IInv' /\ Confirms
<1>1. /\ task.pc = "modify" /\ task \in TaskSet /\ Pending /\ ~Remote /\ a.op \in {"put", "rename"}
      /\ UNCHANGED <<hidden, trash, journal, touched, feed, clash, scene, mine, raced>>
      /\ local \in [Paths -> B0] /\ To \in Paths
      /\ task.seen \in KeptBytes /\ local[To] \in {Absent, task.seen} \cup raced
  BY DEF Modify, outside, IInv, DataInv, TypeInv, TaskInv, PcInv, SeenInv, CopiesFound, Paths
<1>p. {"write", "throw"} \subseteq Pcs
  BY DEF Pcs
<1>2. CASE Exact /\ local[To] # Absent
  <2>1. WriteOver /\ UNCHANGED visible
    BY <1>1, <1>2 DEF Modify
  <2>2. local[To] \in KeptBytes
    BY <1>1 DEF KeptBytes
  <2>3. QED
    BY <1>1, <2>1, <2>2, WriteOverStep DEF copies
<1>3. CASE ~Exact /\ local[To] = task.seen
  <2>1. UNCHANGED journal /\ Onward("write") /\ UNCHANGED <<local, held, visible>>
    BY <1>1, <1>p, <1>3, TaskTypes DEF Modify, Goto, Keep
  <2>2. SameData
    BY <1>1, <1>3, <2>1, DataStays DEF Afresh, Onward, OnTo, copies
  <2>3. PcInv'
    BY <1>1, <2>1, <2>2 DEF Afresh, Onward, OnTo, SameData, IInv, TaskInv, PcInv, BaseOf, Extending
  <2>4. HiddenInv'
    BY <1>1, <1>3, <2>1, <2>2 DEF Afresh, Onward, OnTo, SameData, IInv, TaskInv, HiddenInv, Late, Early, copies
  <2>5. SeenInv' /\ RenameInv'
    BY <1>1, <1>3, <2>1, <2>2 DEF Afresh, Onward, OnTo, SameData, IInv, TaskInv, SeenInv, RenameInv, CopiesFound, Extending
  <2>6. QED
    BY <2>1, <2>2, <2>3, <2>4, <2>5 DEF SameData, IInv, TaskInv, Confirms
<1>4. CASE Exact /\ local[To] = Absent
  <2>1. UNCHANGED journal /\ Afresh("throw") /\ UNCHANGED <<local, held, visible>>
    BY <1>1, <1>p, <1>4, TaskTypes DEF Modify, Goto, Keep
  <2>2. SameData
    BY <1>1, <1>4, <2>1, DataStays DEF Afresh, Onward, OnTo, copies
  <2>3. PcInv'
    BY <1>1, <2>1, <2>2 DEF Afresh, Onward, OnTo, SameData, IInv, TaskInv, PcInv, BaseOf, Extending
  <2>4. HiddenInv'
    BY <1>1, <1>4, <2>1, <2>2 DEF Afresh, Onward, OnTo, SameData, IInv, TaskInv, HiddenInv, Late, Early, copies
  <2>5. SeenInv' /\ RenameInv'
    BY <1>1, <1>4, <2>1, <2>2 DEF Afresh, Onward, OnTo, SameData, IInv, TaskInv, SeenInv, RenameInv, CopiesFound, Extending
  <2>6. QED
    BY <2>1, <2>2, <2>3, <2>4, <2>5 DEF SameData, IInv, TaskInv, Confirms
<1>5. CASE ~Exact /\ local[To] # task.seen
  <2>1. Preserve({task.seen, a.bytes, local[To]}) /\ UNCHANGED <<local, held>>
    BY <1>1, <1>5 DEF Modify
  <2>2. {task.seen, a.bytes, local[To]} \in SUBSET B0
    BY <1>1, PendingFacts DEF TaskSet, ApplySet, IInv
  <2>3. QED
    BY <1>1, <2>1, <2>2, PreserveStep
<1>6. QED
  BY <1>2, <1>3, <1>4, <1>5

\* The adapter writes what it has compared.
LEMMA WriteStep == ASSUME IInv, Write PROVE IInv' /\ Confirms
<1>1. /\ task.pc = "write" /\ WriteOver
      /\ UNCHANGED <<copies, journal, feed, clash, scene, mine, raced>>
  BY DEF Write, outside
<1>2. local[To] \in KeptBytes
  BY <1>1 DEF KeptBytes, IInv, TaskInv, SeenInv, CopiesFound
<1>3. QED
  BY <1>1, <1>2, WriteOverStep

\* The host creates the file.
LEMMA CreateStep == ASSUME IInv, Create PROVE IInv' /\ Confirms
<1>1. /\ task.pc = "create" /\ task \in TaskSet /\ Pending /\ ~Remote /\ a.op \in {"put", "rename"}
      /\ UNCHANGED <<hidden, trash, touched, feed, clash, scene, mine, raced>>
      /\ local \in [Paths -> B0] /\ To \in Paths
      /\ task.seen = Absent /\ Absent \in KeptBytes
      /\ clash => a.op = "put"
  BY DEF Create, outside, IInv, DataInv, TypeInv, FeedInv, ApplyInv, TaskInv, PcInv, SeenInv, Paths, KeptBytes
<1>p. {"write", "throw"} \subseteq Pcs
  BY DEF Pcs
<1>2. CASE Exact /\ local[To] = Absent /\ ~clash
  <2>1. WriteOver /\ UNCHANGED <<journal, visible>>
    BY <1>1, <1>2 DEF Create
  <2>2. QED
    BY <1>1, <1>2, <2>1, WriteOverStep DEF copies
<1>3. CASE Exact /\ clash
  <2>1. NameRemoteCopy /\ UNCHANGED <<local, held, visible>>
    BY <1>1, <1>3 DEF Create
  <2>2. QED
    BY <1>1, <1>3, <2>1, RemoteCopyNamed DEF copies
<1>4. CASE Exact /\ local[To] # Absent /\ ~clash
  <2>1. UNCHANGED journal /\ Afresh("throw") /\ UNCHANGED <<local, held, visible>>
    BY <1>1, <1>p, <1>4, TaskTypes DEF Create, Goto, Keep
  <2>2. SameData
    BY <1>1, <1>4, <2>1, DataStays DEF Afresh, Onward, OnTo, copies
  <2>3. PcInv'
    BY <1>1, <2>1, <2>2 DEF Afresh, Onward, OnTo, SameData, IInv, TaskInv, PcInv, BaseOf, Extending
  <2>4. HiddenInv'
    BY <1>1, <1>4, <2>1, <2>2 DEF Afresh, Onward, OnTo, SameData, IInv, TaskInv, HiddenInv, Late, Early, copies
  <2>5. SeenInv' /\ RenameInv'
    BY <1>1, <1>4, <2>1, <2>2 DEF Afresh, Onward, OnTo, SameData, IInv, TaskInv, SeenInv, RenameInv, CopiesFound, Extending
  <2>6. QED
    BY <2>1, <2>2, <2>3, <2>4, <2>5 DEF SameData, IInv, TaskInv, Confirms
<1>5. CASE ~Exact /\ local[To] = Absent
  <2>1. UNCHANGED journal /\ Onward("write") /\ UNCHANGED <<local, held, visible>>
    BY <1>1, <1>p, <1>5, TaskTypes DEF Create, Goto, Keep
  <2>2. SameData
    BY <1>1, <1>5, <2>1, DataStays DEF Afresh, Onward, OnTo, copies
  <2>3. PcInv'
    BY <1>1, <2>1, <2>2 DEF Afresh, Onward, OnTo, SameData, IInv, TaskInv, PcInv, BaseOf, Extending
  <2>4. HiddenInv'
    BY <1>1, <1>5, <2>1, <2>2 DEF Afresh, Onward, OnTo, SameData, IInv, TaskInv, HiddenInv, Late, Early, copies
  <2>5. SeenInv' /\ RenameInv'
    BY <1>1, <1>5, <2>1, <2>2 DEF Afresh, Onward, OnTo, SameData, IInv, TaskInv, SeenInv, RenameInv, CopiesFound, Extending
  <2>6. QED
    BY <2>1, <2>2, <2>3, <2>4, <2>5 DEF SameData, IInv, TaskInv, Confirms
<1>6. CASE ~Exact /\ local[To] # Absent
  <2>1. Preserve({a.bytes, local[To]}) /\ UNCHANGED <<local, held, journal>>
    BY <1>1, <1>6 DEF Create
  <2>2. {a.bytes, local[To]} \in SUBSET B0
    BY <1>1, PendingFacts DEF ApplySet, IInv
  <2>3. QED
    BY <1>1, <2>1, <2>2, PreserveStep
<1>7. QED
  BY <1>2, <1>3, <1>4, <1>5, <1>6

\* What was written is read back.
LEMMA ReadBackStep == ASSUME IInv, ReadBack PROVE IInv' /\ Confirms
<1>1. /\ task.pc = "written" /\ task \in TaskSet /\ Pending /\ ~Remote /\ a.op \in {"put", "rename"}
      /\ UNCHANGED <<local, hidden, trash, touched, feed, clash, scene, mine, raced, held>>
      /\ local \in [Paths -> B0] /\ To \in Paths /\ local[To] \in held[To]
      /\ hidden' \in [Bytes -> {"none", "fresh", "old"}]
  BY DEF ReadBack, outside, IInv, DataInv, TypeInv, KeptInv, TaskInv, PcInv, Paths
<1>p. {"rename_source", "throw"} \subseteq Pcs
  BY DEF Pcs
<1>2. CASE Confirmed /\ a.op # "rename"
  <2>1. Complete(a.bytes) /\ UNCHANGED visible /\ a.bytes \in held[To]
    BY <1>1, <1>2 DEF ReadBack, Confirmed
  <2>2. QED
    BY <1>1, <1>2, <2>1, Completes
<1>3. CASE Confirmed /\ a.op = "rename"
  <2>1. UNCHANGED journal /\ Onward("rename_source") /\ UNCHANGED visible /\ a.bytes \in held[To]
    BY <1>1, <1>p, <1>3, TaskTypes DEF ReadBack, Confirmed, Goto, Keep
  <2>2. SameData
    BY <1>1, <1>3, <2>1, DataStays DEF Afresh, Onward, OnTo, copies
  <2>3. PcInv'
    BY <1>1, <1>3, <2>1, <2>2 DEF Afresh, Onward, OnTo, SameData, IInv, TaskInv, PcInv, BaseOf, Extending
  <2>4. HiddenInv'
    BY <1>1, <1>3, <2>1, <2>2 DEF Afresh, Onward, OnTo, SameData, IInv, TaskInv, HiddenInv, Late, Early, copies
  <2>5. SeenInv' /\ RenameInv'
    BY <1>1, <1>3, <2>1, <2>2 DEF Afresh, Onward, OnTo, SameData, IInv, TaskInv, SeenInv, RenameInv, CopiesFound, Extending
  <2>6. QED
    BY <2>1, <2>2, <2>3, <2>4, <2>5 DEF SameData, IInv, TaskInv, Confirms
<1>4. CASE ~Confirmed /\ Exact
  <2>1. UNCHANGED journal /\ Afresh("throw") /\ UNCHANGED visible
    BY <1>1, <1>p, <1>4, TaskTypes DEF ReadBack, Confirmed, Goto, Keep
  <2>2. SameData
    BY <1>1, <1>4, <2>1, DataStays DEF Afresh, Onward, OnTo, copies
  <2>3. PcInv'
    BY <1>1, <2>1, <2>2 DEF Afresh, Onward, OnTo, SameData, IInv, TaskInv, PcInv, BaseOf, Extending
  <2>4. HiddenInv'
    BY <1>1, <1>4, <2>1, <2>2 DEF Afresh, Onward, OnTo, SameData, IInv, TaskInv, HiddenInv, Late, Early, copies
  <2>5. SeenInv' /\ RenameInv'
    BY <1>1, <1>4, <2>1, <2>2 DEF Afresh, Onward, OnTo, SameData, IInv, TaskInv, SeenInv, RenameInv, CopiesFound, Extending
  <2>6. QED
    BY <2>1, <2>2, <2>3, <2>4, <2>5 DEF SameData, IInv, TaskInv, Confirms
<1>5. CASE ~Confirmed /\ ~Exact
  <2>1. Preserve({task.seen, a.bytes, local[To]}) /\ UNCHANGED journal
    BY <1>1, <1>5 DEF ReadBack
  <2>2. {task.seen, a.bytes, local[To]} \in SUBSET B0
    BY <1>1, PendingFacts DEF TaskSet, ApplySet, IInv
  <2>3. QED
    BY <1>1, <2>1, <2>2, PreserveStep
<1>6. QED
  BY <1>2, <1>3, <1>4, <1>5

\* Inline text for a file of bytes is created, confirmed or planned.
LEMMA InlineLookStep == ASSUME IInv, InlineLook PROVE IInv' /\ Confirms
<1>1. /\ task.pc = "inline_look" /\ task \in TaskSet /\ Pending /\ ~Remote /\ a.op = "put"
      /\ UNCHANGED <<copies, touched, feed, clash, scene, mine, raced>>
      /\ local \in [Paths -> B0] /\ To \in Paths /\ local[To] \in held[To] /\ a.plan = <<>>
      /\ hidden' \in [Bytes -> {"none", "fresh", "old"}] /\ a.bytes # Absent
  BY DEF InlineLook, outside, copies, IInv, DataInv, TypeInv, ApplyInv, KeptInv, TaskInv, PcInv, Paths
<1>2. CASE local[To] = Absent
  <2>1. WriteOver /\ UNCHANGED journal
    BY <1>1, <1>2 DEF InlineLook, WriteOver
  <2>2. local[To] \in KeptBytes
    BY <1>2 DEF KeptBytes
  <2>3. QED
    BY <1>1, <2>1, <2>2, WriteOverStep
<1>3. CASE local[To] # Absent /\ local[To] = a.bytes
  <2>1. Complete(a.bytes) /\ UNCHANGED <<local, held>>
    BY <1>1, <1>3 DEF InlineLook
  <2>2. QED
    BY <1>1, <1>3, <2>1, Completes DEF copies
<1>4. CASE local[To] # Absent /\ local[To] # a.bytes
  <2> DEFINE plan == FirstPlan(local[To], FALSE)
  <2>1. /\ journal' = [journal EXCEPT !.apply = Named(plan, "text")] /\ task' = At("resume")
        /\ UNCHANGED <<local, held>>
    BY <1>1, <1>4 DEF InlineLook, SaveApply, Save
  <2>2. Afresh("resume")
    <3>1. "resume" \in Pcs
      BY DEF Pcs
    <3>2. QED
      BY <1>1, <2>1, <3>1, TaskTypes
  <2>3. plan \in Seq({c \in CopySet : LocalCopy(c)}) /\ plan # <<>>
    <3>1. a \in ApplySet /\ local[To] \in Bytes
      BY <1>1, <1>4, PendingFacts DEF IInv, B0
    <3>2. QED
      BY <3>1, FirstPlanTypes
  <2> HIDE DEF plan
  <2>4. QED
    BY <1>1, <2>1, <2>2, <2>3, LocalPlanNamed
<1>5. QED
  BY <1>2, <1>3, <1>4

\* Inline text is created where the bytes were.
LEMMA InlineCreateStep == ASSUME IInv, InlineCreate PROVE IInv' /\ Confirms
<1>1. /\ task.pc = "inline_create" /\ task \in TaskSet /\ Pending /\ ~Remote /\ a.op = "put"
      /\ UNCHANGED <<copies, journal, touched, feed, clash, scene, mine, raced>> /\ a.bytes # Absent
  BY DEF InlineCreate, outside, IInv, DataInv, TypeInv, ApplyInv, TaskInv, PcInv
<1>p. {"written", "attend"} \subseteq Pcs
  BY DEF Pcs
<1>2. CASE local[To] = Absent
  <2>1. WriteOver
    BY <1>1, <1>2 DEF InlineCreate, WriteOver
  <2>2. local[To] \in KeptBytes
    BY <1>2 DEF KeptBytes
  <2>3. QED
    BY <1>1, <2>1, <2>2, WriteOverStep
<1>3. CASE local[To] # Absent /\ local[To] = a.bytes
  <2>1. UNCHANGED journal /\ Onward("written") /\ UNCHANGED <<local, held>>
    BY <1>1, <1>p, <1>3, TaskTypes DEF InlineCreate, Goto, Keep
  <2>2. SameData
    BY <1>1, <1>3, <2>1, DataStays DEF Afresh, Onward, OnTo, copies
  <2>3. PcInv'
    BY <1>1, <1>3, <2>1, <2>2 DEF Afresh, Onward, OnTo, SameData, IInv, TaskInv, PcInv, BaseOf, Extending
  <2>4. HiddenInv'
    BY <1>1, <1>3, <2>1, <2>2 DEF Afresh, Onward, OnTo, SameData, IInv, TaskInv, HiddenInv, Late, Early, copies
  <2>5. SeenInv' /\ RenameInv'
    BY <1>1, <1>3, <2>1, <2>2 DEF Afresh, Onward, OnTo, SameData, IInv, TaskInv, SeenInv, RenameInv, CopiesFound, Extending
  <2>6. QED
    BY <2>1, <2>2, <2>3, <2>4, <2>5 DEF SameData, IInv, TaskInv, Confirms
<1>4. CASE local[To] # Absent /\ local[To] # a.bytes
  <2>1. UNCHANGED journal /\ Afresh("attend") /\ UNCHANGED <<local, held>>
    BY <1>1, <1>p, <1>4, TaskTypes DEF InlineCreate, Goto, Keep
  <2>2. SameData
    BY <1>1, <1>4, <2>1, DataStays DEF Afresh, Onward, OnTo, copies
  <2>3. PcInv'
    BY <1>1, <1>4, <2>1, <2>2 DEF Afresh, Onward, OnTo, SameData, IInv, TaskInv, PcInv, BaseOf, Extending
  <2>4. HiddenInv'
    BY <1>1, <1>4, <2>1, <2>2 DEF Afresh, Onward, OnTo, SameData, IInv, TaskInv, HiddenInv, Late, Early, copies
  <2>5. SeenInv' /\ RenameInv'
    BY <1>1, <1>4, <2>1, <2>2 DEF Afresh, Onward, OnTo, SameData, IInv, TaskInv, SeenInv, RenameInv, CopiesFound, Extending
  <2>6. QED
    BY <2>1, <2>2, <2>3, <2>4, <2>5 DEF SameData, IInv, TaskInv, Confirms
<1>5. QED
  BY <1>2, <1>3, <1>4

\* The retention clock of the plan's recovery copies starts again.
LEMMA RefreshedCopies ==
  ASSUME TypeInv, \A b \in Bytes : hidden[b] = "old" => b \in Protected
  PROVE  /\ Refreshed \in [Bytes -> {"none", "fresh", "old"}]
         /\ \A b \in Bytes : Refreshed[b] # "old"
         /\ \A b \in Protected : b \in Bytes /\ Refreshed[b] = "fresh"
<1>1. \A b \in Protected : b \in Bytes /\ \E c \in Copies : c.purpose = "pre_apply" /\ c.hash = b
  BY CopyTypes DEF Protected, CopySet
<1>2. \A b \in Bytes : b \notin Protected => ~\E c \in Copies : c.purpose = "pre_apply" /\ c.hash = b
  BY DEF Protected
<1>3. QED
  BY <1>1, <1>2 DEF Refreshed, TypeInv

\* The bytes that inline text replaces have their copies.
LEMMA InlineStep == ASSUME IInv, Inline PROVE IInv' /\ Confirms
<1>1. /\ task.pc = "inline" /\ task \in TaskSet /\ Pending /\ ~Remote /\ a.op = "put"
      /\ UNCHANGED <<local, visible, trash, journal, touched, feed, clash, scene, mine, raced, held>>
      /\ local \in [Paths -> B0] /\ To \in Paths
      /\ \A b \in Bytes : hidden[b] = "old" => b \in Protected
  BY DEF Inline, outside, IInv, DataInv, TypeInv, TaskInv, PcInv, HiddenInv, Paths
<1>p. {"inline_fetch", "attend"} \subseteq Pcs
  BY DEF Pcs
<1>2. CASE InlineIdentity /\ CopiesHold
  <2> DEFINE on == [task EXCEPT !.pc = "inline_fetch", !.seen = local[To]]
  <2>1. hidden' = Refreshed /\ task' = on
    BY <1>1, <1>2 DEF Inline
  <2>2. on \in TaskSet /\ on.pc = "inline_fetch" /\ on.seen = local[To]
    BY <1>1, <1>p DEF TaskSet
  <2> HIDE DEF on
  <2>3. local[To] \in Protected
    BY <1>2 DEF InlineIdentity, Covers, CopiesOf, Protected
  <2>4. /\ hidden' \in [Bytes -> {"none", "fresh", "old"}]
        /\ \A b \in Bytes : hidden'[b] # "old"
        /\ local[To] \in Bytes /\ hidden'[local[To]] = "fresh"
    BY <1>1, <2>1, <2>3, RefreshedCopies DEF IInv, DataInv
  <2>5. SameData
    BY <1>1, <2>1, <2>2, <2>4, HiddenStep
  <2>6. PcInv'
    BY <1>1, <2>1, <2>2, <2>5 DEF SameData, IInv, TaskInv, PcInv, BaseOf, Extending
  <2>7. HiddenInv'
    BY <2>1, <2>2, <2>4 DEF HiddenInv, Late, Early
  <2>8. SeenInv' /\ RenameInv'
    BY <2>1, <2>2 DEF SeenInv, RenameInv, CopiesFound, Extending
  <2>9. QED
    BY <1>1, <2>5, <2>6, <2>7, <2>8 DEF SameData, IInv, TaskInv, Confirms
<1>3. CASE ~(InlineIdentity /\ CopiesHold)
  <2>1. UNCHANGED journal /\ Afresh("attend") /\ UNCHANGED hidden
    BY <1>1, <1>p, <1>3, TaskTypes DEF Inline, Goto, Keep
  <2>2. SameData
    BY <1>1, <1>3, <2>1, DataStays DEF Afresh, Onward, OnTo, copies
  <2>3. PcInv'
    BY <1>1, <1>3, <2>1, <2>2 DEF Afresh, Onward, OnTo, SameData, IInv, TaskInv, PcInv, BaseOf, Extending
  <2>4. HiddenInv'
    BY <1>1, <1>3, <2>1, <2>2 DEF Afresh, Onward, OnTo, SameData, IInv, TaskInv, HiddenInv, Late, Early, copies
  <2>5. SeenInv' /\ RenameInv'
    BY <1>1, <1>3, <2>1, <2>2 DEF Afresh, Onward, OnTo, SameData, IInv, TaskInv, SeenInv, RenameInv, CopiesFound, Extending
  <2>6. QED
    BY <2>1, <2>2, <2>3, <2>4, <2>5 DEF SameData, IInv, TaskInv, Confirms
<1>4. QED
  BY <1>2, <1>3

\* Every copy was made: the apply goes on.
LEMMA CopiedStep == ASSUME IInv, Copied PROVE IInv' /\ Confirms
<1>1. /\ task.pc = "copied" /\ task \in TaskSet /\ Pending /\ a.op \in {"put", "delete", "rename"}
      /\ UNCHANGED <<local, visible, trash, touched, feed, clash, scene, mine, raced, held>>
      /\ a.op # "delete" => \A b \in Bytes : hidden[b] = "old" => b \in Protected
      /\ Remote => a.op = "put" /\ a.kind = "blob"
  BY DEF Copied, outside, IInv, DataInv, TypeInv, ApplyInv, PlanInv, TaskInv, PcInv, HiddenInv, Remote
<1>p. {"inline", "attend", "fetch", "conflict_look", "finish_fetch"} \subseteq Pcs
  BY DEF Pcs
<1>2. CASE a.kind = "text" /\ a.op = "put"
  <2>1. UNCHANGED journal /\ Afresh("inline") /\ UNCHANGED hidden
    BY <1>1, <1>p, <1>2, TaskTypes DEF Copied, Goto, Keep
  <2>2. SameData
    BY <1>1, <1>2, <2>1, DataStays DEF Afresh, Onward, OnTo, copies
  <2>3. PcInv'
    BY <1>1, <1>2, <2>1, <2>2 DEF Afresh, Onward, OnTo, SameData, IInv, TaskInv, PcInv, BaseOf, Extending
  <2>4. HiddenInv'
    BY <1>1, <1>2, <2>1, <2>2 DEF Afresh, Onward, OnTo, SameData, IInv, TaskInv, HiddenInv, Late, Early, copies
  <2>5. SeenInv' /\ RenameInv'
    BY <1>1, <1>2, <2>1, <2>2 DEF Afresh, Onward, OnTo, SameData, IInv, TaskInv, SeenInv, RenameInv, CopiesFound, Extending
  <2>6. QED
    BY <2>1, <2>2, <2>3, <2>4, <2>5 DEF SameData, IInv, TaskInv, Confirms
<1>3. CASE ~(a.kind = "text" /\ a.op = "put") /\ ~CopiesHold
  <2>1. UNCHANGED journal /\ Afresh("attend") /\ UNCHANGED hidden
    BY <1>1, <1>p, <1>3, TaskTypes DEF Copied, Goto, Keep
  <2>2. SameData
    BY <1>1, <1>3, <2>1, DataStays DEF Afresh, Onward, OnTo, copies
  <2>3. PcInv'
    BY <1>1, <1>3, <2>1, <2>2 DEF Afresh, Onward, OnTo, SameData, IInv, TaskInv, PcInv, BaseOf, Extending
  <2>4. HiddenInv'
    BY <1>1, <1>3, <2>1, <2>2 DEF Afresh, Onward, OnTo, SameData, IInv, TaskInv, HiddenInv, Late, Early, copies
  <2>5. SeenInv' /\ RenameInv'
    BY <1>1, <1>3, <2>1, <2>2 DEF Afresh, Onward, OnTo, SameData, IInv, TaskInv, SeenInv, RenameInv, CopiesFound, Extending
  <2>6. QED
    BY <2>1, <2>2, <2>3, <2>4, <2>5 DEF SameData, IInv, TaskInv, Confirms
<1>4. CASE ~(a.kind = "text" /\ a.op = "put") /\ CopiesHold
  <2>1. hidden' = Refreshed
    BY <1>1, <1>4 DEF Copied
  <2>2. hidden' \in [Bytes -> {"none", "fresh", "old"}]
    BY <2>1 DEF Refreshed, IInv, DataInv, TypeInv
  <2>3. a.op # "delete" => \A b \in Bytes : hidden'[b] # "old"
    BY <1>1, <2>1, RefreshedCopies DEF IInv, DataInv
  <2>4. CASE a.op = "put" /\ Remote
    <3>1. Complete(a.bytes)
      BY <1>1, <1>4, <2>4 DEF Copied, Remote
    <3>2. a.bytes \in held[To]
      <4>1. PICK c \in Copies : c.mode = "remote"
        BY <2>4 DEF Remote
      <4>2. c.hash = a.bytes /\ c.purpose = "conflict" /\ (c.name \in DOMAIN visible => a.bytes \in held[To])
        BY <4>1 DEF IInv, DataInv, PlanInv
      <4>3. Saved(c) = c.hash /\ c.hash \in Bytes /\ c.hash # Absent
        BY <1>4, CopyTypes, BinaryAssumption DEF CopiesHold, Verified, CopySet, IInv, DataInv
      <4>4. QED
        BY <4>2, <4>3 DEF Saved
    <3>3. QED
      BY <1>1, <2>2, <2>4, <3>1, <3>2, Completes
  <2>5. CASE ~(a.op = "put" /\ Remote)
    <3>1. /\ UNCHANGED journal
          /\ \/ Afresh("fetch") /\ a.op = "put"
             \/ Afresh("conflict_look") /\ a.op = "delete"
             \/ Afresh("finish_fetch") /\ a.op = "rename"
      BY <1>1, <1>p, <1>4, <2>5, TaskTypes DEF Copied, Goto, Remote
    <3>2. SameData
      BY <1>1, <2>2, <3>1, HiddenStep DEF Afresh
    <3>3. PcInv'
      BY <1>1, <2>5, <3>1, <3>2 DEF Afresh, SameData, IInv, TaskInv, PcInv, BaseOf, Extending
    <3>4. HiddenInv'
      BY <2>3, <3>1, <3>2 DEF Afresh, SameData, HiddenInv, Late, Early
    <3>5. SeenInv' /\ RenameInv'
      BY <3>1 DEF Afresh, SeenInv, RenameInv, CopiesFound, Extending
    <3>6. QED
      BY <3>1, <3>2, <3>3, <3>4, <3>5 DEF SameData, IInv, TaskInv, Confirms
  <2>6. QED
    BY <2>4, <2>5
<1>5. QED
  BY <1>2, <1>3, <1>4

\* A tombstone looks for the copy of what the file holds.
LEMMA ConflictLookStep == ASSUME IInv, ConflictLook PROVE IInv' /\ Confirms
<1>1. /\ task.pc = "conflict_look" /\ task \in TaskSet /\ Pending /\ ~Remote /\ a.op = "delete"
      /\ UNCHANGED <<local, copies, touched, feed, clash, scene, mine, raced, held>>
      /\ local \in [Paths -> B0] /\ To \in Paths /\ local[To] \in held[To]
      /\ hidden' \in [Bytes -> {"none", "fresh", "old"}]
  BY DEF ConflictLook, Unchanged, outside, copies, IInv, DataInv, TypeInv, KeptInv, TaskInv, PcInv, Paths
<1>p. {"trash", "attend"} \subseteq Pcs
  BY DEF Pcs
<1>2. CASE local[To] = Absent
  <2>1. Complete(Absent)
    BY <1>1, <1>2 DEF ConflictLook
  <2>2. QED
    BY <1>1, <1>2, <2>1, Completes DEF copies
<1>3. CASE local[To] # Absent /\ HasCopy(local[To])
  <2> DEFINE one == [task EXCEPT !.pc = "trash", !.seen = local[To]]
             on == [one EXCEPT !.next = "attend"]
  <2>1. UNCHANGED journal /\ task' = on
    BY <1>1, <1>3 DEF ConflictLook
  <2>2. one \in TaskSet /\ one.pc = "trash"
    BY <1>1, <1>p DEF TaskSet
  <2> HIDE DEF one
  <2>3. on \in TaskSet /\ on.pc = "trash" /\ on.next = "attend"
    BY <2>2 DEF TaskSet
  <2> HIDE DEF on
  <2>4. SameData
    BY <1>1, <2>1, <2>3, DataStays
  <2>5. PcInv'
    BY <1>1, <2>1, <2>3, <2>4 DEF SameData, IInv, TaskInv, PcInv, BaseOf, Extending
  <2>6. HiddenInv' /\ SeenInv' /\ RenameInv'
    BY <1>1, <2>1, <2>3, <2>4 DEF SameData, HiddenInv, SeenInv, RenameInv, Late, Early, CopiesFound, Extending
  <2>7. QED
    BY <2>1, <2>4, <2>5, <2>6 DEF SameData, IInv, TaskInv, Confirms
<1>4. CASE local[To] # Absent /\ ~HasCopy(local[To])
  <2>1. UNCHANGED journal /\ Afresh("attend")
    BY <1>1, <1>p, <1>4, TaskTypes DEF ConflictLook, Goto, Keep
  <2>2. SameData
    BY <1>1, <1>4, <2>1, DataStays DEF Afresh, Onward, OnTo, copies
  <2>3. PcInv'
    BY <1>1, <1>4, <2>1, <2>2 DEF Afresh, Onward, OnTo, SameData, IInv, TaskInv, PcInv, BaseOf, Extending
  <2>4. HiddenInv'
    BY <1>1, <1>4, <2>1, <2>2 DEF Afresh, Onward, OnTo, SameData, IInv, TaskInv, HiddenInv, Late, Early, copies
  <2>5. SeenInv' /\ RenameInv'
    BY <1>1, <1>4, <2>1, <2>2 DEF Afresh, Onward, OnTo, SameData, IInv, TaskInv, SeenInv, RenameInv, CopiesFound, Extending
  <2>6. QED
    BY <2>1, <2>2, <2>3, <2>4, <2>5 DEF SameData, IInv, TaskInv, Confirms
<1>5. QED
  BY <1>2, <1>3, <1>4

\* The copy that the engine is at.
LEMMA NextCopyTypes ==
  ASSUME IInv, task.pc = "persist", task.i <= Len(a.plan)
  PROVE  /\ TheCopy \in Copies /\ TheCopy \in CopySet
         /\ NextCopy => /\ task' \in TaskSet /\ task'.pc = task.pc /\ task'.next = task.next
                        /\ task'.seen = task.seen /\ task'.same = task.same
                        /\ task'.clean = task.clean
<1>1. task \in TaskSet /\ task.i \in Nat \ {0} /\ Pending
  BY DEF IInv, DataInv, TypeInv, TaskInv, PcInv, TaskSet
<1>2. a.plan \in Seq(CopySet)
  BY <1>1, PendingFacts DEF IInv, ApplySet
<1>3. TheCopy \in Copies
  <2> DEFINE plan == a.plan
  <2>1. plan \in Seq(CopySet) /\ Len(plan) \in Nat /\ DOMAIN plan = 1..Len(plan)
    BY <1>2
  <2> HIDE DEF plan
  <2>2. task.i \in DOMAIN plan
    BY <1>1, <2>1 DEF plan
  <2>3. QED
    BY <2>2 DEF plan, TheCopy, Copies
<1>4. TheCopy \in CopySet
  BY <1>3, CopyTypes DEF IInv, DataInv
<1>5. NextCopy => /\ task' \in TaskSet /\ task'.pc = task.pc /\ task'.next = task.next
                  /\ task'.seen = task.seen /\ task'.same = task.same
                  /\ task'.clean = task.clean
  <2> DEFINE on == [task EXCEPT !.i = @ + 1]
  <2>1. /\ on \in TaskSet /\ on.pc = task.pc /\ on.next = task.next
        /\ on.seen = task.seen /\ on.same = task.same /\ on.clean = task.clean
    BY <1>1 DEF TaskSet
  <2> HIDE DEF on
  <2>2. NextCopy => task' = on
    BY DEF NextCopy, on
  <2>3. QED
    BY <2>1, <2>2
<1>6. QED
  BY <1>3, <1>4, <1>5

\* What the next copy leaves for the plan to do.
LEMMA NextCopyTask ==
  ASSUME IInv, DataInv', task.pc = "persist", UNCHANGED <<journal, touched>>,
         task' \in TaskSet, task'.pc = task.pc, task'.next = task.next,
         task'.seen = task.seen, task'.same = task.same, task'.clean = task.clean,
         \A b \in Bytes : hidden'[b] = "old" => hidden[b] = "old"
  PROVE  IInv'
<1>1. /\ a' = a /\ Pending' = Pending /\ Remote' = Remote /\ Protected' = Protected
  BY SameJournal
<1>2. PcInv'
  BY <1>1 DEF IInv, TaskInv, PcInv, BaseOf, Extending
<1>3. HiddenInv'
  BY <1>1 DEF IInv, TaskInv, HiddenInv, Late, Early
<1>4. SeenInv' /\ RenameInv'
  BY <1>1 DEF IInv, TaskInv, SeenInv, RenameInv, CopiesFound, Extending, Clean, BaseOf
<1>5. QED
  BY <1>2, <1>3, <1>4 DEF IInv, TaskInv

\* A copy that is there is kept.
LEMMA KeepCopyStep == ASSUME IInv, KeepCopy PROVE IInv' /\ Confirms
<1>1. /\ task.pc = "persist" /\ task \in TaskSet /\ Pending
      /\ task.i <= Len(a.plan) /\ hidden \in [Bytes -> {"none", "fresh", "old"}]
      /\ UNCHANGED <<local, visible, trash, journal, touched, feed, clash, scene, mine, raced, held>>
  BY DEF KeepCopy, PersistFrame, outside, IInv, DataInv, TypeInv, TaskInv, PcInv
<1>p. {"attend"} \subseteq Pcs
  BY DEF Pcs
<1>2. CASE Saved(TheCopy) # TheCopy.hash
  <2>1. UNCHANGED journal /\ Afresh("attend") /\ UNCHANGED hidden
    BY <1>1, <1>p, <1>2, TaskTypes DEF KeepCopy, Goto, Keep
  <2>2. SameData
    BY <1>1, <1>2, <2>1, DataStays DEF Afresh, Onward, OnTo, copies
  <2>3. PcInv'
    BY <1>1, <1>2, <2>1, <2>2 DEF Afresh, Onward, OnTo, SameData, IInv, TaskInv, PcInv, BaseOf, Extending
  <2>4. HiddenInv'
    BY <1>1, <1>2, <2>1, <2>2 DEF Afresh, Onward, OnTo, SameData, IInv, TaskInv, HiddenInv, Late, Early, copies
  <2>5. SeenInv' /\ RenameInv'
    BY <1>1, <1>2, <2>1, <2>2 DEF Afresh, Onward, OnTo, SameData, IInv, TaskInv, SeenInv, RenameInv, CopiesFound, Extending
  <2>6. QED
    BY <2>1, <2>2, <2>3, <2>4, <2>5 DEF SameData, IInv, TaskInv, Confirms
<1>3. CASE Saved(TheCopy) = TheCopy.hash
  <2>1. /\ NextCopy
        /\ hidden' \in {hidden, [hidden EXCEPT ![TheCopy.hash] = "fresh"]}
    BY <1>1, <1>3 DEF KeepCopy
  <2>2. /\ hidden' \in [Bytes -> {"none", "fresh", "old"}]
        /\ \A b \in Bytes : hidden'[b] = "old" => hidden[b] = "old"
    BY <1>1, <2>1
  <2>3. /\ task' \in TaskSet /\ task'.pc = task.pc /\ task'.next = task.next
        /\ task'.seen = task.seen /\ task'.same = task.same /\ task'.clean = task.clean
    BY <1>1, <2>1, NextCopyTypes
  <2>4. SameData
    BY <1>1, <2>2, <2>3, HiddenStep
  <2>5. IInv'
    BY <1>1, <2>2, <2>3, <2>4, NextCopyTask DEF SameData
  <2>6. QED
    BY <1>1, <2>5 DEF Confirms
<1>4. QED
  BY <1>2, <1>3

\* A copy is made.
LEMMA MakeCopyStep == ASSUME IInv, MakeCopy PROVE IInv' /\ Confirms
<1> DEFINE c == TheCopy
           made == [n \in {c.name} |-> c.hash]
<1>1. /\ task.pc = "persist" /\ task \in TaskSet /\ Pending
      /\ task.i <= Len(a.plan) /\ hidden \in [Bytes -> {"none", "fresh", "old"}]
      /\ UNCHANGED <<local, trash, journal, touched, feed, clash, scene, mine, raced>>
      /\ NextCopy
      /\ IF c.purpose = "pre_apply"
         THEN hidden' = [hidden EXCEPT ![c.hash] = "fresh"] /\ UNCHANGED visible
         ELSE AddVisible(made) /\ UNCHANGED hidden
      /\ held' = IF c.mode = "remote" THEN [held EXCEPT ![To] = @ \cup {c.hash}] ELSE held
  BY DEF MakeCopy, PersistFrame, outside, IInv, DataInv, TypeInv, TaskInv, PcInv
<1>2. c \in Copies /\ c \in CopySet /\ c.hash \in Bytes /\ c.name \in NameSet /\ c.hash \in B0
  BY <1>1, NextCopyTypes DEF CopySet, B0
<1>3. /\ task' \in TaskSet /\ task'.pc = task.pc /\ task'.next = task.next
      /\ task'.seen = task.seen /\ task'.same = task.same /\ task'.clean = task.clean
  BY <1>1, NextCopyTypes
<1> HIDE DEF c
<1>4. /\ hidden' \in [Bytes -> {"none", "fresh", "old"}]
      /\ \A b \in Bytes : hidden'[b] = "old" => hidden[b] = "old"
  BY <1>1, <1>2
<1>5. /\ \A n \in DOMAIN visible' :
           \/ n \in DOMAIN visible /\ visible'[n] = visible[n]
           \/ n = c.name /\ visible'[n] = c.hash /\ c.purpose # "pre_apply"
      /\ DOMAIN visible \subseteq DOMAIN visible'
      /\ \A n \in DOMAIN visible : visible[n] # Absent => visible'[n] = visible[n]
  <2>1. CASE c.purpose = "pre_apply"
    BY <1>1, <2>1
  <2>2. CASE c.purpose # "pre_apply"
    <3>1. DOMAIN made = {c.name} /\ made[c.name] = c.hash
      OBVIOUS
    <3>2. AddVisible(made)
      BY <1>1, <2>2
    <3> HIDE DEF made
    <3>3. DOMAIN visible' = DOMAIN visible \cup {c.name}
      BY <3>1, <3>2 DEF AddVisible
    <3>4. \A n \in DOMAIN visible' :
            visible'[n] = IF n = c.name /\ (n \notin DOMAIN visible \/ visible[n] = Absent)
                          THEN c.hash ELSE visible[n]
      BY <3>1, <3>2 DEF AddVisible
    <3>5. QED
      BY <2>2, <3>3, <3>4
  <2>3. QED
    BY <2>1, <2>2
<1>6. /\ held' \in [Paths -> SUBSET B0]
      /\ \A p \in Paths : held[p] \subseteq held'[p]
      /\ c.mode = "remote" => c.hash \in held'[To]
  <2>1. held \in [Paths -> SUBSET B0] /\ To \in Paths
    BY DEF IInv, DataInv, TypeInv, Paths
  <2>2. QED
    BY <1>1, <1>2, <2>1
<1>7. /\ a' = a /\ Pending' = Pending /\ Copies' = Copies /\ FeedBytes' = FeedBytes
  BY <1>1, SameJournal DEF FeedBytes
<1>8. TypeInv'
  <2>1. DOMAIN visible' \subseteq NameSet /\ \A n \in DOMAIN visible' : visible'[n] \in B0
    BY <1>2, <1>5 DEF IInv, DataInv, TypeInv
  <2>2. QED
    BY <1>1, <1>3, <1>4, <1>6, <2>1 DEF IInv, DataInv, TypeInv
<1>9. FeedInv' /\ ApplyInv'
  BY <1>1, <1>7 DEF IInv, DataInv, FeedInv, ApplyInv, BaseOf
<1>10. PlanInv'
  <2>1. \A d \in Copies : d.mode = "remote" =>
          /\ Copies = {d} /\ a.op = "put" /\ a.kind = "blob"
          /\ d.hash = a.bytes /\ d.purpose = "conflict"
          /\ d.name \in DOMAIN visible' => a.bytes \in held'[To]
    <3> SUFFICES ASSUME NEW d \in Copies, d.mode = "remote"
                 PROVE  /\ Copies = {d} /\ a.op = "put" /\ a.kind = "blob"
                        /\ d.hash = a.bytes /\ d.purpose = "conflict" /\ a.bytes \in held'[To]
      OBVIOUS
    <3>1. Copies = {d} /\ a.op = "put" /\ a.kind = "blob" /\ d.hash = a.bytes /\ d.purpose = "conflict"
      BY DEF IInv, DataInv, PlanInv
    <3>2. d = c
      BY <1>2, <3>1
    <3>3. QED
      BY <1>6, <3>1, <3>2
  <2>2. \A n \in DOMAIN visible' : n[1] = To /\ n[3] = Absent =>
          n[2] <= BaseOf(To).rev \/ \E d \in Copies : d.purpose = "conflict" /\ d.name = n
    <3> SUFFICES ASSUME NEW n \in DOMAIN visible', n[1] = To, n[3] = Absent
                 PROVE  n[2] <= BaseOf(To).rev \/ \E d \in Copies : d.purpose = "conflict" /\ d.name = n
      OBVIOUS
    <3>1. CASE n \in DOMAIN visible
      BY <3>1 DEF IInv, DataInv, PlanInv
    <3>2. CASE n = c.name /\ c.purpose # "pre_apply"
      BY <1>2, <3>2 DEF CopySet
    <3>3. QED
      BY <1>5, <3>1, <3>2
  <2>3. \A d \in Copies : d.name[1] = To /\ d.name[3] = Absent => d.name[2] <= a.rev
    BY DEF IInv, DataInv, PlanInv
  <2>4. QED
    BY <1>1, <1>7, <2>1, <2>2, <2>3 DEF PlanInv, BaseOf
<1>11. KeptInv'
  <2>1. Findable \ {Absent} \subseteq Findable'
    BY <1>1, <1>5, <1>7 DEF Findable, FeedBytes
  <2>2. Absent \notin mine
    BY BinaryAssumption DEF IInv, DataInv, TypeInv
  <2>3. QED
    BY <1>1, <1>6, <2>1, <2>2 DEF IInv, DataInv, KeptInv
<1>12. IInv'
  BY <1>1, <1>3, <1>4, <1>8, <1>9, <1>10, <1>11, NextCopyTask DEF DataInv
<1>13. QED
  BY <1>1, <1>12 DEF Confirms

\* A copy that cannot be made stops the apply.
LEMMA NoCopyStep == ASSUME IInv, NoCopy PROVE IInv' /\ Confirms
<1>1. /\ task.pc = "persist" /\ task \in TaskSet /\ Pending
      /\ UNCHANGED <<local, copies, journal, touched, feed, clash, scene, mine, raced, held>>
  BY DEF NoCopy, PersistFrame, outside, copies, IInv, DataInv, TypeInv, TaskInv, PcInv
<1>p. {"attend"} \subseteq Pcs
  BY DEF Pcs
<1>2. CASE TRUE
  <2>1. UNCHANGED journal /\ Afresh("attend")
    BY <1>1, <1>p, <1>2, TaskTypes DEF NoCopy, Goto, Keep
  <2>2. SameData
    BY <1>1, <1>2, <2>1, DataStays DEF Afresh, Onward, OnTo, copies
  <2>3. PcInv'
    BY <1>1, <1>2, <2>1, <2>2 DEF Afresh, Onward, OnTo, SameData, IInv, TaskInv, PcInv, BaseOf, Extending
  <2>4. HiddenInv'
    BY <1>1, <1>2, <2>1, <2>2 DEF Afresh, Onward, OnTo, SameData, IInv, TaskInv, HiddenInv, Late, Early, copies
  <2>5. SeenInv' /\ RenameInv'
    BY <1>1, <1>2, <2>1, <2>2 DEF Afresh, Onward, OnTo, SameData, IInv, TaskInv, SeenInv, RenameInv, CopiesFound, Extending
  <2>6. QED
    BY <2>1, <2>2, <2>3, <2>4, <2>5 DEF SameData, IInv, TaskInv, Confirms
<1>3. QED
  BY <1>2

\* What a rename copies first.
LEMMA RenamePlanTypes ==
  ASSUME a \in ApplySet, NEW src \in B0, NEW dst \in B0
  PROVE  RenamePlan(src, dst) \in Seq({c \in CopySet : LocalCopy(c)})
<1> DEFINE S == {c \in CopySet : LocalCopy(c)}
           p1 == IF src # Absent /\ ~Clean(From, src)
                 THEN <<Conflict(From, a.row, Absent, src, "local")>> ELSE <<>>
           p2 == IF dst \notin {Absent, a.bytes} /\ ~Clean(To, dst)
                 THEN <<Conflict(To, a.rev, Absent, dst, "local")>> ELSE <<>>
           p3 == IF dst \notin {Absent, a.bytes} THEN <<PreApply(To, dst)>> ELSE <<>>
<1>1. \A b \in Bytes :
        /\ Conflict(From, a.row, Absent, b, "local") \in S
        /\ Conflict(To, a.rev, Absent, b, "local") \in S
        /\ PreApply(To, b) \in S
  <2> SUFFICES ASSUME NEW b \in Bytes
               PROVE  /\ Conflict(From, a.row, Absent, b, "local") \in S
                      /\ Conflict(To, a.rev, Absent, b, "local") \in S
                      /\ PreApply(To, b) \in S
    OBVIOUS
  <2>1. /\ LocalCopy(Conflict(From, a.row, Absent, b, "local"))
        /\ LocalCopy(Conflict(To, a.rev, Absent, b, "local"))
        /\ LocalCopy(PreApply(To, b))
    BY LocalCopies DEF Paths
  <2>2. QED
    BY <2>1 DEF LocalCopy
<1>2. (src # Absent => src \in Bytes) /\ (dst # Absent => dst \in Bytes)
  BY DEF B0
<1> HIDE DEF S
<1>3. p1 \in Seq(S)
  BY <1>1, <1>2
<1>4. p2 \in Seq(S)
  BY <1>1, <1>2
<1>5. p3 \in Seq(S)
  BY <1>1, <1>2
<1>6. RenamePlan(src, dst) = p1 \o p2 \o p3
  BY DEF RenamePlan
<1> HIDE DEF p1, p2, p3
<1>7. QED
  BY <1>3, <1>4, <1>5, <1>6 DEF S

\* A rename looks at both sides, for the first time.
LEMMA RenameStep == ASSUME IInv, Rename PROVE IInv' /\ Confirms
<1> DEFINE src == SourceBytes
           dst == DestinationBytes
<1>1. /\ task.pc = "rename" /\ task \in TaskSet /\ Pending /\ ~Remote /\ a.op = "rename"
      /\ UNCHANGED <<local, copies, feed, clash, scene, mine, raced, held>>
      /\ a.plan = <<>> /\ hidden' \in [Bytes -> {"none", "fresh", "old"}]
  BY DEF Rename, Frame, outside, copies, IInv, DataInv, TypeInv, TaskInv, PcInv
<1>p. {"rename_fetch", "finish_fetch", "resume"} \subseteq Pcs
  BY DEF Pcs
<1>2. src \in B0 /\ dst \in B0
  BY DEF SourceBytes, DestinationBytes, IInv, DataInv, TypeInv, Paths, B0
<1> HIDE DEF src, dst
<1> DEFINE moves == DestinationPending /\ Clean(From, src) /\ src = a.bytes /\ dst = Absent
<1>3. CASE ~SourcePending /\ ~DestinationPending
  <2>1. CompleteRename
    BY <1>1, <1>3 DEF Rename
  <2>2. QED
    BY <1>1, <1>3, <2>1, CompletesRename DEF copies
<1>4. CASE moves
  <2> DEFINE on == [task EXCEPT !.pc = "rename_fetch", !.src = src]
  <2>1. task' = on /\ UNCHANGED journal
    BY <1>1, <1>4 DEF Rename, src, dst
  <2>2. on \in TaskSet /\ on.pc = "rename_fetch"
    BY <1>1, <1>2, <1>p DEF TaskSet
  <2> HIDE DEF on
  <2>3. SameData
    BY <1>1, <2>1, <2>2, DataStays
  <2>4. PcInv'
    BY <1>1, <2>1, <2>2, <2>3 DEF SameData, IInv, TaskInv, PcInv, BaseOf, Extending
  <2>5. HiddenInv'
    BY <1>1, <2>1, <2>2, <2>3 DEF SameData, IInv, TaskInv, HiddenInv, Late, Early, copies
  <2>6. SeenInv' /\ RenameInv'
    BY <2>1, <2>2 DEF SeenInv, RenameInv, CopiesFound, Extending
  <2>7. QED
    BY <2>1, <2>3, <2>4, <2>5, <2>6 DEF SameData, IInv, TaskInv, Confirms
<1>5. CASE ~(~SourcePending /\ ~DestinationPending) /\ ~moves /\ RenamePlan(src, dst) = <<>>
  <2>1. UNCHANGED journal /\ Afresh("finish_fetch")
    <3>1. UNCHANGED journal /\ task' = At("finish_fetch")
      BY <1>1, <1>5 DEF Rename, Goto, src, dst
    <3>2. QED
      BY <1>1, <1>p, <3>1, TaskTypes
  <2>2. SameData
    BY <1>1, <2>1, DataStays DEF Afresh
  <2>3. PcInv'
    BY <1>1, <2>1, <2>2 DEF Afresh, SameData, IInv, TaskInv, PcInv, BaseOf, Extending
  <2>4. HiddenInv'
    BY <1>1, <2>1, <2>2 DEF Afresh, SameData, IInv, TaskInv, HiddenInv, Late, Early, copies
  <2>5. SeenInv' /\ RenameInv'
    BY <2>1 DEF Afresh, SeenInv, RenameInv, CopiesFound, Extending
  <2>6. QED
    BY <2>1, <2>2, <2>3, <2>4, <2>5 DEF SameData, IInv, TaskInv, Confirms
<1>6. CASE ~(~SourcePending /\ ~DestinationPending) /\ ~moves /\ RenamePlan(src, dst) # <<>>
  <2> DEFINE plan == RenamePlan(src, dst)
  <2>1. journal' = [journal EXCEPT !.apply = Named(plan, "blob")] /\ task' = At("resume")
    BY <1>1, <1>6 DEF Rename, SaveApply, Save, src, dst
  <2>2. Afresh("resume")
    BY <1>1, <1>p, <2>1, TaskTypes
  <2>3. plan \in Seq({c \in CopySet : LocalCopy(c)}) /\ plan # <<>>
    <3>1. a \in ApplySet
      BY <1>1, PendingFacts DEF IInv
    <3>2. QED
      BY <1>2, <1>6, <3>1, RenamePlanTypes
  <2> HIDE DEF plan
  <2>4. QED
    BY <1>1, <2>1, <2>2, <2>3, LocalPlanNamed
<1>7. QED
  BY <1>3, <1>4, <1>5, <1>6

\* The host moves the file.
LEMMA MoveStep == ASSUME IInv, Move PROVE IInv' /\ Confirms
<1>1. /\ task.pc = "moving" /\ task \in TaskSet /\ Pending /\ ~Remote /\ a.op = "rename"
      /\ UNCHANGED <<copies, journal, touched, feed, clash, scene, mine, raced>>
      /\ local \in [Paths -> B0] /\ held \in [Paths -> SUBSET B0] /\ To \in Paths /\ From \in Paths
      /\ Absent \in B0 /\ Paths = {From, To} /\ From # To
  BY DEF Move, outside, IInv, DataInv, TypeInv, TaskInv, PcInv, Paths, B0, From, To
<1>p. {"moved", "throw"} \subseteq Pcs
  BY DEF Pcs
<1>2. CASE local[From] = Absent \/ local[To] # Absent
  <2>1. UNCHANGED journal /\ Afresh("throw") /\ UNCHANGED <<local, held>>
    BY <1>1, <1>p, <1>2, TaskTypes DEF Move, Goto, Keep
  <2>2. SameData
    BY <1>1, <1>2, <2>1, DataStays DEF Afresh, Onward, OnTo, copies
  <2>3. PcInv'
    BY <1>1, <1>2, <2>1, <2>2 DEF Afresh, Onward, OnTo, SameData, IInv, TaskInv, PcInv, BaseOf, Extending
  <2>4. HiddenInv'
    BY <1>1, <1>2, <2>1, <2>2 DEF Afresh, Onward, OnTo, SameData, IInv, TaskInv, HiddenInv, Late, Early, copies
  <2>5. SeenInv' /\ RenameInv'
    BY <1>1, <1>2, <2>1, <2>2 DEF Afresh, Onward, OnTo, SameData, IInv, TaskInv, SeenInv, RenameInv, CopiesFound, Extending
  <2>6. QED
    BY <2>1, <2>2, <2>3, <2>4, <2>5 DEF SameData, IInv, TaskInv, Confirms
<1>3. CASE ~(local[From] = Absent \/ local[To] # Absent)
  <2>1. /\ Onward("moved") /\ local[To] = Absent
        /\ local' = [local EXCEPT ![To] = local[From], ![From] = Absent]
        /\ held' = [held EXCEPT ![To] = @ \cup {local[From]}, ![From] = @ \cup {Absent}]
    BY <1>1, <1>p, <1>3, TaskTypes DEF Move, Keep
  <2>2. /\ local'[To] = local[From] /\ local'[From] = local[To]
        /\ local[From] \in held'[To] /\ local[To] \in held'[From]
        /\ local' \in [Paths -> B0] /\ held' \in [Paths -> SUBSET B0]
        /\ \A p \in Paths : held[p] \subseteq held'[p]
    BY <1>1, <2>1
  <2>3. /\ a' = a /\ Pending' = Pending /\ Copies' = Copies /\ Remote' = Remote
        /\ Protected' = Protected /\ DestinationPending' = DestinationPending
        /\ FeedBytes' = FeedBytes /\ KeptBytes' = KeptBytes
    BY <1>1, SameJournal, SameKept DEF FeedBytes, copies
  <2>4. TypeInv'
    BY <1>1, <2>1, <2>2 DEF IInv, DataInv, TypeInv, Onward, copies
  <2>5. FeedInv' /\ ApplyInv'
    BY <1>1, <2>3 DEF IInv, DataInv, FeedInv, ApplyInv, BaseOf
  <2>6. PlanInv'
    BY <1>1, <2>2, <2>3 DEF IInv, DataInv, PlanInv, BaseOf, copies
  <2>7. KeptInv'
    <3>1. \A p \in Paths : local'[p] \in held'[p]
      BY <1>1, <2>2
    <3>2. {local'[p] : p \in Paths} = {local[p] : p \in Paths}
      BY <1>1, <2>2
    <3>3. Findable' = Findable
      BY <1>1, <2>3, <3>2 DEF Findable, FeedBytes, copies
    <3>4. QED
      BY <1>1, <3>1, <3>3 DEF IInv, DataInv, KeptInv
  <2>8. PcInv'
    BY <1>1, <2>1, <2>3 DEF Onward, IInv, TaskInv, PcInv, BaseOf, Extending
  <2>9. HiddenInv'
    BY <1>1, <2>1, <2>3 DEF Onward, IInv, TaskInv, HiddenInv, Late, Early, copies
  <2>10. SeenInv' /\ RenameInv'
    BY <2>1 DEF Onward, SeenInv, RenameInv, CopiesFound, Extending
  <2>11. QED
    BY <1>1, <2>4, <2>5, <2>6, <2>7, <2>8, <2>9, <2>10 DEF IInv, DataInv, TaskInv, Confirms
<1>4. QED
  BY <1>2, <1>3

\* The move is read back.
LEMMA MovedStep == ASSUME IInv, Moved PROVE IInv' /\ Confirms
<1>1. /\ task.pc = "moved" /\ task \in TaskSet /\ Pending /\ ~Remote /\ a.op = "rename"
      /\ UNCHANGED <<local, copies, touched, feed, clash, scene, mine, raced, held>>
      /\ local[To] \in held[To] /\ local[From] \in held[From]
      /\ hidden' \in [Bytes -> {"none", "fresh", "old"}]
  BY DEF Moved, Unchanged, outside, copies, IInv, DataInv, TypeInv, KeptInv, TaskInv, PcInv, Paths
<1>p. {"finish_fetch"} \subseteq Pcs
  BY DEF Pcs
<1>2. CASE local[From] = Absent /\ local[To] = a.bytes
  <2>1. CompleteRename
    BY <1>1, <1>2 DEF Moved
  <2>2. QED
    BY <1>1, <1>2, <2>1, CompletesRename DEF copies
<1>3. CASE ~(local[From] = Absent /\ local[To] = a.bytes)
  <2>1. UNCHANGED journal /\ Afresh("finish_fetch")
    BY <1>1, <1>p, <1>3, TaskTypes DEF Moved, Goto, Keep
  <2>2. SameData
    BY <1>1, <1>3, <2>1, DataStays DEF Afresh, Onward, OnTo, copies
  <2>3. PcInv'
    BY <1>1, <1>3, <2>1, <2>2 DEF Afresh, Onward, OnTo, SameData, IInv, TaskInv, PcInv, BaseOf, Extending
  <2>4. HiddenInv'
    BY <1>1, <1>3, <2>1, <2>2 DEF Afresh, Onward, OnTo, SameData, IInv, TaskInv, HiddenInv, Late, Early, copies
  <2>5. SeenInv' /\ RenameInv'
    BY <1>1, <1>3, <2>1, <2>2 DEF Afresh, Onward, OnTo, SameData, IInv, TaskInv, SeenInv, RenameInv, CopiesFound, Extending
  <2>6. QED
    BY <2>1, <2>2, <2>3, <2>4, <2>5 DEF SameData, IInv, TaskInv, Confirms
<1>4. QED
  BY <1>2, <1>3

\* The source of a rename goes to the trash, or is gone.
LEMMA SourceStep == ASSUME IInv, Source PROVE IInv' /\ Confirms
<1>1. /\ task.pc = "rename_source" /\ task \in TaskSet /\ Pending /\ ~Remote /\ a.op = "rename"
      /\ UNCHANGED <<local, copies, touched, feed, clash, scene, mine, raced, held>>
      /\ task.src \in held[From] /\ (DestinationPending => a.bytes \in held[To])
      /\ hidden' \in [Bytes -> {"none", "fresh", "old"}]
  BY DEF Source, Unchanged, outside, copies, IInv, DataInv, TypeInv, TaskInv, PcInv, RenameInv
<1>p. {"trash", "attend"} \subseteq Pcs
  BY DEF Pcs
<1>2. CASE ~SourcePending \/ task.src = Absent
  <2>1. CompleteRename
    BY <1>1, <1>2 DEF Source
  <2>2. QED
    BY <1>1, <1>2, <2>1, CompletesRename DEF copies
<1>3. CASE SourcePending /\ task.src # Absent
  <2>1. UNCHANGED journal /\ (OnTo("trash", "throw") \/ Afresh("attend"))
    BY <1>1, <1>p, <1>3, TaskTypes DEF Source, Goto, Keep
  <2>2. SameData
    BY <1>1, <1>3, <2>1, DataStays DEF Afresh, Onward, OnTo, copies
  <2>3. PcInv'
    BY <1>1, <1>3, <2>1, <2>2 DEF Afresh, Onward, OnTo, SameData, IInv, TaskInv, PcInv, BaseOf, Extending
  <2>4. HiddenInv'
    BY <1>1, <1>3, <2>1, <2>2 DEF Afresh, Onward, OnTo, SameData, IInv, TaskInv, HiddenInv, Late, Early, copies
  <2>5. SeenInv' /\ RenameInv'
    BY <1>1, <1>3, <2>1, <2>2 DEF Afresh, Onward, OnTo, SameData, IInv, TaskInv, SeenInv, RenameInv, CopiesFound, Extending
  <2>6. QED
    BY <2>1, <2>2, <2>3, <2>4, <2>5 DEF SameData, IInv, TaskInv, Confirms
<1>4. QED
  BY <1>2, <1>3

\* The trash takes what is there.
LEMMA TrashStep == ASSUME IInv, Trash PROVE IInv' /\ Confirms
<1>1. /\ task.pc = "trashing" /\ task \in TaskSet /\ Pending /\ ~Remote
      /\ UNCHANGED <<visible, hidden, journal, touched, feed, clash, scene, mine, raced>>
      /\ local \in [Paths -> B0] /\ held \in [Paths -> SUBSET B0]
      /\ Victim \in Paths /\ Absent \in B0
      /\ SetLocal(Victim, Absent) /\ trash' = trash \cup ({local[Victim]} \ {Absent})
  BY DEF Trash, outside, IInv, DataInv, TypeInv, TaskInv, PcInv, Paths, B0, Victim
<1>2. Onward("trashed")
  <2>1. "trashed" \in Pcs
    BY DEF Pcs
  <2>2. QED
    BY <1>1, <2>1, TaskTypes DEF Trash, Keep
<1>3. /\ local'[Victim] = Absent /\ \A p \in Paths \ {Victim} : local'[p] = local[p]
      /\ held'[Victim] = held[Victim] \cup {Absent} /\ \A p \in Paths \ {Victim} : held'[p] = held[p]
      /\ local' \in [Paths -> B0] /\ held' \in [Paths -> SUBSET B0]
  BY <1>1 DEF SetLocal
<1>4. \A p \in Paths : held[p] \subseteq held'[p]
  BY <1>3
<1>5. /\ a' = a /\ Pending' = Pending /\ Copies' = Copies /\ Remote' = Remote
      /\ Protected' = Protected /\ DestinationPending' = DestinationPending
      /\ FeedBytes' = FeedBytes
  BY <1>1, SameJournal DEF FeedBytes
<1>6. TypeInv'
  BY <1>1, <1>2, <1>3 DEF IInv, DataInv, TypeInv, Onward
<1>7. FeedInv' /\ ApplyInv'
  BY <1>1, <1>5 DEF IInv, DataInv, FeedInv, ApplyInv, BaseOf
<1>8. PlanInv'
  BY <1>1, <1>4, <1>5 DEF IInv, DataInv, PlanInv, BaseOf, Paths
<1>9. KeptInv'
  <2>1. \A p \in Paths : local'[p] \in held'[p]
    BY <1>3 DEF IInv, DataInv, KeptInv
  <2>2. Findable \ {Absent} \subseteq Findable'
    BY <1>1, <1>3, <1>5 DEF Findable, FeedBytes
  <2>3. Absent \notin mine
    BY BinaryAssumption DEF IInv, DataInv, TypeInv
  <2>4. QED
    BY <1>1, <2>1, <2>2, <2>3 DEF IInv, DataInv, KeptInv
<1>10. PcInv'
  BY <1>1, <1>2, <1>5 DEF Onward, IInv, TaskInv, PcInv, BaseOf, Extending
<1>11. HiddenInv'
  BY <1>1, <1>2, <1>5 DEF Onward, IInv, TaskInv, HiddenInv, Late, Early
<1>12. SeenInv'
  BY <1>2 DEF Onward, SeenInv, CopiesFound, Extending
<1>13. RenameInv'
  BY <1>1, <1>2, <1>4, <1>5 DEF Onward, IInv, TaskInv, RenameInv, Paths
<1>14. QED
  BY <1>1, <1>6, <1>7, <1>8, <1>9, <1>10, <1>11, <1>12, <1>13 DEF IInv, DataInv, TaskInv, Confirms

\* What the trash left is read back.
LEMMA TrashedStep == ASSUME IInv, Trashed PROVE IInv' /\ Confirms
<1>1. /\ task.pc = "trashed" /\ task \in TaskSet /\ Pending /\ ~Remote
      /\ a.op \in {"put", "delete", "rename"} /\ task.next \in {"throw", "attend"}
      /\ UNCHANGED <<local, copies, touched, feed, clash, scene, mine, raced, held>>
      /\ local[To] \in held[To] /\ local[From] \in held[From]
      /\ hidden' \in [Bytes -> {"none", "fresh", "old"}]
      /\ a.op = "rename" /\ DestinationPending => a.bytes \in held[To]
  BY DEF Trashed, Unchanged, outside, copies, IInv, DataInv, TypeInv, ApplyInv, KeptInv, TaskInv,
     PcInv, RenameInv, Paths
<1>p. {"throw", "attend", "inline_create"} \subseteq Pcs
  BY DEF Pcs
<1>2. CASE local[Victim] # Absent
  <2>1. UNCHANGED journal /\ (Afresh("throw") \/ Afresh("attend"))
    BY <1>1, <1>p, <1>2, TaskTypes DEF Trashed, Goto, Keep
  <2>2. SameData
    BY <1>1, <1>2, <2>1, DataStays DEF Afresh, Onward, OnTo, copies
  <2>3. PcInv'
    BY <1>1, <1>2, <2>1, <2>2 DEF Afresh, Onward, OnTo, SameData, IInv, TaskInv, PcInv, BaseOf, Extending
  <2>4. HiddenInv'
    BY <1>1, <1>2, <2>1, <2>2 DEF Afresh, Onward, OnTo, SameData, IInv, TaskInv, HiddenInv, Late, Early, copies
  <2>5. SeenInv' /\ RenameInv'
    BY <1>1, <1>2, <2>1, <2>2 DEF Afresh, Onward, OnTo, SameData, IInv, TaskInv, SeenInv, RenameInv, CopiesFound, Extending
  <2>6. QED
    BY <2>1, <2>2, <2>3, <2>4, <2>5 DEF SameData, IInv, TaskInv, Confirms
<1>3. CASE local[Victim] = Absent /\ a.op = "delete"
  <2>1. Complete(Absent) /\ Victim = To
    BY <1>1, <1>3 DEF Trashed, Victim
  <2>2. QED
    BY <1>1, <1>3, <2>1, Completes DEF copies
<1>4. CASE local[Victim] = Absent /\ a.op = "put"
  <2>1. UNCHANGED journal /\ Onward("inline_create")
    BY <1>1, <1>p, <1>4, TaskTypes DEF Trashed, Goto, Keep
  <2>2. SameData
    BY <1>1, <1>4, <2>1, DataStays DEF Afresh, Onward, OnTo, copies
  <2>3. PcInv'
    BY <1>1, <1>4, <2>1, <2>2 DEF Afresh, Onward, OnTo, SameData, IInv, TaskInv, PcInv, BaseOf, Extending
  <2>4. HiddenInv'
    BY <1>1, <1>4, <2>1, <2>2 DEF Afresh, Onward, OnTo, SameData, IInv, TaskInv, HiddenInv, Late, Early, copies
  <2>5. SeenInv' /\ RenameInv'
    BY <1>1, <1>4, <2>1, <2>2 DEF Afresh, Onward, OnTo, SameData, IInv, TaskInv, SeenInv, RenameInv, CopiesFound, Extending
  <2>6. QED
    BY <2>1, <2>2, <2>3, <2>4, <2>5 DEF SameData, IInv, TaskInv, Confirms
<1>5. CASE local[Victim] = Absent /\ a.op = "rename"
  <2>1. CompleteRename /\ Victim = From
    BY <1>1, <1>5 DEF Trashed, Victim
  <2>2. QED
    BY <1>1, <1>5, <2>1, CompletesRename DEF copies
<1>6. QED
  BY <1>1, <1>2, <1>3, <1>4, <1>5

\* The device starts with what it last confirmed.
LEMMA InitInv == ASSUME Init PROVE IInv
<1>1. /\ local \in [Paths -> B0] /\ visible = <<>> /\ hidden = [b \in Bytes |-> "none"]
      /\ task = Idle /\ held = [p \in Paths |-> {local[p]}] /\ trash = {} /\ raced = {}
      /\ mine = {local[p] : p \in Paths} \ {Absent} /\ (clash => scene = "plain")
      /\ journal = [base |-> [p \in Paths |-> [rev |-> HeadOf(p), bytes |-> ContentAt(p, HeadOf(p))]],
                    apply |-> NoApply, cursor |-> Len(feed)]
  BY DEF Init, B0
<1>2. /\ feed \in Seq(RowSet) /\ Len(feed) \in 0..1
      /\ \A v \in DOMAIN feed :
           /\ feed[v].op \in {"put", "source"} /\ feed[v].bytes \in Bytes
           /\ feed[v].op = "source" => scene = "rename"
           /\ v <= Len(feed)
  <2>1. CASE feed = <<>>
    BY <2>1
  <2>2. CASE feed # <<>>
    <3>1. PICK b \in Bytes :
            feed = <<[op |-> IF scene = "rename" THEN "source" ELSE "put", bytes |-> b, kind |-> "blob"]>>
      BY <2>2 DEF Init
    <3> DEFINE row == [op |-> IF scene = "rename" THEN "source" ELSE "put", bytes |-> b, kind |-> "blob"]
    <3>2. /\ row \in RowSet /\ row.op \in {"put", "source"} /\ row.bytes \in Bytes
          /\ row.op = "source" => scene = "rename"
      BY DEF RowSet, B0
    <3> HIDE DEF row
    <3>3. feed = <<row>>
      BY <3>1 DEF row
    <3>4. QED
      BY <3>2, <3>3
  <2>3. QED
    BY <2>1, <2>2
<1>3. \A p \in Paths :
        /\ HeadOf(p) \in Nat
        /\ ContentAt(p, HeadOf(p)) \in B0 /\ ContentAt(p, HeadOf(p)) \in {Absent} \cup FeedBytes
  <2> SUFFICES ASSUME NEW p \in Paths
               PROVE  /\ HeadOf(p) \in Nat
                      /\ ContentAt(p, HeadOf(p)) \in B0
                      /\ ContentAt(p, HeadOf(p)) \in {Absent} \cup FeedBytes
    OBVIOUS
  <2> DEFINE v == HeadOf(p)
  <2>1. v \in Nat /\ v \in Revisions(p)
    BY <1>2, HeadIsRevision
  <2> HIDE DEF v
  <2>2. v # 0 => v \in DOMAIN feed
    BY <2>1 DEF Revisions
  <2>3. QED
    BY <1>2, <2>1, <2>2 DEF v, ContentAt, FeedBytes, B0
<1>4. /\ journal \in JournalSet /\ journal.apply = NoApply /\ journal.cursor = Len(feed)
      /\ \A p \in Paths : BaseOf(p).bytes \in {Absent} \cup FeedBytes
  <2> DEFINE base == [p \in Paths |-> [rev |-> HeadOf(p), bytes |-> ContentAt(p, HeadOf(p))]]
  <2>1. base \in BaseSet /\ \A p \in Paths : base[p].bytes \in {Absent} \cup FeedBytes
    BY <1>3 DEF BaseSet
  <2> HIDE DEF base
  <2>2. journal = [base |-> base, apply |-> NoApply, cursor |-> Len(feed)]
    BY <1>1 DEF base
  <2>3. Len(feed) \in Nat /\ NoApply \in ApplySet
    BY <1>2, NoApplyTypes
  <2>4. QED
    BY <2>1, <2>2, <2>3 DEF JournalSet, BaseOf
<1>5. ~Pending /\ a.plan = <<>> /\ Copies = {} /\ ~Remote /\ a.op = "none"
  BY <1>4, NoApplyTypes DEF Pending, a, Copies, Remote
<1>6. task \in TaskSet /\ task.pc = "idle"
  BY <1>1, IdleTypes, AtTypes
<1>7. TypeInv
  <2>1. held \in [Paths -> SUBSET B0] /\ mine \subseteq Bytes
    BY <1>1 DEF B0
  <2>2. DOMAIN visible = {} /\ hidden \in [Bytes -> {"none", "fresh", "old"}]
    BY <1>1
  <2>3. QED
    BY <1>1, <1>2, <1>4, <1>6, <2>1, <2>2 DEF TypeInv
<1>8. FeedInv
  BY <1>1, <1>2, <1>4, BinaryAssumption DEF FeedInv
<1>9. ApplyInv /\ PlanInv
  BY <1>1, <1>5 DEF ApplyInv, PlanInv
<1>10. KeptInv
  BY <1>1 DEF KeptInv, Findable
<1>11. TaskInv
  BY <1>5, <1>6 DEF TaskInv, PcInv, HiddenInv, SeenInv, RenameInv, Extending, Late, Early, CopiesFound
<1>12. QED
  BY <1>7, <1>8, <1>9, <1>10, <1>11 DEF IInv, DataInv

\* A step that leaves the journal alone confirms nothing.
LEMMA JournalKept == ASSUME journal' = journal PROVE Confirms
BY DEF Confirms

\* Every step keeps the invariant, and confirms what the device held.
LEMMA EveryStep == ASSUME IInv, [Next]_vars PROVE IInv' /\ Confirms
<1>1. CASE UNCHANGED vars
  <2>1. UNCHANGED <<local, copies, journal, task, touched, feed, clash, scene, mine, raced, held>>
    BY <1>1 DEF vars, outside
  <2>2. DataInv'
    BY <2>1, TaskStep DEF IInv, DataInv, TypeInv
  <2>3. SeenInv'
    BY <2>1, SameJournal, SameKept DEF IInv, TaskInv, SeenInv, CopiesFound, Extending, Clean, BaseOf, copies
  <2>4. QED
    BY <2>1, <2>2, <2>3, TaskStays, JournalKept DEF IInv, TaskInv, copies
<1>2. CASE Start
  BY <1>2, StartStep
<1>3. CASE Resume \/ Advance \/ Stop
  BY <1>3, ResumeStep, AdvanceStep, StopStep, JournalKept DEF Stop
<1>4. CASE PlanStep
  BY <1>4, CheckPlanStep, KeepCopyStep, MakeCopyStep, NoCopyStep, PlanCopiedStep, JournalKept
     DEF PlanStep, CheckPlan
<1>5. CASE Rebase \/ Fetched \/ Look \/ Second \/ Covered
  BY <1>5, RebaseStep, FetchedStep, LookStep, SecondStep, CoveredStep
<1>6. CASE Extended \/ LastLook \/ Modify \/ Write \/ Create \/ ReadBack \/ Copied
  BY <1>6, ExtendedStep, LastLookStep, ModifyStep, WriteStep, CreateStep, ReadBackStep, CopiedStep,
     JournalKept DEF Extended
<1>7. CASE TrashLook \/ ConflictLook \/ TrashGuard \/ Trash \/ Trashed
  BY <1>7, TrashLookStep, ConflictLookStep, TrashGuardStep, TrashStep, TrashedStep, JournalKept
     DEF TrashLook, TrashGuard
<1>8. CASE InlineLook \/ Inline \/ InlineFetched \/ InlineReplace \/ InlineCreate
  BY <1>8, InlineLookStep, InlineStep, InlineFetchedStep, InlineReplaceStep, InlineCreateStep,
     JournalKept DEF InlineReplace
<1>9. CASE Rename \/ RenameFetched \/ RenameGuard \/ Move \/ Moved
  BY <1>9, RenameStep, RenameFetchedStep, RenameGuardStep, MoveStep, MovedStep, JournalKept
     DEF RenameFetched, RenameGuard
<1>10. CASE FinishFetched \/ Destination \/ Source
  BY <1>10, FinishFetchedStep, DestinationStep, SourceStep, JournalKept DEF FinishFetched, Destination
<1>11. CASE RemoteWrites \/ UserEditsCopy \/ UserAddsClash \/ WeekPasses \/ Interrupted
  BY <1>11, RemoteWritesStep, UserEditsCopyStep, UserAddsClashStep, WeekPassesStep, InterruptedStep,
     JournalKept DEF RemoteWrites, UserEditsCopy, UserAddsClash, WeekPasses, Interrupted
<1>12. CASE UserEdit(From) \/ UserEdit(To)
  <2>1. From \in Paths /\ To \in Paths
    BY DEF Paths
  <2>2. QED
    BY <1>12, <2>1, UserEditStep, JournalKept DEF UserEdit
<1>13. QED
  BY <1>1, <1>2, <1>3, <1>4, <1>5, <1>6, <1>7, <1>8, <1>9, <1>10, <1>11, <1>12 DEF Next, EngineStep

-----------------------------------------------------------------------------
(* The theorems.                                                            *)

\* The invariant, which every step of the engine, the user, the other writers and time keeps.
THEOREM Invariance == Spec => []IInv
<1>1. IInv /\ [Next]_vars => IInv'
  BY EveryStep
<1>2. QED
  BY InitInv, <1>1, PTL DEF Spec

\* The state is well typed: no step leaves the vocabulary of the journal, whose plan
\* names copies of bytes only.  (device-state.ts, the pending apply's schema)
THEOREM TypeCorrect == Spec => []TypeInv
<1>1. IInv => TypeInv
  BY DEF IInv, DataInv
<1>2. QED
  BY Invariance, <1>1, PTL

\* No bytes that the user saved are lost but in the window between the last look and the
\* write, or with a copy he changed meanwhile; and what a write takes has a fresh recovery copy.  (extendBinaryRecovery,
\* applyBlobChange, finishBinaryRename)
THEOREM BytesKept == Spec => []NoBytesLost
<1>1. IInv => NoBytesLost
  BY DEF IInv, DataInv, KeptInv, TaskInv, HiddenInv, NoBytesLost
<1>2. QED
  BY Invariance, <1>1, PTL

\* The journal confirms only what the path held since the apply began.  (completeApply,
\* completeRenameApply)
THEOREM ConfirmedOnlyHeld == Spec => BaseConfirmed
<1>1. IInv /\ [Next]_vars =>
        [\A p \in Paths : journal'.base[p] # journal.base[p] => journal'.base[p].bytes \in held[p]]_vars
  BY EveryStep DEF Confirms
<1>2. QED
  BY Invariance, <1>1, PTL DEF Spec, BaseConfirmed

=============================================================================
