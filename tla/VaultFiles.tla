------------------------------ MODULE VaultFiles ------------------------------
(***************************************************************************)
(* The file tables of one vault's SQLite authority: current rows (`files'), *)
(* retained `revisions', the `changes' feed and the counters in `meta'.     *)
(* A file's text is a sequence of tokens, so that an append that is lost,   *)
(* repeated or applied to stale text is visible in the text itself.  The    *)
(* bytes, hashes, sizes, ETag spelling and the full-text index are left     *)
(* out; the vault epoch never changes in this version of the service, so an *)
(* ETag is a revision number.                                               *)
(***************************************************************************)
EXTENDS Integers, Sequences, FiniteSets

CONSTANTS
  Paths,      \* vault paths
  PathKey,    \* the case-folded key of a path: aliases share it
  Tokens,     \* the units of text a client writes
  MaxText,    \* the largest text the service accepts (1 000 000 bytes)
  LiveLimit,  \* capacity: live files at which new content is refused
  NoPath      \* SQL NULL in renamed_to and from_path

ASSUME PathsAssumption == NoPath \notin Paths
ASSUME PathKeyAssumption == DOMAIN PathKey = Paths
ASSUME LimitsAssumption == MaxText \in Nat /\ LiveLimit \in Nat

VARIABLES
  files,      \* [Paths -> row]; rev = 0 stands for "no row"
  revisions,  \* retained revision rows
  changes,    \* retained feed rows
  head,       \* meta.head_seq
  liveCount   \* meta.live_file_count

fileVars == <<files, revisions, changes, head, liveCount>>

Text == Seq(Tokens)

FileRow == [rev: Nat, seq: Nat, deleted: BOOLEAN, text: Text,
            renamedTo: Paths \cup {NoPath}]
RevisionRow == [path: Paths, rev: Nat, deleted: BOOLEAN, text: Text, at: Nat]
ChangeOps == {"put", "delete", "rename"}
ChangeRow == [seq: Nat, op: ChangeOps, path: Paths, rev: Nat,
              fromPath: Paths \cup {NoPath}, fromRev: Nat, at: Nat]

(***************************************************************************)
(* A client's intent.  `pre' is the precondition kind and `rev' the         *)
(* revision of its ETag; `to' is a rename's destination, `sourceRev' and    *)
(* `copy' are a restore's body.                                             *)
(***************************************************************************)
Ops == {"put", "delete", "append", "rename", "restore"}
Intent == [op: Ops, path: Paths, to: Paths \cup {NoPath},
           pre: {"absent", "match", "none"}, rev: Nat,
           text: Text, sourceRev: Nat, copy: BOOLEAN]

\* What the schema lets through: which preconditions each operation may have,
\* and that only a rename has a second path, different from the first.
WellFormed(i) ==
  /\ i.op = "put"    => i.pre \in {"absent", "match"}
  /\ i.op = "append" => i.pre \in {"none", "match"}
  /\ i.op \in {"delete", "rename", "restore"} => i.pre = "match"
  /\ i.op = "rename" <=> i.to # NoPath
  /\ i.to # i.path

-----------------------------------------------------------------------------
NoRow == [rev |-> 0, seq |-> 0, deleted |-> TRUE, text |-> <<>>,
          renamedTo |-> NoPath]

HasRow(p) == files[p].rev > 0
Live(p) == ~files[p].deleted
LivePaths == {p \in Paths : Live(p)}

\* The other live paths that a case-insensitive file system cannot tell from p.
Aliases(p) == {q \in LivePaths \ {p} : PathKey[q] = PathKey[p]}

\* assertPreconditionsInTransaction: the refusal, or "none".
PreconditionFailure(i) ==
  CASE i.pre = "match" ->
         IF ~HasRow(i.path) \/ files[i.path].rev # i.rev
         THEN "precondition_failed"
         ELSE IF i.op = "put" /\ ~Live(i.path) /\ Aliases(i.path) # {}
              THEN "path_collision" ELSE "none"
    [] i.pre = "absent" ->
         IF Aliases(i.path) # {} THEN "path_collision"
         ELSE IF Live(i.path) THEN "precondition_failed" ELSE "none"
    [] i.pre = "none" -> "none"

\* SqliteCapacityPolicy.assertCanPublish, for the live-file limit.
AtCapacity(i) == i.op # "delete" /\ Cardinality(LivePaths) >= LiveLimit

-----------------------------------------------------------------------------
\* The retained revision a restore names, if it is still there.
RestoreSources(i) == {v \in revisions : v.path = i.path /\ v.rev = i.sourceRev}

\* Mutant: a restore does not look for a live alias of its path.
PublishFailure_NoAliasCheck(i) ==
  CASE i.op = "rename" -> IF ~Live(i.path) THEN "tombstone"
                          ELSE IF Live(i.to) THEN "path_collision" ELSE "none"
    [] i.op = "restore" -> IF RestoreSources(i) = {} THEN "revision_pruned" ELSE "none"
    [] OTHER -> "none"

\* What publishRename and publishRestore refuse by throwing, which rolls the
\* whole commit back, the consumed ticket included.
PublishFailure(i) ==
  CASE i.op = "rename" ->
         IF ~Live(i.path) THEN "tombstone"
         ELSE IF Live(i.to) \/ Aliases(i.to) \ {i.path} # {}
              THEN "path_collision" ELSE "none"
    [] i.op = "restore" ->
         IF RestoreSources(i) = {} THEN "revision_pruned"
         ELSE IF \E v \in RestoreSources(i) : v.deleted THEN "invalid_request"
         ELSE IF Live(i.path) /\ ~i.copy THEN "path_occupied"
         ELSE IF Aliases(i.path) # {} THEN "path_collision" ELSE "none"
    [] OTHER -> "none"

\* The text that publishing the intent leaves at its (destination) path.
\* `base' is the text an append was computed from.
PublishedText(i, base) ==
  CASE i.op = "put"     -> i.text
    [] i.op = "append"  -> base \o i.text
    [] i.op = "rename"  -> files[i.path].text
    [] i.op = "restore" -> (CHOOSE v \in RestoreSources(i) : TRUE).text
    [] i.op = "delete"  -> <<>>

Target(i) == IF i.op = "rename" THEN i.to ELSE i.path

\* Mutant: numbering restarts after a tombstone.
WrittenRow_RestartsRevision(i, p, base) ==
  [rev |-> IF Live(p) THEN files[p].rev + 1 ELSE 1, seq |-> head + 1,
   deleted |-> i.op = "delete" \/ p # Target(i),
   text |-> IF p = Target(i) THEN PublishedText(i, base) ELSE <<>>, renamedTo |-> NoPath]

\* The rows one publication writes: the target, and a rename's tombstone.
\* Revision numbers go on from a tombstone's.
WrittenRow(i, p, base) ==
  [rev       |-> files[p].rev + 1,
   seq       |-> head + 1,
   deleted   |-> i.op = "delete" \/ p # Target(i),
   text      |-> IF p = Target(i) THEN PublishedText(i, base) ELSE <<>>,
   renamedTo |-> IF p = Target(i) THEN NoPath ELSE i.to]

Written(i) == {i.path, Target(i)}

LiveDelta(i) ==
  CASE i.op = "rename" -> 0
    [] i.op = "delete" -> IF Live(i.path) THEN -1 ELSE 0
    [] OTHER           -> IF Live(i.path) THEN 0 ELSE 1

\* publishText, publishRename, publishRestore and publishTextCommand at time t.
Publish(i, base, t) ==
  /\ files' = [p \in Paths |->
                 IF p \in Written(i) THEN WrittenRow(i, p, base) ELSE files[p]]
  /\ revisions' = revisions \cup
       {LET row == WrittenRow(i, p, base)
        IN [path |-> p, rev |-> row.rev, deleted |-> row.deleted,
            text |-> row.text, at |-> t] : p \in Written(i)}
  /\ changes' = changes \cup
       {[seq |-> head + 1,
         op  |-> IF i.op \in {"delete", "rename"} THEN i.op ELSE "put",
         path |-> Target(i), rev |-> files[Target(i)].rev + 1,
         fromPath |-> IF i.op = "rename" THEN i.path ELSE NoPath,
         fromRev |-> IF i.op = "rename" THEN files[i.path].rev + 1 ELSE 0, at |-> t]}
  /\ head' = head + 1
  /\ liveCount' = liveCount + LiveDelta(i)

FilesInit ==
  /\ files = [p \in Paths |-> NoRow]
  /\ revisions = {}
  /\ changes = {}
  /\ head = 0
  /\ liveCount = 0

FilesTypeOK ==
  /\ files \in [Paths -> FileRow]
  /\ revisions \subseteq RevisionRow
  /\ changes \subseteq ChangeRow
  /\ head \in Nat
  /\ liveCount \in Int

-----------------------------------------------------------------------------
(* What the file tables promise, whoever writes them.                       *)

\* Two live files never have names that a case-insensitive device cannot keep
\* apart, whichever of put, rename and restore created them.
NoLiveAliases == \A p \in LivePaths : Aliases(p) = {}

\* The tables agree with each other, whatever put, delete, append, rename, restore and
\* retention did in turn: meta.live_file_count, which only ever moves by deltas, is the
\* number of live rows; head_seq bounds every row, and a file row is never older than a
\* feed row of its path, so that a device can order manifest rows against feed rows; no
\* two publications share a revision of a path or a feed sequence, and no retained
\* revision is newer than the current row.
LiveCountExact == liveCount = Cardinality(LivePaths)
FeedFollowsFiles ==
  /\ \A p \in Paths : files[p].seq <= head
  /\ \A c \in changes :
       /\ c.seq <= files[c.path].seq
       /\ c.seq = files[c.path].seq <=> c.rev = files[c.path].rev
RevisionsUnique ==
  /\ \A v, w \in revisions : v.path = w.path /\ v.rev = w.rev => v = w
  /\ \A v \in revisions : v.rev <= files[v.path].rev
  /\ \A c, d \in changes : c.seq = d.seq => c = d
TablesAgree == LiveCountExact /\ FeedFollowsFiles /\ RevisionsUnique

=============================================================================
