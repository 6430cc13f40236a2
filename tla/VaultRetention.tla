---------------------------- MODULE VaultRetention ----------------------------
(***************************************************************************)
(* SqliteRetentionStore: one alarm batch deletes the oldest rows of the     *)
(* first category, in a durable cyclic order, that has rows to delete.      *)
(* Logical payload bytes are counted as rows.                               *)
(***************************************************************************)
EXTENDS VaultFiles, AdmissionLedger

CONSTANTS
  FloorAge,      \* revisions younger than this always stay: 7 days
  HistoryLimit,  \* history rows over which revisions go early: 1 GB
  FeedBatch,     \* feed rows per batch: 64
  RowBatch       \* composite-key rows per batch: 49

ASSUME RetentionAssumption ==
  /\ FloorAge \in Nat /\ FloorAge <= Retention
  /\ HistoryLimit \in Nat
  /\ FeedBatch \in Nat \ {0} /\ RowBatch \in Nat \ {0}

VARIABLES
  category,    \* meta.retention_category
  prunedFeed,  \* meta.retention_pruned_feed_seq
  reduced      \* meta.history_reduced

retentionVars == <<category, prunedFeed, reduced>>

Categories == <<"changes", "receipts", "ordinary_revisions", "pressure_revisions">>
CategorySet == {Categories[n] : n \in 1..4}
Position(cat) == CHOOSE n \in 1..4 : Categories[n] = cat
NextAfter(cat) == Categories[(Position(cat) % 4) + 1]

InitRetention ==
  /\ category = "changes"
  /\ prunedFeed = 0
  /\ reduced = FALSE

\* meta.history_pressure_bytes.
HistoryRows == Cardinality(revisions) + Cardinality(receipts) + Cardinality(changes)

Unpinned(v, pins) == [path |-> v.path, rev |-> v.rev] \notin pins

\* Mutant: pressure takes pinned revisions too.
Due_PressureIgnoresPins(cat, pins) ==
  CASE cat = "changes"  -> {c \in changes : c.at < now - Retention}
    [] cat = "receipts" -> {x \in receipts : x.at < now - Retention}
    [] cat = "ordinary_revisions" ->
         {v \in revisions : v.at < now - Retention /\ Unpinned(v, pins)}
    [] cat = "pressure_revisions" ->
         IF HistoryRows > HistoryLimit THEN {v \in revisions : v.at < now - FloorAge}
         ELSE {}

\* The rows of a category that are old enough.  export_pins, given as pins,
\* keep revisions, whatever their age and the pressure.
Due(cat, pins) ==
  CASE cat = "changes"  -> {c \in changes : c.at < now - Retention}
    [] cat = "receipts" -> {x \in receipts : x.at < now - Retention}
    [] cat = "ordinary_revisions" ->
         {v \in revisions : v.at < now - Retention /\ Unpinned(v, pins)}
    [] cat = "pressure_revisions" ->
         IF HistoryRows > HistoryLimit
         THEN {v \in revisions : v.at < now - FloorAge /\ Unpinned(v, pins)}
         ELSE {}

\* How many of them one batch deletes: relieving the pressure ends a batch.
BatchSize(cat) ==
  CASE cat = "changes" -> FeedBatch
    [] cat = "pressure_revisions" ->
         IF HistoryRows - HistoryLimit < RowBatch
         THEN HistoryRows - HistoryLimit ELSE RowBatch
    [] OTHER -> RowBatch

\* The oldest BatchSize due rows: the feed is read by sequence, the rest by time.
Batches(cat, pins) ==
  LET Age(x) == IF cat = "changes" THEN x.seq ELSE x.at
      due    == Due(cat, pins)
      size   == IF Cardinality(due) < BatchSize(cat)
                THEN Cardinality(due) ELSE BatchSize(cat)
  IN {b \in SUBSET due : /\ Cardinality(b) = size
                         /\ \A x \in b, y \in due \ b : Age(x) <= Age(y)}

\* The categories from the cursor on, wrapping, up to but excluding cat.
Skipped(cat) ==
  {Categories[n] : n \in {m \in 1..4 :
     (m + 4 - Position(category)) % 4 < (Position(cat) + 4 - Position(category)) % 4}}

IsTurnOf(cat, pins) ==
  /\ Due(cat, pins) # {}
  /\ \A other \in Skipped(cat) : Due(other, pins) = {}

\* Mutant: the boundary is the first deleted sequence instead of the last.
DeleteBatch_FirstBoundary(cat, batch, pins) ==
  /\ changes'   = changes \ (IF cat = "changes" THEN batch ELSE {})
  /\ receipts'  = receipts \ (IF cat = "receipts" THEN batch ELSE {})
  /\ revisions' = revisions \ (IF cat \in {"ordinary_revisions", "pressure_revisions"}
                               THEN batch ELSE {})
  /\ prunedFeed' = IF cat # "changes" THEN prunedFeed
                   ELSE CHOOSE b \in {c.seq : c \in batch} : \A c \in batch : b <= c.seq
  /\ reduced' = (reduced \/ cat = "pressure_revisions")
  /\ category' = IF Due(cat, pins)' # {} THEN cat ELSE NextAfter(cat)

\* deleteCategory and the cursor it leaves.
DeleteBatch(cat, batch, pins) ==
  /\ changes'   = changes \ (IF cat = "changes" THEN batch ELSE {})
  /\ receipts'  = receipts \ (IF cat = "receipts" THEN batch ELSE {})
  /\ revisions' = revisions \ (IF cat \in {"ordinary_revisions", "pressure_revisions"}
                               THEN batch ELSE {})
  /\ prunedFeed' = IF cat # "changes" THEN prunedFeed
                   ELSE CHOOSE b \in {prunedFeed} \cup {c.seq + 1 : c \in batch} :
                          \A d \in {prunedFeed} \cup {c.seq + 1 : c \in batch} : d <= b
  /\ reduced' = (reduced \/ cat = "pressure_revisions")
  /\ category' = IF Due(cat, pins)' # {} THEN cat ELSE NextAfter(cat)

\* runBatch with the revisions that exports have pinned.
RunBatch(pins) ==
  /\ UNCHANGED <<files, head, liveCount, now, admissions, claims, revoked>>
  /\ \/ \E cat \in CategorySet :
          /\ IsTurnOf(cat, pins)
          /\ \E batch \in Batches(cat, pins) : DeleteBatch(cat, batch, pins)
     \/ /\ \A cat \in CategorySet : Due(cat, pins) = {}
        /\ category' = "changes"
        /\ UNCHANGED <<changes, receipts, revisions, prunedFeed, reduced>>

\* runBatch's more: another alarm one minute later rather than at night.
More(pins) == \E cat \in CategorySet : Due(cat, pins) # {}

-----------------------------------------------------------------------------
\* Nothing younger than the floor is ever deleted, a pinned revision never is,
\* and the reduction flag is raised by every early deletion.
RetentionKeepsPromises(pins) ==
  /\ \A v \in revisions \ revisions' :
       /\ v.at < now - FloorAge /\ Unpinned(v, pins)
       /\ v.at < now - Retention \/ reduced'
  /\ \A c \in changes \ changes' : c.at < now - Retention /\ c.seq < prunedFeed'
  /\ \A x \in receipts \ receipts' : x.at < now - Retention

=============================================================================
