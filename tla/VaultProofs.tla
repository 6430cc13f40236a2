------------------------------ MODULE VaultProofs ------------------------------
(***************************************************************************)
(* Theorems about the vault's tables, for any requests, paths, keys,        *)
(* orders, page and batch sizes, pins, limits and clocks: what one          *)
(* publication and one retention batch do to the file tables, then the      *)
(* theorems about VaultAuthority, and those about VaultHistory and          *)
(* VaultReads.                                                              *)
(***************************************************************************)
EXTENDS VaultAuthority, VaultReads, FiniteSetTheorems, WellFoundedInduction, TLAPS

-----------------------------------------------------------------------------
(* Least and greatest numbers of a set.                                     *)

\* A set of numbers that is not empty has a least one.
LEMMA LeastNumber ==
  ASSUME NEW S, S \subseteq Nat, S # {}
  PROVE  \E m \in S : \A n \in S : m <= n
<1> DEFINE Less == {ss \in Nat \X Nat : ss[1] < ss[2]}
<1>1. IsWellFoundedOn(Less, Nat)
  BY NatLessThanWellFounded DEF OpToRel
<1> HIDE DEF Less
<1>2. PICK m \in S : \A n \in S : <<n, m>> \notin Less
  BY <1>1, WFMin
<1>3. \A n \in S : ~(n < m)
  BY <1>2 DEF Less
<1>4. QED
  BY <1>3

\* A set of numbers that is bounded and not empty has a greatest one.
LEMMA GreatestNumber ==
  ASSUME NEW S, S \subseteq Nat, S # {}, NEW k \in Nat, \A n \in S : n <= k
  PROVE  \E m \in S : \A n \in S : n <= m
<1> DEFINE Bounds == {b \in Nat : \A n \in S : n <= b}
<1>1. PICK m \in Bounds : \A b \in Bounds : m <= b
  <2>1. Bounds \subseteq Nat /\ k \in Bounds
    OBVIOUS
  <2>2. QED
    BY <2>1, LeastNumber
<1>2. m \in S
  <2> SUFFICES ASSUME m \notin S PROVE FALSE
    OBVIOUS
  <2>1. PICK n \in S : TRUE
    OBVIOUS
  <2>2. \A o \in S : o \in Nat /\ o <= m /\ o # m
    BY <1>1
  <2>3. m \in Nat /\ m > 0
    BY <1>1, <2>1, <2>2
  <2>4. m - 1 \in Bounds
    BY <2>2, <2>3
  <2>5. QED
    BY <1>1, <2>3, <2>4
<1>3. QED
  BY <1>1, <1>2

-----------------------------------------------------------------------------
(* One publication.                                                         *)

\* An intent that passed the checks of its commit.
Admitted(i) ==
  /\ i \in Intent /\ WellFormed(i)
  /\ PreconditionFailure(i) = "none" /\ PublishFailure(i) = "none"
  /\ i.op = "append" => Live(i.path)

\* Which rows a publication changes.
LEMMA PublishedRows ==
  ASSUME FilesTypeOK, NEW i, Admitted(i), NEW base, NEW t, Publish(i, base, t)
  PROVE  /\ i.path \in Paths /\ Target(i) \in Paths
         /\ \A p \in Paths \ Written(i) : files'[p] = files[p]
         /\ \A p \in Written(i) :
              /\ p \in Paths
              /\ files'[p].rev = files[p].rev + 1 /\ files'[p].seq = head + 1
              /\ files'[p].deleted = (i.op = "delete" \/ p # Target(i))
         /\ head' = head + 1
<1>1. i.path \in Paths /\ Target(i) \in Paths
  BY DEF Admitted, Intent, WellFormed, Target
<1>2. Written(i) \subseteq Paths
  BY <1>1 DEF Written
<1>3. \A p \in Paths : files'[p] = IF p \in Written(i) THEN WrittenRow(i, p, base) ELSE files[p]
  BY DEF Publish
<1>4. QED
  BY <1>1, <1>2, <1>3 DEF WrittenRow, Publish

\* The text that is published is a text.
LEMMA PublishedTextIsText ==
  ASSUME FilesTypeOK, NEW i, Admitted(i), NEW base \in Text
  PROVE  PublishedText(i, base) \in Text
<1>1. CASE i.op = "append"
  <2>1. i.text \in Seq(Tokens)
    BY DEF Admitted, Intent, Text
  <2>2. base \o i.text \in Seq(Tokens)
    BY <2>1 DEF Text
  <2>3. QED
    BY <1>1, <2>2 DEF PublishedText, Text
<1>2. CASE i.op = "restore"
  <2>1. RestoreSources(i) # {}
    BY <1>2 DEF Admitted, PublishFailure
  <2>2. (CHOOSE v \in RestoreSources(i) : TRUE) \in RevisionRow
    BY <2>1 DEF RestoreSources, FilesTypeOK
  <2>3. QED
    BY <1>2, <2>2 DEF PublishedText, RevisionRow
<1>3. CASE i.op = "rename"
  BY <1>3 DEF PublishedText, Admitted, Intent, FilesTypeOK, FileRow
<1>4. CASE i.op = "put"
  BY <1>4 DEF PublishedText, Admitted, Intent
<1>5. CASE i.op = "delete"
  BY <1>5 DEF PublishedText, Text
<1>6. QED
  BY <1>1, <1>2, <1>3, <1>4, <1>5 DEF Admitted, Intent, Ops

\* Publishing keeps the types of the tables.
LEMMA PublishTypes ==
  ASSUME FilesTypeOK, NEW i, Admitted(i), NEW base \in Text, NEW t \in Nat, Publish(i, base, t)
  PROVE  FilesTypeOK'
<1>1. /\ i.op \in Ops /\ i.path \in Paths /\ Target(i) \in Paths
      /\ (i.op = "rename" => i.to \in Paths) /\ i.to \in Paths \cup {NoPath}
  BY DEF Admitted, Intent, WellFormed, Target
<1>2. PublishedText(i, base) \in Text
  BY PublishedTextIsText
<1>3. <<>> \in Text
  BY DEF Text
<1>4. \A p \in Written(i) : WrittenRow(i, p, base) \in FileRow /\ p \in Paths
  <2> SUFFICES ASSUME NEW p \in Written(i)
               PROVE  WrittenRow(i, p, base) \in FileRow /\ p \in Paths
    OBVIOUS
  <2>1. p \in Paths /\ files[p].rev \in Nat /\ head \in Nat
    BY <1>1 DEF Written, FilesTypeOK, FileRow
  <2>2. p # Target(i) => i.to \in Paths
    BY <1>1 DEF Written, Target
  <2>3. QED
    BY <1>1, <1>2, <1>3, <2>1, <2>2 DEF WrittenRow, FileRow
<1>5. files' \in [Paths -> FileRow]
  BY <1>4 DEF Publish, FilesTypeOK
<1>6. revisions' \subseteq RevisionRow
  BY <1>4 DEF Publish, FilesTypeOK, RevisionRow, FileRow
<1>7. changes' \subseteq ChangeRow
  <2>1. files[Target(i)].rev \in Nat /\ files[i.path].rev \in Nat /\ head \in Nat
    BY <1>1 DEF FilesTypeOK, FileRow
  <2>2. QED
    BY <1>1, <2>1 DEF Publish, FilesTypeOK, ChangeRow, ChangeOps
<1>8. head' \in Nat /\ liveCount' \in Int
  BY <1>1 DEF Publish, FilesTypeOK, LiveDelta
<1>9. QED
  BY <1>5, <1>6, <1>7, <1>8 DEF FilesTypeOK

\* Every operation that makes a path live has looked for its live aliases.
LEMMA PublishKeepsApart ==
  ASSUME FilesTypeOK, NoLiveAliases, NEW i, Admitted(i), NEW base, NEW t, Publish(i, base, t)
  PROVE  NoLiveAliases'
<1>1. /\ i.path \in Paths /\ Target(i) \in Paths
      /\ \A p \in Paths \ Written(i) : files'[p] = files[p]
      /\ \A p \in Written(i) : files'[p].deleted = (i.op = "delete" \/ p # Target(i))
  BY PublishedRows
<1>2. i.op \in Ops
  BY DEF Admitted, Intent
<1>3. i.op # "delete" => \A q \in Paths \ Written(i) : Live(q) => PathKey[q] # PathKey[Target(i)]
  <2>1. CASE i.op = "rename"
    BY <2>1, <1>1 DEF Admitted, PublishFailure, Aliases, LivePaths, Target, Written
  <2>2. CASE i.op \in {"put", "restore"}
    <3>1. Live(i.path) \/ Aliases(i.path) = {}
      BY <2>2 DEF Admitted, WellFormed, PreconditionFailure, PublishFailure
    <3>2. QED
      BY <2>2, <3>1, <1>1 DEF NoLiveAliases, Aliases, LivePaths, Target, Written
  <2>3. CASE i.op = "append"
    BY <2>3, <1>1 DEF Admitted, NoLiveAliases, Aliases, LivePaths, Target, Written
  <2>4. QED
    BY <1>2, <2>1, <2>2, <2>3 DEF Ops
<1>4. \A p \in Paths : Live(p)' => (p = Target(i) /\ i.op # "delete") \/ (p \notin Written(i) /\ Live(p))
  BY <1>1 DEF Live
<1>5. QED
  BY <1>3, <1>4 DEF NoLiveAliases, Aliases, LivePaths

\* Live files are counted, whichever operation makes or ends them.
LiveCounted == IsFiniteSet(LivePaths) /\ LiveCountExact

LEMMA PublishCounts ==
  ASSUME FilesTypeOK, LiveCounted, NEW i, Admitted(i), NEW base, NEW t, Publish(i, base, t)
  PROVE  LiveCounted'
<1>1. /\ i.path \in Paths /\ Target(i) \in Paths
      /\ \A p \in Paths \ Written(i) : files'[p] = files[p]
      /\ \A p \in Written(i) : files'[p].deleted = (i.op = "delete" \/ p # Target(i))
  BY PublishedRows
<1>2. i.op \in Ops /\ liveCount' = liveCount + LiveDelta(i)
  BY DEF Admitted, Intent, Publish
<1>3. IsFiniteSet(LivePaths) /\ Cardinality(LivePaths) \in Nat /\ liveCount = Cardinality(LivePaths)
  BY FS_CardinalityType DEF LiveCounted, LiveCountExact
<1>4. CASE i.op = "rename"
  <2>1. i.path # i.to /\ Target(i) = i.to /\ Written(i) = {i.path, i.to}
    BY <1>4 DEF Admitted, WellFormed, Target, Written
  <2>2. i.path \in LivePaths /\ i.to \notin LivePaths
    BY <1>1, <1>4 DEF Admitted, PublishFailure, LivePaths
  <2>3. LivePaths' = (LivePaths \ {i.path}) \cup {i.to}
    BY <1>1, <1>4, <2>1 DEF LivePaths, Live
  <2>4. /\ IsFiniteSet(LivePaths \ {i.path})
        /\ Cardinality(LivePaths \ {i.path}) = Cardinality(LivePaths) - 1
    BY <1>3, <2>2, FS_RemoveElement, Zenon
  <2>5. i.to \notin LivePaths \ {i.path}
    BY <2>2
  <2>6. /\ IsFiniteSet(LivePaths')
        /\ Cardinality(LivePaths') = Cardinality(LivePaths \ {i.path}) + 1
    BY <2>3, <2>4, <2>5, FS_AddElement, Zenon
  <2>7. LiveDelta(i) = 0
    BY <1>4 DEF LiveDelta
  <2>8. QED
    BY <1>2, <1>3, <2>4, <2>6, <2>7 DEF LiveCounted, LiveCountExact
<1>5. CASE i.op = "delete"
  <2>1. LivePaths' = LivePaths \ {i.path}
    BY <1>1, <1>5 DEF LivePaths, Live, Written, Target
  <2>2. CASE Live(i.path)
    <3>1. i.path \in LivePaths /\ LiveDelta(i) = -1
      BY <1>1, <1>5, <2>2 DEF LivePaths, LiveDelta
    <3>2. /\ IsFiniteSet(LivePaths \ {i.path})
          /\ Cardinality(LivePaths \ {i.path}) = Cardinality(LivePaths) - 1
      BY <1>3, <3>1, FS_RemoveElement, Zenon
    <3>3. QED
      BY <1>2, <1>3, <2>1, <3>1, <3>2 DEF LiveCounted, LiveCountExact
  <2>3. CASE ~Live(i.path)
    <3>1. LivePaths' = LivePaths /\ LiveDelta(i) = 0
      BY <1>5, <2>1, <2>3 DEF LivePaths, LiveDelta
    <3>2. QED
      BY <1>2, <1>3, <3>1 DEF LiveCounted, LiveCountExact
  <2>4. QED
    BY <2>2, <2>3
<1>6. CASE i.op \in {"put", "append", "restore"}
  <2>1. LivePaths' = LivePaths \cup {i.path}
    BY <1>1, <1>6 DEF LivePaths, Live, Written, Target
  <2>2. CASE Live(i.path)
    <3>1. LivePaths' = LivePaths /\ LiveDelta(i) = 0
      BY <1>1, <1>6, <2>1, <2>2 DEF LivePaths, LiveDelta
    <3>2. QED
      BY <1>2, <1>3, <3>1 DEF LiveCounted, LiveCountExact
  <2>3. CASE ~Live(i.path)
    <3>1. i.path \notin LivePaths /\ LiveDelta(i) = 1
      BY <1>6, <2>3 DEF LivePaths, LiveDelta
    <3>2. /\ IsFiniteSet(LivePaths \cup {i.path})
          /\ Cardinality(LivePaths \cup {i.path}) = Cardinality(LivePaths) + 1
      BY <1>3, <3>1, FS_AddElement, Zenon
    <3>3. QED
      BY <1>2, <1>3, <2>1, <3>1, <3>2 DEF LiveCounted, LiveCountExact
  <2>4. QED
    BY <2>2, <2>3
<1>7. QED
  BY <1>2, <1>4, <1>5, <1>6 DEF Ops

-----------------------------------------------------------------------------
(* Numbers: revisions of a path and sequences of the feed.                  *)

\* No row of the feed or of the history is newer than the file row of its path,
\* and the feed has a row for what a file row was last written by, or had one.
NumbersInOrder ==
  /\ FeedFollowsFiles /\ RevisionsUnique
  /\ \A c \in changes : c.seq <= head /\ c.rev <= files[c.path].rev

LEMMA PublishNumbers ==
  ASSUME FilesTypeOK, NumbersInOrder, NEW i, Admitted(i), NEW base, NEW t, Publish(i, base, t)
  PROVE  NumbersInOrder'
<1>1. /\ i.path \in Paths /\ Target(i) \in Paths /\ head' = head + 1
      /\ \A p \in Paths \ Written(i) : files'[p] = files[p]
      /\ \A p \in Written(i) : /\ p \in Paths
                               /\ files'[p].rev = files[p].rev + 1 /\ files'[p].seq = head + 1
  BY PublishedRows
<1>2. PICK c0 : /\ changes' = changes \cup {c0} /\ c0.seq = head + 1
                /\ c0.path = Target(i) /\ c0.rev = files[Target(i)].rev + 1
  <2>1. \E c0 : /\ changes' = changes \cup {c0}
                /\ c0 = [seq |-> head + 1,
                         op  |-> IF i.op \in {"delete", "rename"} THEN i.op ELSE "put",
                         path |-> Target(i), rev |-> files[Target(i)].rev + 1,
                         fromPath |-> IF i.op = "rename" THEN i.path ELSE NoPath,
                         fromRev |-> IF i.op = "rename" THEN files[i.path].rev + 1 ELSE 0, at |-> t]
    BY DEF Publish
  <2>2. QED
    BY <2>1
<1>3. /\ \A p \in Paths : files[p].rev \in Nat /\ files[p].seq \in Nat
      /\ head \in Nat
      /\ \A c \in changes : c.path \in Paths /\ c.seq \in Nat /\ c.rev \in Nat
      /\ \A v \in revisions : v.path \in Paths /\ v.rev \in Nat
  BY DEF FilesTypeOK, FileRow, ChangeRow, RevisionRow
<1>4. \A p \in Paths : files'[p].rev >= files[p].rev /\ files'[p].seq <= head + 1
  BY <1>1, <1>3 DEF NumbersInOrder, FeedFollowsFiles
<1>5. Target(i) \in Written(i)
  BY DEF Written
<1>6. ASSUME NEW c \in changes
      PROVE  /\ c.seq <= files'[c.path].seq
             /\ c.seq = files'[c.path].seq <=> c.rev = files'[c.path].rev
             /\ c.seq <= head + 1 /\ c.rev <= files'[c.path].rev
  BY <1>1, <1>3, <1>4 DEF NumbersInOrder, FeedFollowsFiles
<1>7. FeedFollowsFiles'
  BY <1>1, <1>2, <1>4, <1>5, <1>6 DEF FeedFollowsFiles
<1>8. \A v \in revisions' : \/ v \in revisions
                            \/ v.path \in Written(i) /\ v.rev = files[v.path].rev + 1
  <2>1. revisions' = revisions \cup
          {[path |-> p, rev |-> WrittenRow(i, p, base).rev,
            deleted |-> WrittenRow(i, p, base).deleted,
            text |-> WrittenRow(i, p, base).text, at |-> t] : p \in Written(i)}
    BY DEF Publish
  <2>2. \A p : WrittenRow(i, p, base).rev = files[p].rev + 1
    BY DEF WrittenRow
  <2>3. QED
    BY <2>1, <2>2
<1>9. \A v, w \in revisions' : v.path = w.path /\ v.rev = w.rev => v = w
  <2>1. \A v \in revisions : v.rev <= files[v.path].rev
    BY DEF NumbersInOrder, RevisionsUnique
  <2>2. ASSUME NEW v \in revisions', NEW w \in revisions', v.path = w.path, v.rev = w.rev,
               v \notin revisions, w \notin revisions
        PROVE  v = w
    BY <2>2 DEF Publish, WrittenRow
  <2>3. QED
    BY <1>1, <1>3, <1>8, <2>1, <2>2 DEF NumbersInOrder, RevisionsUnique
<1>10. \A v \in revisions' : v.rev <= files'[v.path].rev
  BY <1>1, <1>3, <1>4, <1>8 DEF NumbersInOrder, RevisionsUnique
<1>11. \A c, d \in changes' : c.seq = d.seq => c = d
  BY <1>2, <1>3 DEF NumbersInOrder, RevisionsUnique
<1>12. \A c \in changes' : c.seq <= head' /\ c.rev <= files'[c.path].rev
  BY <1>1, <1>2, <1>3, <1>5, <1>6
<1>13. QED
  BY <1>7, <1>9, <1>10, <1>11, <1>12 DEF NumbersInOrder, RevisionsUnique

-----------------------------------------------------------------------------
(* One retention batch.                                                     *)

\* The cursor moves from category to category.
LEMMA NextCategory ==
  ASSUME NEW cat \in CategorySet
  PROVE  NextAfter(cat) \in CategorySet
<1>1. \E n \in 1..4 : Categories[n] = cat
  BY DEF CategorySet
<1>2. Position(cat) \in 1..4
  BY <1>1 DEF Position
<1>3. (Position(cat) % 4) + 1 \in 1..4
  BY <1>2
<1>4. QED
  BY <1>3 DEF NextAfter, CategorySet

\* A batch takes rows that are due and unpinned, from one table.
LEMMA BatchIsDue ==
  ASSUME NEW pins, NEW cat, NEW batch \in Batches(cat, pins)
  PROVE  /\ batch \subseteq Due(cat, pins)
         /\ cat = "changes" =>
              \A c \in batch : c \in changes /\ c.at < now - Retention
         /\ cat = "receipts" =>
              \A x \in batch : x \in receipts /\ x.at < now - Retention
         /\ cat = "ordinary_revisions" =>
              \A v \in batch : v.at < now - Retention /\ Unpinned(v, pins)
         /\ cat = "pressure_revisions" =>
              \A v \in batch : v.at < now - FloorAge /\ Unpinned(v, pins)
<1>1. batch \subseteq Due(cat, pins)
  BY DEF Batches
<1>2. cat = "changes" => Due(cat, pins) = {c \in changes : c.at < now - Retention}
  BY DEF Due
<1>3. cat = "receipts" => Due(cat, pins) = {x \in receipts : x.at < now - Retention}
  BY DEF Due
<1>4. cat = "ordinary_revisions" =>
        Due(cat, pins) = {v \in revisions : v.at < now - Retention /\ Unpinned(v, pins)}
  BY DEF Due
<1>5. cat = "pressure_revisions" =>
        Due(cat, pins) \subseteq {v \in revisions : v.at < now - FloorAge /\ Unpinned(v, pins)}
  BY DEF Due
<1>6. QED
  BY <1>1, <1>2, <1>3, <1>4, <1>5

\* The boundary is past every sequence that a batch deletes, and never goes back.
LEMMA BoundaryMovesUp ==
  ASSUME FilesTypeOK, NumbersInOrder, prunedFeed \in Nat, NEW batch \in SUBSET changes,
         prunedFeed' = CHOOSE b \in {prunedFeed} \cup {c.seq + 1 : c \in batch} :
                         \A d \in {prunedFeed} \cup {c.seq + 1 : c \in batch} : d <= b
  PROVE  /\ prunedFeed' \in Nat /\ prunedFeed <= prunedFeed'
         /\ \A c \in batch : c.seq < prunedFeed'
<1> DEFINE Ends == {prunedFeed} \cup {c.seq + 1 : c \in batch}
<1>1. \A c \in batch : c.seq \in Nat /\ c.seq <= head
  BY DEF FilesTypeOK, ChangeRow, NumbersInOrder
<1>2. head \in Nat
  BY DEF FilesTypeOK
<1>3. Ends \subseteq Nat /\ Ends # {} /\ prunedFeed + head + 1 \in Nat
      /\ \A n \in Ends : n <= prunedFeed + head + 1
  BY <1>1, <1>2
<1>4. \E m \in Ends : \A n \in Ends : n <= m
  <2> HIDE DEF Ends
  <2>1. QED
    BY <1>3, GreatestNumber
<1>5. prunedFeed' \in Ends /\ \A n \in Ends : n <= prunedFeed'
  BY <1>4
<1>6. \A c \in batch : c.seq + 1 \in Ends
  OBVIOUS
<1>7. prunedFeed' \in Nat /\ prunedFeed <= prunedFeed'
  BY <1>3, <1>5
<1>8. \A c \in batch : c.seq < prunedFeed'
  <2> SUFFICES ASSUME NEW c \in batch PROVE c.seq < prunedFeed'
    OBVIOUS
  <2>1. c.seq + 1 <= prunedFeed' /\ c.seq \in Nat
    BY <1>1, <1>5, <1>6
  <2>2. QED
    BY <2>1, <1>7
<1>9. QED
  BY <1>7, <1>8

\* What a batch leaves alone, what it takes away and where it leaves the boundary.
LEMMA BatchTakesAway ==
  ASSUME FilesTypeOK, NumbersInOrder, prunedFeed \in Nat, NEW pins, RunBatch(pins)
  PROVE  /\ UNCHANGED <<files, head, liveCount, now, admissions, claims, revoked>>
         /\ revisions' \subseteq revisions /\ changes' \subseteq changes
         /\ receipts' \subseteq receipts
         /\ prunedFeed' \in Nat /\ prunedFeed <= prunedFeed'
         /\ \A c \in changes \ changes' : c.at < now - Retention /\ c.seq < prunedFeed'
         /\ \A x \in receipts \ receipts' : x.at < now - Retention
         /\ \A v \in revisions \ revisions' :
              /\ Unpinned(v, pins)
              /\ \/ v.at < now - Retention
                 \/ v.at < now - FloorAge /\ reduced'
         /\ category' \in CategorySet /\ (reduced \in BOOLEAN => reduced' \in BOOLEAN)
<1>1. UNCHANGED <<files, head, liveCount, now, admissions, claims, revoked>>
  BY DEF RunBatch
<1>2. CASE /\ category' = "changes"
           /\ UNCHANGED <<changes, receipts, revisions, prunedFeed, reduced>>
  <2>1. Categories[1] = "changes" /\ 1 \in 1..4
    BY DEF Categories
  <2>2. category' \in CategorySet
    BY <1>2, <2>1 DEF CategorySet
  <2>3. prunedFeed <= prunedFeed
    OBVIOUS
  <2>4. QED
    BY <1>1, <1>2, <2>2, <2>3
<1>3. ASSUME NEW cat \in CategorySet, NEW batch \in Batches(cat, pins), DeleteBatch(cat, batch, pins)
      PROVE  /\ revisions' \subseteq revisions /\ changes' \subseteq changes
             /\ receipts' \subseteq receipts
             /\ prunedFeed' \in Nat /\ prunedFeed <= prunedFeed'
             /\ \A c \in changes \ changes' : c.at < now - Retention /\ c.seq < prunedFeed'
             /\ \A x \in receipts \ receipts' : x.at < now - Retention
             /\ \A v \in revisions \ revisions' :
                  /\ Unpinned(v, pins)
                  /\ \/ v.at < now - Retention
                     \/ v.at < now - FloorAge /\ reduced'
             /\ category' \in CategorySet /\ (reduced \in BOOLEAN => reduced' \in BOOLEAN)
  <2>1. category' \in CategorySet
    <3>1. category' = cat \/ category' = NextAfter(cat)
      BY <1>3 DEF DeleteBatch
    <3>2. QED
      BY <3>1, NextCategory
  <2>2. reduced' = (reduced \/ cat = "pressure_revisions")
    BY <1>3 DEF DeleteBatch
  <2>3. /\ changes' = changes \ (IF cat = "changes" THEN batch ELSE {})
        /\ receipts' = receipts \ (IF cat = "receipts" THEN batch ELSE {})
        /\ revisions' = revisions \ (IF cat \in {"ordinary_revisions", "pressure_revisions"}
                                     THEN batch ELSE {})
    BY <1>3 DEF DeleteBatch
  <2>4. /\ prunedFeed' \in Nat /\ prunedFeed <= prunedFeed'
        /\ cat = "changes" => \A c \in batch : c.seq < prunedFeed'
    <3>1. CASE cat = "changes"
      <4>1. batch \in SUBSET changes
        BY <3>1, BatchIsDue
      <4>2. prunedFeed' = CHOOSE b \in {prunedFeed} \cup {c.seq + 1 : c \in batch} :
                            \A d \in {prunedFeed} \cup {c.seq + 1 : c \in batch} : d <= b
        BY <1>3, <3>1 DEF DeleteBatch
      <4>3. QED
        BY <4>1, <4>2, BoundaryMovesUp
    <3>2. CASE cat # "changes"
      <4>1. prunedFeed' = prunedFeed
        BY <1>3, <3>2 DEF DeleteBatch
      <4>2. QED
        BY <3>2, <4>1
    <3>3. QED
      BY <3>1, <3>2
  <2>5. \A c \in changes \ changes' : c.at < now - Retention /\ c.seq < prunedFeed'
    BY <2>3, <2>4, BatchIsDue
  <2>6. \A x \in receipts \ receipts' : x.at < now - Retention
    BY <2>3, BatchIsDue
  <2>7. \A v \in revisions \ revisions' :
          /\ Unpinned(v, pins)
          /\ \/ v.at < now - Retention
             \/ v.at < now - FloorAge /\ reduced'
    <3> SUFFICES ASSUME NEW v \in revisions \ revisions'
                 PROVE  /\ Unpinned(v, pins)
                        /\ \/ v.at < now - Retention
                           \/ v.at < now - FloorAge /\ reduced'
      OBVIOUS
    <3>1. cat \in {"ordinary_revisions", "pressure_revisions"} /\ v \in batch
      BY <2>3
    <3>2. cat = "pressure_revisions" => reduced'
      BY <2>2
    <3>3. QED
      BY <3>1, <3>2, BatchIsDue
  <2>8. QED
    BY <2>1, <2>2, <2>3, <2>4, <2>5, <2>6, <2>7
<1>4. QED
  BY <1>1, <1>2, <1>3 DEF RunBatch

\* So a batch keeps everything that is said of the file tables.
LEMMA BatchKeeps ==
  ASSUME FilesTypeOK, NumbersInOrder, LiveCounted, NoLiveAliases,
         prunedFeed \in Nat, NEW pins, RunBatch(pins)
  PROVE  FilesTypeOK' /\ NumbersInOrder' /\ LiveCounted' /\ NoLiveAliases'
<1>1. /\ UNCHANGED <<files, head, liveCount>>
      /\ revisions' \subseteq revisions /\ changes' \subseteq changes
  BY BatchTakesAway
<1>2. FilesTypeOK'
  BY <1>1 DEF FilesTypeOK
<1>3. FeedFollowsFiles' /\ RevisionsUnique'
  BY <1>1 DEF NumbersInOrder, FeedFollowsFiles, RevisionsUnique
<1>4. \A c \in changes' : c.seq <= head' /\ c.rev <= files'[c.path].rev
  BY <1>1 DEF NumbersInOrder
<1>5. LivePaths' = LivePaths
  BY <1>1 DEF LivePaths, Live
<1>6. LiveCounted' /\ NoLiveAliases'
  BY <1>1, <1>5 DEF LiveCounted, LiveCountExact, NoLiveAliases, Aliases
<1>7. QED
  BY <1>2, <1>3, <1>4, <1>6 DEF NumbersInOrder

\* A retention batch keeps what retention promises.
LEMMA BatchKeepsPromises ==
  ASSUME FilesTypeOK, NumbersInOrder, prunedFeed \in Nat, now \in Nat,
         NEW pins, RunBatch(pins)
  PROVE  RetentionKeepsPromises(pins)
<1>1. \A v \in revisions \ revisions' :
        /\ v.at < now - FloorAge /\ Unpinned(v, pins)
        /\ v.at < now - Retention \/ reduced'
  <2> SUFFICES ASSUME NEW v \in revisions \ revisions'
               PROVE  /\ v.at < now - FloorAge /\ Unpinned(v, pins)
                      /\ v.at < now - Retention \/ reduced'
    OBVIOUS
  <2>1. v.at \in Nat
    BY DEF FilesTypeOK, RevisionRow
  <2>2. /\ Unpinned(v, pins)
        /\ \/ v.at < now - Retention
           \/ v.at < now - FloorAge /\ reduced'
    BY BatchTakesAway
  <2>3. v.at < now - Retention => v.at < now - FloorAge
    BY <2>1, RetentionAssumption, DurationsAssumption
  <2>4. QED
    BY <2>2, <2>3
<1>2. QED
  BY <1>1, BatchTakesAway DEF RetentionKeepsPromises

\* At the beginning there is nothing to be wrong about.
LEMMA FilesBegin ==
  ASSUME FilesInit
  PROVE  FilesTypeOK /\ NumbersInOrder /\ LiveCounted /\ NoLiveAliases
<1>1. FilesTypeOK
  <2>1. <<>> \in Text
    BY DEF Text
  <2>2. NoRow \in FileRow
    BY <2>1 DEF NoRow, FileRow
  <2>3. QED
    BY <2>2 DEF FilesInit, FilesTypeOK
<1>2. LivePaths = {}
  BY DEF FilesInit, LivePaths, Live, NoRow
<1>3. LiveCounted /\ NoLiveAliases
  BY <1>2, FS_EmptySet DEF FilesInit, LiveCounted, LiveCountExact, NoLiveAliases
<1>4. NumbersInOrder
  BY DEF FilesInit, NumbersInOrder, FeedFollowsFiles, RevisionsUnique, NoRow
<1>5. QED
  BY <1>1, <1>3, <1>4

-----------------------------------------------------------------------------
(* All of it together.                                                      *)

\* What holds of the tables between any two transactions.
TablesInv ==
  /\ FilesTypeOK /\ NumbersInOrder /\ LiveCounted /\ NoLiveAliases
  /\ prunedFeed \in Nat /\ now \in Nat

\* The tables begin empty and in order.
LEMMA TablesBegin ==
  ASSUME FilesInit, InitLedger, InitRetention
  PROVE  TablesInv
  BY FilesBegin DEF InitLedger, InitRetention, TablesInv

\* A publication keeps the tables in order.
LEMMA TablesPublish ==
  ASSUME TablesInv, NEW i, Admitted(i), NEW base \in Text, Publish(i, base, now),
         UNCHANGED <<now, prunedFeed>>
  PROVE  TablesInv'
<1> USE DEF TablesInv
<1>1. FilesTypeOK'
  BY PublishTypes
<1>2. NoLiveAliases' /\ LiveCounted' /\ NumbersInOrder'
  BY PublishKeepsApart, PublishCounts, PublishNumbers
<1>3. QED
  BY <1>1, <1>2

\* A batch keeps the tables in order.
LEMMA TablesBatch ==
  ASSUME TablesInv, NEW pins, RunBatch(pins)
  PROVE  TablesInv'
<1>1. FilesTypeOK' /\ NumbersInOrder' /\ LiveCounted' /\ NoLiveAliases'
  BY BatchKeeps DEF TablesInv
<1>2. now' = now /\ prunedFeed' \in Nat
  BY BatchTakesAway DEF TablesInv
<1>3. QED
  BY <1>1, <1>2 DEF TablesInv

\* Nothing else touches them.
LEMMA TablesIdle ==
  ASSUME TablesInv, UNCHANGED <<fileVars, prunedFeed>>, now' \in Nat
  PROVE  TablesInv'
<1>1. UNCHANGED <<files, revisions, changes, head, liveCount>> /\ prunedFeed' = prunedFeed
  BY DEF fileVars
<1>2. FilesTypeOK'
  BY <1>1 DEF TablesInv, FilesTypeOK
<1>3. NumbersInOrder'
  BY <1>1 DEF TablesInv, NumbersInOrder, FeedFollowsFiles, RevisionsUnique
<1>4. LivePaths' = LivePaths
  BY <1>1 DEF LivePaths, Live
<1>5. LiveCounted' /\ NoLiveAliases'
  BY <1>1, <1>4 DEF TablesInv, LiveCounted, LiveCountExact, NoLiveAliases, Aliases
<1>6. QED
  BY <1>1, <1>2, <1>3, <1>5 DEF TablesInv

-----------------------------------------------------------------------------
(* What the steps of the specification have in common.                      *)

\* Who asks for what never changes, and every call is one of AllCalls.
LEMMA CallsStay == Spec => [](call \in [Requests -> AllCalls])
<1>1. Init => call \in [Requests -> AllCalls]
  BY DEF Init, AllCalls
<1>2. call \in [Requests -> AllCalls] /\ [Next]_vars => (call \in [Requests -> AllCalls])'
  <2> SUFFICES ASSUME call \in [Requests -> AllCalls], [Next]_vars
               PROVE  call' = call
    OBVIOUS
  <2>1. CASE UNCHANGED vars
    BY <2>1 DEF vars, requestVars
  <2>2. CASE Environment
    BY <2>2 DEF Environment, requestVars
  <2>3. ASSUME NEW r \in Requests, RequestStep(r) \/ RpcFails(r) \/ Crash(r)
        PROVE  call' = call
    BY <2>3 DEF RequestStep, RpcFails, Crash, BeginRefused, BeginLimited, BeginReserved,
         BodyFails, AuthorizeRefused, Authorized, Commit, AppendStart, AppendPublish,
         CommitDenied, CommitReplayed, CommitRefused, CommitPublished, TakeSnapshot,
         Settle, Retain
  <2>4. QED
    BY <2>1, <2>2, <2>3 DEF Next
<1>3. QED
  BY <1>1, <1>2, PTL DEF Spec

\* The steps that neither publish nor touch the receipts.
Quiet == /\ published' = published /\ receipts' = receipts
         /\ now' = now \/ now' = now + 1

\* Every step publishes for one request, runs a retention batch, or is quiet.
LEMMA StepKinds ==
  ASSUME [Next]_vars
  PROVE  \/ \E r \in Requests : CommitPublished(r, <<>>) \/ CommitPublished(r, snapshot[r].text)
         \/ RunBatch({}) /\ UNCHANGED published
         \/ Quiet
<1>1. CASE UNCHANGED vars
  BY <1>1 DEF vars, ledgerVars, Quiet
<1>2. CASE Environment
  BY <1>2 DEF Environment, Tick, RevokeClient, Quiet
<1>3. ASSUME NEW r \in Requests, RequestStep(r) \/ RpcFails(r) \/ Crash(r)
      PROVE  CommitPublished(r, <<>>) \/ CommitPublished(r, snapshot[r].text) \/ Quiet
  <2>1. CASE Commit(r) \/ AppendStart(r) \/ AppendPublish(r)
    BY <2>1 DEF Commit, AppendStart, AppendPublish, CommitDenied, CommitReplayed, CommitRefused,
         TakeSnapshot, KeepFiles, ledgerVars, Quiet
  <2>2. CASE BeginRefused(r) \/ BeginLimited(r) \/ BeginReserved(r)
    BY <2>2 DEF BeginRefused, BeginLimited, BeginReserved, KeepFiles, ledgerVars, Quiet
  <2>3. CASE BodyFails(r) \/ AuthorizeRefused(r) \/ Authorized(r)
    BY <2>3 DEF BodyFails, AuthorizeRefused, Authorized, KeepFiles, ledgerVars, Quiet
  <2>4. CASE Settle(r) \/ Retain(r) \/ RpcFails(r) \/ Crash(r)
    BY <2>4 DEF Settle, Retain, RpcFails, Crash, KeepFiles, ledgerVars, Quiet
  <2>5. QED
    BY <1>3, <2>1, <2>2, <2>3, <2>4 DEF RequestStep
<1>4. QED
  BY <1>1, <1>2, <1>3 DEF Next

-----------------------------------------------------------------------------
(* At most one publication under a key that carries its time.               *)

\* The receipt that a publication left.
Receipted(e) ==
  \E x \in receipts : x.client = GrantClient[e.grant] /\ x.key = e.key /\ x.at = e.at

\* The clock cannot have left a publication's time by more than Retention while
\* its receipt is gone and its key could still be used.
KeyInv ==
  /\ now \in Nat
  /\ \A e \in published : /\ e.at \in Nat /\ e.key \in Keys \cup {NoKey}
                          /\ Timed(e) => /\ KeyTime[e.key] <= e.at + KeyFuture
                                         /\ Receipted(e) \/ e.at < now - Retention
  /\ AtMostOnce

\* Timed keys have times.
LEMMA KeyTimes_ == \A k \in Keys \ OpaqueKeys : KeyTime[k] \in Nat
  BY KeysAssumption

\* A publication finds no receipt of its key, and its key is in its window: so
\* nothing was published under it.
LEMMA KeyIsFresh ==
  ASSUME KeyInv, call \in [Requests -> AllCalls], NEW r \in Requests, NEW base,
         CommitPublished(r, base), NEW e \in published, Timed(e),
         GrantClient[e.grant] = Client(r), e.key = Key(r)
  PROVE  FALSE
<1>1. e.key # NoKey /\ e.key \in Keys \ OpaqueKeys
  BY DEF Timed, KeyInv
<1>2. ReceiptsOf(Client(r), Key(r)) = {} /\ InWindow(Key(r))
  BY <1>1 DEF CommitPublished, HasReceipt, CommitFailure, StaleKey
<1>3. ~Receipted(e)
  BY <1>2 DEF Receipted, ReceiptsOf
<1>4. e.at < now - Retention /\ KeyTime[e.key] <= e.at + KeyFuture
  BY <1>3 DEF KeyInv
<1>5. now - KeyPast <= KeyTime[e.key]
  BY <1>1, <1>2 DEF InWindow
<1>6. QED
  BY <1>1, <1>4, <1>5, KeyTimes_, WindowAssumption, DurationsAssumption DEF KeyInv

\* A publication keeps the argument.
LEMMA KeyInvPublish ==
  ASSUME KeyInv, call \in [Requests -> AllCalls], NEW r \in Requests, NEW base,
         CommitPublished(r, base)
  PROVE  KeyInv'
<1>0. PICK e0 : /\ published' = published \cup {e0}
                /\ e0.grant = call[r].grant /\ e0.key = Key(r) /\ e0.at = now
  <2>1. published' = published \cup {Publication(r, base)}
    BY DEF CommitPublished
  <2>2. /\ Publication(r, base).grant = call[r].grant
        /\ Publication(r, base).key = Key(r) /\ Publication(r, base).at = now
    BY DEF Publication
  <2>3. QED
    BY <2>1, <2>2
<1>1. published' = published \cup {e0} /\ now' = now
  BY <1>0 DEF CommitPublished
<1>2. Key(r) \in Keys \cup {NoKey}
  BY CallsAssumption DEF Key
<1>4. Key(r) # NoKey => InWindow(Key(r))
  BY DEF CommitPublished, CommitFailure, StaleKey
<1>5. receipts \subseteq receipts'
  BY DEF CommitPublished
<1>6. Key(r) # NoKey => Receipted(e0)'
  <2> SUFFICES ASSUME Key(r) # NoKey
               PROVE  \E x \in receipts' : x.client = GrantClient[e0.grant] /\ x.key = e0.key /\ x.at = e0.at
    BY DEF Receipted
  <2>1. PICK x : x \in receipts' /\ x.client = Client(r) /\ x.key = Key(r) /\ x.at = now
    <3>1. NewReceipt(r) \in receipts'
      BY DEF CommitPublished
    <3>2. NewReceipt(r).client = Client(r) /\ NewReceipt(r).key = Key(r) /\ NewReceipt(r).at = now
      BY DEF NewReceipt
    <3>3. QED
      BY <3>1, <3>2
  <2>2. QED
    BY <2>1, <1>0 DEF Client
<1>7. \A e \in published : Timed(e) /\ SameKey(e, e0) => FALSE
  BY <1>0, KeyIsFresh DEF SameKey, Client
<1>8. AtMostOnce'
  BY <1>1, <1>7 DEF AtMostOnce, KeyInv, Timed, SameKey
<1>9. \A e \in published : Receipted(e) => Receipted(e)'
  BY <1>5 DEF Receipted
<1>10. Timed(e0) => KeyTime[e0.key] <= e0.at + KeyFuture
  BY <1>0, <1>2, <1>4 DEF Timed, InWindow
<1>11. QED
  BY <1>0, <1>1, <1>2, <1>6, <1>8, <1>9, <1>10 DEF KeyInv, Timed

\* Retention takes only receipts that are older than Retention.
LEMMA KeyInvBatch ==
  ASSUME KeyInv, RunBatch({}), UNCHANGED published
  PROVE  KeyInv'
<1>1. now' = now
  BY DEF RunBatch
<1>2. \A x \in receipts : x \notin receipts' => x.at < now - Retention
  BY DEF RunBatch, DeleteBatch, Batches, Due
<1>3. \A e \in published : Receipted(e) => Receipted(e)' \/ e.at < now - Retention
  BY <1>2 DEF Receipted
<1>4. QED
  BY <1>1, <1>3 DEF KeyInv, AtMostOnce

\* A step that touches neither receipts nor publications keeps the argument.
LEMMA KeyInvQuiet ==
  ASSUME KeyInv, Quiet
  PROVE  KeyInv'
<1>1. \A e \in published : Receipted(e) => Receipted(e)'
  BY DEF Receipted, Quiet
<1>2. QED
  BY <1>1, DurationsAssumption DEF KeyInv, AtMostOnce, Quiet

\* The argument holds throughout.
LEMMA KeyInvHolds == Spec => []KeyInv
<1>1. Init => KeyInv
  BY DEF Init, InitLedger, KeyInv, AtMostOnce
<1>2. KeyInv /\ call \in [Requests -> AllCalls] /\ [Next]_vars => KeyInv'
  BY StepKinds, KeyInvPublish, KeyInvBatch, KeyInvQuiet
<1>3. QED
  BY <1>1, <1>2, CallsStay, PTL DEF Spec

\* A client that retries under a timed key publishes at most once, whatever it
\* lost, whenever it retries, for every Retention >= KeyPast + KeyFuture.
THEOREM AtMostOnceHolds == Spec => []AtMostOnce
<1>1. KeyInv => AtMostOnce
  BY DEF KeyInv
<1>2. QED
  BY <1>1, KeyInvHolds, PTL

-----------------------------------------------------------------------------
(* Revocation.                                                              *)

\* Nothing is ever published for a grant that was revoked before, however far
\* the request had come when the revocation arrived.
THEOREM RevocationHolds == Spec => RevokedNeverPublishes
<1>1. [Next]_vars => [\A e \in published' \ published : e.grant \notin revoked]_vars
  <2> SUFFICES ASSUME [Next]_vars, NEW e \in published' \ published
               PROVE  e.grant \notin revoked
    OBVIOUS
  <2>1. PICK r \in Requests : CommitPublished(r, <<>>) \/ CommitPublished(r, snapshot[r].text)
    BY StepKinds DEF Quiet
  <2>2. e.grant = call[r].grant
    BY <2>1 DEF CommitPublished, Publication
  <2>3. Policy(r) = "none"
    BY <2>1 DEF CommitPublished
  <2>4. QED
    BY <2>2, <2>3 DEF Policy, PolicyFailure
<1>2. QED
  BY <1>1, PTL DEF Spec, RevokedNeverPublishes

-----------------------------------------------------------------------------
(* The ledger: admissions and the claims they own.                          *)

\* A row of operation_admissions has all its columns.
IsRow(a) == /\ a = [state |-> a.state, grant |-> a.grant, fp |-> a.fp, expires |-> a.expires]
            /\ a.state \in AdmissionStates /\ a.grant \in Grants /\ a.expires \in Nat

\* An idle request has no row yet, so its identifier is as good as fresh.
LedgerInv ==
  /\ now \in Nat
  /\ pc \in [Requests -> PCs]
  /\ admissions = [r \in Requests |-> admissions[r]]
  /\ \A r \in Requests : admissions[r] = NoAdmission \/ IsRow(admissions[r])
  /\ \A r \in Requests : pc[r] = "idle" => r \notin Rows
  /\ ClaimsOwned

\* A row of the ledger has the columns and the state of one.
LEMMA RowsAreRows ==
  ASSUME LedgerInv
  PROVE  /\ \A r \in Requests : r \in Rows <=> IsRow(admissions[r])
         /\ \A r \in Requests : r \notin Rows <=> admissions[r] = NoAdmission
  BY DEF LedgerInv, Rows, NoAdmission, IsRow, AdmissionStates

\* What a step may do to the ledger.
KeepsSome == \E ids \in SUBSET Rows : Keep(ids)
Reserves(r) == /\ pc[r] = "idle" /\ BeginFailure(r) = "none"
               /\ \E kept \in CleanedFor(Client(r)) :
                    /\ ~AdmissionFull(Client(r), kept)
                    /\ Reserve(r, call[r].grant, Key(r), DescriptorPrint(r), kept)
               /\ pc'[r] # "idle" /\ now' = now
Restates(r) == /\ r \in Rows
               /\ admissions' = [q \in Requests |-> admissions'[q]]
               /\ \A q \in Requests \ {r} : admissions'[q] = admissions[q]
               /\ IsRow(admissions'[r])
               /\ admissions'[r].grant = admissions[r].grant
               /\ admissions'[r].expires = admissions[r].expires
               /\ UNCHANGED claims
LedgerStep == \/ UNCHANGED <<admissions, claims>>
              \/ KeepsSome
              \/ \E r \in Requests : Reserves(r) \/ Restates(r)

\* Activate and Retain leave rows: they change a state and a fingerprint.
LEMMA RestateIsRow ==
  ASSUME LedgerInv, NEW r \in Rows, NEW s \in AdmissionStates, NEW p,
         admissions' = [admissions EXCEPT ![r] = Restated(@, s, p)], UNCHANGED claims
  PROVE  Restates(r)
<1>1. IsRow(admissions[r]) /\ r \in Requests
  BY RowsAreRows DEF Rows
<1>2. admissions'[r] = Restated(admissions[r], s, p)
  BY <1>1 DEF LedgerInv
<1>3. /\ IsRow(admissions'[r]) /\ admissions'[r].grant = admissions[r].grant
      /\ admissions'[r].expires = admissions[r].expires
  BY <1>1, <1>2 DEF IsRow, Restated
<1>4. /\ admissions' = [q \in Requests |-> admissions'[q]]
      /\ \A q \in Requests \ {r} : admissions'[q] = admissions[q]
  BY DEF LedgerInv
<1>5. QED
  BY <1>3, <1>4 DEF Restates

\* A cleanup keeps a subset of the rows and no expired one of the client.
LEMMA CleanedAreRows ==
  ASSUME NEW client, NEW kept \in CleanedFor(client)
  PROVE  /\ kept \subseteq Rows
         /\ \A q \in kept : Expired(q) => ClientOf(q) # client
  BY DEF CleanedFor, ExpiredRows

\* Every step of a request is one of the ledger's.
LEMMA RequestLedgerStep ==
  ASSUME LedgerInv, NEW r \in Requests, RequestStep(r) \/ RpcFails(r) \/ Crash(r)
  PROVE  LedgerStep /\ pc' = [pc EXCEPT ![r] = pc'[r]] /\ pc'[r] \in PCs \ {"idle"}
<1> USE DEF KeepFiles, ledgerVars, Go, PCs, LedgerStep
<1>0. pc \in [Requests -> PCs]
  BY DEF LedgerInv
<1>1. CASE BeginRefused(r)
  BY <1>1, <1>0 DEF BeginRefused
<1>2. CASE BeginLimited(r)
  BY <1>2, <1>0, CleanedAreRows DEF BeginLimited, KeepsSome
<1>3. CASE BeginReserved(r)
  BY <1>3, <1>0 DEF BeginReserved, Reserves
<1>4. CASE BodyFails(r) \/ AuthorizeRefused(r)
  BY <1>4, <1>0 DEF BodyFails, AuthorizeRefused, ReplyOrLose
<1>5. CASE Authorized(r)
  <2>1. r \in Rows /\ UNCHANGED claims
    BY <1>5 DEF Authorized, AuthorizeFailure
  <2>2. Restates(r)
    BY <1>5, <2>1, RestateIsRow DEF Authorized, Activate, AdmissionStates
  <2>3. QED
    BY <1>5, <1>0, <2>2 DEF Authorized
<1>6. CASE CommitDenied(r) \/ CommitRefused(r, CommitFailure(r)) \/ TakeSnapshot(r)
  BY <1>6, <1>0 DEF CommitDenied, CommitRefused, TakeSnapshot, ReplyOrLose
<1>7. CASE CommitReplayed(r)
  BY <1>7, <1>0 DEF CommitReplayed, ReplyOrLose, KeepsSome
<1>8. ASSUME NEW base, CommitPublished(r, base)
      PROVE  KeepsSome /\ pc' = [pc EXCEPT ![r] = pc'[r]] /\ pc'[r] \in PCs \ {"idle"}
  BY <1>8, <1>0 DEF CommitPublished, ReplyOrLose, KeepsSome
<1>9. CASE Settle(r)
  BY <1>9, <1>0 DEF Settle, KeepsSome
<1>10. CASE Retain(r)
  <2>1. CASE MayFinish(r)
    BY <1>10, <1>0, <2>1, RestateIsRow DEF Retain, MayFinish, AdmissionStates
  <2>2. CASE ~MayFinish(r)
    BY <1>10, <1>0, <2>2 DEF Retain
  <2>3. QED
    BY <2>1, <2>2
<1>11. CASE RpcFails(r) \/ Crash(r)
  BY <1>11, <1>0 DEF RpcFails, Crash
<1>12. QED
  BY <1>1, <1>2, <1>3, <1>4, <1>5, <1>6, <1>7, <1>8, <1>9, <1>10, <1>11
     DEF RequestStep, Commit, AppendStart, AppendPublish

\* A step of the whole vault is one of the ledger's, and nobody becomes idle.
LEMMA VaultLedgerStep ==
  ASSUME LedgerInv, [Next]_vars
  PROVE  /\ LedgerStep
         /\ pc' \in [Requests -> PCs]
         /\ \A r \in Requests : pc'[r] = "idle" => pc[r] = "idle"
<1>1. CASE UNCHANGED vars
  BY <1>1 DEF vars, ledgerVars, requestVars, LedgerStep, LedgerInv
<1>2. CASE Environment
  BY <1>2 DEF Environment, Tick, RevokeClient, RunBatch, requestVars, LedgerStep, LedgerInv
<1>3. ASSUME NEW r \in Requests, RequestStep(r) \/ RpcFails(r) \/ Crash(r)
      PROVE  /\ LedgerStep
             /\ pc' \in [Requests -> PCs]
             /\ \A q \in Requests : pc'[q] = "idle" => pc[q] = "idle"
  BY <1>3, RequestLedgerStep DEF LedgerInv
<1>4. QED
  BY <1>1, <1>2, <1>3 DEF Next

\* Keeping some rows keeps their claims, and rows their columns.
LEMMA KeepInv ==
  ASSUME LedgerInv, NEW ids \in SUBSET Rows, Keep(ids)
  PROVE  /\ admissions' = [r \in Requests |-> admissions'[r]]
         /\ \A r \in Requests : admissions'[r] = NoAdmission \/ IsRow(admissions'[r])
         /\ Rows' = ids
         /\ ClaimsOwned'
<1>1. \A r \in Requests : admissions'[r] = IF r \in ids THEN admissions[r] ELSE NoAdmission
  BY DEF Keep
<1>2. Rows' = ids
  BY <1>1, RowsAreRows DEF Rows, NoAdmission
<1>3. ClaimsOwned'
  BY <1>1, <1>2 DEF Keep, LedgerInv, ClaimsOwned, ClientOf, Rows
<1>4. QED
  BY <1>1, <1>2, <1>3 DEF Keep, LedgerInv

\* The old owner of the key, if any, has expired and is the same grant's, so the
\* cleanup takes it before the key is claimed again.
LEMMA ReserveInv ==
  ASSUME LedgerInv, call \in [Requests -> AllCalls], NEW r \in Requests, Reserves(r)
  PROVE  /\ admissions' = [q \in Requests |-> admissions'[q]]
         /\ \A q \in Requests : admissions'[q] = NoAdmission \/ IsRow(admissions'[q])
         /\ \A q \in Rows' : q = r \/ q \in Rows
         /\ ClaimsOwned'
<1>1. PICK kept \in CleanedFor(Client(r)) :
        Reserve(r, call[r].grant, Key(r), DescriptorPrint(r), kept)
  BY DEF Reserves
<1>2. /\ kept \subseteq Rows /\ r \notin kept
      /\ \A q \in kept : Expired(q) => ClientOf(q) # Client(r)
  BY <1>1, CleanedAreRows DEF Reserves, LedgerInv
<1>3. call[r].grant \in Grants
  BY CallsAssumption
<1>4. /\ admissions'[r] = [state |-> "reserved", grant |-> call[r].grant,
                          fp |-> DescriptorPrint(r), expires |-> now + Ttl]
      /\ \A q \in Requests \ {r} :
           admissions'[q] = IF q \in kept THEN admissions[q] ELSE NoAdmission
      /\ admissions' = [q \in Requests |-> admissions'[q]]
  BY <1>1 DEF Reserve
<1>5. IsRow(admissions'[r])
  BY <1>3, <1>4, DurationsAssumption DEF IsRow, AdmissionStates, LedgerInv
<1>6. \A q \in Requests : admissions'[q] = NoAdmission \/ IsRow(admissions'[q])
  BY <1>4, <1>5 DEF LedgerInv
<1>7. Rows' = kept \cup {r}
  BY <1>2, <1>4, RowsAreRows DEF Rows, NoAdmission
<1>8. \A c \in claims : c.id \in kept =>
        ~(c.client = Client(r) /\ c.key = Key(r))
  <2> SUFFICES ASSUME NEW c \in claims, c.id \in kept, c.client = Client(r), c.key = Key(r)
               PROVE  FALSE
    OBVIOUS
  <2>1. c \in ClaimsOf(Client(r), Key(r))
    BY DEF ClaimsOf
  <2>2. Expired(c.id)
    BY <2>1 DEF Reserves, BeginFailure
  <2>3. ClientOf(c.id) = Client(r)
    BY DEF LedgerInv, ClaimsOwned
  <2>4. QED
    BY <1>2, <2>2, <2>3
<1>9. claims' = {c \in claims : c.id \in kept} \cup
        (IF Key(r) = NoKey THEN {} ELSE {[client |-> Client(r), key |-> Key(r), id |-> r]})
  BY <1>1 DEF Reserve, Client
<1>10. \A q \in kept : ClientOf(q)' = ClientOf(q)
  BY <1>2, <1>4 DEF ClientOf, Rows
<1>11. ClientOf(r)' = Client(r)
  BY <1>4 DEF ClientOf, Client
<1>12. \A c \in claims' : c.id \in Rows' /\ ClientOf(c.id)' = c.client
  BY <1>7, <1>9, <1>10, <1>11 DEF LedgerInv, ClaimsOwned
<1>13. \A c, d \in claims' : c.client = d.client /\ c.key = d.key => c = d
  BY <1>8, <1>9 DEF LedgerInv, ClaimsOwned
<1>14. \A c, d \in claims' : c.id = d.id => c = d
  BY <1>2, <1>9 DEF LedgerInv, ClaimsOwned
<1>15. ClaimsOwned'
  BY <1>12, <1>13, <1>14 DEF ClaimsOwned
<1>16. QED
  BY <1>2, <1>4, <1>6, <1>7, <1>15

\* Changing the state of a row disturbs no claim.
LEMMA RestateInv ==
  ASSUME LedgerInv, NEW r \in Requests, Restates(r)
  PROVE  /\ admissions' = [q \in Requests |-> admissions'[q]]
         /\ \A q \in Requests : admissions'[q] = NoAdmission \/ IsRow(admissions'[q])
         /\ Rows' = Rows
         /\ ClaimsOwned'
<1>1. \A q \in Requests : admissions'[q] = NoAdmission \/ IsRow(admissions'[q])
  BY DEF Restates, LedgerInv
<1>2. Rows' = Rows
  BY RowsAreRows DEF Restates, Rows, IsRow, AdmissionStates
<1>3. \A q \in Rows : ClientOf(q)' = ClientOf(q)
  BY DEF Restates, ClientOf, Rows
<1>4. ClaimsOwned'
  BY <1>2, <1>3 DEF Restates, LedgerInv, ClaimsOwned
<1>5. QED
  BY <1>1, <1>2, <1>4 DEF Restates

\* The clock is a number that never goes back.
LEMMA ClockStep ==
  ASSUME now \in Nat, [Next]_vars
  PROVE  now' \in Nat /\ now <= now'
<1>1. now' = now \/ now' = now + 1
  <2>1. ASSUME NEW r \in Requests, NEW base, CommitPublished(r, base)
        PROVE  now' = now
    BY <2>1 DEF CommitPublished
  <2>2. RunBatch({}) => now' = now
    BY DEF RunBatch
  <2>3. QED
    BY <2>1, <2>2, StepKinds DEF Quiet
<1>2. QED
  BY <1>1

\* Every step keeps the ledger in order.
LEMMA LedgerInvStep ==
  ASSUME LedgerInv, call \in [Requests -> AllCalls], [Next]_vars
  PROVE  LedgerInv'
<1>1. now' \in Nat /\ pc' \in [Requests -> PCs]
  BY ClockStep, VaultLedgerStep DEF LedgerInv
<1>2. \A r \in Requests : pc'[r] = "idle" => r \notin Rows
  BY VaultLedgerStep DEF LedgerInv
<1>3. CASE UNCHANGED <<admissions, claims>>
  <2>1. Rows' = Rows /\ ClaimsOwned'
    BY <1>3 DEF LedgerInv, ClaimsOwned, Rows, ClientOf
  <2>2. QED
    BY <1>1, <1>2, <1>3, <2>1 DEF LedgerInv
<1>4. CASE KeepsSome
  BY <1>1, <1>2, <1>4, KeepInv DEF KeepsSome, LedgerInv
<1>5. ASSUME NEW r \in Requests, Reserves(r)
      PROVE  LedgerInv'
  BY <1>1, <1>2, <1>5, ReserveInv DEF Reserves, LedgerInv
<1>6. ASSUME NEW r \in Requests, Restates(r)
      PROVE  LedgerInv'
  BY <1>1, <1>2, <1>6, RestateInv DEF LedgerInv
<1>7. QED
  BY <1>3, <1>4, <1>5, <1>6, VaultLedgerStep DEF LedgerStep

\* The strengthening of ClaimsOwned is an invariant of the whole vault.
LEMMA LedgerInvHolds == Spec => []LedgerInv
<1>1. Init => LedgerInv
  BY DEF Init, InitLedger, LedgerInv, ClaimsOwned, Rows, PCs, NoAdmission
<1>2. LedgerInv /\ call \in [Requests -> AllCalls] /\ [Next]_vars => LedgerInv'
  BY LedgerInvStep
<1>3. QED
  BY <1>1, <1>2, CallsStay, PTL DEF Spec

\* An idempotency key is owned by at most one retained admission, of the client
\* that claimed it, through every cleanup, settlement, replay and crash.
THEOREM ClaimsOwnedHolds == Spec => []ClaimsOwned
<1>1. LedgerInv => ClaimsOwned
  BY DEF LedgerInv
<1>2. QED
  BY <1>1, LedgerInvHolds, PTL

-----------------------------------------------------------------------------
(* The admission limits.                                                    *)

\* There are finitely many rows, since there are finitely many requests.
LEMMA FiniteRows ==
  /\ IsFiniteSet(Rows)
  /\ \A client : IsFiniteSet(Unexpired(client)) /\ Unexpired(client) \subseteq Rows
  BY RequestsAssumption, FS_Subset DEF Rows, Unexpired

\* Fewer unexpired rows for a client, and fewer rows, stay within the limits.
LEMMA FewerIsBounded ==
  ASSUME AdmissionsBounded, LedgerInv, Rows' \subseteq Rows, now' \in Nat, now <= now',
         \A q \in Rows' : /\ admissions'[q].grant = admissions[q].grant
                          /\ admissions'[q].expires = admissions[q].expires
  PROVE  AdmissionsBounded'
<1>1. \A q \in Rows' : IsRow(admissions[q])
  BY RowsAreRows DEF Rows
<1>2. \A client \in Clients : Unexpired(client)' \subseteq Unexpired(client)
  <2> SUFFICES ASSUME NEW client \in Clients, NEW q \in Unexpired(client)'
               PROVE  q \in Unexpired(client)
    OBVIOUS
  <2>1. q \in Rows' /\ ~(admissions'[q].expires <= now') /\ ClientOf(q)' = client
    BY DEF Unexpired, ExpiredRows, Expired
  <2>2. ~(admissions[q].expires <= now) /\ ClientOf(q) = client
    <3>1. /\ admissions'[q].grant = admissions[q].grant
          /\ admissions'[q].expires = admissions[q].expires
      BY <2>1
    <3>2. admissions[q].expires \in Nat /\ now \in Nat
      BY <1>1, <2>1 DEF IsRow, LedgerInv
    <3>3. ~(admissions[q].expires <= now)
      BY <2>1, <3>1, <3>2
    <3>4. ClientOf(q) = client
      BY <2>1, <3>1 DEF ClientOf
    <3>5. QED
      BY <3>3, <3>4
  <2>3. QED
    BY <2>1, <2>2 DEF Unexpired, ExpiredRows, Expired
<1>3. ASSUME NEW client \in Clients
      PROVE  Cardinality(Unexpired(client)') <= Cardinality(Unexpired(client))
  <2>1. Unexpired(client)' \in SUBSET Unexpired(client)
    BY <1>2
  <2>2. IsFiniteSet(Unexpired(client))
    BY FiniteRows
  <2>3. QED
    BY <2>1, <2>2, FS_Subset
<1>4. Cardinality(Rows') <= Cardinality(Rows)
  <2>1. IsFiniteSet(Rows) /\ Rows' \in SUBSET Rows
    BY FiniteRows
  <2>2. QED
    BY <2>1, FS_Subset
<1>5. /\ Cardinality(Rows') \in Nat /\ Cardinality(Rows) \in Nat
      /\ \A client \in Clients : /\ Cardinality(Unexpired(client)') \in Nat
                                /\ Cardinality(Unexpired(client)) \in Nat
  <2>1. IsFiniteSet(Rows) /\ IsFiniteSet(Rows')
    BY FiniteRows, FS_Subset
  <2>2. \A client \in Clients : IsFiniteSet(Unexpired(client)) /\ IsFiniteSet(Unexpired(client)')
    <3> SUFFICES ASSUME NEW client \in Clients
                 PROVE  IsFiniteSet(Unexpired(client)) /\ IsFiniteSet(Unexpired(client)')
      OBVIOUS
    <3>1. IsFiniteSet(Unexpired(client)) /\ Unexpired(client)' \in SUBSET Unexpired(client)
      BY <1>2, FiniteRows
    <3>2. QED
      BY <3>1, FS_Subset
  <2>3. QED
    BY <2>1, <2>2, FS_CardinalityType
<1>6. QED
  BY <1>3, <1>4, <1>5, AdmissionLimitsAssumption DEF AdmissionsBounded

\* A reservation is made only below both limits, after the cleanup.
LEMMA ReserveIsBounded ==
  ASSUME AdmissionsBounded, LedgerInv, call \in [Requests -> AllCalls],
         NEW r \in Requests, Reserves(r)
  PROVE  AdmissionsBounded'
<1>1. PICK kept \in CleanedFor(Client(r)) :
        /\ ~AdmissionFull(Client(r), kept)
        /\ Reserve(r, call[r].grant, Key(r), DescriptorPrint(r), kept)
  BY DEF Reserves
<1>2. /\ kept \subseteq Rows /\ r \notin Rows /\ now' = now
  BY <1>1, CleanedAreRows DEF Reserves, LedgerInv
<1>3. /\ admissions'[r] = [state |-> "reserved", grant |-> call[r].grant,
                          fp |-> DescriptorPrint(r), expires |-> now + Ttl]
      /\ \A q \in Requests \ {r} :
           admissions'[q] = IF q \in kept THEN admissions[q] ELSE NoAdmission
  BY <1>1 DEF Reserve
<1>4. Rows' = kept \cup {r}
  BY <1>2, <1>3, RowsAreRows DEF Rows, NoAdmission
<1>5. ClientOf(r)' = Client(r) /\ \A q \in kept : ClientOf(q)' = ClientOf(q)
  BY <1>2, <1>3 DEF ClientOf, Client, Rows
<1>6. \A client \in Clients :
        Unexpired(client)' \subseteq Unexpired(client) \cup (IF client = Client(r) THEN {r} ELSE {})
  BY <1>2, <1>3, <1>4, <1>5 DEF Unexpired, ExpiredRows, Expired, Rows
<1>7. Cardinality(Unexpired(Client(r))) < ClientLimit /\ Cardinality(kept) < VaultLimit
  BY <1>1, <1>2, FiniteRows, FS_Subset, FS_CardinalityType, AdmissionLimitsAssumption DEF AdmissionFull
<1>8. Cardinality(Rows') <= VaultLimit
  BY <1>2, <1>4, <1>7, FiniteRows, FS_Subset, FS_AddElement, FS_CardinalityType, AdmissionLimitsAssumption
<1>9. ASSUME NEW client \in Clients
      PROVE  Cardinality(Unexpired(client)') <= ClientLimit
  <2>1. CASE client = Client(r)
    <3>1. /\ IsFiniteSet(Unexpired(client) \cup {r})
          /\ Cardinality(Unexpired(client) \cup {r}) <= Cardinality(Unexpired(client)) + 1
      <4>1. IsFiniteSet(Unexpired(client)) /\ r \notin Unexpired(client)
        BY <1>2, FiniteRows
      <4>2. /\ IsFiniteSet(Unexpired(client) \cup {r})
            /\ Cardinality(Unexpired(client) \cup {r}) = Cardinality(Unexpired(client)) + 1
        BY <4>1, FS_AddElement, Zenon
      <4>3. Cardinality(Unexpired(client)) \in Nat
        BY <4>1, FS_CardinalityType
      <4>4. QED
        BY <4>2, <4>3
    <3>2. Unexpired(client)' \subseteq Unexpired(client) \cup {r}
      BY <1>6, <2>1
    <3>3. QED
      BY <1>7, <2>1, <3>1, <3>2, FiniteRows, FS_Subset, FS_CardinalityType, AdmissionLimitsAssumption
  <2>2. CASE client # Client(r)
    <3>1. Unexpired(client)' \subseteq Unexpired(client)
      BY <1>6, <2>2
    <3>2. QED
      BY <3>1, FiniteRows, FS_Subset, FS_CardinalityType, AdmissionLimitsAssumption DEF AdmissionsBounded
  <2>3. QED
    BY <2>1, <2>2
<1>10. QED
  BY <1>8, <1>9 DEF AdmissionsBounded

\* Whatever expired, crashed or was left uncertain, the limits hold.
THEOREM AdmissionsBoundedHolds == Spec => []AdmissionsBounded
<1>1. Init => AdmissionsBounded
  <2> SUFFICES ASSUME Init PROVE AdmissionsBounded
    OBVIOUS
  <2>1. Rows = {}
    BY DEF Init, InitLedger, Rows, NoAdmission
  <2>2. \A client \in Clients : Unexpired(client) = {}
    BY <2>1 DEF Unexpired
  <2>3. QED
    BY <2>1, <2>2, FS_EmptySet, AdmissionLimitsAssumption DEF AdmissionsBounded
<1>2. AdmissionsBounded /\ LedgerInv /\ call \in [Requests -> AllCalls] /\ [Next]_vars
        => AdmissionsBounded'
  <2> SUFFICES ASSUME AdmissionsBounded, LedgerInv, call \in [Requests -> AllCalls], [Next]_vars
               PROVE  AdmissionsBounded'
    OBVIOUS
  <2>1. now' \in Nat /\ now <= now'
    BY ClockStep DEF LedgerInv
  <2>2. CASE UNCHANGED <<admissions, claims>>
    BY <2>1, <2>2, FewerIsBounded DEF Rows
  <2>3. ASSUME NEW ids \in SUBSET Rows, Keep(ids)
        PROVE  AdmissionsBounded'
    <3>1. Rows' = ids /\ \A q \in ids : admissions'[q] = admissions[q]
      BY <2>3, KeepInv DEF Keep, Rows
    <3>2. QED
      BY <2>1, <3>1, FewerIsBounded
  <2>4. ASSUME NEW r \in Requests, Reserves(r)
        PROVE  AdmissionsBounded'
    BY <2>4, ReserveIsBounded
  <2>5. ASSUME NEW r \in Requests, Restates(r)
        PROVE  AdmissionsBounded'
    <3>1. Rows' = Rows
      BY <2>5, RestateInv
    <3>2. \A q \in Rows : /\ admissions'[q].grant = admissions[q].grant
                          /\ admissions'[q].expires = admissions[q].expires
      BY <2>5 DEF Restates, Rows
    <3>3. QED
      BY <2>1, <3>1, <3>2, FewerIsBounded
  <2>6. QED
    BY <2>2, <2>3, <2>4, <2>5, VaultLedgerStep DEF LedgerStep, KeepsSome
<1>3. QED
  BY <1>1, <1>2, CallsStay, LedgerInvHolds, PTL DEF Spec

-----------------------------------------------------------------------------
(* The steps, as the file tables and the answers see them.                  *)

\* The steps at which a request has neither published nor been answered.
Early == {"idle", "body", "commit", "publish"}

\* An append that waits for its digest has read a live row that leaves room.
SnapshotFits(r) ==
  pc[r] = "publish" =>
    /\ TheIntent(r).op = "append" /\ ~snapshot[r].deleted
    /\ Len(snapshot[r].text \o TheIntent(r).text) <= MaxText

\* What is not about any table: who asks, where the requests are, what they read.
RequestInv ==
  /\ LedgerInv /\ call \in [Requests -> AllCalls]
  /\ snapshot \in [Requests -> FileRow]
  /\ \A r \in Requests : SnapshotFits(r)

\* A request publishes; an append, on the row that is there now.
Publishes(r, base) ==
  /\ pc[r] \in {"commit", "publish"} /\ base \in Text
  /\ CommitPublished(r, base)
  /\ TheIntent(r).op = "append" =>
       /\ Live(TheIntent(r).path) /\ base = files[TheIntent(r).path].text
       /\ Len(base \o TheIntent(r).text) <= MaxText

\* The answers are a function of the requests.
AnswersTyped == answer = [r \in Requests |-> answer[r]]

\* What a step that does not publish may answer.
LosesReply(r) == answer'[r] = Unknown /\ pc'[r] \notin Early
Refuses(r) == answer'[r].kind = "refused" /\ pc[r] \in Early /\ pc'[r] \notin Early
Replays(r) == /\ HasReceipt(r) /\ ReceiptOf(r).fp = FullPrint(r)
              /\ answer'[r] = Ok(ReceiptOf(r).body) /\ pc'[r] \notin Early
StaysSilent(r) == answer'[r] = answer[r] /\ (pc'[r] \in Early => pc[r] \in Early)

\* A request takes a step that does not publish.
Moves(r) ==
  /\ UNCHANGED <<fileVars, retentionVars, published, receipts, revoked, now, call>>
  /\ AnswersTyped'
  /\ \A q \in Requests \ {r} :
       pc'[q] = pc[q] /\ answer'[q] = answer[q] /\ snapshot'[q] = snapshot[q]
  /\ LosesReply(r) \/ Refuses(r) \/ Replays(r) \/ StaysSilent(r)
  /\ \/ snapshot' = snapshot /\ pc'[r] # "publish"
     \/ /\ snapshot' = [snapshot EXCEPT ![r] = files[TheIntent(r).path]]
        /\ TheIntent(r).op = "append" /\ SnapshotFailure(r) = "none"

\* Nothing but the clock, the revocations or the tables of a batch changes.
Passes ==
  /\ UNCHANGED <<requestVars, published>>
  /\ \/ RunBatch({})
     \/ /\ UNCHANGED <<fileVars, retentionVars, receipts>>
        /\ now' \in Nat /\ now <= now'
        /\ revoked' = revoked \/ \E client \in Clients : RevokeClient(client)

\* A step of a request publishes or is one of the moves.
LEMMA RequestSteps ==
  ASSUME RequestInv, AnswersTyped, NEW r \in Requests, RequestStep(r) \/ RpcFails(r) \/ Crash(r)
  PROVE  Moves(r) \/ \E base \in Text : Publishes(r, base)
<1>1. pc \in [Requests -> PCs] /\ snapshot \in [Requests -> FileRow]
  BY DEF RequestInv, LedgerInv
<1> USE <1>1 DEF AnswersTyped, Moves, LosesReply, Refuses, Replays, StaysSilent, Early, KeepFiles,
                 Go, Answer, Refused, Unknown, Ok, ledgerVars
<1>2. CASE BeginRefused(r)
  BY <1>2 DEF BeginRefused
<1>3. CASE BeginLimited(r)
  BY <1>3 DEF BeginLimited
<1>4. CASE BeginReserved(r)
  BY <1>4 DEF BeginReserved
<1>5. CASE BodyFails(r)
  BY <1>5 DEF BodyFails
<1>6. CASE AuthorizeRefused(r)
  BY <1>6 DEF AuthorizeRefused, ReplyOrLose
<1>7. CASE Authorized(r)
  BY <1>7 DEF Authorized
<1>8. ASSUME pc[r] \in {"commit", "publish"}, CommitDenied(r)
      PROVE  Moves(r)
  BY <1>8 DEF CommitDenied, ReplyOrLose
<1>9. ASSUME pc[r] \in {"commit", "publish"}, CommitReplayed(r)
      PROVE  Moves(r)
  BY <1>9 DEF CommitReplayed, ReplyOrLose
<1>10. ASSUME pc[r] \in {"commit", "publish"}, CommitRefused(r, CommitFailure(r))
       PROVE  Moves(r)
  BY <1>10 DEF CommitRefused, ReplyOrLose
<1>11. ASSUME pc[r] \in {"commit", "publish"}, TheIntent(r).op = "append", TakeSnapshot(r)
       PROVE  Moves(r)
  BY <1>11 DEF TakeSnapshot, ReplyOrLose
<1>12. CASE Commit(r)
  <2>1. <<>> \in Text
    BY DEF Text
  <2>2. QED
    BY <1>8, <1>9, <1>10, <1>12, <2>1 DEF Commit, Publishes
<1>13. CASE AppendStart(r)
  BY <1>8, <1>9, <1>11, <1>13 DEF AppendStart
<1>14. CASE AppendPublish(r)
  <2>1. pc[r] = "publish" /\ TheIntent(r).op = "append" /\ ~snapshot[r].deleted
        /\ Len(snapshot[r].text \o TheIntent(r).text) <= MaxText
    BY <1>14 DEF AppendPublish, RequestInv, SnapshotFits
  <2>2. ASSUME SnapshotCurrent(r), CommitPublished(r, snapshot[r].text)
        PROVE  Publishes(r, snapshot[r].text) /\ snapshot[r].text \in Text
    <3>1. snapshot[r].text \in Text
      BY DEF FileRow
    <3>2. files[TheIntent(r).path] = snapshot[r]
      BY <2>2 DEF SnapshotCurrent
    <3>3. QED
      BY <2>1, <2>2, <3>1, <3>2 DEF Publishes, Live
  <2>3. QED
    BY <1>8, <1>9, <1>10, <1>11, <1>14, <2>1, <2>2 DEF AppendPublish
<1>15. CASE Settle(r)
  BY <1>15 DEF Settle
<1>16. CASE Retain(r)
  BY <1>16 DEF Retain
<1>17. CASE RpcFails(r)
  BY <1>17 DEF RpcFails
<1>18. CASE Crash(r)
  BY <1>18 DEF Crash
<1>19. QED
  BY <1>2, <1>3, <1>4, <1>5, <1>6, <1>7, <1>12, <1>13, <1>14, <1>15, <1>16, <1>17, <1>18
     DEF RequestStep

\* A step of the vault is one of a request's, or passes over all of them.
LEMMA VaultSteps ==
  ASSUME RequestInv, AnswersTyped, [Next]_vars
  PROVE  \/ \E r \in Requests : Moves(r) \/ \E base \in Text : Publishes(r, base)
         \/ Passes
<1>1. now \in Nat
  BY DEF RequestInv, LedgerInv
<1>2. CASE UNCHANGED vars
  BY <1>1, <1>2 DEF vars, ledgerVars, Passes
<1>3. CASE Environment
  BY <1>1, <1>3 DEF Environment, Tick, RevokeClient, Passes
<1>4. QED
  BY <1>2, <1>3, RequestSteps DEF Next

-----------------------------------------------------------------------------
(* What is published, and what the tables then hold.                        *)

\* No text is longer than the service accepts.
TextsFit ==
  /\ \A p \in Paths : Len(files[p].text) <= MaxText
  /\ \A v \in revisions : Len(v.text) <= MaxText

\* What a request may ask.
LEMMA CallsAsked ==
  ASSUME RequestInv, NEW r \in Requests
  PROVE  /\ call[r] \in AllCalls /\ call[r].grant \in Grants /\ Client(r) \in Clients
         /\ Key(r) \in Keys \cup {NoKey}
         /\ TheIntent(r) \in Intent /\ WellFormed(TheIntent(r))
         /\ Len(TheIntent(r).text) <= MaxText
<1>1. call[r] \in AllCalls
  BY DEF RequestInv
<1>2. QED
  BY <1>1, CallsAssumption, GrantsAssumption DEF Client, Key, TheIntent

\* A commit that passed its checks publishes an intent that passed them.
LEMMA PublishedIsAdmitted ==
  ASSUME RequestInv, NEW r \in Requests, NEW base, Publishes(r, base)
  PROVE  Admitted(TheIntent(r)) /\ Publish(TheIntent(r), base, now)
<1>1. CommitFailure(r) = "none" /\ Publish(TheIntent(r), base, now)
  BY DEF Publishes, CommitPublished
<1>2. PreconditionFailure(TheIntent(r)) = "none" /\ PublishFailure(TheIntent(r)) = "none"
  BY <1>1 DEF CommitFailure
<1>3. QED
  BY <1>1, <1>2, CallsAsked DEF Admitted, Publishes

\* What a publication writes to the history of texts, row by row.
LEMMA PublishedRevisions ==
  ASSUME NEW i, NEW base, NEW t, Publish(i, base, t), NEW v \in revisions', v \notin revisions
  PROVE  \/ /\ v.path = Target(i) /\ v.rev = files[Target(i)].rev + 1
            /\ v.deleted = (i.op = "delete") /\ v.text = PublishedText(i, base)
         \/ v.deleted /\ v.text = <<>>
<1>1. PICK p \in Written(i) :
        v = [path |-> p, rev |-> WrittenRow(i, p, base).rev,
             deleted |-> WrittenRow(i, p, base).deleted,
             text |-> WrittenRow(i, p, base).text, at |-> t]
  BY DEF Publish
<1>2. /\ v.path = p /\ v.rev = files[p].rev + 1
      /\ v.deleted = (i.op = "delete" \/ p # Target(i))
      /\ v.text = IF p = Target(i) THEN PublishedText(i, base) ELSE <<>>
  BY <1>1 DEF WrittenRow
<1>3. QED
  BY <1>2

\* A text that is published fits, an append's because it is not stale.
LEMMA PublishedTextFits ==
  ASSUME TablesInv, RequestInv, TextsFit, NEW r \in Requests, NEW base, Publishes(r, base)
  PROVE  Len(PublishedText(TheIntent(r), base)) <= MaxText
<1> DEFINE i == TheIntent(r)
<1>1. Admitted(i) /\ Len(i.text) <= MaxText
  BY PublishedIsAdmitted, CallsAsked
<1>2. CASE i.op = "append"
  BY <1>2 DEF Publishes, PublishedText
<1>3. CASE i.op = "restore"
  <2>1. RestoreSources(i) # {}
    BY <1>1, <1>3 DEF Admitted, PublishFailure
  <2>2. (CHOOSE v \in RestoreSources(i) : TRUE) \in revisions
    BY <2>1 DEF RestoreSources
  <2>3. QED
    BY <1>3, <2>2 DEF PublishedText, TextsFit
<1>4. CASE i.op = "rename"
  BY <1>1, <1>4 DEF PublishedText, TextsFit, Admitted, Intent
<1>5. CASE i.op = "put"
  BY <1>1, <1>5 DEF PublishedText
<1>6. CASE i.op = "delete"
  <2>1. Len(<<>>) = 0
    OBVIOUS
  <2>2. QED
    BY <1>6, <2>1, LimitsAssumption DEF PublishedText
<1>7. QED
  BY <1>1, <1>2, <1>3, <1>4, <1>5, <1>6 DEF Admitted, Intent, Ops

\* Publishing keeps the tables in order and their texts short enough.
LEMMA PublishKeepsTables ==
  ASSUME TablesInv, RequestInv, TextsFit, NEW r \in Requests, NEW base, Publishes(r, base)
  PROVE  TablesInv' /\ TextsFit'
<1>1. Admitted(TheIntent(r)) /\ Publish(TheIntent(r), base, now) /\ base \in Text
  BY PublishedIsAdmitted DEF Publishes
<1>2. UNCHANGED <<now, prunedFeed>>
  BY DEF Publishes, CommitPublished, retentionVars
<1>3. TablesInv'
  BY <1>1, <1>2, TablesPublish
<1>4. Len(PublishedText(TheIntent(r), base)) <= MaxText /\ Len(<<>>) <= MaxText
  BY PublishedTextFits, LimitsAssumption
<1>5. \A p \in Paths : files'[p].text \in {files[p].text, PublishedText(TheIntent(r), base), <<>>}
  BY <1>1 DEF Publish, WrittenRow
<1>6. \A v \in revisions' : v \in revisions \/ v.text \in {PublishedText(TheIntent(r), base), <<>>}
  BY <1>1, PublishedRevisions
<1>7. QED
  BY <1>3, <1>4, <1>5, <1>6 DEF TextsFit

\* So does every step.
LEMMA TablesSteps ==
  ASSUME TablesInv, RequestInv, AnswersTyped, TextsFit, [Next]_vars
  PROVE  TablesInv' /\ TextsFit'
<1>1. ASSUME NEW r \in Requests, Moves(r)
      PROVE  TablesInv' /\ TextsFit'
  <2>1. UNCHANGED <<fileVars, prunedFeed, now>> /\ UNCHANGED <<files, revisions>>
    BY <1>1 DEF Moves, fileVars, retentionVars
  <2>2. TablesInv'
    BY <2>1, TablesIdle DEF TablesInv
  <2>3. QED
    BY <2>1, <2>2 DEF TextsFit
<1>2. CASE Passes
  <2>1. CASE RunBatch({})
    <3>1. TablesInv'
      BY <2>1, TablesBatch
    <3>2. files' = files /\ revisions' \subseteq revisions
      BY <2>1, BatchTakesAway DEF TablesInv
    <3>3. QED
      BY <3>1, <3>2 DEF TextsFit
  <2>2. CASE UNCHANGED <<fileVars, retentionVars>> /\ now' \in Nat
    <3>1. UNCHANGED <<fileVars, prunedFeed>> /\ UNCHANGED <<files, revisions>>
      BY <2>2 DEF fileVars, retentionVars
    <3>2. TablesInv'
      BY <2>2, <3>1, TablesIdle
    <3>3. QED
      BY <3>1, <3>2 DEF TextsFit
  <2>3. QED
    BY <1>2, <2>1, <2>2 DEF Passes
<1>3. QED
  BY <1>1, <1>2, VaultSteps, PublishKeepsTables

\* A text has a length.
LEMMA LengthIsNatural ==
  ASSUME NEW S, NEW s \in Seq(S)
  PROVE  Len(s) \in Nat
  OBVIOUS

\* What an append read stays what it read until it reads again.
LEMMA RequestsStep ==
  ASSUME TablesInv, RequestInv, AnswersTyped, [Next]_vars
  PROVE  RequestInv' /\ AnswersTyped'
<1>1. LedgerInv'
  BY LedgerInvStep DEF RequestInv
<1>2. pc \in [Requests -> PCs] /\ pc' \in [Requests -> PCs]
  BY <1>1 DEF RequestInv, LedgerInv
<1>3. CASE Passes
  BY <1>1, <1>3 DEF Passes, requestVars, RequestInv, SnapshotFits, TheIntent, AnswersTyped
<1>4. ASSUME NEW r \in Requests, NEW base, Publishes(r, base)
      PROVE  RequestInv' /\ AnswersTyped'
  <2>1. UNCHANGED <<call, snapshot>> /\ ReplyOrLose(r, Ok(Response(TheIntent(r))))
    BY <1>4 DEF Publishes, CommitPublished
  <2>2. pc' = [pc EXCEPT ![r] = "settle"] \/ pc' = [pc EXCEPT ![r] = "retain"]
    BY <2>1 DEF ReplyOrLose, Go
  <2>3. \A q \in Requests : pc'[q] = "publish" => pc[q] = "publish"
    BY <1>2, <2>2
  <2>4. AnswersTyped'
    BY <2>1 DEF ReplyOrLose, Answer, AnswersTyped
  <2>5. QED
    BY <1>1, <2>1, <2>3, <2>4 DEF RequestInv, SnapshotFits, TheIntent
<1>5. ASSUME NEW r \in Requests, Moves(r)
      PROVE  RequestInv' /\ AnswersTyped'
  <2>1. call' = call /\ AnswersTyped'
    BY <1>5 DEF Moves
  <2>2. \A q \in Requests \ {r} : SnapshotFits(q)'
    BY <1>5, <2>1 DEF Moves, RequestInv, SnapshotFits, TheIntent
  <2>3. CASE snapshot' = snapshot /\ pc'[r] # "publish"
    BY <1>1, <2>1, <2>2, <2>3 DEF RequestInv, SnapshotFits
  <2>4. CASE /\ snapshot' = [snapshot EXCEPT ![r] = files[TheIntent(r).path]]
             /\ TheIntent(r).op = "append" /\ SnapshotFailure(r) = "none"
    <3>1. TheIntent(r).path \in Paths
      BY CallsAsked DEF Intent
    <3>2. files[TheIntent(r).path] \in FileRow
      BY <3>1 DEF TablesInv, FilesTypeOK
    <3>3. snapshot' \in [Requests -> FileRow] /\ snapshot'[r] = files[TheIntent(r).path]
      BY <2>4, <3>2 DEF RequestInv
    <3>4. /\ Live(TheIntent(r).path)
          /\ ~(Len(files[TheIntent(r).path].text \o TheIntent(r).text) > MaxText)
      BY <2>4 DEF SnapshotFailure
    <3>5. Len(files[TheIntent(r).path].text \o TheIntent(r).text) \in Nat
      <4>1. files[TheIntent(r).path].text \in Seq(Tokens) /\ TheIntent(r).text \in Seq(Tokens)
        BY <3>2, CallsAsked DEF FileRow, Intent, Text
      <4>2. files[TheIntent(r).path].text \o TheIntent(r).text \in Seq(Tokens)
        BY <4>1
      <4>3. QED
        BY <4>2, LengthIsNatural, Zenon
    <3>6. SnapshotFits(r)'
      <4>1. TheIntent(r)' = TheIntent(r)
        BY <2>1 DEF TheIntent
      <4>2. Len(snapshot'[r].text \o TheIntent(r).text) <= MaxText
        <5> DEFINE n == Len(files[TheIntent(r).path].text \o TheIntent(r).text)
        <5>1. n \in Nat /\ ~(n > MaxText)
          BY <3>4, <3>5
        <5>2. n <= MaxText
          <6> HIDE DEF n
          <6>1. QED
            BY <5>1, LimitsAssumption
        <5>3. QED
          BY <3>3, <5>2
      <4>3. ~snapshot'[r].deleted
        BY <3>3, <3>4 DEF Live
      <4>4. QED
        BY <2>4, <4>1, <4>2, <4>3 DEF SnapshotFits
    <3>7. QED
      BY <1>1, <2>1, <2>2, <3>3, <3>6 DEF RequestInv
  <2>5. QED
    BY <1>5, <2>3, <2>4 DEF Moves
<1>6. QED
  BY <1>3, <1>4, <1>5, VaultSteps

\* The tables and the requests of the whole vault.
CoreInv == TablesInv /\ RequestInv /\ AnswersTyped /\ TextsFit

\* Tables and requests stay in order.
LEMMA CoreInvHolds == Spec => []CoreInv
<1>1. Init => CoreInv
  <2> SUFFICES ASSUME Init PROVE CoreInv
    OBVIOUS
  <2>1. TablesInv
    BY TablesBegin DEF Init
  <2>2. LedgerInv
    BY <2>1 DEF Init, InitLedger, LedgerInv, ClaimsOwned, Rows, PCs, NoAdmission
  <2>3. NoRow \in FileRow /\ Len(NoRow.text) = 0
    <3>1. <<>> \in Text /\ Len(<<>>) = 0
      BY DEF Text
    <3>2. QED
      BY <3>1 DEF NoRow, FileRow
  <2>4. RequestInv
    BY <2>2, <2>3 DEF Init, RequestInv, SnapshotFits, AllCalls
  <2>5. AnswersTyped
    BY DEF Init, AnswersTyped
  <2>6. TextsFit
    BY <2>3, LimitsAssumption DEF Init, FilesInit, TextsFit
  <2>7. QED
    BY <2>1, <2>4, <2>5, <2>6 DEF CoreInv
<1>2. CoreInv /\ [Next]_vars => CoreInv'
  BY TablesSteps, RequestsStep DEF CoreInv
<1>3. QED
  BY <1>1, <1>2, PTL DEF Spec

\* The rename, restore and put of many clients never leave two live files that a
\* case-insensitive device cannot keep apart.
THEOREM NoLiveAliasesHolds == Spec => []NoLiveAliases
<1>1. CoreInv => NoLiveAliases
  BY DEF CoreInv, TablesInv
<1>2. QED
  BY <1>1, CoreInvHolds, PTL

-----------------------------------------------------------------------------
(* Types.                                                                   *)

\* The columns of claims, receipts, the retention cursor and the history.
ColumnsTyped ==
  /\ revoked \subseteq Grants
  /\ claims \subseteq [client: Clients, key: Keys, id: Requests]
  /\ \A x \in receipts : /\ x.client \in Clients /\ x.key \in Keys
                         /\ x.body \in Body /\ x.at \in 0..now
  /\ category \in CategorySet /\ reduced \in BOOLEAN
  /\ \A e \in published : /\ e.id \in Requests /\ e.grant \in Grants
                          /\ e.key \in Keys \cup {NoKey}
                          /\ e.body \in Body /\ e.at \in 0..now

\* A reservation claims its key for its client.
LEMMA ClaimsTyped ==
  ASSUME RequestInv, claims \subseteq [client: Clients, key: Keys, id: Requests], [Next]_vars
  PROVE  claims' \subseteq [client: Clients, key: Keys, id: Requests]
<1>1. CASE UNCHANGED claims
  BY <1>1
<1>2. CASE KeepsSome
  BY <1>2 DEF KeepsSome, Keep
<1>3. ASSUME NEW r \in Requests, Reserves(r)
      PROVE  claims' \subseteq [client: Clients, key: Keys, id: Requests]
  <2>1. claims' \subseteq claims \cup
          (IF Key(r) = NoKey THEN {} ELSE {[client |-> Client(r), key |-> Key(r), id |-> r]})
    BY <1>3 DEF Reserves, Reserve, Client
  <2>2. QED
    BY <2>1, CallsAsked
<1>4. QED
  BY <1>1, <1>2, <1>3, VaultLedgerStep DEF LedgerStep, Restates, RequestInv

\* The response of a publication is one.
LEMMA ResponseTyped ==
  ASSUME TablesInv, RequestInv, NEW r \in Requests
  PROVE  Response(TheIntent(r)) \in Body
<1>1. Target(TheIntent(r)) \in Paths
  BY CallsAsked DEF Intent, WellFormed, Target
<1>2. files[Target(TheIntent(r))].rev \in Nat /\ head \in Nat
  BY <1>1 DEF TablesInv, FilesTypeOK, FileRow
<1>3. QED
  BY <1>1, <1>2 DEF Response, Body

\* Every step writes columns of their types.
LEMMA ColumnsStep ==
  ASSUME CoreInv, ColumnsTyped, [Next]_vars
  PROVE  ColumnsTyped'
<1> USE DEF CoreInv
<1>1. claims' \subseteq [client: Clients, key: Keys, id: Requests]
  BY ClaimsTyped DEF ColumnsTyped
<1>2. now \in Nat /\ now' \in Nat /\ now <= now'
  BY ClockStep DEF TablesInv
<1>3. \A t \in 0..now : t \in 0..now'
  BY <1>2
<1>4. ASSUME NEW r \in Requests, NEW base, Publishes(r, base)
      PROVE  ColumnsTyped'
  <2>1. UNCHANGED <<now, revoked, category, reduced>>
    BY <1>4 DEF Publishes, CommitPublished, retentionVars
  <2>2. \A x \in receipts' :
          /\ x.client \in Clients /\ x.key \in Keys /\ x.body \in Body /\ x.at \in 0..now
    <3>1. receipts' = receipts \cup (IF Key(r) = NoKey THEN {} ELSE {NewReceipt(r)})
      BY <1>4 DEF Publishes, CommitPublished
    <3>2. /\ NewReceipt(r).client = Client(r) /\ NewReceipt(r).key = Key(r)
          /\ NewReceipt(r).body = Response(TheIntent(r)) /\ NewReceipt(r).at = now
      BY DEF NewReceipt
    <3>3. now \in 0..now
      BY <1>2
    <3>4. QED
      BY <3>1, <3>2, <3>3, CallsAsked, ResponseTyped DEF ColumnsTyped
  <2>3. \A e \in published' :
          /\ e.id \in Requests /\ e.grant \in Grants /\ e.key \in Keys \cup {NoKey}
          /\ e.body \in Body /\ e.at \in 0..now
    <3>1. published' = published \cup {Publication(r, base)}
      BY <1>4 DEF Publishes, CommitPublished
    <3>2. /\ Publication(r, base).id = r /\ Publication(r, base).grant = call[r].grant
          /\ Publication(r, base).key = Key(r) /\ Publication(r, base).at = now
          /\ Publication(r, base).body = Response(TheIntent(r))
      BY DEF Publication
    <3>3. now \in 0..now
      BY <1>2
    <3>4. QED
      BY <3>1, <3>2, <3>3, CallsAsked, ResponseTyped DEF ColumnsTyped
  <2>4. QED
    BY <1>1, <2>1, <2>2, <2>3 DEF ColumnsTyped
<1>5. ASSUME NEW r \in Requests, Moves(r)
      PROVE  ColumnsTyped'
  BY <1>1, <1>5 DEF Moves, retentionVars, ColumnsTyped
<1>6. CASE Passes
  <2>1. CASE RunBatch({})
    BY <1>1, <1>6, <2>1, BatchTakesAway DEF Passes, TablesInv, ColumnsTyped
  <2>2. CASE UNCHANGED <<fileVars, retentionVars, receipts>> /\ ~RunBatch({})
    <3>1. revoked' \subseteq Grants
      BY <1>6, <2>2 DEF Passes, RevokeClient, ColumnsTyped
    <3>2. QED
      BY <1>1, <1>3, <1>6, <2>2, <3>1 DEF Passes, retentionVars, ColumnsTyped
  <2>3. QED
    BY <1>6, <2>1, <2>2 DEF Passes
<1>7. QED
  BY <1>4, <1>5, <1>6, VaultSteps

\* The columns stay typed.
LEMMA ColumnsTypedHolds == Spec => []ColumnsTyped
<1>1. Init => ColumnsTyped
  <2>1. Categories[1] = "changes" /\ 1 \in 1..4
    BY DEF Categories
  <2>2. "changes" \in CategorySet
    BY <2>1 DEF CategorySet
  <2>3. QED
    BY <2>2 DEF Init, InitLedger, InitRetention, ColumnsTyped
<1>2. CoreInv /\ ColumnsTyped /\ [Next]_vars => ColumnsTyped'
  BY ColumnsStep
<1>3. QED
  BY <1>1, <1>2, CoreInvHolds, PTL DEF Spec

\* Every variable has its type, and no file is ever longer than the service
\* accepts, however appends race and whatever is restored.
THEOREM TypeOKHolds == Spec => []TypeOK
<1>1. CoreInv /\ ColumnsTyped => TypeOK
  <2> SUFFICES ASSUME CoreInv, ColumnsTyped PROVE TypeOK
    OBVIOUS
  <2>1. \A r \in Rows : IsRow(admissions[r])
    BY RowsAreRows DEF CoreInv, RequestInv, Rows
  <2>2. QED
    BY <2>1 DEF TypeOK, CoreInv, TablesInv, TextsFit, RequestInv, LedgerInv, ColumnsTyped, IsRow
<1>2. QED
  BY <1>1, CoreInvHolds, ColumnsTypedHolds, PTL

-----------------------------------------------------------------------------
(* Answers.                                                                 *)

\* A receipt is what one publication of its client left under its key.
ReceiptsTrue ==
  \A x \in receipts : \E e \in published :
    /\ GrantClient[e.grant] = x.client /\ e.key = x.key /\ e.body = x.body
    /\ x.fp = <<x.client, e.intent>>

\* A request that has yet to commit, or was refused, has published nothing.
EarlyUnpublished ==
  \A r \in Requests : pc[r] \in Early \/ answer[r].kind = "refused" =>
    \A e \in published : e.id # r

\* A success is about the publication it describes.
OkTrue(r) ==
  answer[r].kind = "ok" =>
    \E e \in published : /\ e.body = answer[r].body
                         /\ e.id = r \/ (Key(r) # NoKey /\ SameKey(e, call[r]))
                         /\ e.intent = TheIntent(r)

\* The answers and what they rest on.
AnswersInv == ReceiptsTrue /\ EarlyUnpublished /\ \A r \in Requests : OkTrue(r)

\* A publication answers for itself.
LEMMA AnswersPublish ==
  ASSUME CoreInv, AnswersInv, NEW r \in Requests, NEW base, Publishes(r, base)
  PROVE  AnswersInv'
<1> USE DEF AnswersInv
<1>1. /\ published' = published \cup {Publication(r, base)} /\ call' = call
      /\ receipts' = receipts \cup (IF Key(r) = NoKey THEN {} ELSE {NewReceipt(r)})
      /\ ReplyOrLose(r, Ok(Response(TheIntent(r))))
  BY DEF Publishes, CommitPublished
<1>2. PICK e0 : /\ e0 \in published' /\ published' = published \cup {e0}
                /\ e0.id = r /\ e0.grant = call[r].grant /\ e0.key = Key(r)
                /\ e0.intent = TheIntent(r) /\ e0.body = Response(TheIntent(r))
  <2>1. /\ Publication(r, base).id = r /\ Publication(r, base).grant = call[r].grant
        /\ Publication(r, base).key = Key(r) /\ Publication(r, base).intent = TheIntent(r)
        /\ Publication(r, base).body = Response(TheIntent(r))
    BY DEF Publication
  <2>2. QED
    BY <1>1, <2>1
<1>3. pc \in [Requests -> PCs] /\ AnswersTyped
  BY DEF CoreInv, RequestInv, LedgerInv
<1>4. /\ \A q \in Requests \ {r} : pc'[q] = pc[q] /\ answer'[q] = answer[q]
      /\ pc'[r] \notin Early
      /\ answer'[r] = Unknown \/ answer'[r] = Ok(Response(TheIntent(r)))
  BY <1>1, <1>3 DEF ReplyOrLose, Go, Answer, AnswersTyped, Early
<1>5. ReceiptsTrue'
  <2> SUFFICES ASSUME NEW x \in receipts'
               PROVE  \E e \in published' :
                        /\ GrantClient[e.grant] = x.client /\ e.key = x.key /\ e.body = x.body
                        /\ x.fp = <<x.client, e.intent>>
    BY DEF ReceiptsTrue
  <2>1. CASE x \in receipts
    BY <1>1, <2>1 DEF ReceiptsTrue
  <2>2. CASE x = NewReceipt(r)
    <3>1. /\ x.client = Client(r) /\ x.key = Key(r) /\ x.body = Response(TheIntent(r))
          /\ x.fp = <<Client(r), TheIntent(r)>>
      BY <2>2 DEF NewReceipt, FullPrint
    <3>2. QED
      BY <1>2, <3>1 DEF Client
  <2>3. QED
    BY <1>1, <2>1, <2>2
<1>6. EarlyUnpublished'
  <2>1. answer'[r].kind # "refused"
    BY <1>4 DEF Unknown, Ok
  <2>2. QED
    BY <1>2, <1>4, <2>1 DEF EarlyUnpublished
<1>7. ASSUME NEW q \in Requests
      PROVE  OkTrue(q)'
  <2>1. Key(q)' = Key(q) /\ TheIntent(q)' = TheIntent(q)
    BY <1>1 DEF Key, TheIntent
  <2>2. CASE q # r
    BY <1>1, <1>4, <2>1, <2>2 DEF OkTrue
  <2>3. CASE q = r
    <3>1. answer'[r].kind = "ok" => answer'[r].body = Response(TheIntent(r))
      BY <1>4 DEF Unknown, Ok
    <3>2. QED
      BY <1>2, <2>1, <2>3, <3>1 DEF OkTrue
  <2>4. QED
    BY <2>2, <2>3
<1>8. QED
  BY <1>5, <1>6, <1>7

\* A step that does not publish refuses before a commit, loses its reply, or
\* repeats the receipt of the same client, key and intent.
LEMMA AnswersMove ==
  ASSUME CoreInv, AnswersInv, NEW r \in Requests, Moves(r)
  PROVE  AnswersInv'
<1> USE DEF AnswersInv
<1>1. /\ UNCHANGED <<published, receipts, call>>
      /\ \A q \in Requests \ {r} : pc'[q] = pc[q] /\ answer'[q] = answer[q]
      /\ LosesReply(r) \/ Refuses(r) \/ Replays(r) \/ StaysSilent(r)
  BY DEF Moves
<1>2. ReceiptsTrue'
  BY <1>1 DEF ReceiptsTrue
<1>3. EarlyUnpublished'
  <2>1. CASE Refuses(r)
    BY <1>1, <2>1 DEF EarlyUnpublished, Refuses
  <2>2. CASE StaysSilent(r)
    BY <1>1, <2>2 DEF EarlyUnpublished, StaysSilent
  <2>3. CASE LosesReply(r)
    BY <1>1, <2>3 DEF EarlyUnpublished, LosesReply, Unknown
  <2>4. CASE Replays(r)
    BY <1>1, <2>4 DEF EarlyUnpublished, Replays, Ok
  <2>5. QED
    BY <1>1, <2>1, <2>2, <2>3, <2>4
<1>4. \A q \in Requests : Key(q)' = Key(q) /\ TheIntent(q)' = TheIntent(q)
  BY <1>1 DEF Key, TheIntent
<1>5. \A q \in Requests \ {r} : OkTrue(q)'
  BY <1>1, <1>4 DEF OkTrue
<1>6. OkTrue(r)'
  <2>1. CASE LosesReply(r)
    BY <2>1 DEF OkTrue, LosesReply, Unknown
  <2>2. CASE Refuses(r)
    BY <2>2 DEF OkTrue, Refuses
  <2>3. CASE StaysSilent(r)
    BY <1>1, <1>4, <2>3 DEF OkTrue, StaysSilent
  <2>4. CASE Replays(r)
    <3>1. /\ Key(r) # NoKey /\ ReceiptOf(r) \in ReceiptsOf(Client(r), Key(r))
      BY <2>4 DEF Replays, HasReceipt, ReceiptOf
    <3>2. PICK x : /\ x \in receipts /\ x.client = Client(r) /\ x.key = Key(r)
                   /\ x = ReceiptOf(r)
      BY <3>1 DEF ReceiptsOf
    <3>3. PICK e \in published :
            /\ GrantClient[e.grant] = x.client /\ e.key = x.key /\ e.body = x.body
            /\ x.fp = <<x.client, e.intent>>
      BY <3>2 DEF ReceiptsTrue
    <3>4. x.fp = <<Client(r), TheIntent(r)>> /\ answer'[r] = Ok(x.body)
      BY <2>4, <3>2 DEF Replays, FullPrint
    <3>5. e.intent = TheIntent(r)
      BY <3>3, <3>4
    <3>6. SameKey(e, call[r])
      BY <3>2, <3>3 DEF SameKey, Client, Key
    <3>7. answer'[r].body = x.body
      BY <3>4 DEF Ok
    <3>8. QED
      BY <1>1, <1>4, <3>1, <3>3, <3>5, <3>6, <3>7 DEF OkTrue
  <2>5. QED
    BY <1>1, <2>1, <2>2, <2>3, <2>4
<1>7. QED
  BY <1>2, <1>3, <1>5, <1>6

\* A success is never invented and never somebody else's, and a refusal means
\* that nothing was published, whatever replies were lost and whoever retried.
THEOREM AnswersTruthfulHolds == Spec => []AnswersTruthful
<1>1. Init => AnswersInv
  BY DEF Init, InitLedger, AnswersInv, ReceiptsTrue, EarlyUnpublished, OkTrue, NoAnswer
<1>2. CoreInv /\ AnswersInv /\ [Next]_vars => AnswersInv'
  <2> SUFFICES ASSUME CoreInv, AnswersInv, [Next]_vars PROVE AnswersInv'
    OBVIOUS
  <2>1. CASE Passes
    <3>1. UNCHANGED <<pc, call, answer, published>> /\ receipts' \subseteq receipts
      BY <2>1, BatchTakesAway DEF Passes, requestVars, CoreInv, TablesInv
    <3>2. QED
      BY <3>1 DEF AnswersInv, ReceiptsTrue, EarlyUnpublished, OkTrue, Key, TheIntent
  <2>2. QED
    BY <2>1, VaultSteps, AnswersPublish, AnswersMove DEF CoreInv
<1>3. AnswersInv => AnswersTruthful
  BY DEF AnswersInv, AnswersTruthful, OkTrue, EarlyUnpublished
<1>4. QED
  BY <1>1, <1>2, <1>3, CoreInvHolds, PTL DEF Spec

-----------------------------------------------------------------------------
(* The refinement.                                                          *)

\* A retained text was published.
TextsPublished ==
  \A v \in revisions : ~v.deleted =>
    \E e \in published : /\ ~e.body.deleted /\ e.body.path = v.path
                         /\ e.body.rev = v.rev /\ e.text = v.text

\* Retained texts are those of publications.
LEMMA TextsPublishedHolds == Spec => []TextsPublished
<1>1. Init => TextsPublished
  BY DEF Init, FilesInit, TextsPublished
<1>2. CoreInv /\ TextsPublished /\ [Next]_vars => TextsPublished'
  <2> SUFFICES ASSUME CoreInv, TextsPublished, [Next]_vars PROVE TextsPublished'
    OBVIOUS
  <2>1. ASSUME revisions' \subseteq revisions, published' = published
        PROVE  TextsPublished'
    BY <2>1 DEF TextsPublished
  <2>2. CASE Passes
    BY <2>1, <2>2, BatchTakesAway DEF Passes, CoreInv, TablesInv, fileVars
  <2>3. ASSUME NEW r \in Requests, Moves(r)
        PROVE  TextsPublished'
    BY <2>1, <2>3 DEF Moves, fileVars
  <2>4. ASSUME NEW r \in Requests, NEW base, Publishes(r, base)
        PROVE  TextsPublished'
    <3> DEFINE i == TheIntent(r)
    <3>1. Publish(i, base, now) /\ published' = published \cup {Publication(r, base)}
      BY <2>4 DEF Publishes, CommitPublished
    <3>2. /\ Publication(r, base).text = PublishedText(i, base)
          /\ Publication(r, base).body.path = Target(i)
          /\ Publication(r, base).body.rev = files[Target(i)].rev + 1
          /\ Publication(r, base).body.deleted = (i.op = "delete")
      BY DEF Publication, Response
    <3>3. ASSUME NEW v \in revisions', v \notin revisions, ~v.deleted
          PROVE  /\ v.path = Target(i) /\ v.rev = files[Target(i)].rev + 1
                 /\ i.op # "delete" /\ v.text = PublishedText(i, base)
      BY <3>1, <3>3, PublishedRevisions
    <3>4. QED
      BY <3>1, <3>2, <3>3 DEF TextsPublished
  <2>5. QED
    BY <2>2, <2>3, <2>4, VaultSteps DEF CoreInv
<1>3. QED
  BY <1>1, <1>2, CoreInvHolds, PTL DEF Spec

\* A commit passed what the promise demands of the heads.
LEMMA PublishHolds ==
  ASSUME CoreInv, NEW r \in Requests, NEW base, Publishes(r, base)
  PROVE  Promise!Holds(TheIntent(r))
<1> DEFINE i == TheIntent(r)
<1>1. Admitted(i) /\ i.path \in Paths
  BY PublishedIsAdmitted DEF CoreInv, Admitted, Intent
<1>2. i.op = "rename" => i.to \in Paths
  BY <1>1 DEF Admitted, Intent, WellFormed
<1>3. i.pre = "match" => files[i.path].rev = i.rev /\ files[i.path].rev > 0
  BY <1>1 DEF Admitted, PreconditionFailure, HasRow
<1>4. i.pre = "absent" => ~Live(i.path)
  BY <1>1 DEF Admitted, PreconditionFailure
<1>5. i.op \in {"append", "rename"} => Live(i.path)
  BY <1>1 DEF Admitted, PublishFailure
<1>6. i.op = "rename" => ~Live(i.to)
  BY <1>1 DEF Admitted, PublishFailure
<1>7. i.op = "restore" /\ ~i.copy => ~Live(i.path)
  BY <1>1 DEF Admitted, PublishFailure
<1>8. QED
  BY <1>1, <1>2, <1>3, <1>4, <1>5, <1>6, <1>7 DEF Promise!Holds

\* The published text is one that the promise allows: an append's extends the
\* text that is there, a restore's is one that was there.
LEMMA PublishAllowed ==
  ASSUME CoreInv, TextsPublished, NEW r \in Requests, NEW base, Publishes(r, base)
  PROVE  PublishedText(TheIntent(r), base) \in Promise!Results(TheIntent(r))
<1> DEFINE i == TheIntent(r)
<1>1. Admitted(i) /\ i.path \in Paths
  BY PublishedIsAdmitted DEF CoreInv, Admitted, Intent
<1>2. CASE i.op = "restore"
  <2>1. RestoreSources(i) # {} /\ \A v \in RestoreSources(i) : ~v.deleted
    BY <1>1, <1>2 DEF Admitted, PublishFailure
  <2>2. PICK v \in RestoreSources(i) : PublishedText(i, base) = v.text
    BY <1>2, <2>1 DEF PublishedText
  <2>3. v \in revisions /\ v.path = i.path /\ v.rev = i.sourceRev /\ ~v.deleted
    BY <2>1 DEF RestoreSources
  <2>4. PICK e \in published : /\ ~e.body.deleted /\ e.body.path = v.path
                               /\ e.body.rev = v.rev /\ e.text = v.text
    BY <2>3 DEF TextsPublished
  <2> DEFINE past == {[path |-> d.body.path, rev |-> d.body.rev, text |-> d.text] :
                        d \in {c \in published : ~c.body.deleted}}
             w    == [path |-> e.body.path, rev |-> e.body.rev, text |-> e.text]
  <2>5. w \in past /\ w.path = i.path /\ w.rev = i.sourceRev /\ w.text = v.text
    BY <2>3, <2>4
  <2>6. Promise!Results(i) = {x.text : x \in {y \in past : y.path = i.path /\ y.rev = i.sourceRev}}
    BY <1>2 DEF Promise!Results
  <2>7. w.text \in {x.text : x \in {y \in past : y.path = i.path /\ y.rev = i.sourceRev}}
    <3> HIDE DEF past, w
    <3>1. QED
      BY <2>5
  <2>8. QED
    BY <2>2, <2>5, <2>6, <2>7
<1>3. CASE i.op = "append"
  BY <1>1, <1>3 DEF Publishes, PublishedText, Promise!Results
<1>4. CASE i.op = "rename"
  BY <1>1, <1>4 DEF PublishedText, Promise!Results
<1>5. CASE i.op = "put"
  BY <1>5 DEF PublishedText, Promise!Results
<1>6. CASE i.op = "delete"
  BY <1>6 DEF PublishedText, Promise!Results
<1>7. QED
  BY <1>1, <1>2, <1>3, <1>4, <1>5, <1>6 DEF Admitted, Intent, Ops

\* The heads, as the promise sees them.
HeadOf(p) == [rev |-> files[p].rev, live |-> Live(p), text |-> files[p].text]

\* A publication writes the heads that the promise says.
LEMMA PublishSucceeds ==
  ASSUME CoreInv, NEW r \in Requests, NEW base, Publishes(r, base), NEW p \in Paths
  PROVE  HeadOf(p)' = Promise!Successor(TheIntent(r), p, PublishedText(TheIntent(r), base))
<1> DEFINE i    == TheIntent(r)
           text == PublishedText(i, base)
<1>1. Publish(i, base, now)
  BY PublishedIsAdmitted DEF CoreInv
<1>2. files'[p] = IF p \in Written(i) THEN WrittenRow(i, p, base) ELSE files[p]
  BY <1>1 DEF Publish
<1>3. CASE p = Target(i)
  <2>1. p \in Written(i)
    BY <1>3 DEF Written
  <2>2. /\ files'[p].rev = files[p].rev + 1 /\ files'[p].deleted = (i.op = "delete")
        /\ files'[p].text = text
    BY <1>2, <1>3, <2>1 DEF WrittenRow
  <2>3. HeadOf(p)' = [rev |-> files[p].rev + 1, live |-> i.op # "delete", text |-> text]
    BY <2>2 DEF HeadOf, Live
  <2>4. p = IF i.op = "rename" THEN i.to ELSE i.path
    BY <1>3 DEF Target
  <2>5. QED
    BY <2>3, <2>4 DEF Promise!Successor
<1>4. CASE p = i.path /\ p # Target(i)
  <2>1. p \in Written(i)
    BY <1>4 DEF Written
  <2>2. /\ files'[p].rev = files[p].rev + 1 /\ files'[p].text = <<>>
        /\ files'[p].deleted = (i.op = "delete" \/ p # Target(i))
    BY <1>2, <1>4, <2>1 DEF WrittenRow
  <2>3. HeadOf(p)' = [rev |-> files[p].rev + 1, live |-> FALSE, text |-> <<>>]
    BY <1>4, <2>2 DEF HeadOf, Live
  <2>4. p # IF i.op = "rename" THEN i.to ELSE i.path
    BY <1>4 DEF Target
  <2>5. QED
    BY <1>4, <2>3, <2>4 DEF Promise!Successor
<1>5. CASE p # i.path /\ p # Target(i)
  <2>1. p \notin Written(i)
    BY <1>5 DEF Written
  <2>2. HeadOf(p)' = HeadOf(p)
    BY <1>2, <2>1 DEF HeadOf, Live
  <2>3. p # IF i.op = "rename" THEN i.to ELSE i.path
    BY <1>5 DEF Target
  <2>4. QED
    BY <1>5, <2>2, <2>3 DEF Promise!Successor, HeadOf
<1>6. QED
  BY <1>3, <1>4, <1>5

\* A publication is one application of what was asked.
LEMMA PublishApplies ==
  ASSUME CoreInv, ColumnsTyped, KeyInv, TextsPublished,
         NEW r \in Requests, NEW base, Publishes(r, base), NoLiveAliases'
  PROVE  Promise!Next
<1> DEFINE i    == TheIntent(r)
           text == PublishedText(i, base)
           e0   == Publication(r, base)
<1>1. call[r] \in AllCalls /\ call[r].intent = i
  BY CallsAsked DEF CoreInv, TheIntent
<1>2. /\ published' = published \cup {e0} /\ UNCHANGED revoked
      /\ call[r].grant \notin revoked
  BY DEF Publishes, CommitPublished, Policy, PolicyFailure
<1>3. /\ e0.grant = call[r].grant /\ e0.key = call[r].key /\ e0.text = text
      /\ e0.body.path = Target(i) /\ e0.body.rev = files[Target(i)].rev + 1
      /\ e0.body.deleted = (i.op = "delete")
  BY DEF Publication, Response, Key
<1>4. <<GrantClient[call[r].grant], call[r].key>> \notin
        {<<GrantClient[e.grant], e.key>> : e \in {d \in published : Timed(d)}}
  <2> SUFFICES ASSUME NEW e \in published, Timed(e),
                      GrantClient[e.grant] = Client(r), e.key = Key(r)
               PROVE  FALSE
    BY DEF Client, Key
  <2>1. QED
    BY KeyIsFresh DEF Publishes, CoreInv, RequestInv
<1>5. {<<GrantClient[e.grant], e.key>> : e \in {d \in published' : Timed(d)}} =
        {<<GrantClient[e.grant], e.key>> : e \in {d \in published : Timed(d)}} \cup
          (IF call[r].key \in OpaqueKeys \cup {NoKey} THEN {}
           ELSE {<<GrantClient[call[r].grant], call[r].key>>})
  BY <1>2, <1>3 DEF Timed
<1>6. {[path |-> e.body.path, rev |-> e.body.rev, text |-> e.text] :
          e \in {d \in published' : ~d.body.deleted}} =
        {[path |-> e.body.path, rev |-> e.body.rev, text |-> e.text] :
          e \in {d \in published : ~d.body.deleted}} \cup
          (IF i.op = "delete" THEN {}
           ELSE {[path |-> Target(i), rev |-> files[Target(i)].rev + 1, text |-> text]})
  BY <1>2, <1>3
<1>7. [p \in Paths |-> HeadOf(p)]' = [p \in Paths |-> Promise!Successor(i, p, text)]
  BY PublishSucceeds
<1>8. \A p, q \in Paths : Live(p)' /\ Live(q)' /\ PathKey[p] = PathKey[q] => p = q
  BY DEF NoLiveAliases, Aliases, LivePaths
<1>9. Target(i) \in Paths
  BY PublishedIsAdmitted, PublishedRows DEF CoreInv, TablesInv
<1>10. text \in Promise!Results(i) /\ Promise!Holds(i)
  BY PublishHolds, PublishAllowed
<1>11. PICK c, x : c = call[r] /\ x = text
  OBVIOUS
<1>12. Promise!Apply(c, x)
  BY <1>1, <1>2, <1>4, <1>5, <1>6, <1>7, <1>8, <1>9, <1>10, <1>11
     DEF Promise!Apply, Promise!NoAliases, HeadOf, Target
<1>13. x \in Promise!Results(c.intent)
  <2> HIDE DEF text
  <2>1. QED
    BY <1>1, <1>10, <1>11
<1>14. c \in AllCalls
  BY <1>1, <1>11
<1>15. QED
  BY <1>12, <1>13, <1>14 DEF Promise!Next

\* Whatever else happens is a revocation, or nothing that a client can see.
LEMMA OthersStutter ==
  ASSUME CoreInv, ColumnsTyped, Passes \/ \E r \in Requests : Moves(r)
  PROVE  Promise!Bar \/ UNCHANGED <<files, published, revoked>>
<1>1. CASE \E r \in Requests : Moves(r)
  BY <1>1 DEF Moves, fileVars
<1>2. CASE RunBatch({}) /\ UNCHANGED published
  BY <1>2 DEF RunBatch
<1>3. CASE UNCHANGED <<fileVars, published>> /\ revoked' = revoked
  BY <1>3 DEF fileVars
<1>4. ASSUME UNCHANGED <<fileVars, published>>, NEW client \in Clients, RevokeClient(client)
      PROVE  Promise!Bar
  <2>1. revoked \subseteq revoked' /\ revoked' \subseteq Grants
    BY <1>4 DEF RevokeClient, ColumnsTyped
  <2>2. UNCHANGED <<files, published>>
    BY <1>4 DEF fileVars
  <2>3. QED
    BY <2>1, <2>2 DEF Promise!Bar, Live, Timed
<1>5. QED
  BY <1>1, <1>2, <1>3, <1>4 DEF Passes

\* The authority keeps its promise: through admissions, receipts, retries, lost
\* replies, digests, crashes, revocations and retention, what clients can see is
\* a sequence of atomic conditional writes, each key's at most once.
THEOREM PromiseKept == Spec => ImplementsPromise
<1>1. Init => Promise!Init
  <2> SUFFICES ASSUME Init PROVE Promise!Init
    OBVIOUS
  <2>1. files = [p \in Paths |-> NoRow] /\ published = {} /\ revoked = {}
    BY DEF Init, FilesInit, InitLedger
  <2>2. \A p \in Paths : [rev |-> files[p].rev, live |-> Live(p), text |-> files[p].text]
                           = [rev |-> 0, live |-> FALSE, text |-> <<>>]
    BY <2>1 DEF NoRow, Live
  <2>3. QED
    BY <2>1, <2>2 DEF Promise!Init
<1>2. /\ CoreInv /\ CoreInv' /\ ColumnsTyped /\ KeyInv /\ TextsPublished /\ [Next]_vars
      => [Promise!Next]_(Promise!vars)
  <2> SUFFICES ASSUME CoreInv, CoreInv', ColumnsTyped, KeyInv, TextsPublished, [Next]_vars
               PROVE  Promise!Next \/ UNCHANGED Promise!vars
    OBVIOUS
  <2>1. NoLiveAliases'
    BY DEF CoreInv, TablesInv
  <2>2. ASSUME NEW r \in Requests, NEW base, Publishes(r, base)
        PROVE  Promise!Next
    BY <2>1, <2>2, PublishApplies
  <2>3. Promise!Bar => Promise!Next
    BY DEF Promise!Next
  <2>4. UNCHANGED <<files, published, revoked>> => UNCHANGED Promise!vars
    BY DEF Promise!vars, Live, Timed
  <2>5. QED
    BY <2>2, <2>3, <2>4, VaultSteps, OthersStutter DEF CoreInv
<1>3. QED
  BY <1>1, <1>2, CoreInvHolds, ColumnsTypedHolds, KeyInvHolds, TextsPublishedHolds, PTL
     DEF Spec, ImplementsPromise, Promise!Spec

-----------------------------------------------------------------------------
(* Commits between alarm batches.                                           *)

\* What a commit checks of the intents it can be sent makes it one to publish.
LEMMA AcceptedIsAdmitted ==
  ASSUME FilesTypeOK, NEW i \in CurrentIntents, Accepted(i)
  PROVE  Admitted(i) /\ files[i.path].text \in Text
<1>1. \A t \in Tokens : <<t>> \in Text
  BY DEF Text
<1>2. <<>> \in Text
  BY DEF Text
<1>3. \A p \in Paths : files[p].rev \in Nat /\ files[p].text \in Text
  BY DEF FilesTypeOK, FileRow
<1>4. i \in Intent /\ WellFormed(i)
  <2>1. CASE \E p \in Paths, pre \in {"absent", "match"}, t \in Tokens :
               i = [op |-> "put", path |-> p, to |-> NoPath, pre |-> pre,
                    rev |-> IF pre = "match" THEN files[p].rev ELSE 0,
                    text |-> <<t>>, sourceRev |-> 0, copy |-> FALSE]
    BY <2>1, <1>1, <1>3, PathsAssumption DEF Intent, Ops, WellFormed
  <2>2. CASE \E p \in Paths, t \in Tokens :
               i = [op |-> "append", path |-> p, to |-> NoPath, pre |-> "none", rev |-> 0,
                    text |-> <<t>>, sourceRev |-> 0, copy |-> FALSE]
    BY <2>2, <1>1, <1>3, PathsAssumption DEF Intent, Ops, WellFormed
  <2>3. CASE \E p \in Paths :
               i = [op |-> "delete", path |-> p, to |-> NoPath, pre |-> "match",
                    rev |-> files[p].rev, text |-> <<>>, sourceRev |-> 0, copy |-> FALSE]
    BY <2>3, <1>2, <1>3, PathsAssumption DEF Intent, Ops, WellFormed
  <2>4. CASE \E p, q \in Paths :
               /\ p # q
               /\ i = [op |-> "rename", path |-> p, to |-> q, pre |-> "match",
                       rev |-> files[p].rev, text |-> <<>>, sourceRev |-> 0, copy |-> FALSE]
    BY <2>4, <1>2, <1>3, PathsAssumption DEF Intent, Ops, WellFormed
  <2>5. CASE \E p \in Paths, n \in 1..MaxSeq, copy \in BOOLEAN :
               i = [op |-> "restore", path |-> p, to |-> NoPath, pre |-> "match",
                    rev |-> files[p].rev, text |-> <<>>, sourceRev |-> n, copy |-> copy]
    BY <2>5, <1>2, <1>3, PathsAssumption, HistoryBoundsAssumption DEF Intent, Ops, WellFormed
  <2>6. QED
    BY <2>1, <2>2, <2>3, <2>4, <2>5 DEF CurrentIntents
<1>5. QED
  BY <1>3, <1>4 DEF Accepted, Admitted, Intent

\* Every step publishes one admitted intent, runs a batch, or leaves the tables.
LEMMA TableSteps ==
  ASSUME TablesInv, [ReadsNext]_systemVars
  PROVE  \/ \E i \in CurrentIntents :
              /\ Admitted(i) /\ files[i.path].text \in Text
              /\ Publish(i, files[i.path].text, now)
              /\ UNCHANGED <<ledgerVars, retentionVars, readVars>>
         \/ RunBatch(Pins) /\ UNCHANGED readVars
         \/ /\ UNCHANGED <<fileVars, receipts, prunedFeed>>
            /\ now' \in Nat /\ UNCHANGED readVars
         \/ ReadNext /\ UNCHANGED historyVars
<1>1. CASE UNCHANGED systemVars
  BY <1>1 DEF systemVars, historyVars, ledgerVars, retentionVars, TablesInv
<1>2. ASSUME NEW i \in CurrentIntents, Write(i), UNCHANGED readVars
      PROVE  /\ Admitted(i) /\ files[i.path].text \in Text
             /\ Publish(i, files[i.path].text, now)
             /\ UNCHANGED <<ledgerVars, retentionVars, readVars>>
  BY <1>2, AcceptedIsAdmitted DEF Write, TablesInv
<1>3. ASSUME NEW t \in 0..ClockEnd, SetClock(t)
      PROVE  UNCHANGED <<fileVars, receipts, prunedFeed>> /\ now' \in Nat
  BY <1>3, HistoryBoundsAssumption DEF SetClock, retentionVars
<1>4. QED
  BY <1>1, <1>2, <1>3 DEF ReadsNext, HistoryNext

\* Commits, batches and clocks keep what holds of the tables.
LEMMA TablesStep ==
  ASSUME TablesInv, [ReadsNext]_systemVars
  PROVE  TablesInv'
<1>1. ASSUME NEW i \in CurrentIntents, Admitted(i), files[i.path].text \in Text,
             Publish(i, files[i.path].text, now), UNCHANGED <<ledgerVars, retentionVars>>
      PROVE  TablesInv'
  <2>1. UNCHANGED <<now, prunedFeed>>
    BY <1>1 DEF ledgerVars, retentionVars
  <2>2. QED
    BY <1>1, <2>1, TablesPublish
<1>2. CASE RunBatch(Pins)
  BY <1>2, TablesBatch
<1>3. CASE UNCHANGED <<fileVars, prunedFeed>> /\ now' \in Nat
  BY <1>3, TablesIdle
<1>4. UNCHANGED historyVars => UNCHANGED <<fileVars, prunedFeed>> /\ now' \in Nat
  BY DEF historyVars, ledgerVars, retentionVars, TablesInv
<1>5. QED
  BY <1>1, <1>2, <1>3, <1>4, TableSteps

\* The tables begin empty and stay in order.
LEMMA TablesInvHolds == ReadsSpec => []TablesInv
<1>1. ReadsInit => TablesInv
  BY TablesBegin DEF ReadsInit, HistoryInit
<1>2. TablesInv /\ [ReadsNext]_systemVars => TablesInv'
  BY TablesStep
<1>3. QED
  BY <1>1, <1>2, PTL DEF ReadsSpec

\* The live-file counter, the feed, the history and the rows agree, after any
\* sequence of commits and batches.
THEOREM TablesAgreeHolds == ReadsSpec => []TablesAgree
<1>1. TablesInv => TablesAgree
  BY DEF TablesInv, TablesAgree, LiveCounted, NumbersInOrder
<1>2. QED
  BY <1>1, TablesInvHolds, PTL

\* Retention deletes nothing that is young or pinned, accounts for every row it
\* takes from the feed, and owns up to early deletion, under any clock.
THEOREM RetentionSafeHolds == ReadsSpec => RetentionSafe
<1>1. TablesInv /\ [ReadsNext]_systemVars => [RetentionKeepsPromises(Pins)]_historyVars
  <2> SUFFICES ASSUME TablesInv, [ReadsNext]_systemVars
               PROVE  RetentionKeepsPromises(Pins) \/ UNCHANGED historyVars
    OBVIOUS
  <2>1. CASE RunBatch(Pins)
    BY <2>1, BatchKeepsPromises DEF TablesInv
  <2>2. ASSUME revisions \subseteq revisions', changes \subseteq changes', receipts \subseteq receipts'
        PROVE  RetentionKeepsPromises(Pins)
    BY <2>2 DEF RetentionKeepsPromises
  <2>3. ASSUME NEW i, Publish(i, files[i.path].text, now), UNCHANGED ledgerVars
        PROVE  RetentionKeepsPromises(Pins)
    BY <2>2, <2>3 DEF Publish, ledgerVars
  <2>4. CASE UNCHANGED <<fileVars, receipts>>
    BY <2>2, <2>4 DEF fileVars
  <2>5. QED
    BY <2>1, <2>3, <2>4, TableSteps
<1>2. QED
  BY <1>1, TablesInvHolds, PTL DEF ReadsSpec, RetentionSafe

-----------------------------------------------------------------------------
(* What the feed accounts for.                                              *)

\* Every sequence is in the feed or behind the boundary; the row that has a file
\* row's sequence reports that file row, a rename both of the rows it wrote; and
\* no rename reports a source revision that is newer than the source's row.
FeedInv ==
  /\ \A seq \in 1..head : (\E c \in changes : c.seq = seq) \/ seq < prunedFeed
  /\ \A p \in Paths, c \in changes : c.seq = files[p].seq =>
       \/ c.path = p /\ c.rev = files[p].rev
       \/ c.op = "rename" /\ c.fromPath = p /\ c.fromRev = files[p].rev
  /\ \A c \in changes : c.op = "rename" =>
       c.fromPath \in Paths /\ c.fromRev <= files[c.fromPath].rev

\* A publication is the next row of the feed and reports what it wrote.
LEMMA FeedInvPublish ==
  ASSUME TablesInv, FeedInv, NEW i, Admitted(i), NEW base, NEW t, Publish(i, base, t),
         prunedFeed' = prunedFeed
  PROVE  FeedInv'
<1>1. /\ i.path \in Paths /\ Target(i) \in Paths /\ head' = head + 1
      /\ \A p \in Paths \ Written(i) : files'[p] = files[p]
      /\ \A p \in Written(i) :
           p \in Paths /\ files'[p].rev = files[p].rev + 1 /\ files'[p].seq = head + 1
  BY PublishedRows DEF TablesInv
<1>2. PICK c0 :
        /\ changes' = changes \cup {c0} /\ c0.seq = head + 1
        /\ c0.path = Target(i) /\ c0.rev = files[Target(i)].rev + 1
        /\ i.op = "rename" => c0.op = "rename" /\ c0.fromPath = i.path
                              /\ c0.fromRev = files[i.path].rev + 1
        /\ i.op # "rename" => c0.op # "rename"
  <2>1. \E c0 : /\ changes' = changes \cup {c0}
                /\ c0 = [seq |-> head + 1,
                         op  |-> IF i.op \in {"delete", "rename"} THEN i.op ELSE "put",
                         path |-> Target(i), rev |-> files[Target(i)].rev + 1,
                         fromPath |-> IF i.op = "rename" THEN i.path ELSE NoPath,
                         fromRev |-> IF i.op = "rename" THEN files[i.path].rev + 1 ELSE 0, at |-> t]
    BY DEF Publish
  <2>2. QED
    BY <2>1
<1>3. /\ \A p \in Paths : files[p].rev \in Nat /\ files[p].seq \in Nat /\ files[p].seq <= head
      /\ head \in Nat /\ prunedFeed \in Nat
      /\ \A c \in changes : c.seq \in Nat /\ c.seq <= head /\ c.fromRev \in Nat
  BY DEF TablesInv, FilesTypeOK, FileRow, ChangeRow, NumbersInOrder, FeedFollowsFiles
<1>4. \A seq \in 1..head' : (\E c \in changes' : c.seq = seq) \/ seq < prunedFeed'
  <2> SUFFICES ASSUME NEW seq \in 1..head'
               PROVE  (\E c \in changes' : c.seq = seq) \/ seq < prunedFeed'
    OBVIOUS
  <2>1. seq \in 1..head \/ seq = head + 1
    BY <1>1, <1>3
  <2>2. QED
    BY <1>2, <2>1 DEF FeedInv
<1>5. \A p \in Paths : files'[p].seq = head + 1 => p = Target(i) \/ (p = i.path /\ i.op = "rename")
  <2>1. Written(i) \subseteq {Target(i)} \cup (IF i.op = "rename" THEN {i.path} ELSE {})
    BY DEF Written, Target
  <2>2. \A p \in Paths \ Written(i) : files'[p].seq # head + 1
    BY <1>1, <1>3
  <2>3. QED
    BY <2>1, <2>2
<1>6. \A p \in Paths, c \in changes' : c.seq = files'[p].seq =>
        \/ c.path = p /\ c.rev = files'[p].rev
        \/ c.op = "rename" /\ c.fromPath = p /\ c.fromRev = files'[p].rev
  <2> SUFFICES ASSUME NEW p \in Paths, NEW c \in changes', c.seq = files'[p].seq
               PROVE  \/ c.path = p /\ c.rev = files'[p].rev
                      \/ c.op = "rename" /\ c.fromPath = p /\ c.fromRev = files'[p].rev
    OBVIOUS
  <2>1. CASE c = c0
    <3>1. files'[p].seq = head + 1
      BY <2>1, <1>2
    <3>2. CASE p = Target(i)
      <4>1. p \in Written(i)
        BY <3>2 DEF Written
      <4>2. QED
        BY <2>1, <3>2, <4>1, <1>1, <1>2
    <3>3. CASE p = i.path /\ i.op = "rename"
      <4>1. p \in Written(i)
        BY <3>3 DEF Written
      <4>2. QED
        BY <2>1, <3>3, <4>1, <1>1, <1>2
    <3>4. QED
      BY <3>1, <3>2, <3>3, <1>5
  <2>2. CASE c \in changes
    <3>1. p \notin Written(i)
      BY <2>2, <1>1, <1>3
    <3>2. QED
      BY <2>2, <3>1, <1>1 DEF FeedInv
  <2>3. QED
    BY <2>1, <2>2, <1>2
<1>7. \A c \in changes' : c.op = "rename" =>
        c.fromPath \in Paths /\ c.fromRev <= files'[c.fromPath].rev
  <2>1. \A p \in Paths : files[p].rev <= files'[p].rev /\ files'[p].rev \in Nat
    BY <1>1, <1>3
  <2>2. \A c \in changes : c.op = "rename" =>
          c.fromPath \in Paths /\ c.fromRev <= files'[c.fromPath].rev
    BY <2>1, <1>3 DEF FeedInv
  <2>3. c0.op = "rename" => c0.fromPath \in Paths /\ c0.fromRev <= files'[c0.fromPath].rev
    <3> SUFFICES ASSUME c0.op = "rename"
                 PROVE  c0.fromPath \in Paths /\ c0.fromRev <= files'[c0.fromPath].rev
      OBVIOUS
    <3>1. c0.fromPath = i.path /\ c0.fromRev = files[i.path].rev + 1
      BY <1>2
    <3>2. i.path \in Written(i)
      BY DEF Written
    <3>3. QED
      BY <3>1, <3>2, <2>1, <1>1
  <2>4. QED
    BY <2>2, <2>3, <1>2
<1>8. QED
  BY <1>4, <1>6, <1>7 DEF FeedInv

\* A batch moves the boundary past what it takes from the feed.
LEMMA FeedInvBatch ==
  ASSUME TablesInv, FeedInv, RunBatch(Pins)
  PROVE  FeedInv'
<1>1. /\ UNCHANGED <<files, head>> /\ changes' \subseteq changes
      /\ prunedFeed' \in Nat /\ prunedFeed <= prunedFeed'
      /\ \A c \in changes \ changes' : c.seq < prunedFeed'
  BY BatchTakesAway DEF TablesInv
<1>2. \A seq \in 1..head' : (\E c \in changes' : c.seq = seq) \/ seq < prunedFeed'
  BY <1>1 DEF FeedInv, TablesInv, FilesTypeOK
<1>3. QED
  BY <1>1, <1>2 DEF FeedInv

-----------------------------------------------------------------------------
(* The feed's floor.                                                        *)

\* The greatest member of a bounded set of numbers, and of the empty one.
LEMMA MaxOfIs ==
  ASSUME NEW S, S \subseteq Nat, NEW k \in Nat, \A n \in S : n <= k
  PROVE  /\ MaxOf(S) \in Nat /\ MaxOf(S) <= k
         /\ S # {} => MaxOf(S) \in S
         /\ \A n \in S : n <= MaxOf(S)
<1>1. CASE S = {}
  BY <1>1 DEF MaxOf
<1>2. CASE S # {}
  <2>1. \E m \in S : \A n \in S : n <= m
    BY <1>2, GreatestNumber
  <2>2. MaxOf(S) \in S /\ \A n \in S : n <= MaxOf(S)
    BY <1>2, <2>1 DEF MaxOf
  <2>3. QED
    BY <2>2
<1>3. QED
  BY <1>1, <1>2

\* The least member of a set of numbers, and zero for the empty one.
LEMMA MinOfIs ==
  ASSUME NEW S, S \subseteq Nat
  PROVE  /\ MinOf(S) \in Nat /\ (S # {} => MinOf(S) \in S)
<1>1. CASE S = {}
  BY <1>1 DEF MinOf
<1>2. CASE S # {}
  <2>1. \E m \in S : \A n \in S : m <= n
    BY <1>2, LeastNumber
  <2>2. MinOf(S) \in S
    BY <1>2, <2>1 DEF MinOf
  <2>3. QED
    BY <2>2
<1>3. QED
  BY <1>1, <1>2

\* A cursor that is not expired is not behind the boundary.
LEMMA FloorIsPastBoundary ==
  ASSUME TablesInv, head > 0
  PROVE  FeedFloor \in Nat /\ prunedFeed <= FeedFloor
<1> DEFINE old   == {c.seq : c \in {d \in changes : d.at < now - Retention}}
           young == {c.seq : c \in {d \in changes : d.at >= now - Retention}}
           timed == IF old = {} THEN MinOf(young) ELSE MaxOf({MinOf(young), MaxOf(old) + 1})
<1>1. head \in Nat /\ prunedFeed \in Nat /\ \A c \in changes : c.seq \in Nat /\ c.seq <= head
  BY DEF TablesInv, FilesTypeOK, ChangeRow, NumbersInOrder
<1>2. old \subseteq Nat /\ young \subseteq Nat /\ \A n \in old : n <= head
  BY <1>1
<1>3. FeedFloor = MaxOf({timed, prunedFeed})
  BY <1>1 DEF FeedFloor
<1>4. timed \in Nat
  <2> HIDE DEF old, young
  <2>1. MinOf(young) \in Nat /\ MaxOf(old) \in Nat
    BY <1>1, <1>2, MinOfIs, MaxOfIs
  <2>2. MaxOf({MinOf(young), MaxOf(old) + 1}) \in Nat
    <3>1. /\ {MinOf(young), MaxOf(old) + 1} \subseteq Nat
          /\ MinOf(young) + MaxOf(old) + 1 \in Nat
          /\ \A n \in {MinOf(young), MaxOf(old) + 1} : n <= MinOf(young) + MaxOf(old) + 1
      BY <2>1
    <3>2. QED
      BY <3>1, MaxOfIs
  <2>3. QED
    BY <2>1, <2>2
<1>5. /\ {timed, prunedFeed} \subseteq Nat /\ timed + prunedFeed \in Nat
      /\ \A n \in {timed, prunedFeed} : n <= timed + prunedFeed
  <2> HIDE DEF timed
  <2>1. QED
    BY <1>1, <1>4
<1>6. MaxOf({timed, prunedFeed}) \in Nat /\ prunedFeed <= MaxOf({timed, prunedFeed})
  <2> HIDE DEF timed
  <2>1. QED
    BY <1>5, MaxOfIs
<1>7. QED
  BY <1>3, <1>6

\* So the feed still has every row after a cursor that it accepts.
LEMMA AcceptedIsComplete ==
  ASSUME TablesInv, FeedInv, NEW since \in Nat, ~Expires(since)
  PROVE  \A seq \in (since + 1)..head : \E c \in changes : c.seq = seq
<1> SUFFICES ASSUME NEW seq \in (since + 1)..head
             PROVE  \E c \in changes : c.seq = seq
  OBVIOUS
<1>1. head \in Nat /\ prunedFeed \in Nat
  BY DEF TablesInv, FilesTypeOK
<1>2. seq \in 1..head /\ head > 0 /\ seq > since
  BY <1>1
<1>3. FeedFloor \in Nat /\ prunedFeed <= FeedFloor
  BY <1>2, FloorIsPastBoundary
<1>4. ~(since < FeedFloor - 1)
  BY DEF Expires
<1>5. ~(seq < prunedFeed)
  BY <1>1, <1>2, <1>3, <1>4
<1>6. QED
  BY <1>2, <1>5 DEF FeedInv

-----------------------------------------------------------------------------
(* Pages, and what a client learns from one.                                *)

\* A page is a beginning of what it is a page of.
LEMMA PageIsPrefix ==
  ASSUME NEW S, S \subseteq Nat, NEW n \in Page(S), NEW m \in S, m <= n
  PROVE  m \in Page(S)
<1> DEFINE Upto(x) == {o \in S : o <= x}
<1>1. n \in Nat /\ m \in Nat /\ Cardinality(Upto(n)) <= PageRows
  BY DEF Page
<1>2. IsFiniteSet(Upto(n))
  <2>1. IsFiniteSet(0..n)
    BY <1>1, FS_Interval
  <2>2. \A o \in S : o \in Nat /\ (o <= n => o \in 0..n)
    BY <1>1
  <2>3. Upto(n) \subseteq 0..n
    BY <2>2
  <2>4. QED
    BY <2>1, <2>3, FS_Subset
<1>3. Upto(m) \in SUBSET Upto(n)
  <2>1. \A o \in S : o \in Nat /\ (o <= m => o <= n)
    BY <1>1
  <2>2. QED
    BY <2>1
<1>4. Cardinality(Upto(m)) <= Cardinality(Upto(n)) /\ IsFiniteSet(Upto(m))
  <2> HIDE DEF Upto
  <2>1. QED
    BY <1>2, <1>3, FS_Subset
<1>5. Cardinality(Upto(m)) \in Nat /\ Cardinality(Upto(n)) \in Nat
  <2> HIDE DEF Upto
  <2>1. QED
    BY <1>2, <1>4, FS_CardinalityType
<1>6. Cardinality(Upto(m)) <= PageRows
  BY <1>1, <1>4, <1>5, PagesAssumption
<1>7. QED
  BY <1>6 DEF Page

\* A page that leaves something out is bounded by what it leaves out.
LEMMA ShortPageIsBounded ==
  ASSUME NEW S, S \subseteq Nat, Page(S) # S
  PROVE  /\ Page(S) \subseteq Nat /\ MaxOf(Page(S)) \in Nat
         /\ Page(S) # {} => MaxOf(Page(S)) \in Page(S)
         /\ \A n \in Page(S) : n <= MaxOf(Page(S))
<1>1. Page(S) \subseteq S
  BY DEF Page
<1>2. PICK k \in S : k \notin Page(S)
  BY <1>1
<1>3. \A n \in Page(S) : n <= k
  <2> SUFFICES ASSUME NEW n \in Page(S), ~(n <= k) PROVE FALSE
    OBVIOUS
  <2>1. n \in Nat /\ k \in Nat
    BY <1>1, <1>2
  <2>2. k <= n
    BY <2>1
  <2>3. QED
    BY <1>2, <2>2, PageIsPrefix
<1>4. Page(S) \subseteq Nat /\ k \in Nat
  BY <1>1, <1>2
<1>5. QED
  BY <1>3, <1>4, MaxOfIs

\* A client that is told only what is not newer than the rows never knows more
\* than the rows, keeps what it knows, and knows a row that it is told.
LEMMA LearnTells ==
  ASSUME TablesInv, knows \in [Paths -> Nat], NEW told, Learn(told),
         \A p \in Paths : knows[p] <= files[p].rev,
         \A p \in Paths, w \in told : w[1] = p => w[2] \in Nat /\ w[2] <= files[p].rev
  PROVE  /\ knows' \in [Paths -> Nat]
         /\ \A p \in Paths : knows'[p] <= files[p].rev
         /\ \A p \in Paths : knows[p] = files[p].rev \/ <<p, files[p].rev>> \in told
              => knows'[p] = files[p].rev
<1>1. ASSUME NEW p \in Paths
      PROVE  /\ knows'[p] \in Nat /\ knows'[p] <= files[p].rev
             /\ knows[p] = files[p].rev \/ <<p, files[p].rev>> \in told
                  => knows'[p] = files[p].rev
  <2> DEFINE Heard == {knows[p]} \cup {v[2] : v \in {w \in told : w[1] = p}}
  <2>1. knows'[p] = MaxOf(Heard)
    BY DEF Learn
  <2>2. files[p].rev \in Nat
    BY DEF TablesInv, FilesTypeOK, FileRow
  <2>3. Heard \subseteq Nat /\ \A n \in Heard : n <= files[p].rev
    OBVIOUS
  <2>4. /\ MaxOf(Heard) \in Nat /\ MaxOf(Heard) <= files[p].rev
        /\ \A n \in Heard : n <= MaxOf(Heard)
    <3> HIDE DEF Heard
    <3>1. QED
      BY <2>2, <2>3, MaxOfIs
  <2>5. knows[p] = files[p].rev \/ <<p, files[p].rev>> \in told => files[p].rev \in Heard
    OBVIOUS
  <2>6. QED
    <3> HIDE DEF Heard
    <3>1. QED
      BY <2>1, <2>2, <2>4, <2>5
<1>2. knows' \in [Paths -> Nat]
  BY <1>1 DEF Learn
<1>3. QED
  BY <1>1, <1>2

-----------------------------------------------------------------------------
(* The reader.                                                              *)

\* What a client that is part of the way knows: a row that the traversal has
\* passed, or that the feed has followed, is known or will come in the feed.
ReadInv ==
  /\ phase \in {"start", "manifest", "feed"} /\ cursor \in Nat
  /\ ceiling \in Nat /\ ceiling <= head
  /\ knows \in [Paths -> Nat] /\ \A p \in Paths : knows[p] <= files[p].rev
  /\ phase = "manifest" =>
       \A p \in Paths : HasRow(p) /\ PathOrder[p] <= cursor =>
         knows[p] = files[p].rev \/ files[p].seq > ceiling
  /\ phase = "feed" =>
       /\ cursor <= head
       /\ \A p \in Paths : knows[p] = files[p].rev \/ files[p].seq > cursor

\* What is written after the traversal began comes after the ceiling.
LEMMA ReadInvPublish ==
  ASSUME TablesInv, ReadInv, NEW i, Admitted(i), NEW base, NEW t, Publish(i, base, t),
         UNCHANGED readVars
  PROVE  ReadInv'
<1>1. /\ head' = head + 1
      /\ \A p \in Paths \ Written(i) : files'[p] = files[p]
      /\ \A p \in Written(i) :
           p \in Paths /\ files'[p].rev = files[p].rev + 1 /\ files'[p].seq = head + 1
  BY PublishedRows DEF TablesInv
<1>2. head \in Nat /\ \A p \in Paths : files[p].rev \in Nat /\ files[p].seq \in Nat
  BY DEF TablesInv, FilesTypeOK, FileRow
<1>3. UNCHANGED <<phase, cursor, ceiling, knows>>
  BY DEF readVars
<1>4. \A p \in Paths : files[p].rev <= files'[p].rev /\ files'[p].rev \in Nat
  BY <1>1, <1>2
<1>5. \A p \in Paths : files'[p] = files[p] \/ files'[p].seq = head + 1
  BY <1>1
<1>6. \A p \in Paths : knows[p] <= files'[p].rev
  BY <1>2, <1>4 DEF ReadInv
<1>7. ASSUME phase = "manifest", NEW p \in Paths, HasRow(p)', PathOrder[p] <= cursor
      PROVE  knows[p] = files'[p].rev \/ files'[p].seq > ceiling
  <2>1. CASE files'[p] = files[p]
    BY <1>7, <2>1 DEF ReadInv, HasRow
  <2>2. CASE files'[p].seq = head + 1
    BY <1>2, <2>2 DEF ReadInv
  <2>3. QED
    BY <1>5, <2>1, <2>2
<1>8. ASSUME phase = "feed", NEW p \in Paths
      PROVE  knows[p] = files'[p].rev \/ files'[p].seq > cursor
  BY <1>2, <1>5, <1>8 DEF ReadInv
<1>9. cursor' \in Nat /\ ceiling' <= head' /\ (phase' = "feed" => cursor' <= head')
  BY <1>1, <1>2, <1>3 DEF ReadInv
<1>10. QED
  BY <1>3, <1>6, <1>7, <1>8, <1>9 DEF ReadInv

\* One manifest batch tells the rows of its page.
LEMMA ReadManifestInv ==
  ASSUME TablesInv, ReadInv, ReadManifest, UNCHANGED historyVars
  PROVE  ReadInv'
<1> DEFINE after == {n \in {PathOrder[p] : p \in {q \in Paths : HasRow(q)}} : n > cursor}
           rows  == {p \in Paths : HasRow(p) /\ PathOrder[p] \in Page(after)}
           told  == {<<p, files[p].rev>> : p \in rows}
<1>1. UNCHANGED <<files, head, ceiling>> /\ phase = "manifest" /\ Learn(told)
  BY DEF ReadManifest, historyVars, fileVars
<1>2. /\ \A p \in Paths : files[p].rev \in Nat
      /\ head \in Nat /\ after \subseteq Nat /\ \A p \in Paths : PathOrder[p] \in Nat \ {0}
  BY PagesAssumption DEF TablesInv, FilesTypeOK, FileRow
<1>3. \A p \in Paths, w \in told : w[1] = p => w[2] \in Nat /\ w[2] <= files[p].rev
  <2> SUFFICES ASSUME NEW p \in Paths, NEW w \in told, w[1] = p
               PROVE  w[2] \in Nat /\ w[2] <= files[p].rev
    OBVIOUS
  <2>1. PICK q \in rows : w = <<q, files[q].rev>>
    OBVIOUS
  <2>2. q = p /\ w[2] = files[q].rev
    BY <2>1
  <2>3. QED
    BY <1>2, <2>2
<1>4. /\ knows' \in [Paths -> Nat]
      /\ \A p \in Paths : knows'[p] <= files[p].rev
      /\ \A p \in Paths : knows[p] = files[p].rev \/ <<p, files[p].rev>> \in told
              => knows'[p] = files[p].rev
  <2> HIDE DEF told
  <2>1. QED
    BY <1>1, <1>3, LearnTells DEF ReadInv
<1>5. \A p \in Paths : HasRow(p) /\ PathOrder[p] \in Page(after) => knows'[p] = files[p].rev
  BY <1>4
<1>6. \A p \in Paths : HasRow(p) /\ PathOrder[p] <= cursor =>
        knows'[p] = files[p].rev \/ files[p].seq > ceiling
  BY <1>1, <1>4 DEF ReadInv
<1>7. \A p \in Paths : HasRow(p) /\ ~(PathOrder[p] <= cursor) => PathOrder[p] \in after
  BY <1>2 DEF ReadInv
<1>8. CASE Page(after) # after
  <2>1. cursor' = MaxOf(Page(after)) /\ phase' = "manifest"
    BY <1>1, <1>8 DEF ReadManifest
  <2>2. /\ MaxOf(Page(after)) \in Nat /\ Page(after) \subseteq Nat
        /\ Page(after) # {} => MaxOf(Page(after)) \in Page(after)
    <3> HIDE DEF after
    <3>1. QED
      BY <1>2, <1>8, ShortPageIsBounded
  <2>3. ASSUME NEW p \in Paths, HasRow(p), PathOrder[p] <= cursor', ~(PathOrder[p] <= cursor)
        PROVE  PathOrder[p] \in Page(after)
    <3>1. PathOrder[p] \in after
      BY <1>7, <2>3
    <3>2. Page(after) # {}
      <4> SUFFICES ASSUME Page(after) = {} PROVE FALSE
        OBVIOUS
      <4>1. MaxOf(Page(after)) = 0
        BY DEF MaxOf
      <4>2. QED
        BY <1>2, <2>1, <2>3, <4>1
    <3>3. cursor' \in Page(after)
      BY <2>1, <2>2, <3>2
    <3>4. QED
      <4> HIDE DEF after
      <4>1. QED
        BY <1>2, <2>3, <3>1, <3>3, PageIsPrefix
  <2>4. \A p \in Paths : HasRow(p) /\ PathOrder[p] <= cursor' =>
          knows'[p] = files[p].rev \/ files[p].seq > ceiling
    BY <1>5, <1>6, <2>3
  <2>5. QED
    BY <1>1, <1>4, <2>1, <2>2, <2>4 DEF ReadInv, HasRow
<1>9. CASE Page(after) = after
  <2>1. cursor' = ceiling /\ phase' = "feed"
    BY <1>9 DEF ReadManifest
  <2>2. ASSUME NEW p \in Paths
        PROVE  knows'[p] = files[p].rev \/ files[p].seq > ceiling
    <3>1. CASE HasRow(p)
      BY <1>5, <1>6, <1>7, <1>9, <3>1
    <3>2. CASE ~HasRow(p)
      BY <1>2, <1>4, <3>2 DEF HasRow
    <3>3. QED
      BY <3>1, <3>2
  <2>3. QED
    BY <1>1, <1>4, <2>1, <2>2 DEF ReadInv
<1>10. QED
  BY <1>8, <1>9

\* One feed batch tells every row that the feed passes.
LEMMA ReadFeedInv ==
  ASSUME TablesInv, FeedInv, ReadInv, ReadFeed, UNCHANGED historyVars
  PROVE  ReadInv'
<1> DEFINE after == {c.seq : c \in {d \in changes : d.seq > cursor /\ d.seq <= ceiling}}
           rows  == {c \in changes : c.seq \in Page(after)}
           told  == {<<c.path, c.rev>> : c \in rows} \cup
                    {<<c.fromPath, c.fromRev>> : c \in {d \in rows : d.op = "rename"}}
<1>1. /\ UNCHANGED <<files, head, ceiling>> /\ phase = "feed" /\ phase' = "feed"
      /\ Learn(told) /\ ~Expires(cursor) /\ cursor' = MaxOf(Page(after) \cup {cursor})
  BY DEF ReadFeed, historyVars, fileVars
<1>2. /\ head \in Nat /\ \A p \in Paths : files[p].rev \in Nat /\ files[p].seq \in Nat
      /\ \A p \in Paths : files[p].seq <= head
      /\ \A c \in changes : /\ c.seq \in Nat /\ c.rev \in Nat /\ c.fromRev \in Nat
                            /\ c.path \in Paths /\ c.rev <= files[c.path].rev
  BY DEF TablesInv, FilesTypeOK, FileRow, ChangeRow, NumbersInOrder, FeedFollowsFiles
<1>3. \A p \in Paths, w \in told : w[1] = p => w[2] \in Nat /\ w[2] <= files[p].rev
  <2>1. \A c \in rows : c \in changes
    OBVIOUS
  <2>2. \A c \in rows : c.op = "rename" => c.fromRev <= files[c.fromPath].rev
    BY <2>1 DEF FeedInv
  <2>3. ASSUME NEW p \in Paths, NEW w \in told, w[1] = p
        PROVE  w[2] \in Nat /\ w[2] <= files[p].rev
    <3>1. CASE \E c \in rows : w = <<c.path, c.rev>>
      <4>1. PICK c \in rows : w = <<c.path, c.rev>>
        BY <3>1
      <4>2. c.path = p /\ w[2] = c.rev
        BY <2>3, <4>1
      <4>3. QED
        BY <1>2, <2>1, <4>2
    <3>2. CASE \E c \in rows : c.op = "rename" /\ w = <<c.fromPath, c.fromRev>>
      <4>1. PICK c \in rows : c.op = "rename" /\ w = <<c.fromPath, c.fromRev>>
        BY <3>2
      <4>2. c.fromPath = p /\ w[2] = c.fromRev
        BY <2>3, <4>1
      <4>3. QED
        BY <1>2, <2>1, <2>2, <4>1, <4>2
    <3>3. QED
      BY <2>3, <3>1, <3>2
  <2>4. QED
    BY <2>3
<1>4. /\ knows' \in [Paths -> Nat]
      /\ \A p \in Paths : knows'[p] <= files[p].rev
      /\ \A p \in Paths : knows[p] = files[p].rev \/ <<p, files[p].rev>> \in told
              => knows'[p] = files[p].rev
  <2> HIDE DEF told
  <2>1. QED
    BY <1>1, <1>3, LearnTells DEF ReadInv
<1>5. /\ after \subseteq Nat /\ Page(after) \subseteq after
      /\ \A n \in after : n > cursor /\ n <= ceiling
  BY <1>2 DEF Page
<1>6. /\ cursor' \in Nat /\ cursor <= cursor' /\ cursor' <= head
      /\ cursor' \in Page(after) \cup {cursor}
  <2>1. /\ Page(after) \cup {cursor} \subseteq Nat
        /\ \A n \in Page(after) \cup {cursor} : n <= head
    BY <1>1, <1>2, <1>5 DEF ReadInv
  <2>2. QED
    <3> HIDE DEF after
    <3>1. QED
      BY <1>1, <1>2, <2>1, MaxOfIs
<1>7. ASSUME NEW p \in Paths
      PROVE  knows'[p] = files[p].rev \/ files[p].seq > cursor'
  <2>1. CASE knows[p] = files[p].rev
    BY <1>4, <2>1
  <2>2. CASE knows[p] # files[p].rev /\ files[p].seq <= cursor'
    <3>1. files[p].seq > cursor
      BY <1>1, <2>2 DEF ReadInv
    <3>2. files[p].seq \in (cursor + 1)..head
      BY <1>2, <3>1 DEF ReadInv
    <3>3. PICK c \in changes : c.seq = files[p].seq
      BY <1>1, <3>2, AcceptedIsComplete DEF ReadInv
    <3>4. cursor' \in Page(after)
      BY <1>2, <1>6, <2>2, <3>1 DEF ReadInv
    <3>5. c.seq \in after
      BY <1>2, <1>5, <1>6, <2>2, <3>1, <3>3, <3>4 DEF ReadInv
    <3>6. c.seq \in Page(after)
      <4> HIDE DEF after
      <4>1. QED
        BY <1>5, <2>2, <3>3, <3>4, <3>5, PageIsPrefix
    <3>7. <<p, files[p].rev>> \in told
      <4>1. c \in rows
        BY <3>6
      <4>2. \/ c.path = p /\ c.rev = files[p].rev
            \/ c.op = "rename" /\ c.fromPath = p /\ c.fromRev = files[p].rev
        BY <3>3 DEF FeedInv
      <4>3. QED
        BY <4>1, <4>2
    <3>8. QED
      BY <1>4, <3>7
  <2>3. QED
    BY <1>2, <1>6, <2>1, <2>2
<1>8. QED
  BY <1>1, <1>4, <1>6, <1>7 DEF ReadInv

\* Every step keeps what the feed and the reader rest on.
LEMMA ReaderStep ==
  ASSUME TablesInv, FeedInv, ReadInv, [ReadsNext]_systemVars
  PROVE  FeedInv' /\ ReadInv'
<1>1. ASSUME NEW i \in CurrentIntents, Admitted(i), Publish(i, files[i.path].text, now),
             UNCHANGED <<ledgerVars, retentionVars, readVars>>
      PROVE  FeedInv' /\ ReadInv'
  <2>1. prunedFeed' = prunedFeed /\ UNCHANGED readVars
    BY <1>1 DEF retentionVars
  <2>2. QED
    BY <1>1, <2>1, FeedInvPublish, ReadInvPublish
<1>2. CASE RunBatch(Pins) /\ UNCHANGED readVars
  <2>1. UNCHANGED <<files, head, phase, cursor, ceiling, knows>>
    BY <1>2, BatchTakesAway DEF TablesInv, readVars
  <2>2. ReadInv'
    BY <2>1 DEF ReadInv, HasRow
  <2>3. QED
    BY <1>2, <2>2, FeedInvBatch
<1>3. CASE UNCHANGED <<fileVars, prunedFeed, readVars>>
  BY <1>3 DEF fileVars, readVars, FeedInv, ReadInv, HasRow
<1>4. CASE ReadNext /\ UNCHANGED historyVars
  <2>1. UNCHANGED <<files, changes, head, prunedFeed>>
    BY <1>4 DEF historyVars, fileVars, retentionVars
  <2>2. FeedInv'
    BY <2>1 DEF FeedInv
  <2>3. head \in Nat /\ \A p \in Paths : files[p].rev \in Nat
    BY DEF TablesInv, FilesTypeOK, FileRow
  <2>4. CASE StartManifest
    <3>1. \A p \in Paths : PathOrder[p] \in Nat \ {0}
      BY PagesAssumption
    <3>2. QED
      BY <2>1, <2>2, <2>3, <2>4, <3>1 DEF StartManifest, ReadInv
  <2>5. CASE ReadManifest
    BY <1>4, <2>2, <2>5, ReadManifestInv
  <2>6. CASE CaptureHead
    BY <2>1, <2>2, <2>3, <2>6 DEF CaptureHead, ReadInv
  <2>7. CASE ReadFeed
    BY <1>4, <2>2, <2>7, ReadFeedInv
  <2>8. CASE CursorExpired
    BY <2>1, <2>2, <2>8 DEF CursorExpired, ReadInv
  <2>9. QED
    BY <1>4, <2>4, <2>5, <2>6, <2>7, <2>8 DEF ReadNext
<1>5. QED
  BY <1>1, <1>2, <1>3, <1>4, TableSteps

\* A client that has caught up knows the current revision of every path, and a
\* cursor that the feed accepts has lost nothing, for every page size, however
\* the pages interleave with renames, deletions, retention and the clock.
THEOREM ReaderIsCurrentHolds == ReadsSpec => []ReaderIsCurrent
<1>1. ReadsInit => FeedInv /\ ReadInv
  <2> SUFFICES ASSUME ReadsInit PROVE FeedInv /\ ReadInv
    OBVIOUS
  <2>1. FeedInv
    BY DEF ReadsInit, HistoryInit, FilesInit, FeedInv
  <2>2. ReadInv
    BY DEF ReadsInit, HistoryInit, FilesInit, ReadInv, NoRow
  <2>3. QED
    BY <2>1, <2>2
<1>2. TablesInv /\ FeedInv /\ ReadInv /\ [ReadsNext]_systemVars => FeedInv' /\ ReadInv'
  BY ReaderStep
<1>3. TablesInv /\ FeedInv /\ ReadInv => ReaderIsCurrent
  <2> SUFFICES ASSUME TablesInv, FeedInv, ReadInv PROVE ReaderIsCurrent
    OBVIOUS
  <2>1. CaughtUpIsCurrent
    <3>1. head \in Nat /\ \A p \in Paths : files[p].seq \in Nat /\ files[p].seq <= head
      BY DEF TablesInv, FilesTypeOK, FileRow, NumbersInOrder, FeedFollowsFiles
    <3>2. QED
      BY <3>1 DEF CaughtUpIsCurrent, ReadInv
  <2>2. AcceptedCursorIsComplete
    BY AcceptedIsComplete DEF AcceptedCursorIsComplete, ReadInv
  <2>3. QED
    BY <2>1, <2>2 DEF ReaderIsCurrent
<1>4. QED
  BY <1>1, <1>2, <1>3, TablesInvHolds, PTL DEF ReadsSpec

=============================================================================
