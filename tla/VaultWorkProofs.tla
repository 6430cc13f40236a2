--------------------------- MODULE VaultWorkProofs ----------------------------
(***************************************************************************)
(* Theorems about the vault's background work: the alarm slot (VaultAlarm), *)
(* for any owner calls, exports, pages, runs and failures; and the packed   *)
(* export (PackedExport), for any number of paths, contents, exports, sizes *)
(* and faults.                                                              *)
(***************************************************************************)
EXTENDS PackedExport, VaultAlarm, WellFoundedInduction, TLAPS

-----------------------------------------------------------------------------
(* The alarm slot.                                                          *)

\* Every call has its place, and the slot is set.
SlotInv == call = [c \in Calls |-> call[c]] /\ CollectionIsArmed

\* The end of a call leaves the slot set, and set soon if the collection has more to do.
LEMMA ReturnSets ==
  ASSUME SlotInv, NEW c \in Calls, NEW saw, NEW s, Return(c, saw, s),
         s = "none" => c = Alarm \/ call[Alarm] # AtRest
  PROVE  SlotInv'
<1>1. /\ call' = [call EXCEPT ![c] = AtRest]
      /\ slot' = IF c = Alarm THEN NextAlarm(saw.pending, saw.more, GcMore(gc', claim'))
                 ELSE IF GcMore(gc', claim') THEN "minute" ELSE s
  BY DEF Return
<1>2. call' = [d \in Calls |-> call'[d]]
  BY <1>1 DEF SlotInv
<1>3. slot' = "none" => call'[Alarm] # AtRest
  <2>1. CASE c = Alarm
    BY <1>1, <2>1 DEF NextAlarm
  <2>2. CASE c # Alarm
    BY <1>1, <2>2 DEF SlotInv
  <2>3. QED
    BY <2>1, <2>2
<1>4. GcMore(gc', claim') => slot' # "night"
  BY <1>1 DEF NextAlarm
<1>5. QED
  BY <1>2, <1>3, <1>4 DEF SlotInv, CollectionIsArmed, GcMore

\* A batch of the collection either waits for R2, and will set the slot, or sets it.
LEMMA CollectSets ==
  ASSUME SlotInv, NEW c \in Calls, NEW g, NEW saw, NEW s, Collect(c, g, saw, s),
         s = "none" => c = Alarm \/ call[Alarm] # AtRest
  PROVE  SlotInv'
<1>1. CASE Return(c, saw, s)
  BY <1>1, ReturnSets
<1>2. CASE slot' = s /\ \E w : call' = [call EXCEPT ![c] = w] /\ w # AtRest
  <2>1. PICK w : call' = [call EXCEPT ![c] = w] /\ w # AtRest
    BY <1>2
  <2>2. /\ call' = [d \in Calls |-> call'[d]] /\ call'[c] # AtRest
        /\ \A d \in Calls : call[d] # AtRest => call'[d] # AtRest
    BY <2>1 DEF SlotInv
  <2>3. Alarm \in Calls
    BY DEF Calls
  <2>4. QED
    BY <1>2, <2>2, <2>3 DEF SlotInv, CollectionIsArmed
<1>3. [at |-> "list", saw |-> saw, gc |-> g] # AtRest /\ [at |-> "delete", saw |-> saw] # AtRest
  <2>1. [at |-> "list", saw |-> saw, gc |-> g].at = "list" /\ [at |-> "delete", saw |-> saw].at = "delete"
        /\ AtRest.at = "rest"
    BY DEF AtRest
  <2>2. QED
    BY <2>1
<1>4. QED
  BY <1>1, <1>2, <1>3 DEF Collect

\* Every step keeps the slot set.
LEMMA SlotStep == ASSUME SlotInv, [AlarmNext]_alarmVars PROVE SlotInv'
<1>1. Alarm \in Calls /\ \A c \in OwnerCalls : c \in Calls /\ c # Alarm
  BY AlarmAssumption DEF Calls
<1>2. CASE UNCHANGED alarmVars
  BY <1>2 DEF alarmVars, SlotInv, CollectionIsArmed, GcMore
<1>3. CASE StartExport
  BY <1>3 DEF StartExport, SlotInv, CollectionIsArmed
<1>4. CASE FireAlarm
  <2>1. CASE slot' = "none" /\ \E more : call' = [call EXCEPT ![Alarm] = [at |-> "export", more |-> more]]
    <3>1. PICK more : call' = [call EXCEPT ![Alarm] = [at |-> "export", more |-> more]]
      BY <2>1
    <3>2. [at |-> "export", more |-> more].at # AtRest.at
      BY DEF AtRest
    <3>3. call'[Alarm] # AtRest /\ call' = [d \in Calls |-> call'[d]]
      BY <1>1, <3>1, <3>2 DEF SlotInv
    <3>4. QED
      BY <1>1, <2>1, <3>3 DEF SlotInv, CollectionIsArmed
  <2>2. ASSUME NEW more, Collect(Alarm, gc, [pending |-> FALSE, more |-> more], "none")
        PROVE  SlotInv'
    BY <1>1, <2>2, CollectSets
  <2>3. QED
    BY <1>4, <2>1, <2>2 DEF FireAlarm
<1>5. CASE EndExportStep
  <2>1. slot = "none" => call[Alarm] # AtRest
    BY DEF SlotInv, CollectionIsArmed
  <2>2. Collect(Alarm, gc, [pending |-> exporting' > 0, more |-> call[Alarm].more], slot)
    BY <1>5 DEF EndExportStep
  <2>3. QED
    BY <1>1, <2>1, <2>2, CollectSets
<1>6. ASSUME NEW c \in Calls, EndList(c) \/ EndDelete(c)
      PROVE  SlotInv'
  <2>1. slot = "none" => call[Alarm] # AtRest
    BY DEF SlotInv, CollectionIsArmed
  <2>2. Return(c, call[c].saw, slot)
    BY <1>6 DEF EndList, EndDelete
  <2>3. QED
    BY <2>1, <2>2, ReturnSets
<1>7. CASE AlarmThrows
  BY <1>1, <1>7 DEF AlarmThrows, ThrowSets, SlotInv, CollectionIsArmed
<1>8. CASE Restart
  BY <1>8 DEF Restart, SlotInv, CollectionIsArmed, GcMore
<1>9. ASSUME NEW c \in OwnerCalls, OwnerCollects(c)
      PROVE  SlotInv'
  <2>1. slot = "none" => call[Alarm] # AtRest
    BY DEF SlotInv, CollectionIsArmed
  <2>2. PICK g : Collect(c, g, AtRest, slot)
    BY <1>9 DEF OwnerCollects
  <2>3. QED
    BY <1>1, <2>1, <2>2, CollectSets
<1>10. QED
  BY <1>2, <1>3, <1>4, <1>5, <1>6, <1>7, <1>8, <1>9 DEF AlarmNext, Answer

\* CollectionIsArmed, whatever calls overlap, fail or are cut short: the slot is set, or the
\* handler that will set it is running, and a collection in progress is due within a minute.
THEOREM CollectionIsArmedHolds == AlarmSpec => []CollectionIsArmed
<1>1. AlarmInit => SlotInv
  <2> SUFFICES ASSUME AlarmInit PROVE SlotInv
    OBVIOUS
  <2>1. slot = "night" /\ gc.phase = "idle" /\ call = [c \in Calls |-> AtRest]
    BY DEF AlarmInit
  <2>2. QED
    BY <2>1 DEF SlotInv, CollectionIsArmed, GcMore
<1>2. SlotInv => CollectionIsArmed
  BY DEF SlotInv
<1>3. QED
  BY <1>1, <1>2, SlotStep, PTL DEF AlarmSpec

-----------------------------------------------------------------------------
(* Packed exports.                                                          *)

\* What the records hold.
SourceSet == [path : Paths, rev : Nat, content : Contents, source : {"revision", "snapshot"}]
PlaceSet == [member : Nat, part : Nat]
UnitSet == [place : PlaceSet, data : SUBSET (Contents \cup (Paths \X Nat \X Contents))]
Bytes == Seq(UnitSet)
ExportSet == [status : {"none", "queued", "uploading", "complete", "failed"},
              snapshot : Seq(SourceSet), emitted : Nat, pending : Bytes, parts : Seq(Bytes),
              upload : Uploads \cup {0}, size : Nat]
UploadSet == [state : {"unused", "open", "complete", "abort"}, parts : Seq(Bytes)]
JobSet == [at : {"create", "read", "put", "head", "complete", "abort"}, id : Ids,
           work : ExportSet, bytes : Bytes]
CallSet == [op : {"put", "complete", "abort"}, upload : Uploads, id : Ids, parts : Seq(Bytes)]

\* What each variable holds.
ExportTypes ==
  /\ files \in [Paths -> [rev : Nat, content : Contents \cup {NoContent}]]
  /\ revisions \subseteq [path : Paths, rev : Nat, content : Contents]
  /\ exports \in [Ids -> ExportSet] /\ captured \in [Ids -> Seq(SourceSet)]
  /\ uploads \in [Uploads -> UploadSet] /\ archive \in [Ids -> Bytes]
  /\ job \in {Resting} \cup JobSet /\ late \subseteq CallSet

\* An archive is cut into parts of PartSize units, but for the last one.
Cut(whole, n) == IF n * PartSize < Len(whole) THEN n * PartSize ELSE Len(whole)
Segment(whole, i, j) == SubSeq(whole, i + 1, j)
IsParts(whole, s) ==
  \A n \in 1..Len(s) : /\ Cut(whole, n - 1) < Len(whole)
                       /\ s[n] = Segment(whole, Cut(whole, n - 1), Cut(whole, n))

\* A revision is one content, and the file's number is not behind it.
RevisionInv ==
  /\ \A v \in revisions : v.rev <= files[v.path].rev
  /\ \A v, w \in revisions : v.path = w.path /\ v.rev = w.rev => v = w

\* What an export has read, uploaded and kept is its archive, up to its cursor.
Progress(whole, x) ==
  /\ IsParts(whole, x.parts)
  /\ Cut(whole, Len(x.parts)) <= x.emitted /\ x.emitted <= Len(whole)
  /\ x.pending = Segment(whole, Cut(whole, Len(x.parts)), x.emitted)
  /\ x.upload = 0 => x.emitted = 0 /\ x.parts = <<>>

\* The revisions that a snapshot reads are there.
SourcesIn(snapshot, there) ==
  \A i \in 1..Len(snapshot) : snapshot[i].source = "revision" =>
    [path |-> snapshot[i].path, rev |-> snapshot[i].rev, content |-> snapshot[i].content] \in there

\* An active export works on what it captured, and R2 has its parts.
ActiveInv ==
  \A id \in Ids : Active(id) =>
    /\ exports[id].snapshot = captured[id]
    /\ SourcesIn(captured[id], revisions)
    /\ Progress(Captured(id), exports[id])
    /\ exports[id].upload # 0 =>
         Len(exports[id].parts) <= Len(uploads[exports[id].upload].parts)

\* An upload is of one export, and has parts of its archive in their order.
UploadInv ==
  /\ \A u \in Uploads : uploads[u].state = "unused" => uploads[u].parts = <<>>
  /\ \A id \in Ids : exports[id].upload # 0 =>
       /\ exports[id].status # "none"
       /\ uploads[exports[id].upload].state # "unused"
       /\ IsParts(Captured(id), uploads[exports[id].upload].parts)
  /\ \A id, other \in Ids : exports[id].upload = exports[other].upload /\ id # other =>
       exports[id].upload = 0

\* The step in flight works on the row as it still is.
SameRow(w, x) ==
  /\ w.snapshot = x.snapshot /\ w.emitted = x.emitted /\ w.pending = x.pending
  /\ w.parts = x.parts /\ w.upload = x.upload

\* It has read on from the cursor, as far as its next call needs.
Work(whole, w, at, bytes) ==
  LET end == w.emitted + Len(bytes)
  IN /\ at = "create" <=> w.upload = 0
     /\ at = "create" => bytes = <<>>
     /\ end <= Len(whole) /\ bytes = Segment(whole, w.emitted, end)
     /\ at = "read" => end < Len(whole)
     /\ at = "put" => /\ Cut(whole, Len(w.parts)) < end
                      /\ end < Cut(whole, Len(w.parts)) + PartSize => end = Len(whole)
     /\ at \in {"head", "complete"} => w.emitted = Len(whole) /\ w.pending = <<>>

JobInv ==
  job # Resting =>
    /\ Active(job.id)
    /\ SameRow(job.work, exports[job.id])
    /\ Work(Captured(job.id), job.work, job.at, job.bytes)

\* What R2 may still carry out has the parts of an archive, and as many as it says.
CallFits(whole, request, stored) ==
  /\ IsParts(whole, request.parts)
  /\ request.op = "put" => Len(request.parts) # 0 /\ Len(request.parts) <= Len(stored) + 1
  /\ request.op = "complete" => Cut(whole, Len(request.parts)) = Len(whole)
CallInv(request) ==
  /\ exports[request.id].upload = request.upload
  /\ CallFits(Captured(request.id), request, uploads[request.upload].parts)
LateInv == \A request \in late : CallInv(request)

\* An archive is whole, and a completed export has one.
ArchiveInv ==
  \A id \in Ids :
    /\ exports[id].status = "none" => archive[id] = <<>>
    /\ archive[id] # <<>> => archive[id] = Captured(id)
    /\ exports[id].status = "complete" =>
         archive[id] # <<>> /\ exports[id].size = Len(archive[id])

ExportInv ==
  /\ ExportTypes /\ RevisionInv /\ ActiveInv /\ UploadInv /\ JobInv /\ LateInv /\ ArchiveInv

\* A set of numbers that is not empty has a least one.
LEMMA LeastNumber ==
  ASSUME NEW S, S \subseteq Nat, S # {}
  PROVE  \E m \in S : \A n \in S : m <= n
<1> DEFINE Less == {ss \in Nat \X Nat : ss[1] < ss[2]}
<1>1. IsWellFoundedOn(Less, Nat)
  BY NatLessThanWellFounded DEF OpToRel
<1> HIDE DEF Less
<1>2. PICK m \in S : \A n \in S : <<n, m>> \notin Less
  BY <1>1, WFMin
<1>3. \A n \in S : ~(n < m)
  BY <1>2 DEF Less
<1>4. QED
  BY <1>3

\* The function that FlattenSeq defines, up to k.
Flattens(seqs, k, f) ==
  f = [i \in 1..k |-> IF i = 1 THEN seqs[i] ELSE f[i - 1] \o seqs[i]]

\* There is one, and FlattenSeq is its last value.
LEMMA FlattenIsLast ==
  ASSUME NEW seqs, Len(seqs) \in Nat, Len(seqs) # 0
  PROVE  \E f : Flattens(seqs, Len(seqs), f) /\ FlattenSeq(seqs) = f[Len(seqs)]
<1> DEFINE bad == {k \in Nat : ~ \E f : Flattens(seqs, k, f)}
<1>1. bad = {}
  <2> SUFFICES ASSUME bad # {} PROVE FALSE
    OBVIOUS
  <2>1. PICK m \in bad : \A n \in bad : m <= n
    BY LeastNumber
  <2>2. Flattens(seqs, 0, [i \in 1..0 |-> 0])
    BY DEF Flattens
  <2>3. m \in Nat /\ m # 0
    BY <2>1, <2>2
  <2>4. m - 1 \in Nat /\ m - 1 \notin bad
    BY <2>1, <2>3
  <2>5. PICK f : Flattens(seqs, m - 1, f)
    BY <2>4
  <2> DEFINE g == [i \in 1..m |-> IF i = 1 THEN seqs[i] ELSE f[i - 1] \o seqs[i]]
  <2>6. \A i \in 1..m : i # 1 => g[i - 1] = f[i - 1]
    <3> SUFFICES ASSUME NEW i \in 1..m, i # 1 PROVE g[i - 1] = f[i - 1]
      OBVIOUS
    <3>1. i - 1 \in 1..(m - 1) /\ i - 1 \in 1..m
      BY <2>3
    <3>2. f[i - 1] = IF i - 1 = 1 THEN seqs[i - 1] ELSE f[(i - 1) - 1] \o seqs[i - 1]
      BY <2>5, <3>1 DEF Flattens
    <3>3. QED
      BY <3>1, <3>2
  <2>7. g = [i \in 1..m |-> IF i = 1 THEN seqs[i] ELSE g[i - 1] \o seqs[i]]
    BY <2>6
  <2> HIDE DEF g
  <2>8. Flattens(seqs, m, g)
    BY <2>7 DEF Flattens
  <2>9. QED
    BY <2>1, <2>8
<1>2. PICK f : Flattens(seqs, Len(seqs), f)
  BY <1>1
<1> DEFINE h == CHOOSE f1 : f1 = [i \in 1..Len(seqs) |-> IF i = 1 THEN seqs[i] ELSE f1[i - 1] \o seqs[i]]
<1>3. h = [i \in 1..Len(seqs) |-> IF i = 1 THEN seqs[i] ELSE h[i - 1] \o seqs[i]]
  BY <1>2 DEF Flattens
<1>4. FlattenSeq(seqs) = h[Len(seqs)]
  BY DEF FlattenSeq
<1> HIDE DEF h
<1>5. QED
  BY <1>3, <1>4 DEF Flattens

\* A sequence of sequences, flattened, is a sequence.
LEMMA FlattenTypes ==
  ASSUME NEW S, NEW seqs \in Seq(Seq(S))
  PROVE  FlattenSeq(seqs) \in Seq(S)
<1>1. CASE Len(seqs) = 0
  <2>1. FlattenSeq(seqs) = seqs /\ seqs = <<>>
    BY <1>1 DEF FlattenSeq
  <2>2. QED
    BY <2>1
<1>2. CASE Len(seqs) # 0
  <2>1. PICK f : Flattens(seqs, Len(seqs), f) /\ FlattenSeq(seqs) = f[Len(seqs)]
    BY <1>2, FlattenIsLast
  <2> DEFINE bad == {k \in 1..Len(seqs) : f[k] \notin Seq(S)}
  <2>2. bad = {}
    <3> SUFFICES ASSUME bad # {} PROVE FALSE
      OBVIOUS
    <3> bad \subseteq Nat
      OBVIOUS
    <3>1. PICK m \in bad : \A n \in bad : m <= n
      BY LeastNumber
    <3>2. m \in 1..Len(seqs) /\ seqs[m] \in Seq(S)
      BY <3>1
    <3>3. f[m] = IF m = 1 THEN seqs[m] ELSE f[m - 1] \o seqs[m]
      BY <2>1, <3>2 DEF Flattens
    <3>4. m # 1 => f[m - 1] \in Seq(S)
      BY <3>1, <3>2
    <3>5. f[m] \in Seq(S)
      BY <3>2, <3>3, <3>4
    <3>6. QED
      BY <3>1, <3>5
  <2>3. QED
    BY <1>2, <2>1, <2>2
<1>3. QED
  BY <1>1, <1>2

\* Two segments that meet are one.
LEMMA SubSeqJoins ==
  ASSUME NEW S, NEW whole \in Seq(S), NEW i \in Nat, NEW j \in Nat, i <= j, j <= Len(whole)
  PROVE  SubSeq(whole, 1, i) \o SubSeq(whole, i + 1, j) = SubSeq(whole, 1, j)
OBVIOUS

\* Segments of a sequence that follow each other.
Consecutive(whole, seqs, cut) ==
  \A n \in 1..Len(seqs) : /\ cut[n - 1] <= cut[n]
                          /\ seqs[n] = SubSeq(whole, cut[n - 1] + 1, cut[n])

\* Such segments, flattened, are one segment.
LEMMA FlattenSegments ==
  ASSUME NEW S, NEW whole \in Seq(S), NEW seqs \in Seq(Seq(S)), NEW cut \in [Nat -> 0..Len(whole)],
         cut[0] = 0, Consecutive(whole, seqs, cut)
  PROVE  FlattenSeq(seqs) = SubSeq(whole, 1, cut[Len(seqs)])
<1>0. Len(seqs) \in Nat /\ \A n \in 1..Len(seqs) : seqs[n] \in Seq(S)
  OBVIOUS
<1>1. CASE Len(seqs) = 0
  <2>1. FlattenSeq(seqs) = seqs /\ seqs = <<>>
    BY <1>1 DEF FlattenSeq
  <2>2. QED
    BY <1>1, <2>1
<1>2. CASE Len(seqs) # 0
  <2>1. PICK f : Flattens(seqs, Len(seqs), f) /\ FlattenSeq(seqs) = f[Len(seqs)]
    BY <1>0, <1>2, FlattenIsLast
  <2> DEFINE bad == {k \in 1..Len(seqs) : f[k] # SubSeq(whole, 1, cut[k])}
  <2>2. bad = {}
    <3> SUFFICES ASSUME bad # {} PROVE FALSE
      OBVIOUS
    <3> bad \subseteq Nat
      OBVIOUS
    <3>1. PICK m \in bad : \A n \in bad : m <= n
      BY LeastNumber
    <3>2. m \in 1..Len(seqs) /\ m - 1 \in Nat /\ m \in Nat
      BY <3>1
    <3>3. f[m] = IF m = 1 THEN seqs[m] ELSE f[m - 1] \o seqs[m]
      BY <2>1, <3>2 DEF Flattens
    <3>4. /\ cut[m - 1] \in Nat /\ cut[m] \in Nat /\ cut[m - 1] <= cut[m] /\ cut[m] <= Len(whole)
          /\ seqs[m] = SubSeq(whole, cut[m - 1] + 1, cut[m])
      BY <3>2 DEF Consecutive
    <3>5. CASE m = 1
      <4>1. cut[m - 1] + 1 = 1
        BY <3>5
      <4>2. f[m] = SubSeq(whole, 1, cut[m])
        BY <3>3, <3>4, <3>5, <4>1
      <4>3. QED
        BY <3>1, <4>2
    <3>6. CASE m # 1
      <4>0. m - 1 \notin bad
        <5> HIDE DEF bad
        <5>1. QED
          BY <3>1, <3>2
      <4>1. m - 1 \in 1..Len(seqs)
        BY <3>2, <3>6, <1>0
      <4>2. f[m - 1] = SubSeq(whole, 1, cut[m - 1])
        BY <4>0, <4>1
      <4>3. SubSeq(whole, 1, cut[m - 1]) \o SubSeq(whole, cut[m - 1] + 1, cut[m]) = SubSeq(whole, 1, cut[m])
        BY <3>4, SubSeqJoins
      <4>4. f[m] = SubSeq(whole, 1, cut[m])
        BY <3>3, <3>4, <3>6, <4>2, <4>3
      <4>5. QED
        BY <3>1, <4>4
    <3>7. QED
      BY <3>5, <3>6
  <2>3. Len(seqs) \in 1..Len(seqs)
    BY <1>0, <1>2
  <2>4. f[Len(seqs)] = SubSeq(whole, 1, cut[Len(seqs)])
    BY <2>2, <2>3
  <2>5. QED
    BY <2>1, <2>4
<1>3. QED
  BY <1>1, <1>2

\* The function that LivePaths defines, up to k.
Lists(k, f) ==
  f = [n \in 0..k |-> IF n = 0 THEN <<>>
                      ELSE IF files[n].content = NoContent THEN f[n - 1] ELSE Append(f[n - 1], n)]

\* LivePaths are paths with a live file.
LEMMA LivePathsTypes ==
  LivePaths \in Seq({p \in Paths : files[p].content # NoContent})
<1> DEFINE bad == {k \in Nat : ~ \E f : Lists(k, f)}
<1>1. bad = {}
  <2> SUFFICES ASSUME bad # {} PROVE FALSE
    OBVIOUS
  <2>1. PICK m \in bad : \A n \in bad : m <= n
    BY LeastNumber
  <2> DEFINE zero == [n \in 0..0 |-> <<>>]
  <2>2. Lists(0, zero)
    BY DEF Lists
  <2>3. m \in Nat /\ m # 0
    BY <2>1, <2>2
  <2>4. m - 1 \in Nat /\ m - 1 \notin bad
    BY <2>1, <2>3
  <2>5. PICK f : Lists(m - 1, f)
    BY <2>4
  <2> DEFINE g == [n \in 0..m |-> IF n = 0 THEN <<>>
                      ELSE IF files[n].content = NoContent THEN f[n - 1] ELSE Append(f[n - 1], n)]
  <2>6. \A i \in 0..m : i # 0 => g[i - 1] = f[i - 1]
    <3> SUFFICES ASSUME NEW i \in 0..m, i # 0 PROVE g[i - 1] = f[i - 1]
      OBVIOUS
    <3>1. i - 1 \in 0..(m - 1) /\ i - 1 \in 0..m
      BY <2>3
    <3>2. f[i - 1] = IF i - 1 = 0 THEN <<>>
                     ELSE IF files[i - 1].content = NoContent THEN f[(i - 1) - 1]
                     ELSE Append(f[(i - 1) - 1], i - 1)
      BY <2>5, <3>1 DEF Lists
    <3>3. QED
      BY <3>1, <3>2
  <2>7. g = [n \in 0..m |-> IF n = 0 THEN <<>>
                      ELSE IF files[n].content = NoContent THEN g[n - 1] ELSE Append(g[n - 1], n)]
    BY <2>6
  <2> HIDE DEF g
  <2>8. Lists(m, g)
    BY <2>7 DEF Lists
  <2>9. QED
    BY <2>1, <2>8
<1>2. PICK f : Lists(NumPaths, f)
  BY <1>1, ExportAssumption
<1> DEFINE h == CHOOSE f1 : f1 = [n \in 0..NumPaths |-> IF n = 0 THEN <<>>
                      ELSE IF files[n].content = NoContent THEN f1[n - 1] ELSE Append(f1[n - 1], n)]
<1>3. h = [n \in 0..NumPaths |-> IF n = 0 THEN <<>>
                      ELSE IF files[n].content = NoContent THEN h[n - 1] ELSE Append(h[n - 1], n)]
  BY <1>2 DEF Lists
<1>4. LivePaths = h[NumPaths]
  BY DEF LivePaths
<1> HIDE DEF h
<1> DEFINE live == {p \in Paths : files[p].content # NoContent}
           wrong == {k \in 0..NumPaths : h[k] \notin Seq(live)}
<1>5. wrong = {}
  <2> SUFFICES ASSUME wrong # {} PROVE FALSE
    OBVIOUS
  <2> wrong \subseteq Nat
    BY ExportAssumption
  <2>1. PICK m \in wrong : \A n \in wrong : m <= n
    BY LeastNumber
  <2>2. m \in 0..NumPaths /\ m \in Nat
    BY <2>1, ExportAssumption
  <2>3. h[m] = IF m = 0 THEN <<>>
               ELSE IF files[m].content = NoContent THEN h[m - 1] ELSE Append(h[m - 1], m)
    BY <1>3, <2>2
  <2>4. m # 0 => h[m - 1] \in Seq(live) /\ m \in Paths
    BY <2>1, <2>2, ExportAssumption DEF Paths
  <2>5. m # 0 /\ files[m].content # NoContent => m \in live
    BY <2>4
  <2> HIDE DEF live
  <2>6. h[m] \in Seq(live)
    BY <2>3, <2>4, <2>5
  <2>7. QED
    BY <2>1, <2>6
<1>6. QED
  BY <1>4, <1>5, ExportAssumption

\* A layout is a sequence of places, with a first and a last one.
LEMMA LayoutTypes ==
  ASSUME NEW snapshot \in Seq(SourceSet)
  PROVE  /\ Layout(snapshot) \in Seq(PlaceSet)
         /\ Len(Layout(snapshot)) \in Nat /\ Len(Layout(snapshot)) >= 2
<1> DEFINE piece(i) == [k \in 1..Size[snapshot[i].content] |-> [member |-> i, part |-> k]]
           pieces == [i \in 1..Len(snapshot) |-> piece(i)]
<1>1. Len(snapshot) \in Nat /\ \A i \in 1..Len(snapshot) : snapshot[i] \in SourceSet
  OBVIOUS
<1>2. \A i \in 1..Len(snapshot) : piece(i) \in Seq(PlaceSet)
  <2> SUFFICES ASSUME NEW i \in 1..Len(snapshot) PROVE piece(i) \in Seq(PlaceSet)
    OBVIOUS
  <2>1. snapshot[i].content \in Contents
    BY <1>1 DEF SourceSet
  <2>2. Size[snapshot[i].content] \in Nat
    BY <2>1, ExportAssumption
  <2>3. \A k \in 1..Size[snapshot[i].content] : [member |-> i, part |-> k] \in PlaceSet
    BY <1>1, <2>2 DEF PlaceSet
  <2>4. QED
    BY <2>2, <2>3
<1> HIDE DEF piece
<1>3. pieces \in Seq(Seq(PlaceSet))
  BY <1>1, <1>2
<1>4. FlattenSeq(pieces) \in Seq(PlaceSet)
  BY <1>3, FlattenTypes
<1>5. Layout(snapshot) = <<[member |-> 0, part |-> 1]>> \o FlattenSeq(pieces)
                           \o <<[member |-> Len(snapshot) + 1, part |-> 1]>>
  BY DEF Layout, piece
<1> HIDE DEF pieces
<1>6. [member |-> 0, part |-> 1] \in PlaceSet /\ [member |-> Len(snapshot) + 1, part |-> 1] \in PlaceSet
  BY <1>1 DEF PlaceSet
<1> HIDE DEF PlaceSet
<1> QED
  <2> DEFINE middle == FlattenSeq(pieces)
             one == [member |-> 0, part |-> 1]
             two == [member |-> Len(snapshot) + 1, part |-> 1]
  <2>1. middle \in Seq(PlaceSet) /\ one \in PlaceSet /\ two \in PlaceSet
    BY <1>4, <1>6
  <2>2. Layout(snapshot) = <<one>> \o middle \o <<two>>
    BY <1>5
  <2> HIDE DEF middle, one, two
  <2>3. <<one>> \o middle \in Seq(PlaceSet) /\ Len(<<one>> \o middle) = Len(middle) + 1
        /\ Len(middle) \in Nat
    BY <2>1
  <2>4. QED
    BY <2>1, <2>2, <2>3

\* An archive is a sequence of units, one for each place of its layout.
LEMMA ArchiveTypes ==
  ASSUME NEW snapshot \in Seq(SourceSet)
  PROVE  /\ ArchiveOf(snapshot) \in Bytes /\ Len(ArchiveOf(snapshot)) = Len(Layout(snapshot))
         /\ Manifest(snapshot) \in SUBSET (Contents \cup (Paths \X Nat \X Contents))
<1>1. Len(snapshot) \in Nat /\ \A i \in 1..Len(snapshot) : snapshot[i] \in SourceSet
  OBVIOUS
<1>2. /\ Layout(snapshot) \in Seq(PlaceSet) /\ Len(Layout(snapshot)) \in Nat
      /\ \A n \in 1..Len(Layout(snapshot)) : Layout(snapshot)[n] \in PlaceSet
  BY LayoutTypes
<1>3. Manifest(snapshot) \in SUBSET (Contents \cup (Paths \X Nat \X Contents))
  BY <1>1 DEF Manifest, SourceSet
<1> DEFINE unit(n) == Unit(Layout(snapshot)[n],
             IF Layout(snapshot)[n].member \in 1..Len(snapshot)
             THEN {snapshot[Layout(snapshot)[n].member].content} ELSE Manifest(snapshot))
<1>4. \A n \in 1..Len(Layout(snapshot)) : unit(n) \in UnitSet
  <2> SUFFICES ASSUME NEW n \in 1..Len(Layout(snapshot)) PROVE unit(n) \in UnitSet
    OBVIOUS
  <2> DEFINE m == Layout(snapshot)[n].member
  <2>1. m \in 1..Len(snapshot) => {snapshot[m].content} \in SUBSET (Contents \cup (Paths \X Nat \X Contents))
    BY <1>1 DEF SourceSet
  <2> HIDE DEF m
  <2>2. unit(n) = Unit(Layout(snapshot)[n],
                       IF m \in 1..Len(snapshot) THEN {snapshot[m].content} ELSE Manifest(snapshot))
    BY DEF m
  <2>3. (IF m \in 1..Len(snapshot) THEN {snapshot[m].content} ELSE Manifest(snapshot))
           \in SUBSET (Contents \cup (Paths \X Nat \X Contents))
    BY <1>3, <2>1
  <2>4. QED
    BY <1>2, <2>2, <2>3 DEF Unit, UnitSet
<1>5. ArchiveOf(snapshot) = [n \in 1..Len(Layout(snapshot)) |-> unit(n)]
  BY DEF ArchiveOf
<1> HIDE DEF unit
<1>6. QED
  BY <1>2, <1>3, <1>4, <1>5 DEF Bytes

\* What an export captured is an archive.
LEMMA CapturedTypes ==
  ASSUME ExportTypes, NEW id \in Ids
  PROVE  /\ Captured(id) \in Bytes /\ Len(Captured(id)) \in Nat /\ Len(Captured(id)) >= 2
         /\ Len(Captured(id)) = Len(Layout(captured[id]))
<1>1. captured[id] \in Seq(SourceSet)
  BY DEF ExportTypes
<1>2. QED
  BY <1>1, ArchiveTypes, LayoutTypes DEF Captured

\* How an archive is cut.
LEMMA CutFacts ==
  ASSUME NEW whole \in Bytes
  PROVE  /\ \A n \in Nat : Cut(whole, n) \in Nat /\ Cut(whole, n) <= Len(whole)
         /\ Cut(whole, 0) = 0
         /\ \A n \in Nat : Cut(whole, n + 1) = IF Cut(whole, n) + PartSize < Len(whole)
                                               THEN Cut(whole, n) + PartSize ELSE Len(whole)
<1>2. Len(whole) \in Nat
  BY DEF Bytes
<1>3. PartSize \in Nat /\ PartSize >= 1
  BY ExportAssumption
<1>4. \A n \in Nat : n * PartSize \in Nat /\ (n + 1) * PartSize = n * PartSize + PartSize
  BY <1>3
<1>5. 0 * PartSize = 0
  BY <1>3
<1>6. \A n \in Nat : Cut(whole, n) \in Nat /\ Cut(whole, n) <= Len(whole)
  <2> SUFFICES ASSUME NEW n \in Nat PROVE Cut(whole, n) \in Nat /\ Cut(whole, n) <= Len(whole)
    OBVIOUS
  <2> DEFINE k == n * PartSize
             length == Len(whole)
  <2>1. Cut(whole, n) = IF k < length THEN k ELSE length
    BY DEF Cut
  <2>2. k \in Nat /\ length \in Nat
    BY <1>2, <1>4
  <2> HIDE DEF k, length
  <2>3. Cut(whole, n) \in Nat /\ Cut(whole, n) <= length
    BY <2>1, <2>2
  <2>4. QED
    BY <2>3 DEF length
<1>7. Cut(whole, 0) = 0
  BY <1>2, <1>5 DEF Cut
<1>8. \A n \in Nat : Cut(whole, n + 1) = IF Cut(whole, n) + PartSize < Len(whole)
                                      THEN Cut(whole, n) + PartSize ELSE Len(whole)
  BY <1>2, <1>3, <1>4 DEF Cut
<1>9. QED
  BY <1>6, <1>7, <1>8

\* Parts, flattened, are the archive up to where the last one ends.
LEMMA PartsFlatten ==
  ASSUME NEW whole \in Bytes, NEW s \in Seq(Bytes), IsParts(whole, s)
  PROVE  FlattenSeq(s) = Segment(whole, 0, Cut(whole, Len(s)))
<1> DEFINE cut == [n \in Nat |-> Cut(whole, n)]
<1>1. whole \in Seq(UnitSet) /\ s \in Seq(Seq(UnitSet)) /\ Len(whole) \in Nat
  BY DEF Bytes
<1>2. \A n \in Nat : Cut(whole, n) \in 0..Len(whole)
  <2>1. \A n \in Nat : Cut(whole, n) \in Nat /\ Cut(whole, n) <= Len(whole)
    BY CutFacts
  <2>2. QED
    BY <1>1, <2>1
<1>3. \A n \in Nat : Cut(whole, n) <= Cut(whole, n + 1)
  <2> SUFFICES ASSUME NEW n \in Nat PROVE Cut(whole, n) <= Cut(whole, n + 1)
    OBVIOUS
  <2>1. /\ Cut(whole, n) \in Nat /\ Cut(whole, n) <= Len(whole)
        /\ Cut(whole, n + 1) = IF Cut(whole, n) + PartSize < Len(whole)
                              THEN Cut(whole, n) + PartSize ELSE Len(whole)
    BY CutFacts
  <2>2. QED
    BY <1>1, <2>1, ExportAssumption
<1> cut \in [Nat -> 0..Len(whole)] /\ cut[0] = 0
  BY CutFacts, <1>2
<1>4. Len(s) \in Nat /\ \A n \in 1..Len(s) : n - 1 \in Nat /\ n = (n - 1) + 1
  BY <1>1
<1>5. \A n \in 1..Len(s) : s[n] = SubSeq(whole, cut[n - 1] + 1, cut[n])
  <2> SUFFICES ASSUME NEW n \in 1..Len(s) PROVE s[n] = SubSeq(whole, cut[n - 1] + 1, cut[n])
    OBVIOUS
  <2>1. s[n] = SubSeq(whole, Cut(whole, n - 1) + 1, Cut(whole, n))
    BY DEF IsParts, Segment
  <2>2. cut[n - 1] = Cut(whole, n - 1) /\ cut[n] = Cut(whole, n)
    BY <1>4
  <2>3. QED
    BY <2>1, <2>2
<1>6. \A n \in 1..Len(s) : cut[n - 1] <= cut[n]
  BY <1>3, <1>4
<1> HIDE DEF cut
<1>7. Consecutive(whole, s, cut)
  BY <1>5, <1>6 DEF Consecutive
<1>8. FlattenSeq(s) = SubSeq(whole, 1, cut[Len(s)])
  BY <1>1, <1>7, FlattenSegments
<1>9. cut[Len(s)] = Cut(whole, Len(s)) /\ 0 + 1 = 1
  BY <1>4 DEF cut
<1>10. QED
  BY <1>8, <1>9 DEF Segment

\* A segment is bytes, as many as it spans.
LEMMA SegmentTypes ==
  ASSUME NEW whole \in Bytes, NEW i \in Nat, NEW j \in Nat, i <= j, j <= Len(whole)
  PROVE  /\ Segment(whole, i, j) \in Bytes /\ Len(Segment(whole, i, j)) = j - i
         /\ Segment(whole, i, j) = <<>> <=> i = j
BY DEF Segment, Bytes

\* Two segments that meet are one.
LEMMA SegmentsJoin ==
  ASSUME NEW whole \in Bytes, NEW i \in Nat, NEW j \in Nat, NEW k \in Nat,
         i <= j, j <= k, k <= Len(whole)
  PROVE  Segment(whole, i, j) \o Segment(whole, j, k) = Segment(whole, i, k)
BY DEF Segment, Bytes

\* A segment of a segment.
LEMMA SegmentInside ==
  ASSUME NEW whole \in Bytes, NEW i \in Nat, NEW j \in Nat, i <= j, j <= Len(whole),
         NEW m \in Nat, NEW n \in Nat, m <= n, n <= j - i
  PROVE  Segment(Segment(whole, i, j), m, n) = Segment(whole, i + m, i + n)
BY DEF Segment, Bytes

\* One unit more.
LEMMA SegmentGrows ==
  ASSUME NEW whole \in Bytes, NEW i \in Nat, NEW j \in Nat, i <= j, j < Len(whole)
  PROVE  Append(Segment(whole, i, j), whole[j + 1]) = Segment(whole, i, j + 1)
BY DEF Segment, Bytes

\* The first state has all of it.
LEMMA ExportInit == Init => ExportInv
<1> SUFFICES ASSUME Init PROVE ExportInv
  OBVIOUS
<1>1. NoExport \in ExportSet /\ NoExport.status = "none" /\ NoExport.upload = 0
  BY DEF NoExport, ExportSet, Bytes
<1>2. \A id \in Ids : exports[id] = NoExport /\ archive[id] = <<>>
  BY DEF Init
<1>3. \A id \in Ids : ~Active(id)
  BY <1>1, <1>2 DEF Active
<1>4. \A u \in Uploads : uploads[u] = [state |-> "unused", parts |-> <<>>]
  BY DEF Init
<1>5. [state |-> "unused", parts |-> <<>>] \in UploadSet
  BY DEF UploadSet
<1>6. ExportTypes
  <2>1. \A p \in Paths : [rev |-> 0, content |-> NoContent] \in [rev : Nat, content : Contents \cup {NoContent}]
    OBVIOUS
  <2>2. files \in [Paths -> [rev : Nat, content : Contents \cup {NoContent}]]
    BY <2>1 DEF Init
  <2>3. exports \in [Ids -> ExportSet]
    BY <1>1 DEF Init
  <2>4. uploads \in [Uploads -> UploadSet]
    BY <1>5 DEF Init
  <2>5. archive \in [Ids -> Bytes] /\ captured \in [Ids -> Seq(SourceSet)]
    BY DEF Init, Bytes
  <2>6. QED
    BY <2>2, <2>3, <2>4, <2>5 DEF Init, ExportTypes
<1>7. RevisionInv /\ JobInv /\ LateInv
  BY DEF Init, RevisionInv, JobInv, LateInv
<1>8. ActiveInv
  BY <1>3 DEF ActiveInv
<1>9. UploadInv
  BY <1>1, <1>2, <1>4 DEF UploadInv
<1>10. ArchiveInv
  BY <1>1, <1>2 DEF ArchiveInv
<1>11. QED
  BY <1>6, <1>7, <1>8, <1>9, <1>10 DEF ExportInv

\* What an export captured stays while captured does.
LEMMA CapturedStays ==
  ASSUME UNCHANGED captured, NEW id \in Ids
  PROVE  Captured(id)' = Captured(id)
BY DEF Captured

\* A publication, a deletion, retention and a lost blob leave the exports alone.
LEMMA ElsewhereStep == ExportInv /\ Elsewhere => ExportInv'
<1> SUFFICES ASSUME ExportInv, Elsewhere PROVE ExportInv'
  OBVIOUS
<1> USE DEF ExportInv
<1>1. UNCHANGED <<exports, captured, uploads, archive, late, job>>
  BY DEF Elsewhere, r2
<1>2. \A p \in Paths : files[p].rev \in Nat
  BY DEF ExportTypes
<1>3. /\ files' \in [Paths -> [rev : Nat, content : Contents \cup {NoContent}]]
      /\ revisions' \subseteq [path : Paths, rev : Nat, content : Contents]
      /\ RevisionInv'
      /\ \A id \in Ids : Active(id) => SourcesIn(captured[id], revisions')
  <2>1. CASE \E p \in Paths, c \in Contents : Write(p, c)
    <3>1. PICK p \in Paths, c \in Contents : Write(p, c)
      BY <2>1
    <3>2. /\ files' = [files EXCEPT ![p] = [rev |-> files[p].rev + 1, content |-> c]]
          /\ revisions' = revisions \cup {[path |-> p, rev |-> files[p].rev + 1, content |-> c]}
      BY <3>1 DEF Write
    <3>3. /\ files'[p] = [rev |-> files[p].rev + 1, content |-> c]
          /\ \A q \in Paths : q # p => files'[q] = files[q]
      BY <3>2 DEF ExportTypes
    <3>4. [rev |-> files[p].rev + 1, content |-> c] \in [rev : Nat, content : Contents \cup {NoContent}]
      BY <1>2
    <3>5. files' \in [Paths -> [rev : Nat, content : Contents \cup {NoContent}]]
      BY <3>2, <3>4 DEF ExportTypes
    <3>6. revisions' \subseteq [path : Paths, rev : Nat, content : Contents]
      BY <1>2, <3>2 DEF ExportTypes
    <3>7. \A v \in revisions' : v.rev <= files'[v.path].rev
      <4>1. \A v \in revisions : v.rev <= files[v.path].rev /\ v.path \in Paths /\ v.rev \in Nat
        BY DEF RevisionInv, ExportTypes
      <4>2. QED
        BY <1>2, <3>2, <3>3, <4>1
    <3>8. \A v, w \in revisions' : v.path = w.path /\ v.rev = w.rev => v = w
      <4>1. \A v \in revisions : v.path = p => v.rev # files[p].rev + 1
        <5>1. \A v \in revisions : v.rev <= files[v.path].rev /\ v.rev \in Nat
          BY DEF RevisionInv, ExportTypes
        <5>2. QED
          BY <1>2, <5>1
      <4>2. QED
        BY <3>2, <4>1 DEF RevisionInv
    <3>9. \A id \in Ids : Active(id) => SourcesIn(captured[id], revisions')
      BY <3>2 DEF ActiveInv, SourcesIn
    <3>10. QED
      BY <3>5, <3>6, <3>7, <3>8, <3>9 DEF RevisionInv
  <2>2. CASE \E p \in Paths : Delete(p)
    <3>1. PICK p \in Paths : Delete(p)
      BY <2>2
    <3>2. /\ files' = [files EXCEPT ![p] = [rev |-> files[p].rev + 1, content |-> NoContent]]
          /\ revisions' = revisions
      BY <3>1 DEF Delete
    <3>3. /\ files'[p] = [rev |-> files[p].rev + 1, content |-> NoContent]
          /\ \A q \in Paths : q # p => files'[q] = files[q]
      BY <3>2 DEF ExportTypes
    <3>4. [rev |-> files[p].rev + 1, content |-> NoContent] \in [rev : Nat, content : Contents \cup {NoContent}]
      BY <1>2
    <3>5. files' \in [Paths -> [rev : Nat, content : Contents \cup {NoContent}]]
      BY <3>2, <3>4 DEF ExportTypes
    <3>6. \A v \in revisions : v.rev <= files'[v.path].rev
      <4>1. \A v \in revisions : v.rev <= files[v.path].rev /\ v.path \in Paths /\ v.rev \in Nat
        BY DEF RevisionInv, ExportTypes
      <4>2. QED
        BY <1>2, <3>3, <4>1
    <3>7. QED
      BY <3>2, <3>5, <3>6 DEF RevisionInv, ExportTypes, ActiveInv
  <2>3. CASE \E v \in revisions : Prune(v)
    <3>1. PICK v \in revisions : Prune(v)
      BY <2>3
    <3>2. files' = files /\ revisions' = revisions \ {v} /\ <<v.path, v.rev>> \notin Pins
      BY <3>1 DEF Prune
    <3>3. ASSUME NEW id \in Ids, Active(id) PROVE SourcesIn(captured[id], revisions')
      <4>1. exports[id].snapshot = captured[id] /\ SourcesIn(captured[id], revisions)
        BY <3>3 DEF ActiveInv
      <4>2. \A i \in 1..Len(captured[id]) : <<captured[id][i].path, captured[id][i].rev>> # <<v.path, v.rev>>
        BY <3>2, <3>3, <4>1 DEF Pins
      <4>3. SUFFICES ASSUME NEW i \in 1..Len(captured[id]), captured[id][i].source = "revision"
                     PROVE  [path |-> captured[id][i].path, rev |-> captured[id][i].rev,
                             content |-> captured[id][i].content] \in revisions'
        BY DEF SourcesIn
      <4>4. [path |-> captured[id][i].path, rev |-> captured[id][i].rev,
             content |-> captured[id][i].content] \in revisions
        BY <4>1, <4>3 DEF SourcesIn
      <4>5. [path |-> captured[id][i].path, rev |-> captured[id][i].rev,
             content |-> captured[id][i].content] # v
        BY <4>2
      <4>6. QED
        BY <3>2, <4>4, <4>5
    <3>4. QED
      BY <3>2, <3>3 DEF RevisionInv, ExportTypes
  <2>4. CASE \E c \in Blobs : LoseBlob(c)
    <3>1. UNCHANGED <<files, revisions>>
      BY <2>4 DEF LoseBlob
    <3>2. QED
      BY <3>1 DEF RevisionInv, ExportTypes, ActiveInv
  <2>5. QED
    BY <2>1, <2>2, <2>3, <2>4 DEF Elsewhere
<1>4. \A id \in Ids : Captured(id)' = Captured(id) /\ Active(id)' = Active(id)
  BY <1>1 DEF Captured, Active
<1>5. ExportTypes'
  BY <1>1, <1>3 DEF ExportTypes
<1>6. ActiveInv'
  BY <1>1, <1>3, <1>4 DEF ActiveInv
<1>7. UploadInv'
  BY <1>1, <1>4 DEF UploadInv
<1>8. JobInv'
  <2> SUFFICES ASSUME job # Resting PROVE JobInv'
    BY <1>1 DEF JobInv
  <2>1. job.id \in Ids
    BY DEF ExportTypes, JobSet
  <2>2. QED
    BY <1>1, <1>4, <2>1 DEF JobInv
<1>9. LateInv'
  <2>1. \A request \in late : request.id \in Ids
    BY DEF ExportTypes, CallSet
  <2>2. QED
    BY <1>1, <1>4, <2>1 DEF LateInv, CallInv
<1>10. ArchiveInv'
  BY <1>1, <1>4 DEF ArchiveInv
<1>11. QED
  BY <1>3, <1>5, <1>6, <1>7, <1>8, <1>9, <1>10

\* What captureExclusive makes of the live files.
LEMMA SnapshotTypes ==
  ASSUME ExportTypes
  PROVE  LET snapshot == [i \in 1..Len(LivePaths) |-> SourceOf(LivePaths[i])]
         IN snapshot \in Seq(SourceSet) /\ SourcesIn(snapshot, revisions)
<1> DEFINE snapshot == [i \in 1..Len(LivePaths) |-> SourceOf(LivePaths[i])]
           live == {p \in Paths : files[p].content # NoContent}
<1>1. Len(LivePaths) \in Nat /\ \A i \in 1..Len(LivePaths) : LivePaths[i] \in live
  <2>1. LivePaths \in Seq(live)
    BY LivePathsTypes
  <2> HIDE DEF live
  <2>2. QED
    BY <2>1
<1>2. ASSUME NEW p \in live PROVE SourceOf(p) \in SourceSet
  <2>1. files[p].content \in Contents /\ files[p].rev \in Nat /\ p \in Paths
    BY <1>2 DEF ExportTypes
  <2>2. QED
    BY <2>1 DEF SourceOf, SourceSet
<1>3. snapshot \in Seq(SourceSet) /\ Len(snapshot) = Len(LivePaths)
  <2> HIDE DEF live
  <2>1. QED
    BY <1>1, <1>2
<1>4. ASSUME NEW i \in 1..Len(snapshot), snapshot[i].source = "revision"
      PROVE  [path |-> snapshot[i].path, rev |-> snapshot[i].rev, content |-> snapshot[i].content] \in revisions
  <2>1. snapshot[i] = SourceOf(LivePaths[i])
    BY <1>3
  <2> HIDE DEF snapshot
  <2>2. QED
    BY <1>4, <2>1 DEF SourceOf
<1>5. QED
  BY <1>3, <1>4 DEF SourcesIn

\* An export starts on what is live, and nothing else is under way.
LEMMA StartKeeps == ASSUME NEW id \in Ids PROVE ExportInv /\ Start(id) => ExportInv'
<1> SUFFICES ASSUME ExportInv, Start(id) PROVE ExportInv'
  OBVIOUS
<1> USE DEF ExportInv
<1> DEFINE snapshot == [i \in 1..Len(LivePaths) |-> SourceOf(LivePaths[i])]
           row == IF Len(Layout(snapshot)) > MaxArchive THEN [NoExport EXCEPT !.status = "failed"]
                  ELSE [NoExport EXCEPT !.status = "queued", !.snapshot = snapshot]
<1>1. snapshot \in Seq(SourceSet) /\ SourcesIn(snapshot, revisions)
  BY SnapshotTypes
<1>2. /\ exports[id].status = "none" /\ \A other \in Ids : ~Active(other)
      /\ captured' = [captured EXCEPT ![id] = snapshot]
      /\ exports' = [exports EXCEPT ![id] = row]
      /\ UNCHANGED <<files, revisions, uploads, archive, late, job>>
  BY DEF Start, tables, r2
<1> HIDE DEF snapshot
<1>3. /\ row \in ExportSet /\ row.upload = 0 /\ row.status \in {"queued", "failed"}
      /\ row.status = "queued" => row = [NoExport EXCEPT !.status = "queued", !.snapshot = snapshot]
  <2>1. /\ <<>> \in Bytes /\ <<>> \in Seq(Bytes) /\ <<>> \in Seq(SourceSet)
    BY DEF Bytes
  <2>2. NoExport \in ExportSet /\ NoExport.upload = 0
    BY <2>1 DEF NoExport, ExportSet
  <2> HIDE DEF Bytes
  <2> DEFINE x == [NoExport EXCEPT !.status = "failed"]
             y == [NoExport EXCEPT !.status = "queued", !.snapshot = snapshot]
  <2>3. x \in ExportSet /\ x.upload = 0 /\ x.status = "failed"
    BY <2>2 DEF ExportSet
  <2>4. y \in ExportSet /\ y.upload = 0 /\ y.status = "queued"
    BY <1>1, <2>2 DEF ExportSet
  <2>5. row = x \/ row = y
    OBVIOUS
  <2> HIDE DEF row, x
  <2>6. row.status = "queued" => row = y
    BY <2>3, <2>5
  <2>7. row \in ExportSet /\ row.upload = 0 /\ row.status \in {"queued", "failed"}
    <3> HIDE DEF y
    <3>1. QED
      BY <2>3, <2>4, <2>5
  <2>8. QED
    BY <2>6, <2>7
<1> HIDE DEF row
<1>4. exports'[id] = row /\ \A other \in Ids : other # id => exports'[other] = exports[other]
  BY <1>2 DEF ExportTypes
<1>5. captured'[id] = snapshot /\ \A other \in Ids : other # id => Captured(other)' = Captured(other)
  BY <1>2 DEF ExportTypes, Captured
<1>6. exports[id].upload = 0 /\ archive[id] = <<>>
  BY <1>2 DEF UploadInv, ArchiveInv
<1>7. job = Resting
  BY <1>2 DEF JobInv, ExportTypes, JobSet
<1>8. ExportTypes'
  <2>1. exports' \in [Ids -> ExportSet] /\ captured' \in [Ids -> Seq(SourceSet)]
    BY <1>1, <1>2, <1>3 DEF ExportTypes
  <2>2. QED
    BY <1>2, <2>1 DEF ExportTypes
<1>9. RevisionInv'
  BY <1>2 DEF RevisionInv
<1>10. ActiveInv'
  <2> SUFFICES ASSUME NEW other \in Ids, Active(other)'
               PROVE  /\ exports'[other].snapshot = captured'[other]
                      /\ SourcesIn(captured'[other], revisions')
                      /\ Progress(Captured(other)', exports'[other])
                      /\ exports'[other].upload # 0 =>
                           Len(exports'[other].parts) <= Len(uploads'[exports'[other].upload].parts)
    BY DEF ActiveInv
  <2>1. other = id
    BY <1>2, <1>4 DEF Active
  <2>2. row.status = "queued"
    BY <1>3, <1>4, <2>1 DEF Active
  <2>3. /\ row.snapshot = snapshot /\ row.emitted = 0 /\ row.parts = <<>> /\ row.pending = <<>>
        /\ row.upload = 0
    BY <1>3, <2>2 DEF NoExport
  <2>4. Captured(id)' = ArchiveOf(snapshot)
    BY <1>5 DEF Captured
  <2>5. Progress(ArchiveOf(snapshot), row)
    <3> DEFINE whole == ArchiveOf(snapshot)
    <3>1. whole \in Bytes
      BY <1>1, ArchiveTypes
    <3> HIDE DEF whole
    <3>2. Cut(whole, 0) = 0 /\ Len(whole) \in Nat
      BY <3>1, CutFacts DEF Bytes
    <3>3. Segment(whole, 0, 0) = <<>>
      BY <3>1, <3>2, SegmentTypes
    <3>4. Progress(whole, row)
      BY <2>3, <3>2, <3>3 DEF Progress, IsParts
    <3>5. QED
      BY <3>4 DEF whole
  <2>6. QED
    BY <1>1, <1>2, <1>4, <1>5, <2>1, <2>3, <2>4, <2>5
<1>11. UploadInv'
  <2>1. \A u \in Uploads : uploads'[u] = uploads[u]
    BY <1>2
  <2>2. \A other \in Ids : exports'[other].upload # 0 => other # id
    BY <1>3, <1>4
  <2>3. \A other \in Ids : exports'[other].upload # 0 =>
          /\ exports'[other].status # "none"
          /\ uploads'[exports'[other].upload].state # "unused"
          /\ IsParts(Captured(other)', uploads'[exports'[other].upload].parts)
    BY <1>2, <1>4, <1>5, <2>2 DEF UploadInv
  <2>4. \A one, other \in Ids : exports'[one].upload = exports'[other].upload /\ one # other =>
          exports'[one].upload = 0
    BY <1>3, <1>4, <1>6 DEF UploadInv
  <2>5. QED
    BY <2>1, <2>3, <2>4 DEF UploadInv
<1>12. JobInv'
  BY <1>2, <1>7 DEF JobInv
<1>13. LateInv'
  <2> SUFFICES ASSUME NEW request \in late PROVE CallInv(request)'
    BY <1>2 DEF LateInv
  <2>1. request.id \in Ids /\ request.upload \in Uploads /\ CallInv(request)
    BY DEF LateInv, ExportTypes, CallSet
  <2>2. request.upload # 0
    BY <2>1 DEF Uploads
  <2>3. request.id # id
    BY <1>6, <2>1, <2>2 DEF CallInv
  <2>4. QED
    BY <1>2, <1>4, <1>5, <2>1, <2>3 DEF CallInv
<1>14. ArchiveInv'
  <2> SUFFICES ASSUME NEW other \in Ids
               PROVE  /\ exports'[other].status = "none" => archive'[other] = <<>>
                      /\ archive'[other] # <<>> => archive'[other] = Captured(other)'
                      /\ exports'[other].status = "complete" =>
                           archive'[other] # <<>> /\ exports'[other].size = Len(archive'[other])
    BY DEF ArchiveInv
  <2>1. CASE other = id
    BY <1>2, <1>3, <1>4, <1>6, <2>1
  <2>2. CASE other # id
    BY <1>2, <1>4, <1>5, <2>2 DEF ArchiveInv
  <2>3. QED
    BY <2>1, <2>2
<1>15. QED
  BY <1>8, <1>9, <1>10, <1>11, <1>12, <1>13, <1>14

\* What R2 does to uploads and archives, whichever call it carries out: no part
\* is lost, and what it stores is of the archive.
R2Moves ==
  /\ uploads' \in [Uploads -> UploadSet] /\ archive' \in [Ids -> Bytes]
  /\ \A u \in Uploads : /\ Len(uploads[u].parts) <= Len(uploads'[u].parts)
                        /\ uploads[u].state # "unused" => uploads'[u].state # "unused"
                        /\ uploads'[u].state = "unused" => uploads'[u] = uploads[u]
  /\ \A id \in Ids : exports[id].upload # 0 =>
       IsParts(Captured(id), uploads'[exports[id].upload].parts)
  /\ \A id \in Ids : \/ archive'[id] = archive[id]
                     \/ archive'[id] = Captured(id) /\ exports[id].status # "none"

\* What a step saves for its export.
Saves(id, x) ==
  /\ Active(id)
  /\ x.status \in {"uploading", "complete", "failed"}
  /\ \/ x.upload = exports[id].upload
     \/ /\ exports[id].upload = 0 /\ x.upload # 0 /\ uploads[x.upload].state = "unused"
        /\ uploads'[x.upload].state # "unused" /\ uploads'[x.upload].parts = <<>>
  /\ x.status = "uploading" =>
       /\ x.snapshot = exports[id].snapshot /\ Progress(Captured(id), x)
       /\ x.upload # 0 => Len(x.parts) <= Len(uploads'[x.upload].parts)
  /\ x.status = "complete" => archive'[id] = Captured(id) /\ x.size = Len(Captured(id))

\* A step that saves such a row, and leaves such a call behind, keeps it all.
LEMMA StepKeeps ==
  ASSUME ExportInv, R2Moves, UNCHANGED <<files, revisions, captured>>,
         NEW id \in Ids, NEW x \in ExportSet, exports' = [exports EXCEPT ![id] = x],
         x = exports[id] \/ Saves(id, x),
         late' \subseteq CallSet, \A request \in late' : CallInv(request),
         job' \in {Resting} \cup JobSet, JobInv'
  PROVE  ExportInv'
<1> USE DEF ExportInv
<1>1. exports'[id] = x /\ \A other \in Ids : other # id => exports'[other] = exports[other]
  BY DEF ExportTypes
<1>2. \A other \in Ids : Captured(other)' = Captured(other)
  BY DEF Captured
<1>3. ExportTypes'
  <2>1. exports' \in [Ids -> ExportSet]
    BY DEF ExportTypes
  <2>2. QED
    BY <2>1 DEF ExportTypes, R2Moves
<1>4. RevisionInv'
  BY DEF RevisionInv
<1>5. \A u \in Uploads : u # 0 /\ Len(uploads[u].parts) \in Nat /\ Len(uploads'[u].parts) \in Nat
                         /\ Len(uploads[u].parts) <= Len(uploads'[u].parts)
  <2> SUFFICES ASSUME NEW u \in Uploads
               PROVE  /\ u # 0 /\ Len(uploads[u].parts) \in Nat /\ Len(uploads'[u].parts) \in Nat
                      /\ Len(uploads[u].parts) <= Len(uploads'[u].parts)
    OBVIOUS
  <2>1. uploads[u] \in UploadSet /\ uploads'[u] \in UploadSet
    BY DEF ExportTypes, R2Moves
  <2>2. Len(uploads[u].parts) \in Nat /\ Len(uploads'[u].parts) \in Nat
    BY <2>1 DEF UploadSet
  <2>3. QED
    BY <2>2 DEF Uploads, R2Moves
<1>6. ActiveInv'
  <2> SUFFICES ASSUME NEW other \in Ids, Active(other)'
               PROVE  /\ exports'[other].snapshot = captured'[other]
                      /\ SourcesIn(captured'[other], revisions')
                      /\ Progress(Captured(other)', exports'[other])
                      /\ exports'[other].upload # 0 =>
                           Len(exports'[other].parts) <= Len(uploads'[exports'[other].upload].parts)
    BY DEF ActiveInv
  <2>1. CASE exports'[other] = exports[other]
    <3>1. Active(other)
      BY <2>1 DEF Active
    <3>2. /\ exports[other].snapshot = captured[other]
          /\ SourcesIn(captured[other], revisions)
          /\ Progress(Captured(other), exports[other])
          /\ exports[other].upload # 0 =>
               Len(exports[other].parts) <= Len(uploads[exports[other].upload].parts)
      BY <3>1 DEF ActiveInv
    <3>3. exports[other].upload \in Uploads \cup {0} /\ Len(exports[other].parts) \in Nat
      <4>1. exports[other] \in ExportSet
        BY DEF ExportTypes
      <4>2. QED
        BY <4>1 DEF ExportSet
    <3>4. exports[other].upload # 0 =>
               Len(exports[other].parts) <= Len(uploads'[exports[other].upload].parts)
      BY <1>5, <3>2, <3>3
    <3>5. QED
      BY <1>2, <2>1, <3>2, <3>4
  <2>2. CASE exports'[other] # exports[other]
    <3>1. other = id /\ Saves(id, x) /\ exports'[other] = x
      BY <1>1, <2>2
    <3>2. Active(id) /\ x.status = "uploading"
      BY <3>1 DEF Saves, Active
    <3>3. /\ x.snapshot = exports[id].snapshot /\ Progress(Captured(id), x)
          /\ x.upload # 0 => Len(x.parts) <= Len(uploads'[x.upload].parts)
      BY <3>1, <3>2 DEF Saves
    <3>4. exports[id].snapshot = captured[id] /\ SourcesIn(captured[id], revisions)
      BY <3>2 DEF ActiveInv
    <3>5. QED
      BY <1>2, <3>1, <3>3, <3>4
  <2>3. QED
    BY <2>1, <2>2
<1>7. UploadInv'
  <2>0. \A other \in Ids : exports[other].upload \in Uploads \cup {0} /\ exports'[other].upload \in Uploads \cup {0}
    <3> SUFFICES ASSUME NEW other \in Ids
                 PROVE  exports[other].upload \in Uploads \cup {0} /\ exports'[other].upload \in Uploads \cup {0}
      OBVIOUS
    <3>1. exports[other] \in ExportSet /\ exports'[other] \in ExportSet
      BY <1>3 DEF ExportTypes
    <3>2. QED
      BY <3>1 DEF ExportSet
  <2>1. \A u \in Uploads : uploads'[u].state = "unused" => uploads'[u].parts = <<>>
    BY DEF R2Moves, UploadInv
  <2>2. \A other \in Ids : exports'[other].upload = exports[other].upload \/
          /\ other = id /\ exports[id].upload = 0 /\ uploads[x.upload].state = "unused"
          /\ uploads'[x.upload].state # "unused" /\ uploads'[x.upload].parts = <<>>
    BY <1>1 DEF Saves
  <2>3. ASSUME NEW other \in Ids, exports'[other].upload # 0
        PROVE  /\ exports'[other].status # "none"
               /\ uploads'[exports'[other].upload].state # "unused"
               /\ IsParts(Captured(other)', uploads'[exports'[other].upload].parts)
    <3>1. exports'[other].status # "none" \/ exports'[other] = exports[other]
      BY <1>1 DEF Saves
    <3>2. CASE exports'[other].upload = exports[other].upload
      <4>1. /\ exports[other].status # "none" /\ uploads[exports[other].upload].state # "unused"
            /\ exports[other].upload \in Uploads
        BY <2>0, <2>3, <3>2 DEF UploadInv
      <4>2. uploads'[exports[other].upload].state # "unused"
        BY <4>1 DEF R2Moves
      <4>3. IsParts(Captured(other), uploads'[exports[other].upload].parts)
        BY <2>3, <3>2 DEF R2Moves
      <4>4. QED
        BY <1>2, <3>1, <3>2, <4>1, <4>2, <4>3
    <3>3. CASE exports'[other].upload # exports[other].upload
      <4>1. /\ exports'[other] = x /\ uploads'[x.upload].state # "unused" /\ uploads'[x.upload].parts = <<>>
            /\ exports'[other] # exports[other]
        BY <1>1, <2>2, <3>3
      <4>2. IsParts(Captured(other)', <<>>)
        BY DEF IsParts
      <4>3. QED
        BY <3>1, <4>1, <4>2
    <3>4. QED
      BY <3>2, <3>3
  <2>4. ASSUME NEW one \in Ids, NEW other \in Ids, exports'[one].upload = exports'[other].upload,
               one # other
        PROVE  exports'[one].upload = 0
    <3>1. CASE exports'[one].upload = exports[one].upload /\ exports'[other].upload = exports[other].upload
      BY <2>4, <3>1 DEF UploadInv
    <3>2. CASE exports'[one].upload # exports[one].upload
      <4>1. one = id /\ uploads[x.upload].state = "unused" /\ exports'[one] = x
        BY <1>1, <2>2, <3>2
      <4>2. exports'[other].upload = exports[other].upload
        BY <1>1, <2>4, <4>1
      <4>3. exports[other].upload # 0 => uploads[exports[other].upload].state # "unused"
        BY DEF UploadInv
      <4>4. QED
        BY <2>4, <4>1, <4>2, <4>3
    <3>3. CASE exports'[other].upload # exports[other].upload
      <4>1. other = id /\ uploads[x.upload].state = "unused" /\ exports'[other] = x
        BY <1>1, <2>2, <3>3
      <4>2. exports'[one].upload = exports[one].upload
        BY <1>1, <2>4, <4>1
      <4>3. exports[one].upload # 0 => uploads[exports[one].upload].state # "unused"
        BY DEF UploadInv
      <4>4. QED
        BY <2>4, <4>1, <4>2, <4>3
    <3>4. QED
      BY <3>1, <3>2, <3>3
  <2>5. QED
    BY <2>1, <2>3, <2>4 DEF UploadInv
<1>8. LateInv'
  <2> SUFFICES ASSUME NEW request \in late' PROVE CallInv(request)'
    BY DEF LateInv
  <2>1. request.id \in Ids /\ request.upload \in Uploads /\ Len(request.parts) \in Nat
    BY DEF CallSet
  <2>2. exports[request.id].upload = request.upload /\ request.upload # 0
        /\ CallFits(Captured(request.id), request, uploads[request.upload].parts)
    BY <1>5, <2>1 DEF CallInv
  <2>3. exports'[request.id].upload = request.upload
    BY <1>1, <2>1, <2>2 DEF Saves
  <2>4. CallFits(Captured(request.id), request, uploads'[request.upload].parts)
    <3>1. Len(request.parts) <= Len(uploads[request.upload].parts) + 1 =>
            Len(request.parts) <= Len(uploads'[request.upload].parts) + 1
      BY <1>5, <2>1
    <3>2. QED
      BY <2>2, <3>1 DEF CallFits
  <2>5. QED
    BY <1>2, <2>1, <2>3, <2>4 DEF CallInv
<1>9. ArchiveInv'
  <2> SUFFICES ASSUME NEW other \in Ids
               PROVE  /\ exports'[other].status = "none" => archive'[other] = <<>>
                      /\ archive'[other] # <<>> => archive'[other] = Captured(other)'
                      /\ exports'[other].status = "complete" =>
                           archive'[other] # <<>> /\ exports'[other].size = Len(archive'[other])
    BY DEF ArchiveInv
  <2>1. /\ exports[other].status = "none" => archive[other] = <<>>
        /\ archive[other] # <<>> => archive[other] = Captured(other)
        /\ exports[other].status = "complete" =>
             archive[other] # <<>> /\ exports[other].size = Len(archive[other])
    BY DEF ArchiveInv
  <2>2. \/ archive'[other] = archive[other]
        \/ archive'[other] = Captured(other) /\ exports[other].status # "none"
    BY DEF R2Moves
  <2>3. archive'[other] # <<>> => archive'[other] = Captured(other)'
    BY <1>2, <2>1, <2>2
  <2>4. Captured(other) # <<>>
    BY CapturedTypes
  <2>5. archive[other] # <<>> => archive'[other] = archive[other]
    BY <2>1, <2>2
  <2>6. CASE exports'[other] = exports[other]
    BY <2>1, <2>2, <2>3, <2>5, <2>6
  <2>7. CASE exports'[other] # exports[other]
    <3>1. other = id /\ Saves(id, x) /\ exports'[other] = x
      BY <1>1, <2>7
    <3>2. x.status # "none" /\ (x.status = "complete" => archive'[id] = Captured(id) /\ x.size = Len(Captured(id)))
      BY <3>1 DEF Saves
    <3>3. QED
      BY <2>3, <2>4, <3>1, <3>2
  <2>8. QED
    BY <2>6, <2>7
<1>10. QED
  BY <1>3, <1>4, <1>6, <1>7, <1>8, <1>9

\* A call that R2 does not accept, or that is not made.
LEMMA NothingMoves ==
  ASSUME ExportInv, UNCHANGED <<uploads, archive>>
  PROVE  R2Moves
<1>1. \A u \in Uploads : uploads[u] \in UploadSet
  BY DEF ExportInv, ExportTypes
<1>2. \A u \in Uploads : Len(uploads[u].parts) <= Len(uploads[u].parts)
  BY <1>1 DEF UploadSet
<1>3. QED
  BY <1>2 DEF ExportInv, ExportTypes, UploadInv, R2Moves

\* createMultipartUpload.
LEMMA OpenMoves ==
  ASSUME ExportInv, NEW u \in Uploads, uploads[u].state = "unused",
         uploads' = [uploads EXCEPT ![u].state = "open"], archive' = archive
  PROVE  R2Moves /\ uploads'[u].state # "unused" /\ uploads'[u].parts = <<>>
<1>1. \A v \in Uploads : uploads[v] \in UploadSet
  BY DEF ExportInv, ExportTypes
<1>2. \A v \in Uploads : Len(uploads[v].parts) <= Len(uploads[v].parts)
  BY <1>1 DEF UploadSet
<1>3. uploads' \in [Uploads -> UploadSet]
  BY <1>1 DEF UploadSet, ExportInv, ExportTypes
<1>4. /\ \A v \in Uploads : uploads'[v].parts = uploads[v].parts
      /\ \A v \in Uploads : v # u => uploads'[v] = uploads[v]
      /\ uploads'[u].state = "open"
  BY <1>1 DEF UploadSet, ExportInv, ExportTypes
<1>5. \A id \in Ids : exports[id].upload # 0 => exports[id].upload \in Uploads
  <2> SUFFICES ASSUME NEW id \in Ids, exports[id].upload # 0 PROVE exports[id].upload \in Uploads
    OBVIOUS
  <2>1. exports[id] \in ExportSet
    BY DEF ExportInv, ExportTypes
  <2>2. QED
    BY <2>1 DEF ExportSet
<1>6. \A id \in Ids : exports[id].upload # 0 =>
        IsParts(Captured(id), uploads'[exports[id].upload].parts)
  BY <1>4, <1>5 DEF ExportInv, UploadInv
<1>7. uploads[u].parts = <<>>
  BY DEF ExportInv, UploadInv
<1>8. archive' \in [Ids -> Bytes] /\ \A id \in Ids : archive'[id] = archive[id]
  BY DEF ExportInv, ExportTypes
<1>9. \A v \in Uploads : /\ Len(uploads[v].parts) <= Len(uploads'[v].parts)
                         /\ uploads[v].state # "unused" => uploads'[v].state # "unused"
                         /\ uploads'[v].state = "unused" => uploads'[v] = uploads[v]
  BY <1>2, <1>4
<1>10. QED
  BY <1>3, <1>4, <1>6, <1>7, <1>8, <1>9 DEF R2Moves

\* The whole as a segment.
LEMMA SegmentWhole ==
  ASSUME NEW whole \in Bytes
  PROVE  Segment(whole, 0, Len(whole)) = whole
<1>1. whole \in Seq(UnitSet)
  BY DEF Bytes
<1> HIDE DEF UnitSet
<1>2. QED
  BY <1>1 DEF Segment

\* A part that is put again is the same part.
LEMMA SamePart ==
  ASSUME NEW whole, NEW s \in Seq(Bytes), NEW t \in Seq(Bytes), IsParts(whole, s), IsParts(whole, t),
         Len(s) # 0, Len(s) <= Len(t)
  PROVE  [t EXCEPT ![Len(s)] = s[Len(s)]] = t
<1>1. Len(s) \in 1..Len(s) /\ Len(s) \in 1..Len(t)
  OBVIOUS
<1>2. s[Len(s)] = t[Len(s)]
  BY <1>1 DEF IsParts
<1>3. QED
  BY <1>1, <1>2

\* The next part.
LEMMA NextPart ==
  ASSUME NEW whole, NEW s \in Seq(Bytes), NEW part \in Bytes, IsParts(whole, s),
         Cut(whole, Len(s)) < Len(whole),
         part = Segment(whole, Cut(whole, Len(s)), Cut(whole, Len(s) + 1))
  PROVE  IsParts(whole, Append(s, part)) /\ Append(s, part) \in Seq(Bytes) /\ Len(Append(s, part)) = Len(s) + 1
<1>1. /\ Len(s) \in Nat /\ Len(Append(s, part)) = Len(s) + 1 /\ Append(s, part)[Len(s) + 1] = part
      /\ \A n \in 1..Len(s) : Append(s, part)[n] = s[n]
      /\ Append(s, part) \in Seq(Bytes)
  OBVIOUS
<1>2. ASSUME NEW n \in 1..(Len(s) + 1)
      PROVE  /\ Cut(whole, n - 1) < Len(whole)
             /\ Append(s, part)[n] = Segment(whole, Cut(whole, n - 1), Cut(whole, n))
  <2>1. CASE n \in 1..Len(s)
    BY <1>1, <2>1 DEF IsParts
  <2>2. CASE n = Len(s) + 1
    <3>1. n - 1 = Len(s)
      BY <1>1, <2>2
    <3>2. QED
      BY <1>1, <2>2, <3>1
  <2>3. QED
    BY <1>1, <2>1, <2>2
<1>3. QED
  BY <1>1, <1>2 DEF IsParts

\* A call that fits its archive, whenever R2 carries it out.
LEMMA CallMoves ==
  ASSUME ExportInv, NEW request \in CallSet, CallInv(request),
         IF Accepted(request) THEN Perform(request) ELSE UNCHANGED <<uploads, archive>>
  PROVE  /\ R2Moves
         /\ Accepted(request) /\ request.op = "complete" => archive'[request.id] = Captured(request.id)
         /\ Accepted(request) /\ request.op = "put" => Len(request.parts) <= Len(uploads'[request.upload].parts)
<1>1. CASE ~Accepted(request)
  BY <1>1, NothingMoves
<1>2. CASE Accepted(request)
  <2> DEFINE u == request.upload
             whole == Captured(request.id)
             stored == uploads[u].parts
             n == Len(request.parts)
  <2>1. /\ request.id \in Ids /\ u \in Uploads /\ u # 0 /\ request.parts \in Seq(Bytes)
        /\ request.op \in {"put", "complete", "abort"} /\ uploads[u].state = "open"
    BY <1>2 DEF CallSet, Uploads, Accepted
  <2>2. \A v \in Uploads : uploads[v] \in UploadSet
    BY DEF ExportInv, ExportTypes
  <2>3. stored \in Seq(Bytes) /\ n \in Nat /\ Len(stored) \in Nat
    BY <2>1, <2>2 DEF UploadSet
  <2>4. whole \in Bytes
    BY <2>1, CapturedTypes DEF ExportInv
  <2>5. exports[request.id].upload = u /\ exports[request.id].status # "none" /\ IsParts(whole, stored)
    BY <2>1 DEF CallInv, ExportInv, UploadInv
  <2>6. /\ IsParts(whole, request.parts)
        /\ request.op = "put" => n # 0 /\ n <= Len(stored) + 1
        /\ request.op = "complete" => Cut(whole, n) = Len(whole)
    BY DEF CallInv, CallFits
  <2>7. /\ uploads' = [uploads EXCEPT ![u] =
             CASE request.op = "put" -> [@ EXCEPT !.parts =
                    IF n <= Len(stored) THEN [stored EXCEPT ![n] = request.parts[n]]
                    ELSE Append(stored, request.parts[n])]
               [] OTHER -> [@ EXCEPT !.state = request.op]]
        /\ archive' = IF request.op = "complete"
                      THEN [archive EXCEPT ![request.id] = FlattenSeq(request.parts)] ELSE archive
    BY <1>2 DEF Perform
  <2>8. \A v \in Uploads : v # u => uploads'[v] = uploads[v]
    BY <2>7 DEF ExportInv, ExportTypes
  <2> HIDE DEF whole, stored, n, u
  <2>9. /\ uploads'[u] \in UploadSet /\ uploads'[u].state # "unused"
        /\ IsParts(whole, uploads'[u].parts) /\ Len(stored) <= Len(uploads'[u].parts)
        /\ request.op = "put" => n <= Len(uploads'[u].parts)
    <3>1. CASE request.op = "put" /\ n <= Len(stored)
      <4>1. uploads'[u] = [uploads[u] EXCEPT !.parts = [stored EXCEPT ![n] = request.parts[n]]]
        BY <2>1, <2>7, <3>1 DEF ExportInv, ExportTypes
      <4>2. [stored EXCEPT ![n] = request.parts[n]] = stored
        BY <2>1, <2>3, <2>5, <2>6, <3>1, SamePart DEF n
      <4>3. uploads'[u].parts = stored /\ uploads'[u].state = "open" /\ uploads'[u] \in UploadSet
        BY <2>1, <2>2, <2>3, <4>1, <4>2 DEF UploadSet
      <4>4. QED
        BY <2>3, <2>5, <3>1, <4>3
    <3>2. CASE request.op = "put" /\ ~(n <= Len(stored))
      <4>1. uploads'[u] = [uploads[u] EXCEPT !.parts = Append(stored, request.parts[n])]
        BY <2>1, <2>7, <3>2 DEF ExportInv, ExportTypes
      <4>2. n = Len(stored) + 1 /\ n - 1 = Len(stored)
        BY <2>3, <2>6, <3>2
      <4>3. request.parts[n] \in Bytes
        BY <2>1, <2>3, <2>6, <3>2 DEF n
      <4>4. /\ Cut(whole, Len(stored)) < Len(whole)
            /\ request.parts[n] = Segment(whole, Cut(whole, Len(stored)), Cut(whole, Len(stored) + 1))
        <5>1. n \in 1..Len(request.parts)
          BY <2>3, <4>2 DEF n
        <5>2. /\ Cut(whole, n - 1) < Len(whole)
              /\ request.parts[n] = Segment(whole, Cut(whole, n - 1), Cut(whole, n))
          BY <2>6, <5>1 DEF IsParts
        <5>3. QED
          BY <4>2, <5>2
      <4>5. /\ IsParts(whole, Append(stored, request.parts[n])) /\ Append(stored, request.parts[n]) \in Seq(Bytes)
            /\ Len(Append(stored, request.parts[n])) = Len(stored) + 1
        BY <2>3, <2>5, <4>3, <4>4, NextPart
      <4>6. /\ uploads'[u].parts = Append(stored, request.parts[n]) /\ uploads'[u].state = "open"
            /\ uploads'[u] \in UploadSet
        BY <2>1, <2>2, <4>1, <4>5 DEF UploadSet
      <4>7. QED
        BY <2>3, <4>2, <4>5, <4>6
    <3>3. CASE request.op # "put"
      <4>1. uploads'[u] = [uploads[u] EXCEPT !.state = request.op]
        BY <2>1, <2>7, <3>3 DEF ExportInv, ExportTypes
      <4>2. uploads'[u].parts = stored /\ uploads'[u].state = request.op /\ uploads'[u] \in UploadSet
        BY <2>1, <2>2, <3>3, <4>1 DEF UploadSet, stored
      <4>3. QED
        BY <2>1, <2>3, <2>5, <3>3, <4>2
    <3>4. QED
      BY <3>1, <3>2, <3>3
  <2>10. request.op = "complete" => FlattenSeq(request.parts) = whole
    <3>1. FlattenSeq(request.parts) = Segment(whole, 0, Cut(whole, n))
      BY <2>1, <2>4, <2>6, PartsFlatten DEF n
    <3>2. QED
      BY <2>4, <2>6, <3>1, SegmentWhole
  <2>11. /\ archive' \in [Ids -> Bytes]
         /\ \A id \in Ids : archive'[id] = archive[id] \/ (id = request.id /\ archive'[id] = whole)
         /\ request.op = "complete" => archive'[request.id] = whole
    <3>0. archive \in [Ids -> Bytes]
      BY DEF ExportInv, ExportTypes
    <3>1. CASE request.op = "complete"
      <4>1. archive' = [archive EXCEPT ![request.id] = whole]
        BY <2>7, <2>10, <3>1
      <4>2. archive'[request.id] = whole /\ \A id \in Ids : id # request.id => archive'[id] = archive[id]
        BY <2>1, <3>0, <4>1
      <4>3. archive' \in [Ids -> Bytes]
        BY <2>4, <3>0, <4>1
      <4>4. QED
        BY <4>2, <4>3
    <3>2. CASE request.op # "complete"
      <4>1. archive' = archive
        BY <2>7, <3>2
      <4>2. QED
        BY <3>0, <3>2, <4>1
    <3>3. QED
      BY <3>1, <3>2
  <2>12. uploads' \in [Uploads -> UploadSet]
    BY <2>1, <2>2, <2>7, <2>8, <2>9 DEF ExportInv, ExportTypes
  <2>13. \A v \in Uploads : /\ Len(uploads[v].parts) <= Len(uploads'[v].parts)
                            /\ uploads[v].state # "unused" => uploads'[v].state # "unused"
                            /\ uploads'[v].state = "unused" => uploads'[v] = uploads[v]
    <3>1. \A v \in Uploads : Len(uploads[v].parts) \in Nat
      BY <2>2 DEF UploadSet
    <3>2. QED
      BY <2>8, <2>9, <3>1 DEF stored
  <2>14. ASSUME NEW id \in Ids, exports[id].upload # 0
         PROVE  IsParts(Captured(id), uploads'[exports[id].upload].parts)
    <3>1. exports[id] \in ExportSet
      BY DEF ExportInv, ExportTypes
    <3>2. exports[id].upload \in Uploads
      BY <2>14, <3>1 DEF ExportSet
    <3>3. CASE exports[id].upload = u
      <4>1. id = request.id
        BY <2>1, <2>5, <2>14, <3>3 DEF ExportInv, UploadInv
      <4>2. QED
        BY <2>9, <3>3, <4>1 DEF whole
    <3>4. CASE exports[id].upload # u
      BY <2>8, <2>14, <3>2, <3>4 DEF ExportInv, UploadInv
    <3>5. QED
      BY <3>3, <3>4
  <2>15. R2Moves
    BY <2>5, <2>11, <2>12, <2>13, <2>14 DEF R2Moves, whole
  <2>16. QED
    BY <2>9, <2>11, <2>15 DEF whole, n, u
<1>3. QED
  BY <1>1, <1>2

\* What is known of the step in flight.
LEMMA JobFacts ==
  ASSUME ExportInv, job # Resting
  PROVE  /\ job \in JobSet /\ job.id \in Ids /\ job.work \in ExportSet /\ job.bytes \in Bytes
         /\ exports[job.id] \in ExportSet
         /\ Active(job.id) /\ Unmoved(job.work) /\ SameRow(job.work, exports[job.id])
         /\ Progress(Captured(job.id), job.work)
         /\ job.work.snapshot = captured[job.id] /\ SourcesIn(captured[job.id], revisions)
         /\ job.work.upload # 0 => /\ job.work.upload \in Uploads
                                   /\ Len(job.work.parts) <= Len(uploads[job.work.upload].parts)
         /\ Total(job.work) = Len(Captured(job.id))
         /\ Work(Captured(job.id), job.work, job.at, job.bytes)
<1>1. job \in JobSet
  BY DEF ExportInv, ExportTypes
<1>2. job.id \in Ids /\ job.work \in ExportSet /\ job.bytes \in Bytes
  BY <1>1 DEF JobSet
<1>3. /\ Active(job.id) /\ SameRow(job.work, exports[job.id])
      /\ Work(Captured(job.id), job.work, job.at, job.bytes)
  BY DEF ExportInv, JobInv
<1>4. exports[job.id] \in ExportSet
  BY <1>2 DEF ExportInv, ExportTypes
<1>5. Unmoved(job.work)
  BY <1>3 DEF Unmoved, SameRow
<1>6. /\ exports[job.id].snapshot = captured[job.id] /\ SourcesIn(captured[job.id], revisions)
      /\ Progress(Captured(job.id), exports[job.id])
      /\ exports[job.id].upload # 0 =>
           Len(exports[job.id].parts) <= Len(uploads[exports[job.id].upload].parts)
  BY <1>2, <1>3 DEF ExportInv, ActiveInv
<1>7. Progress(Captured(job.id), job.work)
  BY <1>3, <1>6 DEF Progress, SameRow
<1>8. job.work.upload # 0 => job.work.upload \in Uploads
  BY <1>2 DEF ExportSet
<1>9. Total(job.work) = Len(Captured(job.id))
  <2>1. Len(Captured(job.id)) = Len(Layout(captured[job.id]))
    BY <1>2, CapturedTypes DEF ExportInv
  <2>2. QED
    BY <1>3, <1>6, <2>1 DEF Total, SameRow
<1>10. QED
  BY <1>1, <1>2, <1>3, <1>4, <1>5, <1>6, <1>7, <1>8, <1>9 DEF SameRow

\* The numbers of the step in flight.
LEMMA WorkFacts ==
  ASSUME ExportInv, job # Resting
  PROVE  LET whole == Captured(job.id)
             k == Len(job.work.parts)
             end == job.work.emitted + Len(job.bytes)
         IN /\ whole \in Bytes /\ Len(whole) \in Nat /\ k \in Nat /\ job.work.emitted \in Nat
            /\ Len(job.bytes) \in Nat /\ end \in Nat /\ end <= Len(whole)
            /\ Cut(whole, k) \in Nat /\ Cut(whole, k) <= job.work.emitted
            /\ job.work.pending \o job.bytes = Segment(whole, Cut(whole, k), end)
            /\ Cut(whole, k + 1) = IF Cut(whole, k) + PartSize < Len(whole)
                                   THEN Cut(whole, k) + PartSize ELSE Len(whole)
<1> DEFINE whole == Captured(job.id)
           k == Len(job.work.parts)
           emitted == job.work.emitted
           end == emitted + Len(job.bytes)
<1>1. whole \in Bytes /\ Len(whole) \in Nat
  BY JobFacts, CapturedTypes DEF ExportInv
<1>2. job.work \in ExportSet /\ job.bytes \in Bytes
  BY JobFacts
<1>3. k \in Nat /\ emitted \in Nat
  BY <1>2 DEF ExportSet
<1>4. Len(job.bytes) \in Nat
  BY <1>2 DEF Bytes
<1>5. Progress(whole, job.work) /\ Work(whole, job.work, job.at, job.bytes)
  BY JobFacts
<1>6. /\ Cut(whole, k) <= emitted /\ emitted <= Len(whole) /\ end <= Len(whole)
      /\ job.work.pending = Segment(whole, Cut(whole, k), emitted)
      /\ job.bytes = Segment(whole, emitted, end)
  BY <1>5 DEF Progress, Work
<1> HIDE DEF whole
<1>7. /\ Cut(whole, k) \in Nat
      /\ Cut(whole, k + 1) = IF Cut(whole, k) + PartSize < Len(whole)
                             THEN Cut(whole, k) + PartSize ELSE Len(whole)
  BY <1>1, <1>3, CutFacts
<1>8. end \in Nat /\ emitted <= end
  BY <1>3, <1>4
<1> HIDE DEF k, emitted, end
<1>9. job.work.pending \o job.bytes = Segment(whole, Cut(whole, k), end)
  <2>1. Segment(whole, Cut(whole, k), emitted) \o Segment(whole, emitted, end)
          = Segment(whole, Cut(whole, k), end)
    BY <1>1, <1>3, <1>6, <1>7, <1>8, SegmentsJoin
  <2>2. QED
    BY <1>6, <2>1
<1>10. QED
  BY <1>1, <1>3, <1>4, <1>6, <1>7, <1>8, <1>9 DEF whole, k, emitted, end

\* Where the part that starts at a cut ends.
NextCut(whole, cut) == IF cut + PartSize < Len(whole) THEN cut + PartSize ELSE Len(whole)

\* A part is the next cut, and what stays pending is what follows it.
LEMMA FirstPartFacts ==
  ASSUME NEW whole \in Bytes, NEW cut \in Nat, NEW end \in Nat,
         cut < end, end <= Len(whole), end - cut < PartSize => end = Len(whole)
  PROVE  /\ NextCut(whole, cut) \in Nat /\ NextCut(whole, cut) <= end
         /\ FirstPart(Segment(whole, cut, end)) = Segment(whole, cut, NextCut(whole, cut))
         /\ Remainder(Segment(whole, cut, end), TRUE) = Segment(whole, NextCut(whole, cut), end)
<1> DEFINE next == NextCut(whole, cut)
<1> DEFINE all == Segment(whole, cut, end)
<1>1. Len(whole) \in Nat /\ PartSize \in Nat /\ PartSize >= 1
  BY ExportAssumption DEF Bytes
<1>0. next = (IF cut + PartSize < Len(whole) THEN cut + PartSize ELSE Len(whole)) /\ next \in Nat
  BY <1>1 DEF NextCut
<1> HIDE DEF next
<1>2. all \in Bytes /\ Len(all) = end - cut
  <2>1. cut <= end
    BY <1>1
  <2>2. QED
    BY <2>1, SegmentTypes
<1> HIDE DEF all
<1>3. CASE end - cut < PartSize
  <2>1. next = end /\ end = Len(whole)
    BY <1>0, <1>1, <1>3
  <2>2. FirstPart(all) = SubSeq(all, 1, Len(all))
    BY <1>1, <1>2, <1>3 DEF FirstPart
  <2>3. SubSeq(all, 1, Len(all)) = all
    <3>1. all \in Seq(UnitSet)
      BY <1>2 DEF Bytes
    <3>2. QED
      BY <3>1
  <2>4. Remainder(all, TRUE) = <<>>
    <3>1. all \in Seq(UnitSet) /\ Len(all) \in Nat /\ Len(all) < PartSize
      BY <1>2, <1>3 DEF Bytes
    <3>2. SubSeq(all, PartSize + 1, Len(all)) = <<>>
      BY <1>1, <3>1
    <3>3. QED
      BY <3>2 DEF Remainder
  <2>5. Segment(whole, next, end) = <<>>
    <3>1. end <= end /\ end \in Nat /\ end <= Len(whole)
      BY <1>1
    <3>2. Segment(whole, end, end) = <<>>
      BY <3>1, SegmentTypes
    <3>3. QED
      BY <2>1, <3>2
  <2>6. QED
    BY <2>1, <2>2, <2>3, <2>4, <2>5 DEF all, next
<1>4. CASE ~(end - cut < PartSize)
  <2>1. next = cut + PartSize /\ next <= end
    BY <1>0, <1>1, <1>4
  <2>0. /\ 0 \in Nat /\ 0 <= PartSize /\ PartSize <= end - cut /\ cut <= end
        /\ end - cut \in Nat /\ end - cut <= end - cut
    BY <1>1, <1>4
  <2>2. FirstPart(all) = Segment(all, 0, PartSize)
    <3>1. FirstPart(all) = SubSeq(all, 1, PartSize)
      BY <1>1, <1>2, <1>4 DEF FirstPart
    <3>2. QED
      BY <3>1 DEF Segment
  <2>3. Segment(Segment(whole, cut, end), 0, PartSize) = Segment(whole, cut + 0, cut + PartSize)
    BY <1>1, <2>0, SegmentInside
  <2>4. Remainder(all, TRUE) = Segment(all, PartSize, end - cut)
    BY <1>2 DEF Remainder, Segment
  <2>5. Segment(Segment(whole, cut, end), PartSize, end - cut)
          = Segment(whole, cut + PartSize, cut + (end - cut))
    <3> DEFINE length == end - cut
    <3>1. length \in Nat /\ PartSize <= length /\ length <= end - cut
      BY <2>0
    <3> HIDE DEF length
    <3>2. Segment(Segment(whole, cut, end), PartSize, length) = Segment(whole, cut + PartSize, cut + length)
      BY <1>1, <2>0, <3>1, SegmentInside
    <3>3. QED
      BY <3>2 DEF length
  <2>6. cut + 0 = cut /\ cut + (end - cut) = end
    OBVIOUS
  <2>7. /\ FirstPart(all) = Segment(whole, cut, next)
        /\ Remainder(all, TRUE) = Segment(whole, next, end)
    <3>1. FirstPart(all) = Segment(whole, cut, cut + PartSize)
      BY <2>2, <2>3, <2>6 DEF all
    <3>2. Remainder(all, TRUE) = Segment(whole, cut + PartSize, end)
      BY <2>4, <2>5, <2>6 DEF all
    <3>3. QED
      BY <2>1, <3>1, <3>2
  <2>8. QED
    BY <1>0, <2>1, <2>7 DEF all, next
<1>5. QED
  BY <1>0, <1>1, <1>3, <1>4 DEF all, next

\* What a put takes.
LEMMA PutFacts ==
  ASSUME ExportInv, job # Resting, job.at = "put"
  PROVE  LET whole == Captured(job.id)
             k == Len(job.work.parts)
             end == job.work.emitted + Len(job.bytes)
             all == job.work.pending \o job.bytes
         IN /\ FirstPart(all) = Segment(whole, Cut(whole, k), Cut(whole, k + 1))
            /\ Remainder(all, TRUE) = Segment(whole, Cut(whole, k + 1), end)
            /\ Cut(whole, k) < Len(whole) /\ Cut(whole, k + 1) <= end
            /\ FirstPart(all) \in Bytes
            /\ IsParts(whole, Append(job.work.parts, FirstPart(all)))
            /\ Append(job.work.parts, FirstPart(all)) \in Seq(Bytes)
            /\ Len(Append(job.work.parts, FirstPart(all))) = k + 1
<1> DEFINE whole == Captured(job.id)
           k == Len(job.work.parts)
           emitted == job.work.emitted
           end == emitted + Len(job.bytes)
           all == job.work.pending \o job.bytes
<1>1. /\ whole \in Bytes /\ Len(whole) \in Nat /\ k \in Nat /\ emitted \in Nat
      /\ Len(job.bytes) \in Nat /\ end \in Nat /\ end <= Len(whole)
      /\ Cut(whole, k) \in Nat /\ all = Segment(whole, Cut(whole, k), end)
      /\ Cut(whole, k + 1) = IF Cut(whole, k) + PartSize < Len(whole)
                             THEN Cut(whole, k) + PartSize ELSE Len(whole)
  BY WorkFacts
<1>2. Cut(whole, k) < end /\ (end < Cut(whole, k) + PartSize => end = Len(whole))
  BY JobFacts DEF Work
<1>3. IsParts(whole, job.work.parts)
  BY JobFacts DEF Progress
<1>4. job.work.parts \in Seq(Bytes)
  <2>1. job.work \in ExportSet
    BY JobFacts
  <2>2. QED
    BY <2>1 DEF ExportSet
<1> HIDE DEF whole, end, emitted, all
<1>5. Cut(whole, k + 1) \in Nat
  BY <1>1, ExportAssumption
<1>6. /\ Cut(whole, k + 1) <= end
      /\ FirstPart(all) = Segment(whole, Cut(whole, k), Cut(whole, k + 1))
      /\ Remainder(all, TRUE) = Segment(whole, Cut(whole, k + 1), end)
  <2> DEFINE cut == Cut(whole, k)
  <2>1. cut \in Nat /\ cut < end /\ (end - cut < PartSize => end = Len(whole))
    BY <1>1, <1>2, ExportAssumption
  <2>2. all = Segment(whole, cut, end) /\ Cut(whole, k + 1) = NextCut(whole, cut)
    BY <1>1 DEF NextCut
  <2> HIDE DEF cut
  <2>3. /\ NextCut(whole, cut) <= end
        /\ FirstPart(Segment(whole, cut, end)) = Segment(whole, cut, NextCut(whole, cut))
        /\ Remainder(Segment(whole, cut, end), TRUE) = Segment(whole, NextCut(whole, cut), end)
    BY <1>1, <2>1, FirstPartFacts
  <2>4. QED
    BY <2>2, <2>3 DEF cut
<1>7. Cut(whole, k) <= Cut(whole, k + 1) /\ Cut(whole, k + 1) <= Len(whole) /\ Cut(whole, k) < Len(whole)
  BY <1>1, <1>2, <1>5, <1>6, ExportAssumption
<1>8. FirstPart(all) \in Bytes
  BY <1>1, <1>5, <1>6, <1>7, SegmentTypes
<1>9. /\ IsParts(whole, Append(job.work.parts, FirstPart(all)))
      /\ Append(job.work.parts, FirstPart(all)) \in Seq(Bytes)
      /\ Len(Append(job.work.parts, FirstPart(all))) = k + 1
  BY <1>3, <1>4, <1>6, <1>7, <1>8, NextPart
<1>10. QED
  BY <1>6, <1>7, <1>8, <1>9 DEF whole, end, emitted, all

\* The call of the step in flight fits its archive.
LEMMA CallFacts ==
  ASSUME ExportInv, job # Resting, job.at \in {"put", "complete", "abort"}
  PROVE  /\ Call \in CallSet /\ CallInv(Call)
         /\ Call.id = job.id /\ Call.op = job.at /\ Call.upload = job.work.upload
         /\ job.at = "put" => Call.parts = Append(job.work.parts, FirstPart(job.work.pending \o job.bytes))
<1> DEFINE whole == Captured(job.id)
           w == job.work
           k == Len(w.parts)
           sent == IF job.at = "put" THEN Append(w.parts, FirstPart(w.pending \o job.bytes)) ELSE w.parts
<1>1. Call = [op |-> job.at, upload |-> w.upload, id |-> job.id, parts |-> sent]
  BY DEF Call
<1>2. w \in ExportSet /\ job.id \in Ids
  BY JobFacts
<1>3. w.parts \in Seq(Bytes) /\ k \in Nat
  BY <1>2 DEF ExportSet
<1>4. w.upload # 0
  BY JobFacts DEF Work
<1>5. w.upload \in Uploads /\ k <= Len(uploads[w.upload].parts)
  BY <1>4, JobFacts
<1>6. IsParts(whole, w.parts)
  BY JobFacts DEF Progress
<1>7. exports[job.id].upload = w.upload
  BY JobFacts DEF SameRow
<1>8. sent \in Seq(Bytes) /\ IsParts(whole, sent) /\ Len(sent) = IF job.at = "put" THEN k + 1 ELSE k
  BY <1>3, <1>6, PutFacts
<1>9. job.at = "complete" => Cut(whole, k) = Len(whole)
  <2> SUFFICES ASSUME job.at = "complete" PROVE Cut(whole, k) = Len(whole)
    OBVIOUS
  <2>1. whole \in Bytes /\ Len(whole) \in Nat /\ Cut(whole, k) \in Nat /\ Cut(whole, k) <= w.emitted
    BY WorkFacts
  <2>2. w.emitted = Len(whole) /\ w.pending = <<>>
    BY JobFacts DEF Work
  <2>3. w.pending = Segment(whole, Cut(whole, k), w.emitted)
    BY JobFacts DEF Progress
  <2> HIDE DEF whole, k, w
  <2>4. QED
    BY <2>1, <2>2, <2>3, SegmentTypes
<1>10. Len(uploads[w.upload].parts) \in Nat
  <2>1. uploads[w.upload] \in UploadSet
    BY <1>5 DEF ExportInv, ExportTypes
  <2>2. QED
    BY <2>1 DEF UploadSet
<1> HIDE DEF whole, sent, k
<1>11. Call \in CallSet
  BY <1>1, <1>2, <1>5, <1>8 DEF CallSet
<1>12. CallFits(whole, Call, uploads[w.upload].parts)
  <2>1. Call.op = job.at /\ Call.parts = sent
    BY <1>1
  <2>2. QED
    BY <1>3, <1>5, <1>8, <1>9, <1>10, <2>1 DEF CallFits
<1>13. CallInv(Call)
  BY <1>1, <1>7, <1>12 DEF CallInv, whole
<1>14. QED
  BY <1>1, <1>11, <1>13 DEF sent

\* A step that leaves nothing behind.
LEMMA LateStays ==
  ASSUME ExportInv, UNCHANGED late
  PROVE  late' \subseteq CallSet /\ \A request \in late' : CallInv(request)
BY DEF ExportInv, ExportTypes, LateInv

\* A step that saves no row.
LEMMA RowStays ==
  ASSUME ExportInv, UNCHANGED exports, NEW id \in Ids
  PROVE  exports[id] \in ExportSet /\ exports' = [exports EXCEPT ![id] = exports[id]]
BY DEF ExportInv, ExportTypes

\* A step that ends.
LEMMA Rested ==
  ASSUME job' = Resting
  PROVE  job' \in {Resting} \cup JobSet /\ JobInv'
BY DEF JobInv

\* A step begins on the row as it is.
LEMMA StartStepKeeps == ExportInv /\ StartStep => ExportInv'
<1> SUFFICES ASSUME ExportInv, StartStep PROVE ExportInv'
  OBVIOUS
<1>1. PICK id \in Ids : /\ Active(id)
                        /\ job' = [at |-> Stage(exports[id]), id |-> id, work |-> exports[id], bytes |-> <<>>]
  BY DEF StartStep
<1>2. UNCHANGED <<files, revisions, captured, exports, uploads, archive, late>>
  BY DEF StartStep, tables, r2
<1> DEFINE w == exports[id]
           whole == Captured(id)
<1>3. R2Moves /\ w \in ExportSet /\ exports' = [exports EXCEPT ![id] = w]
  BY <1>2, NothingMoves, RowStays
<1>4. /\ w.snapshot = captured[id] /\ Progress(whole, w)
  BY <1>1 DEF ExportInv, ActiveInv
<1>5. Total(w) = Len(whole) /\ whole \in Bytes /\ Len(whole) \in Nat
  BY <1>4, CapturedTypes DEF Total, ExportInv
<1>6. w.emitted \in Nat /\ w.emitted <= Len(whole) /\ Len(w.parts) \in Nat
  BY <1>3, <1>4 DEF Progress, ExportSet
<1>7. Cut(whole, Len(w.parts)) \in Nat /\ Cut(whole, Len(w.parts)) <= w.emitted
      /\ w.pending = Segment(whole, Cut(whole, Len(w.parts)), w.emitted)
  BY <1>4, <1>5, <1>6, CutFacts DEF Progress
<1>8. Work(whole, w, Stage(w), <<>>)
  <2> HIDE DEF w, whole
  <2>1. Segment(whole, w.emitted, w.emitted) = <<>>
    <3>1. w.emitted <= w.emitted
      BY <1>6
    <3>2. QED
      BY <1>5, <1>6, <3>1, SegmentTypes
  <2>2. Len(<<>>) = 0 /\ w.emitted + 0 = w.emitted
    BY <1>6
  <2>3. w.pending # <<>> => Cut(whole, Len(w.parts)) < w.emitted
    <3>1. Cut(whole, Len(w.parts)) = w.emitted => w.pending = <<>>
      BY <1>5, <1>6, <1>7, <2>1
    <3>2. QED
      BY <1>6, <1>7, <3>1
  <2>4. CASE Stage(w) = "create"
    BY <1>6, <2>1, <2>2, <2>4 DEF Stage, Work
  <2>5. CASE Stage(w) = "read"
    BY <1>5, <1>6, <2>1, <2>2, <2>5 DEF Stage, Work
  <2>6. CASE Stage(w) = "put"
    BY <1>5, <1>6, <2>1, <2>2, <2>3, <2>6 DEF Stage, Work
  <2>7. CASE Stage(w) = "head"
    BY <1>5, <1>6, <2>1, <2>2, <2>7 DEF Stage, Work
  <2>8. QED
    BY <2>4, <2>5, <2>6, <2>7 DEF Stage
<1>9. job' \in JobSet
  <2>1. Stage(w) \in {"create", "read", "put", "head", "complete", "abort"}
    BY DEF Stage
  <2>2. QED
    BY <1>1, <1>3, <2>1 DEF JobSet, Bytes
<1>10. JobInv'
  <2>1. /\ job'.id = id /\ job'.work = w /\ job'.at = Stage(w) /\ job'.bytes = <<>>
    BY <1>1
  <2>2. exports' = exports /\ captured' = captured
    BY <1>2
  <2>3. Active(id)' /\ SameRow(w, exports'[id]) /\ Captured(id)' = whole
    BY <1>1, <2>2 DEF Active, SameRow, Captured
  <2>4. QED
    BY <1>8, <2>1, <2>3 DEF JobInv
<1>11. late' \subseteq CallSet /\ \A request \in late' : CallInv(request)
  BY <1>2, LateStays
<1>12. QED
  BY <1>2, <1>3, <1>9, <1>10, <1>11, StepKeeps

\* Every other step of an alarm that saves a row saves it like this.
LEMMA SavedRow ==
  ASSUME ExportInv, job # Resting, NEW x, exports' = [exports EXCEPT ![job.id] = x], x \in ExportSet,
         Saves(job.id, x), R2Moves, UNCHANGED <<files, revisions, captured, late>>, job' = Resting
  PROVE  ExportInv'
<1>1. job.id \in Ids
  BY JobFacts
<1>2. late' \subseteq CallSet /\ \A request \in late' : CallInv(request)
  BY LateStays
<1>3. job' \in {Resting} \cup JobSet /\ JobInv'
  BY Rested
<1>4. QED
  BY <1>1, <1>2, <1>3, StepKeeps

\* And one that saves none goes on with its work.
LEMMA GoesOn ==
  ASSUME ExportInv, job # Resting, UNCHANGED <<files, revisions, captured, exports, late>>, R2Moves,
         job' = Resting \/
           /\ job' \in JobSet /\ job'.id = job.id /\ job'.work = job.work
           /\ Work(Captured(job.id), job.work, job'.at, job'.bytes)
  PROVE  ExportInv'
<1>1. job.id \in Ids /\ Active(job.id) /\ SameRow(job.work, exports[job.id])
  BY JobFacts
<1>2. late' \subseteq CallSet /\ \A request \in late' : CallInv(request)
  BY LateStays
<1>3. job' \in {Resting} \cup JobSet /\ JobInv'
  <2>1. CASE job' = Resting
    BY <2>1, Rested
  <2>2. CASE /\ job' \in JobSet /\ job'.id = job.id /\ job'.work = job.work
             /\ Work(Captured(job.id), job.work, job'.at, job'.bytes)
    <3>1. PICK id \in Ids : id = job.id
      BY <1>1
    <3>2. Active(id)' /\ Captured(id)' = Captured(id)
      BY <1>1, <3>1 DEF Active, Captured
    <3>3. job'.id = id /\ SameRow(job'.work, exports'[id]) /\ Work(Captured(id)', job'.work, job'.at, job'.bytes)
      BY <1>1, <2>2, <3>1, <3>2 
    <3>4. JobInv'
      BY <3>2, <3>3 DEF JobInv
    <3>5. QED
      BY <2>2, <3>4
  <2>3. QED
    BY <2>1, <2>2
<1>4. exports[job.id] \in ExportSet /\ exports' = [exports EXCEPT ![job.id] = exports[job.id]]
  BY <1>1, RowStays
<1>5. QED
  BY <1>1, <1>2, <1>3, <1>4, StepKeeps

\* R2 opens an upload, and the row has it.
LEMMA CreateUploadKeeps == ExportInv /\ CreateUpload => ExportInv'
<1> SUFFICES ASSUME ExportInv, CreateUpload PROVE ExportInv'
  OBVIOUS
<1>0. job # Resting
  BY DEF CreateUpload, Resting
<1>id. PICK id \in Ids : id = job.id
  BY <1>0, JobFacts
<1> DEFINE w == job.work
           whole == Captured(id)
<1>1. PICK u \in Uploads :
        /\ uploads[u].state = "unused"
        /\ uploads' = [uploads EXCEPT ![u].state = "open"]
        /\ exports' = [exports EXCEPT ![id].upload = u, ![id].status = "uploading"]
        /\ job' = [job EXCEPT !.work.upload = u, !.at = "read"]
  BY <1>id DEF CreateUpload
<1>2. job.at = "create" /\ UNCHANGED <<files, revisions, captured, archive, late>>
  BY DEF CreateUpload, tables
<1>3. job # Resting
  BY <1>2 DEF Resting
<1>4. /\ job \in JobSet /\ id \in Ids /\ w \in ExportSet /\ exports[id] \in ExportSet
      /\ Active(id) /\ SameRow(w, exports[id]) /\ Progress(whole, w)
      /\ Work(whole, w, "create", job.bytes)
  BY <1>id, <1>2, <1>3, JobFacts
<1>5. u # 0 /\ w.upload = 0 /\ exports[id].upload = 0 /\ job.bytes = <<>> /\ w.emitted = 0
      /\ w.parts = <<>>
  BY <1>4 DEF Uploads, Work, SameRow, Progress
<1>6. R2Moves /\ uploads'[u].state # "unused" /\ uploads'[u].parts = <<>>
  BY <1>1, <1>2, OpenMoves
<1> DEFINE x == [exports[id] EXCEPT !.upload = u, !.status = "uploading"]
<1>7. /\ x \in ExportSet /\ x.upload = u /\ x.status = "uploading" /\ x.snapshot = exports[id].snapshot
      /\ x.emitted = exports[id].emitted /\ x.parts = exports[id].parts /\ x.pending = exports[id].pending
  BY <1>4 DEF ExportSet
<1>8. exports' = [exports EXCEPT ![id] = x]
  <2>1. exports \in [Ids -> ExportSet]
    BY DEF ExportInv, ExportTypes
  <2>2. QED
    BY <1>1, <1>4, <2>1
<1> HIDE DEF x
<1>9. Progress(whole, x)
  BY <1>4, <1>5, <1>7 DEF Progress, SameRow
<1>10. Saves(id, x)
  <2>1. x.parts = <<>> /\ Len(x.parts) <= Len(uploads'[u].parts)
    <3>1. w.parts = exports[id].parts
      BY <1>4 DEF SameRow
    <3>2. Len(<<>>) <= Len(<<>>)
      OBVIOUS
    <3>3. QED
      BY <1>5, <1>6, <1>7, <3>1, <3>2
  <2>2. QED
    BY <1>1, <1>4, <1>5, <1>6, <1>7, <1>9, <2>1 DEF Saves
<1> DEFINE y == [w EXCEPT !.upload = u]
<1>11. /\ y \in ExportSet /\ y.upload = u /\ y.snapshot = w.snapshot
       /\ y.emitted = w.emitted /\ y.parts = w.parts /\ y.pending = w.pending
  BY <1>4 DEF ExportSet
<1>12. job' \in JobSet /\ job'.id = id /\ job'.work = y /\ job'.at = "read" /\ job'.bytes = <<>>
  BY <1>id, <1>1, <1>4, <1>5, <1>11 DEF JobSet
<1> HIDE DEF y
<1>13. JobInv'
  <2>1. exports'[id] = x
    BY <1>4, <1>8 DEF ExportInv, ExportTypes
  <2>2. Active(id)' /\ Captured(id)' = whole
    BY <1>2, <1>7, <2>1 DEF Active, Captured
  <2>3. SameRow(y, x)
    BY <1>4, <1>7, <1>11 DEF SameRow
  <2>4. Work(whole, y, "read", <<>>)
    <3>1. whole \in Bytes /\ Len(whole) \in Nat /\ Len(whole) >= 2
      BY <1>4, CapturedTypes DEF ExportInv
    <3> HIDE DEF whole, w
    <3>2. Segment(whole, 0, 0) = <<>>
      BY <3>1, SegmentTypes
    <3>3. y.emitted = 0 /\ y.upload # 0 /\ 0 + Len(<<>>) = 0
      BY <1>5, <1>11
    <3>4. QED
      BY <3>1, <3>2, <3>3 DEF Work
  <2>5. QED
    BY <1>12, <2>1, <2>2, <2>3, <2>4 DEF JobInv
<1>14. late' \subseteq CallSet /\ \A request \in late' : CallInv(request)
  BY <1>2, LateStays
<1>15. QED
  BY <1>2, <1>4, <1>6, <1>7, <1>8, <1>10, <1>12, <1>13, <1>14, StepKeeps

\* A frozen or a pinned source is what was captured.
LEMMA ReadIsUnit ==
  ASSUME ExportInv, job # Resting, NEW n \in 1..Len(Captured(job.id)),
         Layout(job.work.snapshot)[n].member \in 1..Len(job.work.snapshot) => ReadUnit(job.work, n).data # {}
  PROVE  ReadUnit(job.work, n) = Captured(job.id)[n]
<1> DEFINE s == captured[job.id]
           place == Layout(s)[n]
           m == place.member
<1>1. job.work.snapshot = s /\ SourcesIn(s, revisions) /\ job.id \in Ids
  BY JobFacts
<1>2. s \in Seq(SourceSet) /\ Len(Captured(job.id)) = Len(Layout(s))
  BY <1>1, CapturedTypes DEF ExportInv, ExportTypes
<1>3. Captured(job.id)[n] = Unit(place, IF m \in 1..Len(s) THEN {s[m].content} ELSE Manifest(s))
  BY <1>2 DEF Captured, ArchiveOf
<1>4. ReadUnit(job.work, n) = Unit(place, IF m \in 1..Len(s) THEN SourceData(s[m]) ELSE Manifest(s))
  BY <1>1 DEF ReadUnit
<1> HIDE DEF s, place, m
<1>5. CASE m \in 1..Len(s)
  <2>1. SourceData(s[m]) # {}
    <3>1. ReadUnit(job.work, n).data = SourceData(s[m])
      BY <1>4, <1>5 DEF Unit
    <3>2. QED
      BY <1>1, <1>5, <3>1 DEF m, place
  <2>2. SourceData(s[m]) \subseteq {s[m].content}
    <3>1. CASE s[m].source = "revision"
      <4>1. [path |-> s[m].path, rev |-> s[m].rev, content |-> s[m].content] \in revisions
        BY <1>1, <1>5, <3>1 DEF SourcesIn
      <4>2. \A v \in revisions : v.path = s[m].path /\ v.rev = s[m].rev => v.content = s[m].content
        <5>1. \A v, w \in revisions : v.path = w.path /\ v.rev = w.rev => v = w
          BY DEF ExportInv, RevisionInv
        <5>2. QED
          BY <4>1, <5>1
      <4>3. QED
        BY <3>1, <4>2 DEF SourceData
    <3>2. CASE s[m].source # "revision"
      BY <3>2 DEF SourceData
    <3>3. QED
      BY <3>1, <3>2
  <2>3. SourceData(s[m]) = {s[m].content}
    BY <2>1, <2>2
  <2>4. QED
    BY <1>3, <1>4, <1>5, <2>3
<1>6. CASE m \notin 1..Len(s)
  BY <1>3, <1>4, <1>6
<1>7. QED
  BY <1>5, <1>6

\* The row that a checkpoint saves.
LEMMA CheckpointRow ==
  ASSUME ExportInv, job # Resting, NEW produced \in Bytes, NEW put \in BOOLEAN, Checkpoint(produced, put),
         Remainder(job.work.pending \o produced, put) \in Bytes,
         put => FirstPart(job.work.pending \o produced) \in Bytes
  PROVE  \E x \in ExportSet :
           /\ exports' = [exports EXCEPT ![job.id] = x]
           /\ x.status = "uploading" /\ x.emitted = job.work.emitted + Len(produced)
           /\ x.pending = Remainder(job.work.pending \o produced, put)
           /\ x.parts = IF put THEN Append(job.work.parts, FirstPart(job.work.pending \o produced))
                        ELSE job.work.parts
           /\ x.upload = exports[job.id].upload /\ x.snapshot = exports[job.id].snapshot
<1> DEFINE w == job.work
           pending == Remainder(w.pending \o produced, put)
           parts == IF put THEN Append(w.parts, FirstPart(w.pending \o produced)) ELSE w.parts
           emitted == w.emitted + Len(produced)
           x == [exports[job.id] EXCEPT !.status = "uploading", !.emitted = emitted,
                                        !.pending = pending, !.parts = parts]
<1>1. Unmoved(w) /\ exports[job.id] \in ExportSet /\ w \in ExportSet /\ job.id \in Ids
  BY JobFacts
<1>2. exports' = [exports EXCEPT ![job.id] = x]
  BY <1>1 DEF Checkpoint
<1>3. parts \in Seq(Bytes) /\ emitted \in Nat
  <2>1. w.parts \in Seq(Bytes) /\ w.emitted \in Nat
    BY <1>1 DEF ExportSet
  <2>2. Len(produced) \in Nat
    BY DEF Bytes
  <2> DEFINE part == FirstPart(w.pending \o produced)
  <2>3. put => part \in Bytes
    OBVIOUS
  <2> HIDE DEF part, w
  <2>4. put => Append(w.parts, part) \in Seq(Bytes)
    BY <2>1, <2>3
  <2>5. QED
    BY <2>1, <2>2, <2>4 DEF part
<1> HIDE DEF pending, parts, emitted
<1>4. pending \in Bytes
  BY DEF pending
<1>5. /\ x \in ExportSet /\ x.status = "uploading" /\ x.emitted = emitted /\ x.pending = pending
      /\ x.parts = parts /\ x.upload = exports[job.id].upload /\ x.snapshot = exports[job.id].snapshot
  BY <1>1, <1>3, <1>4 DEF ExportSet
<1> HIDE DEF x
<1>6. QED
  BY <1>2, <1>5 DEF pending, parts, emitted

\* The row that complete and fail save.
LEMMA TerminateRow ==
  ASSUME ExportInv, job # Resting, NEW status \in {"complete", "failed"}, NEW size \in Nat,
         Terminate(status, size)
  PROVE  \E x \in ExportSet :
           /\ exports' = [exports EXCEPT ![job.id] = x]
           /\ x.status = status /\ x.size = size /\ x.upload = exports[job.id].upload
<1> DEFINE x == [exports[job.id] EXCEPT !.status = status, !.size = size, !.snapshot = <<>>, !.pending = <<>>]
<1>1. Unmoved(job.work) /\ exports[job.id] \in ExportSet
  BY JobFacts
<1>2. exports' = [exports EXCEPT ![job.id] = x]
  BY <1>1 DEF Terminate
<1>3. <<>> \in Bytes /\ <<>> \in Seq(SourceSet)
  BY DEF Bytes
<1>4. x \in ExportSet /\ x.status = status /\ x.size = size /\ x.upload = exports[job.id].upload
  BY <1>1, <1>3 DEF ExportSet
<1> HIDE DEF x
<1>5. QED
  BY <1>2, <1>4

\* A step ends the export as failed.
LEMMA FailKeeps ==
  ASSUME ExportInv, job # Resting, Terminate("failed", 0), R2Moves,
         UNCHANGED <<files, revisions, captured, late>>, job' = Resting
  PROVE  ExportInv'
<1>1. PICK x \in ExportSet : /\ exports' = [exports EXCEPT ![job.id] = x]
                             /\ x.status = "failed" /\ x.upload = exports[job.id].upload
  BY TerminateRow
<1>2. Saves(job.id, x)
  BY <1>1, JobFacts DEF Saves
<1>3. QED
  BY <1>1, <1>2, SavedRow

\* Or as complete, when its archive is there.
LEMMA CompleteKeeps ==
  ASSUME ExportInv, job # Resting, Terminate("complete", Total(job.work)), R2Moves,
         archive'[job.id] = Captured(job.id),
         UNCHANGED <<files, revisions, captured, late>>, job' = Resting
  PROVE  ExportInv'
<1>1. Total(job.work) = Len(Captured(job.id)) /\ Total(job.work) \in Nat
  BY JobFacts, CapturedTypes DEF ExportInv
<1>2. PICK x \in ExportSet : /\ exports' = [exports EXCEPT ![job.id] = x]
                             /\ x.status = "complete" /\ x.size = Total(job.work)
                             /\ x.upload = exports[job.id].upload
  BY <1>1, TerminateRow
<1>3. Saves(job.id, x)
  BY <1>1, <1>2, JobFacts DEF Saves
<1>4. QED
  BY <1>2, <1>3, SavedRow

\* A step reads on, or stops at a source that is gone, or saves what it read.
LEMMA ReadRangeKeeps == ExportInv /\ ReadRange => ExportInv'
<1> SUFFICES ASSUME ExportInv, ReadRange PROVE ExportInv'
  OBVIOUS
<1> DEFINE w == job.work
           whole == Captured(job.id)
           k == Len(w.parts)
           end == w.emitted + Len(job.bytes)
           n == w.emitted + Len(job.bytes) + 1
           unit == ReadUnit(w, n)
           bytes == Append(job.bytes, unit)
           gone == unit.data = {} /\ Layout(w.snapshot)[n].member \in 1..Len(w.snapshot)
           ends == Len(bytes) = StepSize \/ n = Total(w)
           puts == Len(w.pending) + Len(bytes) >= PartSize \/ n = Total(w)
<1>1. job.at = "read" /\ UNCHANGED <<files, revisions, captured, uploads, archive, late>>
  BY DEF ReadRange, tables, r2
<1>2. IF gone THEN job' = [job EXCEPT !.at = "abort"] /\ UNCHANGED exports
      ELSE IF ends /\ ~puts THEN Checkpoint(bytes, FALSE) /\ job' = Resting
      ELSE /\ job' = [job EXCEPT !.bytes = bytes, !.at = IF ends THEN "put" ELSE "read"]
           /\ UNCHANGED exports
  BY DEF ReadRange
<1>3. job # Resting
  BY <1>1 DEF Resting
<1>4. /\ job \in JobSet /\ job.id \in Ids /\ w \in ExportSet /\ job.bytes \in Bytes
      /\ exports[job.id] \in ExportSet /\ Active(job.id) /\ SameRow(w, exports[job.id])
      /\ Progress(whole, w) /\ Total(w) = Len(whole) /\ Work(whole, w, "read", job.bytes)
      /\ w.upload # 0 => /\ w.upload \in Uploads
                         /\ Len(w.parts) <= Len(uploads[w.upload].parts)
  BY <1>1, <1>3, JobFacts
<1>5. /\ whole \in Bytes /\ Len(whole) \in Nat /\ k \in Nat /\ w.emitted \in Nat
      /\ Len(job.bytes) \in Nat /\ end \in Nat /\ end <= Len(whole)
      /\ Cut(whole, k) \in Nat /\ Cut(whole, k) <= w.emitted
  BY <1>3, WorkFacts
<1>6. R2Moves
  BY <1>1, NothingMoves
<1>7. end < Len(whole) /\ job.bytes = Segment(whole, w.emitted, end) /\ w.upload # 0
  BY <1>4 DEF Work
<1>8. CASE gone
  <2>1. /\ job' \in JobSet /\ job'.id = job.id /\ job'.work = w /\ job'.at = "abort"
        /\ job'.bytes = job.bytes
    BY <1>2, <1>4, <1>8 DEF JobSet
  <2>2. Work(whole, w, "abort", job.bytes)
    BY <1>4 DEF Work
  <2>3. QED
    BY <1>1, <1>2, <1>3, <1>6, <1>8, <2>1, <2>2, GoesOn
<1>9. CASE ~gone
  <2>1. n \in 1..Len(whole) /\ n = end + 1
    BY <1>5, <1>7
  <2>2. unit = whole[n]
    BY <1>3, <1>9, <2>1, ReadIsUnit
  <2> HIDE DEF n, unit, whole
  <2>3. bytes = Segment(whole, w.emitted, n)
    <3>1. w.emitted <= end
      BY <1>5
    <3>2. Append(Segment(whole, w.emitted, end), whole[end + 1]) = Segment(whole, w.emitted, end + 1)
      BY <1>5, <1>7, <3>1, SegmentGrows
    <3>3. QED
      BY <1>7, <2>1, <2>2, <3>2
  <2>4. bytes \in Bytes /\ Len(bytes) = n - w.emitted /\ w.emitted + Len(bytes) = n
    <3>1. w.emitted <= n /\ n <= Len(whole) /\ n \in Nat
      BY <1>5, <2>1
    <3> HIDE DEF bytes
    <3>2. bytes \in Bytes /\ Len(bytes) = n - w.emitted
      BY <1>5, <2>3, <3>1, SegmentTypes
    <3>3. QED
      BY <1>5, <3>1, <3>2
  <2>5. w.pending = Segment(whole, Cut(whole, k), w.emitted) /\ Len(w.pending) = w.emitted - Cut(whole, k)
    <3>1. w.pending = Segment(whole, Cut(whole, k), w.emitted) /\ w.emitted <= Len(whole)
      BY <1>4 DEF Progress
    <3> HIDE DEF k, w
    <3>2. Len(Segment(whole, Cut(whole, k), w.emitted)) = w.emitted - Cut(whole, k)
      BY <1>5, <3>1, SegmentTypes
    <3>3. QED
      BY <3>1, <3>2
  <2> HIDE DEF bytes, gone
  <2>6. CASE ends /\ ~puts
    <3>1. Checkpoint(bytes, FALSE) /\ job' = Resting
      BY <1>2, <1>9, <2>6
    <3> DEFINE all == w.pending \o bytes
    <3>2. Remainder(all, FALSE) = all
      BY DEF Remainder
    <3>3. all = Segment(whole, Cut(whole, k), n)
      <4>1. w.emitted <= n /\ n <= Len(whole) /\ n \in Nat
        BY <1>5, <2>1
      <4>2. Segment(whole, Cut(whole, k), w.emitted) \o Segment(whole, w.emitted, n)
              = Segment(whole, Cut(whole, k), n)
        BY <1>5, <4>1, SegmentsJoin
      <4>3. QED
        BY <2>3, <2>5, <4>2
    <3>4. all \in Bytes
      <4>1. Cut(whole, k) <= n /\ n <= Len(whole) /\ n \in Nat
        BY <1>5, <2>1
      <4>2. QED
        BY <1>5, <3>3, <4>1, SegmentTypes
    <3>5. PICK x \in ExportSet :
            /\ exports' = [exports EXCEPT ![job.id] = x]
            /\ x.status = "uploading" /\ x.emitted = n /\ x.pending = all /\ x.parts = w.parts
            /\ x.upload = exports[job.id].upload /\ x.snapshot = exports[job.id].snapshot
      <4>1. FALSE \in BOOLEAN /\ Remainder(all, FALSE) \in Bytes
        BY <3>2, <3>4
      <4> HIDE DEF all
      <4>2. \E x \in ExportSet :
              /\ exports' = [exports EXCEPT ![job.id] = x]
              /\ x.status = "uploading" /\ x.emitted = w.emitted + Len(bytes)
              /\ x.pending = Remainder(w.pending \o bytes, FALSE)
              /\ x.parts = IF FALSE THEN Append(w.parts, FirstPart(w.pending \o bytes)) ELSE w.parts
              /\ x.upload = exports[job.id].upload /\ x.snapshot = exports[job.id].snapshot
        BY <1>3, <2>4, <3>1, <4>1, CheckpointRow DEF all
      <4>3. QED
        BY <2>4, <3>2, <4>2 DEF all
    <3>6. x.upload # 0 /\ x.upload = w.upload
      BY <1>4, <1>7, <3>5 DEF SameRow
    <3>7. Progress(whole, x)
      <4>1. Cut(whole, k) <= n /\ n <= Len(whole)
        BY <1>5, <2>1
      <4>2. IsParts(whole, w.parts)
        BY <1>4 DEF Progress
      <4>3. QED
        BY <3>3, <3>5, <3>6, <4>1, <4>2 DEF Progress
    <3>8. uploads' = uploads /\ Len(x.parts) <= Len(uploads'[x.upload].parts)
      BY <1>1, <1>4, <1>7, <3>5, <3>6
    <3>9. Saves(job.id, x)
      BY <1>4, <3>5, <3>7, <3>8 DEF Saves, whole
    <3>10. QED
      BY <1>1, <1>3, <1>6, <3>1, <3>5, <3>9, SavedRow
  <2>7. CASE ~(ends /\ ~puts)
    <3> DEFINE at == IF ends THEN "put" ELSE "read"
    <3>1. job' = [job EXCEPT !.bytes = bytes, !.at = at] /\ UNCHANGED exports
      BY <1>2, <1>9, <2>7
    <3>2. at \in {"put", "read"}
      OBVIOUS
    <3> HIDE DEF at
    <3>3. /\ job' \in JobSet /\ job'.id = job.id /\ job'.work = w /\ job'.at = at
          /\ job'.bytes = bytes
      BY <1>4, <2>4, <3>1, <3>2 DEF JobSet
    <3>4. Work(whole, w, at, bytes)
      <4>1. at # "create" /\ n <= Len(whole)
        BY <2>1, <3>2
      <4>2. at = "read" => n < Len(whole)
        <5>1. at = "read" => n # Total(w)
          BY DEF at
        <5>2. QED
          BY <1>4, <1>5, <2>1, <5>1 DEF whole
      <4>3. at = "put" => /\ Cut(whole, k) < n
                          /\ n < Cut(whole, k) + PartSize => n = Len(whole)
        <5>1. at = "put" => puts
          BY <2>7 DEF at
        <5>2. Cut(whole, k) < n
          BY <1>5, <2>1
        <5>3. Len(w.pending) + Len(bytes) = n - Cut(whole, k)
          BY <1>5, <2>1, <2>4, <2>5
        <5>4. puts => (n < Cut(whole, k) + PartSize => n = Len(whole))
          <6>1. Total(w) = Len(whole)
            BY <1>4 DEF whole
          <6>2. QED
            BY <1>5, <2>1, <5>3, <6>1, ExportAssumption
        <5>5. QED
          BY <5>1, <5>2, <5>4
      <4>4. QED
        BY <1>7, <2>3, <2>4, <3>2, <4>1, <4>2, <4>3 DEF Work
    <3>5. QED
      BY <1>1, <1>3, <1>6, <3>1, <3>3, <3>4, GoesOn DEF whole
  <2>8. QED
    BY <2>6, <2>7
<1>10. QED
  BY <1>8, <1>9

\* R2 takes a part, and the row has it.
LEMMA PutPartKeeps == ExportInv /\ PutPart => ExportInv'
<1> SUFFICES ASSUME ExportInv, PutPart PROVE ExportInv'
  OBVIOUS
<1> DEFINE w == job.work
           whole == Captured(job.id)
           k == Len(w.parts)
           end == w.emitted + Len(job.bytes)
           all == w.pending \o job.bytes
<1>1. /\ job.at = "put" /\ Accepted(Call) /\ Perform(Call) /\ Checkpoint(job.bytes, TRUE)
      /\ job' = Resting /\ UNCHANGED <<files, revisions, captured, late>>
  BY DEF PutPart, tables
<1>2. job # Resting
  BY <1>1 DEF Resting
<1>3. /\ Call \in CallSet /\ CallInv(Call)
      /\ Call.id = job.id /\ Call.op = "put" /\ Call.upload = w.upload
      /\ Call.parts = Append(w.parts, FirstPart(all))
  BY <1>1, <1>2, CallFacts
<1>4. R2Moves /\ Len(Call.parts) <= Len(uploads'[Call.upload].parts)
  BY <1>1, <1>3, CallMoves
<1>5. /\ job.id \in Ids /\ Active(job.id) /\ SameRow(w, exports[job.id]) /\ job.bytes \in Bytes
      /\ Work(whole, w, "put", job.bytes)
  BY <1>1, <1>2, JobFacts
<1>6. /\ whole \in Bytes /\ k \in Nat /\ w.emitted \in Nat /\ Len(job.bytes) \in Nat
      /\ end \in Nat /\ end <= Len(whole) /\ Cut(whole, k) \in Nat
      /\ Cut(whole, k + 1) = IF Cut(whole, k) + PartSize < Len(whole)
                             THEN Cut(whole, k) + PartSize ELSE Len(whole)
      /\ Len(whole) \in Nat
  BY <1>2, WorkFacts
<1>7. /\ Remainder(all, TRUE) = Segment(whole, Cut(whole, k + 1), end)
      /\ Cut(whole, k + 1) <= end /\ FirstPart(all) \in Bytes
      /\ IsParts(whole, Append(w.parts, FirstPart(all)))
      /\ Len(Append(w.parts, FirstPart(all))) = k + 1
  BY <1>1, <1>2, PutFacts
<1>8. Cut(whole, k + 1) \in Nat
  BY <1>6, ExportAssumption
<1>9. Remainder(all, TRUE) \in Bytes
  <2> DEFINE cut == Cut(whole, k + 1)
  <2>1. /\ whole \in Bytes /\ cut \in Nat /\ end \in Nat /\ cut <= end /\ end <= Len(whole)
        /\ Remainder(all, TRUE) = Segment(whole, cut, end)
    BY <1>6, <1>7, <1>8
  <2> HIDE DEF whole, all, end, cut
  <2>2. Segment(whole, cut, end) \in Bytes
    BY <2>1, SegmentTypes
  <2>3. QED
    BY <2>1, <2>2
<1>10. PICK x \in ExportSet :
         /\ exports' = [exports EXCEPT ![job.id] = x]
         /\ x.status = "uploading" /\ x.emitted = end
         /\ x.pending = Remainder(all, TRUE)
         /\ x.parts = Append(w.parts, FirstPart(all))
         /\ x.upload = exports[job.id].upload /\ x.snapshot = exports[job.id].snapshot
  <2>1. TRUE \in BOOLEAN
    OBVIOUS
  <2>2. \E x \in ExportSet :
           /\ exports' = [exports EXCEPT ![job.id] = x]
           /\ x.status = "uploading" /\ x.emitted = w.emitted + Len(job.bytes)
           /\ x.pending = Remainder(w.pending \o job.bytes, TRUE)
           /\ x.parts = IF TRUE THEN Append(w.parts, FirstPart(w.pending \o job.bytes)) ELSE w.parts
           /\ x.upload = exports[job.id].upload /\ x.snapshot = exports[job.id].snapshot
    BY <1>1, <1>2, <1>5, <1>7, <1>9, <2>1, CheckpointRow
  <2>3. QED
    BY <2>2
<1> HIDE DEF whole, all, end, k
<1>11. x.upload = w.upload /\ x.upload # 0
  BY <1>5, <1>10 DEF Work, SameRow
<1>12. Progress(whole, x)
  BY <1>6, <1>7, <1>10, <1>11 DEF Progress
<1>13. Len(x.parts) <= Len(uploads'[x.upload].parts)
  BY <1>3, <1>4, <1>10, <1>11
<1>14. Saves(job.id, x)
  BY <1>5, <1>10, <1>12, <1>13 DEF Saves, whole
<1>15. QED
  BY <1>1, <1>2, <1>4, <1>10, <1>14, SavedRow

\* An archive that is there is taken for what it is.
LEMMA HeadArchiveKeeps == ExportInv /\ HeadArchive => ExportInv'
<1> SUFFICES ASSUME ExportInv, HeadArchive PROVE ExportInv'
  OBVIOUS
<1>1. job.at = "head" /\ UNCHANGED <<files, revisions, captured, uploads, archive, late>>
  BY DEF HeadArchive, tables, r2
<1>2. job # Resting
  BY <1>1 DEF Resting
<1>3. R2Moves
  BY <1>1, NothingMoves
<1>4. job \in JobSet /\ Work(Captured(job.id), job.work, "head", job.bytes) /\ job.id \in Ids
  BY <1>1, <1>2, JobFacts
<1>5. ASSUME NEW at \in {"complete", "abort"}, job' = [job EXCEPT !.at = at], UNCHANGED exports
      PROVE  ExportInv'
  <2>1. /\ job' \in JobSet /\ job'.id = job.id /\ job'.work = job.work /\ job'.at = at
        /\ job'.bytes = job.bytes
    BY <1>4, <1>5 DEF JobSet
  <2>2. Work(Captured(job.id), job.work, at, job.bytes)
    BY <1>4 DEF Work
  <2>3. QED
    BY <1>1, <1>2, <1>3, <1>5, <2>1, <2>2, GoesOn
<1>6. ASSUME archive[job.id] # <<>>, Terminate("complete", Total(job.work)), job' = Resting
      PROVE  ExportInv'
  <2>1. archive'[job.id] = Captured(job.id)
    BY <1>1, <1>4, <1>6 DEF ExportInv, ArchiveInv
  <2>2. QED
    BY <1>1, <1>2, <1>3, <1>6, <2>1, CompleteKeeps
<1>7. QED
  BY <1>5, <1>6 DEF HeadArchive

\* R2 completes the upload.
LEMMA CompleteUploadKeeps == ExportInv /\ CompleteUpload => ExportInv'
<1> SUFFICES ASSUME ExportInv, CompleteUpload PROVE ExportInv'
  OBVIOUS
<1>1. /\ job.at = "complete" /\ Accepted(Call) /\ Perform(Call) /\ Terminate("complete", Total(job.work))
      /\ job' = Resting /\ UNCHANGED <<files, revisions, captured, late>>
  BY DEF CompleteUpload, tables
<1>2. job # Resting
  BY <1>1 DEF Resting
<1>3. Call \in CallSet /\ CallInv(Call) /\ Call.id = job.id /\ Call.op = "complete"
  BY <1>1, <1>2, CallFacts
<1>4. R2Moves /\ archive'[job.id] = Captured(job.id)
  BY <1>1, <1>3, CallMoves
<1>5. QED
  BY <1>1, <1>2, <1>4, CompleteKeeps

\* R2 drops the upload, or does not.
LEMMA AbortUploadKeeps == ExportInv /\ AbortUpload => ExportInv'
<1> SUFFICES ASSUME ExportInv, AbortUpload PROVE ExportInv'
  OBVIOUS
<1>1. /\ job.at = "abort" /\ (IF Accepted(Call) THEN Perform(Call) ELSE UNCHANGED <<uploads, archive>>)
      /\ Terminate("failed", 0)
      /\ job' = Resting /\ UNCHANGED <<files, revisions, captured, late>>
  BY DEF AbortUpload, tables
<1>2. job # Resting
  BY <1>1 DEF Resting
<1>3. Call \in CallSet /\ CallInv(Call)
  BY <1>1, <1>2, CallFacts
<1>4. R2Moves
  BY <1>1, <1>3, CallMoves
<1>5. QED
  BY <1>1, <1>2, <1>4, FailKeeps

\* R2 refuses.
LEMMA RefusedKeeps == ExportInv /\ Refused => ExportInv'
<1> SUFFICES ASSUME ExportInv, Refused PROVE ExportInv'
  OBVIOUS
<1>1. /\ job.at \in {"put", "complete"} /\ job' = Resting
      /\ UNCHANGED <<files, revisions, captured, exports, uploads, archive, late>>
  BY DEF Refused, tables, r2
<1>2. job # Resting
  BY <1>1 DEF Resting
<1>3. QED
  BY <1>1, <1>2, NothingMoves, GoesOn

\* A step dies; its call is still on its way, or has left an upload behind.
LEMMA InterruptedKeeps == ExportInv /\ Interrupted => ExportInv'
<1> SUFFICES ASSUME ExportInv, Interrupted PROVE ExportInv'
  OBVIOUS
<1>1. /\ job.at # "rest" /\ job' = Resting
      /\ late' = late \cup (IF job.at \in {"put", "complete", "abort"} THEN {Call} ELSE {})
      /\ UNCHANGED <<files, revisions, captured, exports, archive>>
  BY DEF Interrupted, tables
<1>2. job # Resting
  BY <1>1 DEF Resting
<1>3. R2Moves
  <2>1. CASE UNCHANGED uploads
    BY <1>1, <2>1, NothingMoves
  <2>2. CASE \E u \in Uploads : uploads[u].state = "unused" /\ uploads' = [uploads EXCEPT ![u].state = "open"]
    BY <1>1, <2>2, OpenMoves
  <2>3. QED
    BY <2>1, <2>2 DEF Interrupted
<1>4. late' \subseteq CallSet /\ \A request \in late' : CallInv(request)
  <2>1. late \subseteq CallSet /\ \A request \in late : CallInv(request)
    BY DEF ExportInv, ExportTypes, LateInv
  <2>2. job.at \in {"put", "complete", "abort"} => Call \in CallSet /\ CallInv(Call)
    BY <1>2, CallFacts
  <2>3. QED
    BY <1>1, <2>1, <2>2
<1>5. job.id \in Ids
  BY <1>2, JobFacts
<1>6. exports[job.id] \in ExportSet /\ exports' = [exports EXCEPT ![job.id] = exports[job.id]]
  BY <1>1, <1>5, RowStays
<1>7. job' \in {Resting} \cup JobSet /\ JobInv'
  BY <1>1, Rested
<1>8. QED
  BY <1>1, <1>3, <1>4, <1>5, <1>6, <1>7, StepKeeps

\* A call of a step that died takes effect.
LEMMA LateEffectKeeps == ExportInv /\ LateEffect => ExportInv'
<1> SUFFICES ASSUME ExportInv, LateEffect PROVE ExportInv'
  OBVIOUS
<1>1. PICK request \in late :
        /\ late' = late \ {request}
        /\ IF Accepted(request) THEN Perform(request) ELSE UNCHANGED <<uploads, archive>>
  BY DEF LateEffect
<1>2. UNCHANGED <<files, revisions, exports, captured, job>>
  BY DEF LateEffect, tables
<1>3. late \subseteq CallSet /\ \A c \in late : CallInv(c)
  BY DEF ExportInv, ExportTypes, LateInv
<1>4. request \in CallSet /\ CallInv(request)
  BY <1>3
<1>5. R2Moves
  BY <1>1, <1>4, CallMoves
<1>6. request.id \in Ids
  BY <1>4 DEF CallSet
<1>7. exports[request.id] \in ExportSet /\ exports' = [exports EXCEPT ![request.id] = exports[request.id]]
  BY <1>2, <1>6, RowStays
<1>8. late' \subseteq CallSet /\ \A c \in late' : CallInv(c)
  BY <1>1, <1>3
<1>9. job' \in {Resting} \cup JobSet /\ JobInv'
  <2>1. job' \in {Resting} \cup JobSet
    BY <1>2 DEF ExportInv, ExportTypes
  <2>2. Captured(job.id)' = Captured(job.id) /\ (Active(job.id)' <=> Active(job.id))
    BY <1>2 DEF Captured, Active
  <2>3. JobInv'
    BY <1>2, <2>2 DEF ExportInv, JobInv
  <2>4. QED
    BY <2>1, <2>3
<1>10. QED
  BY <1>2, <1>5, <1>6, <1>7, <1>8, <1>9, StepKeeps

\* Every step keeps it.
LEMMA ExportStep == ExportInv /\ [Next]_vars => ExportInv'
<1> SUFFICES ASSUME ExportInv, [Next]_vars PROVE ExportInv'
  OBVIOUS
<1>1. CASE Next
  <2>1. CASE Elsewhere
    BY <2>1, ElsewhereStep
  <2>2. CASE \E id \in Ids : Start(id)
    BY <2>2, StartKeeps
  <2>3. CASE Step
    BY <2>3, StartStepKeeps, CreateUploadKeeps, ReadRangeKeeps, PutPartKeeps, HeadArchiveKeeps,
       CompleteUploadKeeps, AbortUploadKeeps, RefusedKeeps DEF Step
  <2>4. CASE Interrupted
    BY <2>4, InterruptedKeeps
  <2>5. CASE LateEffect
    BY <2>5, LateEffectKeeps
  <2>6. QED
    BY <1>1, <2>1, <2>2, <2>3, <2>4, <2>5 DEF Next
<1>2. CASE UNCHANGED vars
  <2>1. UNCHANGED <<files, revisions, captured, exports, uploads, archive, late, job>>
    BY <1>2 DEF vars, tables, r2
  <2>2. \A id \in Ids : Captured(id)' = Captured(id) /\ (Active(id)' <=> Active(id))
    BY <2>1 DEF Captured, Active
  <2>3. ExportTypes' /\ RevisionInv' /\ ArchiveInv' /\ ActiveInv' /\ UploadInv'
    BY <2>1, <2>2 DEF ExportInv, ExportTypes, RevisionInv, ArchiveInv, ActiveInv, UploadInv
  <2>4. JobInv'
    <3>1. job # Resting => job.id \in Ids
      BY DEF ExportInv, ExportTypes, JobSet
    <3>2. QED
      BY <2>1, <2>2, <3>1 DEF ExportInv, JobInv
  <2>5. LateInv'
    <3>1. \A request \in late : request.id \in Ids
      BY DEF ExportInv, ExportTypes, CallSet
    <3>2. QED
      BY <2>1, <2>2, <3>1 DEF ExportInv, LateInv, CallInv
  <2>6. QED
    BY <2>3, <2>4, <2>5 DEF ExportInv
<1>3. QED
  BY <1>1, <1>2

\* What an export has read, uploaded and kept is its archive up to its cursor:
\* every call that is in flight, or that R2 may still carry out, has parts of it.
THEOREM ExportInvHolds == Spec => []ExportInv
<1>1. Init => ExportInv
  BY ExportInit
<1>2. ExportInv /\ [Next]_vars => ExportInv'
  BY ExportStep
<1>3. QED
  BY <1>1, <1>2, PTL DEF Spec

\* An archive in R2 holds exactly the files of the instant its export was
\* started at.
THEOREM DownloadIsSnapshotHolds == Spec => []DownloadIsSnapshot
<1>1. ExportInv => DownloadIsSnapshot
  BY DEF ExportInv, ArchiveInv, DownloadIsSnapshot
<1>2. QED
  BY <1>1, ExportInvHolds, PTL

\* Parts and pending bytes, put together, are the archive up to the cursor.
LEMMA CheckpointWhole ==
  ASSUME NEW whole \in Bytes, NEW x \in ExportSet, Progress(whole, x)
  PROVE  FlattenSeq(x.parts) \o x.pending = SubSeq(whole, 1, x.emitted)
<1> DEFINE cut == Cut(whole, Len(x.parts))
<1>1. x.parts \in Seq(Bytes) /\ x.emitted \in Nat /\ Len(x.parts) \in Nat
  BY DEF ExportSet
<1>2. /\ IsParts(whole, x.parts) /\ cut <= x.emitted /\ x.emitted <= Len(whole)
      /\ x.pending = Segment(whole, cut, x.emitted)
  BY DEF Progress
<1>3. FlattenSeq(x.parts) = Segment(whole, 0, cut)
  BY <1>1, <1>2, PartsFlatten
<1>4. cut \in Nat /\ 0 \in Nat /\ 0 <= cut
  <2>1. \A m \in Nat : Cut(whole, m) \in Nat /\ Cut(whole, m) <= Len(whole)
    BY CutFacts
  <2>2. cut \in Nat
    BY <1>1, <2>1
  <2> HIDE DEF cut
  <2>3. QED
    BY <2>2
<1> HIDE DEF cut
<1>5. Segment(whole, 0, cut) \o Segment(whole, cut, x.emitted) = Segment(whole, 0, x.emitted)
  BY <1>1, <1>2, <1>4, SegmentsJoin
<1>6. Segment(whole, 0, x.emitted) = SubSeq(whole, 1, x.emitted)
  BY DEF Segment
<1>7. QED
  BY <1>2, <1>3, <1>5, <1>6

\* Parts are as long as R2 asks, but for the last one of an archive.
LEMMA PartLengths ==
  ASSUME NEW whole \in Bytes, NEW x \in ExportSet, Progress(whole, x), NEW n \in 1..Len(x.parts)
  PROVE  Len(x.parts[n]) = PartSize \/ (n = Len(x.parts) /\ x.emitted = Len(whole))
<1> DEFINE k == Len(x.parts)
           from == Cut(whole, n - 1)
           to == Cut(whole, n)
<1>1. k \in Nat /\ n \in Nat /\ n - 1 \in Nat /\ n <= k /\ (n - 1) + 1 = n /\ x.emitted \in Nat
  BY DEF ExportSet
<1>2. Len(whole) \in Nat /\ PartSize \in Nat /\ PartSize >= 1
  BY ExportAssumption DEF Bytes
<1>3. from < Len(whole) /\ x.parts[n] = Segment(whole, from, to)
  BY DEF Progress, IsParts
<1>4. /\ from \in Nat /\ to \in Nat /\ to <= Len(whole)
      /\ to = IF from + PartSize < Len(whole) THEN from + PartSize ELSE Len(whole)
  <2>0. \A m \in Nat : Cut(whole, m) \in Nat /\ Cut(whole, m) <= Len(whole)
    BY CutFacts
  <2>1. from \in Nat /\ to \in Nat /\ to <= Len(whole)
    BY <1>1, <2>0
  <2>2. Cut(whole, (n - 1) + 1) = IF Cut(whole, n - 1) + PartSize < Len(whole)
                                  THEN Cut(whole, n - 1) + PartSize ELSE Len(whole)
    BY <1>1, CutFacts
  <2>3. QED
    BY <1>1, <2>1, <2>2
<1>5. Cut(whole, k) <= x.emitted /\ x.emitted <= Len(whole)
  BY DEF Progress
<1>6. n # k => to < Len(whole)
  <2> SUFFICES ASSUME n # k PROVE to < Len(whole)
    OBVIOUS
  <2>1. n + 1 \in 1..k /\ (n + 1) - 1 = n
    BY <1>1
  <2>2. Cut(whole, (n + 1) - 1) < Len(whole)
    BY <2>1 DEF Progress, IsParts
  <2>3. QED
    BY <2>1, <2>2
<1> HIDE DEF from, k
<1>7. CASE from + PartSize < Len(whole)
  <2>1. to = from + PartSize /\ from <= to
    BY <1>2, <1>4, <1>7
  <2> HIDE DEF to
  <2>2. Len(Segment(whole, from, to)) = to - from
    BY <1>4, <2>1, SegmentTypes
  <2>3. QED
    BY <1>2, <1>3, <1>4, <2>1, <2>2
<1>8. CASE ~(from + PartSize < Len(whole))
  <2>1. n = k
    BY <1>4, <1>6, <1>8, <1>2
  <2>2. Cut(whole, k) = Len(whole)
    BY <1>4, <1>8, <2>1
  <2>3. QED
    BY <1>2, <1>1, <1>5, <2>1, <2>2 DEF k
<1>9. QED
  BY <1>7, <1>8

\* Two sequences of parts of an archive agree as far as both go.
LEMMA SameParts ==
  ASSUME NEW whole, NEW s \in Seq(Bytes), NEW t \in Seq(Bytes), IsParts(whole, s), IsParts(whole, t),
         Len(s) <= Len(t)
  PROVE  s = SubSeq(t, 1, Len(s))
<1>1. Len(s) \in Nat /\ Len(t) \in Nat
  OBVIOUS
<1>2. \A n \in 1..Len(s) : s[n] = t[n]
  BY <1>1 DEF IsParts
<1> HIDE DEF Bytes
<1>3. QED
  BY <1>1, <1>2

\* Parts and pending bytes are the archive up to the cursor, R2 has the parts,
\* and no source is taken from under an active export.
THEOREM WorkIntactHolds == Spec => []WorkIntact
<1>1. ExportInv => WorkIntact
  <2> SUFFICES ASSUME ExportInv, NEW id \in Ids, Active(id)
               PROVE  LET x == exports[id]
                      IN /\ FlattenSeq(x.parts) \o x.pending = SubSeq(Captured(id), 1, x.emitted)
                         /\ \A n \in 1..Len(x.parts) :
                              Len(x.parts[n]) = PartSize \/ (n = Len(x.parts) /\ x.emitted = Total(x))
                         /\ x.upload # 0 => x.parts = SubSeq(uploads[x.upload].parts, 1, Len(x.parts))
                         /\ \A i \in 1..Len(x.snapshot) :
                              x.snapshot[i].content \in lost \/ SourceData(x.snapshot[i]) # {}
    BY DEF WorkIntact, CheckpointExact, SourcesKept
  <2> DEFINE x == exports[id]
             whole == Captured(id)
  <2>1. whole \in Bytes /\ Len(whole) = Len(Layout(captured[id])) /\ x \in ExportSet
    BY CapturedTypes DEF ExportInv, ExportTypes
  <2>2. /\ x.snapshot = captured[id] /\ SourcesIn(captured[id], revisions) /\ Progress(whole, x)
        /\ x.upload # 0 => Len(x.parts) <= Len(uploads[x.upload].parts)
    BY DEF ExportInv, ActiveInv
  <2>3. Total(x) = Len(whole)
    BY <2>1, <2>2 DEF Total
  <2>4. FlattenSeq(x.parts) \o x.pending = SubSeq(whole, 1, x.emitted)
    BY <2>1, <2>2, CheckpointWhole
  <2>5. \A n \in 1..Len(x.parts) :
          Len(x.parts[n]) = PartSize \/ (n = Len(x.parts) /\ x.emitted = Total(x))
    BY <2>1, <2>2, <2>3, PartLengths
  <2>6. x.upload # 0 => x.parts = SubSeq(uploads[x.upload].parts, 1, Len(x.parts))
    <3> SUFFICES ASSUME x.upload # 0 PROVE x.parts = SubSeq(uploads[x.upload].parts, 1, Len(x.parts))
      OBVIOUS
    <3>1. x.upload \in Uploads /\ x.parts \in Seq(Bytes)
      BY <2>1 DEF ExportSet
    <3>2. uploads[x.upload] \in UploadSet
      BY <3>1 DEF ExportInv, ExportTypes
    <3>3. uploads[x.upload].parts \in Seq(Bytes)
      BY <3>2 DEF UploadSet
    <3>4. IsParts(whole, x.parts) /\ IsParts(whole, uploads[x.upload].parts)
      BY <2>2 DEF Progress, ExportInv, UploadInv
    <3>5. QED
      BY <2>2, <3>1, <3>3, <3>4, SameParts
  <2>7. ASSUME NEW i \in 1..Len(x.snapshot)
        PROVE  x.snapshot[i].content \in lost \/ SourceData(x.snapshot[i]) # {}
    <3> DEFINE f == x.snapshot[i]
    <3>1. f.source = "revision" => [path |-> f.path, rev |-> f.rev, content |-> f.content] \in revisions
      BY <2>2 DEF SourcesIn
    <3> HIDE DEF f
    <3>2. f.content \in lost \/ f.content \in SourceData(f)
      BY <3>1 DEF SourceData
    <3>3. QED
      BY <3>2 DEF f
  <2>8. QED
    BY <2>4, <2>5, <2>6, <2>7
<1>2. QED
  BY <1>1, ExportInvHolds, PTL

=============================================================================
