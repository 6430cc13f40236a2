------------------------- MODULE BlobCollectionProofs -------------------------
(***************************************************************************)
(* Theorems about BlobCollection, for any paths, hashes, uploads and calls, *)
(* any page and batch size and any number of runs and restarts.             *)
(***************************************************************************)
EXTENDS BlobCollection, FiniteSetTheorems, WellFoundedInduction, TLAPS

-----------------------------------------------------------------------------
(* The inductive invariant.                                                 *)

\* The shapes that the argument needs.
TypeOK ==
  /\ current \in [Paths -> Hashes \cup {NoHash}]
  /\ retained \subseteq Paths \X Hashes
  /\ generation \in Nat
  /\ DOMAIN collector = Calls
  /\ DOMAIN upload = Uploads
  /\ \A u \in Uploads : upload[u].path \in Paths /\ upload[u].hash \in Hashes /\ upload[u].gen \in Nat

\* A delete that nobody awaits leaves its claim unknown.
LateUnknown == late # {} => claim.state = "unknown" /\ claim.owner # NoCall

\* What an upload has seen of its object is true as long as its fence holds.
EvidenceHolds ==
  \A u \in Uploads :
    /\ upload[u].at \in {"head", "publish"} => upload[u].gen <= generation
    /\ upload[u].at = "publish" /\ FenceHolds(u) => upload[u].hash \in objects

Inv == /\ TypeOK /\ ReferencedStored /\ MarkedUnreferenced
       /\ DeletesAreFenced /\ LateUnknown /\ EvidenceHolds

-----------------------------------------------------------------------------
(* Nothing is stored, marked or referred to at first.                       *)
LEMMA InitInv == Init => Inv
<1> SUFFICES ASSUME Init PROVE Inv
  OBVIOUS
<1>1. TypeOK
  <2>1. PICK wants \in [Uploads -> Paths \X Hashes] :
          upload = [u \in Uploads |-> [at |-> "start", path |-> wants[u][1], hash |-> wants[u][2],
                                       seen |-> FALSE, gen |-> 0]]
    BY DEF Init
  <2>2. \A u \in Uploads : wants[u][1] \in Paths /\ wants[u][2] \in Hashes
    OBVIOUS
  <2>3. DOMAIN upload = Uploads
    BY <2>1
  <2>4. \A u \in Uploads : upload[u].path \in Paths /\ upload[u].hash \in Hashes /\ upload[u].gen = 0
    BY <2>1, <2>2
  <2>5. QED
    BY <2>3, <2>4 DEF Init, TypeOK
<1>2. Referenced = {}
  BY DEF Init, Referenced
<1>3. ReferencedStored /\ MarkedUnreferenced
  BY <1>2 DEF ReferencedStored, MarkedUnreferenced
<1>4. DeletesAreFenced /\ LateUnknown
  BY DEF Init, DeletesAreFenced, LateUnknown, Resting
<1>5. EvidenceHolds
  BY DEF Init, EvidenceHolds
<1>6. QED
  BY <1>1, <1>3, <1>4, <1>5 DEF Inv

-----------------------------------------------------------------------------
(* Uploads.                                                                 *)

\* The step of an upload that refers to nothing new: bytes may be stored, and
\* what its record then says of its fence and its object is true.
Moves(u, at, seen, gen) ==
  /\ gen \in Nat
  /\ upload' = [upload EXCEPT ![u] = Uploading(u, at, seen, gen)]
  /\ objects \subseteq objects'
  /\ UNCHANGED <<current, retained, exported, marks, generation, claim, collector, late>>
  /\ at \in {"head", "publish"} => gen <= generation
  /\ at = "publish" => upload[u].hash \in objects

LEMMA UploadMoves ==
  ASSUME Inv, NEW u \in Uploads, NEW at, NEW seen, NEW gen, Moves(u, at, seen, gen)
  PROVE  Inv'
<1>1. UNCHANGED <<current, retained, exported, marks, generation, claim, collector, late>>
  BY DEF Moves
<1>2. TypeOK'
  BY <1>1 DEF TypeOK, Inv, Uploading, Moves
<1>3. ReferencedStored' /\ MarkedUnreferenced'
  BY <1>1 DEF Inv, ReferencedStored, MarkedUnreferenced, Referenced, Moves
<1>4. DeletesAreFenced' /\ LateUnknown'
  BY <1>1 DEF Inv, DeletesAreFenced, LateUnknown
<1>5. \A v \in Uploads : v # u => upload'[v] = upload[v]
  BY DEF Inv, TypeOK, Moves
<1>6. upload'[u] = Uploading(u, at, seen, gen)
  BY DEF Inv, TypeOK, Moves
<1>7. EvidenceHolds'
  BY <1>1, <1>5, <1>6 DEF Moves, Inv, EvidenceHolds, FenceHolds, MarkedAt, Uploading
<1>8. QED
  BY <1>2, <1>3, <1>4, <1>7 DEF Inv

\* Every step of an upload but its publication is such a step.
LEMMA UploadInv ==
  ASSUME Inv, NEW u \in Uploads, UploadStep(u)
  PROVE  Inv'
<1>0. /\ upload[u].hash \in Hashes /\ upload[u].path \in Paths
      /\ upload[u].gen \in Nat /\ generation \in Nat
  BY DEF Inv, TypeOK
<1>a. LookForObject(u) \/ StoreObject(u) \/ CaptureFence(u) \/ HeadObject(u) \/ UploadEnds(u)
      => UNCHANGED <<current, retained, exported, marks, generation, claim, collector, late>>
  BY DEF LookForObject, StoreObject, CaptureFence, HeadObject, UploadEnds, refVars, gcVars
<1>1. CASE LookForObject(u)
  <2>1. Moves(u, "stream", upload[u].hash \in objects, 0)
    BY <1>a, <1>1 DEF LookForObject, Moves
  <2>2. QED
    BY <2>1, UploadMoves
<1>2. CASE StoreObject(u)
  <2>1. Moves(u, "commit", upload[u].seen, upload[u].gen)
    BY <1>a, <1>0, <1>2 DEF StoreObject, Advance, Moves
  <2>2. QED
    BY <2>1, UploadMoves
<1>3. CASE CaptureFence(u)
  <2>1. Moves(u, "done", upload[u].seen, upload[u].gen) \/ Moves(u, "head", upload[u].seen, generation)
    BY <1>a, <1>0, <1>3 DEF CaptureFence, Advance, Moves
  <2>2. QED
    BY <2>1, UploadMoves
<1>4. CASE HeadObject(u)
  <2>1. upload[u].gen <= generation
    BY <1>4 DEF HeadObject, Inv, EvidenceHolds
  <2>2. \/ Moves(u, "publish", upload[u].seen, upload[u].gen)
        \/ Moves(u, "done", upload[u].seen, upload[u].gen)
    BY <1>a, <1>0, <1>4, <2>1 DEF HeadObject, Advance, Moves
  <2>3. QED
    BY <2>2, UploadMoves
<1>5. CASE UploadEnds(u)
  <2>1. Moves(u, "done", upload[u].seen, upload[u].gen)
    BY <1>a, <1>0, <1>5 DEF UploadEnds, Advance, Moves
  <2>2. QED
    BY <2>1, UploadMoves
<1>6. CASE PublishBlob(u)
  <2>1. UNCHANGED <<exported, objects, marks, generation, claim, collector, late>>
    BY <1>6 DEF PublishBlob, gcVars
  <2>2. /\ current' = [current EXCEPT ![upload[u].path] = upload[u].hash]
        /\ retained' = retained \cup {<<upload[u].path, upload[u].hash>>}
        /\ upload' = [upload EXCEPT ![u] = Uploading(u, "done", upload[u].seen, upload[u].gen)]
    BY <1>6 DEF PublishBlob, Advance
  <2>3. upload[u].hash \in objects /\ upload[u].hash \notin marks
    BY <1>6 DEF PublishBlob, FenceHolds, MarkedAt, Inv, EvidenceHolds
  <2>4. Referenced' \subseteq Referenced \cup {upload[u].hash}
    BY <1>0, <2>1, <2>2 DEF Referenced, Inv, TypeOK
  <2>5. ReferencedStored' /\ MarkedUnreferenced'
    BY <2>1, <2>3, <2>4 DEF Inv, ReferencedStored, MarkedUnreferenced
  <2>6. TypeOK'
    BY <1>0, <2>1, <2>2 DEF Inv, TypeOK, Uploading
  <2>7. DeletesAreFenced' /\ LateUnknown'
    BY <2>1 DEF Inv, DeletesAreFenced, LateUnknown
  <2>8. EvidenceHolds'
    <3>1. \A v \in Uploads : v # u => upload'[v] = upload[v]
      BY <2>2 DEF Inv, TypeOK
    <3>2. upload'[u].at = "done"
      BY <2>2 DEF Inv, TypeOK, Uploading
    <3>3. QED
      BY <2>1, <3>1, <3>2 DEF Inv, EvidenceHolds, FenceHolds, MarkedAt
  <2>9. QED
    BY <2>5, <2>6, <2>7, <2>8 DEF Inv
<1>7. QED
  BY <1>1, <1>2, <1>3, <1>4, <1>5, <1>6 DEF UploadStep

-----------------------------------------------------------------------------
(* The other writers.                                                       *)

\* A writer that never looks at the marks refers to nothing that was not
\* referred to before: a restore to a retained revision, a rename and an export
\* to the live blob.
LEMMA ReferencesInv ==
  ASSUME Inv, References
  PROVE  Inv'
<1>1. UNCHANGED <<objects, marks, generation, claim, collector, upload, late>>
  BY DEF References, gcVars
<1>2. /\ current' \in [Paths -> Hashes \cup {NoHash}]
      /\ retained' \subseteq Paths \X Hashes
      /\ Referenced' \subseteq Referenced
  <2>0. current \in [Paths -> Hashes \cup {NoHash}] /\ retained \subseteq Paths \X Hashes
    BY DEF Inv, TypeOK
  <2>1. CASE \E p \in Paths : Remove(p)
    BY <2>0, <2>1 DEF Remove, Referenced
  <2>2. CASE \E p \in Paths : \E h \in Hashes : Restore(p, h)
    <3>1. PICK p \in Paths, h \in Hashes : Restore(p, h)
      BY <2>2
    <3>2. <<p, h>> \in retained /\ <<p, h>>[2] = h
      BY <3>1 DEF Restore
    <3>3. h \in {r[2] : r \in retained}
      BY <3>2
    <3>4. current' = [current EXCEPT ![p] = h] /\ UNCHANGED <<retained, exported>>
      BY <3>1 DEF Restore
    <3>5. \A q \in Paths : current'[q] = h \/ current'[q] = current[q]
      BY <2>0, <3>4
    <3>6. current' \in [Paths -> Hashes \cup {NoHash}]
      BY <2>0, <3>4
    <3>7. QED
      BY <2>0, <3>3, <3>4, <3>5, <3>6 DEF Referenced
  <2>3. CASE \E p, q \in Paths : Rename(p, q)
    <3>1. PICK p \in Paths, q \in Paths : Rename(p, q)
      BY <2>3
    <3>2. /\ current[p] # NoHash /\ current[p] \in Hashes
          /\ current' = [current EXCEPT ![q] = current[p], ![p] = NoHash]
          /\ retained' = retained \cup {<<q, current[p]>>} /\ exported' = exported
      BY <2>0, <3>1 DEF Rename
    <3>3. \A x \in Paths : current'[x] \in {current[y] : y \in Paths} \cup {NoHash}
      BY <2>0, <3>2
    <3>4. current' \in [Paths -> Hashes \cup {NoHash}]
      BY <2>0, <3>2
    <3>5. <<q, current[p]>>[2] = current[p]
      OBVIOUS
    <3>6. \A r \in retained' : r \in retained \/ r[2] = current[p]
      BY <3>2, <3>5
    <3>7. QED
      BY <2>0, <3>2, <3>3, <3>4, <3>6 DEF Referenced
  <2>4. CASE \E r \in retained : Prune(r)
    BY <2>0, <2>4 DEF Prune, Referenced
  <2>5. CASE CaptureExport \/ EndExport
    BY <2>0, <2>5 DEF CaptureExport, EndExport, Referenced
  <2>6. QED
    BY <2>1, <2>2, <2>3, <2>4, <2>5 DEF References
<1>3. TypeOK'
  BY <1>1, <1>2 DEF Inv, TypeOK
<1>4. ReferencedStored' /\ MarkedUnreferenced'
  BY <1>1, <1>2 DEF Inv, ReferencedStored, MarkedUnreferenced
<1>5. DeletesAreFenced' /\ LateUnknown'
  BY <1>1 DEF Inv, DeletesAreFenced, LateUnknown
<1>6. EvidenceHolds'
  BY <1>1 DEF Inv, EvidenceHolds, FenceHolds, MarkedAt
<1>7. QED
  BY <1>3, <1>4, <1>5, <1>6 DEF Inv

-----------------------------------------------------------------------------
(* Collection.                                                              *)

\* A step of a call that ends in a state without a batch and changes nothing but
\* the run: starting, listing, and finding nothing to claim.
Looks(c, held) ==
  /\ collector' = [collector EXCEPT ![c] = held]
  /\ held.at \notin {"delete", "clear"}
  /\ UNCHANGED <<current, retained, exported, objects, marks, generation, claim, upload, late>>

\* Such a step keeps the invariant.
LEMMA LooksInv ==
  ASSUME Inv, NEW c \in Calls, NEW held, Looks(c, held)
  PROVE  Inv'
<1>1. UNCHANGED <<current, retained, exported, objects, marks, generation, claim, upload, late>>
  BY DEF Looks
<1>2. TypeOK' /\ LateUnknown'
  BY <1>1 DEF Inv, TypeOK, LateUnknown, Looks
<1>3. ReferencedStored' /\ MarkedUnreferenced'
  BY <1>1 DEF Inv, ReferencedStored, MarkedUnreferenced, Referenced
<1>4. DeletesAreFenced'
  <2>1. \A d \in Calls : d # c => collector'[d] = collector[d]
    BY DEF Inv, TypeOK, Looks
  <2>2. collector'[c].at \notin {"delete", "clear"}
    BY DEF Inv, TypeOK, Looks
  <2>3. QED
    BY <1>1, <2>1, <2>2 DEF Inv, DeletesAreFenced
<1>5. EvidenceHolds'
  BY <1>1 DEF Inv, EvidenceHolds, FenceHolds, MarkedAt
<1>6. QED
  BY <1>2, <1>3, <1>4, <1>5 DEF Inv

\* A claim that nobody held is for marked objects.
LEMMA ClaimInv ==
  ASSUME Inv, NEW c \in Calls, ClaimOrFinish(c),
         UNCHANGED <<refVars, objects, upload, late>>
  PROVE  Inv'
<1>1. UNCHANGED <<current, retained, exported, objects, marks, generation, upload, late>>
  BY DEF ClaimOrFinish, refVars, gcVars
<1>2. ReferencedStored' /\ MarkedUnreferenced' /\ EvidenceHolds'
  BY <1>1 DEF Inv, ReferencedStored, MarkedUnreferenced, Referenced, EvidenceHolds,
       FenceHolds, MarkedAt
<1>3. CASE UNCHANGED <<claim, collector>>
  BY <1>1, <1>2, <1>3 DEF Inv, TypeOK, DeletesAreFenced, LateUnknown
<1>4. CASE ~UNCHANGED <<claim, collector>>
  <2>1. /\ claim.owner = NoCall
        /\ claim' = [owner |-> c, state |-> "active"]
        /\ collector' = [collector EXCEPT ![c] = [at |-> "delete", batch |-> First(BatchSize, marks)]]
    BY <1>4 DEF ClaimOrFinish, Hold, gcVars
  <2>2. late = {} /\ \A d \in Calls : collector[d].at \notin {"delete", "clear"}
    BY <2>1, CallsAssumption DEF Inv, LateUnknown, DeletesAreFenced
  <2>3. TypeOK' /\ LateUnknown'
    BY <1>1, <2>1, <2>2 DEF Inv, TypeOK, LateUnknown
  <2>4. collector'[c] = [at |-> "delete", batch |-> First(BatchSize, marks)]
    BY <2>1 DEF Inv, TypeOK
  <2>5. \A d \in Calls : d # c => collector'[d] = collector[d]
    BY <2>1 DEF Inv, TypeOK
  <2>6. First(BatchSize, marks) \subseteq marks
    BY DEF First
  <2>7. DeletesAreFenced'
    BY <1>1, <2>1, <2>2, <2>4, <2>5, <2>6 DEF DeletesAreFenced
  <2>8. QED
    BY <1>2, <2>3, <2>7 DEF Inv
<1>5. QED
  BY <1>3, <1>4

\* Marks are only added to hashes that nothing refers to, and every change of
\* the marks moves the generation, so that no fence taken before it holds.
LEMMA MarkInv ==
  ASSUME Inv, NEW c \in Calls, MarkAndAdvance(c)
  PROVE  Inv'
<1>1. /\ UNCHANGED <<current, retained, exported, objects, claim, upload, late>>
      /\ collector' = [collector EXCEPT ![c] = Resting]
  BY DEF MarkAndAdvance, refVars, Hold
<1>2. marks \subseteq marks' /\ marks' \subseteq marks \cup Candidates(c)
  BY DEF MarkAndAdvance
<1>3. marks' # marks => generation' = generation + 1
  BY DEF MarkAndAdvance
<1>4. generation \in Nat /\ generation' \in Nat /\ generation <= generation'
  BY DEF MarkAndAdvance, Inv, TypeOK
<1>5. TypeOK' /\ LateUnknown'
  BY <1>1, <1>4 DEF Inv, TypeOK, LateUnknown
<1>6. ReferencedStored' /\ MarkedUnreferenced'
  BY <1>1, <1>2 DEF Inv, ReferencedStored, MarkedUnreferenced, Referenced, Candidates
<1>7. DeletesAreFenced'
  <2>1. \A d \in Calls : d # c => collector'[d] = collector[d]
    BY <1>1 DEF Inv, TypeOK
  <2>2. collector'[c].at = "rest"
    BY <1>1 DEF Inv, TypeOK, Resting
  <2>3. QED
    BY <1>1, <1>2, <2>1, <2>2 DEF Inv, DeletesAreFenced
<1>8. EvidenceHolds'
  <2>1. \A u \in Uploads : upload[u].gen \in Nat
    BY DEF Inv, TypeOK
  <2>2. \A u \in Uploads : upload[u].at \in {"head", "publish"} => upload[u].gen <= generation'
    BY <1>4, <2>1 DEF Inv, EvidenceHolds
  <2>3. ASSUME NEW u \in Uploads, upload[u].at = "publish", FenceHolds(u)'
        PROVE  upload[u].hash \in objects
    <3>1. upload[u].gen = generation' /\ upload[u].hash \notin marks'
      BY <1>1, <2>3 DEF FenceHolds, MarkedAt
    <3>2. generation' = generation
      BY <1>4, <2>1, <2>3, <3>1 DEF MarkAndAdvance, Inv, EvidenceHolds
    <3>3. FenceHolds(u)
      BY <1>2, <3>1, <3>2 DEF FenceHolds, MarkedAt
    <3>4. QED
      BY <2>3, <3>3 DEF Inv, EvidenceHolds
  <2>4. QED
    BY <1>1, <2>2, <2>3 DEF EvidenceHolds
<1>9. QED
  BY <1>5, <1>6, <1>7, <1>8 DEF Inv

\* Only marked objects may go.
Deletes ==
  /\ objects \ marks \subseteq objects'
  /\ UNCHANGED <<current, retained, exported, marks, generation, upload>>

\* Nothing that is referred to, and nothing that an upload has evidence of, is
\* deleted with the marked objects.
LEMMA DeletesInv ==
  ASSUME Inv, Deletes
  PROVE  ReferencedStored' /\ MarkedUnreferenced' /\ EvidenceHolds'
<1>1. ReferencedStored' /\ MarkedUnreferenced'
  BY DEF Deletes, Inv, ReferencedStored, MarkedUnreferenced, Referenced
<1>2. EvidenceHolds'
  BY DEF Deletes, Inv, EvidenceHolds, FenceHolds, MarkedAt
<1>3. QED
  BY <1>1, <1>2

\* The calls that delete are the owner of the claim, for objects with marks.
LEMMA DeleteInv ==
  ASSUME Inv, NEW c \in Calls, DeleteObjects(c) \/ DeleteFails(c)
  PROVE  Inv'
<1>1. /\ collector[c].at = "delete"
      /\ UNCHANGED <<current, retained, exported, marks, generation, upload, late>>
  BY DEF DeleteObjects, DeleteFails, refVars, gcVars
<1>2. collector[c].batch \subseteq marks /\ claim = [owner |-> c, state |-> "active"]
  BY <1>1 DEF Inv, DeletesAreFenced
<1>3. late = {} /\ \A d \in Calls : d # c => collector[d].at \notin {"delete", "clear"}
  BY <1>2 DEF Inv, DeletesAreFenced, LateUnknown
<1>4. Deletes
  BY <1>1, <1>2 DEF Deletes, DeleteObjects, DeleteFails
<1>5. \/ /\ claim' = claim
         /\ collector' = [collector EXCEPT ![c] = [at |-> "clear", batch |-> collector[c].batch]]
      \/ collector' = [collector EXCEPT ![c] = Resting]
  BY DEF DeleteObjects, DeleteFails, gcVars, Hold
<1>6. TypeOK' /\ LateUnknown'
  BY <1>1, <1>3, <1>5 DEF Inv, TypeOK, LateUnknown
<1>7. DeletesAreFenced'
  <2>1. \A d \in Calls : d # c => collector'[d].at \notin {"delete", "clear"}
    BY <1>3, <1>5 DEF Inv, TypeOK
  <2>2. \/ /\ claim' = claim /\ collector'[c] = [at |-> "clear", batch |-> collector[c].batch]
        \/ collector'[c].at = "rest"
    BY <1>5 DEF Inv, TypeOK, Resting
  <2>3. QED
    BY <1>1, <1>2, <1>3, <2>1, <2>2 DEF DeletesAreFenced
<1>8. QED
  BY <1>4, <1>6, <1>7, DeletesInv DEF Inv

\* Marks that go move the generation as well, and no other call holds a batch.
LEMMA ClearInv ==
  ASSUME Inv, NEW c \in Calls, ClearMarks(c)
  PROVE  Inv'
<1>1. /\ collector[c].at = "clear"
      /\ UNCHANGED <<current, retained, exported, objects, upload, late>>
      /\ claim' = NoClaim /\ collector' = [collector EXCEPT ![c] = Resting]
      /\ marks' \subseteq marks
  BY DEF ClearMarks, refVars, Hold
<1>2. claim = [owner |-> c, state |-> "active"]
  BY <1>1 DEF Inv, DeletesAreFenced
<1>3. late = {} /\ \A d \in Calls : d # c => collector[d].at \notin {"delete", "clear"}
  BY <1>2 DEF Inv, DeletesAreFenced, LateUnknown
<1>4. /\ generation \in Nat /\ generation' \in Nat /\ generation <= generation'
      /\ generation' = generation => marks' = marks
  BY DEF ClearMarks, Inv, TypeOK
<1>5. TypeOK' /\ LateUnknown'
  BY <1>1, <1>3, <1>4 DEF Inv, TypeOK, LateUnknown
<1>6. ReferencedStored' /\ MarkedUnreferenced'
  BY <1>1 DEF Inv, ReferencedStored, MarkedUnreferenced, Referenced
<1>7. DeletesAreFenced'
  <2>1. \A d \in Calls : collector'[d].at \notin {"delete", "clear"}
    BY <1>1, <1>3 DEF Inv, TypeOK, Resting
  <2>2. QED
    BY <1>1, <1>3, <2>1 DEF DeletesAreFenced
<1>8. EvidenceHolds'
  <2>1. \A u \in Uploads : upload[u].gen \in Nat
    BY DEF Inv, TypeOK
  <2>2. \A u \in Uploads : upload[u].at \in {"head", "publish"} => upload[u].gen <= generation'
    BY <1>4, <2>1 DEF Inv, EvidenceHolds
  <2>3. ASSUME NEW u \in Uploads, upload[u].at = "publish", FenceHolds(u)'
        PROVE  upload[u].hash \in objects
    <3>1. upload[u].gen = generation' /\ upload[u].hash \notin marks'
      BY <1>1, <2>3 DEF FenceHolds, MarkedAt
    <3>2. upload[u].gen <= generation
      BY <2>3 DEF Inv, EvidenceHolds
    <3>3. generation' = generation
      BY <1>4, <2>1, <3>1, <3>2
    <3>4. FenceHolds(u)
      BY <1>4, <3>1, <3>3 DEF FenceHolds, MarkedAt
    <3>5. QED
      BY <2>3, <3>4 DEF Inv, EvidenceHolds
  <2>4. QED
    BY <1>1, <2>2, <2>3 DEF EvidenceHolds
<1>9. QED
  BY <1>5, <1>6, <1>7, <1>8 DEF Inv

\* The step of a collecting call, whichever it is.
LEMMA CollectInv ==
  ASSUME Inv, NEW c \in Calls, StartBatch(c) \/ CollectBatch(c) \/ CollectStep(c)
  PROVE  Inv'
<1>1. CASE StartBatch(c)
  <2>1. Looks(c, [at |-> "list", saw |-> run'])
    <3>1. UNCHANGED <<current, retained, exported, objects, marks, generation, claim, upload, late>>
      BY <1>1 DEF StartBatch, refVars
    <3>2. QED
      BY <1>1, <3>1 DEF StartBatch, Looks, Hold
  <2>2. QED
    BY <2>1, LooksInv
<1>2. CASE CollectBatch(c)
  <2>1. UNCHANGED <<refVars, objects, upload, late>>
    BY <1>2 DEF CollectBatch
  <2>2. CASE ClaimOrFinish(c)
    BY <2>1, <2>2, ClaimInv
  <2>3. CASE ~ClaimOrFinish(c)
    <3>1. Hold(c, [at |-> "list", saw |-> run]) /\ UNCHANGED gcVars
      BY <1>2, <2>3 DEF CollectBatch
    <3>2. UNCHANGED <<current, retained, exported, objects, marks, generation, claim, upload, late>>
      BY <2>1, <3>1 DEF refVars, gcVars
    <3>3. Looks(c, [at |-> "list", saw |-> run])
      BY <3>1, <3>2 DEF Looks, Hold
    <3>4. QED
      BY <3>3, LooksInv
  <2>4. QED
    BY <2>2, <2>3
<1>3. CASE ListPage(c) \/ ListFails(c)
  <2>1. UNCHANGED <<current, retained, exported, objects, marks, generation, claim, upload, late>>
    BY <1>3 DEF ListPage, ListFails, refVars, gcVars
  <2>2. CASE ListFails(c)
    <3>1. Looks(c, Resting)
      BY <2>1, <2>2 DEF ListFails, Looks, Hold, Resting
    <3>2. QED
      BY <3>1, LooksInv
  <2>3. CASE ListPage(c)
    <3>1. PICK page, next : Hold(c, [at |-> "mark", saw |-> collector[c].saw, page |-> page, next |-> next])
      BY <2>3 DEF ListPage
    <3>2. Looks(c, [at |-> "mark", saw |-> collector[c].saw, page |-> page, next |-> next])
      BY <2>1, <3>1 DEF Looks, Hold
    <3>3. QED
      BY <3>2, LooksInv
  <2>4. QED
    BY <1>3, <2>2, <2>3
<1>4. CASE MarkAndAdvance(c)
  BY <1>4, MarkInv
<1>5. CASE DeleteObjects(c) \/ DeleteFails(c)
  BY <1>5, DeleteInv
<1>6. CASE ClearMarks(c)
  BY <1>6, ClearInv
<1>7. QED
  BY <1>1, <1>2, <1>3, <1>4, <1>5, <1>6 DEF CollectStep

-----------------------------------------------------------------------------
(* Restarts.                                                                *)

\* What an instance that is gone may still delete keeps its marks, and its claim
\* is never taken again.
LEMMA RestartInv ==
  ASSUME Inv, Restart
  PROVE  Inv'
<1>1. /\ UNCHANGED <<current, retained, exported, objects, marks, generation>>
      /\ claim' = AfterRestart
      /\ collector' = [c \in Calls |-> Resting]
  BY DEF Restart, refVars
<1>2. \A u \in Uploads :
        \/ upload'[u] = Uploading(u, "done", upload[u].seen, upload[u].gen)
        \/ upload'[u] = upload[u]
  BY DEF Restart
<1>3. DOMAIN upload' = Uploads /\ DOMAIN collector' = Calls
  BY <1>1 DEF Restart
<1>4. TypeOK'
  BY <1>1, <1>2, <1>3 DEF Inv, TypeOK, Uploading
<1>5. ReferencedStored' /\ MarkedUnreferenced'
  BY <1>1 DEF Inv, ReferencedStored, MarkedUnreferenced, Referenced
<1>6. late' \subseteq marks
  BY DEF Restart, Inv, DeletesAreFenced
<1>7. late' # {} => claim.owner # NoCall
  <2>1. late # {} => claim.owner # NoCall
    BY DEF Inv, LateUnknown
  <2>2. \A c \in Calls : collector[c].at = "delete" => claim.owner # NoCall
    BY CallsAssumption DEF Inv, DeletesAreFenced
  <2>3. QED
    BY <2>1, <2>2 DEF Restart
<1>8. DeletesAreFenced' /\ LateUnknown'
  <2>1. \A c \in Calls : collector'[c].at = "rest"
    BY <1>1 DEF Resting
  <2>2. DeletesAreFenced'
    BY <1>1, <1>6, <2>1 DEF DeletesAreFenced
  <2>3. late' # {} => claim' = [owner |-> claim.owner, state |-> "unknown"]
    BY <1>1, <1>7 DEF AfterRestart
  <2>4. LateUnknown'
    BY <1>7, <2>3 DEF LateUnknown
  <2>5. QED
    BY <2>2, <2>4
<1>9. EvidenceHolds'
  <2>1. ASSUME NEW u \in Uploads
        PROVE  upload'[u].at \in {"head", "publish"} => upload'[u] = upload[u]
    <3>1. Uploading(u, "done", upload[u].seen, upload[u].gen).at = "done"
      BY DEF Uploading
    <3>2. QED
      BY <1>2, <3>1
  <2>2. QED
    BY <1>1, <2>1 DEF Inv, EvidenceHolds, FenceHolds, MarkedAt
<1>10. QED
  BY <1>4, <1>5, <1>8, <1>9 DEF Inv

\* A late delete takes an object whose mark stays.
LEMMA LateInv ==
  ASSUME Inv, LateDelete
  PROVE  Inv'
<1>1. UNCHANGED <<current, retained, exported, marks, generation, claim, collector, upload>>
  BY DEF LateDelete, refVars, gcVars
<1>2. PICK h \in late : objects' = objects \ {h} /\ late' = late \ {h}
  BY DEF LateDelete
<1>3. Deletes
  BY <1>1, <1>2 DEF Deletes, Inv, DeletesAreFenced
<1>4. TypeOK' /\ LateUnknown' /\ DeletesAreFenced'
  BY <1>1, <1>2 DEF Inv, TypeOK, LateUnknown, DeletesAreFenced
<1>5. QED
  BY <1>3, <1>4, DeletesInv DEF Inv

-----------------------------------------------------------------------------
(* What a run sweeps.                                                       *)

\* R2 lists what is stored: a finite set of objects in an order that ends.
Listable ==
  /\ IsFiniteSet(objects) /\ objects \subseteq Hashes
  /\ \E k \in Nat : \A h \in objects : HashOrder[h] <= k

RunOK == run \in [id : Nat, phase : {"idle", "marking", "deleting"}, cursor : Nat]

\* Garbage is stored, and nothing refers to it.
GarbageStored == garbage \subseteq objects /\ garbage \cap Referenced = {}

\* The garbage that the cursor has passed is marked, all of it once the run
\* deletes; a run that is over leaves neither garbage nor marks.
PassedMarked ==
  /\ run.phase = "marking" => \A h \in garbage : HashOrder[h] <= run.cursor => h \in marks
  /\ run.phase = "deleting" => garbage \subseteq marks
  /\ run.phase = "idle" => garbage = {} /\ marks = {}

\* The page of a call that looks at this run holds the garbage between its
\* cursor and the next one; what a call has deleted is not garbage.
CallSweeps(c) ==
  /\ collector[c].at \in {"list", "mark"} =>
       /\ collector[c].saw.id \in Nat /\ collector[c].saw.id <= run.id
       /\ collector[c].saw.cursor \in Nat
  /\ collector[c].at = "mark" =>
       /\ collector[c].next \in Nat
       /\ collector[c].saw.id = run.id =>
            \A h \in garbage :
              /\ HashOrder[h] > collector[c].saw.cursor
              /\ collector[c].next = 0 \/ HashOrder[h] <= collector[c].next
              => h \in collector[c].page
  /\ collector[c].at = "clear" => collector[c].batch \cap garbage = {}

Sweep == /\ Listable /\ RunOK /\ GarbageStored /\ PassedMarked
         /\ \A c \in Calls : CallSweeps(c)

\* A set of numbers that is not empty has a least one.
LEMMA LeastNumber ==
  ASSUME NEW S, S \subseteq Nat, S # {}
  PROVE  \E m \in S : \A n \in S : m <= n
<1> DEFINE Less == {ss \in Nat \X Nat : ss[1] < ss[2]}
<1>1. IsWellFoundedOn(Less, Nat)
  BY NatLessThanWellFounded DEF OpToRel
<1> HIDE DEF Less
<1>2. PICK m \in S : \A n \in S : <<n, m>> \notin Less
  BY <1>1, WFMin
<1>3. \A n \in S : ~(n < m)
  BY <1>2 DEF Less
<1>4. QED
  BY <1>3

\* A page that is not empty has a last object.
LEMMA LastOfPage ==
  ASSUME NEW S, S \subseteq Hashes, S # {},
         NEW k \in Nat, \A h \in S : HashOrder[h] <= k
  PROVE  \E h \in S : \A g \in S : HashOrder[g] <= HashOrder[h]
<1> DEFINE Bounds == {b \in Nat : \A h \in S : HashOrder[h] <= b}
<1>1. PICK m \in Bounds : \A b \in Bounds : m <= b
  <2>1. Bounds \subseteq Nat /\ k \in Bounds
    OBVIOUS
  <2> HIDE DEF Bounds
  <2>2. QED
    BY <2>1, LeastNumber
<1>2. \A h \in S : HashOrder[h] \in Nat /\ HashOrder[h] > 0 /\ HashOrder[h] <= m
  BY <1>1, HashesAssumption
<1>3. \E h \in S : HashOrder[h] = m
  <2> SUFFICES ASSUME \A h \in S : HashOrder[h] # m PROVE FALSE
    OBVIOUS
  <2>1. PICK h \in S : TRUE
    OBVIOUS
  <2>2. m \in Nat /\ m > 0
    BY <1>1, <1>2, <2>1
  <2>3. m - 1 \in Nat /\ \A g \in S : HashOrder[g] <= m - 1
    BY <1>2, <2>2
  <2>4. m - 1 \in Bounds
    BY <2>3
  <2>5. QED
    BY <1>1, <2>2, <2>4
<1>4. QED
  BY <1>2, <1>3

\* A page of what is left has the first of it, and nothing before a hash of the
\* page is missing from it.
LEMMA FirstIsPrefix ==
  ASSUME NEW n \in Nat \ {0}, NEW s, s \subseteq Hashes, IsFiniteSet(s)
  PROVE  /\ First(n, s) \subseteq s
         /\ s # {} => First(n, s) # {}
         /\ \A h \in First(n, s), g \in s : HashOrder[g] <= HashOrder[h] => g \in First(n, s)
<1> DEFINE Upto(h) == {g \in s : HashOrder[g] <= HashOrder[h]}
<1>1. \A h \in s : HashOrder[h] \in Nat
  BY HashesAssumption
<1>2. \A h \in s : IsFiniteSet(Upto(h)) /\ Cardinality(Upto(h)) \in Nat
  <2> TAKE h \in s
  <2>1. Upto(h) \in SUBSET s
    OBVIOUS
  <2> HIDE DEF Upto
  <2>2. IsFiniteSet(Upto(h))
    BY <2>1, FS_Subset
  <2>3. QED
    BY <2>2, FS_CardinalityType
<1>3. First(n, s) = {h \in s : Cardinality(Upto(h)) <= n}
  BY DEF First
<1>4. ASSUME s # {} PROVE First(n, s) # {}
  <2> DEFINE Orders == {HashOrder[h] : h \in s}
  <2>1. Orders \subseteq Nat /\ Orders # {}
    BY <1>1, <1>4
  <2>2. PICK m \in Orders : \A o \in Orders : m <= o
    <3> HIDE DEF Orders
    <3>1. QED
      BY <2>1, LeastNumber
  <2>3. PICK h \in s : HashOrder[h] = m
    BY <2>2
  <2>4. \A g \in s : HashOrder[h] <= HashOrder[g]
    BY <2>2, <2>3
  <2>5. Upto(h) = {h}
    BY <1>1, <2>4, HashesAssumption
  <2>6. Cardinality(Upto(h)) = 1
    <3> HIDE DEF Upto
    <3>1. QED
      BY <2>5, FS_Singleton
  <2>7. h \in First(n, s)
    <3> HIDE DEF Upto
    <3>1. QED
      BY <1>3, <2>6
  <2>8. QED
    BY <2>7
<1>5. ASSUME NEW h \in First(n, s), NEW g \in s, HashOrder[g] <= HashOrder[h]
      PROVE  g \in First(n, s)
  <2>1. h \in s
    BY <1>3
  <2>2. Upto(g) \in SUBSET Upto(h)
    BY <1>1, <1>5, <2>1
  <2> HIDE DEF Upto
  <2>3. Cardinality(Upto(g)) <= Cardinality(Upto(h))
    BY <1>2, <2>1, <2>2, FS_Subset
  <2>4. Cardinality(Upto(g)) \in Nat /\ Cardinality(Upto(h)) \in Nat /\ Cardinality(Upto(h)) <= n
    BY <1>2, <1>3, <1>5, <2>1
  <2>5. QED
    BY <1>3, <2>3, <2>4
<1>6. First(n, s) \subseteq s
  BY <1>3
<1>7. QED
  BY <1>4, <1>5, <1>6

\* In a run garbage only goes.
LEMMA GarbageShrinks ==
  ASSUME TrackGarbage
  PROVE  /\ GarbageStored'
         /\ run'.phase = "idle" /\ run.phase = "idle" => garbage' = {}
         /\ run'.phase = "idle" \/ run.phase # "idle" => garbage' \subseteq garbage
<1>1. garbage' \subseteq objects'
  BY DEF TrackGarbage
<1>2. garbage' \cap Referenced' = {}
  BY DEF TrackGarbage
<1>3. QED
  BY <1>1, <1>2 DEF TrackGarbage, GarbageStored

\* The step of a writer, an upload or a call that does not change the run: marks
\* of garbage stay, and each call is where it was or somewhere it may be.
LEMMA SameRun ==
  ASSUME Sweep, TrackGarbage, run' = run, Listable',
         garbage \cap marks \subseteq marks',
         run.phase = "idle" => marks' = {},
         \A c \in Calls : collector'[c] = collector[c] \/ CallSweeps(c)'
  PROVE  Sweep'
<1>1. GarbageStored' /\ garbage' \subseteq garbage
  BY GarbageShrinks
<1>2. run.phase = "idle" => garbage' = {}
  BY GarbageShrinks
<1>3. RunOK'
  BY DEF Sweep, RunOK
<1>4. PassedMarked'
  BY <1>1, <1>2 DEF Sweep, PassedMarked
<1>5. ASSUME NEW c \in Calls PROVE CallSweeps(c)'
  <2>1. CASE collector'[c] = collector[c]
    BY <1>1, <2>1 DEF Sweep, CallSweeps
  <2>2. QED
    BY <2>1
<1>6. QED
  BY <1>1, <1>3, <1>4, <1>5 DEF Sweep

\* What is stored stays listable as uploads store it and collections delete it.
LEMMA StaysListable ==
  ASSUME Listable, NEW h \in Hashes, objects' \subseteq objects \cup {h}
  PROVE  Listable'
<1>1. IsFiniteSet(objects \cup {h})
  BY FS_AddElement DEF Listable
<1>2. IsFiniteSet(objects')
  BY <1>1, FS_Subset
<1>3. objects' \subseteq Hashes
  BY DEF Listable
<1>4. PICK k \in Nat : \A g \in objects : HashOrder[g] <= k
  BY DEF Listable
<1>5. HashOrder[h] \in Nat /\ \A g \in objects : HashOrder[g] \in Nat
  BY HashesAssumption DEF Listable
<1>6. \A g \in objects' : HashOrder[g] <= k + HashOrder[h]
  BY <1>4, <1>5
<1>7. k + HashOrder[h] \in Nat
  BY <1>5
<1>8. QED
  BY <1>2, <1>3, <1>6, <1>7 DEF Listable

\* A delete needs no hash to stand for what it adds.
LEMMA LessIsListable ==
  ASSUME Listable, objects' \subseteq objects
  PROVE  Listable'
<1>1. IsFiniteSet(objects')
  BY FS_Subset DEF Listable
<1>2. QED
  BY <1>1 DEF Listable

\* Writers, uploads and restarts leave the run and the marks alone.
LEMMA OutsideSweep ==
  ASSUME Inv, Sweep, TrackGarbage,
         References \/ Restart \/ LateDelete \/ \E u \in Uploads : UploadStep(u)
  PROVE  Sweep'
<1>1. run' = run /\ marks' = marks
  BY DEF References, Restart, LateDelete, UploadStep, LookForObject, StoreObject, CaptureFence,
         HeadObject, PublishBlob, UploadEnds, gcVars
<1>2. Listable'
  <2>1. CASE References \/ Restart \/ LateDelete
    <3>1. objects' \subseteq objects
      BY <2>1 DEF References, Restart, LateDelete
    <3>2. QED
      BY <3>1, LessIsListable DEF Sweep
  <2>2. CASE \E u \in Uploads : UploadStep(u)
    <3>1. PICK u \in Uploads : UploadStep(u)
      BY <2>2
    <3>2. upload[u].hash \in Hashes /\ objects' \subseteq objects \cup {upload[u].hash}
      BY <3>1 DEF Inv, TypeOK, UploadStep, LookForObject, StoreObject, CaptureFence,
                  HeadObject, PublishBlob, UploadEnds
    <3>3. QED
      BY <3>2, StaysListable DEF Sweep
  <2>3. QED
    BY <2>1, <2>2
<1>3. ASSUME NEW c \in Calls PROVE collector'[c] = collector[c] \/ CallSweeps(c)'
  <2>1. CASE Restart
    <3>1. collector'[c].at = "rest"
      BY <2>1 DEF Restart, Resting
    <3>2. QED
      BY <3>1 DEF CallSweeps
  <2>2. CASE ~Restart
    <3>1. collector' = collector
      BY <2>2 DEF References, LateDelete, UploadStep, LookForObject, StoreObject, CaptureFence,
                  HeadObject, PublishBlob, UploadEnds
    <3>2. QED
      BY <3>1
  <2>3. QED
    BY <2>1, <2>2
<1>4. run.phase = "idle" => marks' = {}
  BY <1>1 DEF Sweep, PassedMarked
<1>5. QED
  BY <1>1, <1>2, <1>3, <1>4, SameRun

\* The page that a call lists holds all that is left up to the next cursor, and
\* the next cursor is further on.
LEMMA PageSweeps ==
  ASSUME Inv, Sweep, TrackGarbage, NEW c \in Calls, ListPage(c)
  PROVE  Sweep'
<1> DEFINE left == {h \in objects : HashOrder[h] > collector[c].saw.cursor}
           page == First(PageSize, left)
           last == CHOOSE n \in {0} \cup {HashOrder[h] : h \in page} :
                     \A h \in page : HashOrder[h] <= n
           next == IF page = left THEN 0 ELSE last
<1>1. /\ collector[c].at = "list"
      /\ collector' = [collector EXCEPT ![c] =
           [at |-> "mark", saw |-> collector[c].saw, page |-> page, next |-> next]]
      /\ run' = run /\ marks' = marks /\ objects' = objects
  BY DEF ListPage, Hold, gcVars
<1>2. /\ collector[c].saw.id \in Nat /\ collector[c].saw.id <= run.id
      /\ collector[c].saw.cursor \in Nat
  BY <1>1 DEF Sweep, CallSweeps
<1>3. left \subseteq Hashes /\ IsFiniteSet(left)
  BY FS_Subset DEF Sweep, Listable
<1>4. PageSize \in Nat \ {0}
  BY SizesAssumption
<1>5. /\ page \subseteq left
      /\ left # {} => page # {}
      /\ \A h \in page, g \in left : HashOrder[g] <= HashOrder[h] => g \in page
  <2> HIDE DEF left
  <2>1. QED
    BY <1>3, <1>4, FirstIsPrefix
<1>6. \A h \in left : h \in objects /\ HashOrder[h] \in Nat /\ HashOrder[h] > 0
  BY <1>3, HashesAssumption
<1>7. ASSUME page # left
      PROVE  \E h \in page : last = HashOrder[h]
  <2>1. PICK k \in Nat : \A h \in objects : HashOrder[h] <= k
    BY DEF Sweep, Listable
  <2> HIDE DEF left
  <2>2. page # {} /\ page \subseteq Hashes /\ \A h \in page : HashOrder[h] <= k
    BY <1>3, <1>5, <1>6, <1>7, <2>1
  <2> HIDE DEF page
  <2>3. PICK h \in page : \A g \in page : HashOrder[g] <= HashOrder[h]
    BY <2>2, LastOfPage
  <2>4. HashOrder[h] \in {0} \cup {HashOrder[g] : g \in page}
    OBVIOUS
  <2>5. /\ last \in {0} \cup {HashOrder[g] : g \in page}
        /\ \A g \in page : HashOrder[g] <= last
    BY <2>3, <2>4
  <2>6. HashOrder[h] > 0 /\ HashOrder[h] \in Nat /\ HashOrder[h] <= last
    BY <1>5, <1>6, <2>5
  <2> HIDE DEF last
  <2>7. last # 0
    BY <2>6
  <2>8. QED
    BY <2>5, <2>7
<1> HIDE DEF last
<1>8. next \in Nat
  BY <1>5, <1>6, <1>7
<1>9. ASSUME NEW h \in garbage, HashOrder[h] > collector[c].saw.cursor,
             next = 0 \/ HashOrder[h] <= next
      PROVE  h \in page
  <2>1. h \in left
    BY <1>9 DEF Sweep, GarbageStored
  <2>2. CASE page = left
    BY <2>1, <2>2
  <2>3. CASE page # left
    <3>1. PICK g \in page : last = HashOrder[g]
      BY <1>7, <2>3
    <3>2. next = HashOrder[g] /\ HashOrder[g] > 0
      BY <1>5, <1>6, <2>3, <3>1
    <3>3. HashOrder[h] <= HashOrder[g]
      BY <1>6, <1>9, <1>5, <3>2
    <3> HIDE DEF left, page
    <3>4. QED
      BY <1>5, <2>1, <3>3
  <2>4. QED
    BY <2>2, <2>3
<1> HIDE DEF left, page, next
<1>10. collector'[c] = [at |-> "mark", saw |-> collector[c].saw, page |-> page, next |-> next]
  BY <1>1 DEF Inv, TypeOK
<1>11. garbage' \subseteq garbage
  BY <1>1, GarbageShrinks
<1>12. CallSweeps(c)'
  BY <1>1, <1>2, <1>8, <1>9, <1>10, <1>11 DEF CallSweeps
<1>13. \A d \in Calls : d # c => collector'[d] = collector[d]
  BY <1>1 DEF Inv, TypeOK
<1>14. Listable'
  BY <1>1, LessIsListable DEF Sweep
<1>15. run.phase = "idle" => marks' = {}
  BY <1>1 DEF Sweep, PassedMarked
<1>16. QED
  BY <1>1, <1>12, <1>13, <1>14, <1>15, SameRun

\* A run begins with the garbage that is there; a call that still looks at an
\* earlier run is told by the run's id.
LEMMA StartSweeps ==
  ASSUME Inv, Sweep, TrackGarbage, NEW c \in Calls, StartBatch(c)
  PROVE  Sweep'
<1>1. /\ run.phase = "idle" /\ marks' = marks /\ objects' = objects
      /\ run' = [id |-> run.id + 1, phase |-> "marking", cursor |-> 0]
      /\ collector' = [collector EXCEPT ![c] = [at |-> "list", saw |-> run']]
  BY DEF StartBatch, Hold
<1>2. marks = {} /\ run.id \in Nat
  BY <1>1 DEF Sweep, PassedMarked, RunOK
<1>3. GarbageStored'
  BY GarbageShrinks
<1>4. RunOK' /\ Listable'
  BY <1>1, <1>2, LessIsListable DEF RunOK, Sweep
<1>5. PassedMarked'
  <2>1. \A h \in garbage' : HashOrder[h] \in Nat /\ HashOrder[h] > 0
    BY <1>1, <1>3, HashesAssumption DEF GarbageStored, Sweep, Listable
  <2>2. QED
    BY <1>1, <2>1 DEF PassedMarked
<1>6. collector'[c] = [at |-> "list", saw |-> run']
  BY <1>1 DEF Inv, TypeOK
<1>7. CallSweeps(c)'
  BY <1>1, <1>2, <1>6 DEF CallSweeps
<1>8. ASSUME NEW d \in Calls, d # c PROVE CallSweeps(d)'
  <2>1. collector'[d] = collector[d]
    BY <1>1, <1>8 DEF Inv, TypeOK
  <2>2. CallSweeps(d)
    BY DEF Sweep
  <2>3. collector[d].at = "clear" => collector[d].batch = {}
    BY <1>2 DEF Inv, DeletesAreFenced
  <2>4. collector[d].at \in {"list", "mark"} =>
          /\ collector[d].saw.id \in Nat /\ collector[d].saw.id <= run'.id
          /\ collector[d].saw.id # run'.id
    BY <1>1, <1>2, <2>2 DEF CallSweeps
  <2>5. QED
    BY <2>1, <2>2, <2>3, <2>4 DEF CallSweeps
<1>9. QED
  BY <1>3, <1>4, <1>5, <1>7, <1>8 DEF Sweep

\* The cursor moves over garbage that is marked in the same transaction; a page
\* of another run, or one that was applied before, changes nothing.
LEMMA AdvanceSweeps ==
  ASSUME Inv, Sweep, TrackGarbage, NEW c \in Calls, MarkAndAdvance(c)
  PROVE  Sweep'
<1>1. /\ collector[c].at = "mark"
      /\ collector' = [collector EXCEPT ![c] = Resting]
      /\ UNCHANGED <<current, retained, exported, objects>>
  BY DEF MarkAndAdvance, Hold, refVars
<1>2. collector'[c].at = "rest" /\ \A d \in Calls : d # c => collector'[d] = collector[d]
  BY <1>1 DEF Inv, TypeOK, Resting
<1>3. CallSweeps(c)'
  BY <1>2 DEF CallSweeps
<1>4. Listable'
  BY <1>1, LessIsListable DEF Sweep
<1>5. CASE ~StillCurrent(c)
  <2>1. run' = run /\ marks' = marks
    BY <1>5 DEF MarkAndAdvance
  <2>2. run.phase = "idle" => marks' = {}
    BY <2>1 DEF Sweep, PassedMarked
  <2>3. QED
    BY <1>2, <1>3, <1>4, <2>1, <2>2, SameRun
<1>6. CASE StillCurrent(c)
  <2>1. /\ run.phase = "marking" /\ run = collector[c].saw
        /\ marks' = marks \cup Candidates(c)
        /\ run' = [run EXCEPT !.cursor = collector[c].next,
                              !.phase = IF collector[c].next = 0 THEN "deleting" ELSE @]
    BY <1>6 DEF MarkAndAdvance, StillCurrent
  <2>2. /\ run.id \in Nat /\ run.cursor \in Nat /\ collector[c].next \in Nat
        /\ run' = [id |-> run.id, cursor |-> collector[c].next,
                   phase |-> IF collector[c].next = 0 THEN "deleting" ELSE "marking"]
    <3>1. run.id \in Nat /\ run.cursor \in Nat /\ collector[c].next \in Nat
      BY <1>1 DEF Sweep, RunOK, CallSweeps
    <3>2. QED
      BY <2>1, <3>1 DEF Sweep, RunOK
  <2>3. GarbageStored' /\ garbage' \subseteq garbage
    BY <2>1, GarbageShrinks
  <2>4. RunOK'
    BY <2>2 DEF RunOK
  <2>5. \A h \in garbage : HashOrder[h] \in Nat /\ h \notin Referenced
    BY HashesAssumption DEF Sweep, Listable, GarbageStored
  <2>6. ASSUME NEW h \in garbage, collector[c].next = 0 \/ HashOrder[h] <= collector[c].next
        PROVE  h \in marks'
    <3>1. CASE HashOrder[h] <= run.cursor
      BY <2>1, <3>1 DEF Sweep, PassedMarked
    <3>2. CASE HashOrder[h] > run.cursor
      <4>1. h \in collector[c].page
        BY <1>1, <2>1, <2>6, <3>2 DEF Sweep, CallSweeps
      <4>2. QED
        BY <2>1, <2>5, <4>1 DEF Candidates
    <3>3. QED
      BY <2>2, <2>5, <3>1, <3>2
  <2>7. PassedMarked'
    BY <2>2, <2>3, <2>6 DEF PassedMarked
  <2>8. ASSUME NEW d \in Calls, d # c PROVE CallSweeps(d)'
    <3>1. CallSweeps(d) /\ collector'[d] = collector[d]
      BY <1>2, <2>8 DEF Sweep
    <3>2. QED
      BY <2>2, <2>3, <3>1 DEF CallSweeps
  <2>9. QED
    BY <1>3, <1>4, <2>3, <2>4, <2>7, <2>8 DEF Sweep
<1>7. QED
  BY <1>5, <1>6

\* A run ends when no mark is left, and with them its garbage is gone.
LEMMA FinishSweeps ==
  ASSUME Inv, Sweep, TrackGarbage, NEW c \in Calls, CollectBatch(c)
  PROVE  Sweep'
<1>1. objects' = objects /\ Listable'
  BY LessIsListable DEF CollectBatch, Sweep
<1>2. CASE run' = run /\ marks' = marks
  <2>1. \/ collector' = collector
        \/ collector' = [collector EXCEPT ![c] = [at |-> "list", saw |-> run]]
        \/ collector' = [collector EXCEPT ![c] = [at |-> "delete", batch |-> First(BatchSize, marks)]]
    BY DEF CollectBatch, ClaimOrFinish, Hold
  <2>2. \A d \in Calls : d # c => collector'[d] = collector[d]
    BY <2>1 DEF Inv, TypeOK
  <2>3. \/ collector'[c] = collector[c]
        \/ collector'[c] = [at |-> "list", saw |-> run]
        \/ collector'[c] = [at |-> "delete", batch |-> First(BatchSize, marks)]
    BY <2>1 DEF Inv, TypeOK
  <2>4. run.id \in Nat /\ run.cursor \in Nat
    BY DEF Sweep, RunOK
  <2>5. collector'[c] = collector[c] \/ CallSweeps(c)'
    BY <1>2, <2>3, <2>4 DEF CallSweeps
  <2>6. run.phase = "idle" => marks' = {}
    BY <1>2 DEF Sweep, PassedMarked
  <2>7. QED
    BY <1>1, <1>2, <2>2, <2>5, <2>6, SameRun
<1>3. CASE ~(run' = run /\ marks' = marks)
  <2>1. /\ run.phase = "deleting" /\ marks = {} /\ marks' = {}
        /\ run' = [run EXCEPT !.phase = "idle", !.cursor = 0]
        /\ collector' = collector
    BY <1>3 DEF CollectBatch, ClaimOrFinish, gcVars
  <2>2. run.id \in Nat /\ run' = [id |-> run.id, phase |-> "idle", cursor |-> 0]
    BY <2>1 DEF Sweep, RunOK
  <2>3. garbage = {}
    BY <2>1 DEF Sweep, PassedMarked
  <2>4. GarbageStored' /\ garbage' = {}
    BY <2>2, <2>3, GarbageShrinks
  <2>5. RunOK' /\ PassedMarked'
    BY <2>1, <2>2, <2>4 DEF RunOK, PassedMarked
  <2>6. \A d \in Calls : CallSweeps(d)'
    BY <2>1, <2>2, <2>4 DEF Sweep, CallSweeps
  <2>7. QED
    BY <1>1, <2>4, <2>5, <2>6 DEF Sweep
<1>4. QED
  BY <1>2, <1>3

\* What is deleted is no longer garbage when its marks go, even if an upload has
\* stored it again in between.
LEMMA DeleteSweeps ==
  ASSUME Inv, Sweep, TrackGarbage, NEW c \in Calls,
         DeleteObjects(c) \/ DeleteFails(c) \/ ClearMarks(c) \/ ListFails(c)
  PROVE  Sweep'
<1>1. run' = run /\ objects' \subseteq objects
  BY DEF DeleteObjects, DeleteFails, ClearMarks, ListFails, gcVars
<1>2. Listable' /\ GarbageStored'
  BY <1>1, LessIsListable, GarbageShrinks DEF Sweep
<1>3. \/ collector' = [collector EXCEPT ![c] = Resting]
      \/ /\ collector' = [collector EXCEPT ![c] = [at |-> "clear", batch |-> collector[c].batch]]
         /\ objects' = objects \ collector[c].batch
  BY DEF DeleteObjects, DeleteFails, ClearMarks, ListFails, Hold
<1>4. \A d \in Calls : d # c => collector'[d] = collector[d]
  BY <1>3 DEF Inv, TypeOK
<1>5. \/ collector'[c].at = "rest"
      \/ /\ collector'[c] = [at |-> "clear", batch |-> collector[c].batch]
         /\ objects' = objects \ collector[c].batch
  BY <1>3 DEF Inv, TypeOK, Resting
<1>6. CallSweeps(c)'
  BY <1>2, <1>5 DEF CallSweeps, GarbageStored
<1>7. marks' \subseteq marks /\ garbage \cap marks \subseteq marks'
  <2>1. CASE ClearMarks(c)
    <3>1. collector[c].at = "clear" /\ marks' = marks \ collector[c].batch
      BY <2>1 DEF ClearMarks
    <3>2. collector[c].batch \cap garbage = {}
      BY <3>1 DEF Sweep, CallSweeps
    <3>3. QED
      BY <3>1, <3>2
  <2>2. CASE DeleteObjects(c) \/ DeleteFails(c) \/ ListFails(c)
    BY <2>2 DEF DeleteObjects, DeleteFails, ListFails, gcVars
  <2>3. QED
    BY <2>1, <2>2
<1>8. run.phase = "idle" => marks' = {}
  BY <1>7 DEF Sweep, PassedMarked
<1>9. QED
  BY <1>1, <1>2, <1>4, <1>6, <1>7, <1>8, SameRun

\* The sweep begins with nothing stored.
LEMMA SweepBegins == Init => Sweep
<1> SUFFICES ASSUME Init PROVE Sweep
  OBVIOUS
<1>1. Listable
  <2>1. objects = {} /\ 0 \in Nat
    BY DEF Init
  <2>2. QED
    BY <2>1, FS_EmptySet DEF Listable
<1>2. RunOK /\ GarbageStored /\ PassedMarked
  BY DEF Init, RunOK, GarbageStored, PassedMarked
<1>3. \A c \in Calls : CallSweeps(c)
  BY DEF Init, CallSweeps, Resting
<1>4. QED
  BY <1>1, <1>2, <1>3 DEF Sweep

\* Every step keeps it.
LEMMA SweepStep == Inv /\ Sweep /\ [Next]_vars => Sweep'
<1> SUFFICES ASSUME Inv, Sweep, [Next]_vars PROVE Sweep'
  OBVIOUS
<1>1. CASE UNCHANGED vars
  <2>1. UNCHANGED <<current, retained, exported, objects, marks, run, collector, garbage>>
    BY <1>1 DEF vars, refVars, gcVars
  <2>2. Listable' /\ RunOK' /\ PassedMarked'
    BY <2>1 DEF Sweep, Listable, RunOK, PassedMarked
  <2>3. GarbageStored'
    BY <2>1 DEF Sweep, GarbageStored, Referenced
  <2>4. \A c \in Calls : CallSweeps(c)'
    BY <2>1 DEF Sweep, CallSweeps
  <2>5. QED
    BY <2>2, <2>3, <2>4 DEF Sweep
<1>2. CASE Next
  <2>1. TrackGarbage
    BY <1>2 DEF Next
  <2>2. CASE References \/ Restart \/ LateDelete \/ \E u \in Uploads : UploadStep(u)
    BY <2>1, <2>2, OutsideSweep
  <2>3. CASE \E c \in Calls : StartBatch(c) \/ CollectBatch(c) \/ CollectStep(c)
    <3>1. PICK c \in Calls : StartBatch(c) \/ CollectBatch(c) \/ CollectStep(c)
      BY <2>3
    <3>2. QED
      BY <2>1, <3>1, StartSweeps, FinishSweeps, PageSweeps, AdvanceSweeps, DeleteSweeps
         DEF CollectStep
  <2>4. QED
    BY <1>2, <2>2, <2>3 DEF Next
<1>3. QED
  BY <1>1, <1>2

-----------------------------------------------------------------------------
(* The theorems.                                                            *)

\* The invariant holds of every behaviour.
THEOREM InvHolds == Spec => []Inv
<1>1. Inv /\ [Next]_vars => Inv'
  <2> SUFFICES ASSUME Inv, [Next]_vars PROVE Inv'
    OBVIOUS
  <2>1. CASE UNCHANGED vars
    <3>1. UNCHANGED <<current, retained, exported, objects, marks, generation, claim,
                      collector, upload, late>>
      BY <2>1 DEF vars, refVars, gcVars
    <3>2. TypeOK' /\ LateUnknown' /\ DeletesAreFenced'
      BY <3>1 DEF Inv, TypeOK, LateUnknown, DeletesAreFenced
    <3>3. ReferencedStored' /\ MarkedUnreferenced' /\ EvidenceHolds'
      BY <3>1 DEF Inv, ReferencedStored, MarkedUnreferenced, Referenced, EvidenceHolds,
           FenceHolds, MarkedAt
    <3>4. QED
      BY <3>2, <3>3 DEF Inv
  <2>2. CASE References \/ Restart \/ LateDelete
    BY <2>2, ReferencesInv, RestartInv, LateInv
  <2>3. CASE \E u \in Uploads : UploadStep(u)
    BY <2>3, UploadInv
  <2>4. CASE \E c \in Calls : StartBatch(c) \/ CollectBatch(c) \/ CollectStep(c)
    BY <2>4, CollectInv
  <2>5. QED
    BY <2>1, <2>2, <2>3, <2>4 DEF Next
<1>2. QED
  BY <1>1, InitInv, PTL DEF Spec

\* Every blob that is referred to is stored: assertBlobGcPublicationFence, the
\* generation and the durable claim suffice, for any number of uploads, calls,
\* runs and restarts.
THEOREM ReferencedStoredHolds == Spec => []ReferencedStored
<1>1. Inv => ReferencedStored
  BY DEF Inv
<1>2. QED
  BY <1>1, InvHolds, PTL

\* A marked hash is referred to by nothing until its mark is cleared.
THEOREM MarkedUnreferencedHolds == Spec => []MarkedUnreferenced
<1>1. Inv => MarkedUnreferenced
  BY DEF Inv
<1>2. QED
  BY <1>1, InvHolds, PTL

\* One call at a time deletes, and whatever may still be deleted is marked.
THEOREM DeletesAreFencedHolds == Spec => []DeletesAreFenced
<1>1. Inv => DeletesAreFenced
  BY DEF Inv
<1>2. QED
  BY <1>1, InvHolds, PTL

\* A run that ends has deleted everything that was there when it began and that
\* nothing referred to since: markAndAdvance applies a page only to the run it
\* was listed for, and marks are cleared only for what R2 has deleted.
THEOREM FinishedRunSweptHolds == Spec => []FinishedRunSwept
<1>1. Init => Inv /\ Sweep
  BY InitInv, SweepBegins
<1>2. Sweep => FinishedRunSwept
  BY DEF Sweep, PassedMarked, FinishedRunSwept
<1>3. QED
  BY <1>1, <1>2, SweepStep, InvHolds, PTL DEF Spec
=============================================================================
