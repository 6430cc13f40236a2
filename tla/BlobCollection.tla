---------------------------- MODULE BlobCollection ----------------------------
(***************************************************************************)
(* Blobs live in R2 under their hash; the references to them live in        *)
(* SQLite.  Nothing makes the two atomic: an upload stores bytes before the *)
(* vault refers to them, and garbage collection lists, marks and deletes    *)
(* objects in steps that await R2.  The marks, a generation number and a    *)
(* durable delete claim are what keeps a referenced blob from being deleted.*)
(*                                                                          *)
(* A file row is the hash of its live blob.  Revision numbers, admission    *)
(* and the other refusals of a commit are in VaultAuthority: here a commit  *)
(* may fail at any time for reasons of its own.  blob_gc_failure, which is  *)
(* only reported, and object sizes are left out.                            *)
(***************************************************************************)
EXTENDS Integers, FiniteSets

CONSTANTS
  Paths,      \* vault paths
  Hashes,     \* content hashes
  HashOrder,  \* a hash's position in R2's listing
  NoHash,     \* a path without a live blob
  Uploads,    \* executeBlobPut invocations
  Calls,      \* collectBatch calls that may be in flight: the alarm's, the owner's
  NoCall,     \* blob_gc_delete_owner = ''
  PageSize,   \* objects on one page of R2's listing: 1 000
  BatchSize,  \* marks that one claim deletes: 100
  MaxRuns     \* bound on collection runs

ASSUME HashesAssumption == /\ NoHash \notin Hashes
                           /\ HashOrder \in [Hashes -> Nat \ {0}]
                           /\ \A g, h \in Hashes : HashOrder[g] = HashOrder[h] => g = h
ASSUME CallsAssumption == NoCall \notin Calls
ASSUME SizesAssumption == PageSize \in Nat \ {0} /\ BatchSize \in Nat \ {0}

VARIABLES
  current,     \* [Paths -> hash of the live blob]
  retained,    \* <<path, hash>> pairs of retained revisions
  exported,    \* blob sources of the active export
  objects,     \* hashes stored in R2
  marks,       \* blob_gc
  generation,  \* meta.blob_gc_generation
  run,         \* meta.blob_gc_run_id, _phase and _cursor
  claim,       \* meta.blob_gc_delete_owner and _state
  collector,   \* [Calls -> what a collectBatch call holds across its awaits]
  upload,      \* [Uploads -> what an upload holds across its awaits]
  late,        \* deletes sent to R2 by an instance that is gone
  garbage      \* history: objects unreferenced ever since the run began

refVars == <<current, retained, exported>>
gcVars == <<marks, generation, run, claim>>
vars == <<refVars, objects, gcVars, collector, upload, late, garbage>>

Referenced == ({current[p] : p \in Paths} \ {NoHash})
                \cup {r[2] : r \in retained} \cup exported

\* The n first members of a set of hashes.
First(n, s) == {h \in s : Cardinality({g \in s : HashOrder[g] <= HashOrder[h]}) <= n}

Resting == [at |-> "rest"]
NoClaim == [owner |-> NoCall, state |-> "idle"]

Init ==
  /\ current = [p \in Paths |-> NoHash]
  /\ retained = {} /\ exported = {} /\ objects = {}
  /\ marks = {} /\ generation = 0
  /\ run = [id |-> 0, phase |-> "idle", cursor |-> 0]
  /\ claim = NoClaim
  /\ collector = [c \in Calls |-> Resting]
  /\ \E wants \in [Uploads -> Paths \X Hashes] :
       upload = [u \in Uploads |->
         [at |-> "start", path |-> wants[u][1], hash |-> wants[u][2], seen |-> FALSE, gen |-> 0]]
  /\ late = {} /\ garbage = {}

\* The garbage of a run: what was there when it began and nothing has referred to.
TrackGarbage ==
  garbage' = IF run'.phase = "idle" /\ run.phase = "idle" THEN {}
             ELSE IF run.phase = "idle" THEN objects' \ Referenced'
             ELSE (garbage \cap objects') \ Referenced'

-----------------------------------------------------------------------------
(* An upload: putVerified in the Worker, then commitBlob in the vault.      *)

Uploading(u, at, seen, gen) ==
  [at |-> at, path |-> upload[u].path, hash |-> upload[u].hash, seen |-> seen, gen |-> gen]

Advance(u, to) ==
  upload' = [upload EXCEPT ![u] = Uploading(u, to, upload[u].seen, upload[u].gen)]

\* The HEAD that decides whether bytes are stored or only verified.
LookForObject(u) ==
  /\ upload[u].at = "start"
  /\ upload' = [upload EXCEPT ![u] = Uploading(u, "stream", upload[u].hash \in objects, 0)]
  /\ UNCHANGED <<refVars, objects, gcVars, collector, late>>

\* The body was verified; a create-only PUT stored it unless it was seen.
StoreObject(u) ==
  /\ upload[u].at = "stream"
  /\ objects' = IF upload[u].seen THEN objects ELSE objects \cup {upload[u].hash}
  /\ Advance(u, "commit")
  /\ UNCHANGED <<refVars, gcVars, collector, late>>

MarkedAt(u) == upload[u].hash \in marks

\* preflight and capturePublicationFence.
CaptureFence(u) ==
  /\ upload[u].at = "commit"
  /\ IF MarkedAt(u) THEN Advance(u, "done")
     ELSE upload' = [upload EXCEPT ![u] = Uploading(u, "head", upload[u].seen, generation)]
  /\ UNCHANGED <<refVars, objects, gcVars, collector, late>>

\* The evidence that the object is in R2.
HeadObject(u) ==
  /\ upload[u].at = "head"
  /\ Advance(u, IF upload[u].hash \in objects THEN "publish" ELSE "done")
  /\ UNCHANGED <<refVars, objects, gcVars, collector, late>>

\* Mutant: only a mark refuses the publication, not a generation that moved on.
FenceHolds_MarkOnly(u) == ~MarkedAt(u)

\* assertBlobGcPublicationFence.
FenceHolds(u) == ~MarkedAt(u) /\ upload[u].gen = generation

\* publishBlob, in the transaction that checks the fence again.
PublishBlob(u) ==
  /\ upload[u].at = "publish" /\ FenceHolds(u)
  /\ current' = [current EXCEPT ![upload[u].path] = upload[u].hash]
  /\ retained' = retained \cup {<<upload[u].path, upload[u].hash>>}
  /\ Advance(u, "done")
  /\ UNCHANGED <<exported, objects, gcVars, collector, late>>

\* Any refusal, fault or crash; bytes on their way may or may not be stored.
UploadEnds(u) ==
  /\ upload[u].at # "done"
  /\ \/ UNCHANGED objects
     \/ /\ upload[u].at = "stream" /\ ~upload[u].seen
        /\ objects' = objects \cup {upload[u].hash}
  /\ Advance(u, "done")
  /\ UNCHANGED <<refVars, gcVars, collector, late>>

-----------------------------------------------------------------------------
(* The other writers of references, none of which looks at the marks.       *)

\* A delete, or a put of text, over a live blob.
Remove(p) ==
  /\ current[p] # NoHash
  /\ current' = [current EXCEPT ![p] = NoHash]
  /\ UNCHANGED <<retained, exported>>

\* publishRestore and publishTextCommand of a blob revision.
Restore(p, h) ==
  /\ <<p, h>> \in retained /\ current[p] # h
  /\ current' = [current EXCEPT ![p] = h]
  /\ UNCHANGED <<retained, exported>>

\* publishRename of a live blob.
Rename(p, q) ==
  /\ current[p] # NoHash /\ current[q] = NoHash
  /\ current' = [current EXCEPT ![q] = current[p], ![p] = NoHash]
  /\ retained' = retained \cup {<<q, current[p]>>}
  /\ UNCHANGED exported

\* Retention deletes the last retained revision of a path with some content.
Prune(r) ==
  /\ r \in retained
  /\ retained' = retained \ {r}
  /\ UNCHANGED <<current, exported>>

\* captureExclusive, and the end of an export.
CaptureExport ==
  /\ exported = {}
  /\ exported' = {current[p] : p \in Paths} \ {NoHash}
  /\ exported' # {}
  /\ UNCHANGED <<current, retained>>

EndExport == exported # {} /\ exported' = {} /\ UNCHANGED <<current, retained>>

References ==
  /\ \/ \E p \in Paths : Remove(p) \/ \E h \in Hashes : Restore(p, h)
     \/ \E p, q \in Paths : Rename(p, q)
     \/ \E r \in retained : Prune(r)
     \/ CaptureExport \/ EndExport
  /\ UNCHANGED <<objects, gcVars, collector, upload, late>>

-----------------------------------------------------------------------------
(* collectBatch.                                                            *)

Hold(c, held) == collector' = [collector EXCEPT ![c] = held]

\* The batch a call claims: its first marks, or the end of the run if none are
\* left.  A claim that is held, whatever its state, ends the call.
ClaimOrFinish(c) ==
  IF claim.owner # NoCall
  THEN UNCHANGED <<gcVars, collector>>
  ELSE IF marks = {}
  THEN /\ run' = [run EXCEPT !.phase = "idle", !.cursor = 0]
       /\ UNCHANGED <<marks, generation, claim, collector>>
  ELSE /\ claim' = [owner |-> c, state |-> "active"]
       /\ Hold(c, [at |-> "delete", batch |-> First(BatchSize, marks)])
       /\ UNCHANGED <<marks, generation, run>>

\* start, for a confirmed run of the owner, and the first step of its batch.
StartBatch(c) ==
  /\ collector[c].at = "rest" /\ run.phase = "idle" /\ run.id < MaxRuns
  /\ run' = [id |-> run.id + 1, phase |-> "marking", cursor |-> 0]
  /\ Hold(c, [at |-> "list", saw |-> run'])
  /\ UNCHANGED <<refVars, objects, marks, generation, claim, upload, late>>

\* collectBatch of a run in progress.
CollectBatch(c) ==
  /\ collector[c].at = "rest"
  /\ \/ /\ run.phase = "marking"
        /\ Hold(c, [at |-> "list", saw |-> run])
        /\ UNCHANGED gcVars
     \/ run.phase = "deleting" /\ ClaimOrFinish(c)
  /\ UNCHANGED <<refVars, objects, upload, late>>

\* One page of R2's listing; next = 0 is a null cursor.
ListPage(c) ==
  /\ collector[c].at = "list"
  /\ LET left == {h \in objects : HashOrder[h] > collector[c].saw.cursor}
         page == First(PageSize, left)
         last == CHOOSE n \in {0} \cup {HashOrder[h] : h \in page} :
                   \A h \in page : HashOrder[h] <= n
     IN Hold(c, [at |-> "mark", saw |-> collector[c].saw, page |-> page,
                 next |-> IF page = left THEN 0 ELSE last])
  /\ UNCHANGED <<refVars, objects, gcVars, upload, late>>

ListFails(c) ==
  /\ collector[c].at = "list"
  /\ Hold(c, Resting)
  /\ UNCHANGED <<refVars, objects, gcVars, upload, late>>

\* Mutant: a page listed for an earlier run is applied to this one.
StillCurrent_AnyRun(c) ==
  run.phase = "marking" /\ run.cursor = collector[c].saw.cursor

\* The observed run, phase and cursor still hold.
StillCurrent(c) == run.phase = "marking" /\ run = collector[c].saw

\* Mutant: references are looked up when the page is listed, with a join that
\* forgets the active export.
Candidates_IgnoreExports(c) ==
  {h \in collector[c].page : h \notin {current[p] : p \in Paths}
                             /\ h \notin {r[2] : r \in retained}}

Candidates(c) == {h \in collector[c].page : h \notin Referenced}

\* markAndAdvance.
MarkAndAdvance(c) ==
  /\ collector[c].at = "mark"
  /\ IF StillCurrent(c)
     THEN /\ marks' = marks \cup Candidates(c)
          /\ generation' = IF marks' # marks THEN generation + 1 ELSE generation
          /\ run' = [run EXCEPT !.cursor = collector[c].next,
                                !.phase = IF collector[c].next = 0 THEN "deleting" ELSE @]
     ELSE UNCHANGED <<marks, generation, run>>
  /\ Hold(c, Resting)
  /\ UNCHANGED <<refVars, objects, claim, upload, late>>

\* R2 deletes the claimed batch and says so; clear comes in a later turn.
DeleteObjects(c) ==
  /\ collector[c].at = "delete"
  /\ objects' = objects \ collector[c].batch
  /\ Hold(c, [at |-> "clear", batch |-> collector[c].batch])
  /\ UNCHANGED <<refVars, gcVars, upload, late>>

\* R2 rejects the call, of which any part may have been done; recordFailure
\* releases the claim and keeps the marks.
DeleteFails(c) ==
  /\ collector[c].at = "delete"
  /\ \E gone \in SUBSET collector[c].batch : objects' = objects \ gone
  /\ claim' = NoClaim
  /\ Hold(c, Resting)
  /\ UNCHANGED <<refVars, marks, generation, run, upload, late>>

\* clear: the marks go, in one transaction with the claim.
ClearMarks(c) ==
  /\ collector[c].at = "clear" /\ claim.owner = c
  /\ marks' = marks \ collector[c].batch
  /\ generation' = IF marks' # marks THEN generation + 1 ELSE generation
  /\ claim' = NoClaim
  /\ Hold(c, Resting)
  /\ UNCHANGED <<refVars, objects, run, upload, late>>

\* Mutant: a new instance takes over an interrupted delete.
AfterRestart_Released == NoClaim

\* markInterruptedDeleteUnknown.
AfterRestart == IF claim.owner = NoCall THEN claim ELSE [owner |-> claim.owner, state |-> "unknown"]

\* A new instance of the vault: calls and commits in flight are gone, but R2 may
\* still carry out a delete that was sent.
Restart ==
  /\ \E c \in Calls : collector[c].at # "rest"
  /\ late' = late \cup UNION {collector[c].batch : c \in {d \in Calls : collector[d].at = "delete"}}
  /\ claim' = AfterRestart
  /\ collector' = [c \in Calls |-> Resting]
  /\ upload' = [u \in Uploads |-> IF upload[u].at \in {"head", "publish"}
                                  THEN Uploading(u, "done", upload[u].seen, upload[u].gen)
                                  ELSE upload[u]]
  /\ UNCHANGED <<refVars, objects, marks, generation, run>>

LateDelete ==
  /\ \E h \in late : objects' = objects \ {h} /\ late' = late \ {h}
  /\ UNCHANGED <<refVars, gcVars, collector, upload>>

UploadStep(u) ==
  \/ LookForObject(u) \/ StoreObject(u) \/ CaptureFence(u) \/ HeadObject(u)
  \/ PublishBlob(u) \/ UploadEnds(u)

CollectStep(c) ==
  \/ ListPage(c) \/ MarkAndAdvance(c) \/ DeleteObjects(c) \/ DeleteFails(c)
  \/ ClearMarks(c) \/ ListFails(c)

Next ==
  /\ \/ References \/ Restart \/ LateDelete
     \/ \E u \in Uploads : UploadStep(u)
     \/ \E c \in Calls : StartBatch(c) \/ CollectBatch(c) \/ CollectStep(c)
  /\ TrackGarbage

Spec == Init /\ [][Next]_vars

-----------------------------------------------------------------------------
\* Every blob that a file, a retained revision or an active export refers to is
\* in R2, whatever uploads, collections, restarts and late deletes overlapped.
\* (spec.md section 16, AC of OAB-13: a publication is refused while stale.)
ReferencedStored == Referenced \subseteq objects

\* A marked hash is referred to by nothing, from the moment it is marked until
\* its mark is cleared: writers that never look at the marks included.
MarkedUnreferenced == marks \cap Referenced = {}

\* A run that ends has deleted everything that was there when it began and that
\* nothing referred to since: pages listed for other runs, failed deletes and
\* objects that come and go between pages do not make it skip any.
FinishedRunSwept == run.phase = "idle" => garbage = {}

\* Only one call at a time deletes, and only marked objects: a delete whose
\* outcome nobody knows keeps its marks for ever.
DeletesAreFenced ==
  /\ \A c \in Calls : collector[c].at \in {"delete", "clear"} =>
       claim = [owner |-> c, state |-> "active"] /\ collector[c].batch \subseteq marks
  /\ late \subseteq marks

=============================================================================
