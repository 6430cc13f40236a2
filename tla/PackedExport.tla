----------------------------- MODULE PackedExport -----------------------------
(***************************************************************************)
(* A packed export writes the live files of one instant into a ZIP archive  *)
(* in R2, a step per alarm.  Between steps there is only a row: the number  *)
(* of archive bytes emitted, the bytes not yet uploaded and the receipts of *)
(* uploaded parts.  A step may die at any await, and what it sent to R2 may *)
(* take effect then, later or never.                                        *)
(*                                                                          *)
(* Sizes are counted in units: a manifest and the ZIP directory are one     *)
(* each and a file is Size of its content.  A part's ETag is determined by  *)
(* its bytes.  Renames and restores are writes here, and retention deletes  *)
(* any revision that is not pinned (VaultRetention says when).  One alarm   *)
(* runs at a time, so activeStep and the abort after a lost attachUpload    *)
(* never matter.                                                            *)
(***************************************************************************)
EXTENDS Integers, Sequences, SequencesExt

CONSTANTS
  NumPaths,   \* paths are numbered in SQLite's order
  Contents,   \* file contents
  Blobs,      \* those stored in R2
  Size,       \* [Contents -> units]
  NoContent,  \* a path without a live file
  Ids,        \* creation times, the identity of an export
  StepSize,   \* EXPORT_STEP_OUTPUT_BYTES
  PartSize,   \* EXPORT_PART_BYTES
  MaxArchive, \* MAX_EXPORT_ARCHIVE_BYTES
  MaxWrites,  \* bound on publications
  MaxFaults   \* bound on interrupted R2 calls and crashes

Paths == 1..NumPaths
Uploads == 1..(MaxFaults + 2)

ASSUME ExportAssumption ==
  /\ NumPaths \in Nat /\ NoContent \notin Contents /\ Blobs \subseteq Contents
  /\ Size \in [Contents -> Nat \ {0}]
  /\ StepSize \in Nat \ {0} /\ PartSize \in Nat /\ StepSize <= PartSize

VARIABLES
  files,      \* [Paths -> its live row]
  revisions,  \* retained live revisions
  lost,       \* blobs missing from R2
  exports,    \* packed_exports with its files, chunks and parts
  captured,   \* history: what an export was asked to save
  uploads,    \* R2 multipart uploads
  archive,    \* R2 objects under backups/: <<>> is none
  job,        \* the step in flight
  late,       \* calls that R2 may still carry out
  faults      \* how many calls were interrupted

tables == <<files, revisions, lost>>
r2 == <<uploads, archive, late, faults>>
vars == <<tables, exports, captured, r2, job>>

Active(id) == exports[id].status \in {"queued", "uploading"}

\* The members of a snapshot's archive, one entry for each unit.
Layout(snapshot) ==
  <<[member |-> 0, part |-> 1]>>
    \o FlattenSeq([i \in 1..Len(snapshot) |->
         [k \in 1..Size[snapshot[i].content] |-> [member |-> i, part |-> k]]])
    \o <<[member |-> Len(snapshot) + 1, part |-> 1]>>

Unit(place, data) == [place |-> place, data |-> data]

\* manifest.json, and the directory's entries.
Manifest(snapshot) ==
  {<<snapshot[i].path, snapshot[i].rev, snapshot[i].content>> : i \in 1..Len(snapshot)}

\* The archive that saves these files.
ArchiveOf(snapshot) ==
  [n \in 1..Len(Layout(snapshot)) |->
     LET m == Layout(snapshot)[n].member
     IN Unit(Layout(snapshot)[n],
             IF m \in 1..Len(snapshot) THEN {snapshot[m].content} ELSE Manifest(snapshot))]

NoExport == [status |-> "none", snapshot |-> <<>>, emitted |-> 0, pending |-> <<>>,
             parts |-> <<>>, upload |-> 0, size |-> 0]
Resting == [at |-> "rest"]

Init ==
  /\ files = [p \in Paths |-> [rev |-> 0, content |-> NoContent]]
  /\ revisions = {} /\ lost = {}
  /\ exports = [id \in Ids |-> NoExport]
  /\ captured = [id \in Ids |-> <<>>]
  /\ uploads = [u \in Uploads |-> [state |-> "unused", parts |-> <<>>]]
  /\ archive = [id \in Ids |-> <<>>]
  /\ job = Resting /\ late = {} /\ faults = 0

-----------------------------------------------------------------------------
(* What goes on while an export runs.                                       *)

Written == FoldFunction(+, 0, [p \in Paths |-> files[p].rev])

Write(p, c) ==
  /\ Written < MaxWrites
  /\ files' = [files EXCEPT ![p] = [rev |-> @.rev + 1, content |-> c]]
  /\ revisions' = revisions \cup {[path |-> p, rev |-> files[p].rev + 1, content |-> c]}
  /\ UNCHANGED lost

Delete(p) ==
  /\ files[p].content # NoContent /\ Written < MaxWrites
  /\ files' = [files EXCEPT ![p] = [rev |-> @.rev + 1, content |-> NoContent]]
  /\ UNCHANGED <<revisions, lost>>

\* Mutant: pins count from the first upload on.
Pins_WhenUploading ==
  UNION {{<<exports[id].snapshot[i].path, exports[id].snapshot[i].rev>> :
            i \in 1..Len(exports[id].snapshot)} :
         id \in {x \in Ids : exports[x].status = "uploading"}}

\* export_pins.
Pins ==
  UNION {{<<exports[id].snapshot[i].path, exports[id].snapshot[i].rev>> :
            i \in 1..Len(exports[id].snapshot)} : id \in {x \in Ids : Active(x)}}

Prune(v) ==
  /\ v \in revisions /\ <<v.path, v.rev>> \notin Pins
  /\ revisions' = revisions \ {v}
  /\ UNCHANGED <<files, lost>>

\* A blob that an active export saves disappears from R2, which BlobCollection
\* rules out for the vault itself.
LoseBlob(c) ==
  /\ c \notin lost
  /\ \E id \in Ids : c \in {f.content : f \in ToSet(exports[id].snapshot)}
  /\ lost' = lost \cup {c}
  /\ UNCHANGED <<files, revisions>>

Elsewhere ==
  /\ \/ \E p \in Paths : Delete(p) \/ \E c \in Contents : Write(p, c)
     \/ \E v \in revisions : Prune(v)
     \/ \E c \in Blobs : LoseBlob(c)
  /\ UNCHANGED <<exports, captured, r2, job>>

-----------------------------------------------------------------------------
(* captureExclusive, in one transaction, and the limit check of start.      *)

LivePaths ==
  LET upTo[n \in 0..NumPaths] ==
        IF n = 0 THEN <<>>
        ELSE IF files[n].content = NoContent THEN upTo[n - 1] ELSE Append(upTo[n - 1], n)
  IN upTo[NumPaths]

\* A source is the retained revision, or else what the transaction freezes.
SourceOf(p) ==
  [path |-> p, rev |-> files[p].rev, content |-> files[p].content,
   source |-> IF [path |-> p, rev |-> files[p].rev, content |-> files[p].content] \in revisions
              THEN "revision" ELSE "snapshot"]

Start(id) ==
  /\ exports[id].status = "none" /\ \A other \in Ids : ~Active(other)
  /\ LET snapshot == [i \in 1..Len(LivePaths) |-> SourceOf(LivePaths[i])]
     IN /\ captured' = [captured EXCEPT ![id] = snapshot]
        /\ exports' = [exports EXCEPT ![id] =
             IF Len(Layout(snapshot)) > MaxArchive THEN [NoExport EXCEPT !.status = "failed"]
             ELSE [NoExport EXCEPT !.status = "queued", !.snapshot = snapshot]]
  /\ UNCHANGED <<tables, r2, job>>

-----------------------------------------------------------------------------
(* runOneBatch.  A step works on the row it loaded and saves by comparing    *)
(* the row's cursor with the one it loaded.                                  *)

Total(w) == Len(Layout(w.snapshot))
Stage(w) == IF w.upload = 0 THEN "create"
            ELSE IF w.emitted < Total(w) THEN "read"
            ELSE IF w.pending # <<>> THEN "put" ELSE "head"

StartStep ==
  /\ job = Resting
  /\ \E id \in Ids :
       /\ Active(id)
       /\ job' = [at |-> Stage(exports[id]), id |-> id, work |-> exports[id], bytes |-> <<>>]
  /\ UNCHANGED <<tables, exports, captured, r2>>

\* The compare-and-set of every update: still active, and at the cursor loaded.
Unmoved(w) == Active(job.id) /\ exports[job.id].emitted = w.emitted

\* What stays pending once the first part of the bytes has been put, or not.
Remainder(bytes, put) == IF put THEN SubSeq(bytes, PartSize + 1, Len(bytes)) ELSE bytes

FirstPart(bytes) == SubSeq(bytes, 1, IF Len(bytes) < PartSize THEN Len(bytes) ELSE PartSize)

\* checkpoint of the units a step produced, with or without a new part.
Checkpoint(produced, put) ==
  LET w == job.work
      all == w.pending \o produced
  IN exports' = IF ~Unmoved(w) THEN exports ELSE [exports EXCEPT ![job.id] =
       [@ EXCEPT !.status = "uploading", !.emitted = w.emitted + Len(produced),
                 !.pending = Remainder(all, put),
                 !.parts = IF put THEN Append(w.parts, FirstPart(all)) ELSE w.parts]]

\* complete and fail, which release pins, files and chunks.
Terminate(status, size) ==
  exports' = IF ~Unmoved(job.work) THEN exports ELSE
    [exports EXCEPT ![job.id] = [@ EXCEPT !.status = status, !.size = size, !.snapshot = <<>>,
                                          !.pending = <<>>]]

\* createMultipartUpload and attachUpload, then on with the step.
CreateUpload ==
  /\ job.at = "create"
  /\ \E u \in Uploads :
       /\ uploads[u].state = "unused" /\ \A v \in 1..(u - 1) : uploads[v].state # "unused"
       /\ uploads' = [uploads EXCEPT ![u].state = "open"]
       /\ exports' = [exports EXCEPT ![job.id].upload = u, ![job.id].status = "uploading"]
       /\ job' = [job EXCEPT !.work.upload = u, !.at = "read"]
  /\ UNCHANGED <<tables, captured, archive, late, faults>>

\* Mutant: a frozen text is read from the file's current row.
SourceData_Live(f) ==
  IF f.source = "revision"
  THEN {v.content : v \in {x \in revisions : x.path = f.path /\ x.rev = f.rev}} \ lost
  ELSE {files[f.path].content} \ lost

\* readSourceRange: the pinned revision or the frozen copy, if it is there.
SourceData(f) ==
  IF f.source = "revision"
  THEN {v.content : v \in {x \in revisions : x.path = f.path /\ x.rev = f.rev}} \ lost
  ELSE {f.content} \ lost

ReadUnit(w, n) ==
  LET place == Layout(w.snapshot)[n]
  IN Unit(place, IF place.member \in 1..Len(w.snapshot)
                 THEN SourceData(w.snapshot[place.member]) ELSE Manifest(w.snapshot))

\* One read of a step; after the last one the step puts a part or saves at once.
ReadRange ==
  /\ job.at = "read"
  /\ LET w == job.work
         n == w.emitted + Len(job.bytes) + 1
         bytes == Append(job.bytes, ReadUnit(w, n))
         ends == Len(bytes) = StepSize \/ n = Total(w)
         puts == Len(w.pending) + Len(bytes) >= PartSize \/ n = Total(w)
     IN IF ReadUnit(w, n).data = {} /\ Layout(w.snapshot)[n].member \in 1..Len(w.snapshot)
        THEN job' = [job EXCEPT !.at = "abort"] /\ UNCHANGED exports
        ELSE IF ends /\ ~puts THEN Checkpoint(bytes, FALSE) /\ job' = Resting
        ELSE /\ job' = [job EXCEPT !.bytes = bytes, !.at = IF ends THEN "put" ELSE "read"]
             /\ UNCHANGED exports
  /\ UNCHANGED <<tables, captured, r2>>

Call == CASE job.at = "put" ->
               [op |-> "put", upload |-> job.work.upload, id |-> job.id,
                parts |-> Append(job.work.parts, FirstPart(job.work.pending \o job.bytes))]
          [] OTHER -> [op |-> job.at, upload |-> job.work.upload, id |-> job.id,
                       parts |-> job.work.parts]

\* What R2 does with a multipart call, once.
Accepted(call) ==
  /\ uploads[call.upload].state = "open"
  /\ call.op = "complete" => uploads[call.upload].parts = call.parts
Perform(call) ==
  LET n == Len(call.parts)
      stored == uploads[call.upload].parts
  IN /\ uploads' = [uploads EXCEPT ![call.upload] =
          CASE call.op = "put" -> [@ EXCEPT !.parts =
                 IF n <= Len(stored) THEN [stored EXCEPT ![n] = call.parts[n]]
                 ELSE Append(stored, call.parts[n])]
            [] OTHER -> [@ EXCEPT !.state = call.op]]
     /\ archive' = IF call.op = "complete"
                   THEN [archive EXCEPT ![call.id] = FlattenSeq(call.parts)] ELSE archive

\* putPart, and the checkpoint of what it took.
PutPart ==
  /\ job.at = "put" /\ Accepted(Call) /\ Perform(Call)
  /\ Checkpoint(job.bytes, TRUE)
  /\ job' = Resting
  /\ UNCHANGED <<tables, captured, late, faults>>

\* Mutant: completion is never recovered from an object that is there.
HeadArchive_Ignored ==
  /\ job.at = "head"
  /\ job' = [job EXCEPT !.at = "complete"] /\ UNCHANGED exports
  /\ UNCHANGED <<tables, captured, r2>>

\* completeArchive's look for an object that an earlier step completed.
HeadArchive ==
  /\ job.at = "head"
  /\ IF archive[job.id] = <<>> THEN job' = [job EXCEPT !.at = "complete"] /\ UNCHANGED exports
     ELSE IF Len(archive[job.id]) # Total(job.work)
     THEN job' = [job EXCEPT !.at = "abort"] /\ UNCHANGED exports
     ELSE Terminate("complete", Total(job.work)) /\ job' = Resting
  /\ UNCHANGED <<tables, captured, r2>>

CompleteUpload ==
  /\ job.at = "complete" /\ Accepted(Call) /\ Perform(Call)
  /\ Terminate("complete", Total(job.work))
  /\ job' = Resting
  /\ UNCHANGED <<tables, captured, late, faults>>

\* failWork, whose abort may fail.
AbortUpload ==
  /\ job.at = "abort"
  /\ IF Accepted(Call) THEN Perform(Call) ELSE UNCHANGED <<uploads, archive>>
  /\ Terminate("failed", 0)
  /\ job' = Resting
  /\ UNCHANGED <<tables, captured, late, faults>>

\* R2 refuses a call, which is a storage failure: the next alarm tries again.
Refused ==
  /\ job.at \in {"put", "complete"} /\ ~Accepted(Call)
  /\ job' = Resting
  /\ UNCHANGED <<tables, exports, captured, r2>>

\* A storage failure, a lost reply or a crash at any await.
Interrupted ==
  /\ job.at # "rest" /\ faults < MaxFaults
  /\ faults' = faults + 1
  /\ job' = Resting
  /\ late' = late \cup (IF job.at \in {"put", "complete", "abort"} THEN {Call} ELSE {})
  /\ UNCHANGED <<tables, exports, captured, archive>>
  /\ \/ UNCHANGED uploads
     \/ /\ job.at = "create"
        /\ \E u \in Uploads :
             /\ uploads[u].state = "unused" /\ \A v \in 1..(u - 1) : uploads[v].state # "unused"
             /\ uploads' = [uploads EXCEPT ![u].state = "open"]

LateEffect ==
  /\ \E call \in late :
       /\ late' = late \ {call}
       /\ IF Accepted(call) THEN Perform(call) ELSE UNCHANGED <<uploads, archive>>
  /\ UNCHANGED <<tables, exports, captured, faults, job>>

Step ==
  \/ StartStep \/ CreateUpload \/ ReadRange \/ PutPart \/ HeadArchive
  \/ CompleteUpload \/ AbortUpload \/ Refused

Next == Elsewhere \/ (\E id \in Ids : Start(id)) \/ Step \/ Interrupted \/ LateEffect

\* An alarm runs a step while an export is active, and R2 answers in the end.
Spec == Init /\ [][Next]_vars /\ WF_vars(Step)

-----------------------------------------------------------------------------
Captured(id) == ArchiveOf(captured[id])

\* An archive in R2 holds exactly the files of the instant its export was
\* started at, whatever was written, deleted and pruned while it was being
\* uploaded, and the record of a completed one has its size.
\* (packed-export-restore.md:3, "at one immutable cut".)
DownloadIsSnapshot ==
  \A id \in Ids :
    /\ archive[id] # <<>> => archive[id] = Captured(id)
    /\ exports[id].status = "complete" =>
         archive[id] # <<>> /\ exports[id].size = Len(archive[id])

\* Parts and pending bytes are the archive up to the cursor, and R2 has the
\* parts: a retried, a lost and a late part neither repeat nor drop a byte
\* (spec.md:566, "An interrupted part can be sent again at the same part number");
\* and retention never takes a source from under an active export (spec.md AC-36).
CheckpointExact ==
  \A id \in Ids : Active(id) =>
    LET x == exports[id]
    IN /\ FlattenSeq(x.parts) \o x.pending = SubSeq(Captured(id), 1, x.emitted)
       /\ \A n \in 1..Len(x.parts) :
            Len(x.parts[n]) = PartSize \/ (n = Len(x.parts) /\ x.emitted = Total(x))
       /\ x.upload # 0 => x.parts = SubSeq(uploads[x.upload].parts, 1, Len(x.parts))

SourcesKept ==
  \A id \in Ids : Active(id) =>
    \A i \in 1..Len(exports[id].snapshot) :
      exports[id].snapshot[i].content \in lost \/ SourceData(exports[id].snapshot[i]) # {}

WorkIntact == CheckpointExact /\ SourcesKept

\* An export ends, so that it does not keep pins and the vault's only place for
\* ever, in spite of lost replies, crashes and missing sources.
EveryExportEnds == \A id \in Ids : Active(id) ~> ~Active(id)

=============================================================================
