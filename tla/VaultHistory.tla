----------------------------- MODULE VaultHistory -----------------------------
(***************************************************************************)
(* The authority as the file tables see it: a sequence of commits that      *)
(* passed their checks, each one transaction, between alarm batches and     *)
(* under a clock that may be set back.  How requests come to commit is in   *)
(* VaultAuthority; here long histories of every operation are explored.     *)
(***************************************************************************)
EXTENDS VaultRetention

CONSTANTS
  Pins,    \* export_pins: revisions that a running export holds
  MaxSeq,  \* bound on publications
  ClockEnd \* bound on the clock

ASSUME HistoryBoundsAssumption == MaxSeq \in Nat /\ ClockEnd \in Nat

historyVars == <<fileVars, ledgerVars, retentionVars>>

HistoryInit == FilesInit /\ InitLedger /\ InitRetention

\* The well-formed intents about the current revision of a path: any other
\* revision is refused by PreconditionFailure and writes nothing.
CurrentIntents ==
  LET About(op, p, to, pre, text, n, copy) ==
        [op |-> op, path |-> p, to |-> to, pre |-> pre,
         rev |-> IF pre = "match" THEN files[p].rev ELSE 0,
         text |-> text, sourceRev |-> n, copy |-> copy]
  IN UNION {
       {About("put", p, NoPath, pre, <<t>>, 0, FALSE) :
          p \in Paths, pre \in {"absent", "match"}, t \in Tokens},
       {About("append", p, NoPath, "none", <<t>>, 0, FALSE) : p \in Paths, t \in Tokens},
       {About("delete", p, NoPath, "match", <<>>, 0, FALSE) : p \in Paths},
       {About("rename", pq[1], pq[2], "match", <<>>, 0, FALSE) :
          pq \in {r \in Paths \X Paths : r[1] # r[2]}},
       {About("restore", p, NoPath, "match", <<>>, n, copy) :
          p \in Paths, n \in 1..MaxSeq, copy \in BOOLEAN}}

\* The checks every commit makes, in one place: see CommitFailure and, for the
\* append's own, SnapshotFailure of VaultAuthority.
Accepted(i) ==
  /\ PreconditionFailure(i) = "none"
  /\ ~AtCapacity(i)
  /\ PublishFailure(i) = "none"
  /\ i.op = "append" => Live(i.path) /\ Len(files[i.path].text \o i.text) <= MaxText

Write(i) ==
  /\ head < MaxSeq
  /\ Accepted(i)
  /\ Publish(i, files[i.path].text, now)
  /\ UNCHANGED <<ledgerVars, retentionVars>>

\* Date.now() follows the machine's clock: forward, and now and then back.
SetClock(t) ==
  /\ now' = t /\ t # now
  /\ UNCHANGED <<fileVars, admissions, claims, receipts, revoked, retentionVars>>

HistoryNext ==
  \/ \E i \in CurrentIntents : Write(i)
  \/ \E t \in 0..ClockEnd : SetClock(t)
  \/ RunBatch(Pins)

-----------------------------------------------------------------------------
\* Retention, under any clock, deletes nothing that is young or pinned, leaves
\* no row of the feed unaccounted for, and owns up to early deletion.
RetentionSafe == [][RetentionKeepsPromises(Pins)]_historyVars

=============================================================================
