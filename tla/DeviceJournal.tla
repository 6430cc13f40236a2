---------------------------- MODULE DeviceJournal ----------------------------
(***************************************************************************)
(* The document a device keeps about one text path, and the transitions of  *)
(* DeviceJournal on it.  A transition that the journal refuses (it throws)  *)
(* is a guard here, and its result an expression: who commits it, and what  *)
(* a failed commit leaves, is in DeviceState.                               *)
(*                                                                          *)
(* A revision stands for the ETag of the path in the vault's one epoch, and *)
(* a text for its hash.  Operations of one path always overlap.             *)
(***************************************************************************)
EXTENDS Integers, Sequences, FiniteSets

CONSTANTS
  Texts,  \* what a file can hold
  Absent, \* no file, a tombstone, or no text
  NoKey   \* no operation

ASSUME AbsentAssumption == Absent \notin Texts

\* `pre' is the revision of If-Match, 0 for If-None-Match: *; `after' is
\* depends_on; `retried' says that a retry deadline was set; `knew' is a history
\* variable, see DeviceState.
Operation(key, op, text, pre, after, knew) ==
  [key |-> key, op |-> op, text |-> text, pre |-> pre, after |-> after,
   state |-> "queued", retried |-> FALSE, knew |-> knew]

NoBase == [rev |-> 0, text |-> Absent]
NoCopy == [at |-> 0, text |-> Absent]
\* The checkpoint of a traversal of the manifest, which is one page here: the head of
\* the page; whether the path was in the vault's list of local files and is not done;
\* whether its row is pending; whether it had a row or was found to be published.
NoCheck == [stage |-> "none", head |-> 0, listed |-> FALSE, pending |-> FALSE, known |-> FALSE]

NoApply == [row |-> 0, rev |-> 0, text |-> Absent, step |-> "none", copy |-> NoCopy]

\* No row of the feed was taken: the cursor is null.
NoCursor == -1

\* base: 0 is no entry, and the text Absent a tombstone.  kept: the operations
\* that attention items hold.  expected: expected_writes.  bound: the epoch is known.
\* refused: an attention item says that the vault refused the first upload.
Document(base) ==
  [base |-> base, ops |-> <<>>, apply |-> NoApply, expected |-> Absent,
   cursor |-> base.rev, kept |-> {}, check |-> NoCheck, bound |-> TRUE, refused |-> FALSE]
FreshDocument == [Document(NoBase) EXCEPT !.cursor = NoCursor, !.bound = FALSE]

Live(base) == base.text # Absent

Keys(d) == {d.ops[i].key : i \in DOMAIN d.ops}
OpOf(d, k) == d.ops[CHOOSE i \in DOMAIN d.ops : d.ops[i].key = k]

\* The n-th of a set of positions; what is left of the queue, in its order.
Nth(positions, n) == CHOOSE i \in positions : Cardinality({j \in positions : j <= i}) = n
Without(d, ks) ==
  LET left == {i \in DOMAIN d.ops : d.ops[i].key \notin ks}
  IN [n \in 1..Cardinality(left) |-> d.ops[Nth(left, n)]]

Changed(d, k, o) == [i \in DOMAIN d.ops |-> IF d.ops[i].key = k THEN o ELSE d.ops[i]]

\* What an attention item keeps of an operation.
Kept(o) == [op |-> o.op, text |-> o.text]

-----------------------------------------------------------------------------
\* enqueue replaces a queued operation of the same type that nothing follows.
Replaced(d, op) ==
  {i \in DOMAIN d.ops : i = Len(d.ops) /\ d.ops[i].state = "queued" /\ d.ops[i].op = op}

Enqueue(d, o) ==
  [d EXCEPT !.ops =
     Append(Without(d, {d.ops[i].key : i \in Replaced(d, o.op)}), o)]

\* prepareSend: no predecessor is unresolved.
MayPrepare(d, k) == d.ops # <<>> /\ d.ops[1].key = k
Prepare(d, k) ==
  [d EXCEPT !.ops = Changed(d, k, [OpOf(d, k) EXCEPT !.state = "sent"])]

Defer(d, k) ==
  [d EXCEPT !.ops = Changed(d, k, [OpOf(d, k) EXCEPT !.retried = TRUE])]

DiscardQueued(d, k) == [d EXCEPT !.ops = Without(d, {k})]

RecordQueuedRejected(d, k) ==
  [d EXCEPT !.ops = Without(d, {k}), !.kept = @ \cup {Kept(OpOf(d, k))}]

\* The deletes that were queued behind the create k.
Dependents(d, k) == {d.ops[i].key : i \in {j \in DOMAIN d.ops : d.ops[j].after = k}}

RecordRejected(d, k) ==
  LET gone == {k} \cup Dependents(d, k)
  IN [d EXCEPT !.ops = Without(d, gone),
               !.kept = @ \cup {Kept(OpOf(d, g)) : g \in gone}]

\* resolve with the base that the receipt of k produced: successors continue
\* from that revision, unless they already continue from a later one.
Rebased(o, receipt) ==
  IF o.state = "queued" /\ o.pre < receipt.rev
  THEN [o EXCEPT !.pre = receipt.rev, !.after = NoKey] ELSE [o EXCEPT !.after = NoKey]

Resolve(d, k, receipt) ==
  LET stale == IF d.base = receipt THEN {} ELSE Dependents(d, k)
      rest  == Without(d, {k} \cup stale)
  IN [d EXCEPT !.ops = [i \in DOMAIN rest |-> Rebased(rest[i], receipt)],
               !.kept = @ \cup {Kept(OpOf(d, g)) : g \in stale}]

\* resolve without the base of a receipt: the deletes behind k are not kept in the queue.
ResolveAlone(d, k) ==
  [d EXCEPT !.ops = Without(d, {k} \cup Dependents(d, k)),
            !.kept = @ \cup {Kept(OpOf(d, g)) : g \in Dependents(d, k)}]

\* setBase takes no older revision.
MaySetBase(d, base) == base.rev >= d.base.rev
SetBase(d, base) == [d EXCEPT !.base = base]

\* resetEpoch, for a device that knew none: what was queued before belongs to no epoch.
BindEpoch(d) ==
  [d EXCEPT !.bound = TRUE, !.cursor = NoCursor, !.check = NoCheck, !.apply = NoApply,
            !.expected = Absent, !.ops = <<>>, !.kept = @ \cup {Kept(d.ops[i]) : i \in DOMAIN d.ops}]

SetCheckpoint(d, check) == [d EXCEPT !.check = check]
SetCursor(d, seq) == [d EXCEPT !.cursor = seq]
Expect(d, text) == [d EXCEPT !.expected = text]

-----------------------------------------------------------------------------
BeginApply(d, row, text) ==
  [d EXCEPT !.apply = [row |-> row, rev |-> row, text |-> text,
                       step |-> "prepared", copy |-> NoCopy]]

\* rebasePendingApply: the revision that took the place of a pruned one; a copy
\* that is planned keeps its name.
RebaseApply(d, rev, text) ==
  [d EXCEPT !.apply.rev = rev, !.apply.text = text,
            !.apply.step = IF @ = "copied" THEN "named" ELSE @]

\* updateApply: the steps of a conflict, each before its effect.
NameCopy(d, text) ==
  [d EXCEPT !.apply.step = "named", !.apply.copy = [at |-> d.apply.rev, text |-> text]]
MarkCopied(d) == [d EXCEPT !.apply.step = "copied"]

\* Obsolete rows; completeApply refuses what ignoreApply takes.
Obsolete(d, rev) == rev <= d.base.rev
EndApply(d) == [d EXCEPT !.apply = NoApply, !.expected = Absent]
CompleteApply(d) ==
  [EndApply(d) EXCEPT !.base = [rev |-> d.apply.rev, text |-> d.apply.text]]

=============================================================================
