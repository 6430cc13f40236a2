-------------------------- MODULE DevicePublication --------------------------
(***************************************************************************)
(* PublicationController on text puts and deletes: what a drained event, a  *)
(* scan and a flush do with the journal's queue, and how one operation is   *)
(* sent and settled.                                                        *)
(*                                                                          *)
(* The controller reads the file and then commits; a user's edit between    *)
(* the two commutes with the commit and is taken after it, so that a        *)
(* decision on the file and its commit are one action.                      *)
(***************************************************************************)
EXTENDS DeviceState

PublicationFrame == UNCHANGED <<files, feed, floor, history>>
NoWire == UNCHANGED <<wire, reply>>

InUse ==
  Keys(mem) \cup Keys(disk) \cup {q.key : q \in wire} \cup {feed[v].key : v \in DOMAIN feed}
FreeKeys == OpKeys \ InUse

\* One fresh key: which one makes no difference.
NewKey == CHOOSE k \in FreeKeys : TRUE

NewPut(d, text) == Operation(NewKey, "put", text, d.base.rev, NoKey, knew)
NewDelete(d, after) ==
  Operation(NewKey, "delete", Absent, IF after = NoKey THEN d.base.rev ELSE 0, after, knew)

InSync == Live(mem.base) /\ local = mem.base.text
PendingPut(text) ==
  \E i \in DOMAIN mem.ops : mem.ops[i].op = "put" /\ mem.ops[i].text = text
PendingDelete == \E i \in DOMAIN mem.ops : mem.ops[i].op = "delete"

-----------------------------------------------------------------------------
(* observe, for the event at the head of the queue.  A failed commit leaves *)
(* the event there.                                                         *)

Observed(d) ==
  /\ Save(d, Idle)
  /\ events' = IF blocked' THEN events ELSE Tail(events)
Ignored ==
  /\ events' = Tail(events) /\ UNCHANGED <<journal, task, budget>>

\* An exact echo of an expected write is consumed, any other text is queued.
ObserveSave ==
  CASE local = Absent -> Ignored
    [] local # Absent /\ mem.expected = local -> Observed(Expect(mem, Absent))
    [] local # Absent /\ mem.expected # local /\ InSync -> Ignored
    [] local # Absent /\ mem.expected # local /\ ~InSync ->
         Observed(Enqueue(mem, NewPut(mem, local)))

\* A create that was sent and not settled.
SentCreates ==
  {mem.ops[i].key : i \in {j \in DOMAIN mem.ops :
     /\ mem.ops[j].op = "put" /\ mem.ops[j].state = "sent" /\ mem.ops[j].pre = 0}}
QueuedPuts ==
  {mem.ops[i].key : i \in {j \in DOMAIN mem.ops :
     mem.ops[j].op = "put" /\ mem.ops[j].state = "queued"}}

\* A delete counts only while the file is still gone; else only attention is noted.
Superseded == local # Absent

ObserveDelete ==
  CASE Superseded -> Observed(mem)
    [] ~Superseded /\ Live(mem.base) -> Observed(Enqueue(mem, NewDelete(mem, NoKey)))
    [] ~Superseded /\ ~Live(mem.base) ->
         LET d == [mem EXCEPT !.ops = Without(mem, QueuedPuts)]
         IN IF SentCreates = {} THEN (IF d = mem THEN Ignored ELSE Observed(d))
            ELSE \E k \in SentCreates : Observed(Enqueue(d, NewDelete(d, k)))

DrainEvent ==
  /\ task = Idle /\ events # <<>> /\ FreeKeys # {}
  /\ IF Head(events) = "save" THEN ObserveSave ELSE ObserveDelete
  /\ PublicationFrame /\ NoWire

-----------------------------------------------------------------------------
\* Mutant: a missing file is taken for a deleted one.
ScanMissing_Deletes ==
  IF PendingDelete THEN task' = Finished(task) /\ UNCHANGED <<journal, budget>>
  ELSE Save(Enqueue(mem, NewDelete(mem, NoKey)), Finished(task))

\* A missing file with a confirmed base is restored, never deleted.
ScanMissing ==
  IF PendingDelete THEN task' = Finished(task) /\ UNCHANGED <<journal, budget>>
  ELSE Save(Expect(mem, mem.base.text), At("restore"))

Scan ==
  /\ task.pc = "scan"
  /\ IF local # Absent /\ ~InSync /\ ~PendingPut(local)
     THEN FreeKeys # {} /\ Save(Enqueue(mem, NewPut(mem, local)), Finished(task))
     ELSE IF local = Absent /\ Live(mem.base) THEN ScanMissing
     ELSE task' = Finished(task) /\ UNCHANGED <<journal, budget>>
  /\ UNCHANGED events /\ PublicationFrame /\ NoWire

\* restoreMissing: Vault.create, over no file only.
Restore ==
  /\ task.pc = "restore"
  /\ IF local = Absent
     THEN local' = mem.base.text /\ Holds(mem.base.rev) /\ Emit("save") /\ Goto("restored")
     ELSE UNCHANGED <<local, shown, events>> /\ Goto("kept")
  /\ UNCHANGED <<copies, trashed, journal, budget, remote, mine, knew, adopted, undone>>

Restored ==
  /\ task.pc \in {"restored", "kept"}
  /\ \E next \in {Finished(task)} \cup
               (IF task.pc = "kept" \/ local = mem.base.text THEN {} ELSE {Idle}) :
       ClearExpected(next)
  /\ UNCHANGED events /\ PublicationFrame /\ NoWire

-----------------------------------------------------------------------------
(* flush: the operations that were queued when it began, in their order.    *)

KeyAt(i) == mem.ops[i].key

\* Mutant: an operation that was sent is not looked at again.
StartFlush_QueuedOnly ==
  /\ task.pc = "flush"
  /\ LET queued == SelectSeq(mem.ops, LAMBDA o : o.state = "queued")
     IN task' = [At("pick") EXCEPT !.keys = [i \in DOMAIN queued |-> queued[i].key]]
  /\ UNCHANGED <<journal, budget, events>> /\ PublicationFrame /\ NoWire
StartFlush ==
  /\ task.pc = "flush"
  /\ task' = [At("pick") EXCEPT !.keys = [i \in DOMAIN mem.ops |-> KeyAt(i)]]
  /\ UNCHANGED <<journal, budget, events>> /\ PublicationFrame /\ NoWire

op == OpOf(mem, task.key)
NextOp == [At("pick") EXCEPT !.key = NoKey]
FlushEnd == [Finished(task) EXCEPT !.key = NoKey, !.keys = <<>>]

Picking == task.pc = "pick" /\ task.keys # <<>>
SameJournal == UNCHANGED <<journal, budget, events>> /\ PublicationFrame /\ NoWire

\* The next operation, if nothing precedes it and its retry is due.
Take ==
  /\ Picking /\ Head(task.keys) \in Keys(mem) /\ MayPrepare(mem, Head(task.keys))
  /\ LET k == Head(task.keys)
         pc == IF OpOf(mem, k).state = "sent" THEN "prepare" ELSE "refresh"
     IN task' = [At(pc) EXCEPT !.keys = Tail(@), !.key = k]
  /\ SameJournal

\* It is gone, or behind another one, or its retry is not due.
Skip ==
  /\ Picking
  /\ LET k == Head(task.keys)
     IN k \in Keys(mem) => ~MayPrepare(mem, k) \/ OpOf(mem, k).retried
  /\ task' = [task EXCEPT !.keys = Tail(@)] /\ SameJournal

EndFlush == task.pc = "pick" /\ task.keys = <<>> /\ task' = FlushEnd /\ SameJournal

\* hasVisiblePayload: another file of the vault holds the bytes.
Visible(text) == \E c \in copies : c.text = text

Redundant(o) == local = o.text \/ Visible(o.text)

\* refreshQueuedPut and the delete check: queued work meets the file and the base
\* of now.  "block" ends the flush.
Refresh ==
  /\ task.pc = "refresh"
  /\ CASE op.op = "delete" ->
            IF op.after = NoKey /\ ~Live(mem.base)
            THEN Save(RecordQueuedRejected(mem, op.key), FlushEnd)
            ELSE Goto("prepare") /\ UNCHANGED <<journal, budget>>
       [] op.op = "put" /\ local = Absent ->
            IF mem.base.rev > 0 /\ ~Live(mem.base) /\ Visible(op.text)
            THEN Save(DiscardQueued(mem, op.key), NextOp)
            ELSE Save(RecordQueuedRejected(mem, op.key), FlushEnd)
       [] op.op = "put" /\ local # Absent /\ InSync ->
            IF Redundant(op) THEN Save(DiscardQueued(mem, op.key), NextOp)
            ELSE Save(RecordQueuedRejected(mem, op.key), FlushEnd)
       [] op.op = "put" /\ local # Absent /\ ~InSync /\ local = op.text ->
            Goto("prepare") /\ UNCHANGED <<journal, budget>>
       [] op.op = "put" /\ local # Absent /\ ~InSync /\ local # op.text ->
            Save(RecordQueuedRejected(mem, op.key), Saw("requeue", local))
  /\ UNCHANGED events /\ PublicationFrame /\ NoWire

\* The bytes that were read take the place of the rejected ones.
Requeue ==
  /\ task.pc = "requeue" /\ FreeKeys # {}
  /\ Save(Enqueue(mem, NewPut(mem, task.seen)), FlushEnd)
  /\ UNCHANGED events /\ PublicationFrame /\ NoWire

-----------------------------------------------------------------------------
\* Mutant: a retry takes the precondition of now.
Request_Fresh(o) ==
  [key |-> o.key, op |-> o.op, text |-> o.text, pre |-> mem.base.rev, knew |-> o.knew,
   again |-> o.retried]
\* What goes out is what the journal holds under the key; `again' tells a retry
\* from the request before it.
Request(o) ==
  [key |-> o.key, op |-> o.op, text |-> o.text, pre |-> o.pre, knew |-> o.knew,
   again |-> o.retried]

\* prepareSend refuses while a journal write is unverified.
PrepareSend ==
  /\ task.pc = "prepare"
  /\ IF blocked \/ ~MayPrepare(mem, task.key)
     THEN task' = Idle /\ UNCHANGED <<journal, budget>>
     ELSE IF op.state = "sent" THEN Goto("dispatch") /\ UNCHANGED <<journal, budget>>
     ELSE Save(Prepare(mem, task.key), At("dispatch"))
  /\ UNCHANGED events /\ PublicationFrame /\ NoWire

Dispatch ==
  /\ task.pc = "dispatch"
  /\ wire' = wire \cup {Request(op)} /\ reply' = NoReply /\ Goto("await")
  /\ UNCHANGED <<journal, budget, events>> /\ PublicationFrame

\* The request or its answer is lost, or the answer cannot be read.
LoseAnswer ==
  /\ task.pc = "await" /\ Spend("faults")
  /\ wire' \in {wire, wire \ {Request(op)}} /\ reply' = NoReply
  /\ Goto("defer") /\ UNCHANGED <<journal, events>> /\ PublicationFrame

\* Any other refusal of the vault, e.g. 413 or operation_expired.
Refuse ==
  /\ task.pc = "await" /\ Spend("faults") /\ reply = NoReply
  /\ wire' = wire \ {Request(op)} /\ Goto("reject")
  /\ UNCHANGED <<journal, events, reply>> /\ PublicationFrame

DeferSend ==
  /\ task.pc = "defer"
  /\ Save(Defer(mem, task.key), NextOp)
  /\ UNCHANGED events /\ PublicationFrame /\ NoWire

\* Mutant: the base advances to the newest row of the feed.
ReceiptBase_Head == Row(Head_)
\* Mutant: the base takes the text that the file holds by now.
ReceiptBase_Local == [rev |-> reply, text |-> local]
ReceiptBase == [rev |-> reply, text |-> op.text]

\* setBaseIfNewer: an older receipt leaves the base alone.
Confirm ==
  /\ task.pc = "await" /\ reply \in 1..Head_
  /\ IF mem.base.rev > reply THEN Goto("settle") /\ UNCHANGED <<journal, budget>>
     ELSE SaveOr([mem EXCEPT !.base = ReceiptBase], At("settle"), At("defer"))
  /\ UNCHANGED events /\ PublicationFrame /\ NoWire

Settle ==
  /\ task.pc = "settle"
  /\ SaveOr(Resolve(mem, task.key, ReceiptBase), NextOp, At("defer"))
  /\ UNCHANGED events /\ PublicationFrame /\ NoWire

\* 412: the feed is replayed past this operation before it is given up.
Recover ==
  /\ task.pc = "await" /\ reply = Stale
  /\ task' = [At("replay") EXCEPT !.rest = <<"replay", "reject">> \o @, !.spare = task.key]
  /\ UNCHANGED <<journal, budget, events>> /\ PublicationFrame /\ NoWire

\* The recovery may have found that the vault holds what was sent, and settled it.
Reject ==
  /\ task.pc = "reject"
  /\ IF task.key \notin Keys(mem) THEN task' = Idle /\ UNCHANGED <<journal, budget>>
     ELSE Save(RecordRejected(mem, task.key),
          [NextOp EXCEPT !.rest = IF Head(@) = "reject" THEN Tail(@) ELSE @])
  /\ UNCHANGED events /\ PublicationFrame /\ NoWire

PublicationStep ==
  \/ Scan \/ Restore \/ Restored \/ StartFlush \/ Take \/ Skip \/ EndFlush
  \/ Refresh \/ Requeue \/ PrepareSend \/ Dispatch \/ DeferSend \/ Confirm \/ Settle \/ Recover \/ Reject

=============================================================================
