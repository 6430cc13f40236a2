---------------------------- MODULE VaultAuthority ----------------------------
(***************************************************************************)
(* Mutation requests against one vault.  A request is a Worker invocation   *)
(* (executeTextMutation, executeFileCommand) that makes a chain of RPCs to  *)
(* the Vault Durable Object: begin, authorize, commit, finish.  Each RPC is *)
(* one SQLite transaction; between any two of them other requests run, time *)
(* passes, grants are revoked, retention runs, and the Worker can die.  An  *)
(* RPC can also fail before it runs, or run and lose its reply.             *)
(* appendText awaits a digest between its snapshot and its commit, so it is *)
(* two transactions and a retry loop inside one RPC.                        *)
(***************************************************************************)
EXTENDS VaultRetention

CONSTANTS
  Calls,    \* what each request may ask: sets of records [grant, key, intent]
  LastTime  \* bound on the clock

AllCalls == UNION {Calls[r] : r \in Requests}

ASSUME CallsAssumption ==
  \A c \in AllCalls : /\ c.grant \in Grants
                      /\ c.key \in Keys \cup {NoKey}
                      /\ c.intent \in Intent /\ WellFormed(c.intent)
                      /\ Len(c.intent.text) <= MaxText
                      /\ c.intent.op = "append" => c.key # NoKey

VARIABLES
  pc,        \* [Requests -> the next step of the request]
  call,      \* [Requests -> what it was asked]
  snapshot,  \* [Requests -> the row an append computed its text from]
  answer,    \* [Requests -> what the Worker answers]
  published  \* history: one record for every publication

requestVars == <<pc, call, snapshot, answer>>
vars == <<fileVars, ledgerVars, retentionVars, requestVars, published>>

PCs == {"idle", "body", "commit", "publish", "settle", "retain", "done"}

NoAnswer   == [kind |-> "none"]
Unknown    == [kind |-> "unknown"]
Refused(f) == [kind |-> "refused", why |-> f]
Ok(body)   == [kind |-> "ok", body |-> body]

Init ==
  /\ FilesInit /\ InitLedger /\ InitRetention
  /\ pc = [r \in Requests |-> "idle"]
  /\ call \in {f \in [Requests -> AllCalls] : \A r \in Requests : f[r] \in Calls[r]}
  /\ snapshot = [r \in Requests |-> NoRow]
  /\ answer = [r \in Requests |-> NoAnswer]
  /\ published = {}

-----------------------------------------------------------------------------
Client(r) == GrantClient[call[r].grant]
Key(r) == call[r].key
TheIntent(r) == call[r].intent

\* The descriptor hash binds what is known before the body, the full hash all
\* of the intent.  A rename's destination is in its body.
DescriptorPrint(r) ==
  <<Client(r), TheIntent(r).op, TheIntent(r).path, TheIntent(r).pre, TheIntent(r).rev>>
FullPrint(r) == <<Client(r), TheIntent(r)>>

HasReceipt(r) == Key(r) # NoKey /\ ReceiptsOf(Client(r), Key(r)) # {}
ReceiptOf(r) == CHOOSE x \in ReceiptsOf(Client(r), Key(r)) : TRUE
StaleKey(r) == Key(r) # NoKey /\ ~InWindow(Key(r))

Go(r, to) == pc' = [pc EXCEPT ![r] = to]
Answer(r, a) == answer' = [answer EXCEPT ![r] = a]

\* Mutant: a lost reply is reported as a refusal.
ReplyOrLose_AsRefusal(r, a) ==
  /\ Go(r, "settle")
  /\ Answer(r, a) \/ Answer(r, Refused("internal_error"))

\* The Worker learns a and goes on to settle the slot; or the reply is lost,
\* the call throws, and the Worker asks to keep the slot as uncertain.
ReplyOrLose(r, a) ==
  \/ Go(r, "settle") /\ Answer(r, a)
  \/ Go(r, "retain") /\ Answer(r, Unknown)

KeepFiles == UNCHANGED <<fileVars, retentionVars, published>>

-----------------------------------------------------------------------------
(* beginMutation and beginRenameSource.                                     *)

\* The refusals before anything is written.  A receipt exempts a retry from
\* the key's time window, and a rename from its source check.
BeginFailure(r) ==
  LET owners == {c.id : c \in ClaimsOf(Client(r), Key(r))}
      source == TheIntent(r).path
  IN IF PolicyFailure(call[r].grant, TheIntent(r).op) # "none"
     THEN PolicyFailure(call[r].grant, TheIntent(r).op)
     ELSE IF StaleKey(r) /\ ~HasReceipt(r) THEN "operation_expired"
     ELSE IF \E o \in owners : o \notin Rows \/ admissions[o].grant # call[r].grant
          THEN "invalid_ticket"
     ELSE IF \E o \in owners : ~Expired(o) THEN "idempotency_in_progress"
     ELSE IF /\ TheIntent(r).op = "rename" /\ ~HasReceipt(r)
             /\ ~Live(source) \/ files[source].rev # TheIntent(r).rev
          THEN "precondition_failed"
     ELSE "none"

BeginRefused(r) ==
  /\ pc[r] = "idle" /\ BeginFailure(r) # "none"
  /\ Go(r, "done") /\ Answer(r, Refused(BeginFailure(r)))
  /\ UNCHANGED <<ledgerVars, call, snapshot>> /\ KeepFiles

\* A full ledger refuses, but what its cleanup deleted stays deleted.
BeginLimited(r) ==
  /\ pc[r] = "idle" /\ BeginFailure(r) = "none"
  /\ \E kept \in CleanedFor(Client(r)) :
       AdmissionFull(Client(r), kept) /\ Keep(kept)
  /\ Go(r, "done") /\ Answer(r, Refused("admission_limited"))
  /\ UNCHANGED <<now, receipts, revoked, call, snapshot>> /\ KeepFiles

\* Without the reply the request ends, and its slot stays until it expires.
BeginReserved(r) ==
  /\ pc[r] = "idle" /\ BeginFailure(r) = "none"
  /\ \E kept \in CleanedFor(Client(r)) :
       /\ ~AdmissionFull(Client(r), kept)
       /\ Reserve(r, call[r].grant, Key(r), DescriptorPrint(r), kept)
  /\ \/ Go(r, "body") /\ UNCHANGED answer
     \/ Go(r, "done") /\ Answer(r, Unknown)
  /\ UNCHANGED <<now, receipts, revoked, call, snapshot>> /\ KeepFiles

-----------------------------------------------------------------------------
(* The body and authorize or authorizeRenameSource.                         *)

\* The body is missing, too large, or not what was declared.
BodyFails(r) ==
  /\ pc[r] = "body" /\ TheIntent(r).op # "delete"
  /\ Go(r, "settle") /\ Answer(r, Refused("invalid_request"))
  /\ UNCHANGED <<ledgerVars, call, snapshot>> /\ KeepFiles

AuthorizeFailure(r) ==
  IF PolicyFailure(call[r].grant, TheIntent(r).op) # "none"
  THEN PolicyFailure(call[r].grant, TheIntent(r).op)
  ELSE IF \/ r \notin Rows
          \/ admissions[r].state # "reserved"
          \/ admissions[r].grant # call[r].grant
          \/ admissions[r].fp # DescriptorPrint(r)
          \/ Expired(r)
          \/ TheIntent(r).op = "rename" /\ ~ClaimMatches(r, call[r].grant, Key(r))
  THEN "invalid_ticket" ELSE "none"

AuthorizeRefused(r) ==
  /\ pc[r] = "body" /\ AuthorizeFailure(r) # "none"
  /\ ReplyOrLose(r, Refused(AuthorizeFailure(r)))
  /\ UNCHANGED <<ledgerVars, call, snapshot>> /\ KeepFiles

Authorized(r) ==
  /\ pc[r] = "body" /\ AuthorizeFailure(r) = "none"
  /\ Activate(r, FullPrint(r))
  /\ \/ Go(r, "commit") /\ UNCHANGED answer
     \/ Go(r, "retain") /\ Answer(r, Unknown)
  /\ UNCHANGED <<now, claims, receipts, revoked, call, snapshot>> /\ KeepFiles

-----------------------------------------------------------------------------
(* commit.                                                                  *)

TicketFailure(r) ==
  IF ActiveTicket(r, call[r].grant, Key(r), FullPrint(r)) THEN "none" ELSE "invalid_ticket"

\* Mutant: the key's window is not checked again at commit.
CommitFailure_NoWindow(r) ==
  LET i == TheIntent(r)
  IN IF TicketFailure(r) # "none" THEN TicketFailure(r)
     ELSE IF PreconditionFailure(i) # "none" THEN PreconditionFailure(i)
     ELSE IF AtCapacity(i) THEN "capacity_exceeded"
     ELSE PublishFailure(i)

\* The refusals of one commit transaction when there is no receipt to replay.
\* A refusal by the publication itself rolls the consumed ticket back.
CommitFailure(r) ==
  LET i == TheIntent(r)
  IN IF StaleKey(r) THEN "operation_expired"
     ELSE IF TicketFailure(r) # "none" THEN TicketFailure(r)
     ELSE IF PreconditionFailure(i) # "none" THEN PreconditionFailure(i)
     ELSE IF AtCapacity(i) THEN "capacity_exceeded"
     ELSE PublishFailure(i)

\* Mutant: a revocation during an append's digest is not seen.
Policy_BeforeDigestOnly(r) ==
  IF pc[r] = "publish" THEN "none" ELSE PolicyFailure(call[r].grant, TheIntent(r).op)

Policy(r) == PolicyFailure(call[r].grant, TheIntent(r).op)

CommitDenied(r) ==
  /\ Policy(r) # "none"
  /\ ReplyOrLose(r, Refused(Policy(r)))
  /\ UNCHANGED <<ledgerVars, call, snapshot>> /\ KeepFiles

\* replayReceiptInTransaction: the stored response for the same intent, which
\* also settles this request's own slot if it owns the key.
CommitReplayed(r) ==
  LET x   == ReceiptOf(r)
      own == /\ \E c \in ClaimsOf(Client(r), Key(r)) : c.id = r
             /\ r \in Rows /\ admissions[r].grant = call[r].grant
             /\ admissions[r].fp = FullPrint(r)
  IN /\ Policy(r) = "none" /\ HasReceipt(r)
     /\ IF x.fp # FullPrint(r)
        THEN /\ ReplyOrLose(r, Refused("idempotency_mismatch"))
             /\ UNCHANGED <<admissions, claims>>
        ELSE /\ ReplyOrLose(r, Ok(x.body))
             /\ Keep(Rows \ (IF own THEN {r} ELSE {}))
     /\ UNCHANGED <<now, receipts, revoked, call, snapshot>> /\ KeepFiles

CommitRefused(r, failure) ==
  /\ Policy(r) = "none" /\ ~HasReceipt(r) /\ failure # "none"
  /\ ReplyOrLose(r, Refused(failure))
  /\ UNCHANGED <<ledgerVars, call, snapshot>> /\ KeepFiles

\* The response of a publication, the receipt that lets a retry replay it, and
\* its entry in the history.
Response(i) == [path |-> Target(i), rev |-> files[Target(i)].rev + 1,
                seq |-> head + 1, deleted |-> i.op = "delete"]
NewReceipt(r) == [client |-> Client(r), key |-> Key(r), fp |-> FullPrint(r),
                  body |-> Response(TheIntent(r)), at |-> now]
Publication(r, base) == [id |-> r, grant |-> call[r].grant, key |-> Key(r),
                         intent |-> TheIntent(r), at |-> now,
                         body |-> Response(TheIntent(r)),
                         text |-> PublishedText(TheIntent(r), base)]

\* Consume the ticket, publish, and store the receipt, in one transaction.
CommitPublished(r, base) ==
  /\ Policy(r) = "none" /\ ~HasReceipt(r) /\ CommitFailure(r) = "none"
  /\ Publish(TheIntent(r), base, now)
  /\ Keep(Rows \ {r})
  /\ receipts' = receipts \cup (IF Key(r) = NoKey THEN {} ELSE {NewReceipt(r)})
  /\ published' = published \cup {Publication(r, base)}
  /\ ReplyOrLose(r, Ok(Response(TheIntent(r))))
  /\ UNCHANGED <<now, revoked, call, snapshot, retentionVars>>

\* commitText and commitFileCommand of everything but an append.
Commit(r) ==
  /\ pc[r] = "commit" /\ TheIntent(r).op # "append"
  /\ \/ CommitDenied(r)
     \/ CommitReplayed(r)
     \/ CommitRefused(r, CommitFailure(r))
     \/ CommitPublished(r, <<>>)

-----------------------------------------------------------------------------
(* commitAppend.                                                            *)

\* Mutant: the size of the whole text is not checked, only the body's.
SnapshotFailure_BodySize(r) ==
  LET p == TheIntent(r).path
  IN IF Policy(r) # "none" THEN Policy(r)
     ELSE IF TicketFailure(r) # "none" THEN TicketFailure(r)
     ELSE IF PreconditionFailure(TheIntent(r)) # "none"
          THEN PreconditionFailure(TheIntent(r))
     ELSE IF ~Live(p) THEN "tombstone"
     ELSE IF Len(TheIntent(r).text) > MaxText THEN "text_too_large"
     ELSE "none"

\* What the append's snapshot transaction refuses, and what it refuses of the
\* row it read.
SnapshotFailure(r) ==
  LET p == TheIntent(r).path
  IN IF Policy(r) # "none" THEN Policy(r)
     ELSE IF TicketFailure(r) # "none" THEN TicketFailure(r)
     ELSE IF PreconditionFailure(TheIntent(r)) # "none"
          THEN PreconditionFailure(TheIntent(r))
     ELSE IF ~HasRow(p) THEN "not_found"
     ELSE IF ~Live(p) THEN "tombstone"
     ELSE IF Len(files[p].text \o TheIntent(r).text) > MaxText THEN "text_too_large"
     ELSE "none"

\* Mutant: a retry keeps the snapshot it already has.
TakeSnapshot_Once(r) ==
  /\ \/ /\ SnapshotFailure(r) = "none"
        /\ snapshot' = IF snapshot[r] = NoRow
                       THEN [snapshot EXCEPT ![r] = files[TheIntent(r).path]] ELSE snapshot
        /\ Go(r, "publish") /\ UNCHANGED answer
     \/ /\ SnapshotFailure(r) # "none"
        /\ ReplyOrLose(r, Refused(SnapshotFailure(r)))
        /\ UNCHANGED snapshot
  /\ UNCHANGED <<ledgerVars, call>> /\ KeepFiles

\* Read the current row and leave for the digest, or refuse.
TakeSnapshot(r) ==
  /\ \/ /\ SnapshotFailure(r) = "none"
        /\ snapshot' = [snapshot EXCEPT ![r] = files[TheIntent(r).path]]
        /\ Go(r, "publish") /\ UNCHANGED answer
     \/ /\ SnapshotFailure(r) # "none"
        /\ ReplyOrLose(r, Refused(SnapshotFailure(r)))
        /\ UNCHANGED snapshot
  /\ UNCHANGED <<ledgerVars, call>> /\ KeepFiles

\* replayIfPresent and the first snapshot, with no await between them.
AppendStart(r) ==
  /\ pc[r] = "commit" /\ TheIntent(r).op = "append"
  /\ \/ CommitDenied(r)
     \/ CommitReplayed(r)
     \/ Policy(r) = "none" /\ ~HasReceipt(r) /\ TakeSnapshot(r)

\* Mutant: the append trusts its snapshot.
SnapshotCurrent_Trusted(r) == HasRow(TheIntent(r).path)

SnapshotCurrent(r) == files[TheIntent(r).path] = snapshot[r]

\* The commit after the digest; RetryAppend goes round the loop at once.
AppendPublish(r) ==
  /\ pc[r] = "publish"
  /\ \/ CommitDenied(r)
     \/ CommitReplayed(r)
     \/ CommitRefused(r, CommitFailure(r))
     \/ SnapshotCurrent(r) /\ CommitPublished(r, snapshot[r].text)
     \/ /\ ~SnapshotCurrent(r)
        /\ Policy(r) = "none" /\ ~HasReceipt(r) /\ CommitFailure(r) = "none"
        /\ TakeSnapshot(r)

-----------------------------------------------------------------------------
(* finishAdmission, and what can go wrong around it.                        *)

\* finish: a revoked grant or another owner may not; a missing row is settled.
MayFinish(r) == call[r].grant \notin revoked /\ r \in Rows

Settle(r) ==
  /\ pc[r] = "settle"
  /\ Keep(IF MayFinish(r) THEN Rows \ {r} ELSE Rows)
  /\ Go(r, "done")
  /\ UNCHANGED <<now, receipts, revoked, call, snapshot, answer>> /\ KeepFiles

Retain(r) ==
  /\ pc[r] = "retain"
  /\ admissions' = IF MayFinish(r)
                   THEN [admissions EXCEPT ![r] = Restated(@, "uncertain", @.fp)]
                   ELSE admissions
  /\ Go(r, "done")
  /\ UNCHANGED <<now, claims, receipts, revoked, call, snapshot, answer>> /\ KeepFiles

\* A call that throws before it runs: authorize or commit ends uncertain, a
\* failed finish is swallowed, and a failed begin ends the request.
RpcFails(r) ==
  /\ pc[r] \in {"idle", "body", "commit", "publish", "settle", "retain"}
  /\ IF pc[r] \in {"body", "commit", "publish"}
     THEN Go(r, "retain") ELSE Go(r, "done")
  /\ IF pc[r] \in {"settle", "retain"} THEN UNCHANGED answer ELSE Answer(r, Unknown)
  /\ UNCHANGED <<ledgerVars, call, snapshot>> /\ KeepFiles

\* The Worker invocation dies; nobody finishes its admission.
Crash(r) ==
  /\ pc[r] \notin {"idle", "done"}
  /\ Go(r, "done") /\ Answer(r, Unknown)
  /\ UNCHANGED <<ledgerVars, call, snapshot>> /\ KeepFiles

-----------------------------------------------------------------------------
Environment ==
  \/ /\ Tick(LastTime) \/ \E client \in Clients : RevokeClient(client)
     /\ UNCHANGED <<fileVars, retentionVars, requestVars, published>>
  \/ RunBatch({}) /\ UNCHANGED <<requestVars, published>>

RequestStep(r) ==
  \/ BeginRefused(r) \/ BeginLimited(r) \/ BeginReserved(r)
  \/ BodyFails(r) \/ AuthorizeRefused(r) \/ Authorized(r)
  \/ Commit(r) \/ AppendStart(r) \/ AppendPublish(r)
  \/ Settle(r) \/ Retain(r)

Next == Environment \/ \E r \in Requests : RequestStep(r) \/ RpcFails(r) \/ Crash(r)

Spec == Init /\ [][Next]_vars

\* A started invocation runs until it ends; nothing forces the clock, the
\* owner, the alarm or a client.
FairSpec == Spec /\ \A r \in Requests : WF_vars(pc[r] # "idle" /\ RequestStep(r))

-----------------------------------------------------------------------------
Body == [path: Paths, rev: Nat, seq: Nat, deleted: BOOLEAN]

TypeOK ==
  /\ FilesTypeOK
  /\ \A p \in Paths : Len(files[p].text) <= MaxText
  /\ now \in Nat /\ revoked \subseteq Grants
  /\ \A r \in Rows : /\ admissions[r].state \in AdmissionStates
                     /\ admissions[r].grant \in Grants
                     /\ admissions[r].expires \in Nat
  /\ claims \subseteq [client: Clients, key: Keys, id: Requests]
  /\ \A x \in receipts : /\ x.client \in Clients /\ x.key \in Keys
                         /\ x.body \in Body /\ x.at \in 0..now
  /\ category \in CategorySet /\ prunedFeed \in Nat /\ reduced \in BOOLEAN
  /\ pc \in [Requests -> PCs]
  /\ call \in [Requests -> AllCalls]
  /\ snapshot \in [Requests -> FileRow]
  /\ \A e \in published : /\ e.id \in Requests /\ e.grant \in Grants
                          /\ e.key \in Keys \cup {NoKey}
                          /\ e.body \in Body /\ e.at \in 0..now

\* A publication under a key that carries its time.
Timed(e) == e.key \notin OpaqueKeys \cup {NoKey}
SameKey(d, e) == GrantClient[d.grant] = GrantClient[e.grant] /\ d.key = e.key

\* A client that retries under one UUIDv7 key, however often, however late, and
\* whatever replies it lost, publishes at most once: the receipt is still there
\* while the key's window is open, and the window has closed for good before
\* retention deletes the receipt.  (spec.md section 6: idempotency.)
AtMostOnce ==
  \A d, e \in published : Timed(d) /\ SameKey(d, e) => d = e

\* A success is never invented and never somebody else's: it describes the
\* publication of this request, or of an earlier one of the same client under
\* the same key with the same intent.  A refusal, as opposed to a lost reply,
\* means that this request published nothing.
AnswersTruthful ==
  \A r \in Requests :
    /\ answer[r].kind = "ok" =>
         \E e \in published : /\ e.body = answer[r].body
                              /\ e.id = r \/ (Key(r) # NoKey /\ SameKey(e, call[r]))
                              /\ e.intent = TheIntent(r)
    /\ answer[r].kind = "refused" => \A e \in published : e.id # r

\* Nothing is published for a grant once its revocation is durable, even by
\* requests admitted, authorized or half way through an append before it.
RevokedNeverPublishes ==
  [][\A e \in published' \ published : e.grant \notin revoked]_vars

\* Every started invocation ends with an answer, an append that keeps losing
\* its race to other writers included.
EveryRequestEnds == \A r \in Requests : pc[r] # "idle" ~> pc[r] = "done"

-----------------------------------------------------------------------------
(* The same behaviour, seen as one atomic conditional write per publication. *)
Promise == INSTANCE VaultPromise WITH
  heads  <- [p \in Paths |-> [rev |-> files[p].rev, live |-> Live(p), text |-> files[p].text]],
  past   <- {[path |-> e.body.path, rev |-> e.body.rev, text |-> e.text] :
               e \in {d \in published : ~d.body.deleted}},
  done   <- {<<GrantClient[e.grant], e.key>> : e \in {d \in published : Timed(d)}},
  barred <- revoked,
  Calls  <- AllCalls

\* What a client may rely on: conditional writes, exactly-once keys, appends
\* that extend the text they follow, and revocation.
ImplementsPromise == Promise!Spec

=============================================================================
