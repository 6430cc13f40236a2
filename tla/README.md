# A verification of obsidian-ai-bridge

TLA+ models of the service that keeps an Obsidian vault in a Cloudflare Durable Object and of the
plugin that syncs a device with it, model-checked with TLC, with proofs checked by TLAPS. The
models are written from the source; paths below are relative to the repository.

## The system

**The Worker** (`apps/worker`) receives HTTP and MCP requests. It keeps nothing between requests:
it parses, checks scopes and talks to one **Vault** Durable Object over RPC, and to R2 for blobs.

**The Vault** (`infrastructure/durable-object/vault.ts`) is a single-threaded object over SQLite.
Synchronous transactions are atomic; every `await` (a digest, an R2 call) lets another request
run. The object can die between any two awaits, and a reply to the Worker can be lost after its
transaction committed. One alarm slot drives the background work.

**The plugin** (`apps/plugin`) keeps a journal of local edits, publishes them, applies remote
revisions to local files, and reconciles its checkpoints with the manifest and changes feed.

### Inventory

| Part | State | Operations | Hard behaviour | What makes it correct |
|---|---|---|---|---|
| Admission ledger (`sqlite/admission.ts`, `application/admission.ts`) | slots with leases, key claims, receipts, revoked grants | begin, authorize, consume, finish, cleanup, revoke | crashed Workers, expiring leases, retries from two connections, limits full of leftovers | one owner of a key; bounded slots; revocation is final |
| Mutations and files (`sqlite/mutations.ts`, `text-files.ts`, `history.ts`) | current rows, revisions, feed, counters | put, delete, rename, append, restore | lost replies, retries, an append's digest between snapshot and commit | each publication is one conditional write, at most once per key, answers are true |
| Retention (`sqlite/retention.ts`) | durable cursor over four categories, pruned boundary | one bounded batch per alarm | a clock that is set back, storage pressure, pins | no hole in the feed above its boundary; floors and pins hold |
| Reads (`sqlite/reads.ts`, `application/reads.ts`) | none of its own | manifest and feed pages in batches | files move between batches, cursors expire | a client that caught up is current, or is told to start again |
| Blobs and collection (`application/blobs.ts`, `blob-gc.ts`) | R2 objects, marks, generation, run, delete claim | upload, commit, list, mark, delete, clear | R2 and SQLite are not atomic; deletes of dead instances | nothing referenced is deleted; a run sweeps its garbage |
| Packed export (`application/export.ts`, `sqlite/packed-exports.ts`) | export row, frozen files, chunks, pins, parts | start, one step per alarm | lost replies and late effects of multipart calls | the archive is one cut; the export ends |
| Alarm (`durable-object/vault.ts`) | one alarm time | alarm, requests that set it, constructor | requests overlap the handler's awaits; the last write wins | pending work stays armed and ends |
| Client registry, OAuth (`sqlite/clients.ts`, `auth/oauth.ts`) | consents, generations, grants | consent, revoke, clean up | grants are deleted at the provider in later calls | a revoked client cannot come back |
| Device journal and publication (`sync/device-journal.ts`, `publication.ts`) | operation queue, bases, cursor | observe, send, resolve, rebase | crashes around a commit, unknown outcomes, edits under way | no edit is lost or sent twice |
| Text application (`sync/text-apply.ts`) | one pending apply with its step | begin, name and make a copy, write, confirm | crashes between file steps; local edits meanwhile | a local edit is never overwritten silently |
| Byte application (`sync/text-apply.ts`) | a plan of copies, recovery copies of seven days | look, copy, write, move, trash, confirm | no atomic replacement; both sides of a rename; pruned revisions | no saved bytes go; a base is what the path held |
| Reconciliation and loop (`sync/reconciliation.ts`, `desktop-sync.ts`) | cursor, checkpoint of a traversal, drain state | cycle, page, manifest row, first upload, drain | an expired cursor; a checkpoint resumed over another head; lost first uploads | the device converges |
| Device session (`auth/device-session.ts`) | rotating credential | connect, refresh, disconnect | refreshes race each other and a sign-out; a callback writes twice | what is stored can be used; credential and journal name one client |
| Plugin lifecycle (`main.ts`, `settings-sync-storage.ts`) | pause flag, settings policy with its duty, queue of effects | pause, resume, updates, revocation, hide | updates that are superseded while they wait | a paused device starts nothing, a connected one runs |

The remaining parts (HTTP parsing, owner pages, MCP tools, search, measurements, schemas) have no
state or interleaving of their own. `PROJECT.json` lists every part with its status, and the
hazards at their lines.

## Modules

| Module | Models | Extends |
|---|---|---|
| `VaultFiles` | the tables of current rows, revisions and the feed, and `Publish`, the one transaction that all operations share | |
| `AdmissionLedger` | slots, claims, receipts, policy, cleanup and limits, as operators on one transaction each | |
| `VaultRetention` | one alarm batch of retention | both |
| `VaultAuthority` | requests: begin, body, authorize, commit, finish, with lost replies, crashes, retries, clock and revocation | `VaultRetention` |
| `VaultPromise` | the abstract specification: every publication is an atomic conditional write | |
| `VaultHistory` | long histories of commits between retention batches | `VaultRetention` |
| `VaultReads` | a client that pages the manifest and follows the feed | `VaultHistory` |
| `BlobCollection` | uploads, writers of references and collection over R2 | |
| `PackedExport` | one export over R2 multipart uploads | |
| `VaultAlarm` | the alarm slot and the calls that set it | |
| `ClientRegistry` | consents, grants and tokens, the owner's revocation and removal, the provider's KV | |
| `DeviceSession` | the plugin's sign-in, its callback, refreshes, restarts | |
| `PluginControl` | pause, resume, updates, revocation and the settings duty around one loop | |
| `DeviceJournal` | the journal's document for one path, and its transitions as expressions | |
| `DeviceState` | the device's files, journal, events, requests and task; commits that fail; the user, other writers, restarts | `DeviceJournal` |
| `TextApply` | a remote put or delete of text applied step by step, with its conflict copy | `DeviceState` |
| `DevicePublication` | observed events, scan and restore, flush, send and settle | `DeviceState` |
| `Enrollment` | the traversal of the manifest with its checkpoint, and the first upload | the two above |
| `DeviceSync` | the cycle, the replay of the feed, and the vault that executes requests | `Enrollment` |
| `BinaryDevice` | files of bytes, conflict and recovery copies, the plan in the journal; the user, other writers, pruning, restarts | |
| `BinaryApply` | a remote put of bytes, from the row to the confirmed base | `BinaryDevice` |
| `BinaryRename` | tombstones, text over bytes, and renames, once the copies are made | `BinaryApply` |
| `BinarySync` | the three together, and the properties | `BinaryRename` |
| `VaultProofs` | lemmas on one publication and one retention batch, and theorems on the authority, its tables and its readers | `VaultAuthority`, `VaultReads` |
| `VaultWorkProofs` | theorems on the background work | `PackedExport`, `VaultAlarm` |
| `BinarySyncProofs`, `BlobCollectionProofs`, `ClientRegistryProofs`, `DeviceSessionProofs`, `DeviceSyncProofs`, `PluginControlProofs` | theorems on the module of that name | that module |

`MC*` modules give the constants values for TLC, and hold nothing else.

### How the state and the actions correspond to the code

*Files.* `files[p]` is the row of a path with its revision, sequence and text; rev 0 is no row.
`revisions`, `changes` and `receipts` are the tables of those names. A text is a sequence of tokens
so that a lost or repeated append shows; hashes, sizes and ETag spelling are left out (an ETag is a
revision, since the epoch never changes). `Publish` is `publishText`, `publishRename`,
`publishRestore` and their feed rows and counters; `PreconditionFailure` and `PublishFailure` are
the checks of the commit transaction.

*Requests.* `pc[r]` is where a Worker invocation stands between RPC calls: `begin`, `body`,
`authorize`, `commit`, and for an append `digest`, then `finish`. Each action is one transaction
and the answer it gives; `ReplyOrLose` is the RPC whose reply may be lost after it committed.
`Crash` is a Worker that is gone, `RpcFails` a call that never ran. A request may retry another's
key with the same or another intent, at the same time or later.

*Blobs.* `upload[u].at` is the await an upload stands at, with the evidence it holds; `collector[c]`
the same for a `collectBatch` call. `marks`, `generation`, `run` and `claim` are the `blob_gc`
table and its meta keys. `Restart` is a new instance: calls are gone, an active claim becomes
unknown, and deletes in flight become `late`. `garbage` is a history variable.

*Exports.* `exports[id]` is the row with its frozen files, emitted bytes, pending bytes and part
receipts; `job` the step in flight with the row it loaded. Every update compares the cursor.
`late` holds multipart calls R2 may still carry out. `captured` is a history variable.

*Alarm.* `slot` is `getAlarm()`, as how soon it is due. An action is what runs between two awaits;
`call[c].saw` is what a handler decided before its await and uses after it.

*Device.* One text path, synced in text puts and deletes. `local` is the file, `copies` the conflict
copies, each with the revision `at` in its name and its text, `trashed` Obsidian's trash. `mem` is the journal's verified state
and `disk` its document: `Save` is `commit`, which may fail after the disk was written or before, and
then leaves `mem`, sets `blocked` (`attentionReason`) and throws, so that the task ends. `events` are
the events that `DesktopSyncController` has not drained, its head retained while it fails. `task` is
where the one running task is: `pc` the await it stands at, `rest` the stages left of
`resume, scan, flush, replay`; a 412 puts a replay and a rejection in front of them. `wire` holds
requests that may still be executed although nobody waits for them. `feed` is the vault, with each
row's key; `Execute` finds a receipt by key, then decides by the precondition, as `VaultPromise` does.
A device starts in sync (`Enrolled`), or without cursor, epoch and base, over a file of its own or
none (`Fresh`). A text stands for its bytes and its hash, a revision for an ETag of the one epoch. Where the code
reads a file and then commits what it decided, the two are one action: a user's edit in between
commutes with the commit. Before every write, copy and move to trash they are separate, since the
effect looks at the file again. `mine`, `shown` and `knew` are history variables: the texts the
user saved and did not overwrite himself, the newest revision the file has shown him, and the one it
had shown when he last saved. The manifest that tells a superseded delete row is taken as of that row;
the commit of a rebased apply does not fail; a device that was revoked is not modelled.

*Enrollment.* The manifest is one page with at most the row of the path; `check` is the checkpoint
the journal holds, with the stage, the head it was taken at, and what is left of the page and of the
list of local files. `floor` is what retention deleted of the feed: a cursor below it is expired, and
the replay goes to the manifest. `task.for` says what an apply belongs to: a feed row, the
manifest's row, or one that was pending when the traversal began. `adopted` is a history variable:
revisions that were taken for the device's own first upload because they have its text. So is
`undone`: the bases whose text an apply of an older row has taken from the file.

*Bytes.* `visible` and `hidden` are the conflict copies and the recovery copies under
`.ai-bridge/pre-apply`, by name and by content. The journal's plan (`a.plan`) is named before a
copy is made. `touched` holds the paths written since the stat pair the engine compares with: a pair
notices every write. `scene` picks what is examined: plain files, settings files (whose spelling is
not checked), text rows over bytes, or renames. `raced` holds what the user saved in the window that
`docs/spec.md:442` accepts, between the last stat and the write, and what was in a copy that he changed
after the engine had found it there (`CopiesFound`): the engine does not look at its copies twice.

*Registry, session and lifecycle.* Consents and grants share a number, since one authorization ends
each consent; the owner's posts and a token exchange stand at the KV or SQLite call that comes next.
In `DeviceSession` a credential is a client and the number of its refresh token; a generation that
was left behind is the flag `live`. In `PluginControl`, a task of `effects` or `updates` carries what
it will compare when it goes on (its update, controller, composition), and each action that
replaces one of these clears the flag in every task that waits.

## Runs

Every run finishes within a few minutes with two workers.

| Run | Shows | Instance |
|---|---|---|
| `authority_keys` | at most one publication per timed key, true answers, owned claims, bounded ledger | 3 requests retrying one keyed append, lost replies, crashes, leases of two ticks, three clock ticks |
| `authority_append` | refinement of `VaultPromise`, no live aliases, bounded texts, revocation; every invocation answers | appends of two clients around their digest, and put, rename, delete, restore under an opaque key on a path and its case variant, under fairness |
| `reads_paged` | a caught-up client is current and an accepted cursor misses nothing; counters, revision numbers and feed stay consistent through retention | two paths that are aliases, pages of one row, three publications, a clock of 0..2 that may go back, one pin |
| `blob_collection` | nothing referenced is deleted; a finished run swept; deletes are fenced | one path, two hashes, two uploads, two calls, pages and batches of one, two runs |
| `export_archive` | the archive is the cut; frozen work stays intact; the export ends | two paths, a text and a two-unit blob, steps of two, parts of three, two interrupted calls |
| `alarm_slot` | work is armed and ends | two owner calls and the alarm, exports and runs of two steps, two faults |
| `owner_access` | nothing of a recalled consent is usable; a current one stands; leftovers stay listed | one client, two consents, one of them under a legacy prefix, one exchange, two posts, one fault |
| `device_session` | credential and journal name one client; what is stored can be refreshed; the status is true | two callers, two clients, three tokens, two faults, three turns of the owner |
| `plugin_control` | a paused device starts nothing; a connected one runs; a wider policy is read before its duty is cleared | four acts of the owner, two faults |
| `device_sync` | no edit is lost; bases are true; the cursor leaves nothing behind; a key is one request; nothing unseen is overwritten; deletes follow events | two texts, five keys that are used again; up to three edits, two foreign writes and two faults (restart, lost or refused request, pruned revision, deleted feed rows, failed journal write), four of these changes together, three before a first enrollment |
| `device_settles` | left alone, the device converges, or waits for its owner, or is in one of two states found faulty | up to one edit, two foreign writes (so that a pinned revision can be pruned while it is applied) and one fault, three of these changes together, two before a first enrollment; under fairness |
| `device_binary` | no saved bytes are lost; a base is what the path held; an apply stops only for an edit or in five known cases | three contents, four scenes, two rows, two edits, one restart, the code's six copies in a plan |

*Why the bounds are enough.* The properties concern pairs: two requests of a key, an append and a
writer, an upload and a collection call, a page and a move across it. Each instance has one actor
more than the pair where that is affordable, and each limit (client slots, cleanup batch, page,
batch, part) is small enough to be hit. The clock bound lets a receipt, a lease and a key's window
all end. Numbers beyond the second repeat situations that the first two already meet.
In `device_sync` and `device_settles` the edits, foreign writes and faults share one bound
(`MaxChanges`; `FreshChanges` for a device that was never enrolled, which meets a traversal and so
more steps for each change): the initial states hold every mixture of that many changes. Feed rows
are deleted only when the device is about to read them, since nothing else reads what is deleted.
The bounds on runs, publications, clocks and faults are in the guards and are named `Max*` or `Last*`.

*Deadlock* is not checked where the model really comes to rest: at a clock or publication bound, or
when all requests have ended; in `owner_access`, `device_session`, `plugin_control` and `device_binary`
when nobody may act or fail any more. `alarm_slot`, `device_sync` and `device_settles` check it.

*Mutants.* For each property there is a plausible fault of the code, `X_Fault` next to the operator
`X` it replaces (a forgotten check, a reversed order, a released claim), that violates it. They are
not used by the specifications.

### What the runs found

Each is in `PROJECT.json` with the lines it quotes. The property of a passing run excepts the state
described, by the definition named here; without the exception TLC finds the state (for `undone`, on
the larger instance given there).

- `Withheld` (`Settles`): `prepareSend` refuses while `attentionReason` is set, and only a later
  commit that verifies clears it (`device-journal.ts:640`). When the write that fails is the one
  that resolves a sent put, or sets its retry, nothing is left to be written: the scan finds the put
  pending, the replay stops at the sent operation, and each cycle ends at `prepareSend`. The put
  stays sent until the user edits again or restarts, against `docs/spec.md:471`.
- `Outrun` (`Settles`): an apply that waits for its owner at `named` or `copied` is not checked for
  obsolescence when it is resumed (`text-apply.ts:2160`). Meanwhile the base can advance: a manifest
  row whose text the file holds sets it (`reconciliation.ts:517`), and a first upload over a
  tombstone publishes. The resumed apply writes or trashes the file after an obsolete row, and its
  completion is refused in every cycle (`device-journal.ts:593`), which ends there.
- `undone` (`KnownOverwrites`): the same apply compares the file with the base that has outrun it, or
  with its copy (`text-apply.ts:2732`), and then takes the newer text from the file, against
  `docs/spec.md:721` ("an obsolete revision never overwrites"). If its owner then changes or deletes the
  conflict copy, the apply only asks for attention, and the next scan publishes the obsolete text over
  the newer revision, which the device has as its base. The proof of `KnownOverwrites` met this
  first. `device_sync` is too small for it: without `undone`, TLC finds the violation (56 states,
  two minutes) with three texts, `MaxEdits = 2`, `MaxWrites = 1`, `MaxFaults = 1`, `MaxChanges = 0`
  and `FreshChanges = 4`.
- `DeletesFollowEvents`: `scan` restores in every cycle, not only at startup
  (`docs/spec.md:470`), and does not look at the events that wait. A cycle that was started before
  the user deletes a file, and reaches its scan after, brings the file back
  (`publication.ts:262`); `observe` then drops the event. The delete is never published.
- `lapsed` (`StatusTrue`): a refresh that fails because the network fails sets the status
  `reconnect`, which nothing but a sign-in, a cancel or a restart takes back
  (`device-session.ts:476`), and which keeps a paused device from being resumed.
- `lost` (`ConnectedRuns`): a settings policy or a server update that is superseded while it waits
  leaves the loop paused or closed (`main.ts:622`, `:200`). So does a policy that has paused the loop and
  cannot be saved while the window is hidden: the handler resumes only a visible window (`main.ts:638`),
  a resume is kept for later only after a save (`:717`), and a paused controller does nothing when the
  window is shown again (`desktop-sync.ts:238`). A 401 to a request of an old client
  revokes a device that has signed in again (`main.ts:1021`).
- `KnownStop` (`StopsOnlyForEdits`): an inline replacement that was interrupted after its trash or
  create stops for good (`text-apply.ts:2203`); so do a put whose revision was pruned and whose path
  was deleted after its write (`:2560`), a plan that has no room for the two copies of one version more
  (`:1854`, at `MAX_PENDING_CONFLICT_COPIES`; it takes more rows and edits than the run's), a remote copy
  whose revision is pruned (`:2083`), and a rename whose destination was deleted (`:1136`) or rewritten.

Two behaviours that hold no property but were met on the way: an apply that waits for its owner notes
attention again in each cycle, and once the cursor has passed its row every later row of the
feed ends the cycle with "Another remote apply is pending" (`text-apply.ts:302`), so that one
unresolved path holds up the others; and an export that is pending may be put off by the alarm that
a collection sets (`vault.ts:283`), which `JobsEnd` shows to be a delay only.

## Fairness

Safety runs assume none. `authority_append` assumes that a started Worker invocation goes on
(the platform runs it, or it crashes and is out); nothing forces the clock, a client or the alarm.
`export_archive` assumes that the alarm keeps running steps and R2 answers. `alarm_slot` assumes
that an alarm which is set fires, which the platform guarantees, and that R2 answers calls in
flight. Faults are bounded: an R2 that never works keeps any export pending. `device_settles`
assumes that a started task goes on (`TaskStep`), that polls start cycles
(`schedulePolling` renews its interval), that requests under way arrive, and, strongly, that events
are drained (`syncNow` drains before it starts a cycle, so that polls cannot starve events) and that
an operation whose retry is due is taken (the deadline is at most five minutes away).

## Assumptions about the outside

- A rejected R2 delete is settled and has no effect later (`docs/api/blob-gc.md`); the delete of an
  instance that died is not.
- R2 reads are consistent: a HEAD sees a completed PUT or delete.
- A part's ETag is determined by its bytes, so a part that was put again completes under its first
  receipt.
- R2 keeps a multipart upload open while the export makes progress.
- The window of an idempotency key and its allowed skew end before its receipt is deleted
  (`WindowAssumption`; 25 days and 5 minutes against 30 days in the code).

- Obsidian sends no event for a write of the text that a file holds already; a stat pair (time and
  size) differs after every write of bytes.
- A refresh whose answer was lost is settled at the provider before the next one is sent, and a second
  callback is not answered before the journal's wait of a superseded one ends.

## Limits of the device models

- `Enrollment`: one path, one manifest page, one epoch that is learned once; the duty to read
  settings files is in `PluginControl`, uploads of bytes are not modelled.
- `TextApply`: the commit of a rebased apply does not fail, and a second rebase of one apply, which
  the code refuses, is out of reach of the bounds; an attention and the conflict it is about are
  written in one step.
- `DevicePublication`: a delete that discards queued puts and follows a sent create commits both at
  once, and reading the revision that `restoreMissing` writes does not fail.
- `BinaryDevice` and what extends it: journal commits do not fail; `expected_writes`, stale bases after
  an epoch change, copies of text plans (`prepareBlobRecovery`), current-authority applies and the
  text destination of a rename of bytes are left out; the text engine's create onto an absent path
  is one step; recovery copies age only while an apply is pending; preserving a settings file is
  one step.
- `PluginControl`: the code of an unloaded plugin that still waits is modelled only by what `Restart`
  may keep of a write; the loop's cycle is one request. `DeviceSession` leaves out PKCE, discovery
  and the requests themselves.

## Proofs

`VaultProofs` first states once what a publication and a retention batch do to the tables, for any
paths, limits, rows and pins: types, the numbers given to revisions and feed rows, the count of live
files, and that no two live rows stand for one name. Together (`TablesInv`) they are an invariant
of everything that publishes, and the proofs about the authority and about its readers rest on them.

Then, for any requests, grants, keys, limits and times of `VaultAuthority`:

- `AtMostOnceHolds`. The invariant ties each publication under a timed key to its receipt, or to a
  clock that has left it by more than the retention. A second commit finds no receipt and is inside
  the key's window; `WindowAssumption` makes the two incompatible. `AtMostOnce` alone is not
  inductive: it does not say why the receipt is still there.
- `RevocationHolds`, an action property from the check inside the commit transaction.
- `ClaimsOwnedHolds`: claims point to rows of the same client; the cleanup deletes both or neither.
- `AdmissionsBoundedHolds`: from cardinalities of the unexpired slots before and after a reserve.
- `TypeOKHolds` and `NoLiveAliasesHolds`, from `CoreInv`: the tables, the requests with what each has
  read, and that no text grows past the limit. An append computes its text from a snapshot, so its
  part says that the snapshot is a text, and that it and the appended one fit once the digest is under way.
- `AnswersTruthfulHolds`. What is answered from a receipt was published by somebody else, so the
  invariant says of every receipt which publication left it, and that a request which has yet to
  commit, or was refused, published nothing.
- `PromiseKept`, the refinement of `VaultPromise`, step by step: a commit that publishes maps to one
  atomic conditional write of the abstract vault, and every other step, retention included, to a stutter.

And for any paths, limits, pages, batches, pins and clocks of `VaultHistory` and `VaultReads`: `TablesAgreeHolds` (every
sequence is in the feed or behind the boundary, and the row of a file row's sequence reports it),
`RetentionSafeHolds`, and `ReaderIsCurrentHolds`, whose invariant is about a client that is part of
the way: a row that the traversal has passed is known, or was written after its ceiling, and then it
comes in the feed.

`BlobCollectionProofs`, for any paths, hashes, uploads, calls, page and batch sizes, runs and
restarts: `ReferencedStoredHolds`, `MarkedUnreferencedHolds`, `DeletesAreFencedHolds`. The invariant
adds to the three that (a) what an upload saw of its object is true as long as its fence holds:
whatever changes the marks moves the generation, and nothing unmarked is deleted; and (b) as long as
a late delete exists the claim is unknown, so that no call clears its marks. Neither
`ReferencedStored` nor `MarkedUnreferenced` is inductive without them: a mark could be cleared while
a delete is on its way, and an upload that saw the object before would then publish.
`FinishedRunSweptHolds` has an invariant of its own (`Sweep`): garbage behind the cursor is marked, a
call that has listed for this run holds the garbage between its cursor and the next one, and what
a call clears it has deleted. It uses that R2 lists in an order (`HashesAssumption`).

`ClientRegistryProofs`, for any clients, consents, exchanges, posts, limits and failures:
`RecalledNeverUsableHolds`, `CurrentConsentStandsHolds`, `LeftoversStayListedHolds`. The invariant
(`RegistryInvHolds`) adds what each leaves unsaid: (a) before a token is issued its grant is on record
or denied, so that a revocation which reads the records misses none; (b) a recalled consent is never
admissible again, although a client that was removed and came back starts at
generation 0; (c) a cleanup works on denied grants only, and what its earlier steps did not find or
have deleted comes back only by an exchange that the denial overtook (`late`). Without (c)
`LeftoversStayListed` fails at the step that marks a grant complete.

`DeviceSessionProofs`, for any callers, clients, tokens, failures and turns, from
`SessionAssumption` (the clients are 1..n, in the order of their registration): `IdentityAgreesHolds`,
`SessionUsableHolds`. The invariant (`SessionInvHolds`) adds that (a) a client that signs in is newer
than everything in memory, on disk, in the journal and in a refresh, so that no stale answer can be
taken for one of its own; (b) one refresh is in flight, and starts from what is stored if that is of
its client; (c) a callback that waits for the journal has replaced the stored credential by its own
and remembers the one in memory, which a failed write puts back. `StatusTrueHolds` follows the status
through the attempts on top of it: what an attempt that ends tells agrees with what it leaves.

`DeviceSyncProofs`, for any texts, keys, edits, writers and faults, from `DeviceAssumption` and
`AbsentAssumption`, and whatever the queue of the journal holds:

- `JournalInv` says of the journal in memory and on disk that the keys of a queue are distinct, that
  what a request or a feed row has under a key of the queue is what the queue has under it, that base
  and apply are rows of the feed, and that the two documents differ only after a write that did not
  verify. Its last part, `TaskInv`, is what the task has decided and has yet to do: an operation under
  way is in the queue, and sent before it goes out; an answer is a row with the operation's text; a
  write takes only a text that may go. `BaseTrueHolds` and `SameKeySameRequestHolds` follow. Without the part
  about the answer, the base of a receipt need not be a row; without the one about the
  documents, a restart after a failed write could send another request under a key on the wire.
- `DeletesFollowEventsHolds`, an action property: every other step than a drained event is shown to
  leave no delete in the queue that was not in it, a restart to take the queue of the disk.
- `CursorCoveredHolds`. `CoverInv` says the same of the head that a traversal of the manifest will set
  the cursor to, from the stage that follows its row on, and of the row that the task is at: while its
  apply is pending it is that of the apply, and after it the base is not behind it. `CursorCovered` is not inductive
  alone: at the step that sets the cursor nothing else says that the row is dealt with.
- `KnownOverwritesHolds`, an action property. A head that the user has not seen, and that is in neither
  exception (`Unseen`), is replaced only by what was queued over it or rebased to it, several steps
  before. The invariant (`SeenInv`) says that while such a row is the base and the user has not saved,
  the file holds its text, or is gone with no event that says so (`Waiting`), so that nothing is queued
  over it; that what is queued, or on the wire, continues from a revision its user knew, or from one of
  the device's own (`DocSeen`, `Known`); and of the task, what makes the row it is about to set as the base
  one that the file has held (`TaskSeen`, `Landed`). Without `undone` it is not inductive: that is the
  finding above.
- `NoEditLostHolds`. Only a compare-and-write can take a text away. `TaskInv` says that what it expects in
  the file is nothing, the text it writes, the base's, or that of the copy; `CoverInv`, that a base which is
  a text is a row; and the copy holds it still, unless its owner has changed it since (`Overwrites`).

`PluginControlProofs`, for any policies, acts and faults, from `ControlAssumption`. `DutyCoversHolds` and
the action property `PausedStartsNothingHolds` (the latter also of a hidden window) follow from what
memory and the stored settings say of each other, and from what an open controller says of Pause
(`ManifestInv`, `LoopInv`). `ConnectedRunsHolds` is about a plugin at rest, and nothing in a state at
rest says why its loop is not paused. The invariant says it of every state (`DebtInv`): as long as a
connected device has a paused controller, somebody is on his way to resume it, and has not lost the
right to (`lost` names those who have): a resume in the queue that no later Pause has overtaken, the
name or policy update that paused the loop, or a resume kept for the time the window is shown again.
That the debtor is still the newest when he comes needs two more facts: one settings update at a time has an effect in
the queue (`QueueInv`), and a name and a policy are never both the newest update (`NewestInv`).

`BinarySyncProofs`, for any bytes, edits, rows, copies, scenes, limits and restarts, from `BinaryAssumption`:
`TypeCorrect`, `BytesKept` (`NoBytesLost`) and the action property `ConfirmedOnlyHeld` (`BaseConfirmed`).
`NoBytesLost` can only fail where the host writes over a file, moves one onto it or trashes it, and there nothing else in the
state says that the bytes are kept: their copies were looked for some steps before. The invariant
(`Invariance`) says of the bytes the task has seen what it knows of them at each step (`SeenInv`: they
are clean, and then a row of the vault, or their copy was found), that recovery copies do not age
while a task is under way but for those that its plan makes fresh (`HiddenInv`), and what each step of
a rename has already checked of its two sides (`RenameInv`). `BaseConfirmed` needs of a remote
copy in the plan that, once it has its name, the path has held its bytes (`PlanInv`).

`VaultWorkProofs`: `CollectionIsArmedHolds`, for any owner calls, exports, pages, runs and failures;
and for any paths, contents, sizes, exports, writes and faults, from `ExportAssumption`,
`DownloadIsSnapshotHolds` and `WorkIntactHolds`. Neither is inductive: nothing in them speaks of a call
that was sent before a crash and that R2 carries out when another step has gone on. The invariant
(`ExportInvHolds`) says it of everything that holds bytes: of the row (`ActiveInv`), of what R2 has
stored (`UploadInv`), of the step in flight, which has read on from the cursor exactly as far as its
next call needs (`JobInv`), and of each late call (`LateInv`): its parts are the cuts of the one
archive of what was captured, at most one more than R2 has, and all of them if it completes. So a part that is put twice is the same part, and
a late completion builds the same archive. `RevisionInv` and the pins give that a unit read late is
the one captured. The lemmas before it say what flattening a sequence of cuts gives (by a least
counterexample, as the prover has no induction) and how segments of a sequence join.

Only model-checked: liveness (requests, exports, collections and the device) and `ENABLED`, which are
out of the prover's reach; and `StopsOnlyForEdits` of the device on bytes.

## Plan

1. *Done:* the authority (files, ledger, retention, requests, promise, reads), blobs, export, alarm,
   registry, session, lifecycle, and a device on one path: text from its first enrollment on, and
   remote rows over bytes, renames included.
2. Queued renames of a device: `operationsConflict`, `recoverStaleRename` and
   `reconcileRenameDestination`; path collisions and `applyRename` for text.
3. A changed epoch (`resetEpoch` over bases and a queue) and manifests of several pages, against the
   pages of `VaultReads`; coexistence confirmations and the effect fence.
4. Abstract specification of a device: every saved text reaches the vault once, or stays where its
   owner finds it; `DeviceSync` as its refinement.
5. Proof of `StopsOnlyForEdits` of the device on bytes.

## Not modelled

HTTP parsing and response wording, ZIP and hash bytes, the full-text index, measurements, owner
pages and MCP tool text: they hold no state that a step could leave wrong. Schema migrations run in
one transaction before anything else. JWT and OAuth token checks are those of libraries. Read and body
budgets are counters around streams of one isolate. The deployment scripts and the desktop acceptance
runner are not parts of the running system.
