------------------------------ MODULE VaultReads ------------------------------
(***************************************************************************)
(* Paged reads of the vault: a client traverses the manifest page by page,  *)
(* then follows the changes feed from the head it was given.  Every batch   *)
(* is a transaction of its own (readVault, readBatch), so files change,     *)
(* move and are pruned between any two batches.                             *)
(***************************************************************************)
EXTENDS VaultHistory

CONSTANTS
  PathOrder,  \* the position of a path in SQLite's ORDER BY path
  PageRows    \* rows of one batch: at most 64, one more is read ahead

ASSUME PagesAssumption ==
  /\ PathOrder \in [Paths -> Nat \ {0}]
  /\ \A p, q \in Paths : PathOrder[p] = PathOrder[q] => p = q
  /\ PageRows \in Nat \ {0}

VARIABLES
  phase,    \* "start", "manifest" or "feed"
  cursor,   \* order of the last manifest path, or the last feed sequence
  ceiling,  \* head_seq captured when the traversal began
  knows     \* [Paths -> the newest revision the client was told]

readVars == <<phase, cursor, ceiling, knows>>
systemVars == <<historyVars, readVars>>

ReadsInit ==
  /\ HistoryInit
  /\ phase = "start" /\ cursor = 0 /\ ceiling = 0
  /\ knows = [p \in Paths |-> 0]

MaxOf(s) == IF s = {} THEN 0 ELSE CHOOSE m \in s : \A n \in s : n <= m
MinOf(s) == IF s = {} THEN 0 ELSE CHOOSE m \in s : \A n \in s : m <= n

\* feedFloor: the first sequence a cursor may still ask to follow, from the
\* rows that are left, the rows that expired but are still there, and the
\* boundary of the rows that are gone.
FeedFloor ==
  LET old   == {c.seq : c \in {d \in changes : d.at < now - Retention}}
      young == {c.seq : c \in {d \in changes : d.at >= now - Retention}}
      timed == IF old = {} THEN MinOf(young) ELSE MaxOf({MinOf(young), MaxOf(old) + 1})
  IN IF head = 0 THEN 0 ELSE MaxOf({timed, prunedFeed})

Expires(since) == since < FeedFloor - 1

\* The first PageRows members of a set of numbers, in order.
Page(s) == {n \in s : Cardinality({m \in s : m <= n}) <= PageRows}

Learn(told) == knows' = [p \in Paths |-> MaxOf({knows[p]} \cup {v[2] : v \in {w \in told : w[1] = p}})]

\* openManifestRead without a token: the head is captured, then rows follow.
StartManifest ==
  /\ phase = "start"
  /\ phase' = "manifest" /\ cursor' = 0 /\ ceiling' = head
  /\ knows' = [p \in Paths |-> 0]

\* One manifest batch after the last path, tombstones included.
ReadManifest ==
  LET after == {n \in {PathOrder[p] : p \in {q \in Paths : HasRow(q)}} : n > cursor}
      rows  == {p \in Paths : HasRow(p) /\ PathOrder[p] \in Page(after)}
  IN /\ phase = "manifest" /\ ~Expires(ceiling)
     /\ Learn({<<p, files[p].rev>> : p \in rows})
     /\ IF Page(after) # after
        THEN cursor' = MaxOf(Page(after)) /\ UNCHANGED phase
        ELSE cursor' = ceiling /\ phase' = "feed"
     /\ UNCHANGED ceiling

\* openChangesRead's readVault: a new ceiling for the next feed page.
CaptureHead ==
  /\ phase = "feed" /\ ceiling' = head /\ ceiling' # ceiling
  /\ UNCHANGED <<phase, cursor, knows>>

\* One feed batch: a rename reports the tombstone it left as well.
ReadFeed ==
  LET after == {c.seq : c \in {d \in changes : d.seq > cursor /\ d.seq <= ceiling}}
      rows  == {c \in changes : c.seq \in Page(after)}
  IN /\ phase = "feed" /\ cursor < ceiling /\ ~Expires(cursor)
     /\ Learn({<<c.path, c.rev>> : c \in rows} \cup
              {<<c.fromPath, c.fromRev>> : c \in {d \in rows : d.op = "rename"}})
     /\ cursor' = MaxOf(Page(after) \cup {cursor})
     /\ UNCHANGED <<phase, ceiling>>

\* 410 cursor_expired sends the client back to a full traversal.
CursorExpired ==
  /\ \/ phase = "manifest" /\ Expires(ceiling)
     \/ phase = "feed" /\ Expires(cursor)
  /\ phase' = "start" /\ UNCHANGED <<cursor, ceiling, knows>>

ReadNext == StartManifest \/ ReadManifest \/ CaptureHead \/ ReadFeed \/ CursorExpired

ReadsNext ==
  \/ HistoryNext /\ UNCHANGED readVars
  \/ ReadNext /\ UNCHANGED historyVars

ReadsSpec == ReadsInit /\ [][ReadsNext]_systemVars

-----------------------------------------------------------------------------
\* A client that has finished the manifest and read the feed up to the head
\* was told the current revision of every path, however the pages interleaved
\* with renames across the page boundary, deletions and retention; and a cursor
\* that the feed still accepts has lost nothing: every publication after it is
\* still in the feed.
CaughtUpIsCurrent ==
  phase = "feed" /\ cursor >= head => \A p \in Paths : knows[p] = files[p].rev
AcceptedCursorIsComplete ==
  phase = "feed" /\ ~Expires(cursor) =>
    \A seq \in (cursor + 1)..head : \E c \in changes : c.seq = seq
ReaderIsCurrent == CaughtUpIsCurrent /\ AcceptedCursorIsComplete

=============================================================================
