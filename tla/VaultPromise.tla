----------------------------- MODULE VaultPromise -----------------------------
(***************************************************************************)
(* What the vault promises its clients: every publication is one atomic     *)
(* conditional write on the heads of its paths.  There are no admissions,   *)
(* receipts, retries, snapshots or crashes here; those are how the          *)
(* authority keeps this promise.                                            *)
(***************************************************************************)
EXTENDS Integers, Sequences

CONSTANTS Paths, PathKey, Grants, GrantClient, OpaqueKeys, NoKey, Calls

VARIABLES
  heads,   \* [Paths -> [rev, live, text]]
  past,    \* every text that ever was a head: [path, rev, text]
  done,    \* <<client, key>> pairs that have published
  barred   \* revoked grants

vars == <<heads, past, done, barred>>

Init ==
  /\ heads = [p \in Paths |-> [rev |-> 0, live |-> FALSE, text |-> <<>>]]
  /\ past = {} /\ done = {} /\ barred = {}

\* The state an intent demands of its path.
Holds(i) ==
  LET h == heads[i.path]
  IN /\ i.pre = "match" => h.rev = i.rev /\ h.rev > 0
     /\ i.pre = "absent" => ~h.live
     /\ i.op \in {"append", "rename"} => h.live
     /\ i.op = "restore" /\ ~i.copy => ~h.live
     /\ i.op = "rename" => ~heads[i.to].live

\* The texts an intent may leave at its target.
Results(i) ==
  CASE i.op = "put"     -> {i.text}
    [] i.op = "delete"  -> {<<>>}
    [] i.op = "append"  -> {heads[i.path].text \o i.text}
    [] i.op = "rename"  -> {heads[i.path].text}
    [] i.op = "restore" -> {v.text : v \in {w \in past : w.path = i.path /\ w.rev = i.sourceRev}}

Successor(i, p, text) ==
  LET target == IF i.op = "rename" THEN i.to ELSE i.path
  IN CASE p = target -> [rev |-> heads[p].rev + 1, live |-> i.op # "delete", text |-> text]
       [] p = i.path /\ p # target -> [rev |-> heads[p].rev + 1, live |-> FALSE, text |-> <<>>]
       [] OTHER -> heads[p]

NoAliases(h) ==
  \A p, q \in Paths : h[p].live /\ h[q].live /\ PathKey[p] = PathKey[q] => p = q

Apply(c, text) ==
  LET i      == c.intent
      target == IF i.op = "rename" THEN i.to ELSE i.path
      name   == <<GrantClient[c.grant], c.key>>
  IN /\ c.grant \notin barred /\ name \notin done
     /\ Holds(i) /\ text \in Results(i)
     /\ heads' = [p \in Paths |-> Successor(i, p, text)]
     /\ NoAliases(heads')
     /\ past' = past \cup (IF i.op = "delete" THEN {}
                           ELSE {[path |-> target, rev |-> heads[target].rev + 1, text |-> text]})
     /\ done' = done \cup (IF c.key \in OpaqueKeys \cup {NoKey} THEN {} ELSE {name})
     /\ UNCHANGED barred

Bar ==
  /\ barred \subseteq barred' /\ barred' \subseteq Grants
  /\ UNCHANGED <<heads, past, done>>

Next == Bar \/ \E c \in Calls : \E text \in Results(c.intent) : Apply(c, text)

Spec == Init /\ [][Next]_vars

=============================================================================
