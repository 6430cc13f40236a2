--------------------------- MODULE MCVaultAuthority ---------------------------
(***************************************************************************)
(* Instances of VaultAuthority for TLC.  Each run picks one set of calls.   *)
(***************************************************************************)
EXTENDS VaultAuthority, TLC

CONSTANTS c1, c2, g1, g2, k1, k2, o1, r1, r2, r3, pa, pA, pb, ta, tb

\* pa and pA differ only in case.
MCPathKey == [p \in Paths |-> IF p = pA THEN pa ELSE p]
MCGrantClient == [g \in Grants |-> IF g = g2 THEN c2 ELSE c1]
SameClient == [g \in Grants |-> c1]
AllScopes == [g \in Grants |-> {"write", "delete"}]
WriteOnlyG2 == [g \in Grants |-> IF g = g2 THEN {"write"} ELSE {"write", "delete"}]
KeyTimes == [k \in Keys \ OpaqueKeys |-> 1]
Symmetry == Permutations(Requests)

Base == [op |-> "put", path |-> pa, to |-> NoPath, pre |-> "absent", rev |-> 0,
         text |-> <<ta>>, sourceRev |-> 0, copy |-> FALSE]
Create(p) == [Base EXCEPT !.path = p]
Put(p, n) == [Base EXCEPT !.path = p, !.pre = "match", !.rev = n, !.text = <<tb>>]
Delete(p, n) == [Base EXCEPT !.op = "delete", !.path = p, !.pre = "match", !.rev = n, !.text = <<>>]
Add(p, t) == [Base EXCEPT !.op = "append", !.path = p, !.pre = "none", !.text = <<t>>]
AddAt(p, n, t) == [Add(p, t) EXCEPT !.pre = "match", !.rev = n]
Rename(p, n, q) == [Base EXCEPT !.op = "rename", !.path = p, !.pre = "match", !.rev = n,
                                !.to = q, !.text = <<>>]
Restore(p, n, s, c) == [Base EXCEPT !.op = "restore", !.path = p, !.pre = "match", !.rev = n,
                                    !.text = <<>>, !.sourceRev = s, !.copy = c]
Ask(g, k, i) == [grant |-> g, key |-> k, intent |-> i]

\* A file is created, and one append is sent and sent again under its key.
KeyCalls == [r \in Requests |-> {Ask(g1, NoKey, Create(pa)), Ask(g1, k1, Add(pa, tb))}]

\* A file is created; then appends of two clients, under keys that look alike, race
\* with each other and with every other kind of command about the file, its alias and
\* its tombstone, one of them under a key that carries no time.
FileCalls == (r1 :> {Ask(g1, NoKey, Create(pa))})
             @@ (r2 :> {Ask(g1, k1, Add(pa, ta)), Ask(g1, o1, Rename(pa, 1, pA))})
             @@ (r3 :> {Ask(g2, k1, AddAt(pa, 1, tb)), Ask(g2, NoKey, Put(pa, 1)),
                        Ask(g1, NoKey, Restore(pa, 2, 1, FALSE)), Ask(g1, NoKey, Delete(pa, 1))})
=============================================================================
