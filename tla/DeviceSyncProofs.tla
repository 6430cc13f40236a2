--------------------------- MODULE DeviceSyncProofs ---------------------------
(***************************************************************************)
(* Proofs about the device that syncs one text path, for any texts, keys    *)
(* and bounds.                                                              *)
(***************************************************************************)
EXTENDS DeviceSync, FiniteSetTheorems, WellFoundedInduction, TLAPS

-----------------------------------------------------------------------------
(* Sequences of anything.                                                   *)

IsSeq(s) == s \in Seq({s[i] : i \in DOMAIN s})

\* A sequence is defined from 1 to its length.
LEMMA SeqFacts ==
  ASSUME NEW s, IsSeq(s)
  PROVE  Len(s) \in Nat /\ DOMAIN s = 1..Len(s)
BY DEF IsSeq

\* What is defined from 1 to a number is a sequence of that length.
LEMMA SeqOf ==
  ASSUME NEW s, NEW n \in Nat, s = [i \in 1..n |-> s[i]]
  PROVE  IsSeq(s) /\ Len(s) = n
<1> DEFINE S == {s[i] : i \in DOMAIN s}
<1>1. DOMAIN s = 1..n
  OBVIOUS
<1>2. s \in [1..n -> S]
  BY <1>1
<1>3. s \in Seq(S)
  BY <1>2
<1>4. QED
  BY <1>1, <1>3 DEF IsSeq

\* Append keeps what was there, and adds one element.
LEMMA AppendFacts ==
  ASSUME NEW s, IsSeq(s), NEW e
  PROVE  /\ IsSeq(Append(s, e)) /\ Len(Append(s, e)) = Len(s) + 1
         /\ \A i \in 1..Len(s) : Append(s, e)[i] = s[i]
         /\ Append(s, e)[Len(s) + 1] = e
<1> DEFINE S == {s[i] : i \in DOMAIN s} \cup {e}
           t == Append(s, e)
<1>1. s \in Seq(S)
  BY SeqFacts DEF IsSeq
<1>2. /\ t \in Seq(S) /\ Len(t) = Len(s) + 1
      /\ \A i \in 1..Len(s) : t[i] = s[i]
      /\ t[Len(s) + 1] = e
  BY <1>1
<1>3. DOMAIN t = 1..Len(t) /\ Len(t) \in Nat
  BY <1>2
<1> HIDE DEF t, S
<1>4. t = [i \in 1..Len(t) |-> t[i]]
  <2>1. t \in [1..Len(t) -> S]
    BY <1>2
  <2>2. QED
    BY <2>1
<1>5. IsSeq(t)
  BY <1>3, <1>4, SeqOf
<1>6. QED
  BY <1>2, <1>5 DEF t

-----------------------------------------------------------------------------
(* The positions that are left of a queue.                                  *)

Rank(P, i) == Cardinality({j \in P : j <= i})

\* Every position has a rank of its own, and every rank a position.
LEMMA Ranks ==
  ASSUME NEW n \in Nat, NEW P \in SUBSET (1..n)
  PROVE  /\ Cardinality(P) \in Nat
         /\ \A i \in P : Rank(P, i) \in 1..Cardinality(P)
         /\ \A i, j \in P : Rank(P, i) = Rank(P, j) => i = j
         /\ \A k \in 1..Cardinality(P) : \E i \in P : Rank(P, i) = k
<1> DEFINE Below(i) == {j \in P : j <= i}
           c == Cardinality(P)
           f == [i \in P |-> Rank(P, i)]
<1>1. IsFiniteSet(P) /\ c \in Nat
  <2>1. IsFiniteSet(1..n)
    BY FS_Interval
  <2>2. QED
    BY <2>1, FS_Subset, FS_CardinalityType
<1>2. \A i \in P : IsFiniteSet(Below(i)) /\ Cardinality(Below(i)) \in Nat /\ Cardinality(Below(i)) <= c
  <2> SUFFICES ASSUME NEW i \in P
               PROVE  IsFiniteSet(Below(i)) /\ Cardinality(Below(i)) \in Nat /\ Cardinality(Below(i)) <= c
    OBVIOUS
  <2>1. Below(i) \in SUBSET P
    OBVIOUS
  <2> HIDE DEF Below
  <2>2. QED
    BY <1>1, <2>1, FS_Subset, FS_CardinalityType
<1>3. \A i \in P : Rank(P, i) = Cardinality(Below(i))
  BY DEF Rank
<1>4. \A i \in P : Rank(P, i) \in 1..c
  <2> SUFFICES ASSUME NEW i \in P PROVE Rank(P, i) \in 1..c
    OBVIOUS
  <2>1. Below(i) # {}
    OBVIOUS
  <2> HIDE DEF Below
  <2>2. Cardinality(Below(i)) # 0
    BY <1>2, <2>1, FS_EmptySet
  <2>3. QED
    BY <1>1, <1>2, <1>3, <2>2
<1>5. \A i, j \in P : Rank(P, i) = Rank(P, j) => i = j
  <2>1. \A i, j \in P : i < j => Rank(P, i) # Rank(P, j)
    <3> SUFFICES ASSUME NEW i \in P, NEW j \in P, i < j PROVE Rank(P, i) # Rank(P, j)
      OBVIOUS
    <3>1. i \in Int /\ j \in Int /\ \A k \in P : k \in Int
      OBVIOUS
    <3>2. (\A k \in P : k <= i => k <= j) /\ j <= j /\ ~(j <= i)
      BY <3>1
    <3>3. Below(i) \in SUBSET Below(j) /\ j \in Below(j) /\ j \notin Below(i)
      BY <3>2
    <3> HIDE DEF Below
    <3>4. Cardinality(Below(i)) # Cardinality(Below(j))
      BY <1>2, <3>3, FS_Subset
    <3>5. QED
      BY <1>3, <3>4
  <2>2. \A i, j \in P : i \in Int /\ j \in Int
    OBVIOUS
  <2>3. \A i, j \in P : i < j \/ j < i \/ i = j
    BY <2>2
  <2>4. QED
    BY <2>1, <2>3
<1>6. f \in Surjection(P, 1..c)
  <2>1. f \in Injection(P, 1..c)
    BY <1>4, <1>5 DEF Injection, IsInjective
  <2>2. IsFiniteSet(1..c) /\ Cardinality(1..c) = c
    BY <1>1, FS_Interval
  <2> HIDE DEF f
  <2>3. QED
    BY <1>1, <2>1, <2>2, FS_Injection
<1>7. \A k \in 1..c : \E i \in P : Rank(P, i) = k
  BY <1>6 DEF Surjection
<1>8. QED
  BY <1>1, <1>4, <1>5, <1>7

\* The n-th position is one of them, and has that rank.
LEMMA NthFacts ==
  ASSUME NEW n \in Nat, NEW P \in SUBSET (1..n), NEW k \in 1..Cardinality(P)
  PROVE  Nth(P, k) \in P /\ Rank(P, Nth(P, k)) = k
<1>1. \E i \in P : Cardinality({j \in P : j <= i}) = k
  BY Ranks DEF Rank
<1>2. QED
  BY <1>1 DEF Nth, Rank

\* What is left of a queue are its operations under other keys, each once.
LEMMA WithoutFacts ==
  ASSUME NEW d, IsSeq(d.ops), NEW ks
  PROVE  /\ IsSeq(Without(d, ks))
         /\ \A i \in DOMAIN Without(d, ks) :
              \E j \in DOMAIN d.ops : Without(d, ks)[i] = d.ops[j] /\ d.ops[j].key \notin ks
         /\ \A j \in DOMAIN d.ops : d.ops[j].key \notin ks =>
              \E i \in DOMAIN Without(d, ks) : Without(d, ks)[i] = d.ops[j]
         /\ (\A i, j \in DOMAIN d.ops : d.ops[i].key = d.ops[j].key => i = j) =>
              \A i, j \in DOMAIN Without(d, ks) :
                Without(d, ks)[i].key = Without(d, ks)[j].key => i = j
<1> DEFINE n == Len(d.ops)
           P == {i \in DOMAIN d.ops : d.ops[i].key \notin ks}
           c == Cardinality(P)
           w == Without(d, ks)
<1>1. n \in Nat /\ DOMAIN d.ops = 1..n
  BY SeqFacts
<1>2. P \in SUBSET (1..n)
  BY <1>1
<1>3. w = [k \in 1..c |-> d.ops[Nth(P, k)]]
  BY DEF Without
<1>4. /\ c \in Nat
      /\ \A i \in P : Rank(P, i) \in 1..c
      /\ \A i, j \in P : Rank(P, i) = Rank(P, j) => i = j
  <2> HIDE DEF P, n
  <2>1. QED
    BY <1>1, <1>2, Ranks
<1>5. \A k \in 1..c : Nth(P, k) \in P /\ Rank(P, Nth(P, k)) = k
  <2> HIDE DEF P, n
  <2>1. QED
    BY <1>1, <1>2, NthFacts
<1>6. \A j \in P : j \in DOMAIN d.ops /\ d.ops[j].key \notin ks
  OBVIOUS
<1>7. \A j \in DOMAIN d.ops : d.ops[j].key \notin ks => j \in P
  OBVIOUS
<1> HIDE DEF P, n, c, w
<1>8. IsSeq(w) /\ DOMAIN w = 1..c
  <2>1. DOMAIN w = 1..c /\ w = [k \in 1..c |-> w[k]]
    BY <1>3
  <2>2. QED
    BY <1>4, <2>1, SeqOf
<1>9. \A k \in 1..c : w[k] = d.ops[Nth(P, k)]
  BY <1>3
<1>10. \A i \in 1..c : \E j \in DOMAIN d.ops : w[i] = d.ops[j] /\ d.ops[j].key \notin ks
  BY <1>5, <1>6, <1>9
<1>11. \A j \in P : \E i \in 1..c : w[i] = d.ops[j]
  <2> SUFFICES ASSUME NEW j \in P PROVE \E i \in 1..c : w[i] = d.ops[j]
    OBVIOUS
  <2> DEFINE i == Rank(P, j)
  <2>1. i \in 1..c
    BY <1>4
  <2>2. Nth(P, i) \in P /\ Rank(P, Nth(P, i)) = Rank(P, j)
    BY <1>5, <2>1
  <2>3. Nth(P, i) = j
    BY <1>4, <2>2
  <2>4. QED
    BY <1>9, <2>1, <2>3
<1>12. ASSUME \A i, j \in DOMAIN d.ops : d.ops[i].key = d.ops[j].key => i = j,
              NEW i \in 1..c, NEW j \in 1..c, w[i].key = w[j].key
       PROVE  i = j
  <2>1. Nth(P, i) = Nth(P, j)
    BY <1>5, <1>6, <1>9, <1>12
  <2>2. QED
    BY <1>5, <2>1
<1>13. QED
  BY <1>7, <1>8, <1>10, <1>11, <1>12 DEF w

-----------------------------------------------------------------------------
(* The queue of a document, next to a feed and the requests on the wire.    *)

\* What all requests under one key have in common.
Sig(x) == <<x.key, x.op, x.text, x.pre, x.knew>>

IsRecord(r, fields) == DOMAIN r = fields /\ r = [x \in fields |-> r[x]]

IsOp(o) ==
  /\ IsRecord(o, {"key", "op", "text", "pre", "after", "state", "retried", "knew"})
  /\ o.key \in OpKeys /\ o.op \in {"put", "delete"}

\* Nothing was requested or published under the key.
Unused(k, s, f, w) ==
  /\ \A i \in DOMAIN s : s[i].key # k
  /\ \A q \in w : q.key # k
  /\ \A v \in DOMAIN f : f[v].key # k

\* A key names one operation; what was requested under it is what was sent, and what
\* was published under it has its text.
QueueOK(s, f, w) ==
  /\ IsSeq(s)
  /\ \A i \in DOMAIN s : IsOp(s[i])
  /\ \A i, j \in DOMAIN s : s[i].key = s[j].key => i = j
  /\ \A i \in DOMAIN s : \A q \in w :
       s[i].key = q.key => s[i].state = "sent" /\ Sig(s[i]) = Sig(q)
  /\ \A i \in DOMAIN s : \A v \in DOMAIN f : s[i].key = f[v].key => s[i].text = f[v].text

\* The deletes of one queue were in the other one.
NoNewDelete(t, s) ==
  \A i \in DOMAIN t : t[i].op = "delete" => \E j \in DOMAIN s : s[j].key = t[i].key

\* Operations may leave the queue.
LEMMA QueueWithout ==
  ASSUME NEW d, NEW f, NEW w, QueueOK(d.ops, f, w), NEW ks
  PROVE  QueueOK(Without(d, ks), f, w) /\ NoNewDelete(Without(d, ks), d.ops)
<1> DEFINE t == Without(d, ks)
           s == d.ops
<1>1. IsSeq(s) /\ \A i, j \in DOMAIN s : s[i].key = s[j].key => i = j
  BY DEF QueueOK
<1>2. IsSeq(t) /\ \A i, j \in DOMAIN t : t[i].key = t[j].key => i = j
  BY <1>1, WithoutFacts
<1>3. \A i \in DOMAIN t : \E j \in DOMAIN s : t[i] = s[j]
  BY <1>1, WithoutFacts
<1> HIDE DEF t
<1>4. \A j \in DOMAIN s :
        /\ IsOp(s[j])
        /\ \A q \in w : s[j].key = q.key => s[j].state = "sent" /\ Sig(s[j]) = Sig(q)
        /\ \A v \in DOMAIN f : s[j].key = f[v].key => s[j].text = f[v].text
  BY DEF QueueOK
<1> HIDE DEF s
<1>5. \A i \in DOMAIN t :
        /\ IsOp(t[i])
        /\ \A q \in w : t[i].key = q.key => t[i].state = "sent" /\ Sig(t[i]) = Sig(q)
        /\ \A v \in DOMAIN f : t[i].key = f[v].key => t[i].text = f[v].text
  BY <1>3, <1>4
<1>6. QueueOK(t, f, w) /\ NoNewDelete(t, s)
  BY <1>2, <1>3, <1>5 DEF QueueOK, NoNewDelete
<1>7. QED
  BY <1>6 DEF t, s

\* An operation under an unused key may enter it.
LEMMA QueueAppend ==
  ASSUME NEW s, NEW f, NEW w, QueueOK(s, f, w), NEW o, IsOp(o), Unused(o.key, s, f, w)
  PROVE  /\ QueueOK(Append(s, o), f, w)
         /\ o.op # "delete" => NoNewDelete(Append(s, o), s)
<1> DEFINE t == Append(s, o)
           n == Len(s)
<1>1. IsSeq(s) /\ n \in Nat /\ DOMAIN s = 1..n
  BY SeqFacts DEF QueueOK
<1>2. IsSeq(t) /\ Len(t) = n + 1 /\ (\A i \in 1..n : t[i] = s[i]) /\ t[n + 1] = o
  BY <1>1, AppendFacts
<1> HIDE DEF t, n
<1>3. DOMAIN t = 1..(n + 1)
  BY <1>2, SeqFacts
<1>4. \A i \in DOMAIN t : (i \in DOMAIN s /\ t[i] = s[i]) \/ (i = n + 1 /\ t[i] = o)
  BY <1>1, <1>2, <1>3
<1>5. \A i \in DOMAIN t :
        /\ IsOp(t[i])
        /\ \A q \in w : t[i].key = q.key => t[i].state = "sent" /\ Sig(t[i]) = Sig(q)
        /\ \A v \in DOMAIN f : t[i].key = f[v].key => t[i].text = f[v].text
  BY <1>4 DEF QueueOK, Unused
<1>6. \A i, j \in DOMAIN t : t[i].key = t[j].key => i = j
  BY <1>4 DEF QueueOK, Unused
<1>7. QueueOK(t, f, w)
  BY <1>2, <1>5, <1>6 DEF QueueOK
<1>8. o.op # "delete" => NoNewDelete(t, s)
  BY <1>4 DEF NoNewDelete
<1>9. QED
  BY <1>7, <1>8 DEF t

\* Its operations may go on, but what was sent stays as it was sent.
LEMMA QueueGoesOn ==
  ASSUME NEW s, NEW f, NEW w, QueueOK(s, f, w), NEW t, t = [i \in DOMAIN s |-> t[i]],
         \A i \in DOMAIN s :
           /\ IsOp(t[i]) /\ t[i].key = s[i].key /\ t[i].text = s[i].text
           /\ s[i].state = "sent" => t[i].state = "sent" /\ Sig(t[i]) = Sig(s[i])
  PROVE  QueueOK(t, f, w) /\ NoNewDelete(t, s)
<1>1. IsSeq(s) /\ Len(s) \in Nat /\ DOMAIN s = 1..Len(s)
  BY SeqFacts DEF QueueOK
<1>2. IsSeq(t) /\ DOMAIN t = DOMAIN s
  <2>1. t = [i \in 1..Len(s) |-> t[i]]
    BY <1>1
  <2>2. QED
    BY <1>1, <2>1, SeqOf
<1>3. \A i \in DOMAIN s :
        /\ \A q \in w : t[i].key = q.key => t[i].state = "sent" /\ Sig(t[i]) = Sig(q)
        /\ \A v \in DOMAIN f : t[i].key = f[v].key => t[i].text = f[v].text
  BY DEF QueueOK
<1>4. \A i, j \in DOMAIN s : t[i].key = t[j].key => i = j
  BY DEF QueueOK
<1>5. QueueOK(t, f, w)
  BY <1>2, <1>3, <1>4 DEF QueueOK
<1>6. NoNewDelete(t, s)
  BY <1>2 DEF NoNewDelete
<1>7. QED
  BY <1>5, <1>6

\* The operation that a key of the queue names.
LEMMA OpOfFacts ==
  ASSUME NEW d, NEW f, NEW w, QueueOK(d.ops, f, w)
  PROVE  /\ \A k \in Keys(d) : \E i \in DOMAIN d.ops : d.ops[i].key = k /\ OpOf(d, k) = d.ops[i]
         /\ \A i \in DOMAIN d.ops : d.ops[i].key \in Keys(d) /\ OpOf(d, d.ops[i].key) = d.ops[i]
<1>1. \A i \in DOMAIN d.ops : d.ops[i].key \in Keys(d) /\ OpOf(d, d.ops[i].key) = d.ops[i]
  <2> SUFFICES ASSUME NEW i \in DOMAIN d.ops
               PROVE  d.ops[i].key \in Keys(d) /\ OpOf(d, d.ops[i].key) = d.ops[i]
    OBVIOUS
  <2> DEFINE j == CHOOSE j \in DOMAIN d.ops : d.ops[j].key = d.ops[i].key
  <2>1. j \in DOMAIN d.ops /\ d.ops[j].key = d.ops[i].key
    OBVIOUS
  <2>2. j = i
    BY <2>1 DEF QueueOK
  <2>3. QED
    BY <2>2 DEF OpOf, Keys
<1>2. QED
  BY <1>1 DEF Keys

-----------------------------------------------------------------------------
(* Documents, next to a feed and the requests on the wire.                  *)

IsCheck(c) ==
  IsRecord(c, {"stage", "head", "listed", "pending", "known"}) /\ c.head \in Int

\* A revision with the text it has in the feed, if it is one of its rows.
TrueRow(rev, text, f) == rev \in Int /\ (rev > 0 => rev <= Len(f) /\ text = f[rev].text)

IsBase(b, f) == IsRecord(b, {"rev", "text"}) /\ TrueRow(b.rev, b.text, f)

IsApply(p, f) ==
  /\ IsRecord(p, {"row", "rev", "text", "step", "copy"}) /\ IsRecord(p.copy, {"at", "text"})
  /\ p.row \in Int /\ TrueRow(p.rev, p.text, f)
  /\ p.step \in {"none", "prepared", "named", "copied"} /\ (p.step = "none" => p = NoApply)

IsDocument(d) ==
  IsRecord(d, {"base", "ops", "apply", "expected", "cursor", "kept", "check", "bound", "refused"})

SideOK(d, f) ==
  /\ IsDocument(d)
  /\ IsBase(d.base, f) /\ IsApply(d.apply, f)
  /\ d.cursor \in Int /\ IsCheck(d.check)

DocOK(d, f, w) == SideOK(d, f) /\ QueueOK(d.ops, f, w)

\* A document that is made of document d, with no delete that d does not have.
Derived(e, d, f, w) == DocOK(e, f, w) /\ NoNewDelete(e.ops, d.ops)

\* Document d with queue t; what is kept and expected is of no account here.
Requeued(e, d, t) ==
  /\ IsDocument(e) /\ e.base = d.base /\ e.apply = d.apply /\ e.cursor = d.cursor
  /\ e.check = d.check /\ e.ops = t

\* A document with another queue.
LEMMA WithQueue ==
  ASSUME NEW d, NEW f, NEW w, DocOK(d, f, w), NEW t, QueueOK(t, f, w), NoNewDelete(t, d.ops),
         NEW e, Requeued(e, d, t)
  PROVE  Derived(e, d, f, w)
BY DEF DocOK, SideOK, Requeued, Derived

\* A document with the queue of another one.
LEMMA SameQueue ==
  ASSUME NEW d, NEW f, NEW w, DocOK(d, f, w), NEW e, SideOK(e, f), e.ops = d.ops
  PROVE  Derived(e, d, f, w)
BY DEF DocOK, Derived, NoNewDelete

\* The operations that go out, or come back, and those that are given up.
LEMMA QueueDocs ==
  ASSUME NEW d, NEW f, NEW w, DocOK(d, f, w), NEW k \in Keys(d)
  PROVE  /\ Derived(Prepare(d, k), d, f, w) /\ Derived(Defer(d, k), d, f, w)
         /\ Keys(Prepare(d, k)) = Keys(d) /\ OpOf(Prepare(d, k), k).state = "sent"
<1> DEFINE s == d.ops
           o == OpOf(d, k)
           p == [o EXCEPT !.state = "sent"]
           q == [o EXCEPT !.retried = TRUE]
           sent == Changed(d, k, p)
           later == Changed(d, k, q)
<1>1. QueueOK(s, f, w)
  BY DEF DocOK
<1>2. PICK n \in DOMAIN s : s[n].key = k /\ o = s[n]
  BY <1>1, OpOfFacts
<1>3. \A i \in DOMAIN s : s[i].key = k => i = n
  BY <1>1, <1>2 DEF QueueOK
<1>4. IsOp(o)
  BY <1>1, <1>2 DEF QueueOK
<1>5. /\ IsOp(p) /\ p.key = o.key /\ p.text = o.text /\ p.state = "sent" /\ Sig(p) = Sig(o)
      /\ IsOp(q) /\ q.key = o.key /\ q.text = o.text /\ q.state = o.state /\ Sig(q) = Sig(o)
  BY <1>4 DEF IsOp, IsRecord, Sig
<1>6. /\ sent = [i \in DOMAIN s |-> IF s[i].key = k THEN p ELSE s[i]]
      /\ later = [i \in DOMAIN s |-> IF s[i].key = k THEN q ELSE s[i]]
  BY DEF Changed
<1>7. \A i \in DOMAIN s : IsOp(s[i])
  BY <1>1 DEF QueueOK
<1> HIDE DEF s, o, p, q, sent, later
<1>8. QueueOK(sent, f, w) /\ NoNewDelete(sent, s)
  <2>1. sent = [i \in DOMAIN s |-> sent[i]]
    BY <1>6
  <2>2. \A i \in DOMAIN s :
          /\ IsOp(sent[i]) /\ sent[i].key = s[i].key /\ sent[i].text = s[i].text
          /\ s[i].state = "sent" => sent[i].state = "sent" /\ Sig(sent[i]) = Sig(s[i])
    BY <1>2, <1>3, <1>5, <1>6, <1>7
  <2>3. QED
    BY <1>1, <2>1, <2>2, QueueGoesOn
<1>9. QueueOK(later, f, w) /\ NoNewDelete(later, s)
  <2>1. later = [i \in DOMAIN s |-> later[i]]
    BY <1>6
  <2>2. \A i \in DOMAIN s :
          /\ IsOp(later[i]) /\ later[i].key = s[i].key /\ later[i].text = s[i].text
          /\ s[i].state = "sent" => later[i].state = "sent" /\ Sig(later[i]) = Sig(s[i])
    BY <1>2, <1>3, <1>5, <1>6, <1>7
  <2>3. QED
    BY <1>1, <2>1, <2>2, QueueGoesOn
<1>10. Requeued(Prepare(d, k), d, sent) /\ Requeued(Defer(d, k), d, later)
  BY DEF Requeued, IsDocument, IsRecord, DocOK, SideOK, Prepare, Defer, sent, later, p, q, o
<1>11. Derived(Prepare(d, k), d, f, w) /\ Derived(Defer(d, k), d, f, w) /\ Prepare(d, k).ops = sent
  BY <1>8, <1>9, <1>10, WithQueue DEF s, Requeued
<1>12. Keys(Prepare(d, k)) = Keys(d)
  <2>1. \A i \in DOMAIN s : sent[i].key = s[i].key
    BY <1>2, <1>3, <1>5, <1>6
  <2>2. DOMAIN sent = DOMAIN s
    BY <1>6
  <2>3. QED
    BY <1>11, <2>1, <2>2 DEF Keys, s
<1>13. OpOf(Prepare(d, k), k).state = "sent"
  <2>1. n \in DOMAIN sent /\ sent[n] = p /\ p.key = k /\ p.state = "sent"
    BY <1>2, <1>5, <1>6
  <2>2. OpOf(Prepare(d, k), sent[n].key) = sent[n]
    BY <1>8, <1>11, <2>1, OpOfFacts
  <2>3. QED
    BY <2>1, <2>2
<1>14. QED
  BY <1>11, <1>12, <1>13

\* Operations that are given up, discarded or settled with the deletes behind them.
LEMMA LeavingDocs ==
  ASSUME NEW d, NEW f, NEW w, DocOK(d, f, w), NEW k
  PROVE  /\ Derived(DiscardQueued(d, k), d, f, w)
         /\ Derived(RecordQueuedRejected(d, k), d, f, w)
         /\ Derived(RecordRejected(d, k), d, f, w)
         /\ Derived(ResolveAlone(d, k), d, f, w)
<1> DEFINE t == Without(d, {k})
           u == Without(d, {k} \cup Dependents(d, k))
<1>1. QueueOK(t, f, w) /\ NoNewDelete(t, d.ops) /\ QueueOK(u, f, w) /\ NoNewDelete(u, d.ops)
  BY QueueWithout DEF DocOK
<1>2. /\ Requeued(DiscardQueued(d, k), d, t) /\ Requeued(RecordQueuedRejected(d, k), d, t)
      /\ Requeued(RecordRejected(d, k), d, u) /\ Requeued(ResolveAlone(d, k), d, u)
  BY DEF Requeued, IsDocument, IsRecord, DocOK, SideOK, DiscardQueued, RecordQueuedRejected,
         RecordRejected, ResolveAlone
<1> HIDE DEF t, u
<1>3. QED
  BY <1>1, <1>2, WithQueue

\* The successors of a receipt change no more than their precondition, and only if
\* they were not sent.
LEMMA RebasedFacts ==
  ASSUME NEW o, IsOp(o), NEW receipt
  PROVE  /\ IsOp(Rebased(o, receipt)) /\ Rebased(o, receipt).key = o.key
         /\ Rebased(o, receipt).text = o.text /\ Rebased(o, receipt).op = o.op
         /\ o.state = "sent" => /\ Rebased(o, receipt).state = "sent"
                               /\ Sig(Rebased(o, receipt)) = Sig(o)
<1>1. CASE o.state = "queued" /\ o.pre < receipt.rev
  <2>1. Rebased(o, receipt) = [o EXCEPT !.pre = receipt.rev, !.after = NoKey]
    BY <1>1 DEF Rebased
  <2>2. QED
    BY <1>1, <2>1 DEF IsOp, IsRecord
<1>2. CASE ~(o.state = "queued" /\ o.pre < receipt.rev)
  <2>1. Rebased(o, receipt) = [o EXCEPT !.after = NoKey]
    BY <1>2 DEF Rebased
  <2>2. QED
    BY <2>1 DEF IsOp, IsRecord, Sig
<1>3. QED
  BY <1>1, <1>2

\* A receipt settles its operation.
LEMMA ResolvedDoc ==
  ASSUME NEW d, NEW f, NEW w, DocOK(d, f, w), NEW k, NEW receipt
  PROVE  Derived(Resolve(d, k, receipt), d, f, w)
<1> DEFINE stale == IF d.base = receipt THEN {} ELSE Dependents(d, k)
           rest == Without(d, {k} \cup stale)
           t == [i \in DOMAIN rest |-> Rebased(rest[i], receipt)]
<1>1. QueueOK(rest, f, w) /\ NoNewDelete(rest, d.ops)
  BY QueueWithout DEF DocOK
<1>2. Requeued(Resolve(d, k, receipt), d, t)
  BY DEF Requeued, IsDocument, IsRecord, DocOK, SideOK, Resolve
<1> HIDE DEF stale, rest
<1>3. \A i \in DOMAIN rest :
        /\ IsOp(t[i]) /\ t[i].key = rest[i].key /\ t[i].text = rest[i].text
        /\ rest[i].state = "sent" => t[i].state = "sent" /\ Sig(t[i]) = Sig(rest[i])
  <2> SUFFICES ASSUME NEW i \in DOMAIN rest
               PROVE  /\ IsOp(t[i]) /\ t[i].key = rest[i].key /\ t[i].text = rest[i].text
                      /\ rest[i].state = "sent" => t[i].state = "sent" /\ Sig(t[i]) = Sig(rest[i])
    OBVIOUS
  <2>1. IsOp(rest[i]) /\ t[i] = Rebased(rest[i], receipt)
    BY <1>1 DEF QueueOK
  <2> HIDE DEF t
  <2>2. QED
    BY <2>1, RebasedFacts
<1>4. t = [i \in DOMAIN rest |-> t[i]]
  OBVIOUS
<1> HIDE DEF t
<1>5. QueueOK(t, f, w) /\ NoNewDelete(t, rest)
  BY <1>1, <1>3, <1>4, QueueGoesOn
<1>6. NoNewDelete(t, d.ops)
  <2>1. \A i \in DOMAIN rest : IsOp(t[i]) /\ t[i].key = rest[i].key
    BY <1>3
  <2>2. \A i \in DOMAIN t : i \in DOMAIN rest
    BY <1>4
  <2>3. \A i \in DOMAIN rest : t[i].op = rest[i].op
    <3> SUFFICES ASSUME NEW i \in DOMAIN rest PROVE t[i].op = rest[i].op
      OBVIOUS
    <3>1. IsOp(rest[i])
      BY <1>1 DEF QueueOK
    <3>2. QED
      BY <3>1, RebasedFacts DEF t
  <2>4. QED
    BY <1>1, <2>1, <2>2, <2>3 DEF NoNewDelete
<1>7. QED
  BY <1>2, <1>5, <1>6, WithQueue

\* A new operation enters the queue.
LEMMA EnqueuedDoc ==
  ASSUME NEW d, NEW f, NEW w, DocOK(d, f, w), NEW o, IsOp(o), Unused(o.key, d.ops, f, w)
  PROVE  /\ DocOK(Enqueue(d, o), f, w)
         /\ o.op # "delete" => NoNewDelete(Enqueue(d, o).ops, d.ops)
         /\ \E i \in DOMAIN Enqueue(d, o).ops : Enqueue(d, o).ops[i] = o
<1> DEFINE s == Without(d, {d.ops[i].key : i \in Replaced(d, o.op)})
           t == Append(s, o)
<1>1. QueueOK(s, f, w) /\ NoNewDelete(s, d.ops)
  BY QueueWithout DEF DocOK
<1>2. \A i \in DOMAIN s : \E j \in DOMAIN d.ops : s[i] = d.ops[j]
  BY WithoutFacts DEF DocOK, QueueOK
<1>3. /\ IsDocument(Enqueue(d, o)) /\ Enqueue(d, o).base = d.base
      /\ Enqueue(d, o).apply = d.apply /\ Enqueue(d, o).cursor = d.cursor
      /\ Enqueue(d, o).check = d.check /\ Enqueue(d, o).ops = t
  BY DEF IsDocument, IsRecord, DocOK, SideOK, Enqueue
<1> HIDE DEF s
<1>4. Unused(o.key, s, f, w)
  BY <1>2 DEF Unused
<1>5. QueueOK(t, f, w) /\ (o.op # "delete" => NoNewDelete(t, s))
  BY <1>1, <1>4, QueueAppend
<1>6. \E i \in DOMAIN t : t[i] = o
  <2>1. IsSeq(s) /\ Len(s) \in Nat
    BY <1>1, SeqFacts DEF QueueOK
  <2>2. IsSeq(t) /\ Len(t) = Len(s) + 1 /\ t[Len(s) + 1] = o
    BY <2>1, AppendFacts
  <2> HIDE DEF t
  <2>3. DOMAIN t = 1..(Len(s) + 1)
    BY <2>2, SeqFacts
  <2>4. QED
    BY <2>1, <2>2, <2>3
<1> HIDE DEF t
<1>7. o.op # "delete" => NoNewDelete(t, d.ops)
  BY <1>1, <1>2, <1>5 DEF NoNewDelete
<1>8. DocOK(Enqueue(d, o), f, w)
  BY <1>3, <1>5 DEF DocOK, SideOK
<1>9. QED
  BY <1>3, <1>6, <1>7, <1>8

\* What is expected, the checkpoint, the cursor and the base.
LEMMA RecordedDocs ==
  ASSUME NEW d, NEW f, NEW w, DocOK(d, f, w)
  PROVE  /\ \A text : Derived(Expect(d, text), d, f, w)
         /\ \A c : IsCheck(c) => Derived(SetCheckpoint(d, c), d, f, w)
         /\ \A n \in Int : Derived(SetCursor(d, n), d, f, w)
         /\ \A b : IsBase(b, f) => Derived(SetBase(d, b), d, f, w)
<1>1. \A text : SideOK(Expect(d, text), f) /\ Expect(d, text).ops = d.ops
  BY DEF DocOK, SideOK, IsDocument, IsRecord, Expect
<1>2. \A c : IsCheck(c) => SideOK(SetCheckpoint(d, c), f) /\ SetCheckpoint(d, c).ops = d.ops
  BY DEF DocOK, SideOK, IsDocument, IsRecord, SetCheckpoint
<1>3. \A n \in Int : SideOK(SetCursor(d, n), f) /\ SetCursor(d, n).ops = d.ops
  BY DEF DocOK, SideOK, IsDocument, IsRecord, SetCursor
<1>4. \A b : IsBase(b, f) => SideOK(SetBase(d, b), f) /\ SetBase(d, b).ops = d.ops
  BY DEF DocOK, SideOK, IsDocument, IsRecord, SetBase
<1>5. QED
  BY <1>1, <1>2, <1>3, <1>4, SameQueue

\* The steps of an apply.
LEMMA ApplyDocs ==
  ASSUME NEW d, NEW f, NEW w, DocOK(d, f, w)
  PROVE  /\ \A row, text : TrueRow(row, text, f) => Derived(BeginApply(d, row, text), d, f, w)
         /\ \A rev, text : TrueRow(rev, text, f) /\ d.apply.step # "none" =>
              Derived(RebaseApply(d, rev, text), d, f, w)
         /\ \A text : Derived(NameCopy(d, text), d, f, w)
         /\ Derived(MarkCopied(d), d, f, w)
         /\ Derived(EndApply(d), d, f, w) /\ Derived(CompleteApply(d), d, f, w)
<1> USE DEF DocOK, SideOK, IsDocument, IsRecord
<1>1. ASSUME NEW row, NEW text, TrueRow(row, text, f)
      PROVE  SideOK(BeginApply(d, row, text), f) /\ BeginApply(d, row, text).ops = d.ops
  BY <1>1 DEF BeginApply, IsApply, TrueRow, NoCopy
<1>2. ASSUME NEW rev, NEW text, TrueRow(rev, text, f), d.apply.step # "none"
      PROVE  SideOK(RebaseApply(d, rev, text), f) /\ RebaseApply(d, rev, text).ops = d.ops
  BY <1>2 DEF RebaseApply, IsApply
<1>3. ASSUME NEW text
      PROVE  SideOK(NameCopy(d, text), f) /\ NameCopy(d, text).ops = d.ops
  BY DEF NameCopy, IsApply
<1>4. SideOK(MarkCopied(d), f) /\ MarkCopied(d).ops = d.ops
  BY DEF MarkCopied, IsApply
<1>5. IsApply(NoApply, f)
  BY DEF NoApply, IsApply, TrueRow, NoCopy
<1>6. SideOK(EndApply(d), f) /\ EndApply(d).ops = d.ops /\ EndApply(d).apply = NoApply
  BY <1>5 DEF EndApply
<1>7. IsBase([rev |-> d.apply.rev, text |-> d.apply.text], f)
  BY DEF IsApply, IsBase
<1>8. SideOK(CompleteApply(d), f) /\ CompleteApply(d).ops = d.ops
  BY <1>6, <1>7 DEF CompleteApply
<1> HIDE DEF DocOK, SideOK, IsDocument, IsRecord
<1>9. QED
  BY <1>1, <1>2, <1>3, <1>4, <1>6, <1>8, SameQueue

\* The empty queue.
LEMMA EmptyQueue ==
  ASSUME NEW f, NEW w
  PROVE  QueueOK(<<>>, f, w) /\ \A s : NoNewDelete(<<>>, s)
BY DEF QueueOK, NoNewDelete, IsSeq

\* The first epoch starts with an empty queue.
LEMMA BoundDoc ==
  ASSUME NEW d, NEW f, NEW w, DocOK(d, f, w)
  PROVE  Derived(BindEpoch(d), d, f, w)
<1>1. IsApply(NoApply, f) /\ IsCheck(NoCheck) /\ NoCursor \in Int
  BY DEF NoApply, IsApply, TrueRow, NoCopy, NoCheck, IsCheck, IsRecord, NoCursor
<1>2. SideOK(BindEpoch(d), f) /\ BindEpoch(d).ops = <<>>
  BY <1>1 DEF DocOK, SideOK, IsDocument, IsRecord, BindEpoch
<1>3. QED
  BY <1>2, EmptyQueue DEF Derived, DocOK

-----------------------------------------------------------------------------
(* The invariant.                                                           *)

\* Requests under one key are one request, and what was published under it is its text.
WireOK(w, f) ==
  /\ \A q \in w :
       /\ IsRecord(q, {"key", "op", "text", "pre", "knew", "again"}) /\ q.key \in OpKeys
       /\ \A r \in w : q.key = r.key => Sig(q) = Sig(r)
       /\ \A v \in DOMAIN f : f[v].key = q.key => f[v].text = q.text

\* The stages of a cycle.
Stages == {"resume", "scan", "flush", "replay", "reject"}

\* The stages that are left, the last of which is no recovered rejection.
Rest(r) == r \in Seq(Stages) /\ r # <<>> /\ r[Len(r)] # "reject"

IsTask(t, f) ==
  /\ IsRecord(t, {"pc", "rest", "row", "head", "seen", "key", "keys", "spare", "for"})
  /\ (t.pc # "idle" => Rest(t.rest)) /\ t.row \in Int
  /\ t.head \in Int /\ 0 <= t.head /\ t.head <= Len(f)

\* The stages between the choice of an operation and its settlement.
Sending == {"refresh", "dispatch", "await", "settle", "defer"}

\* The stages that are entered only on a condition.
Guarded ==
  {"begin", "begun", "decide", "finish", "write", "refresh", "dispatch", "await", "settle",
   "defer", "prepare_create", "send_create", "creating"}

\* A text that the file may lose to the apply: the vault has it, or a copy was made of it.
Replaceable(text) ==
  text \in {Absent, a.text} \/ Clean(text) \/ (a.step = "copied" /\ text = a.copy.text)

\* A row to take is in the feed, and an apply that is resumed is pending; an operation to
\* send is sent in the journal, on disk too; and the answer that came is a row with its text.
TaskInv ==
  /\ IsTask(task, feed)
  /\ task.pc = "begin" => task.row <= Len(feed)
  /\ task.pc \in {"begun", "decide", "finish"} => a.step # "none"
  /\ task.pc = "finish" => a.step = "copied"
  /\ task.pc = "write" => Replaceable(task.seen)
  /\ task.pc \in Sending => task.key \in Keys(mem)
  /\ task.pc = "dispatch" => ~blocked /\ OpOf(mem, task.key).state = "sent"
  /\ task.pc = "await" /\ reply > 0 => TrueRow(reply, OpOf(mem, task.key).text, feed)
  /\ task.pc = "prepare_create" => Creates # {}
  /\ task.pc = "send_create" => ~blocked /\ Creates # {} /\ Create.state = "sent"
  /\ task.pc = "creating" /\ reply > 0 => TrueRow(reply, Create.text, feed)

\* The journal in memory and on disk, which are one unless a write did not verify.
JournalInv ==
  /\ IsSeq(feed) /\ WireOK(wire, feed) /\ reply \in Int
  /\ DocOK(mem, feed, wire) /\ DocOK(disk, feed, wire)
  /\ blocked \in BOOLEAN /\ (~blocked => mem = disk)
  /\ TaskInv

\* A task at any other stage.
Plain(t) == IsTask(t, feed) /\ t.pc \notin Guarded

\* What every step but a drained event and a restart does.
Keeps == JournalInv' /\ NoNewDelete(mem'.ops, mem.ops)

\* What comes before a sequence does not change its last element.
LEMMA LastOfConcat ==
  ASSUME NEW S, NEW p \in Seq(S), NEW r \in Seq(S), Len(r) >= 1
  PROVE  p \o r \in Seq(S) /\ p \o r # <<>> /\ (p \o r)[Len(p \o r)] = r[Len(r)]
<1>1. p \o r \in Seq(S) /\ Len(p \o r) = Len(p) + Len(r) /\ Len(p) \in Nat /\ Len(r) \in Nat
  OBVIOUS
<1>2. (p \o r)[Len(p) + Len(r)] = r[Len(r)]
  OBVIOUS
<1>3. ASSUME p \o r = <<>> PROVE FALSE
  BY <1>1, <1>3
<1>4. QED
  BY <1>1, <1>2, <1>3

\* One stage less, or a recovery before them.
LEMMA RestFacts ==
  ASSUME NEW r, Rest(r)
  PROVE  /\ Len(r) > 1 => Rest(Tail(r)) /\ r[2] \in Stages
         /\ Head(r) = "reject" => Len(r) > 1
         /\ Rest(<<"replay", "reject">> \o r)
<1>1. r \in Seq(Stages) /\ Len(r) \in Nat /\ Len(r) >= 1 /\ r[Len(r)] # "reject"
  BY DEF Rest
<1>2. ASSUME Len(r) > 1 PROVE Rest(Tail(r)) /\ r[2] \in Stages
  <2> DEFINE t == Tail(r)
  <2>1. t \in Seq(Stages) /\ Len(t) = Len(r) - 1 /\ t[Len(t)] = r[Len(r)] /\ r[2] \in Stages
    BY <1>1, <1>2
  <2> HIDE DEF t
  <2>2. t # <<>>
    BY <1>1, <1>2, <2>1
  <2>3. QED
    BY <1>1, <2>1, <2>2 DEF Rest, t
<1>3. Head(r) = "reject" => Len(r) > 1
  BY <1>1
<1>4. Rest(<<"replay", "reject">> \o r)
  <2>1. <<"replay", "reject">> \in Seq(Stages)
    BY DEF Stages
  <2>2. QED
    BY <1>1, <2>1, LastOfConcat DEF Rest
<1>5. QED
  BY <1>2, <1>3, <1>4

\* The end of a task.
LEMMA EndFacts ==
  ASSUME JournalInv
  PROVE  /\ Plain(Idle)
         /\ IsTask(task, feed) /\ 0 <= Head_ /\ Len(feed) \in Nat
<1>1. IsTask(task, feed) /\ 0 <= Len(feed) /\ Len(feed) \in Nat
  BY SeqFacts DEF JournalInv, TaskInv
<1>2. Plain(Idle)
  BY <1>1 DEF Plain, IsTask, IsRecord, Idle, Guarded
<1>3. QED
  BY <1>1, <1>2 DEF Head_

\* The tasks that the actions go on with.
LEMMA TaskFacts ==
  ASSUME JournalInv, task.pc # "idle"
  PROVE  /\ \A pc : pc \notin Guarded => Plain(At(pc))
         /\ \A pc, text : pc \notin Guarded => Plain(Saw(pc, text))
         /\ \A pc : IsTask(At(pc), feed) /\ At(pc).pc = pc /\ At(pc).key = task.key
         /\ Plain(Idle) /\ Plain(Finished(task)) /\ Plain(FlushEnd)
         /\ Plain(NextOp) /\ Plain(Restarted) /\ Rest(task.rest)
<1>1. IsTask(task, feed) /\ 0 <= Len(feed) /\ Len(feed) \in Nat /\ Rest(task.rest)
  BY EndFacts DEF Head_, IsTask
<1>2. \A pc : IsTask(At(pc), feed) /\ At(pc).pc = pc /\ At(pc).key = task.key
  BY <1>1 DEF IsTask, IsRecord, At
<1>3. \A pc, text : IsTask(Saw(pc, text), feed) /\ Saw(pc, text).pc = pc
  BY <1>1 DEF IsTask, IsRecord, Saw
<1>4. Plain(NextOp) /\ Plain(Restarted)
  BY <1>1 DEF Plain, NextOp, Restarted, At, IsTask, IsRecord, Guarded
<1>5. Plain(Finished(task))
  <2>1. CASE Len(task.rest) <= 1
    BY <2>1, EndFacts DEF Finished
  <2>2. CASE ~(Len(task.rest) <= 1)
    <3>1. Rest(task.rest) /\ Len(task.rest) > 1
      BY <1>1, <2>2 DEF IsTask, Rest
    <3>2. Rest(Tail(task.rest)) /\ task.rest[2] \in Stages
      BY <3>1, RestFacts
    <3>3. Finished(task) = [task EXCEPT !.pc = task.rest[2], !.rest = Tail(@), !.row = 0,
                             !.head = 0, !.seen = Absent, !.spare = NoKey, !.for = "feed"]
      BY <2>2 DEF Finished
    <3>4. IsRecord(task, {"pc", "rest", "row", "head", "seen", "key", "keys", "spare", "for"})
      BY <1>1 DEF IsTask
    <3>5. /\ IsRecord(Finished(task),
                      {"pc", "rest", "row", "head", "seen", "key", "keys", "spare", "for"})
          /\ Finished(task).pc = task.rest[2] /\ Finished(task).rest = Tail(task.rest)
          /\ Finished(task).row = 0 /\ Finished(task).head = 0
      BY <3>3, <3>4 DEF IsRecord
    <3>6. QED
      BY <1>1, <3>2, <3>5 DEF Plain, IsTask, Stages, Guarded
  <2>3. QED
    BY <2>1, <2>2
<1>6. Plain(FlushEnd)
  <2>1. FlushEnd = [Finished(task) EXCEPT !.key = NoKey, !.keys = <<>>]
    BY DEF FlushEnd
  <2>2. QED
    BY <1>5, <2>1 DEF Plain, IsTask, IsRecord
<1>7. QED
  BY <1>1, <1>2, <1>3, <1>4, <1>5, <1>6, EndFacts DEF Plain

\* A task at no guarded stage.
LEMMA PlainTask ==
  ASSUME Plain(task'), UNCHANGED feed
  PROVE  TaskInv'
BY DEF TaskInv, Plain, Guarded, Sending

\* A step that leaves the journal and the vault alone.
LEMMA QuietStep ==
  ASSUME JournalInv, UNCHANGED <<journal, feed, wire, reply>>, Plain(task')
  PROVE  Keeps
<1>1. TaskInv'
  BY DEF TaskInv, Plain, Guarded, Sending
<1>2. NoNewDelete(mem'.ops, mem.ops)
  BY DEF NoNewDelete, journal
<1>3. QED
  BY <1>1, <1>2 DEF JournalInv, Keeps, journal

\* A write of the journal, which verifies or not.
LEMMA SaveFacts ==
  ASSUME JournalInv, NEW d, NEW next, NEW failed, SaveOr(d, next, failed),
         DocOK(d, feed, wire), UNCHANGED <<feed, wire, reply>>
  PROVE  /\ DocOK(mem', feed', wire') /\ DocOK(disk', feed', wire')
         /\ blocked' \in BOOLEAN /\ (~blocked' => mem' = disk')
         /\ \/ task' = next /\ mem' = d /\ ~blocked'
            \/ task' = failed /\ mem' = mem /\ blocked'
BY DEF JournalInv, SaveOr

\* One after which the task is at no guarded stage.
LEMMA SaveStep ==
  ASSUME JournalInv, NEW d, NEW next, NEW failed, SaveOr(d, next, failed),
         Derived(d, mem, feed, wire), Plain(next), Plain(failed), UNCHANGED <<feed, wire, reply>>
  PROVE  Keeps
<1>1. /\ DocOK(mem', feed', wire') /\ DocOK(disk', feed', wire')
      /\ blocked' \in BOOLEAN /\ (~blocked' => mem' = disk')
      /\ (task' = next /\ mem' = d) \/ (task' = failed /\ mem' = mem)
  BY SaveFacts DEF Derived
<1>2. Plain(task')
  BY <1>1
<1>3. TaskInv'
  BY <1>2 DEF TaskInv, Plain, Guarded, Sending
<1>4. NoNewDelete(mem'.ops, mem.ops)
  BY <1>1 DEF NoNewDelete, Derived
<1>5. QED
  BY <1>1, <1>3, <1>4 DEF JournalInv, Keeps

\* The document in memory and its parts.
LEMMA MemFacts ==
  ASSUME JournalInv
  PROVE  /\ Derived(mem, mem, feed, wire) /\ DocOK(mem, feed, wire)
         /\ a.row \in Int /\ a.rev \in Int /\ TrueRow(a.rev, a.text, feed)
         /\ mem.cursor \in Int /\ IsCheck(check) /\ IsBase(mem.base, feed) /\ IsDocument(mem)
         /\ \A v \in Int : v <= Len(feed) => TrueRow(v, feed[v].text, feed)
         /\ QueueOK(mem.ops, feed, wire) /\ IsSeq(feed) /\ Len(feed) \in Nat
         /\ DOMAIN feed = 1..Len(feed)
BY SeqFacts DEF JournalInv, DocOK, Derived, NoNewDelete, SideOK, IsApply, TrueRow, a, check

\* The ways in which actions write the journal.
LEMMA Saves ==
  ASSUME JournalInv, UNCHANGED <<feed, wire, reply>>, NEW next, Plain(next)
  PROVE  /\ \A d : Derived(d, mem, feed, wire) /\ Save(d, next) => Keeps
         /\ NoteAttention(next) => Keeps
         /\ ClearExpected(next) => Keeps
<1>1. ASSUME NEW d, Derived(d, mem, feed, wire), Save(d, next) PROVE Keeps
  BY <1>1, SaveStep, EndFacts DEF Save
<1>2. NoteAttention(next) => Keeps
  BY <1>1, MemFacts DEF NoteAttention
<1>3. ASSUME ClearExpected(next) PROVE Keeps
  <2>1. CASE mem.expected = Absent
    BY <1>3, <2>1, QuietStep DEF ClearExpected, journal
  <2>2. CASE mem.expected # Absent
    <3>1. Save(Expect(mem, Absent), next)
      BY <1>3, <2>2 DEF ClearExpected
    <3>2. Derived(Expect(mem, Absent), mem, feed, wire)
      BY MemFacts, RecordedDocs
    <3>3. QED
      BY <1>1, <3>1, <3>2
  <2>3. QED
    BY <2>1, <2>2
<1>4. QED
  BY <1>1, <1>2, <1>3

-----------------------------------------------------------------------------
(* The steps of an apply.                                                   *)

\* Rebasing, beginning and resuming an apply.
LEMMA BeginSteps ==
  ASSUME JournalInv, Rebase \/ Begin \/ Resume \/ Begun
  PROVE  Keeps
<1>0. task.pc # "idle"
  BY DEF Rebase, Begin, Resume, Begun
<1>1. CASE Rebase
  <2> DEFINE d == RebaseApply(mem, Head_, feed[Head_].text)
  <2>1. a.step # "none"
    BY <1>1 DEF Rebase, JournalInv, TaskInv
  <2>2. Derived(d, mem, feed, wire) /\ d.apply.step # "none"
    <3>1. TrueRow(Head_, feed[Head_].text, feed)
      BY MemFacts DEF Head_
    <3>2. Derived(d, mem, feed, wire)
      BY <2>1, <3>1, MemFacts, ApplyDocs DEF a
    <3>3. IsRecord(mem.apply, {"row", "rev", "text", "step", "copy"}) /\ IsDocument(mem)
      BY MemFacts DEF DocOK, SideOK, IsApply
    <3>4. d.apply.step # "none"
      BY <2>1, <3>3 DEF RebaseApply, IsDocument, IsRecord, a
    <3>5. QED
      BY <3>2, <3>4
  <2>3. /\ mem' = d /\ disk' = d /\ blocked' = FALSE /\ task' = At("begun")
        /\ UNCHANGED <<feed, wire, reply>>
    BY <1>1 DEF Rebase, Goto, NoEffect, ApplyFrame, remote
  <2> HIDE DEF d
  <2>4. TaskInv'
    BY <2>2, <2>3, <1>0, TaskFacts DEF TaskInv, a, Sending
  <2>5. QED
    BY <2>2, <2>3, <2>4 DEF JournalInv, Keeps, Derived
<1>2. CASE Begin
  <2>1. task.row \in Int /\ task.row <= Len(feed) /\ UNCHANGED <<feed, wire, reply>>
    BY <1>2 DEF JournalInv, TaskInv, IsTask, Begin, NoEffect, ApplyFrame, remote
  <2>2. CASE a = NoApply
    <3> DEFINE d == BeginApply(mem, task.row, feed[task.row].text)
    <3>1. SaveOr(d, At("begun"), Idle)
      BY <1>2, <2>2 DEF Begin, Save
    <3>2. Derived(d, mem, feed, wire)
      BY <2>1, MemFacts, ApplyDocs
    <3>3. d.apply.step # "none"
      BY MemFacts DEF BeginApply, IsDocument, IsRecord
    <3> HIDE DEF d
    <3>4. /\ DocOK(mem', feed', wire') /\ DocOK(disk', feed', wire')
          /\ blocked' \in BOOLEAN /\ (~blocked' => mem' = disk')
          /\ \/ task' = At("begun") /\ mem' = d
             \/ task' = Idle /\ mem' = mem
      BY <2>1, <3>1, <3>2, SaveFacts DEF Derived
    <3>5. TaskInv'
      BY <2>1, <3>3, <3>4, <1>0, TaskFacts DEF TaskInv, a, Plain, Guarded, Sending
    <3>6. NoNewDelete(mem'.ops, mem.ops)
      BY <3>2, <3>4, MemFacts DEF Derived
    <3>7. QED
      BY <2>1, <3>4, <3>5, <3>6 DEF JournalInv, Keeps
  <2>3. CASE a # NoApply
    <3>1. task' \in {Idle, At("begun")} /\ UNCHANGED journal
      BY <1>2, <2>3 DEF Begin
    <3>2. a.step # "none" /\ a' = a
      BY <2>3, <3>1, MemFacts DEF DocOK, SideOK, IsApply, a, journal
    <3>3. TaskInv'
      BY <2>1, <3>1, <3>2, <1>0, TaskFacts DEF TaskInv, Plain, Guarded, Sending
    <3>4. QED
      BY <2>1, <3>1, <3>3, MemFacts DEF JournalInv, Keeps, journal, Derived
  <2>4. QED
    BY <2>2, <2>3
<1>3. CASE Resume
  <2>1. UNCHANGED <<journal, feed, wire, reply>>
    BY <1>3 DEF Resume, NoEffect, ApplyFrame, remote
  <2>2. \/ task' = At("manifest")
        \/ task' = [At("read_page") EXCEPT !.row = a.row]
        \/ a # NoApply /\ task' = [At("begun") EXCEPT !.row = a.row]
    BY <1>3 DEF Resume
  <2>3. IsTask(task', feed) /\ task'.pc \in {"manifest", "read_page", "begun"}
    <3>1. CASE task' = At("manifest")
      BY <3>1, <1>0, TaskFacts
    <3>2. ASSUME NEW pc, task' = [At(pc) EXCEPT !.row = a.row]
          PROVE  IsTask(task', feed) /\ task'.pc = pc
      BY <3>2, MemFacts, <1>0, TaskFacts DEF IsTask, IsRecord
    <3>3. QED
      BY <2>2, <3>1, <3>2
  <2>4. task'.pc = "begun" => a.step # "none"
    <3>1. a # NoApply => a.step # "none"
      BY MemFacts DEF DocOK, SideOK, IsApply, a
    <3>2. ASSUME task'.pc = "begun" PROVE a # NoApply
      <4>1. task' # At("manifest")
        BY <3>2, <1>0, TaskFacts
      <4>2. task' # [At("read_page") EXCEPT !.row = a.row]
        BY <3>2, <1>0, TaskFacts DEF IsTask, IsRecord
      <4>3. QED
        BY <2>2, <4>1, <4>2
    <3>3. QED
      BY <3>1, <3>2
  <2>5. TaskInv'
    BY <2>1, <2>3, <2>4 DEF TaskInv, journal, a, Sending
  <2>6. QED
    BY <2>1, <2>5, MemFacts DEF JournalInv, Keeps, journal, Derived
<1>4. CASE Begun
  <2>1. UNCHANGED <<feed, wire, reply>> /\ a.step \in {"prepared", "named", "copied"}
    BY <1>4, MemFacts
    DEF Begun, NoEffect, ApplyFrame, remote, JournalInv, TaskInv, DocOK, SideOK, IsApply, a
  <2>2. CASE a.step = "prepared" /\ Obsolete(mem, a.rev)
    <3>1. Save(EndApply(mem), At("row_done"))
      BY <1>4, <2>2 DEF Begun, RowDone
    <3>2. Derived(EndApply(mem), mem, feed, wire) /\ Plain(At("row_done"))
      BY MemFacts, ApplyDocs, <1>0, TaskFacts DEF Guarded
    <3>3. QED
      BY <2>1, <3>1, <3>2, Saves
  <2>3. CASE ~(a.step = "prepared" /\ Obsolete(mem, a.rev))
    <3>1. /\ UNCHANGED journal /\ task' \in {At("decide"), At("copy"), At("finish")}
          /\ task' = At("finish") => a.step = "copied"
      <4>1. At("finish") # At("decide") /\ At("finish") # At("copy")
        BY <1>0, TaskFacts
      <4>2. CASE a.step = "prepared"
        BY <1>4, <2>3, <4>1, <4>2 DEF Begun, Goto
      <4>3. CASE a.step = "named"
        BY <1>4, <2>3, <4>1, <4>3 DEF Begun, Goto
      <4>4. CASE a.step = "copied"
        BY <1>4, <2>3, <4>4 DEF Begun, Goto
      <4>5. QED
        BY <2>1, <4>2, <4>3, <4>4
    <3>2. TaskInv'
      BY <2>1, <3>1, <1>0, TaskFacts DEF TaskInv, journal, a, Sending
    <3>3. QED
      BY <2>1, <3>1, <3>2, MemFacts DEF JournalInv, Keeps, journal, Derived
  <2>4. QED
    BY <2>2, <2>3
<1>5. QED
  BY <1>1, <1>2, <1>3, <1>4

\* The steps of an apply that write the journal, or nothing but the task.
LEMMA DecideSteps ==
  ASSUME JournalInv,
         \/ Decide \/ RefusedWrite \/ StartConflict \/ Complete \/ MarkCopy \/ CopyAttended
         \/ Finish \/ AttendRefused
  PROVE  Keeps
<1>0. task.pc # "idle"
  BY DEF Decide, RefusedWrite, StartConflict, Complete, MarkCopy, CopyAttended, Finish,
         AttendRefused
<1>1. UNCHANGED <<feed, wire, reply>>
  BY DEF Decide, RefusedWrite, StartConflict, Complete, MarkCopy, CopyAttended, Finish,
         AttendRefused, NoEffect, ApplyFrame, remote
<1>2. /\ Plain(Idle) /\ Plain(RowDone) /\ Plain(At("copy")) /\ Plain(At("attend"))
      /\ \A text : Plain(Saw("trash", text))
      /\ \A text : Plain(Saw("conflict", text)) /\ Plain(Saw("complete", text))
  BY <1>0, TaskFacts DEF Guarded, RowDone
<1>3. /\ \A text : Derived(Expect(mem, text), mem, feed, wire)
      /\ \A text : Derived(NameCopy(mem, text), mem, feed, wire)
      /\ Derived(MarkCopied(mem), mem, feed, wire) /\ Derived(CompleteApply(mem), mem, feed, wire)
  BY MemFacts, RecordedDocs, ApplyDocs
<1>4. ASSUME NEW next, Plain(next)
      PROVE  /\ \A d : Derived(d, mem, feed, wire) /\ Save(d, next) => Keeps
             /\ NoteAttention(next) => Keeps
             /\ ClearExpected(next) => Keeps
             /\ UNCHANGED journal /\ task' = next => Keeps
  BY <1>1, <1>4, Saves, QuietStep
<1>14. ASSUME NEW text, Save(Expect(mem, a.text), Saw("write", text)), Replaceable(text)
       PROVE  Keeps
  <2> DEFINE d == Expect(mem, a.text)
             next == Saw("write", text)
  <2>1. SaveOr(d, next, Idle) /\ Derived(d, mem, feed, wire)
    BY <1>3, <1>14 DEF Save
  <2>2. d.apply = mem.apply /\ d.base = mem.base
    BY MemFacts DEF Expect, IsDocument, IsRecord
  <2>3. IsTask(next, feed) /\ next.pc = "write" /\ next.seen = text
    BY <1>0, EndFacts DEF IsTask, IsRecord, Saw
  <2> HIDE DEF d, next
  <2>4. /\ DocOK(mem', feed', wire') /\ DocOK(disk', feed', wire')
        /\ blocked' \in BOOLEAN /\ (~blocked' => mem' = disk')
        /\ (task' = next /\ mem' = d) \/ (task' = Idle /\ mem' = mem)
    BY <1>1, <2>1, SaveFacts DEF Derived
  <2>5. TaskInv'
    <3>1. CASE task' = next /\ mem' = d
      <4>1. mem'.apply = mem.apply /\ mem'.base = mem.base /\ task'.seen = text
        BY <2>2, <2>3, <3>1
      <4>2. Replaceable(task.seen)'
        BY <1>14, <4>1 DEF Replaceable, Clean, a
      <4>3. IsTask(task', feed') /\ task'.pc = "write"
        BY <1>1, <2>3, <3>1
      <4>4. QED
        BY <4>2, <4>3 DEF TaskInv, Sending
    <3>2. CASE task' = Idle
      BY <1>1, <1>2, <3>2, PlainTask
    <3>3. QED
      BY <2>4, <3>1, <3>2
  <2>6. NoNewDelete(mem'.ops, mem.ops)
    BY <2>1, <2>4, MemFacts DEF Derived
  <2>7. QED
    BY <1>1, <2>4, <2>5, <2>6 DEF JournalInv, Keeps
<1>5. CASE Decide
  <2>1. CASE local = a.text
    <3>1. Save(CompleteApply(mem), RowDone)
      BY <1>5, <2>1 DEF Decide
    <3>2. QED
      BY <1>2, <1>3, <1>4, <3>1
  <2>2. CASE local # a.text /\ local = Absent
    <3>1. Save(Expect(mem, a.text), Saw("write", Absent)) /\ Replaceable(Absent)
      BY <1>5, <2>2 DEF Decide, Replaceable
    <3>2. QED
      BY <1>14, <3>1
  <2>3. CASE local # a.text /\ local # Absent /\ Clean(local)
    <3>1. \/ task' = Saw("trash", local) /\ UNCHANGED journal
          \/ Save(Expect(mem, a.text), Saw("write", local))
      BY <1>5, <2>3 DEF Decide
    <3>2. Replaceable(local)
      BY <2>3 DEF Replaceable
    <3>3. QED
      BY <1>2, <1>3, <1>4, <1>14, <3>1, <3>2
  <2>4. CASE local # a.text /\ local # Absent /\ ~Clean(local)
    <3>1. Save(NameCopy(mem, local), At("copy"))
      BY <1>5, <2>4 DEF Decide
    <3>2. QED
      BY <1>2, <1>3, <1>4, <3>1
  <2>5. QED
    BY <2>1, <2>2, <2>3, <2>4
<1>6. CASE RefusedWrite
  <2>1. ClearExpected(Idle) \/ ClearExpected(Saw("conflict", local))
    BY <1>6 DEF RefusedWrite
  <2>2. QED
    BY <1>2, <1>4, <2>1
<1>7. CASE StartConflict
  <2>1. Save(NameCopy(mem, task.seen), At("copy"))
    BY <1>7 DEF StartConflict
  <2>2. QED
    BY <1>2, <1>3, <1>4, <2>1
<1>8. CASE Complete
  <2>1. (task' = Idle /\ UNCHANGED journal) \/ Save(CompleteApply(mem), RowDone)
    BY <1>8 DEF Complete
  <2>2. QED
    BY <1>2, <1>3, <1>4, <2>1
<1>9. CASE MarkCopy
  <2> DEFINE d == MarkCopied(mem)
  <2>1. SaveOr(d, At("finish"), Idle) /\ Derived(d, mem, feed, wire)
    BY <1>3, <1>9 DEF MarkCopy, Save
  <2>2. d.apply.step = "copied"
    <3>1. IsRecord(mem.apply, {"row", "rev", "text", "step", "copy"}) /\ IsDocument(mem)
      BY MemFacts DEF DocOK, SideOK, IsApply
    <3>2. QED
      BY <3>1 DEF MarkCopied, IsDocument, IsRecord
  <2> HIDE DEF d
  <2>3. /\ DocOK(mem', feed', wire') /\ DocOK(disk', feed', wire')
        /\ blocked' \in BOOLEAN /\ (~blocked' => mem' = disk')
        /\ (task' = At("finish") /\ mem' = d) \/ (task' = Idle /\ mem' = mem)
    BY <1>1, <2>1, SaveFacts DEF Derived
  <2>4. TaskInv'
    BY <1>1, <2>2, <2>3, <1>0, TaskFacts DEF TaskInv, a, Plain, Guarded, Sending
  <2>5. NoNewDelete(mem'.ops, mem.ops)
    BY <2>1, <2>3, MemFacts DEF Derived
  <2>6. QED
    BY <1>1, <2>3, <2>4, <2>5 DEF JournalInv, Keeps
<1>10. CASE CopyAttended
  <2>1. NoteAttention(RowDone)
    BY <1>10 DEF CopyAttended, Attended
  <2>2. QED
    BY <1>2, <1>4, <2>1
<1>11. CASE Finish
  <2> DEFINE Attends ==
        \/ ~Copied
        \/ local \notin {Absent, a.text, a.copy.text} /\ (a.text = Absent \/ ~Clean(local))
  <2>1. CASE Attends
    <3>1. NoteAttention(RowDone)
      BY <1>11, <2>1 DEF Finish, Attended
    <3>2. QED
      BY <1>2, <1>4, <3>1
  <2>2. CASE ~Attends
    <3>1. a.step = "copied"
      BY <1>11 DEF Finish, JournalInv, TaskInv
    <3>2. Replaceable(local)
      BY <2>2, <3>1 DEF Replaceable
    <3>3. \/ Save(Expect(mem, a.text), Saw("write", local))
          \/ UNCHANGED journal /\ task' \in {Saw("complete", local), Saw("trash", local)}
      BY <1>11, <2>2 DEF Finish
    <3>4. QED
      BY <1>2, <1>4, <1>14, <3>2, <3>3
  <2>3. QED
    BY <2>1, <2>2
<1>12. CASE AttendRefused
  <2>1. ClearExpected(At("attend")) \/ NoteAttention(RowDone)
    BY <1>12 DEF AttendRefused, Attended
  <2>2. QED
    BY <1>2, <1>4, <2>1
<1>13. QED
  BY <1>5, <1>6, <1>7, <1>8, <1>9, <1>10, <1>11, <1>12

\* The steps of an apply on the file.
LEMMA FileSteps ==
  ASSUME JournalInv, Write \/ ReadBack \/ Trash \/ MoveToTrash \/ Trashed \/ CreateCopy
  PROVE  Keeps
<1>0. task.pc # "idle"
  BY DEF Write, ReadBack, Trash, MoveToTrash, Trashed, CreateCopy
<1>1. UNCHANGED <<journal, feed, wire, reply>>
  BY DEF Write, ReadBack, Trash, MoveToTrash, Trashed, CreateCopy, NoEffect, ApplyFrame, remote,
         journal
<1>2. /\ Plain(Idle) /\ Plain(At("written")) /\ Plain(At("unwritten")) /\ Plain(At("complete"))
      /\ Plain(At("refused")) /\ Plain(At("attend")) /\ Plain(At("clear"))
      /\ Plain(At("trashing")) /\ Plain(At("trashed")) /\ Plain(At("check"))
  BY <1>0, TaskFacts DEF Guarded
<1>3. CASE Write
  <2>1. \E pc \in {"written", "unwritten", "complete", "refused"} : task' = At(pc)
    BY <1>3 DEF Write, Goto
  <2>2. QED
    BY <1>1, <1>2, <2>1, QuietStep
<1>4. CASE ReadBack
  <2>1. \E pc \in {"complete", "refused", "attend", "clear"} : task' = At(pc)
    BY <1>4 DEF ReadBack
  <2>2. QED
    BY <1>1, <1>2, <2>1, QuietStep
<1>5. CASE Trash
  <2>1. task' = Idle \/ \E pc \in {"trashing", "complete", "attend"} : task' = At(pc)
    BY <1>5 DEF Trash
  <2>2. QED
    BY <1>1, <1>2, <2>1, QuietStep
<1>6. CASE MoveToTrash
  <2>1. \E pc \in {"trashed", "complete"} : task' = At(pc)
    BY <1>6 DEF MoveToTrash, Goto
  <2>2. QED
    BY <1>1, <1>2, <2>1, QuietStep
<1>7. CASE Trashed
  <2>1. \E pc \in {"complete", "attend"} : task' = At(pc)
    BY <1>7 DEF Trashed, Goto
  <2>2. QED
    BY <1>1, <1>2, <2>1, QuietStep
<1>8. CASE CreateCopy
  BY <1>1, <1>2, <1>8, QuietStep DEF CreateCopy, Goto
<1>9. QED
  BY <1>3, <1>4, <1>5, <1>6, <1>7, <1>8

-----------------------------------------------------------------------------
(* Publication.                                                             *)

\* A free key was never used.
LEMMA FreshKey ==
  ASSUME FreeKeys # {}
  PROVE  NewKey \in OpKeys /\ Unused(NewKey, mem.ops, feed, wire) /\ NewKey \notin Keys(mem)
<1>1. NewKey \in FreeKeys
  BY DEF NewKey
<1>2. QED
  BY <1>1 DEF FreeKeys, InUse, Keys, Unused

\* New uploads enter the queue.
LEMMA NewPuts ==
  ASSUME JournalInv, FreeKeys # {}, NEW text
  PROVE  /\ Derived(Enqueue(mem, NewPut(mem, text)), mem, feed, wire)
         /\ LET d == Enqueue(mem, [NewPut(mem, text) EXCEPT !.pre = 0])
            IN /\ Derived(d, mem, feed, wire)
               /\ \E i \in DOMAIN d.ops : d.ops[i].op = "put" /\ d.ops[i].pre = 0
<1> DEFINE o == NewPut(mem, text)
           c == [NewPut(mem, text) EXCEPT !.pre = 0]
<1>1. /\ IsOp(o) /\ o.key = NewKey /\ o.op = "put"
      /\ IsOp(c) /\ c.key = NewKey /\ c.op = "put" /\ c.pre = 0
  BY FreshKey DEF NewPut, Operation, IsOp, IsRecord
<1>2. DocOK(mem, feed, wire)
  BY DEF JournalInv
<1>3. Unused(NewKey, mem.ops, feed, wire)
  BY FreshKey
<1> HIDE DEF o, c
<1>4. /\ DocOK(Enqueue(mem, o), feed, wire) /\ NoNewDelete(Enqueue(mem, o).ops, mem.ops)
      /\ DocOK(Enqueue(mem, c), feed, wire) /\ NoNewDelete(Enqueue(mem, c).ops, mem.ops)
      /\ \E i \in DOMAIN Enqueue(mem, c).ops : Enqueue(mem, c).ops[i] = c
  <2>1. /\ DocOK(Enqueue(mem, o), feed, wire)
        /\ o.op # "delete" => NoNewDelete(Enqueue(mem, o).ops, mem.ops)
    BY <1>1, <1>2, <1>3, EnqueuedDoc
  <2>2. /\ DocOK(Enqueue(mem, c), feed, wire)
        /\ c.op # "delete" => NoNewDelete(Enqueue(mem, c).ops, mem.ops)
        /\ \E i \in DOMAIN Enqueue(mem, c).ops : Enqueue(mem, c).ops[i] = c
    BY <1>1, <1>2, <1>3, EnqueuedDoc
  <2>3. QED
    BY <1>1, <2>1, <2>2
<1>5. QED
  BY <1>1, <1>4 DEF Derived, o, c

\* A step of the task that leaves the vault and the wire alone.
LEMMA StepForms ==
  ASSUME JournalInv, UNCHANGED <<feed, wire, reply>>, NEW next, Plain(next)
  PROVE  /\ \A d : Derived(d, mem, feed, wire) /\ Save(d, next) => Keeps
         /\ NoteAttention(next) => Keeps
         /\ ClearExpected(next) => Keeps
         /\ UNCHANGED journal /\ task' = next => Keeps
BY Saves, QuietStep

\* A scan, and the choice of what a flush looks at.
LEMMA ScanSteps ==
  ASSUME JournalInv, Scan \/ Restore \/ Restored \/ StartFlush \/ Skip \/ EndFlush
  PROVE  Keeps
<1>0. task.pc # "idle"
  BY DEF Scan, Restore, Restored, StartFlush, Skip, EndFlush, Picking
<1>1. UNCHANGED <<feed, wire, reply>>
  BY DEF Scan, Restore, Restored, StartFlush, Skip, EndFlush, SameJournal, PublicationFrame,
         NoWire, remote
<1>2. /\ Plain(Idle) /\ Plain(Finished(task)) /\ Plain(FlushEnd) /\ Plain(At("restore"))
      /\ Plain(At("restored")) /\ Plain(At("kept")) /\ Plain(At("pick"))
  BY <1>0, TaskFacts DEF Guarded
<1>3. CASE Scan
  <2>1. \/ FreeKeys # {} /\ Save(Enqueue(mem, NewPut(mem, local)), Finished(task))
        \/ UNCHANGED journal /\ task' = Finished(task)
        \/ Save(Expect(mem, mem.base.text), At("restore"))
    BY <1>3 DEF Scan, ScanMissing
  <2>2. CASE FreeKeys # {} /\ Save(Enqueue(mem, NewPut(mem, local)), Finished(task))
    BY <1>1, <1>2, <2>2, NewPuts, StepForms
  <2>3. CASE UNCHANGED journal /\ task' = Finished(task)
    BY <1>1, <1>2, <2>3, StepForms
  <2>4. CASE Save(Expect(mem, mem.base.text), At("restore"))
    BY <1>1, <1>2, <2>4, MemFacts, RecordedDocs, StepForms
  <2>5. QED
    BY <2>1, <2>2, <2>3, <2>4
<1>4. CASE Restore
  <2>1. UNCHANGED journal /\ task' \in {At("restored"), At("kept")}
    BY <1>4 DEF Restore, Goto
  <2>2. QED
    BY <1>1, <1>2, <2>1, StepForms
<1>5. CASE Restored
  <2>1. ClearExpected(Finished(task)) \/ ClearExpected(Idle)
    BY <1>5 DEF Restored
  <2>2. QED
    BY <1>1, <1>2, <2>1, StepForms
<1>6. CASE StartFlush
  <2> DEFINE next == [At("pick") EXCEPT !.keys = [i \in DOMAIN mem.ops |-> KeyAt(i)]]
  <2>1. UNCHANGED journal /\ task' = next
    BY <1>6 DEF StartFlush
  <2>2. Plain(next)
    BY <1>2 DEF Plain, IsTask, IsRecord
  <2> HIDE DEF next
  <2>3. QED
    BY <1>1, <2>1, <2>2, StepForms
<1>7. CASE Skip
  <2> DEFINE next == [task EXCEPT !.keys = Tail(@)]
  <2>1. UNCHANGED journal /\ task' = next /\ task.pc = "pick"
    BY <1>7 DEF Skip, SameJournal, Picking
  <2>2. Plain(next)
    BY <2>1, EndFacts DEF Plain, IsTask, IsRecord, Guarded
  <2> HIDE DEF next
  <2>3. QED
    BY <1>1, <2>1, <2>2, StepForms
<1>8. CASE EndFlush
  BY <1>1, <1>2, <1>8, StepForms DEF EndFlush, SameJournal
<1>9. QED
  BY <1>3, <1>4, <1>5, <1>6, <1>7, <1>8

\* A step of the task that leaves the journal, the vault and the wire alone.
LEMMA QuietTask ==
  ASSUME JournalInv, UNCHANGED <<journal, feed, wire, reply>>, TaskInv'
  PROVE  Keeps
BY MemFacts DEF JournalInv, Keeps, journal, Derived

\* A write of the journal after which the task may be at a guarded stage.
LEMMA GuardedSave ==
  ASSUME JournalInv, NEW d, NEW next, NEW failed, SaveOr(d, next, failed),
         Derived(d, mem, feed, wire), UNCHANGED <<feed, wire, reply>>,
         task' = next /\ mem' = d /\ ~blocked' => TaskInv',
         task' = failed /\ mem' = mem => TaskInv'
  PROVE  Keeps
<1>1. /\ DocOK(mem', feed', wire') /\ DocOK(disk', feed', wire')
      /\ blocked' \in BOOLEAN /\ (~blocked' => mem' = disk')
      /\ \/ task' = next /\ mem' = d /\ ~blocked'
         \/ task' = failed /\ mem' = mem /\ blocked'
  BY SaveFacts DEF Derived
<1>2. NoNewDelete(mem'.ops, mem.ops)
  BY <1>1, MemFacts DEF Derived
<1>3. QED
  BY <1>1, <1>2 DEF JournalInv, Keeps

\* The operation that a flush is at.
LEMMA AtOperation ==
  ASSUME JournalInv, task.key \in Keys(mem)
  PROVE  /\ \E i \in DOMAIN mem.ops : mem.ops[i] = op /\ mem.ops[i].key = task.key
         /\ IsOp(op) /\ op.key = task.key
<1>1. QueueOK(mem.ops, feed, wire)
  BY MemFacts
<1>2. \E i \in DOMAIN mem.ops : mem.ops[i].key = task.key /\ op = mem.ops[i]
  BY <1>1, OpOfFacts DEF op
<1>3. QED
  BY <1>1, <1>2 DEF QueueOK

\* What goes on the wire is what the journal has under the key, in memory and on disk.
LEMMA Requested ==
  ASSUME JournalInv, ~blocked, NEW n \in DOMAIN mem.ops, mem.ops[n].state = "sent",
         UNCHANGED <<journal, feed>>, wire' = wire \cup {Request(mem.ops[n])}
  PROVE  WireOK(wire', feed') /\ DocOK(mem', feed', wire') /\ DocOK(disk', feed', wire')
<1> DEFINE o == mem.ops[n]
           q == Request(o)
           s == mem.ops
<1>1. QueueOK(s, feed, wire) /\ mem = disk /\ WireOK(wire, feed)
  BY MemFacts DEF JournalInv
<1>2. IsOp(o) /\ o.state = "sent"
  BY <1>1 DEF QueueOK
<1>3. IsRecord(q, {"key", "op", "text", "pre", "knew", "again"}) /\ Sig(q) = Sig(o) /\ q.key = o.key
        /\ q.text = o.text
  BY DEF Request, IsRecord, Sig
<1>4. \A i \in DOMAIN s : s[i].key = q.key => s[i] = o
  BY <1>1, <1>3 DEF QueueOK
<1> HIDE DEF q, o
<1>5. \A r \in wire : r.key = q.key => Sig(r) = Sig(q)
  BY <1>1, <1>3 DEF QueueOK, o
<1>6. \A v \in DOMAIN feed : feed[v].key = q.key => feed[v].text = q.text
  BY <1>1, <1>3 DEF QueueOK, o
<1>7. WireOK(wire', feed')
  <2>1. \A r \in wire' : r \in wire \/ r = q
    BY DEF q, o
  <2>2. q.key \in OpKeys
    BY <1>2, <1>3 DEF IsOp
  <2>3. QED
    BY <1>1, <1>3, <1>5, <1>6, <2>1, <2>2 DEF WireOK
<1>8. QueueOK(s, feed', wire')
  <2>1. \A r \in wire' : r \in wire \/ r = q
    BY DEF q, o
  <2>2. QED
    BY <1>1, <1>2, <1>3, <1>4, <2>1 DEF QueueOK
<1>9. QED
  BY <1>1, <1>7, <1>8, MemFacts DEF DocOK, journal, s

\* What a flush does with an operation before it is sent.
LEMMA FlushSteps ==
  ASSUME JournalInv, Take \/ Refresh \/ Requeue \/ PrepareSend \/ Dispatch
  PROVE  Keeps
<1>0. task.pc # "idle"
  BY DEF Take, Refresh, Requeue, PrepareSend, Dispatch, Picking
<1>1. /\ Plain(Idle) /\ Plain(NextOp) /\ Plain(FlushEnd) /\ Plain(At("prepare"))
      /\ \A text : Plain(Saw("requeue", text))
  BY <1>0, TaskFacts DEF Guarded
<1>2. CASE Take
  <2> DEFINE k == Head(task.keys)
             pc == IF OpOf(mem, k).state = "sent" THEN "prepare" ELSE "refresh"
  <2>1. /\ k \in Keys(mem) /\ task' = [At(pc) EXCEPT !.keys = Tail(@), !.key = k]
        /\ UNCHANGED <<journal, feed, wire, reply>>
    BY <1>2 DEF Take, SameJournal, PublicationFrame, NoWire
  <2>2. pc \in {"prepare", "refresh"}
    OBVIOUS
  <2> HIDE DEF k, pc
  <2>3. IsTask(task', feed) /\ task'.pc \in {"prepare", "refresh"} /\ task'.key = k
    BY <1>0, <2>1, <2>2, TaskFacts DEF IsTask, IsRecord
  <2>4. TaskInv'
    BY <2>1, <2>3 DEF TaskInv, Sending, journal
  <2>5. QED
    BY <2>1, <2>4, QuietTask
<1>3. CASE Refresh
  <2>1. task.key \in Keys(mem) /\ UNCHANGED <<feed, wire, reply>>
    BY <1>3 DEF Refresh, JournalInv, TaskInv, Sending, PublicationFrame, NoWire
  <2>2. op.op \in {"put", "delete"}
    BY <2>1, AtOperation DEF IsOp
  <2>3. \/ UNCHANGED journal /\ task' = At("prepare")
        \/ Save(RecordQueuedRejected(mem, op.key), FlushEnd)
        \/ Save(DiscardQueued(mem, op.key), NextOp)
        \/ Save(RecordQueuedRejected(mem, op.key), Saw("requeue", local))
    <3>1. CASE op.op = "delete"
      BY <1>3, <3>1 DEF Refresh, Goto
    <3>2. CASE op.op = "put" /\ local = Absent
      BY <1>3, <3>2 DEF Refresh
    <3>3. CASE op.op = "put" /\ local # Absent /\ InSync
      BY <1>3, <3>3 DEF Refresh
    <3>4. CASE op.op = "put" /\ local # Absent /\ ~InSync /\ local = op.text
      BY <1>3, <3>4 DEF Refresh, Goto
    <3>5. CASE op.op = "put" /\ local # Absent /\ ~InSync /\ local # op.text
      BY <1>3, <3>5 DEF Refresh
    <3>6. QED
      BY <2>2, <3>1, <3>2, <3>3, <3>4, <3>5
  <2>4. /\ Derived(RecordQueuedRejected(mem, op.key), mem, feed, wire)
        /\ Derived(DiscardQueued(mem, op.key), mem, feed, wire)
    BY MemFacts, LeavingDocs
  <2>5. QED
    BY <1>1, <2>1, <2>3, <2>4, StepForms
<1>4. CASE Requeue
  <2>1. /\ UNCHANGED <<feed, wire, reply>> /\ FreeKeys # {}
        /\ Save(Enqueue(mem, NewPut(mem, task.seen)), FlushEnd)
    BY <1>4 DEF Requeue, PublicationFrame, NoWire
  <2>2. QED
    BY <1>1, <2>1, NewPuts, StepForms
<1>5. CASE PrepareSend
  <2>1. UNCHANGED <<feed, wire, reply>>
    BY <1>5 DEF PrepareSend, PublicationFrame, NoWire
  <2>2. CASE blocked \/ ~MayPrepare(mem, task.key)
    <3>1. UNCHANGED journal /\ task' = Idle
      BY <1>5, <2>2 DEF PrepareSend
    <3>2. QED
      BY <1>1, <2>1, <3>1, StepForms
  <2>3. CASE ~blocked /\ MayPrepare(mem, task.key)
    <3>1. task.key \in Keys(mem)
      <4>1. IsSeq(mem.ops) /\ mem.ops # <<>> /\ mem.ops[1].key = task.key
        BY <2>3, MemFacts DEF QueueOK, MayPrepare
      <4>2. 1 \in DOMAIN mem.ops
        BY <4>1 DEF IsSeq
      <4>3. QED
        BY <4>1, <4>2 DEF Keys
    <3>2. CASE op.state = "sent"
      <4>1. UNCHANGED journal /\ task' = At("dispatch")
        BY <1>5, <2>3, <3>2 DEF PrepareSend, Goto
      <4>2. TaskInv'
        BY <1>0, <2>1, <2>3, <3>1, <3>2, <4>1, TaskFacts DEF TaskInv, Sending, journal, op
      <4>3. QED
        BY <2>1, <4>1, <4>2, QuietTask
    <3>3. CASE op.state # "sent"
      <4> DEFINE d == Prepare(mem, task.key)
      <4>1. SaveOr(d, At("dispatch"), Idle)
        BY <1>5, <2>3, <3>3 DEF PrepareSend, Save
      <4>2. Derived(d, mem, feed, wire) /\ Keys(d) = Keys(mem) /\ OpOf(d, task.key).state = "sent"
        BY <3>1, MemFacts, QueueDocs
      <4> HIDE DEF d
      <4>3. ASSUME task' = At("dispatch"), mem' = d, ~blocked' PROVE TaskInv'
        BY <1>0, <2>1, <3>1, <4>2, <4>3, TaskFacts DEF TaskInv, Sending
      <4>4. ASSUME task' = Idle PROVE TaskInv'
        BY <1>1, <2>1, <4>4, PlainTask
      <4>5. QED
        BY <2>1, <4>1, <4>2, <4>3, <4>4, GuardedSave
    <3>4. QED
      BY <3>2, <3>3
  <2>4. QED
    BY <2>2, <2>3
<1>6. CASE Dispatch
  <2>1. /\ task.key \in Keys(mem) /\ ~blocked /\ op.state = "sent"
        /\ UNCHANGED <<journal, feed>> /\ reply' = 0 /\ task' = At("await")
        /\ wire' = wire \cup {Request(op)}
    BY <1>6 DEF Dispatch, JournalInv, TaskInv, Sending, PublicationFrame, NoReply, Goto, op
  <2>2. PICK n \in DOMAIN mem.ops : mem.ops[n] = op
    BY <2>1, AtOperation
  <2>3. WireOK(wire', feed') /\ DocOK(mem', feed', wire') /\ DocOK(disk', feed', wire')
    BY <2>1, <2>2, Requested
  <2>4. TaskInv'
    BY <1>0, <2>1, TaskFacts DEF TaskInv, Sending, journal
  <2>5. QED
    BY <2>1, <2>3, <2>4, MemFacts DEF JournalInv, Keeps, Derived, journal
<1>7. QED
  BY <1>2, <1>3, <1>4, <1>5, <1>6

\* What a flush does with an answer.
LEMMA SettleSteps ==
  ASSUME JournalInv, DeferSend \/ Confirm \/ Settle \/ Recover \/ Reject
  PROVE  Keeps
<1>0. task.pc # "idle"
  BY DEF DeferSend, Confirm, Settle, Recover, Reject
<1>1. UNCHANGED <<feed, wire, reply>>
  BY DEF DeferSend, Confirm, Settle, Recover, Reject, PublicationFrame, NoWire
<1>2. Plain(Idle) /\ Plain(NextOp)
  BY <1>0, TaskFacts
<1>3. ASSUME task.key \in Keys(mem), task' = At("defer"), mem' = mem
      PROVE  TaskInv'
  BY <1>0, <1>1, <1>3, TaskFacts DEF TaskInv, Sending
<1>4. CASE DeferSend
  <2>1. task.key \in Keys(mem)
    BY <1>4 DEF DeferSend, JournalInv, TaskInv, Sending
  <2>2. Save(Defer(mem, task.key), NextOp) /\ Derived(Defer(mem, task.key), mem, feed, wire)
    BY <1>4, <2>1, MemFacts, QueueDocs DEF DeferSend
  <2>3. QED
    BY <1>1, <1>2, <2>2, StepForms
<1>5. CASE Confirm
  <2>1. /\ task.key \in Keys(mem) /\ reply > 0 /\ TrueRow(reply, op.text, feed)
    <3>1. reply > 0 /\ task.pc = "await"
      BY <1>5, EndFacts DEF Confirm, Head_
    <3>2. QED
      BY <3>1 DEF JournalInv, TaskInv, Sending, op
  <2>2. CASE mem.base.rev > reply
    <3>1. UNCHANGED journal /\ task' = At("settle")
      BY <1>5, <2>2 DEF Confirm, Goto
    <3>2. TaskInv'
      BY <1>0, <1>1, <2>1, <3>1, TaskFacts DEF TaskInv, Sending, journal
    <3>3. QED
      BY <1>1, <3>1, <3>2, QuietTask
  <2>3. CASE ~(mem.base.rev > reply)
    <3> DEFINE d == SetBase(mem, ReceiptBase)
    <3>1. SaveOr(d, At("settle"), At("defer"))
      BY <1>5, <2>3 DEF Confirm, SetBase
    <3>2. IsBase(ReceiptBase, feed)
      BY <2>1 DEF IsBase, IsRecord, ReceiptBase
    <3>3. Derived(d, mem, feed, wire)
      BY <3>2, MemFacts, RecordedDocs
    <3>4. d.ops = mem.ops
      BY MemFacts DEF SetBase, IsDocument, IsRecord
    <3> HIDE DEF d
    <3>5. ASSUME task' = At("settle"), mem' = d PROVE TaskInv'
      BY <1>0, <1>1, <2>1, <3>4, <3>5, TaskFacts DEF TaskInv, Sending, Keys
    <3>6. QED
      BY <1>1, <1>3, <2>1, <3>1, <3>3, <3>5, GuardedSave
  <2>4. QED
    BY <2>2, <2>3
<1>6. CASE Settle
  <2> DEFINE d == Resolve(mem, task.key, ReceiptBase)
  <2>1. SaveOr(d, NextOp, At("defer")) /\ task.key \in Keys(mem)
    BY <1>6 DEF Settle, JournalInv, TaskInv, Sending
  <2>2. Derived(d, mem, feed, wire)
    BY MemFacts, ResolvedDoc
  <2> HIDE DEF d
  <2>3. task' = NextOp => TaskInv'
    BY <1>1, <1>2, PlainTask
  <2>4. QED
    BY <1>1, <1>3, <2>1, <2>2, <2>3, GuardedSave
<1>7. CASE Recover
  <2> DEFINE r == <<"replay", "reject">> \o task.rest
             next == [At("replay") EXCEPT !.rest = <<"replay", "reject">> \o @, !.spare = task.key]
  <2>1. UNCHANGED journal /\ task' = next
    BY <1>7 DEF Recover
  <2>2. Rest(r)
    BY <1>0, TaskFacts, RestFacts
  <2>3. next = [At("replay") EXCEPT !.rest = r, !.spare = task.key]
    BY EndFacts DEF At, IsTask, IsRecord
  <2> HIDE DEF r, next
  <2>4. Plain(next)
    BY <1>0, <2>2, <2>3, TaskFacts DEF Plain, IsTask, IsRecord, Guarded
  <2>5. QED
    BY <1>1, <2>1, <2>4, StepForms
<1>8. CASE Reject
  <2>1. CASE task.key \notin Keys(mem)
    <3>1. UNCHANGED journal /\ task' = Idle
      BY <1>8, <2>1 DEF Reject
    <3>2. QED
      BY <1>1, <1>2, <3>1, StepForms
  <2>2. CASE task.key \in Keys(mem)
    <3> DEFINE r == IF Head(task.rest) = "reject" THEN Tail(task.rest) ELSE task.rest
               next == [NextOp EXCEPT !.rest = IF Head(@) = "reject" THEN Tail(@) ELSE @]
    <3>1. Save(RecordRejected(mem, task.key), next)
      BY <1>8, <2>2 DEF Reject
    <3>2. Rest(r)
      BY <1>0, TaskFacts, RestFacts
    <3>3. next = [NextOp EXCEPT !.rest = r]
      BY EndFacts DEF NextOp, At, IsTask, IsRecord
    <3> HIDE DEF r, next
    <3>4. Plain(next)
      BY <1>2, <3>2, <3>3 DEF Plain, IsTask, IsRecord
    <3>5. Derived(RecordRejected(mem, task.key), mem, feed, wire)
      BY MemFacts, LeavingDocs
    <3>6. QED
      BY <1>1, <3>1, <3>4, <3>5, StepForms
  <2>3. QED
    BY <2>1, <2>2
<1>9. QED
  BY <1>4, <1>5, <1>6, <1>7, <1>8

-----------------------------------------------------------------------------
(* The cycle and its replay.                                                *)

\* A cycle that starts, and the rows of a page.
LEMMA ReplaySteps ==
  ASSUME JournalInv, StartCycle \/ ReplayStep
  PROVE  Keeps
<1>1. UNCHANGED <<feed, wire, reply>>
  BY DEF StartCycle, ReplayStep, ReadPage, NextRow, EndRow, ReplayFrame, remote
<1>2. CASE StartCycle
  <2> DEFINE r == <<"resume", "scan", "flush", "replay">>
             next == [Idle EXCEPT !.pc = "resume", !.rest = r]
  <2>1. UNCHANGED journal /\ task' = next
    BY <1>2 DEF StartCycle, Quietly
  <2>2. Rest(r)
    BY DEF Rest, Stages
  <2> HIDE DEF r
  <2>3. Plain(next)
    <3>1. next.pc = "resume" /\ next.rest = r /\ next.row = 0 /\ next.head = 0
      BY DEF Idle
    <3>2. IsRecord(next, {"pc", "rest", "row", "head", "seen", "key", "keys", "spare", "for"})
      BY DEF Idle, IsRecord
    <3> HIDE DEF next
    <3>3. QED
      BY <2>2, <3>1, <3>2, EndFacts DEF Plain, IsTask, Guarded, Head_
  <2> HIDE DEF next
  <2>4. QED
    BY <1>1, <2>1, <2>3, StepForms
<1>3. CASE ReadPage
  <2> DEFINE next == [At("next_row") EXCEPT !.head = Head_]
  <2>1. UNCHANGED journal /\ task' \in {next, Finished(task), At("manifest")} /\ task.pc # "idle"
    BY <1>3 DEF ReadPage, Quietly
  <2>2. Plain(next)
    <3>1. Plain(At("next_row"))
      BY <2>1, TaskFacts DEF Guarded
    <3>2. /\ next = [At("next_row") EXCEPT !.head = Len(feed)]
          /\ Len(feed) \in Nat /\ 0 <= Len(feed) /\ Len(feed) <= Len(feed)
      BY EndFacts DEF Head_
    <3> HIDE DEF next
    <3>3. QED
      BY <3>1, <3>2 DEF Plain, IsTask, IsRecord
  <2>3. Plain(Finished(task)) /\ Plain(At("manifest"))
    BY <2>1, TaskFacts DEF Guarded
  <2> HIDE DEF next
  <2>4. QED
    BY <1>1, <2>1, <2>2, <2>3, StepForms
<1>4. CASE NextRow
  <2> DEFINE row == mem.cursor + 1
             next == [At("begin") EXCEPT !.row = row]
  <2>1. task.pc = "next_row"
    BY <1>4 DEF NextRow
  <2>2. Plain(Finished(task)) /\ Plain(task) /\ row \in Int
    BY <2>1, TaskFacts, EndFacts, MemFacts DEF Plain, Guarded
  <2>3. CASE row > task.head \/ Unresolved # {}
    <3>1. UNCHANGED journal /\ task' = Finished(task)
      BY <1>4, <2>3 DEF NextRow, Quietly
    <3>2. QED
      BY <1>1, <2>2, <3>1, StepForms
  <2>4. CASE ~(row > task.head \/ Unresolved # {})
    <3>1. CASE Skipped(row)
      <4>1. Save(SetCursor(mem, row), task)
        BY <1>4, <2>4, <3>1 DEF NextRow
      <4>2. Derived(SetCursor(mem, row), mem, feed, wire)
        BY <2>2, MemFacts, RecordedDocs
      <4>3. QED
        BY <1>1, <2>2, <4>1, <4>2, StepForms
    <3>2. CASE ~Skipped(row)
      <4>1. UNCHANGED journal /\ task' = next
        BY <1>4, <2>4, <3>2 DEF NextRow, Quietly
      <4>2. IsTask(next, feed) /\ next.pc = "begin" /\ next.row = row
        BY <2>1, <2>2, TaskFacts DEF IsTask, IsRecord
      <4>3. row <= Len(feed)
        BY <2>2, <2>4, EndFacts DEF IsTask
      <4> HIDE DEF next, row
      <4>4. TaskInv'
        BY <1>1, <4>1, <4>2, <4>3 DEF TaskInv, Sending
      <4>5. QED
        BY <1>1, <4>1, <4>4, QuietTask
    <3>3. QED
      BY <3>1, <3>2
  <2>5. QED
    BY <2>3, <2>4
<1>5. CASE EndRow
  <2>1. task.pc = "row_done"
    BY <1>5 DEF EndRow
  <2>2. /\ Plain(At("entry")) /\ Plain(At("applied")) /\ Plain(At("read_page"))
        /\ Plain(At("next_row"))
    BY <2>1, TaskFacts DEF Guarded
  <2>3. \/ UNCHANGED journal /\ task' \in {At("entry"), At("applied"), At("read_page")}
        \/ Save(SetCursor(mem, task.row), At("next_row"))
    BY <1>5 DEF EndRow, Quietly, Goto
  <2>4. Derived(SetCursor(mem, task.row), mem, feed, wire)
    BY MemFacts, EndFacts, RecordedDocs DEF IsTask
  <2>5. QED
    BY <1>1, <2>2, <2>3, <2>4, StepForms
<1>6. QED
  BY <1>2, <1>3, <1>4, <1>5 DEF ReplayStep

-----------------------------------------------------------------------------
(* Enrollment.                                                              *)

\* The parts of the enrollment's state.
LEMMA EntryFacts ==
  ASSUME JournalInv, task.pc # "idle"
  PROVE  /\ Derived(SetBase(mem, Entry), mem, feed, wire)
         /\ Derived(SetBase(mem, Row(Head_)), mem, feed, wire)
         /\ \A c : IsCheck(c) => Derived(SetCheckpoint(mem, c), mem, feed, wire)
         /\ \A k, receipt : Derived(Resolve(mem, k, receipt), mem, feed, wire)
         /\ \A k : /\ Derived(ResolveAlone(mem, k), mem, feed, wire)
                   /\ Derived(RecordRejected(mem, k), mem, feed, wire)
         /\ \A pc : pc \notin Guarded => Plain([At(pc) EXCEPT !.head = Head_])
         /\ IsCheck(NoCheck) /\ IsCheck(check) /\ task.head \in Int /\ Head_ \in Int
<1>1. /\ task.head \in Int /\ task.head <= Len(feed)
      /\ Head_ \in Int /\ 0 <= Head_ /\ Head_ <= Head_ /\ Head_ = Len(feed)
  BY EndFacts DEF Head_, IsTask
<1>2. \A v \in Int : v <= Len(feed) => IsBase(Row(v), feed)
  BY MemFacts DEF IsBase, IsRecord, Row
<1>3. DocOK(mem, feed, wire)
  BY MemFacts
<1>4. \A k, receipt : Derived(Resolve(mem, k, receipt), mem, feed, wire)
  BY <1>3, ResolvedDoc
<1>5. \A k : /\ Derived(ResolveAlone(mem, k), mem, feed, wire)
             /\ Derived(RecordRejected(mem, k), mem, feed, wire)
  BY <1>3, LeavingDocs
<1>6. ASSUME NEW pc, pc \notin Guarded PROVE Plain([At(pc) EXCEPT !.head = Head_])
  <2>1. Plain(At(pc))
    BY <1>6, TaskFacts
  <2>2. QED
    BY <1>1, <2>1 DEF Plain, IsTask, IsRecord
<1>7. IsCheck(NoCheck) /\ IsCheck(check)
  BY MemFacts DEF IsCheck, IsRecord, NoCheck
<1>8. IsBase(Entry, feed) /\ IsBase(Row(Head_), feed)
  BY <1>1, <1>2 DEF Entry
<1>9. QED
  BY <1>1, <1>3, <1>4, <1>5, <1>6, <1>7, <1>8, RecordedDocs

\* The manifest and its row.
LEMMA ManifestSteps ==
  ASSUME JournalInv,
         \/ ReadManifest \/ Bind \/ ListFiles \/ Hold \/ TakeEntry \/ ResolveEntry \/ Acknowledge
         \/ EndEntry \/ EndPage
  PROVE  Keeps
<1>0. task.pc # "idle"
  BY DEF ReadManifest, Bind, ListFiles, Hold, TakeEntry, ResolveEntry, Acknowledge, EndEntry, EndPage
<1>1. UNCHANGED <<feed, wire, reply>>
  BY DEF ReadManifest, Bind, ListFiles, Hold, TakeEntry, ResolveEntry, Acknowledge, EndEntry,
         EndPage, EnrollFrame, PublicationFrame, NoWire
<1>2. /\ Plain(Idle) /\ Plain(Finished(task)) /\ Plain(Restarted) /\ Plain(At("list"))
      /\ Plain(At("hold")) /\ Plain(At("entry")) /\ Plain(At("page_done"))
      /\ Plain(At("resolve_entry")) /\ Plain(At("applied")) /\ Plain(At("entry_done"))
      /\ Plain([At("hold") EXCEPT !.head = Head_]) /\ Plain([At("list") EXCEPT !.head = Head_])
      /\ Plain([At("bind") EXCEPT !.head = Head_])
  BY <1>0, TaskFacts, EntryFacts DEF Guarded
<1>3. IsCheck(check) /\ task.head \in Int
  BY <1>0, EntryFacts
<1>4. ASSUME NEW next, Plain(next)
      PROVE  /\ \A d : Derived(d, mem, feed, wire) /\ Save(d, next) => Keeps
             /\ \A c : IsCheck(c) /\ Checked(c, next) => Keeps
             /\ Unsaved /\ task' = next => Keeps
  BY <1>0, <1>1, <1>4, StepForms, EntryFacts DEF Checked, Unsaved
<1>5. CASE ReadManifest
  <2>1. \/ Checked(NoCheck, Restarted)
        \/ /\ Unsaved
           /\ \/ task' = [At("hold") EXCEPT !.head = Head_]
              \/ task' = [At("list") EXCEPT !.head = Head_]
              \/ task' = [At("bind") EXCEPT !.head = Head_]
    BY <1>5 DEF ReadManifest
  <2>2. IsCheck(NoCheck)
    BY <1>0, EntryFacts
  <2>3. QED
    BY <1>2, <1>4, <2>1, <2>2
<1>6. CASE Bind
  <2>1. Derived(BindEpoch(mem), mem, feed, wire)
    BY MemFacts, BoundDoc
  <2>2. QED
    BY <1>2, <1>4, <1>6, <2>1 DEF Bind
<1>7. CASE ListFiles
  <2>1. PICK c : /\ Checked(c, At("hold"))
                 /\ c = [stage |-> "manifest", head |-> task.head, listed |-> local # Absent,
                         pending |-> HasEntry, known |-> HasEntry]
    BY <1>7 DEF ListFiles
  <2>2. IsCheck(c)
    BY <1>3, <2>1 DEF IsCheck, IsRecord
  <2>3. QED
    BY <1>2, <1>4, <2>1, <2>2
<1>8. CASE Hold
  <2>1. CASE a = NoApply
    BY <1>2, <1>4, <1>8, <2>1 DEF Hold
  <2>2. CASE a # NoApply
    <3> DEFINE next == [At("begun") EXCEPT !.row = a.row, !.for = "held"]
    <3>1. UNCHANGED journal /\ task' = next
      BY <1>8, <2>2 DEF Hold, Unsaved
    <3>2. IsTask(next, feed) /\ next.pc = "begun"
      BY <1>0, MemFacts, TaskFacts DEF IsTask, IsRecord
    <3>3. a.step # "none"
      BY <2>2, MemFacts DEF DocOK, SideOK, IsApply, a
    <3> HIDE DEF next
    <3>4. TaskInv'
      BY <1>1, <3>1, <3>2, <3>3 DEF TaskInv, Sending, journal, a
    <3>5. QED
      BY <1>1, <3>1, <3>4, QuietTask
  <2>3. QED
    BY <2>1, <2>2
<1>9. CASE TakeEntry
  <2>1. task.pc = "entry" /\ Plain(task)
    BY <1>9, EndFacts DEF TakeEntry, Plain, Guarded
  <2>2. CASE ~HasEntry
    BY <1>2, <1>4, <1>9, <2>2 DEF TakeEntry, Goto
  <2>3. CASE HasEntry /\ ~check.pending
    <3>1. PICK c : Checked(c, task) /\ c = [check EXCEPT !.pending = TRUE, !.known = TRUE]
      BY <1>9, <2>3 DEF TakeEntry
    <3>2. IsCheck(c)
      BY <1>3, <3>1 DEF IsCheck, IsRecord
    <3>3. QED
      BY <1>4, <2>1, <3>1, <3>2
  <2>4. CASE HasEntry /\ check.pending /\ Confirmed(Entry, task.spare) # {}
    <3>1. Save(SetBase(mem, Entry), At("resolve_entry")) \/ (task' = Idle /\ Unsaved)
      BY <1>9, <2>4 DEF TakeEntry
    <3>2. QED
      BY <1>0, <1>2, <1>4, <3>1, EntryFacts
  <2>5. CASE HasEntry /\ check.pending /\ Confirmed(Entry, task.spare) = {}
    <3> DEFINE next == [At("begin") EXCEPT !.row = task.head, !.for = "manifest"]
    <3>1. \/ task' = Finished(task) /\ Unsaved
          \/ task' = next /\ Unsaved
          \/ Save(SetBase(mem, Entry), At("applied"))
          \/ task' = Idle /\ Unsaved
      BY <1>9, <2>5 DEF TakeEntry
    <3>2. ASSUME task' = next, Unsaved PROVE Keeps
      <4>1. task.head \in Int /\ task.head <= Len(feed)
        BY EndFacts DEF IsTask
      <4>2. IsTask(next, feed) /\ next.pc = "begin" /\ next.row = task.head
        BY <1>0, <4>1, TaskFacts DEF IsTask, IsRecord
      <4> HIDE DEF next
      <4>3. TaskInv'
        BY <1>1, <3>2, <4>1, <4>2 DEF TaskInv, Sending
      <4>4. QED
        BY <1>1, <3>2, <4>3, QuietTask DEF Unsaved
    <3> HIDE DEF next
    <3>3. QED
      BY <1>0, <1>2, <1>4, <3>1, <3>2, EntryFacts
  <2>6. QED
    BY <2>2, <2>3, <2>4, <2>5
<1>10. CASE ResolveEntry
  <2>1. PICK k : Save(Resolve(mem, k, Entry), At("entry_done"))
    BY <1>10 DEF ResolveEntry
  <2>2. QED
    BY <1>0, <1>2, <1>4, <2>1, EntryFacts
<1>11. CASE Acknowledge
  <2>1. Plain(task)
    BY <1>11, EndFacts DEF Acknowledge, Plain, Guarded
  <2>2. (task' = At("entry_done") /\ Unsaved) \/ \E k : Save(ResolveAlone(mem, k), task)
    BY <1>11 DEF Acknowledge, Goto
  <2>3. QED
    BY <1>0, <1>2, <1>4, <2>1, <2>2, EntryFacts
<1>12. CASE EndEntry
  <2>1. PICK c : Checked(c, At("page_done")) /\ c = [check EXCEPT !.pending = FALSE]
    BY <1>12 DEF EndEntry
  <2>2. IsCheck(c)
    BY <1>3, <2>1 DEF IsCheck, IsRecord
  <2>3. QED
    BY <1>2, <1>4, <2>1, <2>2
<1>13. CASE EndPage
  <2>1. PICK c : Checked(c, At("entry")) /\ c = [check EXCEPT !.stage = "local", !.pending = FALSE]
    BY <1>13 DEF EndPage
  <2>2. IsCheck(c)
    BY <1>3, <2>1 DEF IsCheck, IsRecord
  <2>3. QED
    BY <1>2, <1>4, <2>1, <2>2
<1>14. QED
  BY <1>5, <1>6, <1>7, <1>8, <1>9, <1>10, <1>11, <1>12, <1>13

\* A set of numbers that is not empty has a least one.
LEMMA LeastPosition ==
  ASSUME NEW S, S \subseteq Nat, S # {}
  PROVE  \E m \in S : \A n \in S : m <= n
<1> DEFINE Less == {ss \in Nat \X Nat : ss[1] < ss[2]}
<1>1. IsWellFoundedOn(Less, Nat)
  BY NatLessThanWellFounded DEF OpToRel
<1> HIDE DEF Less
<1>2. PICK m \in S : \A n \in S : <<n, m>> \notin Less
  BY <1>1, WFMin
<1>3. \A n \in S : ~(n < m)
  BY <1>2 DEF Less
<1>4. QED
  BY <1>3

\* The first upload is the first of its kind in the queue.
LEMMA FirstUpload ==
  ASSUME JournalInv, Creates # {}
  PROVE  /\ \E n \in Creates : n \in DOMAIN mem.ops /\ Create = mem.ops[n]
         /\ \A n \in Creates : (\A j \in Creates : n <= j) => Create = mem.ops[n]
<1>1. IsSeq(mem.ops)
  BY MemFacts DEF QueueOK
<1>2. DOMAIN mem.ops = 1..Len(mem.ops) /\ Len(mem.ops) \in Nat
  BY <1>1, SeqFacts
<1>3. Creates \subseteq DOMAIN mem.ops /\ Creates \subseteq Nat
  BY <1>2 DEF Creates
<1>4. PICK m \in Creates : \A j \in Creates : m <= j
  BY <1>3, LeastPosition
<1>5. \A n \in Creates : (\A j \in Creates : n <= j) => n = m
  BY <1>3, <1>4
<1>6. (CHOOSE i \in Creates : \A j \in Creates : i <= j) = m
  BY <1>4, <1>5
<1>7. QED
  BY <1>3, <1>4, <1>5, <1>6 DEF Create

\* An upload that is prepared is still the first one.
LEMMA PreparedUpload ==
  ASSUME JournalInv, Creates # {}, MayPrepare(mem, Create.key),
         NEW d, d = Prepare(mem, Create.key)
  PROVE  LET left == {i \in DOMAIN d.ops : d.ops[i].op = "put" /\ d.ops[i].pre = 0}
         IN /\ 1 \in left /\ \A j \in left : 1 <= j
            /\ d.ops[1].state = "sent"
<1> DEFINE k == Create.key
           s == mem.ops
           p == [OpOf(mem, k) EXCEPT !.state = "sent"]
<1>1. QueueOK(s, feed, wire) /\ IsSeq(s) /\ s # <<>> /\ s[1].key = k
  BY MemFacts DEF QueueOK, MayPrepare
<1>2. Len(s) \in Nat /\ DOMAIN s = 1..Len(s)
  BY <1>1, SeqFacts
<1>3. 1 \in DOMAIN s
  BY <1>1 DEF IsSeq
<1>4. PICK n \in Creates : n \in DOMAIN s /\ Create = s[n]
  BY FirstUpload
<1>5. n = 1
  BY <1>1, <1>3, <1>4 DEF QueueOK
<1>6. OpOf(mem, k) = s[1]
  <2>1. QueueOK(mem.ops, feed, wire) /\ 1 \in DOMAIN mem.ops /\ mem.ops[1].key = k
    BY <1>1, <1>3
  <2>2. OpOf(mem, mem.ops[1].key) = mem.ops[1]
    BY <2>1, OpOfFacts
  <2>3. QED
    BY <2>1, <2>2
<1>7. IsOp(s[1]) /\ s[1].op = "put" /\ s[1].pre = 0
  BY <1>1, <1>3, <1>4, <1>5 DEF QueueOK, Creates
<1>8. p.state = "sent" /\ p.op = "put" /\ p.pre = 0
  BY <1>6, <1>7 DEF IsOp, IsRecord
<1>9. d.ops = [i \in DOMAIN s |-> IF s[i].key = k THEN p ELSE s[i]]
  BY MemFacts DEF Prepare, Changed, IsDocument, IsRecord
<1>10. DOMAIN d.ops = DOMAIN s /\ d.ops[1] = p
  BY <1>1, <1>3, <1>9
<1> HIDE DEF p
<1>11. QED
  BY <1>2, <1>3, <1>8, <1>10

\* Fewer requests are under way.
LEMMA WireShrinks ==
  ASSUME JournalInv, wire' \subseteq wire, UNCHANGED <<journal, feed>>
  PROVE  WireOK(wire', feed') /\ DocOK(mem', feed', wire') /\ DocOK(disk', feed', wire')
BY DEF JournalInv, WireOK, DocOK, QueueOK, journal

\* The upload of a file that the manifest does not have.
LEMMA UploadSteps ==
  ASSUME JournalInv,
         \/ FindSent \/ ResolveSent \/ SentKnown \/ PublishLocal \/ PrepareCreate \/ SendCreate
         \/ ConfirmCreate \/ SettleCreate \/ Published \/ EndEnrollment
  PROVE  Keeps
<1>0. task.pc # "idle"
  BY DEF FindSent, ResolveSent, SentKnown, PublishLocal, PrepareCreate, SendCreate,
         ConfirmCreate, SettleCreate, Published, EndEnrollment
<1>1. /\ Plain(Idle) /\ Plain(Finished(task)) /\ Plain(Restarted) /\ Plain(At("publish"))
      /\ Plain(At("sent_known")) /\ Plain(At("entry")) /\ Plain(At("published"))
      /\ Plain(At("resolve_create")) /\ Plain(At("create_rejected")) /\ Plain(At("create_stale"))
      /\ Plain(At("cursor_set")) /\ Plain([At("resolve_sent") EXCEPT !.head = Head_])
  BY <1>0, TaskFacts, EntryFacts DEF Guarded
<1>2. IsCheck(check) /\ check.head \in Int /\ IsCheck(NoCheck)
  BY <1>0, EntryFacts DEF IsCheck
<1>3. ASSUME UNCHANGED <<feed, wire, reply>>, NEW next, Plain(next)
      PROVE  /\ \A d : Derived(d, mem, feed, wire) /\ Save(d, next) => Keeps
             /\ \A c : IsCheck(c) /\ Checked(c, next) => Keeps
             /\ Unsaved /\ task' = next => Keeps
  BY <1>0, <1>3, StepForms, EntryFacts DEF Checked, Unsaved
<1>4. CASE FindSent
  <2>1. /\ UNCHANGED <<feed, wire, reply>>
        /\ \/ Unsaved /\ task' \in {At("publish"), Idle}
           \/ Save(SetBase(mem, Row(Head_)), [At("resolve_sent") EXCEPT !.head = Head_])
    BY <1>4 DEF FindSent, Goto, NoWire
  <2>2. QED
    BY <1>0, <1>1, <1>3, <2>1, EntryFacts
<1>5. CASE ResolveSent
  <2>1. /\ UNCHANGED <<feed, wire, reply>>
        /\ \E k : Save(Resolve(mem, k, Entry), At("sent_known"))
    BY <1>5 DEF ResolveSent, EnrollFrame, PublicationFrame, NoWire
  <2>2. QED
    BY <1>0, <1>1, <1>3, <2>1, EntryFacts
<1>6. CASE SentKnown
  <2>1. PICK c : Checked(c, At("publish")) /\ c = [check EXCEPT !.known = TRUE]
    BY <1>6 DEF SentKnown
  <2>2. IsCheck(c) /\ UNCHANGED <<feed, wire, reply>>
    BY <1>2, <1>6, <2>1 DEF SentKnown, IsCheck, IsRecord, EnrollFrame, PublicationFrame, NoWire
  <2>3. QED
    BY <1>1, <1>3, <2>1, <2>2
<1>7. CASE PublishLocal
  <2>1. UNCHANGED <<feed, wire, reply>> /\ Plain(task)
    BY <1>7, EndFacts DEF PublishLocal, Plain, Guarded, EnrollFrame, PublicationFrame, NoWire
  <2>2. CASE ~ToPublish
    <3>1. PICK c : Checked(c, At("entry")) /\ c = [check EXCEPT !.stage = "cursor"]
      BY <1>7, <2>2 DEF PublishLocal
    <3>2. IsCheck(c)
      BY <1>2, <3>1 DEF IsCheck, IsRecord
    <3>3. QED
      BY <1>1, <1>3, <2>1, <3>1, <3>2
  <2>3. CASE ToPublish /\ mem.refused
    <3>1. (task' = At("published") /\ Unsaved) \/ \E k : Save(RecordRejected(mem, k), task)
      BY <1>7, <2>3 DEF PublishLocal, Goto
    <3>2. QED
      BY <1>0, <1>1, <1>3, <2>1, <3>1, EntryFacts
  <2>4. CASE ToPublish /\ ~mem.refused /\ local = Absent
    BY <1>1, <1>3, <1>7, <2>1, <2>4 DEF PublishLocal, Goto
  <2>5. CASE ToPublish /\ ~mem.refused /\ local # Absent /\ Creates # {}
    <3>1. task' = At("prepare_create") /\ UNCHANGED journal
      BY <1>7, <2>5 DEF PublishLocal, Goto, Unsaved
    <3>2. Creates' # {}
      BY <2>5, <3>1 DEF Creates, journal
    <3>3. TaskInv'
      BY <1>0, <2>1, <3>1, <3>2, TaskFacts DEF TaskInv, Sending
    <3>4. QED
      BY <2>1, <3>1, <3>3, QuietTask
  <2>6. CASE ToPublish /\ ~mem.refused /\ local # Absent /\ Creates = {}
    <3> DEFINE d == Enqueue(mem, [NewPut(mem, local) EXCEPT !.pre = 0])
    <3>1. FreeKeys # {} /\ SaveOr(d, At("prepare_create"), Idle)
      BY <1>7, <2>6 DEF PublishLocal, Save
    <3>2. /\ Derived(d, mem, feed, wire)
          /\ \E i \in DOMAIN d.ops : d.ops[i].op = "put" /\ d.ops[i].pre = 0
      BY <3>1, NewPuts
    <3> HIDE DEF d
    <3>3. ASSUME task' = At("prepare_create"), mem' = d PROVE TaskInv'
      <4>1. Creates' # {}
        BY <3>2, <3>3 DEF Creates
      <4>2. QED
        BY <1>0, <2>1, <3>3, <4>1, TaskFacts DEF TaskInv, Sending
    <3>4. task' = Idle => TaskInv'
      BY <1>1, <2>1, PlainTask
    <3>5. QED
      BY <2>1, <3>1, <3>2, <3>3, <3>4, GuardedSave
  <2>7. QED
    BY <2>2, <2>3, <2>4, <2>5, <2>6
<1>8. CASE PrepareCreate
  <2>1. UNCHANGED <<feed, wire, reply>> /\ Creates # {}
    BY <1>8 DEF PrepareCreate, JournalInv, TaskInv, EnrollFrame, PublicationFrame, NoWire
  <2>2. CASE blocked \/ ~MayPrepare(mem, Create.key)
    BY <1>1, <1>3, <1>8, <2>1, <2>2 DEF PrepareCreate
  <2>3. CASE ~blocked /\ MayPrepare(mem, Create.key) /\ Create.state = "sent"
    <3>1. task' = At("send_create") /\ UNCHANGED journal
      BY <1>8, <2>3 DEF PrepareCreate, Goto, Unsaved
    <3>2. Creates' = Creates /\ Create' = Create /\ blocked' = blocked
      BY <3>1 DEF Creates, Create, journal
    <3>3. TaskInv'
      BY <1>0, <2>1, <2>3, <3>1, <3>2, TaskFacts DEF TaskInv, Sending
    <3>4. QED
      BY <2>1, <3>1, <3>3, QuietTask
  <2>4. CASE ~blocked /\ MayPrepare(mem, Create.key) /\ Create.state # "sent"
    <3> DEFINE k == Create.key
               d == Prepare(mem, k)
               left == {i \in DOMAIN d.ops : d.ops[i].op = "put" /\ d.ops[i].pre = 0}
    <3>1. SaveOr(d, At("send_create"), Idle)
      BY <1>8, <2>4 DEF PrepareCreate, Save
    <3>2. Derived(d, mem, feed, wire)
      <4>1. k \in Keys(mem)
        <5>1. PICK n \in DOMAIN mem.ops : Create = mem.ops[n]
          BY <2>1, FirstUpload
        <5>2. QED
          BY <5>1 DEF Keys
      <4>2. QED
        BY <4>1, MemFacts, QueueDocs
    <3>3. 1 \in left /\ (\A j \in left : 1 <= j) /\ d.ops[1].state = "sent"
      BY <2>1, <2>4, PreparedUpload
    <3>4. mem' = d => Creates' = left
      BY DEF Creates
    <3> HIDE DEF d, left, k
    <3>5. ASSUME task' = At("send_create"), mem' = d, ~blocked' PROVE TaskInv'
      <4>1. Creates' # {} /\ (\A i \in Creates' : (\A j \in Creates' : i <= j) => i = 1)
        <5>1. \A i \in left : i \in Int
          <6>1. IsSeq(d.ops)
            BY <3>2 DEF Derived, DocOK, QueueOK
          <6>2. QED
            BY <6>1, SeqFacts DEF left
        <5>2. QED
          BY <3>3, <3>4, <3>5, <5>1
      <4>2. Create' = mem'.ops[1]
        BY <3>3, <3>4, <3>5, <4>1 DEF Create
      <4>3. QED
        BY <1>0, <2>1, <3>3, <3>5, <4>1, <4>2, TaskFacts DEF TaskInv, Sending
    <3>6. task' = Idle => TaskInv'
      BY <1>1, <2>1, PlainTask
    <3>7. QED
      BY <2>1, <3>1, <3>2, <3>5, <3>6, GuardedSave
  <2>5. QED
    BY <2>2, <2>3, <2>4
<1>9. CASE SendCreate
  <2>1. /\ Creates # {} /\ ~blocked /\ Create.state = "sent" /\ UNCHANGED <<journal, feed>>
        /\ reply' = 0 /\ task' = At("creating") /\ wire' = wire \cup {Request(Create)}
    BY <1>9 DEF SendCreate, JournalInv, TaskInv, PublicationFrame, NoReply, Goto, Unsaved
  <2>2. PICK n \in DOMAIN mem.ops : mem.ops[n] = Create
    BY <2>1, FirstUpload
  <2>3. WireOK(wire', feed') /\ DocOK(mem', feed', wire') /\ DocOK(disk', feed', wire')
    BY <2>1, <2>2, Requested
  <2>4. TaskInv'
    BY <1>0, <2>1, TaskFacts DEF TaskInv, Sending
  <2>5. QED
    BY <2>1, <2>3, <2>4, MemFacts DEF JournalInv, Keeps, Derived, journal
<1>10. CASE ConfirmCreate
  <2>1. /\ UNCHANGED <<feed, wire, reply>>
        /\ \/ Save(SetBase(mem, Created), At("resolve_create"))
           \/ task' = Idle /\ Unsaved
    BY <1>10 DEF ConfirmCreate, EnrollFrame, PublicationFrame, NoWire
  <2>2. IsBase(Created, feed)
    <3>1. reply > 0 /\ task.pc = "creating"
      BY <1>10, EndFacts DEF ConfirmCreate, Head_
    <3>2. TrueRow(reply, Create.text, feed)
      BY <3>1 DEF JournalInv, TaskInv
    <3>3. QED
      BY <3>2 DEF IsBase, IsRecord, Created
  <2>3. Derived(SetBase(mem, Created), mem, feed, wire)
    BY <2>2, MemFacts, RecordedDocs
  <2>4. QED
    BY <1>1, <1>3, <2>1, <2>3
<1>11. CASE SettleCreate
  <2>1. UNCHANGED <<feed, wire, reply>>
    BY <1>11 DEF SettleCreate, EnrollFrame, PublicationFrame, NoWire
  <2>2. Derived([mem EXCEPT !.refused = TRUE], mem, feed, wire)
    <3> DEFINE d == [mem EXCEPT !.refused = TRUE]
    <3>1. SideOK(d, feed) /\ d.ops = mem.ops
      BY MemFacts DEF DocOK, SideOK, IsDocument, IsRecord
    <3> HIDE DEF d
    <3>2. Derived(d, mem, feed, wire)
      BY <3>1, MemFacts, SameQueue
    <3>3. QED
      BY <3>2 DEF d
  <2>3. \/ Save(ResolveAlone(mem, Create.key), At("published"))
        \/ Save([mem EXCEPT !.refused = TRUE], At("create_rejected"))
        \/ Save(RecordRejected(mem, Create.key), At("published"))
        \/ Save(RecordRejected(mem, Create.key), At("create_stale"))
        \/ Checked(NoCheck, Restarted)
    BY <1>11 DEF SettleCreate
  <2>4. QED
    BY <1>0, <1>1, <1>2, <1>3, <2>1, <2>2, <2>3, EntryFacts
<1>12. CASE Published
  <2>1. PICK c : Checked(c, At("publish")) /\ c = [check EXCEPT !.listed = FALSE]
    BY <1>12 DEF Published
  <2>2. IsCheck(c) /\ UNCHANGED <<feed, wire, reply>>
    BY <1>2, <1>12, <2>1 DEF Published, IsCheck, IsRecord, EnrollFrame, PublicationFrame, NoWire
  <2>3. QED
    BY <1>1, <1>3, <2>1, <2>2
<1>13. CASE EndEnrollment
  <2>1. /\ UNCHANGED <<feed, wire, reply>>
        /\ \/ task' = Idle /\ Unsaved
           \/ Save(SetCursor(mem, check.head), At("cursor_set"))
           \/ Checked(NoCheck, Finished(task))
    BY <1>13 DEF EndEnrollment, ReachedHead, EnrollFrame, PublicationFrame, NoWire
  <2>2. Derived(SetCursor(mem, check.head), mem, feed, wire)
    BY <1>2, MemFacts, RecordedDocs
  <2>3. QED
    BY <1>1, <1>2, <1>3, <2>1, <2>2
<1>14. QED
  BY <1>4, <1>5, <1>6, <1>7, <1>8, <1>9, <1>10, <1>11, <1>12, <1>13

-----------------------------------------------------------------------------
(* The user, the vault and the faults.                                      *)

\* The vault takes a row more, with the text that is requested under its key.
LEMMA FeedGrows ==
  ASSUME JournalInv, NEW e, feed' = Append(feed, e), wire' \subseteq wire, UNCHANGED journal,
         \A i \in DOMAIN mem.ops : mem.ops[i].key = e.key => mem.ops[i].text = e.text,
         \A i \in DOMAIN disk.ops : disk.ops[i].key = e.key => disk.ops[i].text = e.text,
         \A q \in wire : q.key = e.key => q.text = e.text
  PROVE  /\ IsSeq(feed') /\ WireOK(wire', feed')
         /\ DocOK(mem', feed', wire') /\ DocOK(disk', feed', wire')
         /\ Len(feed') = Len(feed) + 1 /\ feed'[Len(feed) + 1] = e
         /\ \A rev, text : TrueRow(rev, text, feed) => TrueRow(rev, text, feed')
         /\ \A t : IsTask(t, feed) => IsTask(t, feed')
<1> DEFINE n == Len(feed)
<1>1. IsSeq(feed) /\ n \in Nat /\ DOMAIN feed = 1..n
  BY MemFacts
<1>2. /\ IsSeq(feed') /\ Len(feed') = n + 1 /\ (\A v \in 1..n : feed'[v] = feed[v])
      /\ feed'[n + 1] = e
  BY <1>1, AppendFacts
<1>3. DOMAIN feed' = 1..(n + 1)
  BY <1>2, SeqFacts
<1> HIDE DEF n
<1>4. \A v \in DOMAIN feed' : (v \in DOMAIN feed /\ feed'[v] = feed[v]) \/ feed'[v] = e
  BY <1>1, <1>2, <1>3
<1>5. \A rev, text : TrueRow(rev, text, feed) => TrueRow(rev, text, feed')
  BY <1>1, <1>2 DEF TrueRow, n
<1>6. \A t : IsTask(t, feed) => IsTask(t, feed')
  BY <1>1, <1>2 DEF IsTask, n
<1>7. WireOK(wire', feed')
  BY <1>4 DEF WireOK, JournalInv
<1>8. ASSUME NEW d, DocOK(d, feed, wire),
             \A i \in DOMAIN d.ops : d.ops[i].key = e.key => d.ops[i].text = e.text
      PROVE  DocOK(d, feed', wire')
  <2>1. QueueOK(d.ops, feed', wire')
    BY <1>4, <1>8 DEF DocOK, QueueOK
  <2>2. SideOK(d, feed')
    BY <1>5, <1>8 DEF DocOK, SideOK, IsBase, IsApply
  <2>3. QED
    BY <2>1, <2>2 DEF DocOK
<1>9. DocOK(mem', feed', wire') /\ DocOK(disk', feed', wire')
  BY <1>8 DEF JournalInv, journal
<1>10. QED
  BY <1>2, <1>5, <1>6, <1>7, <1>9 DEF n

\* A step that leaves the journal as it was, and is sound for the task.
LEMMA OutsideStep ==
  ASSUME JournalInv, UNCHANGED journal, IsSeq(feed'), WireOK(wire', feed'), reply' \in Int,
         DocOK(mem', feed', wire'), DocOK(disk', feed', wire'), TaskInv'
  PROVE  Keeps
BY MemFacts DEF JournalInv, Keeps, Derived, journal

\* Edits, rows of other writers, rows that are deleted, requests and answers that are lost.
LEMMA OutsideSteps ==
  ASSUME JournalInv,
         \/ UserEdit \/ UserEditsCopy \/ OtherWrites \/ DeleteRows \/ LoseAnswer \/ Refuse
         \/ LoseCreated \/ RefuseCreate
  PROVE  Keeps
<1>1. CASE UserEdit \/ UserEditsCopy \/ DeleteRows
  <2>1. UNCHANGED <<journal, feed, wire, reply, task>>
    BY <1>1 DEF UserEdit, UserEditsCopy, DeleteRows, remote
  <2>2. TaskInv'
    BY <2>1 DEF JournalInv, TaskInv, journal, a, Creates, Create, Replaceable, Clean
  <2>3. QED
    BY <2>1, <2>2, QuietTask
<1>2. CASE OtherWrites
  <2>1. PICK t : feed' = Append(feed, [text |-> t, key |-> NoKey])
    BY <1>2 DEF OtherWrites
  <2>2. UNCHANGED <<journal, wire, reply, task>>
    BY <1>2 DEF OtherWrites
  <2> DEFINE e == [text |-> t, key |-> NoKey]
  <2>3. /\ \A i \in DOMAIN mem.ops : mem.ops[i].key # e.key
        /\ \A i \in DOMAIN disk.ops : disk.ops[i].key # e.key
        /\ \A q \in wire : q.key # e.key
    BY DeviceAssumption DEF JournalInv, DocOK, QueueOK, IsOp, WireOK
  <2>4. feed' = Append(feed, e)
    BY <2>1
  <2> HIDE DEF e
  <2>5. /\ IsSeq(feed') /\ WireOK(wire', feed')
        /\ DocOK(mem', feed', wire') /\ DocOK(disk', feed', wire')
        /\ Len(feed') = Len(feed) + 1
        /\ \A rev, text : TrueRow(rev, text, feed) => TrueRow(rev, text, feed')
        /\ \A x : IsTask(x, feed) => IsTask(x, feed')
    BY <2>2, <2>3, <2>4, FeedGrows
  <2>6. TaskInv'
    <3>1. task.row \in Int /\ Len(feed) \in Nat
      BY EndFacts DEF IsTask
    <3>2. QED
      BY <2>2, <2>5, <3>1
      DEF JournalInv, TaskInv, journal, a, Creates, Create, Replaceable, Clean
  <2>7. reply' \in Int
    BY <2>2 DEF JournalInv
  <2>8. QED
    BY <2>2, <2>5, <2>6, <2>7, OutsideStep
<1>3. CASE LoseAnswer \/ Refuse \/ LoseCreated \/ RefuseCreate
  <2>0. task.pc # "idle"
    BY <1>3 DEF LoseAnswer, Refuse, LoseCreated, RefuseCreate
  <2>1. wire' \subseteq wire /\ UNCHANGED <<journal, feed>> /\ reply' \in {reply, 0}
    BY <1>3
    DEF LoseAnswer, Refuse, LoseCreated, RefuseCreate, PublicationFrame, NoReply
  <2>2. WireOK(wire', feed') /\ DocOK(mem', feed', wire') /\ DocOK(disk', feed', wire')
    BY <2>1, WireShrinks
  <2>3. IsSeq(feed') /\ reply' \in Int
    BY <2>1 DEF JournalInv
  <2>4. TaskInv'
    <3>1. CASE LoseAnswer
      <4>1. task.key \in Keys(mem) /\ task' = At("defer")
        BY <3>1 DEF LoseAnswer, JournalInv, TaskInv, Sending, Goto
      <4>2. QED
        BY <2>0, <2>1, <4>1, TaskFacts DEF TaskInv, Sending, journal
    <3>2. CASE Refuse \/ LoseCreated \/ RefuseCreate
      <4>1. task' \in {At("reject"), Idle, At("create_refused")}
        BY <3>2 DEF Refuse, LoseCreated, RefuseCreate, Goto
      <4>2. Plain(At("reject")) /\ Plain(Idle) /\ Plain(At("create_refused"))
        BY <2>0, TaskFacts DEF Guarded
      <4>3. QED
        BY <2>1, <4>1, <4>2, PlainTask
    <3>3. QED
      BY <1>3, <3>1, <3>2
  <2>5. QED
    BY <2>1, <2>2, <2>3, <2>4, OutsideStep
<1>4. QED
  BY <1>1, <1>2, <1>3

\* The vault executes a request: its answer is a row with the text of the request.
LEMMA ExecuteStep ==
  ASSUME JournalInv, Execute
  PROVE  Keeps
<1>1. PICK q \in wire :
        /\ wire' = wire \ {q}
        /\ feed' = IF Executed(q) = {} /\ Holding(q)
                   THEN Append(feed, [text |-> q.text, key |-> q.key]) ELSE feed
        /\ reply' = IF Awaited(q) THEN Answer(q) ELSE reply
  BY DEF Execute
<1>2. UNCHANGED <<journal, task>>
  BY DEF Execute
<1>3. Len(feed) \in Nat /\ DOMAIN feed = 1..Len(feed) /\ reply \in Int /\ task.row \in Int
  BY MemFacts, EndFacts DEF JournalInv, IsTask
<1> DEFINE e == [text |-> q.text, key |-> q.key]
<1>4. /\ IsSeq(feed') /\ WireOK(wire', feed')
      /\ DocOK(mem', feed', wire') /\ DocOK(disk', feed', wire')
      /\ Len(feed') >= Len(feed)
      /\ \A rev, text : TrueRow(rev, text, feed) => TrueRow(rev, text, feed')
      /\ \A x : IsTask(x, feed) => IsTask(x, feed')
      /\ Answer(q) \in Int /\ TrueRow(Answer(q), q.text, feed')
  <2>1. \A v \in Executed(q) : v \in Int /\ TrueRow(v, q.text, feed)
    BY <1>3 DEF Executed, JournalInv, WireOK, TrueRow
  <2>2. CASE Executed(q) = {} /\ Holding(q)
    <3>1. feed' = Append(feed, e) /\ e.key = q.key /\ e.text = q.text
      BY <1>1, <2>2
    <3>2. /\ \A i \in DOMAIN mem.ops : mem.ops[i].key = q.key => mem.ops[i].text = q.text
          /\ \A i \in DOMAIN disk.ops : disk.ops[i].key = q.key => disk.ops[i].text = q.text
          /\ \A r \in wire : r.key = q.key => r.text = q.text
      BY DEF JournalInv, DocOK, QueueOK, WireOK, Sig
    <3> HIDE DEF e
    <3>3. /\ IsSeq(feed') /\ WireOK(wire', feed')
          /\ DocOK(mem', feed', wire') /\ DocOK(disk', feed', wire')
          /\ Len(feed') = Len(feed) + 1 /\ feed'[Len(feed) + 1] = e
          /\ \A rev, text : TrueRow(rev, text, feed) => TrueRow(rev, text, feed')
          /\ \A x : IsTask(x, feed) => IsTask(x, feed')
      BY <1>1, <1>2, <3>1, <3>2, FeedGrows
    <3>4. Answer(q) = Len(feed) + 1
      BY <2>2 DEF Answer, Head_
    <3>5. TrueRow(Answer(q), q.text, feed')
      BY <1>3, <3>1, <3>3, <3>4 DEF TrueRow
    <3>6. QED
      BY <1>3, <3>3, <3>4, <3>5
  <2>3. CASE ~(Executed(q) = {} /\ Holding(q))
    <3>1. feed' = feed
      BY <1>1, <2>3
    <3>2. WireOK(wire', feed') /\ DocOK(mem', feed', wire') /\ DocOK(disk', feed', wire')
      BY <1>1, <1>2, <3>1, WireShrinks
    <3>3. Answer(q) \in Executed(q) \/ Answer(q) = Stale
      BY <2>3 DEF Answer
    <3>4. Answer(q) \in Int /\ TrueRow(Answer(q), q.text, feed)
      BY <2>1, <3>3 DEF Stale, TrueRow
    <3>5. QED
      BY <1>3, <3>1, <3>2, <3>4 DEF JournalInv
  <2>4. QED
    BY <2>2, <2>3
<1>5. reply' \in Int
  BY <1>1, <1>3, <1>4
<1>6. /\ IsTask(task', feed') /\ task'.pc = task.pc
      /\ Creates' = Creates /\ Create' = Create /\ a' = a /\ blocked' = blocked
      /\ mem' = mem /\ task' = task
  BY <1>2, <1>4 DEF JournalInv, TaskInv, Creates, Create, a, journal
<1>7. ASSUME task.pc = "await", reply' > 0
      PROVE  TrueRow(reply', OpOf(mem, task.key).text, feed')
  <2>1. CASE Awaited(q)
    <3>1. q = Request(op)
      BY <1>7, <2>1 DEF Awaited
    <3>2. q.text = OpOf(mem, task.key).text
      BY <3>1 DEF Request, op
    <3>3. QED
      BY <1>1, <1>4, <2>1, <3>2
  <2>2. CASE ~Awaited(q)
    <3>1. reply' = reply
      BY <1>1, <2>2
    <3>2. QED
      BY <1>4, <1>7, <3>1 DEF JournalInv, TaskInv
  <2>3. QED
    BY <2>1, <2>2
<1>8. ASSUME task.pc = "creating", reply' > 0
      PROVE  TrueRow(reply', Create.text, feed')
  <2>1. CASE Awaited(q)
    <3>1. q = Request(Create)
      BY <1>8, <2>1 DEF Awaited
    <3>2. q.text = Create.text
      BY <3>1 DEF Request
    <3>3. QED
      BY <1>1, <1>4, <2>1, <3>2
  <2>2. CASE ~Awaited(q)
    <3>1. reply' = reply
      BY <1>1, <2>2
    <3>2. QED
      BY <1>4, <1>8, <3>1 DEF JournalInv, TaskInv
  <2>3. QED
    BY <2>1, <2>2
<1>9. TaskInv'
  <2>1. task'.pc = "write" => Replaceable(task.seen)'
    BY <1>2 DEF JournalInv, TaskInv, Replaceable, Clean, a, journal
  <2>2. QED
    BY <1>3, <1>4, <1>6, <1>7, <1>8, <2>1 DEF JournalInv, TaskInv, Sending
<1>10. QED
  BY <1>2, <1>4, <1>5, <1>9, OutsideStep

-----------------------------------------------------------------------------
(* Events that are drained, and restarts.                                   *)

\* A delete enters a queue whose operations are in the journal.
LEMMA NewDeletes ==
  ASSUME JournalInv, FreeKeys # {}, NEW d, DocOK(d, feed, wire),
         \A i \in DOMAIN d.ops : \E j \in DOMAIN mem.ops : d.ops[i] = mem.ops[j],
         NEW k
  PROVE  /\ DocOK(Enqueue(d, NewDelete(d, k)), feed, wire)
         /\ \E i \in DOMAIN Enqueue(d, NewDelete(d, k)).ops :
              Enqueue(d, NewDelete(d, k)).ops[i].op = "delete"
<1> DEFINE o == NewDelete(d, k)
<1>1. IsOp(o) /\ o.key = NewKey /\ o.op = "delete"
  BY FreshKey DEF NewDelete, Operation, IsOp, IsRecord
<1>2. Unused(NewKey, d.ops, feed, wire)
  BY FreshKey DEF Unused
<1> HIDE DEF o
<1>3. DocOK(Enqueue(d, o), feed, wire) /\ \E i \in DOMAIN Enqueue(d, o).ops : Enqueue(d, o).ops[i] = o
  BY <1>1, <1>2, EnqueuedDoc
<1>4. QED
  BY <1>1, <1>3 DEF o

\* A device that found an event, and what it does with it.
LEMMA DrainForms ==
  ASSUME JournalInv, DrainEvent
  PROVE  /\ UNCHANGED <<feed, wire, reply>> /\ task = Idle
         /\ \/ Ignored /\ (Head(events) # "save" => ~Live(mem.base))
            \/ \E d : /\ Observed(d) /\ Derived(d, mem, feed, wire)
                      /\ Head(events) # "save" => local # Absent \/ ~Live(mem.base)
            \/ \E d : /\ Observed(d) /\ DocOK(d, feed, wire)
                      /\ Head(events) # "save" /\ local = Absent
                      /\ \E i \in DOMAIN d.ops : d.ops[i].op = "delete"
<1>1. UNCHANGED <<feed, wire, reply>> /\ task = Idle /\ FreeKeys # {}
  BY DEF DrainEvent, PublicationFrame, NoWire
<1>2. Derived(mem, mem, feed, wire) /\ DocOK(mem, feed, wire) /\ QueueOK(mem.ops, feed, wire)
  BY MemFacts
<1>3. CASE Head(events) = "save"
  <2>1. ObserveSave
    BY <1>3 DEF DrainEvent
  <2>2. Ignored \/ Observed(Expect(mem, Absent)) \/ Observed(Enqueue(mem, NewPut(mem, local)))
    <3>1. CASE local = Absent
      BY <2>1, <3>1 DEF ObserveSave
    <3>2. CASE local # Absent /\ mem.expected = local
      BY <2>1, <3>2 DEF ObserveSave
    <3>3. CASE local # Absent /\ mem.expected # local /\ InSync
      BY <2>1, <3>3 DEF ObserveSave
    <3>4. CASE local # Absent /\ mem.expected # local /\ ~InSync
      BY <2>1, <3>4 DEF ObserveSave
    <3>5. QED
      BY <3>1, <3>2, <3>3, <3>4
  <2>3. /\ Derived(Expect(mem, Absent), mem, feed, wire)
        /\ Derived(Enqueue(mem, NewPut(mem, local)), mem, feed, wire)
    BY <1>1, <1>2, NewPuts, RecordedDocs
  <2>4. QED
    BY <1>1, <1>3, <2>2, <2>3
<1>4. CASE Head(events) # "save"
  <2>1. ObserveDelete
    BY <1>4 DEF DrainEvent
  <2>2. CASE Superseded
    <3>1. Observed(mem) /\ local # Absent
      BY <2>1, <2>2 DEF ObserveDelete, Superseded
    <3>2. QED
      BY <1>1, <1>2, <3>1
  <2>3. CASE ~Superseded /\ Live(mem.base)
    <3> DEFINE d == Enqueue(mem, NewDelete(mem, NoKey))
    <3>1. Observed(d) /\ local = Absent
      BY <2>1, <2>3 DEF ObserveDelete, Superseded
    <3>2. DocOK(d, feed, wire) /\ \E i \in DOMAIN d.ops : d.ops[i].op = "delete"
      BY <1>1, <1>2, NewDeletes
    <3> HIDE DEF d
    <3>3. QED
      BY <1>1, <1>4, <3>1, <3>2
  <2>4. CASE ~Superseded /\ ~Live(mem.base)
    <3> DEFINE t == Without(mem, QueuedPuts)
               d == [mem EXCEPT !.ops = t]
    <3>1. \/ Ignored \/ Observed(d)
          \/ \E k : Observed(Enqueue(d, NewDelete(d, k)))
      BY <2>1, <2>4 DEF ObserveDelete
    <3>2. QueueOK(t, feed, wire) /\ NoNewDelete(t, mem.ops)
      BY <1>2, QueueWithout
    <3>3. \A i \in DOMAIN t : \E j \in DOMAIN mem.ops : t[i] = mem.ops[j]
      BY <1>2, WithoutFacts DEF QueueOK
    <3> HIDE DEF t
    <3>4. Requeued(d, mem, t)
      BY MemFacts DEF Requeued, IsDocument, IsRecord
    <3> HIDE DEF d
    <3>5. Derived(d, mem, feed, wire) /\ d.ops = t
      BY <1>2, <3>2, <3>4, WithQueue DEF Requeued
    <3>6. ASSUME NEW k, Observed(Enqueue(d, NewDelete(d, k)))
          PROVE  \E e : /\ Observed(e) /\ DocOK(e, feed, wire)
                        /\ \E i \in DOMAIN e.ops : e.ops[i].op = "delete"
      <4> DEFINE e == Enqueue(d, NewDelete(d, k))
      <4>1. DocOK(e, feed, wire) /\ \E i \in DOMAIN e.ops : e.ops[i].op = "delete"
        BY <1>1, <3>3, <3>5, NewDeletes DEF Derived
      <4>2. Observed(e)
        BY <3>6
      <4> HIDE DEF e
      <4>3. QED
        BY <4>1, <4>2
    <3>7. local = Absent
      BY <2>4 DEF Superseded
    <3>8. QED
      BY <1>1, <1>4, <2>4, <3>1, <3>5, <3>6, <3>7
  <2>5. QED
    BY <2>2, <2>3, <2>4
<1>5. QED
  BY <1>3, <1>4

\* A drained event leaves the journal sound.
LEMMA DrainKeeps ==
  ASSUME JournalInv, DrainEvent
  PROVE  JournalInv'
<1>1. UNCHANGED <<feed, wire, reply>> /\ task = Idle /\ Plain(Idle)
  BY DrainForms, EndFacts
<1>2. CASE Ignored
  <2>1. UNCHANGED journal /\ task' = Idle
    BY <1>1, <1>2 DEF Ignored
  <2>2. QED
    BY <1>1, <2>1, QuietStep DEF Keeps
<1>3. ASSUME NEW d, Observed(d), DocOK(d, feed, wire)
      PROVE  JournalInv'
  <2>1. SaveOr(d, Idle, Idle)
    BY <1>3 DEF Observed, Save
  <2>2. /\ DocOK(mem', feed', wire') /\ DocOK(disk', feed', wire')
        /\ blocked' \in BOOLEAN /\ (~blocked' => mem' = disk') /\ task' = Idle
    BY <1>1, <1>3, <2>1, SaveFacts
  <2>3. TaskInv'
    BY <1>1, <2>2, PlainTask
  <2>4. QED
    BY <1>1, <2>2, <2>3 DEF JournalInv
<1>4. QED
  BY <1>2, <1>3, DrainForms DEF Derived

\* So does a restart, which takes the document from the disk.
LEMMA RestartKeeps ==
  ASSUME JournalInv, Restart
  PROVE  JournalInv' /\ mem' = disk
<1>1. /\ mem' = disk /\ disk' = disk /\ blocked' = FALSE /\ reply' = 0 /\ task' = Idle
      /\ UNCHANGED <<feed, wire>>
  BY DEF Restart, NoReply
<1>2. TaskInv'
  BY <1>1, EndFacts, PlainTask
<1>3. DocOK(mem', feed', wire') /\ DocOK(disk', feed', wire')
  BY <1>1 DEF JournalInv
<1>4. IsSeq(feed') /\ WireOK(wire', feed')
  BY <1>1 DEF JournalInv
<1>5. blocked' \in BOOLEAN /\ reply' \in Int /\ mem' = disk'
  <2>1. blocked' \in BOOLEAN
    BY <1>1, Zenon
  <2>2. reply' \in Int
    BY <1>1
  <2>3. mem' = disk'
    BY <1>1
  <2>4. QED
    BY <2>1, <2>2, <2>3
<1>6. JournalInv'
  BY <1>2, <1>3, <1>4, <1>5 DEF JournalInv
<1>7. QED
  BY <1>1, <1>6

-----------------------------------------------------------------------------
(* The invariant holds.                                                     *)

\* Every step but those two keeps the journal sound, and makes no delete.
LEMMA MostSteps ==
  ASSUME JournalInv, Next, ~DrainEvent, ~Restart
  PROVE  Keeps
<1>1. \/ ApplyStep \/ PublicationStep \/ StartCycle \/ ReplayStep \/ EnrollStep
      \/ UserEdit \/ UserEditsCopy \/ OtherWrites \/ DeleteRows \/ LoseAnswer \/ Refuse
      \/ LoseCreated \/ RefuseCreate \/ Execute
  BY DEF Next, Device, TaskStep, Environment
<1>2. ApplyStep => Keeps
  BY BeginSteps, DecideSteps, FileSteps DEF ApplyStep
<1>3. PublicationStep => Keeps
  BY ScanSteps, FlushSteps, SettleSteps DEF PublicationStep
<1>4. EnrollStep => Keeps
  BY ManifestSteps, UploadSteps DEF EnrollStep
<1>5. QED
  BY <1>1, <1>2, <1>3, <1>4, ReplaySteps, OutsideSteps, ExecuteStep

\* The first documents of the device.
LEMMA JournalInvInit ==
  ASSUME Init
  PROVE  JournalInv
<1>1. IsSeq(feed) /\ Len(feed) \in Nat /\ (Len(feed) = 0 \/ Len(feed) = 1)
  <2>1. feed = <<>> \/ \E t \in Texts : feed = <<[text |-> t, key |-> NoKey]>>
    BY DEF Init
  <2>2. CASE feed = <<>>
    BY <2>2 DEF IsSeq
  <2>3. CASE \E t \in Texts : feed = <<[text |-> t, key |-> NoKey]>>
    <3>1. PICK e : feed = <<e>>
      BY <2>3
    <3>2. QED
      BY <3>1 DEF IsSeq
  <2>4. QED
    BY <2>1, <2>2, <2>3
<1>2. IsCheck(NoCheck) /\ IsApply(NoApply, feed) /\ QueueOK(<<>>, feed, wire)
  BY EmptyQueue DEF IsCheck, NoCheck, IsRecord, IsApply, NoApply, NoCopy, TrueRow
<1>3. ASSUME NEW b, IsBase(b, feed) PROVE DocOK(Document(b), feed, wire)
  <2>1. b.rev \in Int
    BY <1>3 DEF IsBase, TrueRow
  <2>2. QED
    BY <1>2, <1>3, <2>1 DEF DocOK, SideOK, Document, IsDocument, IsRecord
<1>4. DocOK(mem, feed, wire)
  <2>1. CASE Enrolled
    <3> DEFINE b == [rev |-> Len(feed), text |-> local]
    <3>1. Len(feed) = 1 => local = feed[1].text
      <4>1. CASE feed = <<>>
        BY <4>1
      <4>2. CASE feed # <<>>
        BY <2>1, <4>2 DEF Enrolled
      <4>3. QED
        BY <4>1, <4>2
    <3>2. TrueRow(Len(feed), local, feed)
      <4>1. CASE Len(feed) = 0
        BY <4>1 DEF TrueRow
      <4>2. CASE Len(feed) = 1
        BY <3>1, <4>2 DEF TrueRow
      <4>3. QED
        BY <1>1, <4>1, <4>2
    <3>3. IsBase(b, feed)
      BY <3>2 DEF IsBase, IsRecord
    <3> HIDE DEF b
    <3>4. DocOK(Document(b), feed, wire)
      BY <1>3, <3>3
    <3>5. QED
      BY <2>1, <3>4 DEF Enrolled, b
  <2>2. CASE Fresh
    <3>1. IsBase(NoBase, feed)
      BY DEF NoBase, IsBase, IsRecord, TrueRow
    <3>2. DocOK(Document(NoBase), feed, wire)
      BY <1>3, <3>1
    <3> DEFINE d == Document(NoBase)
    <3>3. FreshDocument = [d EXCEPT !.cursor = NoCursor, !.bound = FALSE] /\ DocOK(d, feed, wire)
      BY <3>2 DEF FreshDocument
    <3> HIDE DEF d
    <3>4. SideOK(FreshDocument, feed) /\ FreshDocument.ops = d.ops
      <4>1. PICK e : e = FreshDocument
        OBVIOUS
      <4>2. IsDocument(d) /\ SideOK(d, feed)
        BY <3>3 DEF DocOK, SideOK
      <4>3. /\ IsDocument(e) /\ e.cursor = NoCursor /\ e.base = d.base /\ e.apply = d.apply
            /\ e.check = d.check /\ e.ops = d.ops
        BY <3>3, <4>1, <4>2 DEF IsDocument, IsRecord
      <4>4. SideOK(e, feed)
        BY <4>2, <4>3 DEF SideOK, NoCursor
      <4>5. QED
        BY <4>1, <4>3, <4>4
    <3>5. QED
      BY <2>2, <3>3, <3>4 DEF Fresh, DocOK
  <2>3. QED
    BY <2>1, <2>2 DEF Init
<1>5. WireOK(wire, feed) /\ reply \in Int /\ blocked = FALSE /\ disk = mem /\ task = Idle
  BY DEF Init, WireOK, NoReply
<1>6. TaskInv
  BY <1>1, <1>5 DEF TaskInv, IsTask, IsRecord, Idle, Sending
<1>7. QED
  BY <1>1, <1>4, <1>5, <1>6 DEF JournalInv

\* The journal stays sound.
LEMMA JournalInvHolds == Spec => []JournalInv
<1>1. Init => JournalInv
  BY JournalInvInit
<1>2. JournalInv /\ [Next]_vars => JournalInv'
  <2> SUFFICES ASSUME JournalInv, [Next]_vars PROVE JournalInv'
    OBVIOUS
  <2>1. CASE DrainEvent
    BY <2>1, DrainKeeps
  <2>2. CASE Restart
    BY <2>2, RestartKeeps
  <2>3. CASE Next /\ ~DrainEvent /\ ~Restart
    BY <2>3, MostSteps DEF Keeps
  <2>4. CASE UNCHANGED vars
    <3>1. UNCHANGED <<journal, feed, wire, reply, task>>
      BY <2>4 DEF vars, journal
    <3>2. TaskInv'
      BY <3>1 DEF JournalInv, TaskInv, journal, a, Creates, Create, Replaceable, Clean
    <3>3. QED
      BY <3>1, <3>2 DEF JournalInv, journal
  <2>5. QED
    BY <2>1, <2>2, <2>3, <2>4
<1>3. QED
  BY <1>1, <1>2, PTL DEF Spec

\* The base is a revision that the vault has, with its text there, in memory and on
\* disk (BaseTrue).
THEOREM BaseTrueHolds == Spec => []BaseTrue
<1>1. JournalInv => BaseTrue
  <2> SUFFICES ASSUME JournalInv, NEW d \in Documents, d.base.rev > 0
               PROVE  d.base.rev <= Head_ /\ d.base = Row(d.base.rev)
    BY DEF BaseTrue
  <2>1. IsBase(d.base, feed)
    BY DEF JournalInv, Documents, DocOK, SideOK
  <2>2. QED
    BY <2>1 DEF IsBase, IsRecord, TrueRow, Row, Head_
<1>2. QED
  BY <1>1, JournalInvHolds, PTL

\* Requests under one key are one request (SameKeySameRequest).
THEOREM SameKeySameRequestHolds == Spec => []SameKeySameRequest
<1>1. JournalInv => SameKeySameRequest
  <2> SUFFICES ASSUME JournalInv, NEW q \in wire, NEW r \in wire, q.key = r.key
               PROVE  [q EXCEPT !.again = FALSE] = [r EXCEPT !.again = FALSE]
    BY DEF SameKeySameRequest
  <2>1. /\ IsRecord(q, {"key", "op", "text", "pre", "knew", "again"})
        /\ IsRecord(r, {"key", "op", "text", "pre", "knew", "again"})
        /\ Sig(q) = Sig(r)
    BY DEF JournalInv, WireOK
  <2>2. q.key = r.key /\ q.op = r.op /\ q.text = r.text /\ q.pre = r.pre /\ q.knew = r.knew
    BY <2>1 DEF Sig
  <2>3. QED
    BY <2>1, <2>2 DEF IsRecord
<1>2. QED
  BY <1>1, JournalInvHolds, PTL

-----------------------------------------------------------------------------
(* Events and bounds.                                                       *)

Kinds == {"edits", "writes", "faults"}

EventInv == events \in Seq({"save", "delete"}) /\ budget \in [Kinds -> Int]

\* An event may arrive, and a step may spend of the bounds.
Arrives == events' = events \/ \E e \in {"save", "delete"} : events' = Append(events, e)
Pays == budget' = budget \/ \E kind \in Kinds : Spend(kind)

\* What a write of the journal spends.
LEMMA SavePays ==
  /\ \A d, next, failed : SaveOr(d, next, failed) => Pays
  /\ \A d, next : Save(d, next) => Pays
  /\ \A c, next : Checked(c, next) => Pays
  /\ \A next : NoteAttention(next) \/ ClearExpected(next) => Pays
<1>1. \A d, next, failed : SaveOr(d, next, failed) => Pays
  BY DEF SaveOr, Pays, Kinds
<1>2. \A d, next : Save(d, next) => Pays
  BY <1>1 DEF Save
<1>3. \A next : NoteAttention(next) => Pays
  BY <1>2 DEF NoteAttention
<1>4. \A next : ClearExpected(next) => Pays
  BY <1>2 DEF ClearExpected, Pays
<1>5. \A c, next : Checked(c, next) => Pays
  BY <1>2 DEF Checked
<1>6. QED
  BY <1>1, <1>2, <1>3, <1>4, <1>5

\* The steps of an apply.
LEMMA ApplyPays ==
  ASSUME ApplyStep
  PROVE  Arrives /\ Pays
<1>1. Rebase => Arrives /\ Pays
  BY DEF Rebase, NoEffect, Arrives, Pays, Kinds
<1>2. Begin \/ Begun \/ Complete \/ Resume \/ RefusedWrite \/ StartConflict => Arrives /\ Pays
  BY SavePays
  DEF Begin, Begun, Complete, Resume, RefusedWrite, StartConflict, NoEffect, Arrives, Pays
<1>3. ASSUME Decide PROVE Arrives /\ Pays
  <2>1. Arrives
    BY <1>3 DEF Decide, Arrives
  <2>2. CASE local = a.text
    BY <1>3, <2>1, <2>2, SavePays DEF Decide
  <2>3. CASE local # a.text /\ local = Absent
    BY <1>3, <2>1, <2>3, SavePays DEF Decide
  <2>4. CASE local # a.text /\ local # Absent /\ Clean(local)
    BY <1>3, <2>1, <2>4, SavePays DEF Decide, Pays
  <2>5. CASE local # a.text /\ local # Absent /\ ~Clean(local)
    BY <1>3, <2>1, <2>5, SavePays DEF Decide
  <2>6. QED
    BY <2>2, <2>3, <2>4, <2>5
<1>4. Write => Arrives /\ Pays
  BY DEF Write, WriteFile, Emit, Arrives, Pays
<1>5. ReadBack \/ Trash \/ Trashed \/ CreateCopy => Arrives /\ Pays
  BY DEF ReadBack, Trash, Trashed, CreateCopy, NoEffect, Arrives, Pays
<1>6. MoveToTrash => Arrives /\ Pays
  BY DEF MoveToTrash, Emit, Arrives, Pays
<1>7. MarkCopy \/ CopyAttended \/ Finish \/ AttendRefused => Arrives /\ Pays
  BY SavePays DEF MarkCopy, CopyAttended, Finish, AttendRefused, Attended, NoEffect, Arrives, Pays
<1>8. QED
  BY <1>1, <1>2, <1>3, <1>4, <1>5, <1>6, <1>7 DEF ApplyStep

\* Publication.
LEMMA PublicationPays ==
  ASSUME JournalInv, PublicationStep
  PROVE  Arrives /\ Pays
<1>1. Scan => Arrives /\ Pays
  BY SavePays DEF Scan, ScanMissing, Arrives, Pays
<1>2. Restore => Arrives /\ Pays
  BY DEF Restore, Emit, Arrives, Pays
<1>3. Restored \/ Requeue \/ PrepareSend \/ DeferSend => Arrives /\ Pays
  BY SavePays DEF Restored, Requeue, PrepareSend, DeferSend, Arrives, Pays
<1>4. StartFlush \/ Take \/ Skip \/ EndFlush \/ Dispatch \/ Recover => Arrives /\ Pays
  BY DEF StartFlush, Take, Skip, EndFlush, Dispatch, Recover, SameJournal, Arrives, Pays
<1>5. Confirm \/ Settle \/ Reject => Arrives /\ Pays
  BY SavePays DEF Confirm, Settle, Reject, Arrives, Pays
<1>6. ASSUME Refresh PROVE Arrives /\ Pays
  <2>1. Arrives
    BY <1>6 DEF Refresh, Arrives
  <2>2. op.op \in {"put", "delete"}
    BY <1>6, AtOperation DEF Refresh, JournalInv, TaskInv, Sending, IsOp
  <2>3. CASE op.op = "delete"
    BY <1>6, <2>1, <2>3, SavePays DEF Refresh, Pays
  <2>4. CASE op.op = "put" /\ local = Absent
    BY <1>6, <2>1, <2>4, SavePays DEF Refresh
  <2>5. CASE op.op = "put" /\ local # Absent /\ InSync
    BY <1>6, <2>1, <2>5, SavePays DEF Refresh
  <2>6. CASE op.op = "put" /\ local # Absent /\ ~InSync /\ local = op.text
    BY <1>6, <2>1, <2>6 DEF Refresh, Pays
  <2>7. CASE op.op = "put" /\ local # Absent /\ ~InSync /\ local # op.text
    BY <1>6, <2>1, <2>7, SavePays DEF Refresh
  <2>8. QED
    BY <2>2, <2>3, <2>4, <2>5, <2>6, <2>7
<1>7. QED
  BY <1>1, <1>2, <1>3, <1>4, <1>5, <1>6 DEF PublicationStep

\* Replay and enrollment.
LEMMA EnrollPays ==
  ASSUME EnrollStep \/ ReplayStep \/ StartCycle
  PROVE  Arrives /\ Pays
<1>1. ReadPage \/ NextRow \/ EndRow \/ StartCycle => Arrives /\ Pays
  BY SavePays DEF ReadPage, NextRow, EndRow, StartCycle, ReplayFrame, Quietly, Arrives, Pays
<1>2. ReadManifest \/ Bind \/ ListFiles \/ Hold \/ ResolveEntry => Arrives /\ Pays
  BY SavePays
  DEF ReadManifest, Bind, ListFiles, Hold, ResolveEntry, EnrollFrame, Unsaved, Arrives, Pays
<1>3. Acknowledge \/ EndEntry \/ EndPage \/ FindSent \/ ResolveSent => Arrives /\ Pays
  BY SavePays
  DEF Acknowledge, EndEntry, EndPage, FindSent, ResolveSent, EnrollFrame, Unsaved, Arrives, Pays
<1>4. SentKnown \/ PrepareCreate \/ SendCreate \/ ConfirmCreate \/ SettleCreate => Arrives /\ Pays
  BY SavePays
  DEF SentKnown, PrepareCreate, SendCreate, ConfirmCreate, SettleCreate, EnrollFrame, Unsaved,
      Arrives, Pays
<1>5. Published \/ EndEnrollment => Arrives /\ Pays
  BY SavePays DEF Published, EndEnrollment, EnrollFrame, Unsaved, Arrives, Pays
<1>6. ASSUME TakeEntry PROVE Arrives /\ Pays
  <2>1. Arrives
    BY <1>6 DEF TakeEntry, Arrives
  <2>2. CASE ~HasEntry
    BY <1>6, <2>1, <2>2 DEF TakeEntry, Unsaved, Pays
  <2>3. CASE HasEntry /\ ~check.pending
    BY <1>6, <2>1, <2>3, SavePays DEF TakeEntry
  <2>4. CASE HasEntry /\ check.pending /\ Confirmed(Entry, task.spare) # {}
    BY <1>6, <2>1, <2>4, SavePays DEF TakeEntry, Unsaved, Pays
  <2>5. CASE HasEntry /\ check.pending /\ Confirmed(Entry, task.spare) = {}
    BY <1>6, <2>1, <2>5, SavePays DEF TakeEntry, Unsaved, Pays
  <2>6. QED
    BY <2>2, <2>3, <2>4, <2>5
<1>7. ASSUME PublishLocal PROVE Arrives /\ Pays
  <2>1. Arrives
    BY <1>7 DEF PublishLocal, EnrollFrame, Arrives
  <2>2. CASE ~ToPublish
    BY <1>7, <2>1, <2>2, SavePays DEF PublishLocal
  <2>3. CASE ToPublish /\ mem.refused
    BY <1>7, <2>1, <2>3, SavePays DEF PublishLocal, Unsaved, Pays
  <2>4. CASE ToPublish /\ ~mem.refused /\ local = Absent
    BY <1>7, <2>1, <2>4 DEF PublishLocal, Unsaved, Pays
  <2>5. CASE ToPublish /\ ~mem.refused /\ local # Absent /\ Creates # {}
    BY <1>7, <2>1, <2>5 DEF PublishLocal, Unsaved, Pays
  <2>6. CASE ToPublish /\ ~mem.refused /\ local # Absent /\ Creates = {}
    BY <1>7, <2>1, <2>6, SavePays DEF PublishLocal
  <2>7. QED
    BY <2>2, <2>3, <2>4, <2>5, <2>6
<1>8. QED
  BY <1>1, <1>2, <1>3, <1>4, <1>5, <1>6, <1>7 DEF EnrollStep, ReplayStep

\* The user, the vault and the faults.
LEMMA OutsidePays ==
  ASSUME Environment, ~Restart
  PROVE  Arrives /\ Pays
<1>1. UserEdit \/ UserEditsCopy \/ OtherWrites \/ DeleteRows => Arrives /\ Pays
  BY DEF UserEdit, UserEditsCopy, OtherWrites, DeleteRows, Emit, Arrives, Pays, Kinds
<1>2. LoseAnswer \/ Refuse \/ LoseCreated \/ RefuseCreate => Arrives /\ Pays
  BY DEF LoseAnswer, Refuse, LoseCreated, RefuseCreate, Arrives, Pays, Kinds
<1>3. Execute => Arrives /\ Pays
  BY DEF Execute, Arrives, Pays
<1>4. QED
  BY <1>1, <1>2, <1>3 DEF Environment

\* Every step but a drained event and a restart leaves the events that wait.
LEMMA MostPay ==
  ASSUME JournalInv, Next, ~DrainEvent, ~Restart
  PROVE  Arrives /\ Pays
BY ApplyPays, PublicationPays, EnrollPays, OutsidePays DEF Next, Device, TaskStep, Environment

\* A drained event is the oldest one, or it stays where it is.
LEMMA DrainPays ==
  ASSUME JournalInv, DrainEvent
  PROVE  Pays /\ events # <<>> /\ events' \in {events, Tail(events)}
<1>1. events # <<>> /\ (Ignored \/ \E d : Observed(d))
  BY DrainForms DEF DrainEvent
<1>2. QED
  BY <1>1, SavePays DEF Ignored, Observed, Pays

\* Events wait in a queue of their kinds, and the bounds are numbers.
LEMMA EventInvHolds == Spec => []EventInv
<1>1. Init => EventInv
  <2> SUFFICES ASSUME Init PROVE EventInv
    OBVIOUS
  <2>1. events = <<>> /\ \E n : Changes(n)
    BY DEF Init, Enrolled, Fresh
  <2>2. budget \in [Kinds -> Int]
    BY <2>1 DEF Changes, Kinds
  <2>3. QED
    BY <2>1, <2>2 DEF EventInv
<1>2. JournalInv /\ EventInv /\ [Next]_vars => EventInv'
  <2> SUFFICES ASSUME JournalInv, EventInv, [Next]_vars PROVE EventInv'
    OBVIOUS
  <2>1. Pays => budget' \in [Kinds -> Int]
    BY DEF Pays, Spend, EventInv
  <2>2. Arrives => events' \in Seq({"save", "delete"})
    BY DEF Arrives, EventInv
  <2>3. CASE DrainEvent
    <3>1. Pays /\ events # <<>> /\ events' \in {events, Tail(events)}
      BY <2>3, DrainPays
    <3>2. events' \in Seq({"save", "delete"})
      BY <3>1 DEF EventInv
    <3>3. QED
      BY <2>1, <3>1, <3>2 DEF EventInv
  <2>4. CASE Restart
    <3>1. events' = <<>> /\ Pays
      BY <2>4 DEF Restart, Pays, Kinds
    <3>2. QED
      BY <2>1, <3>1 DEF EventInv
  <2>5. CASE Next /\ ~DrainEvent /\ ~Restart
    BY <2>1, <2>2, <2>5, MostPay DEF EventInv
  <2>6. CASE UNCHANGED vars
    BY <2>6 DEF vars, EventInv
  <2>7. QED
    BY <2>3, <2>4, <2>5, <2>6
<1>3. QED
  BY <1>1, <1>2, JournalInvHolds, PTL DEF Spec

\* A delete enters the queue only from a delete event, with the file still gone.
LEMMA DeleteNeedsEvent ==
  ASSUME JournalInv, EventInv, [Next]_vars,
         NEW i \in DOMAIN mem'.ops, mem'.ops[i].op = "delete",
         mem'.ops[i].key \notin Keys(mem) \cup Keys(disk)
  PROVE  events # <<>> /\ Head(events) = "delete" /\ local = Absent
<1>1. ~NoNewDelete(mem'.ops, mem.ops) /\ ~NoNewDelete(mem'.ops, disk.ops)
  BY DEF NoNewDelete, Keys
<1>2. DrainEvent
  <2>1. CASE Restart
    BY <1>1, <2>1 DEF Restart, NoNewDelete
  <2>2. CASE Next /\ ~DrainEvent /\ ~Restart
    BY <1>1, <2>2, MostSteps DEF Keeps
  <2>3. CASE UNCHANGED vars
    BY <1>1, <2>3 DEF vars, NoNewDelete
  <2>4. QED
    BY <2>1, <2>2, <2>3
<1>3. events # <<>> /\ Head(events) \in {"save", "delete"}
  BY <1>2 DEF DrainEvent, EventInv
<1>4. ASSUME Ignored PROVE FALSE
  BY <1>1, <1>4 DEF Ignored, journal, NoNewDelete
<1>5. ASSUME NEW d, Observed(d), NoNewDelete(d.ops, mem.ops) PROVE FALSE
  <2>1. mem' = d \/ mem' = mem
    BY <1>5 DEF Observed, Save, SaveOr
  <2>2. QED
    BY <1>1, <1>5, <2>1 DEF NoNewDelete
<1>6. QED
  BY <1>2, <1>3, <1>4, <1>5, DrainForms DEF Derived

\* A delete event is passed over only when the file is there again, or the vault has none.
LEMMA DeleteIsTaken ==
  ASSUME JournalInv, EventInv, [Next]_vars,
         events # <<>>, Head(events) = "delete", events' = Tail(events), budget' = budget
  PROVE  local # Absent \/ ~Live(mem.base) \/ \E i \in DOMAIN mem'.ops : mem'.ops[i].op = "delete"
<1>1. events \in Seq({"save", "delete"}) /\ Len(events) \in Nat /\ Len(events) > 0
  BY DEF EventInv
<1>2. Len(events') = Len(events) - 1
  BY <1>1
<1>3. ~Arrives
  <2>1. ASSUME events' = events PROVE FALSE
    <3>1. Len(events') = Len(events)
      BY <2>1
    <3>2. QED
      BY <1>1, <1>2, <3>1
  <2>2. ASSUME NEW e \in {"save", "delete"}, events' = Append(events, e) PROVE FALSE
    <3>1. Len(Append(events, e)) = Len(events) + 1
      BY <1>1
    <3>2. Len(events') = Len(events) + 1
      BY <2>2, <3>1
    <3>3. QED
      BY <1>1, <1>2, <3>2
  <2>3. QED
    BY <2>1, <2>2 DEF Arrives
<1>4. DrainEvent
  <2>1. ASSUME Restart PROVE FALSE
    <3>1. budget["faults"] \in Int /\ budget' = [budget EXCEPT !["faults"] = @ - 1]
      BY <2>1 DEF Restart, Spend, EventInv, Kinds
    <3>2. budget'["faults"] = budget["faults"] - 1
      BY <3>1 DEF EventInv, Kinds
    <3>3. QED
      BY <3>1, <3>2
  <2>2. ASSUME Next, ~DrainEvent, ~Restart PROVE FALSE
    BY <1>3, <2>2, MostPay
  <2>3. ASSUME UNCHANGED vars PROVE FALSE
    BY <1>3, <2>3 DEF vars, Arrives
  <2>4. QED
    BY <2>1, <2>2, <2>3
<1>5. Head(events) # "save"
  OBVIOUS
<1>6. ASSUME NEW d, Observed(d), \E i \in DOMAIN d.ops : d.ops[i].op = "delete"
      PROVE  \E i \in DOMAIN mem'.ops : mem'.ops[i].op = "delete"
  <2>1. ~blocked'
    BY <1>3, <1>6 DEF Observed, Arrives
  <2>2. mem' = d
    BY <1>6, <2>1 DEF Observed, Save, SaveOr
  <2>3. QED
    BY <1>6, <2>2
<1>7. QED
  BY <1>4, <1>5, <1>6, DrainForms

\* Deletes follow events, and events are not passed over (DeletesFollowEvents).
THEOREM DeletesFollowEventsHolds == Spec => DeletesFollowEvents
<1>1. JournalInv /\ EventInv /\ [Next]_vars =>
        [/\ \A i \in DOMAIN mem'.ops :
              (mem'.ops[i].op = "delete" /\ mem'.ops[i].key \notin Keys(mem) \cup Keys(disk)) =>
                events # <<>> /\ Head(events) = "delete" /\ local = Absent
         /\ (events # <<>> /\ Head(events) = "delete" /\ events' = Tail(events) /\ budget' = budget) =>
              local # Absent \/ ~Live(mem.base) \/ \E i \in DOMAIN mem'.ops : mem'.ops[i].op = "delete"]_vars
  BY DeleteNeedsEvent, DeleteIsTaken
<1>2. QED
  BY <1>1, JournalInvHolds, EventInvHolds, PTL DEF Spec, DeletesFollowEvents

-----------------------------------------------------------------------------
(* What the cursor has left behind.                                         *)

\* Row n of the feed was applied, or is being applied, or is a delete with a later row.
Covered(d, n) ==
  \/ n <= d.base.rev \/ n <= d.apply.row
  \/ 0 < n /\ n < Head_ /\ feed[n].text = Absent

\* The cursor is covered, and so is the head that a traversal will set it to, from the
\* local files on.
DocCover(d) ==
  /\ 0 <= d.base.rev /\ (d.base.rev = 0 => d.base.text = Absent)
  /\ d.apply.row <= d.apply.rev
  /\ Covered(d, d.cursor)
  /\ d.check.stage \in {"local", "cursor"} => Covered(d, d.check.head)

\* The stages of an apply, of a cycle but for the manifest, of a row of the manifest that
\* is dealt with, and of a first upload.
Applying ==
  {"begun", "decide", "copy", "check", "finish", "write", "written", "unwritten", "complete",
   "refused", "clear", "attend", "conflict", "trash", "trashing", "trashed"}
Cycling ==
  Stages \cup {"pick", "refresh", "prepare", "dispatch", "await", "defer", "settle", "requeue",
               "restore", "restored", "kept", "read_page", "next_row"}
Resolving == {"resolve_entry", "applied", "entry_done", "page_done"}
Uploading ==
  {"publish", "published", "resolve_sent", "sent_known", "prepare_create", "send_create",
   "creating", "resolve_create", "create_refused", "create_rejected", "create_stale"}
Tracked == Applying \cup Cycling \cup Resolving \cup Uploading \cup {"begin", "row_done", "hold", "entry"}

\* The task reads the page that the checkpoint is about.
AtHead(t, d) == d.check.stage = "manifest" => t.head = d.check.head
OnRow(t, d) == d.check.stage = "manifest" /\ t.head = d.check.head
PartOf(t, d) ==
  /\ t.for = "manifest" => t.row = t.head /\ OnRow(t, d)
  /\ t.for = "held" => AtHead(t, d)

\* What the task is at, next to the document in memory.
TaskCover(t, d) ==
  /\ t.for \in {"feed", "manifest", "held"}
  /\ t.pc \in Cycling => t.for = "feed"
  /\ t.pc = "begin" => t.for # "held" /\ PartOf(t, d)
  /\ t.pc \in Applying => t.row = d.apply.row /\ PartOf(t, d)
  /\ t.pc = "decide" => d.apply.rev > d.base.rev
  /\ t.pc = "row_done" => (t.row <= d.base.rev \/ t.row <= d.apply.row) /\ PartOf(t, d)
  /\ t.pc \in {"hold", "entry"} => AtHead(t, d)
  /\ t.pc \in Resolving => OnRow(t, d) /\ (t.head <= d.base.rev \/ t.head <= d.apply.row)
  /\ t.pc \in Uploading => d.check.stage = "local"

CoverInv == DocCover(mem) /\ DocCover(disk) /\ TaskCover(task, mem)

\* A document that differs in its queue, what is kept or expected, or the conflict copy.
SameSide(e, d) ==
  /\ e.base = d.base /\ e.cursor = d.cursor /\ e.check = d.check
  /\ e.apply.row = d.apply.row /\ e.apply.rev = d.apply.rev

\* The transitions that leave the rest of the document alone.
LEMMA SideFacts ==
  ASSUME NEW d, IsDocument(d), IsRecord(d.apply, {"row", "rev", "text", "step", "copy"})
  PROVE  /\ SameSide(d, d)
         /\ \A text : SameSide(NameCopy(d, text), d)
         /\ SameSide(MarkCopied(d), d)
         /\ \A text : SameSide(Expect(d, text), d)
         /\ \A o : SameSide(Enqueue(d, o), d)
         /\ \A k : SameSide(Prepare(d, k), d) /\ SameSide(Defer(d, k), d)
         /\ \A k : SameSide(DiscardQueued(d, k), d) /\ SameSide(RecordQueuedRejected(d, k), d)
         /\ \A k : SameSide(RecordRejected(d, k), d) /\ SameSide(ResolveAlone(d, k), d)
         /\ \A k, receipt : SameSide(Resolve(d, k, receipt), d)
         /\ \A s : SameSide([d EXCEPT !.ops = s], d)
         /\ SameSide([d EXCEPT !.refused = TRUE], d)
<1>1. \A s, kept : SameSide([d EXCEPT !.ops = s, !.kept = kept], d)
  BY DEF SameSide, IsDocument, IsRecord
<1>2. \A s : SameSide([d EXCEPT !.ops = s], d)
  BY DEF SameSide, IsDocument, IsRecord
<1>3. \A text : SameSide(Expect(d, text), d)
  BY DEF SameSide, IsDocument, IsRecord, Expect
<1>4. SameSide([d EXCEPT !.refused = TRUE], d) /\ SameSide(d, d)
  BY DEF SameSide, IsDocument, IsRecord
<1>5. \A o : SameSide(Enqueue(d, o), d)
  BY DEF Enqueue, SameSide, IsDocument, IsRecord
<1>6. \A k : SameSide(Prepare(d, k), d) /\ SameSide(Defer(d, k), d) /\ SameSide(DiscardQueued(d, k), d)
  BY DEF Prepare, Defer, DiscardQueued, SameSide, IsDocument, IsRecord
<1>7. \A k : SameSide(RecordQueuedRejected(d, k), d) /\ SameSide(RecordRejected(d, k), d)
  BY DEF RecordQueuedRejected, RecordRejected, SameSide, IsDocument, IsRecord
<1>8. \A k : SameSide(ResolveAlone(d, k), d)
  BY DEF ResolveAlone, SameSide, IsDocument, IsRecord
<1>9. \A k, receipt : SameSide(Resolve(d, k, receipt), d)
  BY DEF Resolve, SameSide, IsDocument, IsRecord
<1>10. (\A text : SameSide(NameCopy(d, text), d)) /\ SameSide(MarkCopied(d), d)
  BY DEF NameCopy, MarkCopied, SameSide, IsDocument, IsRecord
<1>11. QED
  BY <1>2, <1>3, <1>4, <1>5, <1>6, <1>7, <1>8, <1>9, <1>10

\* Such a document is covered when the other one is.
LEMMA SameCover ==
  ASSUME NEW d, NEW e, SameSide(e, d)
  PROVE  /\ DocCover(d) => DocCover(e)
         /\ \A t : TaskCover(t, d) => TaskCover(t, e)
BY DEF SameSide, DocCover, Covered, TaskCover, PartOf, OnRow, AtHead

\* A step that changes the document in memory, or on disk only.
LEMMA CoverStep ==
  ASSUME CoverInv, NEW d, DocCover(d), UNCHANGED feed, disk' \in {disk, d}, mem' \in {mem, d},
         TaskCover(task', mem')
  PROVE  CoverInv'
<1>1. \A e : DocCover(e) => (\A f : f = e => DocCover(f)')
  BY DEF DocCover, Covered, Head_
<1>2. DocCover(mem)' /\ DocCover(disk)'
  BY <1>1 DEF CoverInv
<1>3. QED
  BY <1>2 DEF CoverInv

\* A write of the journal, which verifies or not.
LEMMA CoverSave ==
  ASSUME CoverInv, NEW d, NEW next, NEW failed, SaveOr(d, next, failed), UNCHANGED feed,
         DocCover(d), TaskCover(next, d), TaskCover(failed, mem)
  PROVE  CoverInv'
BY CoverStep DEF SaveOr

\* A step that leaves the journal and the feed alone.
LEMMA CoverQuiet ==
  ASSUME CoverInv, UNCHANGED <<journal, feed>>, TaskCover(task', mem)
  PROVE  CoverInv'
<1>1. UNCHANGED <<mem, disk, feed>>
  BY DEF journal
<1>2. DocCover(mem)' /\ DocCover(disk)'
  BY <1>1 DEF CoverInv, DocCover, Covered, Head_
<1>3. QED
  BY <1>1, <1>2 DEF CoverInv

\* The tasks that the actions go on with, next to any document or to one like that in memory.
LEMMA TaskCovers ==
  ASSUME JournalInv, CoverInv, NEW d
  PROVE  /\ TaskCover(Idle, d)
         /\ \A pc, text : pc \notin Tracked => TaskCover(At(pc), d) /\ TaskCover(Saw(pc, text), d)
         /\ task.pc \in Cycling =>
              /\ \A pc \in Cycling : \A text : TaskCover(At(pc), d) /\ TaskCover(Saw(pc, text), d)
              /\ TaskCover(NextOp, d) /\ TaskCover(task, d)
         /\ task.pc # "idle" =>
              TaskCover(Finished(task), d) /\ TaskCover(FlushEnd, d) /\ TaskCover(Restarted, d)
         /\ task.pc \in Applying /\ d.apply.row = a.row /\ d.check = check =>
              \A pc \in Applying \ {"decide"} : \A text :
                TaskCover(At(pc), d) /\ TaskCover(Saw(pc, text), d)
         /\ task.pc \in Applying /\ d.check = check /\ (a.row <= d.base.rev \/ a.row <= d.apply.row) =>
              TaskCover(RowDone, d)
         /\ task.pc \in Uploading /\ d.check.stage = "local" =>
              TaskCover(task, d) /\ \A pc \in Uploading : TaskCover(At(pc), d)
<1>0. IsRecord(task, {"pc", "rest", "row", "head", "seen", "key", "keys", "spare", "for"})
  BY EndFacts DEF IsTask
<1>1. TaskCover(Idle, d)
  BY DEF TaskCover, Idle, PartOf, Cycling, Stages, Applying, Resolving, Uploading
<1>2. /\ \A pc : /\ At(pc).pc = pc /\ At(pc).for = task.for /\ At(pc).row = task.row
                 /\ At(pc).head = task.head
      /\ \A pc, text : /\ Saw(pc, text).pc = pc /\ Saw(pc, text).for = task.for
                       /\ Saw(pc, text).row = task.row /\ Saw(pc, text).head = task.head
  BY <1>0 DEF At, Saw, IsRecord
<1>3. TaskCover(task, mem)
  BY DEF CoverInv
<1>4. ASSUME NEW pc, NEW text, pc \notin Tracked
      PROVE  TaskCover(At(pc), d) /\ TaskCover(Saw(pc, text), d)
  <2>1. /\ pc \notin Applying \cup Cycling \cup Resolving \cup Uploading
        /\ pc \notin {"begin", "decide", "row_done", "hold", "entry"}
    BY <1>4 DEF Tracked, Applying
  <2>2. task.for \in {"feed", "manifest", "held"}
    BY <1>3 DEF TaskCover
  <2>3. QED
    BY <1>2, <2>1, <2>2 DEF TaskCover
<1>5. ASSUME task.pc \in Cycling
      PROVE  /\ \A pc \in Cycling : \A text : TaskCover(At(pc), d) /\ TaskCover(Saw(pc, text), d)
             /\ TaskCover(NextOp, d) /\ TaskCover(task, d)
  <2>1. task.for = "feed"
    BY <1>3, <1>5 DEF TaskCover
  <2>2. NextOp.pc = "pick" /\ NextOp.for = task.for
    BY <1>0 DEF NextOp, At, IsRecord
  <2>3. \A t : t.for = "feed" /\ t.pc \in Cycling => TaskCover(t, d)
    BY DEF TaskCover, Cycling, Stages, Applying, Resolving, Uploading
  <2>4. "pick" \in Cycling
    BY DEF Cycling
  <2>5. QED
    BY <1>2, <1>5, <2>1, <2>2, <2>3, <2>4
<1>6. ASSUME task.pc # "idle"
      PROVE  TaskCover(Finished(task), d) /\ TaskCover(FlushEnd, d) /\ TaskCover(Restarted, d)
  <2>1. \A t : t.for = "feed" /\ t.pc \in Stages \cup {"idle"} => TaskCover(t, d)
    BY DEF TaskCover, Cycling, Stages, Applying, Resolving, Uploading
  <2>2. /\ Finished(task).for = "feed" /\ Finished(task).pc \in Stages \cup {"idle"}
        /\ "for" \in DOMAIN Finished(task) /\ "pc" \in DOMAIN Finished(task)
    <3>1. CASE Len(task.rest) <= 1
      BY <3>1 DEF Finished, Idle
    <3>2. CASE ~(Len(task.rest) <= 1)
      <4>1. task.rest[2] \in Stages
        BY <1>6, <3>2, EndFacts, RestFacts DEF IsTask, Rest
      <4>2. QED
        BY <1>0, <3>2, <4>1 DEF Finished, IsRecord
    <3>3. QED
      BY <3>1, <3>2
  <2>3. FlushEnd.for = "feed" /\ FlushEnd.pc \in Stages \cup {"idle"}
    BY <2>2 DEF FlushEnd
  <2>4. Restarted.pc = "manifest" /\ Restarted.for = task.for
    BY <1>0 DEF Restarted, At, IsRecord
  <2>5. TaskCover(Restarted, d)
    BY <1>3, <2>4
    DEF TaskCover, Cycling, Stages, Applying, Resolving, Uploading
  <2>6. QED
    BY <2>1, <2>2, <2>3, <2>5
<1>7. ASSUME task.pc \in Applying, d.check = check
      PROVE  task.row = a.row /\ \A t : t.for = task.for /\ t.row = task.row /\ t.head = task.head => PartOf(t, d)
  BY <1>3, <1>7 DEF TaskCover, PartOf, OnRow, AtHead, a, check
<1>8. ASSUME task.pc \in Applying, d.apply.row = a.row, d.check = check,
             NEW pc \in Applying \ {"decide"}, NEW text
      PROVE  TaskCover(At(pc), d) /\ TaskCover(Saw(pc, text), d)
  <2>1. PartOf(At(pc), d) /\ PartOf(Saw(pc, text), d) /\ task.row = a.row
    BY <1>2, <1>7, <1>8
  <2>2. pc \notin Cycling \cup Resolving \cup Uploading \cup {"begin", "row_done", "hold", "entry"}
    BY <1>8 DEF Cycling, Stages, Applying, Resolving, Uploading
  <2>3. QED
    BY <1>2, <1>3, <1>8, <2>1, <2>2 DEF TaskCover
<1>9. ASSUME task.pc \in Applying, d.check = check, a.row <= d.base.rev \/ a.row <= d.apply.row
      PROVE  TaskCover(RowDone, d)
  <2>1. PartOf(RowDone, d) /\ RowDone.row = a.row /\ RowDone.pc = "row_done" /\ RowDone.for = task.for
    BY <1>2, <1>7, <1>9 DEF RowDone
  <2>2. "row_done" \notin Cycling \cup Resolving \cup Uploading \cup Applying
    BY DEF Cycling, Stages, Applying, Resolving, Uploading
  <2>3. QED
    BY <1>3, <1>9, <2>1, <2>2 DEF TaskCover
<1>10. ASSUME task.pc \in Uploading, d.check.stage = "local"
       PROVE  TaskCover(task, d) /\ \A pc \in Uploading : TaskCover(At(pc), d)
  <2>1. \A t : t.for = task.for /\ t.pc \in Uploading => TaskCover(t, d)
    BY <1>3, <1>10 DEF TaskCover, Cycling, Stages, Applying, Resolving, Uploading
  <2>2. QED
    BY <1>2, <1>10, <2>1
<1>11. QED
  BY <1>1, <1>4, <1>5, <1>6, <1>8, <1>9, <1>10

\* The ways in which actions go on.
LEMMA CoverForms ==
  ASSUME JournalInv, CoverInv, UNCHANGED feed, NEW next
  PROVE  /\ \A d : DocCover(d) /\ TaskCover(next, d) /\ Save(d, next) => CoverInv'
         /\ \A d : SameSide(d, mem) /\ TaskCover(next, mem) /\ Save(d, next) => CoverInv'
         /\ TaskCover(next, mem) /\ NoteAttention(next) => CoverInv'
         /\ TaskCover(next, mem) /\ ClearExpected(next) => CoverInv'
         /\ TaskCover(next, mem) /\ UNCHANGED journal /\ task' = next => CoverInv'
<1>1. ASSUME NEW d, DocCover(d), TaskCover(next, d), Save(d, next) PROVE CoverInv'
  BY <1>1, CoverSave, TaskCovers DEF Save
<1>2. ASSUME NEW d, SameSide(d, mem), TaskCover(next, mem), Save(d, next) PROVE CoverInv'
  BY <1>1, <1>2, SameCover DEF CoverInv
<1>3. IsDocument(mem) /\ IsRecord(mem.apply, {"row", "rev", "text", "step", "copy"})
  BY DEF JournalInv, DocOK, SideOK, IsApply
<1>4. TaskCover(next, mem) /\ NoteAttention(next) => CoverInv'
  BY <1>2, <1>3, SideFacts DEF NoteAttention
<1>5. TaskCover(next, mem) /\ UNCHANGED journal /\ task' = next => CoverInv'
  BY CoverQuiet
<1>6. ASSUME TaskCover(next, mem), ClearExpected(next) PROVE CoverInv'
  <2>1. CASE mem.expected = Absent
    BY <1>5, <1>6, <2>1 DEF ClearExpected, journal
  <2>2. CASE mem.expected # Absent
    BY <1>2, <1>3, <1>6, <2>2, SideFacts DEF ClearExpected
  <2>3. QED
    BY <2>1, <2>2
<1>7. QED
  BY <1>1, <1>2, <1>4, <1>5, <1>6

\* The documents of an apply that begins, ends, or is given another revision.
LEMMA ApplyCover ==
  ASSUME JournalInv, CoverInv
  PROVE  /\ \A row, text : a = NoApply /\ row \in Int =>
              LET d == BeginApply(mem, row, text)
              IN DocCover(d) /\ d.apply.row = row /\ d.check = check
         /\ \A rev, text : rev \in Int /\ a.rev <= rev =>
              LET d == RebaseApply(mem, rev, text)
              IN DocCover(d) /\ d.apply.row = a.row /\ d.check = check
         /\ a.rev <= mem.base.rev =>
              LET d == EndApply(mem)
              IN DocCover(d) /\ a.row <= d.base.rev /\ d.check = check
         /\ a.rev > mem.base.rev =>
              LET d == CompleteApply(mem)
              IN DocCover(d) /\ a.row <= d.base.rev /\ d.check = check
<1>1. /\ IsDocument(mem) /\ IsRecord(mem.apply, {"row", "rev", "text", "step", "copy"})
      /\ a.row \in Int /\ a.rev \in Int /\ mem.base.rev \in Int /\ mem.cursor \in Int
      /\ check.head \in Int
  BY MemFacts DEF JournalInv, DocOK, SideOK, IsApply, IsBase, TrueRow, IsCheck
<1>2. DocCover(mem)
  BY DEF CoverInv
<1>3. ASSUME NEW row \in Int, NEW text, a = NoApply
      PROVE  LET d == BeginApply(mem, row, text)
             IN DocCover(d) /\ d.apply.row = row /\ d.check = check
  <2> DEFINE d == BeginApply(mem, row, text)
  <2>1. /\ d.base = mem.base /\ d.cursor = mem.cursor /\ d.check = mem.check
        /\ d.apply.row = row /\ d.apply.rev = row
    BY <1>1 DEF BeginApply, IsDocument, IsRecord
  <2>2. a.row = 0
    BY <1>3 DEF NoApply
  <2> HIDE DEF d
  <2>3. \A n \in Int : Covered(mem, n) => Covered(d, n)
    BY <1>1, <1>2, <2>1, <2>2 DEF Covered, DocCover, a
  <2>4. DocCover(d)
    BY <1>1, <1>2, <1>3, <2>1, <2>3 DEF DocCover, check
  <2>5. QED
    BY <2>1, <2>4 DEF d, check
<1>4. ASSUME NEW rev \in Int, NEW text, a.rev <= rev
      PROVE  LET d == RebaseApply(mem, rev, text)
             IN DocCover(d) /\ d.apply.row = a.row /\ d.check = check
  <2> DEFINE d == RebaseApply(mem, rev, text)
  <2>1. /\ d.base = mem.base /\ d.cursor = mem.cursor /\ d.check = mem.check
        /\ d.apply.row = a.row /\ d.apply.rev = rev
    BY <1>1 DEF RebaseApply, IsDocument, IsRecord, a
  <2> HIDE DEF d
  <2>2. DocCover(d)
    BY <1>1, <1>2, <1>4, <2>1 DEF DocCover, Covered, a
  <2>3. QED
    BY <2>1, <2>2 DEF d, check
<1>5. ASSUME NEW d, d.cursor = mem.cursor, d.check = mem.check, d.apply = NoApply,
             d.base.rev \in Int, mem.base.rev <= d.base.rev, a.rev <= d.base.rev,
             d.base.rev = 0 => d.base.text = Absent
      PROVE  DocCover(d) /\ a.row <= d.base.rev /\ d.check = check
  <2>1. a.row <= d.base.rev /\ d.apply.row = 0 /\ d.apply.rev = 0
    BY <1>1, <1>2, <1>5 DEF DocCover, NoApply, a
  <2>2. \A n \in Int : Covered(mem, n) => Covered(d, n)
    BY <1>1, <1>5, <2>1 DEF Covered, a
  <2>3. DocCover(d)
    BY <1>1, <1>2, <1>5, <2>1, <2>2 DEF DocCover, check
  <2>4. QED
    BY <1>5, <2>1, <2>3 DEF check
<1>6. ASSUME a.rev <= mem.base.rev
      PROVE  LET d == EndApply(mem)
             IN DocCover(d) /\ a.row <= d.base.rev /\ d.check = check
  <2> DEFINE d == EndApply(mem)
  <2>1. d.base = mem.base /\ d.cursor = mem.cursor /\ d.check = mem.check /\ d.apply = NoApply
    BY <1>1 DEF EndApply, IsDocument, IsRecord
  <2> HIDE DEF d
  <2>2. DocCover(d) /\ a.row <= d.base.rev /\ d.check = check
    BY <1>1, <1>2, <1>5, <1>6, <2>1 DEF DocCover
  <2>3. QED
    BY <2>2 DEF d
<1>7. ASSUME a.rev > mem.base.rev
      PROVE  LET d == CompleteApply(mem)
             IN DocCover(d) /\ a.row <= d.base.rev /\ d.check = check
  <2> DEFINE d == CompleteApply(mem)
  <2>1. /\ d.base.rev = a.rev /\ d.cursor = mem.cursor /\ d.check = mem.check
        /\ d.apply = NoApply
    <3>1. /\ IsDocument(EndApply(mem)) /\ EndApply(mem).cursor = mem.cursor
          /\ EndApply(mem).check = mem.check /\ EndApply(mem).apply = NoApply
      BY <1>1 DEF EndApply, IsDocument, IsRecord
    <3>2. QED
      BY <3>1 DEF CompleteApply, IsDocument, IsRecord, a
  <2> HIDE DEF d
  <2>2. DocCover(d) /\ a.row <= d.base.rev /\ d.check = check
    BY <1>1, <1>2, <1>5, <1>7, <2>1 DEF DocCover
  <2>3. QED
    BY <2>2 DEF d
<1>8. QED
  BY <1>3, <1>4, <1>6, <1>7

\* Rebasing, beginning and resuming an apply.
LEMMA BeginCovers ==
  ASSUME JournalInv, CoverInv, Rebase \/ Begin \/ Resume \/ Begun
  PROVE  CoverInv'
<1>0. UNCHANGED feed /\ task.pc # "idle" /\ TaskCover(task, mem)
  BY DEF Rebase, Begin, Resume, Begun, NoEffect, ApplyFrame, remote, CoverInv
<1>1. IsRecord(task, {"pc", "rest", "row", "head", "seen", "key", "keys", "spare", "for"})
  BY EndFacts DEF IsTask
<1>2. \A pc, t : t = At(pc) => /\ t.pc = pc /\ t.for = task.for /\ t.row = task.row
                               /\ t.head = task.head /\ DOMAIN t = DOMAIN task
  BY <1>1 DEF At, IsRecord
<1>3. CASE Rebase
  <2> DEFINE d == RebaseApply(mem, Head_, feed[Head_].text)
  <2>1. /\ mem' = d /\ disk' = d /\ task' = At("begun") /\ a.rev < Head_ /\ Head_ \in Int
        /\ task.pc \in {"decide", "finish"}
    BY <1>3, MemFacts DEF Rebase, Goto, Pruned, a, Head_
  <2>2. DocCover(d) /\ d.apply.row = a.row /\ d.check = check
    BY <2>1, MemFacts, ApplyCover
  <2> HIDE DEF d
  <2>3. TaskCover(At("begun"), d)
    BY <2>1, <2>2, TaskCovers DEF Applying
  <2>4. QED
    BY <1>0, <2>1, <2>2, <2>3, CoverStep
<1>4. CASE Begin
  <2>1. /\ task.pc = "begin" /\ task.for # "held" /\ PartOf(task, mem) /\ task.row \in Int
        /\ task.for \in {"feed", "manifest", "held"}
    BY <1>0, <1>4, EndFacts DEF Begin, TaskCover, IsTask
  <2>2. ASSUME NEW d, d.apply.row = task.row, d.check = check PROVE TaskCover(At("begun"), d)
    <3>1. PartOf(At("begun"), d)
      BY <1>2, <2>1, <2>2 DEF PartOf, OnRow, AtHead, check
    <3>2. QED
      BY <1>2, <2>1, <2>2, <3>1 DEF TaskCover, Cycling, Stages, Applying, Resolving, Uploading
  <2>3. CASE a = NoApply
    <3> DEFINE d == BeginApply(mem, task.row, feed[task.row].text)
    <3>1. Save(d, At("begun"))
      BY <1>4, <2>3 DEF Begin
    <3>2. DocCover(d) /\ d.apply.row = task.row /\ d.check = check
      BY <2>1, <2>3, ApplyCover
    <3> HIDE DEF d
    <3>3. QED
      BY <1>0, <2>2, <3>1, <3>2, CoverForms
  <2>4. CASE a # NoApply
    <3>1. UNCHANGED journal /\ (task' = Idle \/ (task' = At("begun") /\ a.row = task.row))
      BY <1>4, <2>4 DEF Begin
    <3>2. TaskCover(task', mem)
      BY <2>2, <3>1, TaskCovers DEF a, check
    <3>3. QED
      BY <1>0, <3>1, <3>2, CoverQuiet
  <2>5. QED
    BY <2>3, <2>4
<1>5. CASE Resume
  <2>1. UNCHANGED journal /\ task.for = "feed"
    BY <1>0, <1>5 DEF Resume, TaskCover, Cycling, Stages
  <2>2. CASE task' = At("manifest")
    BY <1>0, <2>1, <2>2, CoverForms, TaskCovers
    DEF Tracked, Cycling, Stages, Applying, Resolving, Uploading
  <2>3. CASE task' # At("manifest")
    <3>1. PICK pc \in {"read_page", "begun"} : task' = [At(pc) EXCEPT !.row = a.row]
      BY <1>5, <2>3 DEF Resume
    <3>2. task'.pc = pc /\ task'.for = "feed" /\ task'.row = a.row
      <4>1. PICK t : t = At(pc)
        OBVIOUS
      <4>2. t.pc = pc /\ t.for = "feed" /\ DOMAIN t = DOMAIN task
        BY <1>2, <2>1, <4>1
      <4>3. task' = [t EXCEPT !.row = a.row]
        BY <3>1, <4>1
      <4>4. QED
        BY <1>1, <4>2, <4>3 DEF IsRecord
    <3>3. TaskCover(task', mem)
      BY <3>2 DEF TaskCover, PartOf, a, Cycling, Stages, Applying, Resolving, Uploading
    <3>4. QED
      BY <1>0, <2>1, <3>3, CoverQuiet
  <2>4. QED
    BY <2>2, <2>3
<1>6. CASE Begun
  <2>1. task.pc = "begun" /\ task.pc \in Applying /\ a.step \in {"prepared", "named", "copied"}
    BY <1>6 DEF Begun, JournalInv, TaskInv, DocOK, SideOK, IsApply, a, Applying
  <2>2. CASE a.step = "prepared" /\ Obsolete(mem, a.rev)
    <3> DEFINE d == EndApply(mem)
    <3>1. Save(d, RowDone)
      BY <1>6, <2>2 DEF Begun
    <3>2. DocCover(d) /\ a.row <= d.base.rev /\ d.check = check
      BY <2>2, ApplyCover DEF Obsolete
    <3> HIDE DEF d
    <3>3. TaskCover(RowDone, d)
      BY <2>1, <3>2, TaskCovers
    <3>4. QED
      BY <1>0, <3>1, <3>2, <3>3, CoverForms
  <2>3. CASE ~(a.step = "prepared" /\ Obsolete(mem, a.rev))
    <3>1. /\ UNCHANGED journal
          /\ \/ task' \in {At("copy"), At("finish")}
             \/ task' = At("decide") /\ a.rev > mem.base.rev
      <4>1. CASE a.step = "prepared"
        <5>1. a.rev > mem.base.rev
          BY <2>3, <4>1, MemFacts DEF Obsolete, IsBase, TrueRow
        <5>2. QED
          BY <1>6, <2>3, <4>1, <5>1 DEF Begun, Goto
      <4>2. CASE a.step = "named"
        BY <1>6, <2>3, <4>2 DEF Begun, Goto
      <4>3. CASE a.step = "copied"
        BY <1>6, <2>3, <4>3 DEF Begun, Goto
      <4>4. QED
        BY <2>1, <4>1, <4>2, <4>3
    <3>2. TaskCover(task', mem)
      <4>1. CASE task' \in {At("copy"), At("finish")}
        BY <2>1, <4>1, TaskCovers DEF Applying, a, check
      <4>2. CASE task' = At("decide") /\ a.rev > mem.base.rev
        <5>1. task'.pc = "decide" /\ task'.for = task.for /\ task'.row = task.row /\ task'.head = task.head
          BY <1>2, <4>2
        <5>2. QED
          BY <1>0, <2>1, <4>2, <5>1
          DEF TaskCover, PartOf, OnRow, AtHead, a, Cycling, Stages, Applying, Resolving, Uploading
      <4>3. QED
        BY <3>1, <4>1, <4>2
    <3>3. QED
      BY <1>0, <3>1, <3>2, CoverQuiet
  <2>4. QED
    BY <2>2, <2>3
<1>7. QED
  BY <1>3, <1>4, <1>5, <1>6

\* The other steps of an apply.
LEMMA ApplyCovers ==
  ASSUME JournalInv, CoverInv, ApplyStep
  PROVE  CoverInv'
<1>1. CASE Rebase \/ Begin \/ Resume \/ Begun
  BY <1>1, BeginCovers
<1>2. CASE Decide \/ RefusedWrite \/ StartConflict \/ Complete \/ MarkCopy \/ CopyAttended
           \/ Finish \/ AttendRefused
  <2>0. UNCHANGED feed
    BY <1>2 DEF Decide, RefusedWrite, StartConflict, Complete, MarkCopy, CopyAttended, Finish,
                AttendRefused, NoEffect, ApplyFrame, remote
  <2>1. task.pc \in Applying /\ TaskCover(task, mem)
    BY <1>2 DEF Decide, RefusedWrite, StartConflict, Complete, MarkCopy, CopyAttended, Finish,
                AttendRefused, CoverInv, Applying
  <2>2. /\ \A pc \in Applying \ {"decide"} : \A text :
             TaskCover(At(pc), mem) /\ TaskCover(Saw(pc, text), mem)
        /\ TaskCover(Idle, mem)
        /\ mem.apply.row = a.row /\ mem.check = check
    BY <2>1, TaskCovers DEF a, check
  <2>3. TaskCover(RowDone, mem)
    <3>1. a.row <= mem.apply.row
      BY MemFacts DEF a
    <3>2. QED
      BY <2>1, <3>1, TaskCovers DEF check
  <2>4. /\ \A text : SameSide(Expect(mem, text), mem) /\ SameSide(NameCopy(mem, text), mem)
        /\ SameSide(MarkCopied(mem), mem)
    BY SideFacts DEF JournalInv, DocOK, SideOK, IsApply
  <2>5. ASSUME Save(CompleteApply(mem), RowDone), a.rev > mem.base.rev PROVE CoverInv'
    <3> DEFINE d == CompleteApply(mem)
    <3>1. DocCover(d) /\ a.row <= d.base.rev /\ d.check = check /\ Save(d, RowDone)
      BY <2>5, ApplyCover
    <3> HIDE DEF d
    <3>2. TaskCover(RowDone, d)
      BY <2>1, <3>1, TaskCovers
    <3>3. QED
      BY <2>0, <3>1, <3>2, CoverForms
  <2>6. ASSUME NEW next, TaskCover(next, mem)
        PROVE  /\ \A text : Save(Expect(mem, text), next) => CoverInv'
               /\ \A text : Save(NameCopy(mem, text), next) => CoverInv'
               /\ Save(MarkCopied(mem), next) => CoverInv'
               /\ NoteAttention(next) => CoverInv'
               /\ ClearExpected(next) => CoverInv'
               /\ UNCHANGED journal /\ task' = next => CoverInv'
    BY <2>0, <2>4, <2>6, CoverForms
  <2>7. CASE Decide
    <3>1. a.rev > mem.base.rev
      BY <2>1, <2>7 DEF Decide, TaskCover, a
    <3>2. CASE local = a.text
      BY <2>5, <2>7, <3>1, <3>2 DEF Decide
    <3>3. CASE local # a.text /\ local = Absent
      <4>1. Save(Expect(mem, a.text), Saw("write", Absent))
        BY <2>7, <3>3 DEF Decide
      <4>2. QED
        BY <2>2, <2>6, <4>1 DEF Applying
    <3>4. CASE local # a.text /\ local # Absent /\ Clean(local)
      <4>1. \/ task' = Saw("trash", local) /\ UNCHANGED journal
            \/ Save(Expect(mem, a.text), Saw("write", local))
        BY <2>7, <3>4 DEF Decide
      <4>2. QED
        BY <2>2, <2>6, <4>1 DEF Applying
    <3>5. CASE local # a.text /\ local # Absent /\ ~Clean(local)
      <4>1. Save(NameCopy(mem, local), At("copy"))
        BY <2>7, <3>5 DEF Decide
      <4>2. QED
        BY <2>2, <2>6, <4>1 DEF Applying
    <3>6. QED
      BY <3>2, <3>3, <3>4, <3>5
  <2>8. CASE RefusedWrite
    <3>1. ClearExpected(Idle) \/ ClearExpected(Saw("conflict", local))
      BY <2>8 DEF RefusedWrite
    <3>2. QED
      BY <2>2, <2>6, <3>1 DEF Applying
  <2>9. CASE StartConflict \/ MarkCopy
    <3>1. Save(NameCopy(mem, task.seen), At("copy")) \/ Save(MarkCopied(mem), At("finish"))
      BY <2>9 DEF StartConflict, MarkCopy
    <3>2. QED
      BY <2>2, <2>6, <3>1 DEF Applying
  <2>10. CASE Complete
    <3>1. CASE Obsolete(mem, a.rev)
      BY <2>2, <2>6, <2>10, <3>1 DEF Complete
    <3>2. CASE ~Obsolete(mem, a.rev)
      <4>1. a.rev > mem.base.rev
        BY <3>2, MemFacts DEF Obsolete, IsBase, TrueRow
      <4>2. QED
        BY <2>5, <2>10, <3>2, <4>1 DEF Complete
    <3>3. QED
      BY <3>1, <3>2
  <2>11. CASE CopyAttended \/ AttendRefused
    <3>1. NoteAttention(RowDone) \/ ClearExpected(At("attend"))
      BY <2>11 DEF CopyAttended, AttendRefused, Attended
    <3>2. QED
      BY <2>2, <2>3, <2>6, <3>1 DEF Applying
  <2>12. CASE Finish
    <3>1. \/ NoteAttention(RowDone)
          \/ Save(Expect(mem, a.text), Saw("write", local))
          \/ UNCHANGED journal /\ task' \in {Saw("complete", local), Saw("trash", local)}
      BY <2>12 DEF Finish, Attended
    <3>2. QED
      BY <2>2, <2>3, <2>6, <3>1 DEF Applying
  <2>13. QED
    BY <1>2, <2>7, <2>8, <2>9, <2>10, <2>11, <2>12
<1>3. CASE Write \/ ReadBack \/ Trash \/ MoveToTrash \/ Trashed \/ CreateCopy
  <2>1. UNCHANGED <<journal, feed>> /\ task.pc \in Applying
    BY <1>3
    DEF Write, ReadBack, Trash, MoveToTrash, Trashed, CreateCopy, NoEffect, ApplyFrame, remote,
        journal, Applying
  <2>2. task' = Idle \/ \E pc \in Applying \ {"decide"} : task' = At(pc)
    <3>1. CASE Write \/ ReadBack
      BY <3>1 DEF Write, ReadBack, Goto, Applying
    <3>2. CASE Trash \/ MoveToTrash \/ Trashed \/ CreateCopy
      BY <3>2 DEF Trash, MoveToTrash, Trashed, CreateCopy, Goto, Applying
    <3>3. QED
      BY <1>3, <3>1, <3>2
  <2>3. TaskCover(task', mem)
    BY <2>1, <2>2, TaskCovers DEF a, check
  <2>4. QED
    BY <2>1, <2>3, CoverQuiet
<1>4. QED
  BY <1>1, <1>2, <1>3 DEF ApplyStep

\* A base that takes the place of an older one.
LEMMA BaseCover ==
  ASSUME JournalInv, CoverInv, NEW base, base.rev \in Int, mem.base.rev <= base.rev, 0 < base.rev
  PROVE  DocCover(SetBase(mem, base)) /\ SetBase(mem, base).check = check
         /\ SetBase(mem, base).base = base
<1> DEFINE d == SetBase(mem, base)
<1>1. d.base = base /\ d.apply = mem.apply /\ d.cursor = mem.cursor /\ d.check = mem.check
  BY MemFacts DEF SetBase, IsDocument, IsRecord
<1>2. a.row \in Int /\ mem.base.rev \in Int /\ mem.cursor \in Int /\ check.head \in Int
  BY MemFacts DEF IsBase, TrueRow, IsCheck
<1> HIDE DEF d
<1>3. \A n \in Int : Covered(mem, n) => Covered(d, n)
  BY <1>1, <1>2 DEF Covered, a
<1>4. DocCover(d)
  BY <1>1, <1>2, <1>3 DEF DocCover, CoverInv, check
<1>5. QED
  BY <1>1, <1>4 DEF d, check

\* Publication.
LEMMA PublicationCovers ==
  ASSUME JournalInv, CoverInv, PublicationStep
  PROVE  CoverInv'
<1>0. UNCHANGED feed
  BY DEF PublicationStep, Scan, Restore, Restored, StartFlush, Take, Skip, EndFlush, Refresh,
         Requeue, PrepareSend, Dispatch, DeferSend, Confirm, Settle, Recover, Reject,
         SameJournal, PublicationFrame, remote
<1>1. task.pc \in Cycling /\ task.pc # "idle"
  BY DEF PublicationStep, Scan, Restore, Restored, StartFlush, Take, Skip, EndFlush, Refresh,
         Requeue, PrepareSend, Dispatch, DeferSend, Confirm, Settle, Recover, Reject, Picking,
         Cycling, Stages
<1>2. \A d : /\ TaskCover(Idle, d) /\ TaskCover(Finished(task), d) /\ TaskCover(FlushEnd, d)
             /\ TaskCover(NextOp, d) /\ TaskCover(task, d)
             /\ \A pc \in Cycling : \A text : TaskCover(At(pc), d) /\ TaskCover(Saw(pc, text), d)
  BY <1>1, TaskCovers
<1>3. /\ \A text : SameSide(Expect(mem, text), mem)
      /\ \A o : SameSide(Enqueue(mem, o), mem)
      /\ \A k : /\ SameSide(Prepare(mem, k), mem) /\ SameSide(Defer(mem, k), mem)
                /\ SameSide(DiscardQueued(mem, k), mem) /\ SameSide(RecordQueuedRejected(mem, k), mem)
                /\ SameSide(RecordRejected(mem, k), mem)
      /\ \A k, receipt : SameSide(Resolve(mem, k, receipt), mem)
  BY SideFacts DEF JournalInv, DocOK, SideOK, IsApply
<1>4. ASSUME NEW next, TaskCover(next, mem)
      PROVE  /\ \A d : SameSide(d, mem) /\ Save(d, next) => CoverInv'
             /\ NoteAttention(next) \/ ClearExpected(next) => CoverInv'
             /\ UNCHANGED journal /\ task' = next => CoverInv'
  BY <1>0, <1>4, CoverForms
<1>5. ASSUME UNCHANGED journal, task'.pc \in Cycling, task'.for = "feed" PROVE CoverInv'
  <2>1. TaskCover(task', mem)
    BY <1>5 DEF TaskCover, Cycling, Stages, Applying, Resolving, Uploading
  <2>2. QED
    BY <1>0, <1>5, <2>1, CoverQuiet
<1>6. /\ IsRecord(task, {"pc", "rest", "row", "head", "seen", "key", "keys", "spare", "for"})
      /\ task.for = "feed"
  BY <1>1, EndFacts DEF IsTask, CoverInv, TaskCover
<1>7. \A pc, t : t = At(pc) => t.pc = pc /\ t.for = "feed" /\ DOMAIN t = DOMAIN task
  BY <1>6 DEF At, IsRecord
<1>8. CASE Scan
  <2>1. \/ Save(Enqueue(mem, NewPut(mem, local)), Finished(task))
        \/ UNCHANGED journal /\ task' = Finished(task)
        \/ Save(Expect(mem, mem.base.text), At("restore"))
    BY <1>8 DEF Scan, ScanMissing
  <2>2. QED
    BY <1>2, <1>3, <1>4, <2>1 DEF Cycling
<1>9. CASE Restore
  <2>1. UNCHANGED journal /\ task' \in {At("restored"), At("kept")}
    BY <1>9 DEF Restore, Goto
  <2>2. QED
    BY <1>2, <1>4, <2>1 DEF Cycling
<1>10. CASE Restored
  <2>1. ClearExpected(Finished(task)) \/ ClearExpected(Idle)
    BY <1>10 DEF Restored
  <2>2. QED
    BY <1>2, <1>4, <2>1
<1>11. CASE StartFlush
  <2>1. PICK t : t = At("pick")
    OBVIOUS
  <2>2. UNCHANGED journal /\ task' = [t EXCEPT !.keys = [i \in DOMAIN mem.ops |-> KeyAt(i)]]
    BY <1>11, <2>1 DEF StartFlush
  <2>3. task'.pc = "pick" /\ task'.for = "feed"
    BY <1>6, <1>7, <2>1, <2>2 DEF IsRecord
  <2>4. QED
    BY <1>5, <2>2, <2>3 DEF Cycling
<1>12. CASE Take
  <2> DEFINE pc == IF OpOf(mem, Head(task.keys)).state = "sent" THEN "prepare" ELSE "refresh"
  <2>1. PICK t : t = At(pc)
    OBVIOUS
  <2>2. UNCHANGED journal /\ task' = [At(pc) EXCEPT !.keys = Tail(@), !.key = Head(task.keys)]
    BY <1>12 DEF Take, SameJournal
  <2>3. pc \in {"prepare", "refresh"}
    OBVIOUS
  <2> HIDE DEF pc
  <2>4. task' = [t EXCEPT !.keys = Tail(@), !.key = Head(task.keys)]
    BY <2>1, <2>2
  <2>5. task'.pc = pc /\ task'.for = "feed"
    BY <1>6, <1>7, <2>1, <2>4 DEF IsRecord
  <2>6. QED
    BY <1>5, <2>2, <2>3, <2>5 DEF Cycling
<1>13. CASE Skip
  <2>1. UNCHANGED journal /\ task' = [task EXCEPT !.keys = Tail(@)]
    BY <1>13 DEF Skip, SameJournal
  <2>2. task'.pc = task.pc /\ task'.for = "feed"
    BY <1>6, <2>1 DEF IsRecord
  <2>3. QED
    BY <1>1, <1>5, <2>1, <2>2
<1>14. CASE EndFlush
  BY <1>2, <1>4, <1>14 DEF EndFlush, SameJournal
<1>15. CASE Refresh
  <2>0. op.op \in {"put", "delete"}
    BY <1>15, AtOperation DEF Refresh, JournalInv, TaskInv, Sending, IsOp
  <2>1. \/ Save(RecordQueuedRejected(mem, op.key), FlushEnd)
        \/ Save(DiscardQueued(mem, op.key), NextOp)
        \/ task' = At("prepare") /\ UNCHANGED journal
        \/ Save(RecordQueuedRejected(mem, op.key), Saw("requeue", local))
    <3>1. CASE op.op = "delete"
      BY <1>15, <3>1 DEF Refresh, Goto
    <3>2. CASE op.op = "put" /\ local = Absent
      BY <1>15, <3>2 DEF Refresh
    <3>3. CASE op.op = "put" /\ local # Absent /\ InSync
      BY <1>15, <3>3 DEF Refresh
    <3>4. CASE op.op = "put" /\ local # Absent /\ ~InSync /\ local = op.text
      BY <1>15, <3>4 DEF Refresh, Goto
    <3>5. CASE op.op = "put" /\ local # Absent /\ ~InSync /\ local # op.text
      BY <1>15, <3>5 DEF Refresh
    <3>6. QED
      BY <2>0, <3>1, <3>2, <3>3, <3>4, <3>5
  <2>2. QED
    BY <1>2, <1>3, <1>4, <2>1 DEF Cycling
<1>16. CASE Requeue
  BY <1>2, <1>3, <1>4, <1>16 DEF Requeue
<1>17. CASE PrepareSend
  <2>1. \/ task' \in {Idle, At("dispatch")} /\ UNCHANGED journal
        \/ Save(Prepare(mem, task.key), At("dispatch"))
    BY <1>17 DEF PrepareSend, Goto
  <2>2. QED
    BY <1>2, <1>3, <1>4, <2>1 DEF Cycling
<1>18. CASE Dispatch
  <2>1. task' = At("await") /\ UNCHANGED journal
    BY <1>18 DEF Dispatch, Goto
  <2>2. QED
    BY <1>2, <1>4, <2>1 DEF Cycling
<1>19. CASE DeferSend
  BY <1>2, <1>3, <1>4, <1>19 DEF DeferSend
<1>20. CASE Confirm
  <2>1. CASE mem.base.rev > reply
    <3>1. task' = At("settle") /\ UNCHANGED journal
      BY <1>20, <2>1 DEF Confirm, Goto
    <3>2. QED
      BY <1>2, <1>4, <3>1 DEF Cycling
  <2>2. CASE ~(mem.base.rev > reply)
    <3> DEFINE d == SetBase(mem, ReceiptBase)
    <3>1. SaveOr(d, At("settle"), At("defer"))
      BY <1>20, <2>2 DEF Confirm, SetBase
    <3>2. ReceiptBase.rev \in Int /\ mem.base.rev <= ReceiptBase.rev /\ 0 < ReceiptBase.rev
      BY <1>20, <2>2, MemFacts DEF Confirm, ReceiptBase, IsBase, TrueRow, Head_
    <3>3. DocCover(d)
      BY <3>2, BaseCover
    <3> HIDE DEF d
    <3>4. TaskCover(At("settle"), d) /\ TaskCover(At("defer"), mem)
      BY <1>2 DEF Cycling
    <3>5. QED
      BY <1>0, <3>1, <3>3, <3>4, CoverSave
  <2>3. QED
    BY <2>1, <2>2
<1>21. CASE Settle
  <2> DEFINE d == Resolve(mem, task.key, ReceiptBase)
  <2>1. SaveOr(d, NextOp, At("defer")) /\ SameSide(d, mem)
    BY <1>3, <1>21 DEF Settle
  <2> HIDE DEF d
  <2>2. DocCover(d) /\ TaskCover(NextOp, d) /\ TaskCover(At("defer"), mem)
    BY <1>2, <2>1, SameCover DEF CoverInv, Cycling
  <2>3. QED
    BY <1>0, <2>1, <2>2, CoverSave
<1>22. CASE Recover
  <2>1. PICK t : t = At("replay")
    OBVIOUS
  <2>2. UNCHANGED journal
        /\ task' = [At("replay") EXCEPT !.rest = <<"replay", "reject">> \o @, !.spare = task.key]
    BY <1>22 DEF Recover
  <2>3. task' = [t EXCEPT !.rest = <<"replay", "reject">> \o @, !.spare = task.key]
    BY <2>1, <2>2
  <2>4. task'.pc = "replay" /\ task'.for = "feed"
    BY <1>6, <1>7, <2>1, <2>3 DEF IsRecord
  <2>5. QED
    BY <1>5, <2>2, <2>4 DEF Cycling, Stages
<1>23. CASE Reject
  <2>1. CASE task.key \notin Keys(mem)
    BY <1>2, <1>4, <1>23, <2>1 DEF Reject
  <2>2. CASE task.key \in Keys(mem)
    <3> DEFINE next == [NextOp EXCEPT !.rest = IF Head(@) = "reject" THEN Tail(@) ELSE @]
    <3>1. Save(RecordRejected(mem, task.key), next)
      BY <1>23, <2>2 DEF Reject
    <3>2. next.pc = "pick" /\ next.for = "feed"
      <4>1. PICK t : t = NextOp
        OBVIOUS
      <4>2. t.pc = "pick" /\ t.for = "feed" /\ DOMAIN t = DOMAIN task
        BY <1>6, <4>1 DEF NextOp, At, IsRecord
      <4>3. next = [t EXCEPT !.rest = IF Head(@) = "reject" THEN Tail(@) ELSE @]
        BY <4>1
      <4> HIDE DEF next
      <4>4. QED
        BY <1>6, <4>2, <4>3 DEF IsRecord
    <3> HIDE DEF next
    <3>3. TaskCover(next, mem)
      BY <3>2 DEF TaskCover, Cycling, Stages, Applying, Resolving, Uploading
    <3>4. QED
      BY <1>3, <1>4, <3>1, <3>3
  <2>3. QED
    BY <2>1, <2>2
<1>24. QED
  BY <1>8, <1>9, <1>10, <1>11, <1>12, <1>13, <1>14, <1>15, <1>16, <1>17, <1>18, <1>19, <1>20,
     <1>21, <1>22, <1>23 DEF PublicationStep

\* What makes a task at each kind of stage agree with a document.
LEMMA StageCovers ==
  ASSUME NEW t, NEW d, t.for \in {"feed", "manifest", "held"}
  PROVE  /\ t.pc \notin Tracked => TaskCover(t, d)
         /\ t.pc \in Cycling /\ t.for = "feed" => TaskCover(t, d)
         /\ t.pc = "begin" /\ t.for # "held" /\ PartOf(t, d) => TaskCover(t, d)
         /\ t.pc \in {"hold", "entry"} /\ AtHead(t, d) => TaskCover(t, d)
         /\ t.pc \in Resolving /\ OnRow(t, d) /\ (t.head <= d.base.rev \/ t.head <= d.apply.row) =>
              TaskCover(t, d)
         /\ t.pc \in Uploading /\ d.check.stage = "local" => TaskCover(t, d)
<1>1. t.pc \notin Tracked => TaskCover(t, d)
  <2>1. t.pc \notin Tracked =>
          /\ t.pc \notin Applying \cup Cycling \cup Resolving \cup Uploading
          /\ t.pc \notin {"begin", "decide", "row_done", "hold", "entry"}
    BY DEF Tracked, Applying
  <2>2. QED
    BY <2>1 DEF TaskCover
<1>2. t.pc \in Cycling /\ t.for = "feed" => TaskCover(t, d)
  BY DEF TaskCover, Cycling, Stages, Applying, Resolving, Uploading
<1>3. t.pc = "begin" /\ t.for # "held" /\ PartOf(t, d) => TaskCover(t, d)
  BY DEF TaskCover, Cycling, Stages, Applying, Resolving, Uploading
<1>4. t.pc \in {"hold", "entry"} /\ AtHead(t, d) => TaskCover(t, d)
  BY DEF TaskCover, Cycling, Stages, Applying, Resolving, Uploading
<1>5. t.pc \in Resolving /\ OnRow(t, d) /\ (t.head <= d.base.rev \/ t.head <= d.apply.row) =>
        TaskCover(t, d)
  BY DEF TaskCover, Cycling, Stages, Applying, Resolving, Uploading
<1>6. t.pc \in Uploading /\ d.check.stage = "local" => TaskCover(t, d)
  BY DEF TaskCover, Cycling, Stages, Applying, Resolving, Uploading
<1>7. QED
  BY <1>1, <1>2, <1>3, <1>4, <1>5, <1>6

\* A cursor that takes the place of another one, and a checkpoint.
LEMMA CursorCover ==
  ASSUME JournalInv, CoverInv
  PROVE  /\ \A n : Covered(mem, n) => DocCover(SetCursor(mem, n))
         /\ \A c : (c.stage \in {"local", "cursor"} => Covered(mem, c.head)) =>
              LET d == SetCheckpoint(mem, c)
              IN DocCover(d) /\ d.check = c /\ d.base = mem.base /\ d.apply = mem.apply
<1>1. IsDocument(mem) /\ DocCover(mem)
  BY MemFacts DEF CoverInv
<1>2. ASSUME NEW n, Covered(mem, n) PROVE DocCover(SetCursor(mem, n))
  <2> DEFINE d == SetCursor(mem, n)
  <2>1. d.base = mem.base /\ d.apply = mem.apply /\ d.cursor = n /\ d.check = mem.check
    BY <1>1 DEF SetCursor, IsDocument, IsRecord
  <2> HIDE DEF d
  <2>2. DocCover(d)
    BY <1>1, <1>2, <2>1 DEF DocCover, Covered
  <2>3. QED
    BY <2>2 DEF d
<1>3. ASSUME NEW c, c.stage \in {"local", "cursor"} => Covered(mem, c.head)
      PROVE  LET d == SetCheckpoint(mem, c)
             IN DocCover(d) /\ d.check = c /\ d.base = mem.base /\ d.apply = mem.apply
  <2> DEFINE d == SetCheckpoint(mem, c)
  <2>1. d.base = mem.base /\ d.apply = mem.apply /\ d.cursor = mem.cursor /\ d.check = c
    BY <1>1 DEF SetCheckpoint, IsDocument, IsRecord
  <2> HIDE DEF d
  <2>2. DocCover(d)
    BY <1>1, <1>3, <2>1 DEF DocCover, Covered
  <2>3. QED
    BY <2>1, <2>2 DEF d
<1>4. QED
  BY <1>2, <1>3

\* The parts of the task that a later stage keeps.
LEMMA TaskParts ==
  ASSUME JournalInv, CoverInv
  PROVE  /\ TaskCover(task, mem) /\ task.for \in {"feed", "manifest", "held"}
         /\ IsRecord(task, {"pc", "rest", "row", "head", "seen", "key", "keys", "spare", "for"})
         /\ task.row \in Int /\ task.head \in Int /\ 0 <= task.head
         /\ \A pc : /\ At(pc).pc = pc /\ At(pc).for = task.for /\ At(pc).row = task.row
                    /\ At(pc).head = task.head
         /\ \A pc, t : t = At(pc) => DOMAIN t = DOMAIN task
<1>1. IsTask(task, feed)
  BY EndFacts
<1>2. QED
  BY <1>1 DEF CoverInv, TaskCover, At, IsTask, IsRecord

\* The replay of the feed.
LEMMA ReplayCovers ==
  ASSUME JournalInv, CoverInv, ReplayStep \/ StartCycle
  PROVE  CoverInv'
<1>0. UNCHANGED feed
  BY DEF ReplayStep, ReadPage, NextRow, EndRow, StartCycle, ReplayFrame, remote
<1>1. CASE ReadPage
  <2>1. UNCHANGED journal /\ task.pc \in Cycling /\ task.for = "feed" /\ task.pc # "idle"
    BY <1>1, TaskParts DEF ReadPage, Quietly, TaskCover, Cycling
  <2>2. CASE task' \in {Finished(task), At("manifest")}
    BY <1>0, <2>1, <2>2, CoverForms, TaskCovers
    DEF Tracked, Cycling, Stages, Applying, Resolving, Uploading
  <2>3. CASE task' \notin {Finished(task), At("manifest")}
    <3>1. PICK t : t = At("next_row")
      OBVIOUS
    <3>2. task' = [t EXCEPT !.head = Head_]
      BY <1>1, <2>3, <3>1 DEF ReadPage
    <3>3. task'.pc = "next_row" /\ task'.for = "feed"
      BY <2>1, <3>1, <3>2, TaskParts DEF IsRecord
    <3>4. TaskCover(task', mem)
      BY <3>3, StageCovers DEF Cycling
    <3>5. QED
      BY <1>0, <2>1, <3>4, CoverQuiet
  <2>4. QED
    BY <2>2, <2>3
<1>2. CASE NextRow
  <2> DEFINE row == mem.cursor + 1
  <2>1. task.pc \in Cycling /\ task.for = "feed" /\ task.pc # "idle"
    BY <1>2, TaskParts DEF NextRow, TaskCover, Cycling
  <2>2. \/ UNCHANGED journal /\ task' = Finished(task)
        \/ Skipped(row) /\ Save(SetCursor(mem, row), task)
        \/ UNCHANGED journal /\ task' = [At("begin") EXCEPT !.row = row]
    BY <1>2 DEF NextRow, Quietly
  <2>3. Skipped(row) => Covered(mem, row)
    <3>1. row \in Int /\ mem.base.rev \in Int /\ 0 <= mem.base.rev
      BY MemFacts DEF IsBase, TrueRow, CoverInv, DocCover
    <3> HIDE DEF row
    <3>2. QED
      BY <3>1 DEF Skipped, Obsolete, Covered
  <2>4. CASE UNCHANGED journal /\ task' = Finished(task)
    BY <1>0, <2>1, <2>4, CoverForms, TaskCovers
  <2>5. CASE Skipped(row) /\ Save(SetCursor(mem, row), task)
    <3>1. DocCover(SetCursor(mem, row))
      BY <2>3, <2>5, CursorCover
    <3>2. TaskCover(task, SetCursor(mem, row))
      BY <2>1, TaskCovers
    <3>3. QED
      BY <1>0, <2>5, <3>1, <3>2, CoverForms
  <2>6. CASE UNCHANGED journal /\ task' = [At("begin") EXCEPT !.row = row]
    <3> HIDE DEF row
    <3>1. PICK t : t = At("begin")
      OBVIOUS
    <3>2. task' = [t EXCEPT !.row = row]
      BY <2>6, <3>1
    <3>3. task'.pc = "begin" /\ task'.for = "feed"
      BY <2>1, <3>1, <3>2, TaskParts DEF IsRecord
    <3>4. TaskCover(task', mem)
      BY <3>3, StageCovers DEF PartOf
    <3>5. QED
      BY <1>0, <2>6, <3>4, CoverQuiet
  <2>7. QED
    BY <2>2, <2>4, <2>5, <2>6
<1>3. CASE EndRow
  <2>1. /\ task.pc = "row_done"
        /\ task.row <= mem.base.rev \/ task.row <= mem.apply.row
        /\ PartOf(task, mem)
    BY <1>3, TaskParts DEF EndRow, TaskCover
  <2>2. CASE task.for = "held"
    <3>1. task' = At("entry") /\ UNCHANGED journal
      BY <1>3, <2>2 DEF EndRow, Goto, Quietly
    <3>2. TaskCover(At("entry"), mem)
      BY <2>1, <2>2, TaskParts, StageCovers DEF PartOf, AtHead
    <3>3. QED
      BY <1>0, <3>1, <3>2, CoverForms
  <2>3. CASE task.for = "manifest"
    <3>1. task' = At("applied") /\ UNCHANGED journal
      BY <1>3, <2>3 DEF EndRow, Goto, Quietly
    <3>2. TaskCover(At("applied"), mem)
      BY <2>1, <2>3, TaskParts, StageCovers DEF PartOf, OnRow, Resolving
    <3>3. QED
      BY <1>0, <3>1, <3>2, CoverForms
  <2>4. CASE task.for = "feed"
    <3>1. /\ TaskCover(At("read_page"), mem)
          /\ \A d : TaskCover(At("next_row"), d)
      BY <2>4, TaskParts, StageCovers DEF Cycling
    <3>2. DocCover(SetCursor(mem, task.row))
      BY <2>1, CursorCover DEF Covered
    <3>3. \/ task' = At("read_page") /\ UNCHANGED journal
          \/ Save(SetCursor(mem, task.row), At("next_row"))
      BY <1>3, <2>4 DEF EndRow, Goto, Quietly
    <3>4. QED
      BY <1>0, <3>1, <3>2, <3>3, CoverForms
  <2>5. QED
    BY <2>2, <2>3, <2>4, TaskParts
<1>4. CASE StartCycle
  <2>1. UNCHANGED journal /\ task'.pc = "resume" /\ task'.for = "feed"
    BY <1>4 DEF StartCycle, Quietly, Idle
  <2>2. TaskCover(task', mem)
    BY <2>1, StageCovers DEF Cycling, Stages
  <2>3. QED
    BY <1>0, <2>1, <2>2, CoverQuiet
<1>5. QED
  BY <1>1, <1>2, <1>3, <1>4 DEF ReplayStep

\* The ways in which the enrollment goes on.
LEMMA EnrollForms ==
  ASSUME JournalInv, CoverInv, UNCHANGED feed, NEW next
  PROVE  /\ \A c : /\ c.stage \in {"local", "cursor"} => Covered(mem, c.head)
                   /\ \A d : d.check = c /\ d.base = mem.base /\ d.apply = mem.apply => TaskCover(next, d)
                   /\ Checked(c, next)
                   => CoverInv'
         /\ \A base : /\ base.rev \in Int /\ 0 < base.rev /\ MaySetBase(mem, base)
                      /\ \A d : d.check = check /\ d.base = base => TaskCover(next, d)
                      /\ Save(SetBase(mem, base), next)
                      => CoverInv'
         /\ \A d : SameSide(d, mem) /\ TaskCover(next, mem) /\ Save(d, next) => CoverInv'
         /\ TaskCover(next, mem) /\ Unsaved /\ task' = next => CoverInv'
<1>1. ASSUME NEW c, c.stage \in {"local", "cursor"} => Covered(mem, c.head),
             \A d : d.check = c /\ d.base = mem.base /\ d.apply = mem.apply => TaskCover(next, d),
             Checked(c, next)
      PROVE  CoverInv'
  <2> DEFINE d == SetCheckpoint(mem, c)
  <2>1. DocCover(d) /\ d.check = c /\ d.base = mem.base /\ d.apply = mem.apply /\ Save(d, next)
    BY <1>1, CursorCover DEF Checked
  <2> HIDE DEF d
  <2>2. TaskCover(next, d)
    BY <1>1, <2>1
  <2>3. QED
    BY <2>1, <2>2, CoverForms
<1>2. ASSUME NEW base, base.rev \in Int, 0 < base.rev, MaySetBase(mem, base),
             \A d : d.check = check /\ d.base = base => TaskCover(next, d),
             Save(SetBase(mem, base), next)
      PROVE  CoverInv'
  <2> DEFINE d == SetBase(mem, base)
  <2>0. mem.base.rev <= base.rev
    BY <1>2, MemFacts DEF MaySetBase, IsBase, TrueRow
  <2>1. DocCover(d) /\ d.check = check /\ d.base = base /\ Save(d, next)
    BY <1>2, <2>0, BaseCover
  <2> HIDE DEF d
  <2>2. TaskCover(next, d)
    BY <1>2, <2>1
  <2>3. QED
    BY <2>1, <2>2, CoverForms
<1>3. QED
  BY <1>1, <1>2, CoverForms DEF Unsaved

\* The manifest and its row.
LEMMA ManifestCovers ==
  ASSUME JournalInv, CoverInv,
         \/ ReadManifest \/ Bind \/ ListFiles \/ Hold \/ TakeEntry \/ ResolveEntry \/ Acknowledge
         \/ EndEntry \/ EndPage
  PROVE  CoverInv'
<1>0. UNCHANGED feed /\ task.pc # "idle"
  BY DEF ReadManifest, Bind, ListFiles, Hold, TakeEntry, ResolveEntry, Acknowledge, EndEntry,
         EndPage, EnrollFrame, PublicationFrame, remote
<1>1. /\ IsDocument(mem) /\ DocCover(mem) /\ a.row \in Int /\ mem.base.rev \in Int
      /\ check.head \in Int /\ 0 <= mem.base.rev
      /\ IsRecord(check, {"stage", "head", "listed", "pending", "known"})
  BY MemFacts DEF IsBase, TrueRow, IsCheck, CoverInv, DocCover
<1>2. \A d : TaskCover(Idle, d) /\ TaskCover(Finished(task), d) /\ TaskCover(Restarted, d)
  BY <1>0, TaskCovers
<1>3. \A pc, d : pc \notin Tracked => TaskCover(At(pc), d)
  BY TaskCovers
<1>4. NoCheck.stage \notin {"local", "cursor"}
  BY DEF NoCheck
<1>5. CASE ReadManifest
  <2>1. ASSUME NEW pc \in {"hold", "list", "bind"}, task' = [At(pc) EXCEPT !.head = Head_], Unsaved,
               check.stage = "manifest" => check.head = Head_
        PROVE  CoverInv'
    <3>1. PICK t : t = At(pc)
      OBVIOUS
    <3>2. task' = [t EXCEPT !.head = Head_]
      BY <2>1, <3>1
    <3>3. task'.pc = pc /\ task'.for = task.for /\ task'.head = Head_
      BY <3>1, <3>2, TaskParts DEF IsRecord
    <3>4. TaskCover(task', mem)
      <4>1. AtHead(task', mem)
        BY <2>1, <3>3 DEF AtHead, check
      <4>2. pc = "hold" \/ pc \notin Tracked
        BY <2>1 DEF Tracked, Cycling, Stages, Applying, Resolving, Uploading
      <4>3. QED
        BY <3>3, <4>1, <4>2, TaskParts, StageCovers
    <3>5. QED
      BY <1>0, <2>1, <3>4, CoverQuiet DEF Unsaved
  <2>2. CASE check.stage = "manifest" /\ check.head # Head_
    BY <1>0, <1>2, <1>4, <1>5, <2>2, EnrollForms DEF ReadManifest
  <2>3. CASE ~(check.stage = "manifest" /\ check.head # Head_)
    <3>1. \/ task' = [At("hold") EXCEPT !.head = Head_]
          \/ task' = [At("list") EXCEPT !.head = Head_]
          \/ task' = [At("bind") EXCEPT !.head = Head_]
      BY <1>5, <2>3 DEF ReadManifest
    <3>2. Unsaved
      BY <1>5, <2>3 DEF ReadManifest
    <3>3. QED
      BY <2>1, <2>3, <3>1, <3>2
  <2>4. QED
    BY <2>2, <2>3
<1>6. CASE Bind
  <2> DEFINE d == BindEpoch(mem)
  <2>1. d.base = mem.base /\ d.cursor = -1 /\ d.check = NoCheck /\ d.apply = NoApply
    BY <1>1 DEF BindEpoch, IsDocument, IsRecord, NoCursor
  <2>2. Save(d, At("list")) /\ TaskCover(At("list"), d)
    BY <1>3, <1>6 DEF Bind, Tracked, Cycling, Stages, Applying, Resolving, Uploading
  <2> HIDE DEF d
  <2>3. DocCover(d)
    BY <1>1, <1>4, <2>1 DEF DocCover, Covered, NoApply
  <2>4. QED
    BY <1>0, <2>2, <2>3, CoverForms
<1>7. CASE ListFiles
  <2>1. PICK c : /\ Checked(c, At("hold"))
                 /\ c = [stage |-> "manifest", head |-> task.head, listed |-> local # Absent,
                         pending |-> HasEntry, known |-> HasEntry]
    BY <1>7 DEF ListFiles
  <2>2. c.stage = "manifest" /\ c.head = task.head
    BY <2>1
  <2>3. \A d : d.check = c => TaskCover(At("hold"), d)
    BY <2>2, TaskParts, StageCovers DEF AtHead
  <2>4. QED
    BY <1>0, <2>1, <2>2, <2>3, EnrollForms
<1>8. CASE Hold
  <2>1. AtHead(task, mem) /\ Unsaved
    BY <1>8, TaskParts DEF Hold, TaskCover
  <2>2. CASE a = NoApply
    <3>1. TaskCover(At("entry"), mem)
      BY <2>1, TaskParts, StageCovers DEF AtHead
    <3>2. QED
      BY <1>0, <1>8, <2>1, <2>2, <3>1, EnrollForms DEF Hold
  <2>3. CASE a # NoApply
    <3>1. PICK t : t = At("begun")
      OBVIOUS
    <3>2. task' = [t EXCEPT !.row = a.row, !.for = "held"]
      BY <1>8, <2>3, <3>1 DEF Hold
    <3>3. task'.pc = "begun" /\ task'.for = "held" /\ task'.head = task.head /\ task'.row = a.row
      BY <3>1, <3>2, TaskParts DEF IsRecord
    <3>4. TaskCover(task', mem)
      BY <2>1, <3>3
      DEF TaskCover, PartOf, AtHead, a, Cycling, Stages, Applying, Resolving, Uploading
    <3>5. QED
      BY <1>0, <2>1, <3>4, CoverQuiet DEF Unsaved
  <2>4. QED
    BY <2>2, <2>3
<1>9. CASE TakeEntry
  <2>1. task.pc = "entry" /\ check.stage = "manifest" /\ task.head = check.head
        /\ task.head \in Int
    BY <1>9, TaskParts DEF TakeEntry, TaskCover, AtHead, check
  <2>2. ASSUME NEW pc \in Resolving, NEW d, d.check = check, task.head <= d.base.rev
        PROVE  TaskCover(At(pc), d)
    BY <2>1, <2>2, TaskParts, StageCovers DEF OnRow
  <2>3. CASE ~HasEntry
    <3>1. task.head <= mem.base.rev
      BY <1>1, <2>1, <2>3 DEF HasEntry
    <3>2. TaskCover(At("page_done"), mem)
      BY <2>2, <3>1 DEF Resolving, check
    <3>3. QED
      BY <1>0, <1>9, <2>3, <3>2, EnrollForms DEF TakeEntry, Goto
  <2>4. CASE HasEntry /\ ~check.pending
    <3>1. PICK c : Checked(c, task) /\ c = [check EXCEPT !.pending = TRUE, !.known = TRUE]
      BY <1>9, <2>4 DEF TakeEntry
    <3>2. c.stage = "manifest" /\ c.head = check.head
      BY <1>1, <2>1, <3>1 DEF IsRecord
    <3>3. \A d : d.check = c => TaskCover(task, d)
      BY <2>1, <3>2, TaskParts, StageCovers DEF AtHead
    <3>4. QED
      BY <1>0, <3>1, <3>2, <3>3, EnrollForms
  <2>5. ASSUME NEW pc \in Resolving, HasEntry, MaySetBase(mem, Entry), Save(SetBase(mem, Entry), At(pc))
        PROVE  CoverInv'
    <3>1. Entry.rev = task.head /\ 0 < task.head
      BY <2>1, <2>5 DEF Entry, Row, HasEntry
    <3>2. \A d : d.check = check /\ d.base = Entry => TaskCover(At(pc), d)
      BY <2>1, <2>2, <3>1
    <3>3. QED
      BY <1>0, <2>1, <2>5, <3>1, <3>2, EnrollForms
  <2>6. CASE HasEntry /\ check.pending /\ Confirmed(Entry, task.spare) # {}
    <3>1. \/ MaySetBase(mem, Entry) /\ Save(SetBase(mem, Entry), At("resolve_entry"))
          \/ task' = Idle /\ Unsaved
      BY <1>9, <2>6 DEF TakeEntry
    <3>2. QED
      BY <1>0, <1>2, <2>5, <2>6, <3>1, EnrollForms DEF Resolving
  <2>7. CASE HasEntry /\ check.pending /\ Confirmed(Entry, task.spare) = {}
    <3>1. \/ task' = Finished(task) /\ Unsaved
          \/ task' = [At("begin") EXCEPT !.row = task.head, !.for = "manifest"] /\ Unsaved
          \/ MaySetBase(mem, Entry) /\ Save(SetBase(mem, Entry), At("applied"))
          \/ task' = Idle /\ Unsaved
      BY <1>9, <2>7 DEF TakeEntry
    <3>2. ASSUME task' = [At("begin") EXCEPT !.row = task.head, !.for = "manifest"], Unsaved
          PROVE  CoverInv'
      <4>1. PICK t : t = At("begin")
        OBVIOUS
      <4>2. task' = [t EXCEPT !.row = task.head, !.for = "manifest"]
        BY <3>2, <4>1
      <4>3. task'.pc = "begin" /\ task'.for = "manifest" /\ task'.head = task.head
            /\ task'.row = task.head
        BY <4>1, <4>2, TaskParts DEF IsRecord
      <4>4. TaskCover(task', mem)
        BY <2>1, <4>3, StageCovers DEF PartOf, OnRow, check
      <4>5. QED
        BY <1>0, <3>2, <4>4, CoverQuiet DEF Unsaved
    <3>3. QED
      BY <1>0, <1>2, <2>5, <2>7, <3>1, <3>2, EnrollForms DEF Resolving
  <2>8. QED
    BY <2>3, <2>4, <2>6, <2>7
<1>10. CASE ResolveEntry \/ Acknowledge
  <2>1. task.pc \in Resolving
    BY <1>10 DEF ResolveEntry, Acknowledge, Resolving
  <2>2. OnRow(task, mem) /\ (task.head <= mem.base.rev \/ task.head <= mem.apply.row)
    BY <2>1, TaskParts DEF TaskCover
  <2>3. TaskCover(At("entry_done"), mem) /\ TaskCover(task, mem)
    BY <2>2, TaskParts, StageCovers DEF OnRow, Resolving
  <2>4. \A k : SameSide(Resolve(mem, k, Entry), mem) /\ SameSide(ResolveAlone(mem, k), mem)
    BY SideFacts DEF JournalInv, DocOK, SideOK, IsApply
  <2>5. \/ \E k : Save(Resolve(mem, k, Entry), At("entry_done"))
        \/ task' = At("entry_done") /\ Unsaved
        \/ \E k : Save(ResolveAlone(mem, k), task)
    BY <1>10 DEF ResolveEntry, Acknowledge, Goto
  <2>6. QED
    BY <1>0, <2>3, <2>4, <2>5, EnrollForms
<1>11. CASE EndEntry
  <2>1. PICK c : Checked(c, At("page_done")) /\ c = [check EXCEPT !.pending = FALSE]
    BY <1>11 DEF EndEntry
  <2>2. OnRow(task, mem) /\ (task.head <= mem.base.rev \/ task.head <= mem.apply.row)
    BY <1>11, TaskParts DEF EndEntry, TaskCover, Resolving
  <2>3. c.stage = "manifest" /\ c.head = task.head
    BY <1>1, <2>1, <2>2 DEF IsRecord, OnRow, check
  <2>4. \A d : d.check = c /\ d.base = mem.base /\ d.apply = mem.apply => TaskCover(At("page_done"), d)
    BY <2>2, <2>3, TaskParts, StageCovers DEF OnRow, Resolving
  <2>5. QED
    BY <1>0, <2>1, <2>3, <2>4, EnrollForms
<1>12. CASE EndPage
  <2>1. PICK c : Checked(c, At("entry")) /\ c = [check EXCEPT !.stage = "local", !.pending = FALSE]
    BY <1>12 DEF EndPage
  <2>2. OnRow(task, mem) /\ (task.head <= mem.base.rev \/ task.head <= mem.apply.row)
    BY <1>12, TaskParts DEF EndPage, TaskCover, Resolving
  <2>3. c.stage = "local" /\ c.head = task.head
    BY <1>1, <2>1, <2>2 DEF IsRecord, OnRow, check
  <2>4. Covered(mem, c.head)
    BY <2>2, <2>3 DEF Covered
  <2>5. \A d : d.check = c => TaskCover(At("entry"), d)
    BY <2>3, TaskParts, StageCovers DEF AtHead
  <2>6. QED
    BY <1>0, <2>1, <2>4, <2>5, EnrollForms
<1>13. QED
  BY <1>5, <1>6, <1>7, <1>8, <1>9, <1>10, <1>11, <1>12

\* The local files, and the cursor.
LEMMA UploadCovers ==
  ASSUME JournalInv, CoverInv,
         \/ FindSent \/ ResolveSent \/ SentKnown \/ PublishLocal \/ PrepareCreate \/ SendCreate
         \/ ConfirmCreate \/ SettleCreate \/ Published \/ EndEnrollment
  PROVE  CoverInv'
<1>0. UNCHANGED feed /\ task.pc # "idle"
  BY DEF FindSent, ResolveSent, SentKnown, PublishLocal, PrepareCreate, SendCreate, ConfirmCreate,
         SettleCreate, Published, EndEnrollment, EnrollFrame, PublicationFrame, remote
<1>1. /\ check.head \in Int /\ DocCover(mem)
      /\ IsRecord(check, {"stage", "head", "listed", "pending", "known"})
  BY MemFacts DEF IsCheck, CoverInv
<1>2. \A d : TaskCover(Idle, d) /\ TaskCover(Finished(task), d) /\ TaskCover(Restarted, d)
  BY <1>0, TaskCovers
<1>3. NoCheck.stage \notin {"local", "cursor"}
  BY DEF NoCheck
<1>4. \A pc \in Uploading : \A d : d.check.stage = "local" => TaskCover(At(pc), d)
  BY TaskParts, StageCovers
<1>5. check.stage \in {"local", "cursor"} => Covered(mem, check.head)
  BY <1>1 DEF DocCover, check
<1>6. ASSUME NEW pc \in Uploading, NEW c, c.stage = "local", c.head = check.head,
             check.stage = "local", Checked(c, At(pc))
      PROVE  CoverInv'
  BY <1>0, <1>4, <1>5, <1>6, EnrollForms
<1>7. task.pc \in Uploading => check.stage = "local" /\ TaskCover(task, mem)
  BY TaskParts DEF TaskCover, check
<1>8. /\ \A k, receipt : SameSide(Resolve(mem, k, receipt), mem)
      /\ \A k : /\ SameSide(ResolveAlone(mem, k), mem) /\ SameSide(RecordRejected(mem, k), mem)
                /\ SameSide(Prepare(mem, k), mem)
      /\ \A o : SameSide(Enqueue(mem, o), mem)
      /\ SameSide([mem EXCEPT !.refused = TRUE], mem)
  BY SideFacts DEF JournalInv, DocOK, SideOK, IsApply
<1>9. ASSUME NEW pc \in Uploading, check.stage = "local"
      PROVE  /\ \A d : SameSide(d, mem) /\ Save(d, At(pc)) => CoverInv'
             /\ Unsaved /\ task' = At(pc) => CoverInv'
  BY <1>0, <1>4, <1>9, EnrollForms DEF check
<1>10. CASE FindSent
  <2>1. check.stage = "local"
    BY <1>10 DEF FindSent
  <2>2. CASE Head_ = 0 \/ Confirmed(Row(Head_), NoKey) = {}
    BY <1>9, <1>10, <2>1, <2>2 DEF FindSent, Goto, Uploading
  <2>3. CASE ~(Head_ = 0 \/ Confirmed(Row(Head_), NoKey) = {}) /\ ~MaySetBase(mem, Row(Head_))
    BY <1>0, <1>2, <1>10, <2>3, EnrollForms DEF FindSent
  <2>4. CASE ~(Head_ = 0 \/ Confirmed(Row(Head_), NoKey) = {}) /\ MaySetBase(mem, Row(Head_))
    <3>1. PICK t : t = At("resolve_sent")
      OBVIOUS
    <3>2. PICK next : next = [t EXCEPT !.head = Head_]
      OBVIOUS
    <3>3. Save(SetBase(mem, Row(Head_)), next)
      BY <1>10, <2>4, <3>1, <3>2 DEF FindSent
    <3>4. next.pc = "resolve_sent" /\ next.for = task.for
      BY <3>1, <3>2, TaskParts DEF IsRecord
    <3>5. \A d : d.check = check => TaskCover(next, d)
      BY <2>1, <3>4, TaskParts, StageCovers DEF Uploading
    <3>6. Row(Head_).rev \in Int /\ 0 < Row(Head_).rev
      BY <2>4, EndFacts DEF Row, Head_
    <3>7. QED
      BY <1>0, <2>4, <3>3, <3>5, <3>6, EnrollForms
  <2>5. QED
    BY <2>2, <2>3, <2>4
<1>11. CASE ResolveSent
  <2>1. task.pc \in Uploading /\ \E k : Save(Resolve(mem, k, Entry), At("sent_known"))
    BY <1>11 DEF ResolveSent, Uploading
  <2>2. QED
    BY <1>7, <1>8, <1>9, <2>1 DEF Uploading
<1>12. CASE SentKnown
  <2>1. PICK c : Checked(c, At("publish")) /\ c = [check EXCEPT !.known = TRUE]
    BY <1>12 DEF SentKnown
  <2>2. task.pc \in Uploading
    BY <1>12 DEF SentKnown, Uploading
  <2>3. c.stage = "local" /\ c.head = check.head
    BY <1>1, <1>7, <2>1, <2>2 DEF IsRecord
  <2>4. QED
    BY <1>6, <1>7, <2>1, <2>2, <2>3 DEF Uploading
<1>13. CASE PublishLocal
  <2>1. task.pc \in Uploading
    BY <1>13 DEF PublishLocal, Uploading
  <2>2. CASE ~ToPublish
    <3>1. PICK c : Checked(c, At("entry")) /\ c = [check EXCEPT !.stage = "cursor"]
      BY <1>13, <2>2 DEF PublishLocal
    <3>2. c.stage = "cursor" /\ c.head = check.head
      BY <1>1, <3>1 DEF IsRecord
    <3>3. \A d : d.check = c => TaskCover(At("entry"), d)
      BY <3>2, TaskParts, StageCovers DEF AtHead
    <3>4. QED
      BY <1>0, <1>5, <1>7, <2>1, <3>1, <3>2, <3>3, EnrollForms
  <2>3. CASE ToPublish
    <3>1. \/ task' = At("published") /\ Unsaved
          \/ \E k : Save(RecordRejected(mem, k), task)
          \/ task' = At("prepare_create") /\ Unsaved
          \/ \E o : Save(Enqueue(mem, o), At("prepare_create"))
      <4>1. CASE mem.refused
        BY <1>13, <2>3, <4>1 DEF PublishLocal, Goto
      <4>2. CASE ~mem.refused /\ local = Absent
        BY <1>13, <2>3, <4>2 DEF PublishLocal, Goto
      <4>3. CASE ~mem.refused /\ local # Absent /\ Creates # {}
        BY <1>13, <2>3, <4>3 DEF PublishLocal, Goto
      <4>4. CASE ~mem.refused /\ local # Absent /\ Creates = {}
        BY <1>13, <2>3, <4>4 DEF PublishLocal
      <4>5. QED
        BY <4>1, <4>2, <4>3, <4>4
    <3>2. ASSUME NEW k, Save(RecordRejected(mem, k), task) PROVE CoverInv'
      BY <1>0, <1>7, <1>8, <2>1, <3>2, EnrollForms
    <3>3. QED
      BY <1>7, <1>8, <1>9, <2>1, <3>1, <3>2 DEF Uploading
  <2>4. QED
    BY <2>2, <2>3
<1>14. CASE PrepareCreate \/ SendCreate
  <2>1. task.pc \in Uploading
    BY <1>14 DEF PrepareCreate, SendCreate, Uploading
  <2>2. \/ Unsaved /\ task' \in {Idle, At("send_create"), At("creating")}
        \/ Save(Prepare(mem, Create.key), At("send_create"))
    BY <1>14 DEF PrepareCreate, SendCreate, Goto
  <2>3. Unsaved /\ task' = Idle => CoverInv'
    BY <1>0, <1>2, EnrollForms
  <2>4. QED
    BY <1>7, <1>8, <1>9, <2>1, <2>2, <2>3 DEF Uploading
<1>15. CASE ConfirmCreate
  <2>1. task.pc \in Uploading /\ reply \in 1..Head_ /\ reply \in Int /\ 0 < reply
    BY <1>15, EndFacts DEF ConfirmCreate, Uploading, Head_
  <2>2. CASE MaySetBase(mem, Created)
    <3>1. Save(SetBase(mem, Created), At("resolve_create"))
      BY <1>15, <2>2 DEF ConfirmCreate
    <3>2. Created.rev = reply
      BY DEF Created
    <3>3. \A d : d.check = check => TaskCover(At("resolve_create"), d)
      BY <1>4, <1>7, <2>1 DEF Uploading
    <3>4. QED
      BY <1>0, <2>1, <2>2, <3>1, <3>2, <3>3, EnrollForms
  <2>3. CASE ~MaySetBase(mem, Created)
    BY <1>0, <1>2, <1>15, <2>3, EnrollForms DEF ConfirmCreate
  <2>4. QED
    BY <2>2, <2>3
<1>16. CASE SettleCreate
  <2>1. task.pc \in Uploading
    BY <1>16 DEF SettleCreate, Uploading
  <2>2. \/ Save(ResolveAlone(mem, Create.key), At("published"))
        \/ Save([mem EXCEPT !.refused = TRUE], At("create_rejected"))
        \/ Save(RecordRejected(mem, Create.key), At("published"))
        \/ Save(RecordRejected(mem, Create.key), At("create_stale"))
        \/ Checked(NoCheck, Restarted)
    BY <1>16 DEF SettleCreate
  <2>3. Checked(NoCheck, Restarted) => CoverInv'
    BY <1>0, <1>2, <1>3, EnrollForms
  <2>4. /\ Save(ResolveAlone(mem, Create.key), At("published")) => CoverInv'
        /\ Save(RecordRejected(mem, Create.key), At("published")) => CoverInv'
        /\ Save(RecordRejected(mem, Create.key), At("create_stale")) => CoverInv'
    BY <1>7, <1>8, <1>9, <2>1 DEF Uploading
  <2>5. Save([mem EXCEPT !.refused = TRUE], At("create_rejected")) => CoverInv'
    BY <1>7, <1>8, <1>9, <2>1 DEF Uploading
  <2>6. QED
    BY <2>2, <2>3, <2>4, <2>5
<1>17. CASE Published
  <2>1. PICK c : Checked(c, At("publish")) /\ c = [check EXCEPT !.listed = FALSE]
    BY <1>17 DEF Published
  <2>2. task.pc \in Uploading
    BY <1>17 DEF Published, Uploading
  <2>3. c.stage = "local" /\ c.head = check.head
    BY <1>1, <1>7, <2>1, <2>2 DEF IsRecord
  <2>4. QED
    BY <1>6, <1>7, <2>1, <2>2, <2>3 DEF Uploading
<1>18. CASE EndEnrollment
  <2>1. CASE task.pc = "entry"
    <3>1. check.stage = "cursor"
      BY <1>18, <2>1 DEF EndEnrollment
    <3>2. (task' = Idle /\ Unsaved) \/ Save(SetCursor(mem, check.head), At("cursor_set"))
      BY <1>18, <2>1 DEF EndEnrollment, ReachedHead
    <3>3. DocCover(SetCursor(mem, check.head))
      BY <1>5, <3>1, CursorCover
    <3>4. \A d : TaskCover(At("cursor_set"), d)
      BY TaskCovers DEF Tracked, Cycling, Stages, Applying, Resolving, Uploading
    <3>5. QED
      BY <1>0, <1>2, <3>2, <3>3, <3>4, CoverForms DEF Unsaved
  <2>2. CASE task.pc = "cursor_set"
    BY <1>0, <1>2, <1>3, <1>18, <2>2, EnrollForms DEF EndEnrollment
  <2>3. QED
    BY <1>18, <2>1, <2>2 DEF EndEnrollment
<1>19. QED
  BY <1>10, <1>11, <1>12, <1>13, <1>14, <1>15, <1>16, <1>17, <1>18

\* A row that the vault appends takes nothing back.
LEMMA GrowthCovers ==
  ASSUME JournalInv, CoverInv, UNCHANGED <<journal, task>>, NEW e, feed' \in {feed, Append(feed, e)}
  PROVE  CoverInv'
<1>1. TaskCover(task', mem') /\ mem' = mem /\ disk' = disk
  BY DEF CoverInv, journal
<1>2. CASE feed' = feed
  BY <1>1, <1>2, CoverQuiet
<1>3. CASE feed' = Append(feed, e)
  <2>1. IsSeq(feed) /\ Len(feed) \in Nat
    BY MemFacts
  <2>2. Len(feed') = Len(feed) + 1 /\ \A v \in 1..Len(feed) : feed'[v] = feed[v]
    BY <1>3, <2>1, AppendFacts
  <2>3. \A d \in {mem, disk} : d.cursor \in Int /\ d.check.head \in Int
    BY DEF JournalInv, DocOK, SideOK, IsCheck
  <2>4. DocCover(mem)'
    BY <1>1, <2>1, <2>2, <2>3 DEF CoverInv, DocCover, Covered, Head_
  <2>5. DocCover(disk)'
    BY <1>1, <2>1, <2>2, <2>3 DEF CoverInv, DocCover, Covered, Head_
  <2>6. QED
    BY <1>1, <2>4, <2>5 DEF CoverInv
<1>4. QED
  BY <1>2, <1>3

\* The user, the vault and the faults.
LEMMA OutsideCovers ==
  ASSUME JournalInv, CoverInv, Environment
  PROVE  CoverInv'
<1>1. CASE UserEdit \/ UserEditsCopy \/ DeleteRows \/ OtherWrites \/ Execute
  <2>1. UNCHANGED <<journal, task>> /\ \E e : feed' \in {feed, Append(feed, e)}
    <3>1. CASE UserEdit \/ UserEditsCopy \/ DeleteRows
      BY <3>1 DEF UserEdit, UserEditsCopy, DeleteRows, remote
    <3>2. CASE OtherWrites
      BY <3>2 DEF OtherWrites
    <3>3. CASE Execute
      <4>1. UNCHANGED <<journal, task>>
        BY <3>3 DEF Execute
      <4>2. PICK q \in wire :
              feed' = IF Executed(q) = {} /\ Holding(q)
                      THEN Append(feed, [text |-> q.text, key |-> q.key]) ELSE feed
        BY <3>3 DEF Execute
      <4>3. QED
        BY <4>1, <4>2
    <3>4. QED
      BY <1>1, <3>1, <3>2, <3>3
  <2>2. QED
    BY <2>1, GrowthCovers
<1>2. CASE LoseAnswer \/ Refuse \/ LoseCreated \/ RefuseCreate
  <2>1. UNCHANGED <<journal, feed>>
    BY <1>2 DEF LoseAnswer, Refuse, LoseCreated, RefuseCreate, PublicationFrame
  <2>2. \/ task.pc \in Cycling /\ task' \in {At("defer"), At("reject")}
        \/ task' = Idle
        \/ task.pc \in Uploading /\ task' = At("create_refused")
    BY <1>2 DEF LoseAnswer, Refuse, LoseCreated, RefuseCreate, Goto, Cycling, Uploading
  <2>3. task.pc \in Uploading => mem.check.stage = "local"
    BY TaskParts DEF TaskCover
  <2>4. TaskCover(task', mem)
    <3>1. CASE task.pc \in Cycling /\ task' \in {At("defer"), At("reject")}
      BY <3>1, TaskCovers DEF Cycling, Stages
    <3>2. CASE task' = Idle
      BY <3>2, TaskCovers
    <3>3. CASE task.pc \in Uploading /\ task' = At("create_refused")
      BY <2>3, <3>3, TaskCovers DEF Uploading
    <3>4. QED
      BY <2>2, <3>1, <3>2, <3>3
  <2>5. QED
    BY <2>1, <2>4, CoverQuiet
<1>3. CASE Restart
  <2>1. mem' = disk /\ disk' = disk /\ task' = Idle /\ UNCHANGED feed
    BY <1>3 DEF Restart
  <2>2. DocCover(disk) /\ TaskCover(Idle, disk)
    BY TaskCovers DEF CoverInv
  <2>3. QED
    BY <2>1, <2>2, CoverStep
<1>4. QED
  BY <1>1, <1>2, <1>3 DEF Environment

\* A drained event changes the queue, or what is expected.
LEMMA DrainSides ==
  ASSUME JournalInv, DrainEvent
  PROVE  /\ task = Idle /\ UNCHANGED feed
         /\ Ignored \/ \E d : Observed(d) /\ SameSide(d, mem)
<1>1. /\ \A text : SameSide(Expect(mem, text), mem)
      /\ \A o : SameSide(Enqueue(mem, o), mem)
      /\ \A s : SameSide([mem EXCEPT !.ops = s], mem)
      /\ SameSide(mem, mem)
  BY SideFacts DEF JournalInv, DocOK, SideOK, IsApply
<1>2. CASE Head(events) = "save"
  <2>1. ObserveSave
    BY <1>2 DEF DrainEvent
  <2>2. Ignored \/ Observed(Expect(mem, Absent)) \/ Observed(Enqueue(mem, NewPut(mem, local)))
    <3>1. CASE local = Absent
      BY <2>1, <3>1 DEF ObserveSave
    <3>2. CASE local # Absent /\ mem.expected = local
      BY <2>1, <3>2 DEF ObserveSave
    <3>3. CASE local # Absent /\ mem.expected # local /\ InSync
      BY <2>1, <3>3 DEF ObserveSave
    <3>4. CASE local # Absent /\ mem.expected # local /\ ~InSync
      BY <2>1, <3>4 DEF ObserveSave
    <3>5. QED
      BY <3>1, <3>2, <3>3, <3>4
  <2>3. QED
    BY <1>1, <2>2 DEF DrainEvent, PublicationFrame
<1>3. CASE Head(events) # "save"
  <2>1. ObserveDelete
    BY <1>3 DEF DrainEvent
  <2> DEFINE d == [mem EXCEPT !.ops = Without(mem, QueuedPuts)]
  <2>2. \/ Ignored \/ Observed(mem) \/ Observed(d)
        \/ \E o : Observed(Enqueue(mem, o))
        \/ \E o : Observed(Enqueue(d, o))
    <3>1. CASE Superseded
      BY <2>1, <3>1 DEF ObserveDelete
    <3>2. CASE ~Superseded /\ Live(mem.base)
      BY <2>1, <3>2 DEF ObserveDelete
    <3>3. CASE ~Superseded /\ ~Live(mem.base)
      BY <2>1, <3>3 DEF ObserveDelete
    <3>4. QED
      BY <3>1, <3>2, <3>3
  <2>3. SameSide(d, mem) /\ IsDocument(d) /\ IsRecord(d.apply, {"row", "rev", "text", "step", "copy"})
    <3>1. IsDocument(mem) /\ IsRecord(mem.apply, {"row", "rev", "text", "step", "copy"})
      BY DEF JournalInv, DocOK, SideOK, IsApply
    <3>2. IsDocument(d) /\ d.apply = mem.apply
      BY <3>1 DEF IsDocument, IsRecord
    <3>3. QED
      BY <1>1, <3>1, <3>2
  <2> HIDE DEF d
  <2>4. \A o : SameSide(Enqueue(d, o), mem)
    <3>1. \A o : SameSide(Enqueue(d, o), d)
      BY <2>3, SideFacts
    <3>2. QED
      BY <2>3, <3>1 DEF SameSide
  <2>5. QED
    BY <1>1, <2>2, <2>3, <2>4 DEF DrainEvent, PublicationFrame
<1>4. QED
  BY <1>2, <1>3 DEF DrainEvent

\* The cursor stays covered.
LEMMA CoverInvHolds == Spec => []CoverInv
<1>1. Init => CoverInv
  <2> SUFFICES ASSUME Init PROVE CoverInv
    OBVIOUS
  <2>0. disk = mem /\ task = Idle /\ (feed = <<>> \/ Len(feed) = 1) /\ (Enrolled \/ Fresh)
    <3>1. feed = <<>> \/ \E e : feed = <<e>>
      BY DEF Init
    <3>2. QED
      BY <3>1 DEF Init
  <2>1. TaskCover(task, mem)
    BY <2>0 DEF TaskCover, Idle, PartOf, Cycling, Stages, Applying, Resolving, Uploading
  <2>2. CASE Enrolled
    <3>1. PICK b : b = [rev |-> Len(feed), text |-> local]
      OBVIOUS
    <3>2. mem = Document(b) /\ b.rev = Len(feed) /\ b.text = local
      BY <2>2, <3>1 DEF Enrolled
    <3>3. /\ mem.base = b /\ mem.cursor = b.rev /\ mem.apply = NoApply /\ mem.check = NoCheck
      BY <3>2 DEF Document
    <3>4. Len(feed) \in Nat /\ (Len(feed) = 0 => local = Absent)
      BY <2>0, <2>2 DEF Enrolled
    <3>5. DocCover(mem)
      BY <3>2, <3>3, <3>4 DEF DocCover, Covered, NoApply, NoCheck
    <3>6. QED
      BY <2>0, <2>1, <3>5 DEF CoverInv
  <2>3. CASE Fresh
    <3>1. PICK d : d = Document(NoBase)
      OBVIOUS
    <3>2. mem = [d EXCEPT !.cursor = NoCursor, !.bound = FALSE]
      BY <2>3, <3>1 DEF Fresh, FreshDocument
    <3>3. mem.base = NoBase /\ mem.cursor = -1 /\ mem.apply = NoApply /\ mem.check = NoCheck
      BY <3>1, <3>2 DEF Document, NoCursor
    <3>4. DocCover(mem)
      BY <3>3 DEF DocCover, Covered, NoApply, NoCheck, NoBase
    <3>5. QED
      BY <2>0, <2>1, <3>4 DEF CoverInv
  <2>4. QED
    BY <2>0, <2>2, <2>3
<1>2. JournalInv /\ CoverInv /\ [Next]_vars => CoverInv'
  <2> SUFFICES ASSUME JournalInv, CoverInv, [Next]_vars PROVE CoverInv'
    OBVIOUS
  <2>1. CASE ApplyStep \/ PublicationStep \/ ReplayStep \/ StartCycle
    BY <2>1, ApplyCovers, PublicationCovers, ReplayCovers
  <2>2. CASE EnrollStep
    BY <2>2, ManifestCovers, UploadCovers DEF EnrollStep
  <2>3. CASE Environment
    BY <2>3, OutsideCovers
  <2>4. CASE DrainEvent
    <3>1. CASE Ignored
      <4>1. UNCHANGED <<journal, task, feed>>
        BY <2>4, <3>1, DrainSides DEF Ignored
      <4>2. QED
        BY <4>1, CoverQuiet DEF CoverInv
    <3>2. CASE \E d : Observed(d) /\ SameSide(d, mem)
      <4>1. PICK d : Save(d, Idle) /\ SameSide(d, mem)
        BY <3>2 DEF Observed
      <4>2. UNCHANGED feed /\ TaskCover(Idle, mem)
        BY <2>4, DrainSides, TaskCovers
      <4>3. QED
        BY <4>1, <4>2, CoverForms
    <3>3. QED
      BY <2>4, <3>1, <3>2, DrainSides
  <2>5. CASE UNCHANGED vars
    <3>1. UNCHANGED <<journal, task, feed>>
      BY <2>5 DEF vars, journal
    <3>2. QED
      BY <3>1, CoverQuiet DEF CoverInv
  <2>6. QED
    BY <2>1, <2>2, <2>3, <2>4, <2>5 DEF Next, Device, TaskStep
<1>3. QED
  BY <1>1, <1>2, JournalInvHolds, PTL DEF Spec

\* Whatever the cursor has left behind was applied, or is being applied, or a later row has
\* taken its place, in memory and on disk (CursorCovered).
THEOREM CursorCoveredHolds == Spec => []CursorCovered
<1>1. CoverInv => CursorCovered
  BY DEF CoverInv, DocCover, Covered, CursorCovered, Documents
<1>2. QED
  BY <1>1, CoverInvHolds, PTL

-----------------------------------------------------------------------------
(* What the user saved.                                                     *)

\* Every text of the user is somewhere, and copies are files with a name.
LostInv ==
  /\ Absent \notin mine /\ NoEditLost
  /\ \A c \in copies : IsRecord(c, {"at", "text"})

\* The vault keeps what it has.
FeedKeeps == {feed[v].text : v \in DOMAIN feed} \subseteq {feed'[v].text : v \in DOMAIN feed'}

\* A step that leaves the files and the texts of the user alone.
LEMMA RestLosesNothing ==
  ASSUME LostInv, FeedKeeps, UNCHANGED <<local, copies, trashed, mine>>
  PROVE  LostInv'
BY DEF LostInv, FeedKeeps, NoEditLost

\* What the feed held, it holds.
LEMMA GrowingFeed ==
  ASSUME JournalInv, NEW e, feed' \in {feed, Append(feed, e)}
  PROVE  FeedKeeps
<1>1. CASE feed' = feed
  BY <1>1 DEF FeedKeeps
<1>2. CASE feed' = Append(feed, e)
  <2>1. IsSeq(feed) /\ Len(feed) \in Nat /\ DOMAIN feed = 1..Len(feed)
    BY MemFacts
  <2>2. /\ IsSeq(feed') /\ Len(feed') = Len(feed) + 1
        /\ \A v \in 1..Len(feed) : feed'[v] = feed[v]
    BY <1>2, <2>1, AppendFacts
  <2>3. DOMAIN feed' = 1..(Len(feed) + 1)
    BY <2>1, <2>2, SeqFacts
  <2>4. \A v \in DOMAIN feed : v \in DOMAIN feed' /\ feed'[v] = feed[v]
    BY <2>1, <2>2, <2>3
  <2>5. QED
    BY <2>4 DEF FeedKeeps
<1>3. QED
  BY <1>1, <1>2

\* The compare-and-write takes from the file only what is somewhere else, or what the user
\* has changed the copy of.
LEMMA WriteLosesNothing ==
  ASSUME JournalInv, CoverInv, LostInv, Write
  PROVE  LostInv'
<1>1. /\ UNCHANGED <<feed, copies, trashed>> /\ local' \in {local, a.text}
      /\ local' # local => local = task.seen
      /\ mine' = IF Overwrites THEN mine \ {local} ELSE mine
  BY DEF Write, WriteFile, files, remote
<1>2. CASE local' = local
  BY <1>1, <1>2 DEF LostInv, NoEditLost
<1>3. CASE local' # local
  <2>1. local = task.seen /\ local # a.text
    BY <1>1, <1>3
  <2>2. Replaceable(task.seen)
    BY DEF Write, JournalInv, TaskInv
  <2>3. \/ local = Absent \/ Clean(local)
        \/ a.step = "copied" /\ local = a.copy.text
    BY <2>1, <2>2 DEF Replaceable
  <2>4. \A t \in mine : t # local =>
          t \in {c.text : c \in copies} \cup trashed \cup {feed[v].text : v \in DOMAIN feed}
    BY DEF LostInv, NoEditLost
  <2>5. local \in mine' =>
          local \in {c.text : c \in copies} \cup {feed[v].text : v \in DOMAIN feed}
    <3>1. CASE local = Absent
      BY <1>1, <3>1 DEF LostInv
    <3>2. CASE Clean(local)
      <4>1. mem.base.rev > 0 /\ local = mem.base.text
        <5>1. mem.base.rev \in Int /\ 0 <= mem.base.rev
              /\ (mem.base.rev = 0 => mem.base.text = Absent)
          BY MemFacts DEF IsBase, TrueRow, CoverInv, DocCover
        <5>2. QED
          BY <3>2, <5>1 DEF Clean, Live
      <4>2. mem.base.rev \in DOMAIN feed /\ local = feed[mem.base.rev].text
        BY <4>1, MemFacts DEF IsBase, TrueRow
      <4>3. QED
        BY <4>2
    <3>3. CASE a.step = "copied" /\ local = a.copy.text
      <4>1. CASE a.copy \in copies
        BY <3>3, <4>1
      <4>2. CASE a.copy \notin copies
        BY <1>1, <2>1, <3>3, <4>2 DEF Overwrites, Copied
      <4>3. QED
        BY <4>1, <4>2
    <3>4. QED
      BY <2>3, <3>1, <3>2, <3>3
  <2>6. mine' \subseteq mine
    BY <1>1
  <2>7. QED
    BY <1>1, <2>4, <2>5, <2>6 DEF LostInv, NoEditLost
<1>4. QED
  BY <1>2, <1>3

\* The steps that change a file, or what the user has.
LEMMA FilesLoseNothing ==
  ASSUME JournalInv, LostInv, MoveToTrash \/ CreateCopy \/ Restore \/ UserEdit \/ UserEditsCopy
  PROVE  LostInv'
<1>1. UNCHANGED feed
  BY DEF MoveToTrash, CreateCopy, Restore, UserEdit, UserEditsCopy, ApplyFrame, remote
<1>2. CASE MoveToTrash
  <2>1. /\ UNCHANGED <<copies, mine>> /\ trashed' = trashed \cup Moved
        /\ local' = Absent
    BY <1>2 DEF MoveToTrash, ApplyFrame
  <2>2. QED
    BY <1>1, <2>1 DEF LostInv, NoEditLost, Moved
<1>3. CASE CreateCopy
  <2>1. UNCHANGED <<local, trashed, mine>> /\ copies' = copies \cup {a.copy}
    BY <1>3 DEF CreateCopy, ApplyFrame
  <2>2. IsRecord(a.copy, {"at", "text"})
    BY MemFacts DEF DocOK, SideOK, IsApply, a
  <2>3. QED
    BY <1>1, <2>1, <2>2 DEF LostInv, NoEditLost
<1>4. CASE Restore
  <2>1. UNCHANGED <<copies, trashed, mine>> /\ (local = Absent \/ local' = local)
    BY <1>4 DEF Restore
  <2>2. QED
    BY <1>1, <2>1 DEF LostInv, NoEditLost
<1>5. CASE UserEdit
  <2>1. /\ UNCHANGED <<copies, trashed>>
        /\ mine' = ((mine \ {local}) \cup {local'}) \ {Absent}
    BY <1>5 DEF UserEdit
  <2>2. QED
    BY <1>1, <2>1 DEF LostInv, NoEditLost
<1>6. CASE UserEditsCopy
  <2>1. PICK c \in copies, t \in Texts \cup {Absent} :
          /\ copies' = (copies \ {c}) \cup (IF t = Absent THEN {} ELSE {[c EXCEPT !.text = t]})
          /\ mine' = ((mine \ {c.text}) \cup {t}) \ {Absent}
    BY <1>6 DEF UserEditsCopy
  <2>2. UNCHANGED <<local, trashed>>
    BY <1>6 DEF UserEditsCopy
  <2>3. PICK e : e = [c EXCEPT !.text = t]
    OBVIOUS
  <2>4. IsRecord(e, {"at", "text"}) /\ e.text = t
    BY <2>3 DEF LostInv, IsRecord
  <2>5. /\ \A f \in copies : f # c => f \in copies'
        /\ t # Absent => e \in copies'
        /\ \A f \in copies' : f \in copies \/ f = e
    BY <2>1, <2>3
  <2>6. \A f \in copies' : IsRecord(f, {"at", "text"})
    BY <2>4, <2>5 DEF LostInv
  <2>7. ASSUME NEW x \in mine', x # t
        PROVE  x \in {local} \cup {f.text : f \in copies'} \cup trashed
                     \cup {feed[v].text : v \in DOMAIN feed}
    <3>1. x \in mine /\ x # c.text
      BY <2>1, <2>7
    <3>2. ASSUME NEW f \in copies, x = f.text PROVE x \in {g.text : g \in copies'}
      BY <2>5, <3>1, <3>2
    <3>3. QED
      BY <3>1, <3>2 DEF LostInv, NoEditLost
  <2>8. t \in mine' => t \in {f.text : f \in copies'}
    BY <2>1, <2>4, <2>5
  <2>9. NoEditLost'
    BY <1>1, <2>2, <2>7, <2>8 DEF NoEditLost
  <2>10. QED
    BY <2>1, <2>6, <2>9 DEF LostInv
<1>7. QED
  BY <1>2, <1>3, <1>4, <1>5, <1>6

\* The other steps of the device change neither.
LEMMA OthersLoseNothing ==
  ASSUME JournalInv, Next,
         ~(Write \/ MoveToTrash \/ CreateCopy \/ Restore \/ UserEdit \/ UserEditsCopy)
  PROVE  UNCHANGED <<local, copies, trashed, mine>> /\ FeedKeeps
<1> DEFINE Quiet == UNCHANGED <<local, copies, trashed, mine, feed>>
<1>1. Rebase \/ Begin \/ Resume \/ Begun \/ Decide \/ ReadBack \/ RefusedWrite \/ StartConflict => Quiet
  BY DEF Rebase, Begin, Resume, Begun, Decide, ReadBack, RefusedWrite, StartConflict, NoEffect,
         ApplyFrame, remote, files
<1>2. Trash \/ Trashed \/ Complete \/ MarkCopy \/ CopyAttended \/ Finish \/ AttendRefused => Quiet
  BY DEF Trash, Trashed, Complete, MarkCopy, CopyAttended, Finish, AttendRefused, NoEffect,
         ApplyFrame, remote, files
<1>3. PublicationStep => Quiet
  BY DEF PublicationStep, Scan, Restored, StartFlush, Take, Skip, EndFlush, Refresh, Requeue,
         PrepareSend, Dispatch, DeferSend, Confirm, Settle, Recover, Reject, SameJournal,
         PublicationFrame, files, history
<1>4. ReplayStep \/ StartCycle => Quiet
  BY DEF ReplayStep, ReadPage, NextRow, EndRow, StartCycle, ReplayFrame, remote, files, history
<1>5. EnrollStep => Quiet
  BY DEF EnrollStep, ReadManifest, Bind, ListFiles, Hold, TakeEntry, ResolveEntry, Acknowledge,
         EndEntry, EndPage, FindSent, ResolveSent, SentKnown, PublishLocal, PrepareCreate,
         SendCreate, ConfirmCreate, SettleCreate, Published, EndEnrollment, EnrollFrame,
         PublicationFrame, files, history
<1>6. DrainEvent \/ DeleteRows \/ Restart \/ LoseAnswer \/ Refuse \/ LoseCreated \/ RefuseCreate => Quiet
  BY DEF DrainEvent, DeleteRows, Restart, LoseAnswer, Refuse, LoseCreated, RefuseCreate,
         PublicationFrame, files, history
<1>7. OtherWrites \/ Execute => UNCHANGED <<local, copies, trashed, mine>> /\ FeedKeeps
  <2>1. CASE OtherWrites
    <3>1. PICK e : feed' = Append(feed, e)
      BY <2>1 DEF OtherWrites
    <3>2. QED
      BY <2>1, <3>1, GrowingFeed DEF OtherWrites, files, history
  <2>2. CASE Execute
    <3>1. PICK q \in wire :
            feed' = IF Executed(q) = {} /\ Holding(q)
                    THEN Append(feed, [text |-> q.text, key |-> q.key]) ELSE feed
      BY <2>2 DEF Execute
    <3>2. QED
      BY <2>2, <3>1, GrowingFeed DEF Execute, files, history
  <2>3. QED
    BY <2>1, <2>2
<1>8. Quiet => UNCHANGED <<local, copies, trashed, mine>> /\ FeedKeeps
  BY DEF FeedKeeps
<1> HIDE DEF Quiet
<1>9. QED
  BY <1>1, <1>2, <1>3, <1>4, <1>5, <1>6, <1>7, <1>8
  DEF Next, Device, TaskStep, Environment, ApplyStep

\* A text that the user saved, and did not overwrite himself, is in the file, a conflict
\* copy, the trash or the vault's history, but for the copy that he changed before the
\* write (NoEditLost).
THEOREM NoEditLostHolds == Spec => []NoEditLost
<1>1. Init => LostInv
  BY DEF Init, Enrolled, Fresh, LostInv, NoEditLost
<1>2. JournalInv /\ CoverInv /\ LostInv /\ [Next]_vars => LostInv'
  <2> SUFFICES ASSUME JournalInv, CoverInv, LostInv, [Next]_vars PROVE LostInv'
    OBVIOUS
  <2>1. CASE Write
    BY <2>1, WriteLosesNothing
  <2>2. CASE MoveToTrash \/ CreateCopy \/ Restore \/ UserEdit \/ UserEditsCopy
    BY <2>2, FilesLoseNothing
  <2>3. CASE Next /\ ~(Write \/ MoveToTrash \/ CreateCopy \/ Restore \/ UserEdit \/ UserEditsCopy)
    BY <2>3, OthersLoseNothing, RestLosesNothing
  <2>4. CASE UNCHANGED vars
    BY <2>4, RestLosesNothing DEF vars, FeedKeeps
  <2>5. QED
    BY <2>1, <2>2, <2>3, <2>4
<1>3. LostInv => NoEditLost
  BY DEF LostInv
<1>4. QED
  BY <1>1, <1>2, <1>3, JournalInvHolds, CoverInvHolds, PTL DEF Spec

-----------------------------------------------------------------------------
(* What the user had before him.  A revision of another writer that is the  *)
(* head is replaced only by an operation that was queued when the user, or  *)
(* an exception, had to do with it.  While it is the base and the user has  *)
(* not saved since, the file holds its text, or is missing without an event *)
(* that says so; hence nothing is queued over it.                           *)

\* The live head of another writer: the newest text that the user had before him is older,
\* and no exception takes it out.
Unseen(rev, k) ==
  /\ rev = Head_ /\ 0 < rev /\ k < rev
  /\ feed[rev].text # Absent /\ feed[rev].key = NoKey
  /\ rev \notin adopted \cup undone

\* An operation, or a request, that does not replace such a revision.
Known(o) == o.pre \in Int /\ o.knew \in Int /\ o.pre <= Head_ /\ ~Unseen(o.pre, o.knew)
QueueSeen(s) == \A i \in DOMAIN s : Known(s[i])

\* A revision from which operations may continue, whoever queued them.
Own(rev) == rev \in Int /\ rev <= Head_ /\ \A k : ~Unseen(rev, k)

\* The file under such a base, and the events that wait.
HeldBase(b) == Unseen(b.rev, knew) => b.rev <= shown /\ local \in {b.text, Absent}
Waiting(b) == Unseen(b.rev, knew) /\ local # b.text => \A i \in DOMAIN events : events[i] # "delete"

DocSeen(d) == QueueSeen(d.ops) /\ HeldBase(d.base)

\* The file held the text that an apply completes with, and holds it unless the user has
\* saved since.
Landed(p) ==
  p.text = Absent \/ (p.rev \in Int /\ p.rev <= shown /\ (local = p.text \/ p.rev <= knew))

TaskSeen(t, d, b) ==
  /\ t.pc \in {"write", "restore"} => ~b
  /\ t.pc = "requeue" => ~Unseen(d.base.rev, knew)
  /\ t.pc \in {"trash", "trashing", "trashed"} => d.apply.text = Absent
  /\ t.pc = "complete" => Landed(d.apply)
  /\ t.pc \in {"resolve_entry", "resolve_sent"} => t.head \in adopted

SeenInv ==
  /\ knew \in Int /\ shown \in Int /\ knew <= shown
  /\ DocSeen(mem) /\ DocSeen(disk) /\ Waiting(mem.base)
  /\ \A q \in wire : Known(q)
  /\ reply > 0 => reply <= Head_ /\ feed[reply].key # NoKey
  /\ TaskSeen(task, mem, blocked)

\* The stages that TaskSeen speaks of.
Special ==
  {"write", "restore", "requeue", "trash", "trashing", "trashed", "complete", "resolve_entry",
   "resolve_sent"}

LEMMA OrdinaryTask ==
  ASSUME NEW t, t.pc \notin Special
  PROVE  \A d, b : TaskSeen(t, d, b)
BY DEF TaskSeen, Special

\* The tasks that the actions go on with.
LEMMA SeenTasks ==
  ASSUME JournalInv
  PROVE  /\ Idle.pc \notin Special
         /\ task.pc # "idle" =>
              /\ \A pc : At(pc).pc = pc /\ At(pc).head = task.head
              /\ \A pc, text : Saw(pc, text).pc = pc
              /\ Finished(task).pc \notin Special /\ FlushEnd.pc \notin Special
              /\ NextOp.pc \notin Special /\ Restarted.pc \notin Special
<1>1. Idle.pc \notin Special
  BY DEF Idle, Special
<1>2. ASSUME task.pc # "idle"
      PROVE  /\ \A pc : At(pc).pc = pc /\ At(pc).head = task.head
             /\ \A pc, text : Saw(pc, text).pc = pc
             /\ Finished(task).pc \notin Special /\ FlushEnd.pc \notin Special
             /\ NextOp.pc \notin Special /\ Restarted.pc \notin Special
  <2>1. /\ IsRecord(task, {"pc", "rest", "row", "head", "seen", "key", "keys", "spare", "for"})
        /\ Rest(task.rest)
    BY <1>2, EndFacts DEF IsTask
  <2>2. /\ \A pc : At(pc).pc = pc /\ At(pc).head = task.head
        /\ \A pc, text : Saw(pc, text).pc = pc
    BY <2>1 DEF IsRecord, At, Saw
  <2>3. NextOp.pc \notin Special /\ Restarted.pc \notin Special
    BY <2>1 DEF IsRecord, At, NextOp, Restarted, Special
  <2>4. /\ IsRecord(Finished(task),
                    {"pc", "rest", "row", "head", "seen", "key", "keys", "spare", "for"})
        /\ Finished(task).pc \notin Special
    <3>1. CASE Len(task.rest) <= 1
      BY <1>1, <3>1 DEF Finished, Idle, IsRecord
    <3>2. CASE ~(Len(task.rest) <= 1)
      <4>1. task.rest[2] \in Stages
        BY <2>1, <3>2, RestFacts DEF Rest
      <4>2. Finished(task) = [task EXCEPT !.pc = task.rest[2], !.rest = Tail(@), !.row = 0,
                               !.head = 0, !.seen = Absent, !.spare = NoKey, !.for = "feed"]
        BY <3>2 DEF Finished
      <4>3. QED
        BY <2>1, <4>1, <4>2 DEF IsRecord, Stages, Special
    <3>3. QED
      BY <3>1, <3>2
  <2>5. FlushEnd.pc \notin Special
    <3>1. FlushEnd = [Finished(task) EXCEPT !.key = NoKey, !.keys = <<>>]
      BY DEF FlushEnd
    <3>2. QED
      BY <2>4, <3>1 DEF IsRecord
  <2>6. QED
    BY <2>2, <2>3, <2>4, <2>5
<1>3. QED
  BY <1>1, <1>2

-----------------------------------------------------------------------------
(* The queue.                                                               *)

\* Operations may leave it, and a known one enter it.
LEMMA SeenWithout ==
  ASSUME NEW d, IsSeq(d.ops), QueueSeen(d.ops), NEW ks
  PROVE  QueueSeen(Without(d, ks)) /\ IsSeq(Without(d, ks))
BY WithoutFacts DEF QueueSeen

LEMMA SeenEnqueue ==
  ASSUME NEW d, IsDocument(d), IsSeq(d.ops), QueueSeen(d.ops), NEW o, Known(o)
  PROVE  QueueSeen(Enqueue(d, o).ops)
<1> DEFINE s == Without(d, {d.ops[i].key : i \in Replaced(d, o.op)})
<1>1. Enqueue(d, o).ops = Append(s, o)
  BY DEF Enqueue, IsDocument, IsRecord
<1>2. QueueSeen(s) /\ IsSeq(s)
  BY SeenWithout
<1> HIDE DEF s
<1>3. /\ IsSeq(Append(s, o)) /\ Len(Append(s, o)) = Len(s) + 1
      /\ \A i \in 1..Len(s) : Append(s, o)[i] = s[i]
      /\ Append(s, o)[Len(s) + 1] = o
  BY <1>2, AppendFacts
<1>4. Len(s) \in Nat /\ DOMAIN s = 1..Len(s) /\ DOMAIN Append(s, o) = 1..(Len(s) + 1)
  BY <1>2, <1>3, SeqFacts
<1>5. QED
  BY <1>1, <1>2, <1>3, <1>4 DEF QueueSeen

\* One operation changes, its precondition does not.
LEMMA SeenChanged ==
  ASSUME NEW d, NEW f, NEW w, DocOK(d, f, w), QueueSeen(d.ops), NEW k \in Keys(d)
  PROVE  QueueSeen(Prepare(d, k).ops) /\ QueueSeen(Defer(d, k).ops)
<1>1. PICK n \in DOMAIN d.ops : d.ops[n].key = k /\ OpOf(d, k) = d.ops[n]
  BY OpOfFacts DEF DocOK
<1>2. IsOp(d.ops[n]) /\ Known(d.ops[n]) /\ IsDocument(d)
  BY DEF DocOK, SideOK, QueueOK, QueueSeen
<1>3. ASSUME NEW o, Known(o) PROVE QueueSeen(Changed(d, k, o))
  <2>1. \A i \in DOMAIN Changed(d, k, o) :
          i \in DOMAIN d.ops /\ Changed(d, k, o)[i] \in {o, d.ops[i]}
    BY DEF Changed
  <2>2. QED
    BY <1>3, <2>1 DEF QueueSeen
<1>4. Known([OpOf(d, k) EXCEPT !.state = "sent"]) /\ Known([OpOf(d, k) EXCEPT !.retried = TRUE])
  <2>1. PICK o : o = d.ops[n]
    OBVIOUS
  <2>2. Known([o EXCEPT !.state = "sent"]) /\ Known([o EXCEPT !.retried = TRUE])
    <3>1. IsRecord(o, {"key", "op", "text", "pre", "after", "state", "retried", "knew"}) /\ Known(o)
      BY <1>2, <2>1 DEF IsOp
    <3>2. /\ [o EXCEPT !.state = "sent"].pre = o.pre /\ [o EXCEPT !.state = "sent"].knew = o.knew
          /\ [o EXCEPT !.retried = TRUE].pre = o.pre /\ [o EXCEPT !.retried = TRUE].knew = o.knew
      BY <3>1 DEF IsRecord
    <3>3. QED
      BY <3>1, <3>2 DEF Known
  <2>3. QED
    BY <1>1, <2>1, <2>2
<1>5. /\ Prepare(d, k).ops = Changed(d, k, [OpOf(d, k) EXCEPT !.state = "sent"])
      /\ Defer(d, k).ops = Changed(d, k, [OpOf(d, k) EXCEPT !.retried = TRUE])
  BY <1>2 DEF Prepare, Defer, IsDocument, IsRecord
<1>6. QED
  BY <1>3, <1>4, <1>5

\* What follows a settled operation continues from its revision.
LEMMA SeenResolve ==
  ASSUME NEW d, NEW f, NEW w, DocOK(d, f, w), QueueSeen(d.ops), NEW k, NEW receipt, Own(receipt.rev)
  PROVE  QueueSeen(Resolve(d, k, receipt).ops)
<1> DEFINE stale == IF d.base = receipt THEN {} ELSE Dependents(d, k)
           rest == Without(d, {k} \cup stale)
<1>1. Resolve(d, k, receipt).ops = [i \in DOMAIN rest |-> Rebased(rest[i], receipt)]
  BY DEF Resolve, DocOK, SideOK, IsDocument, IsRecord
<1>2. QueueSeen(rest) /\ QueueOK(rest, f, w)
  <2>1. QueueOK(d.ops, f, w) /\ IsSeq(d.ops)
    BY DEF DocOK, QueueOK
  <2>2. \A ks : QueueSeen(Without(d, ks)) /\ QueueOK(Without(d, ks), f, w)
    BY <2>1, SeenWithout, QueueWithout
  <2>3. QED
    BY <2>2
<1> HIDE DEF rest
<1>3. ASSUME NEW o, IsOp(o), Known(o) PROVE Known(Rebased(o, receipt))
  <2>1. \/ Rebased(o, receipt).pre = o.pre \/ Rebased(o, receipt).pre = receipt.rev
    BY <1>3 DEF Rebased, IsOp, IsRecord
  <2>2. Rebased(o, receipt).knew = o.knew
    BY <1>3 DEF Rebased, IsOp, IsRecord
  <2>3. QED
    BY <1>3, <2>1, <2>2 DEF Known, Own
<1>4. \A i \in DOMAIN rest : Known(Rebased(rest[i], receipt))
  BY <1>2, <1>3 DEF QueueSeen, QueueOK
<1>5. QED
  BY <1>1, <1>4 DEF QueueSeen

\* A document with such a queue over the base of the one in memory.
Fits(d) == QueueSeen(d.ops) /\ d.base = mem.base

\* The documents that the actions write.
LEMMA SeenDocs ==
  ASSUME JournalInv, SeenInv
  PROVE  /\ Fits(mem) /\ Fits(MarkCopied(mem)) /\ Fits(EndApply(mem)) /\ Fits(BindEpoch(mem))
         /\ Fits([mem EXCEPT !.refused = TRUE])
         /\ \A text : Fits(Expect(mem, text)) /\ Fits(NameCopy(mem, text))
         /\ \A c : Fits(SetCheckpoint(mem, c)) /\ Fits(SetCursor(mem, c))
         /\ \A row, text : Fits(BeginApply(mem, row, text)) /\ Fits(RebaseApply(mem, row, text))
         /\ \A o : Known(o) => Fits(Enqueue(mem, o))
         /\ \A k \in Keys(mem) : Fits(Prepare(mem, k)) /\ Fits(Defer(mem, k))
         /\ \A k : /\ Fits(DiscardQueued(mem, k)) /\ Fits(RecordQueuedRejected(mem, k))
                   /\ Fits(RecordRejected(mem, k)) /\ Fits(ResolveAlone(mem, k))
         /\ \A k, receipt : Own(receipt.rev) => Fits(Resolve(mem, k, receipt))
<1>1. /\ DocOK(mem, feed, wire) /\ IsDocument(mem) /\ IsSeq(mem.ops) /\ QueueSeen(mem.ops)
      /\ IsRecord(mem.apply, {"row", "rev", "text", "step", "copy"})
  BY DEF JournalInv, DocOK, SideOK, IsApply, QueueOK, SeenInv, DocSeen
<1>2. \A ks : QueueSeen(Without(mem, ks))
  BY <1>1, SeenWithout
<1>3. \A s, kept : QueueSeen(s) => Fits([mem EXCEPT !.ops = s, !.kept = kept])
  BY <1>1 DEF Fits, IsDocument, IsRecord
<1>4. \A s : QueueSeen(s) => Fits([mem EXCEPT !.ops = s])
  BY <1>1 DEF Fits, IsDocument, IsRecord
<1>5. Fits(mem) /\ Fits(MarkCopied(mem)) /\ Fits(EndApply(mem)) /\ Fits([mem EXCEPT !.refused = TRUE])
  BY <1>1 DEF Fits, IsDocument, IsRecord, MarkCopied, EndApply
<1>6. \A text : Fits(Expect(mem, text)) /\ Fits(NameCopy(mem, text))
  BY <1>1 DEF Fits, IsDocument, IsRecord, Expect, NameCopy
<1>7. \A c : Fits(SetCheckpoint(mem, c)) /\ Fits(SetCursor(mem, c))
  BY <1>1 DEF Fits, IsDocument, IsRecord, SetCheckpoint, SetCursor
<1>8. \A row, text : Fits(BeginApply(mem, row, text)) /\ Fits(RebaseApply(mem, row, text))
  BY <1>1 DEF Fits, IsDocument, IsRecord, BeginApply, RebaseApply
<1>9. Fits(BindEpoch(mem))
  <2>1. BindEpoch(mem).ops = <<>> /\ BindEpoch(mem).base = mem.base
    BY <1>1 DEF IsDocument, IsRecord, BindEpoch
  <2>2. QED
    BY <2>1 DEF Fits, QueueSeen
<1>10. ASSUME NEW o, Known(o) PROVE Fits(Enqueue(mem, o))
  <2>1. Enqueue(mem, o).base = mem.base
    BY <1>1 DEF Enqueue, IsDocument, IsRecord
  <2>2. QED
    BY <1>1, <1>10, <2>1, SeenEnqueue DEF Fits
<1>11. \A k \in Keys(mem) : Fits(Prepare(mem, k)) /\ Fits(Defer(mem, k))
  <2>1. \A k : Prepare(mem, k).base = mem.base /\ Defer(mem, k).base = mem.base
    BY <1>1 DEF Prepare, Defer, IsDocument, IsRecord
  <2>2. QED
    BY <1>1, <2>1, SeenChanged DEF Fits
<1>12. \A k : /\ Fits(DiscardQueued(mem, k)) /\ Fits(RecordQueuedRejected(mem, k))
              /\ Fits(RecordRejected(mem, k)) /\ Fits(ResolveAlone(mem, k))
  BY <1>2, <1>3, <1>4 DEF DiscardQueued, RecordQueuedRejected, RecordRejected, ResolveAlone
<1>13. ASSUME NEW k, NEW receipt, Own(receipt.rev) PROVE Fits(Resolve(mem, k, receipt))
  <2>1. Resolve(mem, k, receipt).base = mem.base
    BY <1>1 DEF Resolve, IsDocument, IsRecord
  <2>2. QED
    BY <1>1, <1>13, <2>1, SeenResolve DEF Fits
<1>14. QED
  BY <1>5, <1>6, <1>7, <1>8, <1>9, <1>10, <1>11, <1>12, <1>13

-----------------------------------------------------------------------------
(* Steps that leave the file and the history variables alone.               *)

\* Events may be taken.
Fewer == \A i \in DOMAIN events' : \E j \in DOMAIN events : events'[i] = events[j]

LEMMA SeenStep ==
  ASSUME SeenInv, NEW d, DocSeen(d), Waiting(d.base), UNCHANGED <<local, feed, history>>, Fewer,
         disk' \in {disk, d}, mem' \in {mem, d}, \A q \in wire' : Known(q),
         reply' \in {reply, NoReply}, TaskSeen(task', mem', blocked')
  PROVE  SeenInv'
<1>1. UNCHANGED <<knew, shown, adopted, undone>>
  BY DEF history
<1>2. \A rev, k : Unseen(rev, k)' <=> Unseen(rev, k)
  BY <1>1 DEF Unseen, Head_
<1>3. \A o : Known(o) => Known(o)'
  BY <1>2 DEF Known, Head_
<1>4. \A b : (HeldBase(b) => HeldBase(b)') /\ (Waiting(b) => Waiting(b)')
  BY <1>1, <1>2 DEF HeldBase, Waiting, Fewer
<1>5. \A e : DocSeen(e) => DocSeen(e)'
  BY <1>3, <1>4 DEF DocSeen, QueueSeen
<1>6. \A t, e, b : TaskSeen(t, e, b) => TaskSeen(t, e, b)'
  BY <1>1, <1>2 DEF TaskSeen, Landed
<1>7. DocSeen(mem') /\ DocSeen(disk') /\ Waiting(mem'.base)
  BY DEF SeenInv
<1>8. /\ DocSeen(mem)' /\ DocSeen(disk)' /\ Waiting(mem.base)'
      /\ TaskSeen(task, mem, blocked)'
  BY <1>4, <1>5, <1>6, <1>7
<1>9. /\ \A q \in wire' : Known(q)'
      /\ (reply > 0 => reply <= Head_ /\ feed[reply].key # NoKey)'
  BY <1>3 DEF SeenInv, NoReply, Head_
<1>10. QED
  BY <1>1, <1>8, <1>9 DEF SeenInv

\* The ways in which actions write the journal over the same base.
LEMMA SeenForms ==
  ASSUME JournalInv, SeenInv, UNCHANGED <<local, feed, wire, reply, history>>, Fewer, NEW next
  PROVE  /\ \A d, failed : /\ Fits(d) /\ TaskSeen(next, d, FALSE) /\ failed.pc \notin Special
                           /\ SaveOr(d, next, failed)
                           => SeenInv'
         /\ \A d : Fits(d) /\ TaskSeen(next, d, FALSE) /\ Save(d, next) => SeenInv'
         /\ next.pc \notin Special =>
              /\ \A d : Fits(d) /\ Save(d, next) => SeenInv'
              /\ \A c : Checked(c, next) => SeenInv'
              /\ NoteAttention(next) => SeenInv'
              /\ ClearExpected(next) => SeenInv'
         /\ TaskSeen(next, mem, blocked) /\ UNCHANGED journal /\ task' = next => SeenInv'
<1>1. \A d : Fits(d) => DocSeen(d) /\ Waiting(d.base)
  BY DEF Fits, SeenInv, DocSeen
<1>2. ASSUME NEW d, NEW failed, Fits(d), TaskSeen(next, d, FALSE), failed.pc \notin Special,
             SaveOr(d, next, failed)
      PROVE  SeenInv'
  <2>1. disk' \in {disk, d} /\ mem' \in {mem, d}
    BY <1>2 DEF SaveOr
  <2>2. TaskSeen(task', mem', blocked')
    <3>1. TaskSeen(failed, mem, TRUE)
      BY <1>2, OrdinaryTask
    <3>2. QED
      BY <1>2, <3>1 DEF SaveOr
  <2>3. QED
    BY <1>1, <1>2, <2>1, <2>2, SeenStep DEF SeenInv
<1>3. \A d : Fits(d) /\ TaskSeen(next, d, FALSE) /\ Save(d, next) => SeenInv'
  BY <1>2, SeenTasks DEF Save
<1>4. ASSUME TaskSeen(next, mem, blocked), UNCHANGED journal, task' = next PROVE SeenInv'
  <2>1. UNCHANGED <<mem, disk, blocked>>
    BY <1>4 DEF journal
  <2>2. DocSeen(mem) /\ Waiting(mem.base) /\ TaskSeen(task', mem', blocked')
    BY <1>4, <2>1 DEF SeenInv
  <2>3. QED
    BY <2>1, <2>2, SeenStep DEF SeenInv
<1>5. ASSUME next.pc \notin Special
      PROVE  /\ \A d : Fits(d) /\ Save(d, next) => SeenInv'
             /\ \A c : Checked(c, next) => SeenInv'
             /\ NoteAttention(next) => SeenInv'
             /\ ClearExpected(next) => SeenInv'
  <2>1. \A d : Fits(d) /\ Save(d, next) => SeenInv'
    BY <1>3, <1>5, OrdinaryTask
  <2>2. (\A c : Checked(c, next) => SeenInv') /\ (NoteAttention(next) => SeenInv')
    BY <2>1, SeenDocs DEF Checked, NoteAttention
  <2>3. ClearExpected(next) => SeenInv'
    <3>1. Fits(Expect(mem, Absent)) /\ TaskSeen(next, mem, blocked)
      BY <1>5, SeenDocs, OrdinaryTask
    <3>2. QED
      BY <1>4, <2>1, <3>1 DEF ClearExpected, journal
  <2>4. QED
    BY <2>1, <2>2, <2>3
<1>6. QED
  BY <1>2, <1>3, <1>4, <1>5

\* What may be queued over the base.
LEMMA SeenBase ==
  ASSUME JournalInv, SeenInv
  PROVE  /\ mem.base.rev \in Int /\ mem.base.rev <= Head_ /\ 0 <= Head_ /\ Head_ \in Int
         /\ Unseen(mem.base.rev, knew) => Live(mem.base)
         /\ local # Absent /\ ~InSync => ~Unseen(mem.base.rev, knew)
         /\ ~Unseen(mem.base.rev, knew) => \A text : Known(NewPut(mem, text))
         /\ \A text : Known([NewPut(mem, text) EXCEPT !.pre = 0])
         /\ \A d, k : /\ k # NoKey => Known(NewDelete(d, k))
                      /\ ~Unseen(mem.base.rev, knew) /\ d.base = mem.base => Known(NewDelete(d, k))
         /\ \A rev \in Int : rev <= Head_ /\ (rev > 0 => feed[rev].key # NoKey) => Own(rev)
         /\ \A rev \in Int : rev <= Head_ /\ rev \in adopted => Own(rev)
<1>1. /\ IsBase(mem.base, feed) /\ Len(feed) \in Nat /\ knew \in Int
  BY MemFacts DEF SeenInv
<1>2. mem.base.rev \in Int /\ mem.base.rev <= Head_ /\ 0 <= Head_ /\ Head_ \in Int
  BY <1>1 DEF IsBase, TrueRow, Head_
<1>3. Unseen(mem.base.rev, knew) => Live(mem.base)
  BY <1>1 DEF IsBase, TrueRow, Unseen, Live
<1>4. local # Absent /\ ~InSync => ~Unseen(mem.base.rev, knew)
  BY <1>3 DEF InSync, SeenInv, DocSeen, HeldBase
<1>5. \A text : NewPut(mem, text).pre = mem.base.rev /\ NewPut(mem, text).knew = knew
  BY DEF NewPut, Operation
<1>6. ASSUME NEW text PROVE Known([NewPut(mem, text) EXCEPT !.pre = 0])
  <2>1. /\ [NewPut(mem, text) EXCEPT !.pre = 0].pre = 0
        /\ [NewPut(mem, text) EXCEPT !.pre = 0].knew = knew
    BY DEF NewPut, Operation
  <2>2. QED
    BY <1>1, <1>2, <2>1 DEF Known, Unseen
<1>7. ASSUME NEW d, NEW k
      PROVE  /\ k # NoKey => Known(NewDelete(d, k))
             /\ ~Unseen(mem.base.rev, knew) /\ d.base = mem.base => Known(NewDelete(d, k))
  <2>1. /\ NewDelete(d, k).knew = knew
        /\ NewDelete(d, k).pre = IF k = NoKey THEN d.base.rev ELSE 0
    BY DEF NewDelete, Operation
  <2>2. QED
    BY <1>1, <1>2, <2>1 DEF Known, Unseen
<1>8. ~Unseen(mem.base.rev, knew) => \A text : Known(NewPut(mem, text))
  BY <1>1, <1>2, <1>5 DEF Known
<1>9. /\ \A rev \in Int : rev <= Head_ /\ (rev > 0 => feed[rev].key # NoKey) => Own(rev)
      /\ \A rev \in Int : rev <= Head_ /\ rev \in adopted => Own(rev)
  BY DEF Own, Unseen
<1>10. QED
  BY <1>2, <1>3, <1>4, <1>6, <1>7, <1>8, <1>9

\* A base that is known, or whose text the file holds.
LEMMA SeenSave ==
  ASSUME JournalInv, SeenInv, UNCHANGED <<local, feed, wire, reply, history>>, Fewer,
         NEW d, NEW next, NEW failed, SaveOr(d, next, failed), QueueSeen(d.ops),
         Own(d.base.rev) \/ (d.base.rev <= shown /\ local = d.base.text) \/ ~Unseen(d.base.rev, knew),
         next.pc \notin Special, failed.pc \notin Special
  PROVE  SeenInv'
<1>1. DocSeen(d) /\ Waiting(d.base)
  BY DEF DocSeen, HeldBase, Waiting, Own
<1>2. TaskSeen(task', mem', blocked')
  BY OrdinaryTask DEF SaveOr
<1>3. disk' \in {disk, d} /\ mem' \in {mem, d}
  BY DEF SaveOr
<1>4. QED
  BY <1>1, <1>2, <1>3, SeenStep DEF SeenInv

-----------------------------------------------------------------------------
(* The steps of an apply.                                                   *)

LEMMA QuietFiles ==
  ASSUME NoEffect
  PROVE  UNCHANGED <<local, feed, wire, reply, history>> /\ Fewer
BY DEF NoEffect, ApplyFrame, files, remote, history, Fewer

\* Beginning and resuming an apply.
LEMMA BeginSeen ==
  ASSUME JournalInv, SeenInv, Rebase \/ Begin \/ Resume \/ Begun
  PROVE  SeenInv'
<1>1. /\ UNCHANGED <<local, feed, wire, reply, history>> /\ Fewer
      /\ task.pc # "idle"
  BY QuietFiles DEF Rebase, Begin, Resume, Begun
<1>2. /\ \A pc : At(pc).pc = pc
      /\ \A pc : pc \notin Special => At(pc).pc \notin Special
      /\ Idle.pc \notin Special
  BY <1>1, SeenTasks
<1>3. "begun" \notin Special /\ RowDone.pc \notin Special
  BY <1>2 DEF Special, RowDone
<1>4. CASE Rebase
  <2>1. Fits(RebaseApply(mem, Head_, feed[Head_].text))
    BY SeenDocs
  <2>2. /\ mem' = RebaseApply(mem, Head_, feed[Head_].text) /\ disk' = mem'
        /\ task' = At("begun")
    BY <1>4 DEF Rebase, Goto
  <2>3. TaskSeen(task', mem', blocked')
    BY <1>2, <1>3, <2>2, OrdinaryTask
  <2>4. DocSeen(mem') /\ Waiting(mem'.base)
    BY <2>1, <2>2 DEF Fits, SeenInv, DocSeen
  <2>5. QED
    BY <1>1, <2>2, <2>3, <2>4, SeenStep DEF SeenInv
<1>5. CASE Begin
  <2>1. \/ Save(BeginApply(mem, task.row, feed[task.row].text), At("begun"))
        \/ UNCHANGED journal /\ task' = Idle
        \/ UNCHANGED journal /\ task' = At("begun")
    BY <1>5 DEF Begin
  <2>2. \A b : TaskSeen(Idle, mem, b) /\ TaskSeen(At("begun"), mem, b)
    BY <1>2, <1>3, OrdinaryTask
  <2>3. Fits(BeginApply(mem, task.row, feed[task.row].text))
    BY SeenDocs
  <2>4. QED
    BY <1>1, <1>2, <1>3, <2>1, <2>2, <2>3, SeenForms
<1>6. CASE Resume
  <2>1. UNCHANGED journal
    BY <1>6 DEF Resume
  <2>2. task'.pc \in {"manifest", "read_page", "begun"}
    <3>1. CASE task' = At("manifest")
      BY <1>2, <3>1
    <3>2. CASE task' # At("manifest")
      <4>1. PICK pc \in {"read_page", "begun"} : task' = [At(pc) EXCEPT !.row = a.row]
        BY <1>6, <3>2 DEF Resume
      <4>2. PICK t : t = At(pc)
        OBVIOUS
      <4>3. IsRecord(t, {"pc", "rest", "row", "head", "seen", "key", "keys", "spare", "for"})
        BY <1>1, <4>2, TaskFacts DEF IsTask
      <4>4. task'.pc = t.pc
        BY <4>1, <4>2, <4>3 DEF IsRecord
      <4>5. QED
        BY <1>2, <4>2, <4>4
    <3>3. QED
      BY <3>1, <3>2
  <2>3. \A d, b : TaskSeen(task', d, b)
    BY <2>2, OrdinaryTask DEF Special
  <2>4. QED
    BY <1>1, <2>1, <2>3, SeenForms
<1>7. CASE Begun
  <2>1. \/ Save(EndApply(mem), RowDone)
        \/ UNCHANGED journal /\ task' \in {At("decide"), At("copy"), At("finish")}
    <3>1. a.step \in {"prepared", "named", "copied"}
      BY <1>7, MemFacts DEF Begun, JournalInv, TaskInv, DocOK, SideOK, IsApply, a
    <3>2. QED
      BY <1>7, <3>1 DEF Begun, Goto
  <2>2. {"decide", "copy", "finish"} \cap Special = {}
    BY DEF Special
  <2>3. QED
    BY <1>1, <1>2, <1>3, <2>1, <2>2, SeenDocs, SeenForms, OrdinaryTask
<1>8. QED
  BY <1>4, <1>5, <1>6, <1>7

\* Writes of the journal between the effects on the file.
LEMMA ConflictSeen ==
  ASSUME JournalInv, SeenInv,
         RefusedWrite \/ StartConflict \/ MarkCopy \/ CopyAttended \/ AttendRefused \/ CreateCopy
  PROVE  SeenInv'
<1>1. UNCHANGED <<local, feed, wire, reply, history>> /\ Fewer /\ task.pc # "idle"
  <2>1. CASE ~CreateCopy
    BY <2>1, QuietFiles DEF RefusedWrite, StartConflict, MarkCopy, CopyAttended, AttendRefused
  <2>2. CASE CreateCopy
    BY <2>2 DEF CreateCopy, ApplyFrame, remote, history, Fewer
  <2>3. QED
    BY <2>1, <2>2
<1>2. /\ \A pc : pc \notin Special => At(pc).pc \notin Special
      /\ \A pc, text : pc \notin Special => Saw(pc, text).pc \notin Special
      /\ Idle.pc \notin Special
  BY <1>1, SeenTasks
<1>3. /\ \A pc \in {"copy", "check", "finish", "attend", "row_done"} : At(pc).pc \notin Special
      /\ \A text : Saw("conflict", text).pc \notin Special
      /\ RowDone.pc \notin Special
  BY <1>2 DEF Special, RowDone
<1>4. CASE RefusedWrite
  BY <1>1, <1>2, <1>3, <1>4, SeenForms DEF RefusedWrite
<1>5. CASE StartConflict
  BY <1>1, <1>3, <1>5, SeenForms, SeenDocs DEF StartConflict
<1>6. CASE MarkCopy
  BY <1>1, <1>3, <1>6, SeenForms, SeenDocs DEF MarkCopy
<1>7. CASE CopyAttended \/ AttendRefused
  <2>1. NoteAttention(RowDone) \/ ClearExpected(At("attend"))
    BY <1>7 DEF CopyAttended, AttendRefused, Attended
  <2>2. QED
    BY <1>1, <1>3, <2>1, SeenForms
<1>8. CASE CreateCopy
  <2>1. UNCHANGED journal /\ task' = At("check")
    BY <1>8 DEF CreateCopy, Goto
  <2>2. QED
    BY <1>1, <1>3, <2>1, SeenForms, OrdinaryTask
<1>9. QED
  BY <1>4, <1>5, <1>6, <1>7, <1>8

\* The trash, and what follows a copy.
LEMMA TrashSeen ==
  ASSUME JournalInv, SeenInv, Trash \/ Trashed \/ Finish
  PROVE  SeenInv'
<1>1. UNCHANGED <<local, feed, wire, reply, history>> /\ Fewer /\ task.pc # "idle"
  BY QuietFiles DEF Trash, Trashed, Finish
<1>2. /\ \A pc : At(pc).pc = pc /\ \A text : Saw(pc, text).pc = pc
      /\ Idle.pc \notin Special
  BY <1>1, SeenTasks
<1>3. /\ \A pc \in {"attend", "row_done"} : At(pc).pc \notin Special
      /\ RowDone.pc \notin Special
  BY <1>2 DEF Special, RowDone
<1>4. ASSUME NEW t, t.pc \in {"trash", "trashing", "trashed", "complete"}, a.text = Absent
      PROVE  \A b : TaskSeen(t, mem, b)
  BY <1>4 DEF TaskSeen, Landed, a
<1>5. CASE Trash \/ Trashed
  <2>1. a.text = Absent
    BY <1>5 DEF Trash, Trashed, SeenInv, TaskSeen, a
  <2>2. UNCHANGED journal /\ task' \in {At("trashing"), At("complete"), At("attend"), Idle}
    BY <1>5 DEF Trash, Trashed, Goto
  <2>3. TaskSeen(task', mem, blocked)
    BY <1>2, <1>3, <1>4, <2>1, <2>2, OrdinaryTask
  <2>4. QED
    BY <1>1, <2>2, <2>3, SeenForms
<1>6. CASE Finish
  <2>1. \/ NoteAttention(RowDone)
        \/ Save(Expect(mem, a.text), Saw("write", local))
        \/ /\ UNCHANGED journal /\ a.text = Absent
           /\ task' \in {Saw("complete", local), Saw("trash", local)}
    BY <1>6 DEF Finish, Attended
  <2>2. TaskSeen(Saw("write", local), Expect(mem, a.text), FALSE)
    BY <1>2 DEF TaskSeen
  <2>3. a.text = Absent =>
          \A pc \in {"complete", "trash"} : TaskSeen(Saw(pc, local), mem, blocked)
    BY <1>2, <1>4
  <2>4. QED
    BY <1>1, <1>3, <2>1, <2>2, <2>3, SeenForms, SeenDocs
<1>7. QED
  BY <1>5, <1>6

\* Revisions that the file comes to hold, or that are taken for the first upload.
Risen ==
  /\ UNCHANGED <<local, feed, knew>> /\ shown' \in Int /\ shown <= shown'
  /\ adopted \subseteq adopted' /\ undone \subseteq undone'

\* What was seen stays seen.
LEMMA SeenLonger ==
  ASSUME JournalInv, SeenInv, Risen
  PROVE  /\ \A rev, k : Unseen(rev, k)' => Unseen(rev, k)
         /\ \A o : Known(o) => Known(o)'
         /\ \A s : QueueSeen(s) => QueueSeen(s)'
         /\ \A b : HeldBase(b) => HeldBase(b)'
         /\ Fewer => \A b : Waiting(b) => Waiting(b)'
         /\ \A t, d, b : TaskSeen(t, d, b) => TaskSeen(t, d, b)'
         /\ Head_' = Head_
<1>1. \A rev, k : Unseen(rev, k)' => Unseen(rev, k)
  BY DEF Unseen, Head_, Risen
<1>2. \A o : Known(o) => Known(o)'
  BY <1>1 DEF Known, Head_, Risen
<1>3. \A s : QueueSeen(s) => QueueSeen(s)'
  BY <1>2 DEF QueueSeen
<1>4. ASSUME NEW b, HeldBase(b) PROVE HeldBase(b)'
  <2>1. UNCHANGED <<local, knew>> /\ shown <= shown' /\ shown \in Int /\ shown' \in Int
    BY DEF Risen, SeenInv
  <2>2. SUFFICES ASSUME Unseen(b.rev, knew)' PROVE b.rev <= shown' /\ local' \in {b.text, Absent}
    BY DEF HeldBase
  <2>3. Unseen(b.rev, knew)
    BY <1>1, <2>1, <2>2
  <2>4. b.rev \in Int
    BY <2>3, EndFacts DEF Unseen, Head_
  <2>5. QED
    BY <1>4, <2>1, <2>3, <2>4 DEF HeldBase
<1>5. Fewer => \A b : Waiting(b) => Waiting(b)'
  BY <1>1 DEF Waiting, Fewer, Risen
<1>6. \A t, d, b : TaskSeen(t, d, b) => TaskSeen(t, d, b)'
  BY <1>1 DEF TaskSeen, Landed, Risen, SeenInv
<1>7. QED
  BY <1>1, <1>2, <1>3, <1>4, <1>5, <1>6 DEF Head_, Risen

\* A step under which the file stays, and the document in memory or on disk becomes d.
LEMMA SeenMoves ==
  ASSUME JournalInv, SeenInv, Risen, Fewer, UNCHANGED <<wire, reply>>, NEW d, QueueSeen(d.ops),
         HeldBase(d.base)', Waiting(d.base)', disk' \in {disk, d}, mem' \in {mem, d},
         TaskSeen(task, mem, blocked)'
  PROVE  SeenInv'
<1>1. /\ \A o : Known(o) => Known(o)'
      /\ \A s : QueueSeen(s) => QueueSeen(s)'
      /\ \A b : HeldBase(b) => HeldBase(b)'
      /\ \A b : Waiting(b) => Waiting(b)'
  BY SeenLonger
<1>2. \A e \in {mem, disk, d} : DocSeen(e)'
  BY <1>1 DEF SeenInv, DocSeen
<1>3. DocSeen(mem)' /\ DocSeen(disk)'
  BY <1>2 DEF DocSeen
<1>4. Waiting(mem.base)'
  BY <1>1 DEF SeenInv
<1>5. \A q \in wire' : Known(q)'
  BY <1>1 DEF SeenInv
<1>6. knew' \in Int /\ shown' \in Int /\ knew' <= shown'
  BY DEF SeenInv, Risen
<1>7. reply' > 0 => reply' <= Head_' /\ feed'[reply'].key # NoKey
  BY DEF SeenInv, Risen, Head_
<1>8. QED
  BY <1>3, <1>4, <1>5, <1>6, <1>7 DEF SeenInv

\* The file holds the text that the apply completes with, or is decided on.
LEMMA CompletedBase ==
  ASSUME JournalInv
  PROVE  /\ CompleteApply(mem).ops = mem.ops
         /\ CompleteApply(mem).base = [rev |-> a.rev, text |-> a.text]
         /\ a.text = Absent => \A k : ~Unseen(a.rev, k)
         /\ a.rev \in Int /\ a.rev <= Head_
<1>1. IsDocument(mem) /\ a.rev \in Int /\ TrueRow(a.rev, a.text, feed) /\ Len(feed) \in Nat
  BY MemFacts
<1>2. /\ CompleteApply(mem).ops = mem.ops
      /\ CompleteApply(mem).base = [rev |-> a.rev, text |-> a.text]
  BY <1>1 DEF CompleteApply, EndApply, IsDocument, IsRecord, a
<1>3. QED
  BY <1>1, <1>2 DEF TrueRow, Unseen, Head_

LEMMA CompleteSeen ==
  ASSUME JournalInv, SeenInv, Complete
  PROVE  SeenInv'
<1>1. /\ UNCHANGED <<local, feed, wire, reply, history>> /\ Fewer /\ task.pc # "idle"
      /\ Landed(a)
  BY QuietFiles DEF Complete, SeenInv, TaskSeen, a
<1>2. Idle.pc \notin Special /\ RowDone.pc \notin Special
  BY <1>1, SeenTasks DEF RowDone, Special
<1>3. CASE UNCHANGED journal /\ task' = Idle
  BY <1>1, <1>2, <1>3, SeenForms, OrdinaryTask
<1>4. CASE Save(CompleteApply(mem), RowDone)
  <2> DEFINE d == CompleteApply(mem)
  <2>1. d.ops = mem.ops /\ d.base.rev = a.rev /\ d.base.text = a.text
    BY CompletedBase
  <2>2. SaveOr(d, RowDone, Idle)
    BY <1>4 DEF Save
  <2> HIDE DEF d
  <2>3. \/ Own(d.base.rev) \/ (d.base.rev <= shown /\ local = d.base.text)
        \/ ~Unseen(d.base.rev, knew)
    BY <1>1, <2>1, CompletedBase DEF Landed, Own, Unseen, SeenInv
  <2>4. QueueSeen(d.ops)
    BY <2>1 DEF SeenInv, DocSeen
  <2>5. QED
    BY <1>1, <1>2, <2>2, <2>3, <2>4, SeenSave
<1>5. QED
  BY <1>3, <1>4 DEF Complete

\* The newest revision that the file has held.
LEMMA HoldsRises ==
  ASSUME JournalInv, SeenInv, NEW rev \in Int
  PROVE  Holds(rev) => shown' \in Int /\ shown <= shown' /\ rev <= shown'
BY DEF Holds, SeenInv

LEMMA DecideSeen ==
  ASSUME JournalInv, SeenInv, Decide
  PROVE  SeenInv'
<1>1. /\ UNCHANGED <<local, feed, wire, reply, mine, knew, adopted, undone, events>> /\ Fewer
      /\ task.pc # "idle"
  BY DEF Decide, ApplyFrame, files, remote, Fewer
<1>2. /\ \A pc, text : Saw(pc, text).pc = pc
      /\ RowDone.pc \notin Special /\ At("copy").pc \notin Special
      /\ Idle.pc \notin Special
  BY <1>1, SeenTasks DEF RowDone, Special
<1>3. CASE local = a.text
  <2>1. PICK d : d = CompleteApply(mem)
    OBVIOUS
  <2>2. SaveOr(d, RowDone, Idle) /\ (IF local = Absent THEN UNCHANGED shown ELSE Holds(a.rev))
    BY <1>3, <2>1 DEF Decide, Save
  <2>3. /\ d.ops = mem.ops /\ d.base.rev = a.rev /\ d.base.text = a.text
        /\ a.rev \in Int /\ (d.base.text = Absent => ~Unseen(d.base.rev, knew))
    BY <2>1, CompletedBase
  <2>4. Risen /\ (local = Absent \/ a.rev <= shown')
    BY <1>1, <2>2, <2>3, HoldsRises DEF Risen, SeenInv
  <2>5. HeldBase(d.base)' /\ Waiting(d.base)'
    <3>1. CASE d.base.text = Absent
      <4>1. ~Unseen(d.base.rev, knew)'
        BY <1>1, <2>3, <2>4, <3>1, SeenLonger
      <4>2. QED
        BY <4>1 DEF HeldBase, Waiting
    <3>2. CASE d.base.text # Absent
      <4>1. d.base.rev <= shown' /\ local' = d.base.text
        BY <1>1, <1>3, <2>3, <2>4, <3>2
      <4>2. QED
        BY <4>1 DEF HeldBase, Waiting
    <3>3. QED
      BY <3>1, <3>2
  <2>6. task'.pc \notin Special
    BY <1>2, <2>2 DEF SaveOr
  <2>7. TaskSeen(task, mem, blocked)'
    BY <2>6 DEF TaskSeen, Special
  <2>8. disk' \in {disk, d} /\ mem' \in {mem, d} /\ QueueSeen(d.ops)
    BY <2>2, <2>3 DEF SaveOr, SeenInv, DocSeen
  <2>9. QED
    BY <1>1, <2>4, <2>5, <2>7, <2>8, SeenMoves
<1>4. CASE local # a.text
  <2>1. \/ Save(Expect(mem, a.text), Saw("write", Absent)) /\ UNCHANGED shown
        \/ /\ a.text = Absent /\ task' = Saw("trash", local) /\ UNCHANGED journal
           /\ UNCHANGED shown
        \/ Save(Expect(mem, a.text), Saw("write", local)) /\ UNCHANGED shown
        \/ Save(NameCopy(mem, local), At("copy")) /\ UNCHANGED shown
    <3>1. CASE local = Absent
      BY <1>4, <3>1 DEF Decide
    <3>2. CASE local # Absent /\ Clean(local)
      BY <1>4, <3>2 DEF Decide
    <3>3. CASE local # Absent /\ ~Clean(local)
      BY <1>4, <3>3 DEF Decide
    <3>4. QED
      BY <3>1, <3>2, <3>3
  <2>2. UNCHANGED history
    BY <1>1, <2>1 DEF history
  <2>3. \A text : TaskSeen(Saw("write", text), Expect(mem, a.text), FALSE)
    BY <1>2 DEF TaskSeen
  <2>4. a.text = Absent => TaskSeen(Saw("trash", local), mem, blocked)
    BY <1>2 DEF TaskSeen, a
  <2>5. QED
    BY <1>1, <1>2, <2>1, <2>2, <2>3, <2>4, SeenForms, SeenDocs
<1>5. QED
  BY <1>3, <1>4

LEMMA ReadBackSeen ==
  ASSUME JournalInv, SeenInv, ReadBack
  PROVE  SeenInv'
<1>1. /\ UNCHANGED <<local, feed, wire, reply, mine, knew, adopted, undone, events, mem, disk, blocked>>
      /\ Fewer /\ task.pc # "idle"
  BY DEF ReadBack, ApplyFrame, files, remote, journal, Fewer
<1>2. a.rev \in Int
  BY MemFacts
<1>3. Risen /\ (local = a.text => a.rev <= shown')
  BY <1>1, <1>2, HoldsRises DEF ReadBack, Risen, SeenInv
<1>4. /\ \A b : HeldBase(b) => HeldBase(b)'
      /\ \A b : Waiting(b) => Waiting(b)'
  BY <1>1, <1>3, SeenLonger
<1>5. HeldBase(mem.base)' /\ Waiting(mem.base)'
  BY <1>1, <1>4 DEF SeenInv, DocSeen
<1>6. TaskSeen(task, mem, blocked)'
  <2>1. \A pc : At(pc).pc = pc
    BY <1>1, SeenTasks
  <2>2. CASE local = a.text
    <3>1. task'.pc = "complete"
      BY <2>1, <2>2 DEF ReadBack
    <3>2. QED
      BY <1>1, <1>2, <1>3, <2>2, <3>1 DEF TaskSeen, Landed, a
  <2>3. CASE local # a.text
    <3>1. task'.pc \in {"refused", "attend", "clear"}
      BY <2>1, <2>3 DEF ReadBack
    <3>2. QED
      BY <3>1 DEF TaskSeen
  <2>4. QED
    BY <2>2, <2>3
<1>7. QED
  BY <1>1, <1>3, <1>5, <1>6, SeenMoves DEF SeenInv, DocSeen

-----------------------------------------------------------------------------
(* Steps that change the file.                                              *)

LEMMA FileSeen ==
  ASSUME JournalInv, SeenInv, UNCHANGED <<journal, feed, wire, reply, adopted>>,
         undone \subseteq undone', knew' \in Int, shown' \in Int, knew <= knew', knew' <= shown',
         \A b \in {mem.base, disk.base} : HeldBase(b)',
         \A b \in {mem.base} : Waiting(b)', TaskSeen(task, mem, blocked)'
  PROVE  SeenInv'
<1>1. UNCHANGED <<mem, disk>>
  BY DEF journal
<1>2. \A rev, k : Unseen(rev, k)' => Unseen(rev, k)
  BY DEF Unseen, Head_
<1>3. \A o : Known(o) => Known(o)'
  BY <1>2 DEF Known, Head_
<1>4. QueueSeen(mem.ops)' /\ QueueSeen(disk.ops)' /\ \A q \in wire' : Known(q)'
  BY <1>1, <1>3 DEF QueueSeen, SeenInv, DocSeen
<1>5. HeldBase(mem.base)' /\ HeldBase(disk.base)' /\ Waiting(mem.base)'
  BY <1>1
<1>6. reply' > 0 => reply' <= Head_' /\ feed'[reply'].key # NoKey
  BY DEF SeenInv, Head_
<1>7. QED
  BY <1>4, <1>5, <1>6 DEF SeenInv, DocSeen

\* An apply takes the text of a base from the file only for a newer row, or Undoes says so.
LEMMA Undone ==
  ASSUME JournalInv, Undoes, local' # local, UNCHANGED feed, NEW rev, rev = mem.base.rev, NEW k
  PROVE  ~Unseen(rev, k)'
<1>1. rev \in Int /\ a.rev \in Int /\ TrueRow(a.rev, a.text, feed) /\ Len(feed) \in Nat
  BY MemFacts DEF IsBase, TrueRow
<1>2. CASE Obsolete(mem, a.rev)
  <2>1. rev \in undone'
    BY <1>2 DEF Undoes
  <2>2. QED
    BY <2>1 DEF Unseen
<1>3. CASE ~Obsolete(mem, a.rev)
  <2>1. rev < Len(feed)
    BY <1>1, <1>3 DEF Obsolete, TrueRow
  <2>2. QED
    BY <1>1, <2>1 DEF Unseen, Head_
<1>4. QED
  BY <1>2, <1>3

\* The text that was before the user stays, or his base is taken out.
LEMMA EffectSeen ==
  ASSUME JournalInv, SeenInv, Undoes, UNCHANGED <<journal, feed, knew, adopted>>,
         shown' \in Int, shown <= shown', local' = local => Fewer,
         NEW b, b = mem.base
  PROVE  HeldBase(b)' /\ Waiting(b)'
<1>1. CASE local' = local
  <2>1. Risen /\ Fewer
    BY <1>1 DEF Risen, Undoes
  <2>2. HeldBase(b) /\ Waiting(b)
    BY DEF SeenInv, DocSeen
  <2>3. QED
    BY <2>1, <2>2, SeenLonger
<1>2. CASE local' # local
  <2>1. ~Unseen(b.rev, knew)'
    BY <1>2, Undone
  <2>2. QED
    BY <2>1 DEF HeldBase, Waiting
<1>3. QED
  BY <1>1, <1>2

LEMMA WriteSeen ==
  ASSUME JournalInv, SeenInv, Write
  PROVE  SeenInv'
<1>1. /\ UNCHANGED <<journal, mem, disk, blocked, feed, wire, reply, knew, adopted>> /\ task.pc = "write"
      /\ Undoes /\ undone \subseteq undone'
  BY DEF Write, journal, remote, Undoes
<1>2. ~blocked /\ mem = disk
  BY <1>1 DEF SeenInv, TaskSeen, JournalInv
<1>3. a.rev \in Int /\ IsTask(task, feed)
  BY MemFacts, EndFacts
<1>4. shown' \in Int /\ shown <= shown' /\ (local' = local => Fewer)
  <2>1. UNCHANGED shown \/ Holds(a.rev)
    BY DEF Write, WriteFile
  <2>2. local' = local => events' = events
    BY DEF Write, WriteFile
  <2>3. QED
    BY <1>3, <2>1, <2>2, HoldsRises DEF SeenInv, Fewer
<1>5. \A b \in {mem.base, disk.base} : HeldBase(b)' /\ Waiting(b)'
  BY <1>1, <1>2, <1>4, EffectSeen
<1>6. TaskSeen(task, mem, blocked)'
  <2>1. \A pc : At(pc).pc = pc
    BY <1>1, SeenTasks
  <2>2. \/ task'.pc \in {"written", "unwritten", "refused"}
        \/ task'.pc = "complete" /\ local = task.seen
    BY <2>1 DEF Write, Goto
  <2>3. ASSUME local = task.seen PROVE local' = a.text /\ a.rev <= shown'
    BY <1>3, <2>3, HoldsRises DEF Write, WriteFile
  <2>4. task'.pc = "complete" => Landed(a)'
    BY <1>1, <1>3, <2>2, <2>3 DEF Landed, a
  <2>5. task'.pc \in {"written", "unwritten", "refused", "complete"}
    BY <2>2
  <2>6. QED
    BY <2>4, <2>5 DEF TaskSeen, a
<1>7. knew' \in Int /\ knew <= knew' /\ knew' <= shown'
  BY <1>1, <1>4 DEF SeenInv
<1>8. QED
  BY <1>1, <1>4, <1>5, <1>6, <1>7, FileSeen

LEMMA MoveSeen ==
  ASSUME JournalInv, SeenInv, MoveToTrash
  PROVE  SeenInv'
<1>1. /\ UNCHANGED <<journal, mem, disk, blocked, feed, wire, reply, knew, adopted, shown>>
      /\ task.pc = "trashing" /\ Undoes /\ undone \subseteq undone' /\ local' = Absent
      /\ local' = local => Fewer
  BY DEF MoveToTrash, journal, remote, Undoes, ApplyFrame, Fewer
<1>2. \A b \in {mem.base} : HeldBase(b)' /\ Waiting(b)'
  BY <1>1, EffectSeen DEF SeenInv
<1>3. \A b \in {disk.base} : HeldBase(b)'
  <2> SUFFICES ASSUME NEW b, b = disk.base PROVE HeldBase(b)'
    OBVIOUS
  <2>1. Unseen(b.rev, knew)' => Unseen(b.rev, knew)
    BY <1>1 DEF Unseen, Head_
  <2>2. QED
    BY <1>1, <2>1 DEF HeldBase, SeenInv, DocSeen
<1>4. TaskSeen(task, mem, blocked)'
  <2>1. task'.pc \in {"trashed", "complete"}
    BY <1>1, SeenTasks DEF MoveToTrash, Goto
  <2>2. mem'.apply.text = Absent
    BY <1>1 DEF SeenInv, TaskSeen
  <2>3. QED
    BY <2>1, <2>2 DEF TaskSeen, Landed
<1>5. QED
  BY <1>1, <1>2, <1>3, <1>4, FileSeen DEF SeenInv

LEMMA RestoreSeen ==
  ASSUME JournalInv, SeenInv, Restore
  PROVE  SeenInv'
<1>1. /\ UNCHANGED <<journal, mem, disk, blocked, feed, wire, reply, knew, adopted, undone>>
      /\ task.pc = "restore"
  BY DEF Restore, journal, remote
<1>2. ~blocked /\ mem = disk /\ mem.base.rev \in Int
  BY <1>1, SeenBase DEF SeenInv, TaskSeen, JournalInv
<1>3. \/ local' = mem.base.text /\ Holds(mem.base.rev) /\ task' = At("restored")
      \/ UNCHANGED <<local, shown, events>> /\ task' = At("kept")
  BY DEF Restore, Goto
<1>4. shown' \in Int /\ shown <= shown'
  BY <1>2, <1>3, HoldsRises DEF SeenInv
<1>5. \A b \in {mem.base, disk.base} : HeldBase(b)' /\ Waiting(b)'
  <2> SUFFICES ASSUME NEW b, b = mem.base PROVE HeldBase(b)' /\ Waiting(b)'
    BY <1>2
  <2>1. CASE local' = mem.base.text /\ Holds(mem.base.rev)
    <3>1. b.rev <= shown' /\ local' = b.text
      BY <1>2, <2>1, HoldsRises
    <3>2. QED
      BY <3>1 DEF HeldBase, Waiting
  <2>2. CASE UNCHANGED <<local, shown, events>>
    <3>1. Unseen(b.rev, knew)' => Unseen(b.rev, knew)
      BY <1>1 DEF Unseen, Head_
    <3>2. QED
      BY <1>1, <2>2, <3>1 DEF HeldBase, Waiting, SeenInv, DocSeen
  <2>3. QED
    BY <1>3, <2>1, <2>2
<1>6. TaskSeen(task, mem, blocked)'
  <2>1. task'.pc \in {"restored", "kept"}
    BY <1>1, <1>3, SeenTasks
  <2>2. QED
    BY <2>1 DEF TaskSeen
<1>7. knew' \in Int /\ knew <= knew' /\ knew' <= shown' /\ undone \subseteq undone'
  BY <1>1, <1>4 DEF SeenInv
<1>8. QED
  BY <1>1, <1>4, <1>5, <1>6, <1>7, FileSeen

LEMMA EditSeen ==
  ASSUME JournalInv, SeenInv, UserEdit
  PROVE  SeenInv'
<1>1. /\ UNCHANGED <<journal, mem, disk, blocked, feed, wire, reply, adopted, undone, shown, task>>
      /\ knew' = shown
  BY DEF UserEdit, journal, remote
<1>2. \A b \in {mem.base, disk.base} : HeldBase(b)' /\ Waiting(b)'
  <2> SUFFICES ASSUME NEW b \in {mem.base, disk.base} PROVE ~Unseen(b.rev, knew)'
    BY DEF HeldBase, Waiting
  <2>1. Unseen(b.rev, knew)' => b.rev = Head_ /\ shown < b.rev /\ Unseen(b.rev, knew)
    BY <1>1, EndFacts DEF Unseen, Head_, SeenInv
  <2>2. Unseen(b.rev, knew) => b.rev <= shown
    BY DEF SeenInv, DocSeen, HeldBase
  <2>3. QED
    BY <1>1, <2>1, <2>2, EndFacts DEF SeenInv, Head_
<1>3. TaskSeen(task, mem, blocked)'
  <2>1. Unseen(mem.base.rev, knew)' => Unseen(mem.base.rev, knew)
    BY <1>1, SeenBase DEF Unseen, Head_, SeenInv
  <2>2. Landed(mem.apply) => Landed(mem.apply)'
    BY <1>1 DEF Landed, SeenInv
  <2>3. QED
    BY <1>1, <2>1, <2>2 DEF TaskSeen, SeenInv
<1>4. QED
  BY <1>1, <1>2, <1>3, FileSeen DEF SeenInv

-----------------------------------------------------------------------------
(* Publication.                                                             *)

LEMMA QuietPublication ==
  ASSUME PublicationFrame, UNCHANGED events
  PROVE  UNCHANGED <<local, feed, history>> /\ Fewer
BY DEF PublicationFrame, files, Fewer

LEMMA ScanSeen ==
  ASSUME JournalInv, SeenInv, Scan \/ Restored
  PROVE  SeenInv'
<1>1. UNCHANGED <<local, feed, wire, reply, history>> /\ Fewer /\ task.pc # "idle"
  BY QuietPublication DEF Scan, Restored, NoWire
<1>2. /\ \A pc : At(pc).pc = pc
      /\ Finished(task).pc \notin Special /\ Idle.pc \notin Special
  BY <1>1, SeenTasks
<1>3. CASE Scan
  <2>1. \/ /\ local # Absent /\ ~InSync
           /\ Save(Enqueue(mem, NewPut(mem, local)), Finished(task))
        \/ UNCHANGED journal /\ task' = Finished(task)
        \/ Save(Expect(mem, mem.base.text), At("restore"))
    BY <1>3 DEF Scan, ScanMissing
  <2>2. local # Absent /\ ~InSync => Fits(Enqueue(mem, NewPut(mem, local)))
    BY SeenBase, SeenDocs
  <2>3. TaskSeen(At("restore"), Expect(mem, mem.base.text), FALSE)
    BY <1>2 DEF TaskSeen
  <2>4. QED
    BY <1>1, <1>2, <2>1, <2>2, <2>3, SeenForms, SeenDocs, OrdinaryTask
<1>4. CASE Restored
  <2>1. \E next \in {Finished(task), Idle} : ClearExpected(next)
    BY <1>4 DEF Restored
  <2>2. QED
    BY <1>1, <1>2, <2>1, SeenForms
<1>5. QED
  BY <1>3, <1>4

LEMMA FlushSeen ==
  ASSUME JournalInv, SeenInv, StartFlush \/ Take \/ Skip \/ EndFlush \/ Recover
  PROVE  SeenInv'
<1>1. UNCHANGED <<local, feed, wire, reply, history, journal>> /\ Fewer /\ task.pc # "idle"
  <2>1. UNCHANGED <<wire, reply, journal>> /\ task.pc # "idle"
    BY DEF StartFlush, Take, Skip, EndFlush, Recover, SameJournal, NoWire, Picking
  <2>2. PublicationFrame /\ UNCHANGED events
    BY DEF StartFlush, Take, Skip, EndFlush, Recover, SameJournal
  <2>3. QED
    BY <2>1, <2>2, QuietPublication
<1>2. IsRecord(task, {"pc", "rest", "row", "head", "seen", "key", "keys", "spare", "for"})
  BY EndFacts DEF IsTask
<1>3. \A pc : IsRecord(At(pc), {"pc", "rest", "row", "head", "seen", "key", "keys", "spare", "for"})
              /\ At(pc).pc = pc
  BY <1>2 DEF At, IsRecord
<1>4. task'.pc \notin Special
  <2>1. CASE StartFlush
    <3>1. PICK keys : task' = [At("pick") EXCEPT !.keys = keys]
      BY <2>1 DEF StartFlush
    <3>2. PICK t : t = At("pick")
      OBVIOUS
    <3>3. task'.pc = t.pc
      BY <1>3, <3>1, <3>2 DEF IsRecord
    <3>4. QED
      BY <1>3, <3>2, <3>3 DEF Special
  <2>2. CASE Take
    <3>1. PICK pc \in {"prepare", "refresh"} :
            \E k, t : t = At(pc) /\ task' = [t EXCEPT !.keys = Tail(@), !.key = k]
      BY <2>2 DEF Take
    <3>2. task'.pc = pc
      BY <1>3, <3>1 DEF IsRecord
    <3>3. QED
      BY <3>2 DEF Special
  <2>3. CASE Skip
    <3>1. task' = [task EXCEPT !.keys = Tail(@)] /\ task.pc = "pick"
      BY <2>3 DEF Skip, Picking
    <3>2. QED
      BY <1>2, <3>1 DEF IsRecord, Special
  <2>4. CASE EndFlush
    BY <1>1, <2>4, SeenTasks DEF EndFlush
  <2>5. CASE Recover
    <3>1. PICK t : t = At("replay") /\ task' = [t EXCEPT !.rest = <<"replay", "reject">> \o @, !.spare = task.key]
      BY <2>5 DEF Recover
    <3>2. task'.pc = "replay"
      BY <1>3, <3>1 DEF IsRecord
    <3>3. QED
      BY <3>2 DEF Special
  <2>6. QED
    BY <2>1, <2>2, <2>3, <2>4, <2>5
<1>5. QED
  BY <1>1, <1>4, SeenForms, OrdinaryTask

\* Queued work meets the file and the base of now.
LEMMA RefreshSeen ==
  ASSUME JournalInv, SeenInv, Refresh \/ Requeue
  PROVE  SeenInv'
<1>1. UNCHANGED <<local, feed, wire, reply, history>> /\ Fewer /\ task.pc # "idle"
  BY QuietPublication DEF Refresh, Requeue, NoWire
<1>2. /\ \A pc : At(pc).pc = pc /\ \A text : Saw(pc, text).pc = pc
      /\ FlushEnd.pc \notin Special /\ NextOp.pc \notin Special /\ Idle.pc \notin Special
      /\ At("prepare").pc \notin Special
  BY <1>1, SeenTasks DEF Special
<1>3. CASE Refresh
  <2>1. \/ UNCHANGED journal /\ task' = At("prepare")
        \/ \E k : Save(RecordQueuedRejected(mem, k), FlushEnd)
        \/ \E k : Save(DiscardQueued(mem, k), NextOp)
        \/ \E k : /\ local # Absent /\ ~InSync
                  /\ Save(RecordQueuedRejected(mem, k), Saw("requeue", local))
    <3>1. task.key \in Keys(mem)
      BY <1>3 DEF Refresh, JournalInv, TaskInv, Sending
    <3>2. op.op \in {"put", "delete"}
      BY <3>1, AtOperation DEF IsOp
    <3>3. QED
      BY <1>3, <3>2 DEF Refresh, Goto
  <2>2. ASSUME NEW k, local # Absent, ~InSync, Save(RecordQueuedRejected(mem, k), Saw("requeue", local))
        PROVE  SeenInv'
    <3>1. Fits(RecordQueuedRejected(mem, k))
      BY SeenDocs
    <3>2. TaskSeen(Saw("requeue", local), RecordQueuedRejected(mem, k), FALSE)
      BY <1>2, <2>2, <3>1, SeenBase DEF TaskSeen, Fits
    <3>3. QED
      BY <1>1, <2>2, <3>1, <3>2, SeenForms
  <2>3. QED
    BY <1>1, <1>2, <2>1, <2>2, SeenForms, SeenDocs, OrdinaryTask
<1>4. CASE Requeue
  <2>1. ~Unseen(mem.base.rev, knew)
    BY <1>4 DEF Requeue, SeenInv, TaskSeen
  <2>2. Fits(Enqueue(mem, NewPut(mem, task.seen)))
    BY <2>1, SeenBase, SeenDocs
  <2>3. QED
    BY <1>1, <1>2, <1>4, <2>2, SeenForms DEF Requeue
<1>5. QED
  BY <1>3, <1>4

\* Sending, and what comes of it.
LEMMA SendSeen ==
  ASSUME JournalInv, SeenInv, PrepareSend \/ DeferSend \/ Reject
  PROVE  SeenInv'
<1>1. UNCHANGED <<local, feed, wire, reply, history>> /\ Fewer /\ task.pc # "idle"
  BY QuietPublication DEF PrepareSend, DeferSend, Reject, NoWire
<1>2. /\ \A pc : At(pc).pc = pc
      /\ NextOp.pc \notin Special /\ Idle.pc \notin Special
      /\ At("dispatch").pc \notin Special
  BY <1>1, SeenTasks DEF Special
<1>3. CASE PrepareSend
  <2>1. \/ UNCHANGED journal /\ task' = Idle
        \/ UNCHANGED journal /\ task' = At("dispatch")
        \/ MayPrepare(mem, task.key) /\ Save(Prepare(mem, task.key), At("dispatch"))
    BY <1>3 DEF PrepareSend, Goto
  <2>2. MayPrepare(mem, task.key) => task.key \in Keys(mem)
    <3>1. IsSeq(mem.ops)
      BY MemFacts DEF QueueOK
    <3>2. mem.ops # <<>> => 1 \in DOMAIN mem.ops
      BY <3>1, SeqFacts DEF IsSeq
    <3>3. QED
      BY <3>2 DEF MayPrepare, Keys
  <2>3. QED
    BY <1>1, <1>2, <2>1, <2>2, SeenForms, SeenDocs, OrdinaryTask
<1>4. CASE DeferSend
  <2>1. task.key \in Keys(mem) /\ Save(Defer(mem, task.key), NextOp)
    BY <1>4 DEF DeferSend, JournalInv, TaskInv, Sending
  <2>2. QED
    BY <1>1, <1>2, <2>1, SeenForms, SeenDocs
<1>5. CASE Reject
  <2>1. PICK t : t = NextOp
    OBVIOUS
  <2>2. t.pc \notin Special
        /\ IsRecord(t, {"pc", "rest", "row", "head", "seen", "key", "keys", "spare", "for"})
    BY <1>1, <1>2, <2>1, TaskFacts DEF Plain, IsTask
  <2>3. PICK u : u = [t EXCEPT !.rest = IF Head(@) = "reject" THEN Tail(@) ELSE @]
    OBVIOUS
  <2>4. u.pc \notin Special
    BY <2>2, <2>3 DEF IsRecord
  <2>5. (UNCHANGED journal /\ task' = Idle) \/ Save(RecordRejected(mem, task.key), u)
    BY <1>5, <2>1, <2>3 DEF Reject
  <2>6. QED
    BY <1>1, <1>2, <2>4, <2>5, SeenForms, SeenDocs, OrdinaryTask
<1>6. QED
  BY <1>3, <1>4, <1>5

\* A receipt is a revision of the device.
LEMMA ReceiptSeen ==
  ASSUME JournalInv, SeenInv, Confirm \/ Settle
  PROVE  SeenInv'
<1>1. UNCHANGED <<local, feed, wire, reply, history>> /\ Fewer /\ task.pc # "idle"
  BY QuietPublication DEF Confirm, Settle, NoWire
<1>2. At("settle").pc \notin Special /\ At("defer").pc \notin Special /\ NextOp.pc \notin Special
  BY <1>1, SeenTasks DEF Special
<1>3. Own(reply) /\ ReceiptBase.rev = reply
  <2>1. reply \in Int /\ 0 <= Head_ /\ Head_ \in Int
    BY SeenBase DEF JournalInv
  <2>2. reply <= Head_ /\ (reply > 0 => feed[reply].key # NoKey)
    BY <2>1 DEF SeenInv
  <2>3. QED
    BY <2>1, <2>2, SeenBase DEF ReceiptBase
<1>4. CASE Confirm
  <2>1. PICK b : b = ReceiptBase
    OBVIOUS
  <2>2. PICK d : d = [mem EXCEPT !.base = b]
    OBVIOUS
  <2>3. d.ops = mem.ops /\ d.base = b
    BY <2>2, MemFacts DEF IsDocument, IsRecord
  <2>4. (UNCHANGED journal /\ task' = At("settle")) \/ SaveOr(d, At("settle"), At("defer"))
    BY <1>4, <2>1, <2>2 DEF Confirm, Goto
  <2>5. Own(d.base.rev) /\ QueueSeen(d.ops)
    BY <1>3, <2>1, <2>3 DEF SeenInv, DocSeen
  <2>6. QED
    BY <1>1, <1>2, <2>4, <2>5, SeenSave, SeenForms, OrdinaryTask
<1>5. CASE Settle
  <2>1. SaveOr(Resolve(mem, task.key, ReceiptBase), NextOp, At("defer"))
    BY <1>5 DEF Settle
  <2>2. Fits(Resolve(mem, task.key, ReceiptBase))
    BY <1>3, SeenDocs
  <2>3. TaskSeen(NextOp, Resolve(mem, task.key, ReceiptBase), FALSE)
    BY <1>2, OrdinaryTask
  <2>4. QED
    BY <1>1, <1>2, <2>1, <2>2, <2>3, SeenForms
<1>6. QED
  BY <1>4, <1>5

-----------------------------------------------------------------------------
(* The feed, and the manifest.                                              *)

LEMMA ReplaySeen ==
  ASSUME JournalInv, SeenInv, ReplayStep \/ StartCycle
  PROVE  SeenInv'
<1>1. UNCHANGED <<local, feed, wire, reply, history>> /\ Fewer
  BY DEF ReplayStep, ReadPage, NextRow, EndRow, StartCycle, ReplayFrame, files, remote, Fewer
<1>2. CASE StartCycle
  <2>1. UNCHANGED journal /\ task'.pc = "resume"
    BY <1>2 DEF StartCycle, Quietly, Idle
  <2>2. QED
    BY <1>1, <2>1, SeenForms, OrdinaryTask DEF Special
<1>3. CASE ReplayStep
  <2>1. task.pc \in {"read_page", "next_row", "row_done"}
    BY <1>3 DEF ReplayStep, ReadPage, NextRow, EndRow
  <2>2. /\ \A pc : At(pc).pc = pc
        /\ Finished(task).pc \notin Special
        /\ IsRecord(task, {"pc", "rest", "row", "head", "seen", "key", "keys", "spare", "for"})
    BY <2>1, SeenTasks, EndFacts DEF IsTask
  <2>3. \A pc : IsRecord(At(pc), {"pc", "rest", "row", "head", "seen", "key", "keys", "spare", "for"})
    BY <2>2 DEF At, IsRecord
  <2>4. \/ UNCHANGED journal /\ task' \in {Finished(task), At("manifest"), At("entry"), At("applied"),
                                           At("read_page")}
        \/ UNCHANGED journal /\ task' = [At("next_row") EXCEPT !.head = Head_]
        \/ \E row : UNCHANGED journal /\ task' = [At("begin") EXCEPT !.row = row]
        \/ \E row : Save(SetCursor(mem, row), task) \/ Save(SetCursor(mem, row), At("next_row"))
    <3>1. CASE ReadPage
      BY <3>1 DEF ReadPage, Quietly
    <3>2. CASE NextRow
      BY <3>2 DEF NextRow, Quietly
    <3>3. CASE EndRow
      BY <3>3 DEF EndRow, Quietly, Goto
    <3>4. QED
      BY <1>3, <3>1, <3>2, <3>3 DEF ReplayStep
  <2>5. ASSUME NEW t, t = At("next_row") \/ t = At("begin")
        PROVE  \A x : [t EXCEPT !.head = x].pc = t.pc /\ [t EXCEPT !.row = x].pc = t.pc
    BY <2>3, <2>5 DEF IsRecord
  <2>6. CASE UNCHANGED journal /\ task'.pc \notin Special
    BY <1>1, <2>6, SeenForms, OrdinaryTask
  <2>7. \/ UNCHANGED journal /\ task'.pc \notin Special
        \/ \E row : Save(SetCursor(mem, row), task) \/ Save(SetCursor(mem, row), At("next_row"))
    <3>1. ASSUME task' \in {Finished(task), At("manifest"), At("entry"), At("applied"), At("read_page")}
          PROVE  task'.pc \notin Special
      <4>1. \/ task' = Finished(task)
            \/ task'.pc = "manifest" \/ task'.pc = "entry" \/ task'.pc = "applied"
            \/ task'.pc = "read_page"
        BY <2>2, <3>1
      <4>2. QED
        BY <2>2, <4>1, Zenon DEF Special
    <3>2. ASSUME task' = [At("next_row") EXCEPT !.head = Head_]
          PROVE  task'.pc \notin Special
      <4>1. task'.pc = "next_row"
        BY <2>2, <2>5, <3>2
      <4>2. QED
        BY <4>1 DEF Special
    <3>3. ASSUME NEW row, task' = [At("begin") EXCEPT !.row = row]
          PROVE  task'.pc \notin Special
      <4>1. task'.pc = "begin"
        BY <2>2, <2>5, <3>3
      <4>2. QED
        BY <4>1 DEF Special
    <3>4. QED
      BY <2>4, <3>1, <3>2, <3>3
  <2>8. task.pc \notin Special /\ At("next_row").pc \notin Special
    BY <2>1, <2>2 DEF Special
  <2>9. QED
    BY <1>1, <2>6, <2>7, <2>8, SeenForms, SeenDocs
<1>4. QED
  BY <1>2, <1>3

\* The steps of the manifest that take no row over.
LEMMA ManifestSeen ==
  ASSUME JournalInv, SeenInv,
         ReadManifest \/ Bind \/ ListFiles \/ Hold \/ ResolveEntry \/ Acknowledge \/ EndEntry \/ EndPage
  PROVE  SeenInv'
<1>1. UNCHANGED <<local, feed, wire, reply, history>> /\ Fewer /\ task.pc # "idle"
  <2>1. EnrollFrame /\ task.pc # "idle"
    BY DEF ReadManifest, Bind, ListFiles, Hold, ResolveEntry, Acknowledge, EndEntry, EndPage
  <2>2. QED
    BY <2>1, QuietPublication DEF EnrollFrame, NoWire
<1>2. /\ \A pc : At(pc).pc = pc
      /\ Restarted.pc \notin Special
      /\ IsRecord(task, {"pc", "rest", "row", "head", "seen", "key", "keys", "spare", "for"})
  BY <1>1, SeenTasks, EndFacts DEF IsTask
<1>3. \A pc : IsRecord(At(pc), {"pc", "rest", "row", "head", "seen", "key", "keys", "spare", "for"})
  BY <1>2 DEF At, IsRecord
<1>4. \A pc \in {"list", "hold", "bind", "entry", "entry_done", "page_done", "begun"} :
        At(pc).pc \notin Special
  BY <1>2 DEF Special
<1>5. CASE ReadManifest
  <2>1. \/ Checked(NoCheck, Restarted)
        \/ \E pc \in {"hold", "list", "bind"} :
             task' = [At(pc) EXCEPT !.head = Head_] /\ Unsaved
    BY <1>5 DEF ReadManifest
  <2>2. ASSUME NEW pc \in {"hold", "list", "bind"}, task' = [At(pc) EXCEPT !.head = Head_]
        PROVE  task'.pc \notin Special
    <3>1. PICK t : t = At(pc)
      OBVIOUS
    <3>2. task'.pc = pc
      BY <1>2, <1>3, <2>2, <3>1 DEF IsRecord
    <3>3. QED
      BY <3>2 DEF Special
  <2>3. QED
    BY <1>1, <1>2, <2>1, <2>2, SeenForms, OrdinaryTask DEF Unsaved
<1>6. CASE Bind
  BY <1>1, <1>4, <1>6, SeenForms, SeenDocs DEF Bind
<1>7. CASE ListFiles
  BY <1>1, <1>4, <1>7, SeenForms DEF ListFiles
<1>8. CASE Hold
  <2>1. task'.pc \notin Special
    <3>1. CASE a = NoApply
      BY <1>4, <1>8, <3>1 DEF Hold
    <3>2. CASE a # NoApply
      <4>1. PICK t : t = At("begun")
        OBVIOUS
      <4>2. task' = [t EXCEPT !.row = a.row, !.for = "held"]
        BY <1>8, <3>2, <4>1 DEF Hold
      <4>3. task'.pc = "begun"
        BY <1>2, <1>3, <4>1, <4>2 DEF IsRecord
      <4>4. QED
        BY <4>3 DEF Special
    <3>3. QED
      BY <3>1, <3>2
  <2>2. QED
    BY <1>1, <1>8, <2>1, SeenForms, OrdinaryTask DEF Hold, Unsaved
<1>9. CASE ResolveEntry
  <2>1. PICK k : Save(Resolve(mem, k, Entry), At("entry_done"))
    BY <1>9 DEF ResolveEntry
  <2>2. task.head \in adopted /\ task.head \in Int /\ task.head <= Head_
    BY <1>9, EndFacts DEF ResolveEntry, SeenInv, TaskSeen, IsTask, Head_
  <2>3. Own(Entry.rev)
    BY <2>2, SeenBase DEF Entry, Row
  <2>4. Fits(Resolve(mem, k, Entry))
    BY <2>3, SeenDocs
  <2>5. QED
    BY <1>1, <1>4, <2>1, <2>4, SeenForms
<1>10. CASE Acknowledge
  <2>1. \/ UNCHANGED journal /\ task' = At("entry_done")
        \/ \E k : Save(ResolveAlone(mem, k), task)
    BY <1>10 DEF Acknowledge, Goto, Unsaved
  <2>2. task.pc \notin Special
    BY <1>10 DEF Acknowledge, Special
  <2>3. QED
    BY <1>1, <1>4, <2>1, <2>2, SeenForms, SeenDocs, OrdinaryTask
<1>11. CASE EndEntry \/ EndPage
  <2>1. (\E c : Checked(c, At("page_done"))) \/ (\E c : Checked(c, At("entry")))
    BY <1>11 DEF EndEntry, EndPage
  <2>2. QED
    BY <1>1, <1>4, <2>1, SeenForms
<1>12. QED
  BY <1>5, <1>6, <1>7, <1>8, <1>9, <1>10, <1>11

\* A row becomes the base: for the first upload it is taken, else the file holds it.
LEMMA TakenBase ==
  ASSUME JournalInv, SeenInv, Risen, Fewer, UNCHANGED <<wire, reply>>,
         NEW row, NEW next, Save(SetBase(mem, row), next),
         row.rev \in adopted' \/ (row.rev <= shown' /\ local' = row.text),
         next.pc \in {"resolve_entry", "resolve_sent"} => next.head \in adopted',
         next.pc \in {"resolve_entry", "resolve_sent", "applied"}
  PROVE  SeenInv'
<1>1. PICK d : d = SetBase(mem, row)
  OBVIOUS
<1>2. d.ops = mem.ops /\ d.base = row
  BY <1>1, MemFacts DEF SetBase, IsDocument, IsRecord
<1>3. HeldBase(d.base)' /\ Waiting(d.base)'
  BY <1>2 DEF HeldBase, Waiting, Unseen
<1>4. disk' \in {disk, d} /\ mem' \in {mem, d} /\ task' \in {next, Idle}
  BY <1>1 DEF Save, SaveOr
<1>5. TaskSeen(task, mem, blocked)'
  <2>1. task' = Idle => task'.pc = "idle"
    BY DEF Idle
  <2>2. QED
    BY <1>4, <2>1 DEF TaskSeen
<1>6. QED
  BY <1>2, <1>3, <1>4, <1>5, SeenMoves DEF SeenInv, DocSeen

\* Nothing but what was before the user, or was taken.
LEMMA RisenForms ==
  ASSUME JournalInv, SeenInv, Risen, Fewer, UNCHANGED <<wire, reply>>, NEW next,
         next.pc \notin Special, (UNCHANGED journal /\ task' = next) \/ \E c : Checked(c, next)
  PROVE  SeenInv'
<1>1. PICK d : /\ Fits(d) /\ disk' \in {disk, d} /\ mem' \in {mem, d} /\ task' \in {next, Idle}
  <2>1. CASE UNCHANGED journal /\ task' = next
    BY <2>1, SeenDocs DEF journal
  <2>2. CASE \E c : Checked(c, next)
    <3>1. PICK c : Save(SetCheckpoint(mem, c), next)
      BY <2>2 DEF Checked
    <3>2. QED
      BY <3>1, SeenDocs DEF Save, SaveOr
  <2>3. QED
    BY <2>1, <2>2
<1>2. HeldBase(d.base)' /\ Waiting(d.base)'
  BY <1>1, SeenLonger DEF Fits, SeenInv, DocSeen
<1>3. TaskSeen(task, mem, blocked)'
  BY <1>1, SeenTasks DEF TaskSeen, Special
<1>4. QED
  BY <1>1, <1>2, <1>3, SeenMoves DEF Fits

LEMMA EntrySeen ==
  ASSUME JournalInv, SeenInv, TakeEntry
  PROVE  SeenInv'
<1>1. /\ UNCHANGED <<local, feed, wire, reply, knew, undone>> /\ Fewer /\ task.pc = "entry"
      /\ adopted \subseteq adopted'
  BY DEF TakeEntry, NoWire, files, Fewer, Adopt
<1>2. task.head \in Int /\ IsTask(task, feed)
  BY EndFacts DEF IsTask
<1>3. Risen /\ (HasEntry /\ SameContent => task.head <= shown')
  BY <1>1, <1>2 DEF TakeEntry, Risen, SeenInv
<1>4. /\ \A pc : At(pc).pc = pc /\ At(pc).head = task.head
      /\ Idle.pc \notin Special /\ Finished(task).pc \notin Special
      /\ task.pc \notin Special
  BY <1>1, SeenTasks DEF Special
<1>5. Entry = Row(task.head) /\ Entry.rev = task.head
  BY DEF Entry, Row
<1>6. CASE ~HasEntry
  BY <1>1, <1>3, <1>4, <1>6, RisenForms DEF TakeEntry, Goto, Unsaved, Special
<1>7. CASE HasEntry /\ ~check.pending
  BY <1>1, <1>3, <1>4, <1>7, RisenForms DEF TakeEntry
<1>8. CASE HasEntry /\ check.pending /\ Confirmed(Entry, task.spare) # {}
  <2>1. \/ MaySetBase(mem, Entry) /\ Save(SetBase(mem, Entry), At("resolve_entry"))
        \/ UNCHANGED journal /\ task' = Idle
    BY <1>8 DEF TakeEntry, Unsaved
  <2>2. MaySetBase(mem, Entry) => task.head \in adopted'
    BY <1>5, <1>8 DEF TakeEntry, Adopt, HasEntry
  <2>3. QED
    BY <1>1, <1>3, <1>4, <1>5, <2>1, <2>2, TakenBase, RisenForms
<1>9. CASE HasEntry /\ check.pending /\ Confirmed(Entry, task.spare) = {}
  <2>1. \/ UNCHANGED journal /\ task' \in {Finished(task), Idle}
        \/ UNCHANGED journal /\ task' = [At("begin") EXCEPT !.row = task.head, !.for = "manifest"]
        \/ SameContent /\ Save(SetBase(mem, Entry), At("applied"))
    BY <1>9 DEF TakeEntry, Unsaved
  <2>2. ASSUME task' = [At("begin") EXCEPT !.row = task.head, !.for = "manifest"]
        PROVE  task'.pc \notin Special
    <3>1. PICK t : t = At("begin")
      OBVIOUS
    <3>2. IsRecord(t, {"pc", "rest", "row", "head", "seen", "key", "keys", "spare", "for"})
      BY <1>1, <3>1, TaskFacts DEF IsTask
    <3>3. task'.pc = "begin"
      BY <1>4, <2>2, <3>1, <3>2 DEF IsRecord
    <3>4. QED
      BY <3>3 DEF Special
  <2>3. CASE UNCHANGED journal
    <3>1. task'.pc \notin Special \/ (SameContent /\ Save(SetBase(mem, Entry), At("applied")))
      BY <1>4, <2>1, <2>2
    <3>2. CASE task'.pc \notin Special
      <4>1. PICK t : t = task'
        OBVIOUS
      <4>2. QED
        BY <1>1, <1>3, <2>3, <3>2, <4>1, RisenForms
    <3>3. CASE SameContent /\ Save(SetBase(mem, Entry), At("applied"))
      BY <1>1, <1>3, <1>4, <1>5, <1>9, <3>3, TakenBase DEF SameContent
    <3>4. QED
      BY <3>1, <3>2, <3>3
  <2>4. CASE SameContent /\ Save(SetBase(mem, Entry), At("applied"))
    BY <1>1, <1>3, <1>4, <1>5, <1>9, <2>4, TakenBase DEF SameContent
  <2>5. QED
    BY <2>1, <2>3, <2>4
<1>10. QED
  BY <1>6, <1>7, <1>8, <1>9

LEMMA UploadSeen ==
  ASSUME JournalInv, SeenInv,
         \/ ResolveSent \/ SentKnown \/ PublishLocal \/ PrepareCreate \/ ConfirmCreate
         \/ SettleCreate \/ Published \/ EndEnrollment
  PROVE  SeenInv'
<1>1. UNCHANGED <<local, feed, wire, reply, history>> /\ Fewer /\ task.pc # "idle"
  <2>1. EnrollFrame /\ task.pc # "idle"
    BY DEF ResolveSent, SentKnown, PublishLocal, PrepareCreate, ConfirmCreate, SettleCreate,
           Published, EndEnrollment
  <2>2. QED
    BY <2>1, QuietPublication DEF EnrollFrame, NoWire
<1>2. /\ \A pc : At(pc).pc = pc
      /\ Restarted.pc \notin Special /\ Finished(task).pc \notin Special /\ Idle.pc \notin Special
  BY <1>1, SeenTasks
<1>3. \A pc \in {"sent_known", "publish", "published", "entry", "prepare_create", "send_create",
                 "resolve_create", "create_rejected", "create_stale", "cursor_set"} :
        At(pc).pc \notin Special
  BY <1>2 DEF Special
<1>4. CASE ResolveSent
  <2>1. PICK k : Save(Resolve(mem, k, Entry), At("sent_known"))
    BY <1>4 DEF ResolveSent
  <2>2. task.head \in adopted /\ task.head \in Int /\ task.head <= Head_
    BY <1>4, EndFacts DEF ResolveSent, SeenInv, TaskSeen, IsTask, Head_
  <2>3. Own(Entry.rev)
    BY <2>2, SeenBase DEF Entry, Row
  <2>4. Fits(Resolve(mem, k, Entry))
    BY <2>3, SeenDocs
  <2>5. QED
    BY <1>1, <1>3, <2>1, <2>4, SeenForms
<1>5. CASE SentKnown \/ Published
  <2>1. \E c : Checked(c, At("publish"))
    BY <1>5 DEF SentKnown, Published
  <2>2. QED
    BY <1>1, <1>3, <2>1, SeenForms
<1>6. CASE PublishLocal
  <2>1. \/ \E c : Checked(c, At("entry"))
        \/ UNCHANGED journal /\ task' \in {At("published"), At("prepare_create")}
        \/ \E k : Save(RecordRejected(mem, k), task)
        \/ Save(Enqueue(mem, [NewPut(mem, local) EXCEPT !.pre = 0]), At("prepare_create"))
    BY <1>6 DEF PublishLocal, Goto, Unsaved
  <2>2. Fits(Enqueue(mem, [NewPut(mem, local) EXCEPT !.pre = 0]))
    BY SeenBase, SeenDocs
  <2>3. task.pc \notin Special
    BY <1>6 DEF PublishLocal, Special
  <2>4. QED
    BY <1>1, <1>3, <2>1, <2>2, <2>3, SeenForms, SeenDocs, OrdinaryTask
<1>7. CASE PrepareCreate
  <2>1. \/ UNCHANGED journal /\ task' \in {Idle, At("send_create")}
        \/ /\ MayPrepare(mem, Create.key)
           /\ Save(Prepare(mem, Create.key), At("send_create"))
    BY <1>7 DEF PrepareCreate, Goto, Unsaved
  <2>2. Create.key \in Keys(mem)
    <3>1. Creates # {}
      BY <1>7 DEF PrepareCreate, JournalInv, TaskInv
    <3>2. QED
      BY <3>1, FirstUpload DEF Keys, Creates
  <2>3. Fits(Prepare(mem, Create.key))
    BY <2>2, SeenDocs
  <2>4. QED
    BY <1>1, <1>2, <1>3, <2>1, <2>3, SeenForms, OrdinaryTask
<1>8. CASE ConfirmCreate
  <2>1. PICK b : b = Created
    OBVIOUS
  <2>2. PICK d : d = SetBase(mem, b)
    OBVIOUS
  <2>3. d.ops = mem.ops /\ d.base = b /\ b.rev = reply
    BY <2>1, <2>2, MemFacts DEF SetBase, IsDocument, IsRecord, Created
  <2>4. (UNCHANGED journal /\ task' = Idle) \/ SaveOr(d, At("resolve_create"), Idle)
    BY <1>8, <2>1, <2>2 DEF ConfirmCreate, Save, Unsaved
  <2>5. Own(reply)
    <3>1. reply \in Int /\ 0 <= Head_ /\ Head_ \in Int
      BY SeenBase DEF JournalInv
    <3>2. reply <= Head_ /\ (reply > 0 => feed[reply].key # NoKey)
      BY <3>1 DEF SeenInv
    <3>3. QED
      BY <3>1, <3>2, SeenBase
  <2>6. Own(d.base.rev) /\ QueueSeen(d.ops)
    BY <2>3, <2>5 DEF SeenInv, DocSeen
  <2>7. QED
    BY <1>1, <1>2, <1>3, <2>4, <2>6, SeenSave, SeenForms, OrdinaryTask
<1>9. CASE SettleCreate
  <2>1. \/ \E k : Save(ResolveAlone(mem, k), At("published"))
        \/ Save([mem EXCEPT !.refused = TRUE], At("create_rejected"))
        \/ \E k : Save(RecordRejected(mem, k), At("published"))
        \/ \E k : Save(RecordRejected(mem, k), At("create_stale"))
        \/ Checked(NoCheck, Restarted)
    BY <1>9 DEF SettleCreate
  <2>2. QED
    BY <1>1, <1>2, <1>3, <2>1, SeenForms, SeenDocs
<1>10. CASE EndEnrollment
  <2>1. \/ UNCHANGED journal /\ task' = Idle
        \/ Save(SetCursor(mem, ReachedHead), At("cursor_set"))
        \/ Checked(NoCheck, Finished(task))
    BY <1>10 DEF EndEnrollment, Unsaved
  <2>2. QED
    BY <1>1, <1>2, <1>3, <2>1, SeenForms, SeenDocs, OrdinaryTask
<1>11. QED
  BY <1>4, <1>5, <1>6, <1>7, <1>8, <1>9, <1>10

LEMMA SentSeen ==
  ASSUME JournalInv, SeenInv, FindSent
  PROVE  SeenInv'
<1>1. /\ UNCHANGED <<local, feed, wire, reply, knew, shown, undone>> /\ Fewer /\ task.pc = "entry"
      /\ adopted \subseteq adopted'
  BY DEF FindSent, NoWire, files, Fewer, Adopt
<1>2. Risen
  BY <1>1 DEF Risen, SeenInv
<1>3. At("publish").pc \notin Special /\ Idle.pc \notin Special
  BY <1>1, SeenTasks DEF Special
<1>4. CASE Head_ = 0 \/ Confirmed(Row(Head_), NoKey) = {}
  BY <1>1, <1>2, <1>3, <1>4, RisenForms DEF FindSent, Goto, Unsaved
<1>5. CASE ~(Head_ = 0 \/ Confirmed(Row(Head_), NoKey) = {})
  <2>1. CASE ~MaySetBase(mem, Row(Head_))
    BY <1>1, <1>2, <1>3, <1>5, <2>1, RisenForms DEF FindSent, Unsaved
  <2>2. CASE MaySetBase(mem, Row(Head_))
    <3>1. Head_ \in adopted'
      BY <1>5, <2>2, SeenBase DEF FindSent, Adopt
    <3>2. PICK t : t = [At("resolve_sent") EXCEPT !.head = Head_]
      OBVIOUS
    <3>3. t.pc = "resolve_sent" /\ t.head = Head_
      <4>1. PICK u : u = At("resolve_sent")
        OBVIOUS
      <4>2. /\ IsRecord(u, {"pc", "rest", "row", "head", "seen", "key", "keys", "spare", "for"})
            /\ u.pc = "resolve_sent"
        BY <1>1, <4>1, TaskFacts DEF IsTask
      <4>3. t = [u EXCEPT !.head = Head_]
        BY <3>2, <4>1
      <4>4. QED
        BY <4>2, <4>3 DEF IsRecord
    <3>4. PICK row : row = Row(Head_)
      OBVIOUS
    <3>5. row.rev = Head_ /\ Save(SetBase(mem, row), t)
      BY <1>5, <2>2, <3>2, <3>4 DEF FindSent, Row
    <3>6. QED
      BY <1>1, <1>2, <3>1, <3>3, <3>5, TakenBase
  <2>3. QED
    BY <2>1, <2>2
<1>6. QED
  BY <1>4, <1>5

-----------------------------------------------------------------------------
(* The user, the vault and the network.                                     *)

\* A request carries what its operation has.
LEMMA RequestSeen ==
  ASSUME JournalInv, SeenInv, Dispatch \/ SendCreate
  PROVE  SeenInv'
<1>1. /\ UNCHANGED <<local, feed, history, journal>> /\ Fewer /\ task.pc # "idle"
      /\ reply' = NoReply
  <2>1. PublicationFrame /\ UNCHANGED <<events, journal>> /\ task.pc # "idle" /\ reply' = NoReply
    BY DEF Dispatch, SendCreate, Unsaved
  <2>2. QED
    BY <2>1, QuietPublication
<1>2. ASSUME NEW o, Known(o) PROVE Known(Request(o))
  BY <1>2 DEF Known, Request
<1>3. \A q \in wire' : Known(q)
  <2>1. CASE Dispatch
    <3>1. task.key \in Keys(mem)
      BY <2>1 DEF Dispatch, JournalInv, TaskInv, Sending
    <3>2. Known(op)
      BY <3>1, AtOperation DEF SeenInv, DocSeen, QueueSeen
    <3>3. QED
      BY <1>2, <2>1, <3>2 DEF Dispatch, SeenInv
  <2>2. CASE SendCreate
    <3>1. Creates # {}
      BY <2>2 DEF SendCreate, JournalInv, TaskInv
    <3>2. Known(Create)
      BY <3>1, FirstUpload DEF SeenInv, DocSeen, QueueSeen, Creates
    <3>3. QED
      BY <1>2, <2>2, <3>2 DEF SendCreate, SeenInv
  <2>3. QED
    BY <2>1, <2>2
<1>4. TaskSeen(task', mem', blocked')
  <2>1. task'.pc \in {"await", "creating"}
    BY <1>1, SeenTasks DEF Dispatch, SendCreate, Goto
  <2>2. QED
    BY <2>1, OrdinaryTask DEF Special
<1>5. DocSeen(mem) /\ Waiting(mem.base) /\ UNCHANGED <<mem, disk>>
  BY <1>1 DEF SeenInv, journal
<1>6. QED
  BY <1>1, <1>3, <1>4, <1>5, SeenStep

LEMMA OutsideSeen ==
  ASSUME JournalInv, SeenInv,
         \/ UserEditsCopy \/ DeleteRows \/ LoseAnswer \/ Refuse \/ LoseCreated \/ RefuseCreate
         \/ UNCHANGED vars
  PROVE  SeenInv'
<1>1. /\ UNCHANGED <<local, feed, knew, shown, adopted, undone, mem, disk, blocked>> /\ Fewer
      /\ wire' \subseteq wire /\ reply' \in {reply, NoReply}
  BY DEF UserEditsCopy, DeleteRows, LoseAnswer, Refuse, LoseCreated, RefuseCreate, vars,
         PublicationFrame, files, history, journal, remote, Fewer
<1>2. task' = task \/ task'.pc \in {"idle", "defer", "reject", "create_refused"}
  <2>1. CASE UserEditsCopy \/ DeleteRows \/ UNCHANGED vars
    BY <2>1 DEF UserEditsCopy, DeleteRows, vars
  <2>2. CASE LoseAnswer \/ Refuse \/ LoseCreated \/ RefuseCreate
    <3>1. task.pc # "idle" /\ task' \in {At("defer"), At("reject"), At("create_refused"), Idle}
      BY <2>2 DEF LoseAnswer, Refuse, LoseCreated, RefuseCreate, Goto
    <3>2. QED
      BY <3>1, SeenTasks DEF Idle
  <2>3. QED
    BY <2>1, <2>2
<1>3. Risen
  BY <1>1 DEF Risen, SeenInv
<1>4. /\ \A o : Known(o) => Known(o)'
      /\ \A s : QueueSeen(s) => QueueSeen(s)'
      /\ \A b : HeldBase(b) => HeldBase(b)'
      /\ \A b : Waiting(b) => Waiting(b)'
      /\ \A t, d, b : TaskSeen(t, d, b) => TaskSeen(t, d, b)'
  BY <1>1, <1>3, SeenLonger
<1>5. DocSeen(mem)' /\ DocSeen(disk)' /\ Waiting(mem.base)'
  BY <1>1, <1>4 DEF SeenInv, DocSeen
<1>6. TaskSeen(task, mem, blocked)'
  <2>1. CASE task' = task
    BY <1>1, <1>4, <2>1 DEF SeenInv
  <2>2. CASE task'.pc \in {"idle", "defer", "reject", "create_refused"}
    BY <2>2 DEF TaskSeen
  <2>3. QED
    BY <1>2, <2>1, <2>2
<1>7. \A q \in wire' : Known(q)'
  BY <1>1, <1>4 DEF SeenInv
<1>8. knew' \in Int /\ shown' \in Int /\ knew' <= shown'
  BY <1>1 DEF SeenInv
<1>9. reply' > 0 => reply' <= Head_' /\ feed'[reply'].key # NoKey
  BY <1>1 DEF SeenInv, Head_, NoReply
<1>10. QED
  BY <1>5, <1>6, <1>7, <1>8, <1>9 DEF SeenInv

\* What was the head is no longer the head.
LEMMA GrowthSeen ==
  ASSUME JournalInv, SeenInv, NEW e, feed' = Append(feed, e), wire' \subseteq wire,
         UNCHANGED <<local, journal, events, task, history>>,
         reply' > 0 => reply' <= Head_' /\ feed'[reply'].key # NoKey
  PROVE  SeenInv'
<1>1. Len(feed) \in Nat /\ IsSeq(feed) /\ Len(feed') = Len(feed) + 1
  BY MemFacts, AppendFacts
<1>2. ASSUME NEW rev \in Int, rev <= Head_, NEW k PROVE ~Unseen(rev, k)'
  BY <1>1, <1>2 DEF Unseen, Head_
<1>3. ASSUME NEW o, Known(o) PROVE Known(o)'
  BY <1>1, <1>2, <1>3 DEF Known, Head_
<1>4. \A s : QueueSeen(s) => QueueSeen(s)'
  BY <1>3 DEF QueueSeen
<1>5. /\ UNCHANGED <<mem, disk, blocked, knew, shown, adopted, undone>>
      /\ \A b \in {mem.base, disk.base} : IsBase(b, feed)
  BY DEF journal, history, JournalInv, DocOK, SideOK
<1>6. \A b \in {mem.base, disk.base} : ~Unseen(b.rev, knew)'
  <2> SUFFICES ASSUME NEW b \in {mem.base, disk.base} PROVE ~Unseen(b.rev, knew)'
    OBVIOUS
  <2>1. b.rev \in Int /\ b.rev <= Head_
    BY <1>1, <1>5 DEF IsBase, TrueRow, Head_
  <2>2. QED
    BY <1>2, <1>5, <2>1 DEF Unseen
<1>7. DocSeen(mem)' /\ DocSeen(disk)' /\ Waiting(mem.base)'
  BY <1>4, <1>5, <1>6 DEF SeenInv, DocSeen, HeldBase, Waiting
<1>8. TaskSeen(task, mem, blocked)'
  BY <1>5, <1>6 DEF SeenInv, TaskSeen, Landed
<1>9. \A q \in wire' : Known(q)'
  BY <1>3 DEF SeenInv
<1>10. QED
  BY <1>5, <1>7, <1>8, <1>9 DEF SeenInv

LEMMA VaultSeen ==
  ASSUME JournalInv, SeenInv, OtherWrites \/ Execute
  PROVE  SeenInv'
<1>1. Len(feed) \in Nat /\ IsSeq(feed) /\ DOMAIN feed = 1..Len(feed) /\ reply \in Int
  BY MemFacts DEF JournalInv
<1>2. CASE OtherWrites
  <2>1. PICK e : feed' = Append(feed, e)
    BY <1>2 DEF OtherWrites
  <2>2. /\ UNCHANGED <<local, journal, events, task, history, reply>> /\ wire' \subseteq wire
    BY <1>2 DEF OtherWrites, files
  <2>3. reply > 0 => reply <= Len(feed) /\ feed[reply].key # NoKey
    BY DEF SeenInv, Head_
  <2>4. Len(feed') = Len(feed) + 1 /\ \A i \in 1..Len(feed) : feed'[i] = feed[i]
    BY <1>1, <2>1, AppendFacts
  <2>5. reply' > 0 => reply' <= Head_' /\ feed'[reply'].key # NoKey
    BY <1>1, <2>2, <2>3, <2>4 DEF Head_
  <2>6. QED
    BY <2>1, <2>2, <2>5, GrowthSeen
<1>3. CASE Execute
  <2>1. PICK q \in wire :
          /\ wire' = wire \ {q}
          /\ feed' = IF Executed(q) = {} /\ Holding(q)
                     THEN Append(feed, [text |-> q.text, key |-> q.key]) ELSE feed
          /\ reply' = IF Awaited(q) THEN Answer(q) ELSE reply
    BY <1>3 DEF Execute
  <2>2. /\ UNCHANGED <<local, journal, events, task, history>> /\ wire' \subseteq wire
    BY <1>3, <2>1 DEF Execute, files
  <2>3. q.key \in OpKeys /\ q.key # NoKey
    BY DeviceAssumption DEF JournalInv, WireOK
  <2>4. reply > 0 => reply <= Len(feed) /\ feed[reply].key # NoKey
    BY DEF SeenInv, Head_
  <2>5. \A v \in Executed(q) : v \in 1..Len(feed) /\ feed[v].key = q.key
    BY <1>1 DEF Executed
  <2>6. CASE Executed(q) = {} /\ Holding(q)
    <3>1. PICK e : e = [text |-> q.text, key |-> q.key]
      OBVIOUS
    <3>2. feed' = Append(feed, e) /\ e.key = q.key
      BY <2>1, <2>6, <3>1
    <3>3. /\ Len(feed') = Len(feed) + 1 /\ \A i \in 1..Len(feed) : feed'[i] = feed[i]
          /\ feed'[Len(feed) + 1] = e
      BY <1>1, <3>2, AppendFacts
    <3>4. reply' = Len(feed) + 1 \/ reply' = reply
      BY <2>1, <2>6 DEF Answer, Head_
    <3>5. reply' > 0 => reply' <= Head_' /\ feed'[reply'].key # NoKey
      BY <1>1, <2>3, <2>4, <3>2, <3>3, <3>4 DEF Head_
    <3>6. QED
      BY <2>2, <3>2, <3>5, GrowthSeen
  <2>7. CASE ~(Executed(q) = {} /\ Holding(q))
    <3>1. feed' = feed
      BY <2>1, <2>7
    <3>2. Answer(q) \in Executed(q) \/ Answer(q) = Stale
      BY <2>7 DEF Answer
    <3>3. reply' > 0 => reply' <= Len(feed) /\ feed[reply'].key # NoKey
      BY <1>1, <2>1, <2>3, <2>4, <2>5, <3>2 DEF Stale
    <3>4. Risen /\ Fewer /\ UNCHANGED <<mem, disk, blocked, knew, shown, adopted, undone>>
      BY <2>2, <3>1 DEF Risen, Fewer, SeenInv, history, journal
    <3>5. /\ \A o : Known(o) => Known(o)'
          /\ \A s : QueueSeen(s) => QueueSeen(s)'
          /\ \A b : HeldBase(b) => HeldBase(b)'
          /\ \A b : Waiting(b) => Waiting(b)'
          /\ \A t, d, b : TaskSeen(t, d, b) => TaskSeen(t, d, b)'
      BY <3>4, SeenLonger
    <3>6. /\ DocSeen(mem)' /\ DocSeen(disk)' /\ Waiting(mem.base)'
          /\ TaskSeen(task, mem, blocked)'
      BY <2>2, <3>4, <3>5 DEF SeenInv, DocSeen
    <3>7. \A r \in wire' : Known(r)'
      BY <2>2, <3>5 DEF SeenInv
    <3>8. QED
      BY <3>1, <3>3, <3>4, <3>6, <3>7 DEF SeenInv, Head_
  <2>8. QED
    BY <2>6, <2>7
<1>4. QED
  BY <1>2, <1>3

\* Events that were not drained are gone, and what the disk has is in memory.
LEMMA RestartSeen ==
  ASSUME JournalInv, SeenInv, Restart
  PROVE  SeenInv'
<1>1. /\ UNCHANGED <<local, feed, wire, history, disk>> /\ mem' = disk /\ events' = <<>>
      /\ reply' = NoReply /\ task' = Idle
  BY DEF Restart, files
<1>2. Risen /\ UNCHANGED <<knew, shown>>
  BY <1>1 DEF Risen, SeenInv, history
<1>3. DocSeen(disk)' /\ \A q \in wire' : Known(q)'
  BY <1>1, <1>2, SeenLonger DEF SeenInv, DocSeen
<1>4. DocSeen(mem)'
  BY <1>1, <1>3 DEF DocSeen, QueueSeen, HeldBase
<1>5. Waiting(mem.base)'
  BY <1>1 DEF Waiting
<1>6. TaskSeen(task, mem, blocked)'
  BY <1>1 DEF TaskSeen, Idle
<1>7. QED
  BY <1>1, <1>2, <1>3, <1>4, <1>5, <1>6 DEF SeenInv, NoReply

\* A delete is queued only when its event waits, a put when the file has another text.
LEMMA DrainSeen ==
  ASSUME JournalInv, EventInv, SeenInv, DrainEvent
  PROVE  SeenInv'
<1>1. /\ UNCHANGED <<local, feed, wire, reply, history>> /\ task = Idle
      /\ events # <<>> /\ events' \in {events, Tail(events)}
  BY DrainPays DEF DrainEvent, PublicationFrame, NoWire, files
<1>2. Fewer
  <2>1. events \in Seq({"save", "delete"}) /\ Len(events) \in Nat
    BY DEF EventInv
  <2>2. CASE events' = events
    BY <2>2 DEF Fewer
  <2>3. CASE events' = Tail(events)
    <3>1. \A i \in DOMAIN Tail(events) : i + 1 \in DOMAIN events /\ Tail(events)[i] = events[i + 1]
      BY <1>1, <2>1
    <3>2. QED
      BY <2>3, <3>1 DEF Fewer
  <2>4. QED
    BY <1>1, <2>2, <2>3
<1>3. \A d : Fits(d) /\ Observed(d) => SeenInv'
  BY <1>1, <1>2, SeenForms, SeenTasks DEF Observed
<1>4. Ignored => SeenInv'
  BY <1>1, <1>2, SeenForms, SeenTasks, OrdinaryTask DEF Ignored
<1>5. CASE Head(events) = "save"
  <2>1. ObserveSave
    BY <1>5 DEF DrainEvent
  <2>2. \/ Ignored \/ Observed(Expect(mem, Absent))
        \/ local # Absent /\ ~InSync /\ Observed(Enqueue(mem, NewPut(mem, local)))
    <3>1. CASE local = Absent
      BY <2>1, <3>1 DEF ObserveSave
    <3>2. CASE local # Absent /\ mem.expected = local
      BY <2>1, <3>2 DEF ObserveSave
    <3>3. CASE local # Absent /\ mem.expected # local /\ InSync
      BY <2>1, <3>3 DEF ObserveSave
    <3>4. CASE local # Absent /\ mem.expected # local /\ ~InSync
      BY <2>1, <3>4 DEF ObserveSave
    <3>5. QED
      BY <3>1, <3>2, <3>3, <3>4
  <2>3. local # Absent /\ ~InSync => Fits(Enqueue(mem, NewPut(mem, local)))
    BY SeenBase, SeenDocs
  <2>4. QED
    BY <1>3, <1>4, <2>2, <2>3, SeenDocs
<1>6. CASE Head(events) # "save"
  <2>1. ObserveDelete
    BY <1>6 DEF DrainEvent
  <2>2. CASE Superseded
    <3>1. Observed(mem)
      BY <2>1, <2>2 DEF ObserveDelete
    <3>2. QED
      BY <1>3, <3>1, SeenDocs
  <2>3. CASE ~Superseded /\ Live(mem.base)
    <3>1. Observed(Enqueue(mem, NewDelete(mem, NoKey))) /\ local = Absent
      BY <2>1, <2>3 DEF ObserveDelete, Superseded
    <3>2. ~Unseen(mem.base.rev, knew)
      <4>1. 1 \in DOMAIN events /\ events[1] = "delete"
        BY <1>1, <1>6 DEF EventInv
      <4>2. local # mem.base.text
        BY <2>3, <3>1 DEF Live
      <4>3. QED
        BY <4>1, <4>2 DEF SeenInv, Waiting
    <3>3. Fits(Enqueue(mem, NewDelete(mem, NoKey)))
      BY <3>2, SeenBase, SeenDocs
    <3>4. QED
      BY <1>3, <3>1, <3>3
  <2>4. CASE ~Superseded /\ ~Live(mem.base)
    <3>1. PICK d : d = [mem EXCEPT !.ops = Without(mem, QueuedPuts)]
      OBVIOUS
    <3>2. Ignored \/ Observed(d) \/ \E k \in SentCreates : Observed(Enqueue(d, NewDelete(d, k)))
      BY <2>1, <2>4, <3>1 DEF ObserveDelete
    <3>3. /\ IsDocument(mem) /\ QueueOK(mem.ops, feed, wire) /\ QueueSeen(mem.ops)
          /\ IsSeq(mem.ops)
      BY MemFacts DEF SeenInv, DocSeen, QueueOK
    <3>4. IsDocument(d) /\ d.ops = Without(mem, QueuedPuts) /\ d.base = mem.base
      BY <3>1, <3>3 DEF IsDocument, IsRecord
    <3>5. QueueSeen(d.ops) /\ IsSeq(d.ops) /\ Fits(d)
      BY <3>3, <3>4, SeenWithout DEF Fits
    <3>6. ASSUME NEW k \in SentCreates PROVE Fits(Enqueue(d, NewDelete(d, k)))
      <4>1. k # NoKey
        BY <3>3, DeviceAssumption DEF SentCreates, QueueOK, IsOp
      <4>2. Known(NewDelete(d, k))
        BY <4>1, SeenBase
      <4>3. Enqueue(d, NewDelete(d, k)).base = mem.base
        BY <3>4 DEF Enqueue, IsDocument, IsRecord
      <4>4. QED
        BY <3>4, <3>5, <4>2, <4>3, SeenEnqueue DEF Fits
    <3>7. QED
      BY <1>3, <1>4, <3>2, <3>5, <3>6
  <2>5. QED
    BY <2>2, <2>3, <2>4
<1>7. QED
  BY <1>5, <1>6

-----------------------------------------------------------------------------
\* Nothing that waits is about to replace what the user has not seen.
LEMMA SeenInvHolds == Spec => []SeenInv
<1>1. Init => SeenInv
  <2> SUFFICES ASSUME Init PROVE SeenInv
    OBVIOUS
  <2>1. /\ disk = mem /\ events = <<>> /\ wire = {} /\ reply = 0 /\ task = Idle
        /\ (feed = <<>> \/ Len(feed) = 1) /\ (Enrolled \/ Fresh)
    <3>1. feed = <<>> \/ \E e : feed = <<e>>
      BY DEF Init
    <3>2. QED
      BY <3>1 DEF Init, NoReply
  <2>2. TaskSeen(task, mem, blocked)
    BY <2>1 DEF TaskSeen, Idle
  <2>3. mem.ops = <<>> /\ knew \in Int /\ shown \in Int /\ knew <= shown /\ mem.base.rev <= knew
        /\ mem.base.rev \in Int
    <3>1. CASE Enrolled
      <4>1. PICK b : b = [rev |-> Len(feed), text |-> local]
        OBVIOUS
      <4>2. mem = Document(b) /\ b.rev = Len(feed) /\ knew = Len(feed) /\ shown = Len(feed)
        BY <3>1, <4>1 DEF Enrolled
      <4>3. Len(feed) \in Nat
        BY <2>1
      <4>4. QED
        BY <4>2, <4>3 DEF Document
    <3>2. CASE Fresh
      <4>1. PICK d : d = Document(NoBase)
        OBVIOUS
      <4>2. mem = [d EXCEPT !.cursor = NoCursor, !.bound = FALSE] /\ knew = 0 /\ shown = 0
        BY <3>2, <4>1 DEF Fresh, FreshDocument
      <4>3. d.ops = <<>> /\ d.base = NoBase
        BY <4>1 DEF Document
      <4>4. mem.ops = <<>> /\ mem.base = NoBase
        BY <4>1, <4>2 DEF Document
      <4>5. QED
        BY <4>2, <4>4 DEF NoBase
    <3>3. QED
      BY <2>1, <3>1, <3>2
  <2>4. ~Unseen(mem.base.rev, knew) /\ QueueSeen(mem.ops)
    BY <2>3 DEF Unseen, QueueSeen
  <2>5. QED
    BY <2>1, <2>2, <2>3, <2>4 DEF SeenInv, DocSeen, HeldBase, Waiting
<1>2. JournalInv /\ EventInv /\ SeenInv /\ [Next]_vars => SeenInv'
  <2> SUFFICES ASSUME JournalInv, EventInv, SeenInv, [Next]_vars PROVE SeenInv'
    OBVIOUS
  <2>1. CASE ApplyStep
    BY <2>1, BeginSeen, ConflictSeen, TrashSeen, CompleteSeen, DecideSeen, ReadBackSeen, WriteSeen,
       MoveSeen DEF ApplyStep
  <2>2. CASE PublicationStep
    BY <2>2, ScanSeen, RestoreSeen, FlushSeen, RefreshSeen, SendSeen, ReceiptSeen, RequestSeen
    DEF PublicationStep
  <2>3. CASE ReplayStep \/ StartCycle
    BY <2>3, ReplaySeen
  <2>4. CASE EnrollStep
    BY <2>4, ManifestSeen, EntrySeen, SentSeen, UploadSeen, RequestSeen DEF EnrollStep
  <2>5. CASE Environment
    BY <2>5, EditSeen, OutsideSeen, VaultSeen, RestartSeen DEF Environment
  <2>6. CASE DrainEvent
    BY <2>6, DrainSeen
  <2>7. CASE UNCHANGED vars
    BY <2>7, OutsideSeen
  <2>8. QED
    BY <2>1, <2>2, <2>3, <2>4, <2>5, <2>6, <2>7 DEF Next, Device, TaskStep
<1>3. QED
  BY <1>1, <1>2, JournalInvHolds, EventInvHolds, PTL DEF Spec

\* A device replaces a live revision of another writer only when the user had it before
\* him, when the revision holds the text of his first upload, or when an apply of an older
\* row has taken it from the file (KnownOverwrites).
THEOREM KnownOverwritesHolds == Spec => KnownOverwrites
<1> DEFINE Step ==
      \A q \in wire :
        (feed' # feed /\ feed'[Head_ + 1].key = q.key) =>
          \/ feed = <<>> \/ feed[Head_].text = Absent \/ feed[Head_].key # NoKey
          \/ Head_ <= q.knew \/ Head_ \in adopted \cup undone
<1>1. JournalInv /\ SeenInv /\ [Next]_vars => Step
  <2> SUFFICES ASSUME JournalInv, SeenInv, [Next]_vars, NEW q \in wire,
                      feed' # feed, feed'[Head_ + 1].key = q.key
               PROVE  \/ feed = <<>> \/ feed[Head_].text = Absent \/ feed[Head_].key # NoKey
                      \/ Head_ <= q.knew \/ Head_ \in adopted \cup undone
    OBVIOUS
  <2>1. /\ Len(feed) \in Nat /\ IsSeq(feed) /\ q.key # NoKey
        /\ \A e : Append(feed, e)[Head_ + 1] = e
    BY MemFacts, AppendFacts, DeviceAssumption DEF JournalInv, WireOK, Head_
  <2>2. OtherWrites \/ Execute
    <3>1. ApplyStep \/ ReplayStep \/ StartCycle \/ PublicationStep \/ DrainEvent => UNCHANGED feed
      BY DEF ApplyStep, PublicationStep, ReplayStep, Rebase, Begin, Resume, Begun, Decide, Write,
             ReadBack, RefusedWrite, StartConflict, Trash, MoveToTrash, Trashed, Complete,
             CreateCopy, MarkCopy, CopyAttended, Finish, AttendRefused, Scan, Restore, Restored,
             StartFlush, Take, Skip, EndFlush, Refresh, Requeue, PrepareSend, Dispatch, DeferSend,
             Confirm, Settle, Recover, Reject, ReadPage, NextRow, EndRow, StartCycle, DrainEvent,
             SameJournal, NoEffect, ApplyFrame, ReplayFrame, PublicationFrame, remote
    <3>2. EnrollStep => UNCHANGED feed
      BY DEF EnrollStep, ReadManifest, Bind, ListFiles, Hold, TakeEntry, ResolveEntry, Acknowledge,
             EndEntry, EndPage, FindSent, ResolveSent, SentKnown, PublishLocal, PrepareCreate,
             SendCreate, ConfirmCreate, SettleCreate, Published, EndEnrollment, EnrollFrame,
             PublicationFrame
    <3>3. Environment => UNCHANGED feed \/ OtherWrites \/ Execute
      BY DEF Environment, UserEdit, UserEditsCopy, DeleteRows, Restart, LoseAnswer, Refuse,
             LoseCreated, RefuseCreate, PublicationFrame, remote
    <3>4. QED
      BY <3>1, <3>2, <3>3 DEF Next, Device, TaskStep, vars
  <2>3. CASE OtherWrites
    <3>1. PICK t : feed' = Append(feed, [text |-> t, key |-> NoKey])
      BY <2>3 DEF OtherWrites
    <3>2. feed'[Head_ + 1] = [text |-> t, key |-> NoKey]
      BY <2>1, <3>1
    <3>3. QED
      BY <2>1, <3>2
  <2>4. CASE Execute
    <3>1. PICK r \in wire : Holding(r) /\ feed' = Append(feed, [text |-> r.text, key |-> r.key])
      BY <2>4 DEF Execute
    <3>2. q.key = r.key
      <4>1. feed'[Head_ + 1] = [text |-> r.text, key |-> r.key]
        BY <2>1, <3>1
      <4>2. QED
        BY <4>1
    <3>3. q.knew = r.knew
      BY <3>2 DEF JournalInv, WireOK, Sig
    <3>4. CASE r.pre = 0
      BY <3>1, <3>4 DEF Holding
    <3>5. CASE r.pre # 0
      <4>1. r.pre = Head_ /\ Known(r)
        BY <3>1, <3>5 DEF Holding, SeenInv
      <4>2. 0 < Head_
        BY <2>1, <3>5, <4>1 DEF Head_
      <4>3. QED
        BY <2>1, <3>3, <4>1, <4>2 DEF Known, Unseen, Head_
    <3>6. QED
      BY <3>4, <3>5
  <2>5. QED
    BY <2>2, <2>3, <2>4
<1>2. QED
  BY <1>1, JournalInvHolds, SeenInvHolds, PTL DEF Spec, KnownOverwrites

=============================================================================
