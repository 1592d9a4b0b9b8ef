----------------------------- MODULE CpuProofs -----------------------------
(***************************************************************************)
(* What the operations of module Kernel keep of a kernel state, and then   *)
(* the steps that every composition shares: handlers, PendSV, and the      *)
(* services of the kernel itself.  The invariant KInv restates the         *)
(* predicates at the end of module Kernel in terms of membership in the    *)
(* lists, which is all that the lemmas need to know of them: a lemma says  *)
(* which threads an operation links, unlinks, wakes or suspends, and that  *)
(* it keeps KInv.  The steps keep CpuInv, and none of them blocks a thread *)
(* other than its caller.                                                  *)
(***************************************************************************)
EXTENDS Cpu, TLAPS, SequenceTheorems, WellFoundedInduction

\* the minimum of a set of naturals that is not empty is its least member
LEMMA MinProps ==
    ASSUME NEW S, S \subseteq Nat, S # {}
    PROVE  Min(S) \in S /\ \A y \in S : Min(S) <= y
<1> DEFINE R == {ss \in Nat \X Nat : ss[1] < ss[2]}
<1>1. OpToRel(<, Nat) = R
  BY Zenon DEF OpToRel
<1>2. PICK x \in S : \A y \in S : ~ (<<y, x>> \in R)
  BY <1>1, NatLessThanWellFounded, WFMin
<1>3. \A y \in S : x <= y
  <2>1. ASSUME NEW y \in S, y < x PROVE <<y, x>> \in R
    BY <2>1
  <2> HIDE DEF R
  <2>2. \A y \in S : ~(y < x)
    BY <1>2, <2>1
  <2> QED BY <2>2
<1> QED BY <1>3 DEF Min

\* s without its entry at i: rt_list_remove of one entry
Without(q, s, i) ==
    /\ Len(q) = Len(s) - 1
    /\ \A j \in 1 .. Len(s) - 1 : q[j] = IF j < i THEN s[j] ELSE s[j + 1]

\* what rt_list_remove takes out of a list is one entry of the thread
LEMMA ListDelShape ==
    ASSUME NEW S, NEW s \in Seq(S), NEW t, t \in Range(s)
    PROVE  /\ ListDel(s, t) \in Seq(S)
           /\ \E i \in 1 .. Len(s) : s[i] = t /\ Without(ListDel(s, t), s, i)
<1> DEFINE i == CHOOSE j \in DOMAIN s : s[j] = t
           a == SubSeq(s, 1, i - 1)
           b == SubSeq(s, i + 1, Len(s))
           d == a \o b
<1>1. i \in 1 .. Len(s) /\ s[i] = t
  BY DEF Range
<1>2. ListDel(s, t) = d
  BY DEF ListDel, RemoveAt
<1> HIDE DEF i
<1>3. /\ a \in Seq(S) /\ Len(a) = i - 1
      /\ \A j \in 1 .. i - 1 : a[j] = s[j]
  BY <1>1, SubSeqProperties
<1>4. /\ b \in Seq(S) /\ Len(b) = Len(s) - i
      /\ \A j \in 1 .. Len(s) - i : b[j] = s[i + j]
  BY <1>1, SubSeqProperties
<1> HIDE DEF a, b
<1>5. d \in Seq(S) /\ Len(d) = Len(s) - 1
  BY <1>1, <1>3, <1>4, ConcatProperties
<1>6. ASSUME NEW j \in 1 .. Len(s) - 1
      PROVE  d[j] = IF j < i THEN s[j] ELSE s[j + 1]
  <2>1. d[j] = IF j <= i - 1 THEN a[j] ELSE b[j - (i - 1)]
    BY <1>1, <1>3, <1>4, <1>6, ConcatProperties
  <2>2. CASE j < i
    BY <1>1, <1>3, <1>6, <2>1, <2>2
  <2>3. CASE ~(j < i)
    <3> DEFINE n == j - (i - 1)
    <3>1. n \in 1 .. Len(s) - i /\ i + n = j + 1
      BY <1>1, <1>6, <2>3
    <3>2. b[n] = s[i + n]
      <4> HIDE DEF n
      <4> QED BY <1>4, <3>1
    <3> QED BY <1>1, <1>6, <2>1, <2>3, <3>1, <3>2
  <2> QED BY <2>2, <2>3
<1> HIDE DEF d
<1>7. Without(d, s, i)
  BY <1>5, <1>6 DEF Without
<1> QED BY <1>1, <1>2, <1>5, <1>7

\* rt_list_remove on a duplicate-free list takes out that thread and nobody else
LEMMA ListDelProps ==
    ASSUME NEW S, NEW s \in Seq(S), IsInjective(s), NEW t
    PROVE  /\ ListDel(s, t) \in Seq(S)
           /\ IsInjective(ListDel(s, t))
           /\ Range(ListDel(s, t)) = Range(s) \ {t}
           /\ t \notin Range(s) => ListDel(s, t) = s
<1>1. CASE t \notin Range(s)
  BY <1>1 DEF ListDel
<1>2. CASE t \in Range(s)
  <2> DEFINE d == ListDel(s, t)
  <2>1. d \in Seq(S)
    BY <1>2, ListDelShape
  <2>2. PICK i \in 1 .. Len(s) : s[i] = t /\ Without(d, s, i)
    BY <1>2, ListDelShape
  <2> HIDE DEF d
  <2>3. /\ Len(d) = Len(s) - 1
        /\ \A j \in 1 .. Len(s) - 1 : d[j] = IF j < i THEN s[j] ELSE s[j + 1]
    BY <2>2 DEF Without
  <2>4. IsInjective(d)
    BY <2>1, <2>2, <2>3 DEF IsInjective
  <2>5. Range(d) \subseteq Range(s) \ {t}
    BY <2>1, <2>2, <2>3 DEF IsInjective, Range
  <2>6. ASSUME NEW u \in Range(s), u # t PROVE u \in Range(d)
    <3>1. PICK j \in 1 .. Len(s) : s[j] = u
      BY DEF Range
    <3>2. CASE j < i
      BY <3>1, <3>2, <2>1, <2>2, <2>3 DEF Range
    <3>3. CASE j > i
      <4>1. d[j - 1] = u /\ j - 1 \in DOMAIN d
        BY <3>1, <3>3, <2>1, <2>2, <2>3
      <4> QED BY <4>1 DEF Range
    <3> QED BY <3>1, <3>2, <3>3, <2>2, <2>6
  <2> QED BY <1>2, <2>1, <2>4, <2>5, <2>6 DEF d
<1> QED BY <1>1, <1>2

\* the members of a list: none exactly when it is empty, its head otherwise
LEMMA RangeProps ==
    ASSUME NEW S, NEW s \in Seq(S)
    PROVE  /\ Range(s) \subseteq S
           /\ s = <<>> <=> Range(s) = {}
           /\ s # <<>> => Head(s) \in Range(s)
<1>1. Range(s) \subseteq S
  BY DEF Range
<1>2. s # <<>> => 1 \in DOMAIN s /\ Head(s) = s[1]
  OBVIOUS
<1>3. s = <<>> => Range(s) = {}
  BY DEF Range
<1> QED BY <1>1, <1>2, <1>3 DEF Range

\* rt_list_insert_before on the head of a list adds one member
LEMMA AppendProps ==
    ASSUME NEW S, NEW s \in Seq(S), NEW t \in S
    PROVE  /\ Append(s, t) \in Seq(S)
           /\ Range(Append(s, t)) = Range(s) \cup {t}
           /\ Append(s, t) # <<>>
           /\ IsInjective(s) /\ t \notin Range(s) => IsInjective(Append(s, t))
<1> DEFINE d == Append(s, t)
<1>1. d \in Seq(S) /\ Len(d) = Len(s) + 1
  OBVIOUS
<1>2. d[Len(s) + 1] = t /\ \A j \in 1 .. Len(s) : d[j] = s[j]
  OBVIOUS
<1> HIDE DEF d
<1>3. Range(d) \subseteq Range(s) \cup {t}
  BY <1>1, <1>2 DEF Range
<1>4. Range(s) \cup {t} \subseteq Range(d)
  <2>1. t \in Range(d)
    BY <1>1, <1>2 DEF Range
  <2>2. ASSUME NEW j \in 1 .. Len(s) PROVE s[j] \in Range(d)
    BY <1>1, <1>2 DEF Range
  <2> QED BY <2>1, <2>2 DEF Range
<1>5. ASSUME IsInjective(s), t \notin Range(s) PROVE IsInjective(d)
  BY <1>1, <1>2, <1>5 DEF IsInjective, Range
<1>6. d # <<>>
  BY <1>1
<1> QED BY <1>1, <1>3, <1>4, <1>5, <1>6 DEF d

\* s with t in front of its entry at i, or at its end
With(q, s, t, i) ==
    /\ Len(q) = Len(s) + 1
    /\ \A j \in 1 .. Len(s) + 1 :
          q[j] = IF j < i THEN s[j] ELSE IF j = i THEN t ELSE s[j - 1]

\* an ordered insertion goes in front of the first member of A
LEMMA ListInsertShape ==
    ASSUME NEW S, NEW s \in Seq(S), NEW t \in S, NEW A
    PROVE  /\ ListInsert(s, t, A) \in Seq(S)
           /\ \E i \in 1 .. Len(s) + 1 :
                 /\ With(ListInsert(s, t, A), s, t, i)
                 /\ \A j \in 1 .. i - 1 : s[j] \notin A
                 /\ i <= Len(s) => s[i] \in A
<1> DEFINE later == {j \in DOMAIN s : s[j] \in A}
<1>1. CASE later = {}
  <2> DEFINE d == Append(s, t)
  <2>1. ListInsert(s, t, A) = d
    BY <1>1 DEF ListInsert
  <2>2. d \in Seq(S) /\ Len(d) = Len(s) + 1 /\ Len(s) \in Nat
    OBVIOUS
  <2>3. d[Len(s) + 1] = t /\ \A j \in 1 .. Len(s) : d[j] = s[j]
    OBVIOUS
  <2> HIDE DEF d
  <2>4. With(d, s, t, Len(s) + 1)
    BY <2>2, <2>3 DEF With
  <2>5. \A j \in 1 .. Len(s) : s[j] \notin A
    BY <1>1
  <2> QED BY <2>1, <2>2, <2>4, <2>5
<1>2. CASE later # {}
  <2> DEFINE i == Min(later)
             a == SubSeq(s, 1, i - 1)
             b == SubSeq(s, i, Len(s))
             c == a \o <<t>>
             d == c \o b
  <2>1. i \in later /\ \A j \in later : i <= j
    <3>1. later \subseteq Nat
      OBVIOUS
    <3> HIDE DEF later
    <3> QED BY <1>2, <3>1, MinProps
  <2>2. ListInsert(s, t, A) = d
    BY <1>2 DEF ListInsert, InsertAt
  <2> HIDE DEF i
  <2>3. i \in 1 .. Len(s) /\ s[i] \in A /\ \A j \in 1 .. i - 1 : s[j] \notin A
    BY <2>1
  <2>4. /\ a \in Seq(S) /\ Len(a) = i - 1
        /\ \A j \in 1 .. i - 1 : a[j] = s[j]
    BY <2>3, SubSeqProperties
  <2>5. /\ b \in Seq(S) /\ Len(b) = Len(s) - i + 1
        /\ \A j \in 1 .. Len(s) - i + 1 : b[j] = s[i + j - 1]
    BY <2>3, SubSeqProperties
  <2> HIDE DEF a, b
  <2>6. <<t>> \in Seq(S) /\ Len(<<t>>) = 1 /\ <<t>>[1] = t
    OBVIOUS
  <2>7. c \in Seq(S) /\ Len(c) = i
    BY <2>3, <2>4, <2>6, ConcatProperties
  <2>8. c[i] = t /\ \A j \in 1 .. i - 1 : c[j] = s[j]
    BY <2>3, <2>4, <2>6
  <2> HIDE DEF c
  <2>9. d \in Seq(S) /\ Len(d) = Len(s) + 1
    <3>1. d \in Seq(S) /\ Len(d) = Len(c) + Len(b)
      BY <2>5, <2>7, ConcatProperties
    <3> QED BY <2>3, <2>5, <2>7, <3>1
  <2>10. \A j \in 1 .. Len(s) + 1 : d[j] = IF j <= i THEN c[j] ELSE b[j - i]
    BY <2>3, <2>5, <2>7, ConcatProperties
  <2> HIDE DEF d
  <2>11. ASSUME NEW j \in 1 .. Len(s) + 1
         PROVE  d[j] = IF j < i THEN s[j] ELSE IF j = i THEN t ELSE s[j - 1]
    <3>1. CASE j <= i
      BY <2>3, <2>8, <2>10, <2>11, <3>1
    <3>2. CASE j > i
      <4> DEFINE n == j - i
      <4>1. n \in 1 .. Len(s) - i + 1 /\ i + n - 1 = j - 1
        BY <2>3, <2>11, <3>2
      <4>2. b[n] = s[i + n - 1]
        <5> HIDE DEF n
        <5> QED BY <2>5, <4>1
      <4> QED BY <2>3, <2>10, <2>11, <3>2, <4>1, <4>2
    <3> QED BY <2>3, <2>11, <3>1, <3>2
  <2>12. With(d, s, t, i)
    BY <2>9, <2>11 DEF With
  <2> QED BY <2>2, <2>3, <2>9, <2>12
<1> QED BY <1>1, <1>2

\* an ordered insertion adds one member, wherever the order puts it
LEMMA ListInsertProps ==
    ASSUME NEW S, NEW s \in Seq(S), IsInjective(s), NEW t \in S, t \notin Range(s),
           NEW A
    PROVE  /\ ListInsert(s, t, A) \in Seq(S)
           /\ IsInjective(ListInsert(s, t, A))
           /\ Range(ListInsert(s, t, A)) = Range(s) \cup {t}
<1> DEFINE d == ListInsert(s, t, A)
           n == Len(s)
<1>1. d \in Seq(S) /\ n \in Nat
  BY ListInsertShape
<1>2. PICK i \in 1 .. n + 1 : With(d, s, t, i)
  BY ListInsertShape
<1> HIDE DEF d
<1>3. /\ DOMAIN d = 1 .. n + 1 /\ DOMAIN s = 1 .. n /\ d[i] = t
      /\ \A j \in 1 .. n + 1 : j < i => d[j] = s[j] /\ j \in 1 .. n
      /\ \A j \in 1 .. n + 1 : j > i => d[j] = s[j - 1] /\ j - 1 \in 1 .. n
  BY <1>1, <1>2 DEF With
<1>4. IsInjective(d)
  <2> SUFFICES ASSUME NEW x \in 1 .. n + 1, NEW y \in 1 .. n + 1, x < y, d[x] = d[y]
               PROVE  FALSE
    BY <1>1, <1>3 DEF IsInjective
  <2>1. \A j \in 1 .. n : s[j] # t
    BY <1>3 DEF Range
  <2>2. \A j, m \in 1 .. n : s[j] = s[m] => j = m
    BY <1>3 DEF IsInjective
  <2>3. CASE x = i
    BY <1>1, <1>3, <2>1, <2>3
  <2>4. CASE y = i
    BY <1>1, <1>3, <2>1, <2>4
  <2>5. CASE x < i /\ y < i
    BY <1>1, <1>3, <2>2, <2>5
  <2>6. CASE x < i /\ y > i
    BY <1>1, <1>3, <2>2, <2>6
  <2>7. CASE x > i /\ y > i
    BY <1>1, <1>3, <2>2, <2>7
  <2> QED BY <1>1, <2>3, <2>4, <2>5, <2>6, <2>7
<1>5. Range(d) \subseteq Range(s) \cup {t}
  <2> SUFFICES ASSUME NEW j \in 1 .. n + 1 PROVE d[j] \in Range(s) \cup {t}
    BY <1>3 DEF Range
  <2>1. \A m \in 1 .. n : s[m] \in Range(s)
    BY <1>3 DEF Range
  <2>2. j < i \/ j = i \/ j > i
    BY <1>1
  <2> QED BY <1>3, <2>1, <2>2
<1>6. t \in Range(d)
  BY <1>3 DEF Range
<1>7. ASSUME NEW j \in 1 .. n PROVE s[j] \in Range(d)
  <2>1. CASE j < i
    <3>1. d[j] = s[j] /\ j \in DOMAIN d
      BY <1>1, <1>3, <1>7, <2>1
    <3> QED BY <3>1 DEF Range
  <2>2. CASE j >= i
    <3>1. d[j + 1] = s[j] /\ j + 1 \in DOMAIN d
      BY <1>1, <1>3, <1>7, <2>2
    <3> QED BY <3>1 DEF Range
  <2> QED BY <1>1, <1>7, <2>1, <2>2
<1>8. Range(s) \subseteq Range(d)
  BY <1>3, <1>7 DEF Range
<1> QED BY <1>1, <1>4, <1>5, <1>6, <1>8 DEF d

\* the members of s are in the order of their values under f
Sorted(s, f) == \A i, j \in 1 .. Len(s) : i < j => f[s[i]] <= f[s[j]]

\* rt_list_remove keeps the order of a list
LEMMA SortedDel ==
    ASSUME NEW S, NEW s \in Seq(S), NEW f, Sorted(s, f), NEW t
    PROVE  Sorted(ListDel(s, t), f)
<1>1. CASE t \notin Range(s)
  BY <1>1 DEF ListDel
<1>2. CASE t \in Range(s)
  <2> DEFINE d == ListDel(s, t)
             n == Len(s)
  <2>1. PICK i \in 1 .. n : Without(d, s, i)
    BY <1>2, ListDelShape
  <2> HIDE DEF d
  <2>2. /\ n \in Nat /\ Len(d) = n - 1
        /\ \A j \in 1 .. n - 1 : d[j] = IF j < i THEN s[j] ELSE s[j + 1]
    BY <2>1 DEF Without
  <2>3. \A x, y \in 1 .. n : x < y => f[s[x]] <= f[s[y]]
    BY DEF Sorted
  <2> HIDE DEF n
  <2>4. ASSUME NEW x \in 1 .. n - 1, NEW y \in 1 .. n - 1, x < y
        PROVE  f[d[x]] <= f[d[y]]
    <3> DEFINE x1 == IF x < i THEN x ELSE x + 1
               y1 == IF y < i THEN y ELSE y + 1
    <3>1. x1 \in 1 .. n /\ y1 \in 1 .. n /\ x1 < y1
      BY <2>2, <2>4
    <3>2. d[x] = s[x1] /\ d[y] = s[y1]
      BY <2>2, <2>4
    <3> HIDE DEF x1, y1
    <3> QED BY <2>3, <3>1, <3>2
  <2> QED BY <2>2, <2>4 DEF Sorted, d
<1> QED BY <1>1, <1>2

\* so does an ordered insertion in front of the members with a larger value
LEMMA SortedInsert ==
    ASSUME NEW S, NEW s \in Seq(S), NEW f, \A u \in S : f[u] \in Int, Sorted(s, f),
           NEW t \in S, NEW A, \A u \in S : u \in A <=> f[t] < f[u]
    PROVE  Sorted(ListInsert(s, t, A), f)
<1> DEFINE d == ListInsert(s, t, A)
           n == Len(s)
           g(j) == f[s[j]]
           v == f[t]
<1>1. PICK i \in 1 .. n + 1 :
         /\ With(d, s, t, i)
         /\ \A j \in 1 .. i - 1 : s[j] \notin A
         /\ i <= n => s[i] \in A
  BY ListInsertShape
<1> HIDE DEF d
<1>2. /\ n \in Nat /\ Len(d) = n + 1 /\ v \in Int
      /\ \A j \in 1 .. n + 1 : d[j] = IF j < i THEN s[j] ELSE IF j = i THEN t ELSE s[j - 1]
      /\ \A j \in 1 .. n : s[j] \in S
  BY <1>1 DEF With
<1>3. /\ \A j \in 1 .. n : g(j) \in Int
      /\ \A x, y \in 1 .. n : x < y => g(x) <= g(y)
  BY <1>2 DEF Sorted
<1>4. \A j \in 1 .. n : j < i => g(j) <= v
  <2> SUFFICES ASSUME NEW j \in 1 .. n, j < i PROVE g(j) <= v
    OBVIOUS
  <2>1. s[j] \notin A /\ s[j] \in S
    BY <1>1, <1>2
  <2> QED BY <1>2, <1>3, <2>1
<1>5. \A j \in 1 .. n : j >= i => v <= g(j)
  <2> SUFFICES ASSUME NEW j \in 1 .. n, j >= i PROVE v <= g(j)
    OBVIOUS
  <2>1. i \in 1 .. n /\ s[i] \in A
    BY <1>1, <1>2
  <2>2. v < g(i) /\ g(i) \in Int
    BY <1>2, <1>3, <2>1
  <2>3. i = j \/ g(i) <= g(j)
    BY <1>3, <2>1
  <2> QED BY <1>2, <1>3, <2>2, <2>3
<1> DEFINE h(j) == IF j < i THEN g(j) ELSE IF j = i THEN v ELSE g(j - 1)
<1>6. \A j \in 1 .. n + 1 : f[d[j]] = h(j)
  BY <1>2
<1> HIDE DEF g, v, n
<1>7. ASSUME NEW x \in 1 .. n + 1, NEW y \in 1 .. n + 1, x < y
      PROVE  h(x) <= h(y)
  <2>1. CASE y < i
    BY <1>2, <1>3, <1>7, <2>1
  <2>2. CASE y = i
    BY <1>2, <1>4, <1>7, <2>2
  <2>3. CASE x < i /\ y > i
    <3>1. x \in 1 .. n /\ y - 1 \in 1 .. n /\ y - 1 >= i
      BY <1>2, <1>7, <2>3
    <3>2. h(x) = g(x) /\ h(y) = g(y - 1) /\ g(x) \in Int /\ g(y - 1) \in Int
      BY <1>2, <1>3, <1>7, <2>3, <3>1
    <3>3. g(x) <= v /\ v <= g(y - 1)
      BY <1>4, <1>5, <2>3, <3>1
    <3> QED BY <1>2, <3>2, <3>3
  <2>4. CASE x = i
    BY <1>2, <1>5, <1>7, <2>4
  <2>5. CASE x > i
    <3>1. x - 1 \in 1 .. n /\ y - 1 \in 1 .. n /\ x - 1 < y - 1
      BY <1>2, <1>7, <2>5
    <3>2. h(x) = g(x - 1) /\ h(y) = g(y - 1)
      BY <1>2, <1>7, <2>5
    <3> QED BY <1>3, <3>1, <3>2
  <2> QED BY <1>2, <1>7, <2>1, <2>2, <2>3, <2>4, <2>5
<1> QED BY <1>2, <1>6, <1>7 DEF Sorted, d

-----------------------------------------------------------------------------
(* The invariant of the kernel state, in terms of membership in the lists. *)

InReady(r, t, p) == t \in Range(r.ready[p])
InWait(r, t, o) == t \in Range(r.wait[o])
InDefunct(r, t) == t \in Range(r.defunct)
InTimers(r, t) == t \in Range(r.timers)

WellFormed(r) ==
    /\ r \in KernelState
    /\ \A p \in Prio : IsInjective(r.ready[p])
    /\ \A o \in Obj : IsInjective(r.wait[o])
    /\ IsInjective(r.defunct)
    /\ IsInjective(r.timers)

Placed(r) ==
    /\ \A u \in Thread, p \in Prio : InReady(r, u, p) => r.stat[u] = "READY" /\ r.prio[u] = p
    /\ \A u \in Thread, o \in Obj : InWait(r, u, o) => r.stat[u] = "SUSPEND"
    /\ \A u \in Thread, o, o2 \in Obj : InWait(r, u, o) /\ InWait(r, u, o2) => o = o2
    /\ \A u \in Thread : InDefunct(r, u) => r.stat[u] = "CLOSE"
    /\ \A u \in Thread : InTimers(r, u) => r.stat[u] = "SUSPEND"

Queued(r) == \A u \in Thread : r.stat[u] = "READY" => InReady(r, u, r.prio[u])

Grouped(r) == \A p \in Prio : p \in r.group <=> \E u \in Thread : InReady(r, u, p)

KInv(r) ==
    /\ WellFormed(r) /\ Placed(r) /\ Queued(r) /\ Grouped(r)
    /\ SwitchAgrees(r) /\ CurOnlyRunning(r) /\ IdleIsRunnable(r)

\* the invariant says what the properties of the modules say
LEMMA KInvMeaning ==
    ASSUME NEW r, KInv(r)
    PROVE  /\ r \in KernelState
           /\ LinksMatchStat(r) /\ QueuedIfReady(r) /\ GroupOfQueues(r)
           /\ SwitchAgrees(r) /\ CurOnlyRunning(r) /\ IdleIsRunnable(r)
           /\ TimersMatchStat(r)
<1>1. r \in KernelState
  BY DEF KInv, WellFormed
<1>2. /\ \A p \in Prio : r.ready[p] \in Seq(Thread) /\ Range(r.ready[p]) \subseteq Thread
      /\ \A o \in Obj : Range(r.wait[o]) \subseteq Thread
      /\ Range(r.defunct) \subseteq Thread /\ Range(r.timers) \subseteq Thread
  BY <1>1, RangeProps DEF KernelState
<1>3. LinksMatchStat(r)
  <2>1. ASSUME NEW p \in Prio, NEW u \in Range(r.ready[p])
        PROVE  r.stat[u] = "READY" /\ r.prio[u] = p
    BY <1>2 DEF KInv, Placed, InReady
  <2>2. ASSUME NEW o \in Obj, NEW u \in Range(r.wait[o])
        PROVE  r.stat[u] = "SUSPEND" /\ \A o2 \in Obj \ {o} : u \notin Range(r.wait[o2])
    BY <1>2 DEF KInv, Placed, InWait
  <2>3. ASSUME NEW u \in Range(r.defunct) PROVE r.stat[u] = "CLOSE"
    BY <1>2 DEF KInv, Placed, InDefunct
  <2> QED BY <2>1, <2>2, <2>3 DEF KInv, WellFormed, LinksMatchStat
<1>4. QueuedIfReady(r)
  BY DEF KInv, Queued, QueuedIfReady, InReady
<1>5. GroupOfQueues(r)
  <2> SUFFICES ASSUME NEW p \in Prio PROVE p \in r.group <=> r.ready[p] # <<>>
    BY DEF GroupOfQueues
  <2>1. r.ready[p] # <<>> <=> Range(r.ready[p]) # {}
    BY <1>2, RangeProps
  <2> QED BY <1>2, <2>1 DEF KInv, Grouped, InReady
<1>6. TimersMatchStat(r)
  BY <1>2 DEF KInv, WellFormed, Placed, InTimers, TimersMatchStat
<1> QED BY <1>1, <1>3, <1>4, <1>5, <1>6 DEF KInv

-----------------------------------------------------------------------------
(* What each operation does to the lists and the fields. *)

SameCore(q, r) ==
    /\ q.cur = r.cur /\ q.exec = r.exec /\ q.sw = r.sw
    /\ q.prio = r.prio /\ q.lock = r.lock

SameLists(q, r) ==
    /\ \A u \in Thread, p \in Prio : InReady(q, u, p) <=> InReady(r, u, p)
    /\ \A u \in Thread, o \in Obj : InWait(q, u, o) <=> InWait(r, u, o)
    /\ \A u \in Thread : InDefunct(q, u) <=> InDefunct(r, u)

\* t out of the lists, the other threads where they were
Unlinks(q, r, t) ==
    /\ \A u \in Thread, p \in Prio : InReady(q, u, p) <=> InReady(r, u, p) /\ u # t
    /\ \A u \in Thread, o \in Obj : InWait(q, u, o) <=> InWait(r, u, o) /\ u # t
    /\ \A u \in Thread : InDefunct(q, u) <=> InDefunct(r, u) /\ u # t

SameTimers(q, r) == \A u \in Thread : InTimers(q, u) <=> InTimers(r, u)

\* rt_list_remove(&thread->tlist) takes the thread out of every list but the timers
LEMMA TListRemoveProps ==
    ASSUME NEW r, WellFormed(r), NEW t \in Thread, NEW q, q = TListRemove(r, t)
    PROVE  /\ WellFormed(q) /\ SameCore(q, r) /\ Unlinks(q, r, t) /\ SameTimers(q, r)
           /\ q.stat = r.stat /\ q.group = r.group
<1> r \in KernelState
  BY DEF WellFormed
<1>1. /\ SameCore(q, r) /\ q.timers = r.timers
      /\ q.stat = r.stat /\ q.group = r.group
  BY DEF KernelState, TListRemove, SameCore
<1>2. /\ q.ready = [p \in Prio |-> ListDel(r.ready[p], t)]
      /\ q.wait = [o \in Obj |-> ListDel(r.wait[o], t)]
      /\ q.defunct = ListDel(r.defunct, t)
  BY DEF KernelState, TListRemove
<1>3. \A p \in Prio : /\ q.ready[p] \in Seq(Thread) /\ IsInjective(q.ready[p])
                      /\ Range(q.ready[p]) = Range(r.ready[p]) \ {t}
  BY <1>2, ListDelProps DEF KernelState, WellFormed
<1>4. \A o \in Obj : /\ q.wait[o] \in Seq(Thread) /\ IsInjective(q.wait[o])
                     /\ Range(q.wait[o]) = Range(r.wait[o]) \ {t}
  BY <1>2, ListDelProps DEF KernelState, WellFormed
<1>5. /\ q.defunct \in Seq(Thread) /\ IsInjective(q.defunct)
      /\ Range(q.defunct) = Range(r.defunct) \ {t}
  BY <1>2, ListDelProps DEF KernelState, WellFormed
<1>6. q \in KernelState
  BY <1>2, <1>3, <1>4, <1>5 DEF KernelState, TListRemove
<1>7. WellFormed(q)
  BY <1>1, <1>3, <1>4, <1>5, <1>6 DEF WellFormed
<1>8. Unlinks(q, r, t)
  BY <1>3, <1>4, <1>5 DEF Unlinks, InReady, InWait, InDefunct
<1> QED BY <1>1, <1>7, <1>8 DEF SameTimers, InTimers

\* rt_schedule_remove_thread unlinks the thread and keeps the bitmap exact: the bit it
\* clears is that of the queue the thread was in
LEMMA RemoveThreadProps ==
    ASSUME NEW r, WellFormed(r), Placed(r), Grouped(r), NEW t \in Thread,
           NEW q, q = rt_schedule_remove_thread(r, t)
    PROVE  /\ WellFormed(q) /\ SameCore(q, r) /\ Unlinks(q, r, t) /\ SameTimers(q, r)
           /\ q.stat = r.stat /\ Grouped(q)
<1> DEFINE m == TListRemove(r, t)
<1>1. /\ WellFormed(m) /\ SameCore(m, r) /\ Unlinks(m, r, t) /\ SameTimers(m, r)
      /\ m.stat = r.stat /\ m.group = r.group
  BY TListRemoveProps
<1>2. q = IF m.ready[r.prio[t]] = <<>>
          THEN [m EXCEPT !.group = m.group \ {r.prio[t]}] ELSE m
  BY DEF rt_schedule_remove_thread
<1> HIDE DEF m
<1>3. m \in KernelState /\ r.prio[t] \in Prio
  BY <1>1 DEF WellFormed, KernelState
<1>4. \A p \in Prio : m.ready[p] = <<>> <=> \A u \in Thread : ~InReady(m, u, p)
  <2> SUFFICES ASSUME NEW p \in Prio
               PROVE  m.ready[p] = <<>> <=> \A u \in Thread : ~InReady(m, u, p)
    OBVIOUS
  <2>1. m.ready[p] \in Seq(Thread)
    BY <1>3 DEF KernelState
  <2> QED BY <2>1, RangeProps DEF InReady
<1>5. /\ q \in KernelState /\ q.ready = m.ready /\ q.wait = m.wait /\ q.defunct = m.defunct
      /\ q.timers = m.timers /\ q.stat = m.stat /\ SameCore(q, m)
  <2>1. CASE q = m
    BY <1>3, <2>1 DEF SameCore
  <2>2. CASE q = [m EXCEPT !.group = m.group \ {r.prio[t]}]
    BY <1>3, <2>2 DEF KernelState, SameCore
  <2> QED BY <1>2, <2>1, <2>2
<1>6. q.group = IF m.ready[r.prio[t]] = <<>> THEN m.group \ {r.prio[t]} ELSE m.group
  BY <1>2, <1>3 DEF KernelState
<1>7. /\ \A u, p : InReady(q, u, p) <=> InReady(m, u, p)
      /\ \A u, o : InWait(q, u, o) <=> InWait(m, u, o)
      /\ \A u : InDefunct(q, u) <=> InDefunct(m, u)
      /\ \A u : InTimers(q, u) <=> InTimers(m, u)
  BY <1>5 DEF InReady, InWait, InDefunct, InTimers
<1>8. WellFormed(q) /\ SameCore(q, r) /\ Unlinks(q, r, t) /\ SameTimers(q, r) /\ q.stat = r.stat
  BY <1>1, <1>5, <1>7 DEF WellFormed, SameCore, Unlinks, SameTimers
<1>9. Grouped(q)
  <2> SUFFICES ASSUME NEW p \in Prio
               PROVE  p \in q.group <=> \E u \in Thread : InReady(q, u, p)
    BY DEF Grouped
  <2>1. CASE p # r.prio[t]
    <3>1. \A u \in Thread : InReady(q, u, p) <=> InReady(r, u, p)
      BY <1>8, <2>1 DEF Unlinks, Placed
    <3>2. p \in q.group <=> p \in r.group
      BY <1>1, <1>6, <2>1
    <3> QED BY <3>1, <3>2 DEF Grouped
  <2>2. CASE p = r.prio[t]
    <3>1. CASE m.ready[p] = <<>>
      BY <1>4, <1>6, <1>7, <2>2, <3>1
    <3>2. CASE m.ready[p] # <<>>
      <4>1. PICK u \in Thread : InReady(m, u, p)
        BY <1>4, <3>2
      <4>2. p \in r.group
        BY <1>1, <4>1 DEF Unlinks, Grouped
      <4> QED BY <1>1, <1>6, <1>7, <2>2, <3>2, <4>1, <4>2
    <3> QED BY <3>1, <3>2
  <2> QED BY <2>1, <2>2
<1> QED BY <1>8, <1>9

\* t into the queue of its priority, the other threads where they were
Queues(q, r, t) ==
    /\ \A u \in Thread, p \in Prio :
          InReady(q, u, p) <=> InReady(r, u, p) \/ (u = t /\ p = r.prio[t])
    /\ \A u \in Thread, o \in Obj : InWait(q, u, o) <=> InWait(r, u, o)
    /\ \A u \in Thread : InDefunct(q, u) <=> InDefunct(r, u)

\* rt_schedule_insert_thread links a thread that is in no ready queue, with its bit
LEMMA InsertThreadProps ==
    ASSUME NEW r, WellFormed(r), Grouped(r), NEW t \in Thread, t # r.cur,
           \A p \in Prio : ~InReady(r, t, p),
           NEW q, q = rt_schedule_insert_thread(r, t)
    PROVE  /\ WellFormed(q) /\ SameCore(q, r) /\ Queues(q, r, t) /\ SameTimers(q, r)
           /\ q.stat = [r.stat EXCEPT ![t] = "READY"] /\ Grouped(q)
<1> DEFINE n == r.prio[t]
<1>1. r \in KernelState /\ n \in Prio
  BY DEF WellFormed, KernelState
<1>2. q = [r EXCEPT !.stat[t] = "READY", !.ready[n] = Append(@, t), !.group = @ \cup {n}]
  BY DEF rt_schedule_insert_thread
<1>3. /\ q.stat = [r.stat EXCEPT ![t] = "READY"]
      /\ q.ready = [r.ready EXCEPT ![n] = Append(@, t)]
      /\ q.group = r.group \cup {n}
      /\ q.wait = r.wait /\ q.defunct = r.defunct /\ q.timers = r.timers
      /\ SameCore(q, r)
  BY <1>1, <1>2 DEF KernelState, SameCore
<1>4. /\ Append(r.ready[n], t) \in Seq(Thread) /\ IsInjective(Append(r.ready[n], t))
      /\ Range(Append(r.ready[n], t)) = Range(r.ready[n]) \cup {t}
  <2>1. r.ready[n] \in Seq(Thread) /\ IsInjective(r.ready[n]) /\ t \notin Range(r.ready[n])
    BY <1>1 DEF WellFormed, KernelState, InReady
  <2> QED BY <2>1, AppendProps
<1>5. q \in KernelState
  <2>1. q.ready \in [Prio -> Seq(Thread)]
    BY <1>1, <1>3, <1>4 DEF KernelState
  <2>2. q.stat \in [Thread -> Stat] /\ q.group \subseteq Prio
    BY <1>1, <1>3 DEF KernelState, Stat
  <2> QED BY <1>1, <1>2, <2>1, <2>2 DEF KernelState
<1>6. \A p \in Prio : q.ready[p] = IF p = n THEN Append(r.ready[n], t) ELSE r.ready[p]
  BY <1>1, <1>3 DEF KernelState
<1> HIDE DEF n
<1>7. WellFormed(q)
  BY <1>3, <1>4, <1>5, <1>6 DEF WellFormed
<1>8. \A u \in Thread, p \in Prio : InReady(q, u, p) <=> InReady(r, u, p) \/ (u = t /\ p = n)
  <2> SUFFICES ASSUME NEW u \in Thread, NEW p \in Prio
               PROVE  InReady(q, u, p) <=> InReady(r, u, p) \/ (u = t /\ p = n)
    OBVIOUS
  <2>1. CASE p = n
    BY <1>4, <1>6, <2>1 DEF InReady
  <2>2. CASE p # n
    BY <1>6, <2>2 DEF InReady
  <2> QED BY <2>1, <2>2
<1>9. Queues(q, r, t) /\ SameTimers(q, r)
  BY <1>3, <1>8 DEF Queues, SameTimers, InWait, InDefunct, InTimers, n
<1>10. Grouped(q)
  <2> SUFFICES ASSUME NEW p \in Prio
               PROVE  p \in q.group <=> \E u \in Thread : InReady(q, u, p)
    BY DEF Grouped
  <2> QED BY <1>1, <1>3, <1>8 DEF Grouped
<1> QED BY <1>3, <1>7, <1>9, <1>10

\* the fields that the invariant depends on
Agree(q, r) ==
    /\ q.cur = r.cur /\ q.exec = r.exec /\ q.sw = r.sw
    /\ q.stat = r.stat /\ q.prio = r.prio /\ q.ready = r.ready /\ q.group = r.group
    /\ q.wait = r.wait /\ q.defunct = r.defunct /\ q.timers = r.timers

\* the invariant depends only on the fields that Agree names
LEMMA AgreeProps ==
    ASSUME NEW r, NEW q \in KernelState, Agree(q, r)
    PROVE  /\ SameLists(q, r) /\ SameTimers(q, r)
           /\ WellFormed(r) => WellFormed(q)
           /\ Placed(r) => Placed(q)
           /\ Queued(r) => Queued(q)
           /\ Grouped(r) => Grouped(q)
           /\ KInv(r) => KInv(q)
<1>1. /\ \A u, p : InReady(q, u, p) <=> InReady(r, u, p)
      /\ \A u, o : InWait(q, u, o) <=> InWait(r, u, o)
      /\ \A u : InDefunct(q, u) <=> InDefunct(r, u)
      /\ \A u : InTimers(q, u) <=> InTimers(r, u)
  BY DEF Agree, InReady, InWait, InDefunct, InTimers
<1>2. WellFormed(r) => WellFormed(q)
  BY DEF Agree, WellFormed
<1>3. Placed(r) => Placed(q)
  BY <1>1 DEF Agree, Placed
<1>4. Queued(r) => Queued(q)
  BY <1>1 DEF Agree, Queued
<1>5. Grouped(r) => Grouped(q)
  BY <1>1 DEF Agree, Grouped
<1>6. KInv(r) => KInv(q)
  BY <1>2, <1>3, <1>4, <1>5 DEF Agree, KInv, SwitchAgrees, CurOnlyRunning, IdleIsRunnable
<1> QED BY <1>1, <1>2, <1>3, <1>4, <1>5, <1>6 DEF SameLists, SameTimers

\* what rt_schedule leaves as it is, and that somebody runs if it is unlocked
Scheduled(q, r) ==
    /\ KInv(q)
    /\ q.lock = r.lock /\ q.prio = r.prio
    /\ \A u \in Thread, o \in Obj : InWait(q, u, o) <=> InWait(r, u, o)
    /\ SameTimers(q, r)
    /\ \A u \in Thread : q.stat[u] = "SUSPEND" <=> r.stat[u] = "SUSPEND"
    /\ \A u \in Thread : q.stat[u] = "CLOSE" <=> r.stat[u] = "CLOSE"

\* rt_schedule, when it stays on the current thread, keeps the invariant
LEMMA StayOnProps ==
    ASSUME NEW r, KInv(r), r.stat[r.cur] = "RUNNING", NEW q, q = StayOn(r)
    PROVE  Scheduled(q, r) /\ q.stat[q.cur] = "RUNNING" /\ q.cur = r.cur /\ q.stat = r.stat
<1> DEFINE c == r.cur
           a == [r EXCEPT !.yield = r.yield \ {c}]
           m == rt_schedule_remove_thread(a, c)
<1>1. r \in KernelState /\ c \in Thread
  BY DEF KInv, WellFormed, KernelState
<1>2. a \in KernelState /\ Agree(a, r) /\ a.lock = r.lock
  BY <1>1 DEF KernelState, Agree
<1>3. q = [m EXCEPT !.stat[c] = "RUNNING"]
  BY DEF StayOn
<1> HIDE DEF a
<1>4. WellFormed(a) /\ Placed(a) /\ Grouped(a) /\ SameLists(a, r) /\ SameTimers(a, r)
  BY <1>2, AgreeProps DEF KInv
<1>5. /\ WellFormed(m) /\ SameCore(m, a) /\ Unlinks(m, a, c) /\ SameTimers(m, a)
      /\ m.stat = a.stat /\ Grouped(m)
  BY <1>1, <1>4, RemoveThreadProps
<1> HIDE DEF m
<1>6. m \in KernelState /\ m.stat = r.stat
  BY <1>2, <1>5 DEF WellFormed, Agree
<1>7. q \in KernelState /\ Agree(q, m) /\ q.lock = m.lock
  <2>1. [m.stat EXCEPT ![c] = "RUNNING"] = m.stat
    BY <1>1, <1>6 DEF KernelState
  <2> QED BY <1>3, <1>6, <2>1 DEF KernelState, Agree
<1>8. \A u \in Thread : u = c => (/\ \A p \in Prio : ~InReady(r, u, p)
                                  /\ \A o \in Obj : ~InWait(r, u, o)
                                  /\ ~InDefunct(r, u))
  BY <1>1 DEF KInv, Placed
<1>9. SameLists(m, r) /\ SameTimers(m, r)
  BY <1>4, <1>5, <1>8 DEF SameLists, Unlinks, SameTimers
<1>10. SameLists(q, m) /\ SameTimers(q, m) /\ WellFormed(q) /\ Grouped(q)
  BY <1>5, <1>7, AgreeProps
<1>11. SameCore(q, r) /\ q.stat = r.stat
  BY <1>2, <1>5, <1>6, <1>7 DEF SameCore, Agree
<1>12. SameLists(q, r) /\ SameTimers(q, r)
  BY <1>9, <1>10 DEF SameLists, SameTimers
<1>13. Placed(q) /\ Queued(q)
  <2>1. q.prio = r.prio /\ \A u \in Thread : r.prio[u] \in Prio
    BY <1>1, <1>11 DEF SameCore, KernelState
  <2>2. Placed(q)
    BY <1>11, <1>12, <2>1 DEF KInv, Placed, SameLists, SameTimers
  <2>3. Queued(q)
    BY <1>11, <1>12, <2>1 DEF KInv, Queued, SameLists
  <2> QED BY <2>2, <2>3
<1>14. SwitchAgrees(q) /\ CurOnlyRunning(q) /\ IdleIsRunnable(q)
  BY <1>11 DEF KInv, SameCore, SwitchAgrees, CurOnlyRunning, IdleIsRunnable
<1> QED BY <1>10, <1>11, <1>12, <1>13, <1>14 DEF KInv, Scheduled, SameLists, SameCore

\* rt_schedule, when it switches to the head of the highest ready queue, keeps the
\* invariant: the former thread is requeued if it can run, the new one leaves its queue
LEMMA SwitchToProps ==
    ASSUME NEW r, KInv(r), NEW to \in Thread, to # r.cur, r.stat[to] = "READY",
           NEW q, q = SwitchTo(r, to)
    PROVE  /\ Scheduled(q, r) /\ q.stat[q.cur] = "RUNNING" /\ q.cur = to
           /\ \A u \in Thread : q.stat[u] = "READY" =>
                 r.stat[u] = "READY" \/ (u = r.cur /\ r.stat[u] = "RUNNING")
<1> DEFINE c == r.cur
           a == [r EXCEPT !.cur = to]
           y == [a EXCEPT !.yield = a.yield \ {c}]
           b == IF r.stat[c] = "RUNNING" THEN rt_schedule_insert_thread(y, c) ELSE a
           m == rt_schedule_remove_thread(b, to)
           n == [m EXCEPT !.stat[to] = "RUNNING"]
<1>1. r \in KernelState /\ c \in Thread
  BY DEF KInv, WellFormed, KernelState
<1>2. q = rt_hw_context_switch(n, c, to)
  BY DEF SwitchTo
<1>3. /\ a \in KernelState /\ a.cur = to /\ a.exec = r.exec /\ a.sw = r.sw /\ a.lock = r.lock
      /\ a.stat = r.stat /\ a.prio = r.prio /\ a.ready = r.ready /\ a.group = r.group
      /\ a.wait = r.wait /\ a.defunct = r.defunct /\ a.timers = r.timers
  BY <1>1 DEF KernelState
<1> HIDE DEF a
<1>4. y \in KernelState /\ Agree(y, a) /\ y.lock = a.lock
  BY <1>3 DEF KernelState, Agree
<1> HIDE DEF y
<1>5. WellFormed(a) /\ Placed(a) /\ Queued(a) /\ Grouped(a) /\ SameLists(a, r) /\ SameTimers(a, r)
  BY <1>3 DEF KInv, WellFormed, Placed, Queued, Grouped, SameLists, SameTimers,
              InReady, InWait, InDefunct, InTimers
<1>6. WellFormed(y) /\ Placed(y) /\ Queued(y) /\ Grouped(y) /\ SameLists(y, a) /\ SameTimers(y, a)
  BY <1>4, <1>5, AgreeProps
<1>7. /\ WellFormed(b) /\ Placed(b) /\ Queued(b) /\ Grouped(b)
      /\ b.cur = to /\ b.exec = r.exec /\ b.sw = r.sw /\ b.lock = r.lock /\ b.prio = r.prio
      /\ b.stat = IF r.stat[c] = "RUNNING" THEN [r.stat EXCEPT ![c] = "READY"] ELSE r.stat
      /\ \A u \in Thread, o \in Obj : InWait(b, u, o) <=> InWait(r, u, o)
      /\ SameTimers(b, r)
  <2>1. CASE r.stat[c] # "RUNNING"
    BY <1>3, <1>5, <2>1 DEF SameLists
  <2>2. CASE r.stat[c] = "RUNNING"
    <3>1. b = rt_schedule_insert_thread(y, c)
      BY <2>2
    <3> HIDE DEF b
    <3>2. \A p \in Prio : ~InReady(y, c, p)
      BY <1>1, <1>3, <1>4, <1>6, <2>2 DEF Placed, Agree
    <3>3. c # y.cur
      BY <1>3, <1>4 DEF Agree
    <3>4. /\ WellFormed(b) /\ SameCore(b, y) /\ Queues(b, y, c) /\ SameTimers(b, y)
          /\ b.stat = [y.stat EXCEPT ![c] = "READY"] /\ Grouped(b)
      BY <1>1, <1>6, <3>1, <3>2, <3>3, InsertThreadProps
    <3>5. y.stat = r.stat /\ y.prio = r.prio /\ r.stat \in [Thread -> Stat] /\ r.prio \in [Thread -> Prio]
      BY <1>1, <1>3, <1>4 DEF Agree, KernelState
    <3>6. b.prio = r.prio /\ b.stat = [r.stat EXCEPT ![c] = "READY"]
      BY <3>4, <3>5 DEF SameCore
    <3>7. /\ \A o \in Obj : ~InWait(y, c, o)
          /\ ~InDefunct(y, c) /\ ~InTimers(y, c)
      BY <1>1, <1>6, <2>2, <3>5 DEF Placed
    <3>8. Placed(b)
      BY <1>1, <1>6, <3>4, <3>5, <3>6, <3>7 DEF Placed, Queues, SameTimers
    <3>9. Queued(b)
      BY <1>1, <1>6, <3>4, <3>5, <3>6 DEF Queued, Queues
    <3> QED BY <1>3, <1>4, <1>5, <1>6, <2>2, <3>4, <3>6, <3>8, <3>9
            DEF SameCore, Agree, SameLists, SameTimers, Queues
  <2> QED BY <2>1, <2>2
<1> HIDE DEF b
<1>8. /\ WellFormed(m) /\ SameCore(m, b) /\ Unlinks(m, b, to) /\ SameTimers(m, b)
      /\ m.stat = b.stat /\ Grouped(m)
  BY <1>7, RemoveThreadProps
<1> HIDE DEF m
<1>9. m \in KernelState /\ b.stat \in [Thread -> Stat] /\ b.prio \in [Thread -> Prio]
  BY <1>7, <1>8 DEF WellFormed, KernelState
<1>10. /\ n \in KernelState /\ n.stat = [b.stat EXCEPT ![to] = "RUNNING"]
       /\ n.ready = m.ready /\ n.group = m.group /\ n.wait = m.wait
       /\ n.defunct = m.defunct /\ n.timers = m.timers /\ SameCore(n, m)
  BY <1>8, <1>9 DEF KernelState, SameCore, Stat
<1> HIDE DEF n
<1>11. /\ r.sw # None => r.sw = [from |-> r.exec, to |-> c]
       /\ r.sw = None => r.exec = c
  BY DEF KInv, SwitchAgrees
<1>12. q = [n EXCEPT !.sw = [from |-> r.exec, to |-> to]]
  <2>1. n.sw = r.sw
    BY <1>7, <1>8, <1>10 DEF SameCore
  <2> QED BY <1>2, <1>11, <2>1 DEF rt_hw_context_switch
<1>13. /\ q \in KernelState /\ q.sw = [from |-> r.exec, to |-> to]
       /\ q.cur = to /\ q.exec = r.exec /\ q.lock = r.lock /\ q.prio = r.prio
       /\ q.stat = n.stat /\ q.ready = m.ready /\ q.group = m.group /\ q.wait = m.wait
       /\ q.defunct = m.defunct /\ q.timers = m.timers
  <2>1. [from |-> r.exec, to |-> to] \in Switch
    BY <1>1 DEF Switch, KernelState
  <2>2. /\ q \in KernelState /\ q.sw = [from |-> r.exec, to |-> to]
        /\ q.cur = n.cur /\ q.exec = n.exec /\ q.lock = n.lock /\ q.prio = n.prio
        /\ q.stat = n.stat /\ q.ready = n.ready /\ q.group = n.group /\ q.wait = n.wait
        /\ q.defunct = n.defunct /\ q.timers = n.timers
    <3>1. n \in KernelState
      BY <1>10
    <3> QED BY <1>12, <2>1, <3>1 DEF KernelState
  <2> QED BY <1>7, <1>8, <1>10, <2>2 DEF SameCore
<1>14. WellFormed(q) /\ Grouped(q)
  BY <1>8, <1>13 DEF WellFormed, Grouped, InReady
<1>15. Unlinks(q, b, to) /\ SameTimers(q, b)
  BY <1>8, <1>13 DEF Unlinks, SameTimers, InReady, InWait, InDefunct, InTimers
<1>16. b.stat[to] = "READY"
  BY <1>1, <1>7 DEF KernelState
<1>17. \A u \in Thread : q.stat[u] = IF u = to THEN "RUNNING" ELSE b.stat[u]
  BY <1>9, <1>10, <1>13
<1>18. Placed(q)
  BY <1>7, <1>13, <1>15, <1>16, <1>17 DEF Placed, Unlinks, SameTimers
<1>19. Queued(q)
  BY <1>7, <1>9, <1>13, <1>15, <1>17 DEF Queued, Unlinks
<1>20. SwitchAgrees(q)
  <2>1. [from |-> r.exec, to |-> to] # None
    BY <1>1, ThreadAssumption DEF Switch, KernelState
  <2> QED BY <1>13, <2>1 DEF SwitchAgrees
<1>21. \A u \in Thread : q.stat[u] = IF u = to THEN "RUNNING"
                                    ELSE IF u = c /\ r.stat[c] = "RUNNING" THEN "READY"
                                    ELSE r.stat[u]
  <2>1. r.stat \in [Thread -> Stat]
    BY <1>1 DEF KernelState
  <2> QED BY <1>1, <1>7, <1>17, <2>1
<1>22. \A u \in Thread \ {c} : r.stat[u] # "RUNNING"
  BY DEF KInv, CurOnlyRunning
<1>23. CurOnlyRunning(q)
  BY <1>13, <1>21, <1>22 DEF CurOnlyRunning
<1>24. IdleIsRunnable(q)
  BY <1>13, <1>21, ThreadAssumption DEF KInv, IdleIsRunnable
<1>25. /\ \A u \in Thread, o \in Obj : InWait(q, u, o) <=> InWait(r, u, o)
       /\ SameTimers(q, r)
  BY <1>7, <1>15, <1>16 DEF Placed, Unlinks, SameTimers
<1>26. \A u \in Thread : /\ q.stat[u] = "SUSPEND" <=> r.stat[u] = "SUSPEND"
                         /\ q.stat[u] = "CLOSE" <=> r.stat[u] = "CLOSE"
  BY <1>21
<1> QED BY <1>13, <1>14, <1>17, <1>18, <1>19, <1>20, <1>21, <1>23, <1>24, <1>25, <1>26
        DEF KInv, Scheduled

\* rt_schedule keeps the invariant, and an unlocked scheduler leaves a thread RUNNING
LEMMA ScheduleProps ==
    ASSUME NEW r, KInv(r), NEW q, q = rt_schedule(r)
    PROVE  /\ Scheduled(q, r)
           /\ r.lock = 0 => q.stat[q.cur] = "RUNNING"
           /\ r.lock > 0 => q = r
<1>1. /\ r \in KernelState /\ r.lock \in Nat /\ r.group \subseteq Prio /\ Prio \subseteq Nat
      /\ r.stat \in [Thread -> Stat] /\ r.cur \in Thread
  <2>1. r \in KernelState
    BY DEF KInv, WellFormed
  <2>2. Prio \subseteq Nat
    BY DEF Prio
  <2> QED BY <2>1, <2>2 DEF KernelState
<1>2. CASE r.lock > 0 \/ r.group = {}
  <2>1. q = r
    BY <1>2 DEF rt_schedule
  <2>2. r.group = {} => r.stat[r.cur] = "RUNNING"
    <3>1. r.group = {} => r.stat[Idle] # "READY"
      BY ThreadAssumption DEF KInv, Queued, Grouped, WellFormed, KernelState
    <3> QED BY <3>1, ThreadAssumption DEF KInv, IdleIsRunnable, CurOnlyRunning
  <2> QED BY <1>1, <1>2, <2>1, <2>2 DEF Scheduled, SameTimers
<1>3. CASE ~(r.lock > 0) /\ r.group # {}
  <2> DEFINE h == HighestReady(r)
             to == IF KeepsCpu(r) THEN r.cur ELSE Head(r.ready[h])
  <2>1. q = IF to = r.cur THEN StayOn(r) ELSE SwitchTo(r, to)
    BY <1>3 DEF rt_schedule
  <2>2. h \in r.group /\ h \in Prio
    BY <1>1, <1>3, MinProps DEF HighestReady
  <2> HIDE DEF h
  <2>3. r.ready[h] \in Seq(Thread) /\ \E u \in Thread : u \in Range(r.ready[h])
    BY <1>1, <2>2 DEF KInv, Grouped, InReady, KernelState
  <2>4. Head(r.ready[h]) \in Range(r.ready[h]) /\ Head(r.ready[h]) \in Thread
    BY <2>3, RangeProps
  <2>5. r.stat[Head(r.ready[h])] = "READY"
    BY <2>2, <2>4 DEF KInv, Placed, InReady
  <2>6. CASE KeepsCpu(r)
    <3>1. q = StayOn(r) /\ r.stat[r.cur] = "RUNNING"
      BY <2>1, <2>6 DEF KeepsCpu
    <3> QED BY <1>3, <3>1, StayOnProps
  <2>7. CASE ~KeepsCpu(r)
    <3>1. Head(r.ready[h]) # r.cur
      BY <2>5 DEF KInv, CurOnlyRunning
    <3>2. q = SwitchTo(r, Head(r.ready[h]))
      BY <2>1, <2>7, <3>1
    <3> HIDE DEF to
    <3> QED BY <1>3, <2>4, <2>5, <3>1, <3>2, SwitchToProps
  <2> QED BY <2>6, <2>7
<1> QED BY <1>2, <1>3

-----------------------------------------------------------------------------
(* Timers. *)

\* q differs from r in the thread timers only
SameButTimers(q, r) ==
    /\ q.cur = r.cur /\ q.exec = r.exec /\ q.sw = r.sw /\ q.lock = r.lock
    /\ q.stat = r.stat /\ q.prio = r.prio /\ q.ready = r.ready /\ q.group = r.group
    /\ q.wait = r.wait /\ q.defunct = r.defunct

\* a change of the timers alone keeps the invariant if they are those of suspended threads
LEMMA SameButTimersProps ==
    ASSUME NEW r, WellFormed(r), NEW q \in KernelState, IsInjective(q.timers),
           SameButTimers(q, r)
    PROVE  /\ WellFormed(q) /\ SameLists(q, r)
           /\ Grouped(r) => Grouped(q)
           /\ Queued(r) => Queued(q)
           /\ (Placed(r) /\ \A u \in Thread : InTimers(q, u) => r.stat[u] = "SUSPEND")
                 => Placed(q)
           /\ (KInv(r) /\ \A u \in Thread : InTimers(q, u) => r.stat[u] = "SUSPEND")
                 => KInv(q)
<1>1. /\ \A u, p : InReady(q, u, p) <=> InReady(r, u, p)
      /\ \A u, o : InWait(q, u, o) <=> InWait(r, u, o)
      /\ \A u : InDefunct(q, u) <=> InDefunct(r, u)
  BY DEF SameButTimers, InReady, InWait, InDefunct
<1>2. WellFormed(q)
  BY DEF SameButTimers, WellFormed
<1>3. Grouped(r) => Grouped(q)
  BY <1>1 DEF SameButTimers, Grouped
<1>4. Queued(r) => Queued(q)
  BY <1>1 DEF SameButTimers, Queued
<1>5. (Placed(r) /\ \A u \in Thread : InTimers(q, u) => r.stat[u] = "SUSPEND") => Placed(q)
  BY <1>1 DEF SameButTimers, Placed
<1> QED BY <1>1, <1>2, <1>3, <1>4, <1>5
        DEF SameLists, SameButTimers, KInv, SwitchAgrees, CurOnlyRunning, IdleIsRunnable

\* _timer_remove takes out one timer
LEMMA TimerRemoveProps ==
    ASSUME NEW r, WellFormed(r), NEW t \in Thread, NEW q, q = timer_remove(r, t)
    PROVE  /\ q \in KernelState /\ IsInjective(q.timers) /\ SameButTimers(q, r)
           /\ q.err = r.err /\ q.tick = r.tick
           /\ \A u \in Thread : InTimers(q, u) <=> InTimers(r, u) /\ u # t
<1>1. r \in KernelState /\ r.timers \in Seq(Thread) /\ IsInjective(r.timers)
  BY DEF WellFormed, KernelState
<1>2. /\ ListDel(r.timers, t) \in Seq(Thread) /\ IsInjective(ListDel(r.timers, t))
      /\ Range(ListDel(r.timers, t)) = Range(r.timers) \ {t}
  BY <1>1, ListDelProps
<1>3. 0 \in Ticks
  BY TickAssumption DEF Ticks
<1>4. q.timers = ListDel(r.timers, t) /\ SameButTimers(q, r) /\ q.err = r.err /\ q.tick = r.tick
  BY <1>1 DEF KernelState, timer_remove, SameButTimers
<1>5. q \in KernelState
  BY <1>1, <1>2, <1>3 DEF KernelState, timer_remove
<1> QED BY <1>2, <1>4, <1>5 DEF InTimers

\* rt_timer_stop leaves the timer out of the list, active or not
LEMMA TimerStopProps ==
    ASSUME NEW r, WellFormed(r), NEW t \in Thread, NEW q, q = rt_timer_stop(r, t)
    PROVE  /\ q \in KernelState /\ IsInjective(q.timers) /\ SameButTimers(q, r)
           /\ q.err = r.err
           /\ \A u \in Thread : InTimers(q, u) <=> InTimers(r, u) /\ u # t
<1>1. CASE InTimers(r, t)
  BY <1>1, TimerRemoveProps DEF rt_timer_stop, InTimers
<1>2. CASE ~InTimers(r, t)
  BY <1>2 DEF rt_timer_stop, InTimers, WellFormed, SameButTimers
<1> QED BY <1>1, <1>2

\* rt_timer_start leaves the timer in the list once, at its place in the order
LEMMA TimerStartProps ==
    ASSUME NEW r, WellFormed(r), NEW t \in Thread, NEW d \in Nat,
           NEW q, q = rt_timer_start(r, t, d)
    PROVE  /\ q \in KernelState /\ IsInjective(q.timers) /\ SameButTimers(q, r)
           /\ \A u \in Thread : InTimers(q, u) <=> InTimers(r, u) \/ u = t
<1> DEFINE m == timer_remove(r, t)
           at == (r.tick + d) % TickMod
           later == {u \in Thread : (m.tmo[u] - at) % TickMod \in 1 .. HalfTick - 1}
           l == ListInsert(m.timers, t, later)
<1>1. /\ m \in KernelState /\ IsInjective(m.timers) /\ SameButTimers(m, r)
      /\ m.tick = r.tick
      /\ \A u \in Thread : InTimers(m, u) <=> InTimers(r, u) /\ u # t
  BY TimerRemoveProps
<1>2. q = [m EXCEPT !.tmo[t] = at, !.timers = l]
  BY DEF rt_timer_start
<1>3. at \in Ticks
  <2>1. r.tick \in 0 .. TickMod - 1 /\ TickMod \in Nat /\ TickMod > 0
    BY TickAssumption DEF WellFormed, KernelState, Ticks
  <2>2. r.tick + d \in Nat
    BY <2>1
  <2> QED BY <2>1, <2>2 DEF Ticks
<1> HIDE DEF m, at, later
<1>4. m.timers \in Seq(Thread) /\ t \notin Range(m.timers)
  BY <1>1 DEF KernelState, InTimers
<1>5. /\ l \in Seq(Thread) /\ IsInjective(l) /\ Range(l) = Range(m.timers) \cup {t}
  BY <1>1, <1>4, ListInsertProps
<1> HIDE DEF l
<1>6. q \in KernelState /\ q.timers = l
  <2>1. [m.tmo EXCEPT ![t] = at] \in [Thread -> Ticks]
    BY <1>1, <1>3 DEF KernelState
  <2>2. q = [m EXCEPT !.tmo = [m.tmo EXCEPT ![t] = at], !.timers = l]
    BY <1>1, <1>2 DEF KernelState
  <2> QED BY <1>1, <1>5, <2>1, <2>2 DEF KernelState
<1>7. SameButTimers(q, m)
  BY <1>1, <1>2 DEF KernelState, SameButTimers
<1>8. SameButTimers(q, r)
  BY <1>1, <1>7 DEF SameButTimers
<1> QED BY <1>1, <1>5, <1>6, <1>8 DEF InTimers

-----------------------------------------------------------------------------
(* Waking and suspending a thread. *)

\* t has left its wait list and its timer and is runnable, nothing else has changed
Woken(q, r, t) ==
    /\ KInv(q)
    /\ SameCore(q, r)
    /\ \A u \in Thread, o \in Obj : InWait(q, u, o) <=> (InWait(r, u, o) /\ u # t)
    /\ \A u \in Thread : InTimers(q, u) <=> (InTimers(r, u) /\ u # t)
    /\ \A u \in Thread : q.stat[u] = IF u = t THEN IF t = r.cur THEN "RUNNING" ELSE "READY"
                                    ELSE r.stat[u]

\* a suspended thread that has been unlinked and loses its timer can be inserted: the
\* core of rt_thread_resume and of _thread_timeout
LEMMA WakeProps ==
    ASSUME NEW r, KInv(r), NEW t \in Thread, r.stat[t] = "SUSPEND",
           NEW m, WellFormed(m), SameCore(m, r), Unlinks(m, r, t),
           m.stat = r.stat, m.group = r.group,
           \A u \in Thread : InTimers(m, u) <=> (InTimers(r, u) /\ u # t),
           NEW q, q = rt_schedule_insert_thread(m, t)
    PROVE  Woken(q, r, t)
<1>1. /\ r \in KernelState /\ m \in KernelState /\ r.stat \in [Thread -> Stat]
      /\ r.prio \in [Thread -> Prio] /\ m.prio = r.prio /\ m.cur = r.cur /\ r.cur \in Thread
  BY DEF KInv, WellFormed, KernelState, SameCore
<1>2. Idle # t /\ Idle \in Thread
  BY ThreadAssumption DEF KInv, IdleIsRunnable
<1>3. \A p \in Prio : ~InReady(r, t, p)
  BY DEF KInv, Placed
<1>4. \A u \in Thread, p \in Prio : InReady(m, u, p) <=> InReady(r, u, p)
  BY <1>3 DEF Unlinks
<1>5. Grouped(m)
  BY <1>4 DEF KInv, Grouped
<1>6. CASE t = r.cur
  <2>1. q = [m EXCEPT !.stat[t] = "RUNNING"]
    BY <1>1, <1>6 DEF rt_schedule_insert_thread
  <2>2. /\ q.stat = [r.stat EXCEPT ![t] = "RUNNING"] /\ SameCore(q, m)
        /\ q.ready = m.ready /\ q.wait = m.wait /\ q.defunct = m.defunct
        /\ q.timers = m.timers /\ q.group = m.group
    BY <1>1, <2>1 DEF KernelState, SameCore
  <2>3. q \in KernelState
    <3>1. [m.stat EXCEPT ![t] = "RUNNING"] \in [Thread -> Stat]
      BY <1>1 DEF Stat
    <3>2. q = [m EXCEPT !.stat = [m.stat EXCEPT ![t] = "RUNNING"]]
      BY <1>1, <2>1 DEF KernelState
    <3> QED BY <1>1, <3>1, <3>2 DEF KernelState
  <2>4. WellFormed(q) /\ Grouped(q)
    BY <1>5, <2>2, <2>3 DEF WellFormed, Grouped, InReady
  <2>5. Unlinks(q, r, t) /\ SameTimers(q, m) /\ SameCore(q, r)
    BY <2>2 DEF Unlinks, SameTimers, SameCore, InReady, InWait, InDefunct, InTimers
  <2>6. \A u \in Thread : q.stat[u] = IF u = t THEN "RUNNING" ELSE r.stat[u]
    BY <1>1, <2>2
  <2>7. q.prio = r.prio /\ q.cur = r.cur /\ q.lock = r.lock /\ q.exec = r.exec /\ q.sw = r.sw
    BY <2>5 DEF SameCore
  <2>8. Placed(q)
    BY <2>5, <2>6, <2>7 DEF KInv, Placed, Unlinks, SameTimers
  <2>9. Queued(q)
    BY <1>1, <2>5, <2>6, <2>7 DEF KInv, Queued, Unlinks
  <2>10. SwitchAgrees(q) /\ CurOnlyRunning(q) /\ IdleIsRunnable(q)
    BY <1>1, <1>2, <1>6, <2>6, <2>7 DEF KInv, SwitchAgrees, CurOnlyRunning, IdleIsRunnable
  <2> QED BY <1>6, <2>4, <2>5, <2>6, <2>7, <2>8, <2>9, <2>10
          DEF KInv, Woken, Unlinks, SameTimers, SameCore
<1>7. CASE t # r.cur
  <2>1. /\ WellFormed(q) /\ SameCore(q, m) /\ Queues(q, m, t) /\ SameTimers(q, m)
        /\ q.stat = [m.stat EXCEPT ![t] = "READY"] /\ Grouped(q)
    BY <1>1, <1>3, <1>4, <1>5, <1>7, InsertThreadProps
  <2>2. \A u \in Thread : q.stat[u] = IF u = t THEN "READY" ELSE r.stat[u]
    BY <1>1, <2>1
  <2>3. q.prio = r.prio /\ q.cur = r.cur /\ q.lock = r.lock /\ q.exec = r.exec /\ q.sw = r.sw
    BY <2>1 DEF SameCore
  <2>4. /\ \A u \in Thread, p \in Prio :
              InReady(q, u, p) <=> (InReady(r, u, p) \/ (u = t /\ p = r.prio[t]))
        /\ \A u \in Thread, o \in Obj : InWait(q, u, o) <=> (InWait(r, u, o) /\ u # t)
        /\ \A u \in Thread : InDefunct(q, u) <=> (InDefunct(r, u) /\ u # t)
        /\ \A u \in Thread : InTimers(q, u) <=> (InTimers(r, u) /\ u # t)
    BY <1>1, <1>4, <2>1 DEF Unlinks, Queues, SameTimers
  <2>5. Placed(q)
    BY <2>2, <2>3, <2>4 DEF KInv, Placed
  <2>6. Queued(q)
    BY <1>1, <2>2, <2>3, <2>4 DEF KInv, Queued
  <2>7. SwitchAgrees(q) /\ CurOnlyRunning(q) /\ IdleIsRunnable(q)
    BY <1>1, <1>2, <1>7, <2>2, <2>3 DEF KInv, SwitchAgrees, CurOnlyRunning, IdleIsRunnable
  <2> QED BY <1>7, <2>1, <2>2, <2>3, <2>4, <2>5, <2>6, <2>7 DEF KInv, Woken, SameCore
<1> QED BY <1>6, <1>7

\* rt_thread_resume wakes a suspended thread
LEMMA ResumeProps ==
    ASSUME NEW r, KInv(r), NEW t \in Thread, r.stat[t] = "SUSPEND",
           NEW q, q = rt_thread_resume(r, t)
    PROVE  Woken(q, r, t)
<1> DEFINE a == TListRemove(r, t)
           m == rt_timer_stop(a, t)
<1>1. q = rt_schedule_insert_thread(m, t)
  BY DEF rt_thread_resume, ResumeSection
<1>2. /\ WellFormed(a) /\ SameCore(a, r) /\ Unlinks(a, r, t) /\ SameTimers(a, r)
      /\ a.stat = r.stat /\ a.group = r.group
  BY TListRemoveProps DEF KInv
<1> HIDE DEF a
<1>3. /\ m \in KernelState /\ IsInjective(m.timers) /\ SameButTimers(m, a)
      /\ \A u \in Thread : InTimers(m, u) <=> (InTimers(a, u) /\ u # t)
  BY <1>2, TimerStopProps
<1> HIDE DEF m
<1>4. WellFormed(m) /\ SameLists(m, a)
  BY <1>2, <1>3, SameButTimersProps
<1>5. SameCore(m, r) /\ m.stat = r.stat /\ m.group = r.group
  BY <1>2, <1>3 DEF SameCore, SameButTimers
<1>6. Unlinks(m, r, t) /\ \A u \in Thread : InTimers(m, u) <=> (InTimers(r, u) /\ u # t)
  BY <1>2, <1>3, <1>4 DEF Unlinks, SameLists, SameTimers
<1> QED BY <1>1, <1>4, <1>5, <1>6, WakeProps

\* an expired timer: the thread is woken
LEMMA TimeoutWakes ==
    ASSUME NEW r, KInv(r), NEW t \in Thread, r.stat[t] = "SUSPEND",
           NEW q, q = rt_schedule_insert_thread(
                          TListRemove([timer_remove(r, t) EXCEPT !.err[t] = "ETIMEOUT"], t), t)
    PROVE  Woken(q, r, t)
<1> DEFINE a == timer_remove(r, t)
           b == [a EXCEPT !.err[t] = "ETIMEOUT"]
           m == TListRemove(b, t)
<1>1. q = rt_schedule_insert_thread(m, t)
  OBVIOUS
<1>2. /\ a \in KernelState /\ IsInjective(a.timers) /\ SameButTimers(a, r)
      /\ \A u \in Thread : InTimers(a, u) <=> (InTimers(r, u) /\ u # t)
  BY TimerRemoveProps DEF KInv
<1> HIDE DEF a
<1>3. b \in KernelState /\ Agree(b, a) /\ b.lock = a.lock
  BY <1>2 DEF KernelState, Agree, Err
<1> HIDE DEF b
<1>4. WellFormed(a) /\ SameLists(a, r)
  BY <1>2, SameButTimersProps DEF KInv
<1>5. WellFormed(b) /\ SameLists(b, a) /\ SameTimers(b, a)
  BY <1>3, <1>4, AgreeProps
<1>6. /\ WellFormed(m) /\ SameCore(m, b) /\ Unlinks(m, b, t) /\ SameTimers(m, b)
      /\ m.stat = b.stat /\ m.group = b.group
  BY <1>5, TListRemoveProps
<1> HIDE DEF m
<1>7. SameCore(m, r) /\ m.stat = r.stat /\ m.group = r.group
  BY <1>2, <1>3, <1>6 DEF SameCore, SameButTimers, Agree
<1>8. Unlinks(m, r, t) /\ \A u \in Thread : InTimers(m, u) <=> (InTimers(r, u) /\ u # t)
  BY <1>2, <1>4, <1>5, <1>6 DEF Unlinks, SameLists, SameTimers
<1> QED BY <1>1, <1>6, <1>7, <1>8, WakeProps

\* and rt_schedule follows
LEMMA TimeoutProps ==
    ASSUME NEW r, KInv(r), NEW t \in Thread, r.stat[t] = "SUSPEND",
           NEW q, q = thread_timeout(r, t)
    PROVE  \E w : Woken(w, r, t) /\ q = rt_schedule(w)
  BY TimeoutWakes DEF thread_timeout

\* t is suspended, in no list and without timer, nothing else has changed
Suspended(q, r, t) ==
    /\ KInv(q)
    /\ SameCore(q, r)
    /\ \A u \in Thread, o \in Obj : InWait(q, u, o) <=> InWait(r, u, o)
    /\ \A u \in Thread : q.stat[u] = IF u = t THEN "SUSPEND" ELSE r.stat[u]

\* rt_thread_suspend of the running thread, which is not the idle thread
LEMMA SuspendProps ==
    ASSUME NEW r, KInv(r), r.stat[r.cur] = "RUNNING", r.cur # Idle,
           NEW q, q = rt_thread_suspend(r, r.cur)
    PROVE  Suspended(q, r, r.cur)
<1> DEFINE t == r.cur
           a == rt_schedule_remove_thread(r, t)
           b == [a EXCEPT !.stat[t] = "SUSPEND"]
<1>1. /\ r \in KernelState /\ r.stat \in [Thread -> Stat] /\ t \in Thread
      /\ r.prio \in [Thread -> Prio]
  BY DEF KInv, WellFormed, KernelState
<1>2. q = rt_timer_stop(b, t)
  BY DEF rt_thread_suspend, CanSuspend
<1>3. /\ WellFormed(a) /\ SameCore(a, r) /\ Unlinks(a, r, t) /\ SameTimers(a, r)
      /\ a.stat = r.stat /\ Grouped(a)
  BY <1>1, RemoveThreadProps DEF KInv
<1> HIDE DEF a
<1>4. a \in KernelState
  BY <1>3 DEF WellFormed
<1>5. /\ b \in KernelState
      /\ b.stat = [r.stat EXCEPT ![t] = "SUSPEND"] /\ SameCore(b, a)
      /\ b.ready = a.ready /\ b.wait = a.wait /\ b.defunct = a.defunct
      /\ b.timers = a.timers /\ b.group = a.group
  <2>1. [a.stat EXCEPT ![t] = "SUSPEND"] \in [Thread -> Stat]
    BY <1>1, <1>3 DEF Stat
  <2>2. b = [a EXCEPT !.stat = [a.stat EXCEPT ![t] = "SUSPEND"]]
    BY <1>4 DEF KernelState
  <2> HIDE DEF b
  <2> QED BY <1>3, <1>4, <2>1, <2>2 DEF KernelState, SameCore
<1> HIDE DEF b
<1>6. WellFormed(b) /\ Grouped(b)
  BY <1>3, <1>5 DEF WellFormed, Grouped, InReady
<1>7. Unlinks(b, r, t) /\ SameTimers(b, r) /\ SameCore(b, r)
  BY <1>3, <1>5 DEF Unlinks, SameTimers, SameCore, InReady, InWait, InDefunct, InTimers
<1>8. /\ q \in KernelState /\ IsInjective(q.timers) /\ SameButTimers(q, b)
      /\ \A u \in Thread : InTimers(q, u) <=> (InTimers(b, u) /\ u # t)
  BY <1>1, <1>2, <1>6, TimerStopProps
<1>9. WellFormed(q) /\ Grouped(q) /\ SameLists(q, b)
  BY <1>6, <1>8, SameButTimersProps
<1>10. \A u \in Thread : q.stat[u] = IF u = t THEN "SUSPEND" ELSE r.stat[u]
  BY <1>1, <1>5, <1>8 DEF SameButTimers
<1>11. q.prio = r.prio /\ q.cur = r.cur /\ q.lock = r.lock /\ q.exec = r.exec /\ q.sw = r.sw
  BY <1>7, <1>8 DEF SameCore, SameButTimers
<1>12. Unlinks(q, r, t) /\ \A u \in Thread : InTimers(q, u) <=> (InTimers(r, u) /\ u # t)
  BY <1>7, <1>8, <1>9 DEF Unlinks, SameLists, SameTimers
<1>13. \A o \in Obj : ~InWait(r, t, o)
  BY <1>1 DEF KInv, Placed
<1>14. Placed(q)
  BY <1>10, <1>11, <1>12 DEF KInv, Placed, Unlinks
<1>15. Queued(q)
  BY <1>1, <1>10, <1>11, <1>12 DEF KInv, Queued, Unlinks
<1>16. SwitchAgrees(q) /\ CurOnlyRunning(q) /\ IdleIsRunnable(q)
  BY <1>1, <1>10, <1>11, ThreadAssumption
     DEF KInv, SwitchAgrees, CurOnlyRunning, IdleIsRunnable
<1> QED BY <1>9, <1>10, <1>11, <1>12, <1>13, <1>14, <1>15, <1>16
        DEF KInv, Suspended, Unlinks, SameCore

\* arming the timer of a suspended thread
LEMMA ArmProps ==
    ASSUME NEW r, KInv(r), NEW t \in Thread, r.stat[t] = "SUSPEND", NEW d \in Nat,
           NEW q, q = rt_timer_start(r, t, d)
    PROVE  KInv(q) /\ SameButTimers(q, r) /\ SameLists(q, r)
<1>1. /\ q \in KernelState /\ IsInjective(q.timers) /\ SameButTimers(q, r)
      /\ \A u \in Thread : InTimers(q, u) <=> InTimers(r, u) \/ u = t
  BY TimerStartProps DEF KInv
<1>2. \A u \in Thread : InTimers(q, u) => r.stat[u] = "SUSPEND"
  BY <1>1 DEF KInv, Placed
<1> QED BY <1>1, <1>2, SameButTimersProps DEF KInv

\* the current thread blocks on o, with a timeout or without
Blocked(q, r, t, o) ==
    /\ KInv(q)
    /\ SameCore(q, r)
    /\ \A u \in Thread, o2 \in Obj :
          InWait(q, u, o2) <=> (InWait(r, u, o2) \/ (u = t /\ o2 = o))
    /\ \A u \in Thread : q.stat[u] = IF u = t THEN "SUSPEND" ELSE r.stat[u]

\* _ipc_list_suspend blocks the running thread on o, and only there
LEMMA ListSuspendProps ==
    ASSUME NEW r, KInv(r), r.stat[r.cur] = "RUNNING", r.cur # Idle,
           NEW o \in Obj, NEW flag, NEW d \in Nat \cup {None},
           NEW q, q = ipc_list_suspend(r, o, r.cur, flag, d)
    PROVE  Blocked(q, r, r.cur, o)
<1> DEFINE t == r.cur
           a == [r EXCEPT !.err[t] = "EOK"]
           b == rt_thread_suspend(a, t)
           A == {u \in Thread : flag = "PRIO" /\ r.prio[t] < r.prio[u]}
           l == ListInsert(b.wait[o], t, A)
           c == [b EXCEPT !.wait[o] = l]
<1>1. r \in KernelState /\ t \in Thread /\ r.stat \in [Thread -> Stat]
  BY DEF KInv, WellFormed, KernelState
<1>2. q = IF d = None THEN c ELSE rt_timer_start(c, t, d)
  BY DEF ipc_list_suspend
<1>3. a \in KernelState /\ Agree(a, r) /\ a.lock = r.lock
  BY <1>1 DEF KernelState, Agree, Err
<1> HIDE DEF a
<1>4. KInv(a) /\ SameLists(a, r)
  BY <1>3, AgreeProps
<1>5. Suspended(b, a, t)
  <2>1. a.cur = t /\ a.stat[a.cur] = "RUNNING" /\ a.cur # Idle
    BY <1>3 DEF Agree
  <2> QED BY <1>4, <2>1, SuspendProps
<1> HIDE DEF b
<1>6. KInv(b) /\ b \in KernelState /\ b.wait[o] \in Seq(Thread) /\ IsInjective(b.wait[o])
  BY <1>5 DEF Suspended, SameCore, KInv, WellFormed, KernelState
<1>7. \A o2 \in Obj : ~InWait(b, t, o2)
  <2>1. \A o2 \in Obj : ~InWait(r, t, o2)
    BY <1>1 DEF KInv, Placed
  <2> QED BY <1>1, <1>4, <1>5, <2>1 DEF Suspended, SameCore, SameLists
<1>8. /\ l \in Seq(Thread) /\ IsInjective(l) /\ Range(l) = Range(b.wait[o]) \cup {t}
  <2> HIDE DEF A
  <2> QED BY <1>1, <1>6, <1>7, ListInsertProps DEF InWait
<1> HIDE DEF l
<1>9. /\ c \in KernelState /\ c.wait = [b.wait EXCEPT ![o] = l] /\ SameCore(c, b)
      /\ c.stat = b.stat /\ c.ready = b.ready /\ c.group = b.group
      /\ c.defunct = b.defunct /\ c.timers = b.timers
  <2>1. [b.wait EXCEPT ![o] = l] \in [Obj -> Seq(Thread)]
    BY <1>6, <1>8 DEF KernelState
  <2>2. c = [b EXCEPT !.wait = [b.wait EXCEPT ![o] = l]]
    BY <1>6 DEF KernelState
  <2> HIDE DEF c
  <2> QED BY <1>6, <2>1, <2>2 DEF KernelState, SameCore
<1> HIDE DEF c
<1>10. \A o2 \in Obj : c.wait[o2] = IF o2 = o THEN l ELSE b.wait[o2]
  BY <1>6, <1>9 DEF KernelState
<1>11. WellFormed(c)
  BY <1>6, <1>8, <1>9, <1>10 DEF KInv, WellFormed
<1>12. \A u \in Thread, o2 \in Obj :
          InWait(c, u, o2) <=> (InWait(b, u, o2) \/ (u = t /\ o2 = o))
  <2> SUFFICES ASSUME NEW u \in Thread, NEW o2 \in Obj
               PROVE  InWait(c, u, o2) <=> (InWait(b, u, o2) \/ (u = t /\ o2 = o))
    OBVIOUS
  <2>1. CASE o2 = o
    BY <1>8, <1>10, <2>1 DEF InWait
  <2>2. CASE o2 # o
    BY <1>10, <2>2 DEF InWait
  <2> QED BY <2>1, <2>2
<1>13. /\ \A u, p : InReady(c, u, p) <=> InReady(b, u, p)
       /\ \A u : InDefunct(c, u) <=> InDefunct(b, u)
       /\ \A u : InTimers(c, u) <=> InTimers(b, u)
  BY <1>9 DEF InReady, InDefunct, InTimers
<1>14. b.stat[t] = "SUSPEND" /\ c.prio = b.prio /\ c.cur = b.cur
  BY <1>1, <1>5, <1>9 DEF Suspended, SameCore
<1>15. Placed(c)
  BY <1>6, <1>7, <1>9, <1>12, <1>13, <1>14 DEF KInv, Placed
<1>16. Queued(c) /\ Grouped(c)
  BY <1>6, <1>9, <1>13, <1>14 DEF KInv, Queued, Grouped
<1>17. SwitchAgrees(c) /\ CurOnlyRunning(c) /\ IdleIsRunnable(c)
  BY <1>6, <1>9 DEF KInv, SameCore, SwitchAgrees, CurOnlyRunning, IdleIsRunnable
<1>18. Blocked(c, r, t, o)
  BY <1>3, <1>4, <1>5, <1>9, <1>11, <1>12, <1>15, <1>16, <1>17
     DEF Blocked, KInv, Suspended, SameCore, Agree, SameLists
<1>19. CASE d = None
  BY <1>2, <1>18, <1>19
<1>20. CASE d # None
  <2>1. d \in Nat /\ q = rt_timer_start(c, t, d) /\ KInv(c) /\ c.stat[t] = "SUSPEND"
    BY <1>1, <1>2, <1>18, <1>20 DEF Blocked, SameCore
  <2>2. KInv(q) /\ SameButTimers(q, c) /\ SameLists(q, c)
    BY <1>1, <2>1, ArmProps
  <2> QED BY <1>18, <2>2 DEF Blocked, SameCore, SameButTimers, SameLists
<1> QED BY <1>19, <1>20

-----------------------------------------------------------------------------
(* What the operations do to thread->error, to the priorities, to the wait lists and to *)
(* the thread timers.                                                                   *)

\* r is a record with these fields
HasErr(r) ==
    {"err", "wait", "prio", "stat", "ready", "group", "defunct", "timers", "tmo", "tick"}
        \subseteq DOMAIN r

SameErr(q, r) == HasErr(q) /\ q.err = r.err /\ q.prio = r.prio

\* the tick and the timers are the same; that of u is; all but that of t are
SameClock(q, r) == q.timers = r.timers /\ q.tmo = r.tmo /\ q.tick = r.tick
SameTimer(q, r, u) == (InTimers(q, u) <=> InTimers(r, u)) /\ q.tmo[u] = r.tmo[u]
OtherTimers(q, r, t) == q.tick = r.tick /\ \A u \in Thread \ {t} : SameTimer(q, r, u)

\* the timer list is one
ClockOK(r) ==
    r.timers \in Seq(Thread) /\ IsInjective(r.timers) /\ r.tmo \in [Thread -> Ticks]

\* equal fields are as good as no step
LEMMA SameClockProps ==
    ASSUME NEW q, NEW r, SameClock(q, r)
    PROVE  /\ \A u : SameTimer(q, r, u)
           /\ \A t : OtherTimers(q, r, t)
           /\ ClockOK(r) => ClockOK(q)
  BY DEF SameClock, SameTimer, OtherTimers, ClockOK, InTimers

\* a kernel state has them
LEMMA KernelHasErr ==
    ASSUME NEW r \in KernelState
    PROVE  HasErr(r) /\ r.err \in [Thread -> Err] /\ r.wait \in [Obj -> Seq(Thread)]
  BY DEF HasErr, KernelState

\* and its timer list is one
LEMMA KernelHasClock ==
    ASSUME NEW r, KInv(r)
    PROVE  ClockOK(r)
  BY DEF ClockOK, KInv, WellFormed, KernelState

\* a thread that is not in a list is not removed from it
LEMMA ListDelNone ==
    ASSUME NEW s, NEW t, t \notin Range(s)
    PROVE  ListDel(s, t) = s
  BY DEF ListDel

\* rt_list_remove(&thread->tlist)
LEMMA TListErr ==
    ASSUME NEW r, HasErr(r), NEW t, NEW q, q = TListRemove(r, t)
    PROVE  /\ SameErr(q, r) /\ SameClock(q, r)
           /\ q.wait = [o \in Obj |-> ListDel(r.wait[o], t)]
  BY DEF TListRemove, HasErr, SameErr, SameClock

\* rt_schedule_insert_thread
LEMMA InsertErr ==
    ASSUME NEW r, HasErr(r), NEW t, NEW q, q = rt_schedule_insert_thread(r, t)
    PROVE  SameErr(q, r) /\ SameClock(q, r) /\ q.wait = r.wait
<1>1. CASE q = [r EXCEPT !.stat[t] = "RUNNING"]
  BY <1>1 DEF HasErr, SameErr, SameClock
<1>2. CASE q = [r EXCEPT !.stat[t] = "READY", !.ready[r.prio[t]] = Append(@, t),
                         !.group = @ \cup {r.prio[t]}]
  BY <1>2 DEF HasErr, SameErr, SameClock
<1> QED BY <1>1, <1>2 DEF rt_schedule_insert_thread

\* _timer_remove
LEMMA TimerRemoveErr ==
    ASSUME NEW r, HasErr(r), NEW t \in Thread, NEW q, q = timer_remove(r, t)
    PROVE  /\ SameErr(q, r) /\ q.wait = r.wait
           /\ ClockOK(r) => /\ ClockOK(q) /\ OtherTimers(q, r, t) /\ ~InTimers(q, t)
<1>1. /\ SameErr(q, r) /\ q.wait = r.wait /\ q.timers = ListDel(r.timers, t)
      /\ q.tmo = [r.tmo EXCEPT ![t] = 0] /\ q.tick = r.tick
  BY DEF timer_remove, HasErr, SameErr
<1>2. ASSUME ClockOK(r) PROVE ClockOK(q) /\ OtherTimers(q, r, t) /\ ~InTimers(q, t)
  <2>1. /\ q.timers \in Seq(Thread) /\ IsInjective(q.timers)
        /\ Range(q.timers) = Range(r.timers) \ {t}
    BY <1>1, <1>2, ListDelProps DEF ClockOK
  <2>2. q.tmo \in [Thread -> Ticks] /\ \A u \in Thread \ {t} : q.tmo[u] = r.tmo[u]
    BY <1>1, <1>2, TickAssumption DEF ClockOK, Ticks
  <2> QED BY <1>1, <2>1, <2>2 DEF ClockOK, OtherTimers, SameTimer, InTimers
<1> QED BY <1>1, <1>2

\* rt_timer_stop
LEMMA TimerStopErr ==
    ASSUME NEW r, HasErr(r), NEW t \in Thread, NEW q, q = rt_timer_stop(r, t)
    PROVE  /\ SameErr(q, r) /\ q.wait = r.wait
           /\ ClockOK(r) => ClockOK(q) /\ OtherTimers(q, r, t) /\ ~InTimers(q, t)
           /\ ~InTimers(r, t) => SameClock(q, r)
<1>1. CASE t \in Range(r.timers)
  BY <1>1, TimerRemoveErr DEF rt_timer_stop, InTimers
<1>2. CASE t \notin Range(r.timers)
  <2>1. q = r
    BY <1>2 DEF rt_timer_stop
  <2> QED BY <1>2, <2>1, SameClockProps DEF SameErr, SameClock, InTimers
<1> QED BY <1>1, <1>2

\* rt_schedule_remove_thread
LEMMA RemoveErr ==
    ASSUME NEW r, HasErr(r), NEW t, NEW q, q = rt_schedule_remove_thread(r, t)
    PROVE  /\ SameErr(q, r) /\ SameClock(q, r)
           /\ q.wait = [o \in Obj |-> ListDel(r.wait[o], t)]
<1> DEFINE m == TListRemove(r, t)
<1>1. /\ SameErr(m, r) /\ SameClock(m, r)
      /\ m.wait = [o \in Obj |-> ListDel(r.wait[o], t)]
  BY TListErr
<1>2. q = m \/ q = [m EXCEPT !.group = m.group \ {r.prio[t]}]
  BY DEF rt_schedule_remove_thread
<1> HIDE DEF m
<1> QED BY <1>1, <1>2 DEF SameErr, SameClock, HasErr

\* rt_schedule leaves all of them alone: whoever it links or unlinks was waiting for nothing
LEMMA ScheduleErr ==
    ASSUME NEW r, KInv(r), NEW q, q = rt_schedule(r)
    PROVE  q.err = r.err /\ q.prio = r.prio /\ q.wait = r.wait /\ SameClock(q, r)
<1>1. r \in KernelState /\ HasErr(r) /\ r.wait \in [Obj -> Seq(Thread)] /\ r.cur \in Thread
  <2>1. r \in KernelState
    BY DEF KInv, WellFormed
  <2> QED BY <2>1, KernelHasErr DEF KernelState
<1>2. ASSUME NEW t \in Thread, r.stat[t] # "SUSPEND", NEW w, w = r.wait
      PROVE  [o \in Obj |-> ListDel(w[o], t)] = w
  <2>1. \A o \in Obj : ListDel(w[o], t) = w[o]
    BY <1>2, ListDelNone DEF KInv, Placed, InWait
  <2> QED BY <1>1, <1>2, <2>1
<1>3. CASE r.lock > 0 \/ r.group = {}
  BY <1>3 DEF rt_schedule, SameClock
<1>4. CASE ~(r.lock > 0 \/ r.group = {})
  <2> DEFINE h == HighestReady(r)
             to == IF KeepsCpu(r) THEN r.cur ELSE Head(r.ready[h])
  <2>1. q = IF to = r.cur THEN StayOn(r) ELSE SwitchTo(r, to)
    BY <1>4 DEF rt_schedule
  <2>2. /\ Head(r.ready[h]) \in Thread /\ r.stat[Head(r.ready[h])] = "READY"
        /\ Head(r.ready[h]) # r.cur
    <3>1. h \in r.group /\ h \in Prio
      <4>1. r.group \subseteq Prio /\ Prio \subseteq Nat
        BY <1>1 DEF Prio, KernelState
      <4> QED BY <1>4, <4>1, MinProps DEF HighestReady
    <3> HIDE DEF h
    <3>2. r.ready[h] \in Seq(Thread) /\ \E u \in Thread : u \in Range(r.ready[h])
      BY <1>1, <3>1 DEF KInv, Grouped, InReady, KernelState
    <3>3. Head(r.ready[h]) \in Range(r.ready[h]) /\ Head(r.ready[h]) \in Thread
      BY <3>2, RangeProps
    <3> QED BY <3>1, <3>3 DEF KInv, Placed, InReady, CurOnlyRunning
  <2>3. CASE to = r.cur
    <3> DEFINE a == IF r.stat[r.cur] = "RUNNING" THEN [r EXCEPT !.yield = @ \ {r.cur}] ELSE r
               m == rt_schedule_remove_thread(a, r.cur)
    <3>1. q = [m EXCEPT !.stat[r.cur] = "RUNNING"] /\ r.stat[r.cur] # "SUSPEND"
      <4>1. r.stat[r.cur] # "SUSPEND"
        BY <2>2, <2>3 DEF KeepsCpu
      <4> HIDE DEF to
      <4> QED BY <2>1, <2>3, <4>1 DEF StayOn
    <3>2. SameErr(a, r) /\ SameClock(a, r) /\ a.wait = r.wait
      BY <1>1 DEF SameErr, SameClock, HasErr
    <3> HIDE DEF a, to
    <3>3. SameErr(m, a) /\ SameClock(m, a) /\ m.wait = [o \in Obj |-> ListDel(a.wait[o], r.cur)]
      BY <3>2, RemoveErr DEF SameErr
    <3> HIDE DEF m
    <3>4. q.err = m.err /\ q.prio = m.prio /\ q.wait = m.wait /\ SameClock(q, m)
      BY <3>1, <3>3 DEF SameErr, SameClock, HasErr
    <3> QED BY <1>1, <1>2, <3>1, <3>2, <3>3, <3>4 DEF SameErr, SameClock
  <2>4. CASE to # r.cur
    <3> DEFINE a == [r EXCEPT !.cur = to]
               y == [a EXCEPT !.yield = @ \ {r.cur}]
               b == IF r.stat[r.cur] = "RUNNING" THEN rt_schedule_insert_thread(y, r.cur) ELSE a
               m == rt_schedule_remove_thread(b, to)
               n == [m EXCEPT !.stat[to] = "RUNNING"]
    <3>1. q = rt_hw_context_switch(n, r.cur, to)
      <4> HIDE DEF to
      <4> QED BY <2>1, <2>4 DEF SwitchTo
    <3>2. to \in Thread /\ r.stat[to] = "READY"
      BY <2>2, <2>4
    <3> HIDE DEF to
    <3>3. SameErr(a, r) /\ SameClock(a, r) /\ a.wait = r.wait
      BY <1>1 DEF SameErr, SameClock, HasErr
    <3> HIDE DEF a
    <3>4. SameErr(y, r) /\ SameClock(y, r) /\ y.wait = r.wait
      BY <3>3 DEF SameErr, SameClock, HasErr
    <3> HIDE DEF y
    <3>5. SameErr(b, r) /\ SameClock(b, r) /\ b.wait = r.wait
      <4>1. CASE b = a
        BY <3>3, <4>1
      <4>2. CASE b = rt_schedule_insert_thread(y, r.cur)
        BY <3>4, <4>2, InsertErr DEF SameErr, SameClock
      <4> QED BY <4>1, <4>2
    <3> HIDE DEF b
    <3>6. SameErr(m, b) /\ SameClock(m, b) /\ m.wait = [o \in Obj |-> ListDel(b.wait[o], to)]
      BY <3>5, RemoveErr DEF SameErr
    <3> HIDE DEF m
    <3>7. SameErr(n, m) /\ SameClock(n, m) /\ n.wait = m.wait
      BY <3>6 DEF SameErr, SameClock, HasErr
    <3> HIDE DEF n
    <3>8. q.err = n.err /\ q.prio = n.prio /\ q.wait = n.wait /\ SameClock(q, n)
      BY <3>1, <3>7 DEF rt_hw_context_switch, SameErr, SameClock, HasErr
    <3> QED BY <1>2, <3>2, <3>5, <3>6, <3>7, <3>8 DEF SameErr, SameClock
  <2> QED BY <2>3, <2>4
<1> QED BY <1>3, <1>4

\* no ready thread is more urgent than the current one
Highest(r) == \A u \in Thread : r.stat[u] = "READY" => r.prio[r.cur] <= r.prio[u]

\* an unlocked rt_schedule leaves the processor to a thread that no ready thread precedes
LEMMA ScheduleHighest ==
    ASSUME NEW r, KInv(r), r.lock = 0, NEW q, q = rt_schedule(r)
    PROVE  Highest(q)
<1>1. /\ r \in KernelState /\ r.group \subseteq Prio /\ Prio \subseteq Nat
      /\ r.prio \in [Thread -> Prio] /\ r.cur \in Thread
  <2>1. r \in KernelState
    BY DEF KInv, WellFormed
  <2>2. Prio \subseteq Nat
    BY DEF Prio
  <2> QED BY <2>1, <2>2 DEF KernelState
<1>2. \A u \in Thread : r.stat[u] = "READY" => r.prio[u] \in r.group
  BY <1>1 DEF KInv, Queued, Grouped
<1>3. q.prio = r.prio
  BY ScheduleErr
<1>4. CASE r.group = {}
  BY <1>2, <1>4 DEF rt_schedule, Highest
<1>5. CASE r.group # {}
  <2> DEFINE h == HighestReady(r)
             to == IF KeepsCpu(r) THEN r.cur ELSE Head(r.ready[h])
  <2>1. q = IF to = r.cur THEN StayOn(r) ELSE SwitchTo(r, to)
    BY <1>5 DEF rt_schedule
  <2>2. h \in Prio /\ h \in r.group /\ \A p \in r.group : h <= p
    BY <1>1, <1>5, MinProps DEF HighestReady
  <2>3. h \in Nat /\ \A u \in Thread : r.prio[u] \in Nat /\ (r.stat[u] = "READY" => h <= r.prio[u])
    BY <1>1, <1>2, <2>2
  <2>4. CASE KeepsCpu(r)
    <3>1. /\ q = StayOn(r) /\ r.stat[r.cur] = "RUNNING"
          /\ r.prio[r.cur] < h \/ r.prio[r.cur] = h
      BY <2>1, <2>4 DEF KeepsCpu
    <3>2. q.cur = r.cur /\ q.stat = r.stat
      BY <3>1, StayOnProps
    <3> HIDE DEF h
    <3> QED BY <1>1, <1>3, <2>3, <3>1, <3>2 DEF Highest
  <2>5. CASE ~KeepsCpu(r)
    <3>1. ~(r.stat[r.cur] = "RUNNING" /\ r.prio[r.cur] < h)
      BY <2>5 DEF KeepsCpu
    <3>2. q = IF Head(r.ready[h]) = r.cur THEN StayOn(r) ELSE SwitchTo(r, Head(r.ready[h]))
      BY <2>1, <2>5
    <3> HIDE DEF h, to
    <3> DEFINE f == Head(r.ready[h])
    <3>3. r.ready[h] \in Seq(Thread) /\ \E u \in Thread : u \in Range(r.ready[h])
      BY <1>1, <2>2 DEF KInv, Grouped, InReady, KernelState
    <3>4. f \in Range(r.ready[h]) /\ f \in Thread
      BY <3>3, RangeProps
    <3>5. r.stat[f] = "READY" /\ r.prio[f] = h
      BY <2>2, <3>4 DEF KInv, Placed, InReady
    <3>6. f # r.cur
      BY <3>5 DEF KInv, CurOnlyRunning
    <3>7. q = SwitchTo(r, f)
      BY <3>2, <3>6
    <3> HIDE DEF f
    <3>8. /\ q.cur = f
          /\ \A u \in Thread : q.stat[u] = "READY" =>
                r.stat[u] = "READY" \/ (u = r.cur /\ r.stat[u] = "RUNNING")
      BY <3>4, <3>5, <3>6, <3>7, SwitchToProps
    <3> QED BY <1>1, <1>3, <2>3, <3>1, <3>5, <3>8 DEF Highest
  <2> QED BY <2>4, <2>5
<1> QED BY <1>4, <1>5

\* rt_thread_resume leaves the error alone and takes the thread out of its list
LEMMA ResumeErr ==
    ASSUME NEW r, KInv(r), NEW t \in Thread, r.stat[t] = "SUSPEND",
           NEW q, q = rt_thread_resume(r, t)
    PROVE  /\ q.err = r.err /\ q.prio = r.prio /\ OtherTimers(q, r, t)
           /\ q.wait = [o \in Obj |-> ListDel(r.wait[o], t)]
<1> DEFINE a == TListRemove(r, t)
           m == rt_timer_stop(a, t)
<1>1. q = rt_schedule_insert_thread(m, t) /\ HasErr(r) /\ ClockOK(r)
  BY KernelHasErr, KernelHasClock DEF rt_thread_resume, ResumeSection, KInv, WellFormed
<1>2. SameErr(a, r) /\ SameClock(a, r) /\ a.wait = [o \in Obj |-> ListDel(r.wait[o], t)]
  BY <1>1, TListErr
<1>3. ClockOK(a) /\ OtherTimers(a, r, t)
  BY <1>1, <1>2, SameClockProps
<1> HIDE DEF a
<1>4. SameErr(m, a) /\ m.wait = a.wait /\ OtherTimers(m, a, t)
  BY <1>2, <1>3, TimerStopErr DEF SameErr
<1> HIDE DEF m
<1>5. SameErr(q, m) /\ SameClock(q, m) /\ q.wait = m.wait
  BY <1>1, <1>4, InsertErr DEF SameErr
<1>6. OtherTimers(q, m, t)
  BY <1>5, SameClockProps
<1>7. OtherTimers(q, r, t)
  BY <1>3, <1>4, <1>6 DEF OtherTimers, SameTimer
<1> QED BY <1>2, <1>4, <1>5, <1>7 DEF SameErr

\* _thread_timeout sets the error of the thread
LEMMA TimeoutErr ==
    ASSUME NEW r, KInv(r), NEW t \in Thread, r.stat[t] = "SUSPEND",
           NEW q, q = thread_timeout(r, t)
    PROVE  /\ q.err = [r.err EXCEPT ![t] = "ETIMEOUT"] /\ q.prio = r.prio
           /\ OtherTimers(q, r, t)
           /\ q.wait = [o \in Obj |-> ListDel(r.wait[o], t)]
<1> DEFINE a == timer_remove(r, t)
           b == [a EXCEPT !.err[t] = "ETIMEOUT"]
           m == TListRemove(b, t)
           w == rt_schedule_insert_thread(m, t)
<1>1. q = rt_schedule(w) /\ HasErr(r) /\ ClockOK(r)
  BY KernelHasErr, KernelHasClock DEF thread_timeout, KInv, WellFormed
<1>2. SameErr(a, r) /\ a.wait = r.wait /\ OtherTimers(a, r, t)
  BY <1>1, TimerRemoveErr
<1> HIDE DEF a
<1>3. /\ HasErr(b) /\ b.err = [r.err EXCEPT ![t] = "ETIMEOUT"]
      /\ b.prio = r.prio /\ b.wait = r.wait /\ SameClock(b, a)
  BY <1>2 DEF SameErr, SameClock, HasErr
<1> HIDE DEF b
<1>4. SameErr(m, b) /\ SameClock(m, b) /\ m.wait = [o \in Obj |-> ListDel(b.wait[o], t)]
  BY <1>3, TListErr
<1> HIDE DEF m
<1>5. SameErr(w, m) /\ SameClock(w, m) /\ w.wait = m.wait
  BY <1>4, InsertErr DEF SameErr
<1>6. KInv(w)
  <2>1. Woken(w, r, t)
    BY TimeoutWakes DEF m, b, a
  <2> QED BY <2>1 DEF Woken
<1> HIDE DEF w
<1>7. q.err = w.err /\ q.prio = w.prio /\ q.wait = w.wait /\ SameClock(q, w)
  BY <1>1, <1>6, ScheduleErr
<1>8. SameClock(q, a)
  BY <1>3, <1>4, <1>5, <1>7 DEF SameClock
<1>9. OtherTimers(q, a, t)
  BY <1>8, SameClockProps
<1>10. OtherTimers(q, r, t)
  BY <1>2, <1>9 DEF OtherTimers, SameTimer
<1> QED BY <1>3, <1>4, <1>5, <1>7, <1>10 DEF SameErr

\* the suspension of the running thread, and _ipc_list_suspend
LEMMA SuspendErr ==
    ASSUME NEW r, KInv(r), r.stat[r.cur] = "RUNNING", NEW q, q = rt_thread_suspend(r, r.cur)
    PROVE  SameErr(q, r) /\ SameClock(q, r) /\ q.wait = r.wait
<1> DEFINE t == r.cur
           a == rt_schedule_remove_thread(r, t)
           b == [a EXCEPT !.stat[t] = "SUSPEND"]
<1>1. /\ r \in KernelState /\ HasErr(r) /\ t \in Thread /\ r.wait \in [Obj -> Seq(Thread)]
  <2>1. r \in KernelState
    BY DEF KInv, WellFormed
  <2> QED BY <2>1, KernelHasErr DEF KernelState
<1>2. q = rt_timer_stop(b, t)
  BY DEF rt_thread_suspend, CanSuspend
<1>3. SameErr(a, r) /\ SameClock(a, r) /\ a.wait = [o \in Obj |-> ListDel(r.wait[o], t)]
  BY <1>1, RemoveErr
<1>4. \A o \in Obj : ListDel(r.wait[o], t) = r.wait[o]
  BY <1>1, ListDelNone DEF KInv, Placed, InWait
<1>5. a.wait = r.wait
  BY <1>1, <1>3, <1>4
<1> HIDE DEF a
<1>6. SameErr(b, a) /\ SameClock(b, a) /\ b.wait = a.wait
  BY <1>3 DEF SameErr, SameClock, HasErr
<1> HIDE DEF b
<1>7. ~InTimers(b, t)
  BY <1>1, <1>3, <1>6 DEF KInv, Placed, SameClock, InTimers
<1>8. SameErr(q, b) /\ SameClock(q, b) /\ q.wait = b.wait
  BY <1>1, <1>2, <1>6, <1>7, TimerStopErr DEF SameErr
<1> QED BY <1>3, <1>5, <1>6, <1>8 DEF SameErr, SameClock

\* rt_timer_start
LEMMA TimerStartErr ==
    ASSUME NEW r, HasErr(r), ClockOK(r), NEW t \in Thread, NEW d,
           NEW q, q = rt_timer_start(r, t, d)
    PROVE  /\ SameErr(q, r) /\ q.wait = r.wait /\ OtherTimers(q, r, t)
           /\ InTimers(q, t) /\ q.tmo[t] = (r.tick + d) % TickMod
<1> DEFINE m == timer_remove(r, t)
           at == (r.tick + d) % TickMod
           later == {u \in Thread : (m.tmo[u] - at) % TickMod \in 1 .. HalfTick - 1}
           l == ListInsert(m.timers, t, later)
<1>1. /\ SameErr(m, r) /\ m.wait = r.wait /\ ClockOK(m) /\ OtherTimers(m, r, t)
      /\ ~InTimers(m, t)
  BY TimerRemoveErr
<1>2. q = [m EXCEPT !.tmo[t] = at, !.timers = l]
  BY DEF rt_timer_start
<1> HIDE DEF m, at, later
<1>3. Range(l) = Range(m.timers) \cup {t}
  BY <1>1, ListInsertProps DEF ClockOK, InTimers
<1> HIDE DEF l
<1>4. /\ SameErr(q, m) /\ q.wait = m.wait /\ q.timers = l /\ q.tick = m.tick
      /\ q.tmo = [m.tmo EXCEPT ![t] = at]
  BY <1>1, <1>2 DEF SameErr, HasErr
<1>5. q.tmo[t] = at /\ \A u \in Thread \ {t} : q.tmo[u] = m.tmo[u]
  BY <1>1, <1>4 DEF ClockOK
<1>6. OtherTimers(q, r, t) /\ InTimers(q, t)
  BY <1>1, <1>3, <1>4, <1>5 DEF OtherTimers, SameTimer, InTimers
<1> QED BY <1>1, <1>4, <1>5, <1>6 DEF SameErr, at

\* thread->error of t alone is set
SetErr(q, r, t, e) == q.err = [r.err EXCEPT ![t] = e]

\* the waiters in front of which _ipc_list_suspend links t
LessUrgent(r, t, flag) == {u \in Thread : flag = "PRIO" /\ r.prio[t] < r.prio[u]}

\* t has a timer for d ticks, or none if it waits for ever
TimedFor(q, r, t, d) ==
    /\ OtherTimers(q, r, t)
    /\ IF d = None THEN ~InTimers(q, t)
                   ELSE InTimers(q, t) /\ q.tmo[t] = (r.tick + d) % TickMod

\* the running thread waits on o with error RT_EOK, in its place of the list
LEMMA ListSuspendErr ==
    ASSUME NEW r, KInv(r), r.stat[r.cur] = "RUNNING", NEW o \in Obj, NEW flag, NEW d,
           NEW q, q = ipc_list_suspend(r, o, r.cur, flag, d)
    PROVE  /\ SetErr(q, r, r.cur, "EOK") /\ q.prio = r.prio /\ TimedFor(q, r, r.cur, d)
           /\ q.wait = [r.wait EXCEPT ![o] = ListInsert(@, r.cur, LessUrgent(r, r.cur, flag))]
<1> DEFINE t == r.cur
           a == [r EXCEPT !.err[t] = "EOK"]
           b == rt_thread_suspend(a, t)
           A == LessUrgent(r, t, flag)
           l == ListInsert(b.wait[o], t, A)
           c == [b EXCEPT !.wait[o] = l]
<1>1. r \in KernelState /\ HasErr(r) /\ t \in Thread
  <2>1. r \in KernelState
    BY DEF KInv, WellFormed
  <2> QED BY <2>1, KernelHasErr DEF KernelState
<1>2. q = IF d = None THEN c ELSE rt_timer_start(c, t, d)
  BY DEF ipc_list_suspend, LessUrgent
<1>3. /\ a \in KernelState /\ Agree(a, r) /\ HasErr(a)
      /\ a.err = [r.err EXCEPT ![t] = "EOK"] /\ a.prio = r.prio /\ a.wait = r.wait
      /\ SameClock(a, r)
  BY <1>1 DEF KernelState, Agree, Err, HasErr, SameClock
<1> HIDE DEF a
<1>4. KInv(a) /\ a.cur = t /\ a.stat[a.cur] = "RUNNING"
  BY <1>3, AgreeProps DEF Agree
<1>5. SameErr(b, a) /\ SameClock(b, a) /\ b.wait = a.wait
  BY <1>4, SuspendErr
<1> HIDE DEF b
<1>6. HasErr(c) /\ c.err = b.err /\ c.prio = b.prio /\ c.wait = [b.wait EXCEPT ![o] = l]
      /\ SameClock(c, b)
  <2> HIDE DEF l
  <2> QED BY <1>5 DEF SameErr, SameClock, HasErr
<1> HIDE DEF c
<1>7. SameClock(c, r) /\ ~InTimers(c, t)
  <2>1. SameClock(c, r)
    BY <1>3, <1>5, <1>6 DEF SameClock
  <2> QED BY <1>1, <2>1 DEF KInv, Placed, SameClock, InTimers
<1>8. ClockOK(c) /\ OtherTimers(c, r, t) /\ c.tick = r.tick
  BY <1>7, KernelHasClock, SameClockProps DEF SameClock
<1>9. CASE d = None
  <2>1. q = c
    BY <1>2, <1>9
  <2> QED BY <1>3, <1>5, <1>6, <1>7, <1>8, <1>9, <2>1 DEF SameErr, SetErr, TimedFor
<1>10. CASE d # None
  <2>1. q = rt_timer_start(c, t, d)
    BY <1>2, <1>10
  <2>2. /\ SameErr(q, c) /\ q.wait = c.wait /\ OtherTimers(q, c, t)
        /\ InTimers(q, t) /\ q.tmo[t] = (c.tick + d) % TickMod
    BY <1>1, <1>6, <1>8, <2>1, TimerStartErr
  <2>3. TimedFor(q, r, t, d)
    BY <1>8, <1>10, <2>2 DEF TimedFor, OtherTimers, SameTimer
  <2> QED BY <1>3, <1>5, <1>6, <2>2, <2>3 DEF SameErr, SetErr
<1> QED BY <1>9, <1>10

-----------------------------------------------------------------------------
(* Priorities. *)

\* q differs from r in priorities, and in where the ready threads are queued
SameButPrio(q, r) ==
    /\ KInv(q)
    /\ q.cur = r.cur /\ q.exec = r.exec /\ q.sw = r.sw /\ q.lock = r.lock
    /\ q.stat = r.stat /\ q.wait = r.wait /\ q.err = r.err /\ SameClock(q, r)

\* RT_THREAD_CTRL_CHANGE_PRIORITY gives a thread other than the idle one its new priority,
\* and moves it to the queue of that priority if it is ready
LEMMA ChangePriorityProps ==
    ASSUME NEW r, KInv(r), NEW t \in Thread, t # Idle, NEW p \in Prio,
           NEW q, q = ChangePriority(r, t, p)
    PROVE  SameButPrio(q, r) /\ q.prio = [r.prio EXCEPT ![t] = p]
<1> DEFINE f == [r.prio EXCEPT ![t] = p]
<1>1. /\ r \in KernelState /\ HasErr(r) /\ r.stat \in [Thread -> Stat]
      /\ r.wait \in [Obj -> Seq(Thread)] /\ r.prio \in [Thread -> Prio]
  <2>1. r \in KernelState
    BY DEF KInv, WellFormed
  <2> QED BY <2>1, KernelHasErr DEF KernelState
<1>2. f \in [Thread -> Prio] /\ f[t] = p /\ \A u \in Thread \ {t} : f[u] = r.prio[u]
  BY <1>1
<1>3. \A u : u = Idle => f[u] = PrioMax - 1
  BY <1>2, ThreadAssumption DEF KInv, IdleIsRunnable
<1> HIDE DEF f
<1>4. CASE r.stat[t] # "READY"
  <2>1. q = [r EXCEPT !.prio = f]
    BY <1>1, <1>4 DEF ChangePriority, KernelState, f
  <2>2. /\ q \in KernelState /\ q.prio = f
        /\ q.cur = r.cur /\ q.exec = r.exec /\ q.sw = r.sw /\ q.lock = r.lock
        /\ q.stat = r.stat /\ q.wait = r.wait /\ q.err = r.err /\ SameClock(q, r)
        /\ q.ready = r.ready /\ q.group = r.group /\ q.defunct = r.defunct
    BY <1>1, <1>2, <2>1 DEF KernelState, SameClock
  <2>3. /\ \A u, x : InReady(q, u, x) <=> InReady(r, u, x)
        /\ \A u, o : InWait(q, u, o) <=> InWait(r, u, o)
        /\ \A u : InDefunct(q, u) <=> InDefunct(r, u)
        /\ \A u : InTimers(q, u) <=> InTimers(r, u)
    BY <2>2 DEF InReady, InWait, InDefunct, InTimers, SameClock
  <2>4. WellFormed(q)
    BY <2>2 DEF KInv, WellFormed, SameClock
  <2>5. Placed(q) /\ Queued(q) /\ Grouped(q)
    BY <1>2, <1>4, <2>2, <2>3 DEF KInv, Placed, Queued, Grouped
  <2>6. SwitchAgrees(q) /\ CurOnlyRunning(q) /\ IdleIsRunnable(q)
    BY <1>3, <2>2 DEF KInv, SwitchAgrees, CurOnlyRunning, IdleIsRunnable
  <2> QED BY <2>2, <2>4, <2>5, <2>6 DEF KInv, SameButPrio, f
<1>5. CASE r.stat[t] = "READY"
  <2> DEFINE m == rt_schedule_remove_thread(r, t)
             a == [m EXCEPT !.prio[t] = p]
  <2>1. q = rt_schedule_insert_thread(a, t)
    BY <1>5 DEF ChangePriority
  <2>2. /\ WellFormed(m) /\ SameCore(m, r) /\ Unlinks(m, r, t) /\ SameTimers(m, r)
        /\ m.stat = r.stat /\ Grouped(m)
    BY RemoveThreadProps DEF KInv
  <2>3. SameErr(m, r) /\ SameClock(m, r) /\ m.wait = [o \in Obj |-> ListDel(r.wait[o], t)]
    BY <1>1, RemoveErr
  <2>4. m.wait = r.wait
    <3>1. \A o \in Obj : ListDel(r.wait[o], t) = r.wait[o]
      BY <1>5, ListDelNone DEF KInv, Placed, InWait
    <3> QED BY <1>1, <2>3, <3>1
  <2> HIDE DEF m
  <2>5. m \in KernelState /\ m.prio = r.prio
    BY <2>2 DEF WellFormed, SameCore
  <2>6. a = [m EXCEPT !.prio = f]
    BY <2>5 DEF KernelState, f
  <2>7. /\ a \in KernelState /\ a.prio = f
        /\ a.cur = r.cur /\ a.exec = r.exec /\ a.sw = r.sw /\ a.lock = r.lock
        /\ a.stat = r.stat /\ a.wait = r.wait /\ a.err = r.err /\ SameClock(a, r)
        /\ a.ready = m.ready /\ a.group = m.group /\ a.defunct = m.defunct
    <3> HIDE DEF a
    <3> QED BY <1>2, <2>2, <2>3, <2>4, <2>5, <2>6
            DEF KernelState, SameClock, SameCore, SameErr
  <2> HIDE DEF a
  <2>8. HasErr(a)
    BY <2>7, KernelHasErr
  <2>9. /\ \A u, x : InReady(a, u, x) <=> InReady(m, u, x)
        /\ \A u, o : InWait(a, u, o) <=> InWait(r, u, o)
        /\ \A u : InDefunct(a, u) <=> InDefunct(m, u)
        /\ \A u : InTimers(a, u) <=> InTimers(r, u)
    BY <2>7 DEF InReady, InWait, InDefunct, InTimers, SameClock
  <2>10. WellFormed(a) /\ Grouped(a)
    BY <2>2, <2>4, <2>7, <2>9 DEF KInv, WellFormed, Grouped, SameClock
  <2>11. t # a.cur /\ \A x \in Prio : ~InReady(a, t, x)
    BY <1>5, <2>2, <2>7, <2>9 DEF KInv, CurOnlyRunning, Unlinks
  <2>12. /\ WellFormed(q) /\ SameCore(q, a) /\ Queues(q, a, t) /\ SameTimers(q, a)
         /\ q.stat = [a.stat EXCEPT ![t] = "READY"] /\ Grouped(q)
    BY <2>1, <2>10, <2>11, InsertThreadProps
  <2>13. SameErr(q, a) /\ SameClock(q, a) /\ q.wait = a.wait
    BY <2>1, <2>8, InsertErr
  <2>14. q.stat = r.stat
    BY <1>1, <1>5, <2>7, <2>12
  <2>15. /\ q.prio = f /\ q.cur = r.cur /\ q.exec = r.exec /\ q.sw = r.sw /\ q.lock = r.lock
         /\ q.wait = r.wait /\ q.err = r.err /\ SameClock(q, r)
    BY <2>7, <2>12, <2>13 DEF SameCore, SameErr, SameClock
  <2>16. /\ \A u \in Thread, x \in Prio :
               InReady(q, u, x) <=> ((InReady(r, u, x) /\ u # t) \/ (u = t /\ x = p))
         /\ \A u, o : InWait(q, u, o) <=> InWait(r, u, o)
         /\ \A u \in Thread : InDefunct(q, u) <=> (InDefunct(r, u) /\ u # t)
         /\ \A u : InTimers(q, u) <=> InTimers(r, u)
    BY <1>2, <2>2, <2>7, <2>9, <2>12, <2>15 DEF Queues, Unlinks, InWait, InTimers, SameClock
  <2>17. Placed(q)
    BY <1>2, <1>5, <2>14, <2>15, <2>16 DEF KInv, Placed
  <2>18. Queued(q)
    BY <1>2, <1>5, <2>14, <2>15, <2>16 DEF KInv, Queued
  <2>19. SwitchAgrees(q) /\ CurOnlyRunning(q) /\ IdleIsRunnable(q)
    BY <1>3, <2>14, <2>15 DEF KInv, SwitchAgrees, CurOnlyRunning, IdleIsRunnable
  <2> QED BY <2>12, <2>14, <2>15, <2>17, <2>18, <2>19 DEF KInv, SameButPrio, f
<1> QED BY <1>4, <1>5

\* no change is one
LEMMA SameButPrioNone ==
    ASSUME NEW r, KInv(r)
    PROVE  SameButPrio(r, r)
  BY DEF SameButPrio, SameClock

-----------------------------------------------------------------------------
(* The steps of the processor. *)

\* where a thread that has suspended itself still has its rt_schedule to call
BlockPc == {"sched", "sleep", "take", "idle"}

\* the kernel invariant; that no switch is pending under the scheduler lock; and the
\* window in which the current thread may be suspended: only between the section that
\* suspends it and the rt_schedule that follows
CpuInv ==
    /\ KInv(k)
    /\ \A t \in Thread : k.stat[t] # "CLOSE"
    /\ isr \in Seq(Frame)
    /\ k.lock > 0 => k.sw = None
    /\ k.lock = 0 /\ k.stat[k.cur] = "SUSPEND" => pc[k.cur] \in BlockPc

\* a step from r to q that blocks nobody: each thread waits as before or is woken
Kept(q, r, u) ==
    /\ q.stat[u] = "SUSPEND" <=> r.stat[u] = "SUSPEND"
    /\ \A o \in Obj : InWait(q, u, o) <=> InWait(r, u, o)
Awake(q, u) == q.stat[u] # "SUSPEND" /\ \A o \in Obj : ~InWait(q, u, o)
BlocksNone(q, r) == \A u \in Thread : Kept(q, r, u) \/ Awake(q, u)
BlocksOnly(q, r, t) == \A u \in Thread \ {t} : Kept(q, r, u) \/ Awake(q, u)

\* a locked scheduler stays with its thread and requests no switch
SameCpu(q, r) == q.cur = r.cur /\ q.exec = r.exec /\ q.sw = r.sw
StaysLocked(q, r) == r.lock > 0 => SameCpu(q, r)

\* rt_schedule blocks nobody
LEMMA ScheduledStep ==
    ASSUME NEW r, KInv(r), \A t \in Thread : r.stat[t] # "CLOSE",
           NEW q, q = rt_schedule(r)
    PROVE  /\ KInv(q) /\ \A t \in Thread : q.stat[t] # "CLOSE"
           /\ q.lock = r.lock
           /\ r.lock = 0 => q.stat[q.cur] = "RUNNING"
           /\ BlocksNone(q, r) /\ StaysLocked(q, r)
  BY ScheduleProps DEF Scheduled, BlocksNone, Kept, StaysLocked, SameCpu

\* waking a thread blocks nobody and switches to nobody
LEMMA WokenStep ==
    ASSUME NEW r, KInv(r), \A t \in Thread : r.stat[t] # "CLOSE",
           NEW t \in Thread, NEW q, Woken(q, r, t)
    PROVE  /\ KInv(q) /\ \A u \in Thread : q.stat[u] # "CLOSE"
           /\ q.lock = r.lock /\ SameCpu(q, r)
           /\ q.stat[q.cur] = "SUSPEND" => r.stat[r.cur] = "SUSPEND"
           /\ BlocksNone(q, r)
<1>1. q.cur \in Thread
  BY DEF Woken, KInv, WellFormed, KernelState
<1> QED BY <1>1 DEF Woken, SameCore, SameCpu, BlocksNone, Kept, Awake

\* moving or leaving the innermost handler keeps the stack of handlers well typed
LEMMA FrameProps ==
    ASSUME NEW s \in Seq(Frame), s # <<>>, NEW at \in {"sched", "check", "expire", "body", "leave"}
    PROVE  [s EXCEPT ![Len(s)].at = at] \in Seq(Frame) /\ Front(s) \in Seq(Frame)
<1>1. Len(s) \in Nat \ {0} /\ s[Len(s)] \in Frame
  OBVIOUS
<1>2. [s[Len(s)] EXCEPT !.at = at] \in Frame
  BY <1>1 DEF Frame
<1>3. [s EXCEPT ![Len(s)].at = at] \in Seq(Frame)
  <2>1. [s EXCEPT ![Len(s)] = [s[Len(s)] EXCEPT !.at = at]] \in Seq(Frame)
    BY <1>1, <1>2, ExceptSeq
  <2> QED BY <2>1
<1>4. Front(s) \in Seq(Frame)
  BY <1>1, SubSeqProperties DEF Front
<1> QED BY <1>3, <1>4

\* a change of fields that the invariant does not depend on
LEMMA AgreeStep ==
    ASSUME NEW r, KInv(r), \A t \in Thread : r.stat[t] # "CLOSE",
           NEW q \in KernelState, Agree(q, r)
    PROVE  /\ KInv(q) /\ \A t \in Thread : q.stat[t] # "CLOSE"
           /\ q.stat[q.cur] = r.stat[r.cur] /\ SameCpu(q, r)
           /\ BlocksNone(q, r)
<1>1. KInv(q) /\ SameLists(q, r)
  BY AgreeProps
<1> QED BY <1>1 DEF Agree, SameCpu, SameLists, BlocksNone, Kept

\* the section of rt_tick_increase changes the clock, a slice and a yield flag only
LEMMA TickSectionProps ==
    ASSUME NEW r, KInv(r), NEW q, q = TickSection(r)
    PROVE  q \in KernelState /\ Agree(q, r) /\ q.lock = r.lock
<1> DEFINE a == [r EXCEPT !.tick = (r.tick + 1) % TickMod]
           c == r.cur
<1>1. r \in KernelState /\ c \in Thread /\ r.tick \in Ticks /\ r.slice \in [Thread -> Nat \ {0}]
      /\ r.yield \subseteq Thread
  BY DEF KInv, WellFormed, KernelState
<1>2. (r.tick + 1) % TickMod \in Ticks
  BY <1>1, TickAssumption DEF Ticks
<1>3. /\ a \in KernelState /\ Agree(a, r) /\ a.lock = r.lock
      /\ a.slice = r.slice /\ a.yield = r.yield
  BY <1>1, <1>2 DEF KernelState, Agree
<1>4. q = IF SliceOut(r)
          THEN [a EXCEPT !.slice[c] = InitTick[c], !.yield = @ \cup {c}]
          ELSE [a EXCEPT !.slice[c] = @ - 1]
  BY DEF TickSection
<1> HIDE DEF a
<1>5. CASE SliceOut(r)
  <2> DEFINE f == [a.slice EXCEPT ![c] = InitTick[c]]
  <2>1. f \in [Thread -> Nat \ {0}] /\ a.yield \cup {c} \subseteq Thread
    BY <1>1, <1>3, ThreadAssumption
  <2>2. q = [a EXCEPT !.slice = f, !.yield = a.yield \cup {c}]
    BY <1>3, <1>4, <1>5 DEF KernelState
  <2> HIDE DEF f
  <2>3. q \in KernelState /\ Agree(q, a) /\ q.lock = a.lock
    BY <1>3, <2>1, <2>2 DEF KernelState, Agree
  <2> QED BY <1>3, <2>3 DEF Agree
<1>6. CASE ~SliceOut(r)
  <2> DEFINE f == [a.slice EXCEPT ![c] = a.slice[c] - 1]
  <2>1. r.slice[c] # 1 /\ r.slice[c] \in Nat \ {0}
    BY <1>1, <1>6 DEF SliceOut
  <2>2. f \in [Thread -> Nat \ {0}]
    BY <1>1, <1>3, <2>1
  <2>3. q = [a EXCEPT !.slice = f]
    BY <1>3, <1>4, <1>6 DEF KernelState
  <2> HIDE DEF f
  <2>4. q \in KernelState /\ Agree(q, a) /\ q.lock = a.lock
    BY <1>3, <2>2, <2>3 DEF KernelState, Agree
  <2> QED BY <1>3, <2>4 DEF Agree
<1> QED BY <1>5, <1>6

\* PendSV_Handler brings the processor to the current thread
LEMMA PendSVProps ==
    ASSUME NEW r, KInv(r), r.sw # None, NEW q, q = [r EXCEPT !.exec = r.sw.to, !.sw = None]
    PROVE  /\ KInv(q) /\ q.stat = r.stat /\ q.cur = r.cur /\ q.lock = r.lock
           /\ SameLists(q, r)
<1>1. r \in KernelState
  BY DEF KInv, WellFormed
<1>2. r.sw.to = r.cur /\ r.cur \in Thread
  BY <1>1 DEF KInv, SwitchAgrees, KernelState
<1>3. /\ q \in KernelState /\ q.exec = r.cur /\ q.sw = None /\ q.cur = r.cur /\ q.lock = r.lock
      /\ q.stat = r.stat /\ q.prio = r.prio /\ q.ready = r.ready /\ q.group = r.group
      /\ q.wait = r.wait /\ q.defunct = r.defunct /\ q.timers = r.timers
  BY <1>1, <1>2 DEF KernelState
<1>4. /\ \A u, p : InReady(q, u, p) <=> InReady(r, u, p)
      /\ \A u, o : InWait(q, u, o) <=> InWait(r, u, o)
      /\ \A u : InDefunct(q, u) <=> InDefunct(r, u)
      /\ \A u : InTimers(q, u) <=> InTimers(r, u)
  BY <1>3 DEF InReady, InWait, InDefunct, InTimers
<1>5. WellFormed(q)
  BY <1>3 DEF KInv, WellFormed
<1>6. Placed(q)
  BY <1>3, <1>4 DEF KInv, Placed
<1>7. Queued(q) /\ Grouped(q)
  BY <1>3, <1>4 DEF KInv, Queued, Grouped
<1>8. SwitchAgrees(q) /\ CurOnlyRunning(q) /\ IdleIsRunnable(q)
  BY <1>3 DEF KInv, SwitchAgrees, CurOnlyRunning, IdleIsRunnable
<1> QED BY <1>3, <1>4, <1>5, <1>6, <1>7, <1>8 DEF KInv, SameLists

\* the thread whose timer expires is suspended: the assertion of _thread_timeout
LEMMA DueIsSuspended ==
    ASSUME NEW r, KInv(r), TimerDue(r)
    PROVE  Head(r.timers) \in Thread /\ r.stat[Head(r.timers)] = "SUSPEND"
<1>1. r.timers \in Seq(Thread) /\ r.timers # <<>>
  BY DEF KInv, WellFormed, KernelState, TimerDue
<1>2. Head(r.timers) \in Range(r.timers) /\ Head(r.timers) \in Thread
  BY <1>1, RangeProps
<1> QED BY <1>2 DEF KInv, Placed, InTimers

\* a thread in INIT is in no list, so rt_thread_startup may call it suspended
LEMMA StartupProps ==
    ASSUME NEW r, KInv(r), NEW u \in Thread, r.stat[u] = "INIT",
           NEW q \in KernelState, SameCore(q, r),
           \A t \in Thread : q.stat[t] = IF t = u THEN "SUSPEND" ELSE r.stat[t],
           q.ready = r.ready, q.group = r.group, q.wait = r.wait,
           q.defunct = r.defunct, q.timers = r.timers
    PROVE  KInv(q) /\ q.cur = r.cur /\ q.lock = r.lock /\ SameLists(q, r) /\ u # r.cur
<1>1. r \in KernelState /\ r.stat \in [Thread -> Stat] /\ r.prio \in [Thread -> Prio]
  BY DEF KInv, WellFormed, KernelState
<1>2. \A t \in Thread : q.stat[t] = IF t = u THEN "SUSPEND" ELSE r.stat[t]
  BY <1>1
<1>5. /\ \A t, p : InReady(q, t, p) <=> InReady(r, t, p)
      /\ \A t, o : InWait(q, t, o) <=> InWait(r, t, o)
      /\ \A t : InDefunct(q, t) <=> InDefunct(r, t)
      /\ \A t : InTimers(q, t) <=> InTimers(r, t)
  BY DEF InReady, InWait, InDefunct, InTimers
<1>6. WellFormed(q)
  BY DEF KInv, WellFormed
<1>7. q.prio = r.prio /\ q.cur = r.cur /\ q.lock = r.lock /\ q.exec = r.exec /\ q.sw = r.sw
  BY DEF SameCore
<1>8. Placed(q)
  BY <1>2, <1>5, <1>7 DEF KInv, Placed
<1>9. Queued(q) /\ Grouped(q)
  BY <1>2, <1>5, <1>7 DEF KInv, Queued, Grouped
<1>10. u # r.cur /\ u # Idle
  BY DEF KInv, CurOnlyRunning, IdleIsRunnable
<1>11. SwitchAgrees(q) /\ CurOnlyRunning(q) /\ IdleIsRunnable(q)
  <2>1. r.cur \in Thread /\ Idle \in Thread
    BY <1>1, ThreadAssumption DEF KernelState
  <2> QED BY <1>2, <1>7, <1>10, <2>1
          DEF KInv, SwitchAgrees, CurOnlyRunning, IdleIsRunnable
<1> QED BY <1>2, <1>5, <1>6, <1>7, <1>8, <1>9, <1>10, <1>11 DEF KInv, SameLists

\* a step of a handler or of PendSV keeps the invariant and blocks nobody
LEMMA CpuStepInv ==
    ASSUME CpuInv, NEW M, CpuStep(M)
    PROVE  /\ CpuInv' /\ BlocksNone(k', k) /\ pc' = pc
           /\ k'.lock = k.lock /\ StaysLocked(k', k)
<1>1. /\ KInv(k) /\ \A t \in Thread : k.stat[t] # "CLOSE"
      /\ isr \in Seq(Frame) /\ (k.lock > 0 => k.sw = None)
      /\ k.lock = 0 /\ k.stat[k.cur] = "SUSPEND" => pc[k.cur] \in BlockPc
  BY DEF CpuInv
<1>2. KInv(k) => (BlocksNone(k, k) /\ k \in KernelState /\ StaysLocked(k, k))
  BY DEF BlocksNone, Kept, KInv, WellFormed, StaysLocked, SameCpu
<1>3. CASE TickEnter(M)
  <2>1. k' = TickSection(k) /\ pc' = pc
    BY <1>3 DEF TickEnter
  <2>2. k' \in KernelState /\ Agree(k', k) /\ k'.lock = k.lock
    BY <1>1, <2>1, TickSectionProps
  <2>3. isr' \in Seq(Frame)
    <3>1. [irq |-> "tick", at |-> IF SliceOut(k) THEN "sched" ELSE "check"] \in Frame
      BY DEF Frame
    <3> QED BY <1>3, <3>1 DEF TickEnter
  <2> QED BY <1>1, <2>1, <2>2, <2>3, AgreeStep DEF CpuInv, StaysLocked, SameCpu
<1>4. CASE TickSchedule \/ DevSchedule
  <2>1. k' = rt_schedule(k) /\ pc' = pc
    BY <1>4 DEF TickSchedule, DevSchedule
  <2>2. isr' \in Seq(Frame)
    BY <1>1, <1>4, FrameProps DEF TickSchedule, DevSchedule, InHandler, GotoFrame
  <2> QED BY <1>1, <2>1, <2>2, ScheduledStep DEF CpuInv, StaysLocked, SameCpu
<1>5. CASE TimerExpire
  <2>1. k' = thread_timeout(k, Head(k.timers)) /\ pc' = pc /\ TimerDue(k)
    BY <1>5 DEF TimerExpire
  <2>2. isr' \in Seq(Frame)
    BY <1>1, <1>5, FrameProps DEF TimerExpire, InHandler, GotoFrame
  <2> DEFINE t == Head(k.timers)
  <2>3. t \in Thread /\ k.stat[t] = "SUSPEND"
    BY <1>1, <2>1, DueIsSuspended
  <2>4. PICK w : Woken(w, k, t) /\ k' = rt_schedule(w)
    <3> HIDE DEF t
    <3> QED BY <1>1, <2>1, <2>3, TimeoutProps DEF t
  <2> HIDE DEF t
  <2>5. /\ KInv(w) /\ \A u \in Thread : w.stat[u] # "CLOSE"
        /\ w.lock = k.lock /\ BlocksNone(w, k) /\ SameCpu(w, k)
    BY <1>1, <2>3, <2>4, WokenStep
  <2>6. /\ KInv(k') /\ \A u \in Thread : k'.stat[u] # "CLOSE"
        /\ k'.lock = w.lock /\ BlocksNone(k', w) /\ StaysLocked(k', w)
        /\ w.lock = 0 => k'.stat[k'.cur] = "RUNNING"
    BY <2>4, <2>5, ScheduledStep
  <2>7. BlocksNone(k', k)
    BY <2>5, <2>6 DEF BlocksNone, Kept, Awake
  <2>8. StaysLocked(k', k)
    BY <2>5, <2>6 DEF StaysLocked, SameCpu
  <2> QED BY <1>1, <2>1, <2>2, <2>5, <2>6, <2>7, <2>8 DEF CpuInv, StaysLocked, SameCpu
<1>6. CASE TickLeave \/ DevLeave
  <2>1. k' = k /\ pc' = pc /\ isr' = Front(isr) /\ isr # <<>>
    BY <1>6 DEF TickLeave, DevLeave, InHandler
  <2>2. isr' \in Seq(Frame)
    BY <1>1, <2>1, FrameProps
  <2> QED BY <1>1, <1>2, <2>1, <2>2 DEF CpuInv
<1>7. CASE DevEnter(M)
  <2>1. k' = k /\ pc' = pc /\ isr' = Append(isr, [irq |-> "dev", at |-> "body"])
    BY <1>7 DEF DevEnter
  <2>2. isr' \in Seq(Frame)
    BY <1>1, <2>1 DEF Frame
  <2> QED BY <1>1, <1>2, <2>1, <2>2 DEF CpuInv
<1>8. CASE PendSV_Handler
  <2>1. /\ k.sw # None /\ k' = [k EXCEPT !.exec = k.sw.to, !.sw = None]
        /\ pc' = pc /\ isr' = isr
    BY <1>8 DEF PendSV_Handler
  <2>2. /\ KInv(k') /\ k'.stat = k.stat /\ k'.cur = k.cur /\ k'.lock = k.lock
        /\ SameLists(k', k)
    BY <1>1, <2>1, PendSVProps
  <2>3. ~(k.lock > 0)
    BY <1>1, <2>1
  <2> QED BY <1>1, <2>1, <2>2, <2>3 DEF CpuInv, BlocksNone, Kept, SameLists, StaysLocked
<1> QED BY <1>3, <1>4, <1>5, <1>6, <1>7, <1>8 DEF CpuStep

\* the rt_schedule at the end of a service keeps the invariant
LEMMA ThreadScheduleInv ==
    ASSUME CpuInv, NEW t \in Thread, NEW from, NEW to, ThreadSchedule(t, from, to)
    PROVE  CpuInv' /\ BlocksNone(k', k) /\ k'.lock = k.lock /\ StaysLocked(k', k)
<1>1. k' = rt_schedule(k) /\ isr' = isr
  BY DEF ThreadSchedule
<1> QED BY <1>1, ScheduledStep DEF CpuInv, StaysLocked, SameCpu

\* a thread in application code is the current thread, and RUNNING unless locked
LEMMA CallerProps ==
    ASSUME CpuInv, NEW t \in Thread, Running(t)
    PROVE  /\ k.cur = t /\ k.exec = t /\ k.sw = None
           /\ k.stat[t] \in {"RUNNING", "SUSPEND"}
           /\ k.lock = 0 /\ pc[t] \notin BlockPc => k.stat[t] = "RUNNING"
  BY DEF CpuInv, KInv, SwitchAgrees, CurOnlyRunning, Running

\* q is reached from r by a step of thread t that wakes threads or suspends t,
\* and puts nobody on a wait list
NoNewWaiter(q, r) == \A u \in Thread, o \in Obj : InWait(q, u, o) => InWait(r, u, o)

\* a step that blocks nobody puts nobody on a wait list
LEMMA BlocksNoneIsNoNewWaiter ==
    ASSUME NEW r, NEW q, BlocksNone(q, r)
    PROVE  NoNewWaiter(q, r) /\ \A t : BlocksOnly(q, r, t)
  BY DEF BlocksNone, BlocksOnly, NoNewWaiter, Kept, Awake

\* the section of rt_thread_sleep suspends its caller, which has rt_schedule to call next
LEMMA SleepProps ==
    ASSUME CpuInv, NEW t \in Thread, Running(t), t # Idle, NEW d \in Nat,
           SleepSection(t, d), isr' = isr, NEW P, pc \in [Thread -> P]
    PROVE  /\ CpuInv' /\ BlocksOnly(k', k, t) /\ NoNewWaiter(k', k)
           /\ k'.lock = k.lock /\ SameCpu(k', k)
<1> DEFINE a == [k EXCEPT !.err[t] = "EOK"]
           b == rt_thread_suspend(a, t)
<1>1. /\ KInv(k) /\ \A u \in Thread : k.stat[u] # "CLOSE"
      /\ k.cur = t /\ k.stat[t] \in {"RUNNING", "SUSPEND"} /\ k \in KernelState
  BY CallerProps DEF CpuInv, KInv, WellFormed
<1>2. k' = rt_timer_start(b, t, d) /\ pc' = [pc EXCEPT ![t] = "sleep"]
  BY DEF SleepSection, Goto
<1>3. a \in KernelState /\ Agree(a, k) /\ a.lock = k.lock
  BY <1>1 DEF KernelState, Agree, Err
<1> HIDE DEF a
<1>4. KInv(a) /\ SameLists(a, k) /\ a.stat = k.stat /\ a.cur = t /\ SameCpu(a, k)
  BY <1>1, <1>3, AgreeProps DEF Agree, SameCpu
<1>5. /\ KInv(b) /\ b.lock = k.lock /\ SameCpu(b, k)
      /\ \A u \in Thread, o \in Obj : InWait(b, u, o) <=> InWait(k, u, o)
      /\ \A u \in Thread : b.stat[u] = IF u = t THEN "SUSPEND" ELSE k.stat[u]
  <2>1. CASE k.stat[t] = "RUNNING"
    <3>1. Suspended(b, a, t)
      BY <1>4, <2>1, SuspendProps
    <3> QED BY <1>3, <1>4, <3>1 DEF Suspended, SameCore, SameCpu, SameLists
  <2>2. CASE k.stat[t] = "SUSPEND"
    <3>1. b = a
      BY <1>4, <2>2 DEF rt_thread_suspend, CanSuspend
    <3> QED BY <1>3, <1>4, <2>2, <3>1 DEF SameLists
  <2> QED BY <1>1, <2>1, <2>2
<1> HIDE DEF b
<1>6. KInv(k') /\ SameButTimers(k', b) /\ SameLists(k', b)
  BY <1>2, <1>5, ArmProps
<1>7. /\ KInv(k') /\ k'.lock = k.lock /\ SameCpu(k', k) /\ k'.cur = t
      /\ \A u \in Thread, o \in Obj : InWait(k', u, o) <=> InWait(k, u, o)
      /\ \A u \in Thread : k'.stat[u] = IF u = t THEN "SUSPEND" ELSE k.stat[u]
  BY <1>1, <1>5, <1>6 DEF SameButTimers, SameLists, SameCpu
<1>8. pc'[t] \in BlockPc
  BY <1>2 DEF BlockPc
<1>9. k'.lock > 0 => k'.sw = None
  BY <1>7, CallerProps DEF SameCpu
<1> QED BY <1>1, <1>7, <1>8, <1>9 DEF CpuInv, BlocksOnly, Kept, NoNewWaiter

\* a call of rt_thread_startup, rt_enter_critical, rt_exit_critical, rt_thread_yield or
\* rt_thread_sleep keeps the invariant and blocks at most its caller
LEMMA CpuCallInv ==
    ASSUME CpuInv, NEW t \in Thread, CpuCall(t), NEW P, pc \in [Thread -> P]
    PROVE  /\ CpuInv' /\ BlocksOnly(k', k, t) /\ NoNewWaiter(k', k)
           /\ StaysLocked(k', k) /\ (k.lock = 0 /\ k'.lock > 0 => k'.cur = t)
           /\ \E l \in CpuPc : pc' = [pc EXCEPT ![t] = l]
<1>1. /\ KInv(k) /\ \A u \in Thread : k.stat[u] # "CLOSE" /\ isr \in Seq(Frame)
      /\ k \in KernelState /\ k.lock \in Nat
  BY DEF CpuInv, KInv, WellFormed, KernelState
<1>2. Running(t) /\ pc[t] = "run" /\ App[t] # {} /\ isr' = isr
  BY DEF CpuCall, Startup, rt_enter_critical, rt_exit_critical, rt_thread_yield,
         rt_thread_sleep, Calls, At
<1>3. t # Idle
  BY <1>2, AppAssumption
<1>4. k.cur = t /\ k.sw = None /\ (k.lock = 0 => k.stat[t] = "RUNNING")
  BY <1>2, CallerProps DEF BlockPc
<1>5. pc = [pc EXCEPT ![t] = "run"] /\ \A l : [pc EXCEPT ![t] = l][t] = l
  BY <1>2
<1> DEFINE Goal == /\ CpuInv' /\ BlocksOnly(k', k, t) /\ NoNewWaiter(k', k)
                   /\ StaysLocked(k', k) /\ (k.lock = 0 /\ k'.lock > 0 => k'.cur = t)
                   /\ \E l \in CpuPc : pc' = [pc EXCEPT ![t] = l]
<1>6. ASSUME NEW u \in Thread, Startup(t, u) PROVE Goal
  <2> DEFINE f == [k.stat EXCEPT ![u] = "SUSPEND"]
             y == k.yield \ {u}
             a == [k EXCEPT !.stat = f, !.yield = y]
  <2>1. k.stat[u] = "INIT" /\ k' = rt_thread_resume(a, u) /\ pc' = [pc EXCEPT ![t] = "sched"]
    BY <1>1, <1>6 DEF Startup, Goto, KernelState
  <2> HIDE DEF a
  <2>2. /\ KInv(a) /\ SameCpu(a, k) /\ a.lock = k.lock /\ SameLists(a, k) /\ u # k.cur
        /\ \A v \in Thread : a.stat[v] = IF v = u THEN "SUSPEND" ELSE k.stat[v]
    <3>1. f \in [Thread -> Stat] /\ y \subseteq Thread
      BY <1>1 DEF KernelState, Stat
    <3>2. \A v \in Thread : f[v] = IF v = u THEN "SUSPEND" ELSE k.stat[v]
      BY <1>1 DEF KernelState
    <3> HIDE DEF f, y
    <3>3. /\ a \in KernelState /\ a.stat = f /\ SameCore(a, k)
          /\ a.ready = k.ready /\ a.group = k.group
          /\ a.wait = k.wait /\ a.defunct = k.defunct /\ a.timers = k.timers
      BY <1>1, <3>1 DEF a, KernelState, SameCore
    <3>4. \A v \in Thread : a.stat[v] = IF v = u THEN "SUSPEND" ELSE k.stat[v]
      BY ONLY <3>2, <3>3
    <3>5. KInv(k) /\ k.stat[u] = "INIT"
      BY <1>1, <2>1
    <3> HIDE DEF Goal
    <3>6. /\ KInv(a) /\ a.lock = k.lock /\ SameLists(a, k) /\ u # k.cur
      BY ONLY ThreadAssumption, u \in Thread, <3>3, <3>4, <3>5, StartupProps DEF SameCore
    <3>7. SameCpu(a, k)
      BY <3>3 DEF SameCore, SameCpu
    <3> QED BY <3>4, <3>6, <3>7
  <2>3. Woken(k', a, u)
    BY <2>1, <2>2, ResumeProps
  <2>4. KInv(k') /\ SameCpu(k', k) /\ k'.cur = t /\ \A v \in Thread : k'.stat[v] # "CLOSE"
    BY <1>1, <1>4, <2>2, <2>3, WokenStep DEF SameCpu
  <2>5. pc'[k'.cur] \in BlockPc
    BY <1>5, <2>1, <2>4 DEF BlockPc
  <2>6. BlocksNone(k', k)
    BY <2>2, <2>3 DEF Woken, SameLists, BlocksNone, Kept, Awake
  <2>7. CpuInv'
    BY <1>1, <1>2, <1>4, <2>4, <2>5 DEF CpuInv, SameCpu
  <2> QED BY <2>1, <2>4, <2>6, <2>7, BlocksNoneIsNoNewWaiter DEF CpuPc, StaysLocked
<1>7. ASSUME rt_enter_critical(t) PROVE Goal
  <2> DEFINE n == k.lock + 1
  <2>1. k' = [k EXCEPT !.lock = n] /\ pc' = pc
    BY <1>7 DEF rt_enter_critical
  <2>2. n \in Nat /\ n # 0
    BY <1>1
  <2> HIDE DEF n
  <2>5. k' \in KernelState /\ Agree(k', k) /\ k'.lock = n
    BY <1>1, <2>1, <2>2 DEF KernelState, Agree
  <2>3. KInv(k') /\ (\A v \in Thread : k'.stat[v] # "CLOSE") /\ BlocksNone(k', k)
    BY <1>1, <2>5, AgreeStep
  <2>4. k'.lock # 0
    BY <2>2, <2>5
  <2>6. SameCpu(k', k)
    BY <2>5 DEF Agree, SameCpu
  <2> QED BY <1>1, <1>2, <1>4, <1>5, <2>1, <2>3, <2>4, <2>6, BlocksNoneIsNoNewWaiter
         DEF CpuInv, CpuPc, StaysLocked, SameCpu
<1>8. ASSUME rt_exit_critical(t) PROVE Goal
  <2> DEFINE n == IF k.lock > 0 THEN k.lock - 1 ELSE 0
             l == IF k.lock > 1 THEN "run" ELSE "sched"
  <2>1. k' = [k EXCEPT !.lock = n] /\ pc' = [pc EXCEPT ![t] = l]
    BY <1>8 DEF rt_exit_critical, Goto
  <2>2. n \in Nat /\ (n = 0 => l = "sched") /\ l \in CpuPc
    BY <1>1 DEF CpuPc
  <2> HIDE DEF n, l
  <2>3. k' \in KernelState /\ Agree(k', k) /\ k'.lock = n
    BY <1>1, <2>1, <2>2 DEF KernelState, Agree
  <2>4. KInv(k') /\ (\A v \in Thread : k'.stat[v] # "CLOSE") /\ BlocksNone(k', k)
        /\ SameCpu(k', k) /\ k'.cur = t
    BY <1>1, <1>4, <2>3, AgreeStep DEF SameCpu
  <2>5. n = 0 => pc'[k'.cur] \in BlockPc
    BY <1>5, <2>1, <2>2, <2>4 DEF BlockPc
  <2> QED BY <1>1, <1>2, <1>4, <2>1, <2>2, <2>3, <2>4, <2>5, BlocksNoneIsNoNewWaiter
         DEF CpuInv, StaysLocked, SameCpu
<1>9. ASSUME rt_thread_yield(t) PROVE Goal
  <2> DEFINE f == [k.slice EXCEPT ![t] = InitTick[t]]
             a == [k EXCEPT !.slice = f, !.yield = k.yield \cup {t}]
  <2>1. k' = rt_schedule(a) /\ pc' = pc
    BY <1>1, <1>9 DEF rt_thread_yield, KernelState
  <2>2. f \in [Thread -> Nat \ {0}] /\ k.yield \cup {t} \subseteq Thread
    BY <1>1, ThreadAssumption DEF KernelState
  <2> HIDE DEF f
  <2>3. a \in KernelState /\ Agree(a, k) /\ a.lock = k.lock
    BY <1>1, <2>2 DEF KernelState, Agree
  <2> HIDE DEF a
  <2>4. KInv(a) /\ (\A v \in Thread : a.stat[v] # "CLOSE") /\ BlocksNone(a, k)
        /\ SameCpu(a, k)
    BY <1>1, <2>3, AgreeStep
  <2>5. /\ KInv(k') /\ (\A v \in Thread : k'.stat[v] # "CLOSE") /\ BlocksNone(k', a)
        /\ k'.lock = a.lock /\ StaysLocked(k', a)
        /\ a.lock = 0 => k'.stat[k'.cur] = "RUNNING"
    BY <2>1, <2>4, ScheduledStep
  <2>6. BlocksNone(k', k)
    BY <2>4, <2>5 DEF BlocksNone, Kept, Awake
  <2>7. StaysLocked(k', k) /\ (k'.lock > 0 => k'.sw = None)
    BY <1>4, <2>3, <2>4, <2>5 DEF StaysLocked, SameCpu
  <2> QED BY <1>1, <1>2, <1>5, <2>1, <2>3, <2>5, <2>6, <2>7, BlocksNoneIsNoNewWaiter DEF CpuInv, CpuPc
<1>10. ASSUME NEW d \in Delays, rt_thread_sleep(t, d) PROVE Goal
  <2>1. SleepSection(t, d) /\ d \in Nat
    BY <1>10, DelayAssumption DEF rt_thread_sleep
  <2>2. /\ CpuInv' /\ BlocksOnly(k', k, t) /\ NoNewWaiter(k', k) /\ StaysLocked(k', k)
        /\ k'.lock = k.lock
    BY <1>2, <1>3, <2>1, SleepProps DEF StaysLocked
  <2> QED BY <2>1, <2>2 DEF SleepSection, Goto, CpuPc
<1> QED BY <1>6, <1>7, <1>8, <1>9, <1>10 DEF CpuCall

\* the steps that end these services keep the invariant
LEMMA CpuFinishInv ==
    ASSUME CpuInv, NEW t \in Thread, CpuFinish(t), NEW P, pc \in [Thread -> P]
    PROVE  /\ CpuInv' /\ BlocksNone(k', k)
           /\ k'.lock = k.lock /\ StaysLocked(k', k)
           /\ \E l \in CpuPc : pc' = [pc EXCEPT ![t] = l]
<1>1. CASE ThreadSchedule(t, "sched", "run") \/ ThreadSchedule(t, "sleep", "slept")
  <2>1. CpuInv' /\ BlocksNone(k', k) /\ k'.lock = k.lock /\ StaysLocked(k', k)
    BY <1>1, ThreadScheduleInv
  <2> QED BY <1>1, <2>1 DEF ThreadSchedule, Goto, CpuPc
<1>2. CASE SleepReturn(t)
  <2> DEFINE e == IF k.err[t] = "ETIMEOUT" THEN "EOK" ELSE k.err[t]
  <2>1. /\ KInv(k) /\ \A u \in Thread : k.stat[u] # "CLOSE" /\ isr \in Seq(Frame)
        /\ k \in KernelState
    BY DEF CpuInv, KInv, WellFormed
  <2>2. /\ k' = [k EXCEPT !.err[t] = e] /\ pc' = [pc EXCEPT ![t] = "run"] /\ isr' = isr
        /\ Running(t) /\ pc[t] = "slept"
    BY <1>2 DEF SleepReturn, Goto, At
  <2>3. e \in Err
    BY <2>1 DEF KernelState, Err
  <2> HIDE DEF e
  <2>4. k' \in KernelState /\ Agree(k', k) /\ k'.lock = k.lock
    BY <2>1, <2>2, <2>3 DEF KernelState, Agree
  <2>5. /\ KInv(k') /\ \A u \in Thread : k'.stat[u] # "CLOSE"
        /\ k'.stat[k'.cur] = k.stat[k.cur] /\ BlocksNone(k', k) /\ SameCpu(k', k)
    BY <2>1, <2>4, AgreeStep
  <2>6. k.sw = None /\ (k.lock = 0 => k.stat[k.cur] = "RUNNING")
    BY <2>2, CallerProps DEF BlockPc
  <2> QED BY <2>1, <2>2, <2>4, <2>5, <2>6 DEF CpuInv, CpuPc, StaysLocked, SameCpu
<1> QED BY <1>1, <1>2 DEF CpuFinish

\* the head of a wait list is a suspended thread
LEMMA WaitProps ==
    ASSUME KInv(k), NEW o \in Obj
    PROVE  /\ k.wait[o] = <<>> <=> \A u \in Thread : ~InWait(k, u, o)
           /\ k.wait[o] # <<>> => /\ Head(k.wait[o]) \in Thread
                                  /\ InWait(k, Head(k.wait[o]), o)
                                  /\ k.stat[Head(k.wait[o])] = "SUSPEND"
<1>1. k.wait[o] \in Seq(Thread)
  BY DEF KInv, WellFormed, KernelState
<1>2. /\ Range(k.wait[o]) \subseteq Thread
      /\ k.wait[o] = <<>> <=> Range(k.wait[o]) = {}
      /\ k.wait[o] # <<>> => Head(k.wait[o]) \in Range(k.wait[o])
  BY <1>1, RangeProps
<1> QED BY <1>2 DEF InWait, KInv, Placed

\* a step of a thread that leaves the kernel state alone
LEMMA QuietCpu ==
    ASSUME CpuInv, NEW t \in Thread, Running(t), pc[t] \notin BlockPc, k' = k, isr' = isr
    PROVE  CpuInv' /\ BlocksNone(k', k) /\ NoNewWaiter(k', k)
<1>1. BlocksNone(k', k)
  BY DEF BlocksNone, Kept
<1>2. k.lock = 0 => k.stat[k.cur] = "RUNNING"
  BY CallerProps
<1> QED BY <1>1, <1>2, BlocksNoneIsNoNewWaiter DEF CpuInv

\* the state in which the scheduler hands the processor to the main thread
LEMMA StartProps == KInv(StartState) /\ \A t \in Thread : StartState.stat[t] # "CLOSE"
<1> DEFINE r == StartState
           b == PrioMax - 1
           f == [t \in Thread |-> IF t = Main THEN "RUNNING"
                                  ELSE IF t = Idle THEN "READY" ELSE "INIT"]
           q == [p \in Prio |-> IF p = b THEN <<Idle>> ELSE <<>>]
<1>1. /\ Idle \in Thread /\ Main \in Thread /\ Main # Idle /\ b \in Prio
      /\ BasePrio[Idle] = b /\ 0 \in Ticks
  BY ThreadAssumption, MainAssumption, TickAssumption DEF Prio, Ticks
<1>2. /\ r.cur = Main /\ r.exec = Main /\ r.sw = None /\ r.stat = f /\ r.prio = BasePrio
      /\ r.ready = q /\ r.group = {b} /\ r.wait = [o \in Obj |-> <<>>]
      /\ r.defunct = <<>> /\ r.timers = <<>>
  BY <1>1 DEF StartState
<1>3. r \in KernelState
  <2>1. f \in [Thread -> Stat] /\ q \in [Prio -> Seq(Thread)]
    BY <1>1 DEF Stat
  <2>2. [t \in Thread |-> "EOK"] \in [Thread -> Err] /\ [t \in Thread |-> 0] \in [Thread -> Ticks]
    BY <1>1 DEF Err
  <2>3. [o \in Obj |-> <<>>] \in [Obj -> Seq(Thread)]
    OBVIOUS
  <2>4. BasePrio \in [Thread -> Prio] /\ InitTick \in [Thread -> Nat \ {0}]
    BY ThreadAssumption
  <2>5. r = [cur |-> Main, exec |-> Main, sw |-> None, stat |-> f, yield |-> {},
             prio |-> BasePrio, slice |-> InitTick, err |-> [t \in Thread |-> "EOK"],
             ready |-> q, group |-> {b}, wait |-> [o \in Obj |-> <<>>], defunct |-> <<>>,
             timers |-> <<>>, tmo |-> [t \in Thread |-> 0], tick |-> 0, lock |-> 0]
    BY <1>1 DEF StartState
  <2> HIDE DEF f, q, r, b
  <2> QED BY <1>1, <2>1, <2>2, <2>3, <2>4, <2>5 DEF KernelState
<1> HIDE DEF r
<1>4. /\ \A u, p : p \in Prio => (InReady(r, u, p) <=> (p = b /\ u = Idle))
      /\ \A u, o : o \in Obj => ~InWait(r, u, o)
      /\ \A u : ~InDefunct(r, u) /\ ~InTimers(r, u)
  BY <1>2 DEF InReady, InWait, InDefunct, InTimers, Range
<1>5. WellFormed(r)
  BY <1>2, <1>3 DEF WellFormed, IsInjective
<1>6. r.stat[Main] = "RUNNING" /\ r.stat[Idle] = "READY"
      /\ \A u \in Thread \ {Main, Idle} : r.stat[u] = "INIT"
  BY <1>1, <1>2
<1> HIDE DEF f, q, b
<1>7. Placed(r)
  BY <1>1, <1>2, <1>4, <1>6 DEF Placed
<1>8. Queued(r) /\ Grouped(r)
  BY <1>1, <1>2, <1>4, <1>6 DEF Queued, Grouped
<1>9. SwitchAgrees(r) /\ CurOnlyRunning(r)
  BY <1>2, <1>6 DEF SwitchAgrees, CurOnlyRunning
<1>10. IdleIsRunnable(r)
  BY <1>1, <1>2, <1>6 DEF IdleIsRunnable, b
<1> QED BY <1>5, <1>6, <1>7, <1>8, <1>9, <1>10 DEF KInv, r

\* the invariant holds at the start
LEMMA CpuInitInv == CpuInit => CpuInv
<1> SUFFICES ASSUME CpuInit PROVE CpuInv
  OBVIOUS
<1>1. KInv(k) /\ \A t \in Thread : k.stat[t] # "CLOSE"
  BY StartProps DEF CpuInit
<1>2. k.stat[k.cur] = "RUNNING" /\ k.sw = None
  BY MainAssumption DEF CpuInit, StartState
<1> QED BY <1>1, <1>2 DEF CpuInv, CpuInit

-----------------------------------------------------------------------------
(* What the same steps do to the result of a wait, which is thread->error, and to the *)
(* timer that limits it.                                                              *)

\* u waits as before, with the error and the timer it had
SameGrant(q, r, u) ==
    /\ q.err[u] = r.err[u] /\ \A o \in Obj : InWait(q, u, o) <=> InWait(r, u, o)
    /\ SameTimer(q, r, u)
\* the wait of u ends with an error
Failed(q, r, u) ==
    r.stat[u] = "SUSPEND" /\ q.err[u] # "EOK" /\ \A o \in Obj : ~InWait(q, u, o)
NotGranted(q, r, u) == SameGrant(q, r, u) \/ Failed(q, r, u)

\* the priorities are the same, and the waiters of an object are the same or fewer, in the
\* same order
Thins(q, r) ==
    /\ q.prio = r.prio
    /\ \A o \in Obj : q.wait[o] = r.wait[o] \/ \E t : q.wait[o] = ListDel(r.wait[o], t)

\* equal fields are as good as no step
LEMMA ThinsProps ==
    ASSUME NEW r, NEW q, q.prio = r.prio, q.wait = r.wait
    PROVE  Thins(q, r)
  BY DEF Thins

\* equal fields are as good as no step
LEMMA SameGrantProps ==
    ASSUME NEW r, NEW q, q.err = r.err, q.wait = r.wait, q.timers = r.timers, q.tmo = r.tmo
    PROVE  \A u : SameGrant(q, r, u)
  BY DEF SameGrant, InWait, SameTimer, InTimers

\* t is taken out of the wait list it is in
Unlinked(q, r, t) == q.wait = [o \in Obj |-> ListDel(r.wait[o], t)]

\* a thread taken out of its list leaves the others where they are
LEMMA UnlinkedProps ==
    ASSUME NEW r, KInv(r), NEW t, NEW q, Unlinked(q, r, t)
    PROVE  \A u, o : o \in Obj => (InWait(q, u, o) <=> (InWait(r, u, o) /\ u # t))
<1> SUFFICES ASSUME NEW u, NEW o \in Obj
             PROVE  InWait(q, u, o) <=> (InWait(r, u, o) /\ u # t)
  OBVIOUS
<1>1. r.wait[o] \in Seq(Thread) /\ IsInjective(r.wait[o])
  BY DEF KInv, WellFormed, KernelState
<1>2. Range(ListDel(r.wait[o], t)) = Range(r.wait[o]) \ {t}
  BY <1>1, ListDelProps
<1> QED BY <1>2 DEF InWait, Unlinked

\* no handler grants anything to a waiting thread: a timeout ends a wait with an error
LEMMA CpuStepErr ==
    ASSUME CpuInv, NEW M, CpuStep(M)
    PROVE  /\ \A u \in Thread : NotGranted(k', k, u)
           /\ Thins(k', k)
           /\ k'.tick = k.tick \/ k'.tick = (k.tick + 1) % TickMod
<1>1. KInv(k) /\ k \in KernelState /\ HasErr(k) /\ k.err \in [Thread -> Err]
  BY KernelHasErr DEF CpuInv, KInv, WellFormed
<1>2. ASSUME k'.err = k.err, k'.prio = k.prio, k'.wait = k.wait,
             k'.timers = k.timers, k'.tmo = k.tmo
      PROVE  Thins(k', k) /\ \A u \in Thread : NotGranted(k', k, u)
  <2>1. Thins(k', k)
    BY <1>2, ThinsProps
  <2>2. \A u : SameGrant(k', k, u)
    BY <1>2, SameGrantProps
  <2> QED BY <2>1, <2>2 DEF NotGranted
<1>3. CASE TickEnter(M)
  <2>1. k' = TickSection(k)
    BY <1>3 DEF TickEnter
  <2> DEFINE a == [k EXCEPT !.tick = (@ + 1) % TickMod]
  <2>2. /\ a.err = k.err /\ a.prio = k.prio /\ a.wait = k.wait
        /\ a.timers = k.timers /\ a.tmo = k.tmo /\ a.tick = (k.tick + 1) % TickMod /\ HasErr(a)
    BY <1>1 DEF HasErr
  <2>3. \/ k' = [a EXCEPT !.slice[k.cur] = InitTick[k.cur], !.yield = @ \cup {k.cur}]
        \/ k' = [a EXCEPT !.slice[k.cur] = @ - 1]
    BY <2>1 DEF TickSection
  <2> HIDE DEF a
  <2>4. k'.err = a.err /\ k'.prio = a.prio /\ k'.wait = a.wait /\ SameClock(k', a)
    BY <2>2, <2>3 DEF HasErr, SameClock
  <2> QED BY <1>2, <2>2, <2>4 DEF SameClock
<1>4. CASE TickSchedule \/ DevSchedule
  <2>1. k' = rt_schedule(k)
    BY <1>4 DEF TickSchedule, DevSchedule
  <2> QED BY <1>1, <1>2, <2>1, ScheduleErr DEF SameClock
<1>5. CASE TimerExpire
  <2> DEFINE t == Head(k.timers)
  <2>1. k' = thread_timeout(k, t) /\ TimerDue(k)
    BY <1>5 DEF TimerExpire
  <2>2. t \in Thread /\ k.stat[t] = "SUSPEND"
    BY <1>1, <2>1, DueIsSuspended
  <2> HIDE DEF t
  <2>3. /\ k'.err = [k.err EXCEPT ![t] = "ETIMEOUT"] /\ k'.prio = k.prio
        /\ Unlinked(k', k, t) /\ OtherTimers(k', k, t)
    BY <1>1, <2>1, <2>2, TimeoutErr DEF Unlinked
  <2>4. \A u, o : o \in Obj => (InWait(k', u, o) <=> (InWait(k, u, o) /\ u # t))
    BY <1>1, <2>3, UnlinkedProps
  <2>5. \A u \in Thread : k'.err[u] = IF u = t THEN "ETIMEOUT" ELSE k.err[u]
    BY <1>1, <2>2, <2>3
  <2>6. Thins(k', k)
    BY <1>1, <2>3 DEF Thins, Unlinked, KernelState
  <2> QED BY <2>2, <2>3, <2>4, <2>5, <2>6 DEF NotGranted, SameGrant, Failed, OtherTimers
<1>6. CASE TickLeave \/ DevLeave \/ DevEnter(M)
  BY <1>2, <1>6 DEF TickLeave, DevLeave, DevEnter
<1>7. CASE PendSV_Handler
  <2>1. k'.err = k.err /\ k'.prio = k.prio /\ k'.wait = k.wait /\ SameClock(k', k)
    BY <1>1, <1>7 DEF PendSV_Handler, HasErr, SameClock
  <2> QED BY <1>2, <2>1 DEF SameClock
<1> QED BY <1>3, <1>4, <1>5, <1>6, <1>7 DEF CpuStep

\* a service of the kernel grants nothing to another thread
LEMMA CpuCallErr ==
    ASSUME CpuInv, NEW t \in Thread, CpuCall(t)
    PROVE  k'.tick = k.tick /\ Thins(k', k) /\ \A u \in Thread \ {t} : SameGrant(k', k, u)
<1>1. /\ KInv(k) /\ k \in KernelState /\ HasErr(k) /\ k.err \in [Thread -> Err]
      /\ k.wait \in [Obj -> Seq(Thread)]
  BY KernelHasErr DEF CpuInv, KInv, WellFormed
<1>2. Running(t) /\ pc[t] = "run"
  BY DEF CpuCall, Startup, rt_enter_critical, rt_exit_critical, rt_thread_yield,
         rt_thread_sleep, Calls, At
<1>3. k.cur = t /\ k.stat[t] \in {"RUNNING", "SUSPEND"}
  BY <1>2, CallerProps
<1> DEFINE Goal == /\ k'.tick = k.tick /\ Thins(k', k)
                   /\ \A u \in Thread \ {t} : SameGrant(k', k, u)
<1>4. ASSUME k'.err = k.err, k'.prio = k.prio, k'.wait = k.wait, SameClock(k', k) PROVE Goal
  BY <1>4, SameGrantProps, ThinsProps DEF SameClock
<1>5. ASSUME NEW u \in Thread, Startup(t, u) PROVE Goal
  <2> DEFINE a == [k EXCEPT !.stat[u] = "SUSPEND", !.yield = @ \ {u}]
  <2>1. k.stat[u] = "INIT" /\ k' = rt_thread_resume(a, u)
    BY <1>5 DEF Startup
  <2>2. /\ HasErr(a) /\ a.err = k.err /\ a.prio = k.prio /\ a.wait = k.wait
        /\ a.stat[u] = "SUSPEND" /\ SameClock(a, k)
    BY <1>1 DEF HasErr, KernelState, SameClock
  <2> HIDE DEF a
  <2> DEFINE b == TListRemove(a, u)
             c == rt_timer_stop(b, u)
  <2>3. k' = rt_schedule_insert_thread(c, u)
    BY <2>1, <2>2 DEF rt_thread_resume, ResumeSection
  <2>4. SameErr(b, a) /\ SameClock(b, a) /\ b.wait = [o \in Obj |-> ListDel(a.wait[o], u)]
    BY <2>2, TListErr
  <2> HIDE DEF b
  <2>5. SameErr(c, b) /\ SameClock(c, b) /\ c.wait = b.wait
    <3>1. ~InTimers(b, u)
      BY <1>1, <2>1, <2>2, <2>4 DEF KInv, Placed, SameClock, InTimers
    <3> QED BY <2>4, <3>1, TimerStopErr DEF SameErr
  <2> HIDE DEF c
  <2>6. SameErr(k', c) /\ SameClock(k', c) /\ k'.wait = c.wait
    BY <2>3, <2>5, InsertErr DEF SameErr
  <2>7. \A o \in Obj : ListDel(k.wait[o], u) = k.wait[o]
    BY <1>1, <2>1, ListDelNone DEF KInv, Placed, InWait
  <2>8. [o \in Obj |-> ListDel(k.wait[o], u)] = k.wait
    BY <1>1, <2>7
  <2>9. k'.err = k.err /\ k'.prio = k.prio /\ k'.wait = k.wait /\ SameClock(k', k)
    BY <2>2, <2>4, <2>5, <2>6, <2>8 DEF SameErr, SameClock
  <2> QED BY <1>4, <2>9
<1>6. CASE rt_enter_critical(t) \/ rt_exit_critical(t)
  <2>1. \E n : k' = [k EXCEPT !.lock = n]
    BY <1>6 DEF rt_enter_critical, rt_exit_critical
  <2>2. k'.err = k.err /\ k'.prio = k.prio /\ k'.wait = k.wait /\ SameClock(k', k)
    BY <1>1, <2>1 DEF KernelState, SameClock
  <2> QED BY <1>4, <2>2
<1>7. CASE rt_thread_yield(t)
  <2> DEFINE f == [k.slice EXCEPT ![t] = InitTick[t]]
             a == [k EXCEPT !.slice = f, !.yield = k.yield \cup {t}]
  <2>1. k' = rt_schedule(a)
    BY <1>1, <1>7 DEF rt_thread_yield, KernelState
  <2>2. f \in [Thread -> Nat \ {0}] /\ k.yield \cup {t} \subseteq Thread
    BY <1>1, ThreadAssumption DEF KernelState
  <2> HIDE DEF f
  <2>3. a \in KernelState /\ Agree(a, k) /\ a.lock = k.lock /\ a.err = k.err /\ SameClock(a, k)
    BY <1>1, <2>2 DEF KernelState, Agree, SameClock
  <2> HIDE DEF a
  <2>4. KInv(a) /\ \A v \in Thread : a.stat[v] # "CLOSE"
    BY <1>1, <2>3, AgreeStep DEF CpuInv
  <2>5. k'.err = a.err /\ k'.prio = a.prio /\ k'.wait = a.wait /\ SameClock(k', a)
    BY <2>1, <2>4, ScheduleErr
  <2> QED BY <1>4, <2>3, <2>5 DEF Agree, SameClock
<1>8. ASSUME NEW d \in Delays, rt_thread_sleep(t, d) PROVE Goal
  <2> DEFINE a == [k EXCEPT !.err[t] = "EOK"]
             b == rt_thread_suspend(a, t)
  <2>1. k' = rt_timer_start(b, t, d)
    BY <1>8 DEF rt_thread_sleep, SleepSection
  <2>2. /\ a \in KernelState /\ Agree(a, k) /\ HasErr(a) /\ a.lock = k.lock
        /\ a.err = [k.err EXCEPT ![t] = "EOK"] /\ a.prio = k.prio /\ a.wait = k.wait
        /\ SameClock(a, k)
    BY <1>1 DEF KernelState, Agree, Err, HasErr, SameClock
  <2> HIDE DEF a
  <2>3. KInv(a) /\ a.cur = t /\ a.stat[t] = k.stat[t]
    BY <1>1, <1>3, <2>2, AgreeProps DEF Agree
  <2>4. SameErr(b, a) /\ SameClock(b, a) /\ b.wait = a.wait
    <3>1. CASE k.stat[t] = "RUNNING"
      BY <2>3, <3>1, SuspendErr
    <3>2. CASE k.stat[t] = "SUSPEND"
      BY <2>2, <2>3, <3>2 DEF rt_thread_suspend, CanSuspend, SameErr, SameClock
    <3> QED BY <1>3, <3>1, <3>2
  <2> HIDE DEF b
  <2>5. SameErr(k', b) /\ k'.wait = b.wait /\ OtherTimers(k', k, t)
    <3>1. SameClock(b, k)
      BY <2>2, <2>4 DEF SameClock
    <3>2. ClockOK(b) /\ OtherTimers(b, k, t)
      BY <1>1, <3>1, KernelHasClock, SameClockProps
    <3>3. SameErr(k', b) /\ k'.wait = b.wait /\ OtherTimers(k', b, t)
      BY <2>1, <2>4, <3>2, TimerStartErr DEF SameErr
    <3> QED BY <3>2, <3>3 DEF OtherTimers, SameTimer
  <2>6. /\ k'.prio = k.prio /\ k'.wait = k.wait
        /\ \A u \in Thread \ {t} : k'.err[u] = k.err[u]
    BY <1>1, <2>2, <2>4, <2>5 DEF SameErr
  <2> QED BY <2>5, <2>6, ThinsProps DEF SameGrant, InWait, OtherTimers
<1> QED BY <1>5, <1>6, <1>7, <1>8 DEF CpuCall

\* nor do the steps that end one
LEMMA CpuFinishErr ==
    ASSUME CpuInv, NEW t \in Thread, CpuFinish(t) \/ \E l, m : ThreadSchedule(t, l, m)
    PROVE  k'.tick = k.tick /\ Thins(k', k) /\ \A u \in Thread \ {t} : SameGrant(k', k, u)
<1>1. KInv(k) /\ HasErr(k) /\ k.err \in [Thread -> Err]
  BY KernelHasErr DEF CpuInv, KInv, WellFormed
<1>2. CASE k' = rt_schedule(k)
  BY <1>1, <1>2, ScheduleErr, SameGrantProps, ThinsProps DEF SameClock
<1>3. CASE SleepReturn(t)
  <2>1. \E e : k' = [k EXCEPT !.err[t] = e]
    BY <1>3 DEF SleepReturn
  <2>2. /\ k'.wait = k.wait /\ k'.prio = k.prio /\ SameClock(k', k)
        /\ \A u \in Thread \ {t} : k'.err[u] = k.err[u]
    BY <1>1, <2>1 DEF HasErr, SameClock
  <2> QED BY <2>2, SameClockProps, ThinsProps DEF SameGrant, InWait, SameClock
<1> QED BY <1>2, <1>3 DEF CpuFinish, ThreadSchedule

\* a resume with an error ends the wait of the first waiter
LEMMA ResumeErrorErr ==
    ASSUME CpuInv, NEW o \in Obj, k.wait[o] # <<>>, k' = ResumeWithError(k, o)
    PROVE  k'.tick = k.tick /\ Thins(k', k) /\ \A u \in Thread : NotGranted(k', k, u)
<1> DEFINE h == Head(k.wait[o])
           f == [k.err EXCEPT ![h] = "ERROR"]
           a == [k EXCEPT !.err = f]
<1>1. KInv(k) /\ k \in KernelState /\ HasErr(k) /\ k.err \in [Thread -> Err]
  BY KernelHasErr DEF CpuInv, KInv, WellFormed
<1>2. h \in Thread /\ k.stat[h] = "SUSPEND"
  BY <1>1, WaitProps
<1> HIDE DEF h
<1>3. k' = rt_thread_resume(a, h)
  BY <1>1, <1>2 DEF ResumeWithError, h, KernelState
<1>4. f \in [Thread -> Err] /\ \A u \in Thread : f[u] = IF u = h THEN "ERROR" ELSE k.err[u]
  BY <1>1, <1>2 DEF Err
<1> HIDE DEF f
<1>5. a \in KernelState /\ Agree(a, k) /\ a.err = f /\ SameClock(a, k)
  BY <1>1, <1>4 DEF KernelState, Agree, SameClock
<1> HIDE DEF a
<1>6. KInv(a) /\ a.stat = k.stat /\ a.wait = k.wait /\ a.prio = k.prio
  BY <1>1, <1>5, AgreeStep DEF Agree, CpuInv
<1>7. k'.err = a.err /\ k'.prio = a.prio /\ Unlinked(k', a, h) /\ OtherTimers(k', a, h)
  BY <1>2, <1>3, <1>6, ResumeErr DEF Unlinked
<1>8. \A u, x : x \in Obj => (InWait(k', u, x) <=> (InWait(a, u, x) /\ u # h))
  BY <1>6, <1>7, UnlinkedProps
<1>9. \A u, x : InWait(a, u, x) <=> InWait(k, u, x)
  BY <1>6 DEF InWait
<1>10. OtherTimers(k', k, h)
  <2>1. OtherTimers(a, k, h)
    BY <1>5, SameClockProps
  <2> QED BY <1>7, <2>1 DEF OtherTimers, SameTimer
<1>11. Thins(k', k)
  BY <1>1, <1>6, <1>7 DEF Thins, Unlinked, KernelState
<1> QED BY <1>2, <1>4, <1>5, <1>7, <1>8, <1>9, <1>10, <1>11
        DEF NotGranted, SameGrant, Failed, OtherTimers

\* a resume grants what it has to give to the first waiter, and to no other thread
LEMMA ResumeGrants ==
    ASSUME NEW r, KInv(r), NEW h \in Thread, r.stat[h] = "SUSPEND",
           NEW q, q = rt_thread_resume(r, h)
    PROVE  /\ q.err = r.err /\ q.tick = r.tick /\ Thins(q, r)
           /\ \A u \in Thread \ {h} : SameGrant(q, r, u)
           /\ \A x \in Obj : ~InWait(q, h, x)
<1>1. q.err = r.err /\ q.prio = r.prio /\ Unlinked(q, r, h) /\ OtherTimers(q, r, h)
  BY ResumeErr DEF Unlinked
<1>2. \A u, x : x \in Obj => (InWait(q, u, x) <=> (InWait(r, u, x) /\ u # h))
  BY <1>1, UnlinkedProps
<1>3. Thins(q, r)
  BY <1>1 DEF Thins, Unlinked, KInv, WellFormed, KernelState
<1> QED BY <1>1, <1>2, <1>3 DEF SameGrant, OtherTimers

\* a thread that blocks waits with error RT_EOK
LEMMA BlockedErr ==
    ASSUME NEW r, KInv(r), r.stat[r.cur] = "RUNNING", NEW o \in Obj, NEW flag, NEW d,
           NEW q, q = ipc_list_suspend(r, o, r.cur, flag, d), Blocked(q, r, r.cur, o)
    PROVE  /\ q.err[r.cur] = "EOK" /\ TimedFor(q, r, r.cur, d)
           /\ \A u \in Thread \ {r.cur} : SameGrant(q, r, u)
<1>1. r.err \in [Thread -> Err] /\ r.cur \in Thread
  BY DEF KInv, WellFormed, KernelState
<1>2. SetErr(q, r, r.cur, "EOK") /\ TimedFor(q, r, r.cur, d)
  BY ListSuspendErr
<1>3. \A u \in Thread, x \in Obj : InWait(q, u, x) <=> (InWait(r, u, x) \/ (u = r.cur /\ x = o))
  BY DEF Blocked
<1> QED BY <1>1, <1>2, <1>3 DEF SameGrant, SetErr, TimedFor, OtherTimers

-----------------------------------------------------------------------------
(* Preemption: what the same steps leave on the processor. *)

\* the current thread and what its urgency is compared with are as before
SameRun(q, r) == q.stat = r.stat /\ q.cur = r.cur /\ q.prio = r.prio

\* a handler that makes threads ready reschedules in the same section, so the current
\* thread is one that no ready thread precedes, unless the scheduler is locked
LEMMA CpuStepHighest ==
    ASSUME CpuInv, NEW M, CpuStep(M)
    PROVE  k'.lock > 0 \/ Highest(k') \/ SameRun(k', k)
<1>1. /\ KInv(k) /\ k \in KernelState /\ k.lock \in Nat /\ k'.lock = k.lock
      /\ \A u \in Thread : k.stat[u] # "CLOSE"
  BY CpuStepInv DEF CpuInv, KInv, WellFormed, KernelState
<1>2. CASE TickEnter(M)
  BY <1>1, <1>2, TickSectionProps DEF TickEnter, Agree, SameRun
<1>3. CASE TickSchedule \/ DevSchedule
  <2>1. k' = rt_schedule(k)
    BY <1>3 DEF TickSchedule, DevSchedule
  <2> QED BY <1>1, <2>1, ScheduleHighest
<1>4. CASE TimerExpire
  <2> DEFINE t == Head(k.timers)
  <2>1. k' = thread_timeout(k, t) /\ TimerDue(k)
    BY <1>4 DEF TimerExpire
  <2>2. t \in Thread /\ k.stat[t] = "SUSPEND"
    BY <1>1, <2>1, DueIsSuspended
  <2> HIDE DEF t
  <2>3. PICK w : Woken(w, k, t) /\ k' = rt_schedule(w)
    BY <1>1, <2>1, <2>2, TimeoutProps
  <2>4. KInv(w) /\ w.lock = k.lock
    BY <1>1, <2>2, <2>3, WokenStep
  <2> QED BY <1>1, <2>3, <2>4, ScheduleHighest
<1>5. CASE TickLeave \/ DevLeave \/ DevEnter(M)
  BY <1>5 DEF TickLeave, DevLeave, DevEnter, SameRun
<1>6. CASE PendSV_Handler
  BY <1>1, <1>6 DEF PendSV_Handler, SameRun, KernelState
<1> QED BY <1>2, <1>3, <1>4, <1>5, <1>6 DEF CpuStep

\* the points of a thread at which rt_schedule is still to come
Unsettled == {"sched", "sleep", "take"}

\* a service that makes threads ready, or suspends its caller, has rt_schedule behind it
LEMMA CpuCallHighest ==
    ASSUME CpuInv, NEW t \in Thread, CpuCall(t), NEW P, pc \in [Thread -> P]
    PROVE  \/ k'.lock > 0
           \/ Highest(k')
           \/ k'.cur = t /\ pc'[t] \in Unsettled
<1>1. /\ KInv(k) /\ k \in KernelState /\ k.lock \in Nat /\ CpuInv'
      /\ \A u \in Thread : k.stat[u] # "CLOSE"
  BY CpuCallInv DEF CpuInv, KInv, WellFormed, KernelState
<1>2. Running(t) /\ pc[t] = "run" /\ isr' = isr
  BY DEF CpuCall, Startup, rt_enter_critical, rt_exit_critical, rt_thread_yield,
         rt_thread_sleep, Calls, At
<1>3. k.cur = t /\ k.sw = None
  BY <1>2, CallerProps
<1>4. CASE rt_enter_critical(t)
  BY <1>1, <1>4 DEF rt_enter_critical, KernelState
<1>5. CASE rt_exit_critical(t)
  <2>1. /\ k'.cur = k.cur /\ k'.lock = IF k.lock > 0 THEN k.lock - 1 ELSE 0
        /\ pc'[t] = IF k.lock > 1 THEN "run" ELSE "sched"
    BY <1>1, <1>5 DEF rt_exit_critical, Goto, KernelState
  <2> QED BY <1>1, <1>3, <2>1 DEF Unsettled
<1>6. CASE rt_thread_yield(t)
  <2> DEFINE f == [k.slice EXCEPT ![t] = InitTick[t]]
             a == [k EXCEPT !.slice = f, !.yield = k.yield \cup {t}]
  <2>1. k' = rt_schedule(a)
    BY <1>1, <1>6 DEF rt_thread_yield, KernelState
  <2>2. f \in [Thread -> Nat \ {0}] /\ k.yield \cup {t} \subseteq Thread
    BY <1>1, ThreadAssumption DEF KernelState
  <2> HIDE DEF f
  <2>3. a \in KernelState /\ Agree(a, k) /\ a.lock = k.lock
    BY <1>1, <2>2 DEF KernelState, Agree
  <2> HIDE DEF a
  <2>4. KInv(a) /\ \A v \in Thread : a.stat[v] # "CLOSE"
    BY <1>1, <2>3, AgreeStep
  <2>5. k'.lock = a.lock
    BY <2>1, <2>4, ScheduledStep
  <2> QED BY <1>1, <2>1, <2>3, <2>4, <2>5, ScheduleHighest
<1>7. ASSUME NEW d \in Delays, rt_thread_sleep(t, d) PROVE k'.cur = t /\ pc'[t] \in Unsettled
  <2>1. SleepSection(t, d) /\ d \in Nat /\ t # Idle
    BY <1>7, DelayAssumption, AppAssumption DEF rt_thread_sleep, Calls
  <2>2. SameCpu(k', k)
    BY <1>2, <2>1, SleepProps
  <2> QED BY <1>3, <2>1, <2>2 DEF SleepSection, Goto, SameCpu, Unsettled
<1>8. ASSUME NEW u \in Thread, Startup(t, u) PROVE k'.cur = t /\ pc'[t] \in Unsettled
  <2>1. pc'[t] = "sched"
    BY <1>8 DEF Startup, Goto
  <2>2. k'.cur = k.cur
    BY <1>1, <1>8 DEF Startup, rt_thread_resume, ResumeSection, rt_schedule_insert_thread,
                      rt_timer_stop, timer_remove, TListRemove, KernelState
  <2> QED BY <1>3, <2>1, <2>2 DEF Unsettled
<1> QED BY <1>4, <1>5, <1>6, <1>7, <1>8 DEF CpuCall

\* and the rt_schedule of a thread leaves nothing more urgent behind
LEMMA FinishHighest ==
    ASSUME CpuInv, NEW t \in Thread, CpuFinish(t) \/ \E l, m : ThreadSchedule(t, l, m)
    PROVE  \/ k'.lock > 0
           \/ Highest(k')
           \/ pc[t] = "slept" /\ k.cur = t /\ SameRun(k', k) /\ k'.lock = k.lock
<1>1. KInv(k) /\ k \in KernelState /\ k.lock \in Nat
  BY DEF CpuInv, KInv, WellFormed, KernelState
<1>2. CASE k' = rt_schedule(k)
  <2>1. k'.lock = k.lock
    BY <1>1, <1>2, ScheduledStep DEF CpuInv
  <2> QED BY <1>1, <1>2, <2>1, ScheduleHighest
<1>3. CASE SleepReturn(t)
  <2>1. Running(t) /\ pc[t] = "slept" /\ \E e : k' = [k EXCEPT !.err[t] = e]
    BY <1>3 DEF SleepReturn, At
  <2> QED BY <1>1, <2>1, CallerProps DEF SameRun, KernelState
<1> QED BY <1>2, <1>3 DEF CpuFinish, ThreadSchedule
=============================================================================
