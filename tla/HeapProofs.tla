----------------------------- MODULE HeapProofs -----------------------------
(***************************************************************************)
(* The properties of module Heap for every heap size, alignment, header    *)
(* and set of requests.  The lemmas are about a heap h, not about the      *)
(* variable: what a split, a combination, an allocation and a free do to   *)
(* the items, and that each keeps HInv or, in the middle of a call, all    *)
(* of it but the part that the next operation restores.                    *)
(***************************************************************************)
EXTENDS Heap, TLAPS, WellFoundedInduction

\* the minimum of a set of naturals that is not empty is its least member
LEMMA LeastProps ==
    ASSUME NEW S, S \subseteq Nat, S # {}
    PROVE  Min(S) \in S /\ \A y \in S : Min(S) <= y
<1> DEFINE R == {ss \in Nat \X Nat : ss[1] < ss[2]}
<1>1. OpToRel(<, Nat) = R
  BY Zenon DEF OpToRel
<1>2. PICK x \in S : \A y \in S : ~ (<<y, x>> \in R)
  BY <1>1, NatLessThanWellFounded, WFMin
<1>3. ASSUME NEW y \in S, y < x PROVE <<y, x>> \in R
  BY <1>3
<1> HIDE DEF R
<1>4. \A y \in S : ~(y < x)
  BY <1>2, <1>3
<1>5. \A y \in S : x <= y
  BY <1>4
<1> QED BY <1>5 DEF Min

\* rounding up gives a multiple of the alignment that is no smaller
LEMMA AlignProps ==
    ASSUME NEW n \in Nat
    PROVE  RT_ALIGN(n) \in Nat /\ RT_ALIGN(n) >= n /\ RT_ALIGN(n) % Align = 0
<1>1. Align \in Nat \ {0}
  BY HeapAssumption
<1> DEFINE q == (n + Align - 1) \div Align
<1>2. q \in Nat /\ q * Align >= n
  BY <1>1
<1>3. (q * Align) % Align = 0
  BY <1>1, <1>2
<1>4. RT_ALIGN(n) = q * Align
  BY DEF RT_ALIGN
<1> QED BY <1>1, <1>2, <1>3, <1>4

LEMMA AlignedSum ==
    ASSUME NEW m \in Nat, NEW n \in Nat, m % Align = 0, n % Align = 0
    PROVE  (m + n) % Align = 0
<1>1. Align \in Nat \ {0}
  BY HeapAssumption
<1>2. m = Align * (m \div Align) /\ n = Align * (n \div Align)
  BY <1>1
<1>3. m \div Align \in Nat /\ n \div Align \in Nat
  BY <1>1
<1>4. ASSUME NEW i \in Nat, NEW j \in Nat
      PROVE  (Align * i + Align * j) % Align = 0
  <2>1. Align * i + Align * j = Align * (i + j)
    BY <1>1
  <2>2. (Align * (i + j)) % Align = 0
    BY <1>1
  <2> QED BY <2>1, <2>2
<1>5. (Align * (m \div Align) + Align * (n \div Align)) % Align = 0
  BY <1>3, <1>4
<1> QED BY <1>2, <1>5

LEMMA DataSizeProps ==
    ASSUME NEW n \in Request
    PROVE  DataSize(n) \in Nat \ {0} /\ DataSize(n) >= n /\ DataSize(n) % Align = 0
<1>1. n \in Nat \ {0} /\ MinSize \in Nat
  BY HeapAssumption
<1>2. /\ RT_ALIGN(n) \in Nat /\ RT_ALIGN(n) >= n /\ RT_ALIGN(n) % Align = 0
      /\ MinAligned \in Nat /\ MinAligned % Align = 0
  BY <1>1, AlignProps DEF MinAligned
<1> DEFINE a == RT_ALIGN(n)
           b == MinAligned
<1> HIDE DEF a, b
<1>3. a \in Nat /\ b \in Nat /\ DataSize(n) = Max({a, b})
  BY <1>2 DEF a, b, DataSize
<1>4. \E x \in {a, b} : \A y \in {a, b} : x >= y
  BY <1>3
<1>5. Max({a, b}) \in {a, b} /\ \A y \in {a, b} : Max({a, b}) >= y
  BY <1>4, Zenon DEF Max
<1> QED BY <1>1, <1>2, <1>3, <1>5 DEF a, b
-----------------------------------------------------------------------------
(***************************************************************************)
(* The invariant of a heap                                                 *)
(***************************************************************************)
\* a heap is a record of items, lfree and the count of used bytes
Rec(i, l, u) == [item |-> i, lfree |-> l, used |-> u]
Shape(h) ==
    /\ h = Rec(h.item, h.lfree, h.used)
    /\ h.item \in [Items(h) -> Item]
    /\ {0, End} \subseteq Items(h) /\ Items(h) \subseteq Offset
    /\ h.used \in Int

\* n is the item behind p
Behind(h, p, n) ==
    /\ n \in Items(h) /\ p + Header < n
    /\ \A q \in Items(h) : q <= p \/ n <= q
    /\ n # End => h.item[n].prev = p

\* BlocksTile of any heap
Tiled(h) ==
    /\ h.item[0].prev = 0 /\ Used(h, End)
    /\ \A p \in Items(h) : p % Align = 0
    /\ \A p \in Items(h) \ {End} : Behind(h, p, NextOf(h, p))

\* c counts, for each item, the used bytes in front of it
Counts(h, c) ==
    /\ c \in [Items(h) -> Nat] /\ c[0] = 0
    /\ \A p, q \in Items(h) : p <= q => c[p] <= c[q]
    /\ \A p \in Items(h) \ {End} :
          c[NextOf(h, p)] = c[p] + (IF Used(h, p) THEN NextOf(h, p) - p ELSE 0)
Counted(h) == \E c : Counts(h, c) /\ h.used = c[End]

\* lfree is the lowest free item, or heap_end when there is none
LfreeLowest(h) ==
    /\ h.lfree \in Items(h) /\ (h.lfree = End \/ ~Used(h, h.lfree))
    /\ \A p \in Items(h) : p < h.lfree => Used(h, p)

\* two free items do not lie side by side, but for p and its neighbours
ApartBut(h, p) ==
    \A q \in Items(h) : ~Used(h, q) /\ q # p /\ NextOf(h, q) # p => Used(h, NextOf(h, q))
Apart(h) == \A q \in Items(h) : ~Used(h, q) => Used(h, NextOf(h, q))

HInv(h) == Shape(h) /\ Tiled(h) /\ Counted(h) /\ LfreeLowest(h) /\ Apart(h)

\* the used items, and what a call that leaves S alone keeps of them
UsedItems(h) == {p \in Items(h) : Used(h, p)}
Keeps(h, g, S) == \A p \in S : p \in Items(g) /\ Used(g, p) /\ NextOf(g, p) = NextOf(h, p)

\* offsets and sizes are naturals
LEMMA Numbers ==
    /\ Align \in Nat \ {0} /\ Header \in Nat \ {0} /\ MinSize \in Nat \ {0}
    /\ Size \in Nat \ {0} /\ End \in Nat /\ End = Size + Header /\ Offset = 0 .. End
    /\ End % Align = 0 /\ Header % Align = 0 /\ MinAligned \in Nat /\ MinAligned >= MinSize
<1>1. MinAligned \in Nat /\ MinAligned >= MinSize
  BY HeapAssumption, AlignProps DEF MinAligned
<1>2. (Size + Header) % Align = 0
  BY HeapAssumption, AlignedSum
<1> QED BY <1>1, <1>2, HeapAssumption DEF End, Offset

\* the items are naturals up to heap_end, and next leads to the following one
LEMMA ItemProps ==
    ASSUME NEW h, Shape(h), Tiled(h)
    PROVE  /\ Items(h) \subseteq Nat /\ 0 \in Items(h) /\ End \in Items(h)
           /\ \A q \in Items(h) : q <= End
           /\ \A q \in Items(h) \ {End} :
                 /\ NextOf(h, q) \in Items(h) /\ q + Header < NextOf(h, q) /\ q < NextOf(h, q)
                 /\ \A x \in Items(h) : x <= q \/ NextOf(h, q) <= x
<1>1. Items(h) \subseteq Nat /\ 0 \in Items(h) /\ End \in Items(h) /\ \A q \in Items(h) : q <= End
  BY Numbers DEF Shape
<1>2. ASSUME NEW q \in Items(h) \ {End}
      PROVE  /\ NextOf(h, q) \in Items(h) /\ q + Header < NextOf(h, q) /\ q < NextOf(h, q)
             /\ \A x \in Items(h) : x <= q \/ NextOf(h, q) <= x
  <2>1. /\ NextOf(h, q) \in Items(h) /\ q + Header < NextOf(h, q)
        /\ \A x \in Items(h) : x <= q \/ NextOf(h, q) <= x
    BY DEF Tiled, Behind
  <2> QED BY <2>1, <1>1, Numbers
<1> QED BY <1>1, <1>2

\* what an update of a heap's or an item's fields gives
LEMMA HeapUpdate ==
    ASSUME NEW h, Shape(h), NEW j, NEW m
    PROVE  /\ [h EXCEPT !.item = j] = Rec(j, h.lfree, h.used)
           /\ [h EXCEPT !.lfree = m] = Rec(h.item, m, h.used)
           /\ [h EXCEPT !.lfree = m, !.item = j] = Rec(j, m, h.used)
<1> DEFINE i == h.item
           l == h.lfree
           u == h.used
<1>1. h = Rec(i, l, u)
  BY DEF Shape
<1> HIDE DEF i, l, u
<1>2. [Rec(i, l, u) EXCEPT !.lfree = m] = Rec(i, m, u)  BY DEF Rec
<1>3. [Rec(i, l, u) EXCEPT !.item = j] = Rec(j, l, u)   BY DEF Rec
<1>4. [Rec(i, m, u) EXCEPT !.item = j] = Rec(j, m, u)   BY DEF Rec
<1>5. ASSUME NEW r, NEW r1, NEW r2, [r EXCEPT !.lfree = m] = r1, [r1 EXCEPT !.item = j] = r2
      PROVE  [r EXCEPT !.lfree = m, !.item = j] = r2
  BY <1>5
<1>6. /\ [h EXCEPT !.item = j] = Rec(j, l, u)
      /\ [h EXCEPT !.lfree = m] = Rec(i, m, u)
      /\ [h EXCEPT !.lfree = m, !.item = j] = Rec(j, m, u)
  BY <1>1, <1>2, <1>3, <1>4, <1>5
<1> QED BY <1>6, Zenon DEF i, l, u

LEMMA ItemUpdate ==
    ASSUME NEW it \in Item
    PROVE  /\ it = [used |-> it.used, next |-> it.next, prev |-> it.prev]
           /\ \A v : [it EXCEPT !.used = v] = [used |-> v, next |-> it.next, prev |-> it.prev]
           /\ \A v : [it EXCEPT !.next = v] = [used |-> it.used, next |-> v, prev |-> it.prev]
           /\ \A v : [it EXCEPT !.prev = v] = [used |-> it.used, next |-> it.next, prev |-> v]
  BY DEF Item

\* a combination of item a with item b behind it, which is what both halves of
\* plug_holes do
Merge(h, a, b) ==
    [h EXCEPT !.lfree = IF @ = b THEN a ELSE @,
              !.item = Restrict([@ EXCEPT ![a].next = NextOf(h, b),
                                          ![NextOf(h, b)].prev = a], Items(h) \ {b})]

\* the items of a combination
LEMMA MergeItems ==
    ASSUME NEW h, Shape(h), Tiled(h), NEW a \in Items(h) \ {End},
           NEW b, b = NextOf(h, a), b # End
    PROVE  LET g == Merge(h, a, b)
           IN  /\ Shape(g) /\ g.used = h.used /\ g.lfree = IF h.lfree = b THEN a ELSE h.lfree
               /\ Items(g) = Items(h) \ {b} /\ a \in Items(g) /\ NextOf(h, b) \in Items(g)
               /\ a < b /\ b < NextOf(h, b)
               /\ NextOf(g, a) = NextOf(h, b)
               /\ \A q \in Items(g) : /\ Used(g, q) = Used(h, q)
                                      /\ q # a => NextOf(g, q) = NextOf(h, q)
                                      /\ g.item[q].prev = IF q = NextOf(h, b) THEN a
                                                         ELSE h.item[q].prev
<1> DEFINE c == NextOf(h, b)
           e == [h.item EXCEPT ![a].next = c, ![c].prev = a]
           f == [q \in Items(h) \ {b} |-> e[q]]
           l == IF h.lfree = b THEN a ELSE h.lfree
           g == Merge(h, a, b)
<1>1. /\ a \in Nat /\ b \in Items(h) /\ b \in Nat /\ a + Header < b
      /\ c \in Items(h) /\ c \in Nat /\ b + Header < c
  BY Numbers DEF Shape, Tiled, Behind
<1>2. a \in Items(h) /\ a # b /\ a # c /\ b # c /\ a < b /\ b < c
  BY <1>1, Numbers
<1>3. g = Rec(f, l, h.used)
  <2>1. g = [h EXCEPT !.lfree = l, !.item = f]
    BY DEF Merge, Restrict
  <2> HIDE DEF f, l, g
  <2>2. [h EXCEPT !.lfree = l, !.item = f] = Rec(f, l, h.used)
    BY HeapUpdate
  <2> QED BY <2>1, <2>2
<1>4. /\ h.item \in [Items(h) -> Item] /\ a \in Offset /\ c \in Offset
      /\ \A q \in Items(h) : h.item[q] \in Item
  BY <1>1 DEF Shape
<1> HIDE DEF c
<1>5. \A q \in Items(h) :
         e[q] = [used |-> Used(h, q), next |-> IF q = a THEN c ELSE NextOf(h, q),
                 prev |-> IF q = c THEN a ELSE h.item[q].prev]
  <2> SUFFICES ASSUME NEW q \in Items(h)
               PROVE  e[q] = [used |-> Used(h, q), next |-> IF q = a THEN c ELSE NextOf(h, q),
                              prev |-> IF q = c THEN a ELSE h.item[q].prev]
    OBVIOUS
  <2> DEFINE i == h.item
  <2>1. i \in [Items(h) -> Item] /\ i[q] \in Item
    BY <1>4
  <2>2. e = [i EXCEPT ![a].next = c, ![c].prev = a]
    OBVIOUS
  <2>3. i[q] = [used |-> Used(h, q), next |-> NextOf(h, q), prev |-> i[q].prev]
    BY <2>1, ItemUpdate DEF Used, NextOf
  <2> HIDE DEF i, e
  <2>4. CASE q = a
    <3>1. e[q] = [i[q] EXCEPT !.next = c]
      BY <2>1, <2>2, <2>4, <1>1, <1>2
    <3> QED BY <3>1, <2>1, <2>3, <2>4, <1>2, ItemUpdate DEF Used, i
  <2>5. CASE q = c
    <3>1. e[q] = [i[q] EXCEPT !.prev = a]
      BY <2>1, <2>2, <2>5, <1>1, <1>2
    <3> QED BY <3>1, <2>1, <2>3, <2>5, <1>2, ItemUpdate DEF Used, NextOf, i
  <2>6. CASE q # a /\ q # c
    <3>1. e[q] = i[q]
      BY <2>1, <2>2, <2>6, <1>1, <1>2
    <3> QED BY <3>1, <2>3, <2>6 DEF i
  <2> QED BY <2>4, <2>5, <2>6
<1>6. \A q \in Items(h) : e[q] \in Item
  BY <1>4, <1>5 DEF Item, Used, NextOf
<1> HIDE DEF e
<1>7. /\ Items(g) = Items(h) \ {b} /\ g.item = f /\ g.used = h.used /\ g.lfree = l
      /\ \A q \in Items(h) \ {b} : g.item[q] = e[q]
  BY <1>3 DEF Items, Rec
<1>8. Shape(g)
  <2>1. g = Rec(g.item, g.lfree, g.used)
    BY <1>3, <1>7
  <2>2. g.item \in [Items(g) -> Item]
    BY <1>6, <1>7
  <2>3. b # 0
    BY <1>1, Numbers
  <2> QED BY <2>1, <2>2, <2>3, <1>7 DEF Shape
<1>9. \A q \in Items(g) : /\ Used(g, q) = Used(h, q)
                          /\ NextOf(g, q) = IF q = a THEN c ELSE NextOf(h, q)
                          /\ g.item[q].prev = IF q = c THEN a ELSE h.item[q].prev
  <2> SUFFICES ASSUME NEW q \in Items(g)
               PROVE  /\ Used(g, q) = Used(h, q)
                      /\ NextOf(g, q) = IF q = a THEN c ELSE NextOf(h, q)
                      /\ g.item[q].prev = IF q = c THEN a ELSE h.item[q].prev
    OBVIOUS
  <2> HIDE DEF g
  <2>1. g.item[q] = [used |-> Used(h, q), next |-> IF q = a THEN c ELSE NextOf(h, q),
                     prev |-> IF q = c THEN a ELSE h.item[q].prev]
    BY <1>5, <1>7, Zenon
  <2> QED BY <2>1 DEF Used, NextOf
<1> HIDE DEF g, f
<1> QED BY <1>1, <1>2, <1>7, <1>8, <1>9 DEF c, g

\* a combination of two free items keeps the heap tiled, counted and lfree the lowest
LEMMA MergeProps ==
    ASSUME NEW h, Shape(h), Tiled(h), Counted(h), NEW a \in Items(h) \ {End},
           NEW b, b = NextOf(h, a), b # End, ~Used(h, a), ~Used(h, b)
    PROVE  LET g == Merge(h, a, b)
           IN  /\ Tiled(g) /\ Counted(g)
               /\ LfreeLowest(h) => LfreeLowest(g)
               /\ UsedItems(g) = UsedItems(h) /\ Keeps(h, g, UsedItems(h))
<1> DEFINE g == Merge(h, a, b)
           c == NextOf(h, b)
<1>1. /\ Shape(g) /\ g.used = h.used /\ g.lfree = IF h.lfree = b THEN a ELSE h.lfree
      /\ Items(g) = Items(h) \ {b} /\ a \in Items(g) /\ c \in Items(g)
      /\ a < b /\ b < c /\ NextOf(g, a) = c
  BY MergeItems
<1>2. \A q \in Items(g) : /\ Used(g, q) = Used(h, q)
                          /\ q # a => NextOf(g, q) = NextOf(h, q)
                          /\ g.item[q].prev = IF q = c THEN a ELSE h.item[q].prev
  BY MergeItems
<1> HIDE DEF g
<1>3. /\ Items(h) \subseteq Nat /\ b \in Items(h) /\ a + Header < b /\ b + Header < c
      /\ \A q \in Items(h) : (q <= a \/ b <= q) /\ (q <= b \/ c <= q)
  BY Numbers DEF Shape, Tiled, Behind
<1>4. Tiled(g)
  <2>1. 0 \in Items(g) /\ End \in Items(g) /\ 0 # c /\ g.item[0].prev = 0 /\ Used(g, End)
    BY <1>1, <1>2, <1>3, Numbers DEF Shape, Tiled
  <2>2. \A p \in Items(g) : p % Align = 0
    BY <1>1 DEF Tiled
  <2>3. ASSUME NEW p \in Items(g) \ {End} PROVE Behind(g, p, NextOf(g, p))
    <3>1. p \in Items(h) \ {End} /\ Behind(h, p, NextOf(h, p))
      BY <1>1 DEF Tiled
    <3>2. CASE p = a
      <4>1. \A q \in Items(g) : q <= a \/ c <= q
        BY <1>1, <1>3, Numbers
      <4>2. a + Header < c
        BY <1>1, <1>3, Numbers
      <4> QED BY <3>2, <4>1, <4>2, <1>1, <1>2 DEF Behind
    <3>3. CASE p # a
      <4>1. NextOf(g, p) = NextOf(h, p)
        BY <1>2, <3>3
      <4>2. NextOf(h, p) # b /\ NextOf(h, p) # c
        <5>1. p # b
          BY <1>1
        <5>2. p \in Nat /\ a \in Nat /\ b \in Nat /\ c \in Nat
          BY <1>1, <1>3
        <5>3. (p <= a \/ b <= p) /\ (p <= b \/ c <= p)
          BY <1>3, <3>1
        <5>4. (a <= p \/ NextOf(h, p) <= a) /\ (b <= p \/ NextOf(h, p) <= b)
          BY <1>3, <3>1 DEF Behind
        <5>5. NextOf(h, p) \in Nat /\ p < NextOf(h, p)
          BY <1>3, <3>1, <5>2, Numbers DEF Behind
        <5> QED BY <5>1, <5>2, <5>3, <5>4, <5>5, <3>3, <1>1
      <4>3. NextOf(h, p) \in Items(g) /\ p + Header < NextOf(h, p)
        BY <3>1, <4>2, <1>1 DEF Behind
      <4>4. \A q \in Items(g) : q <= p \/ NextOf(h, p) <= q
        BY <3>1, <1>1 DEF Behind
      <4>5. NextOf(h, p) # End => g.item[NextOf(h, p)].prev = p
        BY <3>1, <4>2, <4>3, <1>2 DEF Behind
      <4> QED BY <4>1, <4>3, <4>4, <4>5 DEF Behind
    <3> QED BY <3>2, <3>3
  <2> QED BY <2>1, <2>2, <2>3 DEF Tiled
<1>5. Counted(g)
  <2>1. PICK k : Counts(h, k) /\ h.used = k[End]
    BY DEF Counted
  <2> DEFINE d == [q \in Items(g) |-> k[q]]
  <2>2. d \in [Items(g) -> Nat] /\ d[0] = 0 /\ d[End] = g.used
    BY <2>1, <1>1 DEF Counts, Shape
  <2>3. ASSUME NEW p \in Items(g) \ {End}
        PROVE  d[NextOf(g, p)] = d[p] + (IF Used(g, p) THEN NextOf(g, p) - p ELSE 0)
    <3>1. NextOf(g, p) \in Items(g) /\ p \in Items(h) \ {End}
      BY <1>1, <1>4 DEF Tiled, Behind
    <3>2. d[NextOf(g, p)] = k[NextOf(g, p)] /\ d[p] = k[p]
      BY <3>1
    <3> HIDE DEF d
    <3>3. k[NextOf(h, p)] = k[p] + (IF Used(h, p) THEN NextOf(h, p) - p ELSE 0)
      BY <2>1, <3>1 DEF Counts
    <3>4. CASE p = a
      <4>1. k[b] = k[a] + 0 /\ k[c] = k[b] + 0 /\ k[a] \in Nat /\ k[b] \in Nat
        BY <2>1, <3>1, <3>4, <1>3 DEF Counts
      <4> QED BY <3>2, <3>4, <4>1, <1>1, <1>2
    <3>5. CASE p # a
      BY <3>2, <3>3, <3>5, <1>2
    <3> QED BY <3>4, <3>5
  <2> HIDE DEF d
  <2>4. Counts(g, d)
    <3>1. \A p, q \in Items(g) : p <= q => d[p] <= d[q]
      BY <2>1, <1>1 DEF Counts, d
    <3> QED BY <2>2, <2>3, <3>1 DEF Counts
  <2> QED BY <2>2, <2>4 DEF Counted
<1>6. ASSUME LfreeLowest(h) PROVE LfreeLowest(g)
  <2>1. g.lfree \in Items(g) /\ (g.lfree = End \/ ~Used(g, g.lfree))
    BY <1>6, <1>1, <1>2 DEF LfreeLowest
  <2>2. g.lfree <= h.lfree
    BY <1>6, <1>1, <1>3 DEF LfreeLowest
  <2>3. ASSUME NEW p \in Items(g), p < g.lfree PROVE Used(g, p)
    <3>1. p < h.lfree /\ p \in Items(h)
      BY <2>2, <2>3, <1>6, <1>1, <1>3 DEF LfreeLowest
    <3> QED BY <3>1, <1>6, <1>2 DEF LfreeLowest
  <2> QED BY <2>1, <2>3 DEF LfreeLowest
<1>7. UsedItems(g) = UsedItems(h) /\ Keeps(h, g, UsedItems(h))
  BY <1>1, <1>2 DEF UsedItems, Keeps
<1> QED BY <1>4, <1>5, <1>6, <1>7 DEF g

\* an item that is not the first one has an item in front of it, to which its prev leads
LEMMA FrontProps ==
    ASSUME NEW h, Shape(h), Tiled(h), NEW p \in Items(h) \ {0}
    PROVE  \E b \in Items(h) \ {End} : /\ NextOf(h, b) = p /\ b < p
                                       /\ p # End => h.item[p].prev = b
<1>1. Items(h) \subseteq Nat /\ p \in Nat /\ 0 \in Items(h) /\ End \in Items(h)
      /\ \A q \in Items(h) : q <= End
  BY Numbers DEF Shape
<1> DEFINE S == {End - q : q \in {x \in Items(h) : x < p}}
<1>2. S \subseteq Nat /\ S # {}
  <2>1. 0 < p
    BY <1>1
  <2> QED BY <1>1, <2>1, Numbers
<1>3. Min(S) \in S /\ \A y \in S : Min(S) <= y
  BY <1>2, LeastProps
<1>4. PICK b \in Items(h) : b < p /\ Min(S) = End - b
  BY <1>3
<1>5. \A q \in Items(h) : q < p => q <= b
  <2> SUFFICES ASSUME NEW q \in Items(h), q < p PROVE q <= b
    OBVIOUS
  <2>1. End - q \in S
    OBVIOUS
  <2>2. End - b <= End - q
    BY <2>1, <1>3, <1>4
  <2> QED BY <2>2, <1>1, Numbers
<1> HIDE DEF S
<1>6. b \in Items(h) \ {End}
  BY <1>1, <1>4, Numbers
<1>7. Behind(h, b, NextOf(h, b))
  BY <1>6 DEF Tiled
<1>8. NextOf(h, b) = p
  <2>1. NextOf(h, b) \in Items(h) /\ b < NextOf(h, b) /\ NextOf(h, b) <= p
    BY <1>1, <1>4, <1>7, Numbers DEF Behind
  <2>2. ~(NextOf(h, b) < p)
    BY <1>1, <1>5, <2>1
  <2> QED BY <2>1, <2>2, <1>1
<1> QED BY <1>4, <1>6, <1>7, <1>8 DEF Behind

\* plug_holes combines an item that became free with its free neighbours
LEMMA PlugProps ==
    ASSUME NEW h, Shape(h), Tiled(h), Counted(h), LfreeLowest(h),
           NEW p \in Items(h) \ {End}, ~Used(h, p), ApartBut(h, p)
    PROVE  /\ HInv(plug_holes(h, p)) /\ UsedItems(plug_holes(h, p)) = UsedItems(h)
           /\ Keeps(h, plug_holes(h, p), UsedItems(h))
<1> DEFINE n == NextOf(h, p)
           g == PlugForward(h, p)
<1>1. /\ Items(h) \subseteq Nat /\ p \in Items(h) /\ n \in Items(h) /\ p < n
      /\ Behind(h, p, n)
  BY Numbers DEF Shape, Tiled, Behind
<1>2. /\ Shape(g) /\ Tiled(g) /\ Counted(g) /\ LfreeLowest(g)
      /\ UsedItems(g) = UsedItems(h) /\ Keeps(h, g, UsedItems(h))
      /\ p \in Items(g) /\ ~Used(g, p)
      /\ ApartBut(g, p) /\ Used(g, NextOf(g, p))
  <2>1. CASE Used(h, n) \/ n = End
    <3>1. g = h
      BY <2>1 DEF PlugForward
    <3>2. Used(h, n)
      BY <2>1 DEF Tiled
    <3> HIDE DEF g
    <3> QED BY <3>1, <3>2, <1>1 DEF Keeps, UsedItems
  <2>2. CASE ~Used(h, n) /\ n # End
    <3>1. g = Merge(h, p, n)
      BY <2>2 DEF PlugForward, Merge
    <3>2. /\ Shape(g) /\ Items(g) = Items(h) \ {n} /\ p \in Items(g)
          /\ NextOf(h, n) \in Items(g) /\ n < NextOf(h, n) /\ NextOf(g, p) = NextOf(h, n)
      BY <2>2, <3>1, MergeItems
    <3>3. \A q \in Items(g) : /\ Used(g, q) = Used(h, q)
                              /\ q # p => NextOf(g, q) = NextOf(h, q)
      BY <2>2, <3>1, MergeItems
    <3>4. /\ Tiled(g) /\ Counted(g) /\ LfreeLowest(g)
          /\ UsedItems(g) = UsedItems(h) /\ Keeps(h, g, UsedItems(h))
      BY <2>2, <3>1, MergeProps
    <3> HIDE DEF g
    <3>5. Used(h, NextOf(h, n))
      <4>1. n # p /\ NextOf(h, n) # p
        BY <1>1, <3>2
      <4> QED BY <1>1, <4>1, <2>2 DEF ApartBut
    <3>6. ApartBut(g, p)
      <4> SUFFICES ASSUME NEW q \in Items(g), ~Used(g, q), q # p, NextOf(g, q) # p
                   PROVE  Used(g, NextOf(g, q))
        BY DEF ApartBut
      <4>1. q \in Items(h) /\ ~Used(h, q) /\ NextOf(g, q) = NextOf(h, q)
        BY <3>2, <3>3
      <4>2. Used(h, NextOf(h, q))
        BY <4>1 DEF ApartBut
      <4>3. NextOf(g, q) \in Items(g)
        BY <3>4, <4>1, <3>3 DEF Tiled, Behind
      <4> QED BY <4>1, <4>2, <4>3, <3>3
    <3> QED BY <3>2, <3>3, <3>4, <3>5, <3>6
  <2> QED BY <2>1, <2>2
<1> DEFINE b == g.item[p].prev
           f == PlugBackward(g, p)
<1>3. plug_holes(h, p) = f
  BY DEF plug_holes
<1> HIDE DEF g
<1>4. Items(g) \subseteq Nat
  BY <1>2, Numbers DEF Shape
<1>5. \A q \in Items(g) \ {End} : NextOf(g, q) = p => q = b /\ b < p
  <2> SUFFICES ASSUME NEW q \in Items(g) \ {End}, NextOf(g, q) = p PROVE q = b /\ b < p
    OBVIOUS
  <2>1. Behind(g, q, p)
    BY <1>2 DEF Tiled
  <2> QED BY <2>1, <1>4, Numbers DEF Behind
<1>6. \A q \in Items(g) : ~Used(g, q) => q # End
  BY <1>2 DEF Tiled
<1>7. /\ Shape(f) /\ Tiled(f) /\ Counted(f) /\ LfreeLowest(f) /\ Apart(f)
      /\ UsedItems(f) = UsedItems(h) /\ Keeps(h, f, UsedItems(h))
  <2>1. CASE b = p \/ Used(g, b)
    <3>1. f = g
      BY <2>1 DEF PlugBackward
    <3>2. Apart(g)
      <4> SUFFICES ASSUME NEW q \in Items(g), ~Used(g, q) PROVE Used(g, NextOf(g, q))
        BY DEF Apart
      <4>1. CASE q = p
        BY <4>1, <1>2
      <4>2. CASE q # p
        <5>1. NextOf(g, q) # p
          BY <1>4, <1>5, <1>6, <2>1
        <5> QED BY <5>1, <4>2, <1>2 DEF ApartBut
      <4> QED BY <4>1, <4>2
    <3> QED BY <3>1, <3>2, <1>2
  <2>2. CASE b # p /\ ~Used(g, b)
    <3>1. p # 0
      BY <2>2, <1>2 DEF Tiled
    <3>2. b \in Items(g) \ {End} /\ NextOf(g, b) = p /\ b < p
      BY <3>1, <1>2, FrontProps
    <3>3. f = Merge(g, b, p)
      BY <2>2 DEF PlugBackward, Merge
    <3> HIDE DEF f, b
    <3>4. /\ Shape(f) /\ Items(f) = Items(g) \ {p} /\ NextOf(f, b) = NextOf(g, p)
          /\ NextOf(g, p) \in Items(f)
          /\ \A q \in Items(f) : /\ Used(f, q) = Used(g, q)
                                 /\ q # b => NextOf(f, q) = NextOf(g, q)
      BY <3>2, <3>3, <1>2, MergeItems
    <3>5. /\ Tiled(f) /\ Counted(f) /\ LfreeLowest(f)
          /\ UsedItems(f) = UsedItems(g) /\ Keeps(g, f, UsedItems(g))
      BY <2>2, <3>2, <3>3, <1>2, MergeProps
    <3>6. Apart(f)
      <4> SUFFICES ASSUME NEW q \in Items(f), ~Used(f, q) PROVE Used(f, NextOf(f, q))
        BY DEF Apart
      <4>1. q \in Items(g) /\ ~Used(g, q) /\ q # p /\ q # End
        BY <3>4, <1>6
      <4>2. CASE q = b
        BY <4>2, <3>4, <1>2
      <4>3. CASE q # b
        <5>1. NextOf(g, q) # p /\ NextOf(f, q) = NextOf(g, q)
          BY <4>1, <4>3, <1>5, <3>4
        <5>2. Used(g, NextOf(g, q))
          BY <4>1, <5>1, <1>2 DEF ApartBut
        <5>3. NextOf(f, q) \in Items(f)
          BY <4>1, <3>5 DEF Tiled, Behind
        <5> QED BY <5>1, <5>2, <5>3, <3>4
      <4> QED BY <4>2, <4>3
    <3>7. Keeps(h, f, UsedItems(h))
      BY <3>5, <1>2 DEF Keeps
    <3> QED BY <3>4, <3>5, <3>6, <3>7, <1>2
  <2> QED BY <2>1, <2>2
<1> QED BY <1>3, <1>7 DEF HInv

\* an item is marked used or free, and lfree and the count are set
Mark(h, p, u, m, v) == Rec([h.item EXCEPT ![p].used = u], m, v)

LEMMA MarkItems ==
    ASSUME NEW h, Shape(h), Tiled(h), NEW p \in Items(h) \ {End}, NEW u \in BOOLEAN,
           NEW m \in Items(h), NEW v \in Int
    PROVE  LET g == Mark(h, p, u, m, v)
           IN  /\ Shape(g) /\ Tiled(g) /\ Items(g) = Items(h) /\ g.lfree = m /\ g.used = v
               /\ Used(g, p) = u
               /\ \A q \in Items(h) : /\ NextOf(g, q) = NextOf(h, q)
                                      /\ q # p => Used(g, q) = Used(h, q)
<1> DEFINE i == h.item
           e == [i EXCEPT ![p].used = u]
           g == Mark(h, p, u, m, v)
<1>1. i \in [Items(h) -> Item] /\ p \in Items(h)
  BY DEF Shape
<1>2. g = Rec(e, m, v)
  BY DEF Mark
<1> HIDE DEF i, e, g
<1>3. \A q \in Items(h) : e[q] = [used |-> IF q = p THEN u ELSE i[q].used,
                                  next |-> i[q].next, prev |-> i[q].prev]
  <2> SUFFICES ASSUME NEW q \in Items(h)
               PROVE  e[q] = [used |-> IF q = p THEN u ELSE i[q].used,
                              next |-> i[q].next, prev |-> i[q].prev]
    OBVIOUS
  <2>1. i[q] \in Item
    BY <1>1
  <2>2. CASE q = p
    <3>1. e[q] = [i[q] EXCEPT !.used = u]
      BY <1>1, <2>2 DEF e
    <3> QED BY <3>1, <2>1, <2>2, ItemUpdate
  <2>3. CASE q # p
    <3>1. e[q] = i[q]
      BY <1>1, <2>3 DEF e
    <3> QED BY <3>1, <2>1, <2>3, ItemUpdate
  <2> QED BY <2>2, <2>3
<1>4. e \in [Items(h) -> Item]
  <2>1. DOMAIN e = Items(h) /\ e = [q \in Items(h) |-> e[q]]
    BY <1>1 DEF e
  <2>2. ASSUME NEW q \in Items(h) PROVE e[q] \in Item
    <3>1. i[q] \in Item
      BY <1>1
    <3>2. i[q].used \in BOOLEAN /\ i[q].next \in Offset /\ i[q].prev \in Offset
      BY <3>1 DEF Item
    <3> DEFINE w == IF q = p THEN u ELSE i[q].used
    <3>3. w \in BOOLEAN
      BY <3>2
    <3>4. e[q] = [used |-> w, next |-> i[q].next, prev |-> i[q].prev]
      BY <1>3
    <3> HIDE DEF w
    <3> QED BY <3>2, <3>3, <3>4 DEF Item
  <2> QED BY <2>1, <2>2
<1>5. g.item = e /\ g.lfree = m /\ g.used = v /\ Items(g) = Items(h)
  BY <1>2, <1>4 DEF Rec, Items
<1>6. Shape(g)
  BY <1>2, <1>4, <1>5 DEF Shape
<1>7. \A q \in Items(h) : /\ NextOf(g, q) = NextOf(h, q)
                          /\ Used(g, q) = IF q = p THEN u ELSE Used(h, q)
                          /\ g.item[q].prev = h.item[q].prev
  <2> SUFFICES ASSUME NEW q \in Items(h)
               PROVE  /\ NextOf(g, q) = NextOf(h, q)
                      /\ Used(g, q) = IF q = p THEN u ELSE Used(h, q)
                      /\ g.item[q].prev = h.item[q].prev
    OBVIOUS
  <2>1. g.item[q] = [used |-> IF q = p THEN u ELSE i[q].used,
                     next |-> i[q].next, prev |-> i[q].prev]
    BY <1>3, <1>5
  <2> QED BY <2>1 DEF NextOf, Used, i
<1>8. Tiled(g)
  <2>1. 0 \in Items(h) /\ End \in Items(h)
    BY DEF Shape
  <2>2. g.item[0].prev = 0 /\ Used(g, End)
    BY <2>1, <1>7 DEF Tiled
  <2>3. \A q \in Items(g) \ {End} : Behind(g, q, NextOf(g, q))
    <3> SUFFICES ASSUME NEW q \in Items(g) \ {End} PROVE Behind(g, q, NextOf(g, q))
      OBVIOUS
    <3>1. Behind(h, q, NextOf(h, q)) /\ NextOf(g, q) = NextOf(h, q)
      BY <1>5, <1>7 DEF Tiled
    <3> QED BY <3>1, <1>5, <1>7 DEF Behind
  <2> QED BY <2>2, <2>3, <1>5 DEF Tiled
<1> QED BY <1>5, <1>6, <1>7, <1>8 DEF g

\* marking an item moves the count by its size
LEMMA MarkCounted ==
    ASSUME NEW h, Shape(h), Tiled(h), Counted(h), NEW p \in Items(h) \ {End}, NEW u \in BOOLEAN,
           NEW m \in Items(h), NEW v \in Int, u # Used(h, p),
           v = IF u THEN h.used + (NextOf(h, p) - p) ELSE h.used - (NextOf(h, p) - p)
    PROVE  Counted(Mark(h, p, u, m, v))
<1> DEFINE g == Mark(h, p, u, m, v)
           n == NextOf(h, p)
           s == n - p
<1>1. /\ Items(g) = Items(h) /\ g.used = v
      /\ Used(g, p) = u
      /\ \A q \in Items(h) : /\ NextOf(g, q) = NextOf(h, q)
                             /\ q # p => Used(g, q) = Used(h, q)
  BY MarkItems
<1>2. Used(h, p) \in BOOLEAN /\ Used(h, p) = ~u
  BY DEF Shape, Item, Used
<1> HIDE DEF g
<1>3. /\ Items(h) \subseteq Nat /\ p \in Nat /\ n \in Items(h) /\ n \in Nat /\ p < n
      /\ 0 \in Items(h) /\ End \in Items(h) /\ p < End
      /\ \A q \in Items(h) : q <= p \/ n <= q
  BY Numbers DEF Shape, Tiled, Behind
<1>4. PICK k : Counts(h, k) /\ h.used = k[End]
  BY DEF Counted
<1>5. /\ \A q \in Items(h) : k[q] \in Nat
      /\ \A q, x \in Items(h) : q <= x => k[q] <= k[x]
      /\ k[0] = 0
      /\ \A q \in Items(h) \ {End} :
            k[NextOf(h, q)] = k[q] + (IF Used(h, q) THEN NextOf(h, q) - q ELSE 0)
  BY <1>4 DEF Counts
<1> DEFINE D(q) == IF q <= p THEN k[q] ELSE IF u THEN k[q] + s ELSE k[q] - s
           d == [q \in Items(h) |-> D(q)]
<1>6. \A q \in Items(h) : ~(q <= p) => (~u => k[q] >= k[p] + s)
  <2>1. ~u => k[n] = k[p] + s
    BY <1>2, <1>5
  <2> QED BY <2>1, <1>3, <1>5
<1>7. \A q \in Items(h) : D(q) \in Nat
  BY <1>3, <1>5, <1>6
<1>8. \A q, x \in Items(h) : q <= x => D(q) <= D(x)
  <2> SUFFICES ASSUME NEW q \in Items(h), NEW x \in Items(h), q <= x PROVE D(q) <= D(x)
    OBVIOUS
  <2>1. k[q] <= k[x] /\ k[q] \in Nat /\ k[x] \in Nat /\ s \in Nat /\ k[p] \in Nat
    BY <1>3, <1>5
  <2>2. CASE q <= p /\ ~(x <= p) /\ ~u
    <3>1. k[q] <= k[p]
      BY <2>2, <1>5
    <3> QED BY <3>1, <2>1, <2>2, <1>6
  <2>3. CASE ~(q <= p /\ ~(x <= p) /\ ~u)
    BY <2>1, <2>3, <1>3
  <2> QED BY <2>2, <2>3
<1>9. \A q \in Items(h) \ {End} :
         D(NextOf(h, q)) = D(q) + (IF Used(g, q) THEN NextOf(h, q) - q ELSE 0)
  <2> SUFFICES ASSUME NEW q \in Items(h) \ {End}
               PROVE  D(NextOf(h, q)) = D(q) + (IF Used(g, q) THEN NextOf(h, q) - q ELSE 0)
    OBVIOUS
  <2>1. k[NextOf(h, q)] = k[q] + (IF Used(h, q) THEN NextOf(h, q) - q ELSE 0)
    BY <1>5
  <2>2. NextOf(h, q) \in Items(h) /\ q < NextOf(h, q)
        /\ \A x \in Items(h) : x <= q \/ NextOf(h, q) <= x
    BY ItemProps
  <2>3. k[q] \in Nat /\ k[NextOf(h, q)] \in Nat /\ q \in Nat /\ NextOf(h, q) \in Nat
    BY <2>2, <1>3, <1>5
  <2>4. CASE q = p
    <3>1. D(q) = k[p] /\ D(NextOf(h, q)) = IF u THEN k[n] + s ELSE k[n] - s
      BY <2>4, <1>3
    <3>2. k[n] = k[p] + (IF ~u THEN s ELSE 0) /\ Used(g, q) = u
      BY <2>1, <2>4, <1>1, <1>2
    <3> HIDE DEF D
    <3> QED BY <3>1, <3>2, <2>3, <2>4, <1>3
  <2>5. CASE q < p
    <3>1. NextOf(h, q) <= p /\ Used(g, q) = Used(h, q)
      BY <2>2, <2>3, <2>5, <1>1, <1>3
    <3> QED BY <3>1, <2>1, <2>3, <2>5, <1>3
  <2>6. CASE p < q
    <3>1. ~(NextOf(h, q) <= p) /\ ~(q <= p) /\ Used(g, q) = Used(h, q)
      BY <2>2, <2>3, <2>6, <1>1, <1>3
    <3>2. D(q) = (IF u THEN k[q] + s ELSE k[q] - s)
          /\ D(NextOf(h, q)) = (IF u THEN k[NextOf(h, q)] + s ELSE k[NextOf(h, q)] - s)
      BY <3>1
    <3> HIDE DEF D
    <3> QED BY <3>1, <3>2, <2>1, <2>3, <1>3
  <2> QED BY <2>3, <2>4, <2>5, <2>6, <1>3
<1>10. D(0) = 0 /\ D(End) = v
  BY <1>3, <1>4, <1>5
<1> HIDE DEF D
<1>11. d \in [Items(h) -> Nat] /\ \A q \in Items(h) : d[q] = D(q)
  BY <1>7
<1> HIDE DEF d
<1>12. \A q \in Items(h) \ {End} : NextOf(h, q) \in Items(h)
  BY DEF Tiled, Behind
<1>13. Counts(g, d)
  BY <1>1, <1>3, <1>8, <1>9, <1>10, <1>11, <1>12 DEF Counts
<1>14. g.used = d[End]
  BY <1>1, <1>3, <1>10, <1>11
<1> QED BY <1>13, <1>14 DEF Counted, g

\* the lower of two items
LEMMA LowerProps ==
    ASSUME NEW a \in Nat, NEW b \in Nat
    PROVE  Min({a, b}) \in {a, b} /\ Min({a, b}) <= a /\ Min({a, b}) <= b
  BY LeastProps, {a, b} \subseteq Nat, {a, b} # {}

\* rt_smem_free gives back one block and touches no other
LEMMA FreeProps ==
    ASSUME NEW h, HInv(h), NEW p \in UsedItems(h) \ {End}
    PROVE  /\ HInv(Free(h, p)) /\ UsedItems(Free(h, p)) = UsedItems(h) \ {p}
           /\ Keeps(h, Free(h, p), UsedItems(h) \ {p})
<1> DEFINE v == h.used - (NextOf(h, p) - p)
           m == Min({h.lfree, p})
           u == FALSE
           g == Mark(h, p, u, m, v)
<1>1. /\ Shape(h) /\ Tiled(h) /\ Counted(h) /\ LfreeLowest(h) /\ Apart(h)
      /\ p \in Items(h) \ {End} /\ Used(h, p)
  BY DEF HInv, UsedItems
<1>2. /\ Items(h) \subseteq Nat /\ h.lfree \in Items(h) /\ NextOf(h, p) \in Items(h)
      /\ h.used \in Int
  BY <1>1, ItemProps DEF LfreeLowest, Shape
<1>3. m \in {h.lfree, p} /\ m <= h.lfree /\ m <= p
  BY <1>1, <1>2, LowerProps
<1>4. Free(h, p) = plug_holes(g, p)
  BY DEF Free, Mark, Rec
<1>5. m \in Items(h) /\ v \in Int /\ v = h.used - (NextOf(h, p) - p)
  BY <1>1, <1>2, <1>3
<1>51. u \in BOOLEAN /\ ~u /\ u # Used(h, p)
  BY <1>1
<1> HIDE DEF m, v, u
<1>6. /\ Shape(g) /\ Tiled(g) /\ Items(g) = Items(h) /\ g.lfree = m /\ ~Used(g, p)
      /\ \A q \in Items(h) : /\ NextOf(g, q) = NextOf(h, q)
                             /\ q # p => Used(g, q) = Used(h, q)
  BY <1>1, <1>5, <1>51, MarkItems
<1>7. Counted(g)
  BY <1>1, <1>5, <1>51, MarkCounted
<1> HIDE DEF g
<1>8. LfreeLowest(g)
  <2>1. g.lfree \in Items(g) /\ (g.lfree = End \/ ~Used(g, g.lfree))
    BY <1>1, <1>3, <1>5, <1>6 DEF LfreeLowest
  <2>2. ASSUME NEW q \in Items(g), q < g.lfree PROVE Used(g, q)
    <3>1. q < h.lfree /\ q # p
      BY <2>2, <1>1, <1>2, <1>3, <1>6
    <3> QED BY <3>1, <1>1, <1>6 DEF LfreeLowest
  <2> QED BY <2>1, <2>2 DEF LfreeLowest
<1>9. ~Used(g, p) /\ p \in Items(g) \ {End}
  BY <1>1, <1>6
<1>10. ApartBut(g, p)
  <2> SUFFICES ASSUME NEW q \in Items(g), ~Used(g, q), q # p, NextOf(g, q) # p
               PROVE  Used(g, NextOf(g, q))
    BY DEF ApartBut
  <2>1. q \in Items(h) /\ ~Used(h, q) /\ NextOf(g, q) = NextOf(h, q) /\ q # End
    BY <1>1, <1>6 DEF Tiled
  <2>2. Used(h, NextOf(h, q)) /\ NextOf(h, q) \in Items(h)
    BY <2>1, <1>1, ItemProps DEF Apart
  <2> QED BY <2>1, <2>2, <1>6
<1> DEFINE f == plug_holes(g, p)
<1>11. HInv(f) /\ UsedItems(f) = UsedItems(g) /\ Keeps(g, f, UsedItems(g))
  BY <1>6, <1>7, <1>8, <1>9, <1>10, PlugProps
<1> HIDE DEF f
<1>12. UsedItems(g) = UsedItems(h) \ {p}
  BY <1>1, <1>6 DEF UsedItems
<1>13. Keeps(h, f, UsedItems(h) \ {p})
  BY <1>11, <1>12, <1>6 DEF Keeps, UsedItems
<1> QED BY <1>4, <1>11, <1>12, <1>13 DEF f

\* the items of a heap in which item p has been cut behind n bytes
LEMMA SplitItems ==
    ASSUME NEW h, Shape(h), Tiled(h), NEW p \in Items(h) \ {End}, NEW n \in Nat \ {0},
           Rest(p, n) + Header < NextOf(h, p), n % Align = 0
    PROVE  LET g == Split(h, p, n)
               r == Rest(p, n)
           IN  /\ Shape(g) /\ Tiled(g) /\ g.lfree = h.lfree /\ g.used = h.used
               /\ r \in Nat /\ r \notin Items(h) /\ Items(g) = Items(h) \cup {r}
               /\ p < r /\ r < NextOf(h, p)
               /\ NextOf(g, p) = r /\ NextOf(g, r) = NextOf(h, p) /\ ~Used(g, r)
               /\ \A q \in Items(h) : /\ Used(g, q) = Used(h, q)
                                      /\ q # p => NextOf(g, q) = NextOf(h, q)
<1> DEFINE g == Split(h, p, n)
           r == Rest(p, n)
           b == NextOf(h, p)
           i == h.item
           it == [used |-> FALSE, next |-> b, prev |-> p]
           e == [i EXCEPT ![p].next = r]
           cut == [q \in Items(h) \cup {r} |-> IF q = r THEN it ELSE e[q]]
           f == IF b = End THEN cut ELSE [cut EXCEPT ![b].prev = r]
<1>1. /\ p \in Nat /\ b \in Items(h) /\ b \in Nat /\ b <= End /\ p + Header < b
      /\ Items(h) \subseteq Nat /\ 0 \in Items(h) /\ End \in Items(h)
      /\ \A q \in Items(h) : q <= p \/ b <= q
  BY ItemProps
<1>2. r \in Nat /\ p + Header < r /\ p < r /\ r + Header < b /\ r < b /\ r \notin Items(h) /\ r # 0
  BY <1>1, Numbers DEF Rest
<1>3. r \in Offset /\ b \in Offset /\ p \in Offset /\ p # b /\ r # b /\ r # p
  BY <1>1, <1>2, Numbers
<1>4. i \in [Items(h) -> Item] /\ DOMAIN i = Items(h)
  BY DEF Shape
<1>5. g = Rec(f, h.lfree, h.used)
  <2>1. DOMAIN e = Items(h)
    BY <1>4
  <2>2. g = [h EXCEPT !.item = f]
    BY <2>1 DEF Split, Put
  <2> HIDE DEF f, g
  <2>3. [h EXCEPT !.item = f] = Rec(f, h.lfree, h.used)
    BY HeapUpdate
  <2> QED BY <2>2, <2>3
<1>6. it \in Item /\ it.used = FALSE /\ it.next = b /\ it.prev = p
  BY <1>3 DEF Item
<1> HIDE DEF r, b, i, g, it
<1>7. ASSUME NEW q \in Items(h)
      PROVE  e[q] = [used |-> i[q].used, next |-> IF q = p THEN r ELSE i[q].next,
                     prev |-> i[q].prev]
  <2>1. i[q] \in Item
    BY <1>4
  <2>2. CASE q = p
    <3>1. e[q] = [i[q] EXCEPT !.next = r]
      BY <1>4, <2>2
    <3> QED BY <3>1, <2>1, <2>2, ItemUpdate
  <2>3. CASE q # p
    <3>1. e[q] = i[q]
      BY <1>4, <2>3
    <3> QED BY <3>1, <2>1, <2>3, ItemUpdate
  <2> QED BY <2>2, <2>3
<1> HIDE DEF e
<1>8. ASSUME NEW q \in Items(h) PROVE e[q] \in Item
  <2>1. i[q] \in Item
    BY <1>4
  <2>2. i[q].used \in BOOLEAN /\ i[q].next \in Offset /\ i[q].prev \in Offset
    BY <2>1 DEF Item
  <2> DEFINE x == IF q = p THEN r ELSE i[q].next
  <2>3. x \in Offset
    BY <2>2, <1>3
  <2>4. e[q] = [used |-> i[q].used, next |-> x, prev |-> i[q].prev]
    BY <1>7
  <2> HIDE DEF x
  <2> QED BY <2>2, <2>3, <2>4 DEF Item
<1>9. /\ cut \in [Items(h) \cup {r} -> Item] /\ cut[r] = it
      /\ \A q \in Items(h) : cut[q] = e[q]
  BY <1>2, <1>6, <1>8
<1> HIDE DEF cut
<1>10. /\ f \in [Items(h) \cup {r} -> Item] /\ f[r] = it
       /\ \A q \in Items(h) : q # b => f[q] = e[q]
       /\ b = End => f[b] = e[b]
       /\ b # End => f[b] = [e[b] EXCEPT !.prev = r]
  <2>1. CASE b = End
    BY <2>1, <1>1, <1>9
  <2>2. CASE b # End
    <3>1. f = [cut EXCEPT ![b] = [cut[b] EXCEPT !.prev = r]]
      BY <2>2
    <3>2. [cut[b] EXCEPT !.prev = r] \in Item
      BY <1>1, <1>3, <1>9 DEF Item
    <3> HIDE DEF f
    <3> QED BY <2>2, <3>1, <3>2, <1>1, <1>2, <1>3, <1>9
  <2> QED BY <2>1, <2>2
<1> HIDE DEF f
<1>11. ASSUME NEW q \in Items(h)
       PROVE  /\ f[q].used = i[q].used
              /\ f[q].next = IF q = p THEN r ELSE i[q].next
              /\ f[q].prev = IF q = b /\ b # End THEN r ELSE i[q].prev
  <2>1. e[q] \in Item
    BY <1>8
  <2>2. e[q].used = i[q].used /\ e[q].prev = i[q].prev
        /\ e[q].next = IF q = p THEN r ELSE i[q].next
    <3> DEFINE x == IF q = p THEN r ELSE i[q].next
    <3>1. e[q] = [used |-> i[q].used, next |-> x, prev |-> i[q].prev]
      BY <1>7
    <3> HIDE DEF x
    <3>2. e[q].used = i[q].used /\ e[q].prev = i[q].prev /\ e[q].next = x
      BY <3>1
    <3> QED BY <3>2 DEF x
  <2>3. CASE q = b /\ b # End
    <3>1. f[q] = [used |-> e[q].used, next |-> e[q].next, prev |-> r]
      BY <2>1, <2>3, <1>10, ItemUpdate
    <3> QED BY <3>1, <2>2, <2>3
  <2>4. CASE ~(q = b /\ b # End)
    <3>1. f[q] = e[q]
      BY <2>4, <1>10
    <3> QED BY <3>1, <2>2, <2>4
  <2> QED BY <2>3, <2>4
<1>12. /\ g.item = f /\ g.lfree = h.lfree /\ g.used = h.used /\ Items(g) = Items(h) \cup {r}
  BY <1>5, <1>10 DEF Rec, Items
<1>13. /\ NextOf(g, r) = b /\ Used(g, r) = FALSE /\ g.item[r].prev = p /\ NextOf(g, p) = r
  BY <1>1, <1>6, <1>10, <1>11, <1>12 DEF NextOf, Used
<1>14. \A q \in Items(h) : /\ Used(g, q) = Used(h, q)
                           /\ q # p => NextOf(g, q) = NextOf(h, q)
                           /\ q # b \/ b = End => g.item[q].prev = h.item[q].prev
  BY <1>11, <1>12 DEF NextOf, Used, i
<1>15. b # End => g.item[b].prev = r
  BY <1>1, <1>11, <1>12
<1>16. Shape(g)
  <2>1. g = Rec(g.item, g.lfree, g.used)
    BY <1>5, <1>12
  <2>2. h.used \in Int /\ Items(h) \subseteq Offset
    BY DEF Shape
  <2> QED BY <2>1, <2>2, <1>1, <1>3, <1>10, <1>12 DEF Shape
<1>17. Tiled(g)
  <2>1. 0 # b /\ g.item[0].prev = 0 /\ Used(g, End)
    BY <1>1, <1>14, Numbers DEF Tiled
  <2>2. \A q \in Items(g) : q % Align = 0
    <3>1. p % Align = 0 /\ (p + Header) % Align = 0
      BY <1>1, Numbers, AlignedSum DEF Tiled
    <3> DEFINE s == p + Header
    <3>3. s \in Nat /\ s % Align = 0
      BY <3>1, <1>1, Numbers
    <3> HIDE DEF s
    <3>4. (s + n) % Align = 0
      BY <3>3, AlignedSum
    <3>2. (p + Header + n) % Align = 0
      BY <3>4 DEF s
    <3> QED BY <3>2, <1>12 DEF Tiled, r, Rest
  <2>3. ASSUME NEW q \in Items(g) \ {End} PROVE Behind(g, q, NextOf(g, q))
    <3>1. CASE q = p
      <4>1. \A x \in Items(g) : x <= p \/ r <= x
        BY <1>1, <1>2, <1>12
      <4> QED BY <3>1, <4>1, <1>2, <1>12, <1>13 DEF Behind
    <3>2. CASE q = r
      <4>1. \A x \in Items(g) : x <= r \/ b <= x
        BY <1>1, <1>2, <1>12
      <4> QED BY <3>2, <4>1, <1>1, <1>2, <1>12, <1>13, <1>15 DEF Behind
    <3>3. CASE q # p /\ q # r
      <4>1. q \in Items(h) \ {End} /\ NextOf(g, q) = NextOf(h, q) /\ Behind(h, q, NextOf(h, q))
        BY <3>3, <1>12, <1>14 DEF Tiled
      <4>2. NextOf(h, q) \in Items(h) /\ q < NextOf(h, q) /\ q + Header < NextOf(h, q)
            /\ \A x \in Items(h) : x <= q \/ NextOf(h, q) <= x
        BY <4>1, ItemProps
      <4>3. NextOf(h, q) # b /\ (r <= q \/ NextOf(h, q) <= r)
        BY <4>1, <4>2, <3>3, <1>1, <1>2
      <4>4. NextOf(h, q) # End => g.item[NextOf(h, q)].prev = q
        BY <4>1, <4>2, <4>3, <1>14 DEF Behind
      <4> QED BY <4>1, <4>2, <4>3, <4>4, <1>12 DEF Behind
    <3> QED BY <3>1, <3>2, <3>3
  <2> QED BY <2>1, <2>2, <2>3 DEF Tiled
<1> QED BY <1>2, <1>12, <1>13, <1>14, <1>16, <1>17 DEF g, r, b

\* the rest of a cut item is free: if the item was used, the count goes down by it
LEMMA SplitCounted ==
    ASSUME NEW h, Shape(h), Tiled(h), Counted(h), NEW p \in Items(h) \ {End},
           NEW n \in Nat \ {0}, Rest(p, n) + Header < NextOf(h, p), n % Align = 0,
           NEW g, g.item = Split(h, p, n).item,
           g.used = IF Used(h, p) THEN h.used - (NextOf(h, p) - Rest(p, n)) ELSE h.used
    PROVE  Counted(g)
<1> DEFINE f == Split(h, p, n)
           r == Rest(p, n)
           b == NextOf(h, p)
           u == Used(h, p)
           s == IF u THEN b - r ELSE 0
<1>1. /\ r \in Nat /\ r \notin Items(h) /\ Items(f) = Items(h) \cup {r} /\ p < r /\ r < b
      /\ NextOf(f, p) = r /\ NextOf(f, r) = b /\ ~Used(f, r)
      /\ \A q \in Items(h) : /\ Used(f, q) = Used(h, q)
                             /\ q # p => NextOf(f, q) = NextOf(h, q)
  BY SplitItems
<1>2. Items(g) = Items(f) /\ \A q : Used(g, q) = Used(f, q) /\ NextOf(g, q) = NextOf(f, q)
  BY DEF Items, Used, NextOf
<1> HIDE DEF f
<1>3. /\ p \in Nat /\ b \in Items(h) /\ b \in Nat /\ b <= End
      /\ Items(h) \subseteq Nat /\ 0 \in Items(h) /\ End \in Items(h)
      /\ \A q \in Items(h) : q <= p \/ b <= q
  BY ItemProps
<1>4. u \in BOOLEAN
  BY DEF Shape, Item, Used
<1>5. PICK k : Counts(h, k) /\ h.used = k[End]
  BY DEF Counted
<1>6. /\ \A q \in Items(h) : k[q] \in Nat
      /\ \A q, x \in Items(h) : q <= x => k[q] <= k[x]
      /\ k[0] = 0
      /\ \A q \in Items(h) \ {End} :
            k[NextOf(h, q)] = k[q] + (IF Used(h, q) THEN NextOf(h, q) - q ELSE 0)
  BY <1>5 DEF Counts
<1> HIDE DEF u, r, b
<1>7. k[b] = k[p] + (IF u THEN b - p ELSE 0)
  BY <1>6 DEF b, u
<1>8. s \in Nat /\ g.used = h.used - s /\ h.used \in Nat
  BY <1>1, <1>3, <1>4, <1>5, <1>6 DEF u, r, b
<1> DEFINE x == IF u THEN r - p ELSE 0
           D(q) == IF q = r THEN k[p] + x ELSE IF q <= p THEN k[q] ELSE k[q] - s
           d == [q \in Items(f) |-> D(q)]
<1>9. x \in Nat /\ k[b] = k[p] + x + s
  BY <1>1, <1>3, <1>4, <1>6, <1>7
<1> HIDE DEF s, x
<1>10. \A q \in Items(h) : ~(q <= p) => k[q] >= k[p] + x + s
  BY <1>3, <1>6, <1>9
<1>11. \A q \in Items(f) : D(q) \in Nat
  BY <1>1, <1>3, <1>6, <1>8, <1>9, <1>10
<1>12. \A q, y \in Items(f) : q <= y => D(q) <= D(y)
  <2> SUFFICES ASSUME NEW q \in Items(f), NEW y \in Items(f), q <= y PROVE D(q) <= D(y)
    OBVIOUS
  <2>1. q \in Nat /\ y \in Nat /\ k[p] \in Nat
    BY <1>1, <1>3, <1>6
  <2>2. CASE q = r \/ y = r
    <3>1. CASE q = r
      BY <2>1, <3>1, <1>1, <1>3, <1>6, <1>8, <1>9, <1>10
    <3>2. CASE y = r /\ q # r
      <4>1. q \in Items(h) /\ q <= p
        BY <2>1, <3>2, <1>1, <1>3
      <4>2. k[q] <= k[p] /\ k[q] \in Nat
        BY <4>1, <1>6
      <4> QED BY <4>1, <4>2, <3>2, <2>1, <1>1, <1>9
    <3> QED BY <2>2, <3>1, <3>2
  <2>3. CASE q # r /\ y # r
    <3>1. q \in Items(h) /\ y \in Items(h) /\ k[q] <= k[y] /\ k[q] \in Nat /\ k[y] \in Nat
      BY <2>3, <1>1, <1>6
    <3>2. CASE q <= p /\ ~(y <= p)
      <4>1. k[q] <= k[p] /\ k[y] >= k[p] + x + s
        BY <3>1, <3>2, <1>6, <1>10
      <4> QED BY <4>1, <3>1, <3>2, <2>1, <2>3, <1>8, <1>9
    <3>3. CASE ~(q <= p /\ ~(y <= p))
      BY <2>1, <2>3, <3>1, <3>3, <1>3, <1>8
    <3> QED BY <3>2, <3>3
  <2> QED BY <2>2, <2>3
<1>13. \A q \in Items(f) \ {End} :
         D(NextOf(f, q)) = D(q) + (IF Used(f, q) THEN NextOf(f, q) - q ELSE 0)
  <2> SUFFICES ASSUME NEW q \in Items(f) \ {End}
               PROVE  D(NextOf(f, q)) = D(q) + (IF Used(f, q) THEN NextOf(f, q) - q ELSE 0)
    OBVIOUS
  <2>1. CASE q = p
    <3>1. D(NextOf(f, q)) = k[p] + x /\ D(q) = k[p] /\ NextOf(f, q) - q = r - p
      BY <2>1, <1>1, <1>3
    <3>2. Used(f, q) = u
      BY <2>1, <1>1 DEF u
    <3> QED BY <3>1, <3>2 DEF x
  <2>2. CASE q = r
    <3>1. D(NextOf(f, q)) = k[b] - s /\ D(q) = k[p] + x
      BY <2>2, <1>1, <1>3
    <3>2. ~Used(f, q) /\ k[p] \in Nat /\ k[b] \in Nat
      BY <2>2, <1>1, <1>3, <1>6
    <3> HIDE DEF D
    <3> QED BY <3>1, <3>2, <1>8, <1>9
  <2>3. CASE q # p /\ q # r
    <3>1. q \in Items(h) \ {End} /\ NextOf(f, q) = NextOf(h, q) /\ Used(f, q) = Used(h, q)
      BY <2>3, <1>1
    <3>2. NextOf(h, q) \in Items(h) /\ q < NextOf(h, q)
          /\ \A y \in Items(h) : y <= q \/ NextOf(h, q) <= y
      BY <3>1, ItemProps
    <3>3. k[NextOf(h, q)] = k[q] + (IF Used(h, q) THEN NextOf(h, q) - q ELSE 0)
          /\ k[q] \in Nat /\ k[NextOf(h, q)] \in Nat
      BY <3>1, <3>2, <1>6
    <3>4. CASE q < p
      <4>1. NextOf(h, q) <= p /\ NextOf(h, q) # r /\ q <= p
        BY <3>2, <3>4, <1>1, <1>3
      <4> QED BY <4>1, <2>3, <3>1, <3>3
    <3>5. CASE ~(q < p)
      <4>1. ~(NextOf(h, q) <= p) /\ NextOf(h, q) # r /\ ~(q <= p)
        BY <2>3, <3>1, <3>2, <3>5, <1>1, <1>3
      <4>2. D(NextOf(f, q)) = k[NextOf(h, q)] - s /\ D(q) = k[q] - s
        BY <4>1, <2>3, <3>1
      <4>3. q \in Nat /\ NextOf(h, q) \in Nat
        BY <3>1, <3>2, <1>3
      <4> HIDE DEF D
      <4> QED BY <4>2, <4>3, <3>1, <3>3, <1>8
    <3> QED BY <3>4, <3>5
  <2> QED BY <2>1, <2>2, <2>3
<1>14. D(0) = 0 /\ D(End) = g.used
  <2>1. ~(End <= p) /\ End # r /\ 0 # r /\ 0 <= p
    BY <1>1, <1>3, Numbers
  <2> QED BY <2>1, <1>5, <1>6, <1>8
<1> HIDE DEF D
<1>15. d \in [Items(f) -> Nat] /\ \A q \in Items(f) : d[q] = D(q)
  BY <1>11
<1> HIDE DEF d
<1>16. 0 \in Items(f) /\ End \in Items(f) /\ \A q \in Items(f) \ {End} : NextOf(f, q) \in Items(f)
  BY SplitItems, ItemProps DEF f
<1>17. Counts(g, d)
  <2>1. /\ d \in [Items(g) -> Nat] /\ d[0] = 0
        /\ \A q, y \in Items(g) : q <= y => d[q] <= d[y]
    BY <1>2, <1>12, <1>14, <1>15, <1>16
  <2>2. ASSUME NEW q \in Items(g) \ {End}
        PROVE  d[NextOf(g, q)] = d[q] + (IF Used(g, q) THEN NextOf(g, q) - q ELSE 0)
    BY <1>2, <1>13, <1>15, <1>16
  <2> QED BY <2>1, <2>2 DEF Counts
<1>18. g.used = d[End]
  BY <1>14, <1>15, <1>16
<1> QED BY <1>17, <1>18 DEF Counted

\* when lfree has been allocated, the search behind it finds the lowest free item
LEMMA LowestFreeProps ==
    ASSUME NEW h, Shape(h), Tiled(h), Counted(h), Apart(h), h.lfree \in Items(h),
           \A q \in Items(h) : q < h.lfree => Used(h, q)
    PROVE  LET g == LowestFree(h)
           IN  HInv(g) /\ g.item = h.item
<1> DEFINE g == LowestFree(h)
<1>1. CASE ~Used(h, h.lfree) \/ h.lfree = End
  <2>1. g = h
    BY <1>1 DEF LowestFree
  <2> QED BY <2>1, <1>1 DEF HInv, LfreeLowest
<1>2. CASE Used(h, h.lfree) /\ h.lfree # End
  <2> DEFINE S == {p \in Items(h) : p > h.lfree /\ ~Used(h, p)} \cup {End}
             m == Min(S)
  <2>1. Items(h) \subseteq Nat /\ End \in Items(h)
    BY ItemProps
  <2>2. m \in S /\ \A q \in S : m <= q
    <3>1. S \subseteq Nat /\ S # {}
      BY <2>1, Numbers
    <3> QED BY <3>1, LeastProps
  <2>3. m \in Items(h) /\ (m = End \/ ~Used(h, m))
    BY <2>1, <2>2
  <2>4. \A q \in Items(h) : q < m => Used(h, q)
    <3> SUFFICES ASSUME NEW q \in Items(h), q < m, ~Used(h, q) PROVE FALSE
      OBVIOUS
    <3>1. ~(q < h.lfree) /\ q # h.lfree
      BY <1>2
    <3>2. q > h.lfree
      BY <3>1, <2>1
    <3>3. q \in S
      BY <3>2
    <3> HIDE DEF m, S
    <3> QED BY <3>3, <2>1, <2>2, <2>3
  <2>5. g = [h EXCEPT !.lfree = m]
    BY <1>2 DEF LowestFree
  <2> HIDE DEF m, g
  <2>6. [h EXCEPT !.lfree = m] = Rec(h.item, m, h.used)
    BY HeapUpdate
  <2>7. g.item = h.item /\ g.lfree = m /\ g.used = h.used /\ g = Rec(g.item, g.lfree, g.used)
    BY <2>5, <2>6 DEF Rec
  <2>8. Items(g) = Items(h) /\ \A q : Used(g, q) = Used(h, q) /\ NextOf(g, q) = NextOf(h, q)
    BY <2>7 DEF Items, Used, NextOf
  <2>9. Shape(g)
    BY <2>7, <2>8 DEF Shape
  <2>10. Tiled(g)
    <3>1. \A q \in Items(g) \ {End} : Behind(g, q, NextOf(g, q))
      BY <2>7, <2>8 DEF Tiled, Behind
    <3> QED BY <3>1, <2>7, <2>8 DEF Tiled
  <2>11. Counted(g)
    <3>1. \A c : Counts(h, c) => Counts(g, c)
      BY <2>8 DEF Counts
    <3> QED BY <3>1, <2>7 DEF Counted
  <2>12. LfreeLowest(g) /\ Apart(g)
    BY <2>3, <2>4, <2>7, <2>8 DEF LfreeLowest, Apart
  <2> QED BY <2>7, <2>9, <2>10, <2>11, <2>12 DEF HInv, g
<1>3. Used(h, h.lfree) \in BOOLEAN
  BY DEF Shape, Item, Used
<1> QED BY <1>1, <1>2, <1>3

\* rt_smem_alloc takes a free item, leaves it with the room asked for and touches no other
LEMMA AllocProps ==
    ASSUME NEW h, HInv(h), NEW n \in Nat \ {0}, n % Align = 0, Fitting(h, n) # {}
    PROVE  LET p == Min(Fitting(h, n))
               g == Alloc(h, n)
           IN  /\ p \in Items(h) \ {End} /\ ~Used(h, p)
               /\ HInv(g) /\ UsedItems(g) = UsedItems(h) \cup {p}
               /\ Keeps(h, g, UsedItems(h)) /\ Room(g, p) >= n
<1> DEFINE p == Min(Fitting(h, n))
           cut == Room(h, p) >= n + Header + MinAligned
           h1 == IF cut THEN Split(h, p, n) ELSE h
           u == TRUE
           v == h1.used + (NextOf(h1, p) - p)
           m == h1.lfree
           g == Mark(h1, p, u, m, v)
           r == Rest(p, n)
<1>1. Shape(h) /\ Tiled(h) /\ Counted(h) /\ LfreeLowest(h) /\ Apart(h)
  BY DEF HInv
<1>2. Items(h) \subseteq Nat /\ h.lfree \in Items(h) /\ h.used \in Int
  BY <1>1, ItemProps DEF LfreeLowest, Shape
<1>3. p \in Fitting(h, n)
  BY <1>2, LeastProps DEF Fitting
<1>4. Alloc(h, n) = LowestFree(g)
  BY DEF Alloc, Mark, Rec
<1> HIDE DEF p
<1>5. p \in Items(h) \ {End} /\ ~Used(h, p) /\ h.lfree <= p /\ Room(h, p) >= n
  BY <1>1, <1>3 DEF Fitting, Tiled
<1>6. p \in Nat /\ NextOf(h, p) \in Items(h) /\ NextOf(h, p) \in Nat
      /\ Room(h, p) = NextOf(h, p) - p - Header /\ p < NextOf(h, p)
  BY <1>1, <1>2, <1>5, ItemProps DEF Room
<1>7. cut => r + Header < NextOf(h, p)
  BY <1>6, Numbers DEF Rest
<1>8. /\ Shape(h1) /\ Tiled(h1) /\ h1.lfree = h.lfree /\ h1.used = h.used
      /\ p \in Items(h1) \ {End}
      /\ \A q \in Items(h) : /\ q \in Items(h1) /\ Used(h1, q) = Used(h, q)
                             /\ q # p => NextOf(h1, q) = NextOf(h, q)
      /\ \A q \in Items(h1) : q \in Items(h) \/ q = r
  BY <1>1, <1>5, <1>7, SplitItems
<1>9. cut => /\ r \notin Items(h) /\ r \in Items(h1) /\ ~Used(h1, r) /\ p < r
             /\ NextOf(h1, p) = r /\ NextOf(h1, r) = NextOf(h, p)
  BY <1>1, <1>5, <1>7, SplitItems
<1>10. Counted(h1)
  <2>1. cut => Counted(h1)
    BY <1>1, <1>5, <1>7, <1>8, SplitCounted
  <2> QED BY <2>1, <1>1
<1>11. ~cut => h1 = h
  OBVIOUS
<1> HIDE DEF h1
<1>12. NextOf(h1, p) - p - Header >= n /\ NextOf(h1, p) \in Nat
  <2>1. CASE cut
    BY <2>1, <1>2, <1>6, <1>8, <1>9, Numbers, ItemProps DEF Rest
  <2>2. CASE ~cut
    BY <2>2, <1>5, <1>6, <1>11
  <2> QED BY <2>1, <2>2
<1>14. /\ m \in Items(h1) /\ v \in Int /\ u \in BOOLEAN /\ u /\ u # Used(h1, p)
       /\ v = IF u THEN h1.used + (NextOf(h1, p) - p) ELSE h1.used - (NextOf(h1, p) - p)
  <2>1. Used(h1, p) \in BOOLEAN /\ ~Used(h1, p)
    BY <1>5, <1>8 DEF Shape, Item, Used
  <2>2. m \in Items(h1) /\ v \in Int
    BY <1>2, <1>6, <1>8, <1>12
  <2> QED BY <2>1, <2>2
<1> HIDE DEF u, v, m
<1>15. /\ Shape(g) /\ Tiled(g) /\ Items(g) = Items(h1) /\ g.lfree = m /\ Used(g, p)
       /\ \A q \in Items(h1) : /\ NextOf(g, q) = NextOf(h1, q)
                               /\ q # p => Used(g, q) = Used(h1, q)
  <2>3. /\ Shape(h1) /\ Tiled(h1) /\ p \in Items(h1) \ {End} /\ u \in BOOLEAN
        /\ m \in Items(h1) /\ v \in Int
    BY <1>8, <1>14
  <2>1. Used(g, p) = u
    BY <2>3, MarkItems
  <2>2. /\ Shape(g) /\ Tiled(g) /\ Items(g) = Items(h1) /\ g.lfree = m
        /\ \A q \in Items(h1) : /\ NextOf(g, q) = NextOf(h1, q)
                                /\ q # p => Used(g, q) = Used(h1, q)
    BY <2>3, MarkItems
  <2> HIDE DEF g
  <2> QED BY <2>1, <2>2, <1>14
<1>16. Counted(g)
  BY <1>8, <1>10, <1>14, MarkCounted
<1> HIDE DEF g
<1>17. Apart(g)
  <2> SUFFICES ASSUME NEW q \in Items(g), ~Used(g, q) PROVE Used(g, NextOf(g, q))
    BY DEF Apart
  <2>1. q # p /\ q \in Items(h1) /\ ~Used(h1, q) /\ NextOf(g, q) = NextOf(h1, q)
    BY <1>15
  <2>2. \A x \in Items(h) : Used(h, x) => Used(g, x)
    BY <1>5, <1>8, <1>15
  <2>3. CASE q \in Items(h)
    <3>1. q # End /\ NextOf(h1, q) = NextOf(h, q) /\ Used(h, NextOf(h, q))
      BY <2>1, <2>3, <1>1, <1>8 DEF Apart, Tiled
    <3>2. NextOf(h, q) \in Items(h)
      BY <3>1, <2>3, <1>1, ItemProps
    <3> QED BY <3>1, <3>2, <2>1, <2>2
  <2>4. CASE q \notin Items(h)
    <3>1. cut /\ q = r
      BY <2>1, <2>4, <1>8, <1>11
    <3>2. Used(h, NextOf(h, p))
      BY <1>1, <1>5 DEF Apart
    <3> QED BY <3>1, <3>2, <2>1, <2>2, <1>6, <1>9
  <2> QED BY <2>3, <2>4
<1>18. g.lfree \in Items(g) /\ \A q \in Items(g) : q < g.lfree => Used(g, q)
  <2>1. ASSUME NEW q \in Items(g), q < g.lfree PROVE Used(g, q)
    <3>1. q < h.lfree
      BY <2>1, <1>8, <1>15 DEF m
    <3>2. q \in Items(h)
      <4>1. CASE q \notin Items(h)
        <5>1. cut /\ q = r
          BY <4>1, <1>8, <1>11, <1>15
        <5>2. p < q /\ q \in Nat /\ h.lfree \in Nat
          BY <5>1, <1>2, <1>8, <1>9, <1>15, ItemProps
        <5> QED BY <5>2, <3>1, <1>5, <1>6
      <4> QED BY <4>1
    <3>3. Used(h, q) /\ q # p
      BY <3>1, <3>2, <1>1, <1>5 DEF LfreeLowest
    <3> QED BY <3>2, <3>3, <1>8, <1>15
  <2> QED BY <2>1, <1>14, <1>15
<1> DEFINE f == LowestFree(g)
<1>19. HInv(f) /\ f.item = g.item
  BY <1>15, <1>16, <1>17, <1>18, LowestFreeProps
<1>20. f = Alloc(h, n)
  BY <1>4
<1> HIDE DEF f
<1>21. Items(f) = Items(g) /\ \A q : Used(f, q) = Used(g, q) /\ NextOf(f, q) = NextOf(g, q)
  BY <1>19 DEF Items, Used, NextOf
<1>22. UsedItems(f) = UsedItems(h) \cup {p}
  <2>1. ASSUME NEW q \in UsedItems(f) PROVE q \in UsedItems(h) \cup {p}
    <3>1. q \in Items(h1) /\ Used(g, q)
      BY <1>15, <1>21 DEF UsedItems
    <3>2. CASE q # p
      <4>1. Used(h1, q)
        BY <3>1, <3>2, <1>15
      <4>2. q \in Items(h)
        BY <3>1, <4>1, <1>8, <1>9, <1>11
      <4> QED BY <4>1, <4>2, <1>8 DEF UsedItems
    <3> QED BY <3>2
  <2>2. ASSUME NEW q \in UsedItems(h) \cup {p} PROVE q \in UsedItems(f)
    BY <1>5, <1>8, <1>15, <1>21 DEF UsedItems
  <2> QED BY <2>1, <2>2
<1>23. Keeps(h, f, UsedItems(h))
  BY <1>5, <1>8, <1>15, <1>21 DEF Keeps, UsedItems
<1>24. Room(f, p) >= n
  BY <1>8, <1>12, <1>15, <1>21 DEF Room
<1> QED BY <1>5, <1>19, <1>20, <1>22, <1>23, <1>24 DEF p

\* rt_smem_realloc of a block that is much too large gives the rest back
Cut(h, p, m) ==
    LET f == Split(h, p, m)
    IN  plug_holes([item |-> f.item, lfree |-> Min({f.lfree, Rest(p, m)}),
                    used |-> f.used - (Room(h, p) - m)], Rest(p, m))

LEMMA CutProps ==
    ASSUME NEW h, HInv(h), NEW p \in UsedItems(h) \ {End}, NEW m \in Nat \ {0},
           m % Align = 0, m + Header < Room(h, p)
    PROVE  LET g == Cut(h, p, m)
           IN  /\ HInv(g) /\ UsedItems(g) = UsedItems(h)
               /\ Keeps(h, g, UsedItems(h) \ {p}) /\ Room(g, p) = m
<1> DEFINE f == Split(h, p, m)
           r == Rest(p, m)
           l == Min({f.lfree, r})
           v == f.used - (Room(h, p) - m)
           g == Rec(f.item, l, v)
<1>1. /\ Shape(h) /\ Tiled(h) /\ Counted(h) /\ LfreeLowest(h) /\ Apart(h)
      /\ p \in Items(h) \ {End} /\ Used(h, p)
  BY DEF HInv, UsedItems
<1>2. /\ Items(h) \subseteq Nat /\ h.lfree \in Items(h) /\ NextOf(h, p) \in Items(h)
      /\ h.used \in Int
  BY <1>1, ItemProps DEF LfreeLowest, Shape
<1>3. /\ p \in Nat /\ NextOf(h, p) \in Nat /\ Room(h, p) = NextOf(h, p) - p - Header
      /\ r = p + Header + m /\ r + Header < NextOf(h, p)
      /\ Room(h, p) - m = NextOf(h, p) - r
  BY <1>1, <1>2, Numbers DEF Room, Rest
<1>4. /\ Shape(f) /\ Tiled(f) /\ f.lfree = h.lfree /\ f.used = h.used
      /\ r \in Nat /\ r \notin Items(h) /\ Items(f) = Items(h) \cup {r}
      /\ p < r /\ r < NextOf(h, p)
      /\ NextOf(f, p) = r /\ NextOf(f, r) = NextOf(h, p) /\ ~Used(f, r)
  BY <1>1, <1>3, SplitItems
<1>5. \A q \in Items(h) : Used(f, q) = Used(h, q) /\ (q # p => NextOf(f, q) = NextOf(h, q))
  BY <1>1, <1>3, SplitItems
<1>6. Cut(h, p, m) = plug_holes(g, r)
  BY DEF Cut, Rec
<1>7. g.item = f.item /\ g.lfree = l /\ g.used = v /\ g = Rec(g.item, g.lfree, g.used)
  BY DEF Rec
<1>8. v = h.used - (NextOf(h, p) - r) /\ v \in Int
  BY <1>2, <1>3, <1>4
<1>9. Counted(g)
  <2>1. g.used = IF Used(h, p) THEN h.used - (NextOf(h, p) - r) ELSE h.used
    BY <1>1, <1>7, <1>8
  <2> HIDE DEF g
  <2> QED BY <1>1, <1>3, <1>7, <2>1, SplitCounted
<1>10. l \in {h.lfree, r} /\ l <= h.lfree /\ l <= r
  BY <1>2, <1>4, LowerProps
<1> HIDE DEF f, g, l, v, r
<1>11. Items(g) = Items(f) /\ \A q : Used(g, q) = Used(f, q) /\ NextOf(g, q) = NextOf(f, q)
  BY <1>7 DEF Items, Used, NextOf
<1>12. Shape(g) /\ Tiled(g)
  <2>1. Shape(g)
    BY <1>4, <1>7, <1>8, <1>11 DEF Shape
  <2>2. \A q \in Items(g) \ {End} : Behind(g, q, NextOf(g, q))
    BY <1>4, <1>7, <1>11 DEF Tiled, Behind
  <2> QED BY <2>1, <2>2, <1>4, <1>7, <1>11 DEF Tiled
<1>13. LfreeLowest(g)
  <2>1. g.lfree \in Items(g) /\ (g.lfree = End \/ ~Used(g, g.lfree))
    BY <1>1, <1>2, <1>4, <1>5, <1>7, <1>10, <1>11 DEF LfreeLowest
  <2>2. ASSUME NEW q \in Items(g), q < g.lfree PROVE Used(g, q)
    <3>1. q < h.lfree /\ q # r
      BY <2>2, <1>2, <1>4, <1>7, <1>10, <1>11
    <3> QED BY <3>1, <1>1, <1>4, <1>5, <1>11 DEF LfreeLowest
  <2> QED BY <2>1, <2>2 DEF LfreeLowest
<1>14. r \in Items(g) \ {End} /\ ~Used(g, r)
  BY <1>1, <1>4, <1>11, ItemProps
<1>15. ApartBut(g, r)
  <2> SUFFICES ASSUME NEW q \in Items(g), ~Used(g, q), q # r PROVE Used(g, NextOf(g, q))
    BY DEF ApartBut
  <2>1. q \in Items(h) /\ ~Used(h, q) /\ q # p /\ q # End /\ NextOf(g, q) = NextOf(h, q)
    BY <1>1, <1>4, <1>5, <1>11 DEF Tiled
  <2>2. Used(h, NextOf(h, q)) /\ NextOf(h, q) \in Items(h)
    BY <2>1, <1>1, ItemProps DEF Apart
  <2> QED BY <2>1, <2>2, <1>5, <1>11
<1> DEFINE e == plug_holes(g, r)
<1>16. HInv(e) /\ UsedItems(e) = UsedItems(g) /\ Keeps(g, e, UsedItems(g))
  BY <1>9, <1>12, <1>13, <1>14, <1>15, PlugProps
<1> HIDE DEF e
<1>17. UsedItems(g) = UsedItems(h)
  BY <1>4, <1>5, <1>11 DEF UsedItems
<1>18. Keeps(h, e, UsedItems(h) \ {p})
  BY <1>16, <1>17, <1>5, <1>11 DEF Keeps, UsedItems
<1>19. NextOf(e, p) = r
  BY <1>16, <1>17, <1>4, <1>11 DEF Keeps
<1>20. Room(e, p) = m
  BY <1>19, <1>3, Numbers DEF Room
<1> QED BY <1>6, <1>16, <1>17, <1>18, <1>20 DEF e

\* parent.used is the sum over the used items: the count of the invariant is the walk
LEMMA UsedBytesProps ==
    ASSUME NEW h, HInv(h)
    PROVE  h.used = UsedBytes(h) /\ h.used \in Nat
<1> DEFINE F(c) == [q \in Items(h) |->
                       IF q = 0 THEN 0
                       ELSE c[Before(h, q)]
                                + (IF Used(h, Before(h, q)) THEN q - Before(h, q) ELSE 0)]
           count == CHOOSE c : c = F(c)
<1>1. Shape(h) /\ Tiled(h) /\ Counted(h)
  BY DEF HInv
<1>2. Items(h) \subseteq Nat /\ 0 \in Items(h) /\ End \in Items(h)
  BY <1>1, ItemProps
<1>3. ASSUME NEW q \in Items(h) \ {0}
      PROVE  /\ Before(h, q) \in Items(h) \ {End} /\ NextOf(h, Before(h, q)) = q
             /\ Before(h, q) < q
  <2>1. \E p \in Items(h) \ {End} : NextOf(h, p) = q
    BY <1>1, FrontProps
  <2>2. Before(h, q) \in Items(h) \ {End} /\ NextOf(h, Before(h, q)) = q
    BY <2>1 DEF Before
  <2> QED BY <2>2, <1>1, ItemProps
<1>4. PICK k : Counts(h, k) /\ h.used = k[End]
  BY <1>1 DEF Counted
<1>5. k \in [Items(h) -> Nat] /\ k[0] = 0
  BY <1>4 DEF Counts
<1>6. ASSUME NEW q \in Items(h) \ {0}
      PROVE  k[q] = k[Before(h, q)] + (IF Used(h, Before(h, q)) THEN q - Before(h, q) ELSE 0)
  BY <1>3, <1>4 DEF Counts
<1>7. k = F(k)
  BY <1>5, <1>6
<1>8. count = F(count)
  <2> HIDE DEF F
  <2> QED BY <1>7
<1>9. UsedBytes(h) = count[End]
  BY DEF UsedBytes
<1> HIDE DEF count
<1> DEFINE S == {q \in Items(h) : count[q] # k[q]}
<1>10. S = {}
  <2> SUFFICES ASSUME S # {} PROVE FALSE
    OBVIOUS
  <2> DEFINE q == Min(S)
  <2>1. q \in S /\ \A x \in S : q <= x
    BY <1>2, LeastProps
  <2> HIDE DEF q
  <2>2. q \in Items(h) /\ count[q] # k[q]
    BY <2>1
  <2>3. q # 0
    BY <2>2, <1>2, <1>5, <1>8
  <2>4. Before(h, q) \in Items(h) /\ Before(h, q) < q
    BY <2>2, <2>3, <1>3
  <2>5. Before(h, q) \notin S
    BY <2>1, <2>2, <2>4, <1>2
  <2>6. count[Before(h, q)] = k[Before(h, q)]
    BY <2>4, <2>5
  <2>7. count[q] = count[Before(h, q)]
                      + (IF Used(h, Before(h, q)) THEN q - Before(h, q) ELSE 0)
    BY <2>2, <2>3, <1>8
  <2> QED BY <2>2, <2>3, <2>6, <2>7, <1>6
<1>11. count[End] = k[End]
  BY <1>2, <1>10
<1> QED BY <1>2, <1>4, <1>5, <1>9, <1>11
-----------------------------------------------------------------------------
(***************************************************************************)
(* The specification                                                       *)
(***************************************************************************)
\* the used items are the blocks that callers hold
HeldOK ==
    /\ UsedItems(heap) = DOMAIN live \cup {End} /\ End \notin DOMAIN live
    /\ live = [p \in DOMAIN live |-> live[p]]
    /\ \A p \in DOMAIN live : live[p] \in Request /\ Room(heap, p) >= live[p]

HeapInv == HInv(heap) /\ HeldOK

LEMMA HeapInvMeaning ==
    ASSUME HeapInv PROVE TypeOK /\ BlocksTile /\ NoAdjacentFree /\ FitIsFound /\ HeldBlocksKept
<1>1. /\ Shape(heap) /\ Tiled(heap) /\ Counted(heap) /\ LfreeLowest(heap) /\ Apart(heap)
      /\ HeldOK
  BY DEF HeapInv, HInv
<1>2. heap.used = UsedBytes(heap) /\ heap.used \in Nat
  BY UsedBytesProps DEF HeapInv
<1>3. TypeOK
  <2>1. DOMAIN live \subseteq Items(heap)
    BY <1>1 DEF HeldOK, UsedItems
  <2>2. live \in [DOMAIN live -> Request]
    BY <1>1 DEF HeldOK
  <2> QED BY <2>1, <2>2, <1>1, <1>2 DEF TypeOK, Shape, LfreeLowest
<1>4. BlocksTile
  BY <1>1 DEF BlocksTile, Tiled, Behind
<1>5. NoAdjacentFree
  BY <1>1 DEF NoAdjacentFree, Apart
<1>6. FitIsFound
  <2> SUFFICES ASSUME NEW n \in Request, NEW p \in Items(heap), ~Used(heap, p),
                      Room(heap, p) >= DataSize(n)
               PROVE  Fitting(heap, DataSize(n)) # {}
    BY DEF FitIsFound
  <2>1. DataSize(n) \in Nat
    BY DataSizeProps
  <2>2. p # End
    BY <1>1 DEF Tiled
  <2>3. p \in Nat /\ heap.lfree \in Nat /\ NextOf(heap, p) \in Nat /\ NextOf(heap, p) <= End
    BY <2>2, <1>1, ItemProps DEF LfreeLowest
  <2>4. heap.lfree <= p
    BY <2>3, <1>1 DEF LfreeLowest
  <2>5. p <= Size - DataSize(n)
    BY <2>1, <2>3, Numbers DEF Room
  <2> QED BY <2>4, <2>5 DEF Fitting
<1>7. HeldBlocksKept
  BY <1>1, <1>2 DEF HeldBlocksKept, HeldOK, UsedItems
<1> QED BY <1>3, <1>4, <1>5, <1>6, <1>7

LEMMA HeapInitInv == ASSUME Init PROVE HeapInv
<1> DEFINE S == {0, End}
           i == [p \in S |-> [used |-> p = End, next |-> End, prev |-> p]]
<1>1. heap = Rec(i, 0, 0)
  BY DEF Init, Rec
<1>2. heap.item = i /\ heap.lfree = 0 /\ heap.used = 0 /\ Items(heap) = S
  BY <1>1 DEF Rec, Items
<1>3. /\ 0 \in S /\ End \in S /\ \A p \in S : p = 0 \/ p = End
      /\ End \in Nat /\ 0 < End /\ 0 + Header < End /\ Offset = 0 .. End
  BY Numbers
<1>4. /\ i[0] = [used |-> FALSE, next |-> End, prev |-> 0]
      /\ i[End] = [used |-> TRUE, next |-> End, prev |-> End]
      /\ i \in [S -> Item]
  <2> DEFINE it(p) == [used |-> p = End, next |-> End, prev |-> p]
  <2>1. (0 = End) = FALSE /\ (End = End) = TRUE
    BY <1>3
  <2>2. it(0) = [used |-> FALSE, next |-> End, prev |-> 0]
    BY <2>1
  <2>3. it(End) = [used |-> TRUE, next |-> End, prev |-> End]
    BY <2>1
  <2>4. it(0) \in Item /\ it(End) \in Item
    BY <2>2, <2>3, <1>3 DEF Item
  <2>5. i = [p \in S |-> it(p)]
    OBVIOUS
  <2> HIDE DEF it, i
  <2>6. i[0] = it(0) /\ i[End] = it(End) /\ i \in [S -> Item]
    BY <2>4, <2>5, <1>3
  <2> QED BY <2>2, <2>3, <2>6
<1> HIDE DEF i, S
<1>5. ~Used(heap, 0) /\ Used(heap, End) /\ NextOf(heap, 0) = End /\ NextOf(heap, End) = End
      /\ heap.item[0].prev = 0
  BY <1>2, <1>4 DEF Used, NextOf
<1>6. Shape(heap)
  <2>1. heap = Rec(heap.item, heap.lfree, heap.used)
    BY <1>1, <1>2
  <2>2. S \subseteq Offset /\ {0, End} \subseteq S
    BY <1>3
  <2> QED BY <2>1, <2>2, <1>2, <1>4 DEF Shape
<1>7. Tiled(heap)
  <2>1. 0 % Align = 0 /\ End % Align = 0
    BY Numbers
  <2>2. ASSUME NEW p \in S \ {End} PROVE Behind(heap, p, NextOf(heap, p))
    <3>1. p = 0 /\ NextOf(heap, p) = End
      BY <1>3, <1>5
    <3>2. \A q \in S : q <= 0 \/ End <= q
      BY <1>3
    <3> QED BY <3>1, <3>2, <1>2, <1>3 DEF Behind
  <2> QED BY <2>1, <2>2, <1>2, <1>3, <1>5 DEF Tiled
<1>8. Counted(heap)
  <2> DEFINE c == [q \in S |-> 0]
  <2>1. c \in [S -> Nat] /\ \A q \in S : c[q] = 0
    OBVIOUS
  <2> HIDE DEF c
  <2>2. \A p \in S \ {End} : p = 0
    BY <1>3
  <2>4. \A p, q \in S : p <= q => c[p] <= c[q]
    BY <2>1
  <2>5. ASSUME NEW p \in S \ {End}
        PROVE  c[NextOf(heap, p)] = c[p] + (IF Used(heap, p) THEN NextOf(heap, p) - p ELSE 0)
    <3>1. ~Used(heap, p) /\ NextOf(heap, p) \in S
      BY <2>2, <1>3, <1>5
    <3> QED BY <3>1, <2>1
  <2>3. Counts(heap, c)
    BY <2>1, <2>4, <2>5, <1>2, <1>3 DEF Counts
  <2> QED BY <2>1, <2>3, <1>2, <1>3 DEF Counted
<1>9. LfreeLowest(heap)
  <2>1. \A p \in S : ~(p < 0)
    BY <1>3
  <2> QED BY <2>1, <1>2, <1>3, <1>5 DEF LfreeLowest
<1>10. Apart(heap)
  BY <1>2, <1>3, <1>5 DEF Apart
<1>11. HeldOK
  <2>1. live = [p \in {} |-> 0] /\ DOMAIN live = {}
    BY DEF Init
  <2>2. UsedItems(heap) = {End}
    BY <1>2, <1>3, <1>5 DEF UsedItems
  <2> QED BY <2>1, <2>2 DEF HeldOK
<1> QED BY <1>6, <1>7, <1>8, <1>9, <1>10, <1>11 DEF HeapInv, HInv

\* a block that a call keeps has the room it had
LEMMA KeepsRoom ==
    ASSUME NEW h, NEW g, NEW S, Keeps(h, g, S), NEW p \in S PROVE Room(g, p) = Room(h, p)
  BY DEF Keeps, Room

LEMMA AllocStep ==
    ASSUME HeapInv, NEW n \in Request, Fitting(heap, DataSize(n)) # {}
    PROVE  LET q == Min(Fitting(heap, DataSize(n)))
               g == Alloc(heap, DataSize(n))
           IN  /\ HInv(g) /\ q \notin DOMAIN live /\ q # End
               /\ UsedItems(g) = DOMAIN live \cup {q} \cup {End}
               /\ \A p \in DOMAIN live : Room(g, p) = Room(heap, p)
               /\ Room(g, q) >= n
<1> DEFINE m == DataSize(n)
           q == Min(Fitting(heap, m))
           g == Alloc(heap, m)
<1>1. m \in Nat \ {0} /\ m >= n /\ m % Align = 0 /\ n \in Nat
  BY DataSizeProps, HeapAssumption
<1>2. HInv(heap) /\ HeldOK /\ UsedItems(heap) = DOMAIN live \cup {End}
  BY DEF HeapInv, HeldOK
<1> HIDE DEF m
<1>3. /\ q \in Items(heap) \ {End} /\ ~Used(heap, q)
      /\ HInv(g) /\ UsedItems(g) = UsedItems(heap) \cup {q}
      /\ Keeps(heap, g, UsedItems(heap)) /\ Room(g, q) >= m
  BY <1>1, <1>2, AllocProps DEF m
<1> HIDE DEF q, g
<1>4. q \notin UsedItems(heap)
  BY <1>3 DEF UsedItems
<1>5. \A p \in DOMAIN live : Room(g, p) = Room(heap, p)
  BY <1>2, <1>3, KeepsRoom
<1>6. Room(g, q) >= n
  <2>1. Shape(g) /\ Tiled(g) /\ q \in Items(g) \ {End}
    BY <1>3 DEF HInv, UsedItems
  <2>2. Room(g, q) \in Int
    BY <2>1, ItemProps, Numbers DEF Room
  <2> QED BY <2>2, <1>1, <1>3
<1> QED BY <1>2, <1>3, <1>4, <1>5, <1>6 DEF q, g, m

LEMMA HeapNextInv == ASSUME HeapInv, [Next]_vars PROVE HeapInv'
<1>1. /\ HInv(heap) /\ UsedItems(heap) = DOMAIN live \cup {End} /\ End \notin DOMAIN live
      /\ live = [p \in DOMAIN live |-> live[p]]
      /\ \A p \in DOMAIN live : live[p] \in Request /\ Room(heap, p) >= live[p]
  BY DEF HeapInv, HeldOK
<1>2. ASSUME NEW n \in Request, rt_smem_alloc(n) PROVE HeapInv'
  <2> DEFINE q == Min(Fitting(heap, DataSize(n)))
  <2>1. /\ HInv(heap') /\ q \notin DOMAIN live /\ q # End
        /\ UsedItems(heap') = DOMAIN live \cup {q} \cup {End}
        /\ \A p \in DOMAIN live : Room(heap', p) = Room(heap, p)
        /\ Room(heap', q) >= n
    BY <1>2, AllocStep DEF rt_smem_alloc
  <2>2. live' = [p \in DOMAIN live \cup {q} |-> IF p = q THEN n ELSE live[p]]
    BY <1>2 DEF rt_smem_alloc, Put
  <2> HIDE DEF q
  <2>3. DOMAIN live' = DOMAIN live \cup {q} /\ live' = [p \in DOMAIN live' |-> live'[p]]
    BY <2>2
  <2>4. \A p \in DOMAIN live' : live'[p] \in Request /\ Room(heap', p) >= live'[p]
    BY <2>1, <2>2, <1>1
  <2> QED BY <2>1, <2>3, <2>4, <1>1 DEF HeapInv, HeldOK
<1>3. ASSUME NEW p \in DOMAIN live, rt_smem_free(p) PROVE HeapInv'
  <2>1. p \in UsedItems(heap) \ {End}
    BY <1>1
  <2>2. /\ HInv(heap') /\ UsedItems(heap') = UsedItems(heap) \ {p}
        /\ Keeps(heap, heap', UsedItems(heap) \ {p})
    BY <2>1, <1>1, <1>3, FreeProps DEF rt_smem_free
  <2>3. live' = [q \in DOMAIN live \ {p} |-> live[q]]
    BY <1>3 DEF rt_smem_free, Restrict
  <2>4. DOMAIN live' = DOMAIN live \ {p} /\ live' = [q \in DOMAIN live' |-> live'[q]]
    BY <2>3
  <2>5. \A q \in DOMAIN live \ {p} : Room(heap', q) = Room(heap, q)
    BY <2>2, <1>1, KeepsRoom
  <2>6. \A q \in DOMAIN live' : live'[q] \in Request /\ Room(heap', q) >= live'[q]
    BY <2>3, <2>4, <2>5, <1>1
  <2>7. UsedItems(heap') = DOMAIN live' \cup {End} /\ End \notin DOMAIN live'
    BY <2>2, <2>4, <1>1
  <2> QED BY <2>2, <2>4, <2>6, <2>7 DEF HeapInv, HeldOK
<1>4. ASSUME NEW p \in DOMAIN live, NEW n \in Request, ReallocSame(p, n) PROVE HeapInv'
  <2>1. heap' = heap /\ live' = [q \in DOMAIN live \cup {p} |-> IF q = p THEN n ELSE live[q]]
    BY <1>4 DEF ReallocSame, Put
  <2>2. Room(heap, p) >= n
    BY <1>4, HeapAssumption, AlignProps DEF ReallocSame
  <2>3. DOMAIN live' = DOMAIN live /\ live' = [q \in DOMAIN live' |-> live'[q]]
    BY <2>1
  <2>4. \A q \in DOMAIN live' : live'[q] \in Request /\ Room(heap', q) >= live'[q]
    BY <2>1, <2>2, <1>1
  <2> QED BY <2>1, <2>3, <2>4, <1>1 DEF HeapInv, HeldOK
<1>5. ASSUME NEW p \in DOMAIN live, NEW n \in Request, ReallocSplit(p, n) PROVE HeapInv'
  <2> DEFINE m == RT_ALIGN(n)
  <2>1. p \in UsedItems(heap) \ {End}
    BY <1>1
  <2>2. m \in Nat \ {0} /\ m % Align = 0 /\ m >= n /\ n \in Nat
    BY HeapAssumption, AlignProps
  <2>3. m + Header < Room(heap, p)
    <3>1. m + Header + MinSize < Room(heap, p)
      BY <1>5 DEF ReallocSplit, Splits
    <3>2. Room(heap, p) \in Int
      BY <2>1, <1>1, ItemProps, Numbers DEF HInv, UsedItems, Room
    <3> QED BY <3>1, <3>2, <2>2, Numbers
  <2>4. heap' = Cut(heap, p, m)
    BY <1>5 DEF ReallocSplit, Cut
  <2> HIDE DEF m
  <2>5. /\ HInv(heap') /\ UsedItems(heap') = UsedItems(heap)
        /\ Keeps(heap, heap', UsedItems(heap) \ {p}) /\ Room(heap', p) = m
    BY <2>1, <2>2, <2>3, <2>4, <1>1, CutProps
  <2>6. live' = [q \in DOMAIN live \cup {p} |-> IF q = p THEN n ELSE live[q]]
    BY <1>5 DEF ReallocSplit, Put
  <2>7. DOMAIN live' = DOMAIN live /\ live' = [q \in DOMAIN live' |-> live'[q]]
    BY <2>6
  <2>8. \A q \in DOMAIN live \ {p} : Room(heap', q) = Room(heap, q)
    BY <2>5, <1>1, KeepsRoom
  <2>9. \A q \in DOMAIN live' : live'[q] \in Request /\ Room(heap', q) >= live'[q]
    BY <2>2, <2>5, <2>6, <2>7, <2>8, <1>1
  <2> QED BY <2>5, <2>7, <2>9, <1>1 DEF HeapInv, HeldOK
<1>6. ASSUME NEW p \in DOMAIN live, NEW n \in Request, ReallocMove(p, n) PROVE HeapInv'
  <2> DEFINE q == Min(Fitting(heap, DataSize(n)))
             g == Alloc(heap, DataSize(n))
  <2>1. /\ HInv(g) /\ q \notin DOMAIN live /\ q # End
        /\ UsedItems(g) = DOMAIN live \cup {q} \cup {End}
        /\ \A x \in DOMAIN live : Room(g, x) = Room(heap, x)
        /\ Room(g, q) >= n
    BY <1>6, AllocStep DEF ReallocMove
  <2>2. heap' = Free(g, p)
    BY <1>6 DEF ReallocMove
  <2>3. live' = [x \in (DOMAIN live \ {p}) \cup {q} |->
                    [y \in DOMAIN live \cup {q} |-> IF y = q THEN n ELSE live[y]][x]]
    BY <1>6 DEF ReallocMove, Put, Restrict
  <2> HIDE DEF q, g
  <2>4. p \in UsedItems(g) \ {End}
    BY <2>1, <1>1
  <2>5. /\ HInv(heap') /\ UsedItems(heap') = UsedItems(g) \ {p}
        /\ Keeps(g, heap', UsedItems(g) \ {p})
    BY <2>1, <2>2, <2>4, FreeProps
  <2>6. p # q /\ DOMAIN live' = (DOMAIN live \ {p}) \cup {q}
        /\ live' = [x \in DOMAIN live' |-> live'[x]]
    BY <2>1, <2>3
  <2>7. live'[q] = n /\ \A x \in DOMAIN live \ {p} : live'[x] = live[x]
    BY <2>1, <2>3
  <2>8. \A x \in (DOMAIN live \ {p}) \cup {q} : Room(heap', x) = Room(g, x)
    BY <2>1, <2>5, <2>6, KeepsRoom
  <2>9. \A x \in DOMAIN live' : live'[x] \in Request /\ Room(heap', x) >= live'[x]
    BY <2>1, <2>6, <2>7, <2>8, <1>1
  <2>10. UsedItems(heap') = DOMAIN live' \cup {End} /\ End \notin DOMAIN live'
    BY <2>1, <2>5, <2>6, <1>1
  <2> QED BY <2>5, <2>6, <2>9, <2>10 DEF HeapInv, HeldOK
<1>7. CASE UNCHANGED vars
  BY <1>7 DEF vars, HeapInv, HeldOK
<1> QED BY <1>2, <1>3, <1>4, <1>5, <1>6, <1>7 DEF Next

\* HeapInv is the inductive invariant of the heap
THEOREM HeapInvariant == Spec => []HeapInv
  BY HeapInitInv, HeapNextInv, PTL DEF Spec

\* the record types, and the count of used bytes never falls below zero
THEOREM HeapTypeCorrect == Spec => []TypeOK
  BY HeapInvariant, HeapInvMeaning, PTL

\* for every heap: no sequence of alloc, realloc and free loses, doubles or misaligns
\* memory (the splits of rt_smem_alloc and rt_smem_realloc, plug_holes)
THEOREM TilesAlways == Spec => []BlocksTile
  BY HeapInvariant, HeapInvMeaning, PTL

\* for every heap: plug_holes leaves no two free items side by side
THEOREM HolesPlugged == Spec => []NoAdjacentFree
  BY HeapInvariant, HeapInvMeaning, PTL

\* for every heap and request: rt_smem_alloc refuses only what fits nowhere
THEOREM FitAlwaysFound == Spec => []FitIsFound
  BY HeapInvariant, HeapInvMeaning, PTL

\* for every heap: the used items are exactly the blocks callers hold, each with the
\* room asked for, and parent.used is their sum
THEOREM BlocksAlwaysKept == Spec => []HeldBlocksKept
  BY HeapInvariant, HeapInvMeaning, PTL
=============================================================================
