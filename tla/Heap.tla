-------------------------------- MODULE Heap --------------------------------
(***************************************************************************)
(* The small memory manager (mem.c), which is the system heap of this      *)
(* build: first fit over a doubly linked list of items that lie one behind *)
(* the other in the heap.  rt_malloc, rt_realloc and rt_free call it with  *)
(* the heap mutex held, so each call is one step.                          *)
(*                                                                         *)
(* An item is known by its offset from heap_ptr.  Memory that is not the   *)
(* header of an item has no content here.                                  *)
(***************************************************************************)
EXTENDS Integers, FiniteSets, FiniteSetsExt, Functions

CONSTANTS Align,     \* RT_ALIGN_SIZE
          Header,    \* SIZEOF_STRUCT_MEM
          MinSize,   \* MIN_SIZE
          Size,      \* mem_size_aligned
          Request    \* the sizes that callers ask for

RT_ALIGN(n) == ((n + Align - 1) \div Align) * Align
MinAligned == RT_ALIGN(MinSize)

ASSUME HeapAssumption ==
    /\ Align \in Nat \ {0}
    /\ Header \in Nat \ {0} /\ Header % Align = 0
    /\ MinSize \in Nat \ {0}
    /\ Size \in Nat /\ Size % Align = 0 /\ Size >= MinAligned
    /\ Request \subseteq Nat \ {0}

VARIABLES heap,   \* the items, lfree and the count of used bytes
          live    \* history: the blocks that callers hold, with the size they asked for

vars == <<heap, live>>

End == Size + Header               \* heap_end
Offset == 0 .. End
Item == [used : BOOLEAN, next : Offset, prev : Offset]

Items(h) == DOMAIN h.item
Used(h, p) == h.item[p].used
NextOf(h, p) == h.item[p].next
Room(h, p) == NextOf(h, p) - p - Header     \* MEM_SIZE

Put(f, p, item) == [q \in DOMAIN f \cup {p} |-> IF q = p THEN item ELSE f[q]]

-----------------------------------------------------------------------------

\* plug_holes: an item that became free is combined with a free one behind it
PlugForward(h, p) ==
    LET n == NextOf(h, p)
    IN  IF Used(h, n) \/ n = End THEN h
        ELSE [h EXCEPT !.lfree = IF @ = n THEN p ELSE @,
                       !.item = Restrict([@ EXCEPT ![p].next = NextOf(h, n),
                                                   ![NextOf(h, n)].prev = p], Items(h) \ {n})]

\* slips for testing the properties: the free item in front is not combined; the
\* item behind keeps its prev
BackwardOmitted(h, p) == h
BackwardKeepsPrev(h, p) ==
    LET b == h.item[p].prev
    IN  IF b = p \/ Used(h, b) THEN h
        ELSE [h EXCEPT !.lfree = IF @ = p THEN b ELSE @,
                       !.item = Restrict([@ EXCEPT ![b].next = NextOf(h, p)], Items(h) \ {p})]

\* and then with a free one in front of it
PlugBackward(h, p) ==
    LET b == h.item[p].prev
    IN  IF b = p \/ Used(h, b) THEN h
        ELSE [h EXCEPT !.lfree = IF @ = p THEN b ELSE @,
                       !.item = Restrict([@ EXCEPT ![b].next = NextOf(h, p),
                                                   ![NextOf(h, p)].prev = b], Items(h) \ {p})]

plug_holes(h, p) == PlugBackward(PlugForward(h, p), p)

\* the item p is cut behind n bytes of data; the rest is a free item at Rest(p, n)
Rest(p, n) == p + Header + n
Split(h, p, n) ==
    LET r == Rest(p, n)
        behind == NextOf(h, p)
        cut == Put([h.item EXCEPT ![p].next = r], r,
                   [used |-> FALSE, next |-> behind, prev |-> p])
    IN  [h EXCEPT !.item = IF behind = End THEN cut ELSE [cut EXCEPT ![behind].prev = r]]

\* the free items from lfree on that have room for n bytes: following next, the
\* search meets the items in the order of their addresses
Fitting(h, n) ==
    {p \in Items(h) : /\ h.lfree <= p /\ p <= Size - n
                      /\ ~Used(h, p) /\ Room(h, p) >= n}

\* the search for the next free item once lfree has been allocated
LowestFree(h) ==
    IF ~Used(h, h.lfree) \/ h.lfree = End THEN h
    ELSE [h EXCEPT !.lfree = Min({p \in Items(h) : p > h.lfree /\ ~Used(h, p)} \cup {End})]

DataSize(n) == Max({RT_ALIGN(n), MinAligned})

\* a slip: the rest of a block that is not cut is not counted
AllocCountsRequest(h, n) ==
    LET p == Min(Fitting(h, n))
        cut == Room(h, p) >= n + Header + MinAligned
        h1 == IF cut THEN Split(h, p, n) ELSE h
    IN  LowestFree([h1 EXCEPT !.used = @ + n + Header,
                           !.item = [@ EXCEPT ![p].used = TRUE]])

\* rt_smem_alloc of n bytes, aligned and at least MinAligned, that finds an item
Alloc(h, n) ==
    LET p == Min(Fitting(h, n))
        cut == Room(h, p) >= n + Header + MinAligned
        h1 == IF cut THEN Split(h, p, n) ELSE h
    IN  LowestFree([item |-> [h1.item EXCEPT ![p].used = TRUE],
                    lfree |-> h1.lfree,
                    used |-> h1.used + (NextOf(h1, p) - p)])

\* a slip: lfree is not lowered
FreeKeepsLfree(h, p) ==
    plug_holes([h EXCEPT !.item = [@ EXCEPT ![p].used = FALSE],
                         !.used = @ - (NextOf(h, p) - p)], p)

Free(h, p) ==
    plug_holes([item |-> [h.item EXCEPT ![p].used = FALSE],
                lfree |-> Min({h.lfree, p}),
                used |-> h.used - (NextOf(h, p) - p)], p)

-----------------------------------------------------------------------------
rt_smem_alloc(n) ==
    /\ Fitting(heap, DataSize(n)) # {}
    /\ heap' = Alloc(heap, DataSize(n))
    /\ live' = Put(live, Min(Fitting(heap, DataSize(n))), n)

rt_smem_free(p) ==
    /\ heap' = Free(heap, p)
    /\ live' = Restrict(live, DOMAIN live \ {p})

\* rt_smem_realloc: the block has the size already
ReallocSame(p, n) ==
    /\ Room(heap, p) = RT_ALIGN(n)
    /\ live' = Put(live, p, n)
    /\ UNCHANGED heap

Splits(p, n) == RT_ALIGN(n) + Header + MinSize < Room(heap, p)

\* it is much larger: the rest is given back
ReallocSplit(p, n) ==
    /\ Splits(p, n)
    /\ LET m == RT_ALIGN(n)
           h == Split(heap, p, m)
       IN  heap' = plug_holes([item |-> h.item,
                               lfree |-> Min({h.lfree, Rest(p, m)}),
                               used |-> h.used - (Room(heap, p) - m)], Rest(p, m))
    /\ live' = Put(live, p, n)

\* it is too small, or not much larger: another block is allocated and this one freed.
\* Without one the call fails and changes nothing.
ReallocMove(p, n) ==
    /\ RT_ALIGN(n) <= Size
    /\ Room(heap, p) # RT_ALIGN(n) /\ ~Splits(p, n)
    /\ Fitting(heap, DataSize(n)) # {}
    /\ heap' = Free(Alloc(heap, DataSize(n)), p)
    /\ live' = Restrict(Put(live, Min(Fitting(heap, DataSize(n))), n),
                        (DOMAIN live \ {p}) \cup {Min(Fitting(heap, DataSize(n)))})

-----------------------------------------------------------------------------
\* rt_smem_init
Init ==
    /\ heap = [item |-> [p \in {0, End} |->
                            [used |-> p = End, next |-> End, prev |-> p]],
               lfree |-> 0, used |-> 0]
    /\ live = [p \in {} |-> 0]

Next ==
    \/ \E n \in Request : rt_smem_alloc(n)
    \/ \E p \in DOMAIN live :
          \/ rt_smem_free(p)
          \/ \E n \in Request : ReallocSame(p, n) \/ ReallocSplit(p, n) \/ ReallocMove(p, n)

Spec == Init /\ [][Next]_vars

-----------------------------------------------------------------------------
\* the type invariant
TypeOK ==
    /\ {0, End} \subseteq Items(heap) /\ Items(heap) \subseteq Offset
    /\ heap.item \in [Items(heap) -> Item]
    /\ heap.lfree \in Items(heap) /\ heap.used \in Nat
    /\ DOMAIN live \subseteq Items(heap) /\ live \in [DOMAIN live -> Request]

\* The items tile the heap: each one's next is the item behind it, whose prev leads
\* back (except at heap_end, whose prev nobody reads), there is a header and some
\* data in between, and all of them are aligned.  No sequence of splits and
\* combinations loses or doubles memory.
BlocksTile ==
    /\ heap.item[0].prev = 0 /\ Used(heap, End)
    /\ \A p \in Items(heap) : p % Align = 0
    /\ \A p \in Items(heap) \ {End} :
          LET n == NextOf(heap, p)
          IN  /\ n \in Items(heap) /\ p + Header < n
              /\ \A q \in Items(heap) : q <= p \/ n <= q
              /\ n # End => heap.item[n].prev = p

\* "if not we have 2 unused structs in a row, plug_holes should have take care of
\* this": two free items never lie side by side.
NoAdjacentFree ==
    \A p \in Items(heap) :
        ~Used(heap, p) => Used(heap, NextOf(heap, p))

\* A request is refused only if no free item is large enough: neither lfree, from
\* where the search starts, nor the limit at which it ends hides one.
FitIsFound ==
    \A n \in Request :
        (\E p \in Items(heap) : ~Used(heap, p) /\ Room(heap, p) >= DataSize(n))
            => Fitting(heap, DataSize(n)) # {}

\* "every data block must be at least MIN_SIZE_ALIGNED long" (mem.c:302): true of what
\* rt_smem_alloc hands out, and not kept by rt_smem_realloc, which cuts a block to
\* whatever smaller size is asked for (mem.c:464).
BlocksHoldMinimum ==
    \A p \in Items(heap) \ {End} : Room(heap, p) >= MinAligned

\* the bytes of the used items in front of heap_end, headers included: a walk along
\* the items adds them up
Before(h, q) == CHOOSE p \in Items(h) \ {End} : NextOf(h, p) = q
UsedBytes(h) ==
    LET count[q \in Items(h)] ==
            IF q = 0 THEN 0
            ELSE count[Before(h, q)]
                     + (IF Used(h, Before(h, q)) THEN q - Before(h, q) ELSE 0)
    IN  count[End]

\* The used items are the blocks that callers hold, each with the room that was asked
\* for, and parent.used is their sum: nothing leaks and no block is handed out twice.
HeldBlocksKept ==
    /\ {p \in Items(heap) : Used(heap, p)} = DOMAIN live \cup {End}
    /\ \A p \in DOMAIN live : Room(heap, p) >= live[p]
    /\ heap.used = UsedBytes(heap)
=============================================================================
