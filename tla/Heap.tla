-------------------------------- MODULE Heap --------------------------------
(***************************************************************************)
(* The kernel heap (kernel/memory/heap.c) and clients that allocate, free  *)
(* and grow blocks in any order.                                           *)
(*                                                                         *)
(* Memory is counted in units of 16 bytes: a mem_header is one unit, and   *)
(* because every request is rounded up to 0x20 bytes every size is an even *)
(* number of units.  hdr[a] is what the kernel would read at unit a if it  *)
(* took it for a header; a client writes all of its block, which leaves    *)
(* Junk there.  Once the headers are damaged, or one has been read where a *)
(* client wrote (wild), what the kernel does is undefined: the model stops *)
(* there, and the properties ask whether it can come that far.             *)
(***************************************************************************)
EXTENDS Integers, FiniteSets, FiniteSetsExt

CONSTANTS HeapUnits,   \* bound: the heap has the units 1..HeapUnits
          Requests,    \* bound: the sizes clients ask for, in bytes
          Growths,     \* bound: the sizes they ask rekalloc for, in bytes
          Junk

VARIABLES hdr,            \* the headers in memory
          cur_heap_pos,   \* the first unit never handed out
          live,           \* the clients' blocks: where, and how many units
          wild            \* a client's data was taken for a header

vars == <<hdr, cur_heap_pos, live, wild>>

Null == 0
heap_start == 1
Units == 1 .. HeapUnits

Headers == [size : Nat, status : {"FREE", "USED"}, prev : Nat, next : Nat]

ASSUME HeapAssumption ==
    /\ HeapUnits \in Nat
    /\ Requests \subseteq Nat \ {0} /\ Growths \subseteq Nat \ {0}
    /\ Junk \notin Headers

Header(size, status, prev, nxt) ==
    [size |-> size, status |-> status, prev |-> prev, next |-> nxt]

\* init_heap: the pages are cleared.
Init ==
    /\ hdr = [a \in Units |-> Header(0, "FREE", Null, Null)]
    /\ cur_heap_pos = heap_start
    /\ live = {}
    /\ wild = FALSE

-----------------------------------------------------------------------------
(* The definitions named Bug... are faulty variants: each stands for a slip *)
(* in the code that one of the properties below must notice.                *)

BugRoundsDown(bytes) == 2 * (bytes \div 32)

\* The rounding of lines 35 and 109.
RoundUp(bytes) == 2 * ((bytes + 31) \div 32)

\* The headers kalloc's loop visits, up to the first that is none.
Walk(h, pos) ==
    LET from[a \in Nat \ {Null}] ==
            IF a >= pos THEN {}
            ELSE IF h[a] = Junk THEN {a}
            ELSE {a} \union from[a + h[a].size + 1]
    IN  from[heap_start]

LastBefore(S, a) == LET B == {b \in S : b < a} IN IF B = {} THEN Null ELSE Max(B)

Fitting(h, pos, size) ==
    {a \in Walk(h, pos) : h[a] # Junk /\ h[a].status = "FREE" /\ h[a].size >= size}

\* Line 42: HEAP_MIN_SPLIT_SIZE is 0x20 bytes and a header.
MustSplit(h, a, size) == h[a].size - size >= 3

\* Lines 40-57: a free block that is large enough, cut if what stays is worth
\* it.  The cut-off block gets the prev of the block it was cut from, and the
\* block behind it keeps its own.
TakeFree(h, pos, a, size) ==
    LET split == a + size + 1
        past == LastBefore(Walk(h, pos), a)
    IN  IF MustSplit(h, a, size)
        THEN [h EXCEPT ![split] = Header(h[a].size - size - 1, "FREE",
                                         h[a].prev, h[a].next),
                       ![a] = Header(size, "USED", past, split)]
        ELSE [h EXCEPT ![a].status = "USED", ![a].prev = past]

\* Lines 63-73: a new block behind all others.
TakeNew(h, pos, size) ==
    LET past == LastBefore(Walk(h, pos), pos)
        new == [h EXCEPT ![pos].prev = past,
                         ![pos].size = size,
                         ![pos].status = "USED"]
    IN  IF past = Null THEN new ELSE [new EXCEPT ![past].next = pos]

\* kalloc as a function of the headers and the end of the heap: its answer,
\* the headers and the end.  The first fitting block is taken.
kalloc(h, pos, size) ==
    LET fit == Fitting(h, pos, size)
    IN  IF fit # {}
        THEN [at |-> Min(fit), hdr |-> TakeFree(h, pos, Min(fit), size),
              pos |-> pos]
        ELSE [at |-> pos, hdr |-> TakeNew(h, pos, size), pos |-> pos + size + 1]

\* Bound: the code itself does not look for the end of the heap.
Room(h, pos, size) == Fitting(h, pos, size) # {} \/ pos + size <= HeapUnits

\* The walk meets client data before it finds a block.
WalkIsWild(h, pos, size) ==
    Fitting(h, pos, size) = {} /\ \E a \in Walk(h, pos) : h[a] = Junk

-----------------------------------------------------------------------------
(* kfree, lines 86-92 and 94-104.                                          *)

FreeIn(h, a) == a # Null /\ h[a] # Junk /\ h[a].status = "FREE"

BugMergesUsed(h, a, n) ==
    IF n # Null
    THEN [h EXCEPT ![a].size = @ + h[n].size + 1,
                   ![n].size = 0,
                   ![a].next = h[n].next]
    ELSE h

\* n and p are what kfree read as the links of a before, in lines 83 and 84.
MergeWithNext(h, a, n) ==
    IF FreeIn(h, n)
    THEN [h EXCEPT ![a].size = @ + h[n].size + 1,
                   ![n].size = 0,
                   ![a].next = h[n].next]
    ELSE h

MergeIntoPrev(h, a, p) ==
    LET n == h[a].next
        merged == [h EXCEPT ![p].size = @ + h[a].size + 1,
                            ![a].size = 0,
                            ![a].prev = Null,
                            ![p].next = n]
    IN  IF ~FreeIn(h, p) THEN h
        ELSE IF n = Null THEN merged
        ELSE [merged EXCEPT ![n].prev = p, ![a].next = Null]

MergeNext(h, a) == MergeWithNext(h, a, h[a].next)
MergePrev(h, a) == MergeIntoPrev(h, a, h[a].prev)

MarkFree(h, a) == [h EXCEPT ![a].status = "FREE"]

kfree(h, a) == MergePrev(MergeNext(MarkFree(h, a), a), a)

\* kfree reads or writes a header where there is none.
IsJunk(h, a) == a # Null /\ (a \notin Units \/ h[a] = Junk)

FreeIsWild(h, a) ==
    \/ IsJunk(h, a)
    \/ IsJunk(h, h[a].next)
    \/ IsJunk(h, h[a].prev)
    \/ LET m == MergeNext(MarkFree(h, a), a)
       IN  FreeIn(m, m[a].prev) /\ IsJunk(m, m[a].next)

-----------------------------------------------------------------------------
(* rekalloc.                                                               *)

Cleared(h, a, size) ==
    [u \in Units |-> IF u \in a .. (a + size) THEN Header(0, "FREE", Null, Null)
                     ELSE h[u]]

\* Lines 120-133: the block takes what it needs of the free one behind it,
\* which is erased or moves up.  The block behind both keeps its prev.
GrowInPlace(a, size) ==
    LET n == hdr[a].next
        rest == hdr[n].size + hdr[a].size - size
        grown == Header(size, hdr[a].status, hdr[a].prev, hdr[n].next)
    IN  IF rest = 0
        THEN [Cleared(hdr, n, hdr[n].size) EXCEPT ![a] = grown]
        ELSE [hdr EXCEPT ![a] = [grown EXCEPT !.next = a + size + 1],
                         ![a + size + 1] = Header(rest, "FREE", a, hdr[n].next)]

FitsInFront(a, size) == hdr[hdr[a].next].size + hdr[a].size >= size

-----------------------------------------------------------------------------
(* Operations of the clients.                                              *)

Block(a, bytes) == [at |-> a, size |-> (bytes + 15) \div 16]

\* A client writes all of its block.
Written(h, b) ==
    [u \in Units |-> IF u \in (b.at + 1) .. (b.at + b.size) THEN Junk ELSE h[u]]

GoesWild == wild' = TRUE /\ UNCHANGED <<hdr, cur_heap_pos, live>>

Alloc(bytes) ==
    LET size == RoundUp(bytes)
        r == kalloc(hdr, cur_heap_pos, size)
    IN  IF WalkIsWild(hdr, cur_heap_pos, size) THEN GoesWild
        ELSE /\ Room(hdr, cur_heap_pos, size)
             /\ hdr' = Written(r.hdr, Block(r.at, bytes))
             /\ cur_heap_pos' = r.pos
             /\ live' = live \union {Block(r.at, bytes)}
             /\ UNCHANGED wild

Free(b) ==
    IF FreeIsWild(hdr, b.at) THEN GoesWild
    ELSE /\ hdr' = kfree(hdr, b.at)
         /\ live' = live \ {b}
         /\ UNCHANGED <<cur_heap_pos, wild>>

\* rekalloc to a larger size: in place, by moving, or, when the block in front
\* is free but too small, not at all (it returns 0).
Grow(b, bytes) ==
    LET size == RoundUp(bytes)
        n == hdr[b.at].next
        r == kalloc(hdr, cur_heap_pos, size)
        moved == Written(r.hdr, Block(r.at, bytes))
        InPlace == /\ hdr' = Written(GrowInPlace(b.at, size), Block(b.at, bytes))
                   /\ live' = (live \ {b}) \union {Block(b.at, bytes)}
                   /\ UNCHANGED <<cur_heap_pos, wild>>
        Move == /\ hdr' = kfree(moved, b.at)
                /\ cur_heap_pos' = r.pos
                /\ live' = (live \ {b}) \union {Block(r.at, bytes)}
                /\ UNCHANGED wild
    IN  /\ RoundUp(bytes) > hdr[b.at].size
        /\ IF IsJunk(hdr, b.at) \/ IsJunk(hdr, n) THEN GoesWild
           ELSE IF FreeIn(hdr, n)
           THEN IF FitsInFront(b.at, size) THEN InPlace ELSE UNCHANGED vars
           ELSE /\ Room(hdr, cur_heap_pos, size)
                /\ IF \/ WalkIsWild(hdr, cur_heap_pos, size)
                      \/ FreeIsWild(moved, b.at)
                   THEN GoesWild ELSE Move

-----------------------------------------------------------------------------
(* What the rest of the code relies on.                                    *)

Blocks == Walk(hdr, cur_heap_pos)

EndsAt(a) == a + hdr[a].size + 1

\* The walk goes from header to header and ends at cur_heap_pos, and every
\* block a client holds is one of its blocks, in use and large enough: so no
\* two blocks overlap, and kalloc hands out no memory twice.  No client has
\* written behind the end, where kalloc relies on cleared memory.
Sound ==
    /\ ~wild
    /\ \A a \in Blocks : /\ hdr[a] # Junk
                         /\ EndsAt(a) \in Blocks \union {cur_heap_pos}
    /\ \A u \in Units : u >= cur_heap_pos => hdr[u] # Junk
    /\ \A b \in live : /\ b.at \in Blocks
                       /\ hdr[b.at].status = "USED"
                       /\ hdr[b.at].size >= b.size

\* The links of every block lead to its two neighbours.
WellLinked ==
    \A a \in Blocks :
        /\ hdr[a].next = IF EndsAt(a) = cur_heap_pos THEN Null ELSE EndsAt(a)
        /\ hdr[a].prev = LastBefore(Blocks, a)

Next ==
    /\ Sound
    /\ \/ \E bytes \in Requests : Alloc(bytes)
       \/ \E b \in live : Free(b)
       \/ \E b \in live, bytes \in Growths : Grow(b, bytes)

Spec == Init /\ [][Next]_vars

-----------------------------------------------------------------------------
(* Properties.                                                             *)

\* Types of the headers and of the clients' blocks.
TypeOK ==
    /\ hdr \in [Units -> Headers \union {Junk}]
    /\ cur_heap_pos \in 1 .. (HeapUnits + 1)
    /\ live \subseteq [at : Units, size : Nat \ {0}]
    /\ wild \in BOOLEAN

\* kalloc never spoils a sound heap, whatever the links say: it goes by the
\* sizes alone, and the block it gives out lies clear of all others.
KallocKeepsSound ==
    [][Cardinality(live') > Cardinality(live) => TypeOK' /\ Sound']_vars

\* Nor do kfree and rekalloc as long as the links are right: it takes a stale
\* prev, left behind by an earlier split or merge, to spoil the heap.
WellLinkedIsSafe == [][WellLinked => Sound']_vars
=============================================================================
