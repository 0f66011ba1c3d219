----------------------------- MODULE HeapProofs -----------------------------
(***************************************************************************)
(* Proofs about the kernel heap.  For a heap of any size and any requests: *)
(* which calls keep a sound heap sound.  Then for the kernel's own clients,*)
(* one process at a time, and every width of the screen: the heap only     *)
(* ever has one of a handful of layouts, and the stale link that one of    *)
(* them has is never followed to a free block.                             *)
(***************************************************************************)
EXTENDS KernelHeap, LeastElements, FiniteSetTheorems

-----------------------------------------------------------------------------
(* The walk from header to header.                                         *)

LEMMA Constants ==
    /\ HeapUnits \in Nat /\ Units = 1 .. HeapUnits /\ Null = 0
    /\ heap_start = 1 /\ Junk \notin Headers
BY HeapAssumption DEF Units, Null, heap_start

\* Headers in memory, and an end of the heap.
Typed(h, pos) ==
    /\ h \in [Units -> Headers \union {Junk}]
    /\ pos \in 1 .. (HeapUnits + 1)

\* Where the header behind a's block is.
Behind(h, a) == a + h[a].size + 1

LEMMA HeaderFields ==
    ASSUME NEW h, NEW pos, Typed(h, pos), NEW a \in Units, h[a] # Junk
    PROVE  /\ h[a] \in Headers
           /\ h[a].size \in Nat
           /\ h[a].status \in {"FREE", "USED"}
           /\ h[a].prev \in Nat
           /\ h[a].next \in Nat
           /\ Behind(h, a) \in Nat /\ Behind(h, a) > a
<1>1. h[a] \in Headers
  BY DEF Typed
<1>2. /\ h[a].size \in Nat
      /\ h[a].status \in {"FREE", "USED"}
      /\ h[a].prev \in Nat
      /\ h[a].next \in Nat
  BY <1>1 DEF Headers
<1> QED
  BY <1>1, <1>2, Constants DEF Behind

\* f[a] is the set of headers a walk from a visits.
IsFrom(f, h, pos) ==
    f = [a \in Nat \ {Null} |->
            IF a >= pos THEN {}
            ELSE IF h[a] = Junk THEN {a}
            ELSE {a} \union f[a + h[a].size + 1]]

\* A set that a walk does not leave, and the units that no such set avoids.
Closed(S, h, pos) ==
    \A a \in S : a < pos /\ h[a] # Junk => Behind(h, a) \in S

Reached(a, h, pos) ==
    {x \in 1 .. (pos - 1) :
        \A S \in SUBSET (Nat \ {Null}) : a \in S /\ Closed(S, h, pos) => x \in S}

LEMMA ReachedStep ==
    ASSUME NEW h, NEW pos, Typed(h, pos), NEW a \in Nat \ {Null}
    PROVE  /\ a >= pos => Reached(a, h, pos) = {}
           /\ a < pos /\ h[a] = Junk => Reached(a, h, pos) = {a}
           /\ a < pos /\ h[a] # Junk =>
                /\ Behind(h, a) \in Nat \ {Null}
                /\ Reached(a, h, pos) = {a} \union Reached(Behind(h, a), h, pos)
<1>1. /\ pos \in Nat /\ pos >= 1 /\ a \in Nat /\ a >= 1
      /\ a < pos => a \in Units /\ a \in 1 .. (pos - 1)
  BY Constants DEF Typed
<1>2. CASE a >= pos
  <2>1. Closed({a}, h, pos)
    BY <1>1, <1>2 DEF Closed
  <2> QED
    BY <1>1, <1>2, <2>1 DEF Reached
<1>3. CASE a < pos /\ h[a] = Junk
  <2>1. Closed({a}, h, pos)
    BY <1>3 DEF Closed
  <2> QED
    BY <1>1, <1>3, <2>1 DEF Reached
<1>4. CASE a < pos /\ h[a] # Junk
  <2> DEFINE b == Behind(h, a)
  <2>1. b \in Nat \ {Null}
    BY <1>1, <1>4, HeaderFields, Constants
  <2> HIDE DEF b
  <2>2. ASSUME NEW x \in Reached(b, h, pos)
        PROVE  x \in Reached(a, h, pos)
    <3>1. ASSUME NEW S \in SUBSET (Nat \ {Null}), a \in S, Closed(S, h, pos)
          PROVE  x \in S
      <4>1. b \in S
        BY <1>4, <3>1 DEF Closed, b
      <4> QED
        BY <2>2, <3>1, <4>1 DEF Reached
    <3> QED
      BY <2>2, <3>1 DEF Reached
  <2>3. a \in Reached(a, h, pos)
    BY <1>1, <1>4 DEF Reached
  <2>4. ASSUME NEW x \in Reached(a, h, pos), x # a
        PROVE  x \in Reached(b, h, pos)
    <3>1. ASSUME NEW S \in SUBSET (Nat \ {Null}), b \in S, Closed(S, h, pos)
          PROVE  x \in S
      <4>1. Closed(S \union {a}, h, pos) /\ S \union {a} \in SUBSET (Nat \ {Null})
        BY <1>4, <3>1 DEF Closed, b
      <4>2. x \in S \union {a}
        BY <2>4, <4>1 DEF Reached
      <4> QED
        BY <2>4, <4>2
    <3> QED
      BY <2>4, <3>1 DEF Reached
  <2>5. Reached(a, h, pos) = {a} \union Reached(b, h, pos)
    BY <2>2, <2>3, <2>4
  <2> QED
    BY <1>1, <1>4, <2>1, <2>5 DEF b
<1> QED
  BY <1>1, <1>2, <1>3, <1>4

\* The recursion of Walk has a solution.
LEMMA WalkFrom ==
    ASSUME NEW h, NEW pos, Typed(h, pos)
    PROVE  \E f : IsFrom(f, h, pos) /\ Walk(h, pos) = f[heap_start]
<1> DEFINE from[a \in Nat \ {Null}] ==
              IF a >= pos THEN {}
              ELSE IF h[a] = Junk THEN {a}
              ELSE {a} \union from[a + h[a].size + 1]
           g == [a \in Nat \ {Null} |-> Reached(a, h, pos)]
<1>1. IsFrom(g, h, pos)
  <2>1. ASSUME NEW a \in Nat \ {Null}
        PROVE  g[a] = IF a >= pos THEN {}
                      ELSE IF h[a] = Junk THEN {a}
                      ELSE {a} \union g[a + h[a].size + 1]
    <3>1. CASE a >= pos
      BY <3>1, ReachedStep
    <3>2. CASE ~(a >= pos) /\ h[a] = Junk
      <4>1. a < pos
        BY <3>2 DEF Typed
      <4> QED
        BY <3>2, <4>1, ReachedStep
    <3>3. CASE ~(a >= pos) /\ h[a] # Junk
      <4>1. a < pos
        BY <3>3 DEF Typed
      <4>2. /\ Behind(h, a) \in Nat \ {Null}
            /\ g[a] = {a} \union Reached(Behind(h, a), h, pos)
        BY <3>3, <4>1, ReachedStep
      <4> QED
        BY <3>3, <4>2 DEF Behind
    <3> QED
      BY <3>1, <3>2, <3>3
  <2> HIDE DEF g
  <2>2. g = [a \in Nat \ {Null} |-> g[a]]
    BY DEF g
  <2> QED
    BY <2>1, <2>2, Zenon DEF IsFrom
<1> HIDE DEF g
<1>2. Walk(h, pos) = from[heap_start]
  BY Zenon DEF Walk
<1>3. IsFrom(from, h, pos)
  BY <1>1, Zenon DEF IsFrom
<1> QED
  BY <1>2, <1>3, Zenon

LEMMA FromStep ==
    ASSUME NEW f, NEW h, NEW pos, IsFrom(f, h, pos), NEW a \in Nat, a # 0,
           pos \in Nat
    PROVE  /\ a >= pos => f[a] = {}
           /\ a < pos /\ h[a] = Junk => f[a] = {a}
           /\ a < pos /\ h[a] # Junk => f[a] = {a} \union f[Behind(h, a)]
<1>1. f[a] = IF a >= pos THEN {}
             ELSE IF h[a] = Junk THEN {a}
             ELSE {a} \union f[a + h[a].size + 1]
  BY Constants DEF IsFrom
<1> QED
  BY <1>1 DEF Behind

\* S is the set of headers of a heap that ends at pos: each block ends where
\* the next one begins.
IsWalk(S, h, pos) ==
    /\ S \subseteq 1 .. (pos - 1)
    /\ pos > 1 => 1 \in S
    /\ \A a \in S :
          /\ h[a] # Junk
          /\ Behind(h, a) \in S \/ Behind(h, a) = pos
          /\ \A b \in S : b > a => b >= Behind(h, a)

LEMMA WalkTypes ==
    ASSUME NEW h, NEW pos, Typed(h, pos), NEW S, IsWalk(S, h, pos)
    PROVE  /\ S \subseteq Units /\ S \subseteq Nat /\ pos \in Nat /\ pos >= 1
           /\ \A a \in S : /\ h[a] # Junk /\ h[a].size \in Nat
                           /\ Behind(h, a) = a + h[a].size + 1
                           /\ Behind(h, a) \in Nat /\ Behind(h, a) > a
                           /\ Behind(h, a) <= pos /\ a >= 1 /\ a < pos
<1>1. S \subseteq Units /\ S \subseteq Nat /\ pos \in Nat /\ pos >= 1
  BY Constants DEF Typed, IsWalk
<1>2. ASSUME NEW a \in S
      PROVE  /\ h[a] # Junk /\ h[a].size \in Nat
             /\ Behind(h, a) = a + h[a].size + 1
             /\ Behind(h, a) \in Nat /\ Behind(h, a) > a
             /\ Behind(h, a) <= pos /\ a >= 1 /\ a < pos
  <2>1. h[a] # Junk /\ a \in Units
    BY <1>1 DEF IsWalk
  <2>2. /\ h[a].size \in Nat /\ Behind(h, a) \in Nat /\ Behind(h, a) > a
    BY <2>1, HeaderFields
  <2> QED
    BY <1>1, <2>1, <2>2 DEF IsWalk, Behind
<1> QED
  BY <1>1, <1>2

\* Such a set is what the walk visits.
LEMMA WalkIs ==
    ASSUME NEW h, NEW pos, Typed(h, pos), NEW S, IsWalk(S, h, pos)
    PROVE  Walk(h, pos) = S
<1>1. PICK f : IsFrom(f, h, pos) /\ Walk(h, pos) = f[heap_start]
  BY WalkFrom
<1> DEFINE Rest(a) == {s \in S : s >= a}
           bad == {a \in S : f[a] # Rest(a)}
<1>2. /\ S \subseteq Nat /\ pos \in Nat /\ pos >= 1
      /\ \A a \in S : /\ h[a] # Junk /\ Behind(h, a) = a + h[a].size + 1
                      /\ Behind(h, a) \in Nat /\ Behind(h, a) > a
                      /\ a >= 1 /\ a < pos
  BY WalkTypes DEF Typed
<1>3. f[pos] = {}
  BY <1>1, <1>2, FromStep
<1>4. ASSUME bad # {}
      PROVE  FALSE
  <2>1. PICK a \in bad : \A b \in bad : b <= a
    <3>1. S \subseteq 0 .. pos
      BY <1>2
    <3>2. bad \subseteq 0 .. pos
      BY <3>1
    <3> QED
      BY <1>2, <1>4, <3>2, GreatestElement
  <2>2. f[a] = {a} \union f[Behind(h, a)]
    BY <1>1, <1>2, FromStep
  <2>3. Rest(a) = {a} \union Rest(Behind(h, a))
    <3>1. a \in S /\ a \in Nat /\ Behind(h, a) \in Nat /\ Behind(h, a) > a
      BY <1>2
    <3>2. \A s \in S : s > a => s >= Behind(h, a)
      BY <3>1 DEF IsWalk
    <3>3. \A s \in S : s >= a <=> s = a \/ s >= Behind(h, a)
      BY <1>2, <3>1, <3>2
    <3> QED
      BY <3>1, <3>3
  <2>4. f[Behind(h, a)] = Rest(Behind(h, a))
    <3>1. CASE Behind(h, a) = pos
      <4>1. \A s \in S : s \in Nat /\ s < pos
        BY <1>2
      <4>2. \A s \in S : ~(s >= pos)
        BY <1>2, <4>1
      <4>3. Rest(pos) = {}
        BY <4>2
      <4> QED
        BY <1>3, <3>1, <4>3
    <3>2. CASE Behind(h, a) \in S
      BY <1>2, <2>1, <3>2
    <3> QED
      BY <3>1, <3>2 DEF IsWalk
  <2> QED
    BY <2>1, <2>2, <2>3, <2>4
<1>5. CASE pos = 1
  <2>1. S = {}
    BY <1>2, <1>5
  <2> QED
    BY <1>1, <1>3, <1>5, <2>1, Constants
<1>6. CASE pos > 1
  <2>1. 1 \in S /\ f[1] = Rest(1)
    BY <1>4, <1>6 DEF IsWalk
  <2>2. Rest(1) = S
    BY <1>2
  <2> QED
    BY <1>1, <2>1, <2>2, Constants
<1> QED
  BY <1>2, <1>5, <1>6

\* And a walk that ends at pos visits such a set.
LEMMA WalkEnds ==
    ASSUME NEW h, NEW pos, Typed(h, pos),
           \A a \in Walk(h, pos) :
              /\ h[a] # Junk
              /\ Behind(h, a) \in Walk(h, pos) \union {pos}
    PROVE  IsWalk(Walk(h, pos), h, pos)
<1>1. PICK f : IsFrom(f, h, pos) /\ Walk(h, pos) = f[heap_start]
  BY WalkFrom
<1> DEFINE Good(a) == /\ f[a] \subseteq a .. (pos - 1)
                      /\ \A b, c \in f[a] : c > b => c >= Behind(h, b)
           bad == {a \in 1 .. (pos - 1) : ~Good(a)}
<1>2. pos \in Nat /\ pos >= 1 /\ 1 .. (pos - 1) \subseteq Units
  BY Constants DEF Typed
<1>3. \A a \in Nat : a >= pos /\ a # 0 => f[a] = {}
  BY <1>1, <1>2, FromStep
<1>4. ASSUME bad # {}
      PROVE  FALSE
  <2>1. PICK a \in bad : \A b \in bad : b <= a
    <3>1. bad \subseteq 0 .. pos
      BY <1>2
    <3> QED
      BY <1>2, <1>4, <3>1, GreatestElement
  <2>2. a \in Nat /\ a >= 1 /\ a < pos /\ a \in Units
    BY <1>2
  <2>3. h[a] # Junk
    <3>1. h[a] = Junk => f[a] = {a}
      BY <1>1, <1>2, <2>2, FromStep
    <3> QED
      BY <1>2, <2>1, <2>2, <3>1
  <2>4. Behind(h, a) \in Nat /\ Behind(h, a) > a
    BY <2>2, <2>3, HeaderFields
  <2>5. f[a] = {a} \union f[Behind(h, a)]
    BY <1>1, <1>2, <2>2, <2>3, FromStep
  <2>6. /\ f[Behind(h, a)] \subseteq Behind(h, a) .. (pos - 1)
        /\ \A b, c \in f[Behind(h, a)] : c > b => c >= Behind(h, b)
    <3>1. CASE Behind(h, a) >= pos
      BY <1>3, <2>2, <2>4, <3>1
    <3>2. CASE Behind(h, a) < pos
      BY <1>2, <2>1, <2>2, <2>4, <3>2
    <3> QED
      BY <1>2, <2>4, <3>1, <3>2
  <2>7. f[a] \subseteq a .. (pos - 1)
    BY <1>2, <2>2, <2>4, <2>5, <2>6
  <2>8. ASSUME NEW b \in f[a], NEW c \in f[a], c > b
        PROVE  c >= Behind(h, b)
    <3>1. c # a
      BY <1>2, <2>2, <2>7, <2>8
    <3>2. c \in f[Behind(h, a)]
      BY <2>5, <3>1
    <3>3. CASE b = a
      BY <1>2, <2>4, <2>6, <3>2, <3>3
    <3>4. CASE b # a
      BY <2>5, <2>6, <2>8, <3>2, <3>4
    <3> QED
      BY <3>3, <3>4
  <2> QED
    BY <2>1, <2>7, <2>8
<1>5. CASE pos = 1
  BY <1>1, <1>3, <1>5, Constants DEF IsWalk
<1>6. CASE pos > 1
  <2>1. Good(1)
    BY <1>2, <1>4, <1>6
  <2>2. 1 \in f[1]
    BY <1>1, <1>2, <1>6, FromStep
  <2> QED
    BY <1>1, <2>1, <2>2, Constants DEF IsWalk
<1> QED
  BY <1>2, <1>5, <1>6

-----------------------------------------------------------------------------
(* What writes to headers do to the walk.                                  *)

LEMMA BehindSame ==
    ASSUME NEW h, NEW g, NEW a, g[a].size = h[a].size
    PROVE  Behind(g, a) = Behind(h, a)
BY DEF Behind

\* Only sizes matter.
LEMMA SameWalk ==
    ASSUME NEW h, NEW pos, NEW S, IsWalk(S, h, pos), NEW g,
           \A c \in S : g[c] # Junk /\ Behind(g, c) = Behind(h, c)
    PROVE  IsWalk(S, g, pos)
BY DEF IsWalk

\* A block is cut in two.
LEMMA SplitWalk ==
    ASSUME NEW h, NEW pos, Typed(h, pos), NEW S, IsWalk(S, h, pos),
           NEW a \in S, NEW s \in Nat, a < s, s < Behind(h, a),
           NEW g, g[a] # Junk, g[s] # Junk, Behind(g, a) = s,
           Behind(g, s) = Behind(h, a),
           \A c \in S : c # a => g[c] # Junk /\ Behind(g, c) = Behind(h, c)
    PROVE  IsWalk(S \union {s}, g, pos)
<1>1. /\ S \subseteq Nat /\ pos \in Nat
      /\ \A c \in S : /\ Behind(h, c) \in Nat /\ Behind(h, c) > c
                      /\ Behind(h, c) <= pos /\ c >= 1 /\ c < pos
  BY WalkTypes
<1>2. s \notin S /\ s \in 1 .. (pos - 1)
  BY <1>1 DEF IsWalk
<1>3. \A c \in S : c # a => (s > c => s >= Behind(h, c))
  <2>1. TAKE c \in S
  <2>2. CASE c < a
    <3>1. a >= Behind(h, c)
      BY <2>2 DEF IsWalk
    <3> QED
      BY <1>1, <2>2, <3>1
  <2>3. CASE c > a
    <3>1. c >= Behind(h, a)
      BY <2>3 DEF IsWalk
    <3> QED
      BY <1>1, <2>3, <3>1
  <2> QED
    BY <1>1, <2>2, <2>3
<1>4. \A c \in S : /\ c > s => c >= Behind(h, a)
                   /\ c > a => c >= s
  <2>1. \A c \in S : c > a => c >= Behind(h, a)
    BY DEF IsWalk
  <2> QED
    BY <1>1, <2>1
<1>5. S \union {s} \subseteq 1 .. (pos - 1) /\ (pos > 1 => 1 \in S \union {s})
  BY <1>2 DEF IsWalk
<1>6. ASSUME NEW c \in S, c # a
      PROVE  /\ g[c] # Junk
             /\ Behind(g, c) \in S \union {s} \/ Behind(g, c) = pos
             /\ \A b \in S \union {s} : b > c => b >= Behind(g, c)
  BY <1>3, <1>6 DEF IsWalk
<1>7. /\ Behind(g, a) \in S \union {s}
      /\ \A b \in S \union {s} : b > a => b >= Behind(g, a)
  BY <1>4
<1>8. /\ Behind(g, s) \in S \union {s} \/ Behind(g, s) = pos
      /\ \A b \in S \union {s} : b > s => b >= Behind(g, s)
  BY <1>4 DEF IsWalk
<1> QED
  BY <1>5, <1>6, <1>7, <1>8 DEF IsWalk

\* A block is added behind all others.
LEMMA ExtendWalk ==
    ASSUME NEW h, NEW pos, Typed(h, pos), NEW S, IsWalk(S, h, pos),
           NEW g, NEW q \in Nat, q > pos, g[pos] # Junk, Behind(g, pos) = q,
           \A c \in S : g[c] # Junk /\ Behind(g, c) = Behind(h, c)
    PROVE  IsWalk(S \union {pos}, g, q)
<1>1. /\ S \subseteq Nat /\ pos \in Nat /\ pos >= 1
      /\ \A c \in S : /\ Behind(h, c) \in Nat /\ Behind(h, c) > c
                      /\ Behind(h, c) <= pos /\ c >= 1 /\ c < pos
  BY WalkTypes
<1>2. S \union {pos} \subseteq 1 .. (q - 1) /\ (q > 1 => 1 \in S \union {pos})
  BY <1>1 DEF IsWalk
<1>3. ASSUME NEW c \in S
      PROVE  /\ g[c] # Junk
             /\ Behind(g, c) \in S \union {pos} \/ Behind(g, c) = q
             /\ \A b \in S \union {pos} : b > c => b >= Behind(g, c)
  BY <1>1 DEF IsWalk
<1>4. \A b \in S \union {pos} : b > pos => b >= Behind(g, pos)
  BY <1>1
<1> QED
  BY <1>2, <1>3, <1>4 DEF IsWalk

\* A block takes in the one behind it.
LEMMA MergeWalk ==
    ASSUME NEW h, NEW pos, Typed(h, pos), NEW S, IsWalk(S, h, pos),
           NEW a \in S, NEW n \in S, n = Behind(h, a),
           NEW g, g[a] # Junk, Behind(g, a) = Behind(h, n),
           \A c \in S : c # a /\ c # n =>
              g[c] # Junk /\ Behind(g, c) = Behind(h, c)
    PROVE  IsWalk(S \ {n}, g, pos)
<1>1. /\ S \subseteq Nat /\ pos \in Nat
      /\ \A c \in S : /\ Behind(h, c) \in Nat /\ Behind(h, c) > c
                      /\ Behind(h, c) <= pos /\ c >= 1 /\ c < pos
  BY WalkTypes
<1>2. S \ {n} \subseteq 1 .. (pos - 1) /\ (pos > 1 => 1 \in S \ {n})
  <2>1. n # 1
    BY <1>1
  <2> QED
    BY <2>1 DEF IsWalk
<1>3. ASSUME NEW c \in S \ {n}, c # a
      PROVE  /\ g[c] # Junk
             /\ Behind(g, c) \in S \ {n} \/ Behind(g, c) = pos
             /\ \A b \in S \ {n} : b > c => b >= Behind(g, c)
  <2>1. Behind(h, c) # n
    <3>1. a > c \/ c > a
      BY <1>1, <1>3
    <3>2. a > c => a >= Behind(h, c)
      BY DEF IsWalk
    <3>3. c > a => c >= n
      BY DEF IsWalk
    <3> QED
      BY <1>1, <3>1, <3>2, <3>3
  <2> QED
    BY <1>3, <2>1 DEF IsWalk
<1>4. /\ Behind(g, a) \in S \ {n} \/ Behind(g, a) = pos
      /\ \A b \in S \ {n} : b > a => b >= Behind(g, a)
  <2>1. Behind(h, n) > n /\ n > a
    BY <1>1
  <2>2. \A b \in S \ {n} : b > a => b > n
    BY <1>1 DEF IsWalk
  <2> QED
    BY <1>1, <2>1, <2>2 DEF IsWalk
<1> QED
  BY <1>2, <1>3, <1>4 DEF IsWalk

\* A block takes a part of the one behind it.
LEMMA ShiftWalk ==
    ASSUME NEW h, NEW pos, Typed(h, pos), NEW S, IsWalk(S, h, pos),
           NEW a \in S, NEW n \in S, n = Behind(h, a),
           NEW s \in Nat, n < s, s < Behind(h, n),
           NEW g, g[a] # Junk, g[s] # Junk, Behind(g, a) = s,
           Behind(g, s) = Behind(h, n),
           \A c \in S : c # a /\ c # n =>
              g[c] # Junk /\ Behind(g, c) = Behind(h, c)
    PROVE  IsWalk((S \ {n}) \union {s}, g, pos)
<1> DEFINE T == S \ {n}
<1>1. /\ S \subseteq Nat /\ pos \in Nat
      /\ \A c \in S : /\ Behind(h, c) \in Nat /\ Behind(h, c) > c
                      /\ Behind(h, c) <= pos /\ c >= 1 /\ c < pos
  BY WalkTypes
<1>2. s \notin S /\ s \in 1 .. (pos - 1) /\ a \in T
  BY <1>1 DEF IsWalk
<1>3. \A c \in T : c # a =>
         /\ Behind(h, c) # n
         /\ c < s => c < a /\ Behind(h, c) <= a
  <2>1. TAKE c \in T
  <2>2. CASE c < a
    <3>1. a >= Behind(h, c)
      BY <2>2 DEF IsWalk
    <3> QED
      BY <1>1, <2>2, <3>1
  <2>3. CASE c > a
    <3>1. c >= n
      BY <2>3 DEF IsWalk
    <3>2. c > n
      BY <1>1, <3>1
    <3>3. c >= Behind(h, n)
      BY <3>2 DEF IsWalk
    <3> QED
      BY <1>1, <2>3, <3>2, <3>3
  <2> QED
    BY <1>1, <2>2, <2>3
<1>4. \A c \in T : c > a => c >= Behind(h, n)
  <2>1. TAKE c \in T
  <2>2. c > a => c >= n
    BY DEF IsWalk
  <2>3. c > n => c >= Behind(h, n)
    BY DEF IsWalk
  <2> QED
    BY <1>1, <2>2, <2>3
<1>5. T \union {s} \subseteq 1 .. (pos - 1) /\ (pos > 1 => 1 \in T \union {s})
  <2>1. n # 1
    BY <1>1
  <2> QED
    BY <1>2, <2>1 DEF IsWalk
<1>6. ASSUME NEW c \in T, c # a
      PROVE  /\ g[c] # Junk
             /\ Behind(g, c) \in T \union {s} \/ Behind(g, c) = pos
             /\ \A b \in T \union {s} : b > c => b >= Behind(g, c)
  <2>1. g[c] # Junk /\ Behind(g, c) = Behind(h, c)
    BY <1>6
  <2>2. Behind(h, c) \in T \/ Behind(h, c) = pos
    BY <1>3, <1>6 DEF IsWalk
  <2>3. s > c => s >= Behind(h, c)
    BY <1>1, <1>3, <1>6
  <2> QED
    BY <2>1, <2>2, <2>3 DEF IsWalk
<1>7. /\ Behind(g, a) \in T \union {s}
      /\ \A b \in T \union {s} : b > a => b >= Behind(g, a)
  BY <1>1, <1>4
<1>8. /\ Behind(g, s) \in T \union {s} \/ Behind(g, s) = pos
      /\ \A b \in T \union {s} : b > s => b >= Behind(g, s)
  <2>1. \A b \in T : b > s => b > a
    BY <1>1
  <2>2. Behind(h, n) \in S \/ Behind(h, n) = pos
    BY DEF IsWalk
  <2> QED
    BY <1>1, <1>4, <2>1, <2>2
<1> QED
  BY <1>5, <1>6, <1>7, <1>8 DEF IsWalk

\* A client fills its block.
LEMMA WriteWalk ==
    ASSUME NEW h, NEW pos, Typed(h, pos), NEW S, IsWalk(S, h, pos),
           NEW b, b.at \in S, b.size \in Nat, b.size <= h[b.at].size
    PROVE  /\ Typed(Written(h, b), pos) /\ IsWalk(S, Written(h, b), pos)
           /\ \A c \in S : Written(h, b)[c] = h[c]
           /\ \A u \in Units : u >= pos => Written(h, b)[u] = h[u]
<1> DEFINE g == Written(h, b)
           a == b.at
           z == b.size
<1>1. /\ S \subseteq Units /\ S \subseteq Nat /\ pos \in Nat
      /\ \A c \in S : /\ h[c].size \in Nat /\ Behind(h, c) = c + h[c].size + 1
                      /\ Behind(h, c) <= pos
  BY WalkTypes
<1>2. Typed(g, pos)
  BY DEF Typed, Written
<1>3. \A u \in Units : u \notin (a + 1) .. (a + z) => g[u] = h[u]
  BY DEF Written
<1>4. /\ a \in S /\ a \in Nat /\ z \in Nat /\ Behind(h, a) \in Nat
      /\ Behind(h, a) > a + z /\ Behind(h, a) <= pos
  <2>1. a \in S /\ z \in Nat /\ z <= h[a].size
    OBVIOUS
  <2> HIDE DEF a, z
  <2> QED
    BY <1>1, <2>1
<1> HIDE DEF a, z
<1>5. \A c \in S : c \notin (a + 1) .. (a + z)
  <2>1. \A c \in S : c > a => c >= Behind(h, a)
    BY <1>4 DEF IsWalk
  <2> QED
    BY <1>1, <1>4, <2>1
<1>6. \A c \in S : g[c] = h[c]
  BY <1>1, <1>3, <1>5
<1>7. \A u \in Units : u >= pos => g[u] = h[u]
  BY <1>1, <1>3, <1>4, Constants
<1> HIDE DEF g
<1>8. IsWalk(S, g, pos)
  <2>1. \A c \in S : g[c] # Junk /\ Behind(g, c) = Behind(h, c)
    BY <1>6 DEF IsWalk, Behind
  <2> QED
    BY <2>1, SameWalk
<1> QED
  BY <1>2, <1>6, <1>7, <1>8 DEF g

-----------------------------------------------------------------------------
(* kalloc.                                                                 *)

\* No client has written at or behind the end of the heap.
Clear(h, pos) == \A u \in Units : u >= pos => h[u] # Junk

\* LastBefore is the block in front, and Null if there is none.
LEMMA LastBeforeIs ==
    ASSUME NEW h, NEW pos, Typed(h, pos), NEW S, IsWalk(S, h, pos), NEW a \in Nat
    PROVE  \/ LastBefore(S, a) = Null /\ \A b \in S : ~(b < a)
           \/ /\ LastBefore(S, a) \in S /\ LastBefore(S, a) < a
              /\ \A b \in S : b < a => b <= LastBefore(S, a)
<1> DEFINE B == {b \in S : b < a}
           m == pos - 1
<1>0. m \in Nat /\ S \subseteq 1 .. m
  BY Constants DEF Typed, IsWalk
<1> HIDE DEF m
<1>1. CASE B = {}
  BY <1>1 DEF LastBefore
<1>2. CASE B # {}
  <2>1. B \subseteq 0 .. m
    <3>1. \A b \in S : b \in 0 .. m
      BY <1>0
    <3> QED
      BY <3>1
  <2>2. \E x \in B : \A y \in B : y <= x
    BY <1>0, <1>2, <2>1, GreatestElement
  <2>3. \E x \in B : \A y \in B : x >= y
    BY <1>0, <2>1, <2>2
  <2>4. Max(B) \in B /\ \A y \in B : Max(B) >= y
    BY <2>3 DEF Max
  <2>5. LastBefore(S, a) = Max(B)
    BY <1>2 DEF LastBefore
  <2> QED
    BY <2>1, <2>4, <2>5
<1> QED
  BY <1>1, <1>2

LEMMA MinIs ==
    ASSUME NEW S, S \subseteq Nat, S # {}
    PROVE  Min(S) \in S
<1>1. \E x \in S : \A y \in S : x <= y
  BY LeastElement
<1> QED
  BY <1>1 DEF Min

LEMMA Rounding ==
    ASSUME NEW bytes \in Nat \ {0}
    PROVE  /\ RoundUp(bytes) \in Nat /\ RoundUp(bytes) >= 2
           /\ \A a : /\ Block(a, bytes).at = a
                     /\ Block(a, bytes).size \in Nat \ {0}
                     /\ Block(a, bytes).size <= RoundUp(bytes)
<1> DEFINE k == (bytes + 31) \div 32
           z == (bytes + 15) \div 16
<1>1. k \in Nat /\ 32 * k <= bytes + 31 /\ bytes + 31 < 32 * k + 32
  OBVIOUS
<1>2. z \in Nat /\ 16 * z <= bytes + 15 /\ bytes + 15 < 16 * z + 16
  OBVIOUS
<1>3. RoundUp(bytes) = 2 * k
  BY DEF RoundUp
<1>4. \A a : Block(a, bytes).at = a /\ Block(a, bytes).size = z
  BY DEF Block
<1> HIDE DEF k, z
<1>5. k >= 1 /\ z >= 1 /\ z <= 2 * k
  BY <1>1, <1>2
<1> QED
  BY <1>1, <1>2, <1>3, <1>4, <1>5

\* What kalloc makes of the headers h of S: the headers g of V, up to q, with
\* the block a in use.
Gives(S, h, V, g, q, a, size) ==
    /\ Typed(g, q) /\ IsWalk(V, g, q) /\ Clear(g, q)
    /\ S \subseteq V /\ a \in V
    /\ g[a].status = "USED" /\ g[a].size \in Nat /\ g[a].size >= size
    /\ a \in S => h[a].status = "FREE"
    /\ \A c \in S : c # a =>
          /\ g[c].size = h[c].size /\ g[c].status = h[c].status
          /\ g[c].prev = h[c].prev /\ g[c].next \in {h[c].next, a}

LEMMA TakeFreeGives ==
    ASSUME NEW h, NEW pos, Typed(h, pos), NEW S, IsWalk(S, h, pos),
           Clear(h, pos), Walk(h, pos) = S, NEW size \in Nat,
           NEW a \in S, h[a].status = "FREE", h[a].size >= size
    PROVE  \E V : Gives(S, h, V, TakeFree(h, pos, a, size), pos, a, size)
<1> DEFINE past == LastBefore(S, a)
           s == a + size + 1
           z == h[a].size
<1>1. /\ S \subseteq Units /\ S \subseteq Nat /\ pos \in Nat /\ pos >= 1
      /\ \A c \in S : /\ h[c] # Junk /\ h[c].size \in Nat
                      /\ Behind(h, c) = c + h[c].size + 1
                      /\ Behind(h, c) \in Nat /\ Behind(h, c) > c
                      /\ Behind(h, c) <= pos /\ c >= 1 /\ c < pos
  BY WalkTypes
<1>2. /\ h[a] \in Headers /\ h[a].prev \in Nat /\ h[a].next \in Nat
      /\ z \in Nat /\ a \in Units /\ a \in Nat /\ z >= size
  BY <1>1, HeaderFields
<1>3. past \in Nat
  <2>1. past = Null \/ past \in S
    BY <1>2, LastBeforeIs, Zenon
  <2>2. Null \in Nat /\ S \subseteq Nat
    BY <1>1, Constants
  <2> QED
    BY <2>1, <2>2, Zenon
<1>4. h \in [Units -> Headers \union {Junk}] /\ pos \in 1 .. (HeapUnits + 1)
  BY DEF Typed
<1>5. Behind(h, a) = a + z + 1 /\ Behind(h, a) <= pos /\ a < pos
  BY <1>1
<1>6. CASE MustSplit(h, a, size)
  <2> DEFINE H1 == Header(z - size - 1, "FREE", h[a].prev, h[a].next)
             H2 == Header(size, "USED", past, s)
             g == [h EXCEPT ![s] = H1, ![a] = H2]
  <2>1. TakeFree(h, pos, a, size) = g
    BY <1>6 DEF TakeFree
  <2>2. z - size >= 3
    BY <1>6 DEF MustSplit
  <2> HIDE DEF z
  <2>3. s \in Nat /\ a < s /\ s < Behind(h, a) /\ s < pos /\ s \in Units
    BY <1>1, <1>2, <1>4, <1>5, <2>2, Constants
  <2>4. s \notin S
    BY <1>1, <2>3 DEF IsWalk
  <2>5. z - size - 1 \in Nat
    BY <1>2, <2>2
  <2>6. H1 \in Headers /\ H2 \in Headers
    BY <1>2, <1>3, <2>3, <2>5 DEF Headers, Header
  <2>7. /\ H1.size = z - size - 1 /\ H2.size = size /\ H2.status = "USED"
    BY DEF Header
  <2> HIDE DEF H1, H2, s
  <2>8. g \in [Units -> Headers \union {Junk}]
    BY <1>4, <2>6
  <2>9. /\ g[a] = H2 /\ g[s] = H1
        /\ \A c \in Units : c # a /\ c # s => g[c] = h[c]
    BY <1>2, <1>4, <2>3
  <2> HIDE DEF g
  <2>10. g[a] # Junk /\ g[s] # Junk
    BY <2>6, <2>9, Constants
  <2>11. Behind(g, a) = s
    BY <2>7, <2>9 DEF Behind, s
  <2>12. Behind(g, s) = Behind(h, a)
    <3>1. Behind(g, s) = s + (z - size - 1) + 1
      BY <2>7, <2>9 DEF Behind
    <3> QED
      BY <1>2, <1>5, <3>1 DEF s
  <2>13. \A c \in S : c # a => g[c] = h[c]
    BY <1>1, <2>4, <2>9
  <2>14. \A c \in S : c # a => g[c] # Junk /\ Behind(g, c) = Behind(h, c)
    BY <1>1, <2>13, BehindSame
  <2>15. IsWalk(S \union {s}, g, pos)
    BY <2>3, <2>10, <2>11, <2>12, <2>14, SplitWalk
  <2>16. Typed(g, pos)
    BY <1>4, <2>8 DEF Typed
  <2>17. Clear(g, pos)
    BY <1>1, <1>5, <2>3, <2>9, Constants DEF Clear
  <2>18. /\ g[a].status = "USED" /\ g[a].size \in Nat /\ g[a].size >= size
    BY <2>7, <2>9
  <2>19. Gives(S, h, S \union {s}, g, pos, a, size)
    BY <2>13, <2>15, <2>16, <2>17, <2>18 DEF Gives
  <2> QED
    BY <2>1, <2>19
<1>7. CASE ~MustSplit(h, a, size)
  <2> DEFINE g == [h EXCEPT ![a].status = "USED", ![a].prev = past]
             H == [[h[a] EXCEPT !.status = "USED"] EXCEPT !.prev = past]
  <2>1. TakeFree(h, pos, a, size) = g
    BY <1>7 DEF TakeFree
  <2>2. H \in Headers
    BY <1>2, <1>3 DEF Headers
  <2>3. H.size = z /\ H.status = "USED"
    BY <1>2 DEF Headers
  <2>4. g[a] = H /\ \A c \in Units : c # a => g[c] = h[c]
    BY <1>2, <1>4
  <2>5. g \in [Units -> Headers \union {Junk}]
    <3>1. g = [c \in Units |-> IF c = a THEN H ELSE h[c]]
      BY <1>2, <1>4
    <3> HIDE DEF g, H
    <3> QED
      BY <1>4, <2>2, <3>1
  <2> HIDE DEF g, H, past
  <2>6. \A c \in S : g[c] # Junk /\ Behind(g, c) = Behind(h, c)
    BY <1>1, <2>2, <2>3, <2>4, BehindSame, Constants DEF z
  <2>7. IsWalk(S, g, pos)
    BY <2>6, SameWalk
  <2>8. Typed(g, pos)
    BY <1>4, <2>5 DEF Typed
  <2>9. Clear(g, pos)
    BY <1>1, <1>5, <2>4, Constants DEF Clear
  <2>10. /\ g[a].status = "USED" /\ g[a].size \in Nat /\ g[a].size >= size
    BY <1>2, <2>3, <2>4
  <2>11. \A c \in S : c # a => g[c] = h[c]
    BY <1>1, <2>4
  <2>12. Gives(S, h, S, g, pos, a, size)
    BY <2>7, <2>8, <2>9, <2>10, <2>11 DEF Gives
  <2> QED
    BY <2>1, <2>12
<1> QED
  BY <1>6, <1>7

LEMMA TakeNewGives ==
    ASSUME NEW h, NEW pos, Typed(h, pos), NEW S, IsWalk(S, h, pos),
           Clear(h, pos), Walk(h, pos) = S, NEW size \in Nat,
           pos + size <= HeapUnits
    PROVE  Gives(S, h, S \union {pos}, TakeNew(h, pos, size),
                 pos + size + 1, pos, size)
<1> DEFINE past == LastBefore(S, pos)
           q == pos + size + 1
           H == [[[h[pos] EXCEPT !.prev = past] EXCEPT !.size = size]
                   EXCEPT !.status = "USED"]
           new == [h EXCEPT ![pos].prev = past, ![pos].size = size,
                            ![pos].status = "USED"]
           P == [h[past] EXCEPT !.next = pos]
           g == TakeNew(h, pos, size)
<1>1. /\ S \subseteq Units /\ S \subseteq Nat /\ pos \in Nat /\ pos >= 1
      /\ \A c \in S : h[c] # Junk /\ c < pos
  BY WalkTypes
<1>2. h \in [Units -> Headers \union {Junk}]
  BY DEF Typed
<1>3. pos \in Units /\ pos \notin S /\ q \in Nat /\ q > pos /\ q \in 1 .. (HeapUnits + 1)
  BY <1>1, Constants
<1>4. h[pos] \in Headers
  BY <1>1, <1>2, <1>3 DEF Clear
<1>5. past = Null \/ past \in S
  BY <1>1, LastBeforeIs, Zenon
<1>6. past \in Nat
  <2>1. Null \in Nat /\ S \subseteq Nat
    BY <1>1, Constants
  <2> QED
    BY <1>5, <2>1, Zenon
<1> HIDE DEF past, q
<1>7. H \in Headers /\ H.size = size /\ H.status = "USED"
  BY <1>4, <1>6 DEF Headers
<1>8. new = [c \in Units |-> IF c = pos THEN H ELSE h[c]]
  BY <1>2, <1>3
<1>9. g = IF past = Null THEN new ELSE [new EXCEPT ![past].next = pos]
  BY Zenon DEF TakeNew, past
<1> HIDE DEF H, new, g
<1>10. CASE past = Null
  <2>1. \A c \in S : g[c] = h[c]
    BY <1>1, <1>3, <1>8, <1>9, <1>10
  <2>2. g[pos] = H /\ \A u \in Units : u > pos => g[u] = h[u]
    BY <1>1, <1>3, <1>8, <1>9, <1>10, Constants
  <2>3. g \in [Units -> Headers \union {Junk}]
    BY <1>2, <1>7, <1>8, <1>9, <1>10
  <2> QED
    <3>1. \A c \in S : g[c] # Junk /\ Behind(g, c) = Behind(h, c)
      BY <1>1, <2>1, BehindSame
    <3>2. g[pos] # Junk /\ Behind(g, pos) = q
      BY <1>7, <2>2, Constants DEF Behind, q
    <3>3. IsWalk(S \union {pos}, g, q)
      BY <1>3, <3>1, <3>2, ExtendWalk
    <3>4. Typed(g, q)
      BY <1>3, <2>3 DEF Typed
    <3>5. Clear(g, q)
      <4>1. \A u \in Units : u >= q => u > pos /\ u >= pos
        BY <1>1, <1>3, Constants
      <4> QED
        BY <2>2, <4>1 DEF Clear
    <3>6. g[pos].status = "USED" /\ g[pos].size \in Nat /\ g[pos].size >= size
      BY <1>7, <2>2
    <3> QED
      BY <1>3, <2>1, <3>3, <3>4, <3>5, <3>6 DEF Gives, g, q
<1>11. CASE past # Null
  <2>1. past \in S /\ past \in Units /\ past # pos /\ h[past] \in Headers
    BY <1>1, <1>2, <1>3, <1>5, <1>11
  <2>2. /\ P \in Headers /\ P.size = h[past].size /\ P.status = h[past].status
        /\ P.prev = h[past].prev /\ P.next = pos
    BY <1>1, <2>1 DEF Headers
  <2>3. g = [c \in Units |-> IF c = past THEN P ELSE IF c = pos THEN H ELSE h[c]]
    BY <1>8, <1>9, <1>11, <2>1
  <2> HIDE DEF P
  <2>4. /\ g[past] = P /\ g[pos] = H
        /\ \A c \in Units : c # past /\ c # pos => g[c] = h[c]
    BY <1>3, <2>1, <2>3
  <2>5. g \in [Units -> Headers \union {Junk}]
    BY <1>2, <1>7, <2>2, <2>3
  <2>6. \A c \in S : /\ g[c].size = h[c].size /\ g[c].status = h[c].status
                     /\ g[c].prev = h[c].prev /\ g[c].next \in {h[c].next, pos}
    BY <1>1, <1>3, <2>2, <2>4
  <2>7. \A c \in S : g[c] # Junk /\ Behind(g, c) = Behind(h, c)
    BY <1>1, <1>3, <2>2, <2>4, <2>6, BehindSame, Constants
  <2>8. g[pos] # Junk /\ Behind(g, pos) = q
    BY <1>7, <2>4, Constants DEF Behind, q
  <2>9. IsWalk(S \union {pos}, g, q)
    BY <1>3, <2>7, <2>8, ExtendWalk
  <2>10. Typed(g, q)
    BY <1>3, <2>5 DEF Typed
  <2>11. Clear(g, q)
    <3>1. \A u \in Units : u >= q => u # past /\ u # pos /\ u >= pos
      BY <1>1, <1>3, <2>1, Constants
    <3> QED
      BY <2>4, <3>1 DEF Clear
  <2>12. g[pos].status = "USED" /\ g[pos].size \in Nat /\ g[pos].size >= size
    BY <1>7, <2>4
  <2> QED
    BY <1>3, <2>6, <2>9, <2>10, <2>11, <2>12 DEF Gives, g, q
<1> QED
  BY <1>10, <1>11

LEMMA KallocGives ==
    ASSUME NEW h, NEW pos, Typed(h, pos), NEW S, IsWalk(S, h, pos),
           Clear(h, pos), NEW size \in Nat, Room(h, pos, size)
    PROVE  \E V : Gives(S, h, V, kalloc(h, pos, size).hdr,
                        kalloc(h, pos, size).pos, kalloc(h, pos, size).at, size)
<1> DEFINE fit == Fitting(h, pos, size)
           a == Min(fit)
<1>1. Walk(h, pos) = S /\ S \subseteq Nat
  BY WalkIs, WalkTypes
<1>2. CASE fit # {}
  <2>1. kalloc(h, pos, size) = [at |-> a, hdr |-> TakeFree(h, pos, a, size),
                                pos |-> pos]
    BY <1>2 DEF kalloc
  <2>2. a \in fit
    <3>1. fit \subseteq Nat
      BY <1>1 DEF Fitting
    <3> QED
      BY <1>2, <3>1, MinIs
  <2>3. a \in S /\ h[a].status = "FREE" /\ h[a].size >= size
    BY <1>1, <2>2 DEF Fitting
  <2> HIDE DEF a
  <2>4. \E V : Gives(S, h, V, TakeFree(h, pos, a, size), pos, a, size)
    BY <1>1, <2>3, TakeFreeGives
  <2> QED
    BY <2>1, <2>4
<1>3. CASE fit = {}
  <2>1. kalloc(h, pos, size) = [at |-> pos, hdr |-> TakeNew(h, pos, size),
                                pos |-> pos + size + 1]
    BY <1>3 DEF kalloc
  <2>2. pos + size <= HeapUnits
    BY <1>3 DEF Room
  <2>3. \E V : Gives(S, h, V, TakeNew(h, pos, size), pos + size + 1, pos, size)
    BY <1>1, <2>2, TakeNewGives
  <2> QED
    BY <2>1, <2>3
<1> QED
  BY <1>2, <1>3

\* The client then fills the block it got.
LEMMA WrittenGives ==
    ASSUME NEW S, NEW h, NEW V, NEW g, NEW q, NEW a, NEW bytes \in Nat \ {0},
           Gives(S, h, V, g, q, a, RoundUp(bytes))
    PROVE  Gives(S, h, V, Written(g, Block(a, bytes)), q, a, RoundUp(bytes))
<1> DEFINE b == Block(a, bytes)
           k == Written(g, b)
           size == RoundUp(bytes)
<1>1. /\ Typed(g, q) /\ IsWalk(V, g, q) /\ a \in V /\ S \subseteq V
      /\ g[a].size \in Nat /\ g[a].size >= size /\ Clear(g, q)
  BY DEF Gives
<1>2. b.at = a /\ b.size \in Nat /\ b.size <= size /\ size \in Nat
  BY Rounding
<1> HIDE DEF b, size
<1>3. b.at \in V /\ b.size <= g[b.at].size
  BY <1>1, <1>2
<1>4. /\ Typed(k, q) /\ IsWalk(V, k, q) /\ \A c \in V : k[c] = g[c]
      /\ \A u \in Units : u >= q => k[u] = g[u]
  BY <1>1, <1>2, <1>3, WriteWalk
<1> HIDE DEF k
<1>5. Clear(k, q)
  BY <1>1, <1>4 DEF Clear
<1>6. Gives(S, h, V, k, q, a, size)
  BY <1>1, <1>4, <1>5 DEF Gives, size
<1> QED
  BY <1>6 DEF k, b, size

\* The walk of a sound heap meets no client's data.
LEMMA WalkNotWild ==
    ASSUME NEW h, NEW pos, Typed(h, pos), NEW S, IsWalk(S, h, pos)
    PROVE  \A size : ~WalkIsWild(h, pos, size)
<1>1. Walk(h, pos) = S
  BY WalkIs
<1>2. \A a \in S : h[a] # Junk
  BY DEF IsWalk
<1> QED
  BY <1>1, <1>2 DEF WalkIsWild

-----------------------------------------------------------------------------
(* kfree.                                                                  *)

\* Headers in memory, whatever the end of the heap.
Memory == [Units -> Headers \union {Junk}]

\* A write to a field of a header leaves headers where headers were.
Kept(g, h) == g \in Memory /\ \A u \in Units : g[u] = Junk <=> h[u] = Junk

LEMMA KeptSelf ==
    ASSUME NEW h \in Memory
    PROVE  Kept(h, h)
BY DEF Kept

LEMMA FieldSet ==
    ASSUME NEW h, NEW g, Kept(g, h), NEW u \in Units, h[u] # Junk, NEW v \in Nat,
           NEW st \in {"FREE", "USED"}
    PROVE  /\ Kept([g EXCEPT ![u].size = v], h)
           /\ Kept([g EXCEPT ![u].prev = v], h)
           /\ Kept([g EXCEPT ![u].next = v], h)
           /\ Kept([g EXCEPT ![u].status = st], h)
<1>1. g[u] \in Headers /\ g \in [Units -> Headers \union {Junk}]
  BY DEF Kept, Memory
<1>2. ASSUME NEW r \in Headers
      PROVE  Kept([g EXCEPT ![u] = r], h)
  BY <1>1, Constants DEF Kept, Memory
<1>3. /\ [g[u] EXCEPT !.size = v] \in Headers
      /\ [g[u] EXCEPT !.prev = v] \in Headers
      /\ [g[u] EXCEPT !.next = v] \in Headers
      /\ [g[u] EXCEPT !.status = st] \in Headers
  BY <1>1 DEF Headers
<1> QED
  BY <1>2, <1>3

LEMMA PrevStays ==
    ASSUME NEW h, NEW g, Kept(g, h), NEW u \in Units, h[u] # Junk, NEW v,
           NEW a \in Units, h[a] # Junk
    PROVE  /\ [g EXCEPT ![u].size = v][a].prev = g[a].prev
           /\ [g EXCEPT ![u].next = v][a].prev = g[a].prev
<1>1. /\ g[u] \in Headers /\ g[a] \in Headers
      /\ g \in [Units -> Headers \union {Junk}]
  BY DEF Kept, Memory
<1> QED
  BY <1>1 DEF Headers

\* Whatever the links, the merges leave headers as long as they meet no
\* client's data.
LEMMA MergeNextTyped ==
    ASSUME NEW h \in Memory, NEW a \in Units, h[a] # Junk,
           ~IsJunk(h, h[a].next)
    PROVE  Kept(MergeNext(h, a), h) /\ MergeNext(h, a)[a].prev = h[a].prev
<1> DEFINE n == h[a].next
           x == h[a].size + h[n].size + 1
           y == h[n].next
           g1 == [h EXCEPT ![a].size = x]
           g2 == [g1 EXCEPT ![n].size = 0]
           g3 == [g2 EXCEPT ![a].next = y]
<1>1. h[a] \in Headers
  BY DEF Memory
<1>2. CASE ~FreeIn(h, n)
  BY <1>2 DEF MergeNext, Kept, MergeWithNext
<1>3. CASE FreeIn(h, n)
  <2>1. MergeNext(h, a) = g3
    BY <1>3 DEF MergeNext, MergeWithNext
  <2>2. n \in Units /\ h[n] \in Headers /\ h[n] # Junk
    BY <1>3 DEF FreeIn, IsJunk, Memory
  <2>3. x \in Nat /\ y \in Nat
    BY <1>1, <2>2 DEF Headers
  <2> HIDE DEF n, x, y
  <2>4. Kept(g1, h) /\ g1[a].prev = h[a].prev
    <3>1. Kept(h, h)
      BY KeptSelf
    <3>2. Kept(g1, h)
      BY <2>3, <3>1, FieldSet
    <3>3. g1[a].prev = h[a].prev
      BY <3>1, PrevStays
    <3> QED
      BY <3>2, <3>3
  <2> HIDE DEF g1
  <2>5. Kept(g2, h) /\ g2[a].prev = g1[a].prev
    <3>1. Kept(g2, h)
      BY <2>2, <2>4, FieldSet
    <3>2. g2[a].prev = g1[a].prev
      BY <2>2, <2>4, PrevStays
    <3> QED
      BY <3>1, <3>2
  <2> HIDE DEF g2
  <2>6. Kept(g3, h) /\ g3[a].prev = g2[a].prev
    <3>1. Kept(g3, h)
      BY <2>3, <2>5, FieldSet
    <3>2. g3[a].prev = g2[a].prev
      BY <2>5, PrevStays
    <3> QED
      BY <3>1, <3>2
  <2> HIDE DEF g3
  <2> QED
    BY <2>1, <2>4, <2>5, <2>6
<1> QED
  BY <1>2, <1>3

LEMMA MergePrevTyped ==
    ASSUME NEW h \in Memory, NEW a \in Units, h[a] # Junk,
           ~IsJunk(h, h[a].prev),
           FreeIn(h, h[a].prev) => ~IsJunk(h, h[a].next)
    PROVE  Kept(MergePrev(h, a), h)
<1> DEFINE n == h[a].next
           p == h[a].prev
           x == h[p].size + h[a].size + 1
           g1 == [h EXCEPT ![p].size = x]
           g2 == [g1 EXCEPT ![a].size = 0]
           g3 == [g2 EXCEPT ![a].prev = Null]
           g4 == [g3 EXCEPT ![p].next = n]
           g5 == [g4 EXCEPT ![n].prev = p]
           g6 == [g5 EXCEPT ![a].next = Null]
<1>1. h[a] \in Headers
  BY DEF Memory
<1>2. CASE ~FreeIn(h, p)
  BY <1>2 DEF MergePrev, Kept, MergeIntoPrev
<1>3. CASE FreeIn(h, p)
  <2>1. MergePrev(h, a) = IF n = Null THEN g4 ELSE g6
    BY <1>3 DEF MergePrev, MergeIntoPrev
  <2>2. p \in Units /\ h[p] \in Headers /\ h[p] # Junk
    BY <1>3 DEF FreeIn, IsJunk, Memory
  <2>3. n # Null => n \in Units /\ h[n] # Junk
    BY <1>3 DEF IsJunk
  <2>4. x \in Nat /\ n \in Nat /\ p \in Nat /\ Null \in Nat
    <3>1. /\ h[a].size \in Nat /\ n \in Nat /\ p \in Nat /\ h[p].size \in Nat
      BY <1>1, <2>2 DEF Headers
    <3> QED
      BY <3>1 DEF Null
  <2> HIDE DEF n, p, x
  <2>5. Kept(g1, h)
    BY <2>2, <2>4, FieldSet, KeptSelf
  <2> HIDE DEF g1
  <2>6. Kept(g2, h)
    BY <2>5, FieldSet
  <2> HIDE DEF g2
  <2>7. Kept(g3, h)
    BY <2>4, <2>6, FieldSet
  <2> HIDE DEF g3
  <2>8. Kept(g4, h)
    BY <2>2, <2>4, <2>7, FieldSet
  <2> HIDE DEF g4
  <2>9. CASE n = Null
    BY <2>1, <2>8, <2>9
  <2>10. CASE n # Null
    <3>1. Kept(g5, h)
      BY <2>3, <2>4, <2>8, <2>10, FieldSet
    <3> HIDE DEF g5
    <3>2. Kept(g6, h)
      BY <2>4, <3>1, FieldSet
    <3> HIDE DEF g6
    <3> QED
      BY <2>1, <2>10, <3>2
  <2> QED
    BY <2>9, <2>10
<1> QED
  BY <1>2, <1>3

LEMMA KfreeTyped ==
    ASSUME NEW h \in Memory, NEW a \in Units, ~FreeIsWild(h, a)
    PROVE  Kept(kfree(h, a), h)
<1> DEFINE f == MarkFree(h, a)
           m == MergeNext(f, a)
<1>0. a # Null
  BY Constants
<1>1. /\ h[a] # Junk /\ ~IsJunk(h, h[a].next) /\ ~IsJunk(h, h[a].prev)
      /\ ~(FreeIn(m, m[a].prev) /\ IsJunk(m, m[a].next))
  BY <1>0 DEF FreeIsWild, IsJunk
<1>2. Kept(f, h)
  <2>1. Kept(h, h) /\ 0 \in Nat /\ "FREE" \in {"FREE", "USED"}
    BY KeptSelf
  <2>2. Kept([h EXCEPT ![a].status = "FREE"], h)
    BY <1>1, <2>1, FieldSet
  <2> QED
    BY <2>2 DEF MarkFree
<1>3. f[a].next = h[a].next /\ f[a].prev = h[a].prev
  <2>1. h[a] \in Headers
    BY <1>1 DEF Memory
  <2> QED
    BY <2>1 DEF MarkFree, Memory, Headers
<1> HIDE DEF f
<1>4. /\ f \in Memory /\ f[a] # Junk
      /\ \A u : IsJunk(f, u) <=> IsJunk(h, u)
  BY <1>1, <1>2 DEF Kept, IsJunk
<1>5. ~IsJunk(f, f[a].next)
  BY <1>1, <1>3, <1>4
<1>6. Kept(m, f) /\ m[a].prev = f[a].prev
  BY <1>4, <1>5, MergeNextTyped
<1>8. /\ m \in Memory /\ m[a] # Junk
      /\ \A u : IsJunk(m, u) <=> IsJunk(h, u)
  BY <1>4, <1>6 DEF Kept, IsJunk
<1>9. kfree(h, a) = MergePrev(m, a)
  BY DEF kfree, f
<1> HIDE DEF m
<1>10. ~IsJunk(m, m[a].prev) /\ (FreeIn(m, m[a].prev) => ~IsJunk(m, m[a].next))
  BY <1>1, <1>3, <1>6, <1>8
<1>11. Kept(MergePrev(m, a), m)
  BY <1>8, <1>10, MergePrevTyped
<1> QED
  BY <1>2, <1>6, <1>9, <1>11 DEF Kept

\* The headers of g have the sizes and states of those of f.
Alike(g, f) ==
    \A c \in Units : f[c] # Junk =>
        g[c].size = f[c].size /\ g[c].status = f[c].status

\* Links do not matter to sizes and states, and a size to no other.
LEMMA LinkSet ==
    ASSUME NEW h, NEW g, Kept(g, h), NEW u \in Units, h[u] # Junk, NEW v \in Nat
    PROVE  /\ Alike([g EXCEPT ![u].prev = v], g)
           /\ Alike([g EXCEPT ![u].next = v], g)
<1>1. g \in [Units -> Headers \union {Junk}] /\ g[u] \in Headers
  BY DEF Kept, Memory
<1> QED
  BY <1>1 DEF Alike, Headers

LEMMA SizeSet ==
    ASSUME NEW h, NEW g, Kept(g, h), NEW u \in Units, h[u] # Junk, NEW v \in Nat
    PROVE  /\ [g EXCEPT ![u].size = v][u].size = v
           /\ [g EXCEPT ![u].size = v][u].status = g[u].status
           /\ \A c \in Units : c # u => [g EXCEPT ![u].size = v][c] = g[c]
<1>1. g \in [Units -> Headers \union {Junk}] /\ g[u] \in Headers
  BY DEF Kept, Memory
<1> QED
  BY <1>1 DEF Headers

LEMMA AlikeTwice ==
    ASSUME NEW h, NEW g, NEW f, NEW k, Alike(h, g), Alike(g, f), Kept(g, k),
           Kept(f, k)
    PROVE  Alike(h, f)
BY DEF Alike, Kept

\* kfree takes in the block behind, if the link there is right.
LEMMA MergeNextSizes ==
    ASSUME NEW h \in Memory, NEW a \in Units, h[a] # Junk,
           FreeIn(h, h[a].next), h[a].next \in Units, h[a].next # a
    PROVE  LET n == h[a].next
               g == MergeNext(h, a)
           IN  /\ g[a].size = h[a].size + h[n].size + 1
               /\ g[a].status = h[a].status
               /\ \A c \in Units : c # a /\ c # n => g[c] = h[c]
<1> DEFINE n == h[a].next
           x == h[a].size + h[n].size + 1
           y == h[n].next
           g1 == [h EXCEPT ![a].size = x]
           g2 == [g1 EXCEPT ![n].size = 0]
           g3 == [g2 EXCEPT ![a].next = y]
<1>1. MergeNext(h, a) = g3
  BY DEF MergeNext, MergeWithNext
<1>2. h[a] \in Headers /\ n \in Units /\ h[n] \in Headers /\ h[n] # Junk /\ n # a
  BY DEF FreeIn, Memory
<1>3. x \in Nat /\ y \in Nat
  BY <1>2 DEF Headers
<1>4. Kept(h, h)
  BY KeptSelf
<1> HIDE DEF n, x, y
<1>5. Kept(g1, h)
  BY <1>3, <1>4, FieldSet
<1>6. g1[a].size = x /\ g1[a].status = h[a].status
      /\ \A c \in Units : c # a => g1[c] = h[c]
  BY <1>3, <1>4, SizeSet
<1> HIDE DEF g1
<1>7. Kept(g2, h)
  BY <1>2, <1>5, FieldSet
<1>8. \A c \in Units : c # n => g2[c] = g1[c]
  BY <1>2, <1>5, SizeSet
<1> HIDE DEF g2
<1>9. Alike(g3, g2)
  BY <1>3, <1>7, LinkSet
<1>10. \A c \in Units : c # a => g3[c] = g2[c]
  BY <1>7 DEF Kept, Memory
<1>11. g2[a] # Junk
  BY <1>7 DEF Kept
<1> HIDE DEF g3
<1>12. g3[a].size = x /\ g3[a].status = h[a].status
  BY <1>2, <1>6, <1>8, <1>9, <1>11 DEF Alike
<1>13. \A c \in Units : c # a /\ c # n => g3[c] = h[c]
  BY <1>6, <1>8, <1>10
<1> QED
  BY <1>1, <1>12, <1>13 DEF n, x

LEMMA MergeNextWalk ==
    ASSUME NEW h, NEW pos, Typed(h, pos), NEW S, IsWalk(S, h, pos), NEW a \in S,
           h[a].next \in S \union {Null},
           FreeIn(h, h[a].next) => h[a].next = Behind(h, a)
    PROVE  LET g == MergeNext(h, a)
           IN  \E V : /\ IsWalk(V, g, pos) /\ a \in V
                      /\ g[a].status = h[a].status
                      /\ \A c \in S : c <= a => c \in V
                      /\ \A c \in S : h[c].status = "USED" => c \in V
                      /\ \A c \in V : c # a => g[c] = h[c]
<1> DEFINE n == h[a].next
           g == MergeNext(h, a)
<1>1. /\ S \subseteq Units /\ S \subseteq Nat
      /\ \A c \in S : /\ h[c] # Junk /\ h[c].size \in Nat /\ c >= 1
                      /\ Behind(h, c) = c + h[c].size + 1
                      /\ Behind(h, c) \in Nat /\ Behind(h, c) > c
  BY WalkTypes
<1>2. CASE ~FreeIn(h, n)
  <2>1. g = h
    BY <1>2 DEF MergeNext, MergeWithNext
  <2> QED
    BY <2>1
<1>3. CASE FreeIn(h, n)
  <2>1. n \in S /\ n = Behind(h, a) /\ n \in Units /\ n > a /\ n # a
    BY <1>1, <1>3 DEF FreeIn
  <2>2. h \in Memory /\ a \in Units /\ h[a] # Junk
    BY <1>1 DEF Typed, Memory
  <2>3. /\ g[a].size = h[a].size + h[n].size + 1
        /\ g[a].status = h[a].status
        /\ \A c \in Units : c # a /\ c # n => g[c] = h[c]
    BY <1>3, <2>1, <2>2, MergeNextSizes
  <2>4. g[a] # Junk
    <3>1. ~IsJunk(h, n)
      BY <1>1, <2>1 DEF IsJunk
    <3>2. Kept(g, h)
      BY <2>2, <3>1, MergeNextTyped
    <3> QED
      BY <2>2, <3>2 DEF Kept
  <2> HIDE DEF g
  <2>5. Behind(g, a) = Behind(h, n)
    <3>1. Behind(g, a) = a + (h[a].size + h[n].size + 1) + 1
      BY <2>3 DEF Behind
    <3>2. Behind(h, n) = n + h[n].size + 1 /\ n = a + h[a].size + 1
      BY <1>1, <2>1
    <3>3. h[n].size \in Nat /\ h[a].size \in Nat /\ a \in Nat
      BY <1>1, <2>1
    <3> HIDE DEF n
    <3> QED
      BY <3>1, <3>2, <3>3
  <2>6. \A c \in S : c # a /\ c # n =>
           g[c] # Junk /\ Behind(g, c) = Behind(h, c)
    BY <1>1, <2>3, BehindSame
  <2> HIDE DEF n
  <2>7. IsWalk(S \ {n}, g, pos)
    BY <2>1, <2>4, <2>5, <2>6, MergeWalk
  <2>8. \A c \in S : c <= a => c # n
    BY <1>1, <2>1
  <2>9. \A c \in S : h[c].status = "USED" => c # n
    BY <1>3 DEF FreeIn
  <2>10. \A c \in S \ {n} : c # a => g[c] = h[c]
    BY <1>1, <2>3
  <2> QED
    BY <2>1, <2>3, <2>7, <2>8, <2>9, <2>10 DEF g
<1> QED
  BY <1>2, <1>3

\* The block in front takes in the one that is freed.
LEMMA MergePrevSizes ==
    ASSUME NEW h \in Memory, NEW a \in Units, h[a] # Junk,
           FreeIn(h, h[a].prev), h[a].prev \in Units, h[a].prev # a,
           ~IsJunk(h, h[a].next)
    PROVE  LET p == h[a].prev
               g == MergePrev(h, a)
           IN  /\ g[p].size = h[p].size + h[a].size + 1
               /\ \A c \in Units : c # a /\ c # p /\ h[c] # Junk =>
                     g[c].size = h[c].size /\ g[c].status = h[c].status
<1> DEFINE n == h[a].next
           p == h[a].prev
           x == h[p].size + h[a].size + 1
           g1 == [h EXCEPT ![p].size = x]
           g2 == [g1 EXCEPT ![a].size = 0]
           g3 == [g2 EXCEPT ![a].prev = Null]
           g4 == [g3 EXCEPT ![p].next = n]
           g5 == [g4 EXCEPT ![n].prev = p]
           g6 == [g5 EXCEPT ![a].next = Null]
<1>1. MergePrev(h, a) = IF n = Null THEN g4 ELSE g6
  BY DEF MergePrev, MergeIntoPrev
<1>2. h[a] \in Headers /\ p \in Units /\ h[p] \in Headers /\ h[p] # Junk /\ p # a
  BY DEF FreeIn, Memory
<1>3. n # Null => n \in Units /\ h[n] # Junk
  BY DEF IsJunk
<1>4. x \in Nat /\ n \in Nat /\ p \in Nat /\ Null \in Nat
  <2>1. h[a].size \in Nat /\ n \in Nat /\ p \in Nat /\ h[p].size \in Nat
    BY <1>2 DEF Headers
  <2> QED
    BY <2>1 DEF Null
<1>5. Kept(h, h)
  BY KeptSelf
<1> HIDE DEF n, p, x
<1>6. Kept(g1, h)
  BY <1>2, <1>4, <1>5, FieldSet
<1>7. g1[p].size = x /\ \A c \in Units : c # p => g1[c] = h[c]
  BY <1>2, <1>4, <1>5, SizeSet
<1> HIDE DEF g1
<1>8. Kept(g2, h)
  BY <1>6, FieldSet
<1>9. \A c \in Units : c # a => g2[c] = g1[c]
  BY <1>6, SizeSet
<1> HIDE DEF g2
<1>10. Kept(g3, h)
  BY <1>4, <1>8, FieldSet
<1>11. Alike(g3, g2)
  BY <1>4, <1>8, LinkSet
<1> HIDE DEF g3
<1>12. Kept(g4, h)
  BY <1>2, <1>4, <1>10, FieldSet
<1>13. Alike(g4, g3)
  BY <1>2, <1>4, <1>10, LinkSet
<1> HIDE DEF g4
<1>14. Alike(g4, g2)
  BY <1>8, <1>10, <1>11, <1>13, AlikeTwice
<1>15. Alike(IF n = Null THEN g4 ELSE g6, g2)
  <2>1. CASE n = Null
    BY <1>14, <2>1
  <2>2. CASE n # Null
    <3>1. Kept(g5, h)
      BY <1>3, <1>4, <1>12, <2>2, FieldSet
    <3>2. Alike(g5, g4)
      BY <1>3, <1>4, <1>12, <2>2, LinkSet
    <3> HIDE DEF g5
    <3>3. Alike(g6, g5)
      BY <1>4, <3>1, LinkSet
    <3> HIDE DEF g6
    <3>4. Alike(g5, g2)
      BY <1>8, <1>12, <1>14, <3>2, AlikeTwice
    <3>5. Alike(g6, g2)
      BY <1>8, <3>1, <3>3, <3>4, AlikeTwice
    <3> QED
      BY <2>2, <3>5
  <2> QED
    BY <2>1, <2>2
<1>16. \A c \in Units : h[c] # Junk => g2[c] # Junk
  BY <1>8 DEF Kept
<1>17. Alike(MergePrev(h, a), g2)
  BY <1>1, <1>15
<1>18. MergePrev(h, a)[p].size = x
  BY <1>2, <1>7, <1>9, <1>16, <1>17 DEF Alike
<1>19. \A c \in Units : c # a /\ c # p /\ h[c] # Junk =>
          /\ MergePrev(h, a)[c].size = h[c].size
          /\ MergePrev(h, a)[c].status = h[c].status
  BY <1>7, <1>9, <1>16, <1>17 DEF Alike
<1> QED
  BY <1>18, <1>19 DEF p, x

LEMMA MergePrevWalk ==
    ASSUME NEW h, NEW pos, Typed(h, pos), NEW S, IsWalk(S, h, pos), NEW a \in S,
           ~IsJunk(h, h[a].prev), ~IsJunk(h, h[a].next),
           FreeIn(h, h[a].prev) => h[a].prev \in S /\ Behind(h, h[a].prev) = a
    PROVE  LET g == MergePrev(h, a)
           IN  \E V : /\ IsWalk(V, g, pos)
                      /\ \A c \in S : c # a /\ h[c].status = "USED" =>
                            c \in V /\ g[c].size = h[c].size /\ g[c].status = "USED"
<1> DEFINE p == h[a].prev
           g == MergePrev(h, a)
<1>1. /\ S \subseteq Units /\ S \subseteq Nat
      /\ \A c \in S : /\ h[c] # Junk /\ h[c].size \in Nat
                      /\ Behind(h, c) = c + h[c].size + 1
                      /\ Behind(h, c) \in Nat /\ Behind(h, c) > c
  BY WalkTypes
<1>2. CASE ~FreeIn(h, p)
  <2>1. g = h
    BY <1>2 DEF MergePrev, MergeIntoPrev
  <2> QED
    BY <2>1
<1>3. CASE FreeIn(h, p)
  <2>1. p \in S /\ Behind(h, p) = a /\ p \in Units /\ p # a
    BY <1>1, <1>3
  <2>2. h \in Memory /\ a \in Units /\ h[a] # Junk
    BY <1>1 DEF Typed, Memory
  <2>3. /\ g[p].size = h[p].size + h[a].size + 1
        /\ \A c \in Units : c # a /\ c # p /\ h[c] # Junk =>
              g[c].size = h[c].size /\ g[c].status = h[c].status
    BY <1>3, <2>1, <2>2, MergePrevSizes
  <2>4. Kept(g, h)
    BY <2>2, MergePrevTyped
  <2> HIDE DEF g
  <2>5. g[p] # Junk /\ \A c \in S : g[c] # Junk
    BY <1>1, <2>1, <2>4 DEF Kept
  <2>6. Behind(g, p) = Behind(h, a)
    <3>1. Behind(g, p) = p + (h[p].size + h[a].size + 1) + 1
      BY <2>3 DEF Behind
    <3>2. Behind(h, a) = a + h[a].size + 1 /\ a = p + h[p].size + 1
      BY <1>1, <2>1
    <3>3. h[p].size \in Nat /\ h[a].size \in Nat /\ a \in Nat /\ p \in Nat
      BY <1>1, <2>1
    <3> HIDE DEF p
    <3> QED
      BY <3>1, <3>2, <3>3
  <2>7. \A c \in S : c # p /\ c # a =>
           g[c] # Junk /\ Behind(g, c) = Behind(h, c)
    BY <1>1, <2>3, <2>5, BehindSame
  <2> HIDE DEF p
  <2>8. IsWalk(S \ {a}, g, pos)
    BY <2>1, <2>5, <2>6, <2>7, MergeWalk
  <2>9. \A c \in S : h[c].status = "USED" => c # p
    BY <1>3 DEF FreeIn
  <2> QED
    BY <1>1, <2>3, <2>8, <2>9 DEF g
<1> QED
  BY <1>2, <1>3

\* kfree keeps the walk if the links of the block lead to blocks, and those
\* that lead to free blocks to the neighbours.
LEMMA KfreeWalk ==
    ASSUME NEW h, NEW pos, Typed(h, pos), NEW S, IsWalk(S, h, pos),
           Clear(h, pos), NEW a \in S,
           h[a].next \in S \union {Null}, h[a].next # a,
           FreeIn(h, h[a].next) =>
              /\ h[a].next = Behind(h, a)
              /\ h[h[a].next].next \in S \union {Null},
           h[a].prev \in S \union {Null}, h[a].prev < a,
           FreeIn(h, h[a].prev) => Behind(h, h[a].prev) = a
    PROVE  LET g == kfree(h, a)
           IN  /\ ~FreeIsWild(h, a) /\ Typed(g, pos) /\ Clear(g, pos)
               /\ \E V : /\ IsWalk(V, g, pos)
                         /\ \A c \in S : c # a /\ h[c].status = "USED" =>
                               /\ c \in V /\ g[c].size = h[c].size
                               /\ g[c].status = "USED"
<1> DEFINE n == h[a].next
           p == h[a].prev
           f == MarkFree(h, a)
           m == MergeNext(f, a)
           g == kfree(h, a)
<1>1. /\ S \subseteq Units /\ S \subseteq Nat
      /\ \A c \in S : h[c] # Junk /\ c >= 1
  BY WalkTypes
<1>2. /\ h \in Memory /\ a \in Units /\ h[a] \in Headers /\ a # Null
      /\ h[a] # Junk
  <2>1. h \in Memory /\ a \in Units /\ h[a] # Junk
    BY <1>1 DEF Typed, Memory
  <2> QED
    BY <2>1, Constants DEF Memory
<1>3. /\ f[a].next = n /\ f[a].prev = p /\ f[a].size = h[a].size
      /\ \A c \in Units : c # a => f[c] = h[c]
  BY <1>2 DEF MarkFree, Memory, Headers
<1>4. Kept(f, h)
  <2>1. Kept(h, h) /\ 0 \in Nat /\ "FREE" \in {"FREE", "USED"}
    BY <1>2, KeptSelf
  <2>2. Kept([h EXCEPT ![a].status = "FREE"], h)
    BY <1>2, <2>1, FieldSet
  <2> QED
    BY <2>2 DEF MarkFree
<1> HIDE DEF f
<1>5. f \in Memory /\ \A u \in Units : f[u] = Junk <=> h[u] = Junk
  BY <1>4 DEF Kept
<1>6. Typed(f, pos)
  BY <1>5 DEF Typed, Memory
<1>7. \A c \in S : f[c] # Junk /\ Behind(f, c) = Behind(h, c)
  BY <1>1, <1>3, <1>5, BehindSame
<1>8. IsWalk(S, f, pos)
  BY <1>7, SameWalk
<1>9. n \in S \union {Null} /\ n # a /\ p \in S \union {Null} /\ p # a /\ p < a
  BY <1>1
<1>10. /\ FreeIn(f, n) <=> FreeIn(h, n)
       /\ FreeIn(f, p) <=> FreeIn(h, p)
       /\ ~IsJunk(f, n) /\ ~IsJunk(f, p) /\ ~IsJunk(h, n) /\ ~IsJunk(h, p)
  <2>1. n # Null => n \in Units /\ f[n] = h[n] /\ h[n] # Junk
    BY <1>1, <1>3, <1>9
  <2>2. p # Null => p \in Units /\ f[p] = h[p] /\ h[p] # Junk
    BY <1>1, <1>3, <1>9
  <2> HIDE DEF n, p
  <2> QED
    BY <2>1, <2>2 DEF FreeIn, IsJunk
<1>11. /\ FreeIn(f, n) => n = Behind(f, a)
       /\ FreeIn(f, n) => f[n].next \in S \union {Null}
  <2>1. FreeIn(f, n) => n \in Units /\ f[n] = h[n]
    BY <1>1, <1>3, <1>9 DEF FreeIn
  <2>2. FreeIn(h, n) => n = Behind(h, a) /\ h[n].next \in S \union {Null}
    OBVIOUS
  <2> QED
    BY <1>7, <1>10, <2>1, <2>2
<1>12. PICK V : /\ IsWalk(V, m, pos) /\ a \in V
                /\ \A c \in S : c <= a => c \in V
                /\ \A c \in S : f[c].status = "USED" => c \in V
                /\ \A c \in V : c # a => m[c] = f[c]
  BY <1>3, <1>6, <1>8, <1>9, <1>11, MergeNextWalk
<1>13. Kept(m, f) /\ m[a].prev = p
  BY <1>2, <1>3, <1>5, <1>10, MergeNextTyped
<1>14. m \in Memory /\ \A u \in Units : m[u] = Junk <=> h[u] = Junk
  BY <1>5, <1>13 DEF Kept
<1>15. m[a].next \in S \union {Null}
  <2>1. CASE ~FreeIn(f, n)
    <3>1. m = f
      BY <1>3, <2>1 DEF MergeNext, MergeWithNext
    <3> QED
      BY <1>3, <1>9, <3>1
  <2>2. CASE FreeIn(f, n)
    <3> DEFINE g1 == [f EXCEPT ![a].size = @ + f[n].size + 1]
               g2 == [g1 EXCEPT ![n].size = 0]
    <3>1. m = [g2 EXCEPT ![a].next = f[n].next]
      BY <1>3, <2>2 DEF MergeNext, MergeWithNext
    <3>2. /\ a \in DOMAIN g2 /\ "next" \in DOMAIN g2[a]
      <4>1. f[a] \in Headers /\ f \in [Units -> Headers \union {Junk}]
        BY <1>2, <1>5 DEF Memory
      <4>2. g2[a] = [f[a] EXCEPT !.size = @ + f[n].size + 1]
        BY <1>2, <1>9, <4>1
      <4> QED
        BY <1>2, <4>1, <4>2 DEF Headers
    <3> HIDE DEF g2
    <3>3. m[a].next = f[n].next
      BY <3>1, <3>2
    <3> QED
      BY <1>11, <2>2, <3>3
  <2> QED
    BY <2>1, <2>2
<1>16. g = MergePrev(m, a)
  BY DEF g, kfree, f
<1> HIDE DEF m, g
<1>17. Typed(m, pos)
  BY <1>14 DEF Typed, Memory
<1>18. ~IsJunk(m, m[a].next) /\ ~IsJunk(m, m[a].prev)
  <2>1. ~IsJunk(m, m[a].next)
    BY <1>1, <1>14, <1>15 DEF IsJunk
  <2>2. ~IsJunk(m, m[a].prev)
    BY <1>10, <1>13, <1>14 DEF IsJunk
  <2> QED
    BY <2>1, <2>2
<1>19. FreeIn(m, p) => p \in V /\ Behind(m, p) = a
  <2>1. SUFFICES ASSUME FreeIn(m, p)
                 PROVE  p \in V /\ Behind(m, p) = a
    OBVIOUS
  <2>2. p \in S /\ p <= a /\ p # a /\ p \in Units
    <3>1. p \in S
      BY <1>9, <2>1, Zenon DEF FreeIn
    <3> HIDE DEF p
    <3> QED
      BY <1>1, <1>9, <3>1
  <2>3. p \in V /\ m[p] = h[p]
    BY <1>3, <1>12, <2>2
  <2>4. Behind(h, p) = a
    <3>1. FreeIn(h, p)
      BY <2>1, <2>3 DEF FreeIn
    <3> QED
      BY <3>1
  <2> QED
    BY <2>3, <2>4, BehindSame
<1>20. PICK W : /\ IsWalk(W, g, pos)
                /\ \A c \in V : c # a /\ m[c].status = "USED" =>
                     c \in W /\ g[c].size = m[c].size /\ g[c].status = "USED"
  BY <1>12, <1>13, <1>16, <1>17, <1>18, <1>19, MergePrevWalk
<1>21. Kept(g, m)
  BY <1>2, <1>14, <1>16, <1>18, MergePrevTyped
<1>22. g \in Memory /\ \A u \in Units : g[u] = Junk <=> h[u] = Junk
  BY <1>14, <1>21 DEF Kept
<1>23. Typed(g, pos) /\ Clear(g, pos)
  BY <1>22 DEF Typed, Clear, Memory
<1>24. ~FreeIsWild(h, a)
  <2>1. ~IsJunk(h, a)
    BY <1>2 DEF IsJunk
  <2> QED
    BY <1>10, <1>18, <2>1 DEF FreeIsWild, m, f
<1>25. ASSUME NEW c \in S, c # a, h[c].status = "USED"
       PROVE  c \in W /\ g[c].size = h[c].size /\ g[c].status = "USED"
  <2>1. f[c] = h[c]
    BY <1>1, <1>3, <1>25
  <2>2. c \in V /\ m[c] = h[c]
    BY <1>12, <1>25, <2>1
  <2> QED
    BY <1>20, <1>25, <2>2
<1> QED
  BY <1>20, <1>23, <1>24, <1>25 DEF g

-----------------------------------------------------------------------------
(* The invariant.                                                          *)

\* No two clients hold the same block.
HeldOnce == \A b, c \in live : b.at = c.at => b = c

IInv == TypeOK /\ HeldOnce /\ IsFiniteSet(live)

\* Every block a client holds is in use and large enough.
Holds(V, h, L) ==
    \A b \in L : b.at \in V /\ h[b.at].status = "USED" /\ h[b.at].size >= b.size

LEMMA SoundIs ==
    ASSUME TypeOK, Sound
    PROVE  /\ Typed(hdr, cur_heap_pos) /\ hdr \in Memory
           /\ IsWalk(Blocks, hdr, cur_heap_pos)
           /\ Clear(hdr, cur_heap_pos) /\ Holds(Blocks, hdr, live) /\ ~wild
<1>1. Typed(hdr, cur_heap_pos) /\ hdr \in Memory
  BY DEF TypeOK, Typed, Memory
<1>2. \A a \in Walk(hdr, cur_heap_pos) :
         /\ hdr[a] # Junk
         /\ Behind(hdr, a) \in Walk(hdr, cur_heap_pos) \union {cur_heap_pos}
  BY DEF Sound, Blocks, EndsAt, Behind
<1>3. IsWalk(Walk(hdr, cur_heap_pos), hdr, cur_heap_pos)
  BY <1>1, <1>2, WalkEnds
<1>4. Clear(hdr, cur_heap_pos) /\ Holds(Blocks, hdr, live) /\ ~wild
  BY DEF Sound, Clear, Holds
<1> QED
  BY <1>1, <1>3, <1>4 DEF Blocks

LEMMA SoundNext ==
    ASSUME NEW V, Typed(hdr', cur_heap_pos'), IsWalk(V, hdr', cur_heap_pos'),
           Clear(hdr', cur_heap_pos'), Holds(V, hdr', live'), ~wild'
    PROVE  Sound'
<1>1. Blocks' = V
  BY WalkIs DEF Blocks
<1>2. \A a \in V : hdr'[a] # Junk /\ Behind(hdr', a) \in V \union {cur_heap_pos'}
  BY DEF IsWalk
<1> QED
  BY <1>1, <1>2 DEF Sound, EndsAt, Behind, Clear, Holds

\* A new block is nobody else's.
LEMMA HoldsNew ==
    ASSUME NEW S, NEW h, NEW V, NEW g, NEW q, NEW a, NEW bytes \in Nat \ {0},
           Gives(S, h, V, g, q, a, RoundUp(bytes)), NEW L, Holds(S, h, L)
    PROVE  /\ Holds(V, g, L \union {Block(a, bytes)})
           /\ \A b \in L : b.at # a
<1>1. \A b \in L : /\ b.at \in S /\ h[b.at].status = "USED"
                   /\ h[b.at].size >= b.size
  BY DEF Holds
<1>2. /\ S \subseteq V /\ a \in V
      /\ g[a].status = "USED" /\ g[a].size \in Nat /\ g[a].size >= RoundUp(bytes)
      /\ a \in S => h[a].status = "FREE"
      /\ \A c \in S : c # a =>
            g[c].size = h[c].size /\ g[c].status = h[c].status
  BY DEF Gives
<1>3. \A b \in L : b.at # a
  BY <1>1, <1>2
<1> DEFINE d == Block(a, bytes)
<1>4. d.at = a /\ d.size \in Nat /\ d.size <= RoundUp(bytes) /\ RoundUp(bytes) \in Nat
  BY Rounding
<1> HIDE DEF d
<1>5. d.at \in V /\ g[d.at].status = "USED" /\ g[d.at].size >= d.size
  BY <1>2, <1>4
<1>6. ASSUME NEW b \in L
      PROVE  b.at \in V /\ g[b.at].status = "USED" /\ g[b.at].size >= b.size
  <2>1. b.at \in S /\ b.at # a
    BY <1>1, <1>3
  <2>2. g[b.at].size = h[b.at].size /\ g[b.at].status = h[b.at].status
    BY <1>2, <2>1
  <2> QED
    BY <1>1, <1>2, <2>1, <2>2
<1>7. Holds(V, g, L \union {d})
  BY <1>5, <1>6 DEF Holds
<1> QED
  BY <1>3, <1>7 DEF d

\* So kalloc keeps a sound heap sound.
LEMMA AllocStep ==
    ASSUME IInv, Sound, NEW bytes \in Requests, Alloc(bytes)
    PROVE  IInv' /\ Sound'
<1> DEFINE size == RoundUp(bytes)
           r == kalloc(hdr, cur_heap_pos, size)
           d == Block(r.at, bytes)
<1>1. /\ Typed(hdr, cur_heap_pos) /\ IsWalk(Blocks, hdr, cur_heap_pos)
      /\ Clear(hdr, cur_heap_pos) /\ Holds(Blocks, hdr, live) /\ ~wild
  BY SoundIs DEF IInv
<1>2. bytes \in Nat \ {0} /\ size \in Nat
  BY HeapAssumption, Rounding
<1>3. ~WalkIsWild(hdr, cur_heap_pos, size)
  BY <1>1, WalkNotWild
<1>4. /\ Room(hdr, cur_heap_pos, size)
      /\ hdr' = Written(r.hdr, d) /\ cur_heap_pos' = r.pos
      /\ live' = live \union {d} /\ wild' = wild
  BY <1>3 DEF Alloc
<1>5. PICK V : Gives(Blocks, hdr, V, r.hdr, r.pos, r.at, size)
  BY <1>1, <1>2, <1>4, KallocGives
<1> HIDE DEF r
<1>6. Gives(Blocks, hdr, V, hdr', cur_heap_pos', r.at, size)
  BY <1>2, <1>4, <1>5, WrittenGives
<1>7. Holds(V, hdr', live') /\ \A b \in live : b.at # r.at
  BY <1>1, <1>2, <1>4, <1>6, HoldsNew
<1>8. /\ Typed(hdr', cur_heap_pos') /\ IsWalk(V, hdr', cur_heap_pos')
      /\ Clear(hdr', cur_heap_pos') /\ r.at \in V
  BY <1>6 DEF Gives
<1>9. Sound'
  BY <1>1, <1>4, <1>7, <1>8, SoundNext
<1>10. d \in [at : Units, size : Nat \ {0}] /\ d.at = r.at
  <2>1. r.at \in Units
    BY <1>8, WalkTypes
  <2>2. d.at = r.at /\ d.size \in Nat \ {0}
    BY <1>2, Rounding
  <2> QED
    BY <2>1, <2>2 DEF Block
<1> HIDE DEF d
<1>11. TypeOK'
  BY <1>4, <1>8, <1>10 DEF IInv, TypeOK, Typed
<1>12. HeldOnce'
  BY <1>4, <1>7, <1>10 DEF IInv, HeldOnce
<1>13. IsFiniteSet(live')
  BY <1>4, FS_AddElement DEF IInv
<1> QED
  BY <1>9, <1>11, <1>12, <1>13 DEF IInv

-----------------------------------------------------------------------------
(* kfree and rekalloc keep the types, whatever the links.                  *)

\* Going wild, a call changes nothing else.
LEMMA WildStep ==
    ASSUME IInv, GoesWild
    PROVE  IInv'
BY DEF IInv, GoesWild, TypeOK, HeldOnce

\* A client's block is a block of the walk.
LEMMA LiveIs ==
    ASSUME IInv, Sound, NEW b \in live
    PROVE  /\ b.at \in Blocks /\ b.at \in Units /\ b.at \in Nat
           /\ hdr[b.at] \in Headers /\ hdr[b.at] # Junk
           /\ hdr[b.at].size \in Nat /\ hdr[b.at].status = "USED"
           /\ ~IsJunk(hdr, b.at) /\ b.size \in Nat
<1>1. /\ Typed(hdr, cur_heap_pos) /\ IsWalk(Blocks, hdr, cur_heap_pos)
      /\ Holds(Blocks, hdr, live) /\ hdr \in Memory
  BY SoundIs DEF IInv
<1> DEFINE a == b.at
<1>2. a \in Blocks /\ hdr[a].status = "USED"
  BY <1>1 DEF Holds
<1>3. b.size \in Nat
  BY DEF IInv, TypeOK
<1> HIDE DEF a
<1>4. a \in Units /\ a \in Nat /\ hdr[a] # Junk /\ hdr[a].size \in Nat
  BY <1>1, <1>2, WalkTypes
<1>5. hdr[a] \in Headers /\ ~IsJunk(hdr, a)
  BY <1>1, <1>4 DEF Memory, IsJunk
<1> QED
  BY <1>2, <1>3, <1>4, <1>5 DEF a

LEMMA FreeTyped ==
    ASSUME IInv, Sound, NEW b \in live, Free(b)
    PROVE  IInv'
<1>1. CASE FreeIsWild(hdr, b.at)
  BY <1>1, WildStep DEF Free
<1>2. CASE ~FreeIsWild(hdr, b.at)
  <2>1. /\ hdr' = kfree(hdr, b.at) /\ live' = live \ {b}
        /\ cur_heap_pos' = cur_heap_pos /\ wild' = wild
    BY <1>2 DEF Free
  <2>2. Kept(hdr', hdr)
    <3>1. hdr \in Memory /\ b.at \in Units
      BY SoundIs, LiveIs DEF IInv
    <3> QED
      BY <1>2, <2>1, <3>1, KfreeTyped
  <2>3. TypeOK'
    BY <2>1, <2>2 DEF IInv, TypeOK, Kept, Memory
  <2>4. HeldOnce'
    BY <2>1 DEF IInv, HeldOnce
  <2>5. IsFiniteSet(live')
    BY <2>1, FS_RemoveElement DEF IInv
  <2> QED
    BY <2>3, <2>4, <2>5 DEF IInv
<1> QED
  BY <1>1, <1>2

\* What rekalloc makes of the headers in place.
LEMMA GrowInPlaceTyped ==
    ASSUME hdr \in Memory, NEW a \in Units, hdr[a] # Junk, NEW size \in Nat,
           ~IsJunk(hdr, hdr[a].next), FreeIn(hdr, hdr[a].next),
           FitsInFront(a, size)
    PROVE  GrowInPlace(a, size) \in Memory
<1> DEFINE n == hdr[a].next
           rest == hdr[n].size + hdr[a].size - size
           s == a + size + 1
           grown == Header(size, hdr[a].status, hdr[a].prev, hdr[n].next)
           front == [grown EXCEPT !.next = s]
           cut == Header(rest, "FREE", a, hdr[n].next)
           gone == Cleared(hdr, n, hdr[n].size)
<1>1. hdr[a] \in Headers /\ n \in Units /\ hdr[n] \in Headers
  BY DEF FreeIn, IsJunk, Memory
<1>2. /\ hdr[a].size \in Nat /\ hdr[n].size \in Nat /\ hdr[n].next \in Nat
      /\ hdr[a].status \in {"FREE", "USED"} /\ hdr[a].prev \in Nat
  BY <1>1 DEF Headers
<1>3. rest \in Nat /\ a \in Nat /\ s \in Nat
  BY <1>2, Constants DEF FitsInFront
<1>4. GrowInPlace(a, size) =
         IF rest = 0 THEN [gone EXCEPT ![a] = grown]
         ELSE [hdr EXCEPT ![a] = front, ![s] = cut]
  BY DEF GrowInPlace
<1> HIDE DEF n, rest, s
<1>5. grown \in Headers
  BY <1>2 DEF Header, Headers
<1>6. front \in Headers
  BY <1>2, <1>3 DEF Header, Headers
<1>7. cut \in Headers
  BY <1>2, <1>3 DEF Header, Headers
<1>8. gone \in Memory
  <2>1. Header(0, "FREE", Null, Null) \in Headers
    BY DEF Header, Headers, Null
  <2> HIDE DEF n
  <2> QED
    BY <2>1 DEF Cleared, Memory
<1> HIDE DEF grown, front, cut, gone
<1>9. [gone EXCEPT ![a] = grown] \in Memory
  BY <1>5, <1>8 DEF Memory
<1>10. [hdr EXCEPT ![a] = front, ![s] = cut] \in Memory
  <2> DEFINE h == [hdr EXCEPT ![a] = front]
  <2>1. h \in Memory
    BY <1>6 DEF Memory
  <2> HIDE DEF h
  <2>2. [h EXCEPT ![s] = cut] \in Memory
    BY <1>7, <2>1 DEF Memory
  <2> QED
    BY <2>2 DEF h
<1> QED
  BY <1>4, <1>9, <1>10

\* rekalloc moves the block: it gets a new one, fills it, and then frees the
\* old one.
Moved(bytes) ==
    LET r == kalloc(hdr, cur_heap_pos, RoundUp(bytes))
    IN  Written(r.hdr, Block(r.at, bytes))

LEMMA GrowIs ==
    ASSUME IInv, Sound, NEW b \in live, NEW bytes \in Growths, Grow(b, bytes)
    PROVE  LET size == RoundUp(bytes)
               n == hdr[b.at].next
               r == kalloc(hdr, cur_heap_pos, size)
           IN  /\ size > hdr[b.at].size
               /\ \/ IsJunk(hdr, n) /\ GoesWild
                  \/ UNCHANGED vars
                  \/ /\ ~IsJunk(hdr, n) /\ FreeIn(hdr, n) /\ FitsInFront(b.at, size)
                     /\ hdr' = Written(GrowInPlace(b.at, size), Block(b.at, bytes))
                     /\ live' = (live \ {b}) \union {Block(b.at, bytes)}
                     /\ cur_heap_pos' = cur_heap_pos /\ wild' = wild
                  \/ /\ ~FreeIn(hdr, n) /\ Room(hdr, cur_heap_pos, size)
                     /\ FreeIsWild(Moved(bytes), b.at) /\ GoesWild
                  \/ /\ ~FreeIn(hdr, n) /\ Room(hdr, cur_heap_pos, size)
                     /\ ~FreeIsWild(Moved(bytes), b.at)
                     /\ hdr' = kfree(Moved(bytes), b.at)
                     /\ cur_heap_pos' = r.pos
                     /\ live' = (live \ {b}) \union {Block(r.at, bytes)}
                     /\ wild' = wild
<1> DEFINE size == RoundUp(bytes)
           n == hdr[b.at].next
<1>1. ~WalkIsWild(hdr, cur_heap_pos, size)
  BY SoundIs, WalkNotWild DEF IInv
<1>2. ~IsJunk(hdr, b.at)
  BY LiveIs
<1>3. CASE IsJunk(hdr, n)
  BY <1>3 DEF Grow
<1>4. CASE ~IsJunk(hdr, n) /\ FreeIn(hdr, n)
  BY <1>2, <1>4 DEF Grow
<1>5. CASE ~IsJunk(hdr, n) /\ ~FreeIn(hdr, n)
  BY <1>1, <1>2, <1>5 DEF Grow, Moved
<1> QED
  BY <1>3, <1>4, <1>5

LEMMA MovedGives ==
    ASSUME IInv, Sound, NEW bytes \in Growths,
           Room(hdr, cur_heap_pos, RoundUp(bytes))
    PROVE  LET r == kalloc(hdr, cur_heap_pos, RoundUp(bytes))
           IN  \E V : Gives(Blocks, hdr, V, Moved(bytes), r.pos, r.at, RoundUp(bytes))
<1> DEFINE size == RoundUp(bytes)
           r == kalloc(hdr, cur_heap_pos, size)
<1>1. /\ Typed(hdr, cur_heap_pos) /\ IsWalk(Blocks, hdr, cur_heap_pos)
      /\ Clear(hdr, cur_heap_pos)
  BY SoundIs DEF IInv
<1>2. bytes \in Nat \ {0} /\ size \in Nat
  BY HeapAssumption, Rounding
<1>3. PICK V : Gives(Blocks, hdr, V, r.hdr, r.pos, r.at, size)
  BY <1>1, <1>2, KallocGives
<1>4. Moved(bytes) = Written(r.hdr, Block(r.at, bytes))
  BY DEF Moved
<1> HIDE DEF r
<1>5. Gives(Blocks, hdr, V, Moved(bytes), r.pos, r.at, size)
  BY <1>2, <1>3, <1>4, WrittenGives
<1> QED
  BY <1>5 DEF r

\* The clients' blocks after rekalloc.
LEMMA Exchange ==
    ASSUME IInv, NEW b \in live, NEW a \in Units, NEW bytes \in Nat \ {0},
           \A c \in live : c # b => c.at # a,
           live' = (live \ {b}) \union {Block(a, bytes)}
    PROVE  /\ live' \subseteq [at : Units, size : Nat \ {0}]
           /\ HeldOnce' /\ IsFiniteSet(live')
           /\ Cardinality(live') <= Cardinality(live)
<1> DEFINE d == Block(a, bytes)
           L == live \ {b}
<1>1. d \in [at : Units, size : Nat \ {0}] /\ d.at = a
  <2>1. d.at = a /\ d.size \in Nat \ {0}
    BY Rounding
  <2> QED
    BY <2>1 DEF Block
<1> HIDE DEF d
<1>2. live' \subseteq [at : Units, size : Nat \ {0}]
  BY <1>1 DEF IInv, TypeOK, d
<1>3. HeldOnce'
  BY <1>1 DEF IInv, HeldOnce, d
<1>4. /\ IsFiniteSet(L) /\ Cardinality(L) = Cardinality(live) - 1
      /\ Cardinality(live) \in Nat
  BY FS_RemoveElement, FS_CardinalityType DEF IInv
<1> HIDE DEF L
<1>5. /\ IsFiniteSet(L \union {d})
      /\ Cardinality(L \union {d}) = Cardinality(L)
           \/ Cardinality(L \union {d}) = Cardinality(L) + 1
  BY <1>4, FS_AddElement
<1>6. live' = L \union {d}
  BY DEF L, d
<1>7. Cardinality(L \union {d}) <= Cardinality(live)
  BY <1>4, <1>5
<1> QED
  BY <1>2, <1>3, <1>5, <1>6, <1>7

LEMMA WrittenTyped ==
    ASSUME NEW h \in Memory, NEW b
    PROVE  Written(h, b) \in Memory
BY DEF Written, Memory

\* Neither kfree nor rekalloc makes more blocks.
LEMMA GrowTyped ==
    ASSUME IInv, Sound, NEW b \in live, NEW bytes \in Growths, Grow(b, bytes)
    PROVE  IInv' /\ Cardinality(live') <= Cardinality(live)
<1> DEFINE size == RoundUp(bytes)
           n == hdr[b.at].next
           r == kalloc(hdr, cur_heap_pos, size)
<1>1. /\ b.at \in Blocks /\ b.at \in Units /\ hdr[b.at] # Junk /\ hdr \in Memory
      /\ hdr[b.at].status = "USED"
  BY LiveIs, SoundIs DEF IInv
<1>2. bytes \in Nat \ {0} /\ size \in Nat
  BY HeapAssumption, Rounding
<1>3. Cardinality(live) \in Nat
  BY FS_CardinalityType DEF IInv
<1>4. CASE GoesWild
  BY <1>3, <1>4, WildStep DEF GoesWild
<1>5. CASE UNCHANGED vars
  <2>1. IInv'
    BY <1>5 DEF vars, IInv, TypeOK, HeldOnce
  <2> QED
    BY <1>3, <1>5, <2>1 DEF vars
<1>6. CASE /\ ~IsJunk(hdr, n) /\ FreeIn(hdr, n) /\ FitsInFront(b.at, size)
           /\ hdr' = Written(GrowInPlace(b.at, size), Block(b.at, bytes))
           /\ live' = (live \ {b}) \union {Block(b.at, bytes)}
           /\ cur_heap_pos' = cur_heap_pos /\ wild' = wild
  <2>1. \A c \in live : c # b => c.at # b.at
    BY DEF IInv, HeldOnce
  <2>2. /\ live' \subseteq [at : Units, size : Nat \ {0}]
        /\ HeldOnce' /\ IsFiniteSet(live')
        /\ Cardinality(live') <= Cardinality(live)
    BY <1>1, <1>2, <1>6, <2>1, Exchange
  <2>3. GrowInPlace(b.at, size) \in Memory
    BY <1>1, <1>2, <1>6, GrowInPlaceTyped
  <2>4. hdr' \in Memory
    BY <1>6, <2>3, WrittenTyped
  <2>5. TypeOK'
    BY <1>6, <2>2, <2>4 DEF IInv, TypeOK, Memory
  <2> QED
    BY <2>2, <2>5 DEF IInv
<1>7. CASE /\ Room(hdr, cur_heap_pos, size)
           /\ ~FreeIsWild(Moved(bytes), b.at)
           /\ hdr' = kfree(Moved(bytes), b.at)
           /\ cur_heap_pos' = r.pos
           /\ live' = (live \ {b}) \union {Block(r.at, bytes)}
           /\ wild' = wild
  <2>1. PICK V : Gives(Blocks, hdr, V, Moved(bytes), r.pos, r.at, size)
    BY <1>7, MovedGives
  <2>2. Holds(Blocks, hdr, live)
    BY SoundIs DEF IInv
  <2>3. \A c \in live : c.at # r.at
    BY <1>2, <2>1, <2>2, HoldsNew
  <2>4. Typed(Moved(bytes), r.pos) /\ IsWalk(V, Moved(bytes), r.pos) /\ r.at \in V
    BY <2>1 DEF Gives
  <2>5. r.at \in Units
    BY <2>4, WalkTypes
  <2>6. Moved(bytes) \in Memory
    BY <2>4 DEF Typed, Memory
  <2>7. Kept(hdr', Moved(bytes))
    BY <1>1, <1>7, <2>6, KfreeTyped
  <2>8. /\ live' \subseteq [at : Units, size : Nat \ {0}]
        /\ HeldOnce' /\ IsFiniteSet(live')
        /\ Cardinality(live') <= Cardinality(live)
    BY <1>2, <1>7, <2>3, <2>5, Exchange
  <2>9. hdr' \in Memory /\ cur_heap_pos' \in 1 .. (HeapUnits + 1)
    BY <1>7, <2>4, <2>7 DEF Kept, Typed
  <2>10. TypeOK'
    BY <1>7, <2>8, <2>9 DEF IInv, TypeOK, Memory
  <2> QED
    BY <2>8, <2>10 DEF IInv
<1> QED
  BY <1>4, <1>5, <1>6, <1>7, GrowIs

-----------------------------------------------------------------------------
(* kfree and rekalloc keep a sound heap sound as long as the links lead to *)
(* the neighbours.                                                         *)

LEMMA LinksRight ==
    ASSUME TypeOK, Sound, WellLinked, NEW a \in Blocks
    PROVE  /\ hdr[a].next \in Blocks \union {Null} /\ hdr[a].next # a
           /\ hdr[a].next # Null => hdr[a].next = Behind(hdr, a)
           /\ hdr[a].prev \in Blocks \union {Null} /\ hdr[a].prev < a
           /\ hdr[a].prev # Null => Behind(hdr, hdr[a].prev) = a
<1>1. /\ Typed(hdr, cur_heap_pos) /\ IsWalk(Blocks, hdr, cur_heap_pos)
  BY SoundIs
<1>2. /\ Blocks \subseteq Nat /\ cur_heap_pos \in Nat
      /\ \A c \in Blocks : /\ Behind(hdr, c) \in Nat /\ Behind(hdr, c) > c
                           /\ c >= 1 /\ c < cur_heap_pos
  BY <1>1, WalkTypes
<1>3. hdr[a].next = IF Behind(hdr, a) = cur_heap_pos THEN Null ELSE Behind(hdr, a)
  BY DEF WellLinked, EndsAt, Behind
<1>4. Behind(hdr, a) \in Blocks \/ Behind(hdr, a) = cur_heap_pos
  BY <1>1 DEF IsWalk
<1>5. /\ hdr[a].next \in Blocks \union {Null} /\ hdr[a].next # a
      /\ hdr[a].next # Null => hdr[a].next = Behind(hdr, a)
  BY <1>2, <1>3, <1>4, Constants
<1> DEFINE p == hdr[a].prev
<1>6. p = LastBefore(Blocks, a)
  BY DEF WellLinked
<1> HIDE DEF p
<1>7. \/ p = Null
      \/ p \in Blocks /\ p < a /\ \A b \in Blocks : b < a => b <= p
  <2>1. a \in Nat
    BY <1>2
  <2> QED
    BY <1>1, <1>6, <2>1, LastBeforeIs
<1>8. CASE p = Null
  BY <1>2, <1>5, <1>8, Constants DEF p
<1>9. CASE p # Null
  <2>1. p \in Blocks /\ p < a /\ \A b \in Blocks : b < a => b <= p
    BY <1>7, <1>9
  <2>2. a >= Behind(hdr, p)
    BY <1>1, <1>2, <2>1 DEF IsWalk
  <2>3. Behind(hdr, p) \in Blocks \/ Behind(hdr, p) = cur_heap_pos
    BY <1>1, <2>1 DEF IsWalk
  <2>4. Behind(hdr, p) = a
    BY <1>2, <2>1, <2>2, <2>3
  <2> QED
    BY <1>5, <2>1, <2>4 DEF p
<1> QED
  BY <1>8, <1>9

LEMMA FreeSafe ==
    ASSUME IInv, Sound, WellLinked, NEW b \in live, Free(b)
    PROVE  Sound'
<1> DEFINE a == b.at
           n == hdr[a].next
           p == hdr[a].prev
           g == kfree(hdr, a)
<1>1. /\ Typed(hdr, cur_heap_pos) /\ IsWalk(Blocks, hdr, cur_heap_pos)
      /\ Clear(hdr, cur_heap_pos) /\ Holds(Blocks, hdr, live) /\ ~wild
  BY SoundIs DEF IInv
<1>2. a \in Blocks
  BY LiveIs
<1>3. TypeOK
  BY DEF IInv
<1>4. \A c \in live : c # b => c.at # a
  BY DEF IInv, HeldOnce
<1> HIDE DEF a
<1>5. /\ n \in Blocks \union {Null} /\ n # a /\ (n # Null => n = Behind(hdr, a))
      /\ p \in Blocks \union {Null} /\ p < a /\ (p # Null => Behind(hdr, p) = a)
  BY <1>2, <1>3, LinksRight
<1>6. FreeIn(hdr, n) => n = Behind(hdr, a) /\ hdr[n].next \in Blocks \union {Null}
  <2>1. SUFFICES ASSUME FreeIn(hdr, n)
                 PROVE  n = Behind(hdr, a) /\ hdr[n].next \in Blocks \union {Null}
    OBVIOUS
  <2>2. n # Null
    BY <2>1 DEF FreeIn
  <2> HIDE DEF n
  <2>3. n \in Blocks
    BY <1>5, <2>2
  <2>4. hdr[n].next \in Blocks \union {Null}
    BY <1>3, <2>3, LinksRight
  <2> QED
    BY <1>5, <2>2, <2>4
<1>7. FreeIn(hdr, p) => Behind(hdr, p) = a
  BY <1>5 DEF FreeIn
<1>8. /\ ~FreeIsWild(hdr, a) /\ Typed(g, cur_heap_pos) /\ Clear(g, cur_heap_pos)
      /\ \E V : /\ IsWalk(V, g, cur_heap_pos)
                /\ \A c \in Blocks : c # a /\ hdr[c].status = "USED" =>
                      c \in V /\ g[c].size = hdr[c].size /\ g[c].status = "USED"
  BY <1>1, <1>2, <1>5, <1>6, <1>7, KfreeWalk
<1> HIDE DEF g
<1>9. PICK V : /\ IsWalk(V, g, cur_heap_pos)
               /\ \A c \in Blocks : c # a /\ hdr[c].status = "USED" =>
                     c \in V /\ g[c].size = hdr[c].size /\ g[c].status = "USED"
  BY <1>8
<1>10. /\ hdr' = g /\ live' = live \ {b}
       /\ cur_heap_pos' = cur_heap_pos /\ wild' = wild
  BY <1>8 DEF Free, g, a
<1>11. Holds(V, g, live')
  <2>1. SUFFICES ASSUME NEW c \in live, c # b
                 PROVE  /\ c.at \in V /\ g[c.at].status = "USED"
                        /\ g[c.at].size >= c.size
    BY <1>10 DEF Holds
  <2>2. /\ c.at \in Blocks /\ c.at # a /\ hdr[c.at].status = "USED"
        /\ hdr[c.at].size >= c.size
    BY <1>1, <1>4, <2>1 DEF Holds
  <2> QED
    BY <1>9, <2>2
<1> QED
  BY <1>1, <1>8, <1>9, <1>10, <1>11, SoundNext

\* rekalloc moves the block.  The old block's links are as right after kalloc
\* as before, but for a block that kalloc has just put in use.
LEMMA MoveSafe ==
    ASSUME IInv, Sound, WellLinked, NEW b \in live, NEW bytes \in Growths,
           ~FreeIn(hdr, hdr[b.at].next),
           Room(hdr, cur_heap_pos, RoundUp(bytes))
    PROVE  LET r == kalloc(hdr, cur_heap_pos, RoundUp(bytes))
           IN  /\ ~FreeIsWild(Moved(bytes), b.at)
               /\ /\ hdr' = kfree(Moved(bytes), b.at)
                  /\ cur_heap_pos' = r.pos
                  /\ live' = (live \ {b}) \union {Block(r.at, bytes)}
                  /\ wild' = wild
                  => Sound'
<1> DEFINE size == RoundUp(bytes)
           r == kalloc(hdr, cur_heap_pos, size)
           a == b.at
           n == hdr[a].next
           p == hdr[a].prev
           h == Moved(bytes)
           g == kfree(h, a)
           d == Block(r.at, bytes)
<1>1. /\ Typed(hdr, cur_heap_pos) /\ IsWalk(Blocks, hdr, cur_heap_pos)
      /\ Holds(Blocks, hdr, live) /\ ~wild
  BY SoundIs DEF IInv
<1>2. a \in Blocks /\ hdr[a].status = "USED"
  BY LiveIs
<1>3. TypeOK /\ bytes \in Nat \ {0}
  BY HeapAssumption DEF IInv
<1>4. \A c \in live : c # b => c.at # a
  BY DEF IInv, HeldOnce
<1>5. PICK V : Gives(Blocks, hdr, V, h, r.pos, r.at, size)
  BY MovedGives
<1>6. d.at = r.at
  BY <1>3, Rounding
<1>7. ~FreeIn(hdr, n)
  OBVIOUS
<1> DEFINE q == r.pos
           w == r.at
<1> HIDE DEF a, h, r, q, w, d
<1>8. Gives(Blocks, hdr, V, h, q, w, size)
  BY <1>5 DEF q, w
<1>9. Holds(V, h, live \union {d}) /\ \A c \in live : c.at # w
  BY <1>1, <1>3, <1>8, HoldsNew DEF d, w
<1>10. a # w
  BY <1>9 DEF a
<1>11. /\ Typed(h, q) /\ IsWalk(V, h, q) /\ Clear(h, q)
       /\ Blocks \subseteq V /\ w \in V /\ h[w].status = "USED"
       /\ \A c \in Blocks : c # w =>
             /\ h[c].size = hdr[c].size /\ h[c].status = hdr[c].status
             /\ h[c].prev = hdr[c].prev /\ h[c].next \in {hdr[c].next, w}
  BY <1>8 DEF Gives
<1>12. /\ n \in Blocks \union {Null} /\ n # a
       /\ p \in Blocks \union {Null} /\ p < a /\ (p # Null => Behind(hdr, p) = a)
  BY <1>2, <1>3, LinksRight
<1>13. h[a].prev = p /\ h[a].next \in {n, w}
  BY <1>2, <1>10, <1>11
<1> HIDE DEF n, p
<1>14. h[a].next \in V \union {Null} /\ h[a].next # a
  BY <1>10, <1>11, <1>12, <1>13
<1>15. ~FreeIn(h, w)
  BY <1>11 DEF FreeIn
<1>16. ~FreeIn(h, n)
  <2>1. CASE n = w
    BY <1>15, <2>1
  <2>2. CASE n = Null
    BY <2>2 DEF FreeIn
  <2>3. CASE n # w /\ n # Null
    <3>1. n \in Blocks /\ hdr[n] # Junk
      BY <1>1, <1>12, <2>3 DEF IsWalk
    <3>2. hdr[n].status # "FREE"
      BY <1>7, <2>3, <3>1 DEF FreeIn
    <3>3. h[n].status = hdr[n].status
      BY <1>11, <2>3, <3>1
    <3> QED
      BY <3>2, <3>3 DEF FreeIn
  <2> QED
    BY <2>1, <2>2, <2>3
<1>17. ~FreeIn(h, h[a].next)
  BY <1>13, <1>15, <1>16
<1>18. h[a].prev \in V \union {Null} /\ h[a].prev < a
  BY <1>11, <1>12, <1>13
<1>19. FreeIn(h, h[a].prev) => Behind(h, h[a].prev) = a
  <2>1. SUFFICES ASSUME FreeIn(h, p)
                 PROVE  Behind(h, p) = a
    BY <1>13
  <2>2. p # w /\ p # Null
    BY <1>15, <2>1 DEF FreeIn
  <2>3. p \in Blocks /\ Behind(hdr, p) = a
    BY <1>12, <2>2
  <2>4. h[p].size = hdr[p].size
    BY <1>11, <2>2, <2>3
  <2> QED
    BY <2>3, <2>4, BehindSame
<1>20. a \in V
  BY <1>2, <1>11
<1>21. /\ ~FreeIsWild(h, a) /\ Typed(g, q) /\ Clear(g, q)
       /\ \E W : /\ IsWalk(W, g, q)
                 /\ \A c \in V : c # a /\ h[c].status = "USED" =>
                       c \in W /\ g[c].size = h[c].size /\ g[c].status = "USED"
  BY <1>11, <1>14, <1>17, <1>18, <1>19, <1>20, KfreeWalk
<1> HIDE DEF g
<1>22. PICK W : /\ IsWalk(W, g, q)
                /\ \A c \in V : c # a /\ h[c].status = "USED" =>
                      c \in W /\ g[c].size = h[c].size /\ g[c].status = "USED"
  BY <1>21
<1>23. Holds(W, g, (live \ {b}) \union {d})
  <2>1. SUFFICES ASSUME NEW c \in (live \ {b}) \union {d}
                 PROVE  /\ c.at \in W /\ g[c.at].status = "USED"
                        /\ g[c.at].size >= c.size
    BY DEF Holds
  <2>2. c.at # a
    BY <1>4, <1>6, <1>10 DEF w
  <2>3. c.at \in V /\ h[c.at].status = "USED" /\ h[c.at].size >= c.size
    BY <1>9 DEF Holds
  <2> QED
    BY <1>22, <2>2, <2>3
<1>24. ASSUME hdr' = g, cur_heap_pos' = q, live' = (live \ {b}) \union {d},
              wild' = wild
       PROVE  Sound'
  BY <1>1, <1>21, <1>22, <1>23, <1>24, SoundNext
<1> QED
  BY <1>21, <1>24 DEF g, q, d, h, a, r

\* rekalloc takes memory from the free block behind: that block moves up, and
\* when nothing is left of it the cleared unit at its end is an empty one.
LEMMA GrowInPlaceSizes ==
    ASSUME TypeOK, IsWalk(Blocks, hdr, cur_heap_pos), NEW a \in Blocks,
           NEW size \in Nat, size > hdr[a].size,
           hdr[a].next \in Blocks, hdr[a].next = Behind(hdr, a),
           FitsInFront(a, size)
    PROVE  LET n == hdr[a].next
               s == a + size + 1
               g == GrowInPlace(a, size)
           IN  /\ s \in Units /\ n < s /\ s < Behind(hdr, n)
               /\ g[a].size = size /\ g[a].status = hdr[a].status
               /\ Behind(g, a) = s /\ Behind(g, s) = Behind(hdr, n)
               /\ g[a] # Junk /\ g[s] # Junk
               /\ \A c \in Blocks : c # a /\ c # n => g[c] = hdr[c]
               /\ \A u \in Units : u >= cur_heap_pos => g[u] = hdr[u]
<1> DEFINE n == hdr[a].next
           x == hdr[a].size
           y == hdr[n].size
           rest == y + x - size
           s == a + size + 1
           clear == Header(0, "FREE", Null, Null)
           grown == Header(size, hdr[a].status, hdr[a].prev, hdr[n].next)
           front == [grown EXCEPT !.next = s]
           cut == Header(rest, "FREE", a, hdr[n].next)
           gone == Cleared(hdr, n, y)
           g == GrowInPlace(a, size)
<1>1. Typed(hdr, cur_heap_pos) /\ hdr \in Memory
  BY DEF TypeOK, Typed, Memory
<1>2. /\ Blocks \subseteq Units /\ Blocks \subseteq Nat /\ cur_heap_pos \in Nat
      /\ cur_heap_pos <= HeapUnits + 1 /\ HeapUnits \in Nat
      /\ \A c \in Blocks : /\ hdr[c] # Junk /\ hdr[c].size \in Nat
                           /\ Behind(hdr, c) = c + hdr[c].size + 1
                           /\ Behind(hdr, c) \in Nat /\ Behind(hdr, c) > c
                           /\ Behind(hdr, c) <= cur_heap_pos /\ c >= 1
  BY <1>1, WalkTypes, Constants DEF TypeOK
<1>3. n \in Blocks /\ n = Behind(hdr, a) /\ hdr[a] \in Headers /\ hdr[n] \in Headers
  BY <1>1, <1>2 DEF Memory
<1>4. /\ hdr[a].status \in {"FREE", "USED"} /\ hdr[a].prev \in Nat
      /\ hdr[n].next \in Nat
  BY <1>3 DEF Headers
<1>5. /\ x \in Nat /\ y \in Nat /\ a \in Nat /\ a >= 1 /\ n \in Nat
      /\ n = a + x + 1 /\ Behind(hdr, n) = n + y + 1
      /\ Behind(hdr, n) <= cur_heap_pos /\ size > x
  BY <1>2, <1>3
<1>6. y + x >= size
  BY DEF FitsInFront
<1>7. g = IF rest = 0 THEN [gone EXCEPT ![a] = grown]
          ELSE [hdr EXCEPT ![a] = front, ![s] = cut]
  BY DEF GrowInPlace
<1>8. \A c \in Blocks : c # a /\ c # n =>
         c # s /\ c \notin n .. (n + y)
  <2>1. TAKE c \in Blocks
  <2>2. SUFFICES ASSUME c # a, c # n
                 PROVE  c < a \/ c >= Behind(hdr, n)
    <3>1. c \in Nat
      BY <1>2
    <3> HIDE DEF n, x, y
    <3> QED
      BY <1>5, <1>6, <3>1
  <2>3. c > a => c >= Behind(hdr, a)
    BY DEF IsWalk
  <2>4. c > n => c >= Behind(hdr, n)
    BY <1>3 DEF IsWalk
  <2>5. c \in Nat
    BY <1>2
  <2> HIDE DEF n
  <2> QED
    BY <1>3, <1>5, <2>2, <2>3, <2>4, <2>5
<1> HIDE DEF n, x, y
<1>9. /\ rest \in Nat /\ s \in Nat /\ n < s /\ s < Behind(hdr, n)
      /\ s < cur_heap_pos /\ s # a /\ a < n
  BY <1>5, <1>6, <1>2
<1>10. s \in Units /\ a \in Units /\ n \in Units
  BY <1>2, <1>3, <1>5, <1>9, Constants
<1>11. a \notin n .. (n + y) /\ s \in n .. (n + y)
       /\ \A u \in Units : u >= cur_heap_pos => u # a /\ u # s /\ u \notin n .. (n + y)
  BY <1>2, <1>5, <1>6, <1>9, Constants
<1>12. /\ grown \in Headers /\ grown.size = size /\ grown.status = hdr[a].status
       /\ front \in Headers /\ front.size = size /\ front.status = hdr[a].status
       /\ clear \in Headers /\ clear.size = 0
  <2> HIDE DEF s
  <2>1. grown \in Headers /\ grown.size = size /\ grown.status = hdr[a].status
    BY <1>4 DEF Header, Headers
  <2>2. front \in Headers /\ front.size = size /\ front.status = hdr[a].status
    BY <1>4, <1>9 DEF Header, Headers
  <2>3. clear \in Headers /\ clear.size = 0
    BY DEF Header, Headers, Null
  <2> QED
    BY <2>1, <2>2, <2>3
<1>13. cut \in Headers /\ cut.size = rest
  <2> HIDE DEF rest
  <2> QED
    BY <1>4, <1>5, <1>9 DEF Header, Headers
<1> HIDE DEF grown, front, cut
<1>14. CASE rest = 0
  <2>1. g = [u \in Units |-> IF u = a THEN grown
                             ELSE IF u \in n .. (n + y) THEN clear ELSE hdr[u]]
    <3>1. g = [gone EXCEPT ![a] = grown]
      BY <1>7, <1>14
    <3>2. gone = [u \in Units |-> IF u \in n .. (n + y) THEN clear ELSE hdr[u]]
      BY DEF Cleared
    <3> HIDE DEF gone, g, clear
    <3> QED
      BY <1>10, <3>1, <3>2
  <2> HIDE DEF g, clear
  <2>2. g[a] = grown /\ g[s] = clear
    BY <1>9, <1>10, <1>11, <2>1
  <2>3. /\ \A c \in Blocks : c # a /\ c # n => g[c] = hdr[c]
        /\ \A u \in Units : u >= cur_heap_pos => g[u] = hdr[u]
    BY <1>2, <1>8, <1>11, <2>1
  <2>4. g[a] # Junk /\ g[s] # Junk
    BY <1>12, <2>2, Constants
  <2>5. Behind(g, a) = s /\ Behind(g, s) = s + 0 + 1
    BY <1>12, <2>2 DEF Behind
  <2>6. Behind(g, s) = Behind(hdr, n)
    BY <1>5, <1>14, <2>5
  <2> QED
    BY <1>9, <1>10, <1>12, <2>2, <2>3, <2>4, <2>5, <2>6 DEF g, n
<1>15. CASE rest # 0
  <2>1. g = [hdr EXCEPT ![a] = front, ![s] = cut]
    BY <1>7, <1>15
  <2> HIDE DEF g
  <2>2. /\ g[a] = front /\ g[s] = cut
        /\ \A u \in Units : u # a /\ u # s => g[u] = hdr[u]
    BY <1>1, <1>9, <1>10, <2>1 DEF Memory
  <2>3. /\ \A c \in Blocks : c # a /\ c # n => g[c] = hdr[c]
        /\ \A u \in Units : u >= cur_heap_pos => g[u] = hdr[u]
    BY <1>2, <1>8, <1>11, <2>2
  <2>4. g[a] # Junk /\ g[s] # Junk
    BY <1>12, <1>13, <2>2, Constants
  <2>5. Behind(g, a) = s /\ Behind(g, s) = s + rest + 1
    BY <1>12, <1>13, <2>2 DEF Behind
  <2>6. Behind(g, s) = Behind(hdr, n)
    BY <1>5, <2>5
  <2> QED
    BY <1>9, <1>10, <1>12, <2>2, <2>3, <2>4, <2>5, <2>6 DEF g, n
<1> QED
  BY <1>14, <1>15

LEMMA InPlaceSafe ==
    ASSUME IInv, Sound, WellLinked, NEW b \in live, NEW bytes \in Growths,
           RoundUp(bytes) > hdr[b.at].size,
           FreeIn(hdr, hdr[b.at].next), FitsInFront(b.at, RoundUp(bytes)),
           hdr' = Written(GrowInPlace(b.at, RoundUp(bytes)), Block(b.at, bytes)),
           live' = (live \ {b}) \union {Block(b.at, bytes)},
           cur_heap_pos' = cur_heap_pos, wild' = wild
    PROVE  Sound'
<1> DEFINE size == RoundUp(bytes)
           a == b.at
           n == hdr[a].next
           s == a + size + 1
           g == GrowInPlace(a, size)
           d == Block(a, bytes)
           pos == cur_heap_pos
           V == (Blocks \ {n}) \union {s}
<1>1. /\ Typed(hdr, pos) /\ IsWalk(Blocks, hdr, pos) /\ hdr \in Memory
      /\ Clear(hdr, pos) /\ Holds(Blocks, hdr, live) /\ ~wild
  BY SoundIs DEF IInv
<1>2. a \in Blocks /\ a \in Units /\ hdr[a].status = "USED" /\ hdr[a] # Junk
  BY LiveIs
<1>3. TypeOK /\ bytes \in Nat \ {0}
  BY HeapAssumption DEF IInv
<1>4. \A c \in live : c # b => c.at # a
  BY DEF IInv, HeldOnce
<1>5. d.at = a /\ d.size \in Nat /\ d.size <= size /\ size \in Nat
  BY <1>3, Rounding
<1>6. /\ size > hdr[a].size /\ FreeIn(hdr, n) /\ FitsInFront(a, size)
      /\ hdr' = Written(g, d) /\ live' = (live \ {b}) \union {d}
  OBVIOUS
<1> HIDE DEF a, d, size
<1>7. n \in Blocks /\ n = Behind(hdr, a)
  <2>1. n # Null
    BY <1>6 DEF FreeIn
  <2> QED
    BY <1>2, <1>3, <2>1, LinksRight
<1>8. ~IsJunk(hdr, n)
  BY <1>1, <1>7, WalkTypes DEF IsJunk
<1>9. /\ s \in Units /\ n < s /\ s < Behind(hdr, n)
      /\ g[a].size = size /\ g[a].status = hdr[a].status
      /\ Behind(g, a) = s /\ Behind(g, s) = Behind(hdr, n)
      /\ g[a] # Junk /\ g[s] # Junk
      /\ \A c \in Blocks : c # a /\ c # n => g[c] = hdr[c]
      /\ \A u \in Units : u >= pos => g[u] = hdr[u]
  BY <1>1, <1>2, <1>3, <1>5, <1>6, <1>7, GrowInPlaceSizes
<1>10. g \in Memory
  BY <1>1, <1>2, <1>5, <1>6, <1>8, GrowInPlaceTyped
<1> HIDE DEF g, s
<1>11. Typed(g, pos)
  BY <1>1, <1>10 DEF Typed, Memory
<1>12. \A c \in Blocks : c # a /\ c # n =>
          g[c] # Junk /\ Behind(g, c) = Behind(hdr, c)
  <2>1. \A c \in Blocks : hdr[c] # Junk
    BY <1>1 DEF IsWalk
  <2> QED
    BY <1>9, <2>1, BehindSame
<1>13. s \in Nat
  BY <1>9, Constants
<1> HIDE DEF n
<1>14. IsWalk(V, g, pos) /\ a \in V
  <2>1. IsWalk((Blocks \ {n}) \union {s}, g, pos)
    <3>1. Typed(hdr, pos) /\ IsWalk(Blocks, hdr, pos)
      BY <1>1
    <3>2. /\ n < s /\ s < Behind(hdr, n) /\ Behind(g, a) = s
          /\ Behind(g, s) = Behind(hdr, n) /\ g[a] # Junk /\ g[s] # Junk
      BY <1>9
    <3> HIDE DEF pos
    <3> QED
      BY <1>2, <1>7, <1>12, <1>13, <3>1, <3>2, ShiftWalk
  <2>2. a # n
    BY <1>1, <1>2, <1>7, WalkTypes
  <2> QED
    BY <1>2, <2>1, <2>2
<1> HIDE DEF V
<1>15. d.at \in V /\ d.size <= g[d.at].size
  BY <1>5, <1>9, <1>14
<1>16. /\ Typed(hdr', pos) /\ IsWalk(V, hdr', pos)
       /\ \A c \in V : hdr'[c] = g[c]
       /\ \A u \in Units : u >= pos => hdr'[u] = g[u]
  BY <1>5, <1>6, <1>11, <1>14, <1>15, WriteWalk
<1>17. Clear(hdr', pos)
  BY <1>1, <1>9, <1>16 DEF Clear
<1>18. Holds(V, hdr', live')
  <2>1. /\ d.at \in V /\ hdr'[d.at].status = "USED" /\ hdr'[d.at].size >= d.size
    BY <1>2, <1>5, <1>9, <1>14, <1>16
  <2>2. ASSUME NEW c \in live, c # b
        PROVE  /\ c.at \in V /\ hdr'[c.at].status = "USED"
               /\ hdr'[c.at].size >= c.size
    <3>1. /\ c.at \in Blocks /\ c.at # a /\ hdr[c.at].status = "USED"
          /\ hdr[c.at].size >= c.size
      BY <1>1, <1>4, <2>2 DEF Holds
    <3>2. c.at # n
      BY <1>6, <3>1 DEF FreeIn, n
    <3>3. c.at \in V
      BY <3>1, <3>2 DEF V
    <3>4. hdr'[c.at] = hdr[c.at]
      BY <1>9, <1>16, <3>1, <3>2, <3>3
    <3> QED
      BY <3>1, <3>3, <3>4
  <2> QED
    BY <1>6, <2>1, <2>2 DEF Holds
<1>19. cur_heap_pos' = pos /\ ~wild'
  BY <1>1
<1> QED
  BY <1>16, <1>17, <1>18, <1>19, SoundNext

LEMMA GrowSafe ==
    ASSUME IInv, Sound, WellLinked, NEW b \in live, NEW bytes \in Growths,
           Grow(b, bytes)
    PROVE  Sound'
<1> DEFINE size == RoundUp(bytes)
           n == hdr[b.at].next
           r == kalloc(hdr, cur_heap_pos, size)
<1>1. ~IsJunk(hdr, n)
  <2>1. /\ Typed(hdr, cur_heap_pos) /\ IsWalk(Blocks, hdr, cur_heap_pos)
        /\ b.at \in Blocks /\ TypeOK
    BY SoundIs, LiveIs DEF IInv
  <2>2. n \in Blocks \union {Null}
    BY <2>1, LinksRight
  <2>3. \A c \in Blocks : c \in Units /\ hdr[c] # Junk
    BY <2>1, WalkTypes
  <2> HIDE DEF n
  <2> QED
    BY <2>2, <2>3 DEF IsJunk
<1>2. CASE UNCHANGED vars
  BY <1>2 DEF vars, Sound, Blocks, EndsAt
<1>3. CASE /\ ~IsJunk(hdr, n) /\ FreeIn(hdr, n) /\ FitsInFront(b.at, size)
           /\ hdr' = Written(GrowInPlace(b.at, size), Block(b.at, bytes))
           /\ live' = (live \ {b}) \union {Block(b.at, bytes)}
           /\ cur_heap_pos' = cur_heap_pos /\ wild' = wild
  <2>1. size > hdr[b.at].size
    BY GrowIs
  <2> QED
    BY <1>3, <2>1, InPlaceSafe
<1>4. CASE /\ ~FreeIn(hdr, n) /\ Room(hdr, cur_heap_pos, size)
           /\ FreeIsWild(Moved(bytes), b.at)
  BY <1>4, MoveSafe
<1>5. CASE /\ ~FreeIn(hdr, n) /\ Room(hdr, cur_heap_pos, size)
           /\ hdr' = kfree(Moved(bytes), b.at)
           /\ cur_heap_pos' = r.pos
           /\ live' = (live \ {b}) \union {Block(r.at, bytes)}
           /\ wild' = wild
  BY <1>5, MoveSafe
<1> QED
  BY <1>1, <1>2, <1>3, <1>4, <1>5, GrowIs

-----------------------------------------------------------------------------
(* The theorems.                                                           *)

LEMMA InvInit ==
    ASSUME Init
    PROVE  IInv
<1>1. Header(0, "FREE", Null, Null) \in Headers
  BY DEF Header, Headers, Null
<1>2. hdr \in [Units -> Headers \union {Junk}] /\ cur_heap_pos \in 1 .. (HeapUnits + 1)
  BY <1>1, Constants DEF Init
<1>3. live = {} /\ wild = FALSE
  BY DEF Init
<1> QED
  BY <1>2, <1>3, FS_EmptySet DEF IInv, TypeOK, HeldOnce

LEMMA InvStep ==
    ASSUME IInv, [Next]_vars
    PROVE  IInv'
<1>1. CASE UNCHANGED vars
  BY <1>1 DEF vars, IInv, TypeOK, HeldOnce
<1>2. CASE Next
  <2>1. Sound
    BY <1>2 DEF Next
  <2>2. ASSUME NEW bytes \in Requests, Alloc(bytes)
        PROVE  IInv'
    BY <2>1, <2>2, AllocStep
  <2>3. ASSUME NEW b \in live, Free(b)
        PROVE  IInv'
    BY <2>1, <2>3, FreeTyped
  <2>4. ASSUME NEW b \in live, NEW bytes \in Growths, Grow(b, bytes)
        PROVE  IInv'
    BY <2>1, <2>4, GrowTyped
  <2> QED
    BY <1>2, <2>2, <2>3, <2>4 DEF Next
<1> QED
  BY <1>1, <1>2

\* The headers that kalloc, kfree and rekalloc write are headers, in every
\* state they reach, and kalloc never moves the end of the heap out of it.
THEOREM HeapTyped == Spec => []TypeOK
<1>1. Init => IInv
  BY InvInit
<1>2. IInv /\ [Next]_vars => IInv'
  BY InvStep
<1>3. IInv => TypeOK
  BY DEF IInv
<1> QED
  BY <1>1, <1>2, <1>3, PTL DEF Spec

\* kalloc keeps every sound heap sound, whatever stale links kfree, rekalloc
\* and its own splits have left: the block it gives out lies clear of all
\* blocks in use.
THEOREM KallocIsSafe == Spec => KallocKeepsSound
<1>1. Init => IInv
  BY InvInit
<1>2. IInv /\ [Next]_vars => IInv'
  BY InvStep
<1>3. IInv /\ IInv' /\ [Next]_vars =>
         [Cardinality(live') > Cardinality(live) => TypeOK' /\ Sound']_vars
  <2>1. SUFFICES ASSUME IInv, IInv', Next,
                        Cardinality(live') > Cardinality(live)
                 PROVE  TypeOK' /\ Sound'
    OBVIOUS
  <2>2. Sound /\ TypeOK' /\ Cardinality(live) \in Nat
    BY <2>1, FS_CardinalityType DEF Next, IInv
  <2>3. ASSUME NEW bytes \in Requests, Alloc(bytes)
        PROVE  Sound'
    BY <2>1, <2>2, <2>3, AllocStep
  <2>4. ASSUME NEW b \in live, Free(b)
        PROVE  FALSE
    <3>1. live' = live \/ live' = live \ {b}
      BY <2>4 DEF Free, GoesWild
    <3>2. Cardinality(live \ {b}) = Cardinality(live) - 1
      BY <2>1, <2>4, FS_RemoveElement DEF IInv
    <3>3. CASE live' = live
      BY <2>1, <2>2, <3>3
    <3>4. CASE live' = live \ {b}
      <4>1. Cardinality(live') = Cardinality(live) - 1
        BY <3>2, <3>4
      <4> QED
        BY <2>1, <2>2, <4>1
    <3> QED
      BY <3>1, <3>3, <3>4
  <2>5. ASSUME NEW b \in live, NEW bytes \in Growths, Grow(b, bytes)
        PROVE  FALSE
    <3>1. Cardinality(live') <= Cardinality(live)
      BY <2>1, <2>2, <2>5, GrowTyped
    <3>2. Cardinality(live') \in Nat
      BY <2>1, FS_CardinalityType DEF IInv
    <3> QED
      BY <2>1, <2>2, <3>1, <3>2
  <2> QED
    BY <2>1, <2>2, <2>3, <2>4, <2>5 DEF Next
<1> QED
  BY <1>1, <1>2, <1>3, PTL DEF Spec, KallocKeepsSound

\* No call, kfree and rekalloc included, spoils a sound heap whose links lead
\* to the neighbours: it takes a stale link to do that.
THEOREM RightLinksAreSafe == Spec => WellLinkedIsSafe
<1>1. Init => IInv
  BY InvInit
<1>2. IInv /\ [Next]_vars => IInv'
  BY InvStep
<1>3. IInv /\ [Next]_vars => [WellLinked => Sound']_vars
  <2>1. SUFFICES ASSUME IInv, Next, WellLinked
                 PROVE  Sound'
    OBVIOUS
  <2>2. Sound
    BY <2>1 DEF Next
  <2>3. ASSUME NEW bytes \in Requests, Alloc(bytes)
        PROVE  Sound'
    BY <2>1, <2>2, <2>3, AllocStep
  <2>4. ASSUME NEW b \in live, Free(b)
        PROVE  Sound'
    BY <2>1, <2>2, <2>4, FreeSafe
  <2>5. ASSUME NEW b \in live, NEW bytes \in Growths, Grow(b, bytes)
        PROVE  Sound'
    BY <2>1, <2>2, <2>5, GrowSafe
  <2> QED
    BY <2>1, <2>3, <2>4, <2>5 DEF Next
<1> QED
  BY <1>1, <1>2, <1>3, PTL DEF Spec, WellLinkedIsSafe

-----------------------------------------------------------------------------
(* The layouts, for a command buffer of c units.  The terminal's context   *)
(* is at 1, the buffer at 6, the process and its context behind it.        *)

BufferAt == 6
ProcessAt(c) == c + 7
ContextAt(c) == c + 14
EndAt(c) == c + 19

\* Headers, and no client's data behind the end.
Base(h, pos) == Typed(h, pos) /\ Clear(h, pos)

\* The memory from the unit a on has not been used.
Unused(h, a) == \A u \in Units : u >= a => h[u] = Header(0, "FREE", Null, Null)

Empty(h, pos) == pos = 1 /\ Unused(h, pos)

One(h, pos) ==
    /\ pos = 6 /\ Unused(h, pos)
    /\ h[1] = Header(4, "USED", Null, Null)

Two(h, pos, c, st) ==
    /\ pos = ProcessAt(c) /\ Unused(h, pos)
    /\ h[1] = Header(4, "USED", Null, BufferAt)
    /\ h[BufferAt] = Header(c, st, 1, Null)

Four(h, pos, c, st) ==
    /\ pos = EndAt(c)
    /\ h[1] = Header(4, "USED", Null, BufferAt)
    /\ h[BufferAt] = Header(c, st, 1, ProcessAt(c))
    /\ h[ProcessAt(c)] = Header(6, "USED", BufferAt, ContextAt(c))
    /\ h[ContextAt(c)] = Header(4, "USED", ProcessAt(c), Null)

\* The process is gone.  The prev of what it left may be stale.
Three(h, pos, c, st) ==
    /\ pos = EndAt(c)
    /\ h[1] = Header(4, "USED", Null, BufferAt)
    /\ h[BufferAt] = Header(c, st, 1, ProcessAt(c))
    /\ \E p \in {1, BufferAt} : h[ProcessAt(c)] = Header(11, "FREE", p, Null)

\* The buffer is, too.
Whole(h, pos, c) ==
    /\ pos = EndAt(c)
    /\ h[1] = Header(4, "USED", Null, BufferAt)
    /\ h[BufferAt] = Header(c + 12, "FREE", 1, Null)

\* The headers of each layout.
LEMMA WalkOfEmpty ==
    ASSUME NEW h, NEW pos, Empty(h, pos)
    PROVE  IsWalk({}, h, pos)
BY DEF Empty, IsWalk

LEMMA WalkOfOne ==
    ASSUME NEW h, NEW pos, One(h, pos)
    PROVE  IsWalk({1}, h, pos)
<1>1. h[1] # Junk /\ Behind(h, 1) = 6
  <2>1. h[1] = Header(4, "USED", Null, Null) /\ Null \in Nat
    BY DEF One, Null
  <2> QED
    BY <2>1, HeapAssumption DEF Header, Headers, Behind
<1> QED
  BY <1>1 DEF One, IsWalk

LEMMA WalkOfTwo ==
    ASSUME NEW h, NEW pos, NEW c \in Nat, NEW st \in {"FREE", "USED"},
           Two(h, pos, c, st)
    PROVE  IsWalk({1, 6}, h, pos)
<1>1. h[1] # Junk /\ Behind(h, 1) = 6
  <2>1. h[1] = Header(4, "USED", 0, 6)
    BY DEF Two, Null, BufferAt
  <2> QED
    BY <2>1, HeapAssumption DEF Header, Headers, Behind
<1>2. h[6] # Junk /\ Behind(h, 6) = 6 + c + 1
  <2>1. h[6] = Header(c, st, 1, 0)
    BY DEF Two, Null, BufferAt
  <2> QED
    BY <2>1, HeapAssumption DEF Header, Headers, Behind
<1>3. pos = c + 7
  BY DEF Two, ProcessAt
<1> QED
  BY <1>1, <1>2, <1>3 DEF IsWalk

LEMMA WalkOfFour ==
    ASSUME NEW h, NEW pos, NEW c \in Nat, NEW st \in {"FREE", "USED"},
           Four(h, pos, c, st)
    PROVE  IsWalk({1, 6, c + 7, c + 14}, h, pos)
<1>1. h[1] # Junk /\ Behind(h, 1) = 6
  <2>1. h[1] = Header(4, "USED", 0, 6)
    BY DEF Four, Null, BufferAt
  <2> QED
    BY <2>1, HeapAssumption DEF Header, Headers, Behind
<1>2. h[6] # Junk /\ Behind(h, 6) = 6 + c + 1
  <2>1. h[6] = Header(c, st, 1, c + 7)
    BY DEF Four, ProcessAt, BufferAt
  <2> QED
    BY <2>1, HeapAssumption DEF Header, Headers, Behind
<1>3. h[c + 7] # Junk /\ Behind(h, c + 7) = c + 7 + 6 + 1
  <2>1. h[c + 7] = Header(6, "USED", 6, c + 14)
    BY DEF Four, ProcessAt, ContextAt, BufferAt
  <2> QED
    BY <2>1, HeapAssumption DEF Header, Headers, Behind
<1>4. h[c + 14] # Junk /\ Behind(h, c + 14) = c + 14 + 4 + 1
  <2>1. h[c + 14] = Header(4, "USED", c + 7, 0)
    BY DEF Four, ProcessAt, ContextAt, Null
  <2> QED
    BY <2>1, HeapAssumption DEF Header, Headers, Behind
<1>5. pos = c + 19
  BY DEF Four, EndAt
<1> QED
  BY <1>1, <1>2, <1>3, <1>4, <1>5 DEF IsWalk

LEMMA WalkOfThree ==
    ASSUME NEW h, NEW pos, NEW c \in Nat, NEW st \in {"FREE", "USED"},
           Three(h, pos, c, st)
    PROVE  IsWalk({1, 6, c + 7}, h, pos)
<1>1. h[1] # Junk /\ Behind(h, 1) = 6
  <2>1. h[1] = Header(4, "USED", 0, 6)
    BY DEF Three, Null, BufferAt
  <2> QED
    BY <2>1, HeapAssumption DEF Header, Headers, Behind
<1>2. h[6] # Junk /\ Behind(h, 6) = 6 + c + 1
  <2>1. h[6] = Header(c, st, 1, c + 7)
    BY DEF Three, ProcessAt, BufferAt
  <2> QED
    BY <2>1, HeapAssumption DEF Header, Headers, Behind
<1>3. h[c + 7] # Junk /\ Behind(h, c + 7) = c + 7 + 11 + 1
  <2>1. PICK p \in {1, 6} : h[c + 7] = Header(11, "FREE", p, 0)
    BY DEF Three, ProcessAt, Null, BufferAt
  <2> QED
    BY <2>1, HeapAssumption DEF Header, Headers, Behind
<1>4. pos = c + 19
  BY DEF Three, EndAt
<1> QED
  BY <1>1, <1>2, <1>3, <1>4 DEF IsWalk

LEMMA WalkOfWhole ==
    ASSUME NEW h, NEW pos, NEW c \in Nat, Whole(h, pos, c)
    PROVE  IsWalk({1, 6}, h, pos)
<1>1. h[1] # Junk /\ Behind(h, 1) = 6
  <2>1. h[1] = Header(4, "USED", 0, 6)
    BY DEF Whole, Null, BufferAt
  <2> QED
    BY <2>1, HeapAssumption DEF Header, Headers, Behind
<1>2. h[6] # Junk /\ Behind(h, 6) = 6 + (c + 12) + 1
  <2>1. h[6] = Header(c + 12, "FREE", 1, 0)
    BY DEF Whole, Null, BufferAt
  <2> QED
    BY <2>1, HeapAssumption DEF Header, Headers, Behind
<1>3. pos = c + 19
  BY DEF Whole, EndAt
<1> QED
  BY <1>1, <1>2, <1>3 DEF IsWalk

-----------------------------------------------------------------------------
(* What kalloc does to a layout.                                           *)

LEMMA LastIs ==
    ASSUME NEW h, NEW pos, Typed(h, pos), NEW S, IsWalk(S, h, pos),
           NEW a \in Nat, NEW p \in S, p < a, \A x \in S : x < a => x <= p
    PROVE  LastBefore(S, a) = p
<1>1. S \subseteq Nat
  BY WalkTypes
<1>2. \/ LastBefore(S, a) = Null /\ \A b \in S : ~(b < a)
      \/ /\ LastBefore(S, a) \in S /\ LastBefore(S, a) < a
         /\ \A b \in S : b < a => b <= LastBefore(S, a)
  BY LastBeforeIs
<1> DEFINE l == LastBefore(S, a)
<1>3. l \in S /\ l < a /\ p <= l
  BY <1>2
<1>4. l <= p
  BY <1>3
<1> HIDE DEF l
<1>5. l = p
  BY <1>1, <1>3, <1>4
<1> QED
  BY <1>5 DEF l

\* Of the blocks S only the one at a, behind the one at p, fits a request.
OnlyFit(h, pos, S, size, a, p, z, o, n) ==
    /\ IsWalk(S, h, pos) /\ a \in S /\ p \in S
    /\ size \in Nat /\ z \in Nat /\ o \in Nat /\ n \in Nat
    /\ h[a] = Header(z, "FREE", o, n) /\ z >= size
    /\ p < a /\ \A x \in S : x < a => x <= p
    /\ \A x \in S : x # a => ~(h[x].status = "FREE" /\ h[x].size >= size)

\* It fits exactly.
LEMMA TakesAll ==
    ASSUME NEW h, NEW pos, NEW S, NEW z, NEW a, NEW p, NEW o, NEW n,
           Base(h, pos), OnlyFit(h, pos, S, z, a, p, z, o, n)
    PROVE  LET r == kalloc(h, pos, z)
           IN  /\ Room(h, pos, z) /\ r.at = a /\ r.pos = pos /\ Base(r.hdr, pos)
               /\ r.hdr[a] = Header(z, "USED", p, n)
               /\ \A x \in Units : x # a => r.hdr[x] = h[x]
<1> DEFINE fit == Fitting(h, pos, z)
           r == kalloc(h, pos, z)
           g == [h EXCEPT ![a].status = "USED", ![a].prev = p]
<1>0. /\ IsWalk(S, h, pos) /\ a \in S /\ p \in S /\ h[a] = Header(z, "FREE", o, n)
      /\ z \in Nat /\ o \in Nat /\ n \in Nat
      /\ p < a /\ \A x \in S : x < a => x <= p
      /\ \A x \in S : x # a => ~(h[x].status = "FREE" /\ h[x].size >= z)
  BY DEF OnlyFit
<1>1. /\ Typed(h, pos) /\ Clear(h, pos) /\ Walk(h, pos) = S /\ S \subseteq Nat
      /\ S \subseteq Units /\ h \in [Units -> Headers \union {Junk}]
      /\ h[a] # Junk
  BY <1>0, WalkIs, WalkTypes DEF Base, Typed
<1>2. h[a].status = "FREE" /\ h[a].size = z
  BY <1>0 DEF Header
<1>3. fit = {a}
  <2>1. \A x \in fit : x = a
    BY <1>0, <1>1 DEF Fitting
  <2>2. a \in fit
    BY <1>0, <1>1, <1>2 DEF Fitting
  <2> QED
    BY <2>1, <2>2
<1>4. Min(fit) = a
  BY <1>0, <1>1, <1>3, MinIs
<1>5. LastBefore(S, a) = p
  BY <1>0, <1>1, LastIs
<1>6. TakeFree(h, pos, a, z) = g
  <2>1. ~MustSplit(h, a, z)
    BY <1>0, <1>2 DEF MustSplit
  <2> QED
    BY <1>0, <1>1, <1>5, <2>1 DEF TakeFree
<1>7. r = [at |-> a, hdr |-> g, pos |-> pos] /\ Room(h, pos, z)
  BY <1>0, <1>3, <1>4, <1>6 DEF kalloc, Room
<1>8. /\ g[a] = Header(z, "USED", p, n) /\ \A x \in Units : x # a => g[x] = h[x]
  <2> DEFINE H == [[h[a] EXCEPT !.status = "USED"] EXCEPT !.prev = p]
  <2>1. H = Header(z, "USED", p, n)
    <3>1. [Header(z, "FREE", o, n) EXCEPT !.status = "USED"]
             = Header(z, "USED", o, n)
      BY DEF Header
    <3>2. [Header(z, "USED", o, n) EXCEPT !.prev = p] = Header(z, "USED", p, n)
      BY DEF Header
    <3> QED
      BY <1>0, <3>1, <3>2
  <2>2. g[a] = H /\ \A x \in Units : x # a => g[x] = h[x]
    BY <1>0, <1>1
  <2> QED
    BY <2>1, <2>2
<1>9. Base(r.hdr, r.pos)
  <2>1. PICK V : Gives(S, h, V, r.hdr, r.pos, r.at, z)
    BY <1>0, <1>1, <1>7, KallocGives
  <2> QED
    BY <2>1 DEF Gives, Base
<1> HIDE DEF g
<1> QED
  BY <1>0, <1>7, <1>8, <1>9

\* It is cut in two.
LEMMA TakesPart ==
    ASSUME NEW h, NEW pos, NEW S, NEW size, NEW a, NEW p, NEW z, NEW o, NEW n,
           Base(h, pos), OnlyFit(h, pos, S, size, a, p, z, o, n), z - size >= 3
    PROVE  LET r == kalloc(h, pos, size)
               s == a + size + 1
           IN  /\ Room(h, pos, size) /\ r.at = a /\ r.pos = pos /\ Base(r.hdr, pos)
               /\ r.hdr[a] = Header(size, "USED", p, s)
               /\ r.hdr[s] = Header(z - size - 1, "FREE", o, n)
               /\ \A x \in Units : x # a /\ x # s => r.hdr[x] = h[x]
<1> DEFINE fit == Fitting(h, pos, size)
           r == kalloc(h, pos, size)
           s == a + size + 1
           H1 == Header(z - size - 1, "FREE", o, n)
           H2 == Header(size, "USED", p, s)
           g == [h EXCEPT ![s] = H1, ![a] = H2]
<1>0. /\ IsWalk(S, h, pos) /\ a \in S /\ p \in S /\ h[a] = Header(z, "FREE", o, n)
      /\ z \in Nat /\ o \in Nat /\ n \in Nat
      /\ p < a /\ \A x \in S : x < a => x <= p
      /\ \A x \in S : x # a => ~(h[x].status = "FREE" /\ h[x].size >= size) /\ size \in Nat
  BY DEF OnlyFit
<1>1. /\ Typed(h, pos) /\ Clear(h, pos) /\ Walk(h, pos) = S /\ S \subseteq Nat
      /\ S \subseteq Units /\ h \in [Units -> Headers \union {Junk}]
      /\ h[a] # Junk /\ Behind(h, a) <= pos /\ pos <= HeapUnits + 1
  <2>1. Typed(h, pos) /\ Clear(h, pos)
    BY DEF Base
  <2>2. Walk(h, pos) = S
    BY <1>0, <2>1, WalkIs
  <2>3. /\ S \subseteq Nat /\ S \subseteq Units /\ h[a] # Junk
        /\ Behind(h, a) <= pos
    BY <1>0, <2>1, WalkTypes
  <2>4. h \in [Units -> Headers \union {Junk}] /\ pos <= HeapUnits + 1
    BY <2>1, Constants DEF Typed
  <2> QED
    BY <2>1, <2>2, <2>3, <2>4
<1>2. /\ h[a].status = "FREE" /\ h[a].size = z /\ h[a].prev = o /\ h[a].next = n
      /\ Behind(h, a) = a + z + 1
  BY <1>0 DEF Header, Behind
<1>3. fit = {a}
  <2>1. \A x \in fit : x = a
    BY <1>0, <1>1 DEF Fitting
  <2>2. a \in fit
    BY <1>0, <1>1, <1>2 DEF Fitting
  <2> QED
    BY <2>1, <2>2
<1>4. Min(fit) = a
  BY <1>0, <1>1, <1>3, MinIs
<1>5. LastBefore(S, a) = p
  BY <1>0, <1>1, LastIs
<1>6. s \in Units /\ s # a /\ a \in Units
  BY <1>0, <1>1, <1>2, Constants DEF Typed
<1>7. TakeFree(h, pos, a, size) = g
  <2>1. MustSplit(h, a, size)
    BY <1>0, <1>2 DEF MustSplit
  <2> QED
    BY <1>0, <1>1, <1>2, <1>5, <2>1 DEF TakeFree
<1>8. r = [at |-> a, hdr |-> g, pos |-> pos] /\ Room(h, pos, size)
  BY <1>0, <1>3, <1>4, <1>7 DEF kalloc, Room
<1> HIDE DEF H1, H2, s
<1>9. /\ g[a] = H2 /\ g[s] = H1
      /\ \A x \in Units : x # a /\ x # s => g[x] = h[x]
  BY <1>0, <1>1, <1>6
<1>10. Base(r.hdr, r.pos)
  <2>1. PICK V : Gives(S, h, V, r.hdr, r.pos, r.at, size)
    <3>1. size \in Nat /\ Typed(h, pos) /\ Clear(h, pos) /\ IsWalk(S, h, pos)
      BY <1>0, <1>1
    <3> QED
      BY <1>8, <3>1, KallocGives
  <2> QED
    BY <2>1 DEF Gives, Base
<1> HIDE DEF g
<1> QED
  BY <1>0, <1>8, <1>9, <1>10 DEF H1, H2, s

\* No block fits, and a new one is made behind the last, p.
LEMMA TakesNew ==
    ASSUME NEW h, NEW pos, Base(h, pos), NEW S, IsWalk(S, h, pos),
           Unused(h, pos), NEW size \in Nat, Room(h, pos, size),
           \A x \in S : ~(h[x].status = "FREE" /\ h[x].size >= size),
           NEW p \in S, \A x \in S : x <= p
    PROVE  LET r == kalloc(h, pos, size)
           IN  /\ r.at = pos /\ r.pos = pos + size + 1 /\ Base(r.hdr, r.pos)
               /\ r.hdr[pos] = Header(size, "USED", p, Null)
               /\ r.hdr[p] = [h[p] EXCEPT !.next = pos]
               /\ \A x \in Units : x # pos /\ x # p => r.hdr[x] = h[x]
<1> DEFINE r == kalloc(h, pos, size)
           new == [h EXCEPT ![pos].prev = p, ![pos].size = size,
                            ![pos].status = "USED"]
           g == [new EXCEPT ![p].next = pos]
<1>1. /\ Typed(h, pos) /\ Clear(h, pos) /\ Walk(h, pos) = S /\ S \subseteq Nat
      /\ S \subseteq Units /\ h \in [Units -> Headers \union {Junk}]
      /\ p >= 1 /\ p < pos /\ pos \in Nat
  BY WalkIs, WalkTypes DEF Base, Typed
<1>2. Fitting(h, pos, size) = {}
  BY <1>1 DEF Fitting
<1>3. LastBefore(S, pos) = p
  BY <1>1, LastIs
<1>4. pos + size <= HeapUnits
  BY <1>2 DEF Room
<1>5. pos \in Units /\ p \in Units /\ p # pos
  BY <1>1, <1>4, Constants
<1>6. h[pos] = Header(0, "FREE", Null, Null)
  BY <1>1, <1>5 DEF Unused
<1>7. p # Null
  BY <1>1, Constants
<1>8. r = [at |-> pos, hdr |-> g, pos |-> pos + size + 1]
  BY <1>1, <1>2, <1>3, <1>7 DEF kalloc, TakeNew
<1> DEFINE H == [[[h[pos] EXCEPT !.prev = p] EXCEPT !.size = size]
                   EXCEPT !.status = "USED"]
<1>9. H = Header(size, "USED", p, Null) /\ H \in Headers
  <2>1. H = Header(size, "USED", p, Null)
    <3>1. [Header(0, "FREE", Null, Null) EXCEPT !.prev = p]
             = Header(0, "FREE", p, Null)
      BY DEF Header
    <3>2. [Header(0, "FREE", p, Null) EXCEPT !.size = size]
             = Header(size, "FREE", p, Null)
      BY DEF Header
    <3>3. [Header(size, "FREE", p, Null) EXCEPT !.status = "USED"]
             = Header(size, "USED", p, Null)
      BY DEF Header
    <3> QED
      BY <1>6, <3>1, <3>2, <3>3
  <2>2. Header(size, "USED", p, Null) \in Headers
    BY <1>1 DEF Header, Headers, Null
  <2> QED
    BY <2>1, <2>2
<1>10. new = [x \in Units |-> IF x = pos THEN H ELSE h[x]]
  BY <1>1, <1>5
<1> HIDE DEF H, new
<1>13. new \in [Units -> Headers \union {Junk}]
  BY <1>1, <1>9, <1>10
<1>11. /\ g[pos] = Header(size, "USED", p, Null)
       /\ g[p] = [h[p] EXCEPT !.next = pos]
       /\ \A x \in Units : x # pos /\ x # p => g[x] = h[x]
  BY <1>5, <1>9, <1>10, <1>13
<1>12. Base(r.hdr, r.pos)
  <2>1. PICK V : Gives(S, h, V, r.hdr, r.pos, r.at, size)
    BY <1>1, KallocGives
  <2> QED
    BY <2>1 DEF Gives, Base
<1> HIDE DEF g
<1> QED
  BY <1>8, <1>11, <1>12

\* kalloc makes it as the terminal's steps do.
LEMMA NewBlockIs ==
    ASSUME NEW h, NEW pos, Base(h, pos), NEW S, IsWalk(S, h, pos), NEW size \in Nat,
           \A x \in S : ~(h[x].status = "FREE" /\ h[x].size >= size),
           NEW p \in S, \A x \in S : x <= p
    PROVE  kalloc(h, pos, size).hdr = NewBlock(h, pos, p, size)
<1>1. /\ Walk(h, pos) = S /\ S \subseteq Nat /\ p >= 1 /\ p < pos /\ pos \in Nat
      /\ Typed(h, pos)
  BY WalkIs, WalkTypes DEF Base, Typed
<1>2. Fitting(h, pos, size) = {}
  BY <1>1 DEF Fitting
<1>3. LastBefore(S, pos) = p
  <2>1. \A x \in S : x < pos => x <= p
    OBVIOUS
  <2> QED
    BY <1>1, <2>1, LastIs
<1>5. p # Null
  BY <1>1 DEF Null
<1>4. kalloc(h, pos, size).hdr = TakeNew(h, pos, size)
  BY <1>2 DEF kalloc
<1> QED
  BY <1>1, <1>3, <1>4, <1>5 DEF TakeNew, NewBlock

\* The heap's first block.
LEMMA TakesFirst ==
    ASSUME NEW h, NEW pos, Base(h, pos), Empty(h, pos), NEW size \in Nat,
           Room(h, pos, size)
    PROVE  LET r == kalloc(h, pos, size)
           IN  /\ r.at = 1 /\ r.pos = size + 2 /\ Base(r.hdr, r.pos)
               /\ r.hdr[1] = Header(size, "USED", Null, Null)
               /\ \A x \in Units : x # 1 => r.hdr[x] = h[x]
<1> DEFINE r == kalloc(h, pos, size)
           g == [h EXCEPT ![1].prev = Null, ![1].size = size, ![1].status = "USED"]
<1>1. IsWalk({}, h, pos) /\ pos = 1
  BY WalkOfEmpty DEF Empty
<1>2. /\ Typed(h, pos) /\ Clear(h, pos) /\ Walk(h, pos) = {}
      /\ h \in [Units -> Headers \union {Junk}]
  BY <1>1, WalkIs DEF Base, Typed
<1>3. Fitting(h, pos, size) = {}
  BY <1>2 DEF Fitting
<1>4. LastBefore({}, pos) = Null
  BY DEF LastBefore
<1>5. 1 \in Units
  BY <1>1, <1>3, Constants DEF Room
<1>6. h[1] = Header(0, "FREE", Null, Null)
  BY <1>1, <1>5 DEF Unused, Empty
<1>7. r = [at |-> 1, hdr |-> g, pos |-> size + 2]
  <2>1. TakeNew(h, pos, size) = g
    BY <1>1, <1>2, <1>4 DEF TakeNew
  <2>2. r = [at |-> pos, hdr |-> TakeNew(h, pos, size), pos |-> pos + size + 1]
    BY <1>3 DEF kalloc
  <2> HIDE DEF g
  <2> QED
    BY <1>1, <2>1, <2>2
<1> DEFINE H == [[[h[1] EXCEPT !.prev = Null] EXCEPT !.size = size]
                   EXCEPT !.status = "USED"]
<1>8. H = Header(size, "USED", Null, Null)
  <2>1. [Header(0, "FREE", Null, Null) EXCEPT !.prev = Null]
           = Header(0, "FREE", Null, Null)
    BY DEF Header
  <2>2. [Header(0, "FREE", Null, Null) EXCEPT !.size = size]
           = Header(size, "FREE", Null, Null)
    BY DEF Header
  <2>3. [Header(size, "FREE", Null, Null) EXCEPT !.status = "USED"]
           = Header(size, "USED", Null, Null)
    BY DEF Header
  <2> QED
    BY <1>6, <2>1, <2>2, <2>3
<1>9. g = [x \in Units |-> IF x = 1 THEN H ELSE h[x]]
  BY <1>2, <1>5
<1> HIDE DEF H, g
<1>10. g[1] = Header(size, "USED", Null, Null)
       /\ \A x \in Units : x # 1 => g[x] = h[x]
  BY <1>5, <1>8, <1>9
<1>11. Base(r.hdr, r.pos)
  <2>1. PICK V : Gives({}, h, V, r.hdr, r.pos, r.at, size)
    BY <1>1, <1>2, KallocGives
  <2> QED
    BY <2>1 DEF Gives, Base
<1> QED
  BY <1>7, <1>10, <1>11

\* The client's write leaves the headers.
LEMMA WrittenBase ==
    ASSUME NEW g, NEW q, Base(g, q), NEW S, IsWalk(S, g, q), NEW a \in S,
           NEW bytes \in Nat \ {0}, g[a].size = RoundUp(bytes)
    PROVE  LET k == Written(g, Block(a, bytes))
           IN  /\ Base(k, q) /\ \A x \in S : k[x] = g[x]
               /\ \A u \in Units : u >= q => k[u] = g[u]
<1> DEFINE b == Block(a, bytes)
           k == Written(g, b)
<1>1. Typed(g, q) /\ Clear(g, q)
  BY DEF Base
<1>2. b.at = a /\ b.size \in Nat /\ b.size <= g[a].size
  BY Rounding
<1> HIDE DEF b
<1>3. b.at \in S /\ b.size <= g[b.at].size
  BY <1>2
<1>4. /\ Typed(k, q) /\ \A x \in S : k[x] = g[x]
      /\ \A u \in Units : u >= q => k[u] = g[u]
  BY <1>1, <1>2, <1>3, WriteWalk
<1> HIDE DEF k
<1>5. Base(k, q)
  BY <1>1, <1>4 DEF Base, Clear
<1> QED
  BY <1>4, <1>5 DEF k, b

-----------------------------------------------------------------------------
(* Every allocation the kernel makes leads from a layout to a layout.      *)

Filled(h, pos, bytes) ==
    LET r == kalloc(h, pos, RoundUp(bytes)) IN Written(r.hdr, Block(r.at, bytes))

LEMMA RoundedSizes ==
    RoundUp(ProcessBytes) = 6 /\ RoundUp(ContextBytes) = 4
BY DEF RoundUp, ProcessBytes, ContextBytes

LEMMA BootLays ==
    ASSUME NEW h, NEW pos, Base(h, pos), Empty(h, pos), Room(h, pos, 4)
    PROVE  LET r == kalloc(h, pos, 4)
               k == Filled(h, pos, ContextBytes)
           IN  r.at = 1 /\ Base(k, r.pos) /\ One(k, r.pos)
<1> DEFINE r == kalloc(h, pos, 4)
           g == r.hdr
           k == Filled(h, pos, ContextBytes)
<1>1. /\ r.at = 1 /\ r.pos = 6 /\ Base(g, r.pos)
      /\ g[1] = Header(4, "USED", Null, Null)
      /\ \A x \in Units : x # 1 => g[x] = h[x]
  BY TakesFirst
<1>2. k = Written(g, Block(1, ContextBytes))
  BY <1>1, RoundedSizes DEF Filled
<1> HIDE DEF r, k
<1>3. One(g, 6)
  BY <1>1, Constants DEF One, Empty, Unused
<1>4. IsWalk({1}, g, 6) /\ Base(g, 6) /\ g[1].size = 4
  BY <1>1, <1>3, WalkOfOne DEF Header
<1>5. /\ Base(k, 6) /\ k[1] = g[1] /\ \A u \in Units : u >= 6 => k[u] = g[u]
  BY <1>2, <1>4, RoundedSizes, WrittenBase DEF ContextBytes
<1>6. One(k, 6)
  BY <1>3, <1>5 DEF One, Unused
<1> QED
  BY <1>1, <1>5, <1>6 DEF r, k

\* A new command buffer.
LEMMA BeginOne ==
    ASSUME NEW h, NEW pos, Base(h, pos), One(h, pos), NEW w \in Nat \ {0},
           NEW c, c = RoundUp(w), pos + c <= HeapUnits
    PROVE  LET k == Written(NewBlock(h, pos, 1, c), Block(pos, w))
           IN  /\ pos = BufferAt /\ Base(k, pos + c + 1)
               /\ Two(k, pos + c + 1, c, "USED")
<1> DEFINE r == kalloc(h, pos, c)
           g == NewBlock(h, pos, 1, c)
           k == Written(g, Block(pos, w))
<1>1. c \in Nat /\ c >= 2
  BY Rounding
<1>2. /\ IsWalk({1}, h, pos) /\ pos = 6 /\ Unused(h, pos)
      /\ h[1] = Header(4, "USED", 0, 0)
  BY WalkOfOne DEF One, Null
<1>3. h[1].status = "USED" /\ Room(h, pos, c)
  BY <1>2 DEF Header, Room
<1>4. /\ Base(g, c + 7) /\ g[pos] = Header(c, "USED", 1, Null)
      /\ g[1] = [h[1] EXCEPT !.next = pos]
      /\ \A x \in Units : x # pos /\ x # 1 => g[x] = h[x]
  <2>0. r.hdr = g
    BY <1>1, <1>2, <1>3, NewBlockIs
  <2>1. /\ r.pos = pos + c + 1 /\ Base(r.hdr, r.pos)
        /\ r.hdr[pos] = Header(c, "USED", 1, Null)
        /\ r.hdr[1] = [h[1] EXCEPT !.next = pos]
        /\ \A x \in Units : x # pos /\ x # 1 => r.hdr[x] = h[x]
    BY <1>1, <1>2, <1>3, TakesNew
  <2> HIDE DEF r, g
  <2>2. r.pos = c + 7
    BY <1>1, <1>2, <2>1
  <2> QED
    BY <2>0, <2>1, <2>2
<1> HIDE DEF g
<1>6. g[1] = Header(4, "USED", 0, 6)
  BY <1>2, <1>4 DEF Header
<1>7. Two(g, c + 7, c, "USED")
  <2>1. Unused(g, c + 7)
    BY <1>1, <1>2, <1>4, Constants DEF Unused
  <2> QED
    BY <1>2, <1>4, <1>6, <2>1 DEF Two, ProcessAt, BufferAt, Null
<1>8. IsWalk({1, 6}, g, c + 7) /\ g[6].size = c
  BY <1>1, <1>2, <1>4, <1>7, WalkOfTwo DEF Header
<1>9. /\ Base(k, c + 7) /\ k[1] = g[1] /\ k[6] = g[6]
      /\ \A u \in Units : u >= c + 7 => k[u] = g[u]
  BY <1>2, <1>4, <1>8, WrittenBase
<1> HIDE DEF k
<1>10. Two(k, c + 7, c, "USED")
  BY <1>7, <1>9 DEF Two, Unused, BufferAt, ProcessAt
<1>11. pos + c + 1 = c + 7
  BY <1>1, <1>2
<1> QED
  BY <1>2, <1>9, <1>10, <1>11 DEF g, k, BufferAt

\* One header changes.
LEMMA HeaderSet ==
    ASSUME NEW h, NEW pos, Base(h, pos), NEW a \in Units, NEW r \in Headers
    PROVE  LET g == [h EXCEPT ![a] = r]
           IN  /\ Base(g, pos) /\ g[a] = r
               /\ \A x \in Units : x # a => g[x] = h[x]
BY Constants DEF Base, Typed, Clear

\* Lines 53 and 54, on a free block.
LEMMA MarkedIs ==
    ASSUME NEW h, NEW pos, Base(h, pos), NEW a \in Units, NEW z \in Nat,
           NEW o \in Nat, NEW n \in Nat, h[a] = Header(z, "FREE", o, n),
           NEW p \in Nat
    PROVE  LET g == Marked(h, a, p)
           IN  /\ Base(g, pos) /\ g[a] = Header(z, "USED", p, n)
               /\ \A x \in Units : x # a => g[x] = h[x]
<1> DEFINE H == [[h[a] EXCEPT !.status = "USED"] EXCEPT !.prev = p]
<1>1. H = Header(z, "USED", p, n)
  <2>1. [Header(z, "FREE", o, n) EXCEPT !.status = "USED"] = Header(z, "USED", o, n)
    BY DEF Header
  <2>2. [Header(z, "USED", o, n) EXCEPT !.prev = p] = Header(z, "USED", p, n)
    BY DEF Header
  <2> QED
    BY <2>1, <2>2
<1>2. Marked(h, a, p) = [h EXCEPT ![a] = H]
  <2>1. h \in [Units -> Headers \union {Junk}]
    BY DEF Base, Typed
  <2> QED
    BY <2>1 DEF Marked
<1>3. Header(z, "USED", p, n) \in Headers
  BY DEF Header, Headers
<1>4. Marked(h, a, p) = [h EXCEPT ![a] = Header(z, "USED", p, n)]
  BY <1>1, <1>2
<1> DEFINE r == Header(z, "USED", p, n)
           g == [h EXCEPT ![a] = r]
<1> HIDE DEF r
<1>5. Base(g, pos) /\ g[a] = r /\ \A x \in Units : x # a => g[x] = h[x]
  BY <1>3, HeaderSet DEF r
<1> QED
  BY <1>4, <1>5 DEF r

\* The buffer of the command before, again.
LEMMA BeginTwo ==
    ASSUME NEW h, NEW pos, Base(h, pos), NEW w \in Nat \ {0},
           NEW c, c = RoundUp(w), Two(h, pos, c, "FREE")
    PROVE  LET k == Written(Marked(h, BufferAt, 1), Block(BufferAt, w))
           IN  Base(k, pos) /\ Two(k, pos, c, "USED")
<1> DEFINE g == Marked(h, 6, 1)
           k == Written(g, Block(6, w))
<1>1. c \in Nat /\ c >= 2
  BY Rounding
<1>2. /\ IsWalk({1, 6}, h, pos) /\ pos = c + 7 /\ Unused(h, pos)
      /\ h[1] = Header(4, "USED", 0, 6) /\ h[6] = Header(c, "FREE", 1, 0)
  BY <1>1, WalkOfTwo DEF Two, Null, BufferAt, ProcessAt
<1>3. {1, 6} \subseteq Units
  BY <1>2, WalkTypes DEF Base
<1>4. /\ Base(g, pos) /\ g[6] = Header(c, "USED", 1, 0)
      /\ \A x \in Units : x # 6 => g[x] = h[x]
  BY <1>1, <1>2, <1>3, MarkedIs
<1> HIDE DEF g
<1>7. Two(g, pos, c, "USED")
  <2>1. Unused(g, pos)
    BY <1>1, <1>2, <1>4 DEF Unused
  <2> QED
    BY <1>2, <1>3, <1>4, <2>1 DEF Two, ProcessAt, BufferAt, Null
<1>8. IsWalk({1, 6}, g, pos) /\ g[6].size = c
  BY <1>1, <1>4, <1>7, WalkOfTwo DEF Header
<1>9. /\ Base(k, pos) /\ k[1] = g[1] /\ k[6] = g[6]
      /\ \A u \in Units : u >= pos => k[u] = g[u]
  BY <1>4, <1>8, WrittenBase
<1> HIDE DEF k
<1>10. Two(k, pos, c, "USED")
  BY <1>7, <1>9 DEF Two, Unused, BufferAt
<1> QED
  BY <1>9, <1>10 DEF g, k, BufferAt

\* The same in front of a process that is still alive.
LEMMA BeginFour ==
    ASSUME NEW h, NEW pos, Base(h, pos), NEW w \in Nat \ {0},
           NEW c, c = RoundUp(w), Four(h, pos, c, "FREE")
    PROVE  LET k == Written(Marked(h, BufferAt, 1), Block(BufferAt, w))
           IN  Base(k, pos) /\ Four(k, pos, c, "USED")
<1> DEFINE g == Marked(h, 6, 1)
           k == Written(g, Block(6, w))
           S == {1, 6, c + 7, c + 14}
<1>1. c \in Nat /\ c >= 2
  BY Rounding
<1>2. /\ IsWalk(S, h, pos) /\ pos = c + 19
      /\ h[1] = Header(4, "USED", 0, 6) /\ h[6] = Header(c, "FREE", 1, c + 7)
      /\ h[c + 7] = Header(6, "USED", 6, c + 14)
      /\ h[c + 14] = Header(4, "USED", c + 7, 0)
  <2>1. IsWalk(S, h, pos)
    BY <1>1, WalkOfFour
  <2> QED
    BY <2>1 DEF Four, Null, BufferAt, ProcessAt, ContextAt, EndAt
<1>3. S \subseteq Units
  BY <1>2, WalkTypes DEF Base
<1>4. /\ Base(g, pos) /\ g[6] = Header(c, "USED", 1, c + 7)
      /\ \A x \in Units : x # 6 => g[x] = h[x]
  <2>1. c + 7 \in Nat /\ 6 \in Units
    BY <1>1, <1>3
  <2> QED
    BY <1>1, <1>2, <2>1, MarkedIs
<1> HIDE DEF g
<1>7. Four(g, pos, c, "USED")
  <2>1. g[1] = h[1] /\ g[c + 7] = h[c + 7] /\ g[c + 14] = h[c + 14]
    BY <1>1, <1>3, <1>4
  <2> QED
    BY <1>2, <1>4, <2>1 DEF Four, ProcessAt, BufferAt, ContextAt, EndAt, Null
<1>8. IsWalk(S, g, pos) /\ g[6].size = c
  BY <1>1, <1>4, <1>7, WalkOfFour DEF Header
<1>9. Base(k, pos) /\ \A x \in S : k[x] = g[x]
  BY <1>4, <1>8, WrittenBase
<1> HIDE DEF k
<1>10. Four(k, pos, c, "USED")
  BY <1>7, <1>9 DEF Four, BufferAt, ProcessAt, ContextAt
<1> QED
  BY <1>9, <1>10 DEF g, k, BufferAt

\* The block that the process before left is cut in two: its end gets the prev
\* of the buffer, which is stale there.
LEMMA PartWhole ==
    ASSUME NEW h, NEW pos, Base(h, pos), NEW c \in Nat, Whole(h, pos, c)
    PROVE  LET g == SplitOff(h, BufferAt, c, 11)
           IN  Base(g, pos) /\ Three(g, pos, c, "FREE")
<1> DEFINE H1 == Header(11, "FREE", 1, 0)
           H2 == Header(c, "FREE", 1, c + 7)
           f == [h EXCEPT ![c + 7] = H1]
           g == [f EXCEPT ![6] = H2]
<1>1. /\ IsWalk({1, 6}, h, pos) /\ pos = c + 19
      /\ h[1] = Header(4, "USED", 0, 6) /\ h[6] = Header(c + 12, "FREE", 1, 0)
  BY WalkOfWhole DEF Whole, Null, BufferAt, EndAt
<1>2. {1, 6} \subseteq Units /\ pos <= HeapUnits + 1 /\ pos \in Nat
  BY <1>1, WalkTypes, Constants DEF Base, Typed
<1>3. c + 7 \in Units /\ c + 7 # 6 /\ c + 7 # 1 /\ c + 7 \in Nat
  BY <1>1, <1>2, Constants
<1>4. H1 \in Headers /\ H2 \in Headers
  BY <1>3 DEF Header, Headers
<1>5. SplitOff(h, BufferAt, c, 11) = g
  <2>1. /\ 6 + c + 1 = c + 7 /\ h[6].prev = 1 /\ h[6].next = 0
        /\ h[6].status = "FREE"
    BY <1>1 DEF Header
  <2>2. SplitOff(h, 6, c, 11) = [h EXCEPT ![c + 7] = H1, ![6] = H2]
    BY <2>1 DEF SplitOff
  <2> HIDE DEF H1, H2
  <2> QED
    BY <2>2 DEF BufferAt
<1> HIDE DEF H1, H2
<1>6. Base(f, pos) /\ f[c + 7] = H1 /\ \A x \in Units : x # c + 7 => f[x] = h[x]
  BY <1>3, <1>4, HeaderSet
<1> HIDE DEF f
<1>7. Base(g, pos) /\ g[6] = H2 /\ \A x \in Units : x # 6 => g[x] = f[x]
  BY <1>2, <1>4, <1>6, HeaderSet
<1> HIDE DEF g
<1>8. g[1] = h[1] /\ g[c + 7] = H1
  BY <1>2, <1>3, <1>6, <1>7
<1>9. Three(g, pos, c, "FREE")
  BY <1>1, <1>7, <1>8 DEF Three, EndAt, ProcessAt, BufferAt, Null, H1, H2
<1> QED
  BY <1>5, <1>7, <1>9

LEMMA BeginThree ==
    ASSUME NEW h, NEW pos, Base(h, pos), NEW w \in Nat \ {0},
           NEW c, c = RoundUp(w), Three(h, pos, c, "FREE")
    PROVE  LET k == Written(Marked(h, BufferAt, 1), Block(BufferAt, w))
           IN  Base(k, pos) /\ Three(k, pos, c, "USED")
<1> DEFINE g == Marked(h, 6, 1)
           k == Written(g, Block(6, w))
           S == {1, 6, c + 7}
<1>1. c \in Nat /\ c >= 2
  BY Rounding
<1>2. /\ IsWalk(S, h, pos) /\ pos = c + 19
      /\ h[1] = Header(4, "USED", 0, 6) /\ h[6] = Header(c, "FREE", 1, c + 7)
  <2>1. IsWalk(S, h, pos)
    BY <1>1, WalkOfThree
  <2> QED
    BY <2>1 DEF Three, Null, BufferAt, ProcessAt, EndAt
<1>3. S \subseteq Units
  BY <1>2, WalkTypes DEF Base
<1>4. /\ Base(g, pos) /\ g[6] = Header(c, "USED", 1, c + 7)
      /\ \A x \in Units : x # 6 => g[x] = h[x]
  <2>1. c + 7 \in Nat /\ 6 \in Units
    BY <1>1, <1>3
  <2> QED
    BY <1>1, <1>2, <2>1, MarkedIs
<1> HIDE DEF g
<1>7. Three(g, pos, c, "USED")
  <2>1. g[1] = h[1] /\ g[c + 7] = h[c + 7]
    BY <1>1, <1>3, <1>4
  <2> QED
    BY <1>2, <1>4, <2>1 DEF Three, ProcessAt, BufferAt, EndAt, Null
<1>8. IsWalk(S, g, pos) /\ g[6].size = c
  <2>1. IsWalk(S, g, pos)
    BY <1>1, <1>7, WalkOfThree
  <2>2. g[6].size = c
    BY <1>4 DEF Header
  <2> QED
    BY <2>1, <2>2
<1>9. Base(k, pos) /\ \A x \in S : k[x] = g[x]
  BY <1>4, <1>8, WrittenBase
<1> HIDE DEF k
<1>10. Three(k, pos, c, "USED")
  BY <1>7, <1>9 DEF Three, BufferAt, ProcessAt
<1> QED
  BY <1>9, <1>10 DEF g, k, BufferAt

-----------------------------------------------------------------------------
(* create_process has two layouts between its allocations.                 *)

\* The process is the last block.
Mid(h, pos, c) ==
    /\ pos = ContextAt(c) /\ Unused(h, pos)
    /\ h[1] = Header(4, "USED", Null, BufferAt)
    /\ h[BufferAt] = Header(c, "USED", 1, ProcessAt(c))
    /\ h[ProcessAt(c)] = Header(6, "USED", BufferAt, Null)

\* The process has the first part of what the one before it left.
Cut(h, pos, c) ==
    /\ pos = EndAt(c)
    /\ h[1] = Header(4, "USED", Null, BufferAt)
    /\ h[BufferAt] = Header(c, "USED", 1, ProcessAt(c))
    /\ h[ProcessAt(c)] = Header(6, "USED", BufferAt, ContextAt(c))
    /\ \E p \in {1, BufferAt} : h[ContextAt(c)] = Header(4, "FREE", p, Null)

LEMMA WalkOfMid ==
    ASSUME NEW h, NEW pos, NEW c \in Nat, Mid(h, pos, c)
    PROVE  IsWalk({1, 6, c + 7}, h, pos)
<1>1. h[1] # Junk /\ Behind(h, 1) = 6
  <2>1. h[1] = Header(4, "USED", 0, 6)
    BY DEF Mid, Null, BufferAt
  <2> QED
    BY <2>1, HeapAssumption DEF Header, Headers, Behind
<1>2. h[6] # Junk /\ Behind(h, 6) = 6 + c + 1
  <2>1. h[6] = Header(c, "USED", 1, c + 7)
    BY DEF Mid, ProcessAt, BufferAt
  <2> QED
    BY <2>1, HeapAssumption DEF Header, Headers, Behind
<1>3. h[c + 7] # Junk /\ Behind(h, c + 7) = c + 7 + 6 + 1
  <2>1. h[c + 7] = Header(6, "USED", 6, 0)
    BY DEF Mid, ProcessAt, Null, BufferAt
  <2> QED
    BY <2>1, HeapAssumption DEF Header, Headers, Behind
<1>4. pos = c + 14
  BY DEF Mid, ContextAt
<1> QED
  BY <1>1, <1>2, <1>3, <1>4 DEF IsWalk

LEMMA WalkOfCut ==
    ASSUME NEW h, NEW pos, NEW c \in Nat, Cut(h, pos, c)
    PROVE  IsWalk({1, 6, c + 7, c + 14}, h, pos)
<1>1. h[1] # Junk /\ Behind(h, 1) = 6
  <2>1. h[1] = Header(4, "USED", 0, 6)
    BY DEF Cut, Null, BufferAt
  <2> QED
    BY <2>1, HeapAssumption DEF Header, Headers, Behind
<1>2. h[6] # Junk /\ Behind(h, 6) = 6 + c + 1
  <2>1. h[6] = Header(c, "USED", 1, c + 7)
    BY DEF Cut, ProcessAt, BufferAt
  <2> QED
    BY <2>1, HeapAssumption DEF Header, Headers, Behind
<1>3. h[c + 7] # Junk /\ Behind(h, c + 7) = c + 7 + 6 + 1
  <2>1. h[c + 7] = Header(6, "USED", 6, c + 14)
    BY DEF Cut, ProcessAt, ContextAt, BufferAt
  <2> QED
    BY <2>1, HeapAssumption DEF Header, Headers, Behind
<1>4. h[c + 14] # Junk /\ Behind(h, c + 14) = c + 14 + 4 + 1
  <2>1. PICK p \in {1, 6} : h[c + 14] = Header(4, "FREE", p, 0)
    BY DEF Cut, ContextAt, Null, BufferAt
  <2> QED
    BY <2>1, HeapAssumption DEF Header, Headers, Behind
<1>5. pos = c + 19
  BY DEF Cut, EndAt
<1> QED
  BY <1>1, <1>2, <1>3, <1>4, <1>5 DEF IsWalk

\* The process behind the buffer, at the end of the heap.
LEMMA ProcessTwo ==
    ASSUME NEW h, NEW pos, Base(h, pos), NEW c \in Nat, Two(h, pos, c, "USED"),
           Room(h, pos, 6)
    PROVE  LET r == kalloc(h, pos, 6)
               k == Filled(h, pos, ProcessBytes)
           IN  r.at = ProcessAt(c) /\ Base(k, r.pos) /\ Mid(k, r.pos, c)
<1> DEFINE r == kalloc(h, pos, 6)
           g == r.hdr
           k == Filled(h, pos, ProcessBytes)
           S == {1, 6, c + 7}
<1>1. /\ IsWalk({1, 6}, h, pos) /\ pos = c + 7 /\ Unused(h, pos)
      /\ h[1] = Header(4, "USED", 0, 6) /\ h[6] = Header(c, "USED", 1, 0)
  BY WalkOfTwo DEF Two, Null, BufferAt, ProcessAt
<1>2. h[1].status = "USED" /\ h[6].status = "USED"
  BY <1>1 DEF Header
<1>3. /\ r.at = pos /\ r.pos = pos + 6 + 1 /\ Base(g, r.pos)
      /\ g[pos] = Header(6, "USED", 6, Null)
      /\ g[6] = [h[6] EXCEPT !.next = pos]
      /\ \A x \in Units : x # pos /\ x # 6 => g[x] = h[x]
  BY <1>1, <1>2, TakesNew
<1>4. k = Written(g, Block(c + 7, ProcessBytes)) /\ r.pos = c + 14
  BY <1>1, <1>3, RoundedSizes DEF Filled
<1>5. 1 \in Units /\ 6 \in Units
  <2>1. {1, 6} \subseteq Units
    BY <1>1, WalkTypes DEF Base
  <2> QED
    BY <2>1
<1> HIDE DEF r, k
<1>6. g[6] = Header(c, "USED", 1, c + 7) /\ g[1] = Header(4, "USED", 0, 6)
  <2>1. [Header(c, "USED", 1, 0) EXCEPT !.next = c + 7] = Header(c, "USED", 1, c + 7)
    BY DEF Header
  <2> QED
    BY <1>1, <1>3, <1>5, <2>1
<1>7. Mid(g, c + 14, c)
  <2>1. Unused(g, c + 14)
    BY <1>1, <1>3, Constants DEF Unused
  <2> QED
    BY <1>1, <1>3, <1>6, <2>1 DEF Mid, ContextAt, ProcessAt, BufferAt, Null
<1>8. IsWalk(S, g, c + 14) /\ Base(g, c + 14) /\ g[c + 7].size = 6
  BY <1>1, <1>3, <1>4, <1>7, WalkOfMid DEF Header
<1>9. /\ Base(k, c + 14) /\ \A x \in S : k[x] = g[x]
      /\ \A u \in Units : u >= c + 14 => k[u] = g[u]
  BY <1>4, <1>8, RoundedSizes, WrittenBase DEF ProcessBytes
<1>10. Mid(k, c + 14, c)
  BY <1>7, <1>9 DEF Mid, Unused, BufferAt, ProcessAt, ContextAt
<1> QED
  BY <1>1, <1>3, <1>4, <1>9, <1>10 DEF r, k, ProcessAt

\* And its context.
LEMMA ContextMid ==
    ASSUME NEW h, NEW pos, Base(h, pos), NEW c \in Nat, Mid(h, pos, c),
           Room(h, pos, 4)
    PROVE  LET r == kalloc(h, pos, 4)
               k == Filled(h, pos, ContextBytes)
           IN  r.at = ContextAt(c) /\ Base(k, r.pos) /\ Four(k, r.pos, c, "USED")
<1> DEFINE r == kalloc(h, pos, 4)
           g == r.hdr
           k == Filled(h, pos, ContextBytes)
           S == {1, 6, c + 7, c + 14}
<1>1. /\ IsWalk({1, 6, c + 7}, h, pos) /\ pos = c + 14 /\ Unused(h, pos)
      /\ h[1] = Header(4, "USED", 0, 6) /\ h[6] = Header(c, "USED", 1, c + 7)
      /\ h[c + 7] = Header(6, "USED", 6, 0)
  <2>1. IsWalk({1, 6, c + 7}, h, pos)
    BY WalkOfMid
  <2> QED
    BY <2>1 DEF Mid, Null, BufferAt, ProcessAt, ContextAt
<1>2. h[1].status = "USED" /\ h[6].status = "USED" /\ h[c + 7].status = "USED"
  BY <1>1 DEF Header
<1>3. /\ r.at = pos /\ r.pos = pos + 4 + 1 /\ Base(g, r.pos)
      /\ g[pos] = Header(4, "USED", c + 7, Null)
      /\ g[c + 7] = [h[c + 7] EXCEPT !.next = pos]
      /\ \A x \in Units : x # pos /\ x # c + 7 => g[x] = h[x]
  <2>1. \A x \in {1, 6, c + 7} : x <= c + 7
    OBVIOUS
  <2>2. \A x \in {1, 6, c + 7} : ~(h[x].status = "FREE" /\ h[x].size >= 4)
    BY <1>2
  <2> QED
    BY <1>1, <2>1, <2>2, TakesNew
<1>4. k = Written(g, Block(c + 14, ContextBytes)) /\ r.pos = c + 19
  BY <1>1, <1>3, RoundedSizes DEF Filled
<1>5. 1 \in Units /\ 6 \in Units
  <2>1. {1, 6, c + 7} \subseteq Units
    BY <1>1, WalkTypes DEF Base
  <2> QED
    BY <2>1
<1> HIDE DEF r, k
<1>6. /\ g[c + 7] = Header(6, "USED", 6, c + 14)
      /\ g[6] = Header(c, "USED", 1, c + 7) /\ g[1] = Header(4, "USED", 0, 6)
  <2>1. [Header(6, "USED", 6, 0) EXCEPT !.next = c + 14] = Header(6, "USED", 6, c + 14)
    BY DEF Header
  <2> QED
    BY <1>1, <1>3, <1>5, <2>1
<1>7. Four(g, c + 19, c, "USED")
  BY <1>1, <1>3, <1>6 DEF Four, ContextAt, ProcessAt, BufferAt, EndAt, Null
<1>8. IsWalk(S, g, c + 19) /\ Base(g, c + 19) /\ g[c + 14].size = 4
  BY <1>1, <1>3, <1>4, <1>7, WalkOfFour DEF Header
<1>9. Base(k, c + 19) /\ \A x \in S : k[x] = g[x]
  BY <1>4, <1>8, RoundedSizes, WrittenBase DEF ContextBytes
<1>10. Four(k, c + 19, c, "USED")
  BY <1>7, <1>9 DEF Four, BufferAt, ProcessAt, ContextAt
<1> QED
  BY <1>1, <1>3, <1>4, <1>9, <1>10 DEF r, k, ContextAt

\* Or where the process before was.
LEMMA ProcessThree ==
    ASSUME NEW h, NEW pos, Base(h, pos), NEW c \in Nat, Three(h, pos, c, "USED")
    PROVE  LET r == kalloc(h, pos, 6)
               k == Filled(h, pos, ProcessBytes)
           IN  r.at = ProcessAt(c) /\ Base(k, r.pos) /\ Cut(k, r.pos, c)
<1> DEFINE r == kalloc(h, pos, 6)
           g == r.hdr
           k == Filled(h, pos, ProcessBytes)
           S == {1, 6, c + 7}
           V == {1, 6, c + 7, c + 14}
<1>1. /\ IsWalk(S, h, pos) /\ pos = c + 19
      /\ h[1] = Header(4, "USED", 0, 6) /\ h[6] = Header(c, "USED", 1, c + 7)
  <2>1. IsWalk(S, h, pos)
    BY WalkOfThree
  <2> QED
    BY <2>1 DEF Three, Null, BufferAt, ProcessAt, EndAt
<1>2. PICK o \in {1, 6} : h[c + 7] = Header(11, "FREE", o, 0)
  BY DEF Three, ProcessAt, BufferAt, Null
<1>3. h[1].status = "USED" /\ h[6].status = "USED"
  BY <1>1 DEF Header
<1>4. /\ r.at = c + 7 /\ r.pos = pos /\ Base(g, pos)
      /\ g[c + 7] = Header(6, "USED", 6, c + 14)
      /\ g[c + 14] = Header(4, "FREE", o, 0)
      /\ \A x \in Units : x # c + 7 /\ x # c + 14 => g[x] = h[x]
  <2>1. c + 7 + 6 + 1 = c + 14 /\ 11 - 6 - 1 = 4 /\ 11 - 6 >= 3
    OBVIOUS
  <2>2. OnlyFit(h, pos, S, 6, c + 7, 6, 11, o, 0)
    BY <1>1, <1>2, <1>3 DEF OnlyFit
  <2>3. /\ r.at = c + 7 /\ r.pos = pos /\ Base(g, pos)
        /\ g[c + 7] = Header(6, "USED", 6, c + 7 + 6 + 1)
        /\ g[c + 7 + 6 + 1] = Header(11 - 6 - 1, "FREE", o, 0)
        /\ \A x \in Units : x # c + 7 /\ x # c + 7 + 6 + 1 => g[x] = h[x]
    BY <2>1, <2>2, TakesPart
  <2> HIDE DEF r
  <2> QED
    BY <2>1, <2>3
<1>5. k = Written(g, Block(c + 7, ProcessBytes)) /\ 1 \in Units /\ 6 \in Units
  <2>1. k = Written(g, Block(c + 7, ProcessBytes))
    BY <1>4, RoundedSizes DEF Filled
  <2>2. S \subseteq Units
    BY <1>1, WalkTypes DEF Base
  <2> QED
    BY <2>1, <2>2
<1> HIDE DEF r, k
<1>7. Cut(g, pos, c)
  <2>1. g[1] = h[1] /\ g[6] = h[6]
    BY <1>4, <1>5
  <2> QED
    BY <1>1, <1>4, <2>1 DEF Cut, ProcessAt, ContextAt, BufferAt, EndAt, Null
<1>8. IsWalk(V, g, pos) /\ g[c + 7].size = 6
  BY <1>4, <1>7, WalkOfCut DEF Header
<1>9. Base(k, pos) /\ \A x \in V : k[x] = g[x]
  BY <1>4, <1>5, <1>8, RoundedSizes, WrittenBase DEF ProcessBytes
<1>10. Cut(k, pos, c)
  BY <1>7, <1>9 DEF Cut, BufferAt, ProcessAt, ContextAt
<1> QED
  BY <1>4, <1>9, <1>10 DEF r, k, ProcessAt

LEMMA ContextCut ==
    ASSUME NEW h, NEW pos, Base(h, pos), NEW c \in Nat, Cut(h, pos, c)
    PROVE  LET r == kalloc(h, pos, 4)
               k == Filled(h, pos, ContextBytes)
           IN  r.at = ContextAt(c) /\ Base(k, r.pos) /\ Four(k, r.pos, c, "USED")
<1> DEFINE r == kalloc(h, pos, 4)
           g == r.hdr
           k == Filled(h, pos, ContextBytes)
           S == {1, 6, c + 7, c + 14}
<1>1. /\ IsWalk(S, h, pos) /\ pos = c + 19
      /\ h[1] = Header(4, "USED", 0, 6) /\ h[6] = Header(c, "USED", 1, c + 7)
      /\ h[c + 7] = Header(6, "USED", 6, c + 14)
  <2>1. IsWalk(S, h, pos)
    BY WalkOfCut
  <2> QED
    BY <2>1 DEF Cut, Null, BufferAt, ProcessAt, ContextAt, EndAt
<1>2. PICK o \in {1, 6} : h[c + 14] = Header(4, "FREE", o, 0)
  BY DEF Cut, ContextAt, BufferAt, Null
<1>3. h[1].status = "USED" /\ h[6].status = "USED" /\ h[c + 7].status = "USED"
  BY <1>1 DEF Header
<1>4. /\ r.at = c + 14 /\ r.pos = pos /\ Base(g, pos)
      /\ g[c + 14] = Header(4, "USED", c + 7, 0)
      /\ \A x \in Units : x # c + 14 => g[x] = h[x]
  <2>1. OnlyFit(h, pos, S, 4, c + 14, c + 7, 4, o, 0)
    BY <1>1, <1>2, <1>3 DEF OnlyFit
  <2> QED
    BY <2>1, TakesAll
<1>5. k = Written(g, Block(c + 14, ContextBytes)) /\ S \subseteq Units
  <2>1. k = Written(g, Block(c + 14, ContextBytes))
    BY <1>4, RoundedSizes DEF Filled
  <2>2. S \subseteq Units
    BY <1>1, WalkTypes DEF Base
  <2> QED
    BY <2>1, <2>2
<1> HIDE DEF r, k
<1>7. Four(g, pos, c, "USED")
  <2>1. g[1] = h[1] /\ g[6] = h[6] /\ g[c + 7] = h[c + 7]
    BY <1>4, <1>5
  <2> QED
    BY <1>1, <1>4, <2>1 DEF Four, ProcessAt, ContextAt, BufferAt, EndAt, Null
<1>8. IsWalk(S, g, pos) /\ g[c + 14].size = 4
  BY <1>4, <1>7, WalkOfFour DEF Header
<1>9. Base(k, pos) /\ \A x \in S : k[x] = g[x]
  BY <1>4, <1>5, <1>8, RoundedSizes, WrittenBase DEF ContextBytes
<1>10. Four(k, pos, c, "USED")
  BY <1>7, <1>9 DEF Four, BufferAt, ProcessAt, ContextAt
<1> QED
  BY <1>4, <1>9, <1>10 DEF r, k, ContextAt

-----------------------------------------------------------------------------
(* What kfree does to a layout.                                            *)

\* A link that kfree does not follow.
NotFree(h, a, u) ==
    u = Null \/ (u \in Units /\ u # a /\ h[u] # Junk /\ h[u].status = "USED")

LEMMA MarkFreeIs ==
    ASSUME NEW h \in Memory, NEW a \in Units, NEW z \in Nat, NEW p \in Nat,
           NEW n \in Nat, h[a] = Header(z, "USED", p, n)
    PROVE  LET f == MarkFree(h, a)
           IN  /\ h[a] # Junk /\ f[a] # Junk /\ f \in Memory
               /\ f[a] = Header(z, "FREE", p, n)
               /\ \A u \in Units : u # a => f[u] = h[u]
<1>1. /\ Header(z, "USED", p, n) \in Headers /\ Header(z, "FREE", p, n) \in Headers
  BY DEF Header, Headers
<1>2. [Header(z, "USED", p, n) EXCEPT !.status = "FREE"] = Header(z, "FREE", p, n)
  BY DEF Header
<1>3. /\ MarkFree(h, a)[a] = [h[a] EXCEPT !.status = "FREE"]
      /\ \A u \in Units : u # a => MarkFree(h, a)[u] = h[u]
  BY DEF MarkFree, Memory
<1>4. MarkFree(h, a) = [h EXCEPT ![a] = Header(z, "FREE", p, n)]
  <2>1. MarkFree(h, a) = [h EXCEPT ![a] = [h[a] EXCEPT !.status = "FREE"]]
    BY DEF MarkFree
  <2> QED
    BY <1>2, <2>1
<1>5. MarkFree(h, a) \in Memory
  BY <1>1, <1>4 DEF Memory
<1> QED
  BY <1>1, <1>2, <1>3, <1>5, Constants

LEMMA MarkedFree ==
    ASSUME NEW h, NEW pos, Base(h, pos), NEW a \in Units, NEW z \in Nat,
           NEW p \in Nat, NEW n \in Nat, h[a] = Header(z, "USED", p, n)
    PROVE  LET f == MarkFree(h, a)
           IN  /\ Base(f, pos) /\ f[a] = Header(z, "FREE", p, n)
               /\ \A u \in Units : u # a => f[u] = h[u]
<1> DEFINE f == MarkFree(h, a)
<1>1. h \in Memory
  BY DEF Base, Typed, Memory
<1>2. /\ h[a] # Junk /\ f[a] # Junk /\ f \in Memory
      /\ f[a] = Header(z, "FREE", p, n)
      /\ \A u \in Units : u # a => f[u] = h[u]
  BY <1>1, MarkFreeIs
<1> HIDE DEF f
<1>3. Base(f, pos)
  BY <1>2 DEF Base, Typed, Clear, Memory
<1> QED
  BY <1>2, <1>3 DEF f

\* Both neighbours are in use.
LEMMA FreesAlone ==
    ASSUME NEW h \in Memory, NEW a \in Units, NEW z \in Nat, NEW p \in Nat,
           NEW n \in Nat, h[a] = Header(z, "USED", p, n),
           NotFree(h, a, p), NotFree(h, a, n)
    PROVE  /\ ~FreeIsWild(h, a)
           /\ kfree(h, a)[a] = Header(z, "FREE", p, n)
           /\ \A u \in Units : u # a => kfree(h, a)[u] = h[u]
<1> DEFINE f == MarkFree(h, a)
<1>1. /\ h[a] # Junk /\ f[a] # Junk /\ f[a] = Header(z, "FREE", p, n)
      /\ \A u \in Units : u # a => f[u] = h[u]
  BY MarkFreeIs
<1>2. /\ h[a].prev = p /\ h[a].next = n /\ f[a].prev = p /\ f[a].next = n
  BY <1>1 DEF Header
<1> HIDE DEF f
<1>3. ~FreeIn(f, p) /\ ~FreeIn(f, n) /\ ~IsJunk(h, p) /\ ~IsJunk(h, n)
  BY <1>1 DEF NotFree, FreeIn, IsJunk
<1>4. MergeNext(f, a) = f /\ MergePrev(f, a) = f
  BY <1>2, <1>3 DEF MergeNext, MergePrev, MergeWithNext, MergeIntoPrev
<1>5. kfree(h, a) = f
  BY <1>4 DEF kfree, f
<1>6. MergeNext(MarkFree(h, a), a) = f
  BY <1>4 DEF f
<1>7. ~IsJunk(h, a)
  BY <1>1 DEF IsJunk
<1>8. ~FreeIsWild(h, a)
  BY <1>2, <1>3, <1>6, <1>7 DEF FreeIsWild
<1> QED
  BY <1>1, <1>5, <1>8

\* MergeNext, when the block behind is free.
LEMMA MergeNextIs ==
    ASSUME NEW f \in Memory, NEW a \in Units, NEW z \in Nat, NEW p \in Nat,
           NEW n \in Units, f[a] = Header(z, "FREE", p, n), n # a,
           NEW y \in Nat, NEW o \in Nat, NEW m \in Nat,
           f[n] = Header(y, "FREE", o, m)
    PROVE  /\ MergeNext(f, a)[a] = Header(z + y + 1, "FREE", p, m)
           /\ \A u \in Units : u # a /\ u # n => MergeNext(f, a)[u] = f[u]
<1> DEFINE g1 == [f EXCEPT ![a] = Header(z + y + 1, "FREE", p, n)]
           g2 == [g1 EXCEPT ![n].size = 0]
           g3 == [g2 EXCEPT ![a] = Header(z + y + 1, "FREE", p, m)]
<1>1. /\ f[a].next = n /\ f[a].size = z /\ f[n].size = y /\ f[n].next = m
      /\ f[n].status = "FREE" /\ f[n] \in Headers
  BY DEF Header, Headers
<1>2. n # Null /\ f[n] # Junk
  BY <1>1, Constants
<1>3. FreeIn(f, n)
  BY <1>1, <1>2 DEF FreeIn
<1>4. MergeNext(f, a) = [f EXCEPT ![a].size = z + y + 1, ![n].size = 0, ![a].next = m]
  BY <1>1, <1>3 DEF MergeNext, MergeWithNext
<1>5. [f EXCEPT ![a].size = z + y + 1] = g1
  <2>1. [Header(z, "FREE", p, n) EXCEPT !.size = z + y + 1]
           = Header(z + y + 1, "FREE", p, n)
    BY DEF Header
  <2> QED
    BY <2>1
<1>6. /\ g1 \in [Units -> Headers \union {Junk}]
      /\ g1[a] = Header(z + y + 1, "FREE", p, n)
      /\ \A u \in Units : u # a => g1[u] = f[u]
  <2>1. Header(z + y + 1, "FREE", p, n) \in Headers
    BY DEF Header, Headers, Units
  <2> QED
    BY <2>1 DEF Memory
<1>7. MergeNext(f, a) = [g1 EXCEPT ![n].size = 0, ![a].next = m]
  BY <1>4, <1>5
<1> HIDE DEF g1
<1>8. /\ g2 \in [Units -> Headers \union {Junk}]
      /\ g2[a] = Header(z + y + 1, "FREE", p, n)
      /\ \A u \in Units : u # a /\ u # n => g2[u] = f[u]
  <2>1. [g1[n] EXCEPT !.size = 0] \in Headers
    BY <1>1, <1>6 DEF Headers
  <2>2. g2 = [g1 EXCEPT ![n] = [g1[n] EXCEPT !.size = 0]]
    OBVIOUS
  <2> QED
    BY <1>6, <2>1, <2>2
<1>9. MergeNext(f, a) = [g2 EXCEPT ![a].next = m]
  BY <1>7
<1> HIDE DEF g2
<1>10. [g2 EXCEPT ![a].next = m] = g3
  <2>1. [Header(z + y + 1, "FREE", p, n) EXCEPT !.next = m]
           = Header(z + y + 1, "FREE", p, m)
    BY DEF Header
  <2> QED
    BY <1>8, <2>1
<1> QED
  BY <1>8, <1>9, <1>10

\* The block behind is free, the one in front is in use.
LEMMA FreesWithNext ==
    ASSUME NEW h \in Memory, NEW a \in Units, NEW z \in Nat, NEW p \in Nat,
           NEW n \in Units, h[a] = Header(z, "USED", p, n), n # a,
           NotFree(h, a, p), p # n,
           NEW y \in Nat, NEW o \in Nat, NEW m \in Nat,
           h[n] = Header(y, "FREE", o, m)
    PROVE  /\ ~FreeIsWild(h, a)
           /\ kfree(h, a)[a] = Header(z + y + 1, "FREE", p, m)
           /\ \A u \in Units : u # a /\ u # n => kfree(h, a)[u] = h[u]
<1> DEFINE f == MarkFree(h, a)
           g == MergeNext(f, a)
<1>1. /\ h[a] # Junk /\ f[a] = Header(z, "FREE", p, n) /\ f \in Memory
      /\ \A u \in Units : u # a => f[u] = h[u]
  <2>1. n \in Nat
    BY Constants
  <2> QED
    BY <2>1, MarkFreeIs
<1>2. h[a].prev = p /\ h[a].next = n /\ h[n] # Junk
  <2>1. Header(y, "FREE", o, m) \in Headers
    BY DEF Header, Headers
  <2> QED
    BY <2>1, Constants DEF Header
<1> HIDE DEF f
<1>3. f[n] = Header(y, "FREE", o, m)
  BY <1>1
<1>4. /\ g[a] = Header(z + y + 1, "FREE", p, m)
      /\ \A u \in Units : u # a /\ u # n => g[u] = f[u]
  BY <1>1, <1>3, MergeNextIs
<1>5. g[a].prev = p
  BY <1>4 DEF Header
<1> HIDE DEF g
<1>6. ~FreeIn(g, p) /\ ~IsJunk(h, p) /\ ~IsJunk(h, n) /\ ~IsJunk(h, a)
  BY <1>1, <1>2, <1>4 DEF NotFree, FreeIn, IsJunk
<1>7. MergePrev(g, a) = g
  BY <1>5, <1>6 DEF MergePrev, MergeIntoPrev
<1>8. kfree(h, a) = g /\ MergeNext(MarkFree(h, a), a) = g
  BY <1>7 DEF kfree, f, g
<1>9. ~FreeIsWild(h, a)
  BY <1>2, <1>5, <1>6, <1>8 DEF FreeIsWild
<1> QED
  BY <1>1, <1>4, <1>8, <1>9

\* Both are free, and the one behind is the last.
LEMMA FreesIntoPrev ==
    ASSUME NEW h \in Memory, NEW a \in Units, NEW z \in Nat, NEW p \in Units,
           NEW n \in Units, h[a] = Header(z, "USED", p, n), n # a, p # a, p # n,
           NEW y \in Nat, NEW o \in Nat, h[n] = Header(y, "FREE", o, Null),
           NEW x \in Nat, NEW q \in Nat, NEW r \in Nat,
           h[p] = Header(x, "FREE", q, r)
    PROVE  /\ ~FreeIsWild(h, a)
           /\ kfree(h, a)[p] = Header(x + (z + y + 1) + 1, "FREE", q, Null)
           /\ \A u \in Units : u # a /\ u # n /\ u # p => kfree(h, a)[u] = h[u]
<1> DEFINE f == MarkFree(h, a)
           g == MergeNext(f, a)
<1>0. n \in Nat /\ p \in Nat /\ Null \in Nat /\ p # Null /\ n # Null
  BY Constants
<1>1. /\ h[a] # Junk /\ f[a] = Header(z, "FREE", p, n) /\ f \in Memory /\ f[a] # Junk
      /\ \A u \in Units : u # a => f[u] = h[u]
  BY <1>0, MarkFreeIs
<1>2. /\ h[a].prev = p /\ h[a].next = n /\ h[n] # Junk /\ h[p] # Junk
      /\ h[p].status = "FREE" /\ h[p].size = x
  <2>1. Header(y, "FREE", o, Null) \in Headers /\ Header(x, "FREE", q, r) \in Headers
    BY <1>0 DEF Header, Headers
  <2> QED
    BY <2>1, Constants DEF Header
<1> HIDE DEF f
<1>3. f[n] = Header(y, "FREE", o, Null) /\ f[n] # Junk /\ f[a].next = n
  BY <1>1, <1>2 DEF Header
<1>4. /\ g[a] = Header(z + y + 1, "FREE", p, Null)
      /\ \A u \in Units : u # a /\ u # n => g[u] = f[u]
  BY <1>0, <1>1, <1>3, MergeNextIs
<1>5. g[a].prev = p /\ g[a].next = Null /\ g[a].size = z + y + 1
  BY <1>4 DEF Header
<1>6. g \in Memory
  <2>1. ~IsJunk(f, f[a].next)
    BY <1>3 DEF IsJunk
  <2> QED
    BY <1>1, <2>1, MergeNextTyped DEF Kept
<1> HIDE DEF g
<1>7. g[p] = Header(x, "FREE", q, r) /\ g[p] = h[p]
  BY <1>1, <1>4
<1>8. FreeIn(g, p)
  BY <1>0, <1>2, <1>7 DEF FreeIn
<1> DEFINE k == [g EXCEPT ![p].size = x + (z + y + 1) + 1, ![a].size = 0,
                          ![a].prev = Null, ![p].next = Null]
<1>9. MergePrev(g, a) = k
  BY <1>2, <1>5, <1>7, <1>8 DEF MergePrev, MergeIntoPrev
<1>10. /\ k[p] = Header(x + (z + y + 1) + 1, "FREE", q, Null)
       /\ \A u \in Units : u # a /\ u # p => k[u] = g[u]
  <2> DEFINE w == x + (z + y + 1) + 1
  <2>1. /\ [Header(x, "FREE", q, r) EXCEPT !.size = w] = Header(w, "FREE", q, r)
        /\ [Header(w, "FREE", q, r) EXCEPT !.next = Null] = Header(w, "FREE", q, Null)
    BY DEF Header
  <2> HIDE DEF w
  <2>2. /\ k[p] = [[g[p] EXCEPT !.size = w] EXCEPT !.next = Null]
        /\ \A u \in Units : u # a /\ u # p => k[u] = g[u]
    BY <1>6 DEF Memory, w
  <2> QED
    BY <1>7, <2>1, <2>2 DEF w
<1> HIDE DEF k
<1>11. kfree(h, a) = k /\ MergeNext(MarkFree(h, a), a) = g
  BY <1>9 DEF kfree, f, g
<1>12. ~IsJunk(h, a) /\ ~IsJunk(h, n) /\ ~IsJunk(h, p) /\ ~IsJunk(g, Null)
  BY <1>1, <1>2 DEF IsJunk
<1>13. ~FreeIsWild(h, a)
  BY <1>2, <1>5, <1>11, <1>12 DEF FreeIsWild
<1> QED
  BY <1>1, <1>4, <1>10, <1>11, <1>13

-----------------------------------------------------------------------------
(* Every block the kernel frees leads from a layout to a layout, too.      *)

LEMMA FreedBase ==
    ASSUME NEW h, NEW pos, Base(h, pos), NEW a \in Units, ~FreeIsWild(h, a)
    PROVE  Base(kfree(h, a), pos)
<1>1. h \in Memory /\ pos \in 1 .. (HeapUnits + 1) /\ Clear(h, pos)
  BY DEF Base, Typed, Memory
<1>2. Kept(kfree(h, a), h)
  BY <1>1, KfreeTyped
<1> QED
  BY <1>1, <1>2 DEF Base, Typed, Clear, Kept, Memory

LEMMA BlocksAre ==
    ASSUME NEW h, NEW pos, Base(h, pos), NEW S, IsWalk(S, h, pos)
    PROVE  S \subseteq Units /\ h \in Memory /\ \A x \in S : h[x] # Junk
<1>1. Typed(h, pos)
  BY DEF Base
<1>2. S \subseteq Units /\ \A x \in S : h[x] # Junk
  BY <1>1, WalkTypes
<1> QED
  BY <1>1, <1>2 DEF Typed, Memory

\* The terminal's buffer is marked, in each layout.
LEMMA EndTwo ==
    ASSUME NEW h, NEW pos, Base(h, pos), NEW c \in Nat, Two(h, pos, c, "USED")
    PROVE  LET k == MarkFree(h, BufferAt)
           IN  /\ Base(k, pos) /\ Two(k, pos, c, "FREE")
               /\ h[BufferAt].next = Null /\ h[BufferAt].prev = 1
<1> DEFINE k == MarkFree(h, 6)
<1>1. /\ IsWalk({1, 6}, h, pos) /\ pos = c + 7 /\ Unused(h, pos)
      /\ h[1] = Header(4, "USED", 0, 6) /\ h[6] = Header(c, "USED", 1, 0)
  BY WalkOfTwo DEF Two, Null, BufferAt, ProcessAt
<1>2. {1, 6} \subseteq Units /\ h \in Memory
  BY <1>1, BlocksAre
<1>3. /\ k[6] = Header(c, "FREE", 1, 0) /\ Base(k, pos)
      /\ \A u \in Units : u # 6 => k[u] = h[u]
  BY <1>1, <1>2, MarkedFree
<1> HIDE DEF k
<1>4. Two(k, pos, c, "FREE")
  <2>1. Unused(k, pos) /\ k[1] = h[1]
    BY <1>1, <1>2, <1>3 DEF Unused
  <2> QED
    BY <1>1, <1>3, <2>1 DEF Two, ProcessAt, BufferAt, Null
<1>5. h[6].next = 0 /\ h[6].prev = 1
  BY <1>1 DEF Header
<1> QED
  BY <1>3, <1>4, <1>5 DEF k, BufferAt, Null

LEMMA EndFour ==
    ASSUME NEW h, NEW pos, Base(h, pos), NEW c \in Nat, Four(h, pos, c, "USED")
    PROVE  LET k == MarkFree(h, BufferAt)
           IN  /\ Base(k, pos) /\ Four(k, pos, c, "FREE")
               /\ h[BufferAt].next = ProcessAt(c) /\ h[BufferAt].prev = 1
<1> DEFINE k == MarkFree(h, 6)
           S == {1, 6, c + 7, c + 14}
<1>1. /\ IsWalk(S, h, pos) /\ pos = c + 19
      /\ h[1] = Header(4, "USED", 0, 6) /\ h[6] = Header(c, "USED", 1, c + 7)
      /\ h[c + 7] = Header(6, "USED", 6, c + 14)
      /\ h[c + 14] = Header(4, "USED", c + 7, 0)
  <2>1. IsWalk(S, h, pos)
    BY WalkOfFour
  <2> QED
    BY <2>1 DEF Four, Null, BufferAt, ProcessAt, ContextAt, EndAt
<1>2. S \subseteq Units /\ h \in Memory /\ c + 7 \in Nat
  BY <1>1, BlocksAre
<1>3. /\ k[6] = Header(c, "FREE", 1, c + 7) /\ Base(k, pos)
      /\ \A u \in Units : u # 6 => k[u] = h[u]
  BY <1>1, <1>2, MarkedFree
<1> HIDE DEF k
<1>4. Four(k, pos, c, "FREE")
  <2>1. k[1] = h[1] /\ k[c + 7] = h[c + 7] /\ k[c + 14] = h[c + 14]
    BY <1>2, <1>3
  <2> QED
    BY <1>1, <1>3, <2>1 DEF Four, ProcessAt, ContextAt, EndAt, BufferAt, Null
<1>5. h[6].next = c + 7 /\ h[6].prev = 1
  BY <1>1 DEF Header
<1> QED
  BY <1>3, <1>4, <1>5 DEF k, BufferAt, ProcessAt

LEMMA EndThree ==
    ASSUME NEW h, NEW pos, Base(h, pos), NEW c \in Nat, Three(h, pos, c, "USED")
    PROVE  LET k == MarkFree(h, BufferAt)
           IN  /\ Base(k, pos) /\ Three(k, pos, c, "FREE")
               /\ h[BufferAt].next = ProcessAt(c) /\ h[BufferAt].prev = 1
<1> DEFINE k == MarkFree(h, 6)
           S == {1, 6, c + 7}
<1>1. /\ IsWalk(S, h, pos) /\ pos = c + 19
      /\ h[1] = Header(4, "USED", 0, 6) /\ h[6] = Header(c, "USED", 1, c + 7)
  <2>1. IsWalk(S, h, pos)
    BY WalkOfThree
  <2> QED
    BY <2>1 DEF Three, Null, BufferAt, ProcessAt, EndAt
<1>2. S \subseteq Units /\ h \in Memory /\ c + 7 \in Nat
  BY <1>1, BlocksAre
<1>3. /\ k[6] = Header(c, "FREE", 1, c + 7) /\ Base(k, pos)
      /\ \A u \in Units : u # 6 => k[u] = h[u]
  BY <1>1, <1>2, MarkedFree
<1> HIDE DEF k
<1>4. Three(k, pos, c, "FREE")
  <2>1. k[1] = h[1] /\ k[c + 7] = h[c + 7]
    BY <1>2, <1>3
  <2> QED
    BY <1>1, <1>3, <2>1 DEF Three, ProcessAt, EndAt, BufferAt, Null
<1>5. h[6].next = c + 7 /\ h[6].prev = 1
  BY <1>1 DEF Header
<1> QED
  BY <1>3, <1>4, <1>5 DEF k, BufferAt, ProcessAt

\* It is merged with what a process left.  The prev of that is not read.
LEMMA JoinThree ==
    ASSUME NEW h, NEW pos, Base(h, pos), NEW c \in Nat, Three(h, pos, c, "FREE")
    PROVE  LET k == MergeWithNext(h, BufferAt, ProcessAt(c))
           IN  /\ ~IsJunk(h, ProcessAt(c)) /\ Base(k, pos) /\ Whole(k, pos, c)
<1> DEFINE k == MergeNext(h, 6)
           S == {1, 6, c + 7}
<1>1. /\ IsWalk(S, h, pos) /\ pos = c + 19
      /\ h[1] = Header(4, "USED", 0, 6) /\ h[6] = Header(c, "FREE", 1, c + 7)
  <2>1. IsWalk(S, h, pos)
    BY WalkOfThree
  <2> QED
    BY <2>1 DEF Three, Null, BufferAt, ProcessAt, EndAt
<1>2. PICK o \in {1, 6} : h[c + 7] = Header(11, "FREE", o, 0)
  BY DEF Three, ProcessAt, BufferAt, Null
<1>3. /\ S \subseteq Units /\ h \in Memory /\ c + 7 \in Units /\ c + 7 # 6
      /\ h[6] # Junk /\ h[c + 7] # Junk /\ c + 7 # 1 /\ 6 \in Units /\ o \in Nat
  BY <1>1, BlocksAre
<1>4. h[6].next = c + 7
  BY <1>1 DEF Header
<1>5. ~IsJunk(h, c + 7)
  BY <1>3 DEF IsJunk
<1>6. /\ k[6] = Header(c + 11 + 1, "FREE", 1, 0)
      /\ \A u \in Units : u # 6 /\ u # c + 7 => k[u] = h[u]
  BY <1>1, <1>2, <1>3, MergeNextIs
<1>7. k = MergeWithNext(h, 6, c + 7)
  BY <1>4 DEF MergeNext
<1>8. Base(k, pos)
  <2>1. Kept(k, h)
    BY <1>3, <1>4, <1>5, MergeNextTyped
  <2> HIDE DEF k
  <2> QED
    BY <2>1 DEF Base, Typed, Clear, Kept, Memory
<1> HIDE DEF k
<1>9. Whole(k, pos, c)
  <2>1. k[1] = h[1] /\ c + 11 + 1 = c + 12
    BY <1>3, <1>6
  <2> QED
    BY <1>1, <1>6, <2>1 DEF Whole, EndAt, BufferAt, Null
<1> QED
  BY <1>5, <1>7, <1>8, <1>9 DEF BufferAt, ProcessAt

\* The context of the process: the process is in use in front of it.
LEMMA ContextFreed ==
    ASSUME NEW h, NEW pos, Base(h, pos), NEW c \in Nat, NEW st \in {"FREE", "USED"},
           Four(h, pos, c, st)
    PROVE  LET k == kfree(h, c + 14)
           IN  /\ ~FreeIsWild(h, c + 14) /\ Base(k, pos) /\ k \in Memory
               /\ {1, 6, c + 7, c + 14} \subseteq Units
               /\ k[1] = Header(4, "USED", 0, 6) /\ k[6] = Header(c, st, 1, c + 7)
               /\ k[c + 7] = Header(6, "USED", 6, c + 14)
               /\ k[c + 14] = Header(4, "FREE", c + 7, 0)
               /\ k[6] # Junk
<1> DEFINE k == kfree(h, c + 14)
           S == {1, 6, c + 7, c + 14}
<1>1. /\ IsWalk(S, h, pos)
      /\ h[1] = Header(4, "USED", 0, 6) /\ h[6] = Header(c, st, 1, c + 7)
      /\ h[c + 7] = Header(6, "USED", 6, c + 14)
      /\ h[c + 14] = Header(4, "USED", c + 7, 0)
  <2>1. IsWalk(S, h, pos)
    BY WalkOfFour
  <2> QED
    BY <2>1 DEF Four, Null, BufferAt, ProcessAt, ContextAt, EndAt
<1>2. S \subseteq Units /\ h \in Memory /\ h[6] # Junk /\ h[c + 7] # Junk
  BY <1>1, BlocksAre
<1>3. NotFree(h, c + 14, c + 7) /\ NotFree(h, c + 14, 0)
  BY <1>1, <1>2 DEF NotFree, Header, Null
<1>4. /\ ~FreeIsWild(h, c + 14) /\ k[c + 14] = Header(4, "FREE", c + 7, 0)
      /\ \A u \in Units : u # c + 14 => k[u] = h[u]
  BY <1>1, <1>2, <1>3, FreesAlone
<1>5. Base(k, pos)
  BY <1>2, <1>4, FreedBase
<1> HIDE DEF k
<1>6. k[1] = h[1] /\ k[6] = h[6] /\ k[c + 7] = h[c + 7]
  BY <1>2, <1>4
<1>7. k \in Memory
  BY <1>5 DEF Base, Typed, Memory
<1> QED
  BY <1>1, <1>2, <1>4, <1>5, <1>6, <1>7 DEF k

\* A process that dies during a command leaves its two blocks as one.
LEMMA DiesUsed ==
    ASSUME NEW h, NEW pos, Base(h, pos), NEW c \in Nat, Four(h, pos, c, "USED")
    PROVE  LET g == kfree(h, ContextAt(c))
               k == kfree(g, ProcessAt(c))
           IN  /\ ~FreeIsWild(h, ContextAt(c)) /\ ~FreeIsWild(g, ProcessAt(c))
               /\ Base(k, pos) /\ Three(k, pos, c, "USED")
<1> DEFINE g == kfree(h, c + 14)
           k == kfree(g, c + 7)
<1>1. /\ ~FreeIsWild(h, c + 14) /\ Base(g, pos) /\ g \in Memory
      /\ {1, 6, c + 7, c + 14} \subseteq Units
      /\ g[1] = Header(4, "USED", 0, 6) /\ g[6] = Header(c, "USED", 1, c + 7)
      /\ g[c + 7] = Header(6, "USED", 6, c + 14)
      /\ g[c + 14] = Header(4, "FREE", c + 7, 0) /\ g[6] # Junk
  BY ContextFreed
<1> HIDE DEF g
<1>2. NotFree(g, c + 7, 6)
  BY <1>1 DEF NotFree, Header
<1>3. /\ ~FreeIsWild(g, c + 7) /\ k[c + 7] = Header(6 + 4 + 1, "FREE", 6, 0)
      /\ \A u \in Units : u # c + 7 /\ u # c + 14 => k[u] = g[u]
  <2>1. c + 7 \in Units /\ c + 14 \in Units /\ c + 14 # c + 7 /\ 6 # c + 14
        /\ c + 7 \in Nat
    BY <1>1
  <2> QED
    BY <1>1, <1>2, <2>1, FreesWithNext
<1>4. Base(k, pos)
  BY <1>1, <1>3, FreedBase
<1> HIDE DEF k
<1>5. Three(k, pos, c, "USED")
  <2>1. k[1] = g[1] /\ k[6] = g[6] /\ pos = EndAt(c) /\ 6 + 4 + 1 = 11
    BY <1>1, <1>3 DEF Four
  <2> QED
    BY <1>1, <1>3, <2>1 DEF Three, ProcessAt, BufferAt, Null
<1> QED
  BY <1>1, <1>3, <1>4, <1>5 DEF g, k, ContextAt, ProcessAt

\* One that dies between two commands leaves them with the buffer's.
LEMMA DiesFree ==
    ASSUME NEW h, NEW pos, Base(h, pos), NEW c \in Nat, Four(h, pos, c, "FREE")
    PROVE  LET g == kfree(h, ContextAt(c))
               k == kfree(g, ProcessAt(c))
           IN  /\ ~FreeIsWild(h, ContextAt(c)) /\ ~FreeIsWild(g, ProcessAt(c))
               /\ Base(k, pos) /\ Whole(k, pos, c)
<1> DEFINE g == kfree(h, c + 14)
           k == kfree(g, c + 7)
<1>1. /\ ~FreeIsWild(h, c + 14) /\ Base(g, pos) /\ g \in Memory
      /\ {1, 6, c + 7, c + 14} \subseteq Units
      /\ g[1] = Header(4, "USED", 0, 6) /\ g[6] = Header(c, "FREE", 1, c + 7)
      /\ g[c + 7] = Header(6, "USED", 6, c + 14)
      /\ g[c + 14] = Header(4, "FREE", c + 7, 0)
  BY ContextFreed
<1> HIDE DEF g
<1>2. /\ ~FreeIsWild(g, c + 7)
      /\ k[6] = Header(c + (6 + 4 + 1) + 1, "FREE", 1, 0)
      /\ \A u \in Units : u # c + 7 /\ u # c + 14 /\ u # 6 => k[u] = g[u]
  <2>1. /\ c + 7 \in Units /\ c + 14 \in Units /\ 6 \in Units
        /\ c + 14 # c + 7 /\ 6 # c + 14 /\ 6 # c + 7 /\ c + 7 \in Nat
    BY <1>1
  <2>2. g[c + 14] = Header(4, "FREE", c + 7, Null)
    BY <1>1 DEF Null
  <2>3. /\ ~FreeIsWild(g, c + 7)
        /\ k[6] = Header(c + (6 + 4 + 1) + 1, "FREE", 1, Null)
        /\ \A u \in Units : u # c + 7 /\ u # c + 14 /\ u # 6 => k[u] = g[u]
    BY <1>1, <2>1, <2>2, FreesIntoPrev
  <2> QED
    BY <2>3 DEF Null
<1>3. Base(k, pos)
  BY <1>1, <1>2, FreedBase
<1> HIDE DEF k
<1>4. Whole(k, pos, c)
  <2>1. k[1] = g[1] /\ pos = EndAt(c) /\ c + (6 + 4 + 1) + 1 = c + 12
    BY <1>1, <1>2 DEF Four
  <2> QED
    BY <1>1, <1>2, <2>1 DEF Whole, BufferAt, Null
<1> QED
  BY <1>1, <1>2, <1>3, <1>4 DEF g, k, ContextAt, ProcessAt

-----------------------------------------------------------------------------
(* The invariant: what the terminal is doing, the blocks that are held, and *)
(* the layouts that go with them.                                          *)

TerminalBlock == Block(1, ContextBytes)
BufferBlock == Block(BufferAt, max_char_x)
ProcessBlock(c) == Block(ProcessAt(c), ProcessBytes)
ContextBlock(c) == Block(ContextAt(c), ContextBytes)
Bark(c) == [p |-> ProcessAt(c), x |-> ContextAt(c)]

Booting ==
    /\ command = "boot" /\ barks = <<>> /\ live = {}
    /\ Empty(hdr, cur_heap_pos)

AtStart == cur_node = 1 /\ past_node = Null
AtBuffer == cur_node = BufferAt /\ past_node = 1
Freeing == buffer = BufferAt /\ node_prev = 1

\* The terminal holds no buffer: it is between two commands, or in the middle
\* of kalloc or kfree.
Idle(c) ==
    /\ barks = <<>> /\ live = {TerminalBlock}
    /\ \/ /\ command = "none" \/ (command = "walk" /\ (AtStart \/ AtBuffer))
          /\ \/ One(hdr, cur_heap_pos)
             \/ Two(hdr, cur_heap_pos, c, "FREE")
             \/ Whole(hdr, cur_heap_pos, c)
       \/ command = "new" /\ past_node = 1 /\ One(hdr, cur_heap_pos)
       \/ /\ command = "fits" /\ AtBuffer
          /\ Two(hdr, cur_heap_pos, c, "FREE") \/ Whole(hdr, cur_heap_pos, c)
       \/ /\ command = "take" /\ AtBuffer
          /\ Two(hdr, cur_heap_pos, c, "FREE") \/ Three(hdr, cur_heap_pos, c, "FREE")
       \/ /\ command = "next" /\ Freeing
          /\ \/ Two(hdr, cur_heap_pos, c, "FREE") /\ node_next = Null
             \/ Three(hdr, cur_heap_pos, c, "FREE") /\ node_next = ProcessAt(c)
       \/ /\ command = "prev" /\ Freeing
          /\ Two(hdr, cur_heap_pos, c, "FREE") \/ Whole(hdr, cur_heap_pos, c)

IdleWithBark(c) ==
    /\ barks = <<Bark(c)>>
    /\ live = {TerminalBlock, ProcessBlock(c), ContextBlock(c)}
    /\ Four(hdr, cur_heap_pos, c, "FREE")
    /\ \/ command = "none"
       \/ command = "walk" /\ (AtStart \/ AtBuffer)
       \/ command \in {"fits", "take"} /\ AtBuffer
       \/ command = "next" /\ Freeing /\ node_next = ProcessAt(c)
       \/ command = "prev" /\ Freeing

Busy(c) ==
    /\ command \in {"read", "done"} /\ buffer = BufferAt /\ barks = <<>>
    /\ live = {TerminalBlock, BufferBlock}
    /\ Two(hdr, cur_heap_pos, c, "USED") \/ Three(hdr, cur_heap_pos, c, "USED")

BusyWithBark(c) ==
    /\ command \in {"read", "done"} /\ buffer = BufferAt /\ barks = <<Bark(c)>>
    /\ live = {TerminalBlock, BufferBlock, ProcessBlock(c), ContextBlock(c)}
    /\ Four(hdr, cur_heap_pos, c, "USED")

Phase(c) == Booting \/ Idle(c) \/ IdleWithBark(c) \/ Busy(c) \/ BusyWithBark(c)

KInv ==
    /\ max_char_x \in Nat \ {0}
    /\ Base(hdr, cur_heap_pos) /\ ~wild
    /\ Phase(RoundUp(max_char_x))

LEMMA SoundNow ==
    ASSUME NEW V, Base(hdr, cur_heap_pos), IsWalk(V, hdr, cur_heap_pos),
           Holds(V, hdr, live), ~wild
    PROVE  Sound
<1>1. Typed(hdr, cur_heap_pos) /\ Clear(hdr, cur_heap_pos)
  BY DEF Base
<1>2. Blocks = V
  BY <1>1, WalkIs DEF Blocks
<1>3. \A a \in V : hdr[a] # Junk /\ Behind(hdr, a) \in V \union {cur_heap_pos}
  BY DEF IsWalk
<1> QED
  BY <1>1, <1>2, <1>3 DEF Sound, EndsAt, Behind, Clear, Holds

\* The blocks are as large as their headers say.
LEMMA BlockSizes ==
    ASSUME NEW c, max_char_x \in Nat \ {0}, c = RoundUp(max_char_x)
    PROVE  /\ c \in Nat /\ c >= 2
           /\ TerminalBlock.at = 1 /\ TerminalBlock.size = 4
           /\ BufferBlock.at = 6 /\ BufferBlock.size <= c /\ BufferBlock.size \in Nat
           /\ ProcessBlock(c).at = c + 7 /\ ProcessBlock(c).size = 6
           /\ ContextBlock(c).at = c + 14 /\ ContextBlock(c).size = 4
<1>1. /\ c \in Nat /\ c >= 2
      /\ BufferBlock.at = 6 /\ BufferBlock.size <= c /\ BufferBlock.size \in Nat
  BY Rounding DEF BufferBlock, BufferAt
<1>2. /\ TerminalBlock.at = 1 /\ TerminalBlock.size = 4
      /\ ProcessBlock(c).at = c + 7 /\ ProcessBlock(c).size = 6
      /\ ContextBlock(c).at = c + 14 /\ ContextBlock(c).size = 4
  BY DEF TerminalBlock, ProcessBlock, ContextBlock, ProcessAt, ContextAt, Block,
         ContextBytes, ProcessBytes
<1> QED
  BY <1>1, <1>2

\* Every phase has a sound heap, and one that ends early enough.
LEMMA PhaseSound ==
    ASSUME KInv
    PROVE  Sound /\ HeapDoesNotGrow
<1> DEFINE c == RoundUp(max_char_x)
           pos == cur_heap_pos
<1>1. /\ c \in Nat /\ c >= 2
      /\ TerminalBlock.at = 1 /\ TerminalBlock.size = 4
      /\ BufferBlock.at = 6 /\ BufferBlock.size <= c /\ BufferBlock.size \in Nat
      /\ ProcessBlock(c).at = c + 7 /\ ProcessBlock(c).size = 6
      /\ ContextBlock(c).at = c + 14 /\ ContextBlock(c).size = 4
  BY BlockSizes DEF KInv
<1>2. Base(hdr, pos) /\ ~wild /\ Phase(c)
  BY DEF KInv
<1>3. ASSUME pos <= c + 19
      PROVE  HeapDoesNotGrow
  <2>1. /\ heap_start = 1 /\ RoundUp(ContextBytes) = 4 /\ RoundUp(ProcessBytes) = 6
    BY RoundedSizes DEF heap_start
  <2>2. 1 + 4 + 1 + c + 1 + 6 + 1 + 4 + 1 = c + 19
    BY <1>1
  <2> HIDE DEF c
  <2>3. heap_start + RoundUp(ContextBytes) + 1 + c + 1
           + RoundUp(ProcessBytes) + 1 + RoundUp(ContextBytes) + 1 = c + 19
    BY <2>1, <2>2
  <2> QED
    BY <1>3, <2>3 DEF HeapDoesNotGrow, c
<1> HIDE DEF c
<1>4. CASE Booting
  <2>1. IsWalk({}, hdr, pos) /\ pos = 1 /\ live = {}
    BY <1>4, WalkOfEmpty DEF Booting, Empty
  <2>2. Holds({}, hdr, live)
    BY <2>1 DEF Holds
  <2> QED
    BY <1>1, <1>2, <1>3, <2>1, <2>2, SoundNow
<1>5. CASE Idle(c)
  <2>1. live = {TerminalBlock}
    BY <1>5 DEF Idle
  <2>2. CASE One(hdr, pos)
    <3>1. IsWalk({1}, hdr, pos) /\ pos = 6 /\ hdr[1] = Header(4, "USED", Null, Null)
      BY <2>2, WalkOfOne DEF One
    <3>2. Holds({1}, hdr, live)
      BY <1>1, <2>1, <3>1 DEF Holds, Header
    <3> QED
      BY <1>1, <1>2, <1>3, <3>1, <3>2, SoundNow
  <2>3. CASE Two(hdr, pos, c, "FREE")
    <3>1. /\ IsWalk({1, 6}, hdr, pos)
      BY <1>1, <2>3, WalkOfTwo
    <3>2. pos = c + 7 /\ hdr[1] = Header(4, "USED", Null, BufferAt)
      BY <2>3 DEF Two, ProcessAt
    <3>3. Holds({1, 6}, hdr, live)
      BY <1>1, <2>1, <3>2 DEF Holds, Header
    <3> QED
      BY <1>1, <1>2, <1>3, <3>1, <3>2, <3>3, SoundNow
  <2>4. CASE Whole(hdr, pos, c)
    <3>1. IsWalk({1, 6}, hdr, pos)
      BY <1>1, <2>4, WalkOfWhole
    <3>2. pos = c + 19 /\ hdr[1] = Header(4, "USED", Null, BufferAt)
      BY <2>4 DEF Whole, EndAt
    <3>3. Holds({1, 6}, hdr, live)
      BY <1>1, <2>1, <3>2 DEF Holds, Header
    <3> QED
      BY <1>1, <1>2, <1>3, <3>1, <3>2, <3>3, SoundNow
  <2>5. CASE Three(hdr, pos, c, "FREE")
    <3>1. IsWalk({1, 6, c + 7}, hdr, pos)
      BY <1>1, <2>5, WalkOfThree
    <3>2. pos = c + 19 /\ hdr[1] = Header(4, "USED", Null, BufferAt)
      BY <2>5 DEF Three, EndAt
    <3>3. Holds({1, 6, c + 7}, hdr, live)
      BY <1>1, <2>1, <3>2 DEF Holds, Header
    <3> QED
      BY <1>1, <1>2, <1>3, <3>1, <3>2, <3>3, SoundNow
  <2> QED
    BY <1>5, <2>2, <2>3, <2>4, <2>5 DEF Idle
<1>6. CASE IdleWithBark(c)
  <2>1. /\ live = {TerminalBlock, ProcessBlock(c), ContextBlock(c)}
        /\ Four(hdr, pos, c, "FREE")
    BY <1>6 DEF IdleWithBark
  <2>2. IsWalk({1, 6, c + 7, c + 14}, hdr, pos)
    BY <1>1, <2>1, WalkOfFour
  <2>3. /\ pos = c + 19 /\ hdr[1] = Header(4, "USED", Null, BufferAt)
        /\ hdr[c + 7] = Header(6, "USED", BufferAt, c + 14)
        /\ hdr[c + 14] = Header(4, "USED", c + 7, Null)
    BY <2>1 DEF Four, ProcessAt, ContextAt, EndAt
  <2>4. Holds({1, 6, c + 7, c + 14}, hdr, live)
    BY <1>1, <2>1, <2>3 DEF Holds, Header
  <2> QED
    BY <1>1, <1>2, <1>3, <2>2, <2>3, <2>4, SoundNow
<1>7. CASE Busy(c)
  <2>1. live = {TerminalBlock, BufferBlock}
    BY <1>7 DEF Busy
  <2>2. CASE Two(hdr, pos, c, "USED")
    <3>1. /\ IsWalk({1, 6}, hdr, pos)
      BY <1>1, <2>2, WalkOfTwo
    <3>2. /\ pos = c + 7 /\ hdr[1] = Header(4, "USED", Null, BufferAt)
          /\ hdr[6] = Header(c, "USED", 1, Null)
      BY <2>2 DEF Two, ProcessAt, BufferAt
    <3>3. Holds({1, 6}, hdr, live)
      BY <1>1, <2>1, <3>2 DEF Holds, Header
    <3> QED
      BY <1>1, <1>2, <1>3, <3>1, <3>2, <3>3, SoundNow
  <2>3. CASE Three(hdr, pos, c, "USED")
    <3>1. IsWalk({1, 6, c + 7}, hdr, pos)
      BY <1>1, <2>3, WalkOfThree
    <3>2. /\ pos = c + 19 /\ hdr[1] = Header(4, "USED", Null, BufferAt)
          /\ hdr[6] = Header(c, "USED", 1, c + 7)
      BY <2>3 DEF Three, ProcessAt, EndAt, BufferAt
    <3>3. Holds({1, 6, c + 7}, hdr, live)
      BY <1>1, <2>1, <3>2 DEF Holds, Header
    <3> QED
      BY <1>1, <1>2, <1>3, <3>1, <3>2, <3>3, SoundNow
  <2> QED
    BY <1>7, <2>2, <2>3 DEF Busy
<1>8. CASE BusyWithBark(c)
  <2>1. /\ live = {TerminalBlock, BufferBlock, ProcessBlock(c), ContextBlock(c)}
        /\ Four(hdr, pos, c, "USED")
    BY <1>8 DEF BusyWithBark
  <2>2. IsWalk({1, 6, c + 7, c + 14}, hdr, pos)
    BY <1>1, <2>1, WalkOfFour
  <2>3. /\ pos = c + 19 /\ hdr[1] = Header(4, "USED", Null, BufferAt)
        /\ hdr[6] = Header(c, "USED", 1, c + 7)
        /\ hdr[c + 7] = Header(6, "USED", BufferAt, c + 14)
        /\ hdr[c + 14] = Header(4, "USED", c + 7, Null)
    BY <2>1 DEF Four, ProcessAt, ContextAt, EndAt, BufferAt
  <2>4. Holds({1, 6, c + 7, c + 14}, hdr, live)
    BY <1>1, <2>1, <2>3 DEF Holds, Header
  <2> QED
    BY <1>1, <1>2, <1>3, <2>2, <2>3, <2>4, SoundNow
<1> QED
  BY <1>2, <1>4, <1>5, <1>6, <1>7, <1>8 DEF Phase

LEMMA KInvInit ==
    ASSUME KInit
    PROVE  KInv
<1>1. max_char_x \in Nat \ {0}
  BY KernelHeapAssumption DEF KInit
<1>2. hdr = [a \in Units |-> Header(0, "FREE", 0, 0)] /\ cur_heap_pos = 1
  BY DEF KInit, Init, heap_start, Null
<1>3. Header(0, "FREE", 0, 0) \in Headers
  BY DEF Header, Headers
<1>4. Base(hdr, cur_heap_pos)
  BY <1>2, <1>3, Constants DEF Base, Typed, Clear
<1>5. Booting
  BY <1>2 DEF KInit, Init, Booting, Empty, Unused, Null
<1> QED
  BY <1>1, <1>4, <1>5 DEF KInv, Phase, KInit, Init

-----------------------------------------------------------------------------
(* The steps.                                                              *)

\* What an allocation does in a sound heap.
LEMMA AllocIs ==
    ASSUME KInv, NEW bytes, Alloc(bytes)
    PROVE  LET r == kalloc(hdr, cur_heap_pos, RoundUp(bytes))
           IN  /\ Room(hdr, cur_heap_pos, RoundUp(bytes))
               /\ hdr' = Filled(hdr, cur_heap_pos, bytes)
               /\ cur_heap_pos' = r.pos
               /\ live' = live \union {Block(r.at, bytes)}
               /\ ~wild'
<1>1. Typed(hdr, cur_heap_pos) /\ ~wild
  BY DEF KInv, Base
<1>2. Sound
  BY PhaseSound
<1>3. ~WalkIsWild(hdr, cur_heap_pos, RoundUp(bytes))
  BY <1>2 DEF Sound, WalkIsWild, Blocks
<1> QED
  BY <1>1, <1>3 DEF Alloc, Filled

LEMMA BootStep ==
    ASSUME KInv, Boot
    PROVE  KInv'
<1> DEFINE c == RoundUp(max_char_x)
           r == kalloc(hdr, cur_heap_pos, 4)
<1>1. Booting /\ Base(hdr, cur_heap_pos) /\ max_char_x \in Nat \ {0}
  BY DEF KInv, Phase, Boot, Idle, IdleWithBark, Busy, BusyWithBark
<1>2. /\ Room(hdr, cur_heap_pos, 4) /\ hdr' = Filled(hdr, cur_heap_pos, ContextBytes)
      /\ cur_heap_pos' = r.pos /\ live' = live \union {Block(r.at, ContextBytes)}
      /\ ~wild'
  <2>1. Alloc(ContextBytes)
    BY DEF Boot
  <2> QED
    BY <2>1, AllocIs, RoundedSizes
<1>3. r.at = 1 /\ Base(hdr', cur_heap_pos') /\ One(hdr', cur_heap_pos')
  BY <1>1, <1>2, BootLays DEF Booting
<1>4. live' = {Block(1, ContextBytes)}
  BY <1>1, <1>2, <1>3 DEF Booting
<1>5. command' = "none" /\ barks' = <<>> /\ max_char_x' = max_char_x
  BY <1>1 DEF Boot, Booting
<1>6. Idle(c)'
  BY <1>3, <1>4, <1>5 DEF Idle, TerminalBlock
<1> QED
  BY <1>1, <1>2, <1>3, <1>5, <1>6 DEF KInv, Phase

LEMMA BeginStep ==
    ASSUME KInv, CommandBegins
    PROVE  KInv'
<1> DEFINE c == RoundUp(max_char_x)
<1>1. /\ Idle(c) \/ IdleWithBark(c)
      /\ Base(hdr, cur_heap_pos) /\ max_char_x \in Nat \ {0} /\ ~wild
  BY DEF KInv, Phase, CommandBegins, Booting, Busy, BusyWithBark
<1>2. /\ command = "none" /\ command' = "walk" /\ AtStart'
      /\ hdr' = hdr /\ cur_heap_pos' = cur_heap_pos /\ live' = live /\ wild' = wild
      /\ max_char_x' = max_char_x /\ barks' = barks
  BY DEF CommandBegins, AtStart, vars, heap_start
<1>3. CASE Idle(c)
  <2>1. Idle(c)'
    BY <1>2, <1>3 DEF Idle, TerminalBlock
  <2> QED
    BY <1>1, <1>2, <2>1 DEF KInv, Phase
<1>4. CASE IdleWithBark(c)
  <2>1. IdleWithBark(c)'
    BY <1>2, <1>4 DEF IdleWithBark, TerminalBlock, ProcessBlock, ContextBlock, Bark
  <2> QED
    BY <1>1, <1>2, <2>1 DEF KInv, Phase
<1> QED
  BY <1>1, <1>3, <1>4

\* The terminal's context is in use, and the next block begins at 6.
LEMMA FirstIsUsed ==
    ASSUME NEW c \in Nat,
           \/ One(hdr, cur_heap_pos) \/ Two(hdr, cur_heap_pos, c, "FREE")
           \/ Whole(hdr, cur_heap_pos, c) \/ Four(hdr, cur_heap_pos, c, "FREE")
    PROVE  /\ hdr[1] # Junk /\ hdr[1].status = "USED" /\ EndsAt(1) = 6
           /\ 1 < cur_heap_pos
<1>1. PICK n \in {0, 6} : hdr[1] = Header(4, "USED", 0, n)
  BY DEF One, Two, Whole, Four, Null, BufferAt
<1>2. cur_heap_pos \in {6, c + 7, c + 19}
  BY DEF One, Two, Whole, Four, ProcessAt, EndAt
<1>3. Header(4, "USED", 0, n) \in Headers
  BY DEF Header, Headers
<1> QED
  BY <1>1, <1>2, <1>3, HeapAssumption DEF Header, EndsAt

\* The buffer of the command before is large enough.
LEMMA BufferFits ==
    ASSUME NEW c \in Nat,
           \/ Two(hdr, cur_heap_pos, c, "FREE")
           \/ Whole(hdr, cur_heap_pos, c) \/ Four(hdr, cur_heap_pos, c, "FREE")
    PROVE  /\ hdr[6] # Junk /\ hdr[6].status = "FREE" /\ hdr[6].size >= c
           /\ 6 < cur_heap_pos
<1>1. PICK z \in {c, c + 12}, n \in {0, c + 7} : hdr[6] = Header(z, "FREE", 1, n)
  BY DEF Two, Whole, Four, Null, BufferAt, ProcessAt
<1>2. cur_heap_pos \in {c + 7, c + 19}
  BY DEF Two, Whole, Four, ProcessAt, EndAt
<1>3. Header(z, "FREE", 1, n) \in Headers
  BY DEF Header, Headers
<1> QED
  BY <1>1, <1>2, <1>3, HeapAssumption DEF Header

LEMMA WalkStep ==
    ASSUME KInv, WalkOn
    PROVE  KInv'
<1> DEFINE c == RoundUp(max_char_x)
<1>1. /\ Idle(c) \/ IdleWithBark(c)
      /\ Base(hdr, cur_heap_pos) /\ max_char_x \in Nat \ {0} /\ ~wild /\ c \in Nat
  BY Rounding DEF KInv, Phase, WalkOn, Booting, Busy, BusyWithBark
<1>2. /\ command = "walk" /\ max_char_x' = max_char_x /\ barks' = barks
      /\ AtStart \/ AtBuffer
  BY <1>1 DEF WalkOn, Idle, IdleWithBark
<1>3. \/ One(hdr, cur_heap_pos) \/ Two(hdr, cur_heap_pos, c, "FREE")
      \/ Whole(hdr, cur_heap_pos, c) \/ Four(hdr, cur_heap_pos, c, "FREE")
  BY <1>1, <1>2 DEF Idle, IdleWithBark
<1>4. ASSUME UNCHANGED vars, (command' = "walk" /\ (AtStart \/ AtBuffer)')
             \/ (command' = "fits" /\ AtBuffer' /\ ~One(hdr, cur_heap_pos))
             \/ (command' = "new" /\ past_node' = 1 /\ One(hdr, cur_heap_pos)
                   /\ ~Four(hdr, cur_heap_pos, c, "FREE"))
      PROVE  KInv'
  <2>1. /\ hdr' = hdr /\ cur_heap_pos' = cur_heap_pos /\ live' = live /\ wild' = wild
    BY <1>4 DEF vars
  <2>2. CASE Idle(c)
    <3>1. Idle(c)'
      BY <1>2, <1>4, <2>1, <2>2 DEF Idle, TerminalBlock
    <3> QED
      BY <1>1, <1>2, <2>1, <3>1 DEF KInv, Phase
  <2>3. CASE IdleWithBark(c)
    <3>1. Four(hdr, cur_heap_pos, c, "FREE")
      BY <2>3 DEF IdleWithBark
    <3>2. IdleWithBark(c)'
      BY <1>2, <1>4, <2>1, <2>3, <3>1
         DEF IdleWithBark, TerminalBlock, ProcessBlock, ContextBlock, Bark
    <3> QED
      BY <1>1, <1>2, <2>1, <3>2 DEF KInv, Phase
  <2> QED
    BY <1>1, <2>2, <2>3
<1> HIDE DEF c
<1>5. CASE AtStart
  <2>1. /\ hdr[1] # Junk /\ hdr[1].status = "USED" /\ EndsAt(1) = 6
        /\ 1 < cur_heap_pos /\ cur_heap_pos \in Nat
    BY <1>1, <1>3, FirstIsUsed, Constants DEF Base, Typed
  <2>2. cur_node = 1 /\ ~(cur_node >= cur_heap_pos) /\ ~Fits
    BY <1>5, <2>1 DEF AtStart, Fits
  <2>3. cur_node' = 6 /\ past_node' = 1 /\ UNCHANGED vars /\ command' = command
    BY <2>1, <2>2 DEF WalkOn
  <2> QED
    BY <1>2, <1>4, <2>3 DEF AtBuffer, BufferAt
<1>6. CASE AtBuffer
  <2>1. cur_node = 6 /\ past_node = 1
    BY <1>6 DEF AtBuffer, BufferAt
  <2>2. CASE One(hdr, cur_heap_pos)
    <3>1. cur_heap_pos = 6 /\ ~Four(hdr, cur_heap_pos, c, "FREE")
      BY <1>1, <2>2 DEF One, Four, EndAt
    <3>2. command' = "new" /\ UNCHANGED vars /\ past_node' = 1
      BY <2>1, <3>1 DEF WalkOn
    <3> QED
      BY <1>4, <2>2, <3>1, <3>2
  <2>3. CASE ~One(hdr, cur_heap_pos)
    <3>1. /\ hdr[6] # Junk /\ hdr[6].status = "FREE" /\ hdr[6].size >= c
          /\ 6 < cur_heap_pos /\ cur_heap_pos \in Nat
      BY <1>1, <1>3, <2>3, BufferFits, Constants DEF Base, Typed
    <3>2. Fits /\ ~(cur_node >= cur_heap_pos)
      BY <2>1, <3>1 DEF Fits, Size, c
    <3>3. command' = "fits" /\ UNCHANGED vars /\ cur_node' = 6 /\ past_node' = 1
      BY <2>1, <3>1, <3>2 DEF WalkOn
    <3> QED
      BY <1>4, <2>3, <3>3 DEF AtBuffer, BufferAt
  <2> QED
    BY <2>2, <2>3
<1> QED
  BY <1>2, <1>5, <1>6

LEMMA SplitStep ==
    ASSUME KInv, Split
    PROVE  KInv'
<1> DEFINE c == RoundUp(max_char_x)
<1>1. /\ Idle(c) \/ IdleWithBark(c)
      /\ Base(hdr, cur_heap_pos) /\ max_char_x \in Nat \ {0} /\ ~wild /\ c \in Nat
  BY Rounding DEF KInv, Phase, Split, Booting, Busy, BusyWithBark
<1>2. /\ command = "fits" /\ command' = "take" /\ max_char_x' = max_char_x
      /\ barks' = barks /\ cur_heap_pos' = cur_heap_pos /\ live' = live
      /\ wild' = wild /\ cur_node' = cur_node /\ past_node' = past_node
  BY DEF Split, locals
<1>3. AtBuffer /\ AtBuffer'
  BY <1>1, <1>2 DEF Idle, IdleWithBark, AtBuffer
<1>4. ASSUME Two(hdr, cur_heap_pos, c, "FREE") \/ Four(hdr, cur_heap_pos, c, "FREE")
      PROVE  hdr' = hdr
  <2>1. PICK n \in {0, c + 7} : hdr[6] = Header(c, "FREE", 1, n)
    BY <1>4 DEF Two, Four, Null, BufferAt, ProcessAt
  <2>2. hdr[6].size = c /\ c - c = 0 /\ 0 % 268435456 = 0
    BY <1>1, <2>1 DEF Header
  <2>3. Surplus = 0
    BY <1>3, <2>2 DEF Surplus, AtBuffer, BufferAt, Size, AddressUnits
  <2> QED
    BY <2>3 DEF Split
<1>5. ASSUME Whole(hdr, cur_heap_pos, c)
      PROVE  Base(hdr', cur_heap_pos) /\ Three(hdr', cur_heap_pos, c, "FREE")
  <2>1. hdr[6] = Header(c + 12, "FREE", 1, 0)
    BY <1>5 DEF Whole, Null, BufferAt
  <2>2. hdr[6].size = c + 12 /\ (c + 12) - c = 12 /\ 12 % 268435456 = 12
    BY <1>1, <2>1 DEF Header
  <2>3. Surplus = 12
    BY <1>3, <2>2 DEF Surplus, AtBuffer, BufferAt, Size, AddressUnits
  <2>4. hdr' = SplitOff(hdr, BufferAt, c, 11)
    BY <1>3, <2>3 DEF Split, AtBuffer, Size
  <2> QED
    BY <1>1, <1>5, <2>4, PartWhole
<1> HIDE DEF c
<1>6. CASE Idle(c)
  <2>1. Two(hdr, cur_heap_pos, c, "FREE") \/ Whole(hdr, cur_heap_pos, c)
    BY <1>2, <1>6 DEF Idle
  <2>2. /\ Base(hdr', cur_heap_pos)
        /\ Two(hdr', cur_heap_pos, c, "FREE") \/ Three(hdr', cur_heap_pos, c, "FREE")
    BY <1>1, <1>4, <1>5, <2>1
  <2>3. barks = <<>> /\ live = {TerminalBlock}
    BY <1>6 DEF Idle
  <2>4. Idle(c)'
    BY <1>2, <1>3, <2>2, <2>3 DEF Idle, TerminalBlock, c
  <2> QED
    BY <1>1, <1>2, <2>2, <2>4 DEF KInv, Phase, c
<1>7. CASE IdleWithBark(c)
  <2>1. hdr' = hdr
    BY <1>4, <1>7 DEF IdleWithBark
  <2>2. IdleWithBark(c)'
    BY <1>2, <1>3, <1>7, <2>1
       DEF IdleWithBark, TerminalBlock, ProcessBlock, ContextBlock, Bark, c
  <2> QED
    BY <1>1, <1>2, <2>1, <2>2 DEF KInv, Phase, c
<1> QED
  BY <1>1, <1>6, <1>7

LEMMA TakeStep ==
    ASSUME KInv, Take
    PROVE  KInv'
<1> DEFINE c == RoundUp(max_char_x)
           k == Written(Marked(hdr, BufferAt, 1), Block(BufferAt, max_char_x))
<1>1. /\ Idle(c) \/ IdleWithBark(c)
      /\ Base(hdr, cur_heap_pos) /\ max_char_x \in Nat \ {0} /\ ~wild /\ c \in Nat
  BY Rounding DEF KInv, Phase, Take, Booting, Busy, BusyWithBark
<1>2. /\ command = "take" /\ command' = "read" /\ max_char_x' = max_char_x
      /\ barks' = barks /\ cur_heap_pos' = cur_heap_pos /\ wild' = wild
  BY DEF Take, GetsBuffer
<1>3. AtBuffer
  BY <1>1, <1>2 DEF Idle, IdleWithBark
<1>4. hdr' = k /\ live' = live \union {BufferBlock} /\ buffer' = BufferAt
  BY <1>3 DEF Take, GetsBuffer, AtBuffer, BufferBlock
<1> HIDE DEF k
<1>5. CASE Idle(c)
  <2>1. Two(hdr, cur_heap_pos, c, "FREE") \/ Three(hdr, cur_heap_pos, c, "FREE")
    BY <1>2, <1>5 DEF Idle
  <2>2. /\ Base(k, cur_heap_pos)
        /\ Two(k, cur_heap_pos, c, "USED") \/ Three(k, cur_heap_pos, c, "USED")
    BY <1>1, <2>1, BeginTwo, BeginThree DEF k
  <2>3. live' = {TerminalBlock, BufferBlock} /\ barks' = <<>>
    BY <1>2, <1>4, <1>5 DEF Idle
  <2>4. Busy(c)'
    BY <1>2, <1>4, <2>2, <2>3 DEF Busy, TerminalBlock, BufferBlock
  <2> QED
    BY <1>1, <1>2, <1>4, <2>2, <2>4 DEF KInv, Phase
<1>6. CASE IdleWithBark(c)
  <2>1. Base(k, cur_heap_pos) /\ Four(k, cur_heap_pos, c, "USED")
    BY <1>1, <1>6, BeginFour DEF k, IdleWithBark
  <2>2. /\ live' = {TerminalBlock, BufferBlock, ProcessBlock(c), ContextBlock(c)}
        /\ barks' = <<Bark(c)>>
    BY <1>2, <1>4, <1>6 DEF IdleWithBark
  <2>3. BusyWithBark(c)'
    BY <1>2, <1>4, <2>1, <2>2 DEF BusyWithBark, TerminalBlock, BufferBlock,
       ProcessBlock, ContextBlock, Bark
  <2> QED
    BY <1>1, <1>2, <1>4, <2>1, <2>3 DEF KInv, Phase
<1> QED
  BY <1>1, <1>5, <1>6

LEMMA NewStep ==
    ASSUME KInv, TakeNewBlock
    PROVE  KInv'
<1> DEFINE c == RoundUp(max_char_x)
           k == Written(NewBlock(hdr, cur_heap_pos, 1, c),
                        Block(cur_heap_pos, max_char_x))
<1>1. /\ Idle(c) \/ IdleWithBark(c)
      /\ Base(hdr, cur_heap_pos) /\ max_char_x \in Nat \ {0} /\ ~wild /\ c \in Nat
  BY Rounding DEF KInv, Phase, TakeNewBlock, Booting, Busy, BusyWithBark
<1>2. /\ command = "new" /\ command' = "read" /\ max_char_x' = max_char_x
      /\ barks' = barks /\ cur_heap_pos' = cur_heap_pos + c + 1 /\ wild' = wild
      /\ cur_heap_pos + c <= HeapUnits
  BY DEF TakeNewBlock, GetsBuffer, Size
<1>3. /\ One(hdr, cur_heap_pos) /\ past_node = 1 /\ barks = <<>>
      /\ live = {TerminalBlock}
  BY <1>1, <1>2 DEF Idle, IdleWithBark
<1>4. /\ hdr' = k /\ buffer' = cur_heap_pos
      /\ live' = live \union {Block(cur_heap_pos, max_char_x)}
  BY <1>3 DEF TakeNewBlock, GetsBuffer, Size
<1> HIDE DEF k
<1>5. /\ cur_heap_pos = BufferAt /\ Base(k, cur_heap_pos + c + 1)
      /\ Two(k, cur_heap_pos + c + 1, c, "USED")
  BY <1>1, <1>2, <1>3, BeginOne DEF k
<1> HIDE DEF c
<1>6. live' = {TerminalBlock, BufferBlock} /\ buffer' = BufferAt
  BY <1>3, <1>4, <1>5 DEF BufferBlock
<1>7. Busy(c)'
  BY <1>2, <1>3, <1>4, <1>5, <1>6 DEF Busy, TerminalBlock, BufferBlock, c
<1> QED
  BY <1>1, <1>2, <1>4, <1>5, <1>7 DEF KInv, Phase, c

\* "woof", when the one process before it is gone.
LEMMA WoofStep ==
    ASSUME KInv, MaxAlive = 1, Woof
    PROVE  KInv'
<1> DEFINE c == RoundUp(max_char_x)
           p == kalloc(hdr, cur_heap_pos, 6)
           h == Filled(hdr, cur_heap_pos, ProcessBytes)
           x == kalloc(h, p.pos, 4)
           k == Filled(h, p.pos, ContextBytes)
<1>1. /\ Base(hdr, cur_heap_pos) /\ max_char_x \in Nat \ {0} /\ c \in Nat /\ ~wild
  BY Rounding DEF KInv
<1>2. Busy(c)
  <2>1. Busy(c) \/ BusyWithBark(c)
    BY DEF KInv, Phase, Woof, Booting, Idle, IdleWithBark
  <2>2. ~BusyWithBark(c)
    <3>1. Len(barks) < 1
      BY DEF Woof
    <3>2. BusyWithBark(c) => barks = <<Bark(c)>>
      BY DEF BusyWithBark
    <3>3. Len(<<Bark(c)>>) = 1
      OBVIOUS
    <3> QED
      BY <3>1, <3>2, <3>3
  <2> QED
    BY <2>1, <2>2
<1>3. ~WalkIsWild(hdr, cur_heap_pos, 6)
  <2>1. Sound
    BY PhaseSound
  <2> QED
    BY <2>1 DEF Sound, WalkIsWild, Blocks
<1>4. /\ h = Written(p.hdr, Block(p.at, ProcessBytes))
      /\ k = Written(x.hdr, Block(x.at, ContextBytes))
  BY RoundedSizes DEF Filled
<1>5. /\ command' = "done" /\ barks' = Append(barks, [p |-> p.at, x |-> x.at])
      /\ Room(hdr, cur_heap_pos, 6) /\ max_char_x' = max_char_x /\ buffer' = buffer
      /\ ~WalkIsWild(h, p.pos, 4) =>
            /\ Room(h, p.pos, 4) /\ hdr' = k /\ cur_heap_pos' = x.pos
            /\ live' = live \union {Block(p.at, ProcessBytes),
                                    Block(x.at, ContextBytes)}
            /\ wild' = wild
  BY <1>3, <1>4, RoundedSizes DEF Woof
<1>6. p.at = ProcessAt(c) /\ Base(h, p.pos) /\ (Mid(h, p.pos, c) \/ Cut(h, p.pos, c))
  <2>1. CASE Two(hdr, cur_heap_pos, c, "USED")
    BY <1>1, <1>5, <2>1, ProcessTwo
  <2>2. CASE Three(hdr, cur_heap_pos, c, "USED")
    BY <1>1, <2>2, ProcessThree
  <2> QED
    BY <1>2, <2>1, <2>2 DEF Busy
<1> HIDE DEF h, k, p, x, c
<1>7. ~WalkIsWild(h, p.pos, 4)
  <2>1. Typed(h, p.pos) /\ \E V : IsWalk(V, h, p.pos)
    BY <1>1, <1>6, WalkOfMid, WalkOfCut DEF Base
  <2> QED
    BY <2>1, WalkNotWild
<1>8. x.at = ContextAt(c) /\ Base(k, x.pos) /\ Four(k, x.pos, c, "USED")
  <2>1. CASE Mid(h, p.pos, c)
    BY <1>1, <1>5, <1>6, <1>7, <2>1, ContextMid DEF x, k
  <2>2. CASE Cut(h, p.pos, c)
    BY <1>1, <1>6, <2>2, ContextCut DEF x, k
  <2> QED
    BY <1>6, <2>1, <2>2
<1>9. /\ barks = <<>> /\ buffer = BufferAt /\ live = {TerminalBlock, BufferBlock}
  BY <1>2 DEF Busy
<1>10. barks' = <<Bark(c)>>
  BY <1>5, <1>6, <1>8, <1>9 DEF Bark
<1>11. live' = {TerminalBlock, BufferBlock, ProcessBlock(c), ContextBlock(c)}
  BY <1>5, <1>6, <1>7, <1>8, <1>9 DEF ProcessBlock, ContextBlock
<1>12. BusyWithBark(c)'
  BY <1>5, <1>7, <1>8, <1>9, <1>10, <1>11 DEF BusyWithBark, TerminalBlock,
     BufferBlock, ProcessBlock, ContextBlock, Bark, c
<1> QED
  BY <1>1, <1>5, <1>7, <1>8, <1>12 DEF KInv, Phase, c

\* A block is found by its address.
LEMMA BlockAtIs ==
    ASSUME NEW b \in live, \A d \in live : d.at = b.at => d = b
    PROVE  BlockAt(b.at) = b
BY DEF BlockAt

LEMMA EndStep ==
    ASSUME KInv, CommandEnds
    PROVE  KInv'
<1> DEFINE c == RoundUp(max_char_x)
           k == MarkFree(hdr, BufferAt)
<1>1. /\ Base(hdr, cur_heap_pos) /\ max_char_x \in Nat \ {0} /\ ~wild
      /\ Busy(c) \/ BusyWithBark(c)
  BY DEF KInv, Phase, CommandEnds, Booting, Idle, IdleWithBark
<1>2. /\ c \in Nat /\ TerminalBlock.at = 1 /\ BufferBlock.at = 6
      /\ ProcessBlock(c).at = c + 7 /\ ContextBlock(c).at = c + 14
  BY <1>1, BlockSizes
<1> HIDE DEF c
<1>3. BlockAt(buffer) = BufferBlock /\ buffer = BufferAt
  <2>1. /\ BufferBlock \in live /\ buffer = BufferAt
        /\ live \subseteq {TerminalBlock, BufferBlock, ProcessBlock(c), ContextBlock(c)}
    BY <1>1 DEF Busy, BusyWithBark
  <2>2. \A d \in live : d.at = BufferBlock.at => d = BufferBlock
    BY <1>2, <2>1
  <2> QED
    BY <1>2, <2>1, <2>2, BlockAtIs DEF BufferAt
<1>4. /\ command' = "next" /\ barks' = barks /\ max_char_x' = max_char_x
      /\ hdr' = k /\ live' = live \ {BufferBlock} /\ buffer' = BufferAt
      /\ cur_heap_pos' = cur_heap_pos /\ wild' = wild
      /\ node_next' = hdr[BufferAt].next /\ node_prev' = hdr[BufferAt].prev
  BY <1>3 DEF CommandEnds
<1> HIDE DEF k
<1>5. CASE Busy(c)
  <2>1. /\ Base(k, cur_heap_pos) /\ node_prev' = 1
        /\ \/ Two(k, cur_heap_pos, c, "FREE") /\ node_next' = Null
           \/ Three(k, cur_heap_pos, c, "FREE") /\ node_next' = ProcessAt(c)
    <3>1. CASE Two(hdr, cur_heap_pos, c, "USED")
      BY <1>1, <1>2, <1>4, <3>1, EndTwo DEF k
    <3>2. CASE Three(hdr, cur_heap_pos, c, "USED")
      BY <1>1, <1>2, <1>4, <3>2, EndThree DEF k
    <3> QED
      BY <1>5, <3>1, <3>2 DEF Busy
  <2>2. live' = {TerminalBlock} /\ barks' = <<>>
    <3>1. live = {TerminalBlock, BufferBlock} /\ TerminalBlock # BufferBlock
      BY <1>2, <1>5 DEF Busy
    <3> QED
      BY <1>4, <1>5, <3>1 DEF Busy
  <2>3. Freeing'
    BY <1>4, <2>1 DEF Freeing
  <2>4. Idle(c)'
    BY <1>4, <2>1, <2>2, <2>3 DEF Idle, TerminalBlock, c
  <2> QED
    BY <1>1, <1>4, <2>1, <2>4 DEF KInv, Phase, c
<1>6. CASE BusyWithBark(c)
  <2>1. /\ Base(k, cur_heap_pos) /\ Four(k, cur_heap_pos, c, "FREE")
        /\ node_prev' = 1 /\ node_next' = ProcessAt(c)
    BY <1>1, <1>2, <1>4, <1>6, EndFour DEF BusyWithBark, k
  <2>2. live' = {TerminalBlock, ProcessBlock(c), ContextBlock(c)}
    <3>1. /\ live = {TerminalBlock, BufferBlock, ProcessBlock(c), ContextBlock(c)}
      BY <1>6 DEF BusyWithBark
    <3>2. BufferBlock \notin {TerminalBlock, ProcessBlock(c), ContextBlock(c)}
      BY <1>2
    <3> QED
      BY <1>4, <3>1, <3>2
  <2>3. barks' = <<Bark(c)>> /\ Freeing'
    BY <1>4, <1>6, <2>1 DEF BusyWithBark, Freeing
  <2>4. IdleWithBark(c)'
    BY <1>4, <2>1, <2>2, <2>3 DEF IdleWithBark, TerminalBlock, ProcessBlock,
       ContextBlock, Bark, c
  <2> QED
    BY <1>1, <1>4, <2>1, <2>4 DEF KInv, Phase, c
<1> QED
  BY <1>1, <1>5, <1>6

LEMMA NextStep ==
    ASSUME KInv, MergesNext
    PROVE  KInv'
<1> DEFINE c == RoundUp(max_char_x)
<1>1. /\ Idle(c) \/ IdleWithBark(c)
      /\ Base(hdr, cur_heap_pos) /\ max_char_x \in Nat \ {0} /\ ~wild /\ c \in Nat
  BY Rounding DEF KInv, Phase, MergesNext, Booting, Busy, BusyWithBark
<1>2. /\ command = "next" /\ command' = "prev" /\ max_char_x' = max_char_x
      /\ barks' = barks /\ buffer' = buffer /\ node_prev' = node_prev
  BY DEF MergesNext, locals
<1>3. Freeing /\ Freeing'
  BY <1>1, <1>2 DEF Idle, IdleWithBark, Freeing
<1>4. ASSUME ~IsJunk(hdr, node_next)
      PROVE  /\ hdr' = MergeWithNext(hdr, BufferAt, node_next)
             /\ cur_heap_pos' = cur_heap_pos /\ live' = live /\ wild' = wild
  BY <1>3, <1>4 DEF MergesNext, Freeing
<1>5. ASSUME NotFree(hdr, BufferAt, node_next)
      PROVE  hdr' = hdr /\ ~IsJunk(hdr, node_next)
  <2>1. ~IsJunk(hdr, node_next) /\ ~FreeIn(hdr, node_next)
    BY <1>5 DEF NotFree, IsJunk, FreeIn
  <2> QED
    BY <1>4, <2>1 DEF MergeWithNext
<1> HIDE DEF c
<1>6. CASE Idle(c)
  <2>1. /\ barks = <<>> /\ live = {TerminalBlock}
        /\ \/ Two(hdr, cur_heap_pos, c, "FREE") /\ node_next = Null
           \/ Three(hdr, cur_heap_pos, c, "FREE") /\ node_next = ProcessAt(c)
    BY <1>2, <1>6 DEF Idle
  <2>2. /\ ~IsJunk(hdr, node_next) /\ Base(hdr', cur_heap_pos)
        /\ Two(hdr', cur_heap_pos, c, "FREE") \/ Whole(hdr', cur_heap_pos, c)
    <3>1. CASE Two(hdr, cur_heap_pos, c, "FREE") /\ node_next = Null
      <4>1. NotFree(hdr, BufferAt, node_next)
        BY <3>1 DEF NotFree
      <4> QED
        BY <1>1, <1>5, <3>1, <4>1
    <3>2. CASE Three(hdr, cur_heap_pos, c, "FREE") /\ node_next = ProcessAt(c)
      BY <1>1, <1>4, <3>2, JoinThree
    <3> QED
      BY <2>1, <3>1, <3>2
  <2>3. Idle(c)'
    BY <1>2, <1>3, <1>4, <2>1, <2>2 DEF Idle, TerminalBlock, c
  <2> QED
    BY <1>1, <1>2, <1>4, <2>2, <2>3 DEF KInv, Phase, c
<1>7. CASE IdleWithBark(c)
  <2>1. Four(hdr, cur_heap_pos, c, "FREE") /\ node_next = ProcessAt(c)
    BY <1>2, <1>7 DEF IdleWithBark
  <2>2. NotFree(hdr, BufferAt, node_next)
    <3>1. IsWalk({1, 6, c + 7, c + 14}, hdr, cur_heap_pos)
      BY <1>1, <2>1, WalkOfFour
    <3>2. c + 7 \in Units /\ hdr[c + 7] # Junk /\ c + 7 # 6
      BY <1>1, <3>1, BlocksAre
    <3>3. hdr[c + 7].status = "USED"
      BY <2>1 DEF Four, ProcessAt, Header
    <3> QED
      BY <2>1, <3>2, <3>3 DEF NotFree, ProcessAt, BufferAt
  <2>3. IdleWithBark(c)'
    BY <1>2, <1>3, <1>4, <1>5, <1>7, <2>2
       DEF IdleWithBark, TerminalBlock, ProcessBlock, ContextBlock, Bark, c
  <2> QED
    BY <1>1, <1>2, <1>4, <1>5, <2>2, <2>3 DEF KInv, Phase, c
<1> QED
  BY <1>1, <1>6, <1>7

LEMMA PrevStep ==
    ASSUME KInv, MergesPrev
    PROVE  KInv'
<1> DEFINE c == RoundUp(max_char_x)
<1>1. /\ Idle(c) \/ IdleWithBark(c)
      /\ Base(hdr, cur_heap_pos) /\ max_char_x \in Nat \ {0} /\ ~wild /\ c \in Nat
  BY Rounding DEF KInv, Phase, MergesPrev, Booting, Busy, BusyWithBark
<1>2. /\ command = "prev" /\ command' = "none" /\ max_char_x' = max_char_x
      /\ barks' = barks
  BY DEF MergesPrev
<1>3. node_prev = 1
  BY <1>1, <1>2 DEF Idle, IdleWithBark, Freeing
<1> HIDE DEF c
<1>4. \/ Two(hdr, cur_heap_pos, c, "FREE")
      \/ Whole(hdr, cur_heap_pos, c) \/ Four(hdr, cur_heap_pos, c, "FREE")
  BY <1>1, <1>2 DEF Idle, IdleWithBark
<1>5. hdr[1] # Junk /\ hdr[1].status = "USED" /\ 1 < cur_heap_pos
  BY <1>1, <1>4, FirstIsUsed
<1>6. 1 \in Units
  BY <1>1, <1>5, Constants DEF Base, Typed
<1>7. ~FreeIn(hdr, node_prev) /\ ~PrevIsWild
  BY <1>3, <1>5, <1>6 DEF FreeIn, PrevIsWild, IsJunk
<1>8. hdr' = hdr /\ cur_heap_pos' = cur_heap_pos /\ live' = live /\ wild' = wild
  BY <1>7 DEF MergesPrev, MergeIntoPrev
<1>9. CASE Idle(c)
  <2>1. Idle(c)'
    BY <1>2, <1>4, <1>8, <1>9 DEF Idle, TerminalBlock, c
  <2> QED
    BY <1>1, <1>2, <1>8, <2>1 DEF KInv, Phase, c
<1>10. CASE IdleWithBark(c)
  <2>1. IdleWithBark(c)'
    BY <1>2, <1>8, <1>10
       DEF IdleWithBark, TerminalBlock, ProcessBlock, ContextBlock, Bark, c
  <2> QED
    BY <1>1, <1>2, <1>8, <2>1 DEF KInv, Phase, c
<1> QED
  BY <1>1, <1>9, <1>10

\* The process dies, at any moment but in the middle of a call.
LEMMA DiesStep ==
    ASSUME KInv, ~InCall, NEW i \in 1 .. Len(barks), Dies(i)
    PROVE  KInv'
<1> DEFINE c == RoundUp(max_char_x)
           g == kfree(hdr, ContextAt(c))
           k == kfree(g, ProcessAt(c))
<1>1. Base(hdr, cur_heap_pos) /\ max_char_x \in Nat \ {0} /\ ~wild
  BY DEF KInv
<1>2. /\ c \in Nat /\ TerminalBlock.at = 1 /\ BufferBlock.at = 6
      /\ ProcessBlock(c).at = c + 7 /\ ContextBlock(c).at = c + 14
  BY <1>1, BlockSizes
<1>3. barks = <<Bark(c)>> /\ (IdleWithBark(c) \/ BusyWithBark(c))
  <2>1. barks # <<>>
    <3>1. Len(<<>>) = 0
      OBVIOUS
    <3> QED
      BY <3>1
  <2> QED
    BY <2>1 DEF KInv, Phase, Booting, Idle, Busy, IdleWithBark, BusyWithBark
<1>4. i = 1 /\ barks[i] = Bark(c)
  <2>1. Len(<<Bark(c)>>) = 1 /\ <<Bark(c)>>[1] = Bark(c)
    OBVIOUS
  <2> QED
    BY <1>3, <2>1
<1>5. barks' = <<>>
  <2>1. /\ SubSeq(<<Bark(c)>>, 1, 1 - 1) = <<>>
        /\ SubSeq(<<Bark(c)>>, 1, 1 - 1)
             \o SubSeq(<<Bark(c)>>, 1 + 1, Len(<<Bark(c)>>)) = <<>>
    <3>1. Len(<<Bark(c)>>) = 1 /\ <<>> \o <<>> = <<>>
      OBVIOUS
    <3>2. SubSeq(<<Bark(c)>>, 1, 0) = <<>> /\ SubSeq(<<Bark(c)>>, 2, 1) = <<>>
      OBVIOUS
    <3> QED
      BY <3>1, <3>2
  <2>2. \/ barks' = SubSeq(barks, 1, i - 1)
        \/ barks' = SubSeq(barks, 1, i - 1) \o SubSeq(barks, i + 1, Len(barks))
    BY DEF Dies
  <2> QED
    BY <1>3, <1>4, <2>1, <2>2
<1> HIDE DEF c
<1>6. BlockAt(ContextAt(c)) = ContextBlock(c) /\ BlockAt(ProcessAt(c)) = ProcessBlock(c)
  <2>1. /\ ContextBlock(c) \in live /\ ProcessBlock(c) \in live
        /\ live \subseteq {TerminalBlock, BufferBlock, ProcessBlock(c), ContextBlock(c)}
    BY <1>3 DEF IdleWithBark, BusyWithBark
  <2>2. /\ \A d \in live : d.at = ContextBlock(c).at => d = ContextBlock(c)
        /\ \A d \in live : d.at = ProcessBlock(c).at => d = ProcessBlock(c)
    BY <1>2, <2>1
  <2>3. /\ BlockAt(ContextBlock(c).at) = ContextBlock(c)
        /\ BlockAt(ProcessBlock(c).at) = ProcessBlock(c)
    BY <2>1, <2>2, BlockAtIs
  <2> QED
    BY <1>2, <2>3 DEF ContextAt, ProcessAt
<1>7. /\ max_char_x' = max_char_x /\ command' = command /\ buffer' = buffer
      /\ ~FreeIsWild(hdr, ContextAt(c)) /\ ~FreeIsWild(g, ProcessAt(c)) =>
            /\ hdr' = k /\ live' = live \ {ContextBlock(c), ProcessBlock(c)}
            /\ cur_heap_pos' = cur_heap_pos /\ wild' = wild
  <2>1. barks[i].p = ProcessAt(c) /\ barks[i].x = ContextAt(c)
    BY <1>4 DEF Bark
  <2> QED
    BY <1>6, <2>1 DEF Dies, FreeProcess
<1> HIDE DEF g, k
<1>8. CASE IdleWithBark(c)
  <2>1. /\ ~FreeIsWild(hdr, ContextAt(c)) /\ ~FreeIsWild(g, ProcessAt(c))
        /\ Base(k, cur_heap_pos) /\ Whole(k, cur_heap_pos, c)
    BY <1>1, <1>2, <1>8, DiesFree DEF g, k, IdleWithBark
  <2>2. live' = {TerminalBlock}
    <3>1. live = {TerminalBlock, ProcessBlock(c), ContextBlock(c)}
      BY <1>8 DEF IdleWithBark
    <3>2. TerminalBlock \notin {ContextBlock(c), ProcessBlock(c)}
      BY <1>2
    <3> QED
      BY <1>7, <2>1, <3>1, <3>2
  <2>3. Idle(c)'
    <3>1. command = "none"
      BY <1>8 DEF IdleWithBark, InCall
    <3> QED
      BY <1>5, <1>7, <2>1, <2>2, <3>1 DEF Idle, TerminalBlock, c
  <2> QED
    BY <1>1, <1>7, <2>1, <2>3 DEF KInv, Phase, c
<1>9. CASE BusyWithBark(c)
  <2>1. /\ ~FreeIsWild(hdr, ContextAt(c)) /\ ~FreeIsWild(g, ProcessAt(c))
        /\ Base(k, cur_heap_pos) /\ Three(k, cur_heap_pos, c, "USED")
    BY <1>1, <1>2, <1>9, DiesUsed DEF g, k, BusyWithBark
  <2>2. live' = {TerminalBlock, BufferBlock}
    <3>1. live = {TerminalBlock, BufferBlock, ProcessBlock(c), ContextBlock(c)}
      BY <1>9 DEF BusyWithBark
    <3>2. /\ TerminalBlock \notin {ContextBlock(c), ProcessBlock(c)}
          /\ BufferBlock \notin {ContextBlock(c), ProcessBlock(c)}
      BY <1>2
    <3> QED
      BY <1>7, <2>1, <3>1, <3>2
  <2>3. Busy(c)'
    BY <1>5, <1>7, <1>9, <2>1, <2>2 DEF Busy, BusyWithBark, TerminalBlock,
       BufferBlock, c
  <2> QED
    BY <1>1, <1>7, <2>1, <2>3 DEF KInv, Phase, c
<1> QED
  BY <1>3, <1>8, <1>9

\* As long as no process has died in the middle of a call.
RInv == ~raced => KInv

LEMMA RInvStep ==
    ASSUME RInv, MaxAlive = 1, [KNext]_kvars
    PROVE  RInv'
<1>1. raced => raced'
  BY DEF KNext, Boot, CommandBegins, WalkOn, Split, Take, TakeNewBlock, GetsBuffer,
     Woof, CommandEnds, MergesNext, MergesPrev, Dies, kvars
<1> SUFFICES ASSUME KInv, ~raced'
             PROVE  KInv'
  BY <1>1 DEF RInv
<1>2. CASE Boot
  BY <1>2, BootStep
<1>3. CASE CommandBegins
  BY <1>3, BeginStep
<1>4. CASE WalkOn
  BY <1>4, WalkStep
<1>5. CASE Split
  BY <1>5, SplitStep
<1>6. CASE Take
  BY <1>6, TakeStep
<1>7. CASE TakeNewBlock
  BY <1>7, NewStep
<1>8. CASE Woof
  BY <1>8, WoofStep
<1>9. CASE CommandEnds
  BY <1>9, EndStep
<1>10. CASE MergesNext
  BY <1>10, NextStep
<1>11. CASE MergesPrev
  BY <1>11, PrevStep
<1>12. ASSUME NEW i \in 1 .. Len(barks), Dies(i)
       PROVE  KInv'
  <2>1. ~InCall
    BY <1>12 DEF Dies
  <2> QED
    BY <1>12, <2>1, DiesStep
<1>13. CASE UNCHANGED kvars
  BY <1>13 DEF kvars, locals, vars, KInv, Phase, Booting, Idle, IdleWithBark, Busy,
     BusyWithBark, AtStart, AtBuffer, Freeing, TerminalBlock, BufferBlock,
     ProcessBlock, ContextBlock, Bark
<1> QED
  BY <1>2, <1>3, <1>4, <1>5, <1>6, <1>7, <1>8, <1>9, <1>10, <1>11, <1>12, <1>13
     DEF KNext

\* With one process at a time, the heap stays sound on a screen of any width,
\* however long the user types commands and whenever the processes die, as
\* long as the timer deletes none in the middle of the terminal's own kalloc or
\* kfree: the stale prev that kalloc gives a block it splits off (heap.c:47) is
\* replaced, or the block is merged into the buffer, before kfree reads it.
THEOREM OneProcessKeepsSound ==
    ASSUME MaxAlive = 1
    PROVE  KSpec => []HeapSound
<1>1. KInit => RInv
  BY KInvInit DEF RInv
<1>2. RInv /\ [KNext]_kvars => RInv'
  BY RInvStep
<1>3. RInv => HeapSound
  BY PhaseSound DEF RInv, HeapSound
<1> QED
  BY <1>1, <1>2, <1>3, PTL DEF KSpec

\* Nor, under the same condition, does it take more memory than the first
\* "woof" did: kfree merges all that the process and the command buffer had.
THEOREM OneProcessRecycles ==
    ASSUME MaxAlive = 1
    PROVE  KSpec => []HeapDoesNotGrow
<1>1. KInit => RInv
  BY KInvInit DEF RInv
<1>2. RInv /\ [KNext]_kvars => RInv'
  BY RInvStep
<1>3. RInv => HeapDoesNotGrow
  BY PhaseSound DEF RInv, HeapDoesNotGrow
<1> QED
  BY <1>1, <1>2, <1>3, PTL DEF KSpec
=============================================================================
