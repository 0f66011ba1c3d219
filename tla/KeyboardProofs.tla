--------------------------- MODULE KeyboardProofs ---------------------------
(***************************************************************************)
(* Proofs about Keyboard, for every size of the ring, every set of keys    *)
(* and any number of key events: its invariants, and that it implements    *)
(* the channel of KeyChannel.                                              *)
(***************************************************************************)
EXTENDS KeyboardChannel, FiniteSetTheorems, TLAPS

Bytes == {Prefix} \union [code : Keys, up : BOOLEAN]

\* The step of a ring index, without the modulus.
LEMMA NextSlotIs ==
    ASSUME NEW i \in Slots
    PROVE  /\ NextSlot(i) = IF i + 1 = N THEN 0 ELSE i + 1
           /\ NextSlot(i) \in Slots
<1>1. N \in Nat /\ N >= 2 /\ i \in 0 .. (N - 1)
    BY KeyboardAssumption DEF Slots
<1>2. (i + 1) % N = IF i + 1 = N THEN 0 ELSE i + 1
    <2>1. CASE i + 1 = N
        BY <1>1, <2>1, Z3
    <2>2. CASE i + 1 # N
        BY <1>1, <2>2, Z3
    <2>3. QED
        BY <2>1, <2>2
<1>3. QED
    BY <1>1, <1>2 DEF NextSlot, Slots

\* An age counts the slots from s up to the newest event.
LEMMA AgeTypes ==
    ASSUME key_buffer_pos \in Slots, NEW s \in Slots
    PROVE  Age(s) \in 0 .. (N - 1) /\ N \in Nat
BY KeyboardAssumption DEF Age, Slots

\* Storing an event makes every other event one older.
LEMMA AgeAfterPost ==
    ASSUME key_buffer_pos \in Slots,
           key_buffer_pos' = NextSlot(key_buffer_pos), NEW s \in Slots
    PROVE  /\ s = key_buffer_pos' => Age(s)' = 0 /\ Age(s) = N - 1
           /\ s # key_buffer_pos' => Age(s)' = Age(s) + 1 /\ Age(s) < N - 1
<1>1. /\ N \in Nat /\ N >= 2
      /\ key_buffer_pos \in 0 .. (N - 1) /\ s \in 0 .. (N - 1)
      /\ key_buffer_pos' = IF key_buffer_pos + 1 = N THEN 0
                           ELSE key_buffer_pos + 1
    BY KeyboardAssumption, NextSlotIs DEF Slots
<1>2. QED
    BY <1>1 DEF Age

\* Moving the tail by one slot moves it towards the newest event, or from the
\* newest to the oldest.
LEMMA AgeOfNext ==
    ASSUME key_buffer_pos \in Slots, NEW s \in Slots
    PROVE  Age(NextSlot(s)) = IF Age(s) = 0 THEN N - 1 ELSE Age(s) - 1
<1>1. /\ N \in Nat /\ N >= 2
      /\ key_buffer_pos \in 0 .. (N - 1) /\ s \in 0 .. (N - 1)
    BY KeyboardAssumption DEF Slots
<1>2. CASE s + 1 = N
    <2>1. NextSlot(s) = 0
        BY <1>2, NextSlotIs
    <2>2. QED
        BY <1>1, <1>2, <2>1 DEF Age
<1>3. CASE s + 1 # N
    <2>1. NextSlot(s) = s + 1
        BY <1>3, NextSlotIs
    <2>2. QED
        BY <1>1, <1>3, <2>1 DEF Age
<1>4. QED
    BY <1>2, <1>3

-----------------------------------------------------------------------------
(* The inductive invariant.                                                *)

\* The ring starts empty: every slot holds event number 0, and the tail stands
\* at the position of the handler.
LEMMA InitInv == Init => IInv
<1> SUFFICES ASSUME Init PROVE IInv
    OBVIOUS
<1>1. N \in Nat /\ N >= 2 /\ MaxPosts \in Nat
    BY KeyboardAssumption
<1>2. 0 \in Slots /\ 0 \in 0 .. MaxPosts
    BY <1>1 DEF Slots
<1>3. NoEvent \in Events
    BY DEF NoEvent, Events, Codes
<1>4. TypeOK
    BY <1>2, <1>3 DEF Init, TypeOK, PCs
<1>5. RingNumbers
    <2>1. ASSUME NEW s \in Slots
          PROVE  key_buffer[s].n = IF Age(s) <= posted
                                   THEN posted - Age(s) ELSE 0
        <3>1. Age(s) \in 0 .. (N - 1) /\ posted = 0 /\ key_buffer[s].n = 0
            BY <1>2, AgeTypes DEF Init, NoEvent
        <3>2. QED
            BY <1>1, <3>1
    <2>2. QED
        BY <2>1 DEF RingNumbers
<1>6. TailBehind /\ TailAhead
    <2>1. Age(key_buffer_tail) = 0
        BY <1>1 DEF Age, Init
    <2>2. QED
        BY <2>1 DEF Init, TailBehind, TailAhead
<1>7. QED
    BY <1>4, <1>5, <1>6 DEF IInv

\* The handler stores an event: whatever the terminal is doing, the numbers in
\* the ring stay in order and the tail stays behind or is lapped.
LEMMA PostInv ==
    ASSUME IInv, NEW code \in Codes, NEW release \in BOOLEAN,
           Post(code, release), wire' \in Seq(Bytes)
    PROVE  IInv'
<1>1. /\ N \in Nat /\ N >= 2 /\ MaxPosts \in Nat
      /\ key_buffer_pos \in Slots /\ key_buffer_tail \in Slots
      /\ posted \in 0 .. MaxPosts /\ last \in 0 .. MaxPosts
      /\ current_masks \in BOOLEAN
    BY KeyboardAssumption DEF IInv, TypeOK
<1>2. /\ posted < MaxPosts /\ posted' = posted + 1
      /\ key_buffer_pos' = NextSlot(key_buffer_pos)
      /\ key_buffer_tail' = key_buffer_tail /\ last' = last
      /\ pc' = IF pc = "hlt" THEN "check" ELSE pc
      /\ held' = held /\ event' = event
    BY DEF Post, Wake
<1>3. key_buffer_pos' \in Slots
    BY <1>1, <1>2, NextSlotIs
<1>4. PICK ev \in Events : /\ ev.n = posted + 1
                           /\ key_buffer' = [key_buffer EXCEPT
                                                ![key_buffer_pos'] = ev]
    <2> DEFINE masks == ShiftAfter(code, release, current_masks)
               ev == [code |-> code, release |-> release, shift |-> masks,
                      n |-> posted + 1]
    <2>1. masks \in BOOLEAN
        BY <1>1 DEF ShiftAfter
    <2>2. posted + 1 \in Nat
        BY <1>1
    <2>3. ev \in Events
        BY <2>1, <2>2 DEF Events
    <2>4. key_buffer' = [key_buffer EXCEPT ![key_buffer_pos'] = ev]
        BY DEF Post
    <2>5. QED
        BY <2>3, <2>4
<1>5. current_masks' \in BOOLEAN
    BY <1>1 DEF Post, ShiftAfter
<1>6. TypeOK'
    <2>1. posted' \in 0 .. MaxPosts
        BY <1>1, <1>2
    <2>2. key_buffer' \in [Slots -> Events]
        BY <1>3, <1>4 DEF IInv, TypeOK
    <2>3. pc' \in PCs
        BY <1>2 DEF IInv, TypeOK, PCs
    <2>4. QED
        BY <1>1, <1>2, <1>3, <1>5, <2>1, <2>2, <2>3 DEF IInv, TypeOK, Bytes
<1>7. RingNumbers'
    <2>1. ASSUME NEW s \in Slots
          PROVE  key_buffer'[s].n = IF Age(s)' <= posted'
                                    THEN posted' - Age(s)' ELSE 0
        <3>1. Age(s) \in 0 .. (N - 1)
            BY <1>1, AgeTypes
        <3>2. CASE s = key_buffer_pos'
            <4>1. Age(s)' = 0 /\ key_buffer'[s].n = posted + 1
                BY <1>1, <1>2, <1>3, <1>4, <3>2, AgeAfterPost DEF IInv, TypeOK
            <4>2. QED
                BY <1>1, <1>2, <4>1
        <3>3. CASE s # key_buffer_pos'
            <4>1. Age(s)' = Age(s) + 1 /\ key_buffer'[s].n = key_buffer[s].n
                BY <1>1, <1>2, <1>3, <1>4, <3>3, AgeAfterPost DEF IInv, TypeOK
            <4>2. key_buffer[s].n = IF Age(s) <= posted
                                    THEN posted - Age(s) ELSE 0
                BY DEF IInv, RingNumbers
            <4>3. QED
                BY <1>1, <1>2, <3>1, <4>1, <4>2
        <3>4. QED
            BY <3>2, <3>3
    <2>2. QED
        BY <2>1 DEF RingNumbers
<1>8. /\ Age(key_buffer_tail) \in 0 .. (N - 1)
      /\ \/ Age(key_buffer_tail)' = Age(key_buffer_tail) + 1
         \/ Age(key_buffer_tail)' = 0 /\ Age(key_buffer_tail) = N - 1
    BY <1>1, <1>2, AgeTypes, AgeAfterPost
<1>9. TailBehind'
    BY <1>1, <1>2, <1>8 DEF IInv, TailBehind
<1>10. TailAhead'
    BY <1>1, <1>2, <1>8 DEF IInv, TailAhead
<1>11. QED
    BY <1>6, <1>7, <1>9, <1>10 DEF IInv

\* The bytes of a scan code.
LEMMA WireTypes ==
    ASSUME IInv, KeyIrq \/ KeyIrqEarly \/ (\E k \in Keys : KeyMoves(k))
    PROVE  wire' \in Seq(Bytes)
<1>1. wire \in Seq(Bytes)
    BY DEF IInv, TypeOK, Bytes
<1>2. CASE KeyIrq
    <2>1. PICK skip \in {0, 1} : /\ Len(wire) > skip
                                 /\ wire' = SubSeq(wire, skip + 2, Len(wire))
        BY <1>2 DEF KeyIrq
    <2>2. QED
        BY <1>1, <2>1
<1>3. CASE KeyIrqEarly
    BY <1>1, <1>3 DEF KeyIrqEarly
<1>4. ASSUME NEW k \in Keys, KeyMoves(k) PROVE wire' \in Seq(Bytes)
    <2> DEFINE up == k \in held
    <2>1. wire' = wire \o Scancode(k, up)
        BY <1>4 DEF KeyMoves
    <2>2. Byte(k, up) \in Bytes /\ Prefix \in Bytes
        BY DEF Byte, Bytes
    <2>3. Scancode(k, up) \in Seq(Bytes)
        BY <2>2 DEF Scancode
    <2>4. QED
        BY <1>1, <2>1, <2>3
<1>5. QED
    BY <1>2, <1>3, <1>4

\* A step that leaves the ring, its numbers and next_keycode's window alone.
LEMMA OutsideInv ==
    ASSUME IInv,
           UNCHANGED <<key_buffer, key_buffer_pos, current_masks,
                       key_buffer_tail, event, posted, last>>,
           held' \subseteq Keys, wire' \in Seq(Bytes), pc' \in PCs,
           pc' = pc \/ {pc, pc'} \intersect {"advance", "fetch"} = {}
    PROVE  IInv'
<1>1. TypeOK'
    BY DEF IInv, TypeOK, Bytes
<1>2. \A s : Age(s)' = Age(s)
    BY DEF Age
<1>3. RingNumbers'
    BY <1>2 DEF IInv, RingNumbers
<1>4. Age(key_buffer_tail)' = Age(key_buffer_tail)
    BY DEF Age
<1>5. TailBehind'
    BY <1>4 DEF IInv, TailBehind
<1>6. TailAhead'
    BY <1>4 DEF IInv, TailAhead
<1>7. QED
    BY <1>1, <1>3, <1>5, <1>6 DEF IInv

\* The emptiness test of next_keycode.
LEMMA CheckInv ==
    ASSUME IInv, Check
    PROVE  IInv'
<1>1. /\ pc = "check" /\ pc' = IF RingEmpty THEN "sleepy" ELSE "advance"
      /\ UNCHANGED <<held, wire, key_buffer, key_buffer_pos, current_masks,
                     key_buffer_tail, event, posted, last>>
    BY DEF Check
<1>2. TypeOK'
    BY <1>1 DEF IInv, TypeOK, PCs
<1>3. \A s : Age(s)' = Age(s)
    BY <1>1 DEF Age
<1>4. RingNumbers'
    BY <1>1, <1>3 DEF IInv, RingNumbers
<1>5. Age(key_buffer_tail)' = Age(key_buffer_tail)
    BY <1>1 DEF Age
<1>6. pc' = "advance" => Age(key_buffer_tail) > 0
    <2>1. /\ N \in Nat /\ key_buffer_pos \in 0 .. (N - 1)
          /\ key_buffer_tail \in 0 .. (N - 1)
        BY KeyboardAssumption DEF IInv, TypeOK, Slots
    <2>2. QED
        BY <1>1, <2>1 DEF RingEmpty, Age
<1>7. TailBehind' /\ TailAhead'
    BY <1>1, <1>5, <1>6 DEF IInv, TailBehind, TailAhead
<1>8. QED
    BY <1>2, <1>4, <1>7 DEF IInv

\* next_keycode's move of the tail.
LEMMA AdvanceInv ==
    ASSUME IInv, Advance
    PROVE  IInv'
<1>1. /\ pc = "advance" /\ pc' = "fetch"
      /\ key_buffer_tail' = NextSlot(key_buffer_tail)
      /\ UNCHANGED <<held, wire, key_buffer, key_buffer_pos, current_masks,
                     event, posted, last>>
    BY DEF Advance
<1>2. /\ N \in Nat /\ N >= 2 /\ MaxPosts \in Nat
      /\ key_buffer_pos \in Slots /\ key_buffer_tail \in Slots
      /\ posted \in 0 .. MaxPosts /\ last \in 0 .. MaxPosts
    BY KeyboardAssumption DEF IInv, TypeOK
<1>3. TypeOK'
    BY <1>1, <1>2, NextSlotIs DEF IInv, TypeOK, PCs
<1>4. \A s : Age(s)' = Age(s)
    BY <1>1 DEF Age
<1>5. RingNumbers'
    BY <1>1, <1>4 DEF IInv, RingNumbers
<1>6. Age(key_buffer_tail)' = IF Age(key_buffer_tail) = 0 THEN N - 1
                              ELSE Age(key_buffer_tail) - 1
    <2>1. Age(key_buffer_tail)' = Age(NextSlot(key_buffer_tail))
        BY <1>1 DEF Age
    <2>2. QED
        BY <1>2, <2>1, AgeOfNext
<1>7. Age(key_buffer_tail) \in 0 .. (N - 1)
    BY <1>2, AgeTypes
<1>8. TailBehind' /\ TailAhead'
    BY <1>1, <1>2, <1>6, <1>7 DEF IInv, TailBehind, TailAhead
<1>9. QED
    BY <1>3, <1>5, <1>8 DEF IInv

\* The event next_keycode copies is a later one than the last it returned,
\* and the next one if the handler has not lapped the terminal.
LEMMA FetchGets ==
    ASSUME IInv, Fetch
    PROVE  /\ last' = posted - Age(key_buffer_tail) /\ last' > last
           /\ last' = last + 1 \/ posted - last >= N
<1>1. pc = "fetch" /\ last' = key_buffer[key_buffer_tail].n
    BY DEF Fetch
<1>2. /\ N \in Nat /\ MaxPosts \in Nat
      /\ key_buffer_pos \in Slots /\ key_buffer_tail \in Slots
      /\ posted \in 0 .. MaxPosts /\ last \in 0 .. MaxPosts
    BY KeyboardAssumption DEF IInv, TypeOK
<1>3. Age(key_buffer_tail) \in 0 .. (N - 1)
    BY <1>2, AgeTypes
<1>4. last' = IF Age(key_buffer_tail) <= posted
              THEN posted - Age(key_buffer_tail) ELSE 0
    BY <1>1, <1>2 DEF IInv, RingNumbers
<1>5. QED
    BY <1>1, <1>2, <1>3, <1>4 DEF IInv, TailAhead

\* Line 446 closes the window: the tail stands at the event just fetched.
LEMMA FetchInv ==
    ASSUME IInv, Fetch
    PROVE  IInv'
<1>1. /\ pc = "fetch" /\ pc' = "use"
      /\ event' = key_buffer[key_buffer_tail]
      /\ UNCHANGED <<held, wire, key_buffer, key_buffer_pos, current_masks,
                     key_buffer_tail, posted>>
    BY DEF Fetch
<1>2. /\ N \in Nat /\ MaxPosts \in Nat
      /\ key_buffer_pos \in Slots /\ key_buffer_tail \in Slots
      /\ posted \in 0 .. MaxPosts /\ last \in 0 .. MaxPosts
    BY KeyboardAssumption DEF IInv, TypeOK
<1>3. Age(key_buffer_tail) \in 0 .. (N - 1)
    BY <1>2, AgeTypes
<1>4. last' = posted - Age(key_buffer_tail) /\ last' > last
    BY FetchGets
<1>5. TypeOK'
    <2>1. last' \in 0 .. MaxPosts
        BY <1>2, <1>3, <1>4
    <2>2. QED
        BY <1>1, <1>2, <2>1 DEF IInv, TypeOK, PCs
<1>6. \A s : Age(s)' = Age(s)
    BY <1>1 DEF Age
<1>7. RingNumbers'
    BY <1>1, <1>6 DEF IInv, RingNumbers
<1>8. Age(key_buffer_tail)' = Age(key_buffer_tail)
    BY <1>1 DEF Age
<1>9. TailBehind' /\ TailAhead'
    BY <1>1, <1>2, <1>3, <1>4, <1>8 DEF TailBehind, TailAhead
<1>10. QED
    BY <1>5, <1>7, <1>9 DEF IInv

\* Every step of the specification preserves the inductive invariant.
LEMMA StepInv == IInv /\ [Next]_vars => IInv'
<1> SUFFICES ASSUME IInv, [Next]_vars PROVE IInv'
    OBVIOUS
<1>1. held \subseteq Keys /\ wire \in Seq(Bytes) /\ pc \in PCs
    BY DEF IInv, TypeOK, Bytes
<1>2. CASE UNCHANGED vars
    BY <1>1, <1>2, OutsideInv DEF vars
<1>3. ASSUME NEW k \in Keys, KeyMoves(k) PROVE IInv'
    <2>1. held' \subseteq Keys
        BY <1>1, <1>3 DEF KeyMoves
    <2>2. wire' \in Seq(Bytes)
        BY <1>3, WireTypes
    <2>3. UNCHANGED <<key_buffer, key_buffer_pos, current_masks,
                      key_buffer_tail, pc, event, posted, last>>
        BY <1>3 DEF KeyMoves
    <2>4. QED
        BY <1>1, <2>1, <2>2, <2>3, OutsideInv
<1>4. CASE KeyIrq
    <2>1. PICK skip \in {0, 1} :
             /\ Len(wire) > skip
             /\ wire[skip + 1] # Prefix
             /\ Post(key_lookup(wire[skip + 1].code), wire[skip + 1].up)
        BY <1>4 DEF KeyIrq
    <2>2. wire[skip + 1] \in Bytes
        BY <1>1, <2>1
    <2>3. wire[skip + 1].up \in BOOLEAN
        BY <2>1, <2>2 DEF Bytes
    <2>4. key_lookup(wire[skip + 1].code) \in Codes
        BY DEF key_lookup, Codes
    <2>5. wire' \in Seq(Bytes)
        BY <1>4, WireTypes
    <2>6. QED
        BY <2>1, <2>3, <2>4, <2>5, PostInv
<1>5. CASE KeyIrqEarly
    <2>1. PICK code \in Codes, release \in BOOLEAN : Post(code, release)
        BY <1>5 DEF KeyIrqEarly
    <2>2. wire' \in Seq(Bytes)
        BY <1>5, WireTypes
    <2>3. QED
        BY <2>1, <2>2, PostInv
<1>6. CASE Check
    BY <1>6, CheckInv
<1>7. CASE Advance
    BY <1>7, AdvanceInv
<1>8. CASE Fetch
    BY <1>8, FetchInv
<1>9. CASE Use \/ Halt \/ TimerWake
    <2>1. /\ pc \in {"use", "sleepy", "hlt"} /\ pc' \in {"sleepy", "check", "hlt"}
          /\ UNCHANGED <<held, wire, key_buffer, key_buffer_pos, current_masks,
                         key_buffer_tail, event, posted, last>>
        BY <1>9 DEF Use, Halt, TimerWake
    <2>2. pc' \in PCs /\ {pc, pc'} \intersect {"advance", "fetch"} = {}
        BY <2>1 DEF PCs
    <2>3. QED
        BY <1>1, <2>1, <2>2, OutsideInv
<1>10. QED
    BY <1>2, <1>3, <1>4, <1>5, <1>6, <1>7, <1>8, <1>9 DEF Next, Terminal

-----------------------------------------------------------------------------
(* The theorems.                                                           *)

\* IInv holds in every reachable state.
THEOREM Invariance == Spec => []IInv
<1>1. Init => IInv
    BY InitInv
<1>2. IInv /\ [Next]_vars => IInv'
    BY StepInv
<1>3. QED
    BY <1>1, <1>2, PTL DEF Spec

\* Both ring indices stay inside key_buffer, and events keep their types.
THEOREM TypeCorrect == Spec => []TypeOK
<1>1. IInv => TypeOK
    BY DEF IInv
<1>2. QED
    BY <1>1, Invariance, PTL

\* next_keycode returns events in the order handle_keychange stored them and
\* none twice, for every interleaving of the two and every ring size.
THEOREM FetchesInOrder == Spec => InOrder
<1>1. IInv => (Fetch => last' > last)
    BY FetchGets
<1>2. QED
    BY <1>1, Invariance, PTL DEF InOrder

\* No event is skipped while the terminal is fewer than N events behind.
THEOREM NoneLost == Spec => NoLossBelowCapacity
<1>1. IInv => (Fetch => last' = last + 1 \/ posted - last >= N)
    BY FetchGets
<1>2. QED
    BY <1>1, Invariance, PTL DEF NoLossBelowCapacity

-----------------------------------------------------------------------------
(* The key ring implements the channel.                                    *)

\* A set of events that are numbered without gap or repetition from a to b.
Numbered(W, a, b) ==
    /\ \A e \in W : e.n \in a .. b
    /\ \A e, f \in W : e.n = f.n => e = f
    /\ \A m \in a .. b : \E e \in W : e.n = m

\* Such a set has as many elements as there are numbers.
LEMMA CountNumbered ==
    ASSUME NEW W, NEW a \in Int, NEW b \in Int, Numbered(W, a, b)
    PROVE  /\ IsFiniteSet(W)
           /\ Cardinality(W) = IF a > b THEN 0 ELSE b - a + 1
<1> DEFINE g == [m \in a .. b |-> CHOOSE e \in W : e.n = m]
<1>1. \A m \in a .. b : g[m] \in W /\ g[m].n = m
    BY DEF Numbered
<1>2. g \in [a .. b -> W]
    BY <1>1
<1>3. \A l, m \in a .. b : g[l] = g[m] => l = m
    BY <1>1
<1>4. \A e \in W : \E m \in a .. b : g[m] = e
    <2> SUFFICES ASSUME NEW e \in W PROVE \E m \in a .. b : g[m] = e
        OBVIOUS
    <2>1. e.n \in a .. b
        BY DEF Numbered
    <2>2. g[e.n] \in W /\ g[e.n].n = e.n
        BY <1>1, <2>1
    <2>3. g[e.n] = e
        BY <2>2 DEF Numbered
    <2>4. QED
        BY <2>1, <2>3
<1>5. g \in Bijection(a .. b, W)
    <2> HIDE DEF g
    <2>1. g \in Surjection(a .. b, W)
        BY <1>2, <1>4 DEF Surjection
    <2>2. g \in Injection(a .. b, W)
        BY <1>2, <1>3 DEF Injection, IsInjective
    <2>3. QED
        BY <2>1, <2>2 DEF Bijection
<1>6. ExistsBijection(a .. b, W)
    BY <1>5 DEF ExistsBijection
<1>7. IsFiniteSet(a .. b) /\ Cardinality(a .. b) = IF a > b THEN 0 ELSE b - a + 1
    BY FS_Interval
<1>8. QED
    BY <1>6, <1>7, FS_Bijection

-----------------------------------------------------------------------------
(* What the ring holds.                                                    *)

\* The smallest number that can still be waiting.
First == IF posted - last >= N THEN posted - N + 1 ELSE last + 1

\* The slot of the event that is a events old.
SlotOf(a) == IF a <= key_buffer_pos THEN key_buffer_pos - a
             ELSE key_buffer_pos - a + N

\* Every age is the age of one slot.
LEMMA SlotOfAge ==
    ASSUME key_buffer_pos \in Slots
    PROVE  /\ \A a \in 0 .. (N - 1) : SlotOf(a) \in Slots /\ Age(SlotOf(a)) = a
           /\ \A s \in Slots : SlotOf(Age(s)) = s
BY KeyboardAssumption DEF Slots, SlotOf, Age

\* The waiting events are the newest ones after the last that was fetched, as
\* many of them as there are slots.
LEMMA WaitingNumbered ==
    ASSUME IInv
    PROVE  Numbered(Waiting, First, posted)
<1>1. /\ N \in Nat /\ N >= 2
      /\ key_buffer_pos \in Slots
      /\ posted \in Nat /\ last \in Nat
    BY KeyboardAssumption DEF IInv, TypeOK
<1>2. \A s \in Slots : /\ Age(s) \in 0 .. (N - 1)
                       /\ key_buffer[s].n = IF Age(s) <= posted
                                            THEN posted - Age(s) ELSE 0
    BY <1>1, AgeTypes DEF IInv, RingNumbers
<1>3. ASSUME NEW s \in Slots, key_buffer[s].n > last
      PROVE  /\ key_buffer[s].n \in First .. posted
             /\ s = SlotOf(posted - key_buffer[s].n)
    <2>1. key_buffer[s].n = posted - Age(s) /\ Age(s) \in 0 .. (N - 1)
        BY <1>1, <1>2, <1>3
    <2>2. posted - key_buffer[s].n = Age(s)
        BY <1>1, <2>1
    <2>3. QED
        BY <1>1, <1>3, <2>1, <2>2, SlotOfAge DEF First
<1>4. \A e \in Waiting : e.n \in First .. posted
    BY <1>3 DEF Waiting
<1>5. \A e, f \in Waiting : e.n = f.n => e = f
    BY <1>3 DEF Waiting
<1>6. ASSUME NEW m \in First .. posted
      PROVE  \E e \in Waiting : e.n = m
    <2> DEFINE a == posted - m
    <2>1. a \in 0 .. (N - 1) /\ a <= posted /\ posted - a = m /\ m > last
        BY <1>1 DEF First
    <2>2. SlotOf(a) \in Slots /\ Age(SlotOf(a)) = a
        BY <1>1, <2>1, SlotOfAge
    <2>3. key_buffer[SlotOf(a)].n = m
        BY <1>2, <2>1, <2>2
    <2>4. QED
        BY <2>1, <2>2, <2>3 DEF Waiting
<1>7. QED
    BY <1>4, <1>5, <1>6 DEF Numbered

-----------------------------------------------------------------------------
(* The steps.                                                              *)

\* The empty ring is the empty channel.
LEMMA InitChannel == Init => Channel!Init
<1> SUFFICES ASSUME Init PROVE Channel!Init
    OBVIOUS
<1>1. \A s \in Slots : key_buffer[s].n = 0 /\ last = 0
    BY DEF Init, NoEvent
<1>2. Waiting = {}
    BY <1>1 DEF Waiting
<1>3. QED
    BY <1>2 DEF Init, Channel!Init

\* A step that touches neither the ring nor the history is none of the
\* channel's.
LEMMA OtherStutters ==
    ASSUME UNCHANGED <<key_buffer, event, posted, last>>
    PROVE  UNCHANGED Channel!vars
BY DEF Waiting, Channel!vars

Newer(W, e) == {f \in W : f.n > e.n}

\* Among numbered events those newer than e are counted by e's number.
LEMMA CountNewer ==
    ASSUME NEW W, NEW a \in Int, NEW b \in Int, NEW e \in W, Numbered(W, a, b)
    PROVE  Cardinality(Newer(W, e)) = b - e.n
<1>1. e.n \in a .. b
    BY DEF Numbered
<1>2. Numbered(Newer(W, e), e.n + 1, b)
    BY <1>1 DEF Numbered, Newer
<1>3. Cardinality(Newer(W, e)) = IF e.n + 1 > b THEN 0 ELSE b - (e.n + 1) + 1
    BY <1>1, <1>2, CountNumbered
<1>4. QED
    BY <1>1, <1>3

\* The channel's own Cardinality is the one of FiniteSets.
LEMMA ChannelCardinality == \A S : Channel!Cardinality(S) = Cardinality(S)
BY Zenon DEF Channel!Cardinality, Cardinality

\* The handler stores an event: the channel sends it, and when the slot it
\* takes still held a waiting event, that was the oldest of a full channel.
LEMMA PostSends ==
    ASSUME IInv, IInv', NEW code \in Codes, NEW release \in BOOLEAN,
           Post(code, release)
    PROVE  Channel!Next
<1> DEFINE pos == key_buffer_pos'
           masks == ShiftAfter(code, release, current_masks)
           ev == [code |-> code, release |-> release, shift |-> masks,
                  n |-> posted + 1]
           All == Waiting \union {ev}
<1>1. /\ N \in Nat /\ N >= 2
      /\ posted \in Nat /\ last \in Nat
      /\ key_buffer_pos \in Slots /\ pos \in Slots
      /\ key_buffer \in [Slots -> Events]
      /\ current_masks \in BOOLEAN
      /\ last <= posted
    <2>1. last <= posted
        <3>1. /\ posted \in Nat /\ last \in Nat /\ key_buffer_tail \in Slots
              /\ key_buffer_pos \in Slots
            BY DEF IInv, TypeOK
        <3>2. Age(key_buffer_tail) \in 0 .. (N - 1) /\ N \in Nat
            BY <3>1, AgeTypes
        <3>3. QED
            BY <3>1, <3>2 DEF IInv, TailBehind, TailAhead
    <2>2. QED
        BY <2>1, KeyboardAssumption DEF IInv, TypeOK
<1>2. /\ posted' = posted + 1 /\ event' = event /\ last' = last
      /\ pos = NextSlot(key_buffer_pos)
      /\ key_buffer' = [key_buffer EXCEPT ![pos] = ev]
    BY DEF Post
<1>3. masks \in BOOLEAN
    BY <1>1 DEF ShiftAfter
<1>4. ev.n = posted + 1
    OBVIOUS
<1> HIDE DEF ev, masks
<1>5. Age(pos) = N - 1
    BY <1>1, <1>2, AgeAfterPost
<1>6. key_buffer[pos].n = IF N - 1 <= posted THEN posted - (N - 1) ELSE 0
    BY <1>1, <1>5 DEF IInv, RingNumbers
<1>7. Numbered(Waiting, First, posted)
    BY WaitingNumbered
<1>8. /\ First \in Int /\ First > last /\ First <= posted + 1
      /\ posted - First < N
    BY <1>1 DEF First
<1>9. Numbered(All, First, posted + 1)
    BY <1>1, <1>4, <1>7, <1>8 DEF Numbered
<1>10. ASSUME NEW W, Numbered(W, First, posted + 1), NEW e \in W
       PROVE  Cardinality(Newer(W, e)) = (posted + 1) - e.n
    <2> DEFINE b == posted + 1
    <2>1. b \in Int /\ First \in Int
        BY <1>1, <1>8
    <2>2. Numbered(W, First, b)
        BY <1>10
    <2> HIDE DEF b
    <2>3. Cardinality(Newer(W, e)) = b - e.n
        BY <1>10, <2>1, <2>2, CountNewer
    <2>4. QED
        BY <2>3 DEF b
<1>11. ASSUME NEW W, Numbered(W, First, posted + 1)
       PROVE  Channel!Newest(W, N) = {e \in W : (posted + 1) - e.n < N}
    <2>1. Channel!Newest(W, N) = {e \in W : Cardinality(Newer(W, e)) < N}
        BY ChannelCardinality DEF Channel!Newest, Newer
    <2>2. QED
        BY <1>10, <1>11, <2>1
<1>12. Waiting' = {e \in All : (posted + 1) - e.n < N}
    <2>1. ASSUME NEW e \in Waiting'
          PROVE  e \in All /\ (posted + 1) - e.n < N
        <3>1. PICK s \in Slots : e = key_buffer'[s] /\ key_buffer'[s].n > last
            BY <1>2 DEF Waiting
        <3>2. CASE s = pos
            BY <1>1, <1>2, <1>4, <3>1, <3>2
        <3>3. CASE s # pos
            <4>1. e = key_buffer[s] /\ e.n > last
                BY <1>1, <1>2, <3>1, <3>3
            <4>2. e \in Waiting
                BY <4>1 DEF Waiting
            <4>3. Age(s) < N - 1 /\ Age(s) \in 0 .. (N - 1)
                BY <1>1, <1>2, <3>3, AgeAfterPost, AgeTypes
            <4>4. e.n = IF Age(s) <= posted THEN posted - Age(s) ELSE 0
                BY <4>1 DEF IInv, RingNumbers
            <4>5. QED
                BY <1>1, <4>1, <4>2, <4>3, <4>4
        <3>4. QED
            BY <3>2, <3>3
    <2>2. ASSUME NEW e \in All, (posted + 1) - e.n < N
          PROVE  e \in Waiting'
        <3>1. CASE e = ev
            <4>1. key_buffer'[pos] = ev
                BY <1>1, <1>2
            <4>2. key_buffer'[pos].n > last'
                BY <1>1, <1>2, <1>4, <4>1
            <4>3. QED
                BY <1>1, <3>1, <4>1, <4>2 DEF Waiting
        <3>2. CASE e \in Waiting
            <4>1. PICK s \in Slots : e = key_buffer[s] /\ key_buffer[s].n > last
                BY <3>2 DEF Waiting
            <4>2. s # pos
                BY <1>1, <1>6, <2>2, <4>1
            <4>3. key_buffer'[s] = e /\ key_buffer'[s].n > last'
                BY <1>1, <1>2, <4>1, <4>2
            <4>4. QED
                BY <4>3 DEF Waiting
        <3>3. QED
            BY <3>1, <3>2
    <2>3. QED
        BY <2>1, <2>2
<1>13. Channel!Send(code, release, masks)
    BY <1>2, <1>9, <1>11, <1>12 DEF Channel!Send, ev
<1>14. QED
    BY <1>3, <1>13 DEF Channel!Next

\* next_keycode copies a slot: the channel hands out that event, the oldest
\* unless all N slots are waiting.
LEMMA FetchReceives ==
    ASSUME IInv, Fetch
    PROVE  Channel!Next
<1> DEFINE e == key_buffer[key_buffer_tail]
<1>1. /\ N \in Nat /\ N >= 2
      /\ posted \in Nat /\ last \in Nat
      /\ key_buffer_pos \in Slots /\ key_buffer_tail \in Slots
    BY KeyboardAssumption DEF IInv, TypeOK
<1>2. /\ event' = e /\ last' = e.n
      /\ key_buffer' = key_buffer /\ posted' = posted
    BY DEF Fetch
<1>3. /\ last' = posted - Age(key_buffer_tail) /\ last' > last
      /\ last' = last + 1 \/ posted - last >= N
    BY FetchGets
<1>4. Age(key_buffer_tail) \in 0 .. (N - 1)
    BY <1>1, AgeTypes
<1>5. e \in Waiting
    BY <1>1, <1>2, <1>3 DEF Waiting
<1>6. Numbered(Waiting, First, posted)
    BY WaitingNumbered
<1>7. Cardinality(Waiting) < N => e = Channel!Oldest(Waiting)
    <2> SUFFICES ASSUME Cardinality(Waiting) < N
                 PROVE  e = Channel!Oldest(Waiting)
        OBVIOUS
    <2>1. First \in Int /\ posted \in Int
        BY <1>1 DEF First
    <2>2. Cardinality(Waiting) = IF First > posted THEN 0 ELSE posted - First + 1
        BY <1>6, <2>1, CountNumbered
    <2>3. posted - last < N
        BY <1>1, <2>2 DEF First
    <2>4. First = last + 1 /\ e.n = last + 1
        BY <1>1, <1>2, <1>3, <2>3 DEF First
    <2>5. \A f \in Waiting : e.n <= f.n
        BY <1>1, <1>6, <2>4 DEF Numbered
    <2>6. \A x \in Waiting : (\A f \in Waiting : x.n <= f.n) => x = e
        <3> SUFFICES ASSUME NEW x \in Waiting, \A f \in Waiting : x.n <= f.n
                     PROVE  x = e
            OBVIOUS
        <3>1. x.n \in Int /\ e.n \in Int /\ x.n <= e.n /\ e.n <= x.n
            BY <1>5, <1>6, <2>1, <2>5 DEF Numbered
        <3>2. x.n = e.n
            BY <3>1
        <3>3. QED
            BY <1>5, <1>6, <3>2 DEF Numbered
    <2>7. QED
        BY <1>5, <2>5, <2>6 DEF Channel!Oldest
<1>8. Waiting' = {f \in Waiting : f.n > e.n}
    <2>1. \A f \in Waiting : f.n \in Int
        BY <1>1, <1>6 DEF Numbered, First
    <2>2. \A s \in Slots : key_buffer[s].n \in Int
        BY DEF IInv, TypeOK, Events
    <2>3. e.n > last /\ e.n \in Int
        BY <1>1, <1>2, <1>3, <2>2
    <2> HIDE DEF e
    <2>4. Waiting' = {key_buffer[s] : s \in {t \in Slots : key_buffer[t].n > e.n}}
        BY <1>2 DEF Waiting
    <2>5. \A s \in Slots : key_buffer[s].n > e.n => key_buffer[s].n > last
        BY <1>1, <2>2, <2>3
    <2>6. QED
        BY <2>4, <2>5 DEF Waiting
<1>9. Channel!Receive(e)
    BY <1>2, <1>7, <1>8, ChannelCardinality DEF Channel!Receive
<1>10. QED
    BY <1>5, <1>9 DEF Channel!Next

\* Every step of the ring is a step of the channel or none.
LEMMA StepChannel ==
    ASSUME IInv, IInv', [Next]_vars
    PROVE  [Channel!Next]_(Channel!vars)
<1>1. CASE UNCHANGED vars
    BY <1>1, OtherStutters DEF vars
<1>2. CASE KeyIrq
    <2>1. PICK skip \in {0, 1} :
             /\ Len(wire) > skip
             /\ wire[skip + 1] # Prefix
             /\ Post(key_lookup(wire[skip + 1].code), wire[skip + 1].up)
        BY <1>2 DEF KeyIrq
    <2>2. wire[skip + 1] \in Bytes
        BY <2>1 DEF IInv, TypeOK, Bytes
    <2>3. wire[skip + 1].up \in BOOLEAN
        BY <2>1, <2>2 DEF Bytes
    <2>4. key_lookup(wire[skip + 1].code) \in Codes
        BY DEF key_lookup, Codes
    <2>5. QED
        BY <2>1, <2>3, <2>4, PostSends
<1>3. CASE KeyIrqEarly
    BY <1>3, PostSends DEF KeyIrqEarly
<1>4. CASE Fetch
    BY <1>4, FetchReceives
<1>5. CASE \/ \E k \in Keys : KeyMoves(k)
           \/ Check \/ Advance \/ Use \/ Halt \/ TimerWake
    BY <1>5, OtherStutters DEF KeyMoves, Check, Advance, Use, Halt, TimerWake
<1>6. QED
    BY <1>1, <1>2, <1>3, <1>4, <1>5 DEF Next, Terminal

-----------------------------------------------------------------------------
(* The theorem.                                                            *)

\* handle_keychange and next_keycode together are a channel that keeps order
\* and content and loses events only when all N slots hold unread ones: for
\* every ring size and every interleaving.
THEOREM RingIsChannel == Spec => ImplementsChannel
<1>1. Init => Channel!Init
    BY InitChannel
<1>2. IInv /\ IInv' /\ [Next]_vars => [Channel!Next]_(Channel!vars)
    BY StepChannel
<1>3. QED
    BY <1>1, <1>2, Invariance, PTL DEF Spec, ImplementsChannel, Channel!Spec
=============================================================================
