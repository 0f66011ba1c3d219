------------------------------ MODULE Keyboard ------------------------------
(***************************************************************************)
(* The path of a key from the PS/2 port to the terminal: the interrupt     *)
(* handler handle_keychange (kernel/drivers/keyboard.c), the key_buffer    *)
(* ring it shares with next_keycode, and the terminal's main loop          *)
(* (kernel/programs/terminal.c).                                           *)
(*                                                                         *)
(* The handler runs with interrupts off; next_keycode runs with them on,   *)
(* so its three accesses to the ring (the emptiness test, the move of the  *)
(* tail, the copy of the slot) are three steps here and the handler may    *)
(* come between any two of them.                                           *)
(*                                                                         *)
(* The n field of an event and the variables posted and last are history:  *)
(* they number the events in the order in which the handler stored them.   *)
(***************************************************************************)
EXTENDS Integers, Sequences

CONSTANTS N,         \* MAX_KEY_BUFFER_SIZE
          MaxPosts,  \* bound: the handler stores this many events
          MaxWire,   \* bound: bytes waiting at the port
          Shifts,    \* keys whose table entry is KEY_SHIFT
          Letters,   \* keys with a table entry of their own
          Extended   \* keys whose scan code has the 0xE0 prefix

Keys == Shifts \union Letters \union Extended

ASSUME KeyboardAssumption ==
    /\ N \in Nat /\ N >= 2
    /\ MaxPosts \in Nat
    /\ MaxWire \in Nat

VARIABLES
    held,               \* the keys that are physically down
    wire,               \* bytes the port has yet to hand out
    key_buffer, key_buffer_pos, current_masks,
    key_buffer_tail,
    pc,                 \* where the terminal's loop is
    event,              \* the event next_keycode returned
    posted,             \* history: number of the newest event
    last                \* history: number of the newest event fetched

vars == <<held, wire, key_buffer, key_buffer_pos, current_masks,
          key_buffer_tail, pc, event, posted, last>>

Slots == 0 .. (N - 1)

\* What the port delivers: the prefix byte, or a key going up or down.
Prefix == [code |-> "E0", up |-> FALSE]
Byte(k, up) == [code |-> k, up |-> up]

\* key_lookup: both shift keys are KEY_SHIFT; keys of the extended set share
\* the table entries of other keys, or have none (KEY_NULL).
key_lookup(k) == IF k \in Shifts THEN "KEY_SHIFT"
                 ELSE IF k \in Letters THEN k ELSE "KEY_NULL"

Codes == {"KEY_SHIFT", "KEY_NULL"} \union Letters

Events == [code : Codes, release : BOOLEAN, shift : BOOLEAN, n : Nat]

NoEvent == [code |-> "KEY_NULL", release |-> FALSE, shift |-> FALSE, n |-> 0]

PCs == {"check", "advance", "fetch", "use", "sleepy", "hlt"}

Init ==
    /\ held = {}
    /\ wire = <<>>
    /\ key_buffer = [s \in Slots |-> NoEvent]
    /\ key_buffer_pos = 0
    /\ current_masks = FALSE
    /\ key_buffer_tail = 0
    /\ pc = "check"
    /\ event = NoEvent
    /\ posted = 0
    /\ last = 0

-----------------------------------------------------------------------------
(* The keyboard and its controller (hardware).                             *)

Scancode(k, up) == IF k \in Extended THEN <<Prefix, Byte(k, up)>>
                   ELSE <<Byte(k, up)>>

KeyMoves(k) ==
    /\ Len(wire) < MaxWire
    /\ held' = IF k \in held THEN held \ {k} ELSE held \union {k}
    /\ wire' = wire \o Scancode(k, k \in held)
    /\ UNCHANGED <<key_buffer, key_buffer_pos, current_masks, key_buffer_tail,
                   pc, event, posted, last>>

-----------------------------------------------------------------------------
(* Vector 0x32: handle_keychange.                                          *)

(* The definitions named Bug... are faulty variants: each stands for a slip *)
(* in the code that one of the properties below must notice.                *)

\* Lines 96-101: the shift state kept between events.
ShiftAfter(code, release, masks) ==
    IF code = "KEY_SHIFT" THEN ~release ELSE masks

BugOnePastTheEnd(i) == i + 1

\* The step of both ring indices.
NextSlot(i) == (i + 1) % N

\* Any interrupt ends a hlt.
Wake == IF pc = "hlt" THEN "check" ELSE pc

\* Lines 88-103: the new event takes the next slot, whatever is in it.
Post(code, release) ==
    LET pos == NextSlot(key_buffer_pos)
        masks == ShiftAfter(code, release, current_masks)
    IN  /\ posted < MaxPosts
        /\ key_buffer_pos' = pos
        /\ current_masks' = masks
        /\ posted' = posted + 1
        /\ key_buffer' = [key_buffer EXCEPT ![pos] =
               [code |-> code, release |-> release, shift |-> masks,
                n |-> posted + 1]]
        /\ pc' = Wake
        /\ UNCHANGED <<held, key_buffer_tail, event, last>>

\* The first byte is no prefix, or the byte behind the prefix is there.
KeyIrq ==
    \E skip \in {0, 1} :
        /\ Len(wire) > skip
        /\ skip = 1 => wire[1] = Prefix
        /\ wire[skip + 1] # Prefix
        /\ Post(key_lookup(wire[skip + 1].code), wire[skip + 1].up)
        /\ wire' = SubSeq(wire, skip + 2, Len(wire))

\* The byte behind the prefix has not arrived: the port repeats the prefix,
\* four reads see only prefixes, and key_codes[4], which nothing ever wrote,
\* is taken for the code.
KeyIrqEarly ==
    /\ wire # <<>>
    /\ wire[1] = Prefix
    /\ wire' = Tail(wire)
    /\ \E code \in Codes, release \in BOOLEAN : Post(code, release)

-----------------------------------------------------------------------------
(* The terminal process.                                                   *)

BugNeverEmpty == FALSE

\* The test of line 439, which a full turn of the handler also passes.
RingEmpty == key_buffer_tail = key_buffer_pos

\* next_keycode, lines 439-442, and the KEY_NULL branch of terminal_loop: the
\* hlt itself is a later step.
Check ==
    /\ pc = "check"
    /\ pc' = IF RingEmpty THEN "sleepy" ELSE "advance"
    /\ UNCHANGED <<held, wire, key_buffer, key_buffer_pos, current_masks,
                   key_buffer_tail, event, posted, last>>

BugTakesTheNewest ==
    /\ pc = "advance"
    /\ key_buffer_tail' = key_buffer_pos
    /\ pc' = "fetch"
    /\ UNCHANGED <<held, wire, key_buffer, key_buffer_pos, current_masks,
                   event, posted, last>>

\* Line 445.
Advance ==
    /\ pc = "advance"
    /\ key_buffer_tail' = NextSlot(key_buffer_tail)
    /\ pc' = "fetch"
    /\ UNCHANGED <<held, wire, key_buffer, key_buffer_pos, current_masks,
                   event, posted, last>>

BugFetchesTheHead ==
    /\ pc = "fetch"
    /\ event' = key_buffer[key_buffer_pos]
    /\ last' = key_buffer[key_buffer_tail].n
    /\ pc' = "use"
    /\ UNCHANGED <<held, wire, key_buffer, key_buffer_pos, current_masks,
                   key_buffer_tail, posted>>

\* Line 446.
Fetch ==
    /\ pc = "fetch"
    /\ event' = key_buffer[key_buffer_tail]
    /\ last' = key_buffer[key_buffer_tail].n
    /\ pc' = "use"
    /\ UNCHANGED <<held, wire, key_buffer, key_buffer_pos, current_masks,
                   key_buffer_tail, posted>>

\* terminal_loop, lines 457-478: an event whose code is KEY_NULL is taken for
\* an empty ring.
Use ==
    /\ pc = "use"
    /\ pc' = IF event.code = "KEY_NULL" THEN "sleepy" ELSE "check"
    /\ UNCHANGED <<held, wire, key_buffer, key_buffer_pos, current_masks,
                   key_buffer_tail, event, posted, last>>

Halt ==
    /\ pc = "sleepy"
    /\ pc' = "hlt"
    /\ UNCHANGED <<held, wire, key_buffer, key_buffer_pos, current_masks,
                   key_buffer_tail, event, posted, last>>

BugNoTimer == FALSE /\ UNCHANGED vars

\* Vector 0x30 comes periodically, and the scheduler comes back to the
\* terminal (TerminalKeepsRunning of Scheduler).
TimerWake ==
    /\ pc = "hlt"
    /\ pc' = "check"
    /\ UNCHANGED <<held, wire, key_buffer, key_buffer_pos, current_masks,
                   key_buffer_tail, event, posted, last>>

Terminal == Check \/ Advance \/ Fetch \/ Use \/ Halt

Next == \/ \E k \in Keys : KeyMoves(k)
        \/ KeyIrq
        \/ KeyIrqEarly
        \/ Terminal
        \/ TimerWake

Spec == Init /\ [][Next]_vars

(* The terminal keeps executing, and the timer keeps ticking.              *)
FairSpec == Spec /\ WF_vars(Terminal) /\ WF_vars(TimerWake)

-----------------------------------------------------------------------------
(* Properties.                                                             *)

\* Types of the ring, its two indices and the terminal's state: the indices
\* stay inside key_buffer.
TypeOK ==
    /\ held \subseteq Keys
    /\ wire \in Seq({Prefix} \union [code : Keys, up : BOOLEAN])
    /\ key_buffer \in [Slots -> Events]
    /\ key_buffer_pos \in Slots
    /\ current_masks \in BOOLEAN
    /\ key_buffer_tail \in Slots
    /\ pc \in PCs
    /\ event \in Events
    /\ posted \in 0 .. MaxPosts
    /\ last \in 0 .. MaxPosts

\* next_keycode hands out every event at most once and in the order the
\* handler stored them, whatever the handler does between its three accesses
\* and however often the ring overflows.
InOrder == [][Fetch => last' > last]_vars

\* The event it hands out is the successor of the previous one, unless the
\* terminal was N or more events behind: N - 1 waiting events are safe.
NoLossBelowCapacity ==
    [][Fetch => last' = last + 1 \/ posted - last >= N]_vars

\* How many events were stored after the one in slot s.
Age(s) == IF s <= key_buffer_pos THEN key_buffer_pos - s
          ELSE key_buffer_pos - s + N

\* Which event is in which slot.
RingNumbers ==
    \A s \in Slots : key_buffer[s].n = IF Age(s) <= posted
                                       THEN posted - Age(s) ELSE 0

\* Where the tail stands, outside next_keycode's window between lines 445 and
\* 446: at the newest event fetched, or the handler has lapped it.  Past the
\* emptiness test there is something to fetch.
TailBehind ==
    pc # "fetch" =>
        /\ last + Age(key_buffer_tail) <= posted
        /\ \/ last + Age(key_buffer_tail) = posted
           \/ posted - last >= N
        /\ pc = "advance" => Age(key_buffer_tail) > 0 \/ last < posted

\* Inside that window the tail stands at an event that was not fetched yet.
TailAhead ==
    pc = "fetch" =>
        /\ last + Age(key_buffer_tail) < posted
        /\ \/ last + 1 + Age(key_buffer_tail) = posted
           \/ posted - last >= N

\* The inductive invariant behind the properties above.
IInv == TypeOK /\ RingNumbers /\ TailBehind /\ TailAhead

\* An event that is waiting in the ring is fetched, or a later one is, unless
\* the handler laps the terminal and the full ring looks empty.  A key that
\* arrives between the emptiness test and the hlt waits for the timer.
WaitingIsFetched ==
    \A m \in 1 .. MaxPosts :
        (posted >= m /\ last < m) ~> (last >= m \/ posted - last >= N)
=============================================================================
