----------------------------- MODULE KeyChannel -----------------------------
(***************************************************************************)
(* What the key ring promises the terminal: a channel for at most N events *)
(* that hands out each event unchanged, at most once and in order, and     *)
(* that loses events only when it is full, the oldest first.               *)
(***************************************************************************)
EXTENDS Integers, FiniteSets

CONSTANTS N,       \* capacity
          Codes,   \* key codes
          NoEvent  \* what the receiver holds at the start

VARIABLES waiting,   \* the events in the channel
          event,     \* the newest event that was handed out
          posted     \* the number of events sent

vars == <<waiting, event, posted>>

Init ==
    /\ waiting = {}
    /\ event = NoEvent
    /\ posted = 0

Newest(events, k) ==
    {e \in events : Cardinality({f \in events : f.n > e.n}) < k}

Oldest(events) == CHOOSE e \in events : \A f \in events : e.n <= f.n

\* A full channel forgets its oldest event.
Send(code, release, shift) ==
    /\ posted' = posted + 1
    /\ waiting' = Newest(waiting \union {[code |-> code, release |-> release,
                                          shift |-> shift, n |-> posted + 1]},
                         N)
    /\ UNCHANGED event

\* The oldest event is handed out; a receiver that has let the channel become
\* full may miss some.
Receive(e) ==
    /\ Cardinality(waiting) < N => e = Oldest(waiting)
    /\ event' = e
    /\ waiting' = {f \in waiting : f.n > e.n}
    /\ UNCHANGED posted

Next == \/ \E code \in Codes, release, shift \in BOOLEAN :
              Send(code, release, shift)
        \/ \E e \in waiting : Receive(e)

Spec == Init /\ [][Next]_vars
=============================================================================
