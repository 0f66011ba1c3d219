-------------------------- MODULE KeyboardChannel --------------------------
(***************************************************************************)
(* The key ring of Keyboard implements the channel of KeyChannel: what the *)
(* slots hold beyond the newest event fetched is what the channel holds.   *)
(***************************************************************************)
EXTENDS Keyboard

Waiting == {key_buffer[s] : s \in {t \in Slots : key_buffer[t].n > last}}

Channel == INSTANCE KeyChannel WITH waiting <- Waiting

\* handle_keychange and next_keycode, which share the ring without a lock, act
\* like a channel in which a store and a fetch are one step each: no event is
\* torn, repeated or out of order, and one is lost only when N are waiting.
ImplementsChannel == Channel!Spec
=============================================================================
