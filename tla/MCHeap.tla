------------------------------- MODULE MCHeap -------------------------------
(***************************************************************************)
(* Instances of Heap for TLC.  Clients ask for one, two and four times     *)
(* 0x20 bytes, not always exactly, and grow to two and three times.        *)
(***************************************************************************)
EXTENDS Heap

AskedBytes == {20, 64, 120}
GrownBytes == {64, 90}
=============================================================================
