---------------------------- MODULE MCKernelHeap ----------------------------
(***************************************************************************)
(* Instances of KernelHeap for TLC.                                        *)
(***************************************************************************)
EXTENDS KernelHeap

\* init_terminal: max_char_x for the usual screen widths and an 8-pixel font.
Columns(width) == (width \div 8) - 1

ScreenColumns ==
    {Columns(w) : w \in {640, 800, 1024, 1152, 1280, 1366, 1440, 1600, 1920}}
=============================================================================
