---------------------------- MODULE MCScheduler ----------------------------
(***************************************************************************)
(* Instances of Scheduler for TLC.                                         *)
(***************************************************************************)
EXTENDS Scheduler

AnyPid == 1 .. MaxPid

\* wordOS as it boots: the terminal runs for ever and starts processes, and
\* what it starts runs bark_process, which ends in kill_current_process.
Barks == 2 .. MaxPid
=============================================================================
