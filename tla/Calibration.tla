---------------------------- MODULE Calibration ----------------------------
(***************************************************************************)
(* init_apic: the I/O APIC entry of the PIT and calibrate_timer            *)
(* (kernel/drivers/apic.c), which measures the local APIC timer against    *)
(* one-shot runs of the PIT.  The flag calibrating is set by the loop and  *)
(* cleared by the PIT's interrupt (irq_handler, vector 0x31).              *)
(*                                                                         *)
(* Interrupts are on all the time.  init_ioapic routes the PIT before the  *)
(* loop programs it, so the firmware's own PIT settings can still be at    *)
(* work in the first turn.  A sample is short when the interrupt that ends *)
(* it came between the flag and the start of the one-shot run.             *)
(***************************************************************************)
EXTENDS Integers

CONSTANT Samples     \* turns of the loop, 10 in the code

ASSUME CalibrationAssumption == Samples \in Nat \ {0}

VARIABLES
    cal,          \* how far init_apic has come
    routed,       \* whether the PIT's interrupt is the one that was routed
    pit,          \* "periodic": as the firmware left it, "armed" or "idle"
    calibrating,
    sample,       \* the loop counter i
    early,        \* the interrupt of this turn came before its one-shot run
    short         \* short samples in sum

calVars == <<cal, routed, pit, calibrating, sample, early, short>>

CalInit ==
    /\ cal = "ioapic"
    /\ routed = FALSE
    /\ pit \in {"periodic", "idle"}
    /\ calibrating = FALSE
    /\ sample = 0
    /\ early = FALSE
    /\ short = 0

\* init_ioapic takes the first interrupt source override of the MADT for the
\* PIT's, whichever it is; without one it follows a null pointer.
init_ioapic ==
    /\ cal = "ioapic"
    /\ \/ cal' = "flag" /\ routed' \in BOOLEAN
       \/ cal' = "fault" /\ UNCHANGED routed
    /\ UNCHANGED <<pit, calibrating, sample, early, short>>

\* Line 163.
SetFlag ==
    /\ cal = "flag"
    /\ calibrating' = TRUE
    /\ early' = FALSE
    /\ cal' = "arm"
    /\ UNCHANGED <<routed, pit, sample, short>>

BugArmsOnce ==
    /\ cal = "arm"
    /\ pit' = IF sample = 0 THEN "armed" ELSE pit
    /\ cal' = "spin"
    /\ UNCHANGED <<routed, calibrating, sample, early, short>>

\* Lines 164-165, set_pit_one_shot and the timer's count.
set_pit_one_shot ==
    /\ cal = "arm"
    /\ pit' = "armed"
    /\ cal' = "spin"
    /\ UNCHANGED <<routed, calibrating, sample, early, short>>

BugSquareWave == pit

\* A one-shot run interrupts once.
AfterTerminalCount == IF pit = "armed" THEN "idle" ELSE pit

\* end_calibration, called by irq_handler.
end_calibration ==
    /\ routed
    /\ pit # "idle"
    /\ cal \in {"flag", "arm", "spin"}
    /\ pit' = AfterTerminalCount
    /\ calibrating' = FALSE
    /\ early' = (early \/ (cal = "arm" /\ calibrating))
    /\ UNCHANGED <<cal, routed, sample, short>>

\* Lines 167-176: the loop has seen the flag cleared.  After the last sample
\* the timer is set to periodic interrupts.
ReadSample ==
    /\ cal = "spin"
    /\ ~calibrating
    /\ sample' = sample + 1
    /\ short' = short + (IF early THEN 1 ELSE 0)
    /\ cal' = IF sample + 1 < Samples THEN "flag" ELSE "done"
    /\ UNCHANGED <<routed, pit, calibrating, early>>

CalNext == \/ init_ioapic
           \/ SetFlag
           \/ set_pit_one_shot
           \/ end_calibration
           \/ ReadSample

\* The spin of line 167 has no limit.
CalHangs == cal = "spin" /\ calibrating /\ ~routed

\* A short sample only follows short ones: a measurement that ended with its
\* own one-shot run leaves no PIT interrupt that could cut a later one.
ShortSamplesFirst == [][short' > short => short = sample]_calVars
=============================================================================
