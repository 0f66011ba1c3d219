------------------------------ MODULE StartUp ------------------------------
(***************************************************************************)
(* kernel_main (kernel/kernel/kernel.c) from init_multiboot to             *)
(* init_keyboard: the phases one after the other, each a component of its  *)
(* own, and the hardware that works beside them.  The machine is whatever  *)
(* firmware and devices the code can meet.                                 *)
(*                                                                         *)
(* A phase that is over is not read again; its variables go back to one    *)
(* value so that its history does not multiply the states of the next.     *)
(***************************************************************************)
EXTENDS Calibration, PaeSwitch, Disk, Ps2

VARIABLES
    stage,    \* the phase of kernel_main, or how it ended
    tags      \* the tags of the boot loader that the kernel keeps a pointer
              \* to, and "two_pages" for an RSDT that goes on in the next page

vars == <<stage, tags, calVars, paeVars, diskVars, ps2Vars>>

Init ==
    /\ stage = "multiboot"
    /\ tags = {}
    /\ CalInit
    /\ PaeInit
    /\ DiskInit
    /\ Ps2Init

\* From a phase to the next, or to the end of it all.
Then(over, next, stopped, how) ==
    stage' = CASE over -> next [] stopped -> how [] OTHER -> stage

\* A page fault ends in a panic once the terminal is there.  Before, the
\* handler prints to a null pointer and faults again, until its stack has run
\* over.
AfterFault == IF stage \in {"pci", "keyboard"} THEN "panic" ELSE "reset"

\* init_rsdt_v1: tables of ACPI 2 are not supported.  The first 19 of the 20
\* bytes are summed up, and 0, the sum of a good table whose RSDT lies below
\* 16 MiB, is taken for a bad one.
init_rsdt_v1 ==
    {IF revision >= 2 \/ sum19 = 0 THEN "panic" ELSE "memory" :
        revision \in {0, 2}, sum19 \in {0, 1}}

\* The walk over the tags keeps the last one of each type.
init_multiboot ==
    /\ stage = "multiboot"
    /\ tags' \in {t \in SUBSET {"framebuffer", "old_acpi", "two_pages"} :
                   "two_pages" \in t => "old_acpi" \in t}
    /\ stage' \in IF "old_acpi" \in tags' THEN init_rsdt_v1 ELSE {"memory"}
    /\ IF stage' = "memory" /\ "old_acpi" \in tags'
       THEN MapRsdt(IF "two_pages" \in tags' THEN 2 ELSE 1)
       ELSE UNCHANGED paeVars
    /\ UNCHANGED <<calVars, diskVars, ps2Vars>>

\* transfer_dynamic, vmm_transfer_dynamic and init_heap.
Memory ==
    /\ stage = "memory"
    /\ transfer_dynamic \/ vmm_transfer_dynamic \/ init_heap
    /\ Then(pae' = "lapic", "tables", FALSE, "panic")
    /\ UNCHANGED <<tags, calVars, diskVars, ps2Vars>>

\* cache_sdt_by_signature, for both tables, follows a null pointer without the
\* RSDT and panics without the table.  The second page of an RSDT is not mapped,
\* unless a table lies in it that was looked at before.
cache_sdt_by_signature ==
    IF "old_acpi" \notin tags THEN {AfterFault}
    ELSE {"apic", "panic"} \union (IF "two_pages" \in tags THEN {AfterFault} ELSE {})

\* cache_tables, then init_apic begins and maps the local APIC.
cache_tables ==
    /\ stage = "tables"
    /\ stage' \in cache_sdt_by_signature
    /\ tags' = tags \ {"two_pages"}
    /\ IF stage' = "apic" THEN MapLapic ELSE UNCHANGED paeVars
    /\ UNCHANGED <<calVars, diskVars, ps2Vars>>

Apic ==
    /\ stage = "apic"
    /\ CalNext
    /\ IF cal = "ioapic" THEN MapIoapic ELSE UNCHANGED paeVars
    /\ Then(cal' = "done", "pae", cal' = "fault", AfterFault)
    /\ UNCHANGED <<tags, diskVars, ps2Vars>>

Pae ==
    /\ stage = "pae"
    /\ init_pae
    /\ Then(pae' = "done", "screen", pae' = "panic", "panic")
    /\ UNCHANGED <<tags, calVars, diskVars, ps2Vars>>

\* What the type of the framebuffer leads to: only direct colour goes on, and
\* an unknown type resets the machine by a triple fault.
ScreenType(type) == CASE type = 1 -> "pci"
                      [] type \in {0, 2} -> "panic"
                      [] OTHER -> "reset"

\* Without a framebuffer tag the null pointer is followed.
init_framebuffer ==
    /\ stage = "screen"
    /\ \E type \in 0 .. 3 :
          stage' = IF "framebuffer" \in tags THEN ScreenType(type)
                   ELSE AfterFault
    /\ tags' = {}
    /\ cal' = cal /\ sample' = sample /\ calibrating' = calibrating
    /\ routed' = TRUE /\ pit' = "idle" /\ early' = FALSE /\ short' = 0
    /\ PaeOver
    /\ UNCHANGED <<diskVars, ps2Vars>>

test_pci ==
    /\ stage = "pci"
    /\ DiskNext
    /\ stage' = CASE dsk' = "done" -> "keyboard"
                  [] dsk' = "overflow" -> "reset"
                  [] dsk' \in {"fault", "bad_port"} -> AfterFault
                  [] dsk' = "panic" -> "panic"
                  [] OTHER -> stage
    /\ UNCHANGED <<tags, calVars, paeVars, ps2Vars>>

Dialogue ==
    /\ stage = "keyboard"
    /\ Ps2Next
    /\ Then(kbd' = "done", "run", kbd' = "panic", "panic")
    /\ UNCHANGED <<tags, calVars, paeVars, diskVars>>

Next == \/ init_multiboot
        \/ Memory
        \/ cache_tables
        \/ Apic
        \/ Pae
        \/ init_framebuffer
        \/ test_pci
        \/ Dialogue

Stopped == stage \in {"run", "panic", "reset"}

\* The kernel goes on; a routed PIT interrupts and the controller of the disk
\* does its work.  The keys and the interrupts of the disk may or may not come.
Fairness ==
    /\ WF_vars(\/ init_multiboot \/ Memory \/ cache_tables
               \/ Pae \/ init_framebuffer)
    /\ WF_vars(Apic /\ cal' # cal)
    /\ WF_vars(Apic /\ end_calibration)
    /\ WF_vars(test_pci /\ Driver)
    /\ WF_vars(test_pci /\ EngineStops)
    /\ WF_vars(Dialogue /\ init_keyboard)

Spec == Init /\ [][Next]_vars /\ Fairness

-----------------------------------------------------------------------------

\* The three waits of kernel_main without a limit that a machine can make
\* endless: for a PIT whose interrupt is not the one that was routed
\* (apic.c:167), the walk through capabilities that lead nowhere (pci.c:60), and
\* for an 8042 that is not there or falls silent (ps2.c:60, 81, 88).
Hangs == CalHangs \/ dsk = "spin" \/ kbd = "stuck"

\* Start-up ends, in the terminal, in a panic or in a reset, or hangs in one of
\* these waits: the recursion over the buses, the waits for the disk, those for
\* the keyboard and the samples of a PIT that is routed all end.
StartUpEnds == <>(Stopped \/ []Hangs)
=============================================================================
