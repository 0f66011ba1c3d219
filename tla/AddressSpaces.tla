--------------------------- MODULE AddressSpaces ---------------------------
(***************************************************************************)
(* Page frames and the address spaces of processes: the frame bitmap       *)
(* (kernel/memory/pmm.c), the PAE page tables with their recursive entry   *)
(* (kernel/memory/paging.c), set_current_vmm and the page allocation of a  *)
(* vmm (kernel/memory/vmm.c), and create_new_pdptes, which builds an       *)
(* address space out of them (kernel/kernel/scheduler.c).                  *)
(*                                                                         *)
(* A frame is its number in the bitmap, and what it holds is kept as the   *)
(* CPU would read it as a page table or directory: one frame number, Zero  *)
(* or Junk per entry.  A process uses pages Low and Low + 1 of the lowest  *)
(* table only, so directory entry 0 and these two table entries matter,    *)
(* and the last entry, through which a directory maps itself.  The kernel  *)
(* quarter of the address space is the same for all processes.             *)
(*                                                                         *)
(* create_process runs with interrupts off, so while pc is not "none"      *)
(* nothing else happens.  No caller ever gives a page back, so the tree of *)
(* free memory of a vmm is one node: the pages not handed out yet.         *)
(***************************************************************************)
EXTENDS Integers, FiniteSets

CONSTANTS LastFrame,   \* the last frame alloc_phys_page gives out, at 16 MiB
          num_frames,  \* the limit clear_frame compares with
          BootFrames,  \* frames taken before init_scheduler
          NodesLeft,   \* how many nodes booting may leave in the kernel's store
          Ents,        \* entries of a page table
          Low,         \* first page of a process
          MaxPid,      \* bound: pids 0..MaxPid are created
          KVmm,        \* the kernel's vmm
          None, Zero, Junk

Frames == 0 .. LastFrame
Pid == 0 .. MaxPid
Self == Ents - 1       \* the recursive entry

ASSUME AddressSpacesAssumption ==
    /\ LastFrame \in Nat /\ num_frames \in Nat
    /\ BootFrames \in 1 .. LastFrame
    /\ NodesLeft \subseteq Nat
    /\ Ents \in Nat /\ Low \in Nat /\ Low >= 1 /\ Low + 2 < Ents
    /\ MaxPid \in Nat
    /\ KVmm \notin Pid
    /\ None \notin Frames /\ Zero \notin Frames /\ Junk \notin Frames

\* What a process's frames are for; table is the page table of its pages.
Roles == {"pd_low", "pd_mid", "pd_high", "store", "table", "stack"}

VARIABLES
    frames,         \* the bits that are set
    ent,            \* what each frame holds
    vm,             \* each process's frames, by role
    pdpt,           \* the directories PDPT entries 0..2 point to
    temp,           \* the frame mapped at TEMP_PAGE_VIRT
    tlb,            \* the frame the CPU has cached for TEMP_PAGE_VIRT
    kpage,          \* the first kernel page not handed out
    knodes,         \* nodes never used in the store of the kernel's vmm
    ktables,        \* frames of page tables made for the kernel
    current_vmm,
    parent_vmm,
    next_free_pid,
    alive,          \* processes that were created and have not died
    pc,             \* how far create_process has come
    halted          \* "no", or why the kernel has stopped

vars == <<frames, ent, vm, pdpt, temp, tlb, kpage, knodes, ktables, current_vmm,
          parent_vmm, next_free_pid, alive, pc, halted>>

child == next_free_pid - 1     \* the process that is being created

PCs == {"none", "pd_low", "pd_mid", "pd_high", "store", "kmap", "temp_low",
        "temp_mid", "temp_high", "unmap", "enter", "pmap", "stack", "leave"}

Index == 0 .. (Ents - 1)
Full(x) == [i \in Index |-> x]
NoFrames == [r \in Roles |-> None]

Init ==
    /\ frames = 0 .. (BootFrames - 1)
    /\ ent = [f \in Frames |-> Full(Junk)]
    /\ vm = [p \in Pid |-> NoFrames]
    /\ pdpt = [r \in {"pd_low", "pd_mid", "pd_high"} |-> None]
    /\ temp = None
    /\ tlb = None
    /\ kpage \in Index
    /\ knodes \in NodesLeft
    /\ ktables = {}
    /\ current_vmm = KVmm
    /\ parent_vmm = KVmm
    /\ next_free_pid = 0
    /\ alive = {}
    /\ pc = "none"
    /\ halted = "no"

-----------------------------------------------------------------------------
(* The definitions named Bug... are faulty variants: each stands for a slip *)
(* in the code that one of the properties below must notice.                *)

FreeFrames == Frames \ frames

BugFrameBehind ==
    1 + CHOOSE f \in FreeFrames : \A g \in FreeFrames : f <= g

\* get_first_frame.
FirstFrame == CHOOSE f \in FreeFrames : \A g \in FreeFrames : f <= g

\* set_frame.
set_frame(f) == frames \union {f}

BugClearsBelow(f) == IF f > num_frames THEN frames ELSE frames \ {f - 1}

\* clear_frame ignores the frames above its limit.
clear_frame(f) == IF f > num_frames THEN frames ELSE frames \ {f}

\* alloc_phys_page finds no frame up to 16 MiB: panic.
OutOfMemory ==
    /\ FreeFrames = {}
    /\ halted' = "memory"
    /\ UNCHANGED <<frames, ent, vm, pdpt, temp, tlb, kpage, knodes, ktables,
                   current_vmm, parent_vmm, next_free_pid, alive, pc>>

BugNoFlush(cached) == cached

\* Reloading cr3 empties the TLB.
Flush(cached) == None

Goto(here, there) == halted = "no" /\ pc = here /\ pc' = there

-----------------------------------------------------------------------------
(* create_process and create_new_pdptes.                                   *)

Begin ==
    /\ Goto("none", "pd_low")
    /\ next_free_pid \in Pid
    /\ next_free_pid' = next_free_pid + 1
    /\ parent_vmm' = current_vmm
    /\ UNCHANGED <<frames, ent, vm, pdpt, temp, tlb, kpage, knodes, ktables,
                   current_vmm, alive, halted>>

\* Lines 99-103: the directories and the page the vmm is stored in.
TakeFrame(role, there) ==
    /\ Goto(role, there)
    /\ FreeFrames # {}
    /\ frames' = set_frame(FirstFrame)
    /\ vm' = [vm EXCEPT ![child][role] = FirstFrame]
    /\ UNCHANGED <<ent, pdpt, temp, tlb, kpage, knodes, ktables, current_vmm,
                   parent_vmm, next_free_pid, alive, halted>>

\* Lines 105-107: pae_kalloc maps the store page behind the kernel's other
\* pages, in a new table when the last one is full; create_vmm writes to it.
\* The rest of the kernel's free pages gets a node that was never used.
MapStoreInKernel ==
    /\ Goto("kmap", "temp_low")
    /\ knodes > 0
    /\ knodes' = knodes - 1
    /\ kpage' = (kpage + 1) % Ents
    /\ LET written == [ent EXCEPT ![vm[child]["store"]] = Full(Junk)]
       IN  IF kpage = 0
           THEN /\ FreeFrames # {}
                /\ frames' = set_frame(FirstFrame)
                /\ ktables' = ktables \union {FirstFrame}
                /\ ent' = [written EXCEPT ![FirstFrame] = Full(Zero)]
           ELSE ent' = written /\ UNCHANGED <<frames, ktables>>
    /\ UNCHANGED <<vm, pdpt, temp, tlb, current_vmm, parent_vmm, next_free_pid,
                   alive, halted>>

\* alloc_node_obj does not look for the end of the store, and free_node_obj
\* makes no node usable again: the next node lies in the page behind the store.
\* What that page holds is overwritten, and the model stops.
OverrunsStore ==
    /\ halted = "no" /\ pc = "kmap"
    /\ knodes = 0
    /\ halted' = "store"
    /\ UNCHANGED <<frames, ent, vm, pdpt, temp, tlb, kpage, knodes, ktables,
                   current_vmm, parent_vmm, next_free_pid, alive, pc>>

\* Where a write to TEMP_PAGE_VIRT goes once it is mapped to f and cr3 has
\* been reloaded.
Behind(f) == IF Flush(tlb) = None THEN f ELSE Flush(tlb)

\* Lines 114-129: each directory is mapped at TEMP_PAGE_VIRT, cleared, except
\* for pd_high, and made to map itself.
PrepareDirectory(role, base, here, there) ==
    LET f == vm[child][role]
        seen == Behind(f)
    IN  /\ Goto(here, there)
        /\ temp' = f
        /\ tlb' = seen
        /\ ent' = [ent EXCEPT ![seen] = [base[seen] EXCEPT ![Self] = f]]
        /\ UNCHANGED <<frames, vm, pdpt, kpage, knodes, ktables, current_vmm,
                       parent_vmm, next_free_pid, alive, halted>>

Cleared == [f \in Frames |-> Full(Zero)]

\* Line 131: pae_unmap also gives the frame back, which is pd_high.
UnmapTemp ==
    /\ Goto("unmap", "enter")
    /\ frames' = clear_frame(temp)
    /\ temp' = None
    /\ UNCHANGED <<ent, vm, pdpt, tlb, kpage, knodes, ktables, current_vmm,
                   parent_vmm, next_free_pid, alive, halted>>

\* A vmm without directories leaves the PDPT as it is.
set_current_vmm(v) ==
    /\ current_vmm' = v
    /\ pdpt' = IF v = KVmm THEN pdpt ELSE [r \in DOMAIN pdpt |-> vm[v][r]]
    /\ tlb' = None

Enter ==
    /\ Goto("enter", "pmap")
    /\ set_current_vmm(child)
    /\ UNCHANGED <<frames, ent, vm, temp, kpage, knodes, ktables, parent_vmm,
                   next_free_pid, alive, halted>>

-----------------------------------------------------------------------------
(* pae_mmap for a page of the process that is being created.  The tables   *)
(* are reached through the recursive entry of the loaded directory d: the  *)
(* directory is page Self of it, and its table 0 is page 0.                *)

Through(e, d, i) ==
    IF d \in Frames /\ e[d][Self] \in Frames THEN e[e[d][Self]][i] ELSE Junk

Directory == Through(ent, pdpt["pd_low"], Self)

TableMissing == ent[Directory][0] \notin Frames

Fault ==
    /\ halted' = "fault"
    /\ UNCHANGED <<frames, ent, vm, pdpt, temp, tlb, kpage, knodes, ktables,
                   current_vmm, parent_vmm, next_free_pid, alive, pc>>

\* create_new_pae_pt: the new table is cleared through the recursive entry.
NewTable(e, f) ==
    LET linked == [e EXCEPT ![Directory][0] = f]
        seen == Through(linked, pdpt["pd_low"], 0)
    IN  [linked EXCEPT ![seen] = Full(Zero)]

\* The page table entry of page v becomes f.
SetEntry(e, v, f) ==
    [e EXCEPT ![Through(e, pdpt["pd_low"], 0)][v] = f]

\* Line 138: the store page becomes page Low.
MapStoreInProcess ==
    LET f == FirstFrame
        made == IF TableMissing THEN NewTable(ent, f) ELSE ent
    IN  /\ halted = "no" /\ pc = "pmap"
        /\ IF Directory \notin Frames THEN Fault
           ELSE /\ TableMissing => FreeFrames # {}
                /\ frames' = IF TableMissing THEN set_frame(f) ELSE frames
                /\ vm' = [vm EXCEPT ![child]["table"] =
                             Through(made, pdpt["pd_low"], 0)]
                /\ ent' = SetEntry(made, Low, vm[child]["store"])
                /\ pc' = "stack"
                /\ UNCHANGED <<pdpt, temp, tlb, kpage, knodes, ktables, current_vmm,
                               parent_vmm, next_free_pid, alive, halted>>

\* What the CPU finds for page v when d is the directory of the lowest pages.
Walk(d, v) == IF ent[d][0] \in Frames THEN ent[ent[d][0]][v] ELSE None

\* Line 146: alloc_stack takes a frame and makes it page Low + 1.  The tree of
\* free pages is now read at its place in the process, in page Low.
AllocStack ==
    LET f == FirstFrame
    IN  /\ halted = "no" /\ pc = "stack"
        /\ IF Walk(pdpt["pd_low"], Low) # vm[child]["store"] THEN Fault
           ELSE /\ FreeFrames # {}
                /\ frames' = set_frame(f)
                /\ vm' = [vm EXCEPT ![child]["stack"] = f]
                /\ ent' = SetEntry(ent, Low + 1, f)
                /\ pc' = "leave"
                /\ UNCHANGED <<pdpt, temp, tlb, kpage, knodes, ktables, current_vmm,
                               parent_vmm, next_free_pid, alive, halted>>

BugUnmapsAtTheEnd ==
    /\ Goto("leave", "none")
    /\ set_current_vmm(parent_vmm)
    /\ frames' = clear_frame(vm[child]["pd_high"])
    /\ alive' = alive \union {child}
    /\ UNCHANGED <<ent, vm, temp, kpage, knodes, ktables, parent_vmm, next_free_pid,
                   halted>>

\* Lines 199-200: back to the address space of the parent.
Leave ==
    /\ Goto("leave", "none")
    /\ set_current_vmm(parent_vmm)
    /\ alive' = alive \union {child}
    /\ UNCHANGED <<frames, ent, vm, temp, kpage, knodes, ktables, parent_vmm,
                   next_free_pid, halted>>

Create ==
    \/ Begin
    \/ TakeFrame("pd_low", "pd_mid")
    \/ TakeFrame("pd_mid", "pd_high")
    \/ TakeFrame("pd_high", "store")
    \/ TakeFrame("store", "kmap")
    \/ MapStoreInKernel
    \/ OverrunsStore
    \/ PrepareDirectory("pd_low", Cleared, "temp_low", "temp_mid")
    \/ PrepareDirectory("pd_mid", Cleared, "temp_mid", "temp_high")
    \/ PrepareDirectory("pd_high", ent, "temp_high", "unmap")
    \/ UnmapTemp
    \/ Enter
    \/ MapStoreInProcess
    \/ AllocStack
    \/ Leave

\* The steps of create_process that ask for a frame.
Allocates ==
    \/ pc \in {"pd_low", "pd_mid", "pd_high", "store", "stack"}
    \/ pc = "kmap" /\ knodes > 0 /\ kpage = 0
    \/ pc = "pmap" /\ Directory \in Frames /\ TableMissing

Panic == halted = "no" /\ Allocates /\ OutOfMemory

-----------------------------------------------------------------------------
(* What schedule() does to address spaces.                                 *)

Dispatch(p) ==
    /\ halted = "no" /\ pc = "none"
    /\ p \in alive
    /\ set_current_vmm(p)
    /\ UNCHANGED <<frames, ent, vm, temp, kpage, knodes, ktables, parent_vmm,
                   next_free_pid, alive, pc, halted>>

\* delete_process frees no frame: the dead process's stay marked.
Reap(p, q) ==
    /\ halted = "no" /\ pc = "none"
    /\ current_vmm = p /\ p \in alive \ {0} /\ q \in alive \ {p}
    /\ alive' = alive \ {p}
    /\ set_current_vmm(q)
    /\ UNCHANGED <<frames, ent, vm, temp, kpage, knodes, ktables, parent_vmm,
                   next_free_pid, pc, halted>>

Next == \/ Create
        \/ Panic
        \/ \E p \in Pid : Dispatch(p)
        \/ \E p, q \in Pid : Reap(p, q)

Spec == Init /\ [][Next]_vars

-----------------------------------------------------------------------------
(* Properties.                                                             *)

Contents == Frames \union {None, Zero, Junk}

\* Types of the bitmap, the page tables and the steps of create_process.
TypeOK ==
    /\ frames \subseteq Frames
    /\ ent \in [Frames -> [Index -> Contents]]
    /\ vm \in [Pid -> [Roles -> Frames \union {None}]]
    /\ pdpt \in [{"pd_low", "pd_mid", "pd_high"} -> Frames \union {None}]
    /\ temp \in Frames \union {None}
    /\ tlb \in Frames \union {None}
    /\ kpage \in Index
    /\ knodes \in Nat
    /\ ktables \subseteq Frames
    /\ current_vmm \in Pid \union {KVmm}
    /\ parent_vmm \in Pid \union {KVmm}
    /\ next_free_pid \in 0 .. (MaxPid + 1)
    /\ alive \subseteq Pid
    /\ pc \in PCs
    /\ halted \in {"no", "memory", "store", "fault"}

Owned(p) == {vm[p][r] : r \in Roles} \ {None}

KernelFrames == 0 .. (BootFrames - 1) \union ktables

\* Two processes share no frame, dead ones included, and none shares one with
\* the kernel, although pae_unmap gives pd_high back while it is in use: the
\* next frame asked for is for the same process.  It uses each of its frames
\* for one thing, but for pd_high, which becomes its page table too when
\* clear_frame has let it go.
FramesNotShared ==
    /\ \A p, q \in Pid : p # q => Owned(p) \intersect Owned(q) = {}
    /\ \A p \in Pid : Owned(p) \intersect KernelFrames = {}
    /\ \A p \in Pid : \A r, s \in Roles :
          r # s /\ vm[p][r] = vm[p][s] /\ vm[p][r] # None =>
              {r, s} = {"pd_high", "table"}

\* No frame in use can be handed out a second time, except in the window from
\* pae_unmap to the creation of the page table.
InUseIsMarked ==
    /\ KernelFrames \subseteq frames
    /\ \A p \in Pid : \A r \in Roles :
          \/ vm[p][r] \in frames \union {None}
          \/ p = child /\ r = "pd_high" /\ pc \in {"enter", "pmap"}

\* The pages of every process that has been created lead to its own store and
\* stack, whatever processes were created after it, and the process that runs
\* has its own directories in the PDPT.  Creating a process never faults: the
\* recursive entry that pae_mmap goes through, and the page that holds the new
\* vmm, are mapped when they are used.  The kernel stops short of a process
\* only when the frames run out, or when as many were created as the store of
\* the kernel's vmm had nodes left.
OwnPages ==
    /\ halted # "fault"
    /\ halted = "store" => child \in NodesLeft
    /\ \A p \in Pid : pc = "none" /\ vm[p]["stack"] # None =>
          /\ Walk(vm[p]["pd_low"], Low) = vm[p]["store"]
          /\ Walk(vm[p]["pd_low"], Low + 1) = vm[p]["stack"]
    /\ pc = "none" /\ current_vmm # KVmm =>
          \A r \in DOMAIN pdpt : pdpt[r] = vm[current_vmm][r]

\* vmm.h:31, of the three directories: "And then finally recursively map them."
DirectoriesMapThemselves ==
    \A p \in alive : \A r \in {"pd_low", "pd_mid", "pd_high"} :
        ent[vm[p][r]][Self] = vm[p][r]
=============================================================================
