----------------------------- MODULE Scheduler -----------------------------
(***************************************************************************)
(* The process scheduler of wordOS (kernel/kernel/scheduler.c), the        *)
(* interrupt entries that reach it (kernel/kernel/idt.c, idtStub.s), and   *)
(* the part of kernel_main that starts it (kernel/kernel/kernel.c).        *)
(*                                                                         *)
(* A process_t is named by its pid, which create_process never reuses.     *)
(* The process list is kept as the code keeps it: a head pointer and one   *)
(* next pointer per process.  The CPU runs one process at a time; the      *)
(* timer may interrupt between any two steps of that process, and the      *)
(* handlers run with interrupts off (the stubs of vectors 0x30 and 0x80    *)
(* begin with cli), which is what the mode variable says.                  *)
(*                                                                         *)
(* A program is abstracted to positions: 0..Body-1 are its own code, Body  *)
(* is line 152 of kill_current_process, Body+1 is line 154, Body+2 is the  *)
(* hlt loop that follows.  The CPU's registers are abstracted to eip.      *)
(***************************************************************************)
EXTENDS Integers, FiniteSets

CONSTANTS MaxPid,   \* bound: pids 0..MaxPid are handed out, then no more
          Body,     \* number of steps of a program before it exits or loops
          Exits,    \* pids whose program ends in kill_current_process
          Spawns,   \* pids whose program makes the create_process call
          Yields,   \* pids whose program calls set_current_process_idle
          NULL,     \* the null pointer
          KVmm      \* the kernel's vmm, every process having one of its own

Pid == 0 .. MaxPid
Idle == 0        \* the first process created, by init_scheduler
Terminal == 1    \* the second one, by start_terminal

ASSUME SchedulerAssumption ==
    /\ MaxPid \in Nat /\ MaxPid >= 1
    /\ Body \in Nat /\ Body >= 1
    /\ Exits \subseteq 1 .. MaxPid
    /\ Spawns \subseteq 1 .. MaxPid
    /\ Yields \subseteq 1 .. MaxPid
    /\ NULL \notin Pid
    /\ KVmm \notin Pid /\ KVmm # NULL

VARIABLES
    phase,              \* how far kernel_main has come
    initialized,        \* the flag of the same name
    mode,               \* "user", or "loop" inside schedule()'s while loop
    next_free_pid,
    procs,              \* processes whose process_t is allocated
    ctxs,               \* processes whose saved context is allocated
    process_list_head,
    next,               \* the next field of every process_t
    status,             \* the status field
    context,            \* the saved registers of every process
    current_process,
    eip,                \* the registers of the CPU
    current_vmm,
    pdpt,               \* whose directories PDPT entries 0..2 hold
    at                  \* history: how far each program has really come

vars == <<phase, initialized, mode, next_free_pid, procs, ctxs,
          process_list_head, next, status, context, current_process, eip,
          current_vmm, pdpt, at>>

memory == <<next_free_pid, procs, ctxs, process_list_head, next, context>>

Phases == {"apic", "quiet", "sched", "term", "armed"}
Statuses == {"READY", "RUNNING", "IDLE", "DEAD"}
Positions == 0 .. (Body + 2)

-----------------------------------------------------------------------------
(* The list.  A walk that starts at the head visits the least set that     *)
(* holds the head and is closed under next.                                *)

Closed(S) == \A q \in S : next[q] # NULL => next[q] \in S

Listed == {p \in Pid : /\ process_list_head # NULL
                       /\ \A S \in SUBSET Pid :
                             process_list_head \in S /\ Closed(S) => p \in S}

\* Where add_process's walk stops: the listed process that has no next.
Tail == CHOOSE q \in Listed : next[q] = NULL

\* Where delete_process's search stops: the process before p, else the tail.
PrevProcess(p) == IF \E q \in Listed : next[q] = p
                  THEN CHOOSE q \in Listed : next[q] = p
                  ELSE Tail

-----------------------------------------------------------------------------
Init ==
    /\ phase = "apic"
    /\ initialized = FALSE
    /\ mode = "user"
    /\ next_free_pid = 0
    /\ procs = {}
    /\ ctxs = {}
    /\ process_list_head = NULL
    /\ next = [p \in Pid |-> NULL]
    /\ status = [p \in Pid |-> "READY"]
    /\ context = [p \in Pid |-> 0]
    /\ current_process = NULL
    /\ eip = 0
    /\ current_vmm = KVmm
    /\ pdpt = NULL
    /\ at = [p \in Pid |-> 0]

-----------------------------------------------------------------------------
(* Operations.                                                             *)

(* The definitions named Bug... are faulty variants: each stands for a slip *)
(* in the code that one of the properties below must notice.                *)

BugLoadsAnyVmm(v, old) == v

\* set_current_vmm: the PDPT is loaded only for a vmm that has directories.
PdptFor(v, old) == IF v = KVmm THEN old ELSE v

BugAddsInFront(p) ==
    /\ process_list_head' = p
    /\ next' = [next EXCEPT ![p] = process_list_head]

BugAddsBehindHead(p) ==
    LET cleared == [next EXCEPT ![p] = NULL]
    IN  IF process_list_head = NULL
        THEN /\ process_list_head' = p
             /\ next' = cleared
        ELSE /\ process_list_head' = process_list_head
             /\ next' = [cleared EXCEPT ![process_list_head] = p]

\* add_process: p goes behind the last listed process.
add_process(p) ==
    LET cleared == [next EXCEPT ![p] = NULL]
    IN  IF process_list_head = NULL
        THEN /\ process_list_head' = p
             /\ next' = cleared
        ELSE /\ process_list_head' = process_list_head
             /\ next' = [cleared EXCEPT ![Tail] = p]

BugStaysInChild(p) == pdpt' = PdptFor(p, pdpt) /\ current_vmm' = p

\* create_new_pdptes switches to the new process's address space, and
\* create_process puts the parent's back at the end.
VisitChildVmm(p) ==
    /\ pdpt' = PdptFor(current_vmm, PdptFor(p, pdpt))
    /\ current_vmm' = current_vmm

create_process(add) ==
    LET p == next_free_pid
    IN  /\ p \in Pid
        /\ next_free_pid' = p + 1
        /\ procs' = procs \union {p}
        /\ ctxs' = ctxs \union {p}
        /\ status' = [status EXCEPT ![p] = "READY"]
        /\ context' = [context EXCEPT ![p] = 0]
        /\ IF add THEN add_process(p)
                  ELSE /\ next' = [next EXCEPT ![p] = NULL]
                       /\ UNCHANGED process_list_head
        /\ VisitChildVmm(p)

BugNoUnlink(p) ==
    /\ procs' = procs \ {p}
    /\ ctxs' = ctxs \ {p}
    /\ UNCHANGED <<next, process_list_head>>

BugKeepsContext(p) ==
    /\ procs' = procs \ {p}
    /\ UNCHANGED ctxs
    /\ IF process_list_head = p
       THEN process_list_head' = next[p] /\ UNCHANGED next
       ELSE /\ next' = [next EXCEPT ![PrevProcess(p)] = next[p]]
            /\ UNCHANGED process_list_head

BugUnlinksTheRest(p) ==
    /\ procs' = procs \ {p}
    /\ ctxs' = ctxs \ {p}
    /\ IF process_list_head = p
       THEN process_list_head' = next[p] /\ UNCHANGED next
       ELSE /\ next' = [next EXCEPT ![PrevProcess(p)] = NULL]
            /\ UNCHANGED process_list_head

\* delete_process: the head's context is not freed.
delete_process(p) ==
    IF process_list_head = p
    THEN /\ process_list_head' = next[p]
         /\ procs' = procs \ {p}
         /\ UNCHANGED <<next, ctxs>>
    ELSE /\ next' = [next EXCEPT ![PrevProcess(p)] = next[p]]
         /\ ctxs' = ctxs \ {p}
         /\ procs' = procs \ {p}
         /\ UNCHANGED process_list_head

-----------------------------------------------------------------------------
(* kernel_main, from the return of init_apic on.                           *)

Booting(from) == mode = "user" /\ current_process = NULL /\ phase = from

DisableTimer ==
    /\ Booting("apic")
    /\ phase' = "quiet"
    /\ UNCHANGED <<memory, initialized, mode, status, current_process, eip,
                   current_vmm, pdpt, at>>

init_scheduler ==
    /\ Booting("quiet")
    /\ phase' = "sched"
    /\ current_process' = NULL
    /\ create_process(FALSE)
    /\ initialized' = TRUE
    /\ UNCHANGED <<mode, eip, at>>

start_terminal ==
    /\ Booting("sched")
    /\ phase' = "term"
    /\ create_process(TRUE)
    /\ UNCHANGED <<initialized, mode, current_process, eip, at>>

ArmTimer ==
    /\ Booting("term")
    /\ phase' = "armed"
    /\ UNCHANGED <<memory, initialized, mode, status, current_process, eip,
                   current_vmm, pdpt, at>>

-----------------------------------------------------------------------------
(* The running process.                                                    *)

Running(p) == mode = "user" /\ current_process = p /\ p # Idle

NextEip(p) == IF eip + 1 < Body THEN eip + 1
              ELSE IF p \in Exits THEN Body ELSE 0

Advance(p, e) == eip' = e /\ at' = [at EXCEPT ![p] = e]

Run(p) ==
    /\ Running(p)
    /\ eip < Body
    /\ Advance(p, NextEip(p))
    /\ UNCHANGED <<memory, phase, initialized, mode, status, current_process,
                   current_vmm, pdpt>>

\* int $0x80, number 4: irq_stub_128 and kernel_stack_fn.
Spawn(p) ==
    /\ Running(p)
    /\ p \in Spawns
    /\ eip < Body
    /\ Advance(p, NextEip(p))
    /\ create_process(TRUE)
    /\ UNCHANGED <<phase, initialized, mode, current_process>>

set_current_process_idle(p) ==
    /\ Running(p)
    /\ p \in Yields
    /\ eip < Body
    /\ Advance(p, NextEip(p))
    /\ status' = [status EXCEPT ![p] = "IDLE"]
    /\ UNCHANGED <<memory, phase, initialized, mode, current_process,
                   current_vmm, pdpt>>

\* kill_current_process: two writes, with interrupts on between them.
KillMark(p) ==
    /\ Running(p)
    /\ eip = Body
    /\ Advance(p, Body + 1)
    /\ status' = [status EXCEPT ![p] = "DEAD"]
    /\ UNCHANGED <<memory, phase, initialized, mode, current_process,
                   current_vmm, pdpt>>

KillCut(p) ==
    /\ Running(p)
    /\ eip = Body + 1
    /\ Advance(p, Body + 2)
    /\ next' = [next EXCEPT ![p] = NULL]
    /\ UNCHANGED <<phase, initialized, mode, next_free_pid, procs, ctxs,
                   process_list_head, status, context, current_process,
                   current_vmm, pdpt>>

-----------------------------------------------------------------------------
(* Vector 0x30: the LAPIC timer, and int $0x30 at the end of kernel_main.  *)

TimerOn == phase \in {"apic", "armed"}

BugNoSave == UNCHANGED context

\* Line 213: the interrupted process's registers go to its context.
SaveContext ==
    context' = IF current_process = NULL THEN context
               ELSE [context EXCEPT ![current_process] = eip]

\* The registers are saved before the loop looks at any process.
TimerIrq ==
    /\ mode = "user"
    /\ TimerOn
    /\ IF initialized
       THEN /\ mode' = "loop"
            /\ SaveContext
       ELSE UNCHANGED <<mode, context>>
    /\ UNCHANGED <<phase, initialized, next_free_pid, procs, ctxs,
                   process_list_head, next, status, current_process, eip,
                   current_vmm, pdpt, at>>

BugNoRequeue(p) ==
    IF status[p] = "DEAD"
    THEN delete_process(p) /\ UNCHANGED status
    ELSE UNCHANGED <<status, process_list_head, next, procs, ctxs>>

BugRequeuesTheDead(p) ==
    /\ status' = [status EXCEPT ![p] = "READY"]
    /\ UNCHANGED <<process_list_head, next, procs, ctxs>>

\* A dead process is deleted, any other one may run again later.
ReapOrRequeue(p) ==
    IF status[p] = "DEAD"
    THEN delete_process(p) /\ UNCHANGED status
    ELSE /\ status' = [status EXCEPT ![p] = "READY"]
         /\ UNCHANGED <<process_list_head, next, procs, ctxs>>

\* One turn of the loop.  The next field of a process is read after the
\* process has been freed; kfree leaves the block's contents as they are.
LoopTurn ==
    /\ mode = "loop"
    /\ current_process # NULL
    /\ status[current_process] # "READY"
    /\ ReapOrRequeue(current_process)
    /\ current_process' = next[current_process]
    /\ UNCHANGED <<phase, initialized, mode, next_free_pid, context, eip,
                   current_vmm, pdpt, at>>

BugAlwaysHead ==
    IF process_list_head # NULL THEN process_list_head ELSE Idle

BugNoWrap == IF current_process # NULL THEN current_process ELSE Idle

\* Lines 231-237: at the end of the list start over, or idle.
Chosen == IF current_process # NULL THEN current_process
          ELSE IF process_list_head # NULL THEN process_list_head ELSE Idle

\* The end of schedule() and the return from the interrupt.
Dispatch ==
    /\ mode = "loop"
    /\ current_process # NULL => status[current_process] = "READY"
    /\ mode' = "user"
    /\ current_process' = Chosen
    /\ status' = [status EXCEPT ![Chosen] = "RUNNING"]
    /\ current_vmm' = Chosen
    /\ pdpt' = PdptFor(Chosen, pdpt)
    /\ eip' = context[Chosen]
    /\ UNCHANGED <<memory, phase, initialized, at>>

-----------------------------------------------------------------------------
Program(p) == \/ Run(p)
              \/ Spawn(p)
              \/ set_current_process_idle(p)
              \/ KillMark(p)
              \/ KillCut(p)

Boot == DisableTimer \/ init_scheduler \/ start_terminal \/ ArmTimer

Next == \/ Boot
        \/ \E p \in Pid : Program(p)
        \/ TimerIrq
        \/ LoopTurn
        \/ Dispatch

Spec == Init /\ [][Next]_vars

(* The CPU never stops executing, the armed timer is periodic, and a       *)
(* quantum is long enough for the dispatched program to take a step.       *)
Fairness ==
    /\ WF_vars(Boot)
    /\ WF_vars(TimerIrq /\ initialized)
    /\ WF_vars(LoopTurn)
    /\ WF_vars(Dispatch)
    /\ \A p \in Pid : SF_vars(Run(p) \/ KillMark(p) \/ KillCut(p))

FairSpec == Spec /\ Fairness

-----------------------------------------------------------------------------
(* Properties.                                                             *)

\* Types of the scheduler's globals, of the process_t fields and of the
\* CPU state the interrupt stubs save and load.
TypeOK ==
    /\ phase \in Phases
    /\ initialized \in BOOLEAN
    /\ mode \in {"user", "loop"}
    /\ next_free_pid \in 0 .. (MaxPid + 1)
    /\ procs \subseteq Pid
    /\ ctxs \subseteq Pid
    /\ process_list_head \in Pid \union {NULL}
    /\ next \in [Pid -> Pid \union {NULL}]
    /\ status \in [Pid -> Statuses]
    /\ context \in [Pid -> Positions]
    /\ current_process \in Pid \union {NULL}
    /\ eip \in Positions
    /\ current_vmm \in Pid \union {KVmm}
    /\ pdpt \in Pid \union {NULL}
    /\ at \in [Pid -> Positions]

\* Processes schedule() may hand the CPU to.
Runnable == Listed \union (IF initialized THEN {Idle} ELSE {})

\* Every runnable process except the current one is READY.  The loop of
\* schedule() stops at the first READY process it meets, and lines 231-237
\* run the head without looking at its status: both need this.
OthersReady ==
    \A p \in Runnable \ {current_process} : status[p] = "READY"

\* Whatever schedule() can still reach, from the head of the list or through
\* current_process, has its process_t and its context allocated: no freed
\* process is ever followed, saved into or resumed.
NoDangling ==
    /\ Runnable \subseteq procs
    /\ Runnable \subseteq ctxs
    /\ current_process # NULL => current_process \in Runnable

\* A process goes on exactly where the timer interrupted it, whatever ran in
\* between: the CPU is at the current program's position, and the saved
\* context of every other runnable process is at that process's position.
ResumesWherePreempted ==
    /\ mode = "user" /\ current_process # NULL => eip = at[current_process]
    /\ \A p \in Runnable :
          mode = "loop" \/ p # current_process => context[p] = at[p]

\* A process executes in its own address space, also after create_process has
\* switched to the child's and back, and the PDPT agrees with current_vmm.
OwnAddressSpace ==
    mode = "user" /\ current_process # NULL =>
        /\ current_vmm = current_process
        /\ pdpt = current_process

\* The list is in creation order, so it has no cycle and add_process's walk
\* ends; the idle process is never on it, and never gets a successor.
ListInOrder ==
    /\ \A p \in Listed : next[p] # NULL => next[p] > p
    /\ Idle \notin Listed
    /\ next[Idle] = NULL

\* S is the list with head h and next fields n: each process is followed by
\* the least one above it, and the last one by nothing.
IsList(S, h, n) ==
    /\ S \subseteq 1 .. MaxPid
    /\ h = NULL => S = {}
    /\ h # NULL => h \in S /\ \A q \in S : h <= q
    /\ \A p \in S :
          \/ n[p] = NULL /\ \A q \in S : q <= p
          \/ n[p] \in S /\ n[p] > p /\ \A q \in S : q > p => q >= n[p]

\* How far kernel_main has come decides what exists.
BootOK ==
    /\ initialized <=> phase \in {"sched", "term", "armed"}
    /\ ~initialized => next_free_pid = 0
    /\ initialized => next_free_pid >= 1
    /\ phase # "armed" => mode = "user" /\ current_process = NULL
    /\ mode = "loop" => initialized

\* What was never created has not run, and the list holds only what was.
CreatedOK ==
    /\ \A p \in Listed : p < next_free_pid
    /\ \A p \in Pid : p >= next_free_pid => at[p] = 0

\* The idle process is never marked, cut or put on the list.
IdleOK ==
    /\ next[Idle] = NULL
    /\ status[Idle] \in {"READY", "RUNNING"}

\* The inductive invariant behind the properties above.
IInv ==
    /\ TypeOK
    /\ IsList(Listed, process_list_head, next)
    /\ BootOK
    /\ CreatedOK
    /\ IdleOK
    /\ OthersReady
    /\ NoDangling
    /\ ResumesWherePreempted
    /\ OwnAddressSpace

\* A runnable process past the first write of kill_current_process is marked
\* DEAD: schedule() deletes it instead of making it READY again.
DyingIsDead == \A p \in Runnable : at[p] > Body => status[p] = "DEAD"

\* A process leaves the list only by dying while it runs, or by standing
\* behind one that does (line 154 cuts everything behind the dying process).
\* Neither add_process nor an ordinary turn of schedule() loses anybody.
LeavesListOnlyByDeath ==
    [][\A p \in Listed \ Listed' :
          /\ current_process # NULL
          /\ status[current_process] = "DEAD"
          /\ p >= current_process]_vars

\* delete_process unlinks the dead process and nobody else, also when the
\* timer came between the two writes of kill_current_process, so that the
\* dying process still had its successors.
ReapUnlinksOnlyTheDead ==
    [][procs' # procs /\ mode = "loop" =>
          Listed' = Listed \ {current_process}]_vars

\* In wordOS only the terminal heads the list and it never exits, so the
\* branch of delete_process that forgets the context is never taken.
NoContextLeak == ctxs = procs

\* A process that called kill_current_process is freed in the end, whichever
\* of its two writes the timer lets it reach.
DeadReaped ==
    \A p \in Pid : (p \in procs /\ status[p] = "DEAD") ~> p \notin procs

\* A process on the list gets the CPU, unless a dying one cuts it off.
ListedRuns ==
    \A p \in Pid : p \in Listed ~> (current_process = p \/ p \notin Listed)

\* The terminal gets the CPU again and again.
TerminalKeepsRunning == []<>(mode = "user" /\ current_process = Terminal)

\* README.md: "Scheduler -> round robin": every process that was created and
\* is ready gets its turn.
RoundRobin ==
    \A p \in Pid \ {Idle} :
        (p \in procs /\ status[p] = "READY") ~> current_process = p
=============================================================================
