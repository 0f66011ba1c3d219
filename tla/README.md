# wordOS in TLA+

A verification development for the wordOS kernel (`src/kernel`), a small
single-core i386 kernel with PAE paging, a preemptive scheduler, a PS/2 keyboard
driver, an AHCI driver and a text terminal. TLA+ modules model the parts that
carry its state, TLC checks them on small instances, and TLAPS proves most of their
safety properties for every value of the constants. Line numbers below are those of
the source files named in `PROJECT.json`.

## 1. Inventory

| Part | State | Operations | Module |
|---|---|---|---|
| Start-up (`kernel/kernel.c`, `multiboot/mb_parse.c`) | how far `kernel_main` is, the boot loader's tags | the calls from `init_multiboot` to `init_keyboard`; the rest up to the first process | `StartUp`; `Scheduler` (`Boot`) |
| Scheduler (`kernel/scheduler.c`) | process list (head and `next` fields), status, saved context, `current_process`, `next_free_pid`, `initialized` | `create_process`, `add_process`, `delete_process`, `kill_current_process`, `set_current_process_idle`, `schedule` | `Scheduler` |
| Interrupt entry (`kernel/idt.c`, `idtStub.s`) | interrupt flag, CPU registers | vectors 0x30 timer, 0x31 PIT, 0x32 keyboard, 0x33 disk, 0x80 create a process, page fault | `TimerIrq`, `end_calibration`, `KeyIrq`, `handle_ahci_interrupt`, `Spawn`, `AfterFault` |
| Keyboard (`drivers/keyboard.c`) | `key_buffer`, `key_buffer_pos`, `current_masks` | `handle_keychange` | `Keyboard`, `KeyChannel` |
| PS/2 controller (`drivers/ps2.c`, `keyboard.c`) | the 8042's configuration and its buffers | `init_ps2_controller`, `init_keyboard` | `Ps2` |
| Terminal loop (`programs/terminal.c`) | `key_buffer_tail`, the event in hand | `next_keycode`, `terminal_loop` | `Keyboard` |
| Terminal text (`programs/terminal.c`) | `text_buffer`, `textbuf_loc`, `cur_lines`, `user_chars`, `user_char_index` | `printf`, the two writers, the scroll, `write_user_char`, `parse_user_chars`, the layout on the screen | `Terminal` |
| Kernel heap (`memory/heap.c`) | headers in memory, `cur_heap_pos` | `init_heap`, `kalloc`, `kfree`, `rekalloc` | `Heap`, `KernelHeap`, `PaeSwitch` |
| Page frames (`memory/pmm.c`) | the frame bitmap | `kinit`, `get_first_frame`, `set_frame`, `clear_frame`, `alloc_phys_page`, `transfer_dynamic` | `AddressSpaces`, `PaeSwitch` |
| Paging (`memory/paging.c`) | page directories and tables, TLB | `memory_map`, `init_pae`, `pae_mmap`, `pae_unmap`, `create_new_pae_pt` | `PaeSwitch`, `AddressSpaces` |
| Virtual memory manager (`memory/vmm.c`) | `current_vmm`, the directories and free pages of each vmm | `create_vmm`, `vmm_transfer_dynamic`, `set_current_vmm`, `vmm_page_alloc`, `vmm_page_free`, `alloc_stack` | `RBTree`, `PaeSwitch`, `AddressSpaces`, `Scheduler` |
| Free-range tree (`utils/rbtree.c`) | red-black tree of free ranges, its store of nodes | `make_node`, `insert_node`, `delete_node` | `RBTree` |
| Local APIC, I/O APIC, PIT (`drivers/apic.c`) | the flag `calibrating`, the routing, the PIT | `init_apic`, `init_ioapic`, `calibrate_timer` | `Calibration` |
| PCI and ACPI (`kernel/pci.c`, `acpi/acpi.c`) | the controller that was found | `brute_force`, `handle_device`, `ahci_action`, `cache_tables` | `Disk`, `StartUp` |
| AHCI (`kernel/ahci/ahci.c`), array list (`utils/arraylist.c`) | the list of ports, the registers of one | `init_ahci_controller` and the commands it issues, the interrupt | `Disk` |
| FAT, GDT, boot code, C library | | | not modelled |

How the parts interact:

- *Start-up.* `kernel_main` calls one part after the other. Memory comes first; the
  timer is calibrated with interrupts on, the PAE tables replace the old ones, the
  disk and the keyboard controller are driven by polling while their interrupts are
  already possible.
- *Timer and process.* Vector 0x30 may come between any two instructions of a
  process. It saves the registers into `current_process->context`, walks the
  list, frees a dead process, and loads another process's address space and
  registers. The handlers of 0x30 and 0x80 run with interrupts off.
- *Keyboard interrupt and terminal.* They share a ring of key events without a
  lock: the handler moves the head, `next_keycode` moves the tail.
- *Terminal and scheduler.* The command `woof` starts a process through vector
  0x80; the process prints and calls `kill_current_process`, which marks it and
  leaves the rest to the timer.
- *Everybody and the heap.* A process costs two heap blocks, which the timer's
  `delete_process` frees; each command costs one.
- *Creation and memory.* `create_new_pdptes` takes frames, prepares three
  directories through one temporary page, enters the new address space, maps the
  vmm and a stack there, and returns to the parent's.

What is hard here, and what correctness means:

- The timer's place is arbitrary: between the two writes of
  `kill_current_process`, before `init_scheduler`, during `next_keycode`. The
  list must stay a list, nothing freed may be followed, every process must go on
  where it was, in its own address space, and in the end everybody listed runs.
- The ring must deliver in order and at most once, also when it overflows, and
  no key may wait for ever because the terminal halted at the wrong moment.
- The heap's links are only partly maintained, and so are those of the tree of free
  memory, so the question is which sequences of calls are safe.
- A frame is given back while it is still used (`pae_unmap`), so the question is
  who gets it next.
- The old page tables are copied while the copy itself maps pages into them.
- The drivers' waits may have no end, their commands go through shared slots and
  ports, and their interrupts may come before what the handlers use is there.
- The text buffer has no bounds check; only the scroll keeps it finite.

The `hazards` of `PROJECT.json` list these and others at their lines, with the
properties that would notice them.

## 2. Modules

`MC*` modules only give constants values that a cfg cannot write. `*Proofs` modules and
`LeastElements` hold the theorems (section 4).
Operators named `Bug...` are faulty variants of the definition behind them and are
used by nothing but the mutation tests listed in `PROJECT.json`.

**StartUp** composes `Calibration`, `PaeSwitch`, `Disk` and `Ps2`, each of which has
its own state and actions, in the order of `kernel_main`; `stage` is the phase or the
end (`"run"`, `"panic"`, `"reset"`). The tags the boot loader passes, the ACPI
tables and the framebuffer type are inputs; an RSDT may go on in a second page, which the
kernel fails to map (mb_parse.c:146). The mapping of ACPI pages, which may take frames for
page tables, is `MapRsdt` and part of `MapLapic` in `PaeSwitch`. A phase that is over goes
back to its first state (`PaeOver`), since nothing reads it again. A fault ends in a panic once the terminal
exists; before that the fault handler prints through a null pointer and faults again,
which ends in a reset (`AfterFault`). The hardware works beside the kernel: PIT
interrupts during the calibration, the disk's engine and its interrupt, keys during the
keyboard dialogue.

**Calibration.** `calibrate_timer` flag by flag and the handler that clears the flag.
The firmware may have left the PIT ticking, and `init_ioapic` routes it before the
loop programs it; `early` and `short` record a sample that such a tick has ended.

**PaeSwitch.** Tables of the old directory are sequences of frames; `use` says what the
pages of the dynamic area are for. `transfer_pages_to_pae` copies table after table,
each copy preceded by the `page_kalloc` of its own page. A second half is stored without
its present bit (paging.c:291), so a new table keeps the first half only. The place of the
switching code within its pages is arbitrary.

**Disk.** `brute_force` is a stack of buses over any topology; a device with several
functions is read as a bridge. Of the controller only the bits that decide what
happens are kept: the interrupt enables and conditions, the engine, the issued
slots, and what header and table of slots 0 and 1 ask for. `Complete`,
`EngineStops` and the contents of the registers at the start are external.

**Ps2.** A byte is the set of its bits, the 8042 a record whose differences between
real controllers are left open, and a stretch of the driver that cannot be told apart
from outside is one action. `ps2_send_dbyte` writes both bytes to the command port
(ps2.c:83), so the byte that command 0x60 waits for is whatever is next written to the
data port, and the configuration byte is taken for a command: for some values one that
reads or writes the controller's memory (`AsCommand`; `ram` says whether the controller has
these commands). `Waits` is a wait without limit for a controller that is not there
or falls silent; the sends that do have a limit may give up on a slow one. `disturbed`
records whether the read of line 232 can have got another byte than the configuration: one
that had been left unread before, a key, or a late answer, or an interrupt handler came
first. A key may be pressed whenever the port is on.

**Scheduler.** One variable per global of `scheduler.c`, a function from pids for
each field of `process_t` (`next`, `status`, `context`), the sets `procs` and
`ctxs` of allocated process and context blocks, the CPU's `eip`, `current_vmm`
and the PDPT. Programs are positions: `Body` steps of their own, then the two
writes of `kill_current_process`, then its `hlt` loop. `Exits`, `Spawns` and
`Yields` say whose program does what. `schedule` is three kinds of steps, because
its loop frees memory and follows pointers as it goes: `TimerIrq` (save),
`LoopTurn` (delete or requeue, go to the next), `Dispatch` (wrap to the head or
to idle, load). They run with interrupts off, which `mode` records.
`Boot` follows `kernel_main`: the timer already runs when `init_scheduler` has
not been called, and an early 0x30 returns at `!initialized`.

**Keyboard.** The port's bytes are a queue (`wire`) that the keyboard fills.
`KeyIrq` and `KeyIrqEarly` are the handler, whole: the second is the case in which
the byte behind an 0xE0 prefix has not arrived and `key_codes[4]`, never written,
is taken for the key, so any event may be stored. `next_keycode` is three steps
(`Check`, `Advance`, `Fetch`) because interrupts are on; `Halt` is separate from
`Check` for the same reason. Events are numbered, as history, in the order they
were stored.

**KeyChannel, KeyboardChannel.** `KeyChannel` is what the ring promises: a channel of
capacity `N` in which `Send` and `Receive` are atomic, that keeps order and content,
and loses its oldest event only when it is full. `KeyboardChannel` states that
`Keyboard` implements it: the channel holds the slots' events beyond the newest one
fetched, `Send` is the handler, `Receive` is `Fetch`, all else stutters.

**Heap, KernelHeap.** Memory in units of 16 bytes (one `mem_header`). `hdr[a]` is
what the kernel would read at `a`; a client writes its whole block, which puts
`Junk` there, so following a stale link into a block is visible (`wild`), and so is a
link that leads out of the heap. `Sound` also asks that no client has written behind
`cur_heap_pos`, since `kalloc` takes that memory to be clear. `Heap` has arbitrary clients; `KernelHeap` has the kernel's: the command buffer, and the
two blocks of each started process, with the sizes of the real structures and of
`max_char_x` for the usual screens. `create_process` and `delete_process` run with
interrupts off and are one step each. The terminal's own `kalloc` and `kfree` do not:
`command` and the variables of the two functions (`cur_node`, `past_node`, `node_next`,
`node_prev`) take them apart into one step per block of the walk, split, mark or new
block, and per link and merge, with `Dies` possible between any two. `raced` records that a
process was deleted in the middle of such a call; even a single one can then spoil the heap
(section 3), so both properties are about what happens without that. The model stops
once the heap is not sound.

**RBTree.** The pointer operations are operators from one state of all nodes to the
next; left and right variants are one operator with a direction. Clients allocate and
free in any order. The model stops at the first damage and keeps its cause
(`t.fault`): the flaws of `delete_node` named in section 3 are causes, so that what
holds until one of them strikes can be stated and checked. `freed` tells wordOS's own
use, which never frees, from the rest. `create_vmm` takes `high` for the size of the first
range (vmm.c:59), so the tree begins with the pages meant (`Meant`) and those behind the
end (`BehindHigh`). `vmm_page_free`, which has no caller, reads the page table at its
physical address: it faults, returns without effect, or puts the page back. The code's descents and climbs (`Descend`,
`BestFrom`, `Rightmost`, `insert_violations`, `Rebalance` for the cases of
`delete_violations`) are recursive functions.

**AddressSpaces.** `frames` is the bitmap; `ent[f]` is what frame `f` holds, read
as a page table; `vm[p]` names each process's frames by role. `create_process` and
`create_new_pdptes` are one action per call that changes memory, with `pc` for the
place; interrupts are off, so nothing else happens in between. The TLB entry of
`TEMP_PAGE_VIRT` is a variable, since three directories are written through that
page. Walks through the recursive entry (`Through`) can fault. No caller gives
pages back and every split leaves one free range, so a vmm's tree is always
one node (`OneNodeWithoutFrees` of `RBTree`, proved for any number of pages) and `kpage`, `Low`, `Low + 1` stand for
its answers. Every creation takes a node of the kernel vmm's store that is never used
again: `knodes` counts those left, and `OverrunsStore` is the creation that finds none and
writes behind the page (rbtree.c:13); the model stops there. A process's own vmm uses three
nodes of its store.

**Terminal.** `text` is the buffer with its location and line count and whether a
store went past its end. Characters are letters, spaces, ends of lines, 0 and the mark
of a colour escape. `Write` is one turn of the loops of the two writers, which differ in
the number of lines (`most`) from which they scroll, `Written` the whole loop, and
`print_line` a message with the line that ends it; the positions of the 0s matter, because the scroll and the drawing
stop there, and because `write_user_char` also writes behind `textbuf_loc`. The
terminal is the only writer, after the boot messages, which may contain numbers and
colours.

## 3. Runs

| Run | Instance | Shows |
|---|---|---|
| `sched_any` | 5 pids, any of them but idle may create, yield and exit | the list, the contexts and the address spaces stay right |
| `sched_wordos` | the terminal and the processes it starts, fair | no context leaks; the dead are freed; everybody listed, and the terminal again and again, runs |
| `sched_round_robin` | one process fewer, fair | **violated:** a dying process takes those behind it off the list, so a READY process never runs |
| `kb_ring` | ring of 3, 5 events, a shift, an ordinary and a prefixed key, fair | the ring implements the channel; order, no loss below capacity, every waiting event is fetched |
| `heap_any` | 14 units, three sizes, two growths | `kalloc` never damages the heap; `kfree` and `rekalloc` only after a link has become stale |
| `kheap_one` | one started process at a time, nine screen widths | the heap stays sound and does not grow, unless a process is deleted in the middle of the terminal's `kalloc` or `kfree` |
| `kheap_two` | two at a time | **violated**, with no call disturbed: a stale `prev` link makes `kfree` add a block's size to one that is not in front of it |
| `spaces` | 27 frames, 5 processes, with creation, dispatch and death | frames are not shared, address spaces stay intact, creation never faults, up to and including the panic; the kernel's node store is overrun only after as many creations as it had nodes left |
| `spaces_high` | same | **violated:** `pd_high` loses its recursive entry |
| `term_alone` | 10 by 3 characters, 3 messages, 3 typed characters | the buffer is never overrun, all text is drawn, the prompt is below it, the command is the word typed |
| `rbtree` | 2 vmms, 6 pages and 8 nodes each, allocations of 1 and 2 pages | until `delete_node` does damage the tree holds the free pages of the range and those behind its end that `create_vmm` adds, and no others, in order; best fit; insertion keeps it red-black; without frees it is one node |
| `startup` | all phases; 3 samples, tables of 7 entries, 3 buses of 2 devices, fair | the PAE switch loses no page; frames are given once; short samples come first only; the disk handler has a port; the command issued is the one carried out; the keyboard is usable unless the last read of its configuration was disturbed; start-up ends, or hangs in one of three waits |

Each violated run is a finding in `PROJECT.json`, with the sentence of the source
that the property restates.

**Bounds.** *Scheduler:* `MaxPid = 4` gives idle, the terminal and three more, so a
list of four with a process dying at the head, inside and at the end, twice;
`Body = 2` lets the timer come before, between and after the steps. *Keyboard:*
five events lap the reader of a ring of three at every place of `next_keycode`;
`MaxWire = 2` holds a prefix and its byte. *Heap:* 14 units hold four
blocks, enough for a split, a merge on either side and a stale link
beyond both. *KernelHeap:* no bound on the number of commands and deaths, only on
processes at a time; the state space is finite because memory is recycled.
*AddressSpaces:* the proportion of `num_frames` (2560) to the last frame (3840) is
kept, so creation is seen below the limit of `clear_frame`, across it and above it,
and runs out of frames in the middle; `kpage` starts anywhere, so the kernel's own
table fills up at every place. A store page holds about 125 nodes, of which booting leaves
the kernel some 95; `NodesLeft = {3, 9}` shows a store that runs out first and one that
outlasts the frames. *Terminal:* three rows are scrolled many times
over; the lengths keep each line, with its answer and its end, within the width,
which is the condition under which the buffer is safe. *RBTree:* eight nodes for six
pages allow every shape of tree of up to six nodes, every case of insertion, and
the overrun of the store. *StartUp:* three samples are a first, a middle and a last one;
`Half` needs `HeapPages + 5` entries (12 real pages and their successors are far below
the real 512, and 7 is the least that keeps this order); `CodeEnd = 12` quarters of a
KiB is the longest switching code the rounding allows, several times the real one
(0x16b bytes in a build); three buses allow a bridge behind a bridge and a way back to
each; the ACPI tables that are looked up need at most one page table more; a key is
pressed only when the keyboard has nothing else to say, and every key is A, whose code
read as a configuration turns the port off.

`spaces`, `rbtree`, `heap_any` and `kheap_one` may stop (a panic, no memory within the
bound, the first damage), and so may `startup`, whose ends are what `StartUpEnds` is about; these
runs do not check for deadlock. All other passing runs do.

**Fairness.** *Scheduler:* weak fairness of start-up, of the armed timer and of the
handler's steps, because the CPU does not stop and the APIC timer is periodic;
strong fairness of a program's own step, because a quantum is long enough for
some instructions: a process dispatched again and again gets something done.
There is none on creating, yielding or pressing keys. *Keyboard:* weak fairness of the
terminal and of the timer's waking it, the latter by `TerminalKeepsRunning`.
*StartUp:* weak fairness of the kernel's own steps (nothing preempts `kernel_main`),
of a PIT that is routed and running, and of a disk engine that was told to stop. None of
keys, of commands the disk carries out (their waits have a limit), or of the disk's
interrupt.

**External parts.** The 8042, the PIT, the AHCI controller and the firmware are modelled
from how the code uses them. The runs rest on these assumptions: the firmware leaves the
interrupts of a disk port off; the 8042's self test leaves its configuration alone, a write
to it that does not look at its status finds its input buffer empty, and one with memory
commands holds a single answer; nothing is assumed of whether there is an 8042 (`Waits`); the
boot information lies in the first half of the image's table and its frames are reserved.
`kinit` does not compute what to reserve: it marks the first 48 frames, a number written
into the code (pmm.c:143-149), and that image and boot information lie in these is an
assumption of the code as well. The image is below 2 MiB; the
address of the local variable that `vmm_transfer_dynamic` hands to `memory_unmap` is not a
multiple of a page.

**What the code turned out to do.** Beside the findings, reading the source for the
models showed:

- `ps2_send_dbyte` sends its second byte to the command port (ps2.c:83). The reset byte
  that follows goes where the configuration was expected, which is why it has to be sent
  twice (keyboard.c:180). The test of the first port is inverted (keyboard.c:154): 0 is
  the answer of a port that works. On the controllers of `Ps2` the keyboard's port is on
  and translates all the same when the configuration is read for the last time. That read
  does not look at the status: a key pressed between lines 231 and 232 of keyboard.c is
  taken for the configuration and written back. For A (0x1E) this turns the keyboard's port
  off and its translation too, and the keyboard is dead from then on.
- The waits of ps2.c:60, 81 and 88 have no limit; on a machine without an 8042, whose
  status reads as 0xFF, the first of them does not end (keyboard.c:114: "We will pretend
  it exists").
- A process deleted in the middle of the terminal's `kalloc` or `kfree` spoils the heap,
  also if it is the only one. `kfree` that has read its links (heap.c:84) goes on to merge
  with a block that the deletion has merged meanwhile, and the sizes lead past the end of
  the heap; `kalloc` that has decided not to split (heap.c:42) marks a block that
  has grown meanwhile, and the rest of it is lost until the block is freed.
- `create_vmm` passes `high` where `make_node` takes a size (vmm.c:59), while kernel.c:230
  documents "0xCC000000 - 0xFFE00000" as "the range of dynamic memory": the kernel's first
  free range is 0xFFE00000 bytes long and wraps around past 4 GiB, and a process's, meant to
  end at 0xC0000000, reaches 0xC0010000. The documented end is not reached: the node store
  is overrun long before. `vmm_page_free` follows a physical address and masks the index
  with `~0x3FF` (vmm.c:219, 225), so that it faults or returns; it has no caller.
- `init_rsdt_v1` masks the address of the RSDT's second page with `~0xFFF + 4096`, which
  is 0 (mb_parse.c:146): page 0 is mapped instead, and `cache_tables` may fault.
- `init_pae` looks for CPUID's PAE bit in `eax`, which holds the processor's model
  (paging.c:312), and the second half of each old table is not present in the new
  ones (paging.c:291). No page in use lies there.
- `validate_RSDP` sums up 19 of the 20 bytes and takes 0 for an error
  (mb_parse.c:134): a table above 16 MiB, as usual, passes.
- `init_ioapic` takes the first interrupt source override for the PIT's; if it is
  another one, `calibrate_timer` never ends (apic.c:167).
- The capability offsets are added up (pci.c:60), a device with several functions is
  taken for a bridge (pci.c:112), and `struct HBA_ports` is 100 bytes and not 128
  (ahci.h:63), so that only port 0 is ever recognised.
- `post_ata_command` issues slot 0 whichever slot it has built; only because nothing
  else is ever in flight is it the right one (ahci.c:153).
- `delete_node` of the only node follows its null parent; with two children it drops the
  left child of the replacement, and with one child it leaves stale parent pointers
  (rbtree.c:287, 322); `vmm_page_alloc` always passes the kernel's root (vmm.c:194); and
  a node that was given up is never used again (rbtree.c:13). As wordOS never frees a page,
  only the first and the last of these can be reached: when the last page is taken, or
  after as many allocations as a page holds nodes. The latter comes first: some 95
  processes after booting, the kernel's store is overrun.
- One bit stands for both shift keys (keyboard.c:98), and a first line longer than the
  screen is wide cannot be scrolled away (terminal.c:151).
- A fault before the terminal exists faults again in the handler that prints it.

## 4. Proofs

Each theorem holds for every value of the constants that the named assumption of its
module allows; the property it states is the one the run checks on a small instance,
except for `HeapTyped`, whose property no run lists, and `NothingLostWithoutFrees`, which
states a part of one. A theorem with a hypothesis of its own says so below. `LeastElements` has two shared lemmas: a nonempty set of naturals has a
least element and, if bounded, a greatest one. They stand in for induction wherever the
argument is "take the first exception".

**`SchedulerProofs`**, for any number of processes, programs of any length and any
`Exits`, `Spawns` and `Yields`: `TypeOK`, `OthersReady`, `NoDangling`,
`ResumesWherePreempted`, `OwnAddressSpace`, `ListInOrder`, and the action properties
`LeavesListOnlyByDeath` and `ReapUnlinksOnlyTheDead`. None of these is inductive, since
each says what holds of the processes *on the list*, and the list is what the pointers make
it. `IInv` adds `IsList`: the set of listed processes is in creation order, each process's
`next` is the least one above it, and the last one's is null. With that a pointer write has
a set-level meaning, which the lemmas `AppendProcess`, `CutList`, `RemoveHead` and
`RemoveInner` state: `add_process` adds an element, line 154 cuts off what is behind,
`delete_process` removes one. `BootOK`, `CreatedOK` and `IdleOK` say what exists at each
stage of start-up, that a process not yet created has not run, and that idle is never
marked or linked. The two action properties need `DyingIsDead` as well: whoever is past
line 152 is marked DEAD. `NoContextLeak` is proved for a terminal that never exits, as in
wordOS (`ContextsAreFreed`): `TerminalHeads` says that the terminal is at the head of the
list, so `delete_process` never takes the branch that keeps the context.

**`KeyboardProofs`**, for every ring size of at least 2 and any number of events: `TypeOK`,
`InOrder`, `NoLossBelowCapacity`, and the refinement `ImplementsChannel`. `RingNumbers`
says which event is in which slot, by its distance from the head; `TailBehind` and
`TailAhead` say where the tail is outside and inside the window between lines 445 and 446.
In each, the tail agrees with the newest event fetched unless the handler has lapped it,
which is exactly the exception in `NoLossBelowCapacity`. For the refinement,
`WaitingNumbered` gives the events of the abstract channel their numbers, `PostSends`
shows that the handler is a `Send` (which loses the oldest event exactly when all slots
hold unread ones), `FetchReceives` that `Fetch` is a `Receive`, and every other step stutters.

**`StartUpProofs`** has four invariants, one for each phase, none of which mentions the
others: a step of one phase leaves the variables of the rest alone (`CalStep`, `DiskStep`,
`Ps2Step`).

- `CalInv`, for any number of samples: as long as a PIT tick can come before the one-shot
  is armed, every sample so far was short. Hence `ShortSamplesFirst`.
- `DiskInv`, for any number of buses and devices and any topology: the port exists before
  its interrupt can come (`HandlerHasPort`), and nothing is in flight in slot 0 while a
  command is built (`CommandCarriedOut`).
- `Ps2Inv`, for every controller of `Ps2` and any mixture of answers and keys: the lemmas on
  `Cmd` and on the data port say which bits of the configuration each stretch of the
  driver can change, and `Quiet` that an undisturbed read gets the one answer there is,
  the configuration. Hence `UsableUnlessDisturbed` (`KeyboardUsableUnlessDisturbed`). A
  version without `disturbed` is false, as section 3 shows.
- `PaeInv`, for every heap size and table size that `PaeSwitchAssumption` allows: frames
  are marked without a gap (`FrameTop`, with up to three tables for ACPI pages), that
  they are those of `kinit` until the RSDT is mapped (`FirstFrames`), the number of pages given out at each place of
  the code (`GivenOut`), their order (`AreaOrder`, `TableOrder`), and which entries have
  been copied so far (`Copies`). Hence `FramesGivenOnce` and `PagesKept`.

**`AddressSpacesProofs`**, for any number of frames and processes: `TypeOK`,
`InUseIsMarked`, `FramesNotShared` and `OwnPages`. `pae_unmap` gives `pd_high`'s frame back
while it is in use, so `FramesNotShared` is not inductive. `BelowMarked` is what saves it:
until the page table is made no frame below `pd_high` is free, so whatever is asked for
next is `pd_high`'s frame and goes to the same process, and `NotShared` allows just that
pair. `RolesTaken` says which frames a process has at each place of `create_new_pdptes`,
`TablesSoFar`, `AllBuilt` and `Loaded` what the tables hold, which is what `Through` needs
in order not to fault. `NodesCount` says that creations and nodes left add up to what
booting left, so that a store is overrun by no earlier creation.

**`HeapProofs`**, for a heap of any size and any requests: `HeapTyped`, `KallocKeepsSound`
and `WellLinkedIsSafe`. The walk from header to header is a recursive function, about which
nothing can be proved by induction here. `IsWalk(S, h, pos)` describes its result instead:
a set of addresses from the first unit on in which every block ends where the next one
begins. `WalkIs` and `WalkEnds` show that this set is the walk's, through the least address
at which the two differ. From then on a call of the heap is a change of that set:
`SplitWalk`, `ExtendWalk`, `MergeWalk`, `ShiftWalk` and `WriteWalk` say what becomes of it
when a block is cut, appended, merged, moved up or written by its client. `Gives` is
what `kalloc` promises, and `KallocGives` that it does so whatever the links are. `KfreeWalk`
needs the links; `LinksRight` derives what it needs from `WellLinked`. The invariant is
`TypeOK` with `HeldOnce` (no block has two owners) and the finiteness of `live`, over
which `KallocKeepsSound` counts.

The second half of the module is about `KernelHeap`, for a screen of any width: `HeapSound` and `HeapDoesNotGrow`, with
the hypothesis `MaxAlive = 1` (for two the run `kheap_two` has a counterexample). Both hold
as long as no process was deleted in the middle of the terminal's `kalloc` or `kfree`, and so
does the invariant (`RInv` is `~raced => KInv`). Soundness
alone is not inductive, because the links do become stale. `KInv` lists the phases of the
terminal with the blocks held in each, and for each phase the layouts the heap can have,
as functions of the buffer's size: `One`, `Two`, `Four`, `Three` and `Whole`, with `Mid` and
`Cut` between the two allocations of `create_process`; in the middle of a call it also says
where the walk is and which links have been read. One lemma for each call or step shows to
which layout it leads (`PartWhole`, `ProcessThree`, `JoinThree`, `DiesFree` and the others). The only
stale link is the `prev` of the free block in `Three` or `Cut`, and each way out of these
layouts replaces it or merges the block into the buffer.

**`TerminalProofs`**, for a screen of any size. `CommandIsTyped` holds for a line of any
length: `LineInv` relates the columns behind the prompt to the line as edited, and says
that the last column is never written, which is what ends a full line.

`TypeOK` (no store goes past the end of the buffer), `AllTextDrawn` and `PromptBelowText`
have the hypothesis `LinesFit`: the screen has two rows, and every message, alone or behind
a number or the command it answers, fits on a line together with its escape and its end. It
is needed, because a first line that is longer than the screen is wide cannot be scrolled
away (terminal.c:151); the instance of `term_alone` satisfies it. None of the three is
inductive. `scroll_text_buffer_down` moves as much as lies before the first 0, behind the
first end of a line that it finds within the width, so what it does depends on where all
line ends are. `TextInv` names these places: there is a sequence `e`, with steps of at most
the width (`Stairs`), such that line `k` ends right before `e[k]` and nowhere else (`Ends`).
To this it adds that there is no 0 before `textbuf_loc` (`Full`), that no escape is cut in
two (`WholeEscapes`), and that behind `textbuf_loc` there is nothing but what the user has
typed, up to the furthest column reached (`Echo`). A scroll shifts `e` down by one line
(`Lowered`), a character appends to it or not, and the number of lines is that of the steps.
The loops over characters are recursive functions; `WrittenTurns` and `RowsDrawnIs` show
that these functions exist and obey their equations, by taking the first turn at which they
would not. A message is then followed turn by turn in the same way, and `PromptBelowText`
compares the turns of the drawing with `e`.

**`RBTreeProofs`**, for any number of pages, slots and lengths: `OneNodeWithoutFrees`, and
with it `NothingLost` as long as no page has been put back (`NothingLostWithoutFrees`).
This is wordOS's own use: nothing calls `page_free` or `page_kfree` there, and
`AddressSpaces` rests on it. The number of nodes in a tree does not say what the next
`delete_node` does. `OneNode` adds which slot the node is in, that it has neither parent nor
children, that no other slot is in use, that no slot at all has a child pointer left, and
that the pages handed out are the first `n`. With no child anywhere the searches `Descend`,
`BestFrom` and `Below` have an evident solution, which is how the proofs get at recursive
functions without an induction. `MakeSecond` follows `make_node` for the rest of the range
(it hangs below the root, painted black, so `insert_violations` is not called), `TakeOutFirst`
`delete_node` (the child is red, so `delete_violations` stops at once, and no root moves),
and `StoreFull` and `LastTaken` are the two faults that remain.

**Only model-checked.**

- Liveness is out of the prover's reach: `DeadReaped`, `ListedRuns`,
  `TerminalKeepsRunning`, `WaitingIsFetched`, `StartUpEnds`.
- `NothingLost`, `InsertKeepsRedBlack` and `BestFit` of `RBTree` once pages are put back:
  then trees have any shape, and what a descent, or the climb of `insert_violations` and
  `delete_violations`, computes in them is an induction over the tree.

## 5. Not modelled, and why

- Processes that print while the terminal prints: both writers would have to be taken
  apart into single stores and composed with the scheduler, which no useful size of the
  buffer lets TLC explore.
- What comes before `init_multiboot` (GDT, IDT, `pg_init`, `init_kpt`, `disable_pic`) is
  straight-line set-up and part of the initial states.
- `read_identify`, which copies and prints fields; pixels, glyphs and colours, which
  no other part reads; FAT, a reader of headers only; the C library.
- Code without a caller: `ahci_read`, `ahci_write`, `pae_page_free`, `find_node`,
  `al_delete_item`, `handle_masks`, `get_sdt_by_signature`.

## 6. Plan

The model is complete as far as section 5 allows, and every invariant of a passing run is
proved, `NothingLost` for wordOS's own use. What is left:

1. A rank for the nodes of `RBTree` as a history variable, by which "the first exception"
   can replace the induction over trees: `BestFit` and the parts of `NothingLost` that do
   not depend on the fix-ups first.
2. What the layouts of `KernelHeap` become with a second process, up to the state in
   which `kheap_two` fails, and after which of the races of one process the heap is still
   sound.
