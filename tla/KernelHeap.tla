----------------------------- MODULE KernelHeap -----------------------------
(***************************************************************************)
(* The heap under the kernel's own run-time clients: the command buffer of *)
(* parse_user_chars (kernel/programs/terminal.c), and the process_t and    *)
(* context that create_process allocates and delete_process frees          *)
(* (kernel/kernel/scheduler.c).  The processes are the ones the command    *)
(* "woof" starts, in list order; each ends in kill_current_process.        *)
(*                                                                         *)
(* create_process and delete_process run with interrupts off.  The         *)
(* terminal calls kalloc and kfree with interrupts on, and the timer may   *)
(* come, and a process be deleted, between any two steps of them.          *)
(***************************************************************************)
EXTENDS Heap, Sequences

CONSTANTS MaxAlive,    \* bound: processes the user keeps running at a time
          CommandSizes \* the values max_char_x can take, one per screen width

ASSUME KernelHeapAssumption ==
    MaxAlive \in Nat /\ CommandSizes \subseteq Nat \ {0}

ProcessBytes == 84     \* sizeof(process_t)
ContextBytes == 64     \* sizeof(cpu_status_t)

VARIABLES max_char_x,
          command,     \* what parse_user_chars is doing, down into heap.c
          buffer,      \* its command buffer
          barks,       \* the processes on the list behind the terminal
          cur_node,    \* kalloc's variables, in the terminal's call
          past_node,
          node_next,   \* and kfree's
          node_prev,
          raced        \* history: a process was deleted in the middle of a call

locals == <<cur_node, past_node, node_next, node_prev>>
kvars == <<vars, max_char_x, command, buffer, barks, locals, raced>>

InCall == command \in {"walk", "fits", "take", "new", "next", "prev"}

KInit ==
    /\ Init
    /\ max_char_x \in CommandSizes
    /\ command = "boot"
    /\ buffer = Null
    /\ barks = <<>>
    /\ cur_node = Null /\ past_node = Null
    /\ node_next = Null /\ node_prev = Null
    /\ raced = FALSE

BlockAt(a) == CHOOSE b \in live : b.at = a

\* The last of the blocks that are allocated while booting and never freed:
\* the terminal's context.
Boot ==
    /\ command = "boot"
    /\ Alloc(ContextBytes)
    /\ command' = "none"
    /\ UNCHANGED <<max_char_x, buffer, barks, locals, raced>>

-----------------------------------------------------------------------------
(* parse_user_chars up to line 414, with kalloc in steps.                  *)

Size == RoundUp(max_char_x)

CommandBegins ==
    /\ command = "none"
    /\ command' = "walk"
    /\ cur_node' = heap_start
    /\ past_node' = Null
    /\ UNCHANGED <<vars, max_char_x, buffer, barks, node_next, node_prev, raced>>

\* Lines 39-40 and 58-59: one block looked at, or the end of the loop.
Fits == hdr[cur_node].status = "FREE" /\ hdr[cur_node].size >= Size

WalkOn ==
    /\ command = "walk"
    /\ UNCHANGED <<max_char_x, buffer, barks, node_next, node_prev, raced>>
    /\ IF cur_node >= cur_heap_pos
       THEN /\ command' = "new"
            /\ UNCHANGED <<vars, cur_node, past_node>>
       ELSE IF hdr[cur_node] = Junk
       THEN GoesWild /\ UNCHANGED <<command, cur_node, past_node>>
       ELSE IF Fits
       THEN command' = "fits" /\ UNCHANGED <<vars, cur_node, past_node>>
       ELSE /\ cur_node' = EndsAt(cur_node)
            /\ past_node' = cur_node
            /\ UNCHANGED <<vars, command>>

\* Lines 42-51.  The end is cut off the block before the block is marked.  The
\* size may have become smaller since line 40: the subtraction wraps around.
AddressUnits == 268435456

Surplus == (hdr[cur_node].size - Size) % AddressUnits

SplitOff(h, a, size, rest) ==
    LET split == a + size + 1
    IN  [h EXCEPT ![split] = Header(rest, "FREE", h[a].prev, h[a].next),
                  ![a] = Header(size, h[a].status, h[a].prev, split)]

Split ==
    /\ command = "fits"
    /\ command' = "take"
    /\ hdr' = IF Surplus >= 3 THEN SplitOff(hdr, cur_node, Size, Surplus - 1) ELSE hdr
    /\ UNCHANGED <<cur_heap_pos, live, wild, max_char_x, buffer, barks, locals, raced>>

\* The terminal has the block at a, and writes all of it.
GetsBuffer(a, h) ==
    /\ hdr' = Written(h, Block(a, max_char_x))
    /\ live' = live \union {Block(a, max_char_x)}
    /\ buffer' = a
    /\ command' = "read"
    /\ cur_node' = Null
    /\ past_node' = Null
    /\ UNCHANGED <<wild, max_char_x, barks, node_next, node_prev, raced>>

\* Lines 53-56.
Marked(h, a, past) == [h EXCEPT ![a].status = "USED", ![a].prev = past]

Take ==
    /\ command = "take"
    /\ GetsBuffer(cur_node, Marked(hdr, cur_node, past_node))
    /\ UNCHANGED cur_heap_pos

\* Lines 63-75.  HeapUnits is the model's bound.
NewBlock(h, pos, past, size) ==
    LET new == [h EXCEPT ![pos].prev = past, ![pos].size = size, ![pos].status = "USED"]
    IN  IF past = Null THEN new ELSE [new EXCEPT ![past].next = pos]

TakeNewBlock ==
    /\ command = "new"
    /\ cur_heap_pos + Size <= HeapUnits
    /\ GetsBuffer(cur_heap_pos, NewBlock(hdr, cur_heap_pos, past_node, Size))
    /\ cur_heap_pos' = cur_heap_pos + Size + 1

-----------------------------------------------------------------------------
\* "woof": create_process makes two allocations in one system call.
Woof ==
    LET p == kalloc(hdr, cur_heap_pos, RoundUp(ProcessBytes))
        h == Written(p.hdr, Block(p.at, ProcessBytes))
        x == kalloc(h, p.pos, RoundUp(ContextBytes))
    IN  /\ command = "read"
        /\ Len(barks) < MaxAlive
        /\ command' = "done"
        /\ IF WalkIsWild(hdr, cur_heap_pos, RoundUp(ProcessBytes)) THEN GoesWild
           ELSE /\ Room(hdr, cur_heap_pos, RoundUp(ProcessBytes))
                /\ IF WalkIsWild(h, p.pos, RoundUp(ContextBytes)) THEN GoesWild
                   ELSE /\ Room(h, p.pos, RoundUp(ContextBytes))
                        /\ hdr' = Written(x.hdr, Block(x.at, ContextBytes))
                        /\ cur_heap_pos' = x.pos
                        /\ live' = live \union {Block(p.at, ProcessBytes),
                                                Block(x.at, ContextBytes)}
                        /\ UNCHANGED wild
        /\ barks' = Append(barks, [p |-> p.at, x |-> x.at])
        /\ UNCHANGED <<max_char_x, buffer, locals, raced>>

\* Line 433, with kfree in steps: lines 81-84.  Any other command comes here
\* without a process.
CommandEnds ==
    /\ command \in {"read", "done"}
    /\ hdr' = MarkFree(hdr, buffer)
    /\ live' = live \ {BlockAt(buffer)}
    /\ node_next' = hdr[buffer].next
    /\ node_prev' = hdr[buffer].prev
    /\ command' = "next"
    /\ UNCHANGED <<cur_heap_pos, wild, max_char_x, buffer, barks, cur_node, past_node,
                   raced>>

\* Lines 86-92, with the link read before.
MergesNext ==
    /\ command = "next"
    /\ IF IsJunk(hdr, node_next) THEN GoesWild
       ELSE hdr' = MergeWithNext(hdr, buffer, node_next)
            /\ UNCHANGED <<cur_heap_pos, live, wild>>
    /\ command' = "prev"
    /\ UNCHANGED <<max_char_x, buffer, barks, locals, raced>>

\* Lines 94-105, likewise; line 98 reads node->next again.
PrevIsWild ==
    \/ IsJunk(hdr, node_prev)
    \/ FreeIn(hdr, node_prev) /\ IsJunk(hdr, hdr[buffer].next)

MergesPrev ==
    /\ command = "prev"
    /\ IF PrevIsWild THEN GoesWild
       ELSE hdr' = MergeIntoPrev(hdr, buffer, node_prev)
            /\ UNCHANGED <<cur_heap_pos, live, wild>>
    /\ command' = "none"
    /\ buffer' = Null
    /\ node_next' = Null
    /\ node_prev' = Null
    /\ UNCHANGED <<max_char_x, barks, cur_node, past_node, raced>>

-----------------------------------------------------------------------------
BugFreesOnlyTheContext(h, b) == kfree(h, b.x)

\* Lines 88-89: the context first, then the process.
FreeProcess(h, b) == kfree(kfree(h, b.x), b.p)

\* delete_process for a process that is not the head, in the timer interrupt.
\* The processes behind it are lost, and their blocks with them, unless the
\* interrupt came before line 154 of kill_current_process.
Dies(i) ==
    LET b == barks[i]
    IN  /\ IF FreeIsWild(hdr, b.x) \/ FreeIsWild(kfree(hdr, b.x), b.p) THEN GoesWild
           ELSE /\ hdr' = FreeProcess(hdr, b)
                /\ live' = live \ {BlockAt(b.x), BlockAt(b.p)}
                /\ UNCHANGED <<cur_heap_pos, wild>>
        /\ \/ barks' = SubSeq(barks, 1, i - 1)
           \/ barks' = SubSeq(barks, 1, i - 1) \o SubSeq(barks, i + 1, Len(barks))
        /\ raced' = (raced \/ InCall)
        /\ UNCHANGED <<max_char_x, command, buffer, locals>>

KNext ==
    /\ Sound
    /\ \/ Boot
       \/ CommandBegins
       \/ WalkOn
       \/ Split
       \/ Take
       \/ TakeNewBlock
       \/ Woof
       \/ CommandEnds
       \/ MergesNext
       \/ MergesPrev
       \/ \E i \in 1 .. Len(barks) : Dies(i)

KSpec == KInit /\ [][KNext]_kvars

-----------------------------------------------------------------------------
(* Properties.                                                             *)

\* Commands and processes that come and go one at a time leave the heap
\* sound for ever, in spite of the stale links that splits and merges leave,
\* unless the timer deletes a process in the middle of the terminal's kalloc
\* or kfree.  (heap.c:80: "Size does NOT include sizeof(struct mem_header)":
\* the next block begins right behind a header and the size it gives.)
HeapSound == ~raced => Sound

\* Such use also recycles its memory: without such a race the heap never ends
\* further up than after the first "woof", since a dead process's blocks and
\* the command buffer merge again.
HeapDoesNotGrow ==
    ~raced => cur_heap_pos <= heap_start + RoundUp(ContextBytes) + 1
                                + RoundUp(max_char_x) + 1
                                + RoundUp(ProcessBytes) + 1
                                + RoundUp(ContextBytes) + 1
=============================================================================
