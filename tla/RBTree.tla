------------------------------- MODULE RBTree -------------------------------
(***************************************************************************)
(* The tree of free memory of a vmm: the red-black tree of                 *)
(* kernel/utils/rbtree.c, ordered by size, and vmm_page_alloc and          *)
(* vmm_page_free (kernel/memory/vmm.c), which take ranges of pages out of  *)
(* it and put single pages back.                                           *)
(*                                                                         *)
(* The model has the kernel's vmm and a process's, and clients of one of   *)
(* them, cvmm, that allocate and free in any order: operations on one vmm  *)
(* touch the other only by the root pointer delete_node is given.  wordOS  *)
(* itself never frees, so the property about its own use is the one stated *)
(* for freed = FALSE.  A length or an address is counted in pages.         *)
(*                                                                         *)
(* The pointer operations are operators from one value of t (all roots and *)
(* nodes) to the next; their left and right variants in the code are one   *)
(* operator here, with d = 0 for the left child and d = 1 for the right    *)
(* one, as in insert_node.  The model stops at the first damage and keeps  *)
(* its cause in t.fault.                                                   *)
(***************************************************************************)
EXTENDS Integers, FiniteSets

CONSTANTS Kernel, Process,  \* the two vmms
          Slots,            \* nodes that fit in the page that stores a vmm
          Low, High,        \* what create_vmm is given
          MaxLength,        \* bound: longest allocation
          Null

Vmms == {Kernel, Process}
Nodes == Vmms \X (1 .. Slots)
Dir == {0, 1}
RED == 0
BLACK == 1
DOUBLE_BLACK == 2

ASSUME RBTreeAssumption ==
    /\ Kernel # Process
    /\ Slots \in Nat \ {0} /\ Low \in Nat /\ High \in Nat /\ Low < High
    /\ MaxLength \in Nat \ {0}
    /\ Null \notin Nodes

VARIABLES
    t,       \* [root, at, fault]: the nodes of both vmms
    cvmm,    \* the vmm in use
    given,   \* the pages it has handed out
    freed    \* whether vmm_page_free was ever called

vars == <<t, cvmm, given, freed>>

\* flags: 0 never used, 3 in the tree, 1 given up.
Unused == [base |-> 0, size |-> 0, flags |-> 0, color |-> RED,
           parent |-> Null, kid |-> [d \in Dir |-> Null]]

Links == Nodes \union {Null}
Faults == {"no", "null", "store", "only", "dropped", "stale parent", "kernel root",
           "unmapped"}
Entries == [base : Nat, size : Nat, flags : {0, 1, 3},
            color : {RED, BLACK, DOUBLE_BLACK},
            parent : Links, kid : [Dir -> Links]]
Trees == [root : [Vmms -> Links], at : [Nodes -> Entries], fault : Faults]

-----------------------------------------------------------------------------
(* Nodes.  The definitions named Bug... are faulty variants: each stands   *)
(* for a slip in the code that one of the properties below must notice.    *)

Fail(s, why) == [s EXCEPT !.fault = why]
Color(s, x) == IF x = Null THEN BLACK ELSE s.at[x].color
Paint(s, x, c) == IF x = Null THEN Fail(s, "null") ELSE [s EXCEPT !.at[x].color = c]
SideOf(s, p, x) == IF s.at[p].kid[0] = x THEN 0 ELSE 1
Leaf(s, x) == \A d \in Dir : s.at[x].kid[d] = Null

\* The first node that was never used: bit 0 of flags is never cleared.
FreeSlots(s, v) == {i \in 1 .. Slots : s.at[<<v, i>>].flags = 0}
alloc_node_obj(s, v) ==
    <<v, CHOOSE i \in FreeSlots(s, v) : \A j \in FreeSlots(s, v) : i <= j>>

free_node_obj(s, x) == [s EXCEPT !.at[x].flags = 1, !.at[x].base = 0]

BugForgetsTheInnerChild(s, v, x, d) ==
    LET y == s.at[x].kid[1 - d]
        p == s.at[x].parent
    IN  IF y = Null THEN Fail(s, "null")
        ELSE LET hung == IF p = Null THEN [s EXCEPT !.root[v] = y]
                         ELSE [s EXCEPT !.at[p].kid[SideOf(s, p, x)] = y]
             IN  [hung EXCEPT !.at[x].kid[1 - d] = Null, !.at[x].parent = y,
                              !.at[y].kid[d] = x, !.at[y].parent = p]

\* rb_left_rotation (d = 0) and rb_right_rotation (d = 1) of x, under the root
\* pointer of v.
Rotate(s, v, x, d) ==
    LET y == s.at[x].kid[1 - d]
        p == s.at[x].parent
        inner == s.at[y].kid[d]
    IN  IF y = Null THEN Fail(s, "null")
        ELSE LET moved == IF inner = Null THEN s
                          ELSE [s EXCEPT !.at[inner].parent = x]
                 hung == IF p = Null THEN [moved EXCEPT !.root[v] = y]
                         ELSE [moved EXCEPT !.at[p].kid[SideOf(s, p, x)] = y]
             IN  [hung EXCEPT !.at[x].kid[1 - d] = inner, !.at[x].parent = y,
                              !.at[y].kid[d] = x, !.at[y].parent = p]

-----------------------------------------------------------------------------
(* Insertion.                                                              *)

BlackRoot(s, v) == Paint(s, s.root[v], BLACK)

\* top, with lower below it, is rotated over its parent g.
RotateOver(s, v, g, top, lower) == Rotate(s, v, g, 1 - SideOf(s, top, lower))

\* The recursion climbs from x to its grandparent.
insert_violations(s, v, x) ==
    LET climb[a \in Trees, y \in Nodes] ==
          LET p == a.at[y].parent
              g == a.at[p].parent
              side == SideOf(a, g, p)
              uncle == a.at[g].kid[1 - side]
              push == Paint(Paint(Paint(a, p, BLACK), uncle, BLACK), g, RED)
              bent == a.at[p].kid[1 - side] = y
              straight == IF bent THEN Rotate(a, v, p, side) ELSE a
              top == IF bent THEN y ELSE p
              lower == IF bent THEN p ELSE y
          IN  CASE p = Null -> Paint(a, y, BLACK)
                [] p # Null /\ Color(a, p) = BLACK -> a
                [] p # Null /\ Color(a, p) # BLACK /\ g = Null -> Fail(a, "null")
                [] OTHER ->
                   BlackRoot(IF Color(a, uncle) = RED THEN climb[push, g]
                             ELSE RotateOver(Paint(Paint(straight, top, BLACK), g, RED),
                                             v, g, top, lower),
                             v)
    IN  climb[s, x]

\* The node under which a node of this size is hung, from cur downwards.
Descend(s, cur, size) ==
    LET down[x \in Nodes] ==
          LET next == s.at[x].kid[IF size > s.at[x].size THEN 1 ELSE 0]
          IN  IF next = Null THEN x ELSE down[next]
    IN  down[cur]

Hang(s, x, p) ==
    [s EXCEPT !.at[p].kid[IF s.at[x].size > s.at[p].size THEN 1 ELSE 0] = x,
              !.at[x].parent = p, !.at[x].color = RED]

BugLeavesTheRedPair(s, v, x) ==
    Hang(s, x, Descend(s, s.root[v], s.at[x].size))

HangUnder(s, v, x, p) ==
    IF Color(s, p) = BLACK THEN Hang(s, x, p)
    ELSE insert_violations(Hang(s, x, p), v, x)

insert_node(s, v, x) ==
    HangUnder(BlackRoot(s, v), v, x, Descend(s, s.root[v], s.at[x].size))

\* Without a free slot alloc_node_obj runs on past the end of the page.
make_node(s, v, base, size) ==
    LET x == alloc_node_obj(s, v)
        taken == [s EXCEPT !.at[x] = [Unused EXCEPT !.base = base, !.size = size,
                                      !.flags = 3, !.color = BLACK]]
    IN  CASE FreeSlots(s, v) = {} -> Fail(s, "store")
          [] FreeSlots(s, v) # {} /\ s.root[v] = Null -> [taken EXCEPT !.root[v] = x]
          [] OTHER -> insert_node(taken, v, x)

-----------------------------------------------------------------------------
(* Deletion.  vmm_page_alloc passes the root pointer of the kernel's vmm,  *)
(* whichever vmm the node belongs to.                                      *)

\* The sibling top of x takes the place of their parent p, and its new child
\* on its own side becomes black.
BlackChild(s, y, d) == Paint(s, s.at[y].kid[d], BLACK)
SwapUp(s, x, p, sdir) ==
    LET top == s.at[p].kid[sdir]
    IN  BlackChild(Rotate(Paint(Paint(Paint(s, p, Color(s, top)),
                                      top, Color(s, p)), x, BLACK),
                          Kernel, p, 1 - sdir),
                   top, sdir)

Sibling(s, x) == LET p == s.at[x].parent IN s.at[p].kid[1 - SideOf(s, p, x)]

\* The first tests of delete_violations, after which it looks no further.
Stops(s, x) ==
    s.at[x].parent = Null \/ Color(s, x) = RED \/ Sibling(s, x) = Null
Stopped(s, x) ==
    IF s.at[x].parent = Null THEN Paint(s, x, BLACK)
    ELSE IF Color(s, x) = RED THEN s ELSE Fail(s, "null")

\* Its cases by the colours around x, which may start it again higher up.
Rebalance(s, x) ==
    LET level[a \in Trees, y \in Nodes] ==
          LET p == a.at[y].parent
              sdir == 1 - SideOf(a, p, y)           \* the side of the sibling
              sib == Sibling(a, y)
              near == a.at[sib].kid[1 - sdir]
              far == a.at[sib].kid[sdir]
              bothBlack == Color(a, near) = BLACK /\ Color(a, far) = BLACK
              \* Case 3: the sibling turns red and the parent may lack a black.
              lent == Paint(Paint(a, y, BLACK), sib, RED)
              \* A red sibling changes colours with the parent and is rotated up.
              risen == Rotate(Paint(Paint(Paint(a, y, DOUBLE_BLACK), sib, Color(a, p)),
                                    p, RED),
                              Kernel, p, 1 - sdir)
              \* A red near nephew under a black far one is rotated up first.
              turned == IF Color(a, near) = RED /\ Color(a, far) = BLACK
                        THEN Rotate(Paint(Paint(a, sib, RED), near, BLACK),
                                    Kernel, sib, sdir)
                        ELSE a
              Again(b, z) == IF Stops(b, z) THEN Stopped(b, z) ELSE level[b, z]
          IN  CASE Color(a, sib) = BLACK /\ bothBlack ->
                     IF Color(a, p) = BLACK THEN Again(Paint(lent, p, DOUBLE_BLACK), p)
                     ELSE Paint(lent, p, BLACK)
                [] Color(a, sib) = RED -> Again(risen, y)
                [] Color(a, sib) = BLACK /\ Color(a, near) = RED ->
                     SwapUp(turned, y, p, sdir)
                [] OTHER -> Paint(a, y, DOUBLE_BLACK)  \* only the far nephew is red
    IN  level[s, x]

delete_violations(s, x) == IF Stops(s, x) THEN Stopped(s, x) ELSE Rebalance(s, x)

Rightmost(s, x) ==
    LET right[y \in Nodes] ==
          IF s.at[y].kid[1] = Null THEN y ELSE right[s.at[y].kid[1]]
    IN  right[x]

\* The range of node y moves to node x.
CopyRange(s, x, y) ==
    [s EXCEPT !.at[x].base = s.at[y].base, !.at[x].size = s.at[y].size,
              !.at[x].flags = s.at[y].flags]

BlackIfRoot(s, x) == IF x = s.root[Kernel] THEN Paint(s, x, BLACK) ELSE s

\* Case 1.  The only node of a tree has no parent: the code goes on and
\* follows the null pointer.  The side comes from the sizes.
DeleteLeaf(s, x) ==
    LET p == s.at[x].parent
        side == IF s.at[x].size > s.at[p].size THEN 1 ELSE 0
    IN  IF p = Null THEN Fail(s, "only")
        ELSE free_node_obj([delete_violations(s, x) EXCEPT !.at[p].kid[side] = Null],
                           x)

\* Case 3.  What hangs to the left of the replacement m is dropped.
CutOff(s, x, m) == IF m = s.at[x].kid[0]
                   THEN [s EXCEPT !.at[x].kid[0] = Null]
                   ELSE [s EXCEPT !.at[s.at[m].parent].kid[1] = Null]
DeleteInner(s, x) ==
    LET m == Rightmost(s, s.at[x].kid[0])
    IN  free_node_obj(
            BlackIfRoot(CutOff(CopyRange(delete_violations(s, m), x, m), x, m), x),
            m)

\* Case 2.  The child's own children keep their parent pointer.
OnlyChild(s, x) == s.at[x].kid[IF s.at[x].kid[0] # Null THEN 0 ELSE 1]
Join(s, x, c) == [s EXCEPT !.at[x].color = s.at[c].color,
                           !.at[x].kid = s.at[c].kid]
DeleteLink(s, x) ==
    LET c == OnlyChild(s, x)
    IN  free_node_obj(
            BlackIfRoot(Join(delete_violations(CopyRange(s, x, c), c), x, c), x),
            c)

BugTakesNothingOut(s, x) == s

delete_node(s, x) ==
    CASE Leaf(s, x) -> DeleteLeaf(s, x)
      [] \A d \in Dir : s.at[x].kid[d] # Null -> DeleteInner(s, x)
      [] OTHER -> DeleteLink(s, x)

-----------------------------------------------------------------------------
(* vmm.c.                                                                  *)

BugFirstFit(s, cur, length) ==
    LET from[x \in Links] ==
          IF x = Null THEN Null
          ELSE IF s.at[x].size >= length THEN x ELSE from[s.at[x].kid[1]]
    IN  from[cur]

\* The search of vmm_page_alloc from cur downwards: best, the last node met
\* that is long enough, or Null.
BestFrom(s, cur, length) ==
    LET from[x \in Links] ==
          IF x = Null THEN Null
          ELSE CASE s.at[x].size = length -> x
                 [] s.at[x].size < length -> from[s.at[x].kid[1]]
                 [] OTHER -> LET best == from[s.at[x].kid[0]]
                             IN  IF best = Null THEN x ELSE best
    IN  from[cur]

Empty == [root |-> [v \in Vmms |-> Null], at |-> [x \in Nodes |-> Unused],
          fault |-> "no"]

\* create_vmm: the first free entry begins at low.  Line 59 passes high where
\* make_node takes a size, although high is meant as the end of the range
\* (kernel.c:230: "0xCC000000 - 0xFFE00000"): the entry is high pages long and
\* ends low pages too late.
create_vmm(s, v) == make_node(s, v, Low, High)

Init ==
    /\ t = create_vmm(create_vmm(Empty, Kernel), Process)
    /\ cvmm \in Vmms
    /\ given = {}
    /\ freed = FALSE

\* The part of the range that is not asked for becomes a node of its own.
Split(s, v, x, length) ==
    IF s.at[x].size > length
    THEN make_node(s, v, s.at[x].base + length, s.at[x].size - length)
    ELSE s

\* Where delete_node does damage without a fault: the child dropped in case 3
\* and the stale parent pointers of case 2.
Damage(s, x) ==
    CASE Leaf(s, x) -> "no"
      [] \A d \in Dir : s.at[x].kid[d] # Null ->
            IF s.at[Rightmost(s, s.at[x].kid[0])].kid[0] # Null THEN "dropped"
            ELSE "no"
      [] OTHER -> IF Leaf(s, OnlyChild(s, x)) THEN "no" ELSE "stale parent"

\* A process's delete_node that moves the root moves the kernel's.
UnderKernelRoot(s, cut) ==
    IF cvmm # Kernel /\ cut.root # s.root THEN Fail(s, "kernel root") ELSE cut

\* s without x, or with the first fault that is met.
TakeOut(s, x) ==
    IF s.fault # "no" THEN s
    ELSE IF Damage(s, x) # "no" THEN Fail(s, Damage(s, x))
    ELSE UnderKernelRoot(s, delete_node(s, x))

vmm_page_alloc(length) ==
    /\ t.fault = "no"
    /\ \E x \in {BestFrom(t, t.root[cvmm], length)} \ {Null} :
       \E s \in {TakeOut(Split(t, cvmm, x, length), x)} :
          IF s.fault # "no" THEN t' = Fail(t, s.fault) /\ UNCHANGED given
          ELSE /\ t' = s
               /\ given' = given \union
                              (t.at[x].base .. (t.at[x].base + length - 1))
    /\ UNCHANGED <<cvmm, freed>>

\* vmm_page_free puts one page back, whatever the length of the allocation, if
\* it gets that far.  Nothing in wordOS calls it.  It follows the physical
\* address of the page table as a pointer (219) and reads far behind it (225):
\* it may fault there, or find 0 and return.
vmm_page_free(page) ==
    /\ t.fault = "no"
    /\ freed' = TRUE
    /\ UNCHANGED cvmm
    /\ \/ t' = Fail(t, "unmapped") /\ UNCHANGED given
       \/ UNCHANGED <<t, given>>
       \/ /\ \E s \in {make_node(t, cvmm, page, 1)} :
                t' = IF s.fault = "no" THEN s ELSE Fail(t, s.fault)
          /\ given' = given \ {page}

Next == \/ \E length \in 1 .. MaxLength : vmm_page_alloc(length)
        \/ \E page \in given : vmm_page_free(page)

Spec == Init /\ [][Next]_vars

-----------------------------------------------------------------------------
(* Properties.                                                             *)

Below(s, x) ==
    LET below[y \in Links] ==
          IF y = Null THEN {}
          ELSE {y} \union below[s.at[y].kid[0]] \union below[s.at[y].kid[1]]
    IN  below[x]

InTree(s, v) == Below(s, s.root[v])
Pages(s, x) == s.at[x].base .. (s.at[x].base + s.at[x].size - 1)

\* Types of the nodes, the roots and the pages handed out.
TypeOK == /\ t \in Trees
          /\ cvmm \in Vmms
          /\ given \subseteq (Low .. (Low + High - 1))
          /\ freed \in BOOLEAN

\* The range low to high that a vmm is meant to manage, and the pages behind it
\* that create_vmm adds by taking high for a size.
Meant == Low .. (High - 1)
BehindHigh == High .. (Low + High - 1)

\* As long as no flaw of delete_node has struck, the tree of each vmm holds
\* every page of the range it is meant to manage that is not handed out, each
\* in one node, and nothing else but the pages behind high (vmm.c:59).  It is
\* ordered by size, has the right parent pointers and contains every node that
\* has not been given up.
NothingLost ==
    t.fault = "no" => TypeOK /\ \A v \in Vmms :
        LET tree == InTree(t, v)
        IN  /\ tree = {x \in Nodes : x[1] = v /\ t.at[x].flags = 3}
            /\ \A x, y \in tree : x # y => Pages(t, x) \intersect Pages(t, y) = {}
            /\ UNION {Pages(t, x) : x \in tree}
                  = (Meant \union BehindHigh) \ (IF v = cvmm THEN given ELSE {})
            /\ \A x \in tree : \A d \in Dir :
                  \A y \in Below(t, t.at[x].kid[d]) :
                     IF d = 0 THEN t.at[y].size <= t.at[x].size
                              ELSE t.at[y].size >= t.at[x].size
            /\ \A x \in tree : \A d \in Dir :
                  t.at[x].kid[d] # Null => t.at[t.at[x].kid[d]].parent = x

BlackHeights(s, x) ==
    LET heights[y \in Links] ==
          IF y = Null THEN {0}
          ELSE {(IF Color(s, y) = BLACK THEN 1 ELSE 0) + n :
                   n \in heights[s.at[y].kid[0]] \union heights[s.at[y].kid[1]]}
    IN  heights[x]

\* No red node has a red child, and all paths have as many black nodes.
RedBlack(s, v) ==
    /\ Cardinality(BlackHeights(s, s.root[v])) = 1
    /\ \A x \in InTree(s, v) :
          /\ Color(s, x) \in {RED, BLACK}
          /\ Color(s, x) = RED => \A d \in Dir : Color(s, s.at[x].kid[d]) = BLACK

\* insert_node keeps a red-black tree a red-black tree: the depth of the tree
\* stays logarithmic as far as insertions go.
InsertKeepsRedBlack ==
    [][given' # given /\ given' \subseteq given /\ t'.fault = "no"
          /\ RedBlack(t, cvmm) => RedBlack(t', cvmm)]_vars

\* "We will find the BEST not first" (vmm.c): an allocation comes from the
\* shortest free range that is long enough.
BestFit ==
    [][LET got == given' \ given
       IN  got # {} => \E x \in InTree(t, cvmm) :
              /\ got \subseteq Pages(t, x)
              /\ \A y \in InTree(t, cvmm) :
                    t.at[y].size >= Cardinality(got) =>
                       t.at[x].size <= t.at[y].size]_vars

\* While no page is put back, as in wordOS, the free memory of a vmm is one
\* node, and only two things can go wrong: the store page runs out of nodes or
\* the last page is taken.
OneNodeWithoutFrees ==
    ~freed =>
        /\ t.fault \in {"no", "store", "only"}
        /\ t.fault = "no" => \A v \in Vmms : Cardinality(InTree(t, v)) = 1
=============================================================================
