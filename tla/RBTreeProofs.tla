---------------------------- MODULE RBTreeProofs ----------------------------
(***************************************************************************)
(* Proofs about the tree of free memory as wordOS uses it: ranges are      *)
(* allocated and never put back.  Then the tree of every vmm is one node,  *)
(* in the first slot of its store page, and an allocation hangs a second   *)
(* node below it (make_node), copies that node's range up and gives the    *)
(* second node up again (delete_node, case 2).                             *)
(*                                                                         *)
(* The first part says what each assignment to a field of a node does, the *)
(* second what the searches find in a tree of one node, the third follows  *)
(* make_node and delete_node through an allocation, the last has the       *)
(* inductive invariant OneNode.                                            *)
(***************************************************************************)
EXTENDS RBTree, LeastElements, FiniteSetTheorems, TLAPS

-----------------------------------------------------------------------------
(* Nodes and their fields.                                                 *)

\* A colour, a node without children, and a node given by its fields.
Colors == {RED, BLACK, DOUBLE_BLACK}
NoKids == [d \in Dir |-> Null]

Entry(b, z, f, c, p, k) ==
    [base |-> b, size |-> z, flags |-> f, color |-> c, parent |-> p, kid |-> k]

Fields(b, z, f, c, p, k) ==
    b \in Nat /\ z \in Nat /\ f \in {0, 1, 3} /\ c \in Colors /\ p \in Links
      /\ k \in [Dir -> Links]

\* w is s but for the nodes in X.
SameBut(s, w, X) ==
    /\ w \in Trees
    /\ w.root = s.root
    /\ w.fault = s.fault
    /\ \A x \in Nodes \ X : w.at[x] = s.at[x]

\* A fault leaves the roots and the nodes alone.
LEMMA FailIs ==
    ASSUME NEW s \in Trees, NEW why \in Faults
    PROVE  /\ Fail(s, why) \in Trees
           /\ Fail(s, why).root = s.root
           /\ Fail(s, why).at = s.at
           /\ Fail(s, why).fault = why
BY DEF Fail, Trees

\* The fields of an entry, and its type.
LEMMA EntryIs ==
    ASSUME NEW b, NEW z, NEW f, NEW c, NEW p, NEW k, Fields(b, z, f, c, p, k)
    PROVE  /\ Entry(b, z, f, c, p, k) \in Entries
           /\ Entry(b, z, f, c, p, k).base = b
           /\ Entry(b, z, f, c, p, k).size = z
           /\ Entry(b, z, f, c, p, k).flags = f
           /\ Entry(b, z, f, c, p, k).color = c
           /\ Entry(b, z, f, c, p, k).parent = p
           /\ Entry(b, z, f, c, p, k).kid = k
BY DEF Fields, Entry, Entries, Colors

\* s with entry e for node x.
With(s, x, e) == [s EXCEPT !.at[x] = e]

\* A node overwritten: the others, the roots and the fault stay.
LEMMA WithIs ==
    ASSUME NEW s \in Trees, NEW x \in Nodes, NEW e \in Entries
    PROVE  SameBut(s, With(s, x, e), {x}) /\ With(s, x, e).at[x] = e
BY DEF With, Trees, SameBut

\* Node x of s has these fields.
At(s, x, b, z, f, c, p, k) ==
    /\ s \in Trees /\ x \in Nodes
    /\ Fields(b, z, f, c, p, k)
    /\ s.at[x] = Entry(b, z, f, c, p, k)

\* A node of a tree.
Tree(s, x) == s \in Trees /\ x \in Nodes

\* A node and its fields have their types.
LEMMA AtFields ==
    ASSUME NEW s, NEW x, NEW b, NEW z, NEW f, NEW c, NEW p, NEW k,
           At(s, x, b, z, f, c, p, k)
    PROVE  Tree(s, x) /\ Fields(b, z, f, c, p, k)
BY DEF At, Tree

\* The same for an entry given by its fields.
LEMMA AtWith ==
    ASSUME NEW s, NEW x, NEW b, NEW z, NEW f, NEW c, NEW p, NEW k,
           Tree(s, x), Fields(b, z, f, c, p, k)
    PROVE  /\ SameBut(s, With(s, x, Entry(b, z, f, c, p, k)), {x})
           /\ At(With(s, x, Entry(b, z, f, c, p, k)), x, b, z, f, c, p, k)
BY EntryIs, WithIs DEF SameBut, At, Tree

\* What an assignment to one field of a node does.
LEMMA SetField ==
    ASSUME NEW s, NEW x, NEW b, NEW z, NEW f, NEW c, NEW p, NEW k,
           At(s, x, b, z, f, c, p, k), NEW val
    PROVE  /\ [s EXCEPT !.at[x].base = val] = With(s, x, Entry(val, z, f, c, p, k))
           /\ [s EXCEPT !.at[x].size = val] = With(s, x, Entry(b, val, f, c, p, k))
           /\ [s EXCEPT !.at[x].flags = val] = With(s, x, Entry(b, z, val, c, p, k))
           /\ [s EXCEPT !.at[x].color = val] = With(s, x, Entry(b, z, f, val, p, k))
           /\ [s EXCEPT !.at[x].parent = val] = With(s, x, Entry(b, z, f, c, val, k))
           /\ [s EXCEPT !.at[x].kid = val] = With(s, x, Entry(b, z, f, c, p, val))
<1>0. s.at[x] = Entry(b, z, f, c, p, k)
  BY DEF At
<1>1. [s.at[x] EXCEPT !.base = val] = Entry(val, z, f, c, p, k)
  BY <1>0 DEF Entry
<1>2. [s.at[x] EXCEPT !.size = val] = Entry(b, val, f, c, p, k)
  BY <1>0 DEF Entry
<1>3. [s.at[x] EXCEPT !.flags = val] = Entry(b, z, val, c, p, k)
  BY <1>0 DEF Entry
<1>4. [s.at[x] EXCEPT !.color = val] = Entry(b, z, f, val, p, k)
  BY <1>0 DEF Entry
<1>5. [s.at[x] EXCEPT !.parent = val] = Entry(b, z, f, c, val, k)
  BY <1>0 DEF Entry
<1>6. [s.at[x] EXCEPT !.kid = val] = Entry(b, z, f, c, p, val)
  BY <1>0 DEF Entry
<1>11. [s EXCEPT !.at[x].base = val] = With(s, x, [s.at[x] EXCEPT !.base = val])
  BY DEF With
<1>12. [s EXCEPT !.at[x].size = val] = With(s, x, [s.at[x] EXCEPT !.size = val])
  BY DEF With
<1>13. [s EXCEPT !.at[x].flags = val] = With(s, x, [s.at[x] EXCEPT !.flags = val])
  BY DEF With
<1>14. [s EXCEPT !.at[x].color = val] = With(s, x, [s.at[x] EXCEPT !.color = val])
  BY DEF With
<1>15. [s EXCEPT !.at[x].parent = val] = With(s, x, [s.at[x] EXCEPT !.parent = val])
  BY DEF With
<1>16. [s EXCEPT !.at[x].kid = val] = With(s, x, [s.at[x] EXCEPT !.kid = val])
  BY DEF With
<1> QED
  BY <1>1, <1>2, <1>3, <1>4, <1>5, <1>6,
     <1>11, <1>12, <1>13, <1>14, <1>15, <1>16

\* Paint changes one colour.
LEMMA PaintIs ==
    ASSUME NEW s, NEW x, NEW b, NEW z, NEW f, NEW c, NEW p, NEW k,
           At(s, x, b, z, f, c, p, k), NEW new \in Colors
    PROVE  /\ SameBut(s, Paint(s, x, new), {x})
           /\ At(Paint(s, x, new), x, b, z, f, new, p, k)
<1>1. x # Null
  BY RBTreeAssumption DEF At
<1>2. Paint(s, x, new) = [s EXCEPT !.at[x].color = new]
  BY <1>1 DEF Paint
<1>3. Paint(s, x, new) = With(s, x, Entry(b, z, f, new, p, k))
  BY <1>2, SetField
<1>4. Tree(s, x) /\ Fields(b, z, f, new, p, k)
  BY AtFields DEF Fields
<1> QED
  BY <1>3, <1>4, AtWith

\* free_node_obj clears bit 1 of the flags, and the base.
LEMMA FreeNodeIs ==
    ASSUME NEW s, NEW x, NEW b, NEW z, NEW f, NEW c, NEW p, NEW k,
           At(s, x, b, z, f, c, p, k)
    PROVE  /\ SameBut(s, free_node_obj(s, x), {x})
           /\ At(free_node_obj(s, x), x, 0, z, 1, c, p, k)
<1> DEFINE w == [s EXCEPT !.at[x].flags = 1]
<1>1. w = With(s, x, Entry(b, z, 1, c, p, k))
  BY SetField
<1>0. Tree(s, x) /\ Fields(b, z, 1, c, p, k) /\ Fields(0, z, 1, c, p, k)
  BY AtFields DEF Fields
<1>2. SameBut(s, w, {x}) /\ At(w, x, b, z, 1, c, p, k)
  BY <1>0, <1>1, AtWith
<1>3. free_node_obj(s, x) = [w EXCEPT !.at[x].base = 0]
  BY DEF free_node_obj
<1> HIDE DEF w
<1>4. free_node_obj(s, x) = With(w, x, Entry(0, z, 1, c, p, k))
  BY <1>2, <1>3, SetField
<1>5. SameBut(w, free_node_obj(s, x), {x})
        /\ At(free_node_obj(s, x), x, 0, z, 1, c, p, k)
  BY <1>0, <1>2, <1>4, AtWith, AtFields
<1> QED
  BY <1>2, <1>5 DEF SameBut

\* What delete_node copies from y to x: base, size and flags.
LEMMA CopyRangeIs ==
    ASSUME NEW s, NEW x, NEW b, NEW z, NEW f, NEW c, NEW p, NEW k,
           At(s, x, b, z, f, c, p, k),
           NEW y, NEW by, NEW zy, NEW fy, NEW cy, NEW py, NEW ky,
           At(s, y, by, zy, fy, cy, py, ky)
    PROVE  /\ SameBut(s, CopyRange(s, x, y), {x})
           /\ At(CopyRange(s, x, y), x, by, zy, fy, c, p, k)
<1> DEFINE u == [s EXCEPT !.at[x].base = by]
           w == [u EXCEPT !.at[x].size = zy]
<1>0. Tree(s, x) /\ Fields(by, z, f, c, p, k) /\ Fields(by, zy, f, c, p, k)
        /\ Fields(by, zy, fy, c, p, k)
  <2>1. Tree(s, x) /\ Fields(b, z, f, c, p, k) /\ Fields(by, zy, fy, cy, py, ky)
    BY AtFields
  <2> QED
    BY <2>1 DEF Fields
<1>0a. s.at[y].base = by /\ s.at[y].size = zy /\ s.at[y].flags = fy
  BY EntryIs DEF At
<1>1. u = With(s, x, Entry(by, z, f, c, p, k))
  BY SetField
<1>2. SameBut(s, u, {x}) /\ At(u, x, by, z, f, c, p, k)
  BY <1>0, <1>1, AtWith
<1>3. CopyRange(s, x, y) = [w EXCEPT !.at[x].flags = fy]
  BY <1>0a DEF CopyRange
<1> HIDE DEF u
<1>4. w = With(u, x, Entry(by, zy, f, c, p, k))
  BY <1>2, SetField
<1>5. SameBut(u, w, {x}) /\ At(w, x, by, zy, f, c, p, k)
  BY <1>0, <1>2, <1>4, AtWith, AtFields
<1> HIDE DEF w
<1>6. CopyRange(s, x, y) = With(w, x, Entry(by, zy, fy, c, p, k))
  BY <1>3, <1>5, SetField
<1>7. SameBut(w, CopyRange(s, x, y), {x})
        /\ At(CopyRange(s, x, y), x, by, zy, fy, c, p, k)
  BY <1>0, <1>5, <1>6, AtWith, AtFields
<1> QED
  BY <1>2, <1>5, <1>7 DEF SameBut

\* What delete_node copies after delete_violations: colour and children.
LEMMA JoinIs ==
    ASSUME NEW s, NEW x, NEW b, NEW z, NEW f, NEW c, NEW p, NEW k,
           At(s, x, b, z, f, c, p, k),
           NEW y, NEW by, NEW zy, NEW fy, NEW cy, NEW py, NEW ky,
           At(s, y, by, zy, fy, cy, py, ky)
    PROVE  /\ SameBut(s, Join(s, x, y), {x})
           /\ At(Join(s, x, y), x, b, z, f, cy, p, ky)
<1> DEFINE u == [s EXCEPT !.at[x].color = cy]
<1>0. Tree(s, x) /\ Fields(b, z, f, cy, p, k) /\ Fields(b, z, f, cy, p, ky)
  <2>1. Tree(s, x) /\ Fields(b, z, f, c, p, k) /\ Fields(by, zy, fy, cy, py, ky)
    BY AtFields
  <2> QED
    BY <2>1 DEF Fields
<1>0a. s.at[y].color = cy /\ s.at[y].kid = ky
  BY EntryIs DEF At
<1>1. u = With(s, x, Entry(b, z, f, cy, p, k))
  BY SetField
<1>2. SameBut(s, u, {x}) /\ At(u, x, b, z, f, cy, p, k)
  BY <1>0, <1>1, AtWith
<1>3. Join(s, x, y) = [u EXCEPT !.at[x].kid = ky]
  BY <1>0a DEF Join
<1> HIDE DEF u
<1>4. Join(s, x, y) = With(u, x, Entry(b, z, f, cy, p, ky))
  BY <1>2, <1>3, SetField
<1>5. SameBut(u, Join(s, x, y), {x}) /\ At(Join(s, x, y), x, b, z, f, cy, p, ky)
  BY <1>0, <1>2, <1>4, AtWith, AtFields
<1> QED
  BY <1>2, <1>5 DEF SameBut

\* A node that is not longer than y becomes the left child of y, and red.
LEMMA HangIs ==
    ASSUME NEW s, NEW x, NEW b, NEW z, NEW f, NEW c, NEW p, NEW k,
           At(s, x, b, z, f, c, p, k),
           NEW y, NEW by, NEW zy, NEW fy, NEW cy, NEW py, NEW ky,
           At(s, y, by, zy, fy, cy, py, ky),
           x # y, z <= zy
    PROVE  /\ SameBut(s, Hang(s, x, y), {x, y})
           /\ At(Hang(s, x, y), x, b, z, f, RED, y, k)
           /\ At(Hang(s, x, y), y, by, zy, fy, cy, py, [ky EXCEPT ![0] = x])
<1> DEFINE u == [s EXCEPT !.at[y].kid = [ky EXCEPT ![0] = x]]
           w == [u EXCEPT !.at[x].parent = y]
<1>0. /\ Tree(s, x) /\ Tree(s, y)
      /\ Fields(b, z, f, c, y, k) /\ Fields(b, z, f, RED, y, k)
      /\ Fields(by, zy, fy, cy, py, [ky EXCEPT ![0] = x])
  <2>1. /\ Tree(s, x) /\ Tree(s, y)
        /\ Fields(b, z, f, c, p, k) /\ Fields(by, zy, fy, cy, py, ky)
    BY AtFields
  <2>2. x \in Links /\ y \in Links
    BY <2>1 DEF Tree, Links
  <2> QED
    BY <2>1, <2>2 DEF Fields, Colors
<1>1. s.at[x].size = z /\ s.at[y].size = zy /\ s.at[y].kid = ky
  BY EntryIs DEF At
<1>2. (IF s.at[x].size > s.at[y].size THEN 1 ELSE 0) = 0
  <2>1. z \in Nat /\ zy \in Nat
    BY DEF At, Fields
  <2> QED
    BY <1>1, <2>1
<1>3. Hang(s, x, y) = [[[s EXCEPT !.at[y].kid[0] = x] EXCEPT !.at[x].parent = y]
                          EXCEPT !.at[x].color = RED]
  BY <1>2 DEF Hang
<1>4. [s EXCEPT !.at[y].kid[0] = x] = u
  BY <1>1
<1>5. Hang(s, x, y) = [w EXCEPT !.at[x].color = RED]
  BY <1>3, <1>4
<1>6. u = With(s, y, Entry(by, zy, fy, cy, py, [ky EXCEPT ![0] = x]))
  BY SetField
<1>7. /\ SameBut(s, u, {y})
      /\ At(u, y, by, zy, fy, cy, py, [ky EXCEPT ![0] = x])
  BY <1>0, <1>6, AtWith
<1>8. At(u, x, b, z, f, c, p, k)
  BY <1>7 DEF At, SameBut
<1> HIDE DEF u
<1>9. w = With(u, x, Entry(b, z, f, c, y, k))
  BY <1>8, SetField
<1>10. SameBut(u, w, {x}) /\ At(w, x, b, z, f, c, y, k)
  BY <1>0, <1>8, <1>9, AtWith, AtFields
<1> HIDE DEF w
<1>11. Hang(s, x, y) = With(w, x, Entry(b, z, f, RED, y, k))
  BY <1>5, <1>10, SetField
<1>12. SameBut(w, Hang(s, x, y), {x}) /\ At(Hang(s, x, y), x, b, z, f, RED, y, k)
  BY <1>0, <1>10, <1>11, AtWith, AtFields
<1>13. SameBut(s, Hang(s, x, y), {x, y})
  BY <1>7, <1>10, <1>12 DEF SameBut
<1>14. Hang(s, x, y).at[y] = u.at[y] /\ Hang(s, x, y) \in Trees
  BY <1>10, <1>12, <1>0 DEF SameBut, Tree
<1> QED
  BY <1>7, <1>12, <1>13, <1>14 DEF At

-----------------------------------------------------------------------------

(* Trees in which no node has a child, and what the searches find there.   *)

AllLeaves(s) == s \in Trees /\ \A x \in Nodes : s.at[x].kid = NoKids

\* insert_node stops at once where no node has a child.
LEMMA DescendIs ==
    ASSUME NEW s, NEW cur \in Nodes, NEW size, AllLeaves(s)
    PROVE  Descend(s, cur, size) = cur
<1> DEFINE Next1(x) == s.at[x].kid[IF size > s.at[x].size THEN 1 ELSE 0]
           Body(g, x) == IF Next1(x) = Null THEN x ELSE g[Next1(x)]
           IsSol(g) == g = [x \in Nodes |-> Body(g, x)]
           same == [x \in Nodes |-> x]
           down == CHOOSE g : g = [x \in Nodes |-> 
                     LET next == s.at[x].kid[IF size > s.at[x].size THEN 1 ELSE 0]
                     IN  IF next = Null THEN x ELSE g[next]]
<1>1. \A x \in Nodes : Next1(x) = Null
  <2> TAKE x \in Nodes
  <2>1. s.at[x].kid = NoKids
    BY DEF AllLeaves
  <2> QED
    BY <2>1 DEF NoKids, Dir
<1> HIDE DEF Next1
<1>2. \A g : \A x \in Nodes : Body(g, x) = x
  BY <1>1
<1>3. \A g : [x \in Nodes |-> Body(g, x)] = same
  BY <1>2
<1>4. IsSol(same)
  BY <1>3
<1>5. IsSol(down)
  BY <1>4, Zenon DEF Next1
<1>6. down = same
  BY <1>3, <1>5
<1>7. Descend(s, cur, size) = down[cur]
  BY Zenon DEF Descend
<1> QED
  BY <1>6, <1>7

\* The search of vmm_page_alloc finds the only node, or nothing.
LEMMA BestFromIs ==
    ASSUME NEW s, NEW cur \in Nodes, NEW length \in Nat, AllLeaves(s)
    PROVE  BestFrom(s, cur, length) = IF s.at[cur].size < length THEN Null ELSE cur
<1> DEFINE Better(g, x) == IF g[s.at[x].kid[0]] = Null THEN x ELSE g[s.at[x].kid[0]]
           Body(g, x) ==
              IF x = Null THEN Null
              ELSE CASE s.at[x].size = length -> x
                     [] s.at[x].size < length -> g[s.at[x].kid[1]]
                     [] OTHER -> Better(g, x)
           IsSol(g) == g = [x \in Links |-> Body(g, x)]
           Answer(x) == IF x = Null \/ s.at[x].size < length THEN Null ELSE x
           best == [x \in Links |-> Answer(x)]
           from == CHOOSE g : g = [x \in Links |->
              IF x = Null THEN Null
              ELSE CASE s.at[x].size = length -> x
                     [] s.at[x].size < length -> g[s.at[x].kid[1]]
                     [] OTHER -> LET b == g[s.at[x].kid[0]]
                                 IN  IF b = Null THEN x ELSE b]
<1>1. \A x \in Nodes : s.at[x].kid[0] = Null /\ s.at[x].kid[1] = Null
  <2> TAKE x \in Nodes
  <2>1. s.at[x].kid = NoKids
    BY DEF AllLeaves
  <2> QED
    BY <2>1 DEF NoKids, Dir
<1>2. \A x \in Nodes : s.at[x].size \in Nat
  BY DEF AllLeaves, Trees, Entries
<1>3. Null \in Links /\ Null \notin Nodes /\ \A x \in Links : x = Null \/ x \in Nodes
  BY RBTreeAssumption DEF Links
<1>4. best[Null] = Null
  BY <1>3
<1>5. ASSUME NEW g, g[Null] = Null, NEW x \in Links
      PROVE  Body(g, x) = Answer(x)
  <2>1. CASE x = Null
    BY <2>1
  <2>2. CASE x # Null
    <3>1. x \in Nodes
      BY <2>2, <1>3
    <3>2. g[s.at[x].kid[1]] = Null /\ g[s.at[x].kid[0]] = Null
      BY <3>1, <1>1, <1>5
    <3>3. s.at[x].size \in Nat
      BY <3>1, <1>2
    <3> QED
      BY <2>2, <3>2, <3>3
  <2> QED
    BY <2>1, <2>2
<1>7. IsSol(best)
  <2>1. \A x \in Links : Body(best, x) = Answer(x)
    <3> HIDE DEF Body, best, Answer
    <3> QED
      BY <1>5, <1>4
  <2> HIDE DEF Body, Answer
  <2> QED
    BY <2>1
<1>8. IsSol(from)
  BY <1>7, Zenon
<1>9. from[Null] = Null
  <2> HIDE DEF from
  <2> QED
    BY <1>8, <1>3
<1>10. from[cur] = Answer(cur)
  <2> HIDE DEF from
  <2>1. cur \in Links
    BY DEF Links
  <2>2. from[cur] = Body(from, cur)
    <3> HIDE DEF Body
    <3> QED
      BY <1>8, <2>1
  <2> HIDE DEF Body, Answer
  <2> QED
    BY <2>1, <2>2, <1>5, <1>9
<1>11. BestFrom(s, cur, length) = from[cur]
  BY Zenon DEF BestFrom
<1> QED
  BY <1>3, <1>10, <1>11 DEF Answer

\* A node without children is alone in its subtree.
LEMMA BelowIs ==
    ASSUME NEW s, AllLeaves(s)
    PROVE  Below(s, Null) = {} /\ \A y \in Nodes : Below(s, y) = {y}
<1> DEFINE Body(g, y) == IF y = Null THEN {}
                         ELSE {y} \union g[s.at[y].kid[0]] \union g[s.at[y].kid[1]]
           IsSol(g) == g = [y \in Links |-> Body(g, y)]
           Answer(y) == IF y = Null THEN {} ELSE {y}
           alone == [y \in Links |-> Answer(y)]
           below[y \in Links] ==
              IF y = Null THEN {}
              ELSE {y} \union below[s.at[y].kid[0]] \union below[s.at[y].kid[1]]
<1>1. \A x \in Nodes : s.at[x].kid[0] = Null /\ s.at[x].kid[1] = Null
  <2> TAKE x \in Nodes
  <2>1. s.at[x].kid = NoKids
    BY DEF AllLeaves
  <2> QED
    BY <2>1 DEF NoKids, Dir
<1>3. Null \in Links /\ Null \notin Nodes /\ \A x \in Links : x = Null \/ x \in Nodes
  BY RBTreeAssumption DEF Links
<1>5. ASSUME NEW g, g[Null] = {}, NEW y \in Links
      PROVE  Body(g, y) = Answer(y)
  <2>1. CASE y = Null
    BY <2>1
  <2>2. CASE y # Null
    <3>1. g[s.at[y].kid[0]] = {} /\ g[s.at[y].kid[1]] = {}
      BY <2>2, <1>3, <1>1, <1>5
    <3> QED
      BY <2>2, <3>1
  <2> QED
    BY <2>1, <2>2
<1>6. alone[Null] = {}
  BY <1>3
<1>7. IsSol(alone)
  <2>1. \A y \in Links : Body(alone, y) = Answer(y)
    <3> HIDE DEF Body, alone
    <3> QED
      BY <1>5, <1>6
  <2> HIDE DEF Body, Answer
  <2> QED
    BY <2>1
<1>8. IsSol(below)
  BY <1>7, Zenon
<1>9. below[Null] = {}
  <2> HIDE DEF below
  <2> QED
    BY <1>8, <1>3
<1>10. \A y \in Links : below[y] = Answer(y)
  <2> HIDE DEF below
  <2>1. \A y \in Links : below[y] = Body(below, y)
    <3> HIDE DEF Body
    <3> QED
      BY <1>8
  <2> HIDE DEF Body, Answer
  <2> QED
    BY <2>1, <1>5, <1>9
<1>11. \A y \in Links : Below(s, y) = below[y]
  BY Zenon DEF Below
<1> QED
  BY <1>3, <1>10, <1>11 DEF Links

-----------------------------------------------------------------------------

(* An allocation from a tree of one node.                                  *)

\* alloc_node_obj takes the first slot that was never used.
LEMMA FirstFree ==
    ASSUME NEW s, NEW v, FreeSlots(s, v) # {}
    PROVE  \E i \in FreeSlots(s, v) :
              /\ alloc_node_obj(s, v) = <<v, i>>
              /\ \A j \in FreeSlots(s, v) : i <= j
<1> DEFINE F == FreeSlots(s, v)
           First(i) == i \in F /\ \A j \in F : i <= j
<1>0. F # {}
  OBVIOUS
<1>1. F \subseteq Nat
  BY DEF FreeSlots
<1>2. \E i : First(i)
  <2> HIDE DEF F
  <2> QED
    BY <1>0, <1>1, LeastElement
<1>3. First(CHOOSE i : First(i))
  BY <1>2, Zenon
<1>4. alloc_node_obj(s, v) = <<v, CHOOSE i \in F : \A j \in F : i <= j>>
  BY Zenon DEF alloc_node_obj
<1> HIDE DEF F
<1>5. (CHOOSE i \in F : \A j \in F : i <= j) = CHOOSE i : First(i)
  BY Zenon
<1>6. \E i \in F : alloc_node_obj(s, v) = <<v, i>> /\ \A j \in F : i <= j
  BY <1>3, <1>4, <1>5, Zenon
<1> QED
  BY <1>6 DEF F

\* The only node of the tree of v is the first of its slots.
Single(s, v, b, z) ==
    /\ s.root[v] = <<v, 1>>
    /\ \E c \in {RED, BLACK} : At(s, <<v, 1>>, b, z, 3, c, Null, NoKids)
    /\ \A i \in 2 .. Slots : s.at[<<v, i>>].flags \in {0, 1}

\* A slot that is filled in by make_node.
LEMMA FreshNode ==
    ASSUME NEW s \in Trees, NEW x \in Nodes, NEW base \in Nat, NEW size \in Nat
    PROVE  LET taken == [s EXCEPT !.at[x] = [Unused EXCEPT !.base = base, !.size = size,
                                              !.flags = 3, !.color = BLACK]]
           IN  /\ SameBut(s, taken, {x})
               /\ At(taken, x, base, size, 3, BLACK, Null, NoKids)
<1> DEFINE e == [Unused EXCEPT !.base = base, !.size = size,
                               !.flags = 3, !.color = BLACK]
           taken == [s EXCEPT !.at[x] = e]
<1>1. e = Entry(base, size, 3, BLACK, Null, NoKids)
  <2>1. Unused = Entry(0, 0, 0, RED, Null, NoKids)
    BY DEF Unused, Entry, NoKids
  <2>2. [Entry(0, 0, 0, RED, Null, NoKids) EXCEPT !.base = base]
           = Entry(base, 0, 0, RED, Null, NoKids)
    BY DEF Entry
  <2>3. [Entry(base, 0, 0, RED, Null, NoKids) EXCEPT !.size = size]
           = Entry(base, size, 0, RED, Null, NoKids)
    BY DEF Entry
  <2>4. [Entry(base, size, 0, RED, Null, NoKids) EXCEPT !.flags = 3]
           = Entry(base, size, 3, RED, Null, NoKids)
    BY DEF Entry
  <2>5. [Entry(base, size, 3, RED, Null, NoKids) EXCEPT !.color = BLACK]
           = Entry(base, size, 3, BLACK, Null, NoKids)
    BY DEF Entry
  <2> QED
    BY <2>1, <2>2, <2>3, <2>4, <2>5
<1>2. Fields(base, size, 3, BLACK, Null, NoKids)
  BY DEF Fields, Colors, Links, NoKids
<1>3. taken = With(s, x, e)
  BY DEF With
<1> HIDE DEF e
<1>4. Tree(s, x)
  BY DEF Tree
<1>5. SameBut(s, taken, {x}) /\ At(taken, x, base, size, 3, BLACK, Null, NoKids)
  <2> HIDE DEF taken
  <2> QED
    BY <1>1, <1>2, <1>3, <1>4, AtWith
<1> QED
  BY <1>5 DEF e

\* The left child of the only node of v, made by make_node when a range is split.
Pair(s, w, v, y, b, z, base, size) ==
    /\ SameBut(s, w, {<<v, 1>>, y})
    /\ At(w, y, base, size, 3, RED, <<v, 1>>, NoKids)
    /\ At(w, <<v, 1>>, b, z, 3, BLACK, Null, [NoKids EXCEPT ![0] = y])

\* make_node on a tree of one node hangs the new one below it: the root is
\* painted black, so there is nothing for insert_violations to do.
LEMMA MakeSecond ==
    ASSUME NEW s, NEW v \in Vmms, NEW b, NEW z, AllLeaves(s), Single(s, v, b, z),
           NEW base \in Nat, NEW size \in Nat, size <= z, FreeSlots(s, v) # {}
    PROVE  \E i \in 2 .. Slots :
              Pair(s, make_node(s, v, base, size), v, <<v, i>>, b, z, base, size)
<1> DEFINE r == <<v, 1>>
<1>1. PICK i \in FreeSlots(s, v) : alloc_node_obj(s, v) = <<v, i>>
  BY FirstFree
<1> DEFINE y == <<v, i>>
           taken == [s EXCEPT !.at[y] = [Unused EXCEPT !.base = base, !.size = size,
                                         !.flags = 3, !.color = BLACK]]
<1>2. PICK c \in {RED, BLACK} : At(s, r, b, z, 3, c, Null, NoKids)
  BY DEF Single
<1>3. s \in Trees /\ r \in Nodes /\ s.at[r].flags = 3 /\ s.root[v] = r
  BY <1>2, EntryIs DEF At, Single
<1>4. i \in 1 .. Slots /\ s.at[y].flags = 0
  BY DEF FreeSlots
<1>5. i # 1 /\ y # r
  BY <1>3, <1>4
<1>6. i \in 2 .. Slots /\ y \in Nodes
  <2>1. Slots \in Nat
    BY RBTreeAssumption
  <2> QED
    BY <1>4, <1>5, <2>1 DEF Nodes
<1>7. SameBut(s, taken, {y}) /\ At(taken, y, base, size, 3, BLACK, Null, NoKids)
  BY <1>3, <1>6, FreshNode
<1>8. make_node(s, v, base, size) = insert_node(taken, v, y)
  <2>1. s.root[v] # Null
    BY <1>3, RBTreeAssumption
  <2> QED
    BY <1>1, <2>1 DEF make_node
<1> HIDE DEF taken
<1>9. AllLeaves(taken)
  <2>1. ASSUME NEW x \in Nodes PROVE taken.at[x].kid = NoKids
    <3>1. CASE x = y
      BY <3>1, <1>7, EntryIs DEF At
    <3>2. CASE x # y
      BY <3>2, <1>7 DEF SameBut, AllLeaves
    <3> QED
      BY <3>1, <3>2
  <2> QED
    BY <2>1, <1>7 DEF AllLeaves, SameBut
<1>10. At(taken, r, b, z, 3, c, Null, NoKids) /\ taken.root[v] = r
  BY <1>2, <1>3, <1>5, <1>7 DEF At, SameBut
<1> DEFINE black == BlackRoot(taken, v)
<1>11. SameBut(taken, black, {r}) /\ At(black, r, b, z, 3, BLACK, Null, NoKids)
  <2>1. BLACK \in Colors /\ black = Paint(taken, r, BLACK)
    BY <1>10 DEF Colors, BlackRoot
  <2> HIDE DEF black
  <2> QED
    BY <1>10, <2>1, PaintIs
<1>12. At(black, y, base, size, 3, BLACK, Null, NoKids)
  BY <1>5, <1>6, <1>7, <1>11 DEF At, SameBut
<1>13. Descend(taken, taken.root[v], taken.at[y].size) = r
  BY <1>3, <1>9, <1>10, DescendIs
<1>14. make_node(s, v, base, size) = HangUnder(black, v, y, r)
  BY <1>8, <1>13 DEF insert_node
<1> HIDE DEF black
<1>15. Color(black, r) = BLACK
  <2>1. r # Null
    BY <1>3, RBTreeAssumption
  <2> QED
    BY <1>11, <2>1, EntryIs DEF Color, At
<1>16. make_node(s, v, base, size) = Hang(black, y, r)
  BY <1>14, <1>15 DEF HangUnder
<1> DEFINE w == Hang(black, y, r)
<1>17. /\ SameBut(black, w, {y, r})
       /\ At(w, y, base, size, 3, RED, r, NoKids)
       /\ At(w, r, b, z, 3, BLACK, Null, [NoKids EXCEPT ![0] = y])
  BY <1>5, <1>11, <1>12, HangIs
<1> HIDE DEF w
<1>18. SameBut(s, w, {r, y})
  BY <1>7, <1>11, <1>17 DEF SameBut
<1>19. Pair(s, w, v, y, b, z, base, size)
  BY <1>17, <1>18 DEF Pair
<1> QED
  BY <1>6, <1>16, <1>19 DEF w

\* delete_node of the range that was split takes the second node out again.
LEMMA TakeOutFirst ==
    ASSUME NEW s, NEW w, NEW v \in Vmms, NEW y, NEW b, NEW z, NEW base, NEW size,
           Pair(s, w, v, y, b, z, base, size), w.fault = "no", y # <<v, 1>>
    PROVE  LET q == TakeOut(w, <<v, 1>>)
           IN  /\ SameBut(s, q, {<<v, 1>>, y})
               /\ \E c \in {RED, BLACK} :
                     At(q, <<v, 1>>, base, size, 3, c, Null, NoKids)
               /\ At(q, y, 0, size, 1, RED, <<v, 1>>, NoKids)
<1> DEFINE r == <<v, 1>>
           two == [NoKids EXCEPT ![0] = y]
<1>1. /\ At(w, y, base, size, 3, RED, r, NoKids)
      /\ At(w, r, b, z, 3, BLACK, Null, two)
      /\ SameBut(s, w, {r, y})
  BY DEF Pair
<1>2. /\ w \in Trees /\ r \in Nodes /\ y \in Nodes
      /\ r # Null /\ y # Null
      /\ w.at[r].kid = two /\ w.at[y].kid = NoKids
      /\ w.at[y].parent = r /\ w.at[y].color = RED
  BY <1>1, EntryIs, RBTreeAssumption DEF At
<1>3. w.at[r].kid[0] = y /\ w.at[r].kid[1] = Null
  BY <1>2 DEF NoKids, Dir
<1>4. w.at[y].kid[0] = Null /\ w.at[y].kid[1] = Null
  BY <1>2 DEF NoKids, Dir
<1> HIDE DEF two, r
<1>5. /\ ~ Leaf(w, r) /\ Leaf(w, y)
      /\ ~ \A d \in Dir : w.at[r].kid[d] # Null
      /\ OnlyChild(w, r) = y
  BY <1>2, <1>3, <1>4 DEF Leaf, OnlyChild, Dir
<1>6. Damage(w, r) = "no"
  BY <1>5 DEF Damage
<1>7. delete_node(w, r) = DeleteLink(w, r)
  BY <1>5 DEF delete_node
<1> DEFINE copied == CopyRange(w, r, y)
<1>8. /\ SameBut(w, copied, {r})
      /\ At(copied, r, base, size, 3, BLACK, Null, two)
  BY <1>1, CopyRangeIs
<1>9. At(copied, y, base, size, 3, RED, r, NoKids)
  <2> HIDE DEF copied
  <2>1. y # r
    BY DEF r
  <2> QED
    BY <1>1, <1>8, <2>1 DEF At, SameBut
<1> HIDE DEF copied
<1>10. delete_violations(copied, y) = copied
  <2>1. copied.at[y].parent = r /\ copied.at[y].color = RED
    BY <1>9, EntryIs DEF At
  <2>2. Color(copied, y) = RED
    BY <1>2, <2>1 DEF Color
  <2>3. Stops(copied, y)
    BY <2>2 DEF Stops
  <2>4. Stopped(copied, y) = copied
    BY <1>2, <2>1, <2>2 DEF Stopped
  <2> QED
    BY <2>3, <2>4 DEF delete_violations
<1> DEFINE joined == Join(copied, r, y)
<1>11. /\ SameBut(copied, joined, {r})
       /\ At(joined, r, base, size, 3, RED, Null, NoKids)
  BY <1>8, <1>9, JoinIs
<1> DEFINE top == BlackIfRoot(joined, r)
<1>12. /\ SameBut(copied, top, {r})
       /\ \E c \in {RED, BLACK} : At(top, r, base, size, 3, c, Null, NoKids)
  <2> HIDE DEF joined
  <2>1. CASE r = joined.root[Kernel]
    <3>1. top = Paint(joined, r, BLACK) /\ BLACK \in Colors
      BY <2>1 DEF BlackIfRoot, Colors
    <3>2. /\ SameBut(joined, top, {r})
          /\ At(top, r, base, size, 3, BLACK, Null, NoKids)
      <4> HIDE DEF top
      <4> QED
        BY <1>11, <3>1, PaintIs
    <3> HIDE DEF top
    <3> QED
      BY <1>11, <3>2 DEF SameBut
  <2>2. CASE r # joined.root[Kernel]
    <3>1. top = joined
      BY <2>2 DEF BlackIfRoot
    <3> HIDE DEF top
    <3> QED
      BY <1>11, <3>1
  <2> QED
    BY <2>1, <2>2
<1>13. delete_node(w, r) = free_node_obj(top, y)
  BY <1>5, <1>7, <1>10 DEF DeleteLink, copied
<1> HIDE DEF top, joined
<1>14. y # r
  BY DEF r
<1>15. At(top, y, base, size, 3, RED, r, NoKids)
  BY <1>9, <1>12, <1>14 DEF At, SameBut
<1> DEFINE q == free_node_obj(top, y)
<1>16. SameBut(top, q, {y}) /\ At(q, y, 0, size, 1, RED, r, NoKids)
  BY <1>15, FreeNodeIs
<1> HIDE DEF q
<1>17. SameBut(w, q, {r, y})
  BY <1>8, <1>12, <1>16 DEF SameBut
<1>18. \E c \in {RED, BLACK} : At(q, r, base, size, 3, c, Null, NoKids)
  BY <1>12, <1>14, <1>16, <1>2 DEF At, SameBut
<1>19. TakeOut(w, r) = q
  <2>1. q.root = w.root
    BY <1>17 DEF SameBut
  <2>2. UnderKernelRoot(w, q) = q
    BY <2>1 DEF UnderKernelRoot
  <2>3. TakeOut(w, r) = UnderKernelRoot(w, delete_node(w, r))
    BY <1>6 DEF TakeOut
  <2> QED
    BY <1>13, <2>2, <2>3 DEF q
<1>20. SameBut(s, q, {r, y})
  BY <1>1, <1>17 DEF SameBut
<1> QED
  BY <1>16, <1>18, <1>19, <1>20 DEF r

-----------------------------------------------------------------------------

(* The invariant.  OneNodeWithoutFrees only counts the nodes in a tree;    *)
(* that the next allocation leaves one node again depends on which slot it *)
(* is in, that it has no parent and no children, that no other slot is in  *)
(* use, and that the nodes given up keep no children.                      *)

\* Both trees have one node; n pages of the one in use are gone.
Alone(s, n) ==
    /\ AllLeaves(s)
    /\ \A v \in Vmms : Single(s, v, IF v = cvmm THEN Low + n ELSE Low,
                                    IF v = cvmm THEN High - n ELSE High)

\* Until a page is put back: the pages handed out are the first n, or one of
\* two faults has stopped the model.
OneNode ==
    /\ cvmm \in Vmms
    /\ freed \in BOOLEAN
    /\ ~freed =>
          /\ t \in Trees
          /\ given \subseteq Low .. (Low + High - 1)
          /\ t.fault \in {"no", "store", "only"}
          /\ t.fault = "no" =>
                \E n \in 0 .. (High - 1) : given = Low .. (Low + n - 1) /\ Alone(t, n)

\* What happens to the nodes of one vmm leaves the other with one node.
LEMMA SingleKept ==
    ASSUME NEW s, NEW q, NEW v \in Vmms, NEW u \in Vmms, u # v, NEW i,
           SameBut(s, q, {<<v, 1>>, <<v, i>>}),
           NEW b, NEW z, Single(s, u, b, z)
    PROVE  Single(q, u, b, z)
<1>1. PICK c \in {RED, BLACK} : At(s, <<u, 1>>, b, z, 3, c, Null, NoKids)
  BY DEF Single
<1>2. <<u, 1>> \in Nodes /\ \A j \in 2 .. Slots : <<u, j>> \in Nodes
  <2>1. <<u, 1>> \in Nodes
    BY <1>1 DEF At
  <2>2. Slots \in Nat
    BY RBTreeAssumption
  <2> QED
    BY <2>1, <2>2 DEF Nodes
<1>3. q \in Trees /\ q.root = s.root
  BY DEF SameBut
<1>4. q.at[<<u, 1>>] = s.at[<<u, 1>>]
        /\ \A j \in 2 .. Slots : q.at[<<u, j>>] = s.at[<<u, j>>]
  BY <1>2 DEF SameBut
<1>5. At(q, <<u, 1>>, b, z, 3, c, Null, NoKids)
  BY <1>1, <1>3, <1>4 DEF At
<1> QED
  BY <1>3, <1>4, <1>5 DEF Single

\* An allocation that leaves a rest: one node again, n + length pages gone.
LEMMA SplitAlone ==
    ASSUME cvmm \in Vmms, NEW n \in 0 .. (High - 1), Alone(t, n), t.fault = "no",
           NEW length \in Nat \ {0}, High - n > length,
           FreeSlots(t, cvmm) # {}
    PROVE  LET q == TakeOut(Split(t, cvmm, <<cvmm, 1>>, length), <<cvmm, 1>>)
           IN  q \in Trees /\ q.fault = "no" /\ Alone(q, n + length)
<1> DEFINE r == <<cvmm, 1>>
           b == Low + n
           z == High - n
           base == b + length
           size == z - length
           w == make_node(t, cvmm, base, size)
           q == TakeOut(w, r)
<1>0. /\ b \in Nat /\ z \in Nat /\ base \in Nat /\ size \in Nat /\ size <= z
      /\ base = Low + (n + length) /\ size = High - (n + length)
  BY RBTreeAssumption
<1>1. AllLeaves(t) /\ Single(t, cvmm, b, z)
  BY DEF Alone
<1>2. t.at[r].base = b /\ t.at[r].size = z
  <2>1. PICK c : At(t, r, b, z, 3, c, Null, NoKids)
    BY <1>1 DEF Single
  <2> QED
    BY <2>1, EntryIs DEF At
<1>3. Split(t, cvmm, r, length) = w
  BY <1>2 DEF Split
<1> HIDE DEF b, z, base, size
<1>4. PICK i \in 2 .. Slots : Pair(t, w, cvmm, <<cvmm, i>>, b, z, base, size)
  BY <1>0, <1>1, MakeSecond
<1>5. w.fault = "no"
  BY <1>4 DEF Pair, SameBut
<1>6. <<cvmm, i>> # r
  BY <1>4
<1> HIDE DEF w
<1>7. /\ SameBut(t, q, {r, <<cvmm, i>>})
      /\ \E c \in {RED, BLACK} : At(q, r, base, size, 3, c, Null, NoKids)
      /\ At(q, <<cvmm, i>>, 0, size, 1, RED, r, NoKids)
  BY <1>4, <1>5, <1>6, TakeOutFirst
<1> HIDE DEF q
<1>8. q \in Trees /\ q.fault = "no" /\ q.root = t.root
  BY <1>7 DEF SameBut
<1>9. q.at[r].kid = NoKids /\ q.at[<<cvmm, i>>].kid = NoKids
        /\ q.at[<<cvmm, i>>].flags = 1
  BY <1>7, EntryIs DEF At
<1>10. AllLeaves(q)
  BY <1>1, <1>7, <1>8, <1>9 DEF AllLeaves, SameBut
<1>11. Single(q, cvmm, base, size)
  <2>1. q.root[cvmm] = r
    BY <1>1, <1>8 DEF Single
  <2>2. ASSUME NEW j \in 2 .. Slots PROVE q.at[<<cvmm, j>>].flags \in {0, 1}
    <3>1. CASE j = i
      BY <1>9, <3>1
    <3>2. CASE j # i
      <4>1. <<cvmm, j>> \in Nodes \ {r, <<cvmm, i>>}
        BY <3>2, RBTreeAssumption DEF Nodes
      <4>2. q.at[<<cvmm, j>>] = t.at[<<cvmm, j>>]
        BY <1>7, <4>1 DEF SameBut
      <4> QED
        BY <1>1, <4>2 DEF Single
    <3> QED
      BY <3>1, <3>2
  <2> QED
    BY <1>7, <2>1, <2>2 DEF Single
<1>12. ASSUME NEW u \in Vmms, u # cvmm PROVE Single(q, u, Low, High)
  <2>1. Single(t, u, Low, High)
    BY <1>12 DEF Alone
  <2> QED
    BY <2>1, <1>7, <1>12, SingleKept
<1>13. Alone(q, n + length)
  BY <1>0, <1>10, <1>11, <1>12 DEF Alone
<1> QED
  BY <1>3, <1>8, <1>13 DEF q

\* Without a slot for the rest, make_node runs past the store page.
LEMMA StoreFull ==
    ASSUME NEW n \in 0 .. (High - 1), cvmm \in Vmms, Alone(t, n), t.fault = "no",
           NEW length \in Nat \ {0}, High - n > length, FreeSlots(t, cvmm) = {}
    PROVE  TakeOut(Split(t, cvmm, <<cvmm, 1>>, length), <<cvmm, 1>>).fault = "store"
<1> DEFINE r == <<cvmm, 1>>
<1>1. AllLeaves(t) /\ Single(t, cvmm, Low + n, High - n)
  BY DEF Alone
<1>2. t.at[r].size = High - n /\ t \in Trees
  <2>1. PICK c : At(t, r, Low + n, High - n, 3, c, Null, NoKids)
    BY <1>1 DEF Single
  <2> QED
    BY <2>1, EntryIs DEF At
<1>3. Split(t, cvmm, r, length) = Fail(t, "store")
  BY <1>2 DEF Split, make_node
<1>4. "store" \in Faults
  BY Zenon DEF Faults
<1>5. Fail(t, "store").fault = "store"
  BY <1>2, <1>4, FailIs
<1>6. TakeOut(Fail(t, "store"), r) = Fail(t, "store")
  BY <1>5 DEF TakeOut
<1> QED
  BY <1>3, <1>5, <1>6

\* An allocation of all that is left deletes the only node.
LEMMA LastTaken ==
    ASSUME NEW n \in 0 .. (High - 1), cvmm \in Vmms, Alone(t, n), t.fault = "no",
           NEW length \in Nat \ {0}, High - n = length
    PROVE  TakeOut(Split(t, cvmm, <<cvmm, 1>>, length), <<cvmm, 1>>).fault = "only"
<1> DEFINE r == <<cvmm, 1>>
<1>1. AllLeaves(t) /\ Single(t, cvmm, Low + n, High - n)
  BY DEF Alone
<1>2. t.at[r].size = High - n /\ t \in Trees /\ r \in Nodes
        /\ t.at[r].parent = Null
  <2>1. PICK c : At(t, r, Low + n, High - n, 3, c, Null, NoKids)
    BY <1>1 DEF Single
  <2> QED
    BY <2>1, EntryIs DEF At
<1>3. Split(t, cvmm, r, length) = t
  <2>1. High \in Nat
    BY RBTreeAssumption
  <2> QED
    BY <1>2, <2>1 DEF Split
<1>4. Leaf(t, r) /\ ~ \A d \in Dir : t.at[r].kid[d] # Null
  <2>1. t.at[r].kid = NoKids
    BY <1>1, <1>2 DEF AllLeaves
  <2> QED
    BY <2>1 DEF Leaf, NoKids, Dir
<1>5. Damage(t, r) = "no" /\ delete_node(t, r) = DeleteLeaf(t, r)
  BY <1>4 DEF Damage, delete_node
<1>6. DeleteLeaf(t, r) = Fail(t, "only")
  BY <1>2 DEF DeleteLeaf
<1>7. "only" \in Faults
  BY Zenon DEF Faults
<1>8. Fail(t, "only").fault = "only" /\ Fail(t, "only").root = t.root
  BY <1>2, <1>7, FailIs
<1>9. TakeOut(t, r) = Fail(t, "only")
  BY <1>5, <1>6, <1>8 DEF TakeOut, UnderKernelRoot
<1> QED
  BY <1>3, <1>8, <1>9

\* vmm_page_alloc keeps the invariant.
LEMMA AllocStep ==
    ASSUME OneNode, NEW length \in 1 .. MaxLength, vmm_page_alloc(length)
    PROVE  OneNode'
<1>1. cvmm' = cvmm /\ freed' = freed /\ t.fault = "no"
  BY DEF vmm_page_alloc
<1>2. SUFFICES ASSUME ~freed
               PROVE  /\ t' \in Trees
                      /\ given' \subseteq Low .. (Low + High - 1)
                      /\ t'.fault \in {"no", "store", "only"}
                      /\ t'.fault = "no" =>
                            \E m \in 0 .. (High - 1) :
                               given' = Low .. (Low + m - 1) /\ Alone(t, m)'
  BY <1>1, Zenon DEF OneNode
<1>3. PICK n \in 0 .. (High - 1) : given = Low .. (Low + n - 1) /\ Alone(t, n)
  BY <1>1, <1>2 DEF OneNode
<1>4. cvmm \in Vmms /\ t \in Trees /\ given \subseteq Low .. (Low + High - 1)
  BY <1>2 DEF OneNode
<1> DEFINE r == <<cvmm, 1>>
           q == TakeOut(Split(t, cvmm, r, length), r)
<1>5. length \in Nat \ {0} /\ Low \in Nat /\ High \in Nat \ {0} /\ n \in Nat
  BY RBTreeAssumption
<1>6. PICK c : At(t, r, Low + n, High - n, 3, c, Null, NoKids) /\ t.root[cvmm] = r
  BY <1>3, <1>4 DEF Alone, Single
<1>7. r \in Nodes /\ t.at[r].base = Low + n /\ t.at[r].size = High - n
  BY <1>6, EntryIs DEF At
<1>8. BestFrom(t, r, length) = IF High - n < length THEN Null ELSE r
  BY <1>3, <1>5, <1>7, BestFromIs DEF Alone
<1>9. /\ ~ (High - n < length)
      /\ IF q.fault # "no" THEN t' = Fail(t, q.fault) /\ UNCHANGED given
         ELSE /\ t' = q
              /\ given' = given \union (Low + n) .. (Low + n + length - 1)
  <2>1. PICK x \in {BestFrom(t, r, length)} \ {Null} :
          \E s \in {TakeOut(Split(t, cvmm, x, length), x)} :
            IF s.fault # "no" THEN t' = Fail(t, s.fault) /\ UNCHANGED given
            ELSE /\ t' = s
                 /\ given' = given \union
                              (t.at[x].base .. (t.at[x].base + length - 1))
    BY <1>6, Zenon DEF vmm_page_alloc
  <2>2. x = r /\ ~ (High - n < length)
    BY <1>8, <2>1
  <2>3. IF q.fault # "no" THEN t' = Fail(t, q.fault) /\ UNCHANGED given
        ELSE /\ t' = q
             /\ given' = given \union (t.at[r].base .. (t.at[r].base + length - 1))
    BY <2>1, <2>2, Zenon
  <2> HIDE DEF q
  <2> QED
    BY <1>7, <2>2, <2>3
<1>10. ASSUME NEW why \in {"store", "only"}, q.fault = why
       PROVE  t' \in Trees /\ t'.fault = why /\ given' = given
  <2>1. why \in Faults
    BY Zenon DEF Faults
  <2>2. t' = Fail(t, why) /\ given' = given
    BY <1>9, <1>10
  <2> QED
    BY <1>4, <2>1, <2>2, FailIs
<1>11. CASE High - n = length
  <2>1. q.fault = "only"
    BY <1>1, <1>3, <1>4, <1>5, <1>11, LastTaken
  <2> QED
    BY <1>4, <1>10, <2>1
<1>12. CASE High - n > length /\ FreeSlots(t, cvmm) = {}
  <2>1. q.fault = "store"
    BY <1>1, <1>3, <1>4, <1>5, <1>12, StoreFull
  <2> QED
    BY <1>4, <1>10, <2>1
<1>13. CASE High - n > length /\ FreeSlots(t, cvmm) # {}
  <2>1. q \in Trees /\ q.fault = "no" /\ Alone(q, n + length)
    BY <1>1, <1>3, <1>4, <1>5, <1>13, SplitAlone
  <2>2. t' = q /\ given' = given \union (Low + n) .. (Low + n + length - 1)
    BY <1>9, <2>1
  <2>3. Alone(t, n + length)'
    <3> HIDE DEF q
    <3> QED
      BY <1>1, <2>1, <2>2 DEF Alone, Single
  <2>4. n + length \in 0 .. (High - 1)
    BY <1>5, <1>13
  <2>5. given' = Low .. (Low + (n + length) - 1)
    BY <1>3, <1>5, <2>2
  <2>6. given' \subseteq Low .. (Low + High - 1)
    BY <1>5, <2>4, <2>5
  <2>7. t' \in Trees /\ t'.fault = "no"
    BY <2>1, <2>2
  <2> QED
    BY <2>3, <2>4, <2>5, <2>6, <2>7
<1> QED
  BY <1>5, <1>9, <1>11, <1>12, <1>13

\* v has no node yet.
Bare(s, v) == s \in Trees /\ s.root[v] = Null
                /\ \A i \in 1 .. Slots : s.at[<<v, i>>].flags = 0

\* w is s with a first node in the tree of v.
Started(s, w, v, b, z) ==
    /\ w \in Trees
    /\ w.root = [s.root EXCEPT ![v] = <<v, 1>>]
    /\ w.fault = s.fault
    /\ At(w, <<v, 1>>, b, z, 3, BLACK, Null, NoKids)
    /\ \A x \in Nodes : x # <<v, 1>> => w.at[x] = s.at[x]

\* make_node on an empty tree.
LEMMA MakeFirst ==
    ASSUME NEW s, NEW v \in Vmms, NEW b \in Nat, NEW z \in Nat, Bare(s, v)
    PROVE  Started(s, make_node(s, v, b, z), v, b, z)
<1> DEFINE x == <<v, 1>>
           taken == [s EXCEPT !.at[x] = [Unused EXCEPT !.base = b, !.size = z,
                                         !.flags = 3, !.color = BLACK]]
           w == [taken EXCEPT !.root[v] = x]
<1>1. Slots \in Nat \ {0} /\ x \in Nodes /\ s \in Trees /\ s.root[v] = Null
  BY RBTreeAssumption DEF Nodes, Bare
<1>2. FreeSlots(s, v) = 1 .. Slots
  BY DEF FreeSlots, Bare
<1>3. alloc_node_obj(s, v) = x /\ FreeSlots(s, v) # {}
  <2>1. FreeSlots(s, v) # {}
    BY <1>1, <1>2
  <2>2. PICK i \in FreeSlots(s, v) :
           alloc_node_obj(s, v) = <<v, i>> /\ \A j \in FreeSlots(s, v) : i <= j
    BY <2>1, FirstFree
  <2>3. Slots \in Nat \ {0}
    BY <1>1
  <2>4. i \in 1 .. Slots /\ \A j \in 1 .. Slots : i <= j
    BY <1>2, <2>2
  <2>5. i = 1
    <3>1. 1 \in 1 .. Slots
      BY <2>3
    <3> QED
      BY <2>4, <3>1
  <2> QED
    BY <2>1, <2>2, <2>5
<1>4. make_node(s, v, b, z) = w
  BY <1>1, <1>3 DEF make_node
<1>5. SameBut(s, taken, {x}) /\ At(taken, x, b, z, 3, BLACK, Null, NoKids)
  BY <1>1, FreshNode
<1> HIDE DEF taken
<1>6. taken \in Trees /\ x \in Links
  BY <1>1, <1>5 DEF SameBut, Links
<1>7. w \in Trees /\ w.root = [taken.root EXCEPT ![v] = x]
        /\ w.at = taken.at /\ w.fault = taken.fault
  BY <1>6 DEF Trees
<1> HIDE DEF w
<1> QED
  BY <1>4, <1>5, <1>7 DEF SameBut, At, Started

\* The store pages before create_vmm.
LEMMA EmptyIs ==
    /\ Empty \in Trees /\ Empty.fault = "no"
    /\ \A v \in Vmms : Empty.root[v] = Null
    /\ \A x \in Nodes : Empty.at[x].flags = 0 /\ Empty.at[x].kid = NoKids
<1>1. Fields(0, 0, 0, RED, Null, NoKids)
  BY DEF Fields, Colors, Links, NoKids
<1>2. Unused = Entry(0, 0, 0, RED, Null, NoKids)
  BY DEF Unused, Entry, NoKids
<1>3. Unused \in Entries /\ Unused.flags = 0 /\ Unused.kid = NoKids
  BY <1>1, <1>2, EntryIs
<1>4. "no" \in Faults
  BY Zenon DEF Faults
<1> HIDE DEF Unused
<1> QED
  BY <1>3, <1>4 DEF Empty, Trees, Links

\* create_vmm makes one node for each vmm.
LEMMA InitOneNode ==
    Init => OneNode
<1> SUFFICES ASSUME Init PROVE OneNode
  OBVIOUS
<1> DEFINE k == create_vmm(Empty, Kernel)
           w == create_vmm(k, Process)
<1>0. /\ Kernel \in Vmms /\ Process \in Vmms /\ Kernel # Process
      /\ Vmms = {Kernel, Process}
      /\ Low \in Nat /\ High \in Nat \ {0} /\ Slots \in Nat \ {0}
  BY RBTreeAssumption DEF Vmms
<1>1. t = w /\ cvmm \in Vmms /\ given = {} /\ freed = FALSE
  BY DEF Init
<1>2. \A v \in Vmms : \A i \in 1 .. Slots : <<v, i>> \in Nodes
  BY DEF Nodes
<1>3. Started(Empty, k, Kernel, Low, High)
  <2>1. k = make_node(Empty, Kernel, Low, High)
    BY DEF create_vmm
  <2>2. Bare(Empty, Kernel)
    BY <1>0, <1>2, EmptyIs DEF Bare
  <2> HIDE DEF k
  <2> QED
    BY <1>0, <2>1, <2>2, MakeFirst
<1> HIDE DEF k
<1>4. Empty.root \in [Vmms -> Links] /\ k.root \in [Vmms -> Links]
  BY EmptyIs, <1>3 DEF Trees, Started
<1>5. Started(k, w, Process, Low, High)
  <2>1. \A i \in 1 .. Slots : k.at[<<Process, i>>].flags = 0
    BY <1>0, <1>2, <1>3, EmptyIs DEF Started
  <2>2. k.root[Process] = Null
    BY <1>0, <1>3, <1>4, EmptyIs DEF Started
  <2>3. Bare(k, Process)
    BY <1>3, <2>1, <2>2 DEF Bare, Started
  <2>4. w = make_node(k, Process, Low, High)
    BY DEF create_vmm
  <2> HIDE DEF w
  <2> QED
    BY <1>0, <2>3, <2>4, MakeFirst
<1> HIDE DEF w
<1>6. w.root[Kernel] = <<Kernel, 1>> /\ w.root[Process] = <<Process, 1>>
  BY <1>0, <1>3, <1>4, <1>5 DEF Started
<1>7. At(w, <<Kernel, 1>>, Low, High, 3, BLACK, Null, NoKids)
  BY <1>0, <1>3, <1>5 DEF At, Started
<1>8. \A v \in Vmms : \A i \in 2 .. Slots : w.at[<<v, i>>] = Empty.at[<<v, i>>]
  BY <1>0, <1>2, <1>3, <1>5 DEF Started
<1>9. \A v \in Vmms : Single(w, v, Low, High)
  <2> TAKE v \in Vmms
  <2>1. \A i \in 2 .. Slots : w.at[<<v, i>>].flags \in {0, 1}
    BY <1>0, <1>2, <1>8, EmptyIs
  <2> QED
    BY <1>0, <1>5, <1>6, <1>7, <2>1 DEF Single, Started
<1>10. AllLeaves(w)
  <2>1. w.at[<<Kernel, 1>>].kid = NoKids /\ w.at[<<Process, 1>>].kid = NoKids
    BY <1>5, <1>7, EntryIs DEF At, Started
  <2> QED
    BY <1>3, <1>5, <2>1, EmptyIs DEF AllLeaves, Started
<1>11. Alone(w, 0)
  <2>1. Low + 0 = Low /\ High - 0 = High
    BY <1>0
  <2> QED
    BY <1>9, <1>10, <2>1 DEF Alone
<1>12. Low .. (Low + 0 - 1) = {} /\ 0 \in 0 .. (High - 1)
  BY <1>0
<1>13. w \in Trees /\ w.fault = "no"
  BY <1>3, <1>5, EmptyIs DEF Started
<1> QED
  BY <1>1, <1>11, <1>12, <1>13 DEF OneNode

-----------------------------------------------------------------------------

\* Every step keeps the invariant; vmm_page_free ends what it speaks about.
LEMMA NextOneNode ==
    OneNode /\ [Next]_vars => OneNode'
<1> SUFFICES ASSUME OneNode, [Next]_vars PROVE OneNode'
  OBVIOUS
<1>1. ASSUME NEW length \in 1 .. MaxLength, vmm_page_alloc(length) PROVE OneNode'
  BY <1>1, AllocStep
<1>2. ASSUME NEW page \in given, vmm_page_free(page) PROVE OneNode'
  BY <1>2, Zenon DEF vmm_page_free, OneNode
<1>3. CASE UNCHANGED vars
  BY <1>3, Zenon DEF vars, OneNode, Alone
<1> QED
  BY <1>1, <1>2, <1>3 DEF Next

\* The tree as the properties see it.
LEMMA InTreeIs ==
    ASSUME cvmm \in Vmms, NEW n, Alone(t, n), NEW v \in Vmms
    PROVE  InTree(t, v) = {<<v, 1>>} /\ <<v, 1>> \in Nodes
<1>1. t.root[v] = <<v, 1>>
  BY DEF Alone, Single
<1>2. <<v, 1>> \in Nodes
  BY RBTreeAssumption DEF Nodes
<1> QED
  BY <1>1, <1>2, BelowIs DEF InTree, Alone

\* While no page is put back, as in wordOS, vmm_page_alloc keeps the free memory
\* of each vmm in one node of its tree, and can fail only because the store page
\* has no slot left or because the last range is taken: delete_node loses no
\* node, leaves no stale parent pointer and never moves the kernel's root.
THEOREM FreeMemoryIsOneNode ==
    Spec => []OneNodeWithoutFrees
<1>1. OneNode => OneNodeWithoutFrees
  <2> SUFFICES ASSUME OneNode, ~freed PROVE
                 /\ t.fault \in {"no", "store", "only"}
                 /\ t.fault = "no" => \A v \in Vmms : Cardinality(InTree(t, v)) = 1
    BY DEF OneNodeWithoutFrees
  <2>1. t.fault \in {"no", "store", "only"}
    BY DEF OneNode
  <2>2. ASSUME t.fault = "no", NEW v \in Vmms PROVE Cardinality(InTree(t, v)) = 1
    <3>1. PICK n \in 0 .. (High - 1) : Alone(t, n)
      BY <2>2 DEF OneNode
    <3>2. InTree(t, v) = {<<v, 1>>}
      BY <3>1, InTreeIs DEF OneNode
    <3> QED
      BY <3>2, FS_Singleton
  <2> QED
    BY <2>1, <2>2
<1> QED
  BY <1>1, InitOneNode, NextOneNode, PTL DEF Spec

\* What create_vmm makes free: the range that is meant, and low pages more.
LEMMA WholeRange == Meant \union BehindHigh = Low .. (Low + High - 1)
BY RBTreeAssumption DEF Meant, BehindHigh

\* One node that begins where the pages handed out end holds the free pages.
LEMMA AloneLosesNothing ==
    ASSUME OneNode, ~freed PROVE NothingLost
<1> SUFFICES ASSUME t.fault = "no" PROVE TypeOK /\ \A v \in Vmms :
        LET tree == InTree(t, v)
        IN  /\ tree = {x \in Nodes : x[1] = v /\ t.at[x].flags = 3}
            /\ \A x, y \in tree : x # y => Pages(t, x) \intersect Pages(t, y) = {}
            /\ UNION {Pages(t, x) : x \in tree}
                  = (Low .. (Low + High - 1)) \ (IF v = cvmm THEN given ELSE {})
            /\ \A x \in tree : \A d \in Dir :
                  \A y \in Below(t, t.at[x].kid[d]) :
                     IF d = 0 THEN t.at[y].size <= t.at[x].size
                              ELSE t.at[y].size >= t.at[x].size
            /\ \A x \in tree : \A d \in Dir :
                  t.at[x].kid[d] # Null => t.at[t.at[x].kid[d]].parent = x
  BY WholeRange, Zenon DEF NothingLost
<1>1. TypeOK
  BY DEF OneNode, TypeOK
<1>2. PICK n \in 0 .. (High - 1) : given = Low .. (Low + n - 1) /\ Alone(t, n)
  BY DEF OneNode
<1>3. cvmm \in Vmms /\ Low \in Nat /\ High \in Nat \ {0} /\ n \in Nat
        /\ Slots \in Nat \ {0}
  BY RBTreeAssumption DEF OneNode
<1> SUFFICES ASSUME NEW v \in Vmms
             PROVE  LET tree == InTree(t, v)
        IN  /\ tree = {x \in Nodes : x[1] = v /\ t.at[x].flags = 3}
            /\ \A x, y \in tree : x # y => Pages(t, x) \intersect Pages(t, y) = {}
            /\ UNION {Pages(t, x) : x \in tree}
                  = (Low .. (Low + High - 1)) \ (IF v = cvmm THEN given ELSE {})
            /\ \A x \in tree : \A d \in Dir :
                  \A y \in Below(t, t.at[x].kid[d]) :
                     IF d = 0 THEN t.at[y].size <= t.at[x].size
                              ELSE t.at[y].size >= t.at[x].size
            /\ \A x \in tree : \A d \in Dir :
                  t.at[x].kid[d] # Null => t.at[t.at[x].kid[d]].parent = x
  BY <1>1, Zenon
<1> DEFINE r == <<v, 1>>
           b == IF v = cvmm THEN Low + n ELSE Low
           z == IF v = cvmm THEN High - n ELSE High
<1>4. InTree(t, v) = {r} /\ r \in Nodes
  BY <1>2, <1>3, InTreeIs
<1>5. Single(t, v, b, z) /\ AllLeaves(t)
  BY <1>2 DEF Alone
<1>6. t.at[r].base = b /\ t.at[r].size = z /\ t.at[r].flags = 3
        /\ t.at[r].kid = NoKids
  <2> HIDE DEF b, z
  <2>1. PICK c : At(t, r, b, z, 3, c, Null, NoKids)
    BY <1>5 DEF Single
  <2> QED
    BY <2>1, EntryIs DEF At
<1>7. {r} = {x \in Nodes : x[1] = v /\ t.at[x].flags = 3}
  <2>1. ASSUME NEW x \in Nodes, x[1] = v, t.at[x].flags = 3 PROVE x = r
    <3>1. PICK i \in 1 .. Slots : x = <<v, i>>
      BY <2>1 DEF Nodes
    <3>2. ~ (i \in 2 .. Slots)
      BY <1>5, <2>1, <3>1 DEF Single
    <3> QED
      BY <1>3, <3>1, <3>2
  <2> HIDE DEF b, z
  <2> QED
    BY <1>4, <1>6, <2>1
<1>8. Pages(t, r) = (Low .. (Low + High - 1)) \ (IF v = cvmm THEN given ELSE {})
  <2>1. CASE v = cvmm
    BY <1>2, <1>3, <1>6, <2>1 DEF Pages
  <2>2. CASE v # cvmm
    BY <1>2, <1>3, <1>6, <2>2 DEF Pages
  <2> QED
    BY <2>1, <2>2
<1>9. UNION {Pages(t, x) : x \in {r}} = Pages(t, r)
  BY Zenon
<1>10. \A d \in Dir : t.at[r].kid[d] = Null
  BY <1>6 DEF NoKids
<1>11. Below(t, Null) = {}
  BY <1>5, BelowIs
<1> HIDE DEF r, b, z
<1> QED
  BY <1>4, <1>7, <1>8, <1>9, <1>10, <1>11, Zenon

\* While no page is put back, the tree of each vmm holds exactly the pages that
\* vmm_page_alloc has not handed out, each once.
THEOREM NothingLostWithoutFrees ==
    Spec => [](~freed => NothingLost)
<1>1. OneNode => (~freed => NothingLost)
  BY AloneLosesNothing
<1> QED
  BY <1>1, InitOneNode, NextOneNode, PTL DEF Spec
=============================================================================
