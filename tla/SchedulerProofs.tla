-------------------------- MODULE SchedulerProofs --------------------------
(***************************************************************************)
(* Proofs about Scheduler, for every number of processes, every length of  *)
(* program and every choice of which programs exit, spawn and yield.       *)
(***************************************************************************)
EXTENDS Scheduler, LeastElements, TLAPS

-----------------------------------------------------------------------------
(* Lists.                                                                  *)

\* A list holds pids, none of them 0.
LEMMA ListTypes ==
    ASSUME NEW S, NEW h, NEW n, IsList(S, h, n)
    PROVE  /\ MaxPid \in Nat
           /\ S \subseteq 0 .. MaxPid
           /\ S \in SUBSET Pid
           /\ \A s \in S : s \in Nat /\ s \in 1 .. MaxPid /\ s # NULL
<1>1. \A s \in S : s \in 1 .. MaxPid
    BY DEF IsList
<1>2. \A s \in 1 .. MaxPid : s \in 0 .. MaxPid /\ s \in Nat
    BY SchedulerAssumption
<1>3. NULL \notin 0 .. MaxPid
    BY SchedulerAssumption DEF Pid
<1>4. QED
    BY <1>1, <1>2, <1>3, SchedulerAssumption DEF Pid

\* The last process of a nonempty list: add_process's walk ends.
LEMMA TailExists ==
    ASSUME NEW S, NEW h, NEW n, IsList(S, h, n), S # {}
    PROVE  \E q \in S : n[q] = NULL
<1>1. S \subseteq 0 .. MaxPid /\ MaxPid \in Nat /\ \A s \in S : s \in Nat
    BY ListTypes
<1>2. PICK q \in S : \A p \in S : p <= q
    BY <1>1, GreatestElement
<1>3. ASSUME n[q] \in S, n[q] > q PROVE FALSE
    <2>1. n[q] <= q /\ n[q] \in Nat /\ q \in Nat
        BY <1>1, <1>2, <1>3
    <2>2. QED
        BY <1>3, <2>1
<1>4. QED
    BY <1>2, <1>3 DEF IsList

\* The process before one that is not the head: delete_process finds it.
LEMMA PrevExists ==
    ASSUME NEW S, NEW h, NEW n, IsList(S, h, n), NEW p \in S, p # h
    PROVE  \E q \in S : n[q] = p
<1> DEFINE B == {q \in S : q < p}
<1>1. S \subseteq 0 .. MaxPid /\ MaxPid \in Nat /\ \A s \in S : s \in Nat
    BY ListTypes
<1>2. h \in S /\ h <= p
    BY DEF IsList
<1>3. h \in B
    BY <1>1, <1>2
<1>4. PICK q \in B : \A r \in B : r <= q
    BY <1>1, <1>3, GreatestElement
<1>5. ~ (\A r \in S : r <= q)
    BY <1>1, <1>4
<1>6. n[q] \in S /\ n[q] > q /\ \A r \in S : r > q => r >= n[q]
    BY <1>4, <1>5 DEF IsList
<1>7. n[q] <= p
    BY <1>1, <1>4, <1>6
<1>8. ASSUME n[q] < p PROVE FALSE
    <2>1. n[q] \in B
        BY <1>6, <1>8
    <2>2. n[q] <= q /\ n[q] \in Nat /\ q \in Nat
        BY <1>1, <1>4, <1>6, <2>1
    <2>3. QED
        BY <1>6, <2>2
<1>9. n[q] = p
    <2>1. n[q] \in Nat /\ p \in Nat
        BY <1>1, <1>6
    <2>2. QED
        BY <1>7, <1>8, <2>1
<1>10. QED
    BY <1>4, <1>9

\* A walk from the head visits exactly the processes of the list.
LEMMA ListIsReached ==
    ASSUME NEW S, NEW h, NEW n, IsList(S, h, n)
    PROVE  {p \in Pid :
              /\ h # NULL
              /\ \A T \in SUBSET Pid :
                    h \in T /\ (\A q \in T : n[q] # NULL => n[q] \in T)
                        => p \in T} = S
<1> DEFINE Shut(T) == \A q \in T : n[q] # NULL => n[q] \in T
           Reached == {p \in Pid : /\ h # NULL
                                   /\ \A T \in SUBSET Pid :
                                         h \in T /\ Shut(T) => p \in T}
<1>1. S \in SUBSET Pid /\ S \subseteq Nat /\ NULL \notin S
    BY ListTypes
<1>2. Shut(S)
    BY DEF IsList
<1>3. h # NULL => h \in S
    BY DEF IsList
<1>4. Reached \subseteq S
    BY <1>1, <1>2, <1>3
<1>5. ASSUME NEW p \in S PROVE p \in Reached
    <2>1. h # NULL /\ p \in Pid
        BY <1>1, <1>5 DEF IsList
    <2>2. ASSUME NEW T \in SUBSET Pid, h \in T, Shut(T)
          PROVE  p \in T
        <3>1. SUFFICES ASSUME p \notin T PROVE FALSE
            OBVIOUS
        <3> DEFINE D == S \ T
        <3>2. D \subseteq Nat /\ D # {}
            BY <1>1, <1>5, <3>1
        <3>3. PICK m \in D : \A d \in D : m <= d
            BY <3>2, LeastElement
        <3>4. m \in S /\ m # h
            BY <2>2, <3>3
        <3>5. PICK q \in S : n[q] = m
            BY <3>4, PrevExists
        <3>6. n[q] # NULL
            BY <1>1, <3>4, <3>5
        <3>7. q < m
            BY <1>1, <3>5, <3>6 DEF IsList
        <3>8. q \in T
            BY <1>1, <3>3, <3>4, <3>7
        <3>9. m \in T
            BY <2>2, <3>5, <3>6, <3>8
        <3>10. QED
            BY <3>3, <3>9
    <2>3. QED
        BY <2>1, <2>2
<1>6. QED
    BY <1>4, <1>5

-----------------------------------------------------------------------------
(* What the operations do to a list.                                       *)

Nexts == [Pid -> Pid \union {NULL}]

\* Writing the next field of a process that is not on the list.
LEMMA UnlistedWrite ==
    ASSUME NEW S, NEW h, NEW n \in Nexts, IsList(S, h, n),
           NEW p \in Pid, p \notin S, NEW v
    PROVE  IsList(S, h, [n EXCEPT ![p] = v])
<1>1. \A q \in S : [n EXCEPT ![p] = v][q] = n[q]
    BY ListTypes DEF Nexts
<1>2. QED
    BY <1>1 DEF IsList

\* add_process on an empty list.
LEMMA FirstProcess ==
    ASSUME NEW n \in Nexts, NEW p \in 1 .. MaxPid, n[p] = NULL
    PROVE  IsList({p}, p, n)
<1>1. p \in Nat /\ p \in Pid /\ p # NULL
    BY SchedulerAssumption DEF Pid
<1>2. QED
    BY <1>1 DEF IsList

\* add_process behind the tail t.
LEMMA AppendProcess ==
    ASSUME NEW S, NEW h, NEW n \in Nexts, IsList(S, h, n), h # NULL,
           NEW p \in 1 .. MaxPid, \A q \in S : q < p,
           NEW t \in S, n[t] = NULL
    PROVE  IsList(S \union {p}, h, [[n EXCEPT ![p] = NULL] EXCEPT ![t] = p])
<1> DEFINE m == [[n EXCEPT ![p] = NULL] EXCEPT ![t] = p]
           U == S \union {p}
<1>1. /\ p \in Nat /\ p \in Pid /\ p # NULL /\ p \notin S
      /\ \A s \in S : s \in Nat /\ s \in Pid /\ s # NULL /\ s \in 1 .. MaxPid
    <2>1. p \in Nat /\ p \in Pid /\ p # NULL
        BY SchedulerAssumption DEF Pid
    <2>2. \A s \in S : s \in Nat /\ s \in Pid /\ s # NULL /\ s \in 1 .. MaxPid
        BY ListTypes
    <2>3. p \notin S
        BY <2>1
    <2>4. QED
        BY <2>1, <2>2, <2>3
<1>2. m[t] = p /\ m[p] = NULL /\ \A q \in S : q # t => m[q] = n[q]
    BY <1>1 DEF Nexts
<1>3. \A q \in S : q <= t
    BY <1>1 DEF IsList
<1>4. U \subseteq 1 .. MaxPid
    BY <1>1
<1>5. h \in U /\ h # NULL /\ \A q \in U : h <= q
    <2>1. h \in S /\ \A q \in S : h <= q
        BY DEF IsList
    <2>2. h <= p
        BY <1>1, <2>1
    <2>3. QED
        BY <2>1, <2>2
<1> HIDE DEF m
<1>6. ASSUME NEW r \in U
      PROVE  \/ m[r] = NULL /\ \A q \in U : q <= r
             \/ m[r] \in U /\ m[r] > r /\ \A q \in U : q > r => q >= m[r]
    <2>1. CASE r = p
        BY <1>1, <1>2, <2>1
    <2>2. CASE r = t
        BY <1>1, <1>2, <1>3, <2>2
    <2>3. CASE r \in S /\ r # t
        <3>1. m[r] = n[r]
            BY <1>2, <2>3
        <3>2. ~ (\A q \in S : q <= r)
            BY <1>1, <1>3, <2>3
        <3>3. n[r] \in S /\ n[r] > r /\ \A q \in S : q > r => q >= n[r]
            BY <2>3, <3>2 DEF IsList
        <3>4. p >= n[r]
            BY <1>1, <3>3
        <3>5. QED
            BY <3>1, <3>3, <3>4
    <2>4. QED
        BY <2>1, <2>2, <2>3
<1> HIDE DEF U
<1>7. IsList(U, h, m)
    BY <1>4, <1>5, <1>6 DEF IsList
<1>8. QED
    BY <1>7 DEF m, U

\* kill_current_process: the processes behind p are no longer on the list.
LEMMA CutList ==
    ASSUME NEW S, NEW h, NEW n \in Nexts, IsList(S, h, n), NEW p \in S
    PROVE  IsList({q \in S : q <= p}, h, [n EXCEPT ![p] = NULL])
<1> DEFINE m == [n EXCEPT ![p] = NULL]
           U == {q \in S : q <= p}
<1>1. \A s \in S : s \in Nat /\ s \in Pid /\ s # NULL /\ s \in 1 .. MaxPid
    BY ListTypes
<1>2. m[p] = NULL /\ \A q \in S : q # p => m[q] = n[q]
    BY <1>1 DEF Nexts
<1>3. U \subseteq 1 .. MaxPid
    BY <1>1
<1>4. h \in U /\ h # NULL /\ \A q \in U : h <= q
    BY <1>1 DEF IsList
<1> HIDE DEF m
<1>5. ASSUME NEW r \in U
      PROVE  \/ m[r] = NULL /\ \A q \in U : q <= r
             \/ m[r] \in U /\ m[r] > r /\ \A q \in U : q > r => q >= m[r]
    <2>1. CASE r = p
        BY <1>2, <2>1
    <2>2. CASE r # p
        <3>1. m[r] = n[r] /\ r < p
            BY <1>1, <1>2, <2>2
        <3>2. ~ (\A q \in S : q <= r)
            BY <1>1, <3>1
        <3>3. n[r] \in S /\ n[r] > r /\ \A q \in S : q > r => q >= n[r]
            BY <3>2 DEF IsList
        <3>4. n[r] <= p
            BY <1>1, <3>1, <3>3
        <3>5. QED
            BY <3>1, <3>3, <3>4
    <2>3. QED
        BY <2>1, <2>2
<1> HIDE DEF U
<1>6. IsList(U, h, m)
    BY <1>3, <1>4, <1>5 DEF IsList
<1>7. QED
    BY <1>6 DEF m, U

\* delete_process of the head.
LEMMA RemoveHead ==
    ASSUME NEW S, NEW h, NEW n \in Nexts, IsList(S, h, n), h # NULL
    PROVE  IsList(S \ {h}, n[h], n)
<1> DEFINE U == S \ {h}
<1>1. \A s \in S : s \in Nat /\ s \in Pid /\ s # NULL /\ s \in 1 .. MaxPid
    BY ListTypes
<1>2. h \in S /\ \A q \in S : h <= q
    BY DEF IsList
<1>3. \A q \in U : q > h
    BY <1>1, <1>2
<1>4. U \subseteq 1 .. MaxPid
    BY <1>1
<1>5. n[h] = NULL => U = {}
    <2>1. SUFFICES ASSUME n[h] = NULL, NEW q \in U PROVE FALSE
        OBVIOUS
    <2>2. q <= h
        BY <1>1, <1>2, <2>1 DEF IsList
    <2>3. QED
        BY <1>1, <1>2, <1>3, <2>2
<1>6. n[h] # NULL => n[h] \in U /\ \A q \in U : n[h] <= q
    <2>1. SUFFICES ASSUME n[h] # NULL
                   PROVE  n[h] \in U /\ \A q \in U : n[h] <= q
        OBVIOUS
    <2>2. n[h] \in S /\ n[h] > h /\ \A q \in S : q > h => q >= n[h]
        BY <1>2, <2>1 DEF IsList
    <2>3. QED
        BY <1>1, <1>2, <1>3, <2>2
<1>7. ASSUME NEW r \in U
      PROVE  \/ n[r] = NULL /\ \A q \in U : q <= r
             \/ n[r] \in U /\ n[r] > r /\ \A q \in U : q > r => q >= n[r]
    <2>1. CASE n[r] = NULL
        BY <1>1, <2>1 DEF IsList
    <2>2. CASE n[r] # NULL
        <3>1. n[r] \in S /\ n[r] > r /\ \A q \in S : q > r => q >= n[r]
            BY <2>2 DEF IsList
        <3>2. n[r] # h
            BY <1>1, <1>2, <1>3, <3>1
        <3>3. QED
            BY <3>1, <3>2
    <2>3. QED
        BY <2>1, <2>2
<1>8. QED
    BY <1>4, <1>5, <1>6, <1>7 DEF IsList

\* delete_process of a process p behind q.
LEMMA RemoveInner ==
    ASSUME NEW S, NEW h, NEW n \in Nexts, IsList(S, h, n),
           NEW p \in S, p # h, NEW q \in S, n[q] = p
    PROVE  IsList(S \ {p}, h, [n EXCEPT ![q] = n[p]])
<1> DEFINE m == [n EXCEPT ![q] = n[p]]
           U == S \ {p}
<1>1. \A s \in S : s \in Nat /\ s \in Pid /\ s # NULL /\ s \in 1 .. MaxPid
    BY ListTypes
<1>2. p > q /\ \A r \in S : r > q => r >= p
    BY <1>1 DEF IsList
<1>3. m[q] = n[p] /\ \A r \in S : r # q => m[r] = n[r]
    BY <1>1 DEF Nexts
<1>4. U \subseteq 1 .. MaxPid
    BY <1>1
<1>5. h \in U /\ h # NULL /\ \A r \in U : h <= r
    BY <1>1 DEF IsList
<1> HIDE DEF m
<1>6. ASSUME NEW r \in U
      PROVE  \/ m[r] = NULL /\ \A s \in U : s <= r
             \/ m[r] \in U /\ m[r] > r /\ \A s \in U : s > r => s >= m[r]
    <2>1. CASE r = q
        <3>1. CASE n[p] = NULL
            <4>1. \A s \in S : s <= p
                BY <1>1, <3>1 DEF IsList
            <4>2. ASSUME NEW s \in U PROVE s <= q
                BY <1>1, <1>2, <4>1
            <4>3. QED
                BY <1>3, <2>1, <3>1, <4>2
        <3>2. CASE n[p] # NULL
            <4>1. n[p] \in S /\ n[p] > p /\ \A s \in S : s > p => s >= n[p]
                BY <3>2 DEF IsList
            <4>2. n[p] \in U /\ n[p] > q
                BY <1>1, <1>2, <4>1
            <4>3. ASSUME NEW s \in U, s > q PROVE s >= n[p]
                BY <1>1, <1>2, <4>1, <4>3
            <4>4. QED
                BY <1>3, <2>1, <4>2, <4>3
        <3>3. QED
            BY <3>1, <3>2
    <2>2. CASE r # q /\ n[r] = NULL
        BY <1>1, <1>3, <2>2 DEF IsList
    <2>3. CASE r # q /\ n[r] # NULL
        <3>1. n[r] \in S /\ n[r] > r /\ \A s \in S : s > r => s >= n[r]
            BY <2>3 DEF IsList
        <3>2. n[r] # p
            BY <1>1, <1>2, <2>3, <3>1
        <3>3. QED
            BY <1>3, <2>3, <3>1, <3>2
    <2>4. QED
        BY <2>1, <2>2, <2>3
<1> HIDE DEF U
<1>7. IsList(U, h, m)
    BY <1>4, <1>5, <1>6 DEF IsList
<1>8. QED
    BY <1>7 DEF m, U

-----------------------------------------------------------------------------
(* The list of the specification.                                          *)

\* What the assumptions say of the constants the proofs compare.
LEMMA Constants ==
    /\ Pid \subseteq Nat
    /\ Idle \in Pid
    /\ NULL \notin Pid /\ KVmm \notin Pid
    /\ Idle \notin 1 .. MaxPid
    /\ \A p \in Pid : p # Idle => p \in 1 .. MaxPid
    /\ 1 .. MaxPid \subseteq Pid
BY SchedulerAssumption DEF Pid, Idle

\* The listed processes are determined by the head and the next fields.
LEMMA SameList ==
    ASSUME process_list_head' = process_list_head, next' = next
    PROVE  Listed' = Listed
BY DEF Listed, Closed

\* After a step, too, a walk from the head visits exactly the list.
LEMMA ListedAfter ==
    ASSUME NEW S, IsList(S, process_list_head', next')
    PROVE  Listed' = S
<1>1. {p \in Pid :
         /\ process_list_head' # NULL
         /\ \A T \in SUBSET Pid :
               process_list_head' \in T
               /\ (\A q \in T : next'[q] # NULL => next'[q] \in T)
                  => p \in T} = S
    BY ListIsReached
<1>2. QED
    BY <1>1 DEF Listed, Closed

\* create_process with add: the new process is listed behind all the others.
LEMMA CreateLists ==
    ASSUME IInv, initialized, create_process(TRUE)
    PROVE  /\ Listed' = Listed \union {next_free_pid}
           /\ IsList(Listed', process_list_head', next')
           /\ process_list_head' \in Pid \union {NULL}
           /\ next' \in Nexts
           /\ next'[Idle] = NULL
<1> DEFINE p == next_free_pid
<1>1. /\ next \in Nexts /\ process_list_head \in Pid \union {NULL}
      /\ IsList(Listed, process_list_head, next)
      /\ next[Idle] = NULL /\ \A q \in Listed : q < p
    BY DEF IInv, TypeOK, Nexts, IdleOK, CreatedOK
<1>2. p \in Pid /\ p # Idle /\ p \in 1 .. MaxPid
    <2>1. p \in Pid /\ p >= 1
        BY DEF create_process, IInv, BootOK
    <2>2. QED
        BY <2>1, Constants DEF Idle
<1> HIDE DEF p
<1>3. p = next_free_pid
    BY DEF p
<1>4. add_process(p)
    BY <1>3 DEF create_process
<1>5. CASE process_list_head = NULL
    <2>1. process_list_head' = p /\ next' = [next EXCEPT ![p] = NULL]
        BY <1>4, <1>5 DEF add_process
    <2>2. next' \in Nexts /\ next'[p] = NULL /\ next'[Idle] = NULL
        BY <1>1, <1>2, <2>1, Constants DEF Nexts
    <2>3. IsList({p}, p, next')
        BY <1>2, <2>2, FirstProcess
    <2>4. Listed' = {p}
        BY <2>1, <2>3, ListedAfter
    <2>5. Listed = {}
        BY <1>1, <1>5 DEF IsList
    <2>6. QED
        BY <1>2, <1>3, <2>1, <2>2, <2>3, <2>4, <2>5
<1>6. CASE process_list_head # NULL
    <2>1. Listed # {}
        BY <1>1, <1>6 DEF IsList
    <2>2. Tail \in Listed /\ next[Tail] = NULL
        BY <1>1, <2>1, TailExists DEF Tail
    <2>3. /\ process_list_head' = process_list_head
          /\ next' = [[next EXCEPT ![p] = NULL] EXCEPT ![Tail] = p]
        BY <1>4, <1>6 DEF add_process
    <2>4. Tail \in Pid /\ Tail # Idle
        BY <1>1, <2>2, ListTypes, Constants DEF IsList
    <2>5. next' \in Nexts /\ next'[Idle] = NULL
        BY <1>1, <1>2, <2>3, <2>4, Constants DEF Nexts
    <2>6. IsList(Listed \union {p}, process_list_head', next')
        BY <1>1, <1>2, <1>6, <2>2, <2>3, AppendProcess
    <2>7. Listed' = Listed \union {p}
        BY <2>6, ListedAfter
    <2>8. QED
        BY <1>1, <1>3, <2>3, <2>5, <2>6, <2>7
<1>7. QED
    BY <1>5, <1>6

\* delete_process of a listed process unlinks it and nothing else.
LEMMA DeleteUnlists ==
    ASSUME IInv, NEW p \in Listed, delete_process(p)
    PROVE  /\ Listed' = Listed \ {p}
           /\ IsList(Listed', process_list_head', next')
           /\ process_list_head' \in Pid \union {NULL}
           /\ next' \in Nexts
           /\ next'[Idle] = NULL
<1>1. /\ next \in Nexts /\ process_list_head \in Pid \union {NULL}
      /\ IsList(Listed, process_list_head, next)
      /\ next[Idle] = NULL
    BY DEF IInv, TypeOK, Nexts, IdleOK
<1>2. p \in Pid /\ p # NULL
    BY <1>1, ListTypes
<1>3. CASE process_list_head = p
    <2>1. process_list_head' = next[p] /\ next' = next
        BY <1>3 DEF delete_process
    <2>2. IsList(Listed \ {p}, process_list_head', next')
        BY <1>1, <1>2, <1>3, <2>1, RemoveHead
    <2>3. Listed' = Listed \ {p}
        BY <2>2, ListedAfter
    <2>4. next[p] \in Pid \union {NULL}
        BY <1>1, <1>2 DEF Nexts
    <2>5. QED
        BY <1>1, <2>1, <2>2, <2>3, <2>4
<1>4. CASE process_list_head # p
    <2>1. \E q \in Listed : next[q] = p
        BY <1>1, <1>4, PrevExists
    <2>2. PrevProcess(p) \in Listed /\ next[PrevProcess(p)] = p
        BY <2>1 DEF PrevProcess
    <2> DEFINE q == PrevProcess(p)
    <2>3. /\ process_list_head' = process_list_head
          /\ next' = [next EXCEPT ![q] = next[p]]
        BY <1>4 DEF delete_process
    <2> HIDE DEF q
    <2>4. q \in Listed /\ next[q] = p
        BY <2>2 DEF q
    <2>5. q \in Pid /\ q # Idle
        BY <1>1, <2>4, ListTypes, Constants DEF IsList
    <2>6. next' \in Nexts /\ next'[Idle] = NULL
        BY <1>1, <1>2, <2>3, <2>5, Constants DEF Nexts
    <2>7. IsList(Listed \ {p}, process_list_head', next')
        BY <1>1, <1>4, <2>3, <2>4, RemoveInner
    <2>8. Listed' = Listed \ {p}
        BY <2>7, ListedAfter
    <2>9. QED
        BY <1>1, <2>3, <2>6, <2>7, <2>8
<1>5. QED
    BY <1>3, <1>4

-----------------------------------------------------------------------------
(* The inductive invariant.                                                *)

\* kernel_main reaches the scheduler with an empty list.
LEMMA InitInv == Init => IInv
<1> SUFFICES ASSUME Init PROVE IInv
    OBVIOUS
<1>1. Listed = {}
    BY DEF Init, Listed
<1>2. TypeOK
    <2>1. 0 \in Positions /\ 0 \in 0 .. (MaxPid + 1)
        BY SchedulerAssumption DEF Positions
    <2>2. QED
        BY <2>1 DEF Init, TypeOK, Phases, Statuses
<1>3. IsList(Listed, process_list_head, next)
    BY <1>1 DEF IsList, Init
<1>4. BootOK
    <2>1. initialized = FALSE /\ phase \notin {"sched", "term", "armed"}
        BY DEF Init
    <2>2. initialized <=> phase \in {"sched", "term", "armed"}
        BY <2>1, Zenon
    <2>3. QED
        BY <2>1, <2>2 DEF BootOK, Init
<1>5. CreatedOK /\ IdleOK
    BY <1>1, Constants DEF CreatedOK, IdleOK, Init
<1>6. OthersReady /\ NoDangling /\ ResumesWherePreempted /\ OwnAddressSpace
    BY <1>1
    DEF Init, Runnable, OthersReady, NoDangling, ResumesWherePreempted,
        OwnAddressSpace
<1>7. QED
    BY <1>2, <1>3, <1>4, <1>5, <1>6 DEF IInv

\* DisableTimer and ArmTimer touch nothing but the timer.
LEMMA TimerSwitchInv ==
    ASSUME IInv, DisableTimer \/ ArmTimer
    PROVE  IInv'
<1>1. /\ UNCHANGED <<memory, initialized, mode, status, current_process, eip,
                     current_vmm, pdpt, at>>
      /\ \/ phase = "apic" /\ phase' = "quiet"
         \/ phase = "term" /\ phase' = "armed"
      /\ mode = "user" /\ current_process = NULL
    BY DEF DisableTimer, ArmTimer, Booting
<1>2. Listed' = Listed
    BY <1>1, SameList DEF memory
<1>3. TypeOK'
    BY <1>1 DEF IInv, TypeOK, memory, Phases
<1>4. IsList(Listed, process_list_head, next)'
    BY <1>1, <1>2 DEF IInv, IsList, memory
<1>5. BootOK'
    BY <1>1 DEF IInv, BootOK, memory
<1>6. CreatedOK' /\ IdleOK'
    BY <1>1, <1>2 DEF IInv, CreatedOK, IdleOK, memory
<1>7. OthersReady' /\ NoDangling' /\ ResumesWherePreempted' /\ OwnAddressSpace'
    BY <1>1, <1>2
    DEF IInv, Runnable, OthersReady, NoDangling, ResumesWherePreempted,
        OwnAddressSpace, memory
<1>8. QED
    BY <1>3, <1>4, <1>5, <1>6, <1>7 DEF IInv

\* init_scheduler creates the idle process and leaves the list empty.
LEMMA InitSchedulerInv ==
    ASSUME IInv, init_scheduler
    PROVE  IInv'
<1>1. /\ phase = "quiet" /\ mode = "user" /\ current_process = NULL
      /\ phase' = "sched" /\ current_process' = NULL /\ initialized' = TRUE
      /\ UNCHANGED <<mode, eip, at>>
    BY DEF init_scheduler, Booting
<1>2. next_free_pid = 0 /\ Idle \in Pid /\ next_free_pid = Idle
    BY <1>1, Constants DEF IInv, BootOK, Idle
<1>3. /\ next_free_pid' = 1
      /\ procs' = procs \union {Idle} /\ ctxs' = ctxs \union {Idle}
      /\ status' = [status EXCEPT ![Idle] = "READY"]
      /\ context' = [context EXCEPT ![Idle] = 0]
      /\ next' = [next EXCEPT ![Idle] = NULL]
      /\ process_list_head' = process_list_head
      /\ current_vmm' = current_vmm
      /\ pdpt' = PdptFor(current_vmm, PdptFor(Idle, pdpt))
    <2>1. create_process(FALSE)
        BY DEF init_scheduler
    <2>2. next_free_pid' = 0 + 1
        BY <1>2, <2>1 DEF create_process
    <2>3. QED
        BY <1>2, <2>1, <2>2, SMT DEF create_process, VisitChildVmm
<1>4. Idle \notin Listed
    BY Constants DEF IInv, IsList
<1>5. IsList(Listed, process_list_head', next')
    BY <1>2, <1>3, <1>4, UnlistedWrite DEF IInv, TypeOK, Nexts
<1>6. Listed' = Listed
    BY <1>5, ListedAfter
<1>7. TypeOK'
    <2>1. pdpt' \in Pid \union {NULL}
        BY <1>2, <1>3 DEF IInv, TypeOK, PdptFor
    <2>2. 0 \in Positions /\ 1 \in 0 .. (MaxPid + 1)
        BY SchedulerAssumption DEF Positions
    <2>3. QED
        BY <1>1, <1>2, <1>3, <2>1, <2>2 DEF IInv, TypeOK, Phases, Statuses
<1>8. IsList(Listed, process_list_head, next)'
    BY <1>5, <1>6
<1>9. BootOK'
    <2>1. initialized' <=> phase' \in {"sched", "term", "armed"}
        BY <1>1
    <2>2. QED
        BY <1>1, <1>3, <2>1 DEF BootOK
<1>10. CreatedOK' /\ IdleOK'
    <2>1. \A p \in Listed : p < 1
        BY <1>2, Constants, ListTypes DEF IInv, CreatedOK
    <2>2. \A p \in Pid : at[p] = 0
        BY <1>2, Constants DEF IInv, CreatedOK
    <2>3. status'[Idle] = "READY" /\ next'[Idle] = NULL
        BY <1>2, <1>3 DEF IInv, TypeOK
    <2>4. QED
        BY <1>1, <1>3, <1>6, <2>1, <2>2, <2>3 DEF CreatedOK, IdleOK
<1>11. Runnable' = Runnable \union {Idle}
    BY <1>1, <1>6 DEF Runnable
<1>12. \A p \in Runnable : p \in Pid
    BY Constants, ListTypes DEF IInv, Runnable
<1>13. OthersReady'
    BY <1>1, <1>2, <1>3, <1>11, <1>12 DEF IInv, OthersReady, TypeOK
<1>14. NoDangling'
    BY <1>1, <1>3, <1>11 DEF IInv, NoDangling
<1>15. ResumesWherePreempted'
    <2>1. at[Idle] = 0
        BY <1>2, Constants DEF IInv, CreatedOK
    <2>2. \A p \in Runnable : context[p] = at[p]
        BY <1>1, <1>12, Constants DEF IInv, ResumesWherePreempted
    <2>3. QED
        BY <1>1, <1>2, <1>3, <1>11, <1>12, <2>1, <2>2
        DEF ResumesWherePreempted, IInv, TypeOK
<1>16. OwnAddressSpace'
    BY <1>1 DEF OwnAddressSpace
<1>17. QED
    BY <1>7, <1>8, <1>9, <1>10, <1>13, <1>14, <1>15, <1>16 DEF IInv

\* Whatever is runnable is a process; the list is never behind the kernel.
LEMMA RunnableTypes ==
    ASSUME IInv
    PROVE  /\ Runnable \subseteq Pid
           /\ Listed \subseteq Pid /\ Idle \notin Listed
           /\ Idle \in Pid /\ NULL \notin Pid
BY Constants, ListTypes DEF IInv, IsList, Runnable

\* Adding a process keeps what the invariant says of memory and of the list;
\* the CPU state stays the caller's business.
LEMMA CreateInv ==
    ASSUME IInv, initialized, initialized' = initialized, create_process(TRUE),
           NEW q \in Pid, \A r \in Pid \ {q} : at'[r] = at[r],
           q < next_free_pid
    PROVE  /\ IsList(Listed, process_list_head, next)'
           /\ (CreatedOK /\ IdleOK)'
           /\ Runnable' = Runnable \union {next_free_pid}
           /\ next_free_pid \in Pid \ Runnable
           /\ Runnable' \subseteq procs' /\ Runnable' \subseteq ctxs'
           /\ status'[next_free_pid] = "READY"
           /\ context'[next_free_pid] = at'[next_free_pid]
           /\ \A r \in Runnable : /\ status'[r] = status[r]
                                  /\ context'[r] = context[r]
           /\ next_free_pid' \in 0 .. (MaxPid + 1) /\ next_free_pid' >= 1
           /\ process_list_head' \in Pid \union {NULL}
           /\ next' \in [Pid -> Pid \union {NULL}]
           /\ procs' \subseteq Pid /\ ctxs' \subseteq Pid
           /\ status' \in [Pid -> Statuses] /\ context' \in [Pid -> Positions]
<1> DEFINE p == next_free_pid
<1>1. /\ p \in Pid /\ next_free_pid' = p + 1
      /\ procs' = procs \union {p} /\ ctxs' = ctxs \union {p}
      /\ status' = [status EXCEPT ![p] = "READY"]
      /\ context' = [context EXCEPT ![p] = 0]
    BY DEF create_process
<1>2. /\ Listed' = Listed \union {p}
      /\ IsList(Listed', process_list_head', next')
      /\ process_list_head' \in Pid \union {NULL}
      /\ next' \in [Pid -> Pid \union {NULL}]
      /\ next'[Idle] = NULL
    BY CreateLists DEF Nexts
<1>3. p >= 1 /\ p \in Nat /\ p # Idle
    BY <1>1, Constants DEF IInv, BootOK, Idle
<1>4. p \notin Listed
    BY <1>1, Constants DEF IInv, CreatedOK
<1>5. p \notin Runnable
    BY <1>3, <1>4 DEF Runnable
<1>6. Runnable' = Runnable \union {p}
    BY <1>2 DEF Runnable
<1>7. at'[p] = 0 /\ p # q
    BY <1>1, Constants DEF IInv, CreatedOK
<1>8. CreatedOK'
    <2>1. ASSUME NEW r \in Listed' PROVE r < p + 1
        <3>1. CASE r = p
            BY <1>3, <3>1
        <3>2. CASE r \in Listed
            <4>1. r < p /\ r \in Nat
                BY <3>2, Constants, RunnableTypes DEF IInv, CreatedOK
            <4>2. QED
                BY <1>3, <4>1
        <3>3. QED
            BY <1>2, <3>1, <3>2
    <2>2. ASSUME NEW r \in Pid, r >= p + 1 PROVE at'[r] = 0
        <3>1. r >= p /\ r # q
            BY <1>3, <2>2, Constants
        <3>2. QED
            BY <3>1 DEF IInv, CreatedOK
    <2>3. QED
        BY <1>1, <2>1, <2>2 DEF CreatedOK
<1>9. IdleOK'
    BY <1>1, <1>2, <1>3, Constants DEF IInv, IdleOK, TypeOK
<1>10. status'[p] = "READY" /\ context'[p] = at'[p]
    BY <1>1, <1>7 DEF IInv, TypeOK
<1>11. \A r \in Runnable : status'[r] = status[r] /\ context'[r] = context[r]
    BY <1>1, <1>5, RunnableTypes DEF IInv, TypeOK
<1>12. /\ procs' \subseteq Pid /\ ctxs' \subseteq Pid
       /\ status' \in [Pid -> Statuses] /\ context' \in [Pid -> Positions]
    <2>1. 0 \in Positions /\ "READY" \in Statuses
        BY SchedulerAssumption DEF Positions, Statuses
    <2>2. QED
        BY <1>1, <2>1 DEF IInv, TypeOK
<1>13. p + 1 \in 0 .. (MaxPid + 1) /\ p + 1 >= 1
    BY <1>1, SchedulerAssumption DEF Pid
<1>14. Runnable' \subseteq procs' /\ Runnable' \subseteq ctxs'
    BY <1>1, <1>6 DEF IInv, NoDangling
<1>15. QED
    BY <1>1, <1>2, <1>5, <1>6, <1>8, <1>9, <1>10, <1>11, <1>12, <1>13, <1>14

\* start_terminal creates the first process of the list.
LEMMA StartTerminalInv ==
    ASSUME IInv, start_terminal
    PROVE  IInv'
<1>1. /\ phase = "sched" /\ phase' = "term" /\ mode = "user"
      /\ current_process = NULL
      /\ UNCHANGED <<initialized, mode, current_process, eip, at>>
      /\ create_process(TRUE)
    BY DEF start_terminal, Booting
<1>2. initialized /\ Idle \in Pid /\ Idle < next_free_pid
    BY <1>1, Constants DEF IInv, BootOK, Idle, TypeOK
<1>3. /\ IsList(Listed, process_list_head, next)'
      /\ (CreatedOK /\ IdleOK)'
      /\ Runnable' = Runnable \union {next_free_pid}
      /\ Runnable' \subseteq procs' /\ Runnable' \subseteq ctxs'
      /\ status'[next_free_pid] = "READY"
      /\ context'[next_free_pid] = at'[next_free_pid]
      /\ \A r \in Runnable : status'[r] = status[r] /\ context'[r] = context[r]
      /\ next_free_pid' \in 0 .. (MaxPid + 1) /\ next_free_pid' >= 1
      /\ process_list_head' \in Pid \union {NULL}
      /\ next' \in [Pid -> Pid \union {NULL}]
      /\ procs' \subseteq Pid /\ ctxs' \subseteq Pid
      /\ status' \in [Pid -> Statuses] /\ context' \in [Pid -> Positions]
    BY <1>1, <1>2, CreateInv
<1>4. TypeOK'
    <2>1. /\ next_free_pid \in Pid /\ current_vmm' = current_vmm
          /\ pdpt' = PdptFor(current_vmm, PdptFor(next_free_pid, pdpt))
        BY <1>1 DEF create_process, VisitChildVmm
    <2>2. pdpt' \in Pid \union {NULL}
        BY <2>1 DEF IInv, TypeOK, PdptFor
    <2>3. QED
        BY <1>1, <1>3, <2>1, <2>2 DEF IInv, TypeOK, Phases
<1>5. BootOK'
    BY <1>1, <1>2, <1>3 DEF BootOK
<1>6. OthersReady' /\ NoDangling'
    BY <1>1, <1>3, RunnableTypes DEF IInv, OthersReady, NoDangling
<1>7. ResumesWherePreempted' /\ OwnAddressSpace'
    BY <1>1, <1>3, RunnableTypes
    DEF IInv, ResumesWherePreempted, OwnAddressSpace
<1>8. QED
    BY <1>3, <1>4, <1>5, <1>6, <1>7 DEF IInv

\* The running process is on the list, and kernel_main is done.
LEMMA RunningListed ==
    ASSUME IInv, NEW p \in Pid, Running(p)
    PROVE  /\ mode = "user" /\ current_process = p /\ p \in Listed
           /\ p # Idle /\ p # NULL /\ p < next_free_pid
           /\ initialized /\ phase = "armed"
           /\ eip = at[p] /\ current_vmm = p /\ pdpt = p
<1>1. mode = "user" /\ current_process = p /\ p # Idle /\ p # NULL
    BY Constants DEF Running
<1>2. p \in Runnable
    BY <1>1 DEF IInv, NoDangling
<1>3. p \in Listed
    BY <1>1, <1>2 DEF Runnable
<1>4. phase = "armed" /\ initialized
    BY <1>1 DEF IInv, BootOK
<1>5. p < next_free_pid
    BY <1>3 DEF IInv, CreatedOK
<1>6. eip = at[p] /\ current_vmm = p /\ pdpt = p
    BY <1>1 DEF IInv, ResumesWherePreempted, OwnAddressSpace
<1>7. QED
    BY <1>1, <1>3, <1>4, <1>5, <1>6

\* A step of the running program moves the CPU and the program together.
LEMMA AdvanceMoves ==
    ASSUME IInv, NEW p \in Pid, NEW e \in Positions, Advance(p, e)
    PROVE  /\ eip' = e /\ at'[p] = e
           /\ \A r \in Pid \ {p} : at'[r] = at[r]
           /\ eip' \in Positions /\ at' \in [Pid -> Positions]
BY DEF IInv, TypeOK, Advance

\* Every position of a program is one the types allow.
LEMMA PositionTypes ==
    ASSUME IInv, NEW p \in Pid
    PROVE  /\ eip < Body => NextEip(p) \in Positions
           /\ Body + 1 \in Positions /\ Body + 2 \in Positions
<1>1. eip \in 0 .. (Body + 2) /\ Body \in Nat
    BY SchedulerAssumption DEF IInv, TypeOK, Positions
<1>2. QED
    BY <1>1 DEF NextEip, Positions

\* A step of a program that leaves the list alone: Run, the call of
\* set_current_process_idle, and the first write of kill_current_process.
LEMMA OwnStepInv ==
    ASSUME IInv, NEW p \in Pid, NEW e \in Positions, NEW st \in Statuses,
           Running(p), Advance(p, e),
           status' = [status EXCEPT ![p] = st],
           UNCHANGED <<memory, phase, initialized, mode, current_process,
                       current_vmm, pdpt>>
    PROVE  IInv'
<1>1. /\ mode = "user" /\ current_process = p /\ p \in Listed
      /\ p # Idle /\ p # NULL /\ p < next_free_pid
      /\ current_vmm = p /\ pdpt = p
    BY RunningListed
<1>2. /\ eip' = e /\ at'[p] = e
      /\ \A r \in Pid \ {p} : at'[r] = at[r]
      /\ eip' \in Positions /\ at' \in [Pid -> Positions]
    BY AdvanceMoves
<1>3. Listed' = Listed /\ Runnable' = Runnable
    BY SameList DEF memory, Runnable
<1>4. TypeOK'
    BY <1>2 DEF IInv, TypeOK, memory
<1>5. IsList(Listed, process_list_head, next)'
    BY <1>3 DEF IInv, memory, IsList
<1>6. BootOK'
    BY DEF IInv, BootOK, memory
<1>7. CreatedOK'
    <2>1. ASSUME NEW r \in Pid, r >= next_free_pid PROVE at'[r] = 0
        <3>1. r # p
            BY <1>1, <2>1, Constants DEF IInv, TypeOK
        <3>2. QED
            BY <1>2, <2>1, <3>1 DEF IInv, CreatedOK
    <2>2. QED
        BY <1>3, <2>1 DEF IInv, CreatedOK, memory
<1>8. IdleOK'
    BY <1>1, RunnableTypes DEF IInv, IdleOK, TypeOK, memory
<1>9. OthersReady'
    BY <1>1, <1>3, RunnableTypes DEF IInv, OthersReady, TypeOK
<1>10. NoDangling'
    BY <1>3 DEF IInv, NoDangling, memory
<1>11. ResumesWherePreempted'
    BY <1>1, <1>2, <1>3, RunnableTypes
    DEF IInv, ResumesWherePreempted, memory
<1>12. OwnAddressSpace'
    BY <1>1 DEF OwnAddressSpace
<1>13. QED
    BY <1>4, <1>5, <1>6, <1>7, <1>8, <1>9, <1>10, <1>11, <1>12 DEF IInv

\* create_process called by a running program through int 0x80.
LEMMA SpawnInv ==
    ASSUME IInv, NEW p \in Pid, Spawn(p)
    PROVE  IInv'
<1>1. /\ mode = "user" /\ current_process = p /\ p \in Listed
      /\ p # Idle /\ p # NULL /\ p < next_free_pid
      /\ initialized /\ phase = "armed"
      /\ current_vmm = p /\ pdpt = p
    BY RunningListed DEF Spawn
<1>2. /\ create_process(TRUE)
      /\ UNCHANGED <<phase, initialized, mode, current_process>>
    BY DEF Spawn
<1>3. /\ eip' = at'[p]
      /\ \A r \in Pid \ {p} : at'[r] = at[r]
      /\ eip' \in Positions /\ at' \in [Pid -> Positions]
    <2>1. NextEip(p) \in Positions /\ Advance(p, NextEip(p))
        BY PositionTypes DEF Spawn
    <2>2. QED
        BY <2>1, AdvanceMoves
<1>4. /\ IsList(Listed, process_list_head, next)'
      /\ (CreatedOK /\ IdleOK)'
      /\ Runnable' = Runnable \union {next_free_pid}
      /\ Runnable' \subseteq procs' /\ Runnable' \subseteq ctxs'
      /\ status'[next_free_pid] = "READY"
      /\ context'[next_free_pid] = at'[next_free_pid]
      /\ \A r \in Runnable : status'[r] = status[r] /\ context'[r] = context[r]
      /\ next_free_pid' \in 0 .. (MaxPid + 1) /\ next_free_pid' >= 1
      /\ process_list_head' \in Pid \union {NULL}
      /\ next' \in [Pid -> Pid \union {NULL}]
      /\ procs' \subseteq Pid /\ ctxs' \subseteq Pid
      /\ status' \in [Pid -> Statuses] /\ context' \in [Pid -> Positions]
    BY <1>1, <1>2, <1>3, CreateInv
<1>5. current_vmm' = p /\ pdpt' = p
    BY <1>1, <1>2, Constants DEF create_process, VisitChildVmm, PdptFor
<1>6. TypeOK'
    BY <1>2, <1>3, <1>4, <1>5 DEF IInv, TypeOK
<1>7. BootOK'
    BY <1>1, <1>2, <1>4 DEF IInv, BootOK
<1>8. OthersReady' /\ NoDangling'
    BY <1>1, <1>2, <1>4, RunnableTypes DEF IInv, OthersReady, NoDangling
<1>9. ResumesWherePreempted'
    BY <1>1, <1>2, <1>3, <1>4, RunnableTypes DEF IInv, ResumesWherePreempted
<1>10. OwnAddressSpace'
    BY <1>1, <1>2, <1>5 DEF OwnAddressSpace
<1>11. QED
    BY <1>4, <1>6, <1>7, <1>8, <1>9, <1>10 DEF IInv

\* kill_current_process's second write cuts off the processes behind p.
LEMMA KillCutLists ==
    ASSUME IInv, NEW p \in Pid, KillCut(p)
    PROVE  /\ Listed' = {q \in Listed : q <= p}
           /\ IsList(Listed, process_list_head, next)'
<1>1. p \in Listed
    BY RunningListed DEF KillCut
<1>2. next' = [next EXCEPT ![p] = NULL] /\ process_list_head' = process_list_head
    BY DEF KillCut
<1>3. IsList({q \in Listed : q <= p}, process_list_head', next')
    BY <1>1, <1>2, CutList DEF IInv, TypeOK, Nexts
<1>4. QED
    BY <1>3, ListedAfter

\* Line 154: the list now ends at the dying process.
LEMMA KillCutInv ==
    ASSUME IInv, NEW p \in Pid, KillCut(p)
    PROVE  IInv'
<1>1. /\ mode = "user" /\ current_process = p /\ p \in Listed
      /\ p # Idle /\ p # NULL /\ p < next_free_pid
      /\ current_vmm = p /\ pdpt = p
    BY RunningListed DEF KillCut
<1>2. /\ eip' = at'[p]
      /\ \A r \in Pid \ {p} : at'[r] = at[r]
      /\ eip' \in Positions /\ at' \in [Pid -> Positions]
    <2>1. Body + 2 \in Positions /\ Advance(p, Body + 2)
        BY PositionTypes DEF KillCut
    <2>2. QED
        BY <2>1, AdvanceMoves
<1>3. /\ next' = [next EXCEPT ![p] = NULL]
      /\ UNCHANGED <<phase, initialized, mode, next_free_pid, procs, ctxs,
                     process_list_head, status, context, current_process,
                     current_vmm, pdpt>>
    BY DEF KillCut
<1>4. /\ Listed' = {q \in Listed : q <= p}
      /\ IsList(Listed, process_list_head, next)'
    BY KillCutLists
<1>5. p \in Listed'
    BY <1>1, <1>4, Constants
<1>6. Runnable' \subseteq Runnable /\ p \in Runnable'
    BY <1>3, <1>4, <1>5 DEF Runnable
<1>7. TypeOK'
    BY <1>2, <1>3 DEF IInv, TypeOK
<1>8. BootOK'
    BY <1>3 DEF IInv, BootOK
<1>9. CreatedOK'
    <2>1. ASSUME NEW r \in Pid, r >= next_free_pid PROVE at'[r] = 0
        <3>1. r # p
            BY <1>1, <2>1, Constants DEF IInv, TypeOK
        <3>2. QED
            BY <1>2, <2>1, <3>1 DEF IInv, CreatedOK
    <2>2. QED
        BY <1>3, <1>4, <2>1 DEF IInv, CreatedOK
<1>10. IdleOK'
    BY <1>1, <1>3, RunnableTypes DEF IInv, IdleOK, TypeOK
<1>11. OthersReady' /\ NoDangling'
    BY <1>1, <1>3, <1>6 DEF IInv, OthersReady, NoDangling
<1>12. ResumesWherePreempted'
    BY <1>1, <1>2, <1>3, <1>6, RunnableTypes DEF IInv, ResumesWherePreempted
<1>13. OwnAddressSpace'
    BY <1>1, <1>3 DEF OwnAddressSpace
<1>14. QED
    BY <1>4, <1>7, <1>8, <1>9, <1>10, <1>11, <1>12, <1>13 DEF IInv

\* The timer interrupt, up to the saving of the registers.
LEMMA TimerIrqInv ==
    ASSUME IInv, TimerIrq
    PROVE  IInv'
<1>1. /\ mode = "user" /\ phase \in {"apic", "armed"}
      /\ UNCHANGED <<phase, initialized, next_free_pid, procs, ctxs,
                     process_list_head, next, status, current_process, eip,
                     current_vmm, pdpt, at>>
    BY DEF TimerIrq, TimerOn
<1>2. Listed' = Listed /\ Runnable' = Runnable
    BY <1>1, SameList DEF Runnable
<1>3. CASE ~initialized
    <2>1. mode' = mode /\ context' = context
        BY <1>3 DEF TimerIrq
    <2>2. TypeOK' /\ BootOK' /\ CreatedOK' /\ IdleOK'
        BY <1>1, <1>2, <2>1 DEF IInv, TypeOK, BootOK, CreatedOK, IdleOK
    <2>3. IsList(Listed, process_list_head, next)'
        BY <1>1, <1>2 DEF IInv, IsList
    <2>4. OthersReady' /\ NoDangling' /\ ResumesWherePreempted' /\ OwnAddressSpace'
        BY <1>1, <1>2, <2>1
        DEF IInv, OthersReady, NoDangling, ResumesWherePreempted,
            OwnAddressSpace
    <2>5. QED
        BY <2>2, <2>3, <2>4 DEF IInv
<1>4. CASE initialized
    <2>1. mode' = "loop" /\ SaveContext
        BY <1>4 DEF TimerIrq
    <2>2. phase = "armed"
        BY <1>1, <1>4 DEF IInv, BootOK
    <2>3. context' \in [Pid -> Positions]
        BY <2>1 DEF SaveContext, IInv, TypeOK
    <2>4. \A r \in Runnable : context'[r] = at[r]
        <3>1. TAKE r \in Runnable
        <3>2. CASE r = current_process
            <4>1. context'[r] = eip /\ eip = at[r]
                BY <1>1, <2>1, <3>2, RunnableTypes
                DEF SaveContext, IInv, TypeOK, ResumesWherePreempted
            <4>2. QED
                BY <4>1
        <3>3. CASE r # current_process
            BY <2>1, <3>3, RunnableTypes
            DEF SaveContext, IInv, TypeOK, ResumesWherePreempted
        <3>4. QED
            BY <3>2, <3>3
    <2>5. TypeOK'
        BY <1>1, <2>1, <2>3 DEF IInv, TypeOK
    <2>6. BootOK'
        BY <1>1, <1>4, <2>1, <2>2 DEF IInv, BootOK
    <2>7. CreatedOK' /\ IdleOK'
        BY <1>1, <1>2 DEF IInv, CreatedOK, IdleOK
    <2>8. IsList(Listed, process_list_head, next)'
        BY <1>1, <1>2 DEF IInv, IsList
    <2>9. OthersReady' /\ NoDangling'
        BY <1>1, <1>2 DEF IInv, OthersReady, NoDangling
    <2>10. ResumesWherePreempted' /\ OwnAddressSpace'
        BY <1>1, <1>2, <2>1, <2>4 DEF ResumesWherePreempted, OwnAddressSpace
    <2>11. QED
        BY <2>5, <2>6, <2>7, <2>8, <2>9, <2>10 DEF IInv
<1>5. QED
    BY <1>3, <1>4

\* A turn of schedule()'s loop over a process that is not READY.
LEMMA LoopTurnInv ==
    ASSUME IInv, LoopTurn
    PROVE  IInv'
<1> DEFINE c == current_process
<1>1. /\ mode = "loop" /\ c # NULL /\ status[c] # "READY"
      /\ ReapOrRequeue(c)
      /\ current_process' = next[c]
      /\ UNCHANGED <<phase, initialized, mode, next_free_pid, context, eip,
                     current_vmm, pdpt, at>>
    BY DEF LoopTurn
<1>2. /\ c \in Runnable /\ c \in Pid /\ initialized
      /\ next \in Nexts /\ IsList(Listed, process_list_head, next)
    BY <1>1, RunnableTypes DEF IInv, NoDangling, BootOK, TypeOK, Nexts
<1> HIDE DEF c
<1>3. \/ next[c] = NULL
      \/ next[c] \in Listed /\ next[c] # c /\ c \in Listed
    <2>1. CASE c \in Listed
        BY <1>2, <2>1, Constants, RunnableTypes DEF IsList
    <2>2. CASE c = Idle
        BY <2>2 DEF IInv, IdleOK
    <2>3. QED
        BY <1>2, <2>1, <2>2 DEF Runnable
<1>4. next[c] \in Pid \union {NULL}
    BY <1>2 DEF Nexts
<1>5. \A r \in Runnable : r # c => status[r] = "READY"
    BY DEF IInv, OthersReady, c
<1>6. BootOK'
    BY <1>1, <1>2 DEF IInv, BootOK
<1>7. CASE status[c] = "DEAD"
    <2>1. c \in Listed
        BY <1>2, <1>7 DEF IInv, IdleOK, Runnable
    <2>2. delete_process(c) /\ status' = status
        BY <1>1, <1>7 DEF ReapOrRequeue
    <2>3. /\ Listed' = Listed \ {c}
          /\ IsList(Listed', process_list_head', next')
          /\ process_list_head' \in Pid \union {NULL}
          /\ next' \in [Pid -> Pid \union {NULL}]
          /\ next'[Idle] = NULL
        BY <2>1, <2>2, DeleteUnlists DEF Nexts
    <2>4. procs' = procs \ {c} /\ ctxs' \in {ctxs, ctxs \ {c}}
        BY <2>2 DEF delete_process
    <2>5. Runnable' = Runnable \ {c}
        BY <1>1, <2>1, <2>3, RunnableTypes DEF Runnable
    <2>6. TypeOK'
        BY <1>1, <1>4, <2>2, <2>3, <2>4 DEF IInv, TypeOK
    <2>7. CreatedOK' /\ IdleOK'
        BY <1>1, <2>2, <2>3 DEF IInv, CreatedOK, IdleOK
    <2>8. OthersReady'
        BY <1>5, <2>2, <2>5 DEF OthersReady
    <2>9. NoDangling'
        <3>1. Runnable' \subseteq procs' /\ Runnable' \subseteq ctxs'
            BY <2>4, <2>5 DEF IInv, NoDangling
        <3>2. next[c] # NULL => next[c] \in Runnable'
            BY <1>3, <2>5 DEF Runnable
        <3>3. QED
            BY <1>1, <3>1, <3>2 DEF NoDangling
    <2>10. ResumesWherePreempted' /\ OwnAddressSpace'
        BY <1>1, <2>5 DEF IInv, ResumesWherePreempted, OwnAddressSpace
    <2>11. QED
        BY <1>6, <2>3, <2>6, <2>7, <2>8, <2>9, <2>10 DEF IInv
<1>8. CASE status[c] # "DEAD"
    <2>1. /\ status' = [status EXCEPT ![c] = "READY"]
          /\ UNCHANGED <<process_list_head, next, procs, ctxs>>
        BY <1>1, <1>8 DEF ReapOrRequeue
    <2>2. Listed' = Listed /\ Runnable' = Runnable
        BY <1>1, <2>1, SameList DEF Runnable
    <2>3. TypeOK'
        BY <1>1, <1>2, <1>4, <2>1 DEF IInv, TypeOK, Statuses
    <2>4. IsList(Listed, process_list_head, next)'
        BY <1>2, <2>1, <2>2
    <2>5. CreatedOK' /\ IdleOK'
        BY <1>1, <1>2, <2>1, <2>2, RunnableTypes
        DEF IInv, CreatedOK, IdleOK, TypeOK
    <2>6. OthersReady'
        BY <1>2, <1>5, <2>1, <2>2, RunnableTypes DEF IInv, OthersReady, TypeOK
    <2>7. NoDangling'
        BY <1>1, <1>3, <2>1, <2>2 DEF IInv, NoDangling, Runnable
    <2>8. ResumesWherePreempted' /\ OwnAddressSpace'
        BY <1>1, <2>2 DEF IInv, ResumesWherePreempted, OwnAddressSpace
    <2>9. QED
        BY <1>6, <2>3, <2>4, <2>5, <2>6, <2>7, <2>8 DEF IInv
<1>9. QED
    BY <1>7, <1>8

\* The end of schedule(): the chosen process gets the CPU.
LEMMA DispatchInv ==
    ASSUME IInv, Dispatch
    PROVE  IInv'
<1> DEFINE d == Chosen
<1>1. /\ mode = "loop"
      /\ current_process # NULL => status[current_process] = "READY"
      /\ mode' = "user" /\ current_process' = d
      /\ status' = [status EXCEPT ![d] = "RUNNING"]
      /\ current_vmm' = d /\ pdpt' = PdptFor(d, pdpt)
      /\ eip' = context[d]
      /\ UNCHANGED <<memory, phase, initialized, at>>
    BY DEF Dispatch
<1>2. initialized /\ phase = "armed"
    BY <1>1 DEF IInv, BootOK
<1>3. d \in Runnable /\ d \in Pid /\ d # NULL
    <2>1. Chosen \in Runnable
        BY <1>2 DEF Chosen, IInv, NoDangling, Runnable, IsList
    <2>2. QED
        BY <2>1, RunnableTypes
<1> HIDE DEF d
<1>4. Listed' = Listed /\ Runnable' = Runnable
    BY <1>1, SameList DEF memory, Runnable
<1>5. pdpt' = d
    BY <1>1, <1>3, Constants DEF PdptFor
<1>6. TypeOK'
    BY <1>1, <1>3, <1>5 DEF IInv, TypeOK, Statuses, memory
<1>7. IsList(Listed, process_list_head, next)'
    BY <1>1, <1>4 DEF IInv, IsList, memory
<1>8. BootOK'
    BY <1>1, <1>2 DEF IInv, BootOK, memory
<1>9. CreatedOK' /\ IdleOK'
    BY <1>1, <1>3, <1>4, RunnableTypes
    DEF IInv, CreatedOK, IdleOK, TypeOK, memory
<1>10. OthersReady'
    BY <1>1, <1>3, <1>4, RunnableTypes DEF IInv, OthersReady, TypeOK
<1>11. NoDangling'
    BY <1>1, <1>3, <1>4 DEF IInv, NoDangling, memory
<1>12. ResumesWherePreempted'
    BY <1>1, <1>3, <1>4 DEF IInv, ResumesWherePreempted, memory
<1>13. OwnAddressSpace'
    BY <1>1, <1>5 DEF OwnAddressSpace
<1>14. QED
    BY <1>6, <1>7, <1>8, <1>9, <1>10, <1>11, <1>12, <1>13 DEF IInv

\* Every step of the specification preserves the inductive invariant.
LEMMA StepInv == IInv /\ [Next]_vars => IInv'
<1> SUFFICES ASSUME IInv, [Next]_vars PROVE IInv'
    OBVIOUS
<1>1. CASE UNCHANGED vars
    <2>1. Listed' = Listed /\ Runnable' = Runnable
        BY <1>1, SameList DEF vars, Runnable
    <2>2. TypeOK' /\ BootOK' /\ CreatedOK' /\ IdleOK'
        BY <1>1, <2>1 DEF IInv, vars, TypeOK, BootOK, CreatedOK, IdleOK
    <2>3. IsList(Listed, process_list_head, next)'
        BY <1>1, <2>1 DEF IInv, vars, IsList
    <2>4. OthersReady' /\ NoDangling' /\ ResumesWherePreempted' /\ OwnAddressSpace'
        BY <1>1, <2>1
        DEF IInv, vars, OthersReady, NoDangling, ResumesWherePreempted,
            OwnAddressSpace
    <2>5. QED
        BY <2>2, <2>3, <2>4 DEF IInv
<1>2. CASE DisableTimer \/ ArmTimer
    BY <1>2, TimerSwitchInv
<1>3. CASE init_scheduler
    BY <1>3, InitSchedulerInv
<1>4. CASE start_terminal
    BY <1>4, StartTerminalInv
<1>5. ASSUME NEW p \in Pid, Run(p) PROVE IInv'
    <2>1. status' = [status EXCEPT ![p] = status[p]] /\ status[p] \in Statuses
        BY <1>5 DEF Run, IInv, TypeOK
    <2>2. Running(p) /\ Advance(p, NextEip(p)) /\ NextEip(p) \in Positions
        BY <1>5, PositionTypes DEF Run
    <2>3. UNCHANGED <<memory, phase, initialized, mode, current_process,
                      current_vmm, pdpt>>
        BY <1>5 DEF Run
    <2>4. QED
        BY <2>1, <2>2, <2>3, OwnStepInv
<1>6. ASSUME NEW p \in Pid, Spawn(p) PROVE IInv'
    BY <1>6, SpawnInv
<1>7. ASSUME NEW p \in Pid, set_current_process_idle(p) PROVE IInv'
    <2>1. Running(p) /\ Advance(p, NextEip(p)) /\ NextEip(p) \in Positions
        BY <1>7, PositionTypes DEF set_current_process_idle
    <2>2. /\ status' = [status EXCEPT ![p] = "IDLE"] /\ "IDLE" \in Statuses
          /\ UNCHANGED <<memory, phase, initialized, mode, current_process,
                         current_vmm, pdpt>>
        BY <1>7 DEF set_current_process_idle, Statuses
    <2>3. QED
        BY <2>1, <2>2, OwnStepInv
<1>8. ASSUME NEW p \in Pid, KillMark(p) PROVE IInv'
    <2>1. Running(p) /\ Advance(p, Body + 1) /\ Body + 1 \in Positions
        BY <1>8, PositionTypes DEF KillMark
    <2>2. /\ status' = [status EXCEPT ![p] = "DEAD"] /\ "DEAD" \in Statuses
          /\ UNCHANGED <<memory, phase, initialized, mode, current_process,
                         current_vmm, pdpt>>
        BY <1>8 DEF KillMark, Statuses
    <2>3. QED
        BY <2>1, <2>2, OwnStepInv
<1>9. ASSUME NEW p \in Pid, KillCut(p) PROVE IInv'
    BY <1>9, KillCutInv
<1>10. CASE TimerIrq
    BY <1>10, TimerIrqInv
<1>11. CASE LoopTurn
    BY <1>11, LoopTurnInv
<1>12. CASE Dispatch
    BY <1>12, DispatchInv
<1>13. QED
    BY <1>1, <1>2, <1>3, <1>4, <1>5, <1>6, <1>7, <1>8, <1>9, <1>10, <1>11,
       <1>12
    DEF Next, Boot, Program

-----------------------------------------------------------------------------
(* The theorems.                                                           *)

\* IInv holds in every reachable state.
THEOREM Invariance == Spec => []IInv
<1>1. Init => IInv
    BY InitInv
<1>2. IInv /\ [Next]_vars => IInv'
    BY StepInv
<1>3. QED
    BY <1>1, <1>2, PTL DEF Spec

\* The globals of scheduler.c, the fields of every process_t and the CPU
\* state keep their types.
THEOREM TypeCorrect == Spec => []TypeOK
<1>1. IInv => TypeOK
    BY DEF IInv
<1>2. QED
    BY <1>1, Invariance, PTL

\* Every runnable process but the current one is READY whenever schedule()
\* looks for one.
THEOREM ReadyToRun == Spec => []OthersReady
<1>1. IInv => OthersReady
    BY DEF IInv
<1>2. QED
    BY <1>1, Invariance, PTL

\* Nothing that schedule() can still reach has been freed by delete_process.
THEOREM NeverDangling == Spec => []NoDangling
<1>1. IInv => NoDangling
    BY DEF IInv
<1>2. QED
    BY <1>1, Invariance, PTL

\* A preempted process goes on where the timer interrupted it.
THEOREM ResumesCorrectly == Spec => []ResumesWherePreempted
<1>1. IInv => ResumesWherePreempted
    BY DEF IInv
<1>2. QED
    BY <1>1, Invariance, PTL

\* A process runs in its own address space.
THEOREM RunsInOwnSpace == Spec => []OwnAddressSpace
<1>1. IInv => OwnAddressSpace
    BY DEF IInv
<1>2. QED
    BY <1>1, Invariance, PTL

\* The process list is in creation order and never holds the idle process.
THEOREM ListOrdered == Spec => []ListInOrder
<1>1. IInv => ListInOrder
    BY Constants DEF IInv, ListInOrder, IsList, IdleOK
<1>2. QED
    BY <1>1, Invariance, PTL

-----------------------------------------------------------------------------
(* Who leaves the list.                                                    *)

\* Steps other than the second write of kill_current_process and a turn of
\* schedule()'s loop over a dead process keep every process on the list.
LEMMA KeepsListed ==
    ASSUME IInv, [Next]_vars,
           \A p \in Pid : ~KillCut(p),
           ~(LoopTurn /\ status[current_process] = "DEAD")
    PROVE  Listed \subseteq Listed'
<1>1. CASE create_process(TRUE) /\ initialized
    BY <1>1, CreateLists
<1>2. CASE init_scheduler
    <2>1. next_free_pid = 0 /\ next_free_pid \in Pid
        BY <1>2, Constants DEF init_scheduler, Booting, IInv, BootOK, Idle
    <2>2. process_list_head' = process_list_head
          /\ next' = [next EXCEPT ![Idle] = NULL]
        BY <1>2, <2>1 DEF init_scheduler, create_process, Idle
    <2>3. next' = next
        BY <2>2 DEF IInv, IdleOK, TypeOK
    <2>4. QED
        BY <2>2, <2>3, SameList
<1>3. CASE UNCHANGED <<process_list_head, next>>
    BY <1>3, SameList
<1>4. start_terminal => create_process(TRUE) /\ initialized
    BY DEF start_terminal, Booting, IInv, BootOK
<1>5. \A p \in Pid : Spawn(p) => create_process(TRUE) /\ initialized
    BY RunningListed DEF Spawn
<1>6. LoopTurn => UNCHANGED <<process_list_head, next>>
    BY DEF LoopTurn, ReapOrRequeue
<1>7. \A p \in Pid : Run(p) \/ set_current_process_idle(p) \/ KillMark(p)
                        => UNCHANGED <<process_list_head, next>>
    BY DEF Run, set_current_process_idle, KillMark, memory
<1>8. DisableTimer \/ ArmTimer \/ TimerIrq \/ Dispatch \/ UNCHANGED vars
        => UNCHANGED <<process_list_head, next>>
    BY DEF DisableTimer, ArmTimer, TimerIrq, Dispatch, memory, vars
<1>9. QED
    BY <1>1, <1>2, <1>3, <1>4, <1>5, <1>6, <1>7, <1>8
    DEF Next, Boot, Program

\* A turn of the loop over a dead process unlinks that process.
LEMMA ReapLists ==
    ASSUME IInv, LoopTurn, status[current_process] = "DEAD"
    PROVE  Listed' = Listed \ {current_process} /\ current_process \in Listed
<1>1. current_process \in Runnable /\ current_process # Idle
    BY DEF LoopTurn, IInv, NoDangling, IdleOK
<1>2. current_process \in Listed
    BY <1>1 DEF Runnable
<1>3. delete_process(current_process)
    BY DEF LoopTurn, ReapOrRequeue
<1>4. QED
    BY <1>2, <1>3, DeleteUnlists

\* Only the running program moves, past Body only as it marks itself DEAD,
\* and schedule() makes no DEAD process READY.
LEMMA DyingStep == IInv /\ DyingIsDead /\ [Next]_vars => DyingIsDead'
<1> SUFFICES ASSUME IInv, DyingIsDead, [Next]_vars PROVE DyingIsDead'
    OBVIOUS
<1>1. Body \in Nat /\ Runnable \subseteq Pid
    BY RunnableTypes, SchedulerAssumption
<1>2. CASE UNCHANGED <<at, status>> /\ Runnable' \subseteq Runnable
    BY <1>2 DEF DyingIsDead
<1>3. ASSUME NEW p \in Pid, Running(p),
             Run(p) \/ set_current_process_idle(p)
      PROVE  DyingIsDead'
    <2>1. Listed' = Listed /\ Runnable' = Runnable
        BY <1>3, SameList DEF Run, set_current_process_idle, memory, Runnable
    <2>2. eip < Body /\ Advance(p, NextEip(p)) /\ NextEip(p) \in Positions
        BY <1>3, PositionTypes DEF Run, set_current_process_idle
    <2>3. at'[p] = NextEip(p) /\ \A r \in Pid \ {p} : at'[r] = at[r]
        BY <2>2, AdvanceMoves
    <2>4. NextEip(p) <= Body
        BY <1>1, <2>2 DEF NextEip, IInv, TypeOK, Positions
    <2>5. ~(at'[p] > Body)
        BY <1>1, <2>2, <2>3, <2>4 DEF Positions
    <2>6. \A r \in Pid \ {p} : status'[r] = status[r]
        BY <1>3 DEF Run, set_current_process_idle, IInv, TypeOK
    <2>7. QED
        BY <1>1, <2>1, <2>3, <2>5, <2>6 DEF DyingIsDead
<1>4. ASSUME NEW p \in Pid, Spawn(p) PROVE DyingIsDead'
    <2>1. initialized /\ p < next_free_pid
        BY <1>4, RunningListed DEF Spawn
    <2>2. eip < Body /\ Advance(p, NextEip(p)) /\ NextEip(p) \in Positions
        BY <1>4, PositionTypes DEF Spawn
    <2>3. at'[p] = NextEip(p) /\ \A r \in Pid \ {p} : at'[r] = at[r]
        BY <2>2, AdvanceMoves
    <2>4. NextEip(p) <= Body
        BY <1>1, <2>2 DEF NextEip, IInv, TypeOK, Positions
    <2>5. ~(at'[p] > Body)
        BY <1>1, <2>2, <2>3, <2>4 DEF Positions
    <2>6. /\ Runnable' = Runnable \union {next_free_pid}
          /\ next_free_pid \in Pid
          /\ \A r \in Runnable : status'[r] = status[r]
        BY <1>4, <2>1, <2>3, CreateInv DEF Spawn
    <2>7. ~(at'[next_free_pid] > Body)
        <3>1. next_free_pid # p
            BY <2>1, Constants
        <3>2. at[next_free_pid] = 0
            BY <2>6, Constants DEF IInv, CreatedOK
        <3>3. QED
            BY <1>1, <2>3, <2>6, <3>1, <3>2
    <2>8. QED
        BY <1>1, <2>3, <2>5, <2>6, <2>7 DEF DyingIsDead
<1>5. ASSUME NEW p \in Pid, KillMark(p) PROVE DyingIsDead'
    <2>1. Listed' = Listed /\ Runnable' = Runnable
        BY <1>5, SameList DEF KillMark, memory, Runnable
    <2>2. \A r \in Pid \ {p} : at'[r] = at[r] /\ status'[r] = status[r]
        BY <1>5 DEF KillMark, Advance, IInv, TypeOK
    <2>3. status'[p] = "DEAD"
        BY <1>5 DEF KillMark, IInv, TypeOK
    <2>4. QED
        BY <1>1, <2>1, <2>2, <2>3 DEF DyingIsDead
<1>6. ASSUME NEW p \in Pid, KillCut(p) PROVE DyingIsDead'
    <2>1. p \in Runnable /\ eip = at[p] /\ eip = Body + 1 /\ status' = status
        BY <1>6, RunningListed DEF KillCut, Runnable
    <2>2. status[p] = "DEAD"
        <3>1. at[p] > Body
            BY <1>1, <2>1
        <3>2. QED
            BY <2>1, <3>1 DEF DyingIsDead
    <2>3. Runnable' \subseteq Runnable
        BY <1>6, KillCutLists DEF Runnable, KillCut
    <2>4. \A r \in Pid \ {p} : at'[r] = at[r]
        BY <1>6 DEF KillCut, Advance, IInv, TypeOK
    <2>5. QED
        BY <1>1, <2>1, <2>2, <2>3, <2>4 DEF DyingIsDead
<1>7. CASE DisableTimer \/ ArmTimer \/ TimerIrq \/ UNCHANGED vars
    <2>1. UNCHANGED <<at, status, process_list_head, next, initialized>>
        BY <1>7 DEF DisableTimer, ArmTimer, TimerIrq, memory, vars
    <2>2. Runnable' = Runnable
        BY <2>1, SameList DEF Runnable
    <2>3. QED
        BY <1>2, <2>1, <2>2
<1>8. CASE init_scheduler
    <2>1. next_free_pid = Idle /\ Idle \in Pid
        BY <1>8, Constants DEF init_scheduler, Booting, IInv, BootOK, Idle
    <2>2. /\ at' = at /\ process_list_head' = process_list_head
          /\ next' = [next EXCEPT ![Idle] = NULL]
          /\ status' = [status EXCEPT ![Idle] = "READY"]
        BY <1>8, <2>1 DEF init_scheduler, create_process
    <2>3. next' = next
        BY <2>2 DEF IInv, IdleOK, TypeOK
    <2>4. Listed' = Listed
        BY <2>2, <2>3, SameList
    <2>5. \A r \in Runnable' : r \in Runnable \/ r = Idle
        BY <2>4 DEF Runnable
    <2>6. ~(at'[Idle] > Body)
        BY <1>1, <2>1, <2>2, Constants DEF IInv, CreatedOK
    <2>7. \A r \in Pid \ {Idle} : status'[r] = status[r]
        BY <2>2 DEF IInv, TypeOK
    <2>8. QED
        BY <1>1, <2>2, <2>5, <2>6, <2>7 DEF DyingIsDead
<1>9. CASE start_terminal
    <2>1. initialized /\ at' = at /\ Idle \in Pid /\ Idle < next_free_pid
        BY <1>9, Constants
        DEF start_terminal, Booting, IInv, BootOK, Idle, TypeOK
    <2>2. /\ Runnable' = Runnable \union {next_free_pid}
          /\ next_free_pid \in Pid
          /\ \A r \in Runnable : status'[r] = status[r]
        BY <1>9, <2>1, CreateInv DEF start_terminal
    <2>3. at[next_free_pid] = 0
        BY <2>2, Constants DEF IInv, CreatedOK
    <2>4. QED
        BY <1>1, <2>1, <2>2, <2>3 DEF DyingIsDead
<1>10. CASE LoopTurn /\ status[current_process] = "DEAD"
    <2>1. Runnable' \subseteq Runnable
        BY <1>10, ReapLists DEF Runnable, LoopTurn
    <2>2. UNCHANGED <<at, status>>
        BY <1>10 DEF LoopTurn, ReapOrRequeue
    <2>3. QED
        BY <1>2, <2>1, <2>2
<1>11. CASE LoopTurn /\ status[current_process] # "DEAD"
    <2>1. current_process \in Runnable
        BY <1>11 DEF LoopTurn, IInv, NoDangling
    <2>2. ~(at[current_process] > Body)
        BY <1>11, <2>1 DEF DyingIsDead
    <2>3. /\ at' = at /\ status' = [status EXCEPT ![current_process] = "READY"]
          /\ UNCHANGED <<process_list_head, next, initialized>>
        BY <1>11 DEF LoopTurn, ReapOrRequeue
    <2>4. Runnable' = Runnable
        BY <2>3, SameList DEF Runnable
    <2>5. \A r \in Pid \ {current_process} : status'[r] = status[r]
        BY <2>3 DEF IInv, TypeOK
    <2>6. QED
        BY <1>1, <2>2, <2>3, <2>4, <2>5 DEF DyingIsDead
<1>12. CASE Dispatch
    <2>1. \A r \in Runnable : status[r] = "READY"
        <3>1. TAKE r \in Runnable
        <3>2. r # NULL
            BY <1>1, Constants
        <3>3. CASE r = current_process
            BY <1>12, <3>2, <3>3 DEF Dispatch
        <3>4. CASE r # current_process
            BY <3>4 DEF IInv, OthersReady
        <3>5. QED
            BY <3>3, <3>4
    <2>2. \A r \in Runnable : ~(at[r] > Body)
        BY <2>1 DEF DyingIsDead
    <2>3. Runnable' = Runnable /\ at' = at
        BY <1>12, SameList DEF Dispatch, memory, Runnable
    <2>4. QED
        BY <2>2, <2>3 DEF DyingIsDead
<1>13. QED
    <2>1. \A p \in Pid : Run(p) \/ set_current_process_idle(p) => Running(p)
        BY DEF Run, set_current_process_idle
    <2>2. QED
        BY <1>3, <1>4, <1>5, <1>6, <1>7, <1>8, <1>9, <1>10, <1>11, <1>12, <2>1
        DEF Next, Boot, Program

\* DyingIsDead holds in every reachable state.
LEMMA DyingInvariance == Spec => [](IInv /\ DyingIsDead)
<1>1. Init => DyingIsDead
    <2>1. SUFFICES ASSUME Init PROVE DyingIsDead
        OBVIOUS
    <2>2. Runnable = {}
        <3>1. Listed = {} /\ ~initialized
            BY <2>1 DEF Init, Listed
        <3>2. QED
            BY <3>1 DEF Runnable
    <2>3. QED
        BY <2>2 DEF DyingIsDead
<1>2. IInv /\ DyingIsDead /\ [Next]_vars => DyingIsDead'
    BY DyingStep
<1>3. QED
    BY <1>1, <1>2, Invariance, PTL DEF Spec

\* A process leaves the list only by dying while it runs, or by standing
\* behind one that does: add_process, schedule() and the timer lose nobody.
THEOREM OnlyDeathUnlists == Spec => LeavesListOnlyByDeath
<1> DEFINE A == \A p \in Listed \ Listed' :
                    /\ current_process # NULL
                    /\ status[current_process] = "DEAD"
                    /\ p >= current_process
<1>1. IInv /\ DyingIsDead /\ [Next]_vars => A
    <2>1. SUFFICES ASSUME IInv, DyingIsDead, [Next]_vars,
                          NEW p \in Listed \ Listed'
                   PROVE  /\ current_process # NULL
                          /\ status[current_process] = "DEAD"
                          /\ p >= current_process
        OBVIOUS
    <2>2. CASE \E c \in Pid : KillCut(c)
        <3>1. PICK c \in Pid : KillCut(c)
            BY <2>2
        <3>2. /\ current_process = c /\ c \in Listed /\ c # NULL
              /\ eip = at[c] /\ eip = Body + 1
            BY <2>1, <3>1, RunningListed DEF KillCut
        <3>3. c \in Runnable /\ Body \in Nat
            BY <3>2, SchedulerAssumption DEF Runnable
        <3>4. status[c] = "DEAD"
            <4>1. at[c] > Body
                BY <3>2, <3>3
            <4>2. QED
                BY <2>1, <3>3, <4>1 DEF DyingIsDead
        <3>5. ~(p <= c)
            BY <2>1, <3>1, KillCutLists
        <3>6. p \in Nat /\ c \in Nat
            BY <2>1, <3>2, Constants, RunnableTypes
        <3>7. QED
            BY <3>2, <3>4, <3>5, <3>6
    <2>3. CASE LoopTurn /\ status[current_process] = "DEAD"
        <3>1. p = current_process /\ current_process # NULL
            BY <2>1, <2>3, ReapLists DEF LoopTurn
        <3>2. p \in Nat
            BY <2>1, Constants, RunnableTypes
        <3>3. QED
            BY <2>3, <3>1, <3>2
    <2>4. QED
        BY <2>1, <2>2, <2>3, KeepsListed
<1>2. QED
    BY <1>1, DyingInvariance, PTL DEF Spec, LeavesListOnlyByDeath

\* Of a step of schedule()'s loop that frees a process: it unlinks that
\* process and keeps every other one on the list.
THEOREM ReapExact == Spec => ReapUnlinksOnlyTheDead
<1> DEFINE A == procs' # procs /\ mode = "loop" =>
                    Listed' = Listed \ {current_process}
<1>1. IInv /\ [Next]_vars => A
    <2>1. SUFFICES ASSUME IInv, [Next]_vars, procs' # procs, mode = "loop"
                   PROVE  Listed' = Listed \ {current_process}
        OBVIOUS
    <2>2. LoopTurn
        BY <2>1
        DEF Next, Boot, Program, DisableTimer, init_scheduler, start_terminal,
            ArmTimer, Booting, Run, Spawn, set_current_process_idle, KillMark,
            KillCut, Running, TimerIrq, Dispatch, memory, vars
    <2>3. status[current_process] = "DEAD"
        BY <2>1, <2>2 DEF LoopTurn, ReapOrRequeue
    <2>4. QED
        BY <2>1, <2>2, <2>3, ReapLists
<1>2. QED
    BY <1>1, Invariance, PTL DEF Spec, ReapUnlinksOnlyTheDead

-----------------------------------------------------------------------------
(* wordOS as it boots: the terminal never exits.                           *)

\* The terminal is the first process on the list from its creation on, and
\* never comes to kill_current_process.
TerminalHeads ==
    /\ phase \in {"apic", "quiet"} => process_list_head = NULL
    /\ phase = "sched" => next_free_pid = 1 /\ process_list_head = NULL
    /\ phase \in {"term", "armed"} => process_list_head = Terminal
    /\ status[Terminal] # "DEAD"
    /\ at[Terminal] < Body

LEMMA TerminalInit == Init => TerminalHeads /\ NoContextLeak
BY SchedulerAssumption
   DEF Init, TerminalHeads, NoContextLeak, Terminal, Pid

\* A process that runs, other than a dying one, leaves the head alone.
LEMMA TerminalStep ==
    ASSUME Terminal \notin Exits, IInv, TerminalHeads, NoContextLeak,
           [Next]_vars
    PROVE  TerminalHeads' /\ NoContextLeak'
<1> USE DEF TerminalHeads, NoContextLeak
<1>1. /\ Terminal \in Pid /\ Terminal # NULL /\ Body \in Nat /\ Body >= 1
  BY SchedulerAssumption DEF Terminal, Pid
<1>2. /\ status \in [Pid -> Statuses] /\ at \in [Pid -> Positions]
      /\ eip \in Positions /\ Positions \subseteq Nat
  BY <1>1 DEF IInv, TypeOK, Positions
\* The program of the terminal stays in its own code.
<1>3. ASSUME NEW p \in Pid, Running(p)
      PROVE  /\ phase = "armed"
             /\ p = Terminal => eip < Body
             /\ p = Terminal => NextEip(p) \in Nat /\ NextEip(p) < Body
  <2>1. phase = "armed" /\ eip = at[p]
    BY <1>3, SchedulerAssumption
       DEF Running, IInv, BootOK, ResumesWherePreempted, Pid
  <2> QED
    BY <1>1, <1>2, <2>1 DEF NextEip
<1>4. CASE UNCHANGED vars
  BY <1>4 DEF vars
<1>5. CASE DisableTimer \/ ArmTimer
  BY <1>5 DEF DisableTimer, ArmTimer, Booting, memory
<1>6. CASE init_scheduler
  <2>1. /\ phase' = "sched" /\ next_free_pid' = 1 /\ at' = at
        /\ process_list_head' = NULL /\ procs' = ctxs'
        /\ status' = [status EXCEPT ![0] = "READY"]
    BY <1>6 DEF init_scheduler, Booting, create_process, IInv, BootOK
  <2> QED
    BY <1>1, <1>2, <2>1 DEF Terminal
<1>7. CASE start_terminal
  <2>1. /\ phase' = "term" /\ at' = at /\ procs' = ctxs'
        /\ process_list_head' = Terminal
        /\ status' = [status EXCEPT ![1] = "READY"]
    BY <1>7 DEF start_terminal, Booting, create_process, add_process, Terminal
  <2> QED
    BY <1>1, <1>2, <2>1 DEF Terminal
<1>8. ASSUME NEW p \in Pid, Run(p) \/ set_current_process_idle(p)
      PROVE  TerminalHeads' /\ NoContextLeak'
  <2>1. /\ Running(p) /\ at' = [at EXCEPT ![p] = NextEip(p)]
        /\ status' \in {status, [status EXCEPT ![p] = "IDLE"]}
        /\ UNCHANGED <<phase, next_free_pid, process_list_head, procs, ctxs>>
    BY <1>8 DEF Run, set_current_process_idle, Advance, memory
  <2> QED
    BY <1>1, <1>2, <1>3, <2>1
<1>9. ASSUME NEW p \in Pid, Spawn(p)
      PROVE  TerminalHeads' /\ NoContextLeak'
  <2>1. /\ Running(p) /\ at' = [at EXCEPT ![p] = NextEip(p)]
        /\ phase' = phase /\ create_process(TRUE)
    BY <1>9 DEF Spawn, Advance
  <2>2. phase = "armed" /\ process_list_head = Terminal
    BY <1>3, <2>1
  <2>3. /\ process_list_head' = Terminal /\ procs' = ctxs'
        /\ status' = [status EXCEPT ![next_free_pid] = "READY"]
    BY <1>1, <2>1, <2>2 DEF create_process, add_process
  <2> QED
    BY <1>1, <1>2, <1>3, <2>1, <2>2, <2>3
<1>10. ASSUME NEW p \in Pid, KillMark(p) \/ KillCut(p)
       PROVE  TerminalHeads' /\ NoContextLeak'
  <2>1. Running(p) /\ ~(eip < Body)
    BY <1>1, <1>2, <1>10 DEF KillMark, KillCut
  <2>2. p # Terminal
    BY <1>3, <2>1
  <2>3. /\ \E e : at' = [at EXCEPT ![p] = e]
        /\ status' \in {status, [status EXCEPT ![p] = "DEAD"]}
        /\ UNCHANGED <<phase, next_free_pid, process_list_head, procs, ctxs>>
    BY <1>10 DEF KillMark, KillCut, Advance, memory
  <2> QED
    BY <1>1, <1>2, <2>2, <2>3
<1>11. CASE TimerIrq
  BY <1>11 DEF TimerIrq
\* delete_process is never called for the head, so it frees the context.
<1>12. CASE LoopTurn
  <2>1. phase = "armed" /\ process_list_head = Terminal
    BY <1>12 DEF LoopTurn, IInv, BootOK
  <2>2. CASE status[current_process] = "DEAD"
    <3>1. current_process # process_list_head
      BY <2>1, <2>2
    <3> QED
      BY <1>12, <2>1, <2>2, <3>1 DEF LoopTurn, ReapOrRequeue, delete_process
  <2>3. CASE status[current_process] # "DEAD"
    BY <1>1, <1>2, <1>12, <2>1, <2>3 DEF LoopTurn, ReapOrRequeue
  <2> QED
    BY <2>2, <2>3
<1>13. CASE Dispatch
  BY <1>1, <1>2, <1>13 DEF Dispatch, memory
<1> QED
  BY <1>4, <1>5, <1>6, <1>7, <1>8, <1>9, <1>10, <1>11, <1>12, <1>13
     DEF Next, Boot, Program

\* When the terminal never exits, as in wordOS, delete_process frees the saved
\* context with every process_t it frees.
THEOREM ContextsAreFreed ==
    ASSUME Terminal \notin Exits
    PROVE  Spec => []NoContextLeak
<1>1. TerminalHeads /\ NoContextLeak /\ IInv /\ [Next]_vars =>
         TerminalHeads' /\ NoContextLeak'
  BY TerminalStep
<1> QED
  BY <1>1, TerminalInit, Invariance, PTL DEF Spec
=============================================================================
