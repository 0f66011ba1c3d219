------------------------ MODULE AddressSpacesProofs ------------------------
(***************************************************************************)
(* Proofs about the frames and the address spaces of processes, for any    *)
(* number of frames and processes.                                         *)
(***************************************************************************)
EXTENDS AddressSpaces, LeastElements, TLAPS

-----------------------------------------------------------------------------
(* The inductive invariant.                                                *)

\* The frames of the process that is being created.
own == vm[child]

\* Processes get their frames one after the other, and the newest one gets its
\* frames in the order of create_new_pdptes.
RolesTaken ==
    /\ pc # "none" => child \in Pid
    /\ \A p \in Pid : \A r \in Roles :
          /\ p < child => vm[p][r] # None
          /\ p > child => vm[p][r] = None
    /\ child \in Pid =>
          /\ own["pd_low"] # None <=> pc # "pd_low"
          /\ own["pd_mid"] # None <=> pc \notin {"pd_low", "pd_mid"}
          /\ own["pd_high"] # None <=> pc \notin {"pd_low", "pd_mid", "pd_high"}
          /\ own["store"] # None <=>
                pc \notin {"pd_low", "pd_mid", "pd_high", "store"}
          /\ own["table"] # None <=> pc \in {"stack", "leave", "none"}
          /\ own["stack"] # None <=> pc \in {"leave", "none"}

\* FramesNotShared, frame by frame.
NotShared ==
    /\ \A p, q \in Pid : \A r, s \in Roles :
          vm[p][r] = vm[q][s] /\ vm[p][r] # None =>
             /\ p = q
             /\ \/ r = s
                \/ r = "pd_high" /\ s = "table"
                \/ r = "table" /\ s = "pd_high"
    /\ \A p \in Pid : \A r \in Roles : vm[p][r] \notin KernelFrames

\* Until its page table is made, no frame below a process's pd_high is free.
BelowMarked ==
    pc \in {"store", "kmap", "temp_low", "temp_mid", "temp_high", "unmap",
            "enter", "pmap"} =>
       \A g \in Frames : g < own["pd_high"] => g \in frames

\* How far the tables of the process that is being created have come.
TablesSoFar ==
    /\ pc \in {"temp_mid", "temp_high", "unmap", "enter", "pmap"} =>
          /\ ent[own["pd_low"]][Self] = own["pd_low"]
          /\ ent[own["pd_low"]][0] = Zero
    /\ pc \in {"stack", "leave"} =>
          /\ ent[own["pd_low"]][Self] = own["pd_low"]
          /\ ent[own["pd_low"]][0] = own["table"]
          /\ ent[own["table"]][Low] = own["store"]
    /\ pc = "unmap" => temp = own["pd_high"]
    /\ pc \in {"pmap", "stack", "leave"} => pdpt["pd_low"] = own["pd_low"]

\* The tables of a process that has all its frames.
Built(p) ==
    /\ ent[vm[p]["pd_low"]][0] = vm[p]["table"]
    /\ ent[vm[p]["table"]][Low] = vm[p]["store"]
    /\ ent[vm[p]["table"]][Low + 1] = vm[p]["stack"]

AllBuilt == \A p \in Pid : vm[p]["stack"] # None => Built(p)

Loaded ==
    pc = "none" /\ current_vmm # KVmm =>
       \A r \in {"pd_low", "pd_mid", "pd_high"} : pdpt[r] = vm[current_vmm][r]

IInv ==
    /\ TypeOK
    /\ halted # "fault"
    /\ RolesTaken
    /\ InUseIsMarked
    /\ NotShared
    /\ BelowMarked
    /\ TablesSoFar
    /\ AllBuilt
    /\ Loaded

-----------------------------------------------------------------------------
(* Operators of the model.                                                 *)

\* get_first_frame returns the lowest frame whose bit is clear.
LEMMA FirstFrameIsLowest ==
    ASSUME FreeFrames # {}
    PROVE  /\ FirstFrame \in Frames /\ FirstFrame \notin frames
           /\ \A g \in Frames : g < FirstFrame => g \in frames
<1>1. FreeFrames \subseteq Nat
  BY AddressSpacesAssumption DEF FreeFrames, Frames
<1>2. \E m \in FreeFrames : \A n \in FreeFrames : m <= n
  BY <1>1, LeastElement
<1>3. FirstFrame \in FreeFrames /\ \A g \in FreeFrames : FirstFrame <= g
  BY <1>2 DEF FirstFrame
<1>4. ASSUME NEW g \in Frames, g < FirstFrame, g \notin frames
      PROVE  FALSE
  <2>1. g \in FreeFrames
    BY <1>4 DEF FreeFrames
  <2> QED
    BY <1>1, <1>3, <1>4, <2>1
<1> QED
  BY <1>3, <1>4 DEF FreeFrames

\* The entries of a table that matter are different ones.
LEMMA Entries ==
    /\ 0 \in Index /\ Self \in Index /\ Low \in Index /\ (Low + 1) \in Index
    /\ Self # 0 /\ Low # Low + 1
BY AddressSpacesAssumption DEF Index, Self

\* A frame nobody uses.
Fresh(f) ==
    /\ f \in Frames /\ f \notin KernelFrames
    /\ \A p \in Pid : \A r \in Roles : vm[p][r] # f

\* Outside the window, a frame whose bit is clear is a frame nobody uses.
LEMMA ClearIsFresh ==
    ASSUME TypeOK, InUseIsMarked, NEW f \in Frames, f \notin frames,
           pc \in {"enter", "pmap"} => f # own["pd_high"]
    PROVE  Fresh(f)
BY AddressSpacesAssumption DEF Fresh, InUseIsMarked, own, TypeOK

\* The process that is being created has the frames of the steps behind it.
LEMMA OwnFrames ==
    ASSUME TypeOK, RolesTaken, pc # "none"
    PROVE  /\ child \in Pid
           /\ own \in [Roles -> Frames \union {None}]
           /\ \A r \in Roles : own[r] # None => own[r] \in Frames
BY DEF TypeOK, RolesTaken, own

\* Giving a process a frame nobody uses shares none.
LEMMA FreshNotShared ==
    ASSUME TypeOK, NotShared, NEW c \in Pid, NEW role \in Roles, NEW f,
           Fresh(f), vm[c][role] = None, vm' = [vm EXCEPT ![c][role] = f],
           ktables' = ktables
    PROVE  NotShared'
<1>1. /\ vm'[c][role] = f
      /\ \A p \in Pid : \A r \in Roles :
            p # c \/ r # role => vm'[p][r] = vm[p][r]
  BY DEF TypeOK
<1>2. KernelFrames' = KernelFrames
  BY DEF KernelFrames
<1> QED
  BY <1>1, <1>2 DEF NotShared, Fresh

-----------------------------------------------------------------------------
(* The steps of create_process, one by one.                                *)

LEMMA BeginStep ==
    ASSUME IInv, Begin
    PROVE  IInv'
<1> USE DEF IInv, Begin, Goto
<1>1. /\ child' = child + 1 /\ child \in Int /\ child' \in Pid
      /\ \A p \in Pid : p < child' => p < child \/ p = child
  BY AddressSpacesAssumption DEF TypeOK, child, Pid
<1>2. TypeOK'
  BY AddressSpacesAssumption DEF TypeOK, PCs, Pid
<1>3. RolesTaken'
  <2>1. \A p \in Pid : \A r \in Roles : vm[p][r] # None <=> p <= child
    BY <1>1 DEF RolesTaken, Pid, own, Roles
  <2>2. own' = vm[child'] /\ \A r \in Roles : own'[r] = None
    BY <1>1, <2>1 DEF own, Pid
  <2> QED
    BY <1>1, <2>1, <2>2 DEF RolesTaken, Pid, Roles
<1>4. InUseIsMarked'
  BY DEF InUseIsMarked, KernelFrames
<1>5. NotShared'
  BY DEF NotShared, KernelFrames
<1>6. AllBuilt'
  BY DEF AllBuilt, Built
<1>7. BelowMarked' /\ TablesSoFar' /\ Loaded'
  BY DEF BelowMarked, TablesSoFar, Loaded
<1> QED
  BY <1>2, <1>3, <1>4, <1>5, <1>6, <1>7

\* The steps from TakeFrame to TakeFrame.
TakeSteps == {<<"pd_low", "pd_mid">>, <<"pd_mid", "pd_high">>,
              <<"pd_high", "store">>, <<"store", "kmap">>}

LEMMA TakeFrameStep ==
    ASSUME IInv, NEW role, NEW there, <<role, there>> \in TakeSteps,
           TakeFrame(role, there)
    PROVE  IInv'
<1> USE DEF IInv, TakeFrame, Goto
<1> DEFINE f == FirstFrame
<1>1. /\ role \in {"pd_low", "pd_mid", "pd_high", "store"} /\ role \in Roles
      /\ there \in {"pd_mid", "pd_high", "store", "kmap"} /\ pc = role
      /\ there = "store" => role = "pd_high"
      /\ there = "kmap" => role = "store"
  BY DEF TakeSteps, Roles
<1>2. /\ f \in Frames /\ f \notin frames
      /\ \A g \in Frames : g < f => g \in frames
  BY FirstFrameIsLowest
<1>3. Fresh(f)
  BY <1>1, <1>2, ClearIsFresh
<1>4. child' = child /\ child \in Pid /\ own[role] = None
  BY <1>1 DEF RolesTaken, child
<1> HIDE DEF f
<1>5. /\ vm' = [vm EXCEPT ![child][role] = f] /\ frames' = frames \union {f}
      /\ vm'[child][role] = f
      /\ \A p \in Pid : p # child => vm'[p] = vm[p]
      /\ \A p \in Pid : \A r \in Roles :
            p # child \/ r # role => vm'[p][r] = vm[p][r]
  BY <1>1, <1>4 DEF TypeOK, set_frame, f
<1>6. TypeOK'
  BY <1>1, <1>2, <1>4, <1>5 DEF TypeOK, PCs
<1>7. RolesTaken'
  <2>1. f # None
    BY <1>2, AddressSpacesAssumption
  <2>2. own' = [own EXCEPT ![role] = f] /\ own \in [Roles -> Frames \union {None}]
    BY <1>1, <1>4, <1>5 DEF own, TypeOK
  <2>3. \A p \in Pid : \A r \in Roles :
          /\ p < child' => vm'[p][r] # None
          /\ p > child' => vm'[p][r] = None
    <3>1. child \notin {p \in Pid : p < child \/ p > child}
      BY <1>4 DEF Pid
    <3> QED
      BY <1>4, <1>5, <3>1 DEF RolesTaken
  <2> QED
    BY <1>1, <1>4, <2>1, <2>2, <2>3 DEF RolesTaken, TakeSteps, Roles
<1>8. InUseIsMarked'
  BY <1>1, <1>4, <1>5 DEF InUseIsMarked, KernelFrames
<1>9. NotShared'
  BY <1>1, <1>3, <1>4, <1>5, FreshNotShared DEF own
<1>10. BelowMarked'
  BY <1>1, <1>2, <1>4, <1>5 DEF BelowMarked, own, Roles, TypeOK
<1>11. AllBuilt'
  <2>1. vm[child]["stack"] = None
    BY <1>1, <1>4 DEF RolesTaken, own
  <2> QED
    BY <1>1, <1>4, <1>5, <2>1 DEF AllBuilt, Built, Roles
<1>12. TablesSoFar' /\ Loaded'
  BY <1>1 DEF TablesSoFar, Loaded
<1> QED
  BY <1>6, <1>7, <1>8, <1>9, <1>10, <1>11, <1>12

\* A write to a frame that no finished process uses for its tables.
LEMMA BuiltKept ==
    ASSUME IInv, vm' = vm,
           \A p \in Pid : vm[p]["stack"] # None =>
              /\ ent'[vm[p]["pd_low"]] = ent[vm[p]["pd_low"]]
              /\ ent'[vm[p]["table"]] = ent[vm[p]["table"]]
    PROVE  AllBuilt'
BY DEF IInv, AllBuilt, Built

LEMMA MapStoreInKernelStep ==
    ASSUME IInv, MapStoreInKernel
    PROVE  IInv'
<1> USE DEF IInv
<1>1. /\ pc = "kmap" /\ pc' = "temp_low" /\ child' = child /\ vm' = vm
      /\ own' = own /\ halted' = halted /\ current_vmm' = current_vmm
  BY DEF MapStoreInKernel, Goto, child, own
<1>2. child \in Pid /\ own["store"] \in Frames /\ own["stack"] = None
  BY <1>1, OwnFrames DEF RolesTaken, Roles
<1> DEFINE s == own["store"]
           written == [ent EXCEPT ![s] = Full(Junk)]
<1>3. \/ /\ frames' = frames /\ ktables' = ktables /\ ent' = written
      \/ \E f \in Frames :
            /\ f \notin frames /\ Fresh(f)
            /\ frames' = frames \union {f} /\ ktables' = ktables \union {f}
            /\ ent' = [written EXCEPT ![f] = Full(Zero)]
  <2>1. CASE kpage = 0
    <3>1. FirstFrame \in Frames /\ FirstFrame \notin frames
      BY <2>1, FirstFrameIsLowest DEF MapStoreInKernel
    <3>2. Fresh(FirstFrame)
      BY <1>1, <3>1, ClearIsFresh
    <3> QED
      BY <2>1, <3>1, <3>2 DEF MapStoreInKernel, set_frame, own
  <2>2. CASE kpage # 0
    BY <2>2 DEF MapStoreInKernel, own
  <2> QED
    BY <2>1, <2>2
<1>4. /\ Full(Junk) \in [Index -> Contents] /\ Full(Zero) \in [Index -> Contents]
  BY DEF Full, Contents
<1> HIDE DEF s
<1>5. /\ ent' \in [Frames -> [Index -> Contents]]
      /\ frames \subseteq frames' /\ frames' \subseteq Frames
      /\ ktables' \subseteq Frames
      /\ \A g \in ktables' : g \in ktables \/ (g \in frames' /\ Fresh(g))
      /\ \A g \in Frames : g # s /\ ~Fresh(g) => ent'[g] = ent[g]
  <2>1. s \in Frames /\ ent \in [Frames -> [Index -> Contents]]
        /\ frames \subseteq Frames /\ ktables \subseteq Frames
    BY <1>2 DEF TypeOK, s
  <2>2. /\ written \in [Frames -> [Index -> Contents]]
        /\ \A g \in Frames : g # s => written[g] = ent[g]
    BY <1>4, <2>1
  <2> HIDE DEF written
  <2> QED
    BY <1>3, <1>4, <2>1, <2>2
<1>6. TypeOK'
  <2>1. kpage' \in Index
    BY AddressSpacesAssumption DEF MapStoreInKernel, TypeOK, Index
  <2> QED
    BY <1>1, <1>5, <2>1 DEF MapStoreInKernel, TypeOK, PCs
<1>7. RolesTaken'
  BY <1>1 DEF RolesTaken
<1>8. InUseIsMarked'
  BY <1>1, <1>5 DEF InUseIsMarked, KernelFrames
<1>9. NotShared'
  BY <1>1, <1>5 DEF NotShared, KernelFrames, Fresh
<1>10. BelowMarked'
  BY <1>1, <1>5 DEF BelowMarked
<1>11. AllBuilt'
  <2>1. ASSUME NEW p \in Pid, vm[p]["stack"] # None, NEW r \in Roles
        PROVE  ent'[vm[p][r]] = ent[vm[p][r]]
    <3>1. p < child
      BY <1>1, <1>2, <2>1 DEF RolesTaken, Roles, own, Pid
    <3>2. vm[p][r] # None /\ vm[p][r] \in Frames
      BY <3>1 DEF RolesTaken, TypeOK
    <3>3. vm[p][r] # s
      BY <1>2, <3>1, <3>2 DEF NotShared, own, Pid, s, Roles
    <3> QED
      BY <1>5, <3>2, <3>3 DEF Fresh
  <2> QED
    BY <1>1, <2>1, BuiltKept DEF Roles
<1>12. TablesSoFar' /\ Loaded'
  BY <1>1 DEF TablesSoFar, Loaded
<1> QED
  BY <1>1, <1>6, <1>7, <1>8, <1>9, <1>10, <1>11, <1>12

\* The steps of PrepareDirectory.
PrepareSteps == {<<"pd_low", "temp_low", "temp_mid">>,
                 <<"pd_mid", "temp_mid", "temp_high">>,
                 <<"pd_high", "temp_high", "unmap">>}

LEMMA PrepareDirectoryStep ==
    ASSUME IInv, NEW role, NEW base, NEW here, NEW there,
           <<role, here, there>> \in PrepareSteps,
           base = IF role = "pd_high" THEN ent ELSE Cleared,
           PrepareDirectory(role, base, here, there)
    PROVE  IInv'
<1> USE DEF IInv
<1> DEFINE f == own[role]
<1>1. /\ pc = here /\ pc' = there /\ child' = child /\ vm' = vm /\ own' = own
      /\ halted' = halted /\ current_vmm' = current_vmm /\ frames' = frames
      /\ ktables' = ktables /\ pdpt' = pdpt /\ temp' = f /\ tlb' = f
      /\ ent' = [ent EXCEPT ![f] = [base[f] EXCEPT ![Self] = f]]
  BY DEF PrepareDirectory, Goto, child, own, Behind, Flush
<1>2. /\ role \in Roles /\ role # "store" /\ role # "table" /\ role # "stack"
      /\ here \in {"temp_low", "temp_mid", "temp_high"}
      /\ there \in {"temp_mid", "temp_high", "unmap"}
      /\ here = "temp_low" <=> role = "pd_low"
      /\ there = "unmap" <=> role = "pd_high"
  BY DEF PrepareSteps, Roles
<1>3. /\ child \in Pid /\ f \in Frames /\ own["stack"] = None
      /\ own["pd_low"] \in Frames
  BY <1>1, <1>2, OwnFrames DEF RolesTaken, Roles, PrepareSteps
<1>4. /\ base \in [Frames -> [Index -> Contents]]
      /\ role = "pd_low" => base[f][0] = Zero
  BY <1>3, Entries DEF Cleared, TypeOK, Full, Contents
<1> HIDE DEF f
<1>5. /\ ent' \in [Frames -> [Index -> Contents]]
      /\ \A g \in Frames : g # f => ent'[g] = ent[g]
      /\ ent'[f][Self] = f
      /\ role = "pd_low" => ent'[f][0] = Zero
  BY <1>1, <1>3, <1>4, Entries DEF TypeOK, Contents
<1>6. TypeOK'
  BY <1>1, <1>2, <1>3, <1>5 DEF PrepareDirectory, TypeOK, PCs
<1>7. RolesTaken'
  BY <1>1, <1>2 DEF RolesTaken
<1>8. InUseIsMarked'
  BY <1>1, <1>2 DEF InUseIsMarked, KernelFrames
<1>9. NotShared'
  BY <1>1 DEF NotShared, KernelFrames
<1>10. BelowMarked'
  BY <1>1, <1>2 DEF BelowMarked
<1>11. AllBuilt'
  <2>1. ASSUME NEW p \in Pid, vm[p]["stack"] # None, NEW r \in Roles
        PROVE  ent'[vm[p][r]] = ent[vm[p][r]]
    <3>1. p < child
      BY <1>1, <1>2, <1>3, <2>1 DEF RolesTaken, Roles, own, Pid
    <3>2. vm[p][r] # None /\ vm[p][r] \in Frames
      BY <3>1 DEF RolesTaken, TypeOK
    <3>3. vm[p][r] # f
      BY <1>2, <1>3, <3>1, <3>2 DEF NotShared, own, Pid, f
    <3> QED
      BY <1>5, <3>2, <3>3
  <2> QED
    BY <1>1, <2>1, BuiltKept DEF Roles
<1>12. TablesSoFar'
  <2>1. role # "pd_low" => f # own["pd_low"]
    BY <1>2, <1>3, AddressSpacesAssumption DEF NotShared, own, Roles, f
  <2>2. /\ ent'[own["pd_low"]][Self] = own["pd_low"]
        /\ ent'[own["pd_low"]][0] = Zero
    BY <1>1, <1>2, <1>3, <1>5, <2>1 DEF TablesSoFar, f
  <2> QED
    BY <1>1, <1>2, <2>2 DEF TablesSoFar, f
<1>13. Loaded'
  BY <1>1, <1>2 DEF Loaded
<1> QED
  BY <1>1, <1>6, <1>7, <1>8, <1>9, <1>10, <1>11, <1>12, <1>13

LEMMA UnmapTempStep ==
    ASSUME IInv, UnmapTemp
    PROVE  IInv'
<1> USE DEF IInv
<1>1. /\ pc = "unmap" /\ pc' = "enter" /\ child' = child /\ vm' = vm
      /\ own' = own /\ ent' = ent /\ halted' = halted
      /\ ktables' = ktables /\ temp' = None
  BY DEF UnmapTemp, Goto, child, own
<1>2. child \in Pid /\ temp = own["pd_high"] /\ own["pd_high"] \in Frames
  BY <1>1, OwnFrames DEF TablesSoFar, RolesTaken, Roles
<1>3. frames' \subseteq frames /\ \A g \in frames : g # temp => g \in frames'
  BY DEF UnmapTemp, clear_frame
<1>4. TypeOK'
  BY <1>1, <1>3 DEF UnmapTemp, TypeOK, PCs
<1>5. RolesTaken'
  BY <1>1 DEF RolesTaken
<1>6. InUseIsMarked'
  <2>1. temp \notin KernelFrames
    BY <1>2 DEF NotShared, own, Roles
  <2>2. \A p \in Pid : \A r \in Roles :
          vm[p][r] = temp => p = child /\ (r = "pd_high" \/ r = "table")
    BY <1>2, AddressSpacesAssumption DEF NotShared, own, Roles
  <2>3. own["table"] # temp
    BY <1>1, <1>2, AddressSpacesAssumption DEF RolesTaken
  <2> QED
    BY <1>1, <1>2, <1>3, <2>1, <2>2, <2>3 DEF InUseIsMarked, KernelFrames, own
<1>7. NotShared'
  BY <1>1 DEF NotShared, KernelFrames
<1>8. BelowMarked'
  BY <1>1, <1>2, <1>3 DEF BelowMarked, Frames
<1>9. AllBuilt'
  BY <1>1 DEF AllBuilt, Built
<1>10. TablesSoFar' /\ Loaded'
  BY <1>1 DEF TablesSoFar, Loaded
<1> QED
  BY <1>1, <1>4, <1>5, <1>6, <1>7, <1>8, <1>9, <1>10

\* What set_current_vmm does to the PDPT.
LEMMA SetCurrentVmm ==
    ASSUME TypeOK, NEW v \in Pid, set_current_vmm(v)
    PROVE  /\ pdpt' \in [{"pd_low", "pd_mid", "pd_high"} -> Frames \union {None}]
           /\ \A r \in {"pd_low", "pd_mid", "pd_high"} : pdpt'[r] = vm[v][r]
           /\ current_vmm' = v /\ tlb' = None
BY AddressSpacesAssumption DEF set_current_vmm, TypeOK, Roles

LEMMA EnterStep ==
    ASSUME IInv, Enter
    PROVE  IInv'
<1> USE DEF IInv
<1>1. /\ pc = "enter" /\ pc' = "pmap" /\ child' = child /\ vm' = vm
      /\ own' = own /\ ent' = ent /\ halted' = halted /\ frames' = frames
      /\ ktables' = ktables /\ set_current_vmm(child)
  BY DEF Enter, Goto, child, own
<1>2. child \in Pid
  BY <1>1 DEF RolesTaken
<1>3. /\ pdpt' \in [{"pd_low", "pd_mid", "pd_high"} -> Frames \union {None}]
      /\ pdpt'["pd_low"] = own["pd_low"] /\ current_vmm' = child /\ tlb' = None
  BY <1>1, <1>2, SetCurrentVmm DEF own
<1>4. TypeOK'
  BY <1>1, <1>2, <1>3 DEF Enter, TypeOK, PCs
<1>5. RolesTaken'
  BY <1>1 DEF RolesTaken
<1>6. InUseIsMarked'
  BY <1>1 DEF InUseIsMarked, KernelFrames
<1>7. NotShared'
  BY <1>1 DEF NotShared, KernelFrames
<1>8. BelowMarked' /\ TablesSoFar' /\ Loaded'
  BY <1>1, <1>3 DEF BelowMarked, TablesSoFar, Loaded
<1>9. AllBuilt'
  BY <1>1 DEF AllBuilt, Built
<1> QED
  BY <1>1, <1>4, <1>5, <1>6, <1>7, <1>8, <1>9

\* At "pmap" the recursive entry leads to the directory, which has no table:
\* create_new_pae_pt makes one in the first free frame f, and the store page
\* goes into that table.
LEMMA TableMade ==
    ASSUME IInv, MapStoreInProcess
    PROVE  LET d == own["pd_low"]
               f == FirstFrame
           IN  /\ FreeFrames # {} /\ d \in Frames /\ f # d
               /\ pc' = "stack"
               /\ frames' = frames \union {f}
               /\ vm' = [vm EXCEPT ![child]["table"] = f]
               /\ ent' \in [Frames -> [Index -> Contents]]
               /\ ent'[d][Self] = d /\ ent'[d][0] = f
               /\ ent'[f][Low] = own["store"]
               /\ \A g \in Frames : g # d /\ g # f => ent'[g] = ent[g]
               /\ UNCHANGED <<pdpt, temp, tlb, kpage, knodes, ktables, current_vmm,
                              parent_vmm, next_free_pid, alive, halted>>
<1> USE DEF IInv
<1> DEFINE d == own["pd_low"]
           f == FirstFrame
           linked == [ent EXCEPT ![d][0] = f]
           made == [linked EXCEPT ![f] = Full(Zero)]
<1>1. pc = "pmap"
  BY DEF MapStoreInProcess
<1>2. /\ child \in Pid /\ d \in Frames /\ own["store"] \in Frames
  BY <1>1, OwnFrames DEF RolesTaken, Roles
<1>3. /\ pdpt["pd_low"] = d /\ ent[d][Self] = d /\ ent[d][0] = Zero
      /\ ent \in [Frames -> [Index -> Contents]]
  BY <1>1 DEF TablesSoFar, TypeOK
<1>4. Directory = d /\ TableMissing
  BY <1>2, <1>3, AddressSpacesAssumption DEF Directory, TableMissing, Through
<1>5. /\ FreeFrames # {} /\ pc' = "stack" /\ frames' = frames \union {f}
      /\ vm' = [vm EXCEPT ![child]["table"] =
                   Through(NewTable(ent, f), pdpt["pd_low"], 0)]
      /\ ent' = SetEntry(NewTable(ent, f), Low, vm[child]["store"])
      /\ UNCHANGED <<pdpt, temp, tlb, kpage, knodes, ktables, current_vmm,
                     parent_vmm, next_free_pid, alive, halted>>
  BY <1>2, <1>4 DEF MapStoreInProcess, set_frame
<1>6. /\ f \in Frames /\ f \notin frames /\ f # d
  BY <1>1, <1>2, <1>5, FirstFrameIsLowest, AddressSpacesAssumption
     DEF InUseIsMarked, own, Roles
<1> HIDE DEF d, f
<1>7. /\ linked \in [Frames -> [Index -> Contents]]
      /\ linked[d][Self] = d /\ linked[d][0] = f
      /\ \A g \in Frames : g # d => linked[g] = ent[g]
  BY <1>2, <1>3, <1>6, Entries DEF Contents
<1>8. NewTable(ent, f) = made
  BY <1>2, <1>3, <1>4, <1>6, <1>7 DEF NewTable, Through
<1>9. /\ made \in [Frames -> [Index -> Contents]]
      /\ made[d][Self] = d /\ made[d][0] = f
      /\ \A g \in Frames : g # d /\ g # f => made[g] = ent[g]
  <2>1. Full(Zero) \in [Index -> Contents]
    BY DEF Full, Contents
  <2> HIDE DEF linked
  <2> QED
    BY <1>2, <1>6, <1>7, <2>1
<1> HIDE DEF made
<1>10. Through(made, d, 0) = f
  BY <1>2, <1>9 DEF Through
<1>11. /\ vm' = [vm EXCEPT ![child]["table"] = f]
       /\ ent' = [made EXCEPT ![f][Low] = own["store"]]
  BY <1>3, <1>5, <1>8, <1>10 DEF SetEntry, own
<1>12. /\ ent' \in [Frames -> [Index -> Contents]]
       /\ ent'[d][Self] = d /\ ent'[d][0] = f
       /\ ent'[f][Low] = own["store"]
       /\ \A g \in Frames : g # d /\ g # f => ent'[g] = ent[g]
  BY <1>2, <1>6, <1>9, <1>11, Entries DEF Contents
<1> QED
  BY <1>2, <1>5, <1>6, <1>11, <1>12 DEF d, f

LEMMA MapStoreInProcessStep ==
    ASSUME IInv, MapStoreInProcess
    PROVE  IInv'
<1> USE DEF IInv
<1> DEFINE d == own["pd_low"]
           f == FirstFrame
           h == own["pd_high"]
<1>1. /\ FreeFrames # {} /\ d \in Frames /\ f # d
      /\ pc' = "stack"
      /\ frames' = frames \union {f}
      /\ vm' = [vm EXCEPT ![child]["table"] = f]
      /\ ent' \in [Frames -> [Index -> Contents]]
      /\ ent'[d][Self] = d /\ ent'[d][0] = f
      /\ ent'[f][Low] = own["store"]
      /\ \A g \in Frames : g # d /\ g # f => ent'[g] = ent[g]
      /\ UNCHANGED <<pdpt, temp, tlb, kpage, knodes, ktables, current_vmm,
                     parent_vmm, next_free_pid, alive, halted>>
  BY TableMade
<1>2. /\ f \in Frames /\ f \notin frames /\ f # None
      /\ \A g \in Frames : g < f => g \in frames
  BY <1>1, FirstFrameIsLowest, AddressSpacesAssumption
<1>3. pc = "pmap" /\ child' = child
  BY <1>1 DEF MapStoreInProcess, child
<1>4. /\ child \in Pid /\ h \in Frames /\ own["table"] = None
      /\ own["stack"] = None
  BY <1>3, OwnFrames DEF RolesTaken, Roles
\* If clear_frame let pd_high go, it is the lowest free frame.
<1>5. f = h \/ (Fresh(f) /\ h \in frames)
  <2>1. CASE f = h
    BY <2>1
  <2>2. CASE f # h
    <3>1. Fresh(f)
      BY <1>2, <2>2, ClearIsFresh
    <3>2. h < f \/ f < h
      BY <1>2, <1>4, <2>2 DEF Frames
    <3> QED
      BY <1>2, <1>3, <1>4, <3>1, <3>2 DEF BelowMarked
  <2> QED
    BY <2>1, <2>2
<1>6. \A p \in Pid : \A r \in Roles :
         vm[p][r] = f => p = child /\ r = "pd_high" /\ f = h
  BY <1>2, <1>4, <1>5, AddressSpacesAssumption DEF NotShared, Fresh, own, Roles
<1>7. f \notin KernelFrames
  BY <1>2 DEF InUseIsMarked
<1> HIDE DEF f, d, h
<1>8. /\ vm' \in [Pid -> [Roles -> Frames \union {None}]]
      /\ vm'[child]["table"] = f
      /\ own' = [own EXCEPT !["table"] = f]
      /\ \A p \in Pid : p # child => vm'[p] = vm[p]
      /\ \A p \in Pid : \A r \in Roles :
            p # child \/ r # "table" => vm'[p][r] = vm[p][r]
  BY <1>1, <1>2, <1>3, <1>4 DEF TypeOK, own, Roles
<1>9. TypeOK'
  BY <1>1, <1>2, <1>8 DEF TypeOK, PCs
<1>10. RolesTaken'
  <2>1. \A p \in Pid : \A r \in Roles :
          /\ p < child' => vm'[p][r] # None
          /\ p > child' => vm'[p][r] = None
    <3>1. child \notin {p \in Pid : p < child \/ p > child}
      BY <1>4 DEF Pid
    <3> QED
      BY <1>3, <1>8, <3>1 DEF RolesTaken
  <2>2. own \in [Roles -> Frames \union {None}]
    BY <1>4 DEF TypeOK, own
  <2> QED
    BY <1>1, <1>2, <1>3, <1>4, <1>8, <2>1, <2>2 DEF RolesTaken, Roles
<1>11. InUseIsMarked'
  <2>1. \A r \in Roles : own[r] \in frames' \union {None}
    BY <1>1, <1>3, <1>4, <1>5 DEF InUseIsMarked, own, h
  <2> QED
    BY <1>1, <1>3, <1>4, <1>8, <2>1 DEF InUseIsMarked, KernelFrames, own
<1>12. NotShared'
  <2>1. KernelFrames' = KernelFrames
    BY <1>1 DEF KernelFrames
  <2>2. \A p \in Pid : \A r \in Roles : vm'[p][r] \notin KernelFrames'
    BY <1>4, <1>7, <1>8, <2>1 DEF NotShared
  <2>3. ASSUME NEW p \in Pid, NEW q \in Pid, NEW r \in Roles, NEW s \in Roles,
               vm'[p][r] = vm'[q][s], vm'[p][r] # None
        PROVE  /\ p = q
               /\ \/ r = s
                  \/ r = "pd_high" /\ s = "table"
                  \/ r = "table" /\ s = "pd_high"
    <3>1. CASE p = child /\ r = "table" /\ q = child /\ s = "table"
      BY <3>1
    <3>2. CASE p = child /\ r = "table" /\ (q # child \/ s # "table")
      BY <1>6, <1>8, <2>3, <3>2
    <3>3. CASE (p # child \/ r # "table") /\ q = child /\ s = "table"
      BY <1>6, <1>8, <2>3, <3>3
    <3>4. CASE (p # child \/ r # "table") /\ (q # child \/ s # "table")
      BY <1>8, <2>3, <3>4 DEF NotShared
    <3> QED
      BY <3>1, <3>2, <3>3, <3>4
  <2> QED
    BY <2>2, <2>3 DEF NotShared
<1>13. AllBuilt'
  <2>1. ASSUME NEW p \in Pid, vm'[p]["stack"] # None
        PROVE  Built(p)'
    <3>1. p # child /\ vm'[p] = vm[p] /\ vm[p]["stack"] # None
      BY <1>4, <1>8, <2>1 DEF own, Roles
    <3>2. p < child
      BY <1>4, <3>1 DEF RolesTaken, Roles, Pid
    <3>3. \A r \in Roles : /\ vm[p][r] \in Frames
                           /\ vm[p][r] # d /\ vm[p][r] # f
      BY <1>1, <1>4, <1>6, <3>1, <3>2, AddressSpacesAssumption
         DEF RolesTaken, TypeOK, NotShared, own, d, Roles
    <3>4. \A r \in Roles : ent'[vm[p][r]] = ent[vm[p][r]]
      BY <1>1, <3>3
    <3> QED
      BY <3>1, <3>4 DEF AllBuilt, Built, Roles
  <2> QED
    BY <2>1 DEF AllBuilt
<1>14. TablesSoFar'
  <2>1. /\ own'["pd_low"] = d /\ own'["table"] = f /\ own'["store"] = own["store"]
    BY <1>4, <1>8 DEF own, d, Roles, TypeOK
  <2> QED
    BY <1>1, <1>3, <2>1 DEF TablesSoFar, d
<1>15. BelowMarked' /\ Loaded'
  BY <1>1 DEF BelowMarked, Loaded
<1> QED
  BY <1>1, <1>9, <1>10, <1>11, <1>12, <1>13, <1>14, <1>15

LEMMA AllocStackStep ==
    ASSUME IInv, AllocStack
    PROVE  IInv'
<1> USE DEF IInv
<1> DEFINE d == own["pd_low"]
           t == own["table"]
           f == FirstFrame
<1>1. pc = "stack"
  BY DEF AllocStack
<1>2. /\ child \in Pid /\ d \in Frames /\ t \in Frames /\ t # d
      /\ own["store"] \in Frames /\ own["stack"] = None
      /\ \A r \in Roles : own[r] # None <=> r # "stack"
  BY <1>1, OwnFrames, AddressSpacesAssumption DEF RolesTaken, Roles, NotShared, own
<1>3. /\ pdpt["pd_low"] = d /\ ent[d][Self] = d /\ ent[d][0] = t
      /\ ent[t][Low] = own["store"]
  BY <1>1 DEF TablesSoFar
<1>4. Walk(pdpt["pd_low"], Low) = vm[child]["store"]
  BY <1>2, <1>3 DEF Walk, own
<1>5. Through(ent, pdpt["pd_low"], 0) = t
  BY <1>2, <1>3 DEF Through
<1>6. /\ FreeFrames # {} /\ pc' = "leave" /\ frames' = frames \union {f}
      /\ vm' = [vm EXCEPT ![child]["stack"] = f]
      /\ ent' = [ent EXCEPT ![t][Low + 1] = f]
      /\ UNCHANGED <<pdpt, temp, tlb, kpage, knodes, ktables, current_vmm,
                     parent_vmm, next_free_pid, alive, halted>>
  BY <1>4, <1>5 DEF AllocStack, SetEntry, set_frame
<1>7. /\ f \in Frames /\ f \notin frames /\ f # None
  BY <1>6, FirstFrameIsLowest, AddressSpacesAssumption
<1>8. Fresh(f)
  BY <1>1, <1>7, ClearIsFresh
<1>9. child' = child
  BY <1>6 DEF child
<1> HIDE DEF f, d, t
<1>10. /\ vm' \in [Pid -> [Roles -> Frames \union {None}]]
       /\ own' = [own EXCEPT !["stack"] = f]
       /\ vm'[child]["stack"] = f
       /\ \A p \in Pid : p # child => vm'[p] = vm[p]
       /\ \A p \in Pid : \A r \in Roles :
             p # child \/ r # "stack" => vm'[p][r] = vm[p][r]
  BY <1>2, <1>6, <1>7, <1>9 DEF TypeOK, own, Roles
<1>11. /\ ent' \in [Frames -> [Index -> Contents]]
       /\ \A g \in Frames : g # t => ent'[g] = ent[g]
       /\ ent'[t][Low + 1] = f /\ ent'[t][Low] = ent[t][Low]
  BY <1>2, <1>6, <1>7, Entries DEF TypeOK, Contents
<1>12. TypeOK'
  BY <1>6, <1>7, <1>10, <1>11 DEF TypeOK, PCs
<1>13. RolesTaken'
  <2>1. \A p \in Pid : \A r \in Roles :
          /\ p < child' => vm'[p][r] # None
          /\ p > child' => vm'[p][r] = None
    <3>1. child \notin {p \in Pid : p < child \/ p > child}
      BY <1>2 DEF Pid
    <3> QED
      BY <1>9, <1>10, <3>1 DEF RolesTaken
  <2>2. own \in [Roles -> Frames \union {None}]
    BY <1>2 DEF TypeOK, own
  <2>3. \A r \in Roles : own'[r] # None
    BY <1>2, <1>7, <1>10, <2>2 DEF Roles
  <2> QED
    BY <1>2, <1>6, <1>9, <2>1, <2>3 DEF RolesTaken, Roles
<1>14. InUseIsMarked'
  BY <1>1, <1>2, <1>6, <1>9, <1>10 DEF InUseIsMarked, KernelFrames
<1>15. NotShared'
  BY <1>2, <1>6, <1>8, FreshNotShared DEF own, Roles
<1>16. AllBuilt'
  <2>1. ASSUME NEW p \in Pid, vm'[p]["stack"] # None, p # child
        PROVE  Built(p)'
    <3>1. vm'[p] = vm[p] /\ vm[p]["stack"] # None
      BY <1>10, <2>1
    <3>2. p < child
      BY <1>2, <2>1, <3>1 DEF RolesTaken, Roles, Pid
    <3>3. \A r \in Roles : vm[p][r] \in Frames /\ vm[p][r] # t
      BY <1>2, <2>1, <3>2, AddressSpacesAssumption
         DEF RolesTaken, TypeOK, NotShared, own, t, Roles
    <3>4. \A r \in Roles : ent'[vm[p][r]] = ent[vm[p][r]]
      BY <1>11, <3>3
    <3> QED
      BY <3>1, <3>4 DEF AllBuilt, Built, Roles
  <2>2. ASSUME NEW p \in Pid, p = child
        PROVE  Built(p)'
    <3>1. /\ vm'[child]["pd_low"] = d /\ vm'[child]["table"] = t
          /\ vm'[child]["store"] = own["store"]
      BY <1>2, <1>10 DEF own, d, t, Roles
    <3>2. ent'[d][0] = t /\ ent'[t][Low] = own["store"] /\ ent'[t][Low + 1] = f
      BY <1>2, <1>3, <1>11
    <3> QED
      BY <1>10, <2>2, <3>1, <3>2 DEF Built
  <2> QED
    BY <2>1, <2>2 DEF AllBuilt
<1>17. TablesSoFar'
  <2>1. /\ own'["pd_low"] = d /\ own'["table"] = t /\ own'["store"] = own["store"]
    BY <1>2, <1>10 DEF own, d, t, Roles, TypeOK
  <2> QED
    BY <1>2, <1>3, <1>6, <1>11, <2>1 DEF TablesSoFar
<1>18. BelowMarked' /\ Loaded'
  BY <1>6 DEF BelowMarked, Loaded
<1> QED
  BY <1>6, <1>12, <1>13, <1>14, <1>15, <1>16, <1>17, <1>18

\* Leave, Dispatch and Reap change no frame and no table.
LEMMA SwitchStep ==
    ASSUME IInv, pc \in {"none", "leave"}, pc' = "none", halted' = halted,
           NEW v \in Pid \union {KVmm}, set_current_vmm(v),
           alive' \subseteq Pid,
           UNCHANGED <<frames, ent, vm, temp, kpage, knodes, ktables, parent_vmm,
                       next_free_pid>>
    PROVE  IInv'
<1> USE DEF IInv
<1>1. child' = child /\ own' = own
  BY DEF child, own
<1>2. /\ pdpt' \in [{"pd_low", "pd_mid", "pd_high"} -> Frames \union {None}]
      /\ v # KVmm =>
            \A r \in {"pd_low", "pd_mid", "pd_high"} : pdpt'[r] = vm[v][r]
      /\ current_vmm' = v /\ tlb' = None
  <2>1. CASE v \in Pid
    BY <2>1, SetCurrentVmm
  <2>2. CASE v = KVmm
    BY <2>2 DEF set_current_vmm, TypeOK
  <2> QED
    BY <2>1, <2>2
<1>3. TypeOK'
  BY <1>2 DEF TypeOK, PCs
<1>4. RolesTaken'
  BY <1>1 DEF RolesTaken
<1>5. InUseIsMarked'
  BY <1>1 DEF InUseIsMarked, KernelFrames
<1>6. NotShared'
  BY DEF NotShared, KernelFrames
<1>7. BelowMarked' /\ TablesSoFar' /\ Loaded'
  BY <1>2 DEF BelowMarked, TablesSoFar, Loaded
<1>8. AllBuilt'
  BY DEF AllBuilt, Built
<1> QED
  BY <1>3, <1>4, <1>5, <1>6, <1>7, <1>8

\* A panic, the overrun of the kernel's store, and a step of something else,
\* change nothing but halted.
LEMMA StopStep ==
    ASSUME IInv, halted' \in {halted, "memory", "store"},
           UNCHANGED <<frames, ent, vm, pdpt, temp, tlb, kpage, knodes, ktables,
                       current_vmm, parent_vmm, next_free_pid, alive, pc>>
    PROVE  IInv'
<1> USE DEF IInv
<1>1. child' = child /\ own' = own
  BY DEF child, own
<1>2. TypeOK' /\ halted' # "fault"
  BY DEF TypeOK
<1>3. RolesTaken' /\ InUseIsMarked'
  BY <1>1 DEF RolesTaken, InUseIsMarked, KernelFrames
<1>4. NotShared' /\ BelowMarked' /\ TablesSoFar' /\ Loaded'
  BY <1>1 DEF NotShared, KernelFrames, BelowMarked, TablesSoFar, Loaded
<1>5. AllBuilt'
  BY DEF AllBuilt, Built
<1> QED
  BY <1>2, <1>3, <1>4, <1>5

LEMMA InitEstablishes ==
    ASSUME Init
    PROVE  IInv
<1> USE DEF Init
<1>1. child = -1 /\ \A p \in Pid : p > child
  BY DEF child, Pid
<1>2. \A p \in Pid : \A r \in Roles : vm[p][r] = None
  BY DEF NoFrames
<1>3. TypeOK
  BY AddressSpacesAssumption
     DEF TypeOK, Frames, Pid, NoFrames, Full, Contents, PCs
<1>4. RolesTaken
  BY <1>1, <1>2, AddressSpacesAssumption DEF RolesTaken, Pid
<1>5. InUseIsMarked
  BY <1>2 DEF InUseIsMarked, KernelFrames
<1>6. NotShared
  BY <1>2, AddressSpacesAssumption DEF NotShared, KernelFrames, Frames
<1>7. AllBuilt
  BY <1>2 DEF AllBuilt, Roles
<1>8. BelowMarked /\ TablesSoFar /\ Loaded
  BY DEF BelowMarked, TablesSoFar, Loaded
<1> QED
  BY <1>3, <1>4, <1>5, <1>6, <1>7, <1>8 DEF IInv

LEMMA NextPreserves ==
    ASSUME IInv, [Next]_vars
    PROVE  IInv'
<1>1. CASE Begin
  BY <1>1, BeginStep
<1>2. CASE \/ TakeFrame("pd_low", "pd_mid") \/ TakeFrame("pd_mid", "pd_high")
           \/ TakeFrame("pd_high", "store") \/ TakeFrame("store", "kmap")
  BY <1>2, TakeFrameStep DEF TakeSteps
<1>3. CASE MapStoreInKernel
  BY <1>3, MapStoreInKernelStep
<1>4. CASE PrepareDirectory("pd_low", Cleared, "temp_low", "temp_mid")
  BY <1>4, PrepareDirectoryStep DEF PrepareSteps
<1>5. CASE PrepareDirectory("pd_mid", Cleared, "temp_mid", "temp_high")
  BY <1>5, PrepareDirectoryStep DEF PrepareSteps
<1>6. CASE PrepareDirectory("pd_high", ent, "temp_high", "unmap")
  BY <1>6, PrepareDirectoryStep DEF PrepareSteps
<1>7. CASE UnmapTemp
  BY <1>7, UnmapTempStep
<1>8. CASE Enter
  BY <1>8, EnterStep
<1>9. CASE MapStoreInProcess
  BY <1>9, MapStoreInProcessStep
<1>10. CASE AllocStack
  BY <1>10, AllocStackStep
<1>11. CASE Leave
  <2>1. child \in Pid /\ parent_vmm \in Pid \union {KVmm} /\ alive \subseteq Pid
    BY <1>11 DEF IInv, RolesTaken, TypeOK, Leave, Goto
  <2> QED
    BY <1>11, <2>1, SwitchStep DEF Leave, Goto
<1>12. CASE Panic
  BY <1>12, StopStep DEF Panic, OutOfMemory
<1>13. ASSUME NEW p \in Pid, Dispatch(p)
       PROVE  IInv'
  BY <1>13, SwitchStep DEF Dispatch, IInv, TypeOK
<1>14. ASSUME NEW p \in Pid, NEW q \in Pid, Reap(p, q)
       PROVE  IInv'
  BY <1>14, SwitchStep DEF Reap, IInv, TypeOK
<1>15. CASE UNCHANGED vars
  BY <1>15, StopStep DEF vars
<1>16. CASE OverrunsStore
  BY <1>16, StopStep DEF OverrunsStore
<1> QED
  BY <1>1, <1>2, <1>3, <1>4, <1>5, <1>6, <1>7, <1>8, <1>9, <1>10, <1>11,
     <1>12, <1>13, <1>14, <1>15, <1>16 DEF Next, Create

\* Every process that has passed pae_kalloc has used up one node of the store
\* of the kernel's vmm.
Before == {"pd_low", "pd_mid", "pd_high", "store", "kmap"}

NodesUsed == IF pc \in Before THEN child ELSE child + 1

NodesCount ==
    /\ knodes + NodesUsed \in NodesLeft
    /\ halted = "store" => pc = "kmap" /\ knodes = 0

LEMMA NodesStep ==
    ASSUME IInv, NodesCount, [Next]_vars
    PROVE  NodesCount'
<1>1. child \in Int /\ knodes \in Nat
  BY DEF IInv, TypeOK, child
<1>2. ASSUME knodes' = knodes, child' = child, halted' \in {halted, "memory", "fault"},
             pc' = pc \/ halted' = "no",
             pc \in Before <=> pc' \in Before
      PROVE  NodesCount'
  BY <1>1, <1>2 DEF NodesCount, NodesUsed
<1>3. CASE Begin
  <2>1. child' = child + 1
    BY <1>3 DEF Begin, IInv, TypeOK, child
  <2>2. knodes' = knodes /\ pc = "none" /\ pc' = "pd_low" /\ halted' = "no"
    BY <1>3 DEF Begin, Goto
  <2> QED
    BY <1>1, <2>1, <2>2 DEF NodesCount, NodesUsed, Before
<1>4. CASE MapStoreInKernel
  <2>1. /\ child' = child /\ knodes' = knodes - 1 /\ pc = "kmap" /\ pc' = "temp_low"
        /\ halted' = "no"
    BY <1>4 DEF MapStoreInKernel, Goto, child
  <2> QED
    BY <1>1, <2>1 DEF NodesCount, NodesUsed, Before
<1>5. CASE OverrunsStore
  <2>1. child' = child /\ knodes' = knodes /\ pc = "kmap" /\ pc' = pc /\ knodes = 0
    BY <1>5 DEF OverrunsStore, child
  <2> QED
    BY <1>1, <2>1 DEF NodesCount, NodesUsed
<1>6. CASE \/ TakeFrame("pd_low", "pd_mid") \/ TakeFrame("pd_mid", "pd_high")
           \/ TakeFrame("pd_high", "store") \/ TakeFrame("store", "kmap")
  BY <1>2, <1>6 DEF TakeFrame, Goto, Before, child
<1>7. CASE \/ PrepareDirectory("pd_low", Cleared, "temp_low", "temp_mid")
           \/ PrepareDirectory("pd_mid", Cleared, "temp_mid", "temp_high")
           \/ PrepareDirectory("pd_high", ent, "temp_high", "unmap")
  BY <1>2, <1>7 DEF PrepareDirectory, Goto, Before, child
<1>8. CASE UnmapTemp \/ Enter \/ Leave
  BY <1>2, <1>8 DEF UnmapTemp, Enter, Leave, Goto, Before, child
<1>9. CASE MapStoreInProcess
  BY <1>2, <1>9 DEF MapStoreInProcess, Fault, Before, child
<1>10. CASE AllocStack
  BY <1>2, <1>10 DEF AllocStack, Fault, Before, child
<1>11. CASE Panic
  BY <1>2, <1>11 DEF Panic, OutOfMemory, child
<1>12. CASE \E p \in Pid : Dispatch(p)
  BY <1>2, <1>12 DEF Dispatch, child
<1>13. CASE \E p, q \in Pid : Reap(p, q)
  BY <1>2, <1>13 DEF Reap, child
<1>14. CASE UNCHANGED vars
  BY <1>2, <1>14 DEF vars, child
<1> QED
  BY <1>3, <1>4, <1>5, <1>6, <1>7, <1>8, <1>9, <1>10, <1>11, <1>12, <1>13, <1>14
     DEF Next, Create

LEMMA Inductive == Spec => [](IInv /\ NodesCount)
<1>1. ASSUME Init
      PROVE  NodesCount
  BY <1>1, AddressSpacesAssumption DEF Init, NodesCount, NodesUsed, Before, child
<1> QED
  BY <1>1, InitEstablishes, NextPreserves, NodesStep, PTL DEF Spec

-----------------------------------------------------------------------------
(* The theorems.                                                           *)

\* Frames, tables and the steps of create_process keep their types: no write
\* through the recursive entry and no CHOOSE of a frame ever goes astray.
THEOREM AddressSpacesTyped == Spec => []TypeOK
<1>1. IInv => TypeOK
  BY DEF IInv
<1> QED
  BY <1>1, Inductive, PTL

\* create_new_pdptes hands out no frame that is in use, and what pae_unmap
\* gives back too early is marked again when the page table has been made.
THEOREM UsedFramesAreMarked == Spec => []InUseIsMarked
<1>1. IInv => InUseIsMarked
  BY DEF IInv
<1> QED
  BY <1>1, Inductive, PTL

\* No frame is in two address spaces, for any number of processes.
THEOREM ProcessesShareNoFrame == Spec => []FramesNotShared
<1>1. ASSUME IInv
      PROVE  FramesNotShared
  <2>1. \A p, q \in Pid : p # q => Owned(p) \intersect Owned(q) = {}
    BY <1>1 DEF IInv, NotShared, Owned
  <2>2. \A p \in Pid : Owned(p) \intersect KernelFrames = {}
    BY <1>1 DEF IInv, NotShared, Owned
  <2>3. \A p \in Pid : \A r, s \in Roles :
           r # s /\ vm[p][r] = vm[p][s] /\ vm[p][r] # None =>
               {r, s} = {"pd_high", "table"}
    BY <1>1 DEF IInv, NotShared
  <2> QED
    BY <2>1, <2>2, <2>3 DEF FramesNotShared
<1> QED
  BY <1>1, Inductive, PTL

\* Every process reaches its own store and stack through its page tables, and
\* pae_mmap and alloc_stack never fault while a process is created.  With n
\* nodes left in the store of the kernel's vmm, the first n processes are
\* created, if the frames last.
THEOREM ProcessesHaveTheirPages == Spec => []OwnPages
<1>1. ASSUME IInv, NodesCount
      PROVE  OwnPages
  <2> USE <1>1 DEF IInv
  <2>1. ASSUME NEW p \in Pid, pc = "none", vm[p]["stack"] # None
        PROVE  /\ Walk(vm[p]["pd_low"], Low) = vm[p]["store"]
               /\ Walk(vm[p]["pd_low"], Low + 1) = vm[p]["stack"]
    <3>1. p < child \/ p = child
      BY <2>1 DEF RolesTaken, Roles, Pid, TypeOK, child
    <3>2. vm[p]["table"] \in Frames
      BY <2>1, <3>1 DEF RolesTaken, Roles, own, TypeOK
    <3> QED
      BY <2>1, <3>2 DEF AllBuilt, Built, Walk
  <2>2. DOMAIN pdpt = {"pd_low", "pd_mid", "pd_high"}
    BY DEF TypeOK
  <2>3. halted = "store" => child \in NodesLeft
    BY <1>1 DEF NodesCount, NodesUsed, Before, TypeOK, child
  <2> QED
    BY <2>1, <2>2, <2>3 DEF OwnPages, Loaded
<1> QED
  BY <1>1, Inductive, PTL
=============================================================================
