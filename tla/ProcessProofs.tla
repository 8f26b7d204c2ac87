--------------------------- MODULE ProcessProofs ---------------------------
(***************************************************************************)
(* Proofs about module Process, for every set of processes, every boot     *)
(* list, every set of user ids and every quantum.                          *)
(*                                                                         *)
(* The inductive invariant IInv adds to the invariants of Process what     *)
(* they rest on: no descriptor is in the list twice, a listed process has  *)
(* not exited, and the CPU is idle exactly when the index is -1.           *)
(*                                                                         *)
(* Under it every step of Process is a step of TimeSharing or leaves what  *)
(* TimeSharing speaks about as it is.                                      *)
(***************************************************************************)
EXTENDS Process, SequenceTheorems, WellFoundedInduction, TLAPS

-----------------------------------------------------------------------------
(* Lemmas about numbers and lists. *)

(* A non-empty set of natural numbers has a minimum, which Min chooses. *)
LEMMA MinExists ==
  ASSUME NEW T \in SUBSET Nat, T # {}
  PROVE  Min(T) \in T /\ \A y \in T : Min(T) <= y
<1> DEFINE Less == {ss \in Nat \X Nat : ss[1] < ss[2]}
<1>1. IsWellFoundedOn(Less, Nat)
  BY NatLessThanWellFounded, Zenon DEF OpToRel
<1>2. PICK x \in T : \A y \in T : ~(<<y, x>> \in Less)
  <2> HIDE DEF Less
  <2> QED
    BY <1>1, WFMin, Zenon
<1>3. \A y \in T : x <= y
  <2> SUFFICES ASSUME NEW y \in T PROVE x <= y
    OBVIOUS
  <2>1. <<y, x>> \in Nat \X Nat /\ ~(<<y, x>> \in Less)
    BY <1>2
  <2>2. ~(<<y, x>>[1] < <<y, x>>[2])
    BY <2>1
  <2>3. QED
    BY <2>2
<1>4. QED
  BY <1>3, Zenon DEF Min

(* Removing an element of a list without duplicates moves the ones behind it. *)
LEMMA RemoveFirstInjective ==
  ASSUME NEW S, NEW lst \in Seq(S), NEW k \in 1 .. Len(lst),
         \A i, j \in 1 .. Len(lst) : lst[i] = lst[j] => i = j
  PROVE  /\ RemoveFirst(lst, lst[k]) \in Seq(S)
         /\ Len(RemoveFirst(lst, lst[k])) = Len(lst) - 1
         /\ \A j \in 1 .. (Len(lst) - 1) :
              RemoveFirst(lst, lst[k])[j] = IF j < k THEN lst[j] ELSE lst[j + 1]
<1> DEFINE Hits == {i \in 1 .. Len(lst) : lst[i] = lst[k]}
<1>1. Hits = {k}
  OBVIOUS
<1>2. Min(Hits) = k
  <2>1. Hits \in SUBSET Nat /\ Hits # {}
    BY <1>1
  <2>2. Min(Hits) \in Hits
    <3> HIDE DEF Hits
    <3> QED BY <2>1, MinExists
  <2>3. QED
    BY <2>2, <1>1
<1>3. RemoveFirst(lst, lst[k]) = SubSeq(lst, 1, k - 1) \o SubSeq(lst, k + 1, Len(lst))
  BY <1>1, <1>2 DEF RemoveFirst, RemoveAt, SelectInSeq
<1>4. /\ SubSeq(lst, 1, k - 1) \in Seq(S)
      /\ Len(SubSeq(lst, 1, k - 1)) = k - 1
      /\ \A i \in 1 .. k - 1 : SubSeq(lst, 1, k - 1)[i] = lst[i]
  <2>1. \A i \in 1 .. k - 1 : lst[i] \in S
    BY ElementOfSeq
  <2>2. QED
  BY <2>1, SubSeqProperties
<1>5. /\ SubSeq(lst, k + 1, Len(lst)) \in Seq(S)
      /\ Len(SubSeq(lst, k + 1, Len(lst))) = Len(lst) - k
      /\ \A i \in 1 .. Len(lst) - k : SubSeq(lst, k + 1, Len(lst))[i] = lst[k + i]
  <2>1. \A i \in k + 1 .. Len(lst) : lst[i] \in S
    BY ElementOfSeq
  <2>2. k + 1 \in Int /\ Len(lst) \in Int
    OBVIOUS
  <2>3. QED
  BY <2>1, <2>2, SubSeqProperties
<1>6. PICK front \in Seq(S), back \in Seq(S) :
        /\ front = SubSeq(lst, 1, k - 1)
        /\ back = SubSeq(lst, k + 1, Len(lst))
        /\ Len(front) = k - 1
        /\ Len(back) = Len(lst) - k
        /\ \A i \in 1 .. k - 1 : front[i] = lst[i]
        /\ \A i \in 1 .. Len(lst) - k : back[i] = lst[k + i]
  BY <1>4, <1>5, Zenon
<1>7. /\ front \o back \in Seq(S)
      /\ Len(front \o back) = Len(lst) - 1
      /\ \A j \in 1 .. (Len(lst) - 1) :
           (front \o back)[j] = IF j < k THEN lst[j] ELSE lst[j + 1]
  <2>1. /\ front \in Seq(S)
        /\ back \in Seq(S)
        /\ Len(front) = k - 1
        /\ Len(back) = Len(lst) - k
        /\ \A i \in 1 .. k - 1 : front[i] = lst[i]
        /\ \A i \in 1 .. Len(lst) - k : back[i] = lst[k + i]
    BY <1>6
  <2>2. Len(lst) \in Nat /\ k \in 1 .. Len(lst)
    OBVIOUS
  <2>3. /\ front \o back \in Seq(S)
        /\ Len(front \o back) = Len(lst) - 1
    <3>1. front \in Seq(S) /\ back \in Seq(S)
      BY <2>1
    <3>2. /\ front \o back \in Seq(S)
          /\ Len(front \o back) = Len(front) + Len(back)
      BY <3>1, ConcatProperties
    <3>3. Len(front) + Len(back) = Len(lst) - 1
      <4>1. Len(front) = k - 1 /\ Len(back) = Len(lst) - k
        BY <2>1
      <4>2. QED
        BY <4>1, <2>2
    <3>4. QED
      BY <3>2, <3>3
  <2>4. ASSUME NEW j \in 1 .. (Len(lst) - 1), j < k
        PROVE  (front \o back)[j] = lst[j]
    BY <2>1, <2>2, <2>4
  <2>5. ASSUME NEW j \in 1 .. (Len(lst) - 1), ~(j < k)
        PROVE  (front \o back)[j] = lst[j + 1]
    <3>1. (front \o back)[j] = back[j - (k - 1)]
      BY <2>1, <2>2, <2>5
    <3>2. j - (k - 1) \in 1 .. Len(lst) - k /\ k + (j - (k - 1)) = j + 1
      BY <2>2, <2>5
    <3>3. back[j - (k - 1)] = lst[k + (j - (k - 1))]
      BY <3>2, <2>1
    <3>4. QED
      BY <3>1, <3>2, <3>3
  <2>6. QED
    BY <2>3, <2>4, <2>5
<1>8. RemoveFirst(lst, lst[k]) = front \o back
  BY <1>3, <1>6, Zenon
<1>9. QED
  BY <1>7, <1>8, Zenon
-----------------------------------------------------------------------------
(* The inductive invariant. *)

Injective == \A i, j \in 1 .. Len(process_list) :
               process_list[i] = process_list[j] => i = j

LiveStates == \A p \in Live : state[p] # "EXITED"

CpuConsistent ==
  /\ cr3 \in {cpu.owner, KERNEL_PAGE_TABLE}
  /\ cpu.at = "idle" <=> CurrentDescriptor = NULL

\* What relates the scheduler's variables to each other.
SchedulerInv ==
  /\ TypeOK
  /\ Injective
  /\ LiveStates
  /\ CpuConsistent
  /\ CurrentOwnsCPU
  /\ SavedContextsOwned

IInv == SchedulerInv /\ CallTree /\ CredentialsInherited

-----------------------------------------------------------------------------
(* Lookups. *)

(* What an index of the list and membership in it have to do with each other. *)
LEMMA ListFacts ==
  ASSUME TypeOK
  PROVE  /\ Len(process_list) \in Nat
         /\ \A p : p \in Live <=> \E i \in 1 .. Len(process_list) :
                                     process_list[i] = p
         /\ \A p \in Live : p \in Procs /\ p # NULL /\ p # KERNEL_PAGE_TABLE
         /\ \A i \in 0 .. (Len(process_list) - 1) :
              ListElement(i) = process_list[i + 1] /\ ListElement(i) \in Live
         /\ CurrentDescriptor = NULL <=> current_process = -1
         /\ CurrentDescriptor # NULL => CurrentDescriptor \in Live
<1>1. process_list \in Seq(Procs) /\ current_process \in -1 .. (Len(process_list) - 1)
  BY DEF TypeOK
<1>2. Len(process_list) \in Nat /\ DOMAIN process_list = 1 .. Len(process_list)
  BY <1>1
<1>3. \A p : p \in Live <=> \E i \in 1 .. Len(process_list) : process_list[i] = p
  BY <1>2 DEF Live, ToSet
<1>4. \A i \in 1 .. Len(process_list) : process_list[i] \in Procs
  BY <1>1
<1>5. \A p \in Live : p \in Procs /\ p # NULL /\ p # KERNEL_PAGE_TABLE
  BY <1>3, <1>4, NULLAssumption, KernelTableAssumption
<1>6. ASSUME NEW i \in 0 .. (Len(process_list) - 1)
      PROVE  ListElement(i) = process_list[i + 1] /\ ListElement(i) \in Live
  <2>1. i + 1 \in 1 .. Len(process_list)
    BY <1>2, <1>6
  <2>2. QED
    BY <1>3, <1>6, <2>1 DEF ListElement
<1>7. current_process = -1 => CurrentDescriptor = NULL
  BY <1>2 DEF CurrentDescriptor, ListElement
<1>8. current_process # -1 => CurrentDescriptor \in Live
  <2>1. current_process # -1 => current_process \in 0 .. (Len(process_list) - 1)
    BY <1>1, <1>2
  <2>2. QED
    BY <1>6, <2>1 DEF CurrentDescriptor
<1>9. QED
  BY <1>2, <1>3, <1>5, <1>6, <1>7, <1>8

(* find_process_to_run finds a process that can be switched to if there is    *)
(* one, and the current index otherwise.                                      *)
LEMMA FindFacts ==
  ASSUME TypeOK, NEW st
  PROVE  /\ Runnable(st) # {} => find_process_to_run(st) \in Runnable(st)
         /\ Runnable(st) = {} => find_process_to_run(st) = current_process
<1> DEFINE ahead == {i \in Runnable(st) : i >= NextIndex}
<1>1. Runnable(st) \in SUBSET Nat /\ ahead \in SUBSET Nat /\ ahead \subseteq Runnable(st)
  BY ListFacts DEF Runnable
<1>2. ahead # {} => Min(ahead) \in ahead
  <2> HIDE DEF ahead
  <2> QED BY <1>1, MinExists
<1>3. Runnable(st) # {} => Min(Runnable(st)) \in Runnable(st)
  BY <1>1, MinExists
<1>4. QED
  BY <1>1, <1>2, <1>3 DEF find_process_to_run

-----------------------------------------------------------------------------
(* Steps of the scheduler. *)

(* What switch_process does when the index is one it can switch to.           *)
LEMMA SwitchEffect ==
  ASSUME TypeOK, Injective,
         NEW st \in [Procs -> States], NEW qt \in [Procs -> 0 .. QUANTUM],
         NEW saved \in [Procs -> Contexts], NEW i \in Runnable(st),
         switch_process(i, st, qt, saved), process_list' = process_list
  PROVE  LET new == process_list[i + 1]
         IN  /\ new \in Live
             /\ st[new] \in {"CREATED", "WAITING"}
             /\ current_process' = i
             /\ CurrentDescriptor' = new
             /\ Live' = Live
             /\ state' = [st EXCEPT ![new] = "RUNNING"]
             /\ quantum' = [qt EXCEPT ![new] = QUANTUM]
             /\ cpu' = saved[new]
             /\ cr3' = new
             /\ regs' = saved
<1> DEFINE new == process_list[i + 1]
<1>1. /\ i \in 0 .. (Len(process_list) - 1)
      /\ st[new] \in {"CREATED", "WAITING"}
  BY DEF Runnable
<1>2. ListElement(i) = new /\ new \in Live /\ new # NULL
  BY <1>1, ListFacts
<1>3. /\ current_process' = i
      /\ state' = [st EXCEPT ![new] = "RUNNING"]
      /\ quantum' = [qt EXCEPT ![new] = QUANTUM]
      /\ cpu' = saved[new]
      /\ cr3' = new
      /\ regs' = saved
  BY <1>1, <1>2 DEF switch_process
<1>4. CurrentDescriptor' = new
  BY <1>1, <1>3 DEF CurrentDescriptor, ListElement
<1>5. Live' = Live
  BY DEF Live
<1>6. QED
  BY <1>1, <1>2, <1>3, <1>4, <1>5

(* A switch keeps the scheduler's variables consistent if the caller left no  *)
(* process RUNNING and saved every context in the descriptor of its owner.    *)
LEMMA SwitchPreserves ==
  ASSUME TypeOK, Injective,
         NEW st \in [Procs -> States], NEW qt \in [Procs -> 0 .. QUANTUM],
         NEW saved \in [Procs -> Contexts], NEW i \in Runnable(st),
         \A p \in Live : st[p] \notin {"RUNNING", "EXITED"},
         \A p \in Live : /\ saved[p].owner = p
                         /\ saved[p].at # "idle"
                         /\ st[p] = "CREATED" => saved[p].at = "user"
                         /\ st[p] = "BLOCKED" => saved[p].at = "execute",
         switch_process(i, st, qt, saved),
         UNCHANGED <<process_list, credentials>>
  PROVE  /\ SchedulerInv'
         /\ \A p \in Live : state'[p] = "BLOCKED" <=> st[p] = "BLOCKED"
<1> DEFINE new == process_list[i + 1]
<1>1. /\ new \in Live
      /\ st[new] \in {"CREATED", "WAITING"}
      /\ current_process' = i
      /\ CurrentDescriptor' = new
      /\ Live' = Live
      /\ state' = [st EXCEPT ![new] = "RUNNING"]
      /\ quantum' = [qt EXCEPT ![new] = QUANTUM]
      /\ cpu' = saved[new]
      /\ cr3' = new
      /\ regs' = saved
  BY SwitchEffect DEF credentials
<1>2. /\ process_list' = process_list
      /\ parent' = parent /\ ruid' = ruid /\ euid' = euid
  BY DEF credentials
<1>3. /\ i \in 0 .. (Len(process_list) - 1)
      /\ \A p \in Live : p \in Procs /\ p # NULL
  BY ListFacts DEF Runnable
<1> HIDE DEF new
<1>4. \A p \in Procs : state'[p] = IF p = new THEN "RUNNING" ELSE st[p]
  BY <1>1, <1>3
<1>5. TypeOK'
  <2>1. state' \in [Procs -> States]
    BY <1>1 DEF States
  <2>2. quantum' \in [Procs -> 0 .. QUANTUM]
    <3>1. QUANTUM \in 0 .. QUANTUM
      BY QuantumAssumption
    <3>2. QED
      BY <1>1, <3>1
  <2>3. regs' \in [Procs -> Contexts] /\ cpu' \in Contexts
    BY <1>1, <1>3
  <2>4. cr3' \in Procs \cup {KERNEL_PAGE_TABLE}
    BY <1>1, <1>3
  <2>5. /\ process_list' \in Seq(Procs)
        /\ current_process' \in -1 .. Len(process_list') - 1
    BY <1>1, <1>2, <1>3, ListFacts DEF TypeOK
  <2>6. QED
    BY <1>2, <2>1, <2>2, <2>3, <2>4, <2>5 DEF TypeOK
<1>6. Injective'
  BY <1>2 DEF Injective
<1>7. LiveStates'
  BY <1>1, <1>3, <1>4 DEF LiveStates
<1>8. cpu'.owner = new /\ cpu'.at # "idle"
  BY <1>1
<1>9. CpuConsistent'
  BY <1>1, <1>3, <1>8 DEF CpuConsistent
<1>10. CurrentOwnsCPU'
  BY <1>1, <1>3, <1>4, <1>8 DEF CurrentOwnsCPU
<1>11. SavedContextsOwned'
  BY <1>1, <1>3, <1>4 DEF SavedContextsOwned
<1>12. QED
  BY <1>1, <1>3, <1>4, <1>5, <1>6, <1>7, <1>9, <1>10, <1>11 DEF SchedulerInv

(* The call tree and the user ids only depend on the list, the parents, the   *)
(* user ids and on who is BLOCKED.                                            *)
LEMMA TreeStable ==
  ASSUME CallTree, CredentialsInherited,
         UNCHANGED <<process_list, credentials>>,
         \A p \in Live : state'[p] = "BLOCKED" <=> state[p] = "BLOCKED"
  PROVE  CallTree' /\ CredentialsInherited'
<1>1. /\ process_list' = process_list /\ Live' = Live
      /\ parent' = parent /\ ruid' = ruid /\ euid' = euid
  BY DEF credentials, Live
<1>2. \A p : Children(p)' = Children(p)
  BY <1>1 DEF Children
<1>3. CallTree'
  BY <1>1, <1>2 DEF CallTree
<1>4. CredentialsInherited'
  BY <1>1 DEF CredentialsInherited
<1>5. QED
  BY <1>3, <1>4

(* The kernel after init() satisfies the inductive invariant.                 *)
LEMMA InitInv == Init => IInv
<1> SUFFICES ASSUME Init PROVE IInv
  OBVIOUS
<1>1. /\ Logins \in Seq(Procs)
      /\ \A i, j \in 1 .. Len(Logins) : Logins[i] = Logins[j] => i = j
      /\ Len(Logins) \in Nat
      /\ 0 \in Uids
      /\ 0 \in 0 .. QUANTUM
  BY LoginsAssumption, UidsAssumption, QuantumAssumption DEF IsInjective
<1>2. TypeOK
  <2>1. -1 \in -1 .. (Len(Logins) - 1)
    BY <1>1
  <2>2. regs \in [Procs -> Contexts] /\ cpu \in Contexts
    BY DEF Init, UserContext, Idle, Contexts
  <2>3. QED
    BY <1>1, <2>1, <2>2 DEF Init, TypeOK, States
<1>3. CurrentDescriptor = NULL
  BY <1>2, ListFacts DEF Init
<1>4. Live = ToSet(Logins)
  BY DEF Init, Live
<1>5. \A p \in Live : /\ p \in Procs /\ p # NULL
                      /\ state[p] = "CREATED"
                      /\ regs[p] = UserContext(p)
                      /\ parent[p] = NULL /\ ruid[p] = 0 /\ euid[p] = 0
  BY <1>2, <1>4, ListFacts DEF Init
<1>6. Injective
  BY <1>1 DEF Injective, Init
<1>7. LiveStates /\ CpuConsistent /\ CurrentOwnsCPU /\ SavedContextsOwned
  BY <1>3, <1>5 DEF LiveStates, CpuConsistent, CurrentOwnsCPU,
                    SavedContextsOwned, Init, Idle, UserContext
<1>8. CallTree
  <2>1. \A p : Children(p) = {c \in Live : parent[c] = p}
    BY DEF Children
  <2>2. \A p \in Live : Children(p) = {}
    BY <1>5, <2>1
  <2>3. \A i \in 1 .. Len(process_list) : process_list[i] \in Live
    BY <1>2, ListFacts
  <2>4. QED
    BY <1>5, <2>2, <2>3 DEF CallTree
<1>9. CredentialsInherited
  BY <1>5 DEF CredentialsInherited
<1>10. QED
  BY <1>2, <1>6, <1>7, <1>8, <1>9 DEF IInv, SchedulerInv

-----------------------------------------------------------------------------
(* Each action preserves the inductive invariant. *)

(* A tick that finds nothing to schedule only changes the page table.         *)
LEMMA TickIdleInv == IInv /\ TickIdle => IInv'
<1> SUFFICES ASSUME IInv, TickIdle PROVE IInv'
  OBVIOUS
<1>1. /\ UNCHANGED <<process_list, current_process, state, quantum, parent,
                     ruid, euid, regs, cpu>>
      /\ cr3' = KERNEL_PAGE_TABLE
      /\ CurrentDescriptor' = CurrentDescriptor
      /\ Live' = Live
  BY DEF TickIdle, credentials, CurrentDescriptor, ListElement, Live
<1>2. SchedulerInv'
  BY <1>1 DEF IInv, SchedulerInv, TypeOK, Injective, LiveStates, CpuConsistent,
              CurrentOwnsCPU, SavedContextsOwned
<1>3. CallTree' /\ CredentialsInherited'
  BY <1>1, TreeStable DEF IInv, credentials
<1>4. QED
  BY <1>2, <1>3 DEF IInv

(* A tick with no current process hands the CPU to a process that can run.    *)
LEMMA TickDispatchInv == IInv /\ TickDispatch => IInv'
<1> SUFFICES ASSUME IInv, TickDispatch PROVE IInv'
  OBVIOUS
<1> DEFINE i == find_process_to_run(state)
<1>1. /\ TypeOK /\ Injective /\ LiveStates /\ CpuConsistent
      /\ CurrentOwnsCPU /\ SavedContextsOwned
      /\ CallTree /\ CredentialsInherited
  BY DEF IInv, SchedulerInv
<1>2. /\ switch_process(i, state, quantum, regs)
      /\ UNCHANGED <<process_list, credentials>>
      /\ current_process = -1 /\ CurrentDescriptor = NULL
  BY <1>1, ListFacts DEF TickDispatch
<1>3. \A p \in Live : p \in Procs /\ p # NULL
  BY <1>1, ListFacts
<1>4. /\ state \in [Procs -> States] /\ quantum \in [Procs -> 0 .. QUANTUM]
      /\ regs \in [Procs -> Contexts]
  BY <1>1 DEF TypeOK
<1>5. \A p \in Live : /\ state[p] \notin {"RUNNING", "EXITED"}
                      /\ regs[p].owner = p
                      /\ regs[p].at # "idle"
                      /\ state[p] = "CREATED" => regs[p].at = "user"
                      /\ state[p] = "BLOCKED" => regs[p].at = "execute"
  BY <1>1, <1>2, <1>3 DEF LiveStates, CurrentOwnsCPU, SavedContextsOwned
<1>6. CASE i \in Runnable(state)
  <2>1. /\ SchedulerInv'
        /\ \A p \in Live : state'[p] = "BLOCKED" <=> state[p] = "BLOCKED"
    <3> HIDE DEF i
    <3> QED BY <1>1, <1>2, <1>4, <1>5, <1>6, SwitchPreserves
  <2>2. QED
    BY <1>1, <1>2, <2>1, TreeStable DEF IInv
<1>7. CASE i \notin Runnable(state)
  <2>1. i = -1
    BY <1>1, <1>2, <1>7, FindFacts
  <2>2. /\ UNCHANGED <<process_list, current_process, state, quantum, parent,
                       ruid, euid, regs, cpu>>
        /\ cr3' = KERNEL_PAGE_TABLE
    BY <1>1, <1>2, <2>1, ListFacts DEF switch_process, CurrentDescriptor, credentials
  <2>3. CurrentDescriptor' = CurrentDescriptor /\ Live' = Live
    BY <2>2 DEF CurrentDescriptor, ListElement, Live
  <2>4. SchedulerInv'
    BY <1>1, <2>2, <2>3 DEF SchedulerInv, TypeOK, Injective, LiveStates,
                CpuConsistent, CurrentOwnsCPU, SavedContextsOwned
  <2>5. CallTree' /\ CredentialsInherited'
    BY <1>1, <2>2, TreeStable DEF credentials
  <2>6. QED
    BY <2>4, <2>5 DEF IInv
<1>8. QED
  BY <1>6, <1>7

(* A tick that takes the CPU from one process and gives it to another.        *)
LEMMA TickPreemptInv == IInv /\ TickPreempt => IInv'
<1> SUFFICES ASSUME IInv, TickPreempt PROVE IInv'
  OBVIOUS
<1> DEFINE p == CurrentDescriptor
           st == StopRunning(p)
           qt == [quantum EXCEPT ![p] = 0]
           i == find_process_to_run(st)
<1>1. /\ TypeOK /\ Injective /\ LiveStates /\ CpuConsistent
      /\ CurrentOwnsCPU /\ SavedContextsOwned
      /\ CallTree /\ CredentialsInherited
  BY DEF IInv, SchedulerInv
<1>2. /\ switch_process(i, st, qt, SaveContext(p))
      /\ UNCHANGED <<process_list, credentials>>
      /\ p # NULL
      /\ find_process_to_run(state) # current_process
  BY DEF TickPreempt, MustYield
<1>3. \A q \in Live : q \in Procs /\ q # NULL
  BY <1>1, ListFacts
<1>4. p \in Live /\ p \in Procs
  BY <1>1, <1>2, <1>3, ListFacts
<1>5. /\ state \in [Procs -> States] /\ quantum \in [Procs -> 0 .. QUANTUM]
      /\ regs \in [Procs -> Contexts] /\ cpu \in Contexts
  BY <1>1 DEF TypeOK
<1>6. /\ st \in [Procs -> States]
      /\ \A q \in Procs : st[q] = IF q = p /\ state[p] = "RUNNING"
                                  THEN "WAITING" ELSE state[q]
  BY <1>4, <1>5 DEF StopRunning, States
<1>7. qt \in [Procs -> 0 .. QUANTUM]
  <2>1. 0 \in 0 .. QUANTUM
    BY QuantumAssumption
  <2>2. QED
    BY <1>5, <2>1
<1>8. /\ SaveContext(p) \in [Procs -> Contexts]
      /\ \A q \in Procs : SaveContext(p)[q] = IF q = p THEN cpu ELSE regs[q]
  BY <1>4, <1>5 DEF SaveContext
<1>9. i \in Runnable(st)
  <2>1. Runnable(state) # {}
    BY <1>1, <1>2, FindFacts
  <2>2. Runnable(state) \subseteq Runnable(st)
    <3>1. \A k \in 0 .. (Len(process_list) - 1) : process_list[k + 1] \in Procs
      BY <1>1, ListFacts
    <3>2. QED
      BY <1>6, <3>1 DEF Runnable
  <2>3. QED
    BY <1>1, <2>1, <2>2, FindFacts
<1>10. /\ cpu.owner = p /\ cpu.at # "idle"
       /\ state[p] \in {"RUNNING", "BLOCKED"}
       /\ state[p] = "BLOCKED" => cpu.at = "execute"
  BY <1>1, <1>2 DEF CurrentOwnsCPU, CpuConsistent
<1>11. \A q \in Live : /\ st[q] \notin {"RUNNING", "EXITED"}
                       /\ SaveContext(p)[q].owner = q
                       /\ SaveContext(p)[q].at # "idle"
                       /\ st[q] = "CREATED" => SaveContext(p)[q].at = "user"
                       /\ st[q] = "BLOCKED" => SaveContext(p)[q].at = "execute"
  <2> SUFFICES ASSUME NEW q \in Live
               PROVE  /\ st[q] \notin {"RUNNING", "EXITED"}
                      /\ SaveContext(p)[q].owner = q
                      /\ SaveContext(p)[q].at # "idle"
                      /\ st[q] = "CREATED" => SaveContext(p)[q].at = "user"
                      /\ st[q] = "BLOCKED" => SaveContext(p)[q].at = "execute"
    OBVIOUS
  <2> HIDE DEF st
  <2>1. CASE q = p
    BY <1>4, <1>6, <1>8, <1>10, <2>1
  <2>2. CASE q # p
    BY <1>1, <1>3, <1>6, <1>8, <2>2
       DEF LiveStates, CurrentOwnsCPU, SavedContextsOwned
  <2>3. QED
    BY <2>1, <2>2
<1>12. /\ SchedulerInv'
       /\ \A q \in Live : state'[q] = "BLOCKED" <=> st[q] = "BLOCKED"
  <2> HIDE DEF i, st, qt, p
  <2> QED BY <1>1, <1>2, <1>6, <1>7, <1>8, <1>9, <1>11, SwitchPreserves
<1>13. \A q \in Live : state'[q] = "BLOCKED" <=> state[q] = "BLOCKED"
  <2> HIDE DEF st
  <2> QED BY <1>3, <1>6, <1>12
<1>14. QED
  BY <1>1, <1>2, <1>12, <1>13, TreeStable DEF IInv

(* The steps that change nothing but the page table, the context the CPU      *)
(* executes, the quantum and an euid: what is left to show for each.          *)
LEMMA TickContinueInv == IInv /\ TickContinue => IInv'
<1> SUFFICES ASSUME IInv, TickContinue PROVE IInv'
  OBVIOUS
<1> DEFINE p == CurrentDescriptor
<1>1. /\ TypeOK /\ CpuConsistent /\ CurrentOwnsCPU
      /\ p # NULL /\ ~MustYield(p) /\ cr3' = p /\ quantum' = UseQuantum(p)
      /\ UNCHANGED <<process_list, current_process, state, parent, ruid, euid,
                     regs, cpu>>
  BY DEF IInv, SchedulerInv, TickContinue, credentials
<1>2. CurrentDescriptor' = CurrentDescriptor /\ Live' = Live
  BY <1>1 DEF CurrentDescriptor, ListElement, Live
<1>3. p \in Procs
  BY <1>1, ListFacts
<1>4. quantum' \in [Procs -> 0 .. QUANTUM]
  <2>1. quantum \in [Procs -> 0 .. QUANTUM] /\ QUANTUM \in Nat
    BY <1>1, QuantumAssumption DEF TypeOK
  <2>2. CASE find_process_to_run(state) # current_process
    <3>1. ~(quantum[p] - 1 < 1)
      BY <1>1, <2>2 DEF MustYield
    <3>2. quantum[p] - 1 \in 0 .. QUANTUM
      <4>1. quantum[p] \in 0 .. QUANTUM
        BY <1>3, <2>1
      <4>2. QED
        BY <2>1, <3>1, <4>1
    <3>3. quantum' = [quantum EXCEPT ![p] = quantum[p] - 1]
      BY <1>1, <2>2 DEF UseQuantum
    <3>4. QED
      BY <2>1, <3>2, <3>3
  <2>3. CASE find_process_to_run(state) = current_process
    BY <1>1, <2>1, <2>3 DEF UseQuantum
  <2>4. QED
    BY <2>2, <2>3
<1>5. SchedulerInv'
  BY <1>1, <1>2, <1>3, <1>4
     DEF IInv, SchedulerInv, TypeOK, Injective, LiveStates, CpuConsistent,
         CurrentOwnsCPU, SavedContextsOwned
<1>6. CallTree' /\ CredentialsInherited'
  BY <1>1, TreeStable DEF IInv, credentials
<1>7. QED
  BY <1>5, <1>6 DEF IInv

(* A failed execute only leaves the page table of the kernel behind.          *)
LEMMA ExecuteFailsInv == IInv /\ ExecuteFails => IInv'
<1> SUFFICES ASSUME IInv, ExecuteFails PROVE IInv'
  OBVIOUS
<1>1. /\ UNCHANGED <<process_list, current_process, state, quantum, parent,
                     ruid, euid, regs, cpu>>
      /\ cr3' = KERNEL_PAGE_TABLE
      /\ CurrentDescriptor' = CurrentDescriptor
      /\ Live' = Live
  BY DEF ExecuteFails, credentials, CurrentDescriptor, ListElement, Live
<1>2. SchedulerInv'
  BY <1>1 DEF IInv, SchedulerInv, TypeOK, Injective, LiveStates, CpuConsistent,
              CurrentOwnsCPU, SavedContextsOwned
<1>3. CallTree' /\ CredentialsInherited'
  BY <1>1, TreeStable DEF IInv, credentials
<1>4. QED
  BY <1>2, <1>3 DEF IInv

(* A caller whose child has gone is back in its own code.                     *)
LEMMA ReturnFromExecuteInv ==
  ASSUME NEW p \in Procs PROVE IInv /\ ReturnFromExecute(p) => IInv'
<1> SUFFICES ASSUME IInv, ReturnFromExecute(p) PROVE IInv'
  OBVIOUS
<1>1. /\ UNCHANGED <<process_list, current_process, state, quantum, parent,
                     ruid, euid, regs, cr3>>
      /\ cpu = [owner |-> p, at |-> "execute"]
      /\ cpu' = [owner |-> p, at |-> "user"]
      /\ state[p] # "BLOCKED"
      /\ CurrentDescriptor' = CurrentDescriptor
      /\ Live' = Live
  BY DEF ReturnFromExecute, UserContext, credentials, CurrentDescriptor,
         ListElement, Live
<1>2. cpu' \in Contexts /\ cpu'.owner = cpu.owner /\ cpu.at # "idle" /\ cpu'.at # "idle"
  BY <1>1 DEF Contexts
<1>3. SchedulerInv'
  BY <1>1, <1>2 DEF IInv, SchedulerInv, TypeOK, Injective, LiveStates,
                    CpuConsistent, CurrentOwnsCPU, SavedContextsOwned
<1>4. CallTree' /\ CredentialsInherited'
  BY <1>1, TreeStable DEF IInv, credentials
<1>5. QED
  BY <1>3, <1>4 DEF IInv

(* A process that executes user code is listed, RUNNING and has no child.     *)
LEMMA UserFacts ==
  ASSUME IInv, cpu.at = "user"
  PROVE  LET p == CurrentDescriptor
         IN  /\ p \in Live /\ p \in Procs /\ p # NULL
             /\ cpu.owner = p
             /\ state[p] = "RUNNING"
             /\ \A q \in Live : parent[q] # p
<1> DEFINE p == CurrentDescriptor
<1>1. p # NULL
  BY DEF IInv, SchedulerInv, CpuConsistent
<1>2. p \in Live /\ p \in Procs
  BY <1>1, ListFacts DEF IInv, SchedulerInv
<1>3. cpu.owner = p /\ state[p] = "RUNNING"
  BY <1>1 DEF IInv, SchedulerInv, CurrentOwnsCPU
<1>4. Children(p) = {}
  BY <1>2, <1>3 DEF IInv, CallTree
<1>5. QED
  BY <1>1, <1>2, <1>3, <1>4 DEF Children

(* seteuid changes the user id of a process that has no child.                *)
LEMMA SeteuidInv ==
  ASSUME NEW u \in Uids PROVE IInv /\ seteuid(u) => IInv'
<1> SUFFICES ASSUME IInv, seteuid(u) PROVE IInv'
  OBVIOUS
<1> DEFINE p == CurrentDescriptor
<1>1. /\ UNCHANGED <<process_list, current_process, state, quantum, parent,
                     ruid, regs, cpu, cr3>>
      /\ euid' = [euid EXCEPT ![p] = u]
      /\ ruid[p] = 0
      /\ cpu.at = "user"
      /\ CurrentDescriptor' = CurrentDescriptor
      /\ Live' = Live
  BY DEF seteuid, InUserMode, CurrentDescriptor, ListElement, Live
<1>2. p \in Live /\ p \in Procs /\ \A q \in Live : parent[q] # p
  BY <1>1, UserFacts
<1>3. SchedulerInv'
  <2>1. euid' \in [Procs -> Uids]
    BY <1>1 DEF IInv, SchedulerInv, TypeOK
  <2>2. TypeOK'
    BY <1>1, <2>1 DEF IInv, SchedulerInv, TypeOK
  <2>3. QED
    BY <1>1, <2>2 DEF IInv, SchedulerInv, Injective, LiveStates,
              CpuConsistent, CurrentOwnsCPU, SavedContextsOwned
<1>4. CallTree'
  <2>1. \A q : Children(q)' = Children(q)
    BY <1>1 DEF Children
  <2>2. QED
    BY <1>1, <2>1 DEF CallTree, IInv
<1>5. CredentialsInherited'
  <2>1. euid \in [Procs -> Uids] /\ \A q \in Live : q \in Procs
    BY ListFacts DEF IInv, SchedulerInv, TypeOK
  <2>2. \A q \in Procs : euid'[q] = IF q = p THEN u ELSE euid[q]
    BY <1>1, <2>1
  <2>3. \A q \in Live : parent[q] # NULL => parent[q] \in Live
    BY DEF IInv, CallTree
  <2>4. QED
    BY <1>1, <1>2, <2>1, <2>2, <2>3 DEF CredentialsInherited, IInv
<1>6. QED
  BY <1>3, <1>4, <1>5 DEF IInv

(* execute appends the new process behind all others.                         *)
LEMMA ExecuteSucceedsInv ==
  ASSUME NEW c \in Procs PROVE IInv /\ ExecuteSucceeds(c) => IInv'
<1> SUFFICES ASSUME IInv, ExecuteSucceeds(c) PROVE IInv'
  OBVIOUS
<1> DEFINE p == CurrentDescriptor
           n == Len(process_list)
<1>1. /\ TypeOK /\ Injective /\ LiveStates /\ CpuConsistent
      /\ CurrentOwnsCPU /\ SavedContextsOwned
      /\ CallTree /\ CredentialsInherited
  BY DEF IInv, SchedulerInv
<1>2. cpu.at = "user"
  BY DEF ExecuteSucceeds, InUserMode
<1>3. /\ p \in Live /\ p \in Procs /\ p # NULL
      /\ cpu.owner = p /\ state[p] = "RUNNING"
      /\ \A q \in Live : parent[q] # p
  BY <1>2, UserFacts
<1>4. c \notin Live /\ c # p /\ c # NULL /\ \A q \in Live : parent[q] # c
  BY <1>3, NULLAssumption DEF ExecuteSucceeds, Fresh
<1>5. process_list \in Seq(Procs) /\ n \in Nat
  BY <1>1 DEF TypeOK
<1>6. /\ process_list' = Append(process_list, c)
      /\ process_list' \in Seq(Procs)
      /\ Len(process_list') = n + 1
      /\ \A j \in 1 .. n : process_list'[j] = process_list[j]
      /\ process_list'[n + 1] = c
  <2>1. process_list' = Append(process_list, c)
    BY DEF ExecuteSucceeds, create_process
  <2>2. QED
    BY <1>5, <2>1, AppendProperties
<1>7. /\ regs' = [regs EXCEPT ![c] = UserContext(c)]
      /\ state' = [[state EXCEPT ![p] = "BLOCKED"] EXCEPT ![c] = "CREATED"]
      /\ parent' = [parent EXCEPT ![c] = p]
      /\ ruid' = [ruid EXCEPT ![c] = euid[p]]
      /\ euid' = [euid EXCEPT ![c] = euid[p]]
      /\ cpu' = [cpu EXCEPT !.at = "execute"]
      /\ cr3' = KERNEL_PAGE_TABLE
      /\ UNCHANGED <<current_process, quantum>>
  BY <1>6 DEF ExecuteSucceeds, create_process, BlockCaller, CreatedProcess
<1>8. /\ state \in [Procs -> States] /\ regs \in [Procs -> Contexts]
      /\ parent \in [Procs -> Procs \cup {NULL}]
      /\ ruid \in [Procs -> Uids] /\ euid \in [Procs -> Uids]
      /\ cpu \in Contexts
  BY <1>1 DEF TypeOK
<1>9. /\ \A q \in Procs : state'[q] = IF q = c THEN "CREATED"
                                       ELSE IF q = p THEN "BLOCKED" ELSE state[q]
      /\ \A q \in Procs : regs'[q] = IF q = c THEN UserContext(c) ELSE regs[q]
      /\ \A q \in Procs : parent'[q] = IF q = c THEN p ELSE parent[q]
      /\ \A q \in Procs : ruid'[q] = IF q = c THEN euid[p] ELSE ruid[q]
      /\ \A q \in Procs : euid'[q] = IF q = c THEN euid[p] ELSE euid[q]
  BY <1>3, <1>7, <1>8
<1>10. /\ cpu'.owner = p /\ cpu'.at = "execute" /\ cpu' \in Contexts
       /\ UserContext(c) \in Contexts
       /\ UserContext(c).owner = c /\ UserContext(c).at = "user"
  BY <1>3, <1>7, <1>8 DEF Contexts, UserContext
<1>11. TypeOK'
  <2>1. current_process' \in -1 .. (Len(process_list') - 1)
    BY <1>1, <1>5, <1>6, <1>7 DEF TypeOK
  <2>2. state' \in [Procs -> States] /\ regs' \in [Procs -> Contexts]
    BY <1>7, <1>8, <1>10 DEF States
  <2>3. /\ parent' \in [Procs -> Procs \cup {NULL}]
        /\ ruid' \in [Procs -> Uids] /\ euid' \in [Procs -> Uids]
    BY <1>3, <1>7, <1>8
  <2>4. QED
    BY <1>1, <1>6, <1>7, <1>10, <2>1, <2>2, <2>3 DEF TypeOK
<1>12. /\ \A q : q \in Live <=> \E i \in 1 .. n : process_list[i] = q
       /\ \A q : q \in Live' <=> \E i \in 1 .. (n + 1) : process_list'[i] = q
  <2>1. \A q : q \in Live <=> \E i \in 1 .. n : process_list[i] = q
    BY <1>1, ListFacts
  <2>2. DOMAIN process_list' = 1 .. (n + 1)
    BY <1>5, <1>6
  <2>3. \A q : q \in Live' <=> \E i \in 1 .. (n + 1) : process_list'[i] = q
    BY <2>2 DEF Live, ToSet
  <2>4. QED
    BY <2>1, <2>3
<1>13. Live' = Live \cup {c}
  <2>1. ASSUME NEW q PROVE q \in Live' <=> q \in Live \cup {c}
    BY <1>5, <1>6, <1>12
  <2>2. QED
    BY <2>1
<1>14. CurrentDescriptor' = p
  <2>1. current_process \in 0 .. (n - 1)
    BY <1>1, <1>3, <1>5, ListFacts DEF TypeOK
  <2>2. current_process + 1 \in 1 .. n /\ current_process \in 0 .. (n + 1 - 1)
    BY <1>5, <2>1
  <2>3. QED
    BY <1>6, <1>7, <2>1, <2>2 DEF CurrentDescriptor, ListElement
<1>15. \A q \in Live : q \in Procs /\ q # NULL /\ q # c
  BY <1>1, <1>4, ListFacts
<1>16. Injective'
  <2>1. \A j \in 1 .. n : process_list[j] # c
    BY <1>12, <1>15
  <2>2. QED
    BY <1>1, <1>5, <1>6, <2>1 DEF Injective
<1>17. LiveStates'
  BY <1>1, <1>9, <1>13, <1>15 DEF LiveStates
<1>18. CpuConsistent'
  BY <1>3, <1>7, <1>10, <1>14 DEF CpuConsistent
<1>19. CurrentOwnsCPU'
  BY <1>1, <1>3, <1>9, <1>10, <1>13, <1>14, <1>15 DEF CurrentOwnsCPU
<1>20. SavedContextsOwned'
  BY <1>1, <1>9, <1>10, <1>13, <1>14, <1>15 DEF SavedContextsOwned
<1>21. \A q : Children(q)' = IF q = p THEN {c} ELSE IF q = c THEN {} ELSE Children(q)
  <2>1. \A q : Children(q) = {x \in Live : parent[x] = q}
    BY DEF Children
  <2>2. \A q : Children(q)' = {x \in Live \cup {c} : parent'[x] = q}
    BY <1>13 DEF Children
  <2>3. \A x \in Live \cup {c} : parent'[x] = IF x = c THEN p ELSE parent[x]
    BY <1>9, <1>15
  <2>4. QED
    BY <1>3, <1>4, <1>15, <2>1, <2>2, <2>3
<1>22. CallTree'
  <2>1. \A q \in Live' : /\ state'[q] = "BLOCKED" <=> Children(q)' # {}
                         /\ \A x, y \in Children(q)' : x = y
                         /\ parent'[q] # NULL => parent'[q] \in Live'
    <3>1. ASSUME NEW q \in Live', q = c
          PROVE  /\ state'[q] = "BLOCKED" <=> Children(q)' # {}
                 /\ \A x, y \in Children(q)' : x = y
                 /\ parent'[q] # NULL => parent'[q] \in Live'
      BY <1>3, <1>4, <1>9, <1>13, <1>21, <3>1
    <3>2. ASSUME NEW q \in Live', q # c
          PROVE  /\ state'[q] = "BLOCKED" <=> Children(q)' # {}
                 /\ \A x, y \in Children(q)' : x = y
                 /\ parent'[q] # NULL => parent'[q] \in Live'
      <4>1. q \in Live /\ q \in Procs
        BY <1>13, <1>15, <3>2
      <4>2. /\ state[q] = "BLOCKED" <=> Children(q) # {}
            /\ \A x, y \in Children(q) : x = y
            /\ parent[q] # NULL => parent[q] \in Live
        BY <1>1, <4>1 DEF CallTree
      <4>3. QED
        BY <1>9, <1>13, <1>21, <3>2, <4>1, <4>2
    <3>3. QED
      BY <3>1, <3>2
  <2>2. ASSUME NEW i \in 1 .. (n + 1), NEW j \in 1 .. (n + 1),
               parent'[process_list'[j]] = process_list'[i]
        PROVE  i < j
    <3>1. CASE i \in 1 .. n /\ j \in 1 .. n
      <4>1. process_list[j] \in Live /\ process_list[i] \in Live
        BY <1>12, <3>1
      <4>2. parent[process_list[j]] = process_list[i]
        BY <1>6, <1>9, <1>15, <2>2, <3>1, <4>1
      <4>3. QED
        BY <1>1, <3>1, <4>2 DEF CallTree
    <3>2. CASE i \in 1 .. n /\ j = n + 1
      BY <1>5, <3>2
    <3>3. CASE i = n + 1
      <4>1. process_list'[i] = c
        BY <1>6, <3>3
      <4>2. process_list'[j] \in Live \cup {c}
        BY <1>12, <1>13
      <4>3. parent'[process_list'[j]] # c
        BY <1>4, <1>9, <1>15, <4>2
      <4>4. QED
        BY <2>2, <4>1, <4>3
    <3>4. QED
      BY <1>5, <3>1, <3>2, <3>3
  <2>3. QED
    BY <1>6, <2>1, <2>2 DEF CallTree
<1>23. CredentialsInherited'
  <2>1. ASSUME NEW q \in Live'
        PROVE  /\ ruid'[q] # 0 => euid'[q] = ruid'[q]
               /\ parent'[q] # NULL => ruid'[q] = euid'[parent'[q]]
    <3>1. CASE q = c
      BY <1>3, <1>4, <1>9, <3>1
    <3>2. CASE q # c
      <4>1. q \in Live /\ q \in Procs
        BY <1>13, <1>15, <2>1, <3>2
      <4>2. parent[q] # NULL => parent[q] \in Live
        BY <1>1, <4>1 DEF CallTree
      <4>3. /\ ruid[q] # 0 => euid[q] = ruid[q]
            /\ parent[q] # NULL => ruid[q] = euid[parent[q]]
        BY <1>1, <4>1 DEF CredentialsInherited
      <4>4. QED
        BY <1>4, <1>9, <1>15, <3>2, <4>1, <4>2, <4>3
    <3>3. QED
      BY <3>1, <3>2
  <2>2. QED
    BY <2>1 DEF CredentialsInherited
<1>24. QED
  BY <1>11, <1>16, <1>17, <1>18, <1>19, <1>20, <1>22, <1>23
     DEF IInv, SchedulerInv

(* exit takes the current process off the list: the others keep their order.  *)
LEMMA RemoveFacts ==
  ASSUME TypeOK, Injective, CurrentDescriptor # NULL,
         process_list' = RemoveFirst(process_list, CurrentDescriptor)
  PROVE  /\ process_list' \in Seq(Procs)
         /\ Len(process_list') \in Nat
         /\ Injective'
         /\ Live' = Live \ {CurrentDescriptor}
         /\ \A i \in 1 .. Len(process_list') :
              \E a \in 1 .. Len(process_list) :
                /\ process_list'[i] = process_list[a]
                /\ a = i \/ a = i + 1
                /\ \A j \in 1 .. Len(process_list') :
                     \A b \in 1 .. Len(process_list) :
                       process_list'[j] = process_list[b] /\ a < b => i < j
<1> DEFINE k == current_process + 1
           n == Len(process_list)
<1>1. process_list \in Seq(Procs) /\ n \in Nat
  BY DEF TypeOK
<1>2. current_process \in 0 .. (n - 1)
  BY <1>1, ListFacts DEF TypeOK
<1>3. k \in 1 .. n /\ CurrentDescriptor = process_list[k]
  BY <1>1, <1>2 DEF CurrentDescriptor, ListElement
<1>4. \A i, j \in 1 .. n : process_list[i] = process_list[j] => i = j
  BY DEF Injective
<1>5. /\ process_list' \in Seq(Procs)
      /\ Len(process_list') = n - 1
      /\ \A j \in 1 .. (n - 1) :
           process_list'[j] = IF j < k THEN process_list[j] ELSE process_list[j + 1]
  <2>1. process_list' = RemoveFirst(process_list, process_list[k])
    BY <1>3
  <2> DEFINE r == RemoveFirst(process_list, process_list[k])
  <2> HIDE DEF k
  <2>2. /\ r \in Seq(Procs)
        /\ Len(r) = n - 1
        /\ \A j \in 1 .. (n - 1) :
             r[j] = IF j < k THEN process_list[j] ELSE process_list[j + 1]
    BY <1>1, <1>3, <1>4, RemoveFirstInjective, Zenon
  <2>3. QED
    BY <2>1, <2>2, Zenon
<1> HIDE DEF k
<1>6. Injective'
  BY <1>1, <1>3, <1>4, <1>5 DEF Injective
<1>7. DOMAIN process_list' = 1 .. (n - 1)
  BY <1>1, <1>5
<1>8. \A q : q \in Live' <=> \E i \in 1 .. (n - 1) : process_list'[i] = q
  BY <1>7 DEF Live, ToSet
<1>9. \A q : q \in Live <=> \E i \in 1 .. n : process_list[i] = q
  BY ListFacts
<1>10. Live' = Live \ {CurrentDescriptor}
  <2>1. ASSUME NEW q \in Live' PROVE q \in Live /\ q # process_list[k]
    <3>1. PICK i \in 1 .. (n - 1) : process_list'[i] = q
      BY <1>8, <2>1
    <3>2. CASE i < k
      <4>1. i \in 1 .. n /\ i # k /\ process_list[i] = q
        BY <1>1, <1>3, <1>5, <3>1, <3>2
      <4>2. QED
        BY <1>3, <1>4, <1>9, <4>1
    <3>3. CASE ~(i < k)
      <4>1. i + 1 \in 1 .. n /\ i + 1 # k /\ process_list[i + 1] = q
        BY <1>1, <1>3, <1>5, <3>1, <3>3
      <4>2. QED
        BY <1>3, <1>4, <1>9, <4>1
    <3>4. QED
      BY <3>2, <3>3
  <2>2. ASSUME NEW q \in Live, q # process_list[k] PROVE q \in Live'
    <3>1. PICK i \in 1 .. n : process_list[i] = q
      BY <1>9, <2>2
    <3>2. CASE i < k
      <4>1. i \in 1 .. (n - 1) /\ process_list'[i] = q
        BY <1>1, <1>3, <1>5, <3>1, <3>2
      <4>2. QED
        BY <1>8, <4>1
    <3>3. CASE ~(i < k)
      <4>1. i # k
        BY <2>2, <3>1
      <4>2. i - 1 \in 1 .. (n - 1) /\ ~(i - 1 < k) /\ (i - 1) + 1 = i
        BY <1>1, <1>3, <3>1, <3>3, <4>1
      <4>3. process_list'[i - 1] = q
        BY <1>5, <3>1, <4>2
      <4>4. QED
        BY <1>8, <4>2, <4>3
    <3>4. QED
      BY <1>1, <1>3, <3>1, <3>2, <3>3
  <2>3. QED
    BY <1>3, <2>1, <2>2
<1>11. ASSUME NEW i \in 1 .. (n - 1)
       PROVE  \E a \in 1 .. n :
                /\ process_list'[i] = process_list[a]
                /\ a = i \/ a = i + 1
                /\ \A j \in 1 .. (n - 1) : \A b \in 1 .. n :
                     process_list'[j] = process_list[b] /\ a < b => i < j
  <2> DEFINE at(j) == IF j < k THEN j ELSE j + 1
  <2>1. \A j \in 1 .. (n - 1) : /\ at(j) \in 1 .. n
                               /\ process_list'[j] = process_list[at(j)]
    BY <1>1, <1>3, <1>5
  <2>2. ASSUME NEW j \in 1 .. (n - 1), NEW b \in 1 .. n,
               process_list'[j] = process_list[b], at(i) < b
        PROVE  i < j
    <3>1. b = at(j)
      BY <1>4, <2>1, <2>2
    <3>2. QED
      BY <1>1, <1>3, <1>11, <2>2, <3>1
  <2>3. at(i) = i \/ at(i) = i + 1
    OBVIOUS
  <2> HIDE DEF at
  <2>4. WITNESS at(i) \in 1 .. n
  <2>5. QED
    BY <1>11, <2>1, <2>2, <2>3
<1>12. QED
  BY <1>1, <1>5, <1>6, <1>10, <1>11

(* exit removes the current process, a leaf of the call tree, and unblocks    *)
(* its parent.                                                                *)
LEMMA ExitInv ==
  ASSUME IInv, cpu.at = "user", exit_process PROVE IInv'
<1> DEFINE p == CurrentDescriptor
           up == parent[p]
<1>1. /\ TypeOK /\ Injective /\ LiveStates /\ CpuConsistent
      /\ CurrentOwnsCPU /\ SavedContextsOwned
      /\ CallTree /\ CredentialsInherited
  BY DEF IInv, SchedulerInv
<1>2. /\ p \in Live /\ p \in Procs /\ p # NULL
      /\ cpu.owner = p /\ state[p] = "RUNNING"
      /\ \A q \in Live : parent[q] # p
  BY UserFacts
<1>3. /\ process_list' = RemoveFirst(process_list, p)
      /\ state' = [WakeParent(p) EXCEPT ![p] = "EXITED"]
      /\ current_process' = -1
      /\ cpu' = [owner |-> NULL, at |-> "idle"]
      /\ cr3' = KERNEL_PAGE_TABLE
      /\ UNCHANGED <<quantum, parent, ruid, euid, regs>>
  BY DEF exit_process, credentials, Idle
<1>4. /\ process_list' \in Seq(Procs)
      /\ Len(process_list') \in Nat
      /\ Injective'
      /\ Live' = Live \ {p}
      /\ \A i \in 1 .. Len(process_list') :
           \E a \in 1 .. Len(process_list) :
             /\ process_list'[i] = process_list[a]
             /\ a = i \/ a = i + 1
             /\ \A j \in 1 .. Len(process_list') :
                  \A b \in 1 .. Len(process_list) :
                    process_list'[j] = process_list[b] /\ a < b => i < j
  BY <1>1, <1>2, <1>3, RemoveFacts
<1>5. state \in [Procs -> States] /\ parent \in [Procs -> Procs \cup {NULL}]
  BY <1>1 DEF TypeOK
<1>6. up # NULL => /\ up \in Live /\ up \in Procs /\ up # p
                   /\ state[up] = "BLOCKED"
                   /\ Children(up) = {p}
  <2> SUFFICES ASSUME up # NULL
               PROVE  /\ up \in Live /\ up \in Procs /\ up # p
                      /\ state[up] = "BLOCKED"
                      /\ Children(up) = {p}
    OBVIOUS
  <2>1. up \in Live /\ up \in Procs
    BY <1>1, <1>2, ListFacts DEF CallTree
  <2>2. p \in Children(up)
    BY <1>2 DEF Children
  <2>3. state[up] = "BLOCKED" /\ \A x, y \in Children(up) : x = y
    BY <1>1, <2>1, <2>2 DEF CallTree
  <2>4. QED
    BY <1>2, <2>1, <2>2, <2>3
<1>7. /\ state' \in [Procs -> States]
      /\ \A q \in Procs : state'[q] = IF q = p THEN "EXITED"
                                      ELSE IF up # NULL /\ q = up THEN "WAITING"
                                      ELSE state[q]
  <2>1. CASE up # NULL
    <3>1. state' = [[state EXCEPT ![up] = "WAITING"] EXCEPT ![p] = "EXITED"]
      BY <1>3, <1>6, <2>1 DEF WakeParent
    <3>2. QED
      BY <1>2, <1>5, <1>6, <2>1, <3>1 DEF States
  <2>2. CASE up = NULL
    <3>1. state' = [state EXCEPT ![p] = "EXITED"]
      BY <1>3, <2>2 DEF WakeParent
    <3>2. QED
      BY <1>2, <1>5, <2>2, <3>1 DEF States
  <2>3. QED
    BY <2>1, <2>2
<1>8. TypeOK'
  <2>1. -1 \in -1 .. (Len(process_list') - 1)
    BY <1>4
  <2>2. cpu' \in Contexts
    BY <1>3 DEF Contexts
  <2>3. QED
    BY <1>1, <1>3, <1>4, <1>7, <2>1, <2>2 DEF TypeOK
<1>9. CurrentDescriptor' = NULL
  <2>1. ~(-1 \in 0 .. (Len(process_list') - 1))
    BY <1>4
  <2>2. QED
    BY <1>3, <2>1 DEF CurrentDescriptor, ListElement
<1>10. \A q \in Live : q \in Procs /\ q # NULL
  BY <1>1, ListFacts
<1>11. LiveStates'
  BY <1>1, <1>4, <1>7, <1>10 DEF LiveStates
<1>12. CpuConsistent'
  BY <1>3, <1>9 DEF CpuConsistent
<1>13. CurrentOwnsCPU'
  BY <1>1, <1>3, <1>4, <1>7, <1>9, <1>10 DEF CurrentOwnsCPU
<1>14. SavedContextsOwned'
  BY <1>1, <1>3, <1>4, <1>7, <1>9, <1>10 DEF SavedContextsOwned
<1>15. \A q : Children(q)' = Children(q) \ {p}
  BY <1>3, <1>4 DEF Children
<1>16. CallTree'
  <2>1. ASSUME NEW q \in Live'
        PROVE  /\ state'[q] = "BLOCKED" <=> Children(q)' # {}
               /\ \A x, y \in Children(q)' : x = y
               /\ parent'[q] # NULL => parent'[q] \in Live'
    <3>1. q \in Live /\ q \in Procs /\ q # p /\ q # NULL
      BY <1>4, <1>10, <2>1
    <3>2. /\ state[q] = "BLOCKED" <=> Children(q) # {}
          /\ \A x, y \in Children(q) : x = y
          /\ parent[q] # NULL => parent[q] \in Live
      BY <1>1, <3>1 DEF CallTree
    <3>3. parent[q] # p
      BY <1>2, <3>1
    <3>4. CASE q = up
      BY <1>3, <1>4, <1>6, <1>7, <1>15, <3>1, <3>2, <3>3, <3>4
    <3>5. CASE q # up
      <4>1. p \notin Children(q)
        BY <3>5 DEF Children
      <4>2. QED
        BY <1>3, <1>4, <1>7, <1>15, <3>1, <3>2, <3>3, <3>5, <4>1
    <3>6. QED
      BY <3>4, <3>5
  <2>2. ASSUME NEW i \in 1 .. Len(process_list'), NEW j \in 1 .. Len(process_list'),
               parent'[process_list'[j]] = process_list'[i]
        PROVE  i < j
    <3>1. PICK a \in 1 .. Len(process_list) :
            /\ process_list'[i] = process_list[a]
            /\ \A x \in 1 .. Len(process_list') :
                 \A b \in 1 .. Len(process_list) :
                   process_list'[x] = process_list[b] /\ a < b => i < x
      BY <1>4, <2>2
    <3>2. PICK b \in 1 .. Len(process_list) : process_list'[j] = process_list[b]
      BY <1>4, <2>2
    <3>3. a < b
      BY <1>1, <1>3, <2>2, <3>1, <3>2 DEF CallTree
    <3>4. QED
      BY <2>2, <3>1, <3>2, <3>3
  <2>3. QED
    BY <2>1, <2>2 DEF CallTree
<1>17. CredentialsInherited'
  BY <1>1, <1>3, <1>4 DEF CredentialsInherited
<1>18. QED
  BY <1>8, <1>4, <1>11, <1>12, <1>13, <1>14, <1>16, <1>17 DEF IInv, SchedulerInv

-----------------------------------------------------------------------------
(* The invariants hold of every reachable state. *)

(* Every step preserves the inductive invariant.                              *)
LEMMA NextInv == IInv /\ [Next]_vars => IInv'
<1> SUFFICES ASSUME IInv, [Next]_vars PROVE IInv'
  OBVIOUS
<1>1. CASE TickIdle
  BY <1>1, TickIdleInv
<1>2. CASE TickDispatch
  BY <1>2, TickDispatchInv
<1>3. CASE TickPreempt
  BY <1>3, TickPreemptInv
<1>4. CASE TickContinue
  BY <1>4, TickContinueInv
<1>5. ASSUME NEW c \in Procs, ExecuteSucceeds(c) PROVE IInv'
  BY <1>5, ExecuteSucceedsInv
<1>6. CASE ExecuteFails
  BY <1>6, ExecuteFailsInv
<1>7. ASSUME NEW p \in Procs, ReturnFromExecute(p) PROVE IInv'
  BY <1>7, ReturnFromExecuteInv
<1>8. CASE Exit
  BY <1>8, ExitInv DEF Exit, InUserMode
<1>9. CASE FaultInKernelMap
  BY <1>9, ExitInv DEF FaultInKernelMap
<1>10. ASSUME NEW u \in Uids, seteuid(u) PROVE IInv'
  BY <1>10, SeteuidInv
<1>11. CASE UNCHANGED vars
  BY <1>11 DEF vars, IInv, SchedulerInv, TypeOK, Injective, LiveStates,
       CpuConsistent, CurrentOwnsCPU, SavedContextsOwned, CallTree,
       CredentialsInherited, Live, CurrentDescriptor, ListElement, Children
<1>12. QED
  BY <1>1, <1>2, <1>3, <1>4, <1>5, <1>6, <1>7, <1>8, <1>9, <1>10, <1>11
     DEF Next, pit_interrupt_handler

(* The inductive invariant holds in every reachable state of process.c.       *)
THEOREM Invariance == Spec => []IInv
BY InitInv, NextInv, PTL DEF Spec

(* The variables of the process component keep their types.                   *)
THEOREM TypeCorrect == Spec => []TypeOK
<1>1. IInv => TypeOK
  BY DEF IInv, SchedulerInv
<1>2. QED
  BY <1>1, Invariance, PTL

(* The index, although the list shrinks under it, always names the process    *)
(* whose context the CPU executes, and saved contexts stay with their owners. *)
THEOREM IndexNamesOwner == Spec => []ContextsOwned
<1>1. IInv => ContextsOwned
  BY DEF IInv, SchedulerInv, ContextsOwned
<1>2. QED
  BY <1>1, Invariance, PTL

(* No process runs in the address space of another or of an exited one.       *)
THEOREM AddressSpacesSeparate == Spec => []AddressSpaces
<1>1. IInv => AddressSpaces
  <2> SUFFICES ASSUME IInv PROVE AddressSpaces
    OBVIOUS
  <2>1. CurrentDescriptor # NULL => CurrentDescriptor \in Live
    BY ListFacts DEF IInv, SchedulerInv
  <2>2. cr3 # NULL \/ cr3 = KERNEL_PAGE_TABLE
    BY NULLAssumption DEF IInv, SchedulerInv, TypeOK
  <2>3. QED
    BY <2>1, <2>2 DEF IInv, SchedulerInv, CpuConsistent, CurrentOwnsCPU, AddressSpaces
<1>2. QED
  BY <1>1, Invariance, PTL

(* execute keeps a call tree, and user ids only flow down it.                 *)
THEOREM CallTreeKept == Spec => [](CallTree /\ CredentialsInherited)
<1>1. IInv => CallTree /\ CredentialsInherited
  BY DEF IInv
<1>2. QED
  BY <1>1, Invariance, PTL

(* A process has, as long as it lives, the user id its parent has set, and    *)
(* runs with it unless it is root's: no execute, seteuid or exit in between   *)
(* changes that.                                                              *)
THEOREM UserIdsFlowDown == Spec => []CredentialsInherited
<1>1. IInv => CredentialsInherited
  BY DEF IInv
<1>2. QED
  BY <1>1, Invariance, PTL

(* The machine does not stop because all processes wait for each other: the   *)
(* last process of the list has no child, so it is not BLOCKED.               *)
THEOREM NoDeadlock == Spec => []SomeoneCanRun
<1>1. IInv => SomeoneCanRun
  <2> SUFFICES ASSUME IInv, process_list # <<>>
               PROVE  \E p \in Live : state[p] \in {"CREATED", "WAITING", "RUNNING"}
    BY DEF SomeoneCanRun
  <2> DEFINE n == Len(process_list)
             p == process_list[n]
  <2>1. /\ n \in Nat /\ n # 0
        /\ \A q : q \in Live <=> \E i \in 1 .. n : process_list[i] = q
        /\ state \in [Procs -> States]
        /\ \A q \in Live : q \in Procs
    BY ListFacts DEF IInv, SchedulerInv, TypeOK
  <2>2. p \in Live
    BY <2>1
  <2>3. Children(p) = {}
    <3>1. ASSUME NEW c \in Live, parent[c] = p PROVE FALSE
      <4>1. PICK j \in 1 .. n : process_list[j] = c
        BY <2>1, <3>1
      <4>2. n \in 1 .. n
        BY <2>1
      <4>3. n < j
        BY <3>1, <4>1, <4>2 DEF IInv, CallTree
      <4>4. QED
        BY <2>1, <4>1, <4>3
    <3>2. QED
      BY <3>1 DEF Children
  <2>4. state[p] # "BLOCKED" /\ state[p] # "EXITED"
    BY <2>2, <2>3 DEF IInv, SchedulerInv, CallTree, LiveStates
  <2>5. QED
    BY <2>1, <2>2, <2>4 DEF States
<1>2. QED
  BY <1>1, Invariance, PTL

-----------------------------------------------------------------------------
(* Process implements TimeSharing: each step is one of TimeSharing's or       *)
(* leaves its variables as they are.  Only safety is proved here.             *)

\* The values of TimeSharing's variables, as Process defines them.
Caller == [p \in Procs |-> IF p \in Live THEN parent[p] ELSE NULL]

Running == IF current_process # -1 /\ state[CurrentDescriptor] = "RUNNING"
             THEN CurrentDescriptor ELSE NULL

\* A caller is only unblocked when its child has gone.
CallStep ==
  \A p \in Live : state[p] = "BLOCKED" /\ state'[p] # "BLOCKED" => Children(p)' = {}

Step == (TS!Next \/ UNCHANGED TS!vars) /\ CallStep

(* A step that keeps the list, the parents, the states and the index.         *)
LEMMA Stutters ==
  ASSUME UNCHANGED <<process_list, current_process, parent, state>>
  PROVE  Step
<1>1. Live' = Live /\ CurrentDescriptor' = CurrentDescriptor
  BY DEF Live, CurrentDescriptor, ListElement
<1>2. UNCHANGED TS!vars
  BY <1>1 DEF TS!vars
<1>3. CallStep
  BY DEF CallStep
<1>4. QED
  BY <1>2, <1>3 DEF Step

(* Who is running and has no child.                                           *)
LEMMA RunningFacts ==
  ASSUME IInv
  PROVE  /\ Running = NULL \/ Running = CurrentDescriptor
         /\ \A p \in Live : state[p] # "BLOCKED" => Children(p) = {}
         /\ \A p \in Live : p \in Procs /\ p # NULL
<1>1. \A p \in Live : p \in Procs /\ p # NULL
  BY ListFacts DEF IInv, SchedulerInv
<1>2. QED
  BY <1>1 DEF IInv, CallTree, Running

(* A switch to another process is Run.                                        *)
LEMMA RunStep ==
  ASSUME IInv, NEW p \in Live, Children(p) = {}, Running # p, Running' = p,
         Live' = Live, parent' = parent
  PROVE  TS!Next
<1>1. p \in Procs
  BY RunningFacts
<1>2. ~TS!Calling(p)
  <2>1. ASSUME NEW c \in Live PROVE Caller[c] # p
    <3>1. c \in Procs /\ parent[c] # p
      BY <2>1, RunningFacts DEF Children
    <3>2. QED
      BY <3>1 DEF Caller
  <2>2. QED
    BY <2>1 DEF TS!Calling, Caller
<1>3. Caller' = Caller
  BY DEF Caller
<1>4. TS!Run(p)
  BY <1>2, <1>3 DEF TS!Run, Caller, Running
<1>5. QED
  BY <1>1, <1>4 DEF TS!Next

(* A tick that finds no current process.                                      *)
LEMMA DispatchStep ==
  ASSUME IInv, TickDispatch PROVE Step
<1> DEFINE i == find_process_to_run(state)
           new == process_list[i + 1]
<1>1. /\ TypeOK /\ Injective
      /\ current_process = -1 /\ CurrentDescriptor = NULL
      /\ switch_process(i, state, quantum, regs)
      /\ process_list' = process_list /\ parent' = parent
  BY ListFacts DEF TickDispatch, IInv, SchedulerInv, credentials
<1>2. CASE i \in Runnable(state)
  <2>1. /\ state \in [Procs -> States] /\ quantum \in [Procs -> 0 .. QUANTUM]
        /\ regs \in [Procs -> Contexts]
    BY <1>1 DEF TypeOK
  <2> HIDE DEF i
  <2>2. /\ new \in Live /\ state[new] \in {"CREATED", "WAITING"}
        /\ current_process' = i /\ CurrentDescriptor' = new /\ Live' = Live
        /\ state' = [state EXCEPT ![new] = "RUNNING"]
    BY <1>1, <1>2, <2>1, SwitchEffect
  <2>3. new \in Procs /\ new # NULL /\ Children(new) = {}
    BY <2>2, RunningFacts
  <2>4. i # -1
    BY <1>2, <1>1, ListFacts DEF Runnable
  <2>5. Running' = new /\ Running # new
    BY <1>1, <2>1, <2>2, <2>3, <2>4 DEF Running
  <2>6. TS!Next
    BY <1>1, <2>2, <2>3, <2>5, RunStep
  <2>7. CallStep
    BY <2>1, <2>2, RunningFacts DEF CallStep
  <2>8. QED
    BY <2>6, <2>7 DEF Step
<1>3. CASE i \notin Runnable(state)
  <2>1. i = -1
    BY <1>1, <1>3, FindFacts
  <2>2. UNCHANGED <<process_list, current_process, parent, state>>
    BY <1>1, <2>1, ListFacts DEF switch_process, CurrentDescriptor
  <2>3. QED
    BY <2>2, Stutters
<1>4. QED
  BY <1>2, <1>3

(* A tick that takes the CPU from the current process.  It may get it back:   *)
(* then nothing has happened.                                                 *)
LEMMA PreemptStep ==
  ASSUME IInv, TickPreempt PROVE Step
<1> DEFINE p == CurrentDescriptor
           st == StopRunning(p)
           qt == [quantum EXCEPT ![p] = 0]
           i == find_process_to_run(st)
           new == process_list[i + 1]
<1>1. /\ TypeOK /\ Injective /\ CurrentOwnsCPU
      /\ current_process # -1 /\ p # NULL
      /\ find_process_to_run(state) # current_process
      /\ switch_process(i, st, qt, SaveContext(p))
      /\ process_list' = process_list /\ parent' = parent
  BY DEF TickPreempt, MustYield, IInv, SchedulerInv, credentials
<1>2. p \in Live /\ p \in Procs
  BY <1>1, ListFacts
<1>3. /\ state \in [Procs -> States] /\ quantum \in [Procs -> 0 .. QUANTUM]
      /\ regs \in [Procs -> Contexts] /\ cpu \in Contexts
  BY <1>1 DEF TypeOK
<1>4. /\ st \in [Procs -> States]
      /\ \A q \in Procs : st[q] = IF q = p /\ state[p] = "RUNNING"
                                  THEN "WAITING" ELSE state[q]
  BY <1>2, <1>3 DEF StopRunning, States
<1>5. qt \in [Procs -> 0 .. QUANTUM]
  <2>1. 0 \in 0 .. QUANTUM
    BY QuantumAssumption
  <2>2. QED
    BY <1>3, <2>1
<1>6. SaveContext(p) \in [Procs -> Contexts]
  BY <1>2, <1>3 DEF SaveContext
<1>7. i \in Runnable(st)
  <2>1. Runnable(state) # {}
    BY <1>1, FindFacts
  <2>2. \A k \in 0 .. (Len(process_list) - 1) : process_list[k + 1] \in Procs
    BY <1>1, ListFacts
  <2>3. Runnable(state) \subseteq Runnable(st)
    BY <1>4, <2>2 DEF Runnable
  <2>4. QED
    BY <1>1, <2>1, <2>3, FindFacts
<1>8. /\ new \in Live /\ st[new] \in {"CREATED", "WAITING"}
      /\ current_process' = i /\ CurrentDescriptor' = new /\ Live' = Live
      /\ state' = [st EXCEPT ![new] = "RUNNING"]
  <2> HIDE DEF i, st, qt, p
  <2>1. QED
    BY <1>1, <1>4, <1>5, <1>6, <1>7, SwitchEffect
<1>9. i # -1
  BY <1>1, <1>7, ListFacts DEF Runnable
<1>10. new \in Procs /\ new # NULL
  BY <1>8, RunningFacts
<1>11. new = p => state[p] = "RUNNING"
  <2>1. state[p] \in {"RUNNING", "BLOCKED"}
    BY <1>1 DEF CurrentOwnsCPU
  <2>2. QED
    BY <1>2, <1>4, <1>8, <2>1
<1>12. state[new] # "BLOCKED" /\ Children(new) = {}
  <2>1. state[new] # "BLOCKED"
    BY <1>4, <1>8, <1>10
  <2>2. QED
    BY <1>8, <2>1, RunningFacts
<1> HIDE DEF i, st, qt, new
<1>13. state'[new] = "RUNNING" /\ \A q \in Procs : q # new => state'[q] = st[q]
  BY <1>4, <1>8, <1>10
<1>14. Running' = new
  BY <1>8, <1>9, <1>13 DEF Running
<1>15. CallStep
  <2>1. ASSUME NEW q \in Live, state[q] = "BLOCKED" PROVE state'[q] = "BLOCKED"
    <3>1. q \in Procs /\ q # new
      BY <1>12, <2>1, RunningFacts
    <3>2. st[q] = "BLOCKED"
      BY <1>4, <2>1, <3>1
    <3>3. QED
      BY <1>13, <3>1, <3>2
  <2>2. QED
    BY <2>1 DEF CallStep
<1>16. CASE new = p
  <2>1. Running = p
    BY <1>1, <1>11, <1>16 DEF Running
  <2>2. UNCHANGED TS!vars
    BY <1>1, <1>8, <1>14, <1>16, <2>1 DEF TS!vars, Running
  <2>3. QED
    BY <1>15, <2>2 DEF Step
<1>17. CASE new # p
  <2>1. Running # new
    BY <1>10, <1>17 DEF Running
  <2>2. TS!Next
    BY <1>1, <1>8, <1>12, <1>14, <2>1, RunStep
  <2>3. QED
    BY <1>15, <2>2 DEF Step
<1>18. QED
  BY <1>16, <1>17

(* execute is Call: the caller stays current, but it is not RUNNING.          *)
LEMMA ExecuteStep ==
  ASSUME IInv, NEW c \in Procs, ExecuteSucceeds(c) PROVE Step
<1> DEFINE p == CurrentDescriptor
<1>1. /\ p \in Live /\ p \in Procs /\ p # NULL /\ state[p] = "RUNNING"
      /\ \A q \in Live : parent[q] # p
  BY UserFacts DEF ExecuteSucceeds, InUserMode
<1>2. c \notin Live /\ c # p
  BY <1>1 DEF ExecuteSucceeds, Fresh
<1>3. process_list \in Seq(Procs) /\ Len(process_list) \in Nat
      /\ current_process \in 0 .. (Len(process_list) - 1)
      /\ state \in [Procs -> States] /\ parent \in [Procs -> Procs \cup {NULL}]
  <2>1. TypeOK
    BY DEF IInv, SchedulerInv
  <2>2. current_process # -1
    BY <1>1, <2>1, ListFacts
  <2>3. QED
    BY <2>1, <2>2, ListFacts DEF TypeOK
<1>4. process_list' = Append(process_list, c)
  BY DEF ExecuteSucceeds, create_process
<1>5. /\ Len(process_list') = Len(process_list) + 1
      /\ \A j \in 1 .. Len(process_list) : process_list'[j] = process_list[j]
      /\ process_list'[Len(process_list) + 1] = c
      /\ DOMAIN process_list' = 1 .. (Len(process_list) + 1)
  <2>1. process_list' \in Seq(Procs)
    BY <1>3, <1>4, AppendProperties
  <2>2. QED
    BY <1>3, <1>4, <2>1, AppendProperties
<1>6. Live' = Live \cup {c}
  <2>1. DOMAIN process_list = 1 .. Len(process_list)
    BY <1>3
  <2>2. ASSUME NEW q PROVE q \in Live' <=> q \in Live \cup {c}
    BY <1>3, <1>5, <2>1 DEF Live, ToSet
  <2>3. QED
    BY <2>2
<1>7. /\ state' = [[state EXCEPT ![p] = "BLOCKED"] EXCEPT ![c] = "CREATED"]
      /\ parent' = [parent EXCEPT ![c] = p]
      /\ current_process' = current_process
  BY <1>4, <1>5 DEF ExecuteSucceeds, create_process, BlockCaller, CreatedProcess
<1>8. CurrentDescriptor' = p
  <2>1. current_process + 1 \in 1 .. Len(process_list)
        /\ current_process \in 0 .. (Len(process_list') - 1)
    BY <1>3, <1>5
  <2>2. p = process_list[current_process + 1]
    BY <1>3 DEF CurrentDescriptor, ListElement
  <2>3. CurrentDescriptor' = process_list'[current_process + 1]
    BY <1>7, <2>1 DEF CurrentDescriptor, ListElement
  <2>4. QED
    BY <1>5, <2>1, <2>2, <2>3
<1> HIDE DEF p
<1>9. \A q \in Procs : /\ state'[q] = IF q = c THEN "CREATED"
                                      ELSE IF q = p THEN "BLOCKED" ELSE state[q]
                       /\ parent'[q] = IF q = c THEN p ELSE parent[q]
  BY <1>1, <1>3, <1>7
<1>10. Running = p
  <2>1. current_process # -1
    BY <1>3
  <2>2. QED
    BY <1>1, <2>1 DEF Running, p
<1>11. Running' = NULL
  BY <1>1, <1>2, <1>8, <1>9 DEF Running
<1>12. Caller' = [Caller EXCEPT ![c] = p]
  <2>1. \A q \in Procs : (IF q \in Live' THEN parent'[q] ELSE NULL)
                           = IF q = c THEN p ELSE IF q \in Live THEN parent[q] ELSE NULL
    BY <1>6, <1>9
  <2>2. QED
    BY <2>1 DEF Caller
<1>13. TS!Call(c)
  BY <1>1, <1>2, <1>6, <1>10, <1>11, <1>12 DEF TS!Call, Caller, Running
<1>14. CallStep
  <2>1. ASSUME NEW q \in Live, state[q] = "BLOCKED" PROVE state'[q] = "BLOCKED"
    <3>1. q \in Procs /\ q # c
      BY <1>2, <2>1, RunningFacts
    <3>2. QED
      BY <1>9, <2>1, <3>1
  <2>2. QED
    BY <2>1 DEF CallStep
<1>15. QED
  BY <1>13, <1>14 DEF TS!Next, Step

(* exit is Return: its parent, which had this child only, is unblocked.       *)
LEMMA ExitStep ==
  ASSUME IInv, cpu.at = "user", exit_process PROVE Step
<1> DEFINE p == CurrentDescriptor
           up == parent[p]
<1>1. /\ p \in Live /\ p \in Procs /\ p # NULL /\ state[p] = "RUNNING"
      /\ \A q \in Live : parent[q] # p
  BY UserFacts
<1>2. /\ process_list' = RemoveFirst(process_list, p)
      /\ state' = [WakeParent(p) EXCEPT ![p] = "EXITED"]
      /\ current_process' = -1
      /\ parent' = parent
  BY DEF exit_process, credentials
<1>3. TypeOK /\ Injective
  BY DEF IInv, SchedulerInv
<1>4. Live' = Live \ {p}
  BY <1>1, <1>2, <1>3, RemoveFacts
<1>5. state \in [Procs -> States] /\ parent \in [Procs -> Procs \cup {NULL}]
  BY <1>3 DEF TypeOK
<1> HIDE DEF p
<1>6. Running = p
  <2>1. current_process # -1
    BY <1>1, <1>3, ListFacts DEF p
  <2>2. QED
    BY <1>1, <2>1 DEF Running, p
<1>7. Running' = NULL
  BY <1>2 DEF Running
<1>8. Caller' = [Caller EXCEPT ![p] = NULL]
  <2>1. \A q \in Procs : (IF q \in Live' THEN parent'[q] ELSE NULL)
                           = IF q = p THEN NULL ELSE IF q \in Live THEN parent[q] ELSE NULL
    BY <1>2, <1>4
  <2>2. QED
    BY <2>1 DEF Caller
<1>9. TS!Return
  BY <1>1, <1>4, <1>6, <1>7, <1>8 DEF TS!Return, Caller, Running
<1>10. CallStep
  <2> SUFFICES ASSUME NEW q \in Live, state[q] = "BLOCKED", state'[q] # "BLOCKED"
               PROVE  Children(q)' = {}
    BY DEF CallStep
  <2>1. q \in Procs /\ q # p
    BY <1>1, RunningFacts
  <2>2. q = up /\ up # NULL
    BY <1>2, <1>5, <2>1 DEF WakeParent
  <2>3. p \in Children(q) /\ \A x, y \in Children(q) : x = y
    BY <1>1, <2>2 DEF IInv, CallTree, Children
  <2>4. Children(q)' = Children(q) \ {p}
    BY <1>2, <1>4 DEF Children
  <2>5. QED
    BY <2>3, <2>4
<1>11. QED
  BY <1>9, <1>10 DEF TS!Next, Step

-----------------------------------------------------------------------------

LEMMA NextStep == IInv /\ [Next]_vars => Step
<1> SUFFICES ASSUME IInv, [Next]_vars PROVE Step
  OBVIOUS
<1>1. CASE TickIdle
  BY <1>1, Stutters DEF TickIdle, credentials
<1>2. CASE TickDispatch
  BY <1>2, DispatchStep
<1>3. CASE TickPreempt
  BY <1>3, PreemptStep
<1>4. CASE TickContinue
  BY <1>4, Stutters DEF TickContinue, credentials
<1>5. ASSUME NEW c \in Procs, ExecuteSucceeds(c) PROVE Step
  BY <1>5, ExecuteStep
<1>6. CASE ExecuteFails
  BY <1>6, Stutters DEF ExecuteFails, credentials
<1>7. ASSUME NEW p \in Procs, ReturnFromExecute(p) PROVE Step
  BY <1>7, Stutters DEF ReturnFromExecute, credentials
<1>8. CASE Exit
  BY <1>8, ExitStep DEF Exit, InUserMode
<1>9. CASE FaultInKernelMap
  BY <1>9, ExitStep DEF FaultInKernelMap
<1>10. ASSUME NEW u \in Uids, seteuid(u) PROVE Step
  BY <1>10, Stutters DEF seteuid
<1>11. CASE UNCHANGED vars
  BY <1>11, Stutters DEF vars
<1>12. QED
  BY <1>1, <1>2, <1>3, <1>4, <1>5, <1>6, <1>7, <1>8, <1>9, <1>10, <1>11
     DEF Next, pit_interrupt_handler

LEMMA InitMaps == Init => TS!Init
<1> SUFFICES ASSUME Init PROVE TS!Init
  OBVIOUS
<1>1. Live = ToSet(Logins) /\ Running = NULL
  BY DEF Init, Live, Running
<1>2. Caller = [p \in Procs |-> NULL]
  BY DEF Init, Caller
<1>3. QED
  BY <1>1, <1>2 DEF TS!Init, Caller, Running

(* process.c shares the CPU among the processes that wait for nobody, and     *)
(* execute is a call: each step is one of TimeSharing's, or none.             *)
THEOREM SharesTime == Spec => TS!Spec
<1>1. Step => [TS!Next]_TS!vars
  BY DEF Step
<1>2. QED
  BY <1>1, InitMaps, NextStep, Invariance, PTL DEF Spec, TS!Spec

(* A process comes out of execute only when the process it executed has gone. *)
THEOREM ExecuteCalls == Spec => ExecuteIsACall
<1>1. Step => [CallStep]_vars
  BY DEF Step
<1>2. [][CallStep]_vars => ExecuteIsACall
  BY DEF ExecuteIsACall, CallStep
<1>3. QED
  BY <1>1, <1>2, NextStep, Invariance, PTL DEF Spec

=============================================================================
