------------------------------ MODULE Process ------------------------------
(***************************************************************************)
(* Processes and their scheduling: kernel/process.c.                       *)
(*                                                                         *)
(* The kernel keeps its processes in a list of descriptors and names the   *)
(* one that has the CPU by its index in that list (current_process, the    *)
(* PID).  The list shrinks when a process exits, so every index is only    *)
(* good until the next exit.  Three actors change this state: the timer    *)
(* interrupt (the scheduler), the process that has the CPU, through its    *)
(* system calls, and the page-fault handler, which may kill it.            *)
(*                                                                         *)
(* Atomicity.  The timer interrupt runs with the interrupt controller      *)
(* waiting for an end of interrupt, and execute and exit run between       *)
(* cli() and sti_forced(), so each is one step.  Between them a process    *)
(* can be interrupted anywhere: an execution context is what the CPU runs  *)
(* or what the scheduler saved, [owner, at], where at tells user code from *)
(* the loop at the end of execute_from_process and from the idle loops.    *)
(***************************************************************************)
EXTENDS Integers, SequencesExt

CONSTANTS
  Procs,              \* process descriptors
  Logins,             \* the login processes init() starts, in order
  Uids,               \* user ids; 0 is root
  QUANTUM,            \* ticks a process is given (5 in the code)
  KERNEL_PAGE_TABLE,  \* the page table of the kernel
  NULL                \* the null pointer

ASSUME NULLAssumption == NULL \notin Procs
ASSUME KernelTableAssumption == KERNEL_PAGE_TABLE \notin Procs
ASSUME LoginsAssumption == Logins \in Seq(Procs) /\ IsInjective(Logins)
ASSUME UidsAssumption == 0 \in Uids /\ Uids \subseteq Nat
ASSUME QuantumAssumption == QUANTUM \in Nat \ {0}

VARIABLES
  process_list,     \* the descriptors of the processes that have not exited
  current_process,  \* index in process_list, -1 when no process has the CPU
  state,            \* descriptor fields
  quantum,
  parent,
  ruid,
  euid,
  regs,             \* the context saved in the descriptor
  cpu,              \* the context that executes
  cr3               \* the page table in use; a process names its own

vars == <<process_list, current_process, state, quantum, parent, ruid, euid,
          regs, cpu, cr3>>

credentials == <<parent, ruid, euid>>

-----------------------------------------------------------------------------
(* Types and lookups. *)

States == {"CREATED", "WAITING", "RUNNING", "BLOCKED", "EXITED"}

Contexts == [owner : Procs \cup {NULL}, at : {"user", "execute", "idle"}]

UserContext(p) == [owner |-> p, at |-> "user"]

\* The loop of hlt instructions the CPU is left in when nobody owns it.
Idle == [owner |-> NULL, at |-> "idle"]

TypeOK ==
  /\ process_list \in Seq(Procs)
  /\ current_process \in -1 .. (Len(process_list) - 1)
  /\ state \in [Procs -> States]
  /\ quantum \in [Procs -> 0 .. QUANTUM]
  /\ parent \in [Procs -> Procs \cup {NULL}]
  /\ ruid \in [Procs -> Uids]
  /\ euid \in [Procs -> Uids]
  /\ regs \in [Procs -> Contexts]
  /\ cpu \in Contexts
  /\ cr3 \in Procs \cup {KERNEL_PAGE_TABLE}

Live == ToSet(process_list)

\* get_list_element: its index is unsigned, so -1 is out of range.
ListElement(index) ==
  IF index \in 0 .. (Len(process_list) - 1)
    THEN process_list[index + 1]
    ELSE NULL

CurrentDescriptor == ListElement(current_process)

\* A descriptor is malloced and never freed.  The model gives the name of an
\* exited descriptor to a new one when no pointer to it is left.
Fresh == {p \in Procs : /\ p \notin Live
                        /\ \A q \in Live : parent[q] # p}

-----------------------------------------------------------------------------
(* The scheduler. *)

\* The descriptor at an index can be switched to, its state being as in st.
Runnable(st) == {i \in 0 .. (Len(process_list) - 1) :
                   st[process_list[i + 1]] \in {"CREATED", "WAITING"}}

\* Mutant: the search always starts at the head of the list.
NextIndex_AlwaysFirst == 0

\* The index the round robin starts from.
NextIndex == IF current_process + 1 >= Len(process_list)
               THEN 0 ELSE current_process + 1

find_process_to_run(st) ==
  LET ahead == {i \in Runnable(st) : i >= NextIndex}
  IN  IF ahead # {} THEN Min(ahead)
      ELSE IF Runnable(st) # {} THEN Min(Runnable(st))
      ELSE current_process

\* Mutant: the index is only updated for a process that runs for the first time.
switch_process_StaleIndex(index, st, qt, saved) ==
  LET new == ListElement(index)
      switches == new # NULL /\ st[new] \in {"CREATED", "WAITING"}
  IN  /\ current_process' = IF switches /\ st[new] = "CREATED"
                              THEN index ELSE current_process
      /\ state' = IF switches THEN [st EXCEPT ![new] = "RUNNING"] ELSE st
      /\ quantum' = IF switches THEN [qt EXCEPT ![new] = QUANTUM] ELSE qt
      /\ cpu' = IF switches THEN saved[new] ELSE cpu
      /\ cr3' = IF switches THEN new ELSE KERNEL_PAGE_TABLE
      /\ regs' = saved

\* switch_process, from what its caller left in the descriptors.
switch_process(index, st, qt, saved) ==
  LET new == ListElement(index)
      switches == new # NULL /\ st[new] \in {"CREATED", "WAITING"}
  IN  /\ current_process' = IF switches THEN index ELSE current_process
      /\ state' = IF switches THEN [st EXCEPT ![new] = "RUNNING"] ELSE st
      /\ quantum' = IF switches THEN [qt EXCEPT ![new] = QUANTUM] ELSE qt
      /\ cpu' = IF switches THEN saved[new] ELSE cpu
      /\ cr3' = IF switches THEN new ELSE KERNEL_PAGE_TABLE
      /\ regs' = saved

\* Another process could run, and the current one has used up its time or
\* waits for the process it executed.
MustYield(p) ==
  /\ find_process_to_run(state) # current_process
  /\ quantum[p] - 1 < 1 \/ state[p] = "BLOCKED"

\* The quantum is only used up while another process could run.
UseQuantum(p) == IF find_process_to_run(state) # current_process
                   THEN [quantum EXCEPT ![p] = @ - 1] ELSE quantum

SaveContext(p) == [regs EXCEPT ![p] = cpu]

\* Mutant: a BLOCKED process is made WAITING like a RUNNING one.
StopRunning_Always(p) == [state EXCEPT ![p] = "WAITING"]

StopRunning(p) == IF state[p] = "RUNNING"
                    THEN [state EXCEPT ![p] = "WAITING"] ELSE state

\* The handler when there is nothing to schedule: it returns with the page
\* table of the kernel.
TickIdle ==
  /\ (process_list # <<>>) =>
        (current_process # -1 /\ CurrentDescriptor = NULL)
  /\ cr3' = KERNEL_PAGE_TABLE
  /\ UNCHANGED <<process_list, current_process, state, quantum, credentials,
                 regs, cpu>>

\* The handler when no process has the CPU: what it interrupted is dropped.
TickDispatch ==
  /\ process_list # <<>>
  /\ current_process = -1
  /\ switch_process(find_process_to_run(state), state, quantum, regs)
  /\ UNCHANGED <<process_list, credentials>>

\* The handler when the current process must yield.
TickPreempt ==
  LET p == CurrentDescriptor
      st == StopRunning(p)
  IN  /\ current_process # -1
      /\ p # NULL
      /\ MustYield(p)
      /\ switch_process(find_process_to_run(st), st,
                        [quantum EXCEPT ![p] = 0], SaveContext(p))
      /\ UNCHANGED <<process_list, credentials>>

\* The handler when the current process goes on.
TickContinue ==
  LET p == CurrentDescriptor
  IN  /\ current_process # -1
      /\ p # NULL
      /\ ~MustYield(p)
      /\ quantum' = UseQuantum(p)
      /\ cr3' = p
      /\ UNCHANGED <<process_list, current_process, state, credentials,
                     regs, cpu>>

pit_interrupt_handler == TickIdle \/ TickDispatch \/ TickPreempt \/ TickContinue

-----------------------------------------------------------------------------
(* System calls and faults of the process that has the CPU. *)

\* A process that can execute its code: with the page table of the kernel its
\* next instruction faults.
InUserMode == cpu.at = "user" /\ cr3 # KERNEL_PAGE_TABLE

\* create_process, as far as the descriptor and the list are concerned.
create_process(p, st) ==
  /\ process_list' = Append(process_list, p)
  /\ regs' = [regs EXCEPT ![p] = UserContext(p)]
  /\ state' = [st EXCEPT ![p] = "CREATED"]

BlockCaller(p) == [state EXCEPT ![p] = "BLOCKED"]

\* Mutant: off by one, the process before the one just created.
CreatedProcess_OffByOne(lst) == lst[Len(lst) - 1]

CreatedProcess(lst) == lst[Len(lst)]

\* execute_from_process: the caller is blocked until the process it created,
\* which is the last one of the list, exits.
ExecuteSucceeds(c) ==
  LET p == CurrentDescriptor
      created == CreatedProcess(process_list')
  IN  /\ InUserMode
      /\ p # NULL
      /\ c \in Fresh
      /\ create_process(c, BlockCaller(p))
      /\ parent' = [parent EXCEPT ![created] = p]
      /\ ruid' = [ruid EXCEPT ![created] = euid[p]]
      /\ euid' = [euid EXCEPT ![created] = euid[p]]
      /\ cpu' = [cpu EXCEPT !.at = "execute"]
      /\ cr3' = KERNEL_PAGE_TABLE
      /\ UNCHANGED <<current_process, quantum>>

\* execute_from_process when the file cannot be opened: it returns to its
\* caller and leaves the page table of the kernel in use.
ExecuteFails ==
  /\ InUserMode
  /\ CurrentDescriptor # NULL
  /\ cr3' = KERNEL_PAGE_TABLE
  /\ UNCHANGED <<process_list, current_process, state, quantum, credentials,
                 regs, cpu>>

\* Mutant: the loop waits for the state the child leaves its caller in.
ReturnFromExecute_UntilWaiting(p) ==
  /\ cpu = [owner |-> p, at |-> "execute"]
  /\ state[p] = "WAITING"
  /\ cpu' = UserContext(p)
  /\ UNCHANGED <<process_list, current_process, state, quantum, credentials,
                 regs, cr3>>

\* The loop at the end of execute_from_process sees its caller unblocked.
ReturnFromExecute(p) ==
  /\ cpu = [owner |-> p, at |-> "execute"]
  /\ state[p] # "BLOCKED"
  /\ cpu' = UserContext(p)
  /\ UNCHANGED <<process_list, current_process, state, quantum, credentials,
                 regs, cr3>>

\* Mutant: the parent stays blocked.
WakeParent_Forgotten(p) == state

WakeParent(p) == IF parent[p] # NULL /\ state[parent[p]] = "BLOCKED"
                   THEN [state EXCEPT ![parent[p]] = "WAITING"] ELSE state

\* Mutant: current_process keeps the index of the process that has gone.
exit_process_StaleIndex ==
  LET p == CurrentDescriptor
  IN  /\ p # NULL
      /\ process_list' = RemoveFirst(process_list, p)
      /\ state' = [WakeParent(p) EXCEPT ![p] = "EXITED"]
      /\ cpu' = Idle
      /\ cr3' = KERNEL_PAGE_TABLE
      /\ UNCHANGED <<current_process, quantum, credentials, regs>>

\* Mutant: the freed page table stays in use.
exit_process_KeepsMap ==
  LET p == CurrentDescriptor
  IN  /\ p # NULL
      /\ process_list' = RemoveFirst(process_list, p)
      /\ state' = [WakeParent(p) EXCEPT ![p] = "EXITED"]
      /\ current_process' = -1
      /\ cpu' = Idle
      /\ UNCHANGED <<quantum, credentials, regs, cr3>>

\* exit_process: the parent is resumed and the descriptor leaves the list.
exit_process ==
  LET p == CurrentDescriptor
  IN  /\ p # NULL
      /\ process_list' = RemoveFirst(process_list, p)
      /\ state' = [WakeParent(p) EXCEPT ![p] = "EXITED"]
      /\ current_process' = -1
      /\ cpu' = Idle
      /\ cr3' = KERNEL_PAGE_TABLE
      /\ UNCHANGED <<quantum, credentials, regs>>

\* The exit system call, or a page the process itself may not touch.
Exit == InUserMode /\ exit_process

\* A process that returns from a failed execute before a tick has restored
\* its page table faults on its next instruction; handle_page_fault takes it
\* for a permission violation and kills it.
FaultInKernelMap ==
  /\ cpu.at = "user"
  /\ cr3 = KERNEL_PAGE_TABLE
  /\ exit_process

\* Mutant: no check of the real user id.
seteuid_Unchecked(new_euid) ==
  LET p == CurrentDescriptor
  IN  /\ InUserMode
      /\ p # NULL
      /\ euid' = [euid EXCEPT ![p] = new_euid]
      /\ UNCHANGED <<process_list, current_process, state, quantum, parent,
                     ruid, regs, cpu, cr3>>

seteuid(new_euid) ==
  LET p == CurrentDescriptor
  IN  /\ InUserMode
      /\ p # NULL
      /\ ruid[p] = 0
      /\ euid' = [euid EXCEPT ![p] = new_euid]
      /\ UNCHANGED <<process_list, current_process, state, quantum, parent,
                     ruid, regs, cpu, cr3>>

-----------------------------------------------------------------------------
(* The kernel after init(): the login processes are created and the CPU      *)
(* idles until the first tick.                                               *)

Init ==
  /\ process_list = Logins
  /\ current_process = -1
  /\ state = [p \in Procs |->
                IF p \in ToSet(Logins) THEN "CREATED" ELSE "EXITED"]
  /\ quantum = [p \in Procs |-> 0]
  /\ parent = [p \in Procs |-> NULL]
  /\ ruid = [p \in Procs |-> 0]
  /\ euid = [p \in Procs |-> 0]
  /\ regs = [p \in Procs |-> UserContext(p)]
  /\ cpu = Idle
  /\ cr3 = KERNEL_PAGE_TABLE

Next ==
  \/ pit_interrupt_handler
  \/ \E c \in Procs : ExecuteSucceeds(c)
  \/ ExecuteFails
  \/ \E p \in Procs : ReturnFromExecute(p)
  \/ Exit
  \/ FaultInKernelMap
  \/ \E u \in Uids : seteuid(u)

\* The timer never stops.  A process is given QUANTUM ticks of time each time
\* it gets the CPU, long enough to run a loop test, so a return that is
\* possible again and again is taken.
Fairness ==
  /\ WF_vars(pit_interrupt_handler)
  /\ \A p \in Procs : SF_vars(ReturnFromExecute(p))

Spec == Init /\ [][Next]_vars

FairSpec == Spec /\ Fairness

-----------------------------------------------------------------------------
(* Safety. *)

\* The index names the owner of what the CPU executes (process.c reads the
\* caller of every system call off it), and nobody else is RUNNING.
CurrentOwnsCPU ==
  /\ cpu.owner = CurrentDescriptor
  /\ \A p \in Live : state[p] = "RUNNING" => p = CurrentDescriptor
  /\ CurrentDescriptor # NULL =>
       /\ state[CurrentDescriptor] \in {"RUNNING", "BLOCKED"}
       /\ state[CurrentDescriptor] = "BLOCKED" => cpu.at = "execute"

\* A context is saved in the descriptor of its owner, and a process that
\* waits for its child is saved inside execute_from_process.
SavedContextsOwned ==
  \A p \in Live \ {CurrentDescriptor} :
    /\ regs[p].owner = p
    /\ regs[p].at # "idle"
    /\ state[p] = "CREATED" => regs[p].at = "user"
    /\ state[p] = "BLOCKED" => regs[p].at = "execute"

\* Of whatever a process interrupts and in whatever order processes come and go,
\* nobody goes on in another one's code.
ContextsOwned == CurrentOwnsCPU /\ SavedContextsOwned

\* The CPU never runs a process in the address space of another one, nor in
\* one that exit has freed.
AddressSpaces ==
  /\ cr3 \in Live \cup {KERNEL_PAGE_TABLE}
  /\ cpu.at = "user" => cr3 \in {cpu.owner, KERNEL_PAGE_TABLE}

Children(p) == {c \in Live : parent[c] = p}

\* execute_from_process behaves as a call: exactly the processes with a child
\* are BLOCKED, each has one child, and the child is further down the list.
CallTree ==
  /\ \A p \in Live :
       /\ state[p] = "BLOCKED" <=> Children(p) # {}
       /\ \A c, d \in Children(p) : c = d
       /\ parent[p] # NULL => parent[p] \in Live
  /\ \A i, j \in 1 .. Len(process_list) :
       parent[process_list[j]] = process_list[i] => i < j

\* Processes that wait for each other cannot stop the machine: as long as
\* there are processes, one of them is running or can be run.
SomeoneCanRun ==
  process_list # <<>> =>
    \E p \in Live : state[p] \in {"CREATED", "WAITING", "RUNNING"}

\* A process started with the user id its parent had set keeps it, with all
\* its descendants: only a process of root can have an euid other than its
\* ruid, and the parent cannot change its euid while the child lives.
CredentialsInherited ==
  \A p \in Live :
    /\ ruid[p] # 0 => euid[p] = ruid[p]
    /\ parent[p] # NULL => ruid[p] = euid[parent[p]]

\* A process comes out of execute only when the process it executed has gone:
\* no step unblocks a caller and leaves it a child.
ExecuteIsACall ==
  [][\A p \in Live : state[p] = "BLOCKED" /\ state'[p] # "BLOCKED"
                        => Children(p)' = {}]_vars

-----------------------------------------------------------------------------
(* Refinement. *)

\* The CPU belongs to the current process, except while that one waits for
\* the process it has just executed and no tick has taken the CPU away yet.
TS == INSTANCE TimeSharing WITH
        Roots <- ToSet(Logins),
        live <- Live,
        caller <- [p \in Procs |-> IF p \in Live THEN parent[p] ELSE NULL],
        running <- IF current_process # -1 /\ state[CurrentDescriptor] = "RUNNING"
                     THEN CurrentDescriptor ELSE NULL

\* process.c implements time sharing with execute as a call, with its fairness:
\* who waits for nobody gets the CPU, although every exit starts the search at
\* the head of the list again.
ImplementsFairTimeSharing == TS!FairSpec

-----------------------------------------------------------------------------
(* Liveness. *)

\* A caller whose child has exited gets back to its own code.
ExecuteReturns ==
  \A p \in Procs :
    (state[p] = "WAITING" /\ regs[p].at = "execute") ~> (cpu = UserContext(p))

-----------------------------------------------------------------------------
(* What the code says of itself and does not do. *)

\* "if there is a permissions violation, exit the process" (process.c:558):
\* a process in whose address space nothing was violated is not killed.
OnlyViolatorsAreKilled ==
  [][\A p \in Live : cpu = UserContext(p) /\ cr3 = KERNEL_PAGE_TABLE
                        => state'[p] # "EXITED"]_vars

=============================================================================
