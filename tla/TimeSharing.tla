---------------------------- MODULE TimeSharing ----------------------------
(***************************************************************************)
(* What the process component promises its users, without lists, indices,  *)
(* ticks, page tables or saved contexts: processes share one CPU, and      *)
(* executing a program is a call.  A process that executed another one     *)
(* does not run until that one has exited.                                 *)
(***************************************************************************)
CONSTANTS
  Procs,   \* processes
  Roots,   \* the processes there are at the start
  NULL

VARIABLES
  live,     \* the processes that have not exited
  caller,   \* who executed a live process, NULL for the first ones
  running   \* who has the CPU, NULL when nobody has

vars == <<live, caller, running>>

TypeOK ==
  /\ live \subseteq Procs
  /\ caller \in [Procs -> Procs \cup {NULL}]
  /\ running \in live \cup {NULL}

\* p waits for a process it has executed.
Calling(p) == \E c \in live : caller[c] = p

Init ==
  /\ live = Roots
  /\ caller = [p \in Procs |-> NULL]
  /\ running = NULL

\* The CPU is given to a process that waits for nobody.
Run(p) ==
  /\ p \in live
  /\ ~Calling(p)
  /\ running # p
  /\ running' = p
  /\ UNCHANGED <<live, caller>>

\* The running process executes c and waits.
Call(c) ==
  /\ running # NULL
  /\ c \in Procs \ live
  /\ live' = live \cup {c}
  /\ caller' = [caller EXCEPT ![c] = running]
  /\ running' = NULL

\* The running process exits.
Return ==
  /\ running # NULL
  /\ live' = live \ {running}
  /\ caller' = [caller EXCEPT ![running] = NULL]
  /\ running' = NULL

Next == Return \/ (\E p \in Procs : Run(p) \/ Call(p))

Spec == Init /\ [][Next]_vars

\* Whoever waits for nobody gets the CPU.
FairSpec == Spec /\ \A p \in Procs : WF_vars(Run(p))

=============================================================================
