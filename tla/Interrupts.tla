----------------------------- MODULE Interrupts -----------------------------
(***************************************************************************)
(* Interrupt masking: cli, sti and sti_forced of kernel/kernel.c, the two  *)
(* interrupts of the system (timer and keyboard) and the end-of-interrupt  *)
(* protocol of kernel/interrupts.c.                                        *)
(*                                                                         *)
(* The kernel's critical sections lie between cli() and sti(), which       *)
(* nest through a counter; some functions return in between.  System calls *)
(* enter through a trap gate, with interrupts enabled, and IRET gives back *)
(* the flag of the code that is returned to.  The handler of the keyboard  *)
(* is entered through an interrupt gate, but what it calls to print ends   *)
(* with sti(), so it can be interrupted itself: by the timer, whose        *)
(* priority is higher, not by the keyboard before its end of interrupt.    *)
(*                                                                         *)
(* The timer's handler is one step: its end of interrupt is its last act,  *)
(* and what could interrupt it after that finds a full quantum.  Of the    *)
(* scheduler only the choice of some runnable process is kept, and of the  *)
(* processes only the calls that matter here.                              *)
(***************************************************************************)
EXTENDS Integers

CONSTANTS
  Procs,      \* processes
  Logins,     \* those init() creates
  NULL,       \* no process: the index -1
  PRINTS,     \* does the keyboard's handler print?
  LEAKS,      \* do functions return between cli and sti?
  MAX_DEPTH,  \* bound: nesting of critical sections
  MAX_MUTEX   \* bound: the counter

ASSUME LoginsAssumption == Logins \subseteq Procs
ASSUME NULLAssumption == NULL \notin Procs
ASSUME SwitchAssumption == PRINTS \in BOOLEAN /\ LEAKS \in BOOLEAN
ASSUME BoundsAssumption == MAX_DEPTH \in Nat \ {0} /\ MAX_MUTEX \in Nat

VARIABLES
  IF_,              \* the CPU's interrupt flag
  mutex,            \* the counter
  current_process,  \* the process that runs, NULL in the idle loop of a dead one
  state,            \* of a process; "absent" before and after its life
  parent,           \* who waits for the end of a process
  frame,            \* the system call a process is in
  handler,          \* the keyboard's handler, where it runs or was interrupted
  in_service        \* has the keyboard's interrupt not been ended?

cpuVars == <<IF_, mutex>>
processVars == <<current_process, state, parent>>
keyboardVars == <<handler, in_service>>
vars == <<cpuVars, processVars, frame, keyboardVars>>

-----------------------------------------------------------------------------

\* open counts the sections a call is in; a call that has failed only returns.
Frame == [kind : {"none", "read", "execute", "other"},
          open : 0 .. MAX_DEPTH, stage : {"runs", "waits", "failed"}]

Call(kind, open, stage) == [kind |-> kind, open |-> open, stage |-> stage]

User == Call("none", 0, "runs")

\* on says whose stack the handler runs on.
NoHandler == [kind |-> "none", on |-> NULL, open |-> 0]

Handler == [kind : {"none", "keyboard"}, on : Procs \cup {NULL}, open : 0 .. 1]

TypeOK ==
  /\ IF_ \in {0, 1}
  /\ mutex \in 0 .. MAX_MUTEX
  /\ current_process \in Procs \cup {NULL}
  /\ state \in [Procs -> {"absent", "ready", "running", "blocked"}]
  /\ parent \in [Procs -> Procs \cup {NULL}]
  /\ frame \in [Procs -> Frame]
  /\ handler \in Handler
  /\ in_service \in BOOLEAN

\* The CPU is in the keyboard's handler, and in the code of process p.
InHandler == handler.kind = "keyboard" /\ handler.on = current_process

Runs(p) == p = current_process /\ ~InHandler

-----------------------------------------------------------------------------
(* Critical sections. *)

\* Mutant: a section ends with the first sti.
sti_NotCounted ==
  /\ mutex' = mutex - 1
  /\ IF_' = 1

cli ==
  /\ mutex < MAX_MUTEX
  /\ mutex' = mutex + 1
  /\ IF_' = 0

sti ==
  /\ mutex' = mutex - 1
  /\ IF_' = IF mutex' = 0 THEN 1 ELSE 0

sti_forced ==
  /\ mutex' = 0
  /\ IF_' = 1

\* A section begins or ends in a system call.  A read of the keyboard has
\* none; what execute does lies within one.
CallCli(p) ==
  /\ Runs(p)
  /\ frame[p].stage # "failed"
  /\ frame[p].open < MAX_DEPTH
  /\ \/ frame[p].kind = "other"
     \/ frame[p].kind = "execute" /\ frame[p].open > 0
  /\ cli
  /\ frame' = [frame EXCEPT ![p].open = @ + 1]
  /\ UNCHANGED <<processVars, keyboardVars>>

CallSti(p) ==
  /\ Runs(p)
  /\ frame[p].open > 0
  /\ sti
  /\ frame' = [frame EXCEPT ![p].open = @ - 1]
  /\ UNCHANGED <<processVars, keyboardVars>>

\* A function returns without sti(); the call it is part of fails.
CallLeak(p) ==
  /\ LEAKS
  /\ Runs(p)
  /\ frame[p].open > (IF frame[p].kind = "execute" THEN 1 ELSE 0)
  /\ frame' = [frame EXCEPT ![p] = Call(@.kind, @.open - 1, "failed")]
  /\ UNCHANGED <<cpuVars, processVars, keyboardVars>>

\* The handler prints; print() has one section.
HandlerCli ==
  /\ InHandler
  /\ PRINTS
  /\ handler.open = 0
  /\ cli
  /\ handler' = [handler EXCEPT !.open = @ + 1]
  /\ UNCHANGED <<processVars, frame, in_service>>

HandlerSti ==
  /\ InHandler
  /\ handler.open > 0
  /\ sti
  /\ handler' = [handler EXCEPT !.open = @ - 1]
  /\ UNCHANGED <<processVars, frame, in_service>>

-----------------------------------------------------------------------------
(* System calls. *)

\* A read waits for a line.
read(p) ==
  /\ Runs(p)
  /\ frame[p].kind = "none"
  /\ frame' = [frame EXCEPT ![p] = Call("read", 0, "waits")]
  /\ UNCHANGED <<cpuVars, processVars, keyboardVars>>

OtherCall(p) ==
  /\ Runs(p)
  /\ frame[p].kind = "none"
  /\ frame' = [frame EXCEPT ![p] = Call("other", 0, "runs")]
  /\ UNCHANGED <<cpuVars, processVars, keyboardVars>>

execute_from_process(p) ==
  /\ Runs(p)
  /\ frame[p].kind = "none"
  /\ cli
  /\ frame' = [frame EXCEPT ![p] = Call("execute", 1, "runs")]
  /\ UNCHANGED <<processVars, keyboardVars>>

\* Mutant: sti() before the wait.
StartChild_Sti(p, c) ==
  /\ Runs(p)
  /\ frame[p].kind = "execute" /\ frame[p].open = 1 /\ frame[p].stage # "failed"
  /\ state[c] = "absent"
  /\ state' = [state EXCEPT ![c] = "ready", ![p] = "blocked"]
  /\ parent' = [parent EXCEPT ![c] = p]
  /\ frame' = [frame EXCEPT ![p].open = 0]
  /\ sti
  /\ UNCHANGED <<current_process, keyboardVars>>

\* Process p waits until c exits.
StartChild(p, c) ==
  /\ Runs(p)
  /\ frame[p].kind = "execute" /\ frame[p].open = 1 /\ frame[p].stage # "failed"
  /\ state[c] = "absent"
  /\ state' = [state EXCEPT ![c] = "ready", ![p] = "blocked"]
  /\ parent' = [parent EXCEPT ![c] = p]
  /\ frame' = [frame EXCEPT ![p].open = 0]
  /\ sti_forced
  /\ UNCHANGED <<current_process, keyboardVars>>

\* IRET: user code always runs with interrupts enabled.
Return(p) ==
  /\ Runs(p)
  /\ frame[p].kind # "none"
  /\ frame[p].open = 0
  /\ frame[p].stage # "waits"
  /\ state[p] # "blocked"
  /\ frame' = [frame EXCEPT ![p] = User]
  /\ IF_' = 1
  /\ UNCHANGED <<mutex, processVars, keyboardVars>>

\* From cli() to sti_forced() nothing comes in between.
exit_process(p) ==
  LET woken == {q \in Procs : parent[p] = q /\ state[q] = "blocked"}
  IN  /\ Runs(p)
      /\ frame[p].kind = "none"
      /\ state' = [q \in Procs |-> IF q = p THEN "absent"
                                   ELSE IF q \in woken THEN "ready" ELSE state[q]]
      /\ parent' = [parent EXCEPT ![p] = NULL]
      /\ current_process' = NULL
      /\ sti_forced
      /\ UNCHANGED <<frame, keyboardVars>>

-----------------------------------------------------------------------------
(* Interrupts. *)

\* A key is pressed.
Keyboard ==
  /\ IF_ = 1 /\ ~in_service
  /\ handler' = [kind |-> "keyboard", on |-> current_process, open |-> 0]
  /\ in_service' = TRUE
  /\ IF_' = 0
  /\ UNCHANGED <<mutex, processVars, frame>>

\* The key ends the line a process waits for.
BufferLine(p) ==
  /\ InHandler
  /\ handler.open = 0
  /\ frame[p].stage = "waits"
  /\ frame' = [frame EXCEPT ![p].stage = "runs"]
  /\ UNCHANGED <<cpuVars, processVars, keyboardVars>>

\* send_EOI(1) and IRET: what was interrupted had interrupts enabled.
KeyboardEnd ==
  /\ InHandler
  /\ handler.open = 0
  /\ handler' = NoHandler
  /\ in_service' = FALSE
  /\ IF_' = 1
  /\ UNCHANGED <<mutex, processVars, frame>>

\* The timer switches to process p.  What ran before is saved, the keyboard's
\* handler with it, unless it is the idle loop.
Tick(p) ==
  /\ IF_ = 1
  /\ state[p] = "ready"
  /\ state' = [q \in Procs |->
                 IF q = p THEN "running"
                 ELSE IF q = current_process /\ state[q] = "running" THEN "ready"
                 ELSE state[q]]
  /\ current_process' = p
  /\ handler' = IF current_process = NULL /\ InHandler THEN NoHandler ELSE handler
  /\ UNCHANGED <<cpuVars, parent, frame, in_service>>

-----------------------------------------------------------------------------

Init ==
  /\ IF_ = 1
  /\ mutex = 0
  /\ current_process = NULL
  /\ state = [p \in Procs |-> IF p \in Logins THEN "ready" ELSE "absent"]
  /\ parent = [p \in Procs |-> NULL]
  /\ frame = [p \in Procs |-> User]
  /\ handler = NoHandler
  /\ in_service = FALSE

\* A call leaves its outermost section, after whatever it does there.
LeaveSections(p) ==
  frame[p].open = 1 /\ (CallSti(p) \/ \E c \in Procs : StartChild(p, c))

Next ==
  \/ \E p \in Procs :
       \/ CallCli(p) \/ CallSti(p) \/ CallLeak(p)
       \/ read(p) \/ OtherCall(p) \/ execute_from_process(p)
       \/ \E c \in Procs : StartChild(p, c)
       \/ Return(p)
       \/ exit_process(p)
       \/ BufferLine(p)
       \/ Tick(p)
  \/ HandlerCli \/ HandlerSti
  \/ Keyboard \/ KeyboardEnd

Spec == Init /\ [][Next]_vars

\* The timer goes on ticking and the scheduler passes nobody over; calls and
\* the handler end, after entering a section so many times.
FairSpec ==
  /\ Spec
  /\ \A p \in Procs :
       /\ SF_vars(Tick(p))
       /\ WF_vars(CallSti(p))
       /\ SF_vars(LeaveSections(p))
       /\ SF_vars(Return(p))
  /\ WF_vars(HandlerSti)
  /\ SF_vars(KeyboardEnd)

-----------------------------------------------------------------------------
(* Properties. *)

\* "clear interrupts" (kernel.c:60): no interrupt comes between cli() and
\* sti(), however sections nest, and whatever returned without sti() before; so
\* no two contexts are in sections at once.
SectionsExclude ==
  /\ \A p \in Procs : frame[p].open > 0 => Runs(p) /\ IF_ = 0
  /\ handler.open > 0 => InHandler /\ IF_ = 0

\* The CPU waits for an interrupt.
Halted ==
  /\ ~InHandler
  /\ current_process # NULL =>
       frame[current_process].stage = "waits" \/ state[current_process] = "blocked"

\* The kernel never waits for an interrupt that cannot come, because a section
\* left without sti() has kept the counter from returning to 0.
HaltsEnabled == Halted => IF_ = 1

\* "send end of interrupt to allow the PIC to send the next interrupt"
\* (interrupts.c:66): an interrupt that is in service has a handler that will
\* end it.
HandlerKept == in_service => handler.kind = "keyboard"

\* "send end of interrupt to allow the PIC to send the next interrupt"
\* (interrupts.c:66): a handler that was interrupted runs again.
HandlerResumes ==
  \A p \in Procs :
    handler.kind = "keyboard" /\ handler.on = p
      ~> ~(handler.kind = "keyboard" /\ handler.on = p)

=============================================================================
