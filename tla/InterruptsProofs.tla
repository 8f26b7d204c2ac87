-------------------------- MODULE InterruptsProofs --------------------------
(***************************************************************************)
(* For every set of processes, every nesting of sections and every value   *)
(* of the counter: no interrupt comes in a section, and the kernel never   *)
(* waits for an interrupt with interrupts off.                             *)
(***************************************************************************)
EXTENDS Interrupts, TLAPS

-----------------------------------------------------------------------------
(* The inductive invariant. *)

\* The counter is never below the number of sections that are open; it is above
\* when a function has returned without sti().
CountCovers ==
  /\ \A p \in Procs : frame[p].open <= mutex
  /\ handler.open <= mutex

\* Where a process waits, and that user code runs with interrupts enabled.
CallShapes ==
  \A p \in Procs :
    /\ frame[p].stage = "waits" => frame[p].kind = "read"
    /\ frame[p].kind \in {"none", "read"} => frame[p].open = 0
    /\ state[p] = "blocked" => frame[p].kind = "execute" /\ frame[p].open = 0
    /\ Runs(p) /\ frame[p].kind = "none" => IF_ = 1

IInv == TypeOK /\ SectionsExclude /\ HaltsEnabled /\ CountCovers /\ CallShapes

-----------------------------------------------------------------------------

\* The invariant holds after init().
LEMMA InitIInv == Init => IInv
<1> SUFFICES ASSUME Init PROVE IInv
  OBVIOUS
<1> USE BoundsAssumption, LoginsAssumption, NULLAssumption
        DEF Init, Runs, InHandler, User, Call, NoHandler
<1>1. TypeOK
  <2>1. User \in Frame BY DEF Frame
  <2>2. NoHandler \in Handler BY DEF Handler
  <2>3. frame \in [Procs -> Frame] BY <2>1
  <2>4. handler \in Handler BY <2>2
  <2>5. state \in [Procs -> {"absent", "ready", "running", "blocked"}] OBVIOUS
  <2>6. in_service \in BOOLEAN OBVIOUS
  <2> QED BY <2>3, <2>4, <2>5, <2>6 DEF TypeOK
<1>2. SectionsExclude BY DEF SectionsExclude
<1>3. HaltsEnabled BY DEF HaltsEnabled
<1>4. CountCovers BY DEF CountCovers
<1>5. CallShapes BY DEF CallShapes
<1> QED BY <1>1, <1>2, <1>3, <1>4, <1>5 DEF IInv

\* The sections of system calls.
LEMMA SectionsIInv ==
  ASSUME IInv, NEW p \in Procs, CallCli(p) \/ CallSti(p) \/ CallLeak(p)
  PROVE  IInv'
<1> USE BoundsAssumption, NULLAssumption
        DEF IInv, TypeOK, SectionsExclude, HaltsEnabled, Halted, CountCovers,
            CallShapes, Runs, InHandler, Frame, Handler, processVars, keyboardVars
<1>1. CASE CallCli(p) BY <1>1 DEF CallCli, cli
<1>2. CASE CallSti(p) BY <1>2 DEF CallSti, sti
<1>3. CASE CallLeak(p)
  <2> USE DEF Call
  <2>1. TypeOK'
    <3>1. Call(frame[p].kind, frame[p].open - 1, "failed") \in Frame
      BY <1>3 DEF CallLeak
    <3>2. frame' = [frame EXCEPT ![p] =
                      Call(frame[p].kind, frame[p].open - 1, "failed")]
      BY <1>3 DEF CallLeak
    <3>3. frame' \in [Procs -> Frame] BY <3>1, <3>2
    <3> QED BY <1>3, <3>3 DEF CallLeak, cpuVars
  <2>2. SectionsExclude' BY <1>3 DEF CallLeak, cpuVars
  <2>3. HaltsEnabled' BY <1>3 DEF CallLeak, cpuVars
  <2>4. CountCovers' BY <1>3 DEF CallLeak, cpuVars
  <2>5. CallShapes' BY <1>3 DEF CallLeak, cpuVars
  <2> QED BY <2>1, <2>2, <2>3, <2>4, <2>5
<1> QED BY <1>1, <1>2, <1>3

\* System calls begin, wait and end.
LEMMA CallsIInv ==
  ASSUME IInv, NEW p \in Procs,
         \/ read(p) \/ OtherCall(p) \/ execute_from_process(p)
         \/ \E c \in Procs : StartChild(p, c)
         \/ Return(p) \/ exit_process(p)
  PROVE  IInv'
<1> USE BoundsAssumption, NULLAssumption
        DEF IInv, TypeOK, SectionsExclude, HaltsEnabled, Halted, CountCovers,
            CallShapes, Runs, InHandler, Frame, User, Call, Handler, processVars,
            keyboardVars
<1>1. CASE read(p) BY <1>1 DEF read, cpuVars
<1>2. CASE OtherCall(p) BY <1>2 DEF OtherCall, cpuVars
<1>3. CASE execute_from_process(p)
  <2>1. TypeOK'
    <3>1. Call("execute", 1, "runs") \in Frame OBVIOUS
    <3>2. frame' \in [Procs -> Frame] BY <1>3, <3>1 DEF execute_from_process
    <3> QED BY <1>3, <3>2 DEF execute_from_process, cli
  <2>2. SectionsExclude' BY <1>3 DEF execute_from_process, cli
  <2>3. HaltsEnabled' BY <1>3 DEF execute_from_process, cli
  <2>4. CountCovers' BY <1>3 DEF execute_from_process, cli
  <2>5. CallShapes' BY <1>3 DEF execute_from_process, cli
  <2> QED BY <2>1, <2>2, <2>3, <2>4, <2>5
<1>4. ASSUME NEW c \in Procs, StartChild(p, c) PROVE IInv'
  BY <1>4 DEF StartChild, sti_forced
<1>5. CASE Return(p) BY <1>5 DEF Return
<1>6. CASE exit_process(p) BY <1>6 DEF exit_process, sti_forced
<1> QED BY <1>1, <1>2, <1>3, <1>4, <1>5, <1>6

\* The interrupts.
LEMMA InterruptsIInv ==
  ASSUME IInv,
         \/ HandlerCli \/ HandlerSti \/ Keyboard \/ KeyboardEnd
         \/ \E p \in Procs : BufferLine(p) \/ Tick(p)
  PROVE  IInv'
<1> USE BoundsAssumption, NULLAssumption
        DEF IInv, TypeOK, SectionsExclude, HaltsEnabled, Halted, CountCovers,
            CallShapes, Runs, InHandler, Frame, Handler, NoHandler, processVars,
            keyboardVars
<1>1. CASE HandlerCli BY <1>1 DEF HandlerCli, cli
<1>2. CASE HandlerSti BY <1>2 DEF HandlerSti, sti
<1>3. CASE Keyboard BY <1>3 DEF Keyboard
<1>4. CASE KeyboardEnd
  <2>1. TypeOK' BY <1>4 DEF KeyboardEnd
  <2>2. SectionsExclude' BY <1>4 DEF KeyboardEnd
  <2>3. HaltsEnabled' BY <1>4 DEF KeyboardEnd
  <2>4. CountCovers' BY <1>4 DEF KeyboardEnd
  <2>5. CallShapes' BY <1>4 DEF KeyboardEnd
  <2> QED BY <2>1, <2>2, <2>3, <2>4, <2>5
<1>5. ASSUME NEW p \in Procs, BufferLine(p) PROVE IInv'
  BY <1>5 DEF BufferLine, cpuVars
<1>6. ASSUME NEW p \in Procs, Tick(p) PROVE IInv'
  BY <1>6 DEF Tick, cpuVars
<1> QED BY <1>1, <1>2, <1>3, <1>4, <1>5, <1>6

\* Every step keeps the invariant.
LEMMA NextIInv == IInv /\ [Next]_vars => IInv'
<1> SUFFICES ASSUME IInv, [Next]_vars PROVE IInv'
  OBVIOUS
<1>1. CASE UNCHANGED vars
  BY <1>1 DEF IInv, TypeOK, SectionsExclude, HaltsEnabled, Halted, CountCovers,
      CallShapes, Runs, InHandler, vars, cpuVars, processVars, keyboardVars
<1>2. CASE Next
  BY <1>2, SectionsIInv, CallsIInv, InterruptsIInv DEF Next
<1> QED BY <1>1, <1>2

\* The invariant always holds.
THEOREM Invariant == Spec => []IInv
<1> QED BY InitIInv, NextIInv, PTL DEF Spec

\* No interrupt comes between cli() and sti().
THEOREM SectionsExcluded == Spec => []SectionsExclude
<1>1. IInv => SectionsExclude BY DEF IInv
<1> QED BY <1>1, Invariant, PTL

\* The kernel waits with interrupts enabled.
THEOREM HaltsAreEnabled == Spec => []HaltsEnabled
<1>1. IInv => HaltsEnabled BY DEF IInv
<1> QED BY <1>1, Invariant, PTL

=============================================================================
