----------------------------- MODULE SystemCall -----------------------------
(***************************************************************************)
(* The system call gate: system_call_entry.asm and system_call_interrupt   *)
(* of kernel/system_call.c.                                                *)
(*                                                                         *)
(* The handler keeps some arguments and every result in variables that are *)
(* static, one for all processes, and the gate is a trap gate: the timer   *)
(* may switch to another process between any two instructions.  What a     *)
(* value is does not matter here, only which process it belongs to and     *)
(* whether it is an argument or a result; the functions the handler calls  *)
(* are their own modules' subject.                                         *)
(***************************************************************************)
EXTENDS FiniteSets

CONSTANTS
  Callers,   \* the processes, which make system calls
  ZERO       \* what a static variable holds at first

VARIABLES
  slot,         \* the static variables heap, fd, dd and bytes
  return_data,  \* the static variable of the entry code
  at,           \* where a process is in the handler
  call,         \* the call it has made
  argument,     \* the argument the called function has been given
  eax,          \* its register EAX
  disturbed     \* the processes whose result, in this call, was in a static variable
                \* while another process was in the handler (history)

gateVars == <<slot, return_data, at, call, argument, eax, disturbed>>

-----------------------------------------------------------------------------
(* The calls. *)

Slots == {"heap", "fd", "dd", "bytes"}

\* The calls whose argument goes through a static variable, and which.
ArgumentSlot ==
  [c \in {"FWRITE", "FREAD", "FCLOSE", "READDIR", "CLOSEDIR"} |->
     IF c \in {"READDIR", "CLOSEDIR"} THEN "dd" ELSE "fd"]

\* The calls that have a result, and the variable it goes through.
ResultSlot ==
  [c \in {"HEAP_START", "FOPEN", "FWRITE", "FREAD", "GET_FILE_SIZE", "SETEUID",
          "STAT", "OPENDIR", "READDIR", "DUP", "DUP2"} |->
     CASE c = "HEAP_START"                -> "heap"
       [] c \in {"FOPEN", "DUP", "DUP2"}  -> "fd"
       [] c = "OPENDIR"                   -> "dd"
       [] OTHER                           -> "bytes"]

\* All the others return nothing; PRINT and INPUT have no handler any more.
SYSTEM_CALL ==
  DOMAIN ArgumentSlot \cup DOMAIN ResultSlot \cup
  {"EXECUTE", "DUMP_MEMORY_MAP", "DUMP_PROCESS_LIST", "PRINT", "INPUT"}

\* Values, by their owner and what they are to it.
Value == (Callers \X {"user", "argument", "result"}) \cup {ZERO}

GateTyped ==
  /\ slot \in [Slots -> Value]
  /\ return_data \in Value
  /\ at \in [Callers -> {"user", "load", "body", "fetch", "store", "return"}]
  /\ call \in [Callers -> SYSTEM_CALL]
  /\ argument \in [Callers -> Value]
  /\ eax \in [Callers -> Value]
  /\ disturbed \subseteq Callers

\* p executes an instruction of the handler; while the called function of another
\* process runs, also for a long time as in a read of the keyboard, and while its
\* result is in a register, that does no harm to the result.
Disturb(p) ==
  LET before == IF at[p] = "user" THEN disturbed \ {p} ELSE disturbed
  IN  disturbed' = before \cup
        {q \in Callers \ {p} : at[q] \in {"fetch", "return"}}

-----------------------------------------------------------------------------
(* The steps of a call. *)

\* INT 0x40: the arguments in registers are the process's own.
Enter(p, c) ==
  /\ Disturb(p)
  /\ at[p] = "user"
  /\ call' = [call EXCEPT ![p] = c]
  /\ eax' = [eax EXCEPT ![p] = <<p, "user">>]
  /\ argument' = [argument EXCEPT ![p] = <<p, "argument">>]
  /\ IF c \in DOMAIN ArgumentSlot
       THEN /\ slot' = [slot EXCEPT ![ArgumentSlot[c]] = <<p, "argument">>]
            /\ at' = [at EXCEPT ![p] = "load"]
       ELSE /\ at' = [at EXCEPT ![p] = "body"]
            /\ UNCHANGED slot
  /\ UNCHANGED return_data

\* The argument is read back and the function is called.
Load(p) ==
  /\ Disturb(p)
  /\ at[p] = "load"
  /\ argument' = [argument EXCEPT ![p] = slot[ArgumentSlot[call[p]]]]
  /\ at' = [at EXCEPT ![p] = "body"]
  /\ UNCHANGED <<slot, return_data, call, eax>>

\* Mutant: EAX is not tested, and every call fetches a result.
Assign_NotTested(p) ==
  /\ Disturb(p)
  /\ at[p] = "body"
  /\ slot' = IF call[p] \in DOMAIN ResultSlot
                THEN [slot EXCEPT ![ResultSlot[call[p]]] = <<p, "result">>] ELSE slot
  /\ at' = [at EXCEPT ![p] = IF call[p] \in DOMAIN ResultSlot
                                   THEN "fetch" ELSE "return"]
  /\ UNCHANGED <<return_data, call, argument, eax>>

\* The function returns and its result, if it has one, is stored.
Assign(p) ==
  /\ Disturb(p)
  /\ at[p] = "body"
  /\ IF call[p] \in DOMAIN ResultSlot
       THEN /\ slot' = [slot EXCEPT ![ResultSlot[call[p]]] = <<p, "result">>]
            /\ at' = [at EXCEPT ![p] = "fetch"]
       ELSE /\ at' = [at EXCEPT ![p] = "user"]
            /\ UNCHANGED slot
  /\ UNCHANGED <<return_data, call, argument, eax>>

\* MOV EAX, [EAX]
Fetch(p) ==
  /\ Disturb(p)
  /\ at[p] = "fetch"
  /\ eax' = [eax EXCEPT ![p] = slot[ResultSlot[call[p]]]]
  /\ at' = [at EXCEPT ![p] = "store"]
  /\ UNCHANGED <<slot, return_data, call, argument>>

\* MOV [return_data], EAX
Store(p) ==
  /\ Disturb(p)
  /\ at[p] = "store"
  /\ return_data' = eax[p]
  /\ at' = [at EXCEPT ![p] = "return"]
  /\ UNCHANGED <<slot, call, argument, eax>>

\* POPA, MOV EAX, [return_data], IRET
Return(p) ==
  /\ Disturb(p)
  /\ at[p] = "return"
  /\ eax' = [eax EXCEPT ![p] = return_data]
  /\ at' = [at EXCEPT ![p] = "user"]
  /\ UNCHANGED <<slot, return_data, call, argument>>

-----------------------------------------------------------------------------

GateInit ==
  /\ slot = [s \in Slots |-> ZERO]
  /\ return_data = ZERO
  /\ at = [p \in Callers |-> "user"]
  /\ call = [p \in Callers |-> "PRINT"]
  /\ argument = [p \in Callers |-> ZERO]
  /\ eax = [p \in Callers |-> <<p, "user">>]
  /\ disturbed = {}

GateNext ==
  \E p \in Callers :
    \/ \E c \in SYSTEM_CALL : Enter(p, c)
    \/ Load(p)
    \/ Assign(p)
    \/ Fetch(p)
    \/ Store(p)
    \/ Return(p)

GateSpec == GateInit /\ [][GateNext]_gateVars

-----------------------------------------------------------------------------
(* Properties. *)

\* "check if there is return data, if so fetch it and return it, else return"
\* (system_call_entry.asm:9): what a process finds in EAX after a call is the
\* result of its own call, and what it had there if the call has no result.
\* Not so when another process is in the handler while the result is in a static
\* variable, between this one's assignment and fetch or its store and return;
\* whatever happens while the called function runs is harmless, although the
\* functions of two calls may return in any order.
ResultIsOwn ==
  \A p \in Callers : (at[p] = "user" /\ p \notin disturbed) =>
    eax[p] = <<p, IF call[p] \in DOMAIN ResultSlot THEN "result" ELSE "user">>

\* "issue a system call according to the value in eax" (system_call.c:14): the
\* function that is called gets the argument of the process that calls.  No run
\* checks this: another process that enters before the argument is loaded
\* replaces it.
ArgumentIsOwn ==
  \A p \in Callers : at[p] = "body" => argument[p] = <<p, "argument">>

=============================================================================
