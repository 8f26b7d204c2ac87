------------------------------- MODULE Shell -------------------------------
(***************************************************************************)
(* The programs a user meets, default_fs/login.c and default_fs/shell.c,   *)
(* over the open files of processes (module OpenFiles): the login program  *)
(* of each terminal reads users.txt and executes a shell; a shell reads    *)
(* and writes files, and executes commands with their streams redirected   *)
(* by < and >, which it does to its own streams before and undoes after.   *)
(*                                                                         *)
(* A command is a program that uses the streams it was started with, or    *)
(* another shell.  What a program prints, parses and compares is left out, *)
(* user ids are in module Process.                                         *)
(***************************************************************************)
EXTENDS OpenFiles

CONSTANTS
  users,        \* users.txt
  image,        \* the file programs are in
  Readable,     \* the files users may read and
  Writable      \* write

ASSUME ProgramFilesAssumption ==
  image \in Files /\ {users} \cup Readable \cup Writable \subseteq Files \ {image}

\* A terminal is no regular file.
ASSUME TerminalsAssumption == \A i \in DOMAIN Logins : Tty(i) \notin Files

VARIABLE
  program       \* what each process runs, and its local variables

svars == <<vars, program>>

-----------------------------------------------------------------------------

stdin == 1
stdout == 2

NoProgram == [name |-> "none"]

\* The variables of main; lost counts files it has opened and forgotten, and
\* home says which descriptors it began with (neither is in the code).
Program ==
  [name : {"login", "shell", "command"},
   at : {"dup_stdin", "dup_stdout", "prompt", "opened", "used", "parse",
         "set_stdout", "set_stdin", "execute", "close_stdout", "reset_stdout",
         "close_stdin", "reset_stdin"},
   newstdin : Nat, newstdout : Nat, fd : Nat, lost : Nat, home : Seq(Nat)]

ProgramsTyped ==
  /\ program \in [Procs -> Program \cup {NoProgram}]
  /\ \A p \in Procs : p \in live <=> program[p] # NoProgram

\* A process begins a program, at the first statement of its main.
Begin(name, home) ==
  [name |-> name, at |-> IF name = "shell" THEN "dup_stdin" ELSE "prompt",
   newstdin |-> 0, newstdout |-> 0, fd |-> 0, lost |-> 0, home |-> home]

\* dup of stdin and of stdout, which a shell calls first, give these.
_stdin == 3
_stdout == 4

\* What fopen will return.
Returned(p) == IF FirstUnused(p) = 0 THEN Len(open_files[p]) + 1 ELSE FirstUnused(p)

At_(p, name, at) == p \in live /\ program[p].name = name /\ program[p].at = at

Goto(p, at) == program' = [program EXCEPT ![p].at = at]

-----------------------------------------------------------------------------
(* A file is opened, read or written, and closed: login with users.txt, the  *)
(* shell in its commands read and write.                                     *)

OpenFile(p, f) ==
  /\ \/ At_(p, "login", "prompt") /\ f = users
     \/ At_(p, "shell", "prompt") /\ f \in Readable \cup Writable
  /\ fopen(p, f)
  /\ program' = [program EXCEPT ![p].at = "opened", ![p].fd = Returned(p)]

UseFile(p) ==
  /\ p \in live /\ program[p].at = "opened"
  /\ Seek(p, program[p].fd)
  /\ Goto(p, "used")

CloseFile(p) ==
  /\ p \in live /\ program[p].at = "used"
  /\ fclose(p, program[p].fd, 0)
  /\ program' = [program EXCEPT ![p].fd = 0, ![p].at =
                   IF program[p].name = "login" THEN "execute" ELSE "prompt"]

\* A login executes a shell if the password is right, and begins again.
Login(p) ==
  /\ At_(p, "login", "execute")
  /\ \/ \E c \in Procs :
          /\ execute(p, c, image)
          /\ program' = [program EXCEPT ![p].at = "prompt",
               ![c] = Begin("shell", <<At(p, stdin).fd, At(p, stdout).fd>>)]
     \/ Ready(p) /\ Goto(p, "prompt") /\ UNCHANGED vars

-----------------------------------------------------------------------------
(* The shell. *)

DupStdin(p) ==
  /\ At_(p, "shell", "dup_stdin")
  /\ dup(p, stdin)
  /\ Goto(p, "dup_stdout")

DupStdout(p) ==
  /\ At_(p, "shell", "dup_stdout")
  /\ dup(p, stdout)
  /\ Goto(p, "prompt")

\* "< file" and "> file": a second one makes the shell forget the first.
Parsing(p) == At_(p, "shell", "prompt") \/ At_(p, "shell", "parse")

ParseIn(p, f) ==
  /\ Parsing(p)
  /\ f \in Readable
  /\ fopen(p, f)
  /\ program' = [program EXCEPT
       ![p].at = "parse", ![p].newstdin = Returned(p),
       ![p].lost = IF program[p].newstdin = 0 THEN @ ELSE @ + 1]

ParseOut(p, f) ==
  /\ Parsing(p)
  /\ f \in Writable
  /\ fopen(p, f)
  /\ program' = [program EXCEPT
       ![p].at = "parse", ![p].newstdout = Returned(p),
       ![p].lost = IF program[p].newstdout = 0 THEN @ ELSE @ + 1]

\* No file name, or a file that cannot be opened: what is open stays open.
ParseFails(p) ==
  /\ At_(p, "shell", "parse")
  /\ Ready(p)
  /\ program' = [program EXCEPT
       ![p].at = "prompt", ![p].newstdin = 0, ![p].newstdout = 0,
       ![p].lost = @ + Cardinality({program[p].newstdin, program[p].newstdout} \ {0})]
  /\ UNCHANGED vars

\* What the shell does for a command after it has parsed it; what is about a
\* stream is done if there is a file for it.
Statements == <<"set_stdout", "set_stdin", "execute", "close_stdout", "reset_stdout",
                "close_stdin", "reset_stdin", "prompt">>

\* The first statement to be done from the n-th on.
StatementFrom(p, n) ==
  Statements[Min({k \in n .. 8 :
    CASE Statements[k] \in {"execute", "prompt"} -> TRUE
      [] Statements[k] \in {"set_stdin", "close_stdin", "reset_stdin"} ->
           program[p].newstdin # 0
      [] OTHER -> program[p].newstdout # 0})]

\* The n-th statement has been called.
Advance(p, n) ==
  LET at == StatementFrom(p, n + 1)
      forget == at = "prompt"
  IN  [program EXCEPT ![p].at = at,
                      ![p].newstdin = IF forget THEN 0 ELSE @,
                      ![p].newstdout = IF forget THEN 0 ELSE @]

\* Everything is parsed.
ParseEnds(p) ==
  /\ Parsing(p)
  /\ Ready(p)
  /\ Goto(p, StatementFrom(p, 1))
  /\ UNCHANGED vars

SetStdout(p) ==
  /\ At_(p, "shell", "set_stdout")
  /\ dup2(p, program[p].newstdout, stdout)
  /\ program' = Advance(p, 1)

\* Mutant: the descriptors of dup2 in the wrong order.
SetStdin_Swapped(p) ==
  /\ At_(p, "shell", "set_stdin")
  /\ dup2(p, stdin, program[p].newstdin)
  /\ program' = Advance(p, 2)

SetStdin(p) ==
  /\ At_(p, "shell", "set_stdin")
  /\ dup2(p, program[p].newstdin, stdin)
  /\ program' = Advance(p, 2)

\* The command runs, unless it may not be executed.
Execute(p) ==
  /\ At_(p, "shell", "execute")
  /\ \/ \E c \in Procs, name \in {"shell", "command"} :
          /\ execute(p, c, image)
          /\ program' = [Advance(p, 3) EXCEPT
               ![c] = Begin(name, <<At(p, stdin).fd, At(p, stdout).fd>>)]
     \/ Ready(p) /\ program' = Advance(p, 3) /\ UNCHANGED vars

CloseStdout(p) ==
  /\ At_(p, "shell", "close_stdout")
  /\ fclose(p, program[p].newstdout, 0)
  /\ program' = Advance(p, 4)

\* Mutant: the stream is put back from itself.
ResetStdout_Itself(p) ==
  /\ At_(p, "shell", "reset_stdout")
  /\ dup2(p, stdout, stdout)
  /\ program' = Advance(p, 5)

ResetStdout(p) ==
  /\ At_(p, "shell", "reset_stdout")
  /\ dup2(p, _stdout, stdout)
  /\ program' = Advance(p, 5)

\* Mutant: the file after < stays open.
CloseStdin_Forgotten(p) ==
  /\ At_(p, "shell", "close_stdin")
  /\ Ready(p)
  /\ program' = Advance(p, 6)
  /\ UNCHANGED vars

CloseStdin(p) ==
  /\ At_(p, "shell", "close_stdin")
  /\ fclose(p, program[p].newstdin, 0)
  /\ program' = Advance(p, 6)

ResetStdin(p) ==
  /\ At_(p, "shell", "reset_stdin")
  /\ dup2(p, _stdin, stdin)
  /\ program' = Advance(p, 7)

-----------------------------------------------------------------------------

\* A command reads or writes one of its streams.
UseStream(p) ==
  /\ At_(p, "command", "prompt")
  /\ \E v \in {stdin, stdout} : Seek(p, v)
  /\ UNCHANGED program

\* Shells and commands end; a shell by the command exit or at the end of input.
Exit(p) ==
  /\ At_(p, "shell", "prompt") \/ At_(p, "command", "prompt")
  /\ exit(p)
  /\ program' = [program EXCEPT ![p] = NoProgram]

\* The rest of a call.
Continue(p) ==
  /\ \/ Register(p)
     \/ \E n \in 0 .. 1 : Transfer(p, n)
     \/ Close(p)
     \/ Unuse(p)
     \/ Copy(p)
  /\ UNCHANGED program

ShellInit ==
  /\ Init
  /\ program = [p \in Procs |->
       IF p \in live THEN Begin("login", <<At(p, stdin).fd, At(p, stdout).fd>>)
       ELSE NoProgram]

ShellNext ==
  \E p \in Procs :
    \/ \E f \in Files : OpenFile(p, f) \/ ParseIn(p, f) \/ ParseOut(p, f)
    \/ UseFile(p)
    \/ CloseFile(p)
    \/ Login(p)
    \/ DupStdin(p)
    \/ DupStdout(p)
    \/ ParseFails(p)
    \/ ParseEnds(p)
    \/ SetStdout(p)
    \/ SetStdin(p)
    \/ Execute(p)
    \/ CloseStdout(p)
    \/ ResetStdout(p)
    \/ CloseStdin(p)
    \/ ResetStdin(p)
    \/ UseStream(p)
    \/ Exit(p)
    \/ Continue(p)

ShellSpec == ShellInit /\ [][ShellNext]_svars

-----------------------------------------------------------------------------
(* Properties. *)

Prompts(p) == At_(p, "shell", "prompt") /\ call[p] = NoCall

\* At its prompt a shell reads and writes what it was started with, whatever
\* commands it has executed with other streams and whatever other shells do.
RedirectionUndone ==
  \A p \in live : Prompts(p) =>
    \A v \in {stdin, stdout} :
      /\ At(p, v).used
      /\ At(p, v).fd = program[p].home[v]
      /\ At(p, v).fd \in UsedDescriptors

\* A command reads the file after <, writes the one after >, and else what its
\* shell does; the descriptors stay open and its own while it runs.
CommandsRedirected ==
  \A p, c \in live :
    (parent[c] = p /\ program[p].name = "shell") =>
      LET asked(v) == IF v = stdin THEN program[p].newstdin ELSE program[p].newstdout
      IN  \A v \in {stdin, stdout} :
            /\ program[c].home[v] = IF asked(v) = 0 THEN program[p].home[v]
                                    ELSE At(p, asked(v)).fd
            /\ program[c].home[v] \in UsedDescriptors

\* Between commands a shell has nothing open but its streams and their copies,
\* and what commands with an error or with two < or > have left.
OnlyErrorsLeak ==
  \A p \in live : Prompts(p) =>
    Cardinality({r \in DOMAIN entry[p] : entry[p][r].used}) = 4 + program[p].lost

=============================================================================
