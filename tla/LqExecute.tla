------------------------------ MODULE LqExecute ------------------------------
(***************************************************************************)
(* LQ_SHELL/lqshell_optm.c: execute_command_main and pipCmd.  The shell    *)
(* runs a command itself, or forks two processes that do so at the ends of *)
(* a pipe; each forks once more and waits.  A descriptor table maps each   *)
(* descriptor to what it is open on.  fork copies the table and the prompt *)
(* that may still be in the buffer of stdio.  What is in regular files is  *)
(* left out; > and >> are the same here.                                   *)
(***************************************************************************)
EXTENDS Integers, Sequences, FiniteSets, FiniteSetsExt

CONSTANTS
    Files,          \* files named in redirections
    MaxFds,         \* limit of open descriptors (RLIMIT_NOFILE)
    MaxArgs,        \* MAX_ARGS
    PipeCap,        \* items a pipe holds
    MaxItems        \* bound: items a command writes

Shell   == "shell"
Workers == {"shell", "left", "right"}       \* run execute_command_main
Command == [shell |-> "scmd", left |-> "lcmd", right |-> "rcmd"]
Commands == {Command[p] : p \in Workers}
Processes == Workers \cup Commands

Streams == 0..2
Opens   == {"closed", "stdin", "stdout", "stderr", "pipe_r", "pipe_w",
            "source", "target"} \cup Files
Tokens  == {[op |-> "word"]} \cup
           [op : {"<", ">", "2>"}, file : Files \cup {"missing"}]

ASSUME ExecuteAssumption ==
    /\ "missing" \notin Files
    /\ Files \cap {"closed", "stdin", "stdout", "stderr", "pipe_r", "pipe_w",
                   "source", "target"} = {}
    /\ MaxFds \in Nat /\ MaxFds >= 3
    /\ MaxArgs \in Nat /\ MaxArgs >= 2
    /\ PipeCap \in Nat \ {0} /\ MaxItems \in Nat

VARIABLES
    pc,             \* where each process is
    fds,            \* its descriptor table
    buffered,       \* is a prompt in its stdio buffer?
    args,           \* argv of execute_command_main
    at,             \* i of its loop
    words,          \* j of its loop
    redir,          \* input_fd, output_fd, error_fd
    pipe_fd,        \* pipe_fd of pipCmd
    pipe,           \* items in the pipe
    todo,           \* items a running command has still to write
    wrote,          \* data items written to the pipe
    got,            \* items the right command has read from it
    lost            \* has the shell forgotten a descriptor it opened?

execVars == <<pc, fds, buffered, args, at, words, redir, pipe_fd, pipe, todo,
              wrote, got, lost>>
local    == <<args, at, words, redir>>
flow     == <<pipe, todo, wrote, got>>

StdTable == [n \in 0..MaxFds-1 |->
               IF n = 0 THEN "stdin" ELSE IF n = 1 THEN "stdout"
               ELSE IF n = 2 THEN "stderr" ELSE "closed"]
Shut     == [n \in 0..MaxFds-1 |-> "closed"]
NoRedir  == [s \in Streams |-> s]

Free(t)      == {n \in DOMAIN t : t[n] = "closed"}
Lowest(t)    == Min(Free(t))
Holds(p, end) == \E n \in DOMAIN fds[p] : fds[p][n] = end
HasReader == \E p \in Processes : Holds(p, "pipe_r")
HasWriter == \E p \in Processes : Holds(p, "pipe_w")

ExecInit ==
    /\ pc = [p \in Processes |-> IF p = Shell THEN "prompt" ELSE "none"]
    /\ fds = [p \in Processes |-> IF p = Shell THEN StdTable ELSE Shut]
    /\ buffered = [p \in Processes |-> FALSE]
    /\ args = [p \in Workers |-> <<>>]
    /\ at = [p \in Workers |-> 1]
    /\ words = [p \in Workers |-> 0]
    /\ redir = [p \in Workers |-> NoRedir]
    /\ pipe_fd = <<0, 0>>
    /\ pipe = <<>>
    /\ todo = [c \in Commands |-> 0]
    /\ wrote = 0
    /\ got = <<>>
    /\ lost = FALSE

Goto(p, label) == pc' = [pc EXCEPT ![p] = label]

\* What a line gives each process for execute_command_main: the shell all of
\* it, or the children of pipCmd the arguments on either side of the first |.
Enter(line) ==
    /\ args' = [p \in Workers |-> IF p = "right" THEN line.cmd2 ELSE line.cmd1]
    /\ at' = [p \in Workers |-> 1]
    /\ words' = [p \in Workers |-> 0]
    /\ redir' = [p \in Workers |-> NoRedir]

\* Return from it: to the loop of main, or to exit in a child of pipCmd.
ReturnTo(p) == IF p = Shell THEN "prompt" ELSE "exit"

Forget(p) == lost' = (lost \/ (p = Shell /\ redir[p] # NoRedir))

-----------------------------------------------------------------------------
(* execute_command_main: the loop over the arguments *)

\* The loop ends at the terminating NULL, or when args is full: what follows
\* then, redirections too, is ignored.
Parsing(p) == pc[p] = "parse" /\ at[p] <= Len(args[p]) /\ words[p] < MaxArgs - 1

Token(p)  == args[p][at[p]]
Stream(t) == CASE t.op = "<" -> 0 [] t.op = ">" -> 1 [] t.op = "2>" -> 2

ParseWord(p) ==
    /\ Parsing(p)
    /\ Token(p).op = "word"
    /\ words' = [words EXCEPT ![p] = @ + 1]
    /\ at' = [at EXCEPT ![p] = @ + 1]
    /\ UNCHANGED <<pc, fds, buffered, args, redir, pipe_fd, flow, lost>>

\* An earlier redirection of the same stream is forgotten without a close.
Redirect(p) ==
    /\ Parsing(p)
    /\ Token(p).op # "word"
    /\ Token(p).file # "missing"
    /\ Free(fds[p]) # {}
    /\ LET s == Stream(Token(p))
       IN  /\ fds' = [fds EXCEPT ![p][Lowest(fds[p])] = Token(p).file]
           /\ redir' = [redir EXCEPT ![p][s] = Lowest(fds[p])]
           /\ lost' = (lost \/ (p = Shell /\ redir[p][s] # s))
    /\ at' = [at EXCEPT ![p] = @ + 1]
    /\ UNCHANGED <<pc, buffered, args, words, pipe_fd, flow>>

\* No operand, or open fails: return, with what is open already.
RedirectFails(p) ==
    /\ Parsing(p)
    /\ Token(p).op # "word"
    /\ Goto(p, ReturnTo(p))
    /\ Forget(p)
    /\ UNCHANGED <<fds, buffered, local, pipe_fd, flow>>

ParseEnds(p) ==
    /\ pc[p] = "parse"
    /\ ~Parsing(p)
    /\ Goto(p, "fork")
    /\ UNCHANGED <<fds, buffered, local, pipe_fd, flow, lost>>

-----------------------------------------------------------------------------
(* execute_command_main: fork, the child, waitpid *)

ForkCommand(p) ==
    /\ pc[p] = "fork"
    /\ pc' = [pc EXCEPT ![p] = "wait", ![Command[p]] = "child"]
    /\ fds' = [fds EXCEPT ![Command[p]] = fds[p]]
    /\ buffered' = [buffered EXCEPT ![Command[p]] = buffered[p]]
    /\ UNCHANGED <<local, pipe_fd, flow, lost>>

ForkFails(p) ==
    /\ pc[p] = "fork"
    /\ Goto(p, ReturnTo(p))
    /\ Forget(p)
    /\ UNCHANGED <<fds, buffered, local, pipe_fd, flow>>

\* dup2(from, to); close(from)
Move(t, from, to) ==
    IF from = to THEN t ELSE [t EXCEPT ![to] = t[from], ![from] = "closed"]

\* Mutant of Redirected: standard error goes where standard output goes.
RedirectedErrToOut(t, r) == Move(Move(Move(t, r[0], 0), r[2], 2), r[1], 2)

\* The table of a command, from that of its parent.
Redirected(t, r) == Move(Move(Move(t, r[0], 0), r[1], 1), r[2], 2)

\* execvp forgets the buffer.  Without a word it fails.  What a program
\* writes is followed only into the pipe.
Exec(p) ==
    LET c == Command[p]
    IN  /\ pc[c] = "child"
        /\ words[p] > 0
        /\ fds' = [fds EXCEPT ![c] = Redirected(@, redir[p])]
        /\ buffered' = [buffered EXCEPT ![c] = FALSE]
        /\ \E n \in IF fds'[c][1] = "pipe_w" THEN 0..MaxItems ELSE {0} :
             todo' = [todo EXCEPT ![c] = n]
        /\ Goto(c, "run")
        /\ UNCHANGED <<local, pipe_fd, pipe, wrote, got, lost>>

\* execvp fails, and exit flushes the buffer.
ExecFails(p) ==
    LET c == Command[p]
    IN  /\ pc[c] = "child"
        /\ fds' = [fds EXCEPT ![c] = Redirected(@, redir[p])]
        /\ Goto(c, "exit")
        /\ UNCHANGED <<buffered, local, pipe_fd, flow, lost>>

Wait(p) ==
    /\ pc[p] = "wait"
    /\ pc[Command[p]] = "dead"
    /\ pc' = [pc EXCEPT ![p] = ReturnTo(p), ![Command[p]] = "none"]
    /\ fds' = [fds EXCEPT ![p] = [n \in DOMAIN @ |->
                 IF \E s \in Streams : redir[p][s] = n /\ n # s
                 THEN "closed" ELSE @[n]]]
    /\ UNCHANGED <<buffered, local, pipe_fd, flow, lost>>

Die(p) ==
    /\ Goto(p, "dead")
    /\ fds' = [fds EXCEPT ![p] = Shut]
    /\ buffered' = [buffered EXCEPT ![p] = FALSE]

\* exit(EXIT_FAILURE) of a child: the buffered prompt goes to its descriptor 1.
Exit(p) ==
    /\ p # Shell
    /\ pc[p] = "exit"
    /\ IF buffered[p] /\ fds[p][1] = "pipe_w" /\ HasReader
       THEN Len(pipe) < PipeCap /\ pipe' = Append(pipe, "prompt")
       ELSE pipe' = pipe
    /\ Die(p)
    /\ UNCHANGED <<local, pipe_fd, todo, wrote, got, lost>>

-----------------------------------------------------------------------------
(* The programs that are run.  They write, then read their standard input  *)
(* to the end; they may stop before.                                       *)

WriteItem(c) ==
    /\ pc[c] = "run"
    /\ todo[c] > 0
    /\ HasReader
    /\ Len(pipe) < PipeCap
    /\ pipe' = Append(pipe, "data")
    /\ wrote' = wrote + 1
    /\ todo' = [todo EXCEPT ![c] = @ - 1]
    /\ UNCHANGED <<pc, fds, buffered, local, pipe_fd, got, lost>>

\* SIGPIPE
BrokenPipe(c) ==
    /\ pc[c] = "run"
    /\ todo[c] > 0
    /\ ~HasReader
    /\ Die(c)
    /\ UNCHANGED <<local, pipe_fd, flow, lost>>

ReadItem(c) ==
    /\ pc[c] = "run"
    /\ todo[c] = 0
    /\ fds[c][0] = "pipe_r"
    /\ pipe # <<>>
    /\ pipe' = Tail(pipe)
    /\ got' = Append(got, Head(pipe))
    /\ UNCHANGED <<pc, fds, buffered, local, pipe_fd, todo, wrote, lost>>

\* End of file: nobody holds a write end.
EndOfInput(c) ==
    /\ pc[c] = "run"
    /\ todo[c] = 0
    /\ fds[c][0] = "pipe_r" => pipe = <<>> /\ ~HasWriter
    /\ Goto(c, "end")
    /\ UNCHANGED <<fds, buffered, local, pipe_fd, flow, lost>>

Finish(c) ==
    /\ pc[c] = "end"
    /\ Die(c)
    /\ UNCHANGED <<local, pipe_fd, flow, lost>>

CommandStops(c) ==
    /\ pc[c] = "run"
    /\ Die(c)
    /\ UNCHANGED <<local, pipe_fd, flow, lost>>

-----------------------------------------------------------------------------
(* pipCmd *)

MakePipe ==
    /\ pc[Shell] = "pipe"
    /\ Cardinality(Free(fds[Shell])) >= 2
    /\ LET r == Lowest(fds[Shell])
           w == Min(Free(fds[Shell]) \ {r})
       IN  /\ pipe_fd' = <<r, w>>
           /\ fds' = [fds EXCEPT ![Shell][r] = "pipe_r", ![Shell][w] = "pipe_w"]
    /\ Goto(Shell, "fork1")
    /\ pipe' = <<>> /\ wrote' = 0 /\ got' = <<>>
    /\ UNCHANGED <<buffered, local, todo, lost>>

\* pipe fails, and the shell exits.
PipeFails ==
    /\ pc[Shell] = "pipe"
    /\ Goto(Shell, "exit")
    /\ UNCHANGED <<fds, buffered, local, pipe_fd, flow, lost>>

ForkSide(label, p, next) ==
    /\ pc[Shell] = label
    /\ pc' = [pc EXCEPT ![Shell] = next, ![p] = "setup"]
    /\ fds' = [fds EXCEPT ![p] = fds[Shell]]
    /\ buffered' = [buffered EXCEPT ![p] = buffered[Shell]]
    /\ UNCHANGED <<local, pipe_fd, flow, lost>>

ForkLeft  == ForkSide("fork1", "left", "fork2")
ForkRight == ForkSide("fork2", "right", "close")

\* The shell exits, with a first child that goes on.
ForkSideFails ==
    /\ pc[Shell] \in {"fork1", "fork2"}
    /\ Goto(Shell, "exit")
    /\ UNCHANGED <<fds, buffered, local, pipe_fd, flow, lost>>

Close(t, n) == [t EXCEPT ![n] = "closed"]

\* Mutant of RightTable: the write end stays open in the reader.
RightTableHolding(t) == Move(t, pipe_fd[1], 0)

LeftTable(t)  == Move(Close(t, pipe_fd[1]), pipe_fd[2], 1)
RightTable(t) == Move(Close(t, pipe_fd[2]), pipe_fd[1], 0)

SetupLeft ==
    /\ pc["left"] = "setup"
    /\ fds' = [fds EXCEPT !["left"] = LeftTable(@)]
    /\ Goto("left", "parse")
    /\ UNCHANGED <<buffered, local, pipe_fd, flow, lost>>

SetupRight ==
    /\ pc["right"] = "setup"
    /\ fds' = [fds EXCEPT !["right"] = RightTable(@)]
    /\ Goto("right", "parse")
    /\ UNCHANGED <<buffered, local, pipe_fd, flow, lost>>

\* Mutant of ClosePipe: the read end stays open in the shell.
ClosePipeHolding ==
    /\ pc[Shell] = "close"
    /\ fds' = [fds EXCEPT ![Shell] = Close(@, pipe_fd[2])]
    /\ Goto(Shell, "wait1")
    /\ UNCHANGED <<buffered, local, pipe_fd, flow, lost>>

ClosePipe ==
    /\ pc[Shell] = "close"
    /\ fds' = [fds EXCEPT ![Shell] = Close(Close(@, pipe_fd[1]), pipe_fd[2])]
    /\ Goto(Shell, "wait1")
    /\ UNCHANGED <<buffered, local, pipe_fd, flow, lost>>

\* Mutant of WaitLeft: the second child is not waited for.
WaitLeftOnly ==
    /\ pc[Shell] = "wait1"
    /\ pc["left"] = "dead"
    /\ pc' = [pc EXCEPT ![Shell] = "prompt", !["left"] = "none"]
    /\ UNCHANGED <<fds, buffered, local, pipe_fd, flow, lost>>

WaitLeft ==
    /\ pc[Shell] = "wait1"
    /\ pc["left"] = "dead"
    /\ pc' = [pc EXCEPT ![Shell] = "wait2", !["left"] = "none"]
    /\ UNCHANGED <<fds, buffered, local, pipe_fd, flow, lost>>

WaitRight ==
    /\ pc[Shell] = "wait2"
    /\ pc["right"] = "dead"
    /\ pc' = [pc EXCEPT ![Shell] = "prompt", !["right"] = "none"]
    /\ UNCHANGED <<fds, buffered, local, pipe_fd, flow, lost>>

PipCmd == MakePipe \/ PipeFails \/ ForkLeft \/ ForkRight \/ ForkSideFails
          \/ ClosePipe \/ WaitLeft \/ WaitRight

ExecuteCommandMain(p) ==
    ParseWord(p) \/ Redirect(p) \/ RedirectFails(p) \/ ParseEnds(p)
    \/ ForkCommand(p) \/ ForkFails(p) \/ Wait(p)

Child(p) == Exec(p) \/ ExecFails(p) \/ Exit(Command[p])

Program(c) == WriteItem(c) \/ BrokenPipe(c) \/ ReadItem(c) \/ EndOfInput(c) \/ Finish(c)
=============================================================================
