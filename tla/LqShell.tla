------------------------------- MODULE LqShell -------------------------------
(***************************************************************************)
(* LQ_SHELL: the loop of main with its built-in commands, redirections and *)
(* pipes.  A line is what parse_input makes of it.                         *)
(***************************************************************************)
EXTENDS LqBuiltins

CONSTANTS
    Lines,          \* lines that may be typed
    MaxLost         \* bound: a line is read only below this many lost descriptors

Kinds == {"blank", "prints", "simple", "pipe", "badpipe", "cp", "mv", "free", "exit"}

ASSUME LinesAssumption ==
    /\ Lines \subseteq [kind : Kinds, cmd1 : Seq(Tokens), cmd2 : Seq(Tokens)]
    /\ MaxLost \in Nat

VARIABLES
    interactive,    \* are standard input and output a terminal?
    line            \* the line that is executed

vars == <<execVars, fileVars, interactive, line>>

NoLine == [kind |-> "blank", cmd1 |-> <<>>, cmd2 |-> <<>>]

Init ==
    /\ ExecInit
    /\ BuiltinInit
    /\ interactive \in BOOLEAN
    /\ line = NoLine

-----------------------------------------------------------------------------
(* main *)

LostFds == Cardinality({n \in 3..MaxFds-1 : fds[Shell][n] # "closed"})

\* Mutant of Prompted: getline leaves the prompt in the buffer.
PromptedLater == TRUE

\* The prompt has no newline.  On a terminal getline writes it out; else it
\* stays in the buffer, where it is when the shell forks.
Prompted == ~interactive

\* printf, getline, parse_input and the chain of strcmp.
ReadLine ==
    /\ pc[Shell] = "prompt"
    /\ LostFds <= MaxLost
    /\ buffered' = [buffered EXCEPT ![Shell] = Prompted]
    /\ line' \in Lines
    /\ line'.kind \notin {"cp", "mv"} => BuiltinReset
    /\ Enter(line')
    /\ CASE line'.kind \in {"blank", "prints", "badpipe"} -> UNCHANGED pc
         [] line'.kind = "simple"                         -> Goto(Shell, "parse")
         [] line'.kind \in {"pipe", "free", "exit"}       -> Goto(Shell, line'.kind)
         [] line'.kind \in {"cp", "mv"}                   -> BuiltinStart(line'.kind)
    /\ wrote' = 0 /\ got' = <<>> /\ pipe' = <<>>
    /\ UNCHANGED <<fds, pipe_fd, todo, lost, interactive>>

\* End of input, or an error of getline.
EndOfFile ==
    /\ pc[Shell] = "prompt"
    /\ Goto(Shell, "exit")
    /\ UNCHANGED <<fds, buffered, local, pipe_fd, flow, lost, fileVars, interactive, line>>

ShellExits ==
    /\ pc[Shell] = "exit"
    /\ Die(Shell)
    /\ UNCHANGED <<local, pipe_fd, flow, lost, fileVars, interactive, line>>

ShellStep ==
    \/ ReadLine \/ EndOfFile \/ ShellExits
    \/ (PipCmd \/ ExecuteCommandMain(Shell)) /\ UNCHANGED <<fileVars, interactive, line>>
    \/ Builtin /\ UNCHANGED <<interactive, line>>

\* The processes of a line.
SideStep(p) == \/ p = "left" /\ SetupLeft
               \/ p = "right" /\ SetupRight
               \/ ExecuteCommandMain(p)
               \/ Exit(p)

Next ==
    \/ ShellStep
    \/ /\ \/ \E p \in {"left", "right"} : SideStep(p)
          \/ \E p \in Workers : Child(p)
          \/ \E c \in Commands : Program(c) \/ CommandStops(c)
       /\ UNCHANGED <<fileVars, interactive, line>>
    \/ Others /\ UNCHANGED <<interactive, line>>

Spec == Init /\ [][Next]_vars

\* Every process that can run does.  Nobody has to type.
Fairness ==
    /\ WF_vars(ShellStep /\ pc[Shell] # "prompt")
    /\ \A p \in {"left", "right"} : WF_vars(SideStep(p) /\ UNCHANGED <<fileVars, interactive, line>>)
    /\ \A p \in Workers :
         WF_vars((Child(p) \/ Program(Command[p])) /\ UNCHANGED <<fileVars, interactive, line>>)

FairSpec == Spec /\ Fairness
-----------------------------------------------------------------------------
(* Properties *)

Labels == {"none", "prompt", "parse", "fork", "wait", "child", "run", "end", "exit",
           "dead", "pipe", "fork1", "fork2", "close", "wait1", "wait2", "setup", "cp",
           "cp_stat", "cp_test", "cp_open", "cp_create", "cp_copy", "mv", "mv_stat",
           "mv_test", "mv_rename", "free"}

\* Every variable keeps its type; args has room for the NULL behind its words.
TypeOK ==
    /\ pc \in [Processes -> Labels]
    /\ fds \in [Processes -> [0..MaxFds-1 -> Opens]]
    /\ buffered \in [Processes -> BOOLEAN]
    /\ args \in [Workers -> Seq(Tokens)]
    /\ \A p \in Workers : at[p] \in 1..Len(args[p]) + 1
    /\ words \in [Workers -> 0..MaxArgs-1]
    /\ redir \in [Workers -> [Streams -> 0..MaxFds-1]]
    /\ pipe \in Seq({"data", "prompt"}) /\ Len(pipe) <= PipeCap
    /\ got \in Seq({"data", "prompt"})
    /\ todo \in [Commands -> 0..MaxItems]
    /\ entry \in [Paths -> Inodes \cup {"none", "dir"}]
    /\ from \in Inodes \cup {"none"} /\ to \in Inodes \cup {"none"}
    /\ line \in Lines \cup {NoLine}

\* When the shell prompts nothing that it started is still there, running or
\* as a zombie, and it holds no end of a pipe.  A command line or a copy,
\* whether it succeeds or not, has given back every descriptor it took, except
\* those of a redirection that was followed by another of the same stream, by
\* one that failed, or by a fork that failed.
LeavesAsFound ==
    pc[Shell] = "prompt" =>
        /\ \A p \in Processes \ {Shell} : pc[p] = "none"
        /\ ~Holds(Shell, "pipe_r") /\ ~Holds(Shell, "pipe_w")
        /\ ~lost => fds[Shell] = StdTable

\* The command at the right end, and the process that waits for it, never
\* hold the write end that would keep the end of the input from them; nobody
\* at the left end holds the read end, which would hide a broken pipe.
EndsApart ==
    /\ \A p \in {"right", "rcmd"} : pc[p] # "setup" => ~Holds(p, "pipe_w")
    /\ \A p \in {"left", "lcmd"} : pc[p] # "setup" => ~Holds(p, "pipe_r")

\* The tokens the loop gets to see before args is full.
Seen(argv) ==
    {n \in DOMAIN argv :
        Cardinality({k \in 1..n-1 : argv[k].op = "word"}) < MaxArgs - 1}

\* What stream s of the command of p has to be open on.
Asked(p, s) ==
    LET named == {n \in Seen(args[p]) : args[p][n].op # "word" /\ Stream(args[p][n]) = s}
    IN  IF named # {} THEN args[p][Max(named)].file
        ELSE IF p = "left" /\ s = 1 THEN "pipe_w"
        ELSE IF p = "right" /\ s = 0 THEN "pipe_r"
        ELSE StdTable[s]

\* A program runs with each standard stream open on the last redirection of
\* that stream in its part of the line, else on the pipe, else on the
\* shell's own, however many redirections came in which order.
StreamsAsAsked ==
    /\ TypeOK
    /\ \A p \in Workers : pc[Command[p]] = "run" =>
         \A s \in Streams : fds[Command[p]][s] = Asked(p, s)

\* On a terminal the right command reads what the left one wrote and nothing
\* else, and at the end of its input it has read all of it.
PipeFaithful ==
    interactive =>
        /\ \A k \in DOMAIN got : got[k] = "data"
        /\ pc["rcmd"] = "end" /\ fds["rcmd"][0] = "pipe_r" => Len(got) = wrote

\* Without outside interference and without a read error, a copy of which
\* success is reported has all of the source, under the name that was given
\* or in the directory that was given.
CopyComplete ==
    outcome = "copied" /\ meddled = 0 =>
        /\ content[entry[full]] = begun.content[begun.entry["src"]]
        /\ full = "in" <=> begun.entry["dst"] = "dir"

\* Whatever others do meanwhile, cplq changes no file but its own new one, and
\* mvlq takes away none that was at the target when it began: only one that
\* others put there between its test and its rename.
NothingDestroyed ==
    [][Builtin => \A f \in Linked : /\ content'[f] = content[f] \/ f = to
                                    /\ f \in Linked' \/ f \in others]_vars

\* Every line that is read comes to an end: the next prompt, or the exit.
PromptReturns == pc[Shell] # "prompt" ~> pc[Shell] \in {"prompt", "dead"}
=============================================================================
