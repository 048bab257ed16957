---------------------------- MODULE LqShellProofs ----------------------------
(***************************************************************************)
(* LqShell for any lines, files, descriptor limit and size of a pipe: no   *)
(* process keeps an end of the pipe it must not have; and, whatever other  *)
(* processes do in the directory meanwhile, what cplq and mvlq do to the   *)
(* files.                                                                  *)
(***************************************************************************)
EXTENDS LqShell, FiniteSetTheorems, WellFoundedInduction, TLAPS

Descriptors == 0..MaxFds-1
Tables      == [Descriptors -> Opens]

\* The types the descriptors depend on.
FdTypes ==
    /\ pc \in [Processes -> Labels]
    /\ fds \in [Processes -> Tables]
    /\ args \in [Workers -> Seq(Tokens)]
    /\ at \in [Workers -> Nat \ {0}]
    /\ redir \in [Workers -> [Streams -> Descriptors]]
    /\ pipe_fd \in [1..2 -> Descriptors]

\* A command exists while its parent waits for it, and the sides of a pipe
\* only between their fork and their wait, unless the shell exits.
Phases ==
    /\ \A p \in {"left", "right"} : pc[p] # "wait" => pc[Command[p]] = "none"
    /\ pc[Shell] \notin {"fork2", "close", "wait1", "exit", "dead"} => pc["left"] = "none"
    /\ pc[Shell] \notin {"close", "wait1", "wait2", "exit", "dead"} => pc["right"] = "none"

Without(t, end) == \A n \in Descriptors : t[n] # end

\* A table has the ends of the pipe only where pipe_fd says.
OnlyAtPipeFd(t) ==
    \A n \in Descriptors : /\ t[n] = "pipe_r" => n = pipe_fd[1]
                           /\ t[n] = "pipe_w" => n = pipe_fd[2]

Ends ==
    /\ OnlyAtPipeFd(fds[Shell])
    /\ pc[Shell] \notin {"fork1", "fork2", "close", "exit"} =>
         Without(fds[Shell], "pipe_r") /\ Without(fds[Shell], "pipe_w")
    /\ \A p \in {"left", "right"} : pc[p] = "setup" => OnlyAtPipeFd(fds[p])
    /\ pc["left"] # "setup" => Without(fds["left"], "pipe_r")
    /\ pc["right"] # "setup" => Without(fds["right"], "pipe_w")
    /\ Without(fds["lcmd"], "pipe_r")
    /\ Without(fds["rcmd"], "pipe_w")

EndsInv == FdTypes /\ Phases /\ Ends

-----------------------------------------------------------------------------
(* Lemmas about processes and tables *)

LEMMA ProcessFacts ==
    /\ Shell = "shell"
    /\ Workers = {"shell", "left", "right"}
    /\ Commands = {"scmd", "lcmd", "rcmd"}
    /\ Processes = {"shell", "left", "right", "scmd", "lcmd", "rcmd"}
    /\ Command["shell"] = "scmd" /\ Command["left"] = "lcmd" /\ Command["right"] = "rcmd"
<1>1. Shell = "shell" /\ Workers = {"shell", "left", "right"}
  BY DEF Shell, Workers
<1>2. Command["shell"] = "scmd" /\ Command["left"] = "lcmd" /\ Command["right"] = "rcmd"
  BY DEF Command
<1>3. Commands = {"scmd", "lcmd", "rcmd"}
  BY <1>1, <1>2 DEF Commands
<1> QED
  BY <1>1, <1>2, <1>3 DEF Processes

LEMMA LeastElement ==
    ASSUME NEW S \in SUBSET Nat, S # {}
    PROVE  Min(S) \in S
<1>1. \E x \in S : \A y \in S : ~(<<y, x>> \in OpToRel(<, Nat))
  BY NatLessThanWellFounded, WFMin
<1>2. \A x, y \in Nat : y < x => <<y, x>> \in OpToRel(<, Nat)
  BY DEF OpToRel
<1>3. \E x \in S : \A y \in S : ~(y < x)
  BY <1>1, <1>2, Zenon
<1>4. \E x \in S : \A y \in S : x <= y
  BY <1>3
<1> QED
  BY <1>4 DEF Min

\* open takes a descriptor of the table.
LEMMA LowestFree ==
    ASSUME NEW t \in Tables, Free(t) # {}
    PROVE  Lowest(t) \in Descriptors
<1>1. Free(t) \subseteq Descriptors /\ Descriptors \subseteq Nat
  BY ExecuteAssumption DEF Free, Tables, Descriptors
<1>2. Min(Free(t)) \in Free(t)
  BY <1>1, LeastElement
<1> QED
  BY <1>1, <1>2 DEF Lowest

LEMMA OpensFacts ==
    /\ {"closed", "pipe_r", "pipe_w", "source", "target"} \subseteq Opens
    /\ Files \subseteq Opens
    /\ "pipe_r" \notin Files /\ "pipe_w" \notin Files
BY ExecuteAssumption DEF Opens

\* What a redirection opens is a file, not an end of the pipe.
LEMMA TokenFacts ==
    ASSUME NEW t \in Tokens, t.op # "word", t.file # "missing"
    PROVE  t.file \in Files /\ Stream(t) \in Streams
<1>1. t \in [op : {"<", ">", "2>"}, file : Files \cup {"missing"}]
  BY DEF Tokens
<1>2. t.op \in {"<", ">", "2>"} /\ t.file \in Files
  BY <1>1
<1> QED
  BY <1>2 DEF Stream, Streams

\* Moving a descriptor brings no end into a table.
LEMMA MoveFacts ==
    ASSUME NEW t \in Tables, NEW m \in Descriptors, NEW n \in Descriptors
    PROVE  /\ Move(t, m, n) \in Tables
           /\ Without(t, "pipe_r") => Without(Move(t, m, n), "pipe_r")
           /\ Without(t, "pipe_w") => Without(Move(t, m, n), "pipe_w")
BY OpensFacts DEF Move, Tables, Without

LEMMA CloseFacts ==
    ASSUME NEW t \in Tables, NEW n \in Descriptors
    PROVE  /\ Close(t, n) \in Tables
           /\ Without(t, "pipe_r") => Without(Close(t, n), "pipe_r")
           /\ Without(t, "pipe_w") => Without(Close(t, n), "pipe_w")
           /\ Close(t, n)[n] = "closed"
           /\ \A k \in Descriptors : Close(t, n)[k] \in {t[k], "closed"}
BY OpensFacts DEF Close, Tables, Without

LEMMA RedirectedFacts ==
    ASSUME NEW t \in Tables, NEW r \in [Streams -> Descriptors]
    PROVE  /\ Redirected(t, r) \in Tables
           /\ Without(t, "pipe_r") => Without(Redirected(t, r), "pipe_r")
           /\ Without(t, "pipe_w") => Without(Redirected(t, r), "pipe_w")
<1>1. /\ r[0] \in Descriptors /\ r[1] \in Descriptors /\ r[2] \in Descriptors
      /\ 0 \in Descriptors /\ 1 \in Descriptors /\ 2 \in Descriptors
  BY ExecuteAssumption DEF Streams, Descriptors
<1> DEFINE t1 == Move(t, r[0], 0)
           t2 == Move(t1, r[1], 1)
<1>2. /\ t1 \in Tables
      /\ Without(t, "pipe_r") => Without(t1, "pipe_r")
      /\ Without(t, "pipe_w") => Without(t1, "pipe_w")
  BY <1>1, MoveFacts
<1> HIDE DEF t1
<1>3. /\ t2 \in Tables
      /\ Without(t1, "pipe_r") => Without(t2, "pipe_r")
      /\ Without(t1, "pipe_w") => Without(t2, "pipe_w")
  BY <1>1, <1>2, MoveFacts
<1> HIDE DEF t2
<1>4. /\ Move(t2, r[2], 2) \in Tables
      /\ Without(t2, "pipe_r") => Without(Move(t2, r[2], 2), "pipe_r")
      /\ Without(t2, "pipe_w") => Without(Move(t2, r[2], 2), "pipe_w")
  BY <1>1, <1>3, MoveFacts
<1> QED
  BY <1>2, <1>3, <1>4 DEF Redirected, t1, t2

LEMMA ShutFacts ==
    Shut \in Tables /\ Without(Shut, "pipe_r") /\ Without(Shut, "pipe_w")
BY OpensFacts DEF Shut, Tables, Descriptors, Without

\* The ends stay apart in the sides once pipCmd's children have set up.
LEMMA SetupFacts ==
    ASSUME FdTypes, NEW t \in Tables, OnlyAtPipeFd(t)
    PROVE  /\ LeftTable(t) \in Tables /\ Without(LeftTable(t), "pipe_r")
           /\ RightTable(t) \in Tables /\ Without(RightTable(t), "pipe_w")
<1>1. /\ pipe_fd[1] \in Descriptors /\ pipe_fd[2] \in Descriptors
      /\ 0 \in Descriptors /\ 1 \in Descriptors
  BY ExecuteAssumption DEF FdTypes, Descriptors
<1> DEFINE l == Close(t, pipe_fd[1])
           r == Close(t, pipe_fd[2])
<1>2. l \in Tables /\ Without(l, "pipe_r")
  BY <1>1, CloseFacts DEF OnlyAtPipeFd, Without
<1>3. r \in Tables /\ Without(r, "pipe_w")
  BY <1>1, CloseFacts DEF OnlyAtPipeFd, Without
<1> HIDE DEF l, r
<1>4. Move(l, pipe_fd[2], 1) \in Tables /\ Without(Move(l, pipe_fd[2], 1), "pipe_r")
  BY <1>1, <1>2, MoveFacts
<1>5. Move(r, pipe_fd[1], 0) \in Tables /\ Without(Move(r, pipe_fd[1], 0), "pipe_w")
  BY <1>1, <1>3, MoveFacts
<1> QED
  BY <1>4, <1>5 DEF LeftTable, RightTable, l, r

-----------------------------------------------------------------------------
(* The invariant *)

LEMMA EndsInit == Init => EndsInv
<1> SUFFICES ASSUME Init PROVE EndsInv
  OBVIOUS
<1> USE ProcessFacts, OpensFacts, ExecuteAssumption
<1>1. StdTable \in Tables /\ Without(StdTable, "pipe_r") /\ Without(StdTable, "pipe_w")
  BY DEF StdTable, Tables, Descriptors, Without, Opens
<1>2. fds \in [Processes -> Tables] /\ pc \in [Processes -> Labels]
  BY <1>1, ShutFacts DEF Init, ExecInit, Labels
<1>3. redir \in [Workers -> [Streams -> Descriptors]] /\ pipe_fd \in [1..2 -> Descriptors]
  BY DEF Init, ExecInit, NoRedir, Streams, Descriptors
<1>4. args \in [Workers -> Seq(Tokens)] /\ at \in [Workers -> Nat \ {0}]
  BY DEF Init, ExecInit
<1>5. Phases
  BY DEF Init, ExecInit, Phases
<1>6. /\ fds["shell"] = StdTable
      /\ \A p \in Processes \ {"shell"} : fds[p] = Shut /\ pc[p] = "none"
  BY DEF Init, ExecInit
<1>7. Ends
  BY <1>1, <1>6, ShutFacts DEF Ends, OnlyAtPipeFd, Without
<1> QED
  BY <1>2, <1>3, <1>4, <1>5, <1>7 DEF EndsInv, FdTypes

\* Steps that move one process from one label to another.
LEMMA GotoTyped ==
    ASSUME pc \in [Processes -> Labels], NEW p \in Processes, NEW l \in Labels, Goto(p, l)
    PROVE  /\ pc' \in [Processes -> Labels] /\ pc'[p] = l
           /\ \A q \in Processes \ {p} : pc'[q] = pc[q]
BY DEF Goto

\* A process that dies closes all it holds.
LEMMA DieTyped ==
    ASSUME FdTypes, NEW p \in Processes, Die(p)
    PROVE  /\ pc' \in [Processes -> Labels] /\ pc'[p] = "dead"
           /\ fds' \in [Processes -> Tables] /\ fds'[p] = Shut
           /\ \A q \in Processes \ {p} : pc'[q] = pc[q] /\ fds'[q] = fds[q]
BY ShutFacts DEF FdTypes, Die, Goto, Labels

PipeLabels == {"fork1", "fork2", "close", "wait1", "wait2"}

\* A step of one process that brings no end of the pipe into its table, ends
\* no wait and takes no part in pipCmd.
LEMMA OneProcess ==
    ASSUME EndsInv, FdTypes', pipe_fd' = pipe_fd, NEW p \in Processes,
           \A q \in Processes \ {p} : pc'[q] = pc[q] /\ fds'[q] = fds[q],
           Without(fds[p], "pipe_r") => Without(fds'[p], "pipe_r"),
           Without(fds[p], "pipe_w") => Without(fds'[p], "pipe_w"),
           pc[p] # "none", pc[p] # "setup", pc'[p] # "setup", pc'[p] # "none",
           p \in {"left", "right"} /\ pc[p] = "wait" => pc'[p] = "wait",
           p = Shell => pc[p] \notin PipeLabels \cup {"exit", "dead"}
                        /\ pc'[p] \notin PipeLabels
    PROVE  EndsInv'
<1> USE ProcessFacts DEF EndsInv
<1>1. CASE p = "shell"
  <2>1. Phases'
    BY <1>1 DEF Phases, PipeLabels
  <2>2. Without(fds["shell"], "pipe_r") /\ Without(fds["shell"], "pipe_w")
    BY <1>1 DEF Ends, PipeLabels
  <2>3. Without(fds'["shell"], "pipe_r") /\ Without(fds'["shell"], "pipe_w")
    BY <1>1, <2>2
  <2>4. OnlyAtPipeFd(fds["shell"])'
    BY <2>3 DEF OnlyAtPipeFd, Without
  <2>5. Ends'
    BY <1>1, <2>3, <2>4 DEF Ends, OnlyAtPipeFd, Without
  <2> QED
    BY <2>1, <2>5
<1>2. CASE p \in {"left", "right"}
  <2>1. Phases'
    BY <1>2 DEF Phases
  <2>2. Ends'
    BY <1>2 DEF Ends, OnlyAtPipeFd, Without
  <2> QED
    BY <2>1, <2>2
<1>3. CASE p \in {"scmd", "lcmd", "rcmd"}
  <2>1. Phases'
    BY <1>3 DEF Phases
  <2>2. Ends'
    BY <1>3 DEF Ends, OnlyAtPipeFd, Without
  <2> QED
    BY <2>1, <2>2
<1> QED
  BY <1>1, <1>2, <1>3

-----------------------------------------------------------------------------
(* execute_command_main *)

LEMMA ReturnFacts ==
    ASSUME NEW p \in Workers
    PROVE  /\ ReturnTo(p) \in Labels
           /\ ReturnTo(p) \notin PipeLabels \cup {"none", "setup", "wait"}
BY DEF ReturnTo, Labels, PipeLabels

LEMMA InvParse ==
    ASSUME EndsInv, NEW p \in Workers,
           ParseWord(p) \/ Redirect(p) \/ RedirectFails(p) \/ ParseEnds(p) \/ ForkFails(p)
    PROVE  EndsInv'
<1> USE ProcessFacts
<1>0. p \in Processes /\ FdTypes
  BY DEF EndsInv
<1>1. CASE ParseWord(p)
  <2>1. /\ UNCHANGED <<pc, fds, args, redir, pipe_fd>> /\ at' = [at EXCEPT ![p] = @ + 1]
        /\ pc[p] = "parse"
    BY <1>1 DEF ParseWord, Parsing
  <2>2. FdTypes'
    BY <1>0, <2>1 DEF FdTypes
  <2> QED
    BY <1>0, <2>1, <2>2, OneProcess DEF PipeLabels
<1>2. CASE Redirect(p)
  <2> DEFINE n == Lowest(fds[p])
             f == Token(p).file
             s == Stream(Token(p))
  <2>1. /\ UNCHANGED <<pc, args, pipe_fd>> /\ at' = [at EXCEPT ![p] = @ + 1]
        /\ pc[p] = "parse" /\ at[p] <= Len(args[p])
        /\ Token(p).op # "word" /\ f # "missing" /\ Free(fds[p]) # {}
        /\ fds' = [fds EXCEPT ![p][n] = f]
        /\ redir' = [redir EXCEPT ![p][s] = n]
    BY <1>2 DEF Redirect, Parsing
  <2>2. Token(p) \in Tokens
    BY <1>0, <2>1 DEF Token, FdTypes
  <2>3. f \in Files /\ s \in Streams
    BY <2>1, <2>2, TokenFacts
  <2>4. n \in Descriptors
    BY <1>0, <2>1, LowestFree DEF FdTypes
  <2> HIDE DEF n, f, s
  <2>5. /\ fds' \in [Processes -> Tables]
        /\ fds'[p] = [fds[p] EXCEPT ![n] = f]
        /\ \A q \in Processes \ {p} : fds'[q] = fds[q]
    BY <1>0, <2>1, <2>3, <2>4, OpensFacts DEF FdTypes, Tables
  <2>6. FdTypes'
    BY <1>0, <2>1, <2>3, <2>4, <2>5 DEF FdTypes
  <2>7. /\ Without(fds[p], "pipe_r") => Without(fds'[p], "pipe_r")
        /\ Without(fds[p], "pipe_w") => Without(fds'[p], "pipe_w")
    BY <1>0, <2>3, <2>4, <2>5, OpensFacts DEF Without, FdTypes, Tables
  <2> QED
    BY <1>0, <2>1, <2>5, <2>6, <2>7, OneProcess DEF PipeLabels
<1>3. CASE RedirectFails(p) \/ ParseEnds(p) \/ ForkFails(p)
  <2>1. PICK l \in {ReturnTo(p), "fork"} : Goto(p, l)
    BY <1>3 DEF RedirectFails, ParseEnds, ForkFails
  <2>2. pc[p] \in {"parse", "fork"} /\ UNCHANGED <<fds, args, at, redir, pipe_fd>>
    BY <1>3 DEF RedirectFails, ParseEnds, ForkFails, Parsing, local
  <2>3. l \in Labels /\ l \notin PipeLabels \cup {"none", "setup", "wait"}
    BY ReturnFacts DEF Labels, PipeLabels
  <2>4. /\ pc' \in [Processes -> Labels] /\ pc'[p] = l
        /\ \A q \in Processes \ {p} : pc'[q] = pc[q]
    BY <1>0, <2>1, <2>3, GotoTyped DEF FdTypes
  <2>5. FdTypes'
    BY <1>0, <2>2, <2>4 DEF FdTypes
  <2> QED
    BY <1>0, <2>2, <2>3, <2>4, <2>5, OneProcess DEF PipeLabels
<1> QED
  BY <1>1, <1>2, <1>3

\* The command gets a copy of the table of its parent, which has set up.
LEMMA InvForkCommand ==
    ASSUME EndsInv, NEW p \in Workers, ForkCommand(p)
    PROVE  EndsInv'
<1> USE ProcessFacts DEF EndsInv
<1>1. /\ pc[p] = "fork" /\ UNCHANGED <<args, at, redir, pipe_fd>>
      /\ pc' = [pc EXCEPT ![p] = "wait", ![Command[p]] = "child"]
      /\ fds' = [fds EXCEPT ![Command[p]] = fds[p]]
  BY DEF ForkCommand, local
<1>2. p \in Processes /\ Command[p] \in Processes /\ Command[p] # p
  OBVIOUS
<1>3. /\ pc' \in [Processes -> Labels] /\ pc'[p] = "wait"
      /\ \A q \in Processes \ {p, Command[p]} : pc'[q] = pc[q]
  BY <1>1, <1>2 DEF FdTypes, Labels
<1>4. /\ fds' \in [Processes -> Tables] /\ fds'[Command[p]] = fds[p]
      /\ \A q \in Processes \ {Command[p]} : fds'[q] = fds[q]
  BY <1>1, <1>2 DEF FdTypes
<1>5. FdTypes'
  BY <1>1, <1>3, <1>4 DEF FdTypes
<1>6. Phases'
  BY <1>1, <1>3 DEF Phases
<1>7. Ends'
  <2>1. CASE p = "shell"
    BY <1>1, <1>3, <1>4, <2>1 DEF Ends, OnlyAtPipeFd
  <2>2. CASE p = "left"
    BY <1>1, <1>3, <1>4, <2>2 DEF Ends, OnlyAtPipeFd
  <2>3. CASE p = "right"
    BY <1>1, <1>3, <1>4, <2>3 DEF Ends, OnlyAtPipeFd
  <2> QED
    BY <2>1, <2>2, <2>3
<1> QED
  BY <1>5, <1>6, <1>7

LEMMA InvWait ==
    ASSUME EndsInv, NEW p \in Workers, Wait(p)
    PROVE  EndsInv'
<1> USE ProcessFacts DEF EndsInv
<1> DEFINE t == [n \in DOMAIN fds[p] |->
                  IF \E s \in Streams : redir[p][s] = n /\ n # s THEN "closed" ELSE fds[p][n]]
<1>1. /\ pc[p] = "wait" /\ UNCHANGED <<args, at, redir, pipe_fd>>
      /\ pc' = [pc EXCEPT ![p] = ReturnTo(p), ![Command[p]] = "none"]
      /\ fds' = [fds EXCEPT ![p] = t]
  BY DEF Wait, local
<1>2. p \in Processes /\ Command[p] \in Processes /\ Command[p] # p
  OBVIOUS
<1>3. /\ t \in Tables
      /\ Without(fds[p], "pipe_r") => Without(t, "pipe_r")
      /\ Without(fds[p], "pipe_w") => Without(t, "pipe_w")
  BY <1>2, OpensFacts DEF FdTypes, Tables, Without
<1> HIDE DEF t
<1>4. /\ pc' \in [Processes -> Labels] /\ pc'[p] = ReturnTo(p) /\ pc'[Command[p]] = "none"
      /\ \A q \in Processes \ {p, Command[p]} : pc'[q] = pc[q]
  BY <1>1, <1>2, ReturnFacts DEF FdTypes, Labels
<1>5. /\ fds' \in [Processes -> Tables] /\ fds'[p] = t
      /\ \A q \in Processes \ {p} : fds'[q] = fds[q]
  BY <1>1, <1>2, <1>3 DEF FdTypes
<1>6. FdTypes'
  BY <1>1, <1>4, <1>5 DEF FdTypes
<1>7. Phases'
  BY <1>1, <1>4, ReturnFacts DEF Phases, PipeLabels, ReturnTo
<1>8. Ends'
  <2>1. CASE p = "shell"
    <3>1. Without(t, "pipe_r") /\ Without(t, "pipe_w")
      BY <1>1, <1>3, <2>1 DEF Ends
    <3>2. OnlyAtPipeFd(fds["shell"])'
      BY <1>5, <2>1, <3>1 DEF OnlyAtPipeFd, Without
    <3> QED
      BY <1>1, <1>4, <1>5, <2>1, <3>1, <3>2 DEF Ends, OnlyAtPipeFd
  <2>2. CASE p = "left"
    BY <1>1, <1>3, <1>4, <1>5, <2>2, ReturnFacts DEF Ends, OnlyAtPipeFd
  <2>3. CASE p = "right"
    BY <1>1, <1>3, <1>4, <1>5, <2>3, ReturnFacts DEF Ends, OnlyAtPipeFd
  <2> QED
    BY <2>1, <2>2, <2>3
<1> QED
  BY <1>6, <1>7, <1>8

-----------------------------------------------------------------------------
(* The commands and the exits *)

\* A process other than the shell that dies.
LEMMA InvDie ==
    ASSUME EndsInv, NEW p \in Processes \ {Shell}, Die(p),
           pc[p] \notin {"none", "setup", "wait"}, UNCHANGED <<args, at, redir, pipe_fd>>
    PROVE  EndsInv'
<1>1. /\ pc' \in [Processes -> Labels] /\ pc'[p] = "dead"
      /\ fds' \in [Processes -> Tables] /\ fds'[p] = Shut
      /\ \A q \in Processes \ {p} : pc'[q] = pc[q] /\ fds'[q] = fds[q]
  BY DieTyped DEF EndsInv
<1>2. FdTypes'
  BY <1>1 DEF EndsInv, FdTypes
<1> QED
  BY <1>1, <1>2, ShutFacts, OneProcess DEF PipeLabels

LEMMA InvChild ==
    ASSUME EndsInv, NEW p \in Workers, Exec(p) \/ ExecFails(p)
    PROVE  EndsInv'
<1> USE ProcessFacts
<1> DEFINE c == Command[p]
<1>0. c \in Commands /\ c \in Processes /\ FdTypes /\ p \in Processes
  BY DEF EndsInv
<1> HIDE DEF c
<1>1. /\ pc[c] = "child" /\ UNCHANGED <<args, at, redir, pipe_fd>>
      /\ fds' = [fds EXCEPT ![c] = Redirected(@, redir[p])]
      /\ Goto(c, "run") \/ Goto(c, "exit")
  BY DEF Exec, ExecFails, local, c
<1>2. /\ fds[c] \in Tables /\ redir[p] \in [Streams -> Descriptors]
      /\ Redirected(fds[c], redir[p]) \in Tables
      /\ Without(fds[c], "pipe_r") => Without(Redirected(fds[c], redir[p]), "pipe_r")
      /\ Without(fds[c], "pipe_w") => Without(Redirected(fds[c], redir[p]), "pipe_w")
  BY <1>0, RedirectedFacts DEF FdTypes
<1>3. /\ fds' \in [Processes -> Tables] /\ fds'[c] = Redirected(fds[c], redir[p])
      /\ \A q \in Processes \ {c} : fds'[q] = fds[q]
  BY <1>0, <1>1, <1>2 DEF FdTypes
<1>4. /\ pc' \in [Processes -> Labels] /\ pc'[c] \in {"run", "exit"}
      /\ \A q \in Processes \ {c} : pc'[q] = pc[q]
  BY <1>0, <1>1 DEF FdTypes, Goto, Labels
<1>5. FdTypes'
  BY <1>0, <1>1, <1>3, <1>4 DEF FdTypes
<1>6. c # Shell /\ c \notin {"left", "right"}
  BY <1>0
<1> QED
  BY <1>0, <1>1, <1>2, <1>3, <1>4, <1>5, <1>6, OneProcess

LEMMA InvExit ==
    ASSUME EndsInv, NEW p \in Processes, Exit(p)
    PROVE  EndsInv'
BY InvDie DEF Exit, local

LEMMA InvProgram ==
    ASSUME EndsInv, NEW c \in Commands, Program(c) \/ CommandStops(c)
    PROVE  EndsInv'
<1> USE ProcessFacts
<1>0. c \in Processes /\ c # Shell /\ c \notin {"left", "right"} /\ FdTypes
  BY DEF EndsInv
<1>1. CASE WriteItem(c) \/ ReadItem(c)
  <2>1. pc[c] = "run" /\ UNCHANGED <<pc, fds, args, at, redir, pipe_fd>>
    BY <1>1 DEF WriteItem, ReadItem, local
  <2>2. FdTypes'
    BY <1>0, <2>1 DEF FdTypes
  <2> QED
    BY <1>0, <2>1, <2>2, OneProcess
<1>2. CASE BrokenPipe(c) \/ Finish(c) \/ CommandStops(c)
  BY <1>0, <1>2, InvDie DEF BrokenPipe, Finish, CommandStops, local
<1>3. CASE EndOfInput(c)
  <2>1. pc[c] = "run" /\ Goto(c, "end") /\ UNCHANGED <<fds, args, at, redir, pipe_fd>>
    BY <1>3 DEF EndOfInput, local
  <2>2. /\ pc' \in [Processes -> Labels] /\ pc'[c] = "end"
        /\ \A q \in Processes \ {c} : pc'[q] = pc[q]
    BY <1>0, <2>1, GotoTyped DEF FdTypes, Labels
  <2>3. FdTypes'
    BY <1>0, <2>1, <2>2 DEF FdTypes
  <2> QED
    BY <1>0, <2>1, <2>2, <2>3, OneProcess
<1> QED
  BY <1>1, <1>2, <1>3 DEF Program

-----------------------------------------------------------------------------
(* pipCmd *)

LEMMA InvMakePipe ==
    ASSUME EndsInv, MakePipe
    PROVE  EndsInv'
<1> USE ProcessFacts DEF EndsInv
<1> DEFINE t == fds["shell"]
           r == Lowest(t)
           w == Min(Free(t) \ {r})
<1>1. /\ pc["shell"] = "pipe" /\ Cardinality(Free(t)) >= 2
      /\ pipe_fd' = <<r, w>>
      /\ fds' = [fds EXCEPT !["shell"][r] = "pipe_r", !["shell"][w] = "pipe_w"]
      /\ Goto("shell", "fork1")
      /\ UNCHANGED <<args, at, redir>>
  BY DEF MakePipe, local
<1>2. t \in Tables /\ Free(t) \subseteq Descriptors /\ Descriptors \subseteq Nat
  BY ExecuteAssumption DEF FdTypes, Tables, Free, Descriptors
<1>3. r \in Descriptors /\ w \in Descriptors
  <2>1. Free(t) # {}
    BY <1>1, FS_EmptySet
  <2>2. Free(t) \ {r} # {}
    <3>1. SUFFICES ASSUME Free(t) = {r} PROVE FALSE
      BY <2>1
    <3>2. Cardinality({r}) = 1
      BY FS_Singleton
    <3> QED
      BY <1>1, <3>1, <3>2
  <2>3. Min(Free(t)) \in Free(t) /\ w \in Free(t) \ {r}
    BY <1>2, <2>1, <2>2, LeastElement
  <2> QED
    BY <1>2, <2>3 DEF Lowest
<1>4. Without(t, "pipe_r") /\ Without(t, "pipe_w")
  BY <1>1 DEF Ends
<1> HIDE DEF t, r, w
<1>5. /\ fds' \in [Processes -> Tables]
      /\ fds'["shell"] = [[t EXCEPT ![r] = "pipe_r"] EXCEPT ![w] = "pipe_w"]
      /\ \A q \in Processes \ {"shell"} : fds'[q] = fds[q]
  BY <1>1, <1>2, <1>3, OpensFacts DEF FdTypes, Tables, t
<1>6. /\ pc' \in [Processes -> Labels] /\ pc'["shell"] = "fork1"
      /\ \A q \in Processes \ {"shell"} : pc'[q] = pc[q]
  BY <1>1 DEF FdTypes, Goto, Labels
<1>7. pipe_fd' \in [1..2 -> Descriptors] /\ pipe_fd'[1] = r /\ pipe_fd'[2] = w
  BY <1>1, <1>3
<1>8. FdTypes'
  BY <1>1, <1>5, <1>6, <1>7 DEF FdTypes
<1>9. Phases'
  BY <1>1, <1>6 DEF Phases
<1>10. OnlyAtPipeFd(fds["shell"])'
  BY <1>2, <1>4, <1>5, <1>7 DEF OnlyAtPipeFd, Without, Tables
<1>11. Ends'
  BY <1>1, <1>5, <1>6, <1>9, <1>10 DEF Ends, Phases
<1> QED
  BY <1>8, <1>9, <1>11

LEMMA InvForkSide ==
    ASSUME EndsInv, ForkLeft \/ ForkRight
    PROVE  EndsInv'
<1> USE ProcessFacts DEF EndsInv
<1>1. CASE ForkLeft
  <2>1. /\ pc["shell"] = "fork1" /\ UNCHANGED <<args, at, redir, pipe_fd>>
        /\ pc' = [pc EXCEPT !["shell"] = "fork2", !["left"] = "setup"]
        /\ fds' = [fds EXCEPT !["left"] = fds["shell"]]
    BY <1>1 DEF ForkLeft, ForkSide, local
  <2>2. FdTypes'
    BY <2>1 DEF FdTypes, Labels
  <2>3. Phases'
    BY <2>1 DEF Phases, FdTypes
  <2>4. Ends'
    BY <2>1 DEF Ends, OnlyAtPipeFd, FdTypes
  <2> QED
    BY <2>2, <2>3, <2>4
<1>2. CASE ForkRight
  <2>1. /\ pc["shell"] = "fork2" /\ UNCHANGED <<args, at, redir, pipe_fd>>
        /\ pc' = [pc EXCEPT !["shell"] = "close", !["right"] = "setup"]
        /\ fds' = [fds EXCEPT !["right"] = fds["shell"]]
    BY <1>2 DEF ForkRight, ForkSide, local
  <2>2. FdTypes'
    BY <2>1 DEF FdTypes, Labels
  <2>3. Phases'
    BY <2>1 DEF Phases, FdTypes
  <2>4. Ends'
    BY <2>1 DEF Ends, OnlyAtPipeFd, FdTypes
  <2> QED
    BY <2>2, <2>3, <2>4
<1> QED
  BY <1>1, <1>2

\* The shell gives both ends up before it waits.
LEMMA InvClosePipe ==
    ASSUME EndsInv, ClosePipe
    PROVE  EndsInv'
<1> USE ProcessFacts DEF EndsInv
<1> DEFINE s == fds["shell"]
           t == Close(s, pipe_fd[1])
           u == Close(t, pipe_fd[2])
<1>1. /\ pc["shell"] = "close" /\ UNCHANGED <<args, at, redir, pipe_fd>>
      /\ fds' = [fds EXCEPT !["shell"] = u]
      /\ Goto("shell", "wait1")
  BY DEF ClosePipe, local
<1>2. s \in Tables /\ pipe_fd[1] \in Descriptors /\ pipe_fd[2] \in Descriptors
  BY DEF FdTypes
<1>3. OnlyAtPipeFd(s)
  BY DEF Ends
<1> HIDE DEF s
<1>4. /\ t \in Tables /\ t[pipe_fd[1]] = "closed"
      /\ \A k \in Descriptors : t[k] \in {s[k], "closed"}
  BY <1>2, CloseFacts
<1> HIDE DEF t
<1>5. /\ u \in Tables /\ u[pipe_fd[2]] = "closed"
      /\ \A k \in Descriptors : u[k] \in {t[k], "closed"}
  BY <1>2, <1>4, CloseFacts
<1> HIDE DEF u
<1>12. \A k \in Descriptors : u[k] # "pipe_r" /\ u[k] # "pipe_w"
  <2> SUFFICES ASSUME NEW k \in Descriptors PROVE u[k] # "pipe_r" /\ u[k] # "pipe_w"
    OBVIOUS
  <2>1. /\ s[k] = "pipe_r" => k = pipe_fd[1]
        /\ s[k] = "pipe_w" => k = pipe_fd[2]
    BY <1>3 DEF OnlyAtPipeFd
  <2> QED
    BY <1>4, <1>5, <2>1
<1>13. Without(u, "pipe_r") /\ Without(u, "pipe_w")
  BY <1>12 DEF Without
<1>6. /\ fds' \in [Processes -> Tables] /\ fds'["shell"] = u
      /\ \A q \in Processes \ {"shell"} : fds'[q] = fds[q]
  BY <1>1, <1>5 DEF FdTypes
<1>7. /\ pc' \in [Processes -> Labels] /\ pc'["shell"] = "wait1"
      /\ \A q \in Processes \ {"shell"} : pc'[q] = pc[q]
  BY <1>1 DEF FdTypes, Goto, Labels
<1>8. FdTypes'
  BY <1>1, <1>6, <1>7 DEF FdTypes
<1>9. Phases'
  BY <1>1, <1>7 DEF Phases
<1>10. OnlyAtPipeFd(fds["shell"])'
  BY <1>13, <1>6 DEF OnlyAtPipeFd, Without
<1>11. Ends'
  BY <1>1, <1>13, <1>5, <1>6, <1>7, <1>10 DEF Ends, OnlyAtPipeFd
<1> QED
  BY <1>8, <1>9, <1>11

LEMMA InvPipCmd ==
    ASSUME EndsInv, PipCmd
    PROVE  EndsInv'
<1> USE ProcessFacts DEF EndsInv
<1>1. CASE PipeFails
  <2>1. /\ pc["shell"] = "pipe" /\ Goto("shell", "exit")
        /\ UNCHANGED <<fds, args, at, redir, pipe_fd>>
    BY <1>1 DEF PipeFails, local
  <2>2. FdTypes'
    BY <2>1 DEF FdTypes, Goto, Labels
  <2>3. Phases'
    BY <2>1 DEF Phases, FdTypes, Goto
  <2>4. Ends'
    BY <2>1 DEF Ends, OnlyAtPipeFd, FdTypes, Goto
  <2> QED
    BY <2>2, <2>3, <2>4
<1>2. CASE ForkSideFails
  <2>1. /\ pc["shell"] \in {"fork1", "fork2"} /\ Goto("shell", "exit")
        /\ UNCHANGED <<fds, args, at, redir, pipe_fd>>
    BY <1>2 DEF ForkSideFails, local
  <2>2. FdTypes'
    BY <2>1 DEF FdTypes, Goto, Labels
  <2>3. Phases'
    BY <2>1 DEF Phases, FdTypes, Goto
  <2>4. Ends'
    BY <2>1 DEF Ends, OnlyAtPipeFd, FdTypes, Goto
  <2> QED
    BY <2>2, <2>3, <2>4
<1>3. CASE WaitLeft
  <2>1. /\ pc["shell"] = "wait1" /\ pc["left"] = "dead"
        /\ pc' = [pc EXCEPT !["shell"] = "wait2", !["left"] = "none"]
        /\ UNCHANGED <<fds, args, at, redir, pipe_fd>>
    BY <1>3 DEF WaitLeft, local
  <2>2. FdTypes'
    BY <2>1 DEF FdTypes, Labels
  <2>3. Phases'
    BY <2>1 DEF Phases, FdTypes
  <2>4. Ends'
    BY <2>1 DEF Ends, OnlyAtPipeFd, FdTypes
  <2> QED
    BY <2>2, <2>3, <2>4
<1>4. CASE WaitRight
  <2>1. /\ pc["shell"] = "wait2" /\ pc["right"] = "dead"
        /\ pc' = [pc EXCEPT !["shell"] = "prompt", !["right"] = "none"]
        /\ UNCHANGED <<fds, args, at, redir, pipe_fd>>
    BY <1>4 DEF WaitRight, local
  <2>2. FdTypes'
    BY <2>1 DEF FdTypes, Labels
  <2>3. Phases'
    BY <2>1 DEF Phases, FdTypes
  <2>4. Ends'
    BY <2>1 DEF Ends, OnlyAtPipeFd, FdTypes
  <2> QED
    BY <2>2, <2>3, <2>4
<1> QED
  BY <1>1, <1>2, <1>3, <1>4, InvMakePipe, InvForkSide, InvClosePipe DEF PipCmd

LEMMA InvSetup ==
    ASSUME EndsInv, SetupLeft \/ SetupRight
    PROVE  EndsInv'
<1> USE ProcessFacts DEF EndsInv
<1>1. CASE SetupLeft
  <2>1. /\ pc["left"] = "setup" /\ Goto("left", "parse")
        /\ fds' = [fds EXCEPT !["left"] = LeftTable(fds["left"])]
        /\ UNCHANGED <<args, at, redir, pipe_fd>>
    BY <1>1 DEF SetupLeft, local
  <2>2. fds["left"] \in Tables /\ OnlyAtPipeFd(fds["left"])
    BY <2>1 DEF FdTypes, Ends
  <2>3. LeftTable(fds["left"]) \in Tables /\ Without(LeftTable(fds["left"]), "pipe_r")
    BY <2>2, SetupFacts
  <2>4. /\ fds' \in [Processes -> Tables] /\ Without(fds'["left"], "pipe_r")
        /\ \A q \in Processes \ {"left"} : fds'[q] = fds[q]
    BY <2>1, <2>3 DEF FdTypes
  <2>5. /\ pc' \in [Processes -> Labels] /\ pc'["left"] = "parse"
        /\ \A q \in Processes \ {"left"} : pc'[q] = pc[q]
    BY <2>1 DEF FdTypes, Goto, Labels
  <2>6. FdTypes'
    BY <2>1, <2>4, <2>5 DEF FdTypes
  <2>7. Phases'
    BY <2>1, <2>5 DEF Phases
  <2>8. Ends'
    BY <2>1, <2>4, <2>5 DEF Ends, OnlyAtPipeFd
  <2> QED
    BY <2>6, <2>7, <2>8
<1>2. CASE SetupRight
  <2>1. /\ pc["right"] = "setup" /\ Goto("right", "parse")
        /\ fds' = [fds EXCEPT !["right"] = RightTable(fds["right"])]
        /\ UNCHANGED <<args, at, redir, pipe_fd>>
    BY <1>2 DEF SetupRight, local
  <2>2. fds["right"] \in Tables /\ OnlyAtPipeFd(fds["right"])
    BY <2>1 DEF FdTypes, Ends
  <2>3. RightTable(fds["right"]) \in Tables /\ Without(RightTable(fds["right"]), "pipe_w")
    BY <2>2, SetupFacts
  <2>4. /\ fds' \in [Processes -> Tables] /\ Without(fds'["right"], "pipe_w")
        /\ \A q \in Processes \ {"right"} : fds'[q] = fds[q]
    BY <2>1, <2>3 DEF FdTypes
  <2>5. /\ pc' \in [Processes -> Labels] /\ pc'["right"] = "parse"
        /\ \A q \in Processes \ {"right"} : pc'[q] = pc[q]
    BY <2>1 DEF FdTypes, Goto, Labels
  <2>6. FdTypes'
    BY <2>1, <2>4, <2>5 DEF FdTypes
  <2>7. Phases'
    BY <2>1, <2>5 DEF Phases
  <2>8. Ends'
    BY <2>1, <2>4, <2>5 DEF Ends, OnlyAtPipeFd
  <2> QED
    BY <2>6, <2>7, <2>8
<1> QED
  BY <1>1, <1>2

-----------------------------------------------------------------------------
(* The shell itself *)

\* A step of the shell outside pipCmd that keeps, closes or opens files.
LEMMA InvShellAlone ==
    ASSUME EndsInv, UNCHANGED <<args, at, redir, pipe_fd>>,
           pc[Shell] \notin PipeLabels \cup {"none", "setup", "exit", "dead"},
           NEW l \in Labels \ (PipeLabels \cup {"none", "setup"}), Goto(Shell, l),
           NEW t \in Tables, fds' = [fds EXCEPT ![Shell] = t],
           Without(fds[Shell], "pipe_r") => Without(t, "pipe_r"),
           Without(fds[Shell], "pipe_w") => Without(t, "pipe_w")
    PROVE  EndsInv'
<1> USE ProcessFacts
<1>1. /\ pc' \in [Processes -> Labels] /\ pc'[Shell] = l
      /\ \A q \in Processes \ {Shell} : pc'[q] = pc[q]
  BY GotoTyped DEF EndsInv, FdTypes
<1>2. /\ fds' \in [Processes -> Tables] /\ fds'[Shell] = t
      /\ \A q \in Processes \ {Shell} : fds'[q] = fds[q]
  BY DEF EndsInv, FdTypes
<1>3. FdTypes'
  BY <1>1, <1>2 DEF EndsInv, FdTypes
<1>4. Shell \notin {"left", "right"} /\ Shell \in Processes
  OBVIOUS
<1> QED
  BY <1>1, <1>2, <1>3, <1>4, OneProcess

LEMMA InvBuiltin ==
    ASSUME EndsInv, Builtin
    PROVE  EndsInv'
<1> USE ProcessFacts
<1> DEFINE t == fds[Shell]
<1>1. t \in Tables /\ pc \in [Processes -> Labels] /\ fds \in [Processes -> Tables]
      /\ Shell \in Processes
  BY DEF EndsInv, FdTypes
<1>2. UNCHANGED <<args, at, redir, pipe_fd>>
  BY DEF Builtin, local
<1>3. ASSUME fds' = fds, \/ UNCHANGED pc
                          \/ \E l \in Labels \ (PipeLabels \cup {"none", "setup"}) : Goto(Shell, l),
             pc[Shell] \notin PipeLabels \cup {"none", "setup", "exit", "dead"}
      PROVE  EndsInv'
  <2>1. fds' = [fds EXCEPT ![Shell] = t]
    BY <1>1, <1>3
  <2>2. CASE UNCHANGED pc
    <3>1. Goto(Shell, pc[Shell]) /\ pc[Shell] \in Labels \ (PipeLabels \cup {"none", "setup"})
      BY <1>1, <1>3, <2>2 DEF Goto
    <3> QED
      BY <1>1, <1>2, <1>3, <2>1, <3>1, InvShellAlone
  <2>3. CASE \E l \in Labels \ (PipeLabels \cup {"none", "setup"}) : Goto(Shell, l)
    BY <1>1, <1>2, <1>3, <2>1, <2>3, InvShellAlone
  <2> QED
    BY <1>3, <2>2, <2>3
<1>4. CASE /\ \/ AccessSource("cp", "cp_stat") \/ AccessSource("mv", "mv_stat")
              \/ StatTarget("cp_stat", "cp_test") \/ StatTarget("mv_stat", "mv_test")
              \/ AccessTarget("cp_test", "cp_open") \/ AccessTarget("mv_test", "mv_rename")
           /\ UNCHANGED fds
  <2>1. /\ \E l \in {"cp_stat", "mv_stat", "cp_test", "mv_test", "cp_open", "mv_rename", "prompt"} :
             Goto(Shell, l)
        /\ pc[Shell] \in {"cp", "mv", "cp_stat", "mv_stat", "cp_test", "mv_test"}
    BY <1>4 DEF AccessSource, StatTarget, AccessTarget, Back
  <2> QED
    BY <1>3, <1>4, <2>1 DEF PipeLabels, Labels
<1>5. CASE /\ OpenSourceFails \/ Rename \/ RenameFails \/ FreeCommand
           /\ UNCHANGED fds
  <2>1. /\ \E l \in {"prompt", "exit"} : Goto(Shell, l)
        /\ pc[Shell] \in {"cp_open", "mv_rename", "free"}
    BY <1>5 DEF OpenSourceFails, Rename, RenameFails, FreeCommand, Back
  <2> QED
    BY <1>3, <1>5, <2>1 DEF PipeLabels, Labels
<1>6. CASE CopyChunk
  <2>1. UNCHANGED <<pc, fds>> /\ pc[Shell] = "cp_copy"
    BY <1>6 DEF CopyChunk
  <2> QED
    BY <1>3, <2>1 DEF PipeLabels
<1>7. CASE OpenSource \/ CreateTarget
  <2> DEFINE n == Lowest(t)
  <2>1. /\ \E f \in {"source", "target"} : fds' = [fds EXCEPT ![Shell][n] = f]
        /\ Free(t) # {}
        /\ \E l \in {"cp_create", "cp_copy"} : Goto(Shell, l)
        /\ pc[Shell] \in {"cp_open", "cp_create"}
    BY <1>7 DEF OpenSource, CreateTarget
  <2>2. n \in Descriptors
    BY <1>1, <2>1, LowestFree
  <2> HIDE DEF n
  <2>3. PICK f \in {"source", "target"} : fds' = [fds EXCEPT ![Shell][n] = f]
    BY <2>1
  <2> DEFINE u == [t EXCEPT ![n] = f]
  <2>4. /\ u \in Tables
        /\ Without(t, "pipe_r") => Without(u, "pipe_r")
        /\ Without(t, "pipe_w") => Without(u, "pipe_w")
    BY <1>1, <2>2, OpensFacts DEF Tables, Without
  <2>5. fds' = [fds EXCEPT ![Shell] = u]
    BY <1>1, <2>3
  <2> HIDE DEF u
  <2>6. PICK l \in {"cp_create", "cp_copy"} : Goto(Shell, l)
    BY <2>1
  <2>7. l \in Labels \ (PipeLabels \cup {"none", "setup"})
    BY DEF PipeLabels, Labels
  <2> QED
    BY <1>2, <2>1, <2>4, <2>5, <2>6, <2>7, InvShellAlone DEF PipeLabels
<1>8. CASE CreateTargetFails \/ WriteFails \/ CopyEnds \/ ReadFails
  <2>1. /\ fds' = [fds EXCEPT ![Shell] = CopyTable]
        /\ Goto(Shell, "prompt")
        /\ pc[Shell] \in {"cp_create", "cp_copy"}
    BY <1>8 DEF CreateTargetFails, WriteFails, CopyEnds, ReadFails, Back
  <2>2. /\ CopyTable \in Tables
        /\ Without(t, "pipe_r") => Without(CopyTable, "pipe_r")
        /\ Without(t, "pipe_w") => Without(CopyTable, "pipe_w")
    BY <1>1, OpensFacts DEF CopyTable, Tables, Without, Descriptors
  <2>3. "prompt" \in Labels \ (PipeLabels \cup {"none", "setup"})
    BY DEF PipeLabels, Labels
  <2> QED
    BY <1>2, <2>1, <2>2, <2>3, InvShellAlone DEF PipeLabels
<1>9. CASE Cp
  <2>1. OpenSourceFails => UNCHANGED fds
    BY DEF OpenSourceFails
  <2> QED
    BY <1>4, <1>5, <1>6, <1>7, <1>8, <1>9, <2>1 DEF Cp
<1>10. CASE Mv
  BY <1>4, <1>5, <1>10 DEF Mv
<1>11. CASE FreeCommand
  <2>1. UNCHANGED fds
    BY <1>11 DEF FreeCommand
  <2> QED
    BY <1>5, <1>11, <2>1
<1> QED
  BY <1>9, <1>10, <1>11 DEF Builtin

\* The loop of main.
LEMMA InvLine ==
    ASSUME EndsInv, ReadLine \/ EndOfFile \/ ShellExits
    PROVE  EndsInv'
<1> USE ProcessFacts
<1>0. /\ FdTypes /\ Phases /\ Ends
      /\ pc \in [Processes -> Labels] /\ fds \in [Processes -> Tables]
  BY DEF EndsInv, FdTypes
<1>1. CASE ReadLine
  <2>1. /\ pc["shell"] = "prompt" /\ line' \in Lines /\ Enter(line')
        /\ UNCHANGED <<fds, pipe_fd>>
    BY <1>1 DEF ReadLine
  <2>2. \E l \in {"prompt", "parse", "pipe", "free", "exit", "cp", "mv"} :
          pc' = [pc EXCEPT !["shell"] = l]
    <3>1. line'.kind \in Kinds
      BY <2>1, LinesAssumption
    <3>2. CASE line'.kind \in {"blank", "prints", "badpipe"}
      <4>1. UNCHANGED pc
        BY <1>1, <3>2 DEF ReadLine
      <4> QED
        BY <1>0, <2>1, <4>1
    <3>3. CASE line'.kind = "simple"
      BY <1>1, <3>3 DEF ReadLine, Goto
    <3>4. CASE line'.kind \in {"pipe", "free", "exit"}
      BY <1>1, <3>4 DEF ReadLine, Goto
    <3>5. CASE line'.kind \in {"cp", "mv"}
      BY <1>1, <3>5 DEF ReadLine, BuiltinStart, Goto
    <3> QED
      BY <3>1, <3>2, <3>3, <3>4, <3>5 DEF Kinds
  <2>3. /\ args' \in [Workers -> Seq(Tokens)] /\ at' \in [Workers -> Nat \ {0}]
        /\ redir' \in [Workers -> [Streams -> Descriptors]]
    <3>1. line'.cmd1 \in Seq(Tokens) /\ line'.cmd2 \in Seq(Tokens)
      BY <2>1, LinesAssumption
    <3>2. NoRedir \in [Streams -> Descriptors]
      BY ExecuteAssumption DEF NoRedir, Streams, Descriptors
    <3>3. /\ args' = [p \in Workers |-> IF p = "right" THEN line'.cmd2 ELSE line'.cmd1]
          /\ at' = [p \in Workers |-> 1]
          /\ redir' = [p \in Workers |-> NoRedir]
      BY <2>1 DEF Enter
    <3>4. args' \in [Workers -> Seq(Tokens)]
      BY <3>1, <3>3
    <3>5. at' \in [Workers -> Nat \ {0}]
      BY <3>3
    <3>6. redir' \in [Workers -> [Streams -> Descriptors]]
      BY <3>2, <3>3
    <3> QED
      BY <3>4, <3>5, <3>6
  <2>4. PICK l \in {"prompt", "parse", "pipe", "free", "exit", "cp", "mv"} :
          pc' = [pc EXCEPT !["shell"] = l]
    BY <2>2
  <2>5. /\ pc' \in [Processes -> Labels] /\ pc'["shell"] = l
        /\ \A q \in Processes \ {"shell"} : pc'[q] = pc[q]
    BY <1>0, <2>4 DEF Labels
  <2>6. FdTypes'
    BY <1>0, <2>1, <2>3, <2>5 DEF FdTypes
  <2> QED
    BY <1>0, <2>1, <2>5, <2>6, OneProcess DEF PipeLabels
<1>2. CASE EndOfFile
  <2>1. /\ pc[Shell] = "prompt" /\ Goto(Shell, "exit")
        /\ UNCHANGED <<fds, args, at, redir, pipe_fd>>
    BY <1>2 DEF EndOfFile, local
  <2>2. /\ fds[Shell] \in Tables /\ fds' = [fds EXCEPT ![Shell] = fds[Shell]]
        /\ "exit" \in Labels \ (PipeLabels \cup {"none", "setup"})
    BY <1>0, <2>1 DEF PipeLabels, Labels
  <2> QED
    BY <2>1, <2>2, InvShellAlone DEF PipeLabels
<1>3. CASE ShellExits
  <2>1. pc["shell"] = "exit" /\ Die("shell") /\ UNCHANGED <<args, at, redir, pipe_fd>>
    BY <1>3 DEF ShellExits, local
  <2>2. /\ pc' \in [Processes -> Labels] /\ pc'["shell"] = "dead"
        /\ fds' \in [Processes -> Tables] /\ fds'["shell"] = Shut
        /\ \A q \in Processes \ {"shell"} : pc'[q] = pc[q] /\ fds'[q] = fds[q]
    BY <1>0, <2>1, DieTyped
  <2>3. FdTypes'
    BY <1>0, <2>1, <2>2 DEF FdTypes
  <2>4. Phases'
    BY <1>0, <2>1, <2>2 DEF Phases
  <2>5. OnlyAtPipeFd(fds["shell"])'
    BY <2>2, ShutFacts DEF OnlyAtPipeFd, Without
  <2>6. Ends'
    BY <1>0, <2>1, <2>2, <2>5, ShutFacts DEF Ends, OnlyAtPipeFd
  <2> QED
    BY <2>3, <2>4, <2>6 DEF EndsInv
<1> QED
  BY <1>1, <1>2, <1>3

-----------------------------------------------------------------------------
(* The theorem *)

LEMMA EndsStep == EndsInv /\ [Next]_vars => EndsInv'
<1> SUFFICES ASSUME EndsInv, [Next]_vars PROVE EndsInv'
  OBVIOUS
<1>1. \A p \in {"left", "right"} : p \in Workers /\ p \in Processes
  BY ProcessFacts
<1>2. CASE ShellStep
  <2>1. Shell \in Workers
    BY ProcessFacts
  <2>2. ASSUME ExecuteCommandMain(Shell) PROVE EndsInv'
    BY <2>1, <2>2, InvParse, InvForkCommand, InvWait DEF ExecuteCommandMain
  <2> QED
    BY <1>2, <2>2, InvLine, InvPipCmd, InvBuiltin DEF ShellStep
<1>3. ASSUME NEW p \in {"left", "right"}, SideStep(p)
      PROVE  EndsInv'
  <2>1. ASSUME ExecuteCommandMain(p) PROVE EndsInv'
    BY <1>1, <2>1, InvParse, InvForkCommand, InvWait DEF ExecuteCommandMain
  <2> QED
    BY <1>1, <1>3, <2>1, InvSetup, InvExit DEF SideStep
<1>4. ASSUME NEW p \in Workers, Child(p)
      PROVE  EndsInv'
  <2>1. Command[p] \in Processes
    BY ProcessFacts
  <2> QED
    BY <1>4, <2>1, InvChild, InvExit DEF Child
<1>5. CASE Others \/ UNCHANGED vars
  <2>1. UNCHANGED execVars
    BY <1>5 DEF Others, vars
  <2> QED
    BY <2>1 DEF execVars, EndsInv, FdTypes, Phases, Ends, OnlyAtPipeFd, Without
<1> QED
  BY <1>2, <1>3, <1>4, <1>5, InvProgram DEF Next

\* Whatever is typed, however many descriptors are lost, and whichever calls
\* fail: no reader at the right end of the pipe, and no process that waits
\* for it, holds the write end, and nobody at the left end the read end.
THEOREM NoEndHeld == Spec => []EndsApart
<1>1. EndsInv => EndsApart
  <2> SUFFICES ASSUME EndsInv PROVE EndsApart
    OBVIOUS
  <2>1. \A p \in {"left", "right", "lcmd", "rcmd"} : DOMAIN fds[p] = Descriptors
    BY ProcessFacts DEF EndsInv, FdTypes, Tables
  <2> QED
    BY <2>1 DEF EndsInv, Ends, EndsApart, Holds, Without
<1> QED
  BY <1>1, EndsInit, EndsStep, PTL DEF Spec

-----------------------------------------------------------------------------
(* What cplq and mvlq do to the files *)

Chunks     == Inodes \cup {"new"}
CopyLabels == {"cp", "cp_stat", "cp_test", "cp_open", "cp_create", "cp_copy"}
MoveLabels == {"mv", "mv_stat", "mv_test", "mv_rename"}

FileTypes ==
    /\ entry \in [Paths -> Inodes \cup {"none", "dir"}]
    /\ content \in [Inodes -> Seq(Chunks)]
    /\ full \in {"dst", "in"}
    /\ from \in Inodes \cup {"none"} /\ to \in Inodes \cup {"none"}
    /\ done \in Nat /\ meddled \in Nat
    /\ others \subseteq Inodes

\* The source is open from its open on, the target once it is created, and
\* the target is another file, with all that was written in it.
OpenFiles ==
    /\ pc[Shell] \in {"cp_create", "cp_copy"} => from \in Inodes
    /\ pc[Shell] \in CopyLabels \ {"cp_copy"} => done = 0
    /\ pc[Shell] = "cp_copy" => to \in Inodes /\ from # to /\ done <= Len(content[to])

\* A file that stands at the target after mv_command found nothing there was
\* put there by others.
MovePlace == pc[Shell] = "mv_rename" /\ entry[full] \in Inodes => entry[full] \in others

Running == pc[Shell] \in CopyLabels \cup MoveLabels => outcome = "none"

\* What a copy has done so far when nobody interferes.
Copying ==
    meddled = 0 =>
        /\ pc[Shell] \in CopyLabels \ {"cp_copy"} =>
             entry = begun.entry /\ content = begun.content
        /\ pc[Shell] \in {"cp_test", "cp_open", "cp_create", "cp_copy"} =>
             (full = "in" <=> begun.entry["dst"] = "dir")
        /\ pc[Shell] = "cp_create" => from = entry["src"]
        /\ pc[Shell] = "cp_copy" =>
             /\ entry[full] = to
             /\ content[from] = begun.content[begun.entry["src"]]
             /\ Len(content[to]) = done /\ done <= Len(content[from])
             /\ \A k \in 1..done : content[to][k] = content[from][k]

FilesInv == FileTypes /\ OpenFiles /\ MovePlace /\ Running /\ Copying /\ CopyComplete

-----------------------------------------------------------------------------
(* Lemmas about paths and contents *)

LEMMA PathFacts ==
    /\ "src" \in Paths /\ "dst" \in Paths /\ "in" \in Paths
    /\ "none" \notin Inodes /\ "dir" \notin Inodes
BY BuiltinAssumption DEF Paths

\* Writing the chunk behind the first n of a file.
LEMMA WriteChunk ==
    ASSUME NEW s \in Seq(Chunks), NEW n \in 0..Len(s),
           NEW t \in [DOMAIN s \cup {n + 1} -> Chunks]
    PROVE  /\ t \in Seq(Chunks)
           /\ n + 1 <= Len(t)
           /\ n = Len(s) => Len(t) = n + 1
<1> DEFINE L == Len(s)
           m == IF n = L THEN n + 1 ELSE L
<1>1. L \in Nat /\ n \in Nat /\ n <= L /\ DOMAIN s = 1..L
  OBVIOUS
<1> HIDE DEF L
<1>2. /\ m \in Nat /\ n + 1 <= m /\ (n = L => m = n + 1)
      /\ 1..L \cup {n + 1} = 1..m
  BY <1>1
<1> HIDE DEF m
<1>3. m \in Nat /\ t \in [1..m -> Chunks]
  BY <1>1, <1>2
<1>4. t \in Seq(Chunks) /\ Len(t) = m
  BY ONLY <1>3
<1>5. n + 1 <= Len(t) /\ (n = L => Len(t) = n + 1)
  BY ONLY <1>2, <1>4
<1> QED
  BY <1>4, <1>5 DEF L

-----------------------------------------------------------------------------
(* Which steps touch the files *)

\* Every other step leaves the files alone and starts no built-in command.
LEMMA OtherSteps ==
    ASSUME FdTypes, Next
    PROVE  \/ ReadLine \/ Builtin \/ Others
           \/ /\ UNCHANGED fileVars
              /\ pc'[Shell] = pc[Shell] \/ pc'[Shell] \notin CopyLabels \cup MoveLabels
<1> USE ProcessFacts DEF CopyLabels, MoveLabels
<1> DEFINE Same == pc'[Shell] = pc[Shell] \/ pc'[Shell] \notin CopyLabels \cup MoveLabels
<1>1. pc \in [Processes -> Labels]
  BY DEF FdTypes
<1>2. ASSUME EndOfFile \/ ShellExits
      PROVE  UNCHANGED fileVars /\ Same
  BY <1>1, <1>2 DEF EndOfFile, ShellExits, Die, Goto
<1>3. ASSUME PipCmd PROVE Same
  <2>1. CASE MakePipe \/ PipeFails \/ ForkSideFails \/ ClosePipe
    BY <1>1, <2>1 DEF MakePipe, PipeFails, ForkSideFails, ClosePipe, Goto
  <2>2. CASE ForkLeft \/ ForkRight
    BY <1>1, <2>2 DEF ForkLeft, ForkRight, ForkSide
  <2>3. CASE WaitLeft \/ WaitRight
    BY <1>1, <2>3 DEF WaitLeft, WaitRight
  <2> QED
    BY <1>3, <2>1, <2>2, <2>3 DEF PipCmd
<1>4. ASSUME NEW p \in Workers, ExecuteCommandMain(p) PROVE Same
  <2>1. CASE ParseWord(p) \/ Redirect(p)
    BY <2>1 DEF ParseWord, Redirect
  <2>2. CASE RedirectFails(p) \/ ParseEnds(p) \/ ForkFails(p)
    <3>1. \E l \in {"prompt", "exit", "fork"} : Goto(p, l)
      BY <2>2 DEF RedirectFails, ParseEnds, ForkFails, ReturnTo
    <3> QED
      BY <1>1, <3>1 DEF Goto
  <2>3. CASE ForkCommand(p) \/ Wait(p)
    <3>1. \E l \in {"prompt", "exit", "wait"}, k \in {"child", "none"} :
            pc' = [pc EXCEPT ![p] = l, ![Command[p]] = k]
      BY <2>3 DEF ForkCommand, Wait, ReturnTo
    <3> QED
      BY <1>1, <3>1
  <2> QED
    BY <1>4, <2>1, <2>2, <2>3 DEF ExecuteCommandMain
<1>5. ASSUME NEW p \in Processes, Exit(p) PROVE Same
  BY <1>1, <1>5 DEF Exit, Die, Goto
<1>6. ASSUME NEW p \in {"left", "right"}, SideStep(p) PROVE Same
  <2>1. p \in Workers /\ p \in Processes
    OBVIOUS
  <2>2. CASE SetupLeft \/ SetupRight
    BY <1>1, <2>2 DEF SetupLeft, SetupRight, Goto
  <2> QED
    BY <1>4, <1>5, <1>6, <2>1, <2>2 DEF SideStep
<1>7. ASSUME NEW p \in Workers, Child(p) PROVE Same
  <2>1. Command[p] \in Processes /\ Command[p] # Shell
    OBVIOUS
  <2>2. CASE Exec(p) \/ ExecFails(p)
    BY <1>1, <2>1, <2>2 DEF Exec, ExecFails, Goto
  <2> QED
    BY <1>5, <1>7, <2>1, <2>2 DEF Child
<1>8. ASSUME NEW c \in Commands, Program(c) \/ CommandStops(c) PROVE Same
  <2>1. c \in Processes /\ c # Shell
    OBVIOUS
  <2>2. CASE WriteItem(c) \/ ReadItem(c)
    BY <2>2 DEF WriteItem, ReadItem
  <2>3. CASE BrokenPipe(c) \/ Finish(c) \/ CommandStops(c) \/ EndOfInput(c)
    BY <1>1, <2>1, <2>3 DEF BrokenPipe, Finish, CommandStops, EndOfInput, Die, Goto
  <2> QED
    BY <1>8, <2>2, <2>3 DEF Program
<1>9. Shell \in Workers
  OBVIOUS
<1> HIDE DEF Same
<1>10. CASE ShellStep
  BY <1>2, <1>3, <1>4, <1>9, <1>10 DEF ShellStep, Same
<1> QED
  BY <1>6, <1>7, <1>8, <1>10 DEF Next, Same

-----------------------------------------------------------------------------
(* The invariant *)

LEMMA FilesInit == Init => FilesInv
<1> SUFFICES ASSUME Init PROVE FilesInv
  OBVIOUS
<1>1. /\ entry = [x \in Paths |-> "none"] /\ content = [f \in Inodes |-> <<>>]
      /\ full = "dst" /\ from = "none" /\ to = "none" /\ done = 0
      /\ others = {} /\ meddled = 0 /\ outcome = "none"
  BY DEF Init, BuiltinInit, Idle
<1>2. pc[Shell] = "prompt"
  BY ProcessFacts DEF Init, ExecInit
<1>3. FileTypes
  BY <1>1 DEF FileTypes
<1> QED
  BY <1>1, <1>2, <1>3
  DEF FilesInv, OpenFiles, MovePlace, Running, Copying, CopyComplete, CopyLabels, MoveLabels

LEMMA FilesUnchanged ==
    ASSUME FilesInv, UNCHANGED fileVars,
           pc'[Shell] = pc[Shell] \/ pc'[Shell] \notin CopyLabels \cup MoveLabels
    PROVE  FilesInv'
<1>1. UNCHANGED <<entry, content, full, from, to, done, begun, others, meddled, outcome>>
  BY DEF fileVars
<1>2. FileTypes'
  BY <1>1 DEF FilesInv, FileTypes
<1>3. OpenFiles' /\ MovePlace' /\ Running' /\ Copying'
  <2>1. CASE pc'[Shell] = pc[Shell]
    BY <1>1, <2>1 DEF FilesInv, OpenFiles, MovePlace, Running, Copying
  <2>2. CASE pc'[Shell] \notin CopyLabels \cup MoveLabels
    BY <2>2 DEF OpenFiles, MovePlace, Running, Copying, CopyLabels, MoveLabels
  <2> QED
    BY <2>1, <2>2
<1>4. CopyComplete'
  BY <1>1 DEF FilesInv, CopyComplete
<1> QED
  BY <1>2, <1>3, <1>4 DEF FilesInv

LEMMA FilesReadLine ==
    ASSUME FdTypes, FilesInv, ReadLine
    PROVE  FilesInv'
<1> USE ProcessFacts, PathFacts
<1>0. pc \in [Processes -> Labels]
  BY DEF FdTypes
<1>1. line'.kind \in Kinds
  BY LinesAssumption DEF ReadLine
<1>2. CASE line'.kind \notin {"cp", "mv"}
  <2>1. /\ entry' = [x \in Paths |-> "none"] /\ content' = [f \in Inodes |-> <<>>]
        /\ full' = "dst" /\ from' = "none" /\ to' = "none" /\ done' = 0
        /\ others' = {} /\ meddled' = 0 /\ outcome' = "none"
    BY <1>2 DEF ReadLine, BuiltinReset, Idle
  <2>2. pc'[Shell] \notin CopyLabels \cup MoveLabels
    <3>1. pc[Shell] = "prompt"
      BY DEF ReadLine
    <3>2. UNCHANGED pc \/ \E l \in {"parse", "pipe", "free", "exit"} : Goto(Shell, l)
      BY <1>1, <1>2 DEF ReadLine, Kinds
    <3> QED
      BY <1>0, <3>1, <3>2 DEF Goto, CopyLabels, MoveLabels
  <2>3. FileTypes'
    BY <2>1 DEF FileTypes
  <2> QED
    BY <2>1, <2>2, <2>3
    DEF FilesInv, OpenFiles, MovePlace, Running, Copying, CopyComplete, CopyLabels, MoveLabels
<1>3. CASE line'.kind \in {"cp", "mv"}
  <2>1. BuiltinStart(line'.kind)
    BY <1>3 DEF ReadLine
  <2>2. /\ pc'[Shell] = line'.kind /\ entry' \in StartDirs
        /\ begun' = [entry |-> entry', content |-> content']
        /\ full' = "dst" /\ from' = "none" /\ to' = "none" /\ done' = 0
        /\ others' = {} /\ meddled' = 0 /\ outcome' = "none"
    BY <1>0, <2>1 DEF BuiltinStart, Goto
  <2>3. PICK n \in 0..2 :
          content' = [f \in Inodes |-> [k \in 1..IF f = entry'["src"] THEN n ELSE 1 |-> f]]
    BY <2>1 DEF BuiltinStart
  <2>4. \A f \in Inodes, m \in Nat : [k \in 1..m |-> f] \in Seq(Chunks)
    BY DEF Chunks
  <2>5. \A f \in Inodes : (IF f = entry'["src"] THEN n ELSE 1) \in Nat
    OBVIOUS
  <2>6. content' \in [Inodes -> Seq(Chunks)]
    BY <2>3, <2>4, <2>5
  <2>7. entry' \in [Paths -> Inodes \cup {"none", "dir"}]
    BY <2>2, BuiltinAssumption
  <2>8. FileTypes'
    BY <2>2, <2>6, <2>7 DEF FileTypes
  <2> QED
    BY <1>3, <2>2, <2>8
    DEF FilesInv, OpenFiles, MovePlace, Running, Copying, CopyComplete, CopyLabels, MoveLabels
<1> QED
  BY <1>2, <1>3

\* What others do is in others, and they do not touch a file that only the
\* shell has open.
LEMMA FilesOthers ==
    ASSUME FilesInv, Others
    PROVE  FilesInv'
<1> USE PathFacts
<1>0. FileTypes /\ OpenFiles /\ MovePlace
  BY DEF FilesInv
<1>1. /\ UNCHANGED <<full, from, to, done, begun, outcome>> /\ pc' = pc
      /\ meddled \in Nat /\ meddled' = meddled + 1
      /\ InBuiltin
  BY <1>0 DEF Others, execVars, FileTypes
<1>2. /\ pc[Shell] \in CopyLabels \cup MoveLabels /\ outcome = "none"
      /\ outcome' = "none" /\ meddled' # 0 /\ meddled' \in Nat
  BY <1>1 DEF InBuiltin, CopyLabels, MoveLabels, FilesInv, Running
<1>3. Running' /\ Copying' /\ CopyComplete'
  BY <1>2 DEF Running, Copying, CopyComplete
<1>4. /\ entry' \in [Paths -> Inodes \cup {"none", "dir"}]
      /\ content' \in [Inodes -> Seq(Chunks)]
      /\ others' \subseteq Inodes /\ others \subseteq others'
      /\ \A x \in Paths : entry'[x] \in {entry[x], "none"} \cup others'
      /\ to \in Inodes => Len(content[to]) <= Len(content'[to])
  <2>1. CASE CreateFile
    <3>1. PICK x \in Paths, f \in Unused :
            /\ entry' = [entry EXCEPT ![x] = f]
            /\ content' = [content EXCEPT ![f] = <<"new">>]
            /\ others' = others \cup {f}
      BY <2>1 DEF CreateFile
    <3>2. f \in Inodes /\ f # to
      BY DEF Unused
    <3>3. <<"new">> \in Seq(Chunks)
      BY DEF Chunks
    <3>4. content' \in [Inodes -> Seq(Chunks)] /\ \A i \in Inodes \ {f} : content'[i] = content[i]
      BY <1>0, <3>1, <3>2, <3>3 DEF FileTypes
    <3>5. to \in Inodes => Len(content[to]) <= Len(content'[to])
      <4>1. to \in Inodes => Len(content[to]) \in Nat
        BY <1>0 DEF FileTypes
      <4> QED
        BY <3>2, <3>4, <4>1
    <3>6. /\ entry' \in [Paths -> Inodes \cup {"none", "dir"}]
          /\ \A y \in Paths : entry'[y] \in {entry[y], f}
      BY <1>0, <3>1, <3>2 DEF FileTypes
    <3> QED
      BY <1>0, <3>1, <3>2, <3>4, <3>5, <3>6 DEF FileTypes
  <2>2. CASE Remove
    <3>1. PICK x \in Paths : entry' = [entry EXCEPT ![x] = "none"]
      BY <2>2 DEF Remove
    <3>2. UNCHANGED <<content, others>>
      BY <2>2 DEF Remove
    <3>3. to \in Inodes => Len(content[to]) \in Nat
      BY <1>0 DEF FileTypes
    <3> QED
      BY <1>0, <3>1, <3>2, <3>3 DEF FileTypes
  <2>3. CASE AppendTo
    <3>1. PICK f \in Linked : /\ content' = [content EXCEPT ![f] = Append(@, "new")]
                              /\ others' = others \cup {f}
      BY <2>3 DEF AppendTo
    <3>2. f \in Inodes /\ entry' = entry
      BY <2>3 DEF Linked, AppendTo
    <3>3. /\ content[f] \in Seq(Chunks) /\ Append(content[f], "new") \in Seq(Chunks)
          /\ Len(Append(content[f], "new")) = Len(content[f]) + 1
      BY <1>0, <3>2 DEF FileTypes, Chunks
    <3>4. /\ content' \in [Inodes -> Seq(Chunks)] /\ content'[f] = Append(content[f], "new")
          /\ \A i \in Inodes \ {f} : content'[i] = content[i]
      BY <1>0, <3>1, <3>2, <3>3 DEF FileTypes
    <3>5. to \in Inodes => Len(content[to]) \in Nat
      BY <1>0 DEF FileTypes
    <3>6. to \in Inodes => Len(content[to]) <= Len(content'[to])
      BY <3>3, <3>4, <3>5
    <3> QED
      BY <1>0, <3>1, <3>2, <3>4, <3>6 DEF FileTypes
  <2> QED
    BY <2>1, <2>2, <2>3 DEF Others
<1>5. FileTypes'
  BY <1>0, <1>1, <1>2, <1>4 DEF FileTypes
<1>6. MovePlace'
  <2>1. full \in Paths /\ entry[full] \in Inodes \cup {"none", "dir"}
    BY <1>0 DEF FileTypes
  <2> QED
    BY <1>0, <1>1, <1>4, <2>1 DEF MovePlace
<1>7. OpenFiles'
  <2>1. pc[Shell] = "cp_copy" => done <= Len(content'[to])
    <3>1. pc[Shell] = "cp_copy" => /\ to \in Inodes /\ done <= Len(content[to])
                                   /\ content[to] \in Seq(Chunks) /\ content'[to] \in Seq(Chunks)
      BY <1>0, <1>4 DEF OpenFiles, FileTypes
    <3>2. pc[Shell] = "cp_copy" => Len(content[to]) \in Nat /\ Len(content'[to]) \in Nat /\ done \in Nat
      BY <1>0, <3>1 DEF FileTypes
    <3> QED
      BY <1>4, <3>1, <3>2
  <2> QED
    BY <1>0, <1>1, <2>1 DEF OpenFiles
<1> QED
  BY <1>3, <1>5, <1>6, <1>7 DEF FilesInv

-----------------------------------------------------------------------------
(* cp_command and mv_command *)

\* A command that returns, and has not taken a copy for complete that is not.
LEMMA FilesBack ==
    ASSUME FdTypes, FilesInv, Goto(Shell, "prompt"), FileTypes', CopyComplete'
    PROVE  FilesInv'
<1>1. pc'[Shell] = "prompt"
  BY ProcessFacts DEF FdTypes, Goto
<1> QED
  BY <1>1 DEF FilesInv, OpenFiles, MovePlace, Running, Copying, CopyLabels, MoveLabels

LEMMA FilesTests ==
    ASSUME FdTypes, FilesInv,
           \/ AccessSource("cp", "cp_stat") \/ AccessSource("mv", "mv_stat")
           \/ StatTarget("cp_stat", "cp_test") \/ StatTarget("mv_stat", "mv_test")
           \/ AccessTarget("cp_test", "cp_open") \/ AccessTarget("mv_test", "mv_rename")
    PROVE  FilesInv'
<1> USE ProcessFacts, PathFacts
<1>0. /\ FileTypes /\ OpenFiles /\ MovePlace /\ Running /\ Copying /\ CopyComplete
      /\ pc \in [Processes -> Labels]
  BY DEF FilesInv, FdTypes
<1>1. /\ UNCHANGED <<entry, content, from, to, done, begun, others, meddled>>
      /\ full' \in {"dst", "in"}
  BY <1>0 DEF AccessSource, StatTarget, AccessTarget, world, history, FileTypes
<1>2. FileTypes'
  BY <1>0, <1>1 DEF FileTypes
<1>3. CASE \E message \in {"no source", "exists"} : Back(message)
  <2>1. Goto(Shell, "prompt") /\ outcome' # "copied"
    BY <1>3 DEF Back
  <2> QED
    BY <1>2, <2>1, FilesBack DEF CopyComplete
<1>4. CASE /\ UNCHANGED outcome
           /\ \/ /\ pc[Shell] = "cp" /\ Goto(Shell, "cp_stat") /\ full' = full
              \/ /\ pc[Shell] = "mv" /\ Goto(Shell, "mv_stat") /\ full' = full
              \/ /\ pc[Shell] = "cp_stat" /\ Goto(Shell, "cp_test")
                 /\ full' = IF entry["dst"] = "dir" THEN "in" ELSE "dst"
              \/ /\ pc[Shell] = "mv_stat" /\ Goto(Shell, "mv_test")
              \/ /\ pc[Shell] = "cp_test" /\ Goto(Shell, "cp_open") /\ full' = full
              \/ /\ pc[Shell] = "mv_test" /\ Goto(Shell, "mv_rename") /\ full' = full
                 /\ entry[full] = "none"
  <2>1. /\ pc[Shell] \in CopyLabels \cup MoveLabels /\ outcome = "none"
        /\ outcome' = "none"
    BY <1>0, <1>4 DEF Running, CopyLabels, MoveLabels
  <2>2. Running' /\ CopyComplete'
    BY <2>1 DEF Running, CopyComplete
  <2>3. \/ pc[Shell] = "cp" /\ pc'[Shell] = "cp_stat" /\ full' = full
        \/ pc[Shell] = "mv" /\ pc'[Shell] = "mv_stat"
        \/ /\ pc[Shell] = "cp_stat" /\ pc'[Shell] = "cp_test"
           /\ full' = IF entry["dst"] = "dir" THEN "in" ELSE "dst"
        \/ pc[Shell] = "mv_stat" /\ pc'[Shell] = "mv_test"
        \/ pc[Shell] = "cp_test" /\ pc'[Shell] = "cp_open" /\ full' = full
        \/ /\ pc[Shell] = "mv_test" /\ pc'[Shell] = "mv_rename" /\ full' = full
           /\ entry[full] = "none"
    BY <1>0, <1>4 DEF Goto
  <2>4. OpenFiles'
    BY <1>0, <1>1, <2>3 DEF OpenFiles, CopyLabels
  <2>5. MovePlace'
    BY <1>0, <1>1, <2>3 DEF MovePlace
  <2>6. Copying'
    BY <1>0, <1>1, <2>3 DEF Copying, CopyLabels
  <2> QED
    BY <1>2, <2>2, <2>4, <2>5, <2>6 DEF FilesInv
<1> QED
  BY <1>3, <1>4 DEF AccessSource, StatTarget, AccessTarget, Exists

LEMMA FilesOpen ==
    ASSUME FdTypes, FilesInv, OpenSource
    PROVE  FilesInv'
<1> USE ProcessFacts, PathFacts
<1>0. /\ FileTypes /\ OpenFiles /\ MovePlace /\ Running /\ Copying /\ CopyComplete
  BY DEF FilesInv
<1>1. /\ UNCHANGED <<entry, content, full, to, done, begun, others, meddled, outcome>>
      /\ pc[Shell] = "cp_open" /\ from' = entry["src"] /\ entry["src"] \in Inodes
      /\ pc'[Shell] = "cp_create"
  BY DEF OpenSource, world, history, FdTypes, Goto
<1>2. FileTypes'
  BY <1>0, <1>1 DEF FileTypes
<1>3. OpenFiles' /\ MovePlace' /\ Running' /\ Copying'
  BY <1>0, <1>1 DEF OpenFiles, MovePlace, Running, Copying, CopyLabels, MoveLabels
<1>4. CopyComplete'
  BY <1>0, <1>1 DEF CopyComplete
<1> QED
  BY <1>2, <1>3, <1>4 DEF FilesInv

LEMMA FilesCreate ==
    ASSUME FdTypes, FilesInv, CreateTarget
    PROVE  FilesInv'
<1> USE ProcessFacts, PathFacts
<1>0. /\ FileTypes /\ OpenFiles /\ MovePlace /\ Running /\ Copying /\ CopyComplete
  BY DEF FilesInv
<1>1. PICK f \in Unused : /\ entry' = [entry EXCEPT ![full] = f]
                          /\ content' = [content EXCEPT ![f] = <<>>]
                          /\ to' = f
  BY DEF CreateTarget
<1>2. /\ UNCHANGED <<full, from, done, begun, others, meddled, outcome>>
      /\ pc[Shell] = "cp_create" /\ pc'[Shell] = "cp_copy"
  BY DEF CreateTarget, history, FdTypes, Goto
<1>3. f \in Inodes /\ f # from /\ full \in Paths /\ from \in Inodes /\ done = 0
      /\ outcome = "none"
  BY <1>0, <1>2 DEF Unused, FileTypes, OpenFiles, Running, CopyLabels, MoveLabels
<1>4. /\ content' \in [Inodes -> Seq(Chunks)] /\ content'[f] = <<>>
      /\ content'[from] = content[from]
  BY <1>0, <1>1, <1>3 DEF FileTypes
<1>5. entry' \in [Paths -> Inodes \cup {"none", "dir"}] /\ entry'[full] = f
  BY <1>0, <1>1, <1>3 DEF FileTypes
<1>6. FileTypes'
  BY <1>0, <1>1, <1>2, <1>3, <1>4, <1>5 DEF FileTypes
<1>7. OpenFiles'
  BY <1>1, <1>2, <1>3, <1>4 DEF OpenFiles, CopyLabels
<1>8. MovePlace' /\ Running' /\ CopyComplete'
  BY <1>2, <1>3 DEF MovePlace, Running, CopyComplete
<1>9. Copying'
  <2>1. content[from] \in Seq(Chunks) /\ Len(content[from]) \in Nat
    BY <1>0, <1>3 DEF FileTypes
  <2>2. Len(content'[f]) = 0 /\ Len(content'[from]) >= 0 /\ 1..0 = {}
    BY <1>4, <2>1
  <2>3. meddled = 0 => /\ content[from] = begun.content[begun.entry["src"]]
                       /\ full = "in" <=> begun.entry["dst"] = "dir"
    BY <1>0, <1>2 DEF Copying, CopyLabels
  <2> QED
    BY <1>1, <1>2, <1>3, <1>4, <1>5, <2>2, <2>3 DEF Copying, CopyLabels
<1> QED
  BY <1>6, <1>7, <1>8, <1>9 DEF FilesInv

\* The chunk goes behind those that are copied, and the source stays.
LEMMA FilesChunk ==
    ASSUME FilesInv, CopyChunk
    PROVE  FilesInv'
<1> USE PathFacts
<1>0. /\ FileTypes /\ OpenFiles /\ MovePlace /\ Running /\ Copying /\ CopyComplete
  BY DEF FilesInv
<1> DEFINE s == content[to]
           c == content[from][done + 1]
           t == [k \in DOMAIN s \cup {done + 1} |-> IF k = done + 1 THEN c ELSE s[k]]
           n == Len(content[from])
<1>1. /\ pc[Shell] = "cp_copy" /\ done < n /\ done' = done + 1
      /\ UNCHANGED <<pc, entry, full, from, to, begun, others, meddled, outcome>>
  BY DEF CopyChunk, history
<1>2. /\ to \in Inodes /\ from \in Inodes /\ from # to
      /\ content \in [Inodes -> Seq(Chunks)] /\ done \in Nat
      /\ outcome = "none"
  BY <1>0, <1>1 DEF FileTypes, OpenFiles, Running, CopyLabels, MoveLabels
<1>3. s \in Seq(Chunks) /\ content[from] \in Seq(Chunks) /\ n \in Nat
  BY <1>2
<1>4. content' = [content EXCEPT ![to] = t]
  <2>1. content' = [content EXCEPT ![to] = [k \in DOMAIN @ \cup {done + 1} |->
                     IF k = done + 1 THEN content[from][k] ELSE @[k]]]
    BY DEF CopyChunk
  <2>2. [k \in DOMAIN s \cup {done + 1} |-> IF k = done + 1 THEN content[from][k] ELSE s[k]] = t
    OBVIOUS
  <2> QED
    BY <2>1, <2>2
<1>5. done \in 0..Len(s) /\ c \in Chunks
  <2>1. done <= Len(s) /\ Len(s) \in Nat
    BY <1>0, <1>1, <1>3 DEF OpenFiles
  <2>2. done + 1 \in 1..n
    BY <1>1, <1>2, <1>3
  <2> QED
    BY <1>2, <1>3, <2>1, <2>2
<1>6. /\ t \in Seq(Chunks) /\ t[done + 1] = c
      /\ \A k \in 1..done : t[k] = s[k]
      /\ done + 1 <= Len(t)
      /\ done = Len(s) => Len(t) = done + 1
  <2> HIDE DEF s, c
  <2>1. Len(s) \in Nat /\ DOMAIN s = 1..Len(s) /\ \A k \in DOMAIN s : s[k] \in Chunks
    BY <1>3
  <2>2. t \in [DOMAIN s \cup {done + 1} -> Chunks] /\ t[done + 1] = c
    BY <1>5, <2>1
  <2>3. \A k \in 1..done : t[k] = s[k]
    BY <1>5, <2>1
  <2> HIDE DEF t
  <2> QED
    BY <1>3, <1>5, <2>2, <2>3, WriteChunk
<1> HIDE DEF t
<1>7. /\ content' \in [Inodes -> Seq(Chunks)] /\ content'[to] = t
      /\ content'[from] = content[from]
  BY <1>2, <1>4, <1>6
<1>8. FileTypes'
  BY <1>0, <1>1, <1>2, <1>7 DEF FileTypes
<1>9. OpenFiles'
  BY <1>1, <1>2, <1>6, <1>7 DEF OpenFiles, CopyLabels
<1>10. MovePlace' /\ Running' /\ CopyComplete'
  BY <1>1, <1>2 DEF MovePlace, Running, CopyComplete
<1>11. Copying'
  <2>1. ASSUME meddled = 0
        PROVE  /\ entry[full] = to
               /\ content[from] = begun.content[begun.entry["src"]]
               /\ Len(s) = done
               /\ \A k \in 1..done : s[k] = content[from][k]
               /\ full = "in" <=> begun.entry["dst"] = "dir"
    BY <1>0, <1>1, <2>1 DEF Copying
  <2>2. ASSUME meddled = 0, NEW k \in 1..done+1
        PROVE  t[k] = content[from][k]
    <3>1. k = done + 1 \/ k \in 1..done
      BY <1>2
    <3> QED
      BY <1>6, <2>1, <2>2, <3>1
  <2>3. done + 1 <= n
    BY <1>1, <1>2, <1>3
  <2>4. meddled = 0 => /\ entry'[full'] = to'
                       /\ content'[from'] = begun'.content[begun'.entry["src"]]
                       /\ full' = "in" <=> begun'.entry["dst"] = "dir"
    BY <1>1, <1>7, <2>1
  <2>5. meddled = 0 => /\ Len(content'[to']) = done' /\ done' <= Len(content'[from'])
                       /\ \A k \in 1..done' : content'[to'][k] = content'[from'][k]
    BY <1>1, <1>6, <1>7, <2>1, <2>2, <2>3
  <2> QED
    BY <1>1, <2>4, <2>5 DEF Copying, CopyLabels
<1> QED
  BY <1>8, <1>9, <1>10, <1>11 DEF FilesInv

\* read has returned 0: what is copied is all of the source.
LEMMA FilesCopied ==
    ASSUME FdTypes, FilesInv, CopyEnds
    PROVE  FilesInv'
<1>0. /\ FileTypes /\ OpenFiles /\ Copying
  BY DEF FilesInv
<1>1. /\ pc[Shell] = "cp_copy" /\ done >= Len(content[from]) /\ Goto(Shell, "prompt")
      /\ UNCHANGED <<entry, content, full, from, to, done, begun, others, meddled>>
  BY DEF CopyEnds, Back, world, history
<1>2. FileTypes'
  BY <1>0, <1>1 DEF FileTypes
<1>3. /\ content[from] \in Seq(Chunks) /\ content[to] \in Seq(Chunks)
      /\ Len(content[from]) \in Nat /\ done \in Nat
  BY <1>0, <1>1 DEF FileTypes, OpenFiles
<1>4. ASSUME meddled = 0
      PROVE  /\ content[entry[full]] = begun.content[begun.entry["src"]]
             /\ full = "in" <=> begun.entry["dst"] = "dir"
  <2>1. /\ entry[full] = to
        /\ content[from] = begun.content[begun.entry["src"]]
        /\ Len(content[to]) = done /\ done <= Len(content[from])
        /\ \A k \in 1..done : content[to][k] = content[from][k]
        /\ full = "in" <=> begun.entry["dst"] = "dir"
    BY <1>0, <1>1, <1>4 DEF Copying
  <2>2. done = Len(content[from])
    BY <1>1, <1>3, <2>1
  <2>3. content[to] = content[from]
    BY <1>3, <2>1, <2>2
  <2> QED
    BY <2>1, <2>3
<1>5. CopyComplete'
  BY <1>1, <1>4 DEF CopyComplete
<1> QED
  BY <1>1, <1>2, <1>5, FilesBack

\* Every other way out prints another message.
LEMMA FilesOut ==
    ASSUME FdTypes, FilesInv,
           OpenSourceFails \/ CreateTargetFails \/ WriteFails \/ ReadFails \/ RenameFails
    PROVE  FilesInv'
<1>1. /\ UNCHANGED <<entry, content, full, from, to, done, begun, others, meddled>>
      /\ Goto(Shell, "prompt") /\ outcome' # "copied"
  BY DEF OpenSourceFails, CreateTargetFails, WriteFails, ReadFails, RenameFails,
         Back, world, history
<1>2. FileTypes'
  BY <1>1 DEF FilesInv, FileTypes
<1> QED
  BY <1>1, <1>2, FilesBack DEF CopyComplete

LEMMA FilesRename ==
    ASSUME FdTypes, FilesInv, Rename
    PROVE  FilesInv'
<1> USE PathFacts
<1>1. /\ UNCHANGED <<content, full, from, to, done, begun, others, meddled>>
      /\ Goto(Shell, "prompt") /\ outcome' # "copied"
      /\ entry["src"] \in Inodes
      /\ entry' = IF entry[full] = entry["src"] THEN entry
                  ELSE [entry EXCEPT ![full] = entry["src"], !["src"] = "none"]
  BY DEF Rename, Back, history
<1>2. entry' \in [Paths -> Inodes \cup {"none", "dir"}]
  BY <1>1 DEF FilesInv, FileTypes
<1>3. FileTypes'
  BY <1>1, <1>2 DEF FilesInv, FileTypes
<1> QED
  BY <1>1, <1>3, FilesBack DEF CopyComplete

LEMMA FilesBuiltin ==
    ASSUME FdTypes, FilesInv, Builtin
    PROVE  FilesInv'
<1>1. CASE FreeCommand
  <2>1. UNCHANGED fileVars /\ pc'[Shell] \in {"prompt", "exit"}
    BY <1>1, ProcessFacts DEF FreeCommand, FdTypes, Goto
  <2> QED
    BY <2>1, FilesUnchanged DEF CopyLabels, MoveLabels
<1> QED
  BY <1>1, FilesTests, FilesOpen, FilesCreate, FilesChunk, FilesCopied, FilesOut, FilesRename
  DEF Builtin, Cp, Mv

LEMMA FilesStep == EndsInv /\ FilesInv /\ [Next]_vars => FilesInv'
<1> SUFFICES ASSUME EndsInv, FilesInv, [Next]_vars PROVE FilesInv'
  OBVIOUS
<1>1. FdTypes
  BY DEF EndsInv
<1>2. CASE UNCHANGED vars
  <2>1. UNCHANGED fileVars /\ pc' = pc
    BY <1>2 DEF vars, execVars
  <2> QED
    BY <2>1, FilesUnchanged
<1>3. CASE Next
  BY <1>1, <1>3, OtherSteps, FilesReadLine, FilesBuiltin, FilesOthers, FilesUnchanged
<1> QED
  BY <1>2, <1>3

-----------------------------------------------------------------------------
(* The theorems *)

LEMMA FilesKept == Spec => [](EndsInv /\ FilesInv)
BY EndsInit, EndsStep, FilesInit, FilesStep, PTL DEF Spec

\* A copy of which cplq reports success, in a directory that nobody else
\* changes meanwhile, has every chunk of the source in its place, under the
\* name that was given or in the directory that was given.
THEOREM CopiesWhole == Spec => []CopyComplete
<1>1. FilesInv => CopyComplete
  BY DEF FilesInv
<1> QED
  BY <1>1, FilesKept, PTL

\* No step of a built-in command loses a file: cplq writes only the one it
\* created itself, which nothing else was, and mvlq takes from a name only
\* its source, or what others put at the target after its test.
THEOREM NothingIsDestroyed == Spec => NothingDestroyed
<1> USE PathFacts
<1>1. ASSUME FilesInv, Builtin, NEW f \in Linked
      PROVE  /\ content'[f] = content[f] \/ f = to
             /\ f \in Linked' \/ f \in others
  <2>1. FileTypes /\ OpenFiles /\ MovePlace
    BY <1>1 DEF FilesInv
  <2>2. /\ f \in Inodes /\ \E x \in Paths : entry[x] = f
        /\ entry \in [Paths -> Inodes \cup {"none", "dir"}]
        /\ content \in [Inodes -> Seq(Chunks)]
        /\ full \in {"dst", "in"}
    BY <2>1 DEF Linked, FileTypes
  <2>3. PICK x \in Paths : entry[x] = f
    BY <2>2
  <2>4. ASSUME UNCHANGED <<entry, content>>
        PROVE  content'[f] = content[f] /\ f \in Linked'
    BY <2>4 DEF Linked
  <2>5. CASE CreateTarget
    <3>1. PICK g \in Unused : /\ entry' = [entry EXCEPT ![full] = g]
                              /\ content' = [content EXCEPT ![g] = <<>>]
      BY <2>5 DEF CreateTarget
    <3>2. entry[full] = "none" /\ g # f
      BY <2>5 DEF CreateTarget, Creatable, Unused
    <3>3. entry'[x] = f
      BY <2>2, <2>3, <3>1, <3>2
    <3> QED
      BY <2>2, <3>1, <3>2, <3>3 DEF Linked
  <2>6. CASE CopyChunk
    <3>1. entry' = entry /\ \A g \in Inodes \ {to} : content'[g] = content[g]
      BY <2>2, <2>6 DEF CopyChunk
    <3> QED
      BY <2>2, <3>1 DEF Linked
  <2>7. CASE Rename
    <3>1. content' = content /\ pc[Shell] = "mv_rename" /\ entry["src"] \in Inodes
      BY <2>7 DEF Rename
    <3>2. CASE entry[full] = entry["src"]
      BY <2>4, <2>7, <3>1, <3>2 DEF Rename
    <3>3. CASE entry[full] # entry["src"]
      <4>1. entry' = [entry EXCEPT ![full] = entry["src"], !["src"] = "none"]
        BY <2>7, <3>3 DEF Rename
      <4>2. CASE x = full
        BY <2>1, <2>2, <2>3, <3>1, <4>2 DEF MovePlace
      <4>3. CASE x = "src"
        <5>1. entry'[full] = f
          BY <2>2, <2>3, <4>1, <4>3
        <5> QED
          BY <2>2, <3>1, <5>1 DEF Linked
      <4>4. CASE x # full /\ x # "src"
        <5>1. entry'[x] = f
          BY <2>2, <2>3, <4>1, <4>4
        <5> QED
          BY <2>2, <3>1, <5>1 DEF Linked
      <4> QED
        BY <4>2, <4>3, <4>4
    <3> QED
      BY <3>2, <3>3
  <2>8. CASE ~(CreateTarget \/ CopyChunk \/ Rename)
    <3>1. UNCHANGED <<entry, content>>
      BY <1>1, <2>8
      DEF Builtin, Cp, Mv, FreeCommand, AccessSource, StatTarget, AccessTarget, OpenSource,
          OpenSourceFails, CreateTargetFails, WriteFails, CopyEnds, ReadFails, RenameFails,
          world, fileVars
    <3> QED
      BY <2>4, <3>1
  <2> QED
    BY <2>5, <2>6, <2>7, <2>8
<1>2. FilesInv /\ [Next]_vars =>
        [Builtin => \A f \in Linked : /\ content'[f] = content[f] \/ f = to
                                      /\ f \in Linked' \/ f \in others]_vars
  BY <1>1
<1> QED
  BY <1>2, FilesKept, PTL DEF Spec, NothingDestroyed
=============================================================================
