--------------------------- MODULE LqStreamsProofs ---------------------------
(***************************************************************************)
(* LqShell for any lines, files, descriptor limit and size of a pipe: what *)
(* goes through the pipe, what the shell has open at its prompt, and what  *)
(* the streams of a program are open on.                                   *)
(***************************************************************************)
EXTENDS LqShellProofs

NoWriter == \A p \in Processes : Without(fds[p], "pipe_w")

\* The program that still has to write holds the write end.
Writing ==
    /\ todo \in [Commands -> Nat]
    /\ \A c \in Commands : pc[c] = "run" /\ todo[c] > 0 => fds[c][1] = "pipe_w"

\* Nothing but what the left command wrote is in the pipe.
Unbuffered == interactive => \A p \in Processes : buffered[p] = FALSE

Flow ==
    /\ buffered \in [Processes -> BOOLEAN]
    /\ interactive =>
         /\ pipe \in Seq({"data"}) /\ got \in Seq({"data"})
         /\ wrote = Len(got) + Len(pipe)

\* A reader that has come to the end of its input is the last to use the pipe.
AtEnd == interactive /\ pc["rcmd"] = "end" /\ fds["rcmd"][0] = "pipe_r" =>
             pipe = <<>> /\ NoWriter

PipeInv == Writing /\ Unbuffered /\ Flow /\ AtEnd

-----------------------------------------------------------------------------
(* Who can get the write end *)

LEMMA NoWriterIf ==
    ASSUME FdTypes, NoWriter, NEW p \in Processes, NEW t \in Tables,
           fds' = [fds EXCEPT ![p] = t], Without(t, "pipe_w")
    PROVE  NoWriter'
<1>1. \A q \in Processes : fds'[q] = IF q = p THEN t ELSE fds[q]
  BY DEF FdTypes
<1> QED
  BY <1>1 DEF NoWriter

LEMMA NoWriterDie ==
    ASSUME FdTypes, NoWriter, NEW p \in Processes, Die(p)
    PROVE  NoWriter'
BY NoWriterIf, ShutFacts DEF Die

LEMMA NoWriterExecute ==
    ASSUME FdTypes, NoWriter, NEW p \in Workers, ExecuteCommandMain(p)
    PROVE  NoWriter'
<1> USE ProcessFacts
<1>1. /\ p \in Processes /\ Command[p] \in Processes
      /\ fds[p] \in Tables /\ Without(fds[p], "pipe_w")
  BY DEF FdTypes, NoWriter
<1>2. CASE Redirect(p)
  <2> DEFINE n == Lowest(fds[p])
             f == Token(p).file
             t == [fds[p] EXCEPT ![n] = f]
  <2>1. /\ at[p] <= Len(args[p]) /\ Token(p).op # "word" /\ f # "missing"
        /\ Free(fds[p]) # {} /\ fds' = [fds EXCEPT ![p][n] = f]
    BY <1>2 DEF Redirect, Parsing
  <2>2. Token(p) \in Tokens
    BY <2>1 DEF Token, FdTypes
  <2>3. f \in Files /\ n \in Descriptors
    BY <1>1, <2>1, <2>2, TokenFacts, LowestFree
  <2> HIDE DEF n, f
  <2>4. t \in Tables /\ Without(t, "pipe_w")
    BY <1>1, <2>3, OpensFacts DEF Tables, Without
  <2>5. fds' = [fds EXCEPT ![p] = t]
    BY <2>1
  <2> HIDE DEF t
  <2> QED
    BY <1>1, <2>4, <2>5, NoWriterIf
<1>3. CASE ForkCommand(p)
  BY <1>1, <1>3, NoWriterIf DEF ForkCommand
<1>4. CASE Wait(p)
  <2> DEFINE t == [n \in DOMAIN fds[p] |->
                    IF \E s \in Streams : redir[p][s] = n /\ n # s THEN "closed" ELSE fds[p][n]]
  <2>1. fds' = [fds EXCEPT ![p] = t]
    BY <1>4 DEF Wait
  <2>2. t \in Tables /\ Without(t, "pipe_w")
    BY <1>1, OpensFacts DEF Tables, Without
  <2> HIDE DEF t
  <2> QED
    BY <1>1, <2>1, <2>2, NoWriterIf
<1>5. CASE ParseWord(p) \/ RedirectFails(p) \/ ParseEnds(p) \/ ForkFails(p)
  <2>1. fds' = fds
    BY <1>5 DEF ParseWord, RedirectFails, ParseEnds, ForkFails
  <2> QED
    BY <2>1 DEF NoWriter, Without
<1> QED
  BY <1>2, <1>3, <1>4, <1>5 DEF ExecuteCommandMain

LEMMA NoWriterChild ==
    ASSUME FdTypes, NoWriter, NEW p \in Workers, Exec(p) \/ ExecFails(p)
    PROVE  NoWriter'
<1> USE ProcessFacts
<1> DEFINE c == Command[p]
           t == Redirected(fds[c], redir[p])
<1>1. /\ c \in Processes /\ fds[c] \in Tables /\ redir[p] \in [Streams -> Descriptors]
      /\ Without(fds[c], "pipe_w")
  BY DEF FdTypes, NoWriter
<1>2. fds' = [fds EXCEPT ![c] = t]
  BY DEF Exec, ExecFails
<1> HIDE DEF c
<1>3. t \in Tables /\ Without(t, "pipe_w")
  BY <1>1, RedirectedFacts
<1> QED
  BY <1>1, <1>2, <1>3, NoWriterIf

LEMMA NoWriterPipCmd ==
    ASSUME FdTypes, NoWriter, PipCmd \/ SetupLeft \/ SetupRight, pc[Shell] # "pipe"
    PROVE  NoWriter'
<1> USE ProcessFacts
<1>1. /\ \A p \in Processes : fds[p] \in Tables /\ Without(fds[p], "pipe_w")
      /\ pipe_fd[1] \in Descriptors /\ pipe_fd[2] \in Descriptors
      /\ 0 \in Descriptors /\ 1 \in Descriptors
  BY ExecuteAssumption DEF FdTypes, NoWriter, Descriptors
<1>2. ASSUME NEW p \in Processes, NEW k \in Descriptors
      PROVE  /\ Close(fds[p], k) \in Tables
             /\ Without(Close(fds[p], k), "pipe_w")
  BY <1>1, CloseFacts
<1>3. ASSUME NEW p \in Processes, NEW k \in Descriptors, NEW m \in Descriptors,
             NEW n \in Descriptors
      PROVE  /\ Move(Close(fds[p], k), m, n) \in Tables
             /\ Without(Move(Close(fds[p], k), m, n), "pipe_w")
  BY <1>2, MoveFacts
<1>4. CASE ForkLeft \/ ForkRight
  BY <1>1, <1>4, NoWriterIf DEF ForkLeft, ForkRight, ForkSide
<1>5. CASE SetupLeft
  BY <1>1, <1>3, <1>5, NoWriterIf DEF SetupLeft, LeftTable
<1>6. CASE SetupRight
  BY <1>1, <1>3, <1>6, NoWriterIf DEF SetupRight, RightTable
<1>7. CASE ClosePipe
  <2> DEFINE t == Close(fds["shell"], pipe_fd[1])
             u == Close(t, pipe_fd[2])
  <2>1. fds' = [fds EXCEPT !["shell"] = u]
    BY <1>7 DEF ClosePipe
  <2>2. t \in Tables /\ Without(t, "pipe_w")
    BY <1>1, <1>2
  <2> HIDE DEF t
  <2>3. u \in Tables /\ Without(u, "pipe_w")
    BY <1>1, <2>2, CloseFacts
  <2> HIDE DEF u
  <2> QED
    BY <2>1, <2>3, NoWriterIf
<1>8. CASE PipeFails \/ ForkSideFails \/ WaitLeft \/ WaitRight
  <2>1. fds' = fds
    BY <1>8 DEF PipeFails, ForkSideFails, WaitLeft, WaitRight
  <2> QED
    BY <2>1 DEF NoWriter, Without
<1> QED
  BY <1>4, <1>5, <1>6, <1>7, <1>8 DEF PipCmd, MakePipe

LEMMA NoWriterBuiltin ==
    ASSUME FdTypes, NoWriter, Builtin
    PROVE  NoWriter'
<1> USE ProcessFacts
<1>1. fds["shell"] \in Tables /\ Without(fds["shell"], "pipe_w")
  BY DEF FdTypes, NoWriter
<1>2. CASE OpenSource \/ CreateTarget
  <2> DEFINE n == Lowest(fds["shell"])
  <2>1. PICK f \in {"source", "target"} : fds' = [fds EXCEPT !["shell"][n] = f]
    BY <1>2 DEF OpenSource, CreateTarget
  <2>2. n \in Descriptors
    BY <1>1, <1>2, LowestFree DEF OpenSource, CreateTarget
  <2> HIDE DEF n
  <2> DEFINE t == [fds["shell"] EXCEPT ![n] = f]
  <2>3. t \in Tables /\ Without(t, "pipe_w")
    BY <1>1, <2>2, OpensFacts DEF Tables, Without
  <2>4. fds' = [fds EXCEPT !["shell"] = t]
    BY <2>1
  <2> HIDE DEF t
  <2> QED
    BY <2>3, <2>4, NoWriterIf
<1>3. CASE CreateTargetFails \/ WriteFails \/ CopyEnds \/ ReadFails
  <2>1. fds' = [fds EXCEPT !["shell"] = CopyTable]
    BY <1>3 DEF CreateTargetFails, WriteFails, CopyEnds, ReadFails
  <2>2. CopyTable \in Tables /\ Without(CopyTable, "pipe_w")
    BY <1>1, OpensFacts DEF CopyTable, Tables, Without, Descriptors
  <2> QED
    BY <2>1, <2>2, NoWriterIf
<1>4. CASE fds' = fds
  BY <1>4 DEF NoWriter, Without
<1> QED
  BY <1>2, <1>3, <1>4 DEF Builtin, Cp, Mv, FreeCommand, OpenSourceFails, CopyChunk

\* Only pipCmd, when it makes a pipe, makes a write end.
LEMMA NoWriterStep ==
    ASSUME FdTypes, NoWriter, Next, pc[Shell] # "pipe"
    PROVE  NoWriter'
<1> USE ProcessFacts
<1>1. ASSUME NEW p \in Processes, Exit(p) PROVE NoWriter'
  BY <1>1, NoWriterDie DEF Exit
<1>2. ASSUME fds' = fds PROVE NoWriter'
  BY <1>2 DEF NoWriter, Without
<1>3. CASE ShellStep
  <2>1. CASE ReadLine \/ EndOfFile \/ ShellExits
    BY <1>2, <2>1, NoWriterDie DEF ReadLine, EndOfFile, ShellExits
  <2> QED
    BY <1>3, <2>1, NoWriterPipCmd, NoWriterExecute, NoWriterBuiltin DEF ShellStep
<1>4. ASSUME NEW p \in {"left", "right"}, SideStep(p) PROVE NoWriter'
  <2>1. p \in Workers /\ p \in Processes
    OBVIOUS
  <2> QED
    BY <1>1, <1>4, <2>1, NoWriterPipCmd, NoWriterExecute DEF SideStep
<1>5. ASSUME NEW p \in Workers, Child(p) PROVE NoWriter'
  <2>1. Command[p] \in Processes
    OBVIOUS
  <2> QED
    BY <1>1, <1>5, <2>1, NoWriterChild DEF Child
<1>6. ASSUME NEW c \in Commands, Program(c) \/ CommandStops(c) PROVE NoWriter'
  <2>1. c \in Processes
    OBVIOUS
  <2> QED
    BY <1>2, <1>6, <2>1, NoWriterDie
    DEF Program, CommandStops, WriteItem, BrokenPipe, ReadItem, EndOfInput, Finish
<1>7. CASE Others
  BY <1>2, <1>7 DEF Others, execVars
<1> QED
  BY <1>3, <1>4, <1>5, <1>6, <1>7 DEF Next

-----------------------------------------------------------------------------
(* What a step is for one command *)

CommandStep(p) ==
    \/ ForkCommand(p) \/ Wait(p) \/ Child(p)
    \/ Program(Command[p]) \/ CommandStops(Command[p])

\* A command moves with its parent, or by itself.
LEMMA CommandMoves ==
    ASSUME FdTypes, todo \in [Commands -> Nat], Next, NEW p \in Workers
    PROVE  \/ LET c == Command[p]
              IN  pc'[c] = pc[c] /\ fds'[c] = fds[c] /\ todo'[c] = todo[c]
           \/ CommandStep(p)
<1> USE ProcessFacts
<1> DEFINE c == Command[p]
           Same == pc'[c] = pc[c] /\ fds'[c] = fds[c] /\ todo'[c] = todo[c]
           Goal == Same \/ CommandStep(p)
<1>1. /\ pc \in [Processes -> Labels] /\ fds \in [Processes -> Tables]
      /\ c \in Processes /\ c \in Commands /\ c \notin Workers
      /\ \A q \in Workers : Command[q] \in Processes /\ (q # p => Command[q] # c)
  BY DEF FdTypes
<1> HIDE DEF c
<1>2. ASSUME NEW q \in Processes \ {c}, Die(q), todo' = todo PROVE Same
  BY <1>1, <1>2 DEF Die, Goto
<1>3. ASSUME NEW q \in Processes \ {c}, Exit(q) PROVE Same
  BY <1>2, <1>3 DEF Exit
<1>4. ASSUME NEW q \in Workers, ExecuteCommandMain(q) PROVE Goal
  <2>1. todo' = todo
    BY <1>4 DEF ExecuteCommandMain, ParseWord, Redirect, RedirectFails, ParseEnds,
                ForkCommand, ForkFails, Wait, flow
  <2>2. CASE (ForkCommand(q) \/ Wait(q)) /\ q # p
    BY <1>1, <2>1, <2>2 DEF ForkCommand, Wait
  <2>3. CASE (ForkCommand(q) \/ Wait(q)) /\ q = p
    BY <2>3 DEF CommandStep
  <2>4. CASE ParseWord(q) \/ Redirect(q)
    BY <1>1, <2>1, <2>4 DEF ParseWord, Redirect
  <2>5. CASE RedirectFails(q) \/ ParseEnds(q) \/ ForkFails(q)
    BY <1>1, <2>1, <2>5 DEF RedirectFails, ParseEnds, ForkFails, Goto
  <2> QED
    BY <1>4, <2>2, <2>3, <2>4, <2>5 DEF ExecuteCommandMain
<1>5. ASSUME PipCmd \/ SetupLeft \/ SetupRight PROVE Same
  <2>1. todo' = todo
    BY <1>5 DEF PipCmd, MakePipe, PipeFails, ForkLeft, ForkRight, ForkSide, ForkSideFails,
                ClosePipe, WaitLeft, WaitRight, SetupLeft, SetupRight, flow
  <2>2. CASE ForkLeft \/ ForkRight
    BY <1>1, <2>1, <2>2 DEF ForkLeft, ForkRight, ForkSide
  <2>3. CASE SetupLeft \/ SetupRight
    BY <1>1, <2>1, <2>3 DEF SetupLeft, SetupRight, Goto
  <2>4. CASE MakePipe \/ PipeFails \/ ForkSideFails \/ ClosePipe
    BY <1>1, <2>1, <2>4 DEF MakePipe, PipeFails, ForkSideFails, ClosePipe, Goto
  <2>5. CASE WaitLeft \/ WaitRight
    BY <1>1, <2>1, <2>5 DEF WaitLeft, WaitRight
  <2> QED
    BY <1>5, <2>2, <2>3, <2>4, <2>5 DEF PipCmd
<1>6. ASSUME Builtin PROVE Same
  <2>1. /\ todo' = todo
        /\ pc' = pc \/ \E l \in {"cp_stat", "cp_test", "cp_open", "cp_create", "cp_copy",
                                 "mv_stat", "mv_test", "mv_rename", "prompt", "exit"} : Goto(Shell, l)
        /\ fds' = fds \/ \E t : fds' = [fds EXCEPT ![Shell] = t]
                      \/ \E n, f : fds' = [fds EXCEPT ![Shell][n] = f]
    <3>1. CASE Cp
      BY <1>6, <3>1 DEF Builtin, Cp, AccessSource, StatTarget, AccessTarget, OpenSource,
          OpenSourceFails, CreateTarget, CreateTargetFails, CopyChunk, WriteFails, CopyEnds,
          ReadFails, Back, flow
    <3>2. CASE Mv
      BY <1>6, <3>2 DEF Builtin, Mv, AccessSource, StatTarget, AccessTarget, Rename,
          RenameFails, Back, flow
    <3>3. CASE FreeCommand
      BY <1>6, <3>3 DEF Builtin, FreeCommand, flow
    <3> QED
      BY <1>6, <3>1, <3>2, <3>3 DEF Builtin
  <2>2. c # Shell
    BY <1>1
  <2> QED
    BY <1>1, <2>1, <2>2 DEF Goto
<1>7. ASSUME ReadLine PROVE Same
  <2>1. UNCHANGED <<fds, todo>>
    BY <1>7 DEF ReadLine
  <2>2. pc' = pc \/ \E l : Goto(Shell, l)
    <3>1. line'.kind \in Kinds
      BY <1>7, LinesAssumption DEF ReadLine
    <3>2. CASE line'.kind \in {"blank", "prints", "badpipe"}
      BY <1>7, <3>2 DEF ReadLine
    <3>3. CASE line'.kind = "simple"
      BY <1>7, <3>3 DEF ReadLine
    <3>4. CASE line'.kind \in {"pipe", "free", "exit"}
      BY <1>7, <3>4 DEF ReadLine
    <3>5. CASE line'.kind \in {"cp", "mv"}
      BY <1>7, <3>5 DEF ReadLine, BuiltinStart
    <3> QED
      BY <3>1, <3>2, <3>3, <3>4, <3>5 DEF Kinds
  <2> QED
    BY <1>1, <2>1, <2>2 DEF Goto
<1>8. ASSUME EndOfFile \/ ShellExits PROVE Same
  BY <1>1, <1>8 DEF EndOfFile, ShellExits, Die, Goto, flow
<1>9. ASSUME NEW q \in Workers, Child(q) PROVE Goal
  <2>1. CASE q = p
    BY <1>9, <2>1 DEF CommandStep
  <2>2. CASE Exec(q) /\ q # p
    <3>1. /\ \E t : fds' = [fds EXCEPT ![Command[q]] = t]
          /\ \E n : todo' = [todo EXCEPT ![Command[q]] = n]
          /\ pc' = [pc EXCEPT ![Command[q]] = "run"]
      BY <2>2 DEF Exec, Goto
    <3> QED
      BY <1>1, <2>2, <3>1
  <2>3. CASE ExecFails(q) /\ q # p
    BY <1>1, <2>3 DEF ExecFails, Goto, flow
  <2>4. CASE Exit(Command[q]) /\ q # p
    BY <1>1, <1>3, <2>4
  <2> QED
    BY <1>9, <2>1, <2>2, <2>3, <2>4 DEF Child
<1>10. ASSUME NEW d \in Commands, Program(d) \/ CommandStops(d) PROVE Goal
  <2>1. d \in Processes
    OBVIOUS
  <2>2. CASE d = c
    BY <1>10, <2>2 DEF CommandStep, c
  <2>3. CASE (BrokenPipe(d) \/ Finish(d) \/ CommandStops(d)) /\ d # c
    BY <1>2, <2>1, <2>3 DEF BrokenPipe, Finish, CommandStops, flow
  <2>4. CASE ReadItem(d)
    BY <2>4 DEF ReadItem
  <2>5. CASE WriteItem(d) /\ d # c
    <3>1. pc' = pc /\ fds' = fds /\ todo' = [todo EXCEPT ![d] = @ - 1]
      BY <2>5 DEF WriteItem
    <3> QED
      BY <1>1, <2>5, <3>1
  <2>6. CASE EndOfInput(d) /\ d # c
    BY <1>1, <2>1, <2>6 DEF EndOfInput, Goto, flow
  <2> QED
    BY <1>10, <2>2, <2>3, <2>4, <2>5, <2>6 DEF Program
<1>11. ASSUME Others PROVE Same
  BY <1>11 DEF Others, execVars
<1> HIDE DEF Same
<1>13. Shell \in Workers
  OBVIOUS
<1>14. ShellStep => Goal
  BY <1>4, <1>5, <1>6, <1>7, <1>8, <1>13 DEF ShellStep
<1>15. ASSUME NEW q \in {"left", "right"}, SideStep(q) PROVE Goal
  <2>1. q \in Workers /\ q \in Processes \ {c}
    BY <1>1
  <2> QED
    BY <1>3, <1>4, <1>5, <1>15, <2>1 DEF SideStep
<1>16. Goal
  BY <1>9, <1>10, <1>11, <1>14, <1>15 DEF Next
<1> QED
  BY <1>16 DEF Same, c

\* A step after which a command runs, or has run, on.
LEMMA RunMoves ==
    ASSUME FdTypes, todo \in [Commands -> Nat], Next, NEW p \in Workers
    PROVE  LET c == Command[p]
           IN  \/ pc'[c] = pc[c] /\ fds'[c] = fds[c] /\ todo'[c] = todo[c]
               \/ pc'[c] \in {"none", "child", "exit", "dead"}
               \/ Exec(p) \/ WriteItem(c) \/ EndOfInput(c)
<1> USE ProcessFacts
<1> DEFINE c == Command[p]
<1>1. pc \in [Processes -> Labels] /\ c \in Processes
  BY DEF FdTypes
<1>2. ASSUME CommandStep(p)
      PROVE  \/ pc'[c] = pc[c] /\ fds'[c] = fds[c] /\ todo'[c] = todo[c]
             \/ pc'[c] \in {"none", "child", "exit", "dead"}
             \/ Exec(p) \/ WriteItem(c) \/ EndOfInput(c)
  <2>1. CASE ForkCommand(p) \/ Wait(p)
    BY <1>1, <2>1 DEF ForkCommand, Wait
  <2>2. CASE Child(p)
    BY <1>1, <2>2 DEF Child, ExecFails, Exit, Die, Goto
  <2>3. CASE Program(c) \/ CommandStops(c)
    <3>1. CASE BrokenPipe(c) \/ Finish(c) \/ CommandStops(c)
      BY <1>1, <3>1 DEF BrokenPipe, Finish, CommandStops, Die, Goto
    <3>2. CASE ReadItem(c)
      BY <3>2 DEF ReadItem
    <3> QED
      BY <2>3, <3>1, <3>2 DEF Program
  <2> QED
    BY <1>2, <2>1, <2>2, <2>3 DEF CommandStep
<1> QED
  BY <1>2, CommandMoves

-----------------------------------------------------------------------------
(* What a step is for the pipe and the buffers *)

\* A process that loses its buffer, or gets a copy of another's.
BufferMoves ==
    /\ buffered' \in [Processes -> BOOLEAN]
    /\ \A p \in Processes : buffered'[p] = FALSE \/ \E q \in Processes : buffered'[p] = buffered[q]

LEMMA FlowMoves ==
    ASSUME buffered \in [Processes -> BOOLEAN], Next
    PROVE  /\ interactive' = interactive
           /\ \/ ReadLine
              \/ /\ \/ UNCHANGED <<pipe, wrote, got>>
                    \/ MakePipe
                    \/ \E p \in Processes : Exit(p)
                    \/ \E c \in Commands : WriteItem(c) \/ ReadItem(c)
                 /\ BufferMoves
<1> USE ProcessFacts
<1> DEFINE Goal == /\ interactive' = interactive
                   /\ \/ UNCHANGED <<pipe, wrote, got>>
                      \/ MakePipe
                      \/ \E p \in Processes : Exit(p)
                      \/ \E c \in Commands : WriteItem(c) \/ ReadItem(c)
                   /\ BufferMoves
<1>1. ASSUME buffered' = buffered PROVE BufferMoves
  BY <1>1 DEF BufferMoves
<1>2. ASSUME NEW p \in Processes, NEW b \in {FALSE} \cup {buffered[q] : q \in Processes},
             buffered' = [buffered EXCEPT ![p] = b]
      PROVE  BufferMoves
  BY <1>2 DEF BufferMoves
<1>3. ASSUME NEW p \in Processes, Die(p) PROVE BufferMoves
  BY <1>2, <1>3 DEF Die
<1>4. ASSUME NEW p \in Workers, ExecuteCommandMain(p)
      PROVE  UNCHANGED <<pipe, wrote, got>> /\ BufferMoves
  <2>1. CASE ForkCommand(p)
    <3>1. Command[p] \in Processes /\ p \in Processes
      OBVIOUS
    <3>2. buffered[p] \in {FALSE} \cup {buffered[q] : q \in Processes}
      BY <3>1
    <3> QED
      BY <1>2, <2>1, <3>1, <3>2 DEF ForkCommand, flow
  <2>2. CASE ParseWord(p) \/ Redirect(p) \/ RedirectFails(p) \/ ParseEnds(p) \/ ForkFails(p) \/ Wait(p)
    <3>1. UNCHANGED <<pipe, wrote, got, buffered>>
      BY <2>2 DEF ParseWord, Redirect, RedirectFails, ParseEnds, ForkFails, Wait, flow
    <3> QED
      BY <1>1, <3>1
  <2> QED
    BY <1>4, <2>1, <2>2 DEF ExecuteCommandMain
<1>5. ASSUME PipCmd \/ SetupLeft \/ SetupRight
      PROVE  (UNCHANGED <<pipe, wrote, got>> \/ MakePipe) /\ BufferMoves
  <2>1. ASSUME NEW l, NEW p \in {"left", "right"}, NEW k, ForkSide(l, p, k)
        PROVE  UNCHANGED <<pipe, wrote, got>> /\ BufferMoves
    <3>1. p \in Processes /\ buffered[Shell] \in {FALSE} \cup {buffered[q] : q \in Processes}
      OBVIOUS
    <3> QED
      BY <1>2, <2>1, <3>1 DEF ForkSide, flow
  <2>2. CASE ForkLeft \/ ForkRight
    BY <2>1, <2>2 DEF ForkLeft, ForkRight
  <2>3. CASE ~(ForkLeft \/ ForkRight)
    BY <1>1, <1>5, <2>3 DEF PipCmd, MakePipe, PipeFails, ForkSideFails, ClosePipe, WaitLeft,
                            WaitRight, SetupLeft, SetupRight, flow
  <2> QED
    BY <2>2, <2>3
<1>6. ASSUME NEW p \in Workers, Child(p)
      PROVE  (UNCHANGED <<pipe, wrote, got>> \/ \E q \in Processes : Exit(q)) /\ BufferMoves
  <2>1. Command[p] \in Processes
    OBVIOUS
  <2>2. CASE Exec(p)
    BY <1>2, <2>1, <2>2 DEF Exec
  <2>3. CASE ExecFails(p)
    BY <1>1, <2>3 DEF ExecFails, flow
  <2>4. CASE Exit(Command[p])
    BY <1>3, <2>1, <2>4 DEF Exit
  <2> QED
    BY <1>6, <2>2, <2>3, <2>4 DEF Child
<1>7. ASSUME NEW c \in Commands, Program(c) \/ CommandStops(c)
      PROVE  (UNCHANGED <<pipe, wrote, got>> \/ WriteItem(c) \/ ReadItem(c)) /\ BufferMoves
  <2>1. c \in Processes
    OBVIOUS
  <2>2. CASE BrokenPipe(c) \/ Finish(c) \/ CommandStops(c)
    BY <1>3, <2>1, <2>2 DEF BrokenPipe, Finish, CommandStops, flow
  <2>3. CASE WriteItem(c) \/ ReadItem(c)
    BY <1>1, <2>3 DEF WriteItem, ReadItem
  <2>4. CASE EndOfInput(c)
    BY <1>1, <2>4 DEF EndOfInput, flow
  <2> QED
    BY <1>7, <2>2, <2>3, <2>4 DEF Program
<1>8. ASSUME EndOfFile \/ ShellExits PROVE Goal
  <2>1. UNCHANGED <<pipe, wrote, got, interactive>>
    BY <1>8 DEF EndOfFile, ShellExits, flow
  <2>2. BufferMoves
    BY <1>1, <1>3, <1>8 DEF EndOfFile, ShellExits
  <2> QED
    BY <2>1, <2>2
<1>9. ASSUME Builtin PROVE UNCHANGED <<pipe, wrote, got>> /\ BufferMoves
  BY <1>1, <1>9 DEF Builtin, flow
<1>10. ASSUME Others PROVE UNCHANGED <<pipe, wrote, got>> /\ BufferMoves
  BY <1>1, <1>10 DEF Others, execVars
<1>11. ASSUME NEW p \in {"left", "right"}, SideStep(p)
       PROVE  (UNCHANGED <<pipe, wrote, got>> \/ MakePipe \/ \E q \in Processes : Exit(q))
              /\ BufferMoves
  <2>1. p \in Workers /\ p \in Processes
    OBVIOUS
  <2>2. CASE Exit(p)
    BY <1>3, <2>1, <2>2 DEF Exit
  <2> QED
    BY <1>4, <1>5, <1>11, <2>1, <2>2 DEF SideStep
<1>12. Shell \in Workers
  OBVIOUS
<1>13. ShellStep => ReadLine \/ Goal
  BY <1>4, <1>5, <1>8, <1>9, <1>12 DEF ShellStep
<1>14. ReadLine => interactive' = interactive
  BY DEF ReadLine
<1> HIDE DEF BufferMoves
<1>15. ~ShellStep => Goal
  BY <1>6, <1>7, <1>10, <1>11 DEF Next
<1> QED
  BY <1>13, <1>14, <1>15

-----------------------------------------------------------------------------
(* The invariant of the pipe *)

LEMMA PipeInit == Init => PipeInv
<1> SUFFICES ASSUME Init PROVE PipeInv
  OBVIOUS
<1> USE ProcessFacts
<1>1. /\ pc = [p \in Processes |-> IF p = Shell THEN "prompt" ELSE "none"]
      /\ buffered = [p \in Processes |-> FALSE]
      /\ todo = [c \in Commands |-> 0] /\ pipe = <<>> /\ wrote = 0 /\ got = <<>>
  BY DEF Init, ExecInit
<1>2. Writing /\ AtEnd
  BY <1>1 DEF Writing, AtEnd
<1>3. Unbuffered /\ Flow
  BY <1>1 DEF Unbuffered, Flow
<1> QED
  BY <1>2, <1>3 DEF PipeInv

LEMMA WritingStep ==
    ASSUME FdTypes, Writing, Next
    PROVE  Writing'
<1> USE ProcessFacts
<1>0. todo \in [Commands -> Nat]
  BY DEF Writing
<1>1. todo' \in [Commands -> Nat]
  <2>1. CASE \E p \in Workers : Exec(p)
    <3>1. PICK p \in Workers : Exec(p)
      BY <2>1
    <3>2. PICK n \in Nat : todo' = [todo EXCEPT ![Command[p]] = n]
      <4>1. 0..MaxItems \subseteq Nat /\ {0} \subseteq Nat
        BY ExecuteAssumption
      <4> QED
        BY <3>1, <4>1 DEF Exec
    <3> QED
      BY <1>0, <3>2
  <2>2. CASE \E c \in Commands : WriteItem(c)
    <3>1. PICK c \in Commands : todo[c] > 0 /\ todo' = [todo EXCEPT ![c] = @ - 1]
      BY <2>2 DEF WriteItem
    <3>2. todo[c] - 1 \in Nat
      BY <1>0, <3>1
    <3> QED
      BY <1>0, <3>1, <3>2
  <2>3. ASSUME ~(\E p \in Workers : Exec(p)), ~(\E c \in Commands : WriteItem(c))
        PROVE  todo' = todo
    <3>1. ASSUME NEW p \in Workers, ExecuteCommandMain(p) PROVE todo' = todo
      BY <3>1 DEF ExecuteCommandMain, ParseWord, Redirect, RedirectFails, ParseEnds,
                  ForkCommand, ForkFails, Wait, flow
    <3>2. PipCmd \/ SetupLeft \/ SetupRight => todo' = todo
      BY DEF PipCmd, MakePipe, PipeFails, ForkLeft, ForkRight, ForkSide, ForkSideFails,
             ClosePipe, WaitLeft, WaitRight, SetupLeft, SetupRight, flow
    <3>3. \A p \in Processes : Exit(p) => todo' = todo
      BY DEF Exit
    <3>4. ASSUME NEW p \in Workers, Child(p) PROVE todo' = todo
      BY <2>3, <3>3, <3>4 DEF Child, ExecFails, flow
    <3>5. ASSUME NEW c \in Commands, Program(c) \/ CommandStops(c) PROVE todo' = todo
      BY <2>3, <3>5 DEF Program, CommandStops, BrokenPipe, ReadItem, EndOfInput, Finish, flow
    <3>6. Builtin \/ Others => todo' = todo
      BY DEF Builtin, Others, execVars, flow
    <3>7. ReadLine \/ EndOfFile \/ ShellExits => todo' = todo
      BY DEF ReadLine, EndOfFile, ShellExits, flow
    <3>8. ShellStep => todo' = todo
      BY <3>1, <3>2, <3>6, <3>7 DEF ShellStep
    <3>9. \A p \in {"left", "right"} : SideStep(p) => todo' = todo
      BY <3>1, <3>2, <3>3 DEF SideStep
    <3> QED
      BY <3>4, <3>5, <3>6, <3>8, <3>9 DEF Next
  <2> QED
    BY <1>0, <2>1, <2>2, <2>3
<1>2. ASSUME NEW c \in Commands, pc'[c] = "run", todo'[c] > 0
      PROVE  fds'[c][1] = "pipe_w"
  <2>1. PICK p \in Workers : c = Command[p]
    OBVIOUS
  <2>2. \/ pc'[c] = pc[c] /\ fds'[c] = fds[c] /\ todo'[c] = todo[c]
        \/ Exec(p) \/ WriteItem(c) \/ EndOfInput(c)
    BY <1>0, <1>2, <2>1, RunMoves
  <2>3. CASE Exec(p)
    <3>1. PICK n \in IF fds'[c][1] = "pipe_w" THEN 0..MaxItems ELSE {0} :
             todo' = [todo EXCEPT ![c] = n]
      BY <2>1, <2>3 DEF Exec
    <3>2. todo'[c] = n
      BY <1>0, <3>1
    <3> QED
      BY <1>2, <3>1, <3>2
  <2>4. CASE WriteItem(c)
    BY <2>4 DEF WriteItem, Writing
  <2>5. CASE EndOfInput(c)
    <3>1. c \in Processes
      OBVIOUS
    <3> QED
      BY <1>2, <2>5, <3>1 DEF EndOfInput, Goto, FdTypes
  <2> QED
    BY <1>2, <2>2, <2>3, <2>4, <2>5 DEF Writing
<1> QED
  BY <1>1, <1>2 DEF Writing

\* Nothing enters the pipe but what the left command writes, and what is read
\* of it is what was in it.
LEMMA FlowStep ==
    ASSUME Flow, Unbuffered, Next
    PROVE  Flow' /\ Unbuffered'
<1> USE ProcessFacts
<1>0. buffered \in [Processes -> BOOLEAN]
  BY DEF Flow
<1>1. CASE ReadLine
  <2>1. /\ buffered' = [buffered EXCEPT ![Shell] = Prompted]
        /\ wrote' = 0 /\ got' = <<>> /\ pipe' = <<>> /\ interactive' = interactive
    BY <1>1 DEF ReadLine
  <2>2. Prompted \in BOOLEAN /\ (interactive => Prompted = FALSE)
    BY DEF Prompted
  <2>3. Flow'
    BY <1>0, <2>1, <2>2 DEF Flow
  <2>4. Unbuffered'
    BY <1>0, <2>1, <2>2 DEF Unbuffered
  <2> QED
    BY <2>3, <2>4
<1>2. CASE ~ReadLine
  <2>1. /\ interactive' = interactive /\ BufferMoves
        /\ \/ UNCHANGED <<pipe, wrote, got>>
           \/ MakePipe
           \/ \E p \in Processes : Exit(p)
           \/ \E c \in Commands : WriteItem(c) \/ ReadItem(c)
    BY <1>0, <1>2, FlowMoves
  <2>2. Unbuffered'
    BY <2>1 DEF BufferMoves, Unbuffered
  <2>3. ASSUME interactive
        PROVE  /\ pipe' \in Seq({"data"}) /\ got' \in Seq({"data"})
               /\ wrote' = Len(got') + Len(pipe')
    <3>0. /\ pipe \in Seq({"data"}) /\ got \in Seq({"data"})
          /\ wrote = Len(got) + Len(pipe)
      BY <2>3 DEF Flow
    <3>1. CASE UNCHANGED <<pipe, wrote, got>>
      BY <3>0, <3>1
    <3>2. CASE MakePipe
      BY <3>2 DEF MakePipe
    <3>3. CASE \E p \in Processes : Exit(p)
      <4>1. UNCHANGED <<pipe, wrote, got>>
        BY <2>3, <3>3 DEF Exit, Unbuffered
      <4> QED
        BY <3>0, <4>1
    <3>4. CASE \E c \in Commands : WriteItem(c)
      BY <3>0, <3>4 DEF WriteItem
    <3>5. CASE \E c \in Commands : ReadItem(c)
      <4>1. /\ pipe # <<>> /\ pipe' = Tail(pipe) /\ got' = Append(got, Head(pipe))
            /\ wrote' = wrote
        BY <3>5 DEF ReadItem
      <4>2. /\ Head(pipe) \in {"data"} /\ Tail(pipe) \in Seq({"data"})
            /\ Len(Tail(pipe)) = Len(pipe) - 1
        BY <3>0, <4>1
      <4> QED
        BY <3>0, <4>1, <4>2
    <3> QED
      BY <2>1, <3>1, <3>2, <3>3, <3>4, <3>5
  <2>4. Flow'
    BY <2>1, <2>3 DEF Flow, BufferMoves
  <2> QED
    BY <2>2, <2>4
<1> QED
  BY <1>1, <1>2

\* Once the reader has met the end of its input nobody writes any more.
LEMMA AtEndStep ==
    ASSUME EndsInv, PipeInv, Next
    PROVE  AtEnd'
<1> USE ProcessFacts
<1>0. FdTypes /\ Phases /\ Writing /\ Unbuffered /\ Flow /\ AtEnd
  BY DEF EndsInv, PipeInv
<1> SUFFICES ASSUME interactive', pc'["rcmd"] = "end", fds'["rcmd"][0] = "pipe_r"
             PROVE  pipe' = <<>> /\ NoWriter'
  BY DEF AtEnd
<1>1. interactive
  BY <1>0, FlowMoves DEF Flow
<1>2. Command["right"] = "rcmd" /\ "right" \in Workers
  OBVIOUS
<1>3. \/ pc'["rcmd"] = pc["rcmd"] /\ fds'["rcmd"] = fds["rcmd"]
      \/ Exec("right") \/ WriteItem("rcmd") \/ EndOfInput("rcmd")
  BY <1>0, <1>2, RunMoves DEF Writing
<1>4. ~Exec("right") /\ ~WriteItem("rcmd")
  BY <1>0 DEF Exec, WriteItem, Goto, FdTypes
<1>5. CASE EndOfInput("rcmd")
  <2>1. UNCHANGED <<fds, pipe>> /\ fds["rcmd"][0] = "pipe_r" /\ pipe = <<>> /\ ~HasWriter
    BY <1>5 DEF EndOfInput, flow
  <2>2. \A p \in Processes : DOMAIN fds[p] = Descriptors
    BY <1>0 DEF FdTypes, Tables
  <2>3. NoWriter
    BY <2>1, <2>2 DEF HasWriter, Holds, NoWriter, Without
  <2>4. NoWriter'
    BY <2>1, <2>3 DEF NoWriter, Without
  <2> QED
    BY <2>1, <2>4
<1>6. CASE pc["rcmd"] = "end" /\ fds["rcmd"][0] = "pipe_r"
  <2>1. pipe = <<>> /\ NoWriter
    BY <1>0, <1>1, <1>6 DEF AtEnd
  <2>2. pc["right"] = "wait" /\ pc[Shell] \in {"close", "wait1", "wait2", "exit", "dead"}
    BY <1>0, <1>6 DEF Phases
  <2>3. NoWriter'
    BY <1>0, <2>1, <2>2, NoWriterStep
  <2>4. ~ReadLine /\ ~MakePipe
    BY <2>2 DEF ReadLine, MakePipe
  <2>5. \A c \in Commands : ~WriteItem(c) /\ ~ReadItem(c)
    <3> SUFFICES ASSUME NEW c \in Commands, WriteItem(c) PROVE FALSE
      BY <2>1 DEF ReadItem
    <3>1. fds[c][1] = "pipe_w"
      BY <1>0 DEF WriteItem, Writing
    <3> QED
      BY <2>1, <3>1, ExecuteAssumption DEF NoWriter, Without, Descriptors
  <2>6. \A p \in Processes : Exit(p) => pipe' = pipe
    BY <1>0, <1>1 DEF Exit, Unbuffered
  <2>7. pipe' = pipe
    BY <1>0, <2>4, <2>5, <2>6, FlowMoves DEF Flow
  <2> QED
    BY <2>1, <2>3, <2>7
<1> QED
  BY <1>3, <1>4, <1>5, <1>6

LEMMA PipeStep == EndsInv /\ PipeInv /\ [Next]_vars => PipeInv'
<1> SUFFICES ASSUME EndsInv, PipeInv, [Next]_vars PROVE PipeInv'
  OBVIOUS
<1>1. CASE Next
  BY <1>1, WritingStep, FlowStep, AtEndStep DEF PipeInv, EndsInv
<1>2. CASE UNCHANGED vars
  <2>1. UNCHANGED <<pc, fds, buffered, pipe, todo, wrote, got, interactive>>
    BY <1>2 DEF vars, execVars
  <2> QED
    BY <2>1 DEF PipeInv, Writing, Unbuffered, Flow, AtEnd, NoWriter, Without
<1> QED
  BY <1>1, <1>2

\* On a terminal the right command of a pipe reads only what the left one
\* wrote, and when it meets the end of its input it has read all of it: the
\* end comes only when no process holds the write end any more, and then
\* nobody gets it back.
THEOREM ReadsAllWritten == Spec => []PipeFaithful
<1>1. PipeInv => PipeFaithful
  <2> SUFFICES ASSUME PipeInv, interactive PROVE PipeFaithful
    BY DEF PipeFaithful
  <2>1. got \in Seq({"data"}) /\ wrote = Len(got) + Len(pipe)
    BY DEF PipeInv, Flow
  <2>2. \A k \in DOMAIN got : got[k] = "data"
    BY <2>1
  <2>3. ASSUME pc["rcmd"] = "end", fds["rcmd"][0] = "pipe_r"
        PROVE  Len(got) = wrote
    <3>1. pipe = <<>>
      BY <2>3 DEF PipeInv, AtEnd
    <3> QED
      BY <2>1, <3>1
  <2> QED
    BY <2>2, <2>3 DEF PipeFaithful
<1>2. Spec => [](EndsInv /\ PipeInv)
  BY EndsInit, EndsStep, PipeInit, PipeStep, PTL DEF Spec
<1> QED
  BY <1>1, <1>2, PTL

-----------------------------------------------------------------------------
(* What a step is for one process of execute_command_main *)

Untouched(p) ==
    /\ pc'[p] = pc[p] /\ fds'[p] = fds[p]
    /\ args'[p] = args[p] /\ at'[p] = at[p] /\ words'[p] = words[p] /\ redir'[p] = redir[p]

\* What the shell does for a side of its pipes, and what the side does.
SideMoves(p, Fork, Setup, Reap) == Fork \/ Setup \/ Reap \/ Exit(p)

WorkerStep(p) ==
    \/ ReadLine \/ ExecuteCommandMain(p)
    \/ p = Shell /\ (EndOfFile \/ ShellExits \/ PipCmd \/ Builtin)
    \/ p = "left" /\ SideMoves(p, ForkLeft, SetupLeft, WaitLeft)
    \/ p = "right" /\ SideMoves(p, ForkRight, SetupRight, WaitRight)

LEMMA WorkerMoves ==
    ASSUME FdTypes, words \in [Workers -> Nat], Next, NEW p \in Workers
    PROVE  Untouched(p) \/ WorkerStep(p)
<1> USE ProcessFacts
<1> DEFINE Goal == Untouched(p) \/ WorkerStep(p)
<1>1. /\ pc \in [Processes -> Labels] /\ fds \in [Processes -> Tables]
      /\ args \in [Workers -> Seq(Tokens)] /\ at \in [Workers -> Nat \ {0}]
      /\ redir \in [Workers -> [Streams -> Descriptors]]
      /\ p \in Processes /\ p \notin Commands
      /\ \A q \in Workers : Command[q] \in Processes /\ Command[q] # p
  BY DEF FdTypes
<1>2. ASSUME NEW q \in Processes \ {p}, Die(q), UNCHANGED local PROVE Untouched(p)
  BY <1>1, <1>2 DEF Die, Goto, Untouched, local
<1>3. ASSUME NEW q \in Processes \ {p}, Exit(q) PROVE Untouched(p)
  BY <1>2, <1>3 DEF Exit
<1>4. ASSUME NEW q \in Workers, ExecuteCommandMain(q) PROVE Goal
  <2>0. CASE q = p
    BY <1>4, <2>0 DEF WorkerStep
  <2>1. CASE ParseWord(q) /\ q # p
    BY <1>1, <2>1 DEF ParseWord, Untouched
  <2>2. CASE Redirect(q) /\ q # p
    <3>1. /\ \E n, f : fds' = [fds EXCEPT ![q][n] = f]
          /\ \E s, n : redir' = [redir EXCEPT ![q][s] = n]
          /\ at' = [at EXCEPT ![q] = @ + 1]
          /\ UNCHANGED <<pc, args, words>>
      BY <2>2 DEF Redirect
    <3> QED
      BY <1>1, <2>2, <3>1 DEF Untouched
  <2>3. CASE (RedirectFails(q) \/ ParseEnds(q) \/ ForkFails(q)) /\ q # p
    BY <1>1, <2>3 DEF RedirectFails, ParseEnds, ForkFails, Goto, Untouched, local
  <2>4. CASE (ForkCommand(q) \/ Wait(q)) /\ q # p
    BY <1>1, <2>4 DEF ForkCommand, Wait, Untouched, local
  <2> QED
    BY <1>4, <2>0, <2>1, <2>2, <2>3, <2>4 DEF ExecuteCommandMain
<1>5. ASSUME PipCmd, p # Shell PROVE Goal
  <2>1. CASE ForkLeft \/ WaitLeft
    <3>1. CASE p = "left"
      BY <2>1, <3>1 DEF WorkerStep, SideMoves
    <3>2. CASE p # "left"
      BY <1>1, <1>5, <2>1, <3>2 DEF ForkLeft, ForkSide, WaitLeft, Untouched, local
    <3> QED
      BY <3>1, <3>2
  <2>2. CASE ForkRight \/ WaitRight
    <3>1. CASE p = "right"
      BY <2>2, <3>1 DEF WorkerStep, SideMoves
    <3>2. CASE p # "right"
      BY <1>1, <1>5, <2>2, <3>2 DEF ForkRight, ForkSide, WaitRight, Untouched, local
    <3> QED
      BY <3>1, <3>2
  <2>3. CASE MakePipe \/ PipeFails \/ ForkSideFails \/ ClosePipe
    BY <1>1, <1>5, <2>3 DEF MakePipe, PipeFails, ForkSideFails, ClosePipe, Goto, Untouched, local
  <2> QED
    BY <1>5, <2>1, <2>2, <2>3 DEF PipCmd
<1>6. ASSUME Builtin, p # Shell PROVE Untouched(p)
  <2>1. /\ UNCHANGED local
        /\ pc' = pc \/ \E l : Goto(Shell, l)
        /\ fds' = fds \/ \E t : fds' = [fds EXCEPT ![Shell] = t]
                      \/ \E n, f : fds' = [fds EXCEPT ![Shell][n] = f]
    <3>1. CASE Cp
      BY <1>6, <3>1 DEF Builtin, Cp, AccessSource, StatTarget, AccessTarget, OpenSource,
          OpenSourceFails, CreateTarget, CreateTargetFails, CopyChunk, WriteFails, CopyEnds,
          ReadFails, Back
    <3>2. CASE Mv
      BY <1>6, <3>2 DEF Builtin, Mv, AccessSource, StatTarget, AccessTarget, Rename,
          RenameFails, Back
    <3>3. CASE FreeCommand
      BY <1>6, <3>3 DEF Builtin, FreeCommand
    <3> QED
      BY <1>6, <3>1, <3>2, <3>3 DEF Builtin
  <2> QED
    BY <1>1, <1>6, <2>1 DEF Goto, Untouched, local
<1>7. ASSUME EndOfFile \/ ShellExits, p # Shell PROVE Untouched(p)
  BY <1>1, <1>7 DEF EndOfFile, ShellExits, Die, Goto, Untouched, local
<1>8. ASSUME ShellStep PROVE Goal
  <2>1. CASE p = Shell
    BY <1>8, <2>1 DEF ShellStep, WorkerStep
  <2>2. CASE p # Shell
    <3>1. Shell \in Workers
      OBVIOUS
    <3>2. ReadLine => Goal
      BY DEF WorkerStep
    <3> HIDE DEF Goal
    <3>3. Untouched(p) => Goal
      BY DEF Goal
    <3> QED
      BY <1>4, <1>5, <1>6, <1>7, <1>8, <2>2, <3>1, <3>2, <3>3 DEF ShellStep
  <2> QED
    BY <2>1, <2>2
<1>9. ASSUME NEW q \in {"left", "right"}, SideStep(q) PROVE Goal
  <2>1. q \in Workers /\ q \in Processes
    OBVIOUS
  <2>2. CASE Exit(q)
    <3>1. CASE q = p
      BY <2>2, <3>1 DEF WorkerStep, SideMoves
    <3> QED
      BY <1>3, <2>1, <2>2, <3>1
  <2>3. CASE SetupLeft \/ SetupRight
    BY <1>1, <2>3 DEF SetupLeft, SetupRight, Goto, Untouched, WorkerStep, SideMoves, local
  <2> QED
    BY <1>4, <1>9, <2>1, <2>2, <2>3 DEF SideStep
<1>10. ASSUME NEW q \in Workers, Child(q) PROVE Untouched(p)
  <2>1. Command[q] \in Processes \ {p}
    BY <1>1
  <2>2. CASE Exec(q) \/ ExecFails(q)
    <3>1. /\ \E t : fds' = [fds EXCEPT ![Command[q]] = t]
          /\ \E l : pc' = [pc EXCEPT ![Command[q]] = l]
          /\ UNCHANGED local
      BY <2>2 DEF Exec, ExecFails, Goto
    <3> QED
      BY <1>1, <2>1, <3>1 DEF Untouched, local
  <2> QED
    BY <1>3, <1>10, <2>1, <2>2 DEF Child
<1>11. ASSUME NEW d \in Commands, Program(d) \/ CommandStops(d) PROVE Untouched(p)
  <2>1. d \in Processes \ {p}
    BY <1>1
  <2>2. CASE BrokenPipe(d) \/ Finish(d) \/ CommandStops(d)
    BY <1>2, <2>1, <2>2 DEF BrokenPipe, Finish, CommandStops
  <2>3. CASE ReadItem(d) \/ WriteItem(d) \/ EndOfInput(d)
    BY <1>1, <2>1, <2>3 DEF ReadItem, WriteItem, EndOfInput, Goto, Untouched, local
  <2> QED
    BY <1>11, <2>2, <2>3 DEF Program
<1>12. ASSUME Others PROVE Untouched(p)
  BY <1>12 DEF Others, execVars, Untouched
<1> QED
  BY <1>8, <1>9, <1>10, <1>11, <1>12 DEF Next

-----------------------------------------------------------------------------
(* What the shell has open *)

\* The table has the standard streams where they were.
StdKept(t) == \A s \in Streams : t[s] = StdTable[s]

\* A stream is redirected by a descriptor above the standard ones.
RedirApart(r) == \A s \in Streams : r[s] # s => r[s] >= 3

\* The shell has a command only while it waits for it.
NoChild == pc[Shell] # "wait" => pc["scmd"] = "none"

\* What descriptor n of the shell is open for.
OpenFor(n) ==
    \/ pc[Shell] \in {"parse", "fork", "wait"} /\ \E s \in Streams : redir[Shell][s] = n
    \/ pc[Shell] \in {"cp_create", "cp_copy"} /\ fds[Shell][n] \in {"source", "target"}
    \/ pc[Shell] \in {"fork1", "fork2", "close"} /\ n \in {pipe_fd[1], pipe_fd[2]}
    \/ pc[Shell] = "exit"

Held ==
    /\ pc[Shell] # "dead" => StdKept(fds[Shell])
    /\ RedirApart(redir[Shell])
    /\ pc[Shell] \in {"fork1", "fork2", "close"} =>
         /\ pipe_fd[1] >= 3 /\ pipe_fd[2] >= 3 /\ pipe_fd[1] # pipe_fd[2]
         /\ fds[Shell][pipe_fd[1]] = "pipe_r" /\ fds[Shell][pipe_fd[2]] = "pipe_w"
    /\ ~lost => \A n \in 3..MaxFds-1 : fds[Shell][n] # "closed" => OpenFor(n)

HeldTypes == todo \in [Commands -> Nat] /\ words \in [Workers -> Nat]

HeldInv == HeldTypes /\ NoChild /\ Held

LEMMA StreamFacts ==
    /\ Streams = {0, 1, 2} /\ Streams \subseteq Descriptors
    /\ Descriptors \subseteq Nat /\ 3..MaxFds-1 = Descriptors \ Streams
    /\ StdTable \in Tables
    /\ \A s \in Streams : StdTable[s] \in {"stdin", "stdout", "stderr"}
    /\ \A n \in 3..MaxFds-1 : StdTable[n] = "closed"
BY ExecuteAssumption DEF Streams, Descriptors, StdTable, Tables, Opens

\* What is opened is above the standard streams.
LEMMA LowestApart ==
    ASSUME NEW t \in Tables, StdKept(t), Free(t) # {}
    PROVE  Lowest(t) \in Descriptors /\ Lowest(t) >= 3 /\ t[Lowest(t)] = "closed"
<1>1. Free(t) \subseteq Descriptors /\ Descriptors \subseteq Nat
  BY StreamFacts DEF Free, Tables
<1>2. Lowest(t) \in Free(t)
  BY <1>1, LeastElement DEF Lowest
<1>3. Lowest(t) \in Descriptors /\ t[Lowest(t)] = "closed"
  BY <1>1, <1>2 DEF Free
<1>4. Lowest(t) \notin Streams
  BY <1>3, StreamFacts DEF StdKept
<1> QED
  BY <1>3, <1>4, StreamFacts, ExecuteAssumption DEF Descriptors

\* The shell forgets descriptors for good.
LEMMA LostMoves ==
    ASSUME Next, ~lost'
    PROVE  ~lost
<1>1. ASSUME NEW p \in Workers, ExecuteCommandMain(p) PROVE ~lost
  <2>1. CASE Redirect(p)
    BY <2>1 DEF Redirect
  <2>2. CASE RedirectFails(p) \/ ForkFails(p)
    BY <2>2 DEF RedirectFails, ForkFails, Forget
  <2>3. CASE ParseWord(p) \/ ParseEnds(p) \/ ForkCommand(p) \/ Wait(p)
    BY <2>3 DEF ParseWord, ParseEnds, ForkCommand, Wait
  <2> QED
    BY <1>1, <2>1, <2>2, <2>3 DEF ExecuteCommandMain
<1>2. ASSUME PipCmd \/ SetupLeft \/ SetupRight PROVE ~lost
  BY <1>2 DEF PipCmd, MakePipe, PipeFails, ForkLeft, ForkRight, ForkSide, ForkSideFails,
              ClosePipe, WaitLeft, WaitRight, SetupLeft, SetupRight
<1>3. ASSUME NEW p, Exit(p) PROVE ~lost
  BY <1>3 DEF Exit
<1>4. ASSUME NEW p \in Workers, Child(p) PROVE ~lost
  BY <1>3, <1>4 DEF Child, Exec, ExecFails
<1>5. ASSUME NEW c \in Commands, Program(c) \/ CommandStops(c) PROVE ~lost
  BY <1>5 DEF Program, CommandStops, WriteItem, BrokenPipe, ReadItem, EndOfInput, Finish
<1>6. ASSUME Builtin \/ Others PROVE ~lost
  BY <1>6 DEF Builtin, Others, execVars
<1>7. ASSUME ReadLine \/ EndOfFile \/ ShellExits PROVE ~lost
  BY <1>7 DEF ReadLine, EndOfFile, ShellExits
<1>8. \A p \in {"left", "right"} : p \in Workers
  BY ProcessFacts
<1>9. Shell \in Workers
  BY ProcessFacts
<1> QED
  BY <1>1, <1>2, <1>3, <1>4, <1>5, <1>6, <1>7, <1>8, <1>9 DEF Next, ShellStep, SideStep

LEMMA PipeFdMoves == Next => pipe_fd' = pipe_fd \/ MakePipe
<1> SUFFICES ASSUME Next, ~MakePipe PROVE pipe_fd' = pipe_fd
  OBVIOUS
<1>1. ASSUME NEW p \in Workers, ExecuteCommandMain(p) PROVE pipe_fd' = pipe_fd
  BY <1>1 DEF ExecuteCommandMain, ParseWord, Redirect, RedirectFails, ParseEnds, ForkCommand,
              ForkFails, Wait
<1>2. ASSUME PipCmd \/ SetupLeft \/ SetupRight PROVE pipe_fd' = pipe_fd
  BY <1>2 DEF PipCmd, PipeFails, ForkLeft, ForkRight, ForkSide, ForkSideFails,
              ClosePipe, WaitLeft, WaitRight, SetupLeft, SetupRight
<1>3. ASSUME NEW p, Exit(p) PROVE pipe_fd' = pipe_fd
  BY <1>3 DEF Exit
<1>4. ASSUME NEW p \in Workers, Child(p) PROVE pipe_fd' = pipe_fd
  BY <1>3, <1>4 DEF Child, Exec, ExecFails
<1>5. ASSUME NEW c \in Commands, Program(c) \/ CommandStops(c) PROVE pipe_fd' = pipe_fd
  BY <1>5 DEF Program, CommandStops, WriteItem, BrokenPipe, ReadItem, EndOfInput, Finish
<1>6. ASSUME Builtin \/ Others PROVE pipe_fd' = pipe_fd
  BY <1>6 DEF Builtin, Others, execVars
<1>7. ASSUME ReadLine \/ EndOfFile \/ ShellExits PROVE pipe_fd' = pipe_fd
  BY <1>7 DEF ReadLine, EndOfFile, ShellExits
<1>8. \A p \in {"left", "right"} : p \in Workers
  BY ProcessFacts
<1>9. Shell \in Workers
  BY ProcessFacts
<1> QED
  BY <1>1, <1>2, <1>3, <1>4, <1>5, <1>6, <1>7, <1>8, <1>9 DEF Next, ShellStep, SideStep

\* The shell's own steps, by the label at which it is.
ShellMove ==
    \/ ReadLine \/ EndOfFile \/ ShellExits
    \/ ParseWord(Shell) \/ Redirect(Shell) \/ RedirectFails(Shell) \/ ParseEnds(Shell)
    \/ ForkCommand(Shell) \/ ForkFails(Shell) \/ Wait(Shell)
    \/ PipCmd \/ Builtin

LEMMA ShellMoves ==
    ASSUME FdTypes, HeldTypes, Next
    PROVE  Untouched(Shell) \/ ShellMove
<1>1. Untouched(Shell) \/ WorkerStep(Shell)
  BY ProcessFacts, WorkerMoves DEF HeldTypes
<1> QED
  BY <1>1, ProcessFacts DEF WorkerStep, ExecuteCommandMain, ShellMove

BuiltinLabels == {"cp", "cp_stat", "cp_test", "cp_open", "cp_create", "cp_copy",
                  "mv", "mv_stat", "mv_test", "mv_rename", "free"}

LEMMA BuiltinLabel == Builtin => pc[Shell] \in BuiltinLabels
BY DEF Builtin, Cp, Mv, FreeCommand, AccessSource, StatTarget, AccessTarget, OpenSource,
       OpenSourceFails, CreateTarget, CreateTargetFails, CopyChunk, WriteFails, CopyEnds,
       ReadFails, Rename, RenameFails, BuiltinLabels

LEMMA PipCmdLabel == PipCmd => pc[Shell] \in PipeLabels \cup {"pipe"}
BY DEF PipCmd, MakePipe, PipeFails, ForkLeft, ForkRight, ForkSide, ForkSideFails,
       ClosePipe, WaitLeft, WaitRight, PipeLabels

LEMMA NoChildStep ==
    ASSUME FdTypes, HeldTypes, NoChild, Next
    PROVE  NoChild'
<1> USE ProcessFacts
<1> SUFFICES ASSUME pc'["shell"] # "wait" PROVE pc'["scmd"] = "none"
  BY DEF NoChild
<1>0. pc \in [Processes -> Labels]
  BY DEF FdTypes
<1>1. CASE pc["shell"] # "wait"
  <2>1. pc["scmd"] = "none"
    BY <1>1 DEF NoChild
  <2>2. pc'["scmd"] = pc["scmd"] \/ CommandStep("shell")
    BY CommandMoves DEF HeldTypes
  <2>3. ~ForkCommand("shell") /\ ~Wait("shell")
    BY <1>0, <1>1 DEF ForkCommand, Wait
  <2>4. ~Child("shell") /\ ~Program("scmd") /\ ~CommandStops("scmd")
    BY <2>1 DEF Child, Exec, ExecFails, Exit, Program, CommandStops, WriteItem, BrokenPipe,
                ReadItem, EndOfInput, Finish
  <2> QED
    BY <2>1, <2>2, <2>3, <2>4 DEF CommandStep
<1>2. CASE pc["shell"] = "wait"
  <2>1. ShellMove
    BY <1>2, ShellMoves DEF Untouched
  <2>2. ~Builtin /\ ~PipCmd
    BY <1>2, BuiltinLabel, PipCmdLabel DEF BuiltinLabels, PipeLabels
  <2>3. Wait("shell")
    BY <1>2, <2>1, <2>2 DEF ShellMove, ReadLine, EndOfFile, ShellExits, ParseWord, Redirect,
         RedirectFails, ParseEnds, ForkCommand, ForkFails, Parsing
  <2> QED
    BY <1>0, <2>3 DEF Wait
<1> QED
  BY <1>1, <1>2

-----------------------------------------------------------------------------
(* What the shell has open, step by step *)

\* Steps after which the shell has only the standard streams.
LEMMA HeldClosed ==
    ASSUME NEW t, fds'[Shell] = t, StdKept(t), RedirApart(redir'[Shell]),
           pc'[Shell] \notin {"fork1", "fork2", "close"},
           ~lost' => \A n \in 3..MaxFds-1 : t[n] = "closed"
    PROVE  Held'
BY DEF Held, StdKept, RedirApart

LEMMA HeldUntouched ==
    ASSUME Held, Untouched(Shell), pipe_fd' = pipe_fd, ~lost' => ~lost
    PROVE  Held'
BY DEF Held, Untouched, StdKept, RedirApart, OpenFor

\* Nothing but the standard streams is open where nothing is going on.
LEMMA NothingOpen ==
    ASSUME Held, ~lost, NEW n \in 3..MaxFds-1,
           pc[Shell] \notin {"parse", "fork", "wait", "cp_create", "cp_copy",
                             "fork1", "fork2", "close", "exit"}
    PROVE  fds[Shell][n] = "closed"
BY DEF Held, OpenFor

LEMMA HeldLine ==
    ASSUME FdTypes, Held, ReadLine \/ EndOfFile \/ ShellExits
    PROVE  Held'
<1> USE ProcessFacts
<1>0. /\ pc \in [Processes -> Labels] /\ fds \in [Processes -> Tables]
      /\ redir \in [Workers -> [Streams -> Descriptors]]
  BY DEF FdTypes
<1>1. CASE ReadLine
  <2>1. pc["shell"] = "prompt" /\ fds' = fds /\ lost' = lost /\ Enter(line')
    BY <1>1 DEF ReadLine
  <2>2. pc'["shell"] \notin {"fork1", "fork2", "close"}
    <3>1. line'.kind \in Kinds
      BY <1>1, LinesAssumption DEF ReadLine
    <3>2. CASE line'.kind \in {"blank", "prints", "badpipe"}
      BY <1>1, <2>1, <3>2 DEF ReadLine
    <3>3. CASE line'.kind = "simple"
      BY <1>0, <1>1, <3>3 DEF ReadLine, Goto
    <3>4. CASE line'.kind \in {"pipe", "free", "exit"}
      BY <1>0, <1>1, <3>4 DEF ReadLine, Goto
    <3>5. CASE line'.kind \in {"cp", "mv"}
      BY <1>0, <1>1, <3>5 DEF ReadLine, BuiltinStart, Goto
    <3> QED
      BY <3>1, <3>2, <3>3, <3>4, <3>5 DEF Kinds
  <2>3. redir'["shell"] = NoRedir /\ RedirApart(NoRedir)
    BY <2>1 DEF Enter, RedirApart, NoRedir
  <2>4. StdKept(fds["shell"])
    BY <2>1 DEF Held
  <2>5. ~lost' => \A n \in 3..MaxFds-1 : fds["shell"][n] = "closed"
    BY <2>1, NothingOpen
  <2> QED
    BY <2>1, <2>2, <2>3, <2>4, <2>5, HeldClosed
<1>2. CASE EndOfFile
  <2>1. /\ pc["shell"] = "prompt" /\ pc'["shell"] = "exit" /\ lost' = lost
        /\ UNCHANGED <<fds, redir>>
    BY <1>0, <1>2 DEF EndOfFile, Goto, local
  <2>2. StdKept(fds["shell"]) /\ RedirApart(redir["shell"])
    BY <2>1 DEF Held
  <2>3. ~lost' => \A n \in 3..MaxFds-1 : fds["shell"][n] = "closed"
    BY <2>1, NothingOpen
  <2> QED
    BY <2>1, <2>2, <2>3, HeldClosed
<1>3. CASE ShellExits
  <2>1. pc'["shell"] = "dead" /\ fds'["shell"] = Shut /\ redir' = redir
    BY <1>0, <1>3 DEF ShellExits, Die, Goto, local
  <2>2. \A n \in 3..MaxFds-1 : Shut[n] = "closed"
    BY StreamFacts DEF Shut, Descriptors
  <2> QED
    BY <2>1, <2>2 DEF Held, RedirApart
<1> QED
  BY <1>1, <1>2, <1>3

LEMMA HeldRedirect ==
    ASSUME FdTypes, Held, Redirect(Shell)
    PROVE  Held'
<1> USE ProcessFacts
<1> DEFINE t == fds["shell"]
           n == Lowest(t)
           f == Token("shell").file
           s == Stream(Token("shell"))
           r == redir["shell"]
<1>1. /\ pc["shell"] = "parse" /\ pc' = pc /\ pipe_fd' = pipe_fd
      /\ at["shell"] <= Len(args["shell"])
      /\ Token("shell").op # "word" /\ f # "missing" /\ Free(t) # {}
      /\ fds' = [fds EXCEPT !["shell"][n] = f]
      /\ redir' = [redir EXCEPT !["shell"][s] = n]
      /\ lost' = (lost \/ r[s] # s)
  BY DEF Redirect, Parsing
<1>2. /\ t \in Tables /\ r \in [Streams -> Descriptors] /\ fds \in [Processes -> Tables]
      /\ redir \in [Workers -> [Streams -> Descriptors]]
  BY DEF FdTypes
<1>3. Token("shell") \in Tokens
  BY <1>1 DEF Token, FdTypes
<1>4. f \in Files /\ s \in Streams
  BY <1>1, <1>3, TokenFacts
<1>5. StdKept(t) /\ RedirApart(r)
  BY <1>1 DEF Held
<1>6. n \in Descriptors /\ n >= 3 /\ t[n] = "closed"
  BY <1>1, <1>2, <1>5, LowestApart
<1> HIDE DEF n, f, s
<1>7. fds'["shell"] = [t EXCEPT ![n] = f] /\ redir'["shell"] = [r EXCEPT ![s] = n]
  BY <1>1, <1>2
<1> HIDE DEF t, r
<1>8. /\ fds'["shell"][n] = f /\ redir'["shell"][s] = n
      /\ \A k \in Descriptors \ {n} : fds'["shell"][k] = t[k]
      /\ \A u \in Streams \ {s} : redir'["shell"][u] = r[u]
  BY <1>2, <1>4, <1>6, <1>7 DEF Tables
<1>9. StdKept(fds'["shell"]) /\ RedirApart(redir'["shell"])
  BY <1>4, <1>5, <1>6, <1>8, StreamFacts DEF StdKept, RedirApart
<1>10. ASSUME ~lost', NEW k \in 3..MaxFds-1, fds'["shell"][k] # "closed"
       PROVE  \E u \in Streams : redir'["shell"][u] = k
  <2>1. ~lost /\ r[s] = s
    BY <1>1, <1>10
  <2>2. CASE k = n
    BY <1>4, <1>8, <2>2
  <2>3. CASE k # n
    <3>1. k \in Descriptors /\ k \notin Streams
      BY <1>10, StreamFacts
    <3>2. t[k] # "closed"
      BY <1>8, <1>10, <2>3, <3>1
    <3>3. PICK u \in Streams : r[u] = k
      BY <1>1, <1>10, <2>1, <3>2 DEF Held, OpenFor, t, r
    <3>4. u # s
      BY <2>1, <3>1, <3>3
    <3> QED
      BY <1>8, <3>3, <3>4
  <2> QED
    BY <2>2, <2>3
<1> QED
  BY <1>1, <1>9, <1>10 DEF Held, OpenFor

LEMMA HeldExecute ==
    ASSUME FdTypes, Held,
           ParseWord(Shell) \/ Redirect(Shell) \/ RedirectFails(Shell) \/ ParseEnds(Shell)
           \/ ForkCommand(Shell) \/ ForkFails(Shell) \/ Wait(Shell)
    PROVE  Held'
<1> USE ProcessFacts
<1> DEFINE t == fds["shell"]
           r == redir["shell"]
<1>0. /\ pc \in [Processes -> Labels] /\ fds \in [Processes -> Tables]
      /\ redir \in [Workers -> [Streams -> Descriptors]]
      /\ t \in Tables /\ r \in [Streams -> Descriptors]
  BY DEF FdTypes
<1>1. CASE ParseWord(Shell)
  <2>1. UNCHANGED <<pc, fds, redir, pipe_fd, lost>>
    BY <1>1 DEF ParseWord
  <2> QED
    BY <2>1 DEF Held, StdKept, RedirApart, OpenFor
<1>2. CASE RedirectFails(Shell) \/ ForkFails(Shell)
  <2>1. /\ pc["shell"] \in {"parse", "fork"} /\ pc'["shell"] = "prompt"
        /\ UNCHANGED <<fds, redir>> /\ lost' = (lost \/ r # NoRedir)
    BY <1>0, <1>2 DEF RedirectFails, ForkFails, Parsing, Goto, ReturnTo, Forget, local
  <2>2. StdKept(t) /\ RedirApart(r)
    BY <2>1 DEF Held
  <2>3. ASSUME ~lost', NEW n \in 3..MaxFds-1 PROVE t[n] = "closed"
    <3>1. ~lost /\ r = NoRedir
      BY <2>1, <2>3
    <3>2. \A s \in Streams : r[s] # n
      BY <2>3, <3>1, StreamFacts DEF NoRedir
    <3> QED
      BY <2>1, <2>3, <3>1, <3>2 DEF Held, OpenFor
  <2> QED
    BY <2>1, <2>2, <2>3, HeldClosed
<1>3. CASE ParseEnds(Shell)
  <2>1. /\ pc["shell"] = "parse" /\ pc'["shell"] = "fork"
        /\ UNCHANGED <<fds, redir, pipe_fd, lost>>
    BY <1>0, <1>3 DEF ParseEnds, Goto, local
  <2> QED
    BY <2>1 DEF Held, StdKept, RedirApart, OpenFor
<1>4. CASE ForkCommand(Shell)
  <2>1. /\ pc["shell"] = "fork" /\ pc'["shell"] = "wait"
        /\ fds'["shell"] = t /\ UNCHANGED <<redir, pipe_fd, lost>>
    BY <1>0, <1>4 DEF ForkCommand, local
  <2> QED
    BY <2>1 DEF Held, StdKept, RedirApart, OpenFor
<1>5. CASE Wait(Shell)
  <2> DEFINE u == [n \in DOMAIN t |->
                    IF \E s \in Streams : r[s] = n /\ n # s THEN "closed" ELSE t[n]]
  <2>1. /\ pc["shell"] = "wait" /\ pc'["shell"] = "prompt" /\ fds'["shell"] = u
        /\ UNCHANGED <<redir, lost>>
    BY <1>0, <1>5 DEF Wait, ReturnTo, local
  <2>2. StdKept(t) /\ RedirApart(r)
    BY <2>1 DEF Held
  <2>3. DOMAIN t = Descriptors
    BY <1>0 DEF Tables
  <2> HIDE DEF t, r
  <2>4. ASSUME NEW n \in Streams PROVE u[n] = t[n]
    <3>1. ASSUME NEW s \in Streams, r[s] = n, n # s PROVE FALSE
      <4>1. n >= 3
        BY <2>2, <3>1 DEF RedirApart
      <4> QED
        BY <4>1, StreamFacts
    <3> QED
      BY <2>3, <3>1, StreamFacts
  <2>5. StdKept(u)
    BY <2>2, <2>4 DEF StdKept
  <2>6. ASSUME ~lost', NEW n \in 3..MaxFds-1 PROVE u[n] = "closed"
    <3>1. n \in Descriptors /\ n \notin Streams
      BY StreamFacts
    <3>2. t[n] = "closed" \/ \E s \in Streams : r[s] = n
      BY <2>1, <2>6 DEF Held, OpenFor, t, r
    <3> QED
      BY <2>3, <3>1, <3>2
  <2> HIDE DEF u
  <2> QED
    BY <2>1, <2>2, <2>5, <2>6, HeldClosed DEF r
<1> QED
  BY <1>1, <1>2, <1>3, <1>4, <1>5, HeldRedirect

\* The ends of a pipe are above the standard streams, and are closed again.
LEMMA HeldMakePipe ==
    ASSUME FdTypes, Held, MakePipe
    PROVE  Held'
<1> USE ProcessFacts
<1> DEFINE t == fds["shell"]
           r == Lowest(t)
           w == Min(Free(t) \ {r})
<1>1. /\ pc["shell"] = "pipe" /\ Cardinality(Free(t)) >= 2
      /\ pipe_fd' = <<r, w>>
      /\ fds' = [fds EXCEPT !["shell"][r] = "pipe_r", !["shell"][w] = "pipe_w"]
      /\ Goto("shell", "fork1") /\ UNCHANGED <<redir, lost>>
  BY DEF MakePipe, local
<1>2. t \in Tables /\ fds \in [Processes -> Tables] /\ pc \in [Processes -> Labels]
  BY DEF FdTypes
<1>3. StdKept(t) /\ RedirApart(redir["shell"])
  BY <1>1 DEF Held
<1>4. Free(t) # {}
  BY <1>1, FS_EmptySet
<1>5. r \in Descriptors /\ r >= 3 /\ t[r] = "closed"
  BY <1>2, <1>3, <1>4, LowestApart
<1>6. w \in Descriptors /\ w >= 3 /\ w # r
  <2>1. Free(t) \ {r} # {}
    <3>1. SUFFICES ASSUME Free(t) = {r} PROVE FALSE
      BY <1>4
    <3>2. Cardinality({r}) = 1
      BY FS_Singleton
    <3> QED
      BY <1>1, <3>1, <3>2
  <2>2. Free(t) \subseteq Descriptors /\ Descriptors \subseteq Nat
    BY <1>2, StreamFacts DEF Free, Tables
  <2>3. w \in Free(t) \ {r}
    BY <2>1, <2>2, LeastElement
  <2>4. w \notin Streams
    BY <1>3, <2>3, StreamFacts DEF Free, StdKept
  <2> QED
    BY <2>2, <2>3, <2>4, StreamFacts, ExecuteAssumption DEF Descriptors
<1>7. ASSUME ~lost, NEW n \in 3..MaxFds-1 PROVE t[n] = "closed"
  BY <1>1, <1>7, NothingOpen
<1> HIDE DEF t, r, w
<1>8. /\ fds'["shell"] = [[t EXCEPT ![r] = "pipe_r"] EXCEPT ![w] = "pipe_w"]
      /\ pc'["shell"] = "fork1"
  BY <1>1, <1>2 DEF Goto, t
<1>9. /\ fds'["shell"][r] = "pipe_r" /\ fds'["shell"][w] = "pipe_w"
      /\ \A n \in Descriptors \ {r, w} : fds'["shell"][n] = t[n]
  BY <1>2, <1>5, <1>6, <1>8 DEF Tables
<1>10. StdKept(fds'["shell"])
  BY <1>3, <1>5, <1>6, <1>9, StreamFacts DEF StdKept
<1>11. pipe_fd'[1] = r /\ pipe_fd'[2] = w
  BY <1>1
<1>12. ASSUME ~lost', NEW n \in 3..MaxFds-1, fds'["shell"][n] # "closed"
       PROVE  n \in {r, w}
  <2>1. n \in Descriptors /\ t[n] = "closed"
    BY <1>1, <1>7, <1>12, StreamFacts
  <2> QED
    BY <1>9, <1>12, <2>1
<1>13. RedirApart(redir'["shell"])
  BY <1>1, <1>3
<1> QED
  BY <1>5, <1>6, <1>8, <1>9, <1>10, <1>11, <1>12, <1>13 DEF Held, OpenFor

LEMMA HeldPipCmd ==
    ASSUME FdTypes, Held, PipCmd
    PROVE  Held'
<1> USE ProcessFacts
<1> DEFINE t == fds["shell"]
<1>0. /\ pc \in [Processes -> Labels] /\ fds \in [Processes -> Tables]
      /\ t \in Tables /\ pipe_fd[1] \in Descriptors /\ pipe_fd[2] \in Descriptors
  BY DEF FdTypes
<1>1. CASE PipeFails \/ WaitLeft \/ WaitRight
  <2>1. /\ pc["shell"] \in {"pipe", "wait1", "wait2"}
        /\ pc'["shell"] \in {"exit", "wait2", "prompt"}
        /\ UNCHANGED <<fds, redir, lost>>
    BY <1>0, <1>1 DEF PipeFails, WaitLeft, WaitRight, Goto, local
  <2>2. StdKept(t) /\ RedirApart(redir["shell"])
    BY <2>1 DEF Held
  <2>3. ~lost' => \A n \in 3..MaxFds-1 : t[n] = "closed"
    BY <2>1, NothingOpen
  <2> QED
    BY <2>1, <2>2, <2>3, HeldClosed
<1>2. CASE ForkLeft \/ ForkRight \/ ForkSideFails
  <2>1. /\ pc["shell"] \in {"fork1", "fork2"} /\ pc'["shell"] \in {"fork2", "close", "exit"}
        /\ fds'["shell"] = t /\ UNCHANGED <<redir, pipe_fd, lost>>
    BY <1>0, <1>2 DEF ForkLeft, ForkRight, ForkSide, ForkSideFails, Goto, local
  <2> QED
    BY <2>1 DEF Held, StdKept, RedirApart, OpenFor
<1>3. CASE ClosePipe
  <2> DEFINE u == Close(t, pipe_fd[1])
             v == Close(u, pipe_fd[2])
  <2>1. /\ pc["shell"] = "close" /\ pc'["shell"] = "wait1" /\ fds'["shell"] = v
        /\ UNCHANGED <<redir, lost>>
    BY <1>0, <1>3 DEF ClosePipe, Goto, local
  <2>2. /\ StdKept(t) /\ RedirApart(redir["shell"])
        /\ pipe_fd[1] >= 3 /\ pipe_fd[2] >= 3
    BY <2>1 DEF Held
  <2>3. \A n \in Descriptors : v[n] = IF n \in {pipe_fd[1], pipe_fd[2]} THEN "closed" ELSE t[n]
    BY <1>0 DEF Close, Tables
  <2> HIDE DEF u, v
  <2>4. StdKept(v)
    BY <2>2, <2>3, StreamFacts DEF StdKept
  <2>5. ASSUME ~lost', NEW n \in 3..MaxFds-1 PROVE v[n] = "closed"
    <3>1. t[n] = "closed" \/ n \in {pipe_fd[1], pipe_fd[2]}
      BY <2>1, <2>5 DEF Held, OpenFor
    <3> QED
      BY <2>3, <3>1, StreamFacts
  <2> QED
    BY <2>1, <2>2, <2>4, <2>5, HeldClosed
<1> QED
  BY <1>1, <1>2, <1>3, HeldMakePipe DEF PipCmd

\* What cp_command opens it closes, and nothing else.
LEMMA HeldBuiltin ==
    ASSUME FdTypes, Held, Builtin
    PROVE  Held'
<1> USE ProcessFacts
<1> DEFINE t == fds["shell"]
           n == Lowest(t)
<1>0. /\ pc \in [Processes -> Labels] /\ fds \in [Processes -> Tables]
      /\ t \in Tables /\ redir' = redir /\ lost' = lost /\ pipe_fd' = pipe_fd
  BY DEF FdTypes, Builtin, local
<1>01. StdKept(t) /\ RedirApart(redir["shell"])
  BY BuiltinLabel DEF Held, BuiltinLabels
<1>1. ASSUME fds' = fds, pc["shell"] \in BuiltinLabels \ {"cp_create", "cp_copy"},
             pc'["shell"] \notin {"fork1", "fork2", "close"}
      PROVE  Held'
  <2>1. ~lost' => \A k \in 3..MaxFds-1 : t[k] = "closed"
    BY <1>0, <1>1, NothingOpen DEF BuiltinLabels
  <2> QED
    BY <1>0, <1>01, <1>1, <2>1, HeldClosed
<1>2. CASE /\ \/ AccessSource("cp", "cp_stat") \/ StatTarget("cp_stat", "cp_test")
              \/ AccessTarget("cp_test", "cp_open") \/ AccessSource("mv", "mv_stat")
              \/ StatTarget("mv_stat", "mv_test") \/ AccessTarget("mv_test", "mv_rename")
              \/ OpenSourceFails \/ Rename \/ RenameFails \/ FreeCommand
           /\ fds' = fds
  <2>1. /\ pc["shell"] \in BuiltinLabels \ {"cp_create", "cp_copy"}
        /\ pc'["shell"] \in {"cp_stat", "cp_test", "cp_open", "mv_stat", "mv_test", "mv_rename",
                             "prompt", "exit"}
    BY <1>0, <1>2 DEF AccessSource, StatTarget, AccessTarget, OpenSourceFails, Rename,
                      RenameFails, FreeCommand, Back, Goto, BuiltinLabels
  <2> QED
    BY <1>1, <1>2, <2>1
<1>3. CASE CopyChunk
  <2>1. UNCHANGED <<pc, fds>>
    BY <1>3 DEF CopyChunk
  <2> QED
    BY <1>0, <2>1 DEF Held, StdKept, RedirApart, OpenFor
<1>4. CASE OpenSource \/ CreateTarget
  <2>1. PICK f \in {"source", "target"} : fds' = [fds EXCEPT !["shell"][n] = f]
    BY <1>4 DEF OpenSource, CreateTarget
  <2>2. /\ pc["shell"] \in {"cp_open", "cp_create"} /\ Free(t) # {}
        /\ pc'["shell"] \in {"cp_create", "cp_copy"}
    BY <1>0, <1>4 DEF OpenSource, CreateTarget, Goto
  <2>3. n \in Descriptors /\ n >= 3
    BY <1>0, <1>01, <2>2, LowestApart
  <2> HIDE DEF n
  <2>4. /\ fds'["shell"][n] = f
        /\ \A k \in Descriptors \ {n} : fds'["shell"][k] = t[k]
    BY <1>0, <2>1, <2>3 DEF Tables
  <2>5. StdKept(fds'["shell"])
    BY <1>01, <2>3, <2>4, StreamFacts DEF StdKept
  <2>6. ASSUME ~lost', NEW k \in 3..MaxFds-1, fds'["shell"][k] # "closed"
        PROVE  fds'["shell"][k] \in {"source", "target"}
    <3>1. k \in Descriptors /\ (t[k] # "closed" => t[k] \in {"source", "target"})
      BY <1>0, <2>2, <2>6, StreamFacts DEF Held, OpenFor
    <3> QED
      BY <2>4, <2>6, <3>1
  <2> QED
    BY <1>0, <1>01, <2>2, <2>5, <2>6 DEF Held, OpenFor
<1>5. CASE CreateTargetFails \/ WriteFails \/ CopyEnds \/ ReadFails
  <2>1. /\ fds'["shell"] = CopyTable /\ pc'["shell"] = "prompt"
        /\ pc["shell"] \in {"cp_create", "cp_copy"}
    BY <1>0, <1>5 DEF CreateTargetFails, WriteFails, CopyEnds, ReadFails, Back, Goto
  <2>2. \A k \in Descriptors : CopyTable[k] = IF t[k] \in {"source", "target"} THEN "closed" ELSE t[k]
    BY DEF CopyTable, Descriptors
  <2>3. StdKept(CopyTable)
    <3>1. ASSUME NEW s \in Streams PROVE CopyTable[s] = StdTable[s]
      BY <1>01, <2>2, StreamFacts DEF StdKept
    <3> QED
      BY <3>1 DEF StdKept
  <2>4. ASSUME ~lost', NEW k \in 3..MaxFds-1 PROVE CopyTable[k] = "closed"
    <3>1. t[k] # "closed" => t[k] \in {"source", "target"}
      BY <1>0, <2>1, <2>4 DEF Held, OpenFor
    <3> QED
      BY <2>2, <3>1, StreamFacts
  <2> QED
    BY <1>0, <1>01, <2>1, <2>3, <2>4, HeldClosed
<1>6. OpenSourceFails => fds' = fds
  BY DEF OpenSourceFails
<1>7. FreeCommand => fds' = fds
  BY DEF FreeCommand
<1>8. CASE Cp
  BY <1>2, <1>3, <1>4, <1>5, <1>6, <1>8 DEF Cp
<1>9. CASE Mv
  BY <1>2, <1>9 DEF Mv
<1> QED
  BY <1>2, <1>7, <1>8, <1>9 DEF Builtin

LEMMA HeldStep ==
    ASSUME FdTypes, HeldTypes, Held, Next
    PROVE  Held'
<1>1. CASE ShellMove
  BY <1>1, HeldLine, HeldExecute, HeldPipCmd, HeldBuiltin DEF ShellMove
<1>2. CASE Untouched(Shell) /\ ~ShellMove
  <2>1. pipe_fd' = pipe_fd /\ (~lost' => ~lost)
    BY <1>2, PipeFdMoves, LostMoves DEF ShellMove, PipCmd
  <2> QED
    BY <1>2, <2>1, HeldUntouched
<1> QED
  BY <1>1, <1>2, ShellMoves

LEMMA HeldInit == Init => HeldInv
<1> SUFFICES ASSUME Init PROVE HeldInv
  OBVIOUS
<1> USE ProcessFacts
<1>1. /\ pc["shell"] = "prompt" /\ pc["scmd"] = "none" /\ fds["shell"] = StdTable
      /\ redir["shell"] = NoRedir /\ todo = [c \in Commands |-> 0]
      /\ words = [p \in Workers |-> 0]
  BY DEF Init, ExecInit
<1>2. Held
  BY <1>1, StreamFacts DEF Held, StdKept, RedirApart, NoRedir
<1> QED
  BY <1>1, <1>2 DEF HeldInv, HeldTypes, NoChild

LEMMA WordsStep ==
    ASSUME words \in [Workers -> Nat], Next
    PROVE  words' \in [Workers -> Nat]
<1>1. ASSUME NEW p \in Workers, ExecuteCommandMain(p) PROVE words' \in [Workers -> Nat]
  <2>1. CASE ParseWord(p)
    BY <2>1 DEF ParseWord
  <2>2. CASE ~ParseWord(p)
    <3>1. words' = words
      BY <1>1, <2>2 DEF ExecuteCommandMain, Redirect, RedirectFails, ParseEnds, ForkCommand,
                        ForkFails, Wait, local
    <3> QED
      BY <3>1
  <2> QED
    BY <2>1, <2>2
<1>2. ASSUME PipCmd \/ SetupLeft \/ SetupRight PROVE words' = words
  BY <1>2 DEF PipCmd, MakePipe, PipeFails, ForkLeft, ForkRight, ForkSide, ForkSideFails,
              ClosePipe, WaitLeft, WaitRight, SetupLeft, SetupRight, local
<1>3. ASSUME NEW p, Exit(p) PROVE words' = words
  BY <1>3 DEF Exit, local
<1>4. ASSUME NEW p \in Workers, Child(p) PROVE words' = words
  BY <1>3, <1>4 DEF Child, Exec, ExecFails, local
<1>5. ASSUME NEW c \in Commands, Program(c) \/ CommandStops(c) PROVE words' = words
  BY <1>5 DEF Program, CommandStops, WriteItem, BrokenPipe, ReadItem, EndOfInput, Finish, local
<1>6. ASSUME Builtin \/ Others \/ EndOfFile \/ ShellExits PROVE words' = words
  BY <1>6 DEF Builtin, Others, execVars, EndOfFile, ShellExits, local
<1>7. ASSUME ReadLine PROVE words' \in [Workers -> Nat]
  <2>1. words' = [p \in Workers |-> 0]
    BY <1>7 DEF ReadLine, Enter
  <2> QED
    BY <2>1
<1>8. \A p \in {"left", "right"} : p \in Workers
  BY ProcessFacts
<1>9. Shell \in Workers
  BY ProcessFacts
<1>10. ShellStep => words' \in [Workers -> Nat]
  BY <1>1, <1>2, <1>6, <1>7, <1>9 DEF ShellStep
<1>11. \A p \in {"left", "right"} : SideStep(p) => words' \in [Workers -> Nat]
  BY <1>1, <1>2, <1>3, <1>8 DEF SideStep
<1> QED
  BY <1>4, <1>5, <1>6, <1>10, <1>11 DEF Next

LEMMA HeldInvStep == EndsInv /\ Writing /\ HeldInv /\ [Next]_vars => HeldInv'
<1> SUFFICES ASSUME EndsInv, Writing, HeldInv, [Next]_vars PROVE HeldInv'
  OBVIOUS
<1>0. FdTypes
  BY DEF EndsInv
<1>1. CASE Next
  <2>1. Writing'
    BY <1>0, <1>1, WritingStep
  <2>2. HeldTypes'
    BY <1>1, <2>1, WordsStep DEF Writing, HeldInv, HeldTypes
  <2> QED
    BY <1>0, <1>1, <2>2, NoChildStep, HeldStep DEF HeldInv
<1>2. CASE UNCHANGED vars
  <2>1. UNCHANGED <<pc, fds, todo, words, redir, pipe_fd, lost>>
    BY <1>2 DEF vars, execVars
  <2> QED
    BY <2>1 DEF HeldInv, HeldTypes, NoChild, Held, StdKept, RedirApart, OpenFor
<1> QED
  BY <1>1, <1>2

LEMMA HeldAlways == Spec => [](EndsInv /\ PipeInv /\ HeldInv)
<1>1. PipeInv => Writing
  BY DEF PipeInv
<1> QED
  BY <1>1, EndsInit, EndsStep, PipeInit, PipeStep, HeldInit, HeldInvStep, PTL DEF Spec

\* At every prompt nothing that the shell started is left, and it holds no end
\* of a pipe; unless it forgot a descriptor at a second redirection of a stream
\* or at a failure, its table is the one it started with.
THEOREM PromptLeavesAsFound == Spec => []LeavesAsFound
<1>1. EndsInv /\ HeldInv => LeavesAsFound
  <2> SUFFICES ASSUME EndsInv, HeldInv, pc[Shell] = "prompt"
               PROVE  /\ \A p \in Processes \ {Shell} : pc[p] = "none"
                      /\ ~Holds(Shell, "pipe_r") /\ ~Holds(Shell, "pipe_w")
                      /\ ~lost => fds[Shell] = StdTable
    BY DEF LeavesAsFound
  <2> USE ProcessFacts
  <2>1. FdTypes /\ Phases /\ Ends /\ NoChild /\ Held
    BY DEF EndsInv, HeldInv
  <2>2. pc["left"] = "none" /\ pc["right"] = "none" /\ pc["scmd"] = "none"
    BY <2>1 DEF Phases, NoChild
  <2>3. pc["lcmd"] = "none" /\ pc["rcmd"] = "none"
    BY <2>1, <2>2 DEF Phases
  <2>4. fds["shell"] \in Tables /\ DOMAIN fds["shell"] = Descriptors
    BY <2>1 DEF FdTypes, Tables
  <2>5. ~Holds(Shell, "pipe_r") /\ ~Holds(Shell, "pipe_w")
    BY <2>1, <2>4 DEF Ends, Holds, Without
  <2>6. ASSUME ~lost PROVE fds["shell"] = StdTable
    <3>1. \A n \in 3..MaxFds-1 : fds["shell"][n] = "closed"
      BY <2>1, <2>6, NothingOpen
    <3>2. \A s \in Streams : fds["shell"][s] = StdTable[s]
      BY <2>1 DEF Held, StdKept
    <3>3. \A n \in Descriptors : fds["shell"][n] = StdTable[n]
      BY <3>1, <3>2, StreamFacts
    <3>4. StdTable \in Tables
      BY StreamFacts
    <3> QED
      BY <2>4, <3>3, <3>4 DEF Tables
  <2> QED
    BY <2>2, <2>3, <2>5, <2>6
<1> QED
  BY <1>1, HeldAlways, PTL

-----------------------------------------------------------------------------
(* The types of what the loop over the arguments and the programs use *)

Counts ==
    /\ \A p \in Workers : at[p] <= Len(args[p]) + 1 /\ words[p] <= MaxArgs - 1
    /\ \A c \in Commands : todo[c] <= MaxItems
    /\ pipe \in Seq({"data", "prompt"}) /\ Len(pipe) <= PipeCap
    /\ got \in Seq({"data", "prompt"})
    /\ line \in Lines \cup {NoLine}

LEMMA CountsInit == Init => Counts
<1> SUFFICES ASSUME Init PROVE Counts
  OBVIOUS
<1>1. /\ at = [p \in Workers |-> 1] /\ words = [p \in Workers |-> 0]
      /\ args = [p \in Workers |-> <<>>] /\ todo = [c \in Commands |-> 0]
      /\ pipe = <<>> /\ got = <<>> /\ line = NoLine
  BY DEF Init, ExecInit
<1>2. \A p \in Workers : at[p] <= Len(args[p]) + 1 /\ words[p] <= MaxArgs - 1
  <2>1. Len(<<>>) = 0
    OBVIOUS
  <2> QED
    BY <1>1, <2>1, ExecuteAssumption
<1>3. pipe \in Seq({"data", "prompt"}) /\ Len(pipe) <= PipeCap /\ got \in Seq({"data", "prompt"})
  BY <1>1, ExecuteAssumption
<1> QED
  BY <1>1, <1>2, <1>3, ExecuteAssumption DEF Counts

\* The loop stays within args, and fills it no further than its last word.
LEMMA LoopCounts ==
    ASSUME FdTypes, words \in [Workers -> Nat], Counts, Next, NEW p \in Workers
    PROVE  at'[p] <= Len(args'[p]) + 1 /\ words'[p] <= MaxArgs - 1
<1> USE ProcessFacts
<1>01. at \in [Workers -> Nat \ {0}] /\ args \in [Workers -> Seq(Tokens)]
  BY DEF FdTypes
<1>02. args[p] \in Seq(Tokens) /\ at[p] \in Nat /\ words[p] \in Nat /\ MaxArgs \in Nat
  BY <1>01, ExecuteAssumption
<1>03. Len(args[p]) \in Nat
  BY ONLY <1>02
<1>04. at[p] <= Len(args[p]) + 1 /\ words[p] <= MaxArgs - 1
  BY DEF Counts
<1>0. /\ at \in [Workers -> Nat \ {0}] /\ args \in [Workers -> Seq(Tokens)]
      /\ Len(args[p]) \in Nat /\ MaxArgs \in Nat /\ at[p] \in Nat /\ words[p] \in Nat
      /\ at[p] <= Len(args[p]) + 1 /\ words[p] <= MaxArgs - 1
  BY <1>01, <1>02, <1>03, <1>04
<1>1. ASSUME args'[p] = args[p], at'[p] = at[p], words'[p] = words[p]
      PROVE  at'[p] <= Len(args'[p]) + 1 /\ words'[p] <= MaxArgs - 1
  BY <1>0, <1>1
<1>2. ASSUME UNCHANGED local
      PROVE  at'[p] <= Len(args'[p]) + 1 /\ words'[p] <= MaxArgs - 1
  BY <1>1, <1>2 DEF local
<1>3. CASE Untouched(p)
  BY <1>1, <1>3 DEF Untouched
<1>4. CASE ReadLine
  <2>1. /\ at'[p] = 1 /\ words'[p] = 0 /\ line' \in Lines
        /\ args'[p] \in {line'.cmd1, line'.cmd2}
    BY <1>4 DEF ReadLine, Enter
  <2>2. args'[p] \in Seq(Tokens)
    BY <2>1, LinesAssumption
  <2>3. Len(args'[p]) \in Nat
    BY <2>2
  <2> QED
    BY <2>1, <2>3, ExecuteAssumption
<1>5. CASE ParseWord(p) \/ Redirect(p)
  <2>1. /\ at[p] <= Len(args[p]) /\ words[p] < MaxArgs - 1 /\ args' = args
        /\ at'[p] = at[p] + 1 /\ words'[p] \in {words[p], words[p] + 1}
    BY <1>0, <1>5 DEF ParseWord, Redirect, Parsing
  <2>2. args'[p] = args[p]
    BY <2>1
  <2> QED
    BY <1>0, <2>1, <2>2
<1>6. CASE RedirectFails(p) \/ ParseEnds(p) \/ ForkCommand(p) \/ ForkFails(p) \/ Wait(p)
  BY <1>2, <1>6 DEF RedirectFails, ParseEnds, ForkCommand, ForkFails, Wait
<1>7. CASE PipCmd \/ SetupLeft \/ SetupRight
  BY <1>2, <1>7 DEF PipCmd, MakePipe, PipeFails, ForkLeft, ForkRight, ForkSide, ForkSideFails,
                    ClosePipe, WaitLeft, WaitRight, SetupLeft, SetupRight
<1>8. CASE EndOfFile \/ ShellExits \/ Builtin \/ Exit(p)
  BY <1>2, <1>8 DEF EndOfFile, ShellExits, Builtin, Exit
<1>9. Untouched(p) \/ WorkerStep(p)
  BY WorkerMoves
<1> QED
  BY <1>3, <1>4, <1>5, <1>6, <1>7, <1>8, <1>9 DEF WorkerStep, ExecuteCommandMain, SideMoves, PipCmd

LEMMA TodoCounts ==
    ASSUME FdTypes, todo \in [Commands -> Nat], Counts, Next, NEW c \in Commands
    PROVE  todo'[c] <= MaxItems
<1> USE ProcessFacts
<1>0. todo[c] \in Nat /\ todo[c] <= MaxItems /\ MaxItems \in Nat
  BY ExecuteAssumption DEF Counts
<1>1. PICK p \in Workers : c = Command[p]
  OBVIOUS
<1>2. todo'[c] = todo[c] \/ CommandStep(p)
  BY <1>1, CommandMoves
<1>3. CASE Exec(p)
  <2>1. PICK n \in IF fds'[c][1] = "pipe_w" THEN 0..MaxItems ELSE {0} :
           todo' = [todo EXCEPT ![c] = n]
    BY <1>1, <1>3 DEF Exec
  <2>2. todo'[c] = n
    BY <2>1
  <2> QED
    BY <1>0, <2>1, <2>2
<1>4. CASE WriteItem(c)
  <2>1. todo'[c] = todo[c] - 1
    BY <1>4 DEF WriteItem
  <2> QED
    BY <1>0, <2>1
<1>5. CASE todo' = todo
  BY <1>0, <1>5
<1> QED
  BY <1>0, <1>1, <1>2, <1>3, <1>4, <1>5
  DEF CommandStep, ForkCommand, Wait, Child, ExecFails, Exit, Program, CommandStops, BrokenPipe,
      ReadItem, EndOfInput, Finish, flow

LEMMA PipeCounts ==
    ASSUME buffered \in [Processes -> BOOLEAN], Counts, Next
    PROVE  /\ pipe' \in Seq({"data", "prompt"}) /\ Len(pipe') <= PipeCap
           /\ got' \in Seq({"data", "prompt"})
<1>0. /\ pipe \in Seq({"data", "prompt"}) /\ Len(pipe) <= PipeCap /\ Len(pipe) \in Nat
      /\ got \in Seq({"data", "prompt"}) /\ PipeCap \in Nat
  BY ExecuteAssumption DEF Counts
<1>1. CASE ReadLine \/ MakePipe
  <2>1. pipe' = <<>> /\ got' = <<>>
    BY <1>1 DEF ReadLine, MakePipe
  <2> QED
    BY <1>0, <2>1
<1>2. CASE UNCHANGED <<pipe, got>>
  BY <1>0, <1>2
<1>3. CASE \E p \in Processes : Exit(p)
  <2>1. \/ UNCHANGED <<pipe, got>>
        \/ got' = got /\ Len(pipe) < PipeCap /\ pipe' = Append(pipe, "prompt")
    BY <1>3 DEF Exit
  <2> QED
    BY <1>0, <1>2, <2>1
<1>4. CASE \E c \in Commands : WriteItem(c)
  BY <1>0, <1>4 DEF WriteItem
<1>5. CASE \E c \in Commands : ReadItem(c)
  <2>1. pipe # <<>> /\ pipe' = Tail(pipe) /\ got' = Append(got, Head(pipe))
    BY <1>5 DEF ReadItem
  <2>2. /\ Head(pipe) \in {"data", "prompt"} /\ Tail(pipe) \in Seq({"data", "prompt"})
        /\ Len(Tail(pipe)) = Len(pipe) - 1
    BY <1>0, <2>1
  <2> QED
    BY <1>0, <2>1, <2>2
<1> QED
  BY <1>1, <1>2, <1>3, <1>4, <1>5, FlowMoves

LEMMA CountsStep ==
    ASSUME FdTypes, HeldTypes, Flow, Counts, Next
    PROVE  Counts'
<1>1. line' \in Lines \cup {NoLine}
  <2>1. ReadLine => line' \in Lines
    BY DEF ReadLine
  <2>2. ~ReadLine => line' = line
    BY DEF Next, ShellStep, EndOfFile, ShellExits
  <2> QED
    BY <2>1, <2>2 DEF Counts
<1> QED
  BY <1>1, LoopCounts, TodoCounts, PipeCounts DEF HeldTypes, Flow, Counts

-----------------------------------------------------------------------------
(* What the loop over the arguments has done with a table *)

\* The words, and the redirections of stream s, before argument i.
WordsBefore(a, i) == {k \in 1..i-1 : a[k].op = "word"}
Named(a, i, s)    == {k \in 1..i-1 : a[k].op # "word" /\ Stream(a[k]) = s}

\* The standard streams of a process before its redirections.
Base(p, s) == IF p = "left" /\ s = 1 THEN "pipe_w"
              ELSE IF p = "right" /\ s = 0 THEN "pipe_r" ELSE StdTable[s]

\* Before argument i of a, table t and redirections r of process p are tied:
\* each stream goes to what its last redirection opened.
Tied(p, a, i, t, r) ==
    /\ 1..i-1 \subseteq Seen(a)
    /\ \A s \in Streams : t[s] = Base(p, s)
    /\ \A s \in Streams : Named(a, i, s) = {} => r[s] = s
    /\ \A s \in Streams : Named(a, i, s) # {} =>
         r[s] >= 3 /\ t[r[s]] = a[Max(Named(a, i, s))].file
    /\ \A s \in Streams : t[r[s]] # "closed"
    /\ \A s, u \in Streams : s # u => r[s] # r[u]

LEMMA BaseOpen ==
    ASSUME NEW p, NEW s \in Streams
    PROVE  Base(p, s) # "closed"
BY StreamFacts DEF Base

LEMMA LastNamed ==
    ASSUME NEW i \in Nat \ {0}, NEW S \in SUBSET (1..i-1)
    PROVE  Max(S \cup {i}) = i
<1>1. \A y \in S \cup {i} : y \in Nat /\ i >= y
  OBVIOUS
<1>2. \A x \in S \cup {i} : (\A y \in S \cup {i} : x >= y) => x = i
  BY <1>1
<1> QED
  BY <1>1, <1>2 DEF Max

\* The argument at which the loop is, added to those behind it.
LEMMA OneMore ==
    ASSUME NEW a, NEW i \in Nat \ {0}
    PROVE  /\ a[i].op = "word" =>
                /\ WordsBefore(a, i + 1) = WordsBefore(a, i) \cup {i}
                /\ \A s \in Streams : Named(a, i + 1, s) = Named(a, i, s)
           /\ a[i].op # "word" =>
                /\ WordsBefore(a, i + 1) = WordsBefore(a, i)
                /\ Named(a, i + 1, Stream(a[i])) = Named(a, i, Stream(a[i])) \cup {i}
                /\ \A s \in Streams \ {Stream(a[i])} : Named(a, i + 1, s) = Named(a, i, s)
<1>1. 1..(i+1)-1 = (1..i-1) \cup {i}
  OBVIOUS
<1> QED
  BY <1>1 DEF WordsBefore, Named

LEMMA WordsFinite ==
    ASSUME NEW a, NEW i \in Nat \ {0}
    PROVE  /\ IsFiniteSet(WordsBefore(a, i)) /\ Cardinality(WordsBefore(a, i)) \in Nat
           /\ i \notin WordsBefore(a, i)
           /\ Cardinality(WordsBefore(a, i) \cup {i}) = Cardinality(WordsBefore(a, i)) + 1
<1>1. IsFiniteSet(1..i-1)
  BY FS_Interval
<1>2. WordsBefore(a, i) \subseteq 1..i-1
  BY DEF WordsBefore
<1>3. IsFiniteSet(WordsBefore(a, i))
  BY <1>1, <1>2, FS_Subset
<1>4. i \notin 1..i-1
  OBVIOUS
<1> QED
  BY <1>2, <1>3, <1>4, FS_CardinalityType, FS_AddElement

\* The loop sees an argument while args has room before it.
LEMMA SeenIff ==
    ASSUME NEW a \in Seq(Tokens), NEW i \in DOMAIN a
    PROVE  i \in Seen(a) <=> Cardinality(WordsBefore(a, i)) < MaxArgs - 1
BY DEF Seen, WordsBefore

LEMMA TiedStart ==
    ASSUME NEW p, NEW a, NEW t, \A s \in Streams : t[s] = Base(p, s)
    PROVE  Tied(p, a, 1, t, NoRedir)
<1>1. 1..1-1 = {}
  OBVIOUS
<1>2. \A s \in Streams : Named(a, 1, s) = {}
  BY <1>1 DEF Named
<1> QED
  BY <1>1, <1>2, BaseOpen DEF Tied, NoRedir

LEMMA TiedWord ==
    ASSUME NEW p, NEW a \in Seq(Tokens), NEW i \in 1..Len(a), NEW t, NEW r,
           Tied(p, a, i, t, r), a[i].op = "word",
           Cardinality(WordsBefore(a, i)) < MaxArgs - 1
    PROVE  Tied(p, a, i + 1, t, r)
<1>1. i \in Nat \ {0} /\ i \in DOMAIN a
  OBVIOUS
<1>2. i \in Seen(a)
  BY <1>1, SeenIff
<1>3. \A s \in Streams : Named(a, i + 1, s) = Named(a, i, s)
  BY <1>1, OneMore
<1>4. 1..(i+1)-1 = (1..i-1) \cup {i}
  BY <1>1
<1> QED
  BY <1>2, <1>3, <1>4 DEF Tied

\* A redirection opens above the standard streams what no other stream uses.
LEMMA TiedRedirect ==
    ASSUME NEW p, NEW a \in Seq(Tokens), NEW i \in 1..Len(a),
           NEW t \in Tables, NEW r \in [Streams -> Descriptors],
           Tied(p, a, i, t, r), a[i].op # "word", a[i].file # "missing", Free(t) # {},
           Cardinality(WordsBefore(a, i)) < MaxArgs - 1
    PROVE  Tied(p, a, i + 1, [t EXCEPT ![Lowest(t)] = a[i].file],
                               [r EXCEPT ![Stream(a[i])] = Lowest(t)])
<1> DEFINE n == Lowest(t)
           f == a[i].file
           s == Stream(a[i])
           tt == [t EXCEPT ![n] = f]
           rr == [r EXCEPT ![s] = n]
<1>1. i \in Nat \ {0} /\ i \in DOMAIN a /\ a[i] \in Tokens
  OBVIOUS
<1>2. f \in Files /\ s \in Streams
  BY <1>1, TokenFacts
<1>3. n \in Descriptors /\ n \notin Streams /\ t[n] = "closed" /\ n >= 3
  <2>1. Free(t) \subseteq Descriptors /\ Descriptors \subseteq Nat
    BY StreamFacts DEF Free, Tables
  <2>2. n \in Free(t)
    BY <2>1, LeastElement DEF Lowest
  <2>3. n \in Descriptors /\ t[n] = "closed"
    BY <2>1, <2>2 DEF Free
  <2>4. n \notin Streams
    BY <2>3, BaseOpen DEF Tied
  <2> QED
    BY <2>3, <2>4, StreamFacts, ExecuteAssumption DEF Descriptors
<1>4. \A k \in Files : k # "closed"
  BY ExecuteAssumption
<1>5. i \in Seen(a)
  BY <1>1, SeenIff
<1>6. 1..(i+1)-1 \subseteq Seen(a)
  <2>1. 1..(i+1)-1 = (1..i-1) \cup {i}
    BY <1>1
  <2> QED
    BY <1>5, <2>1 DEF Tied
<1>7. /\ Named(a, i + 1, s) = Named(a, i, s) \cup {i}
      /\ \A u \in Streams \ {s} : Named(a, i + 1, u) = Named(a, i, u)
      /\ Max(Named(a, i + 1, s)) = i
  <2>1. /\ Named(a, i + 1, s) = Named(a, i, s) \cup {i}
        /\ \A u \in Streams \ {s} : Named(a, i + 1, u) = Named(a, i, u)
    BY <1>1, OneMore
  <2>2. Named(a, i, s) \in SUBSET (1..i-1)
    BY DEF Named
  <2> HIDE DEF s
  <2> QED
    BY <1>1, <2>1, <2>2, LastNamed
\* What another stream goes to is open already.
<1>8. \A u \in Streams : r[u] \in Descriptors /\ r[u] # n
  BY <1>3 DEF Tied
<1> HIDE DEF n, f, s
<1>9. /\ tt[n] = f /\ \A k \in Descriptors \ {n} : tt[k] = t[k]
      /\ rr[s] = n /\ \A u \in Streams \ {s} : rr[u] = r[u]
  BY <1>2, <1>3 DEF Tables
<1> HIDE DEF tt, rr
<1>10. \A u \in Streams : tt[u] = Base(p, u)
  BY <1>3, <1>9, StreamFacts DEF Tied
<1>11. ASSUME NEW u \in Streams
       PROVE  /\ Named(a, i + 1, u) = {} => rr[u] = u
              /\ Named(a, i + 1, u) # {} =>
                   rr[u] >= 3 /\ tt[rr[u]] = a[Max(Named(a, i + 1, u))].file
              /\ tt[rr[u]] # "closed"
  <2>1. CASE u = s
    BY <1>2, <1>3, <1>4, <1>7, <1>9, <2>1 DEF f
  <2>2. CASE u # s
    <3>1. rr[u] = r[u] /\ tt[r[u]] = t[r[u]] /\ Named(a, i + 1, u) = Named(a, i, u)
      BY <1>7, <1>8, <1>9, <2>2
    <3> QED
      BY <3>1 DEF Tied
  <2> QED
    BY <2>1, <2>2
<1>12. \A u, v \in Streams : u # v => rr[u] # rr[v]
  BY <1>8, <1>9 DEF Tied
<1>13. Tied(p, a, i + 1, tt, rr)
  BY <1>6, <1>10, <1>11, <1>12 DEF Tied
<1> QED
  BY <1>13 DEF tt, rr, n, f, s

\* When the loop ends it has seen what it gets to see.
LEMMA TiedEnds ==
    ASSUME NEW p, NEW a \in Seq(Tokens), NEW i \in 1..Len(a)+1, NEW t, NEW r,
           Tied(p, a, i, t, r),
           i > Len(a) \/ Cardinality(WordsBefore(a, i)) >= MaxArgs - 1
    PROVE  Seen(a) = 1..i-1
<1>0. i \in Nat \ {0} /\ Len(a) \in Nat /\ DOMAIN a = 1..Len(a)
  OBVIOUS
<1>1. ASSUME NEW k \in DOMAIN a, k >= i PROVE k \notin Seen(a)
  <2>1. k \in Nat \ {0} /\ i <= Len(a)
    BY <1>0, <1>1
  <2>2. Cardinality(WordsBefore(a, i)) >= MaxArgs - 1
    BY <1>0, <2>1
  <2>3. 1..i-1 \subseteq 1..k-1
    BY <1>0, <1>1, <2>1
  <2>4. WordsBefore(a, i) \subseteq WordsBefore(a, k)
    BY <2>3 DEF WordsBefore
  <2>5. /\ Cardinality(WordsBefore(a, i)) \in Nat /\ Cardinality(WordsBefore(a, k)) \in Nat
        /\ IsFiniteSet(WordsBefore(a, k))
    BY <1>0, <2>1, WordsFinite
  <2>6. Cardinality(WordsBefore(a, i)) <= Cardinality(WordsBefore(a, k))
    BY <2>4, <2>5, FS_Subset
  <2>7. ~(Cardinality(WordsBefore(a, k)) < MaxArgs - 1)
    BY <2>2, <2>5, <2>6, ExecuteAssumption
  <2> QED
    BY <1>1, <2>7, SeenIff
<1>2. Seen(a) \subseteq DOMAIN a
  BY DEF Seen
<1>3. 1..i-1 \subseteq Seen(a)
  BY DEF Tied
<1>4. \A k \in DOMAIN a : k >= i \/ k \in 1..i-1
  BY <1>0
<1> QED
  BY <1>1, <1>2, <1>3, <1>4

LEMMA MoveStreams ==
    ASSUME NEW t \in Tables, NEW m \in Descriptors, NEW n \in Descriptors
    PROVE  /\ Move(t, m, n) \in Tables /\ Move(t, m, n)[n] = t[m]
           /\ \A k \in Descriptors : k # m /\ k # n => Move(t, m, n)[k] = t[k]
<1>1. Move(t, m, n) \in Tables
  BY MoveFacts
<1> QED
  BY <1>1, OpensFacts DEF Move, Tables

\* The three moves of a command give each stream its descriptor.
LEMMA ThreeMoves ==
    ASSUME NEW t \in Tables, NEW a \in Descriptors, NEW b \in Descriptors, NEW c \in Descriptors,
           0 \in Descriptors, 1 \in Descriptors, 2 \in Descriptors,
           a # 1, a # 2, b # 0, b # 2, c # 0, c # 1, a # b, a # c, b # c
    PROVE  /\ Move(Move(Move(t, a, 0), b, 1), c, 2)[0] = t[a]
           /\ Move(Move(Move(t, a, 0), b, 1), c, 2)[1] = t[b]
           /\ Move(Move(Move(t, a, 0), b, 1), c, 2)[2] = t[c]
<1> DEFINE t1 == Move(t, a, 0)
           t2 == Move(t1, b, 1)
           t3 == Move(t2, c, 2)
<1>1. t1 \in Tables /\ t1[0] = t[a] /\ \A k \in Descriptors : k # a /\ k # 0 => t1[k] = t[k]
  BY MoveStreams
<1> HIDE DEF t1
<1>2. t2 \in Tables /\ t2[1] = t1[b] /\ \A k \in Descriptors : k # b /\ k # 1 => t2[k] = t1[k]
  BY <1>1, MoveStreams
<1> HIDE DEF t2
<1>3. t3 \in Tables /\ t3[2] = t2[c] /\ \A k \in Descriptors : k # c /\ k # 2 => t3[k] = t2[k]
  BY <1>2, MoveStreams
<1> HIDE DEF t3
<1>4. t3[0] = t[a] /\ t3[1] = t[b] /\ t3[2] = t[c]
  BY <1>1, <1>2, <1>3
<1> QED
  BY <1>4 DEF t1, t2, t3

LEMMA RedirectedStreams ==
    ASSUME NEW t \in Tables, NEW r \in [Streams -> Descriptors],
           \A s \in Streams : r[s] = s \/ r[s] >= 3,
           \A s, u \in Streams : s # u => r[s] # r[u]
    PROVE  \A s \in Streams : Redirected(t, r)[s] = t[r[s]]
<1>1. /\ Streams = {0, 1, 2} /\ 0 \in Descriptors /\ 1 \in Descriptors /\ 2 \in Descriptors
      /\ r[0] \in Descriptors /\ r[1] \in Descriptors /\ r[2] \in Descriptors
      /\ r[0] # 1 /\ r[0] # 2 /\ r[1] # 0 /\ r[1] # 2 /\ r[2] # 0 /\ r[2] # 1
      /\ r[0] # r[1] /\ r[0] # r[2] /\ r[1] # r[2]
  BY StreamFacts
<1>2. /\ Redirected(t, r)[0] = t[r[0]]
      /\ Redirected(t, r)[1] = t[r[1]]
      /\ Redirected(t, r)[2] = t[r[2]]
  BY <1>1, ThreeMoves DEF Redirected
<1> QED
  BY <1>1, <1>2

\* So each stream is open on what was asked for.
LEMMA TiedAsked ==
    ASSUME NEW p \in Workers, NEW i \in Nat \ {0},
           NEW t \in Tables, NEW r \in [Streams -> Descriptors],
           Tied(p, args[p], i, t, r), Seen(args[p]) = 1..i-1
    PROVE  \A s \in Streams : Redirected(t, r)[s] = Asked(p, s)
<1> DEFINE a == args[p]
<1>1. \A s \in Streams : r[s] = s \/ r[s] >= 3
  BY DEF Tied
<1>2. \A s, u \in Streams : s # u => r[s] # r[u]
  BY DEF Tied
<1>3. \A s \in Streams : Redirected(t, r)[s] = t[r[s]]
  BY <1>1, <1>2, RedirectedStreams
<1>4. \A s \in Streams :
        {n \in Seen(a) : a[n].op # "word" /\ Stream(a[n]) = s} = Named(a, i, s)
  BY DEF Named
<1>5. \A s \in Streams :
        Asked(p, s) = IF Named(a, i, s) # {} THEN a[Max(Named(a, i, s))].file ELSE Base(p, s)
  BY <1>4 DEF Asked, Base
<1> QED
  BY <1>3, <1>5 DEF Tied

-----------------------------------------------------------------------------
(* The loop of a process of execute_command_main *)

\* The loop has not begun.
Ready(p) == at[p] = 1 /\ words[p] = 0 /\ redir[p] = NoRedir

\* The table of a side of the pipes, when it is forked.
SideTable(t) ==
    /\ StdKept(t)
    /\ pipe_fd[1] >= 3 /\ pipe_fd[2] >= 3 /\ pipe_fd[1] # pipe_fd[2]
    /\ t[pipe_fd[1]] = "pipe_r" /\ t[pipe_fd[2]] = "pipe_w"

Asking(p) ==
    /\ pc[p] = "setup" => p # Shell /\ Ready(p) /\ SideTable(fds[p])
    /\ pc[p] = "parse" => words[p] = Cardinality(WordsBefore(args[p], at[p]))
    /\ pc[p] \in {"parse", "fork", "wait"} => Tied(p, args[p], at[p], fds[p], redir[p])
    /\ pc[p] \in {"fork", "wait"} => Seen(args[p]) = 1..at[p]-1

\* The sides begin with what the line gave them.
SidesReady ==
    /\ pc[Shell] \in {"pipe", "fork1"} => Ready("left")
    /\ pc[Shell] \in {"pipe", "fork1", "fork2"} => Ready("right")

AskedFor(p) ==
    /\ pc[Command[p]] = "child" => fds[Command[p]] = fds[p]
    /\ pc[Command[p]] = "run" => \A s \in Streams : fds[Command[p]][s] = Asked(p, s)

AskInv == SidesReady /\ \A p \in Workers : Asking(p) /\ AskedFor(p)

LEMMA AskingUntouched ==
    ASSUME NEW p \in Workers, Asking(p), Untouched(p),
           pipe_fd' = pipe_fd \/ pc[p] # "setup"
    PROVE  Asking(p)'
<1>1. CASE pc[p] = "setup"
  BY <1>1 DEF Asking, Untouched, Ready, SideTable, StdKept
<1>2. CASE pc[p] # "setup"
  BY <1>2 DEF Asking, Untouched
<1> QED
  BY <1>1, <1>2

\* A process that is not in its loop has nothing to keep.
LEMMA AskingIdle ==
    ASSUME NEW p \in Workers, pc'[p] \notin {"setup", "parse", "fork", "wait"}
    PROVE  Asking(p)'
BY DEF Asking

\* The loop begins with the table of the shell, or of a side that has set up.
LEMMA AskingBegins ==
    ASSUME NEW p \in Workers, pc'[p] = "parse", at'[p] = 1, words'[p] = 0,
           redir'[p] = NoRedir, \A s \in Streams : fds'[p][s] = Base(p, s)
    PROVE  Asking(p)'
<1>1. Tied(p, args'[p], 1, fds'[p], NoRedir)
  BY TiedStart
<1>2. WordsBefore(args'[p], 1) = {}
  <2>1. 1..1-1 = {}
    OBVIOUS
  <2> QED
    BY <2>1 DEF WordsBefore
<1>3. words'[p] = Cardinality(WordsBefore(args'[p], at'[p]))
  BY <1>2, FS_EmptySet
<1>4. Tied(p, args'[p], at'[p], fds'[p], redir'[p])
  BY <1>1
<1> HIDE DEF Tied, WordsBefore
<1> QED
  BY <1>3, <1>4 DEF Asking

LEMMA AskingLine ==
    ASSUME FdTypes, Phases, Held, ReadLine, NEW p \in Workers
    PROVE  Asking(p)'
<1> USE ProcessFacts
<1>0. pc \in [Processes -> Labels] /\ p \in Processes
  BY DEF FdTypes
<1>1. /\ pc["shell"] = "prompt" /\ fds' = fds /\ at'[p] = 1 /\ words'[p] = 0
      /\ redir'[p] = NoRedir
  BY DEF ReadLine, Enter
<1>2. CASE p # "shell"
  <2>1. pc[p] = "none"
    BY <1>1, <1>2 DEF Phases
  <2>2. pc' = pc \/ \E l : pc' = [pc EXCEPT !["shell"] = l]
    <3>1. line'.kind \in Kinds
      BY LinesAssumption DEF ReadLine
    <3>2. CASE line'.kind \in {"blank", "prints", "badpipe"}
      BY <3>2 DEF ReadLine
    <3>3. CASE line'.kind = "simple"
      BY <3>3 DEF ReadLine, Goto
    <3>4. CASE line'.kind \in {"pipe", "free", "exit"}
      BY <3>4 DEF ReadLine, Goto
    <3>5. CASE line'.kind \in {"cp", "mv"}
      BY <3>5 DEF ReadLine, BuiltinStart, Goto
    <3> QED
      BY <3>1, <3>2, <3>3, <3>4, <3>5 DEF Kinds
  <2>3. pc'[p] = pc[p]
    BY <1>0, <1>2, <2>2
  <2> QED
    BY <2>1, <2>3, AskingIdle
<1>3. CASE p = "shell"
  <2>1. pc'[p] \notin {"setup", "fork", "wait"}
    <3>1. line'.kind \in Kinds
      BY LinesAssumption DEF ReadLine
    <3>2. CASE line'.kind \in {"blank", "prints", "badpipe"}
      BY <1>1, <1>3, <3>2 DEF ReadLine
    <3>3. CASE line'.kind = "simple"
      BY <1>0, <1>3, <3>3 DEF ReadLine, Goto
    <3>4. CASE line'.kind \in {"pipe", "free", "exit"}
      BY <1>0, <1>3, <3>4 DEF ReadLine, Goto
    <3>5. CASE line'.kind \in {"cp", "mv"}
      BY <1>0, <1>3, <3>5 DEF ReadLine, BuiltinStart, Goto
    <3> QED
      BY <3>1, <3>2, <3>3, <3>4, <3>5 DEF Kinds
  <2>2. \A s \in Streams : fds'[p][s] = Base(p, s)
    BY <1>1, <1>3 DEF Held, StdKept, Base
  <2>3. CASE pc'[p] = "parse"
    BY <1>1, <2>2, <2>3, AskingBegins
  <2>4. CASE pc'[p] # "parse"
    BY <2>1, <2>4, AskingIdle
  <2> QED
    BY <2>3, <2>4
<1> QED
  BY <1>2, <1>3

LEMMA BuiltinGoes ==
    ASSUME pc \in [Processes -> Labels], Builtin
    PROVE  pc'["shell"] \in BuiltinLabels \cup {"prompt", "exit"}
<1> USE ProcessFacts
<1>1. CASE Cp
  <2>1. CASE CopyChunk
    BY <2>1 DEF CopyChunk, BuiltinLabels
  <2>2. CASE ~CopyChunk
    BY <1>1, <2>2 DEF Cp, AccessSource, StatTarget, AccessTarget, OpenSource, OpenSourceFails,
        CreateTarget, CreateTargetFails, WriteFails, CopyEnds, ReadFails, Back, Goto, BuiltinLabels
  <2> QED
    BY <2>1, <2>2
<1>2. CASE Mv
  BY <1>2 DEF Mv, AccessSource, StatTarget, AccessTarget, Rename, RenameFails, Back, Goto,
              BuiltinLabels
<1>3. CASE FreeCommand
  BY <1>3 DEF FreeCommand, Goto, BuiltinLabels
<1> QED
  BY <1>1, <1>2, <1>3 DEF Builtin

\* Nothing else that the shell does for itself leads into the loop.
LEMMA AskingElsewhere ==
    ASSUME FdTypes, EndOfFile \/ ShellExits \/ PipCmd \/ Builtin
    PROVE  Asking("shell")'
<1> USE ProcessFacts
<1>0. pc \in [Processes -> Labels]
  BY DEF FdTypes
<1> SUFFICES pc'["shell"] \notin {"setup", "parse", "fork", "wait"}
  BY AskingIdle
<1>1. CASE EndOfFile \/ ShellExits
  BY <1>0, <1>1 DEF EndOfFile, ShellExits, Die, Goto
<1>2. CASE PipCmd
  <2>1. CASE MakePipe \/ PipeFails \/ ForkSideFails \/ ClosePipe
    BY <1>0, <2>1 DEF MakePipe, PipeFails, ForkSideFails, ClosePipe, Goto
  <2>2. CASE ForkLeft \/ ForkRight \/ WaitLeft \/ WaitRight
    BY <1>0, <2>2 DEF ForkLeft, ForkRight, ForkSide, WaitLeft, WaitRight
  <2> QED
    BY <1>2, <2>1, <2>2 DEF PipCmd
<1>3. CASE Builtin
  BY <1>0, <1>3, BuiltinGoes DEF BuiltinLabels
<1> QED
  BY <1>1, <1>2, <1>3

LEMMA AskingParseWord ==
    ASSUME FdTypes, HeldTypes, NEW p \in Workers, Asking(p), ParseWord(p)
    PROVE  Asking(p)'
<1> DEFINE a == args[p]
           i == at[p]
<1>1. /\ args \in [Workers -> Seq(Tokens)] /\ at \in [Workers -> Nat \ {0}]
      /\ words \in [Workers -> Nat]
  BY DEF FdTypes, HeldTypes
<1>2. /\ pc[p] = "parse" /\ i <= Len(a) /\ words[p] < MaxArgs - 1 /\ a[i].op = "word"
      /\ words' = [words EXCEPT ![p] = @ + 1] /\ at' = [at EXCEPT ![p] = @ + 1]
      /\ UNCHANGED <<pc, fds, args, redir>>
  BY DEF ParseWord, Parsing, Token
<1>3. words'[p] = words[p] + 1 /\ at'[p] = i + 1
  BY <1>1, <1>2
<1>4. /\ words[p] = Cardinality(WordsBefore(a, i))
      /\ Tied(p, a, i, fds[p], redir[p])
  BY <1>2 DEF Asking
<1>5. a \in Seq(Tokens) /\ i \in Nat \ {0}
  BY <1>1
<1> HIDE DEF a, i
<1>6. i \in 1..Len(a)
  BY <1>2, <1>5
<1>7. Cardinality(WordsBefore(a, i + 1)) = words[p] + 1
  BY <1>2, <1>4, <1>5, OneMore, WordsFinite
<1>8. Tied(p, a, i + 1, fds[p], redir[p])
  BY <1>2, <1>4, <1>5, <1>6, TiedWord
<1> QED
  BY <1>2, <1>3, <1>7, <1>8 DEF Asking, a

LEMMA AskingRedirect ==
    ASSUME FdTypes, NEW p \in Workers, Asking(p), Redirect(p)
    PROVE  Asking(p)'
<1> USE ProcessFacts
<1> DEFINE a == args[p]
           i == at[p]
           t == fds[p]
           r == redir[p]
           tt == [t EXCEPT ![Lowest(t)] = a[i].file]
           rr == [r EXCEPT ![Stream(a[i])] = Lowest(t)]
<1>1. /\ args \in [Workers -> Seq(Tokens)] /\ at \in [Workers -> Nat \ {0}]
      /\ fds \in [Processes -> Tables] /\ redir \in [Workers -> [Streams -> Descriptors]]
      /\ p \in Processes
  BY DEF FdTypes
<1>2. /\ pc[p] = "parse" /\ i <= Len(a) /\ words[p] < MaxArgs - 1
      /\ a[i].op # "word" /\ a[i].file # "missing" /\ Free(t) # {}
      /\ fds' = [fds EXCEPT ![p][Lowest(fds[p])] = a[i].file]
      /\ redir' = [redir EXCEPT ![p][Stream(a[i])] = Lowest(fds[p])]
      /\ at' = [at EXCEPT ![p] = @ + 1]
      /\ UNCHANGED <<pc, args, words>>
  BY DEF Redirect, Parsing, Token
<1>3. fds'[p] = tt /\ redir'[p] = rr /\ at'[p] = i + 1
  BY <1>1, <1>2
<1>4. /\ words[p] = Cardinality(WordsBefore(a, i))
      /\ Tied(p, a, i, t, r)
  BY <1>2 DEF Asking
<1>5. a \in Seq(Tokens) /\ i \in Nat \ {0} /\ t \in Tables /\ r \in [Streams -> Descriptors]
  BY <1>1
<1>6. i \in 1..Len(a)
  <2> HIDE DEF a, i
  <2> QED
    BY <1>2, <1>5
<1> HIDE DEF a, i, t, r
<1>7. Cardinality(WordsBefore(a, i + 1)) = words[p]
  BY <1>2, <1>4, <1>5, OneMore
<1>8. Tied(p, a, i + 1, tt, rr)
  BY <1>2, <1>4, <1>5, <1>6, TiedRedirect
<1> HIDE DEF tt, rr
<1> QED
  BY <1>2, <1>3, <1>7, <1>8 DEF Asking, a

LEMMA AskingExecute ==
    ASSUME FdTypes, HeldTypes, Counts, NEW p \in Workers, Asking(p), ExecuteCommandMain(p)
    PROVE  Asking(p)'
<1> USE ProcessFacts
<1>0. /\ pc \in [Processes -> Labels] /\ fds \in [Processes -> Tables]
      /\ p \in Processes /\ p \notin Commands /\ Command[p] \in Processes /\ Command[p] # p
  BY DEF FdTypes
<1>1. CASE RedirectFails(p) \/ ForkFails(p)
  <2>1. pc'[p] \in {"prompt", "exit"}
    BY <1>0, <1>1 DEF RedirectFails, ForkFails, Goto, ReturnTo
  <2> QED
    BY <2>1, AskingIdle
<1>2. CASE Wait(p)
  <2>1. pc'[p] \in {"prompt", "exit"}
    BY <1>0, <1>2 DEF Wait, ReturnTo
  <2> QED
    BY <2>1, AskingIdle
<1>3. CASE ParseEnds(p)
  <2> DEFINE a == args[p]
             i == at[p]
  <2>1. /\ pc[p] = "parse" /\ ~(i <= Len(a) /\ words[p] < MaxArgs - 1)
        /\ pc'[p] = "fork" /\ UNCHANGED <<fds, args, at, words, redir>>
    BY <1>0, <1>3 DEF ParseEnds, Parsing, Goto, local
  <2>2. /\ words[p] = Cardinality(WordsBefore(a, i))
        /\ Tied(p, a, i, fds[p], redir[p])
    BY <2>1 DEF Asking
  <2>3. a \in Seq(Tokens) /\ i \in Nat \ {0} /\ words[p] \in Nat /\ MaxArgs \in Nat
    BY ExecuteAssumption DEF FdTypes, HeldTypes
  <2>4. i <= Len(a) + 1
    BY DEF Counts
  <2> HIDE DEF a, i
  <2>5. i \in 1..Len(a)+1
    BY <2>3, <2>4
  <2>6. i > Len(a) \/ Cardinality(WordsBefore(a, i)) >= MaxArgs - 1
    <3>1. Len(a) \in Nat
      BY <2>3
    <3> QED
      BY <2>1, <2>2, <2>3, <3>1
  <2>7. Seen(a) = 1..i-1
    BY <2>2, <2>3, <2>5, <2>6, TiedEnds
  <2> QED
    BY <2>1, <2>2, <2>7 DEF Asking, a, i
<1>4. CASE ForkCommand(p)
  <2>1. /\ pc[p] = "fork" /\ pc'[p] = "wait" /\ fds'[p] = fds[p]
        /\ UNCHANGED <<args, at, redir>>
    BY <1>0, <1>4 DEF ForkCommand, local
  <2> QED
    BY <2>1 DEF Asking
<1> QED
  BY <1>1, <1>2, <1>3, <1>4, AskingParseWord, AskingRedirect DEF ExecuteCommandMain

\* A side that has set up has the end of the pipe as one of its streams.
LEMMA SetUpStreams ==
    ASSUME FdTypes, NEW t \in Tables, SideTable(t)
    PROVE  /\ \A s \in Streams : LeftTable(t)[s] = Base("left", s)
           /\ \A s \in Streams : RightTable(t)[s] = Base("right", s)
<1> DEFINE m == pipe_fd[1]
           n == pipe_fd[2]
           l == Close(t, m)
           r == Close(t, n)
<1>1. /\ m \in Descriptors /\ n \in Descriptors /\ m >= 3 /\ n >= 3 /\ m # n
      /\ t[m] = "pipe_r" /\ t[n] = "pipe_w" /\ \A s \in Streams : t[s] = StdTable[s]
      /\ 0 \in Descriptors /\ 1 \in Descriptors
  BY StreamFacts DEF FdTypes, SideTable, StdKept
<1>2. m \notin Streams /\ n \notin Streams /\ m # 0 /\ n # 1 /\ Streams \subseteq Descriptors
  BY <1>1, StreamFacts
<1>3. /\ l \in Tables /\ r \in Tables
  BY <1>1, CloseFacts
<1>4. /\ \A k \in Descriptors \ {m} : l[k] = t[k]
      /\ \A k \in Descriptors \ {n} : r[k] = t[k]
  BY <1>1 DEF Close, Tables
<1> HIDE DEF l, r, m, n
<1>5. /\ Move(l, n, 1)[1] = l[n]
      /\ \A k \in Descriptors : k # n /\ k # 1 => Move(l, n, 1)[k] = l[k]
  BY <1>1, <1>3, MoveStreams
<1>6. /\ Move(r, m, 0)[0] = r[m]
      /\ \A k \in Descriptors : k # m /\ k # 0 => Move(r, m, 0)[k] = r[k]
  BY <1>1, <1>3, MoveStreams
<1>7. \A s \in Streams : Move(l, n, 1)[s] = Base("left", s)
  BY <1>1, <1>2, <1>4, <1>5 DEF Base
<1>8. \A s \in Streams : Move(r, m, 0)[s] = Base("right", s)
  BY <1>1, <1>2, <1>4, <1>6 DEF Base
<1> QED
  BY <1>7, <1>8 DEF LeftTable, RightTable, l, r, m, n

LEMMA AskingSide ==
    ASSUME FdTypes, Held, SidesReady, NEW p \in {"left", "right"}, Asking(p),
           p = "left" => ForkLeft \/ SetupLeft \/ WaitLeft \/ Exit(p),
           p = "right" => ForkRight \/ SetupRight \/ WaitRight \/ Exit(p)
    PROVE  Asking(p)'
<1> USE ProcessFacts
<1>0. /\ pc \in [Processes -> Labels] /\ fds \in [Processes -> Tables]
      /\ p \in Processes /\ p \in Workers /\ p # "shell"
  BY DEF FdTypes
<1>1. CASE Exit(p) \/ (p = "left" /\ WaitLeft) \/ (p = "right" /\ WaitRight)
  <2>1. pc'[p] \in {"dead", "none"}
    BY <1>0, <1>1 DEF Exit, Die, Goto, WaitLeft, WaitRight
  <2> QED
    BY <1>0, <2>1, AskingIdle
<1>2. CASE (p = "left" /\ ForkLeft) \/ (p = "right" /\ ForkRight)
  <2>1. /\ pc["shell"] \in {"fork1", "fork2"} /\ (pc["shell"] = "fork2" => p = "right")
        /\ pc'[p] = "setup" /\ fds'[p] = fds["shell"]
        /\ UNCHANGED <<at, words, redir, pipe_fd>>
    BY <1>0, <1>2 DEF ForkLeft, ForkRight, ForkSide, local
  <2>2. Ready(p)
    BY <2>1 DEF SidesReady
  <2>3. SideTable(fds["shell"])
    BY <2>1 DEF Held, SideTable
  <2> QED
    BY <1>0, <2>1, <2>2, <2>3 DEF Asking, Ready, SideTable, StdKept
<1>3. CASE (p = "left" /\ SetupLeft) \/ (p = "right" /\ SetupRight)
  <2>1. /\ pc[p] = "setup" /\ pc'[p] = "parse" /\ UNCHANGED <<at, words, redir>>
        /\ p = "left" => fds'[p] = LeftTable(fds[p])
        /\ p = "right" => fds'[p] = RightTable(fds[p])
    BY <1>0, <1>3 DEF SetupLeft, SetupRight, Goto, local
  <2>2. Ready(p) /\ SideTable(fds[p]) /\ fds[p] \in Tables
    BY <1>0, <2>1 DEF Asking
  <2>3. \A s \in Streams : fds'[p][s] = Base(p, s)
    BY <2>1, <2>2, SetUpStreams
  <2>4. at'[p] = 1 /\ words'[p] = 0 /\ redir'[p] = NoRedir
    BY <2>1, <2>2 DEF Ready
  <2> QED
    BY <1>0, <2>1, <2>3, <2>4, AskingBegins
<1> QED
  BY <1>1, <1>2, <1>3

LEMMA AskingStep ==
    ASSUME EndsInv, HeldInv, Counts, AskInv, Next, NEW p \in Workers
    PROVE  Asking(p)'
<1> USE ProcessFacts
<1>0. FdTypes /\ Phases /\ HeldTypes /\ Held /\ SidesReady /\ Asking(p)
  BY DEF EndsInv, HeldInv, AskInv
<1>1. CASE Untouched(p)
  <2>1. MakePipe => pc["shell"] = "pipe"
    BY DEF MakePipe
  <2>2. MakePipe => pc[p] # "setup"
    BY <1>0, <2>1 DEF Phases, Asking
  <2>3. pipe_fd' = pipe_fd \/ MakePipe
    BY PipeFdMoves
  <2> QED
    BY <1>0, <1>1, <2>2, <2>3, AskingUntouched
<1>2. CASE WorkerStep(p)
  <2>1. CASE ReadLine
    BY <1>0, <2>1, AskingLine
  <2>2. CASE ExecuteCommandMain(p)
    BY <1>0, <2>2, AskingExecute
  <2>3. CASE p = "shell" /\ (EndOfFile \/ ShellExits \/ PipCmd \/ Builtin)
    BY <1>0, <2>3, AskingElsewhere
  <2>4. CASE \/ p = "left" /\ SideMoves(p, ForkLeft, SetupLeft, WaitLeft)
             \/ p = "right" /\ SideMoves(p, ForkRight, SetupRight, WaitRight)
    BY <1>0, <2>4, AskingSide DEF SideMoves
  <2> QED
    BY <1>2, <2>1, <2>2, <2>3, <2>4 DEF WorkerStep
<1> QED
  BY <1>0, <1>1, <1>2, WorkerMoves DEF HeldTypes

\* Before the fork of a side only a new line touches what it begins with.
LEMMA SideUntouched ==
    ASSUME FdTypes, HeldTypes, NEW p \in {"left", "right"}, pc[p] = "none", Next
    PROVE  \/ at'[p] = at[p] /\ words'[p] = words[p] /\ redir'[p] = redir[p]
           \/ ReadLine
<1> USE ProcessFacts
<1>1. Untouched(p) \/ WorkerStep(p)
  BY WorkerMoves DEF HeldTypes
<1>2. ~ExecuteCommandMain(p) /\ ~Exit(p)
  BY DEF ExecuteCommandMain, ParseWord, Redirect, RedirectFails, ParseEnds, ForkCommand,
         ForkFails, Wait, Parsing, Exit
<1>3. UNCHANGED local => at'[p] = at[p] /\ words'[p] = words[p] /\ redir'[p] = redir[p]
  BY DEF local
<1>4. ForkLeft \/ SetupLeft \/ WaitLeft \/ ForkRight \/ SetupRight \/ WaitRight
        => UNCHANGED local
  BY DEF ForkLeft, SetupLeft, WaitLeft, ForkRight, SetupRight, WaitRight, ForkSide
<1> QED
  BY <1>1, <1>2, <1>3, <1>4 DEF Untouched, WorkerStep, SideMoves

LEMMA SidesReadyStep ==
    ASSUME EndsInv, HeldInv, SidesReady, Next
    PROVE  SidesReady'
<1> USE ProcessFacts
<1>0. /\ FdTypes /\ Phases /\ HeldTypes /\ pc \in [Processes -> Labels]
  BY DEF EndsInv, HeldInv, FdTypes
<1>1. CASE ReadLine
  <2>1. \A p \in Workers : at'[p] = 1 /\ words'[p] = 0 /\ redir'[p] = NoRedir
    BY <1>1 DEF ReadLine, Enter
  <2> QED
    BY <2>1 DEF SidesReady, Ready
<1>2. CASE ~ReadLine
  <2>1. pc'["shell"] \in {"pipe", "fork1", "fork2"} =>
          /\ pc["shell"] \in {"pipe", "fork1", "fork2"}
          /\ pc'["shell"] = "fork1" => pc["shell"] \in {"pipe", "fork1"}
          /\ pc'["shell"] = "pipe" => pc["shell"] = "pipe"
    <3>1. CASE Untouched("shell")
      BY <3>1 DEF Untouched
    <3>2. CASE EndOfFile \/ ShellExits
      BY <1>0, <3>2 DEF EndOfFile, ShellExits, Die, Goto
    <3>3. CASE PipCmd
      <4>1. CASE MakePipe \/ PipeFails \/ ForkSideFails \/ ClosePipe
        BY <1>0, <4>1 DEF MakePipe, PipeFails, ForkSideFails, ClosePipe, Goto
      <4>2. CASE ForkLeft \/ ForkRight \/ WaitLeft \/ WaitRight
        BY <1>0, <4>2 DEF ForkLeft, ForkRight, ForkSide, WaitLeft, WaitRight
      <4> QED
        BY <3>3, <4>1, <4>2 DEF PipCmd
    <3>4. CASE Builtin
      BY <1>0, <3>4, BuiltinGoes DEF BuiltinLabels
    <3>5. CASE ExecuteCommandMain("shell")
      <4>1. CASE ParseWord("shell") \/ Redirect("shell")
        BY <4>1 DEF ParseWord, Redirect
      <4>2. CASE ~(ParseWord("shell") \/ Redirect("shell"))
        BY <1>0, <3>5, <4>2 DEF ExecuteCommandMain, RedirectFails, ParseEnds, ForkCommand,
                                ForkFails, Wait, Goto, ReturnTo
      <4> QED
        BY <4>1, <4>2
    <3> QED
      BY <1>0, <1>2, <3>1, <3>2, <3>3, <3>4, <3>5, ShellMoves DEF ShellMove, ExecuteCommandMain
  <2>2. ASSUME NEW p \in {"left", "right"}, pc[p] = "none", Ready(p)
        PROVE  Ready(p)'
    <3>1. at'[p] = at[p] /\ words'[p] = words[p] /\ redir'[p] = redir[p]
      BY <1>0, <1>2, <2>2, SideUntouched
    <3> QED
      BY <2>2, <3>1 DEF Ready
  <2>3. pc'["shell"] \in {"pipe", "fork1"} => Ready("left")'
    BY <1>0, <2>1, <2>2 DEF SidesReady, Phases
  <2>4. pc'["shell"] \in {"pipe", "fork1", "fork2"} => Ready("right")'
    BY <1>0, <2>1, <2>2 DEF SidesReady, Phases
  <2> QED
    BY <2>3, <2>4 DEF SidesReady
<1> QED
  BY <1>1, <1>2

-----------------------------------------------------------------------------
(* The command *)

\* While a command runs its parent waits, and only for that.
LEMMA ParentWaits ==
    ASSUME FdTypes, Phases, HeldTypes, NoChild, Next, NEW p \in Workers,
           pc[Command[p]] \in {"child", "run"}
    PROVE  pc[p] = "wait" /\ Untouched(p)
<1> USE ProcessFacts
<1>1. pc[p] = "wait"
  BY DEF Phases, NoChild
<1>2. ~Wait(p)
  BY DEF Wait
<1>3. ~ReadLine
  <2>1. ReadLine => pc["shell"] = "prompt"
    BY DEF ReadLine
  <2> QED
    BY <1>1, <2>1 DEF Phases
<1>4. ~ExecuteCommandMain(p) /\ ~Exit(p)
  BY <1>1, <1>2 DEF ExecuteCommandMain, ParseWord, Redirect, RedirectFails, ParseEnds,
                    ForkCommand, ForkFails, Parsing, Exit
<1>5. p = "shell" => ~(EndOfFile \/ ShellExits \/ PipCmd \/ Builtin)
  <2>1. EndOfFile \/ ShellExits => pc["shell"] \in {"prompt", "exit"}
    BY DEF EndOfFile, ShellExits
  <2> QED
    BY <1>1, <2>1, BuiltinLabel, PipCmdLabel DEF BuiltinLabels, PipeLabels
<1>6. ForkLeft => pc["left"] = "none"
  BY DEF ForkLeft, ForkSide, Phases
<1>7. ForkRight => pc["right"] = "none"
  BY DEF ForkRight, ForkSide, Phases
<1>8. /\ SetupLeft => pc["left"] = "setup"
      /\ SetupRight => pc["right"] = "setup"
      /\ WaitLeft => pc["left"] = "dead"
      /\ WaitRight => pc["right"] = "dead"
  BY DEF SetupLeft, SetupRight, WaitLeft, WaitRight
<1>9. ~WorkerStep(p)
  BY <1>1, <1>3, <1>4, <1>5, <1>6, <1>7, <1>8 DEF WorkerStep, SideMoves
<1> QED
  BY <1>1, <1>9, WorkerMoves DEF HeldTypes

LEMMA AskedForStep ==
    ASSUME EndsInv, HeldInv, AskInv, Next, NEW p \in Workers
    PROVE  AskedFor(p)'
<1> USE ProcessFacts
<1> DEFINE c == Command[p]
<1>0. /\ FdTypes /\ Phases /\ HeldTypes /\ NoChild /\ Asking(p) /\ AskedFor(p)
      /\ pc \in [Processes -> Labels] /\ fds \in [Processes -> Tables]
      /\ p \in Processes /\ c \in Processes /\ c # p
  BY DEF EndsInv, HeldInv, AskInv, FdTypes
<1>1. CASE pc'[c] = "child"
  <2>1. \/ pc'[c] = pc[c] /\ fds'[c] = fds[c] /\ todo'[c] = todo[c]
        \/ CommandStep(p)
    BY <1>0, CommandMoves DEF HeldTypes
  <2>2. CASE pc'[c] = pc[c] /\ fds'[c] = fds[c]
    <3>1. Untouched(p)
      BY <1>0, <1>1, <2>2, ParentWaits
    <3> QED
      BY <1>0, <1>1, <2>2, <3>1 DEF AskedFor, Untouched
  <2>3. CASE ForkCommand(p)
    <3>1. fds'[c] = fds[p] /\ fds'[p] = fds[p]
      BY <1>0, <2>3 DEF ForkCommand
    <3> QED
      BY <1>1, <3>1 DEF AskedFor
  <2>4. CASE Wait(p) \/ Child(p)
    BY <1>0, <1>1, <2>4 DEF Wait, Child, Exec, ExecFails, Exit, Die, Goto
  <2>5. CASE Program(c) \/ CommandStops(c)
    BY <1>0, <1>1, <2>5 DEF Program, CommandStops, WriteItem, BrokenPipe, ReadItem, EndOfInput,
                            Finish, Die, Goto
  <2> QED
    BY <2>1, <2>2, <2>3, <2>4, <2>5 DEF CommandStep
<1>2. CASE pc'[c] = "run"
  <2>1. \/ pc'[c] = pc[c] /\ fds'[c] = fds[c] /\ todo'[c] = todo[c]
        \/ pc'[c] \in {"none", "child", "exit", "dead"}
        \/ Exec(p) \/ WriteItem(c) \/ EndOfInput(c)
    BY <1>0, RunMoves DEF HeldTypes
  <2>2. pc[c] \in {"child", "run"}
    BY <1>0, <1>2, <2>1 DEF Exec, WriteItem, EndOfInput, Goto
  <2>3. pc[p] = "wait" /\ Untouched(p)
    BY <1>0, <2>2, ParentWaits
  <2>4. \A s \in Streams : Asked(p, s)' = Asked(p, s)
    BY <2>3 DEF Untouched, Asked, Seen
  <2>5. CASE pc[c] = "run" /\ fds'[c] = fds[c]
    BY <1>0, <1>2, <2>4, <2>5 DEF AskedFor
  <2>6. CASE Exec(p)
    <3>1. /\ pc[c] = "child" /\ fds'[c] = Redirected(fds[p], redir[p])
      BY <1>0, <2>6 DEF Exec, AskedFor
    <3>2. /\ Tied(p, args[p], at[p], fds[p], redir[p])
          /\ Seen(args[p]) = 1..at[p]-1
      BY <1>0, <2>3 DEF Asking
    <3>3. /\ at[p] \in Nat \ {0} /\ fds[p] \in Tables /\ redir[p] \in [Streams -> Descriptors]
      BY <1>0 DEF FdTypes
    <3>4. \A s \in Streams : Redirected(fds[p], redir[p])[s] = Asked(p, s)
      BY <3>2, <3>3, TiedAsked
    <3> QED
      BY <1>2, <2>4, <3>1, <3>4 DEF AskedFor
  <2>7. ~EndOfInput(c)
    BY <1>0, <1>2 DEF EndOfInput, Goto
  <2>8. WriteItem(c) => pc[c] = "run" /\ fds'[c] = fds[c]
    BY DEF WriteItem
  <2> QED
    BY <1>2, <2>1, <2>5, <2>6, <2>7, <2>8
<1> QED
  BY <1>1, <1>2 DEF AskedFor

LEMMA AskInit == Init => AskInv
<1> SUFFICES ASSUME Init PROVE AskInv
  OBVIOUS
<1> USE ProcessFacts
<1>1. pc = [p \in Processes |-> IF p = Shell THEN "prompt" ELSE "none"]
  BY DEF Init, ExecInit
<1>2. pc["shell"] = "prompt" /\ \A p \in Processes \ {"shell"} : pc[p] = "none"
  BY <1>1
<1> QED
  BY <1>2 DEF AskInv, SidesReady, Asking, AskedFor

LEMMA AskStep == EndsInv /\ HeldInv /\ Counts /\ AskInv /\ [Next]_vars => AskInv'
<1> SUFFICES ASSUME EndsInv, HeldInv, Counts, AskInv, [Next]_vars PROVE AskInv'
  OBVIOUS
<1>1. CASE Next
  BY <1>1, AskingStep, SidesReadyStep, AskedForStep DEF AskInv
<1>2. CASE UNCHANGED vars
  <2>1. UNCHANGED <<pc, fds, args, at, words, redir, pipe_fd>>
    BY <1>2 DEF vars, execVars
  <2>2. SidesReady'
    BY <2>1 DEF AskInv, SidesReady, Ready
  <2>3. ASSUME NEW p \in Workers PROVE Asking(p)'
    BY <2>1, <2>3, AskingUntouched DEF AskInv, Untouched
  <2>4. ASSUME NEW p \in Workers PROVE AskedFor(p)'
    <3>1. \A s \in Streams : Asked(p, s)' = Asked(p, s)
      BY <2>1 DEF Asked, Seen
    <3> QED
      BY <2>1, <2>4, <3>1 DEF AskInv, AskedFor
  <2> QED
    BY <2>2, <2>3, <2>4 DEF AskInv
<1> QED
  BY <1>1, <1>2

LEMMA CountsKept == FdTypes /\ HeldTypes /\ Flow /\ Counts /\ [Next]_vars => Counts'
<1>1. CASE UNCHANGED vars
  <2>1. UNCHANGED <<args, at, words, todo, pipe, got, line>>
    BY <1>1 DEF vars, execVars
  <2> QED
    BY <2>1 DEF Counts
<1> QED
  BY <1>1, CountsStep

LEMMA AskAlways == Spec => [](EndsInv /\ PipeInv /\ HeldInv /\ Counts /\ AskInv)
<1>1. EndsInv /\ PipeInv /\ HeldInv => FdTypes /\ HeldTypes /\ Flow
  BY DEF EndsInv, PipeInv, HeldInv
<1> QED
  BY <1>1, HeldAlways, CountsInit, CountsKept, AskInit, AskStep, PTL DEF Spec

\* A program runs with each standard stream open on the last redirection of
\* that stream in its part of the line, else on the pipe, else on the shell's
\* own: the descriptors that its parent opened, at the ends of a pipe or not,
\* arrive at the streams they are for, for every line and every table.
THEOREM StreamsArrive == Spec => []StreamsAsAsked
<1>1. EndsInv /\ PipeInv /\ HeldInv /\ Counts /\ FilesInv => TypeOK
  <2> SUFFICES ASSUME EndsInv, PipeInv, HeldInv, Counts, FilesInv PROVE TypeOK
    OBVIOUS
  <2>1. FdTypes /\ Flow /\ HeldTypes /\ FileTypes
    BY DEF EndsInv, PipeInv, HeldInv, FilesInv
  <2>2. /\ pc \in [Processes -> Labels]
        /\ fds \in [Processes -> [0..MaxFds-1 -> Opens]]
        /\ buffered \in [Processes -> BOOLEAN]
        /\ args \in [Workers -> Seq(Tokens)]
        /\ redir \in [Workers -> [Streams -> 0..MaxFds-1]]
    BY <2>1 DEF FdTypes, Flow, Tables, Descriptors
  <2>3. \A p \in Workers : at[p] \in 1..Len(args[p]) + 1
    <3> SUFFICES ASSUME NEW p \in Workers PROVE at[p] \in 1..Len(args[p]) + 1
      OBVIOUS
    <3>1. at[p] \in Nat \ {0} /\ args[p] \in Seq(Tokens) /\ at[p] <= Len(args[p]) + 1
      BY <2>1 DEF FdTypes, Counts
    <3>2. Len(args[p]) \in Nat
      BY ONLY <3>1
    <3> QED
      BY <3>1, <3>2
  <2>4. words \in [Workers -> 0..MaxArgs-1] /\ todo \in [Commands -> 0..MaxItems]
    BY <2>1, ExecuteAssumption DEF HeldTypes, Counts
  <2>5. /\ entry \in [Paths -> Inodes \cup {"none", "dir"}]
        /\ from \in Inodes \cup {"none"} /\ to \in Inodes \cup {"none"}
    BY <2>1 DEF FileTypes
  <2>6. /\ pipe \in Seq({"data", "prompt"}) /\ Len(pipe) <= PipeCap
        /\ got \in Seq({"data", "prompt"})
        /\ line \in Lines \cup {NoLine}
    BY DEF Counts
  <2> QED
    BY <2>2, <2>3, <2>4, <2>5, <2>6 DEF TypeOK
<1>2. AskInv => \A p \in Workers : pc[Command[p]] = "run" =>
                  \A s \in Streams : fds[Command[p]][s] = Asked(p, s)
  BY DEF AskInv, AskedFor
<1>3. TypeOK /\ AskInv => StreamsAsAsked
  BY <1>2 DEF StreamsAsAsked
<1> QED
  BY <1>1, <1>3, AskAlways, FilesKept, PTL
=============================================================================
