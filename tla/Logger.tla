-------------------------------- MODULE Logger --------------------------------
(***************************************************************************)
(* Signals/real-time_logger: applications that log to one file at a level  *)
(* that set_log_level changes by sending the signal SIGRTMIN + level.      *)
(*                                                                         *)
(* Five signals share one handler.  Only the signal being handled is       *)
(* blocked (sa_mask is empty), so handlers of different levels nest: the   *)
(* kernel hands out pending real-time signals lowest number first, each    *)
(* frame on top of the one before, and the frame on top runs first.        *)
(***************************************************************************)
EXTENDS Integers, Sequences, FiniteSets, SequencesExt

CONSTANTS
    Apps,           \* running copies of the application
    BodyLen,        \* units a message body is written in (a partial write stops between two)
    MaxRequests     \* bound: requests sent to one application

Disabled == 0
Error    == 1
Warning  == 2
Info     == 3
Debug    == 4
Levels   == Disabled..Debug

\* The messages of main, in order.
Messages == <<Debug, Info, Warning, Error>>

ASSUME LoggerAssumption ==
    /\ BodyLen \in Nat \ {0}
    /\ MaxRequests \in Nat

VARIABLES
    pc,             \* where main stands, per application
    reg,            \* handlers registered by init_logger's loop: levels below reg
    msg,            \* the message main is at, an index of Messages
    left,           \* count of safe_write: units of the body still to write
    log_level,      \* log_level
    pending,        \* queued level signals: how many of each level
    frames,         \* levels of the handler frames, the innermost last
    file,           \* the log file: units in the order they were appended
    requests,       \* history: levels requested, in order
    failed,         \* history: did a write give up?
    overlap,        \* history: was a request sent before the last one settled?
    stale           \* history: messages below the level since it last changed

mainVars == <<pc, reg, msg, left, file>>
sigVars  == <<log_level, pending, frames>>
history  == <<requests, failed, overlap, stale>>
vars     == <<mainVars, sigVars, history>>

Pcs == {"register", "filter", "disabled", "body", "newline", "sleep", "killed"}

Unit == [app : Apps, msg : Levels, part : {"body", "newline"}]

TypeOK ==
    /\ pc \in [Apps -> Pcs]
    /\ reg \in [Apps -> 0..(Debug + 1)]
    /\ msg \in [Apps -> DOMAIN Messages]
    /\ left \in [Apps -> 0..BodyLen]
    /\ log_level \in [Apps -> Levels]
    /\ pending \in [Apps -> [Levels -> 0..MaxRequests]]
    /\ frames \in [Apps -> Seq(Levels)]
    /\ \A a \in Apps : Len(frames[a]) <= Debug + 1
    /\ file \in Seq(Unit)
    /\ requests \in [Apps -> Seq(Levels)]
    /\ failed \in BOOLEAN
    /\ overlap \in [Apps -> BOOLEAN]
    /\ stale \in [Apps -> Nat]

Init ==
    /\ pc = [a \in Apps |-> "register"]
    /\ reg = [a \in Apps |-> 0]
    /\ msg = [a \in Apps |-> 1]
    /\ left = [a \in Apps |-> 0]
    /\ log_level = [a \in Apps |-> Info]
    /\ pending = [a \in Apps |-> [l \in Levels |-> 0]]
    /\ frames = [a \in Apps |-> <<>>]
    /\ file = <<>>
    /\ requests = [a \in Apps |-> <<>>]
    /\ failed = FALSE
    /\ overlap = [a \in Apps |-> FALSE]
    /\ stale = [a \in Apps |-> 0]

GoTo(a, p) == pc' = [pc EXCEPT ![a] = p]

\* main runs only while no handler frame is on its stack.
Running(a) == frames[a] = <<>>

Settled(a) == frames[a] = <<>> /\ \A l \in Levels : pending[a][l] = 0

-----------------------------------------------------------------------------
(* set_log_level.c: maps the word to a level and sends SIGRTMIN + level *)

Request(a, l) ==
    /\ pc[a] # "killed"
    /\ Len(requests[a]) < MaxRequests
    /\ pending' = [pending EXCEPT ![a][l] = @ + 1]
    /\ requests' = [requests EXCEPT ![a] = Append(@, l)]
    /\ overlap' = [overlap EXCEPT ![a] = @ \/ ~Settled(a)]
    /\ UNCHANGED <<mainVars, log_level, frames, failed, stale>>

-----------------------------------------------------------------------------
(* Signal delivery and handle_signal *)

\* Mutant of Deliverable: the signals stay blocked once main sleeps.
DeliverableAwake(a) ==
    {l \in Levels : pending[a][l] > 0 /\ ~Contains(frames[a], l) /\ pc[a] # "sleep"}

Deliverable(a) == {l \in Levels : pending[a][l] > 0 /\ ~Contains(frames[a], l)}

\* The lowest deliverable signal; without a handler it ends the process.
Deliver(a) ==
    /\ pc[a] # "killed"
    /\ Deliverable(a) # {}
    /\ LET l == CHOOSE l \in Deliverable(a) : \A k \in Deliverable(a) : l <= k
       IN  /\ pending' = [pending EXCEPT ![a][l] = @ - 1]
           /\ \/ /\ l < reg[a]
                 /\ frames' = [frames EXCEPT ![a] = Append(@, l)]
                 /\ UNCHANGED pc
              \/ /\ l >= reg[a]
                 /\ GoTo(a, "killed")
                 /\ frames' = [frames EXCEPT ![a] = <<>>]
    /\ UNCHANGED <<reg, msg, left, file, log_level, history>>

\* Mutant of NewLevel: < instead of <=.
NewLevelBelowDebug(l, old) == IF l < Debug THEN l ELSE old

NewLevel(l, old) == IF l >= Disabled /\ l <= Debug THEN l ELSE old

\* handle_signal of the innermost frame.
HandleSignal(a) ==
    /\ frames[a] # <<>>
    /\ log_level' = [log_level EXCEPT ![a] = NewLevel(Last(frames[a]), @)]
    /\ frames' = [frames EXCEPT ![a] = Front(@)]
    /\ stale' = [stale EXCEPT ![a] = 0]
    /\ UNCHANGED <<mainVars, pending, requests, failed, overlap>>

-----------------------------------------------------------------------------
(* init_logger and main *)

\* Mutant of LastRegistered: i < LOG_LEVEL_DEBUG.
LastRegisteredEarly(a) == reg[a] = Debug - 1

LastRegistered(a) == reg[a] = Debug

\* One sigaction of the loop; the log file is opened after the last one.
Register(a) ==
    /\ pc[a] = "register"
    /\ Running(a)
    /\ reg' = [reg EXCEPT ![a] = @ + 1]
    /\ GoTo(a, IF LastRegistered(a) THEN "filter" ELSE "register")
    /\ UNCHANGED <<msg, left, file, sigVars, history>>

NextMessage(a) ==
    IF msg[a] = Len(Messages)
    THEN GoTo(a, "sleep") /\ UNCHANGED msg
    ELSE GoTo(a, "filter") /\ msg' = [msg EXCEPT ![a] = @ + 1]

\* Mutant of Passes: no test.
PassesAlways(a, m) == TRUE

Passes(a, m) == log_level[a] >= m

\* LOG_DEBUG, LOG_INFO, LOG_WARNING, LOG_ERROR: log_level >= their level.
Filter(a) ==
    /\ pc[a] = "filter"
    /\ Running(a)
    /\ IF Passes(a, Messages[msg[a]])
       THEN GoTo(a, "disabled") /\ UNCHANGED msg
       ELSE NextMessage(a)
    /\ UNCHANGED <<reg, left, file, sigVars, history>>

\* log_message reads log_level again, then formats the message.
LogMessage(a) ==
    /\ pc[a] = "disabled"
    /\ Running(a)
    /\ IF log_level[a] = Disabled
       THEN NextMessage(a) /\ UNCHANGED left
       ELSE GoTo(a, "body") /\ left' = [left EXCEPT ![a] = BodyLen] /\ UNCHANGED msg
    /\ UNCHANGED <<reg, file, sigVars, history>>

Units(a, n, part) == [k \in 1..n |-> [app |-> a, msg |-> Messages[msg[a]], part |-> part]]

\* Mutant of AllWritten: a partial write counts as a whole one.
AllWrittenAtOnce(a, n) == TRUE

AllWritten(a, n) == n = left[a]

\* safe_write of the body: one write appends some of what is left, EINTR
\* tries again, any other error gives the rest up.
WriteBody(a) ==
    /\ pc[a] = "body"
    /\ Running(a)
    /\ \/ \E n \in 1..left[a] :
            /\ file' = file \o Units(a, n, "body")
            /\ left' = [left EXCEPT ![a] = @ - n]
            /\ IF AllWritten(a, n) THEN GoTo(a, "newline") ELSE UNCHANGED pc
            /\ stale' = [stale EXCEPT ![a] =
                 IF left[a] = BodyLen /\ log_level[a] < Messages[msg[a]] THEN @ + 1 ELSE @]
            /\ UNCHANGED failed
       \/ /\ failed' = TRUE
          /\ left' = [left EXCEPT ![a] = 0]
          /\ GoTo(a, "newline")
          /\ UNCHANGED <<file, stale>>
    /\ UNCHANGED <<reg, msg, sigVars, requests, overlap>>

\* safe_write of "\n", a write of its own.
WriteNewline(a) ==
    /\ pc[a] = "newline"
    /\ Running(a)
    /\ \/ file' = file \o Units(a, 1, "newline") /\ UNCHANGED failed
       \/ UNCHANGED file /\ failed' = TRUE
    /\ NextMessage(a)
    /\ UNCHANGED <<reg, left, sigVars, requests, overlap, stale>>

Main(a) == \/ Register(a) \/ Filter(a) \/ LogMessage(a)
           \/ WriteBody(a) \/ WriteNewline(a)

App(a) == Main(a) \/ Deliver(a) \/ HandleSignal(a)

Next == \E a \in Apps : App(a) \/ \E l \in Levels : Request(a, l)

Spec == Init /\ [][Next]_vars

\* Applications run, and pending signals reach a running process.
FairSpec == Spec /\ \A a \in Apps :
    WF_vars(Main(a)) /\ WF_vars(Deliver(a)) /\ WF_vars(HandleSignal(a))

-----------------------------------------------------------------------------
\* A line: the body units of one message of one application, then a newline.
Line(a, m) == [k \in 1..(BodyLen + 1) |->
    [app |-> a, msg |-> m, part |-> IF k <= BodyLen THEN "body" ELSE "newline"]]

Lines == {Line(a, m) : a \in Apps, m \in Levels}

LineAt(k) == SubSeq(file, (k - 1) * (BodyLen + 1) + 1, k * (BodyLen + 1))

\* With one application, until a write gives up, the file is whole lines and at
\* most one line that is still being written, signals and partial writes or
\* not.
WholeLines ==
    LET full == Len(file) \div (BodyLen + 1)
        rest == SubSeq(file, full * (BodyLen + 1) + 1, Len(file))
    IN  ~failed => /\ \A k \in 1..full : LineAt(k) \in Lines
                   /\ \E l \in Lines : IsPrefix(rest, l)

\* After a change of level at most one message below the new level is still
\* written: the one that had passed its test.
StaleBounded == \A a \in Apps : stale[a] <= 1

\* Requests that are sent one at a time are obeyed: when the signals have
\* settled, the level is the one requested last.
LastRequestWins ==
    \A a \in Apps :
        pc[a] # "killed" /\ Settled(a) /\ ~overlap[a] /\ requests[a] # <<>>
            => log_level[a] = Last(requests[a])

\* Every request settles: signals do not stay pending and handlers return,
\* however they nest.
RequestsSettle == \A a \in Apps : []<>(Settled(a) \/ pc[a] = "killed")

\* Once init_logger has returned no level signal can end the application.
SafeAfterInit ==
    [][\A a \in Apps : pc'[a] = "killed" /\ pc[a] # "killed" => pc[a] = "register"]_vars
===============================================================================
