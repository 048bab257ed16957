------------------------------ MODULE RtSignal ------------------------------
(***************************************************************************)
(* Signals/rcv.c and Signals/snd.c: senders queue SIGRTMIN with an integer *)
(* for a receiver.  A real-time signal is queued with its value, in order, *)
(* up to a limit, and is blocked while its own handler runs.               *)
(***************************************************************************)
EXTENDS Integers, Sequences

CONSTANTS
    Data,           \* values a user may send; 0 and 1 have a meaning
    QueueMax,       \* RLIMIT_SIGPENDING
    MaxSends        \* bound: signals sent in one behaviour

ASSUME SignalAssumption ==
    /\ Data \subseteq Int
    /\ QueueMax \in Nat
    /\ MaxSends \in Nat

VARIABLES
    pc,             \* the receiver: "start", "loop", "handler", or how it ended
    registered,     \* has sigaction(SIGRTMIN) been called?
    pending,        \* queued signals, each with its si_code and value
    si,             \* the siginfo of the running handler
    accepted,       \* history: signals the kernel accepted
    handled         \* history: signals whose handler was entered

vars == <<pc, registered, pending, si, accepted, handled>>

Siginfo == [code : {"SI_QUEUE", "SI_USER"}, value : Data]
None    == [none |-> TRUE]

Ended == {"exited", "aborted", "killed"}

TypeOK ==
    /\ pc \in {"start", "loop", "handler"} \cup Ended
    /\ registered \in BOOLEAN
    /\ pending \in Seq(Siginfo)
    /\ si \in Siginfo \cup {None}
    /\ pc = "handler" => si \in Siginfo
    /\ accepted \in Seq(Siginfo)
    /\ handled \in Seq(Siginfo)

Init ==
    /\ pc = "start"
    /\ registered = FALSE
    /\ pending = <<>>
    /\ si = None
    /\ accepted = <<>>
    /\ handled = <<>>

-----------------------------------------------------------------------------
(* snd.c *)

\* Mutant of Queue: an ordinary signal, pending at most once.
QueueCoalescing(s) ==
    /\ pc \notin Ended
    /\ Len(accepted) < MaxSends
    /\ pending' = IF pending = <<>> THEN <<s>> ELSE pending
    /\ accepted' = Append(accepted, s)
    /\ UNCHANGED <<pc, registered, si, handled>>

\* sigqueue succeeds; kill(1) can send the same signal without a value, which
\* the receiver tells apart by si_code.
Queue(s) ==
    /\ pc \notin Ended
    /\ Len(accepted) < MaxSends
    /\ Len(pending) < QueueMax
    /\ pending' = Append(pending, s)
    /\ accepted' = Append(accepted, s)
    /\ UNCHANGED <<pc, registered, si, handled>>

\* With the limit reached (EAGAIN), or nobody there (ESRCH), snd reports an
\* error and nothing changes: no action.

-----------------------------------------------------------------------------
(* rcv.c *)

Register ==
    /\ pc = "start"
    /\ registered' = TRUE
    /\ pc' = "loop"
    /\ UNCHANGED <<pending, si, accepted, handled>>

\* The default action of a real-time signal ends the process.
DeliverDefault ==
    /\ pc = "start"
    /\ ~registered
    /\ pending # <<>>
    /\ pc' = "killed"
    /\ UNCHANGED <<registered, pending, si, accepted, handled>>

Deliver ==
    /\ pc = "loop"
    /\ pending # <<>>
    /\ pending' = Tail(pending)
    /\ si' = Head(pending)
    /\ handled' = Append(handled, Head(pending))
    /\ pc' = "handler"
    /\ UNCHANGED <<registered, accepted>>

\* Mutants of Outcome: si_code is not tested; 1 is handled like any value.
OutcomeAnyCode(s) == IF s.value = 0 THEN "exited"
                     ELSE IF s.value = 1 THEN "aborted" ELSE "loop"

OutcomeNoAbort(s) == IF s.code = "SI_QUEUE" /\ s.value = 0 THEN "exited" ELSE "loop"

Outcome(s) == IF s.code # "SI_QUEUE" THEN "loop"
              ELSE IF s.value = 0 THEN "exited"
              ELSE IF s.value = 1 THEN "aborted"
              ELSE "loop"

HandleSignal ==
    /\ pc = "handler"
    /\ pc' = Outcome(si)
    /\ si' = None
    /\ UNCHANGED <<registered, pending, accepted, handled>>

Receiver == Register \/ DeliverDefault \/ Deliver \/ HandleSignal

Next == Receiver \/ \E s \in Siginfo : Queue(s)

Spec == Init /\ [][Next]_vars

FairSpec == Spec /\ WF_vars(Receiver)

-----------------------------------------------------------------------------
Fatal(s) == s.code = "SI_QUEUE" /\ s.value \in {0, 1}

\* Signals are handled in the order they were accepted, each once, and none
\* overtakes or disappears while the receiver lives.
InOrder == accepted = handled \o pending

\* The receiver ends by the first fatal value that was accepted and by no
\* later one: whatever is handled before it left the receiver running.
FirstFatalEnds ==
    /\ \A n \in 1..(Len(handled) - 1) : ~Fatal(handled[n])
    /\ pc \in {"exited", "aborted"} =>
          handled # <<>> /\ Fatal(handled[Len(handled)])
    /\ pc = "loop" => \A n \in DOMAIN handled : ~Fatal(handled[n])

\* A terminate or abort request that was accepted ends the receiver.
FatalEnds ==
    (\E n \in DOMAIN accepted : Fatal(accepted[n])) ~> pc \in Ended
=============================================================================
