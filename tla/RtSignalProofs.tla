---------------------------- MODULE RtSignalProofs ----------------------------
(***************************************************************************)
(* Order and fatal values of RtSignal, for any values, limits and number   *)
(* of senders.                                                             *)
(***************************************************************************)
EXTENDS RtSignal, SequenceTheorems, TLAPS

\* What a delivery does to the two queues.
LEMMA MoveHead ==
    ASSUME NEW S, NEW h \in Seq(S), NEW q \in Seq(S), q # <<>>
    PROVE  h \o q = Append(h, Head(q)) \o Tail(q)
<1>1. Head(q) \in S /\ Tail(q) \in Seq(S) /\ <<Head(q)>> \in Seq(S)
  BY HeadTailProperties
<1>2. q = <<Head(q)>> \o Tail(q)
  BY <1>1
<1>3. Append(h, Head(q)) = h \o <<Head(q)>>
  BY <1>1, AppendIsConcat
<1>4. h \o (<<Head(q)>> \o Tail(q)) = (h \o <<Head(q)>>) \o Tail(q)
  BY <1>1, ConcatAssociative
<1> QED
  BY <1>2, <1>3, <1>4

LEMMA AppendToConcat ==
    ASSUME NEW h \in Seq(Siginfo), NEW q \in Seq(Siginfo), NEW s \in Siginfo
    PROVE  Append(h \o q, s) = h \o Append(q, s)
<1>1. <<s>> \in Seq(Siginfo) /\ h \o q \in Seq(Siginfo)
  BY ConcatProperties
<1>2. Append(h \o q, s) = (h \o q) \o <<s>> /\ Append(q, s) = q \o <<s>>
  BY <1>1, AppendIsConcat
<1> QED
  BY <1>1, <1>2, ConcatAssociative

LEMMA TypeStep == TypeOK /\ [Next]_vars => TypeOK'
<1> SUFFICES ASSUME TypeOK, [Next]_vars PROVE TypeOK'
  OBVIOUS
<1> USE DEF TypeOK, Ended
<1>1. ASSUME NEW s \in Siginfo, Queue(s) PROVE TypeOK'
  BY <1>1, AppendProperties DEF Queue
<1>2. CASE Register \/ DeliverDefault \/ HandleSignal
  BY <1>2 DEF Register, DeliverDefault, HandleSignal, Outcome
<1>3. CASE Deliver
  BY <1>3, HeadTailProperties, AppendProperties DEF Deliver
<1>4. CASE UNCHANGED vars
  BY <1>4 DEF vars
<1> QED
  BY <1>1, <1>2, <1>3, <1>4 DEF Next, Receiver

\* Type correctness of the receiver.
THEOREM TypeCorrect == Spec => []TypeOK
<1>1. Init => TypeOK
  <2>1. <<>> \in Seq(Siginfo)
    BY EmptySeq
  <2>2. None \in Siginfo \cup {None}
    OBVIOUS
  <2> QED
    BY <2>1, <2>2 DEF Init, TypeOK
<1> QED
  BY <1>1, TypeStep, PTL DEF Spec

\* Signals are handled in the order in which they were accepted, each once.
THEOREM HandledInOrder == Spec => []InOrder
<1>1. Init => InOrder
  BY DEF Init, InOrder
<1>2. TypeOK /\ InOrder /\ [Next]_vars => InOrder'
  <2> SUFFICES ASSUME TypeOK, InOrder, [Next]_vars PROVE InOrder'
    OBVIOUS
  <2> USE DEF TypeOK, InOrder
  <2>1. ASSUME NEW s \in Siginfo, Queue(s) PROVE InOrder'
    <3>1. Append(handled \o pending, s) = handled \o Append(pending, s)
      BY Zenon, AppendToConcat DEF TypeOK
    <3> QED
      BY <2>1, <3>1 DEF Queue
  <2>2. CASE Register \/ DeliverDefault \/ HandleSignal
    BY <2>2 DEF Register, DeliverDefault, HandleSignal
  <2>3. CASE Deliver
    BY <2>3, MoveHead DEF Deliver
  <2>4. CASE UNCHANGED vars
    BY <2>4 DEF vars
  <2> QED
    BY <2>1, <2>2, <2>3, <2>4 DEF Next, Receiver
<1> QED
  BY <1>1, <1>2, TypeCorrect, PTL DEF Spec

\* The value of the running handler is the last one handled, and there is
\* none before the handler is registered.
Current ==
    /\ pc = "handler" => handled # <<>> /\ handled[Len(handled)] = si
    /\ pc = "start" => handled = <<>>

\* The receiver ends by the first fatal value and by nothing after it.
THEOREM EndsByFirstFatal == Spec => []FirstFatalEnds
<1>1. Init => FirstFatalEnds /\ Current
  BY DEF Init, FirstFatalEnds, Current
<1>2. TypeOK /\ FirstFatalEnds /\ Current /\ [Next]_vars
        => FirstFatalEnds' /\ Current'
  <2> SUFFICES ASSUME TypeOK, FirstFatalEnds, Current, [Next]_vars
               PROVE  FirstFatalEnds' /\ Current'
    OBVIOUS
  <2> USE DEF TypeOK, FirstFatalEnds, Current, Fatal
  <2>1. ASSUME NEW s \in Siginfo, Queue(s) PROVE FirstFatalEnds' /\ Current'
    BY <2>1 DEF Queue
  <2>2. CASE Register \/ DeliverDefault
    BY <2>2 DEF Register, DeliverDefault
  <2>3. CASE HandleSignal
    <3>1. Len(handled) \in Nat /\ Len(handled) # 0 /\ si = handled[Len(handled)]
      BY <2>3 DEF HandleSignal
    <3> QED
      BY <2>3, <3>1 DEF HandleSignal, Outcome, Siginfo
  <2>4. CASE Deliver
    <3>1. /\ Len(handled) \in Nat
          /\ Head(pending) \in Siginfo
          /\ handled' = Append(handled, Head(pending))
          /\ Len(handled') = Len(handled) + 1
          /\ handled'[Len(handled) + 1] = Head(pending)
          /\ \A n \in 1..Len(handled) : handled'[n] = handled[n]
      BY <2>4, HeadTailProperties, AppendProperties DEF Deliver
    <3>2. \A n \in 1..Len(handled) : ~Fatal(handled[n])
      BY <2>4 DEF Deliver
    <3> QED
      BY <2>4, <3>1, <3>2 DEF Deliver
  <2>5. CASE UNCHANGED vars
    BY <2>5 DEF vars
  <2> QED
    BY <2>1, <2>2, <2>3, <2>4, <2>5 DEF Next, Receiver
<1> QED
  BY <1>1, <1>2, TypeCorrect, PTL DEF Spec
===============================================================================
