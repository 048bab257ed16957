---------------------------- MODULE LoggerProofs ----------------------------
(***************************************************************************)
(* Logger for any number of applications and requests and any length of a  *)
(* message.                                                                *)
(***************************************************************************)
EXTENDS Logger, SequenceTheorems, FiniteSetTheorems, TLAPS

\* init_logger's loop has registered all five signals when it is left.
Registered == \A a \in Apps :
    /\ pc[a] = "register" => reg[a] <= Debug
    /\ pc[a] \notin {"register", "killed"} => reg[a] = Debug + 1

\* A signal is blocked while its handler runs: no level nests in itself.
NestedOnce == \A a \in Apps : \A j, k \in 1..Len(frames[a]) :
    frames[a][j] = frames[a][k] => j = k

\* What is pending has been requested.
PendingRequested == \A a \in Apps : \A l \in Levels : pending[a][l] <= Len(requests[a])

LEMMA LevelFacts == /\ Levels = {0, 1, 2, 3, 4}
                    /\ IsFiniteSet(Levels) /\ Cardinality(Levels) = 5
<1>1. Levels = 0..4
  BY DEF Levels, Disabled, Debug
<1>2. IsFiniteSet(0..4) /\ Cardinality(0..4) = IF 0 > 4 THEN 0 ELSE 4 - 0 + 1
  <2>1. 0 \in Int /\ 4 \in Int
    OBVIOUS
  <2> QED
    BY <2>1, FS_Interval, Zenon
<1> QED
  BY <1>1, <1>2

\* Distinct levels fit on the stack only five deep.
LEMMA NestingBounded ==
    ASSUME NEW s \in Seq(Levels),
           \A j, k \in 1..Len(s) : s[j] = s[k] => j = k
    PROVE  Len(s) <= Debug + 1
<1>1. Len(s) \in Nat /\ s \in [1..Len(s) -> Levels]
  BY LenProperties
<1>2. IsFiniteSet(1..Len(s)) /\ Cardinality(1..Len(s)) = Len(s)
  BY <1>1, FS_Interval
<1>3. s \in Injection(1..Len(s), Levels)
  BY <1>1 DEF Injection, IsInjective
<1>4. Cardinality(1..Len(s)) <= Cardinality(Levels)
  BY <1>2, <1>3, LevelFacts, FS_Injection DEF ExistsInjection
<1> QED
  BY <1>1, <1>2, <1>4, LevelFacts DEF Debug

-----------------------------------------------------------------------------
(* The inductive invariant *)

\* Until a message has been tested the level may still change; a message that
\* is below the level by then is the first one since.
StaleInv == \A a \in Apps :
    /\ stale[a] <= 1
    /\ /\ pc[a] \in {"disabled", "body"}
       /\ pc[a] = "body" => left[a] = BodyLen
       /\ log_level[a] < Messages[msg[a]]
       => stale[a] = 0

LoggerInv == TypeOK /\ Registered /\ NestedOnce /\ PendingRequested /\ StaleInv

LEMMA MessageFacts == /\ DOMAIN Messages = 1..4 /\ Len(Messages) = 4
                      /\ \A n \in 1..4 : Messages[n] \in Levels
BY DEF Messages, Levels, Disabled, Error, Warning, Info, Debug

LEMMA LoggerInit == Init => LoggerInv
<1> SUFFICES ASSUME Init PROVE LoggerInv
  OBVIOUS
<1> USE LoggerAssumption, MessageFacts
<1>1. TypeOK
  <2>1. 1 \in DOMAIN Messages /\ Info \in Levels /\ 0 \in 0..MaxRequests /\ 0 \in 0..BodyLen
    BY LevelFacts DEF Info
  <2>2. <<>> \in Seq(Levels) /\ Len(<<>>) = 0 /\ <<>> \in Seq(Unit)
    OBVIOUS
  <2>3. /\ pc \in [Apps -> Pcs] /\ reg \in [Apps -> 0..(Debug + 1)]
        /\ msg \in [Apps -> DOMAIN Messages] /\ left \in [Apps -> 0..BodyLen]
        /\ log_level \in [Apps -> Levels]
    BY <2>1 DEF Init, Pcs, Debug
  <2>4. pending \in [Apps -> [Levels -> 0..MaxRequests]]
    BY <2>1 DEF Init
  <2>5. /\ frames \in [Apps -> Seq(Levels)] /\ requests \in [Apps -> Seq(Levels)]
        /\ \A a \in Apps : Len(frames[a]) <= Debug + 1
    BY <2>2 DEF Init, Debug
  <2>6. /\ file \in Seq(Unit) /\ failed \in BOOLEAN
        /\ overlap \in [Apps -> BOOLEAN] /\ stale \in [Apps -> Nat]
    BY <2>2 DEF Init
  <2> QED
    BY <2>3, <2>4, <2>5, <2>6 DEF TypeOK
<1>2. Registered /\ NestedOnce /\ PendingRequested /\ StaleInv
  BY DEF Init, Registered, NestedOnce, PendingRequested, StaleInv, Debug
<1> QED
  BY <1>1, <1>2 DEF LoggerInv

\* A request.
LEMMA InvRequest ==
    ASSUME LoggerInv, NEW a \in Apps, NEW l \in Levels, Request(a, l)
    PROVE  LoggerInv'
<1> USE LoggerAssumption DEF LoggerInv, mainVars
<1>1. /\ requests' = [requests EXCEPT ![a] = Append(@, l)]
      /\ Len(requests[a]) < MaxRequests /\ requests[a] \in Seq(Levels)
      /\ pending' = [pending EXCEPT ![a][l] = @ + 1]
      /\ UNCHANGED <<pc, reg, msg, left, file, log_level, frames, failed, stale>>
  BY DEF Request, TypeOK
<1>2. /\ requests'[a] \in Seq(Levels)
      /\ Len(requests'[a]) = Len(requests[a]) + 1 /\ Len(requests[a]) \in Nat
      /\ \A b \in Apps \ {a} : requests'[b] = requests[b]
  BY <1>1, AppendProperties, LenProperties DEF TypeOK
<1>3. PendingRequested'
  BY <1>1, <1>2 DEF PendingRequested, TypeOK
<1>4. TypeOK'
  <2>1. pending' \in [Apps -> [Levels -> 0..MaxRequests]]
    <3>1. pending[a][l] \in Nat /\ pending[a][l] + 1 <= MaxRequests
      BY <1>1, <1>2 DEF PendingRequested, TypeOK
    <3> QED
      BY <1>1, <3>1 DEF TypeOK
  <2>2. requests' \in [Apps -> Seq(Levels)]
    BY <1>1, <1>2 DEF TypeOK
  <2>3. overlap' \in [Apps -> BOOLEAN]
    BY DEF Request, TypeOK
  <2> QED
    BY <1>1, <2>1, <2>2, <2>3 DEF TypeOK
<1> QED
  BY <1>1, <1>3, <1>4 DEF Registered, NestedOnce, StaleInv

\* The kernel pushes a frame of a level that is on none yet, or ends the
\* process.
LEMMA InvDeliver ==
    ASSUME LoggerInv, NEW a \in Apps, Deliver(a)
    PROVE  LoggerInv'
<1> USE LoggerAssumption DEF LoggerInv, history
<1>1. PICK l \in Deliverable(a) :
         /\ pending' = [pending EXCEPT ![a][l] = @ - 1]
         /\ \/ /\ l < reg[a]
               /\ frames' = [frames EXCEPT ![a] = Append(@, l)]
               /\ UNCHANGED pc
            \/ /\ l >= reg[a]
               /\ GoTo(a, "killed")
               /\ frames' = [frames EXCEPT ![a] = <<>>]
  <2>1. \E l \in Deliverable(a) : \A k \in Deliverable(a) : l <= k
    <3>1. Deliverable(a) # {} /\ Deliverable(a) \subseteq {0, 1, 2, 3, 4}
      BY LevelFacts DEF Deliver, Deliverable
    <3> QED
      BY <3>1
  <2> QED
    BY <2>1 DEF Deliver
<1>2. /\ l \in Levels /\ pending[a][l] > 0 /\ ~Contains(frames[a], l)
      /\ UNCHANGED <<reg, msg, left, file, log_level, requests, failed, overlap, stale>>
  BY DEF Deliver, Deliverable
<1>3. /\ frames[a] \in Seq(Levels) /\ pending \in [Apps -> [Levels -> 0..MaxRequests]]
      /\ pc \in [Apps -> Pcs]
  BY DEF TypeOK
<1>4. pending[a][l] - 1 \in 0..MaxRequests /\ pending[a][l] - 1 <= pending[a][l]
  BY <1>2, <1>3
<1>5. pending' \in [Apps -> [Levels -> 0..MaxRequests]] /\ PendingRequested'
  <2>1. pending' \in [Apps -> [Levels -> 0..MaxRequests]]
    BY <1>1, <1>2, <1>3, <1>4
  <2>2. \A b \in Apps, k \in Levels : pending'[b][k] <= pending[b][k]
    BY <1>1, <1>2, <1>3, <1>4
  <2>3. \A b \in Apps : Len(requests[b]) \in Nat
    BY LenProperties DEF TypeOK
  <2>4. PendingRequested'
    BY <1>2, <1>3, <2>1, <2>2, <2>3 DEF PendingRequested
  <2> QED
    BY <2>1, <2>4
<1>6. /\ frames'[a] \in Seq(Levels) /\ Len(frames'[a]) <= Debug + 1
      /\ \A j, k \in 1..Len(frames'[a]) : frames'[a][j] = frames'[a][k] => j = k
  <2>1. CASE frames' = [frames EXCEPT ![a] = <<>>]
    BY <2>1 DEF TypeOK, Debug
  <2>2. CASE frames' = [frames EXCEPT ![a] = Append(@, l)]
    <3> DEFINE s == frames[a]
               t == Append(s, l)
    <3>1. frames'[a] = t
      BY <2>2 DEF TypeOK
    <3>2. /\ t \in Seq(Levels) /\ Len(t) = Len(s) + 1 /\ Len(s) \in Nat
          /\ \A j \in 1..Len(s) : t[j] = s[j]
          /\ t[Len(s) + 1] = l
      BY <1>2, <1>3, AppendProperties, LenProperties
    <3>3. \A j \in 1..Len(s) : s[j] # l
      BY <1>2 DEF Contains
    <3>4. \A j, k \in 1..Len(s) : s[j] = s[k] => j = k
      BY DEF NestedOnce
    <3> HIDE DEF s, t
    <3>5. \A j, k \in 1..Len(t) : t[j] = t[k] => j = k
      <4> SUFFICES ASSUME NEW j \in 1..Len(t), NEW k \in 1..Len(t), t[j] = t[k]
                   PROVE  j = k
        OBVIOUS
      <4>1. CASE j \in 1..Len(s) /\ k \in 1..Len(s)
        BY <3>2, <3>4, <4>1
      <4>2. CASE j = Len(s) + 1 /\ k \in 1..Len(s)
        BY <3>2, <3>3, <4>2
      <4>3. CASE j \in 1..Len(s) /\ k = Len(s) + 1
        BY <3>2, <3>3, <4>3
      <4> QED
        BY <3>2, <4>1, <4>2, <4>3
    <3>6. Len(t) <= Debug + 1
      BY <3>2, <3>5, NestingBounded
    <3> QED
      BY <3>1, <3>2, <3>5, <3>6
  <2> QED
    BY <1>1, <2>1, <2>2
<1>7. \A b \in Apps \ {a} : frames'[b] = frames[b] /\ pc'[b] = pc[b]
  BY <1>1, <1>3 DEF GoTo, TypeOK
<1>8. pc' \in [Apps -> Pcs] /\ (pc'[a] = pc[a] \/ pc'[a] = "killed")
  BY <1>1, <1>3 DEF GoTo, Pcs
<1>9. TypeOK'
  <2>1. frames' \in [Apps -> Seq(Levels)]
    BY <1>1, <1>6, <1>7 DEF TypeOK
  <2>2. \A b \in Apps : Len(frames'[b]) <= Debug + 1
    BY <1>6, <1>7 DEF TypeOK
  <2> QED
    BY <1>2, <1>5, <1>8, <2>1, <2>2 DEF TypeOK
<1>10. NestedOnce'
  BY <1>6, <1>7 DEF NestedOnce
<1>11. Registered' /\ StaleInv'
  BY <1>2, <1>7, <1>8 DEF Registered, StaleInv
<1> QED
  BY <1>5, <1>9, <1>10, <1>11

\* The innermost handler sets the level and returns.
LEMMA InvHandleSignal ==
    ASSUME LoggerInv, NEW a \in Apps, HandleSignal(a)
    PROVE  LoggerInv'
<1> USE LoggerAssumption DEF LoggerInv, mainVars
<1> DEFINE s == frames[a]
           t == Front(s)
<1>1. /\ s \in Seq(Levels) /\ s # <<>> /\ Len(s) <= Debug + 1
      /\ log_level' = [log_level EXCEPT ![a] = NewLevel(Last(s), @)]
      /\ frames' = [frames EXCEPT ![a] = t]
      /\ stale' = [stale EXCEPT ![a] = 0]
      /\ UNCHANGED <<pc, reg, msg, left, file, pending, requests, failed, overlap>>
  BY DEF HandleSignal, TypeOK
<1>2. /\ Len(s) \in Nat /\ Len(s) >= 1
      /\ \A j \in 1..Len(s) : s[j] \in Levels
  BY <1>1, EmptySeq, LenProperties
<1>3. /\ t \in Seq(Levels) /\ Len(t) = Len(s) - 1
      /\ \A j \in 1..Len(t) : t[j] = s[j]
  <2>1. t = [j \in 1..(Len(s) - 1) |-> s[j]]
    BY <1>1, <1>2 DEF Front
  <2> QED
    BY <1>1, <1>2, <2>1
<1>4. NewLevel(Last(s), log_level[a]) \in Levels
  BY <1>1, <1>2 DEF NewLevel, Last, TypeOK
<1>5. \A j, k \in 1..Len(s) : s[j] = s[k] => j = k
  BY DEF NestedOnce
<1> HIDE DEF s, t
<1>6. \A j, k \in 1..Len(t) : t[j] = t[k] => j = k
  BY <1>2, <1>3, <1>5
<1>7. /\ frames' \in [Apps -> Seq(Levels)] /\ frames'[a] = t
      /\ \A b \in Apps \ {a} : frames'[b] = frames[b]
  BY <1>1, <1>3 DEF TypeOK
<1>8. NestedOnce'
  BY <1>6, <1>7 DEF NestedOnce
<1>9. \A b \in Apps : Len(frames'[b]) <= Debug + 1
  BY <1>1, <1>2, <1>3, <1>7 DEF TypeOK, Debug
<1>10. TypeOK'
  BY <1>1, <1>4, <1>7, <1>9 DEF TypeOK
<1>11. Registered' /\ PendingRequested'
  BY <1>1 DEF Registered, PendingRequested
<1>12. StaleInv'
  BY <1>1 DEF StaleInv, TypeOK
<1> QED
  BY <1>8, <1>10, <1>11, <1>12

\* Going on to the next message.
LEMMA NextMessageFacts ==
    ASSUME TypeOK, NEW a \in Apps, NextMessage(a)
    PROVE  /\ pc' \in [Apps -> Pcs] /\ msg' \in [Apps -> DOMAIN Messages]
           /\ pc'[a] \in {"filter", "sleep"}
           /\ \A b \in Apps \ {a} : pc'[b] = pc[b] /\ msg'[b] = msg[b]
<1>1. pc \in [Apps -> Pcs] /\ msg \in [Apps -> DOMAIN Messages] /\ msg[a] \in 1..4
  BY MessageFacts DEF TypeOK
<1>2. CASE msg[a] = 4 /\ GoTo(a, "sleep") /\ UNCHANGED msg
  BY <1>1, <1>2 DEF GoTo, Pcs
<1>3. CASE msg[a] # 4 /\ GoTo(a, "filter") /\ msg' = [msg EXCEPT ![a] = @ + 1]
  <2>1. msg[a] + 1 \in DOMAIN Messages
    BY <1>1, <1>3, MessageFacts
  <2>2. /\ msg' \in [Apps -> DOMAIN Messages]
        /\ \A b \in Apps \ {a} : msg'[b] = msg[b]
    BY <1>1, <1>3, <2>1
  <2>3. /\ pc' \in [Apps -> Pcs] /\ pc'[a] = "filter"
        /\ \A b \in Apps \ {a} : pc'[b] = pc[b]
    BY <1>1, <1>3 DEF GoTo, Pcs
  <2> QED
    BY <2>2, <2>3
<1> QED
  BY <1>2, <1>3, MessageFacts DEF NextMessage

\* What is appended to the file is units of the message.
LEMMA FileTyped ==
    ASSUME TypeOK, NEW a \in Apps, NEW n \in Nat, NEW part \in {"body", "newline"}
    PROVE  file \o Units(a, n, part) \in Seq(Unit)
<1>1. msg[a] \in DOMAIN Messages /\ file \in Seq(Unit)
  BY DEF TypeOK
<1>2. [app |-> a, msg |-> Messages[msg[a]], part |-> part] \in Unit
  BY <1>1, MessageFacts DEF Unit
<1>3. Units(a, n, part) \in Seq(Unit)
  BY <1>2 DEF Units
<1> QED
  BY <1>1, <1>3, ConcatProperties

\* One step of main, none of which touches signals, frames or the level.
LEMMA InvMain ==
    ASSUME LoggerInv, NEW a \in Apps, Main(a)
    PROVE  LoggerInv'
<1> USE LoggerAssumption, MessageFacts DEF LoggerInv
<1>1. UNCHANGED <<log_level, pending, frames, requests, overlap>>
  BY DEF Main, Register, Filter, LogMessage, WriteBody, WriteNewline, sigVars, history
<1>2. NestedOnce' /\ PendingRequested'
  BY <1>1 DEF NestedOnce, PendingRequested
<1>3. ASSUME /\ pc' \in [Apps -> Pcs] /\ reg' \in [Apps -> 0..(Debug + 1)]
             /\ msg' \in [Apps -> DOMAIN Messages] /\ left' \in [Apps -> 0..BodyLen]
             /\ file' \in Seq(Unit) /\ failed' \in BOOLEAN /\ stale' \in [Apps -> Nat]
      PROVE  TypeOK'
  BY <1>1, <1>3 DEF TypeOK
<1>4. CASE Register(a)
  <2>1. /\ pc[a] = "register" /\ UNCHANGED <<msg, left, file, failed, stale>>
        /\ reg' = [reg EXCEPT ![a] = @ + 1]
        /\ pc' = [pc EXCEPT ![a] = IF reg[a] = Debug THEN "filter" ELSE "register"]
    BY <1>4 DEF Register, GoTo, LastRegistered, history
  <2>2. reg[a] \in 0..5 /\ reg[a] <= 4
    BY <2>1 DEF TypeOK, Registered, Debug
  <2>5. /\ pc' \in [Apps -> Pcs] /\ pc'[a] = IF reg[a] = Debug THEN "filter" ELSE "register"
        /\ reg' \in [Apps -> 0..(Debug + 1)] /\ reg'[a] = reg[a] + 1
        /\ \A b \in Apps \ {a} : pc'[b] = pc[b] /\ reg'[b] = reg[b]
    <3>1. pc \in [Apps -> Pcs] /\ reg \in [Apps -> 0..(Debug + 1)]
      BY DEF TypeOK
    <3>2. reg[a] + 1 \in 0..(Debug + 1)
      BY <2>2 DEF Debug
    <3> QED
      BY <2>1, <3>1, <3>2 DEF Pcs
  <2>6. TypeOK'
    BY <1>3, <2>1, <2>5 DEF TypeOK
  <2>3. Registered'
    BY <2>2, <2>5 DEF Registered, Debug
  <2>4. StaleInv'
    BY <1>1, <2>1, <2>5 DEF StaleInv
  <2> QED
    BY <1>2, <2>6, <2>3, <2>4
<1>5. CASE Filter(a)
  <2>1. /\ pc[a] = "filter" /\ UNCHANGED <<reg, left, file, failed, stale>>
        /\ \/ /\ pc' = [pc EXCEPT ![a] = "disabled"] /\ UNCHANGED msg
              /\ log_level[a] >= Messages[msg[a]]
           \/ NextMessage(a)
    BY <1>5 DEF Filter, GoTo, Passes, history
  <2>2. /\ pc' \in [Apps -> Pcs] /\ msg' \in [Apps -> DOMAIN Messages]
        /\ pc'[a] \in {"filter", "sleep", "disabled"}
        /\ pc'[a] = "disabled" => msg' = msg /\ log_level[a] >= Messages[msg[a]]
        /\ \A b \in Apps \ {a} : pc'[b] = pc[b] /\ msg'[b] = msg[b]
    BY <2>1, NextMessageFacts DEF TypeOK, Pcs
  <2>3. TypeOK'
    BY <1>3, <2>1, <2>2 DEF TypeOK
  <2>4. Registered'
    BY <2>1, <2>2 DEF Registered
  <2>5. log_level[a] \in Levels /\ Messages[msg[a]] \in Levels /\ Levels \subseteq Int
    BY LevelFacts DEF TypeOK
  <2>6. StaleInv'
    <3> SUFFICES ASSUME NEW b \in Apps
                 PROVE  /\ stale'[b] <= 1
                        /\ /\ pc'[b] \in {"disabled", "body"}
                           /\ pc'[b] = "body" => left'[b] = BodyLen
                           /\ log_level'[b] < Messages[msg'[b]]
                           => stale'[b] = 0
      BY DEF StaleInv
    <3>1. CASE b = a
      <4>1. log_level[a] >= Messages[msg[a]] => ~(log_level[a] < Messages[msg[a]])
        <5>1. \A x, y \in Int : x >= y => ~(x < y)
          OBVIOUS
        <5>2. log_level[a] \in Int /\ Messages[msg[a]] \in Int
          BY <2>5
        <5> QED
          BY <5>1, <5>2, Zenon
      <4> QED
        BY <1>1, <2>1, <2>2, <3>1, <4>1 DEF StaleInv
    <3>2. CASE b # a
      BY <1>1, <2>1, <2>2, <3>2 DEF StaleInv
    <3> QED
      BY <3>1, <3>2
  <2> QED
    BY <1>2, <2>3, <2>4, <2>6
<1>6. CASE LogMessage(a)
  <2>1. /\ pc[a] = "disabled" /\ UNCHANGED <<reg, file, failed, stale>>
        /\ \/ NextMessage(a) /\ UNCHANGED left
           \/ /\ pc' = [pc EXCEPT ![a] = "body"] /\ UNCHANGED msg
              /\ left' = [left EXCEPT ![a] = BodyLen]
    BY <1>6 DEF LogMessage, GoTo, history
  <2>2. /\ pc' \in [Apps -> Pcs] /\ msg' \in [Apps -> DOMAIN Messages]
        /\ left' \in [Apps -> 0..BodyLen]
        /\ pc'[a] \in {"filter", "sleep", "body"}
        /\ pc'[a] = "body" => msg' = msg
        /\ \A b \in Apps \ {a} : pc'[b] = pc[b] /\ msg'[b] = msg[b] /\ left'[b] = left[b]
    <3>1. /\ pc \in [Apps -> Pcs] /\ msg \in [Apps -> DOMAIN Messages]
          /\ left \in [Apps -> 0..BodyLen] /\ BodyLen \in 0..BodyLen
      BY DEF TypeOK
    <3>2. CASE NextMessage(a) /\ UNCHANGED left
      BY <3>1, <3>2, NextMessageFacts
    <3>3. CASE /\ pc' = [pc EXCEPT ![a] = "body"] /\ UNCHANGED msg
               /\ left' = [left EXCEPT ![a] = BodyLen]
      BY <3>1, <3>3 DEF Pcs
    <3> QED
      BY <2>1, <3>2, <3>3
  <2>3. TypeOK'
    BY <1>3, <2>1, <2>2 DEF TypeOK
  <2>4. Registered'
    BY <2>1, <2>2 DEF Registered
  <2>5. StaleInv'
    BY <1>1, <2>1, <2>2 DEF StaleInv
  <2> QED
    BY <1>2, <2>3, <2>4, <2>5
<1>7. CASE WriteBody(a)
  <2>1. pc[a] = "body" /\ UNCHANGED <<reg, msg>>
    BY <1>7 DEF WriteBody
  <2>2. /\ left' \in [Apps -> 0..BodyLen] /\ stale' \in [Apps -> Nat]
        /\ pc' \in [Apps -> Pcs] /\ pc'[a] \in {"body", "newline"}
        /\ pc'[a] = "body" => left'[a] < BodyLen
        /\ \A b \in Apps \ {a} : pc'[b] = pc[b] /\ left'[b] = left[b] /\ stale'[b] = stale[b]
        /\ file' \in Seq(Unit) /\ failed' \in BOOLEAN
        /\ stale'[a] <= 1
    <3>1. CASE \E n \in 1..left[a] :
                 /\ file' = file \o Units(a, n, "body")
                 /\ left' = [left EXCEPT ![a] = @ - n]
                 /\ IF AllWritten(a, n) THEN GoTo(a, "newline") ELSE UNCHANGED pc
                 /\ stale' = [stale EXCEPT ![a] =
                      IF left[a] = BodyLen /\ log_level[a] < Messages[msg[a]] THEN @ + 1 ELSE @]
                 /\ UNCHANGED failed
      <4>1. PICK n \in 1..left[a] :
                 /\ file' = file \o Units(a, n, "body")
                 /\ left' = [left EXCEPT ![a] = @ - n]
                 /\ IF AllWritten(a, n) THEN GoTo(a, "newline") ELSE UNCHANGED pc
                 /\ stale' = [stale EXCEPT ![a] =
                      IF left[a] = BodyLen /\ log_level[a] < Messages[msg[a]] THEN @ + 1 ELSE @]
                 /\ UNCHANGED failed
        BY <3>1
      <4>2. left[a] \in 0..BodyLen /\ n \in Nat /\ n >= 1 /\ n <= left[a]
        BY DEF TypeOK
      <4>3. file' \in Seq(Unit)
        BY <4>1, <4>2, FileTyped
      <4>4. /\ left' \in [Apps -> 0..BodyLen] /\ left'[a] < BodyLen
            /\ \A b \in Apps \ {a} : left'[b] = left[b]
        <5>1. left \in [Apps -> 0..BodyLen]
          BY DEF TypeOK
        <5>2. BodyLen \in Nat
          BY LoggerAssumption
        <5>3. left[a] - n \in 0..BodyLen /\ left[a] - n < BodyLen
          BY <4>2, <5>2
        <5>4. left' = [left EXCEPT ![a] = left[a] - n]
          BY <4>1
        <5> QED
          BY ONLY <5>1, <5>3, <5>4, a \in Apps
      <4>5. /\ stale' \in [Apps -> Nat] /\ stale'[a] <= 1
            /\ \A b \in Apps \ {a} : stale'[b] = stale[b]
        <5>1. stale \in [Apps -> Nat] /\ stale[a] <= 1
          BY DEF TypeOK, StaleInv
        <5>2. left[a] = BodyLen /\ log_level[a] < Messages[msg[a]] => stale[a] = 0
          BY <2>1 DEF StaleInv
        <5>3. CASE left[a] = BodyLen /\ log_level[a] < Messages[msg[a]]
          <6>1. stale' = [stale EXCEPT ![a] = stale[a] + 1]
            BY <4>1, <5>3
          <6>2. stale[a] + 1 = 1
            BY <5>2, <5>3
          <6>3. stale' = [stale EXCEPT ![a] = 1]
            BY <6>1, <6>2
          <6> QED
            BY ONLY <5>1, <6>3, a \in Apps
        <5>4. CASE ~(left[a] = BodyLen /\ log_level[a] < Messages[msg[a]])
          <6>1. stale' = stale
            BY <4>1, <5>1, <5>4
          <6> QED
            BY ONLY <5>1, <6>1, a \in Apps
        <5> QED
          BY <5>3, <5>4
      <4>6. /\ pc' \in [Apps -> Pcs] /\ pc'[a] \in {"body", "newline"}
            /\ \A b \in Apps \ {a} : pc'[b] = pc[b]
        BY <2>1, <4>1 DEF TypeOK, GoTo, Pcs
      <4> QED
        BY <4>1, <4>3, <4>4, <4>5, <4>6 DEF TypeOK
    <3>2. CASE /\ failed' = TRUE
               /\ left' = [left EXCEPT ![a] = 0]
               /\ GoTo(a, "newline")
               /\ UNCHANGED <<file, stale>>
      BY <3>2 DEF TypeOK, GoTo, Pcs, StaleInv
    <3> QED
      BY <1>7, <3>1, <3>2 DEF WriteBody
  <2>3. TypeOK'
    BY <1>3, <2>1, <2>2 DEF TypeOK
  <2>4. Registered'
    BY <2>1, <2>2 DEF Registered
  <2>5. StaleInv'
    BY <1>1, <2>1, <2>2 DEF StaleInv
  <2> QED
    BY <1>2, <2>3, <2>4, <2>5
<1>8. CASE WriteNewline(a)
  <2>1. /\ pc[a] = "newline" /\ NextMessage(a) /\ UNCHANGED <<reg, left, stale>>
        /\ file' \in Seq(Unit) /\ failed' \in BOOLEAN
    <3>1. file \o Units(a, 1, "newline") \in Seq(Unit)
      BY FileTyped
    <3> QED
      BY <1>8, <3>1 DEF WriteNewline, TypeOK
  <2>2. /\ pc' \in [Apps -> Pcs] /\ msg' \in [Apps -> DOMAIN Messages]
        /\ pc'[a] \in {"filter", "sleep"}
        /\ \A b \in Apps \ {a} : pc'[b] = pc[b] /\ msg'[b] = msg[b]
    BY <2>1, NextMessageFacts
  <2>3. TypeOK'
    BY <1>3, <2>1, <2>2 DEF TypeOK
  <2>4. Registered'
    BY <2>1, <2>2 DEF Registered
  <2>5. StaleInv'
    BY <1>1, <2>1, <2>2 DEF StaleInv
  <2> QED
    BY <1>2, <2>3, <2>4, <2>5
<1> QED
  BY <1>4, <1>5, <1>6, <1>7, <1>8 DEF Main

LEMMA LoggerStep == LoggerInv /\ [Next]_vars => LoggerInv'
<1> SUFFICES ASSUME LoggerInv, [Next]_vars PROVE LoggerInv'
  OBVIOUS
<1>1. CASE Next
  BY <1>1, InvRequest, InvDeliver, InvHandleSignal, InvMain DEF Next, App
<1>2. CASE UNCHANGED vars
  BY <1>2 DEF vars, mainVars, sigVars, history, LoggerInv, TypeOK, Registered,
              NestedOnce, PendingRequested, StaleInv
<1> QED
  BY <1>1, <1>2

LEMMA LoggerInvariant == Spec => []LoggerInv
BY LoggerInit, LoggerStep, PTL DEF Spec

-----------------------------------------------------------------------------
(* The theorems *)

\* Every variable keeps its range: handlers nest at most as deep as there are
\* levels, and no more signals are pending than were sent.
THEOREM LoggerTyped == Spec => []TypeOK
BY LoggerInvariant, PTL DEF LoggerInv

\* However the signals interrupt main between its test and its write, at most
\* one message below the level is written after the level changed.
THEOREM StaleMessages == Spec => []StaleBounded
<1>1. LoggerInv => StaleBounded
  BY DEF LoggerInv, StaleInv, StaleBounded
<1> QED
  BY <1>1, LoggerInvariant, PTL

\* Once init_logger has registered the last of the handlers, no level signal
\* ends the application.
THEOREM NoSignalKills == Spec => SafeAfterInit
<1> DEFINE Safe == \A a \in Apps : pc'[a] = "killed" /\ pc[a] # "killed" => pc[a] = "register"
<1>1. LoggerInv /\ [Next]_vars => [Safe]_vars
  <2> SUFFICES ASSUME LoggerInv, Next, NEW a \in Apps, pc'[a] = "killed", pc[a] # "killed"
               PROVE  pc[a] = "register"
    OBVIOUS
  <2>1. pc \in [Apps -> Pcs]
    BY DEF LoggerInv, TypeOK
  <2>2. PICK b \in Apps : App(b) \/ \E l \in Levels : Request(b, l)
    BY DEF Next
  <2>3. CASE \E l \in Levels : Request(b, l)
    BY <2>3 DEF Request, mainVars
  <2>4. CASE HandleSignal(b)
    BY <2>4 DEF HandleSignal, mainVars
  <2>5. CASE Main(b)
    BY <2>1, <2>5, NextMessageFacts
       DEF Main, Register, Filter, LogMessage, WriteBody, WriteNewline, GoTo, LoggerInv
  <2>6. CASE Deliver(b)
    <3>1. b = a
      BY <2>1, <2>6 DEF Deliver, GoTo
    <3>2. \E l \in Levels : l >= reg[a]
      <4>1. Deliverable(a) # {} /\ Deliverable(a) \subseteq {0, 1, 2, 3, 4}
        BY <2>6, <3>1, LevelFacts DEF Deliver, Deliverable
      <4>2. \E l \in Deliverable(a) : \A k \in Deliverable(a) : l <= k
        BY <4>1
      <4> QED
        BY <2>6, <3>1, <4>2 DEF Deliver, Deliverable
    <3> QED
      BY <3>2, LevelFacts DEF LoggerInv, Registered, Debug
  <2> QED
    BY <2>2, <2>3, <2>4, <2>5, <2>6 DEF App
<1> QED
  BY <1>1, LoggerInvariant, PTL DEF Spec, SafeAfterInit

-----------------------------------------------------------------------------
(* Requests that are sent one at a time *)

Quiet(a) == \A l \in Levels : pending[a][l] = 0

\* What the last request of application a has come to: nothing is left of it
\* and the level is set, or its signal is pending, or its handler runs.
Obeyed(a) == Settled(a) /\ (requests[a] # <<>> => log_level[a] = Last(requests[a]))

Sent(a) == /\ requests[a] # <<>> /\ frames[a] = <<>>
           /\ \A l \in Levels : pending[a][l] = IF l = Last(requests[a]) THEN 1 ELSE 0

Handling(a) == requests[a] # <<>> /\ frames[a] = <<Last(requests[a])>> /\ Quiet(a)

OneAtATime == \A a \in Apps : pc[a] # "killed" /\ ~overlap[a] =>
                  Obeyed(a) \/ Sent(a) \/ Handling(a)

LEMMA LastOfRequests ==
    ASSUME TypeOK, NEW a \in Apps, requests[a] # <<>>
    PROVE  Last(requests[a]) \in Levels
<1>1. requests[a] \in Seq(Levels)
  BY DEF TypeOK
<1>2. Len(requests[a]) \in 1..Len(requests[a])
  BY <1>1, EmptySeq, LenProperties
<1> QED
  BY <1>1, <1>2 DEF Last

\* What leaves the signals of an application alone leaves its requests where
\* they are.
LEMMA WinsElsewhere ==
    ASSUME OneAtATime, NEW a \in Apps,
           pending'[a] = pending[a], frames'[a] = frames[a], requests'[a] = requests[a],
           log_level'[a] = log_level[a], overlap'[a] = overlap[a],
           pc[a] = "killed" => pc'[a] = "killed"
    PROVE  pc'[a] # "killed" /\ ~overlap'[a] => (Obeyed(a) \/ Sent(a) \/ Handling(a))'
BY DEF OneAtATime, Obeyed, Sent, Handling, Settled, Quiet

LEMMA WinsRequest ==
    ASSUME TypeOK, OneAtATime, NEW a \in Apps, NEW l \in Levels, Request(a, l),
           pc'[a] # "killed", ~overlap'[a]
    PROVE  Sent(a)'
<1>1. /\ requests' = [requests EXCEPT ![a] = Append(@, l)]
      /\ pending' = [pending EXCEPT ![a][l] = @ + 1]
      /\ overlap' = [overlap EXCEPT ![a] = @ \/ ~Settled(a)]
      /\ frames' = frames
  BY DEF Request
<1>2. /\ requests[a] \in Seq(Levels) /\ requests \in [Apps -> Seq(Levels)]
      /\ pending \in [Apps -> [Levels -> 0..MaxRequests]]
      /\ overlap \in [Apps -> BOOLEAN]
  BY DEF TypeOK
<1>3. Settled(a)
  BY <1>1, <1>2
<1>4. requests'[a] # <<>> /\ Last(requests'[a]) = l
  <2>1. requests'[a] = Append(requests[a], l)
    BY <1>1, <1>2
  <2>2. /\ Append(requests[a], l) \in Seq(Levels)
        /\ Len(Append(requests[a], l)) = Len(requests[a]) + 1
        /\ Append(requests[a], l)[Len(requests[a]) + 1] = l
        /\ Len(requests[a]) \in Nat
    BY <1>2, AppendProperties, LenProperties
  <2> QED
    BY <2>1, <2>2, EmptySeq DEF Last
<1>5. \A k \in Levels : pending'[a][k] = IF k = l THEN 1 ELSE 0
  BY <1>1, <1>2, <1>3 DEF Settled
<1> QED
  BY <1>1, <1>3, <1>4, <1>5 DEF Sent, Settled

\* The only signal that can be delivered is that of the last request.
LEMMA WinsDeliver ==
    ASSUME LoggerInv, OneAtATime, NEW a \in Apps, Deliver(a),
           pc'[a] # "killed", ~overlap'[a]
    PROVE  Handling(a)'
<1>1. /\ pc[a] # "killed" /\ Deliverable(a) # {}
      /\ UNCHANGED <<requests, overlap, log_level>>
  BY DEF Deliver, history
<1>2. /\ pending \in [Apps -> [Levels -> 0..MaxRequests]] /\ frames \in [Apps -> Seq(Levels)]
      /\ pc \in [Apps -> Pcs]
  BY DEF LoggerInv, TypeOK
<1>3. Sent(a)
  <2>1. ~Quiet(a)
    BY <1>1, <1>2 DEF Deliverable, Quiet
  <2> QED
    BY <1>1, <2>1 DEF OneAtATime, Obeyed, Settled, Handling, Quiet
<1> DEFINE r == Last(requests[a])
<1>4. r \in Levels
  BY <1>3, LastOfRequests DEF Sent, LoggerInv
<1>5. Deliverable(a) = {r}
  <2>1. Deliverable(a) \subseteq {r}
    BY <1>3 DEF Deliverable, Sent
  <2> QED
    BY <1>1, <2>1
<1>6. /\ pending' = [pending EXCEPT ![a][r] = @ - 1]
      /\ \/ frames' = [frames EXCEPT ![a] = Append(@, r)]
         \/ GoTo(a, "killed")
  <2>1. (CHOOSE l \in Deliverable(a) : \A k \in Deliverable(a) : l <= k) = r
    BY <1>4, <1>5, LevelFacts
  <2> QED
    BY <2>1 DEF Deliver
<1>7. frames'[a] = <<r>>
  <2>1. ~GoTo(a, "killed")
    BY <1>2 DEF GoTo
  <2>2. frames'[a] = Append(<<>>, r)
    BY <1>2, <1>3, <1>6, <2>1 DEF Sent
  <2> QED
    BY <2>2
<1>8. \A l \in Levels : pending'[a][l] = 0
  BY <1>2, <1>3, <1>4, <1>6 DEF Sent
<1> QED
  BY <1>1, <1>3, <1>7, <1>8 DEF Handling, Quiet, Sent

\* Its handler is the only one, and sets the level that was requested.
LEMMA WinsHandleSignal ==
    ASSUME LoggerInv, OneAtATime, NEW a \in Apps, HandleSignal(a),
           pc'[a] # "killed", ~overlap'[a]
    PROVE  Obeyed(a)'
<1>1. /\ frames[a] # <<>>
      /\ log_level' = [log_level EXCEPT ![a] = NewLevel(Last(frames[a]), @)]
      /\ frames' = [frames EXCEPT ![a] = Front(@)]
      /\ UNCHANGED <<pc, pending, requests, overlap>>
  BY DEF HandleSignal, mainVars
<1>2. Handling(a)
  BY <1>1 DEF OneAtATime, Obeyed, Sent, Settled
<1>3. log_level \in [Apps -> Levels] /\ frames \in [Apps -> Seq(Levels)]
  BY DEF LoggerInv, TypeOK
<1> DEFINE r == Last(requests[a])
<1>4. r \in Levels
  BY <1>2, LastOfRequests DEF Handling, LoggerInv
<1> HIDE DEF r
<1>5. Last(<<r>>) = r /\ Front(<<r>>) = <<>>
  BY DEF Last, Front
<1>6. log_level'[a] = r
  BY <1>1, <1>2, <1>3, <1>4, <1>5 DEF Handling, NewLevel, Levels, r
<1>7. frames'[a] = <<>>
  BY <1>1, <1>2, <1>3, <1>5 DEF Handling, r
<1> QED
  BY <1>1, <1>2, <1>6, <1>7 DEF Obeyed, Settled, Handling, Quiet, r

LEMMA OneAtATimeStep == LoggerInv /\ OneAtATime /\ [Next]_vars => OneAtATime'
<1> SUFFICES ASSUME LoggerInv, OneAtATime, [Next]_vars, NEW a \in Apps,
                    pc'[a] # "killed", ~overlap'[a]
             PROVE  (Obeyed(a) \/ Sent(a) \/ Handling(a))'
  BY DEF OneAtATime
<1>0. /\ pc \in [Apps -> Pcs] /\ pending \in [Apps -> [Levels -> 0..MaxRequests]]
      /\ frames \in [Apps -> Seq(Levels)] /\ log_level \in [Apps -> Levels]
      /\ requests \in [Apps -> Seq(Levels)] /\ overlap \in [Apps -> BOOLEAN] /\ TypeOK
  BY DEF LoggerInv, TypeOK
<1> DEFINE Same == /\ pending'[a] = pending[a] /\ frames'[a] = frames[a]
                   /\ requests'[a] = requests[a] /\ log_level'[a] = log_level[a]
                   /\ overlap'[a] = overlap[a] /\ (pc[a] = "killed" => pc'[a] = "killed")
<1>1. CASE Same
  BY <1>1, WinsElsewhere
<1>2. ASSUME NEW b \in Apps, NEW l \in Levels, Request(b, l)
      PROVE  Same \/ Sent(a)'
  <2>1. CASE a = b
    BY <1>0, <1>2, <2>1, WinsRequest
  <2>2. CASE a # b
    BY <1>0, <1>2, <2>2 DEF Request, mainVars
  <2> QED
    BY <2>1, <2>2
<1>3. ASSUME NEW b \in Apps, Deliver(b)
      PROVE  Same \/ Handling(a)'
  <2>1. CASE a = b
    BY <1>3, <2>1, WinsDeliver
  <2>2. CASE a # b
    <3>1. /\ \E l : pending' = [pending EXCEPT ![b][l] = @ - 1]
          /\ frames'[a] = frames[a] /\ pc'[a] = pc[a]
          /\ UNCHANGED <<requests, log_level, overlap>>
      BY <1>0, <1>3, <2>2 DEF Deliver, GoTo, history
    <3> QED
      BY <1>0, <2>2, <3>1
  <2> QED
    BY <2>1, <2>2
<1>4. ASSUME NEW b \in Apps, HandleSignal(b)
      PROVE  Same \/ Obeyed(a)'
  <2>1. CASE a = b
    BY <1>4, <2>1, WinsHandleSignal
  <2>2. CASE a # b
    BY <1>0, <1>4, <2>2 DEF HandleSignal, mainVars
  <2> QED
    BY <2>1, <2>2
<1>5. ASSUME NEW b \in Apps, Main(b)
      PROVE  Same
  <2>1. UNCHANGED <<log_level, pending, frames, requests, overlap>>
    BY <1>5 DEF Main, Register, Filter, LogMessage, WriteBody, WriteNewline, sigVars, history
  <2>2. pc[a] = "killed" => pc'[a] = "killed"
    <3>1. CASE a = b
      BY <1>5, <3>1 DEF Main, Register, Filter, LogMessage, WriteBody, WriteNewline
    <3>2. CASE a # b
      BY <1>0, <1>5, <3>2, NextMessageFacts
         DEF Main, Register, Filter, LogMessage, WriteBody, WriteNewline, GoTo
    <3> QED
      BY <3>1, <3>2
  <2> QED
    BY <2>1, <2>2
<1>6. CASE UNCHANGED vars
  BY <1>1, <1>6 DEF vars, mainVars, sigVars, history
<1> QED
  BY <1>1, <1>2, <1>3, <1>4, <1>5, <1>6 DEF Next, App

\* Requests that are sent one at a time are obeyed: whatever main does, and
\* however long a signal stays pending, each has set the level before the next
\* is sent, and when the signals have settled the last one is in force.
THEOREM RequestsObeyed == Spec => []LastRequestWins
<1>1. Init => OneAtATime
  BY DEF Init, OneAtATime, Obeyed, Settled
<1>2. LoggerInv /\ OneAtATime => LastRequestWins
  <2> SUFFICES ASSUME LoggerInv, OneAtATime, NEW a \in Apps, pc[a] # "killed", Settled(a),
                      ~overlap[a], requests[a] # <<>>
               PROVE  log_level[a] = Last(requests[a])
    BY DEF LastRequestWins
  <2>1. Last(requests[a]) \in Levels
    BY LastOfRequests DEF LoggerInv
  <2> QED
    BY <2>1 DEF OneAtATime, Obeyed, Sent, Handling, Settled
<1> QED
  BY <1>1, <1>2, OneAtATimeStep, LoggerInvariant, PTL DEF Spec

-----------------------------------------------------------------------------
(* The lines of the file *)

Width == BodyLen + 1

\* Units of the line of application a that is being written.
Written(a) == IF pc[a] = "body" THEN BodyLen - left[a]
              ELSE IF pc[a] = "newline" THEN BodyLen ELSE 0

\* File f is n lines of application a, and w units of a line with message m.
LinesAndRest(a, f, n, w, m) ==
    /\ Len(f) = n * Width + w
    /\ \A k \in 1..n : \E l \in Levels : \A j \in 1..Width :
         f[(k - 1) * Width + j] = Line(a, l)[j]
    /\ \A j \in 1..w : f[n * Width + j] = Line(a, m)[j]

FileInv(a) ==
    ~failed => \E n \in Nat : LinesAndRest(a, file, n, Written(a), Messages[msg[a]])

LEMMA ProductFacts ==
    ASSUME NEW n \in Nat
    PROVE  /\ Width \in Nat /\ Width >= 2
           /\ n * Width \in Nat /\ (n + 1) * Width = n * Width + Width
           /\ \A k \in 1..n : /\ (k - 1) * Width \in Nat
                              /\ (k - 1) * Width + Width = k * Width
                              /\ k * Width <= n * Width
<1>1. Width \in Nat /\ Width >= 2
  BY LoggerAssumption DEF Width
<1> HIDE DEF Width
<1>2. \A x, y \in Nat : x * y \in Nat
  OBVIOUS
<1>3. \A x \in Nat : (x + 1) * Width = x * Width + Width
  BY <1>1
<1>4. \A x \in Nat : x <= n => x * Width <= n * Width
  BY <1>1
<1>5. \A k \in 1..n : k - 1 \in Nat /\ (k - 1) + 1 = k /\ k \in Nat /\ k <= n
  OBVIOUS
<1>6. ASSUME NEW k \in 1..n
      PROVE  /\ (k - 1) * Width \in Nat
             /\ (k - 1) * Width + Width = k * Width
             /\ k * Width <= n * Width
  <2> DEFINE j == k - 1
  <2>1. j \in Nat /\ j + 1 = k /\ k \in Nat /\ k <= n
    BY <1>5
  <2> HIDE DEF j
  <2>2. j * Width \in Nat /\ k * Width = j * Width + Width /\ k * Width <= n * Width
    BY <1>1, <1>2, <1>3, <1>4, <2>1
  <2> QED
    BY <2>2 DEF j
<1> QED
  BY <1>1, <1>2, <1>3, <1>6

\* Units at the end go on with the line, or begin it.
LEMMA RestGrows ==
    ASSUME NEW a, NEW f \in Seq(Unit), NEW n \in Nat, NEW w \in Nat, NEW m,
           LinesAndRest(a, f, n, w, m),
           NEW u \in Seq(Unit), \A j \in 1..Len(u) : u[j] = Line(a, m)[w + j]
    PROVE  LinesAndRest(a, f \o u, n, w + Len(u), m)
<1> DEFINE g == f \o u
           b == n * Width
<1>1. /\ Len(f) \in Nat /\ Len(u) \in Nat /\ Len(g) = Len(f) + Len(u)
      /\ \A i \in 1..Len(f) : g[i] = f[i]
      /\ \A i \in 1..Len(u) : g[Len(f) + i] = u[i]
  BY ConcatProperties, LenProperties
<1>2. /\ b \in Nat /\ Len(f) = b + w
  BY ProductFacts DEF LinesAndRest
<1> HIDE DEF b
<1>3. Len(g) = b + (w + Len(u))
  BY <1>1, <1>2
<1>4. ASSUME NEW k \in 1..n, NEW j \in 1..Width
      PROVE  g[(k - 1) * Width + j] = f[(k - 1) * Width + j]
  <2> DEFINE c == (k - 1) * Width
  <2> HIDE DEF g
  <2>1. c \in Nat /\ Width \in Nat /\ c + Width <= b
    BY ProductFacts DEF b
  <2> HIDE DEF c
  <2>2. c + j \in 1..Len(f)
    BY <1>2, <2>1
  <2> QED
    BY <1>1, <2>2 DEF c
<1>5. ASSUME NEW j \in 1..(w + Len(u))
      PROVE  g[b + j] = Line(a, m)[j]
  <2>1. CASE j <= w
    <3>1. j \in 1..w /\ b + j \in 1..Len(f)
      BY <1>1, <1>2, <2>1
    <3>2. f[b + j] = Line(a, m)[j]
      BY <3>1 DEF LinesAndRest, b
    <3> QED
      BY <1>1, <3>1, <3>2
  <2>2. CASE j > w
    <3> DEFINE i == j - w
    <3>1. i \in 1..Len(u) /\ j = w + i /\ b + j = Len(f) + i
      BY <1>1, <1>2, <2>2
    <3> HIDE DEF i, g
    <3>2. u[i] = Line(a, m)[w + i] /\ g[Len(f) + i] = u[i]
      BY <1>1, <3>1
    <3>3. g[b + j] = g[Len(f) + i] /\ Line(a, m)[j] = Line(a, m)[w + i]
      BY ONLY <3>1, Zenon
    <3> QED
      BY <3>2, <3>3
  <2>3. j <= w \/ j > w
    BY <1>1
  <2> HIDE DEF g
  <2> QED
    BY <2>1, <2>2, <2>3
<1> HIDE DEF g
<1>6. \A k \in 1..n : \E l \in Levels : \A j \in 1..Width :
        g[(k - 1) * Width + j] = Line(a, l)[j]
  <2> SUFFICES ASSUME NEW k \in 1..n
               PROVE  \E l \in Levels : \A j \in 1..Width : g[(k - 1) * Width + j] = Line(a, l)[j]
    OBVIOUS
  <2>1. PICK l \in Levels : \A j \in 1..Width : f[(k - 1) * Width + j] = Line(a, l)[j]
    BY DEF LinesAndRest
  <2> DEFINE c == (k - 1) * Width
  <2>2. \A j \in 1..Width : g[c + j] = f[c + j]
    BY <1>4
  <2> HIDE DEF c
  <2>3. \A j \in 1..Width : g[c + j] = Line(a, l)[j]
    BY <2>1, <2>2 DEF c
  <2> QED
    BY <2>3 DEF c
<1> QED
  BY <1>3, <1>5, <1>6 DEF LinesAndRest, b, g

\* A whole line is a line.
LEMMA RestEnds ==
    ASSUME NEW a, NEW f, NEW n \in Nat, NEW m \in Levels, LinesAndRest(a, f, n, Width, m), NEW x
    PROVE  LinesAndRest(a, f, n + 1, 0, x)
<1>1. Len(f) = (n + 1) * Width + 0
  BY ProductFacts DEF LinesAndRest
<1>2. ASSUME NEW k \in 1..n+1
      PROVE  \E l \in Levels : \A j \in 1..Width : f[(k - 1) * Width + j] = Line(a, l)[j]
  <2>1. CASE k \in 1..n
    BY <2>1 DEF LinesAndRest
  <2>2. CASE k = n + 1
    <3>1. k - 1 = n
      BY <2>2
    <3> QED
      BY <3>1 DEF LinesAndRest
  <2> QED
    BY <2>1, <2>2
<1>3. \A j \in 1..0 : f[(n + 1) * Width + j] = Line(a, x)[j]
  OBVIOUS
<1>4. n + 1 \in Nat /\ \A k \in 1..n+1 :
        \E l \in Levels : \A j \in 1..Width : f[(k - 1) * Width + j] = Line(a, l)[j]
  BY <1>2
<1> QED
  BY ONLY <1>1, <1>3, <1>4, Zenon DEF LinesAndRest

LEMMA UnitsFacts ==
    ASSUME TypeOK, NEW a \in Apps, NEW n \in Nat, NEW part \in {"body", "newline"}
    PROVE  /\ Units(a, n, part) \in Seq(Unit) /\ Len(Units(a, n, part)) = n
           /\ \A j \in 1..n : Units(a, n, part)[j] =
                [app |-> a, msg |-> Messages[msg[a]], part |-> part]
<1>1. [app |-> a, msg |-> Messages[msg[a]], part |-> part] \in Unit
  BY MessageFacts DEF Unit, TypeOK
<1> QED
  BY <1>1 DEF Units

\* The empty rest is the rest of any line.
LEMMA RestNone ==
    ASSUME NEW a, NEW f, NEW n \in Nat, NEW m, NEW x, LinesAndRest(a, f, n, 0, m)
    PROVE  LinesAndRest(a, f, n, 0, x)
BY DEF LinesAndRest

LEMMA FileMain ==
    ASSUME LoggerInv, NEW a \in Apps, FileInv(a), Main(a)
    PROVE  FileInv(a)'
<1> USE LoggerAssumption, MessageFacts
<1>0. /\ pc \in [Apps -> Pcs] /\ msg \in [Apps -> DOMAIN Messages]
      /\ left \in [Apps -> 0..BodyLen] /\ file \in Seq(Unit) /\ failed \in BOOLEAN /\ TypeOK
      /\ Messages[msg[a]] \in Levels
  BY DEF LoggerInv, TypeOK
<1> SUFFICES ASSUME ~failed'
             PROVE  \E n \in Nat : LinesAndRest(a, file', n, Written(a)', Messages[msg'[a]])
  BY DEF FileInv
<1>1. CASE Register(a) \/ Filter(a) \/ LogMessage(a)
  <2>1. file' = file /\ failed' = failed /\ Written(a) = 0 /\ Written(a)' = 0
    <3>1. CASE Register(a)
      BY <1>0, <3>1 DEF Register, GoTo, history, Written
    <3>2. CASE Filter(a)
      BY <1>0, <3>2, NextMessageFacts DEF Filter, GoTo, history, Written
    <3>3. CASE LogMessage(a)
      BY <1>0, <3>3, NextMessageFacts DEF LogMessage, GoTo, history, Written
    <3> QED
      BY <1>1, <3>1, <3>2, <3>3
  <2>2. PICK n \in Nat : LinesAndRest(a, file, n, 0, Messages[msg[a]])
    BY <2>1 DEF FileInv
  <2>3. LinesAndRest(a, file, n, 0, Messages[msg'[a]])
    BY <2>2, RestNone
  <2> QED
    BY <2>1, <2>3
<1>2. CASE WriteBody(a)
  <2>1. PICK k \in 1..left[a] :
           /\ file' = file \o Units(a, k, "body")
           /\ left' = [left EXCEPT ![a] = @ - k]
           /\ IF AllWritten(a, k) THEN GoTo(a, "newline") ELSE UNCHANGED pc
           /\ UNCHANGED failed
    BY <1>2 DEF WriteBody
  <2>2. pc[a] = "body" /\ msg' = msg
    BY <1>2 DEF WriteBody
  <2>3. /\ left[a] \in 0..BodyLen /\ k \in Nat /\ k <= left[a] /\ left'[a] = left[a] - k
        /\ pc'[a] = IF k = left[a] THEN "newline" ELSE "body"
    BY <1>0, <2>1, <2>2 DEF AllWritten, GoTo
  <2> DEFINE w == BodyLen - left[a]
             u == Units(a, k, "body")
  <2>4. Written(a) = w /\ Written(a)' = w + k /\ w \in Nat /\ w + k <= BodyLen
    BY <2>2, <2>3 DEF Written
  <2>5. PICK n \in Nat : LinesAndRest(a, file, n, w, Messages[msg[a]])
    BY <2>1, <2>4 DEF FileInv
  <2>6. /\ u \in Seq(Unit) /\ Len(u) = k
        /\ \A j \in 1..k : u[j] = [app |-> a, msg |-> Messages[msg[a]], part |-> "body"]
    BY <1>0, <2>3, UnitsFacts
  <2> HIDE DEF w, u
  <2>7. \A j \in 1..Len(u) : u[j] = Line(a, Messages[msg[a]])[w + j]
    <3> SUFFICES ASSUME NEW j \in 1..k PROVE u[j] = Line(a, Messages[msg[a]])[w + j]
      BY <2>6
    <3>1. w + j \in 1..BodyLen+1 /\ w + j <= BodyLen
      BY <2>3, <2>4
    <3> QED
      BY <2>6, <3>1 DEF Line
  <2>8. LinesAndRest(a, file \o u, n, w + k, Messages[msg[a]])
    BY <1>0, <2>4, <2>5, <2>6, <2>7, RestGrows
  <2> QED
    BY <2>1, <2>2, <2>4, <2>8 DEF u
<1>3. CASE WriteNewline(a)
  <2> DEFINE u == Units(a, 1, "newline")
             m == Messages[msg[a]]
  <2>1. /\ pc[a] = "newline" /\ NextMessage(a) /\ file' = file \o u /\ ~failed
    BY <1>3 DEF WriteNewline
  <2>2. Written(a) = BodyLen /\ Written(a)' = 0
    BY <1>0, <2>1, NextMessageFacts DEF Written
  <2>3. PICK n \in Nat : LinesAndRest(a, file, n, BodyLen, m)
    BY <2>1, <2>2 DEF FileInv
  <2>4. /\ u \in Seq(Unit) /\ Len(u) = 1 /\ u[1] = [app |-> a, msg |-> m, part |-> "newline"]
    <3>1. /\ u \in Seq(Unit) /\ Len(u) = 1
          /\ \A j \in 1..1 : u[j] = [app |-> a, msg |-> m, part |-> "newline"]
      BY <1>0, UnitsFacts
    <3> HIDE DEF u
    <3> QED
      BY <3>1
  <2> HIDE DEF u
  <2>5. \A j \in 1..Len(u) : u[j] = Line(a, m)[BodyLen + j]
    <3>1. Line(a, m)[BodyLen + 1] = [app |-> a, msg |-> m, part |-> "newline"]
      <4>1. BodyLen + 1 \in 1..BodyLen+1 /\ ~(BodyLen + 1 <= BodyLen)
        OBVIOUS
      <4> QED
        BY <4>1 DEF Line
    <3>2. \A j \in 1..Len(u) : j = 1
      BY <2>4
    <3> QED
      BY <2>4, <3>1, <3>2
  <2> HIDE DEF m
  <2>6. LinesAndRest(a, file \o u, n, BodyLen + 1, m)
    BY <1>0, <2>3, <2>4, <2>5, RestGrows
  <2>7. LinesAndRest(a, file', n + 1, 0, Messages[msg'[a]])
    BY <1>0, <2>1, <2>6, RestEnds DEF Width, m
  <2> QED
    BY <2>2, <2>7
<1> QED
  BY <1>1, <1>2, <1>3 DEF Main

LEMMA FileStep ==
    ASSUME NEW a, Apps = {a}, LoggerInv, FileInv(a), [Next]_vars
    PROVE  FileInv(a)'
<1>0. a \in Apps /\ pc \in [Apps -> Pcs] /\ \A b \in Apps : b = a
  BY DEF LoggerInv, TypeOK
<1>1. CASE Main(a)
  BY <1>0, <1>1, FileMain
<1>2. ASSUME UNCHANGED <<file, failed, msg>>, Written(a)' = Written(a) PROVE FileInv(a)'
  BY <1>2 DEF FileInv
<1>3. CASE HandleSignal(a) \/ (\E l \in Levels : Request(a, l)) \/ UNCHANGED vars
  BY <1>2, <1>3 DEF HandleSignal, Request, vars, mainVars, history, Written
<1>4. CASE Deliver(a)
  <2>1. UNCHANGED <<file, failed, msg, left>>
    BY <1>4 DEF Deliver, history
  <2>2. CASE pc' = pc
    BY <1>2, <2>1, <2>2 DEF Written
  <2>3. CASE pc' # pc
    <3>1. Deliverable(a) # {} /\ Deliverable(a) \subseteq {0, 1, 2, 3, 4}
      BY <1>4, LevelFacts DEF Deliver, Deliverable
    <3>2. \E l \in Deliverable(a) : \A k \in Deliverable(a) : l <= k
      BY <3>1
    <3>3. pc[a] # "killed" /\ pc'[a] = "killed" /\ \E l \in Levels : l >= reg[a]
      BY <1>0, <1>4, <2>3, <3>2 DEF Deliver, Deliverable, GoTo
    <3>4. pc[a] = "register"
      BY <1>0, <3>3, LevelFacts DEF LoggerInv, Registered, Debug
    <3> QED
      BY <1>2, <2>1, <3>3, <3>4 DEF Written
  <2> QED
    BY <2>2, <2>3
<1> QED
  BY <1>0, <1>1, <1>3, <1>4 DEF Next, App

-----------------------------------------------------------------------------
(* What the lines are as subsequences *)

LEMMA DivOfLines ==
    ASSUME NEW n \in Nat, NEW w \in Nat, w < Width
    PROVE  (n * Width + w) \div Width = n
<1> DEFINE x == n * Width + w
           q == x \div Width
<1>01. Width \in Nat /\ Width >= 2 /\ n * Width \in Nat
  BY ProductFacts
<1>1. Width \in Nat /\ Width >= 2 /\ x \in Nat
  BY <1>01
<1> HIDE DEF Width
<1>2. q \in Nat /\ q * Width <= x /\ x < q * Width + Width
  BY <1>1
<1> HIDE DEF q
<1>3. ~(q >= n + 1)
  <2> SUFFICES ASSUME q >= n + 1 PROVE FALSE
    OBVIOUS
  <2>1. q * Width >= (n + 1) * Width
    BY <1>1, <1>2
  <2>2. (n + 1) * Width = n * Width + Width
    BY <1>1
  <2> QED
    BY <1>1, <1>2, <2>1, <2>2
<1>4. ~(n >= q + 1)
  <2> SUFFICES ASSUME n >= q + 1 PROVE FALSE
    OBVIOUS
  <2>1. n * Width >= (q + 1) * Width
    BY <1>1, <1>2
  <2>2. (q + 1) * Width = q * Width + Width
    BY <1>1, <1>2
  <2> QED
    BY <1>1, <1>2, <2>1, <2>2
<1>5. q = n
  BY <1>2, <1>3, <1>4
<1> QED
  BY <1>5 DEF q, x

LEMMA LineFacts ==
    ASSUME NEW a \in Apps, NEW m \in Levels
    PROVE  /\ Line(a, m) \in Seq(Unit) /\ Len(Line(a, m)) = Width /\ Line(a, m) \in Lines
           /\ DOMAIN Line(a, m) = 1..Width
<1>1. Line(a, m) = [k \in 1..Width |->
        [app |-> a, msg |-> m, part |-> IF k <= BodyLen THEN "body" ELSE "newline"]]
  BY DEF Line, Width
<1>2. \A k \in 1..Width :
        [app |-> a, msg |-> m, part |-> IF k <= BodyLen THEN "body" ELSE "newline"] \in Unit
  BY DEF Unit
<1>3. Width \in Nat
  BY LoggerAssumption DEF Width
<1> HIDE DEF Width
<1>4. Line(a, m) \in Seq(Unit) /\ Len(Line(a, m)) = Width /\ DOMAIN Line(a, m) = 1..Width
  BY <1>1, <1>2, <1>3
<1> QED
  BY <1>4 DEF Lines

\* Some of a sequence that agrees with another is a part of that.
LEMMA SamePart ==
    ASSUME NEW S, NEW f \in Seq(S), NEW b \in Nat, NEW w \in Nat, b + w <= Len(f),
           NEW g \in Seq(S), w <= Len(g), \A j \in 1..w : f[b + j] = g[j]
    PROVE  /\ SubSeq(f, b + 1, b + w) = SubSeq(g, 1, w)
           /\ Len(SubSeq(f, b + 1, b + w)) = w
<1> DEFINE s == SubSeq(f, b + 1, b + w)
           t == SubSeq(g, 1, w)
<1>1. Len(f) \in Nat /\ Len(g) \in Nat
  OBVIOUS
<1>2. /\ \A i \in (b+1)..(b+w) : f[i] \in S
      /\ \A i \in 1..w : g[i] \in S
  BY <1>1, ElementOfSeq
<1>3. /\ s \in Seq(S) /\ Len(s) = w
      /\ \A i \in 1..w : s[i] = f[b + i]
  <2>1. /\ b + 1 \in Int /\ b + w \in Int
        /\ (IF b + 1 <= b + w THEN (b + w) - (b + 1) + 1 ELSE 0) = w
        /\ (b + w) - (b + 1) + 1 = w /\ \A i \in 1..w : (b + 1) + i - 1 = b + i
    OBVIOUS
  <2>2. /\ s \in Seq(S)
        /\ Len(s) = IF b + 1 <= b + w THEN (b + w) - (b + 1) + 1 ELSE 0
        /\ \A i \in 1 .. (b + w) - (b + 1) + 1 : s[i] = f[(b + 1) + i - 1]
    BY <1>2, <2>1, SubSeqProperties
  <2> HIDE DEF s
  <2> QED
    BY <2>1, <2>2
<1>4. /\ t \in Seq(S) /\ Len(t) = w
      /\ \A i \in 1..w : t[i] = g[i]
  <2>1. /\ t \in Seq(S)
        /\ Len(t) = IF 1 <= w THEN w - 1 + 1 ELSE 0
        /\ \A i \in 1 .. w - 1 + 1 : t[i] = g[1 + i - 1]
    BY <1>2, SubSeqProperties
  <2>2. w - 1 + 1 = w /\ \A i \in 1..w : 1 + i - 1 = i
    OBVIOUS
  <2> HIDE DEF t
  <2> QED
    BY <2>1, <2>2
<1> HIDE DEF s, t
<1>5. \A i \in 1..w : s[i] = t[i]
  BY <1>3, <1>4
<1>6. s = t
  BY <1>3, <1>4, <1>5, SeqEqual
<1> QED
  BY <1>3, <1>6 DEF s, t

LEMMA FileLines ==
    ASSUME NEW a \in Apps, LoggerInv, FileInv(a)
    PROVE  WholeLines
<1> DEFINE m == Messages[msg[a]]
           w == Written(a)
           full == Len(file) \div (BodyLen + 1)
           rest == SubSeq(file, full * (BodyLen + 1) + 1, Len(file))
<1> SUFFICES ASSUME ~failed
             PROVE  /\ \A k \in 1..full : LineAt(k) \in Lines
                    /\ \E l \in Lines : IsPrefix(rest, l)
  BY DEF WholeLines
<1>1. /\ file \in Seq(Unit) /\ Len(file) \in Nat /\ m \in Levels
      /\ left[a] \in 0..BodyLen
  BY MessageFacts DEF LoggerInv, TypeOK
<1>2. w \in Nat /\ w < Width
  BY <1>1, LoggerAssumption DEF Written, Width
<1>3. PICK n \in Nat : LinesAndRest(a, file, n, w, m)
  BY DEF FileInv
<1> HIDE DEF m, w
<1>4. Len(file) = n * Width + w
  BY <1>3 DEF LinesAndRest
<1>5. full = n
  BY <1>2, <1>4, DivOfLines DEF Width
<1>6. ASSUME NEW k \in 1..n PROVE LineAt(k) \in Lines
  <2>1. PICK l \in Levels : \A j \in 1..Width : file[(k - 1) * Width + j] = Line(a, l)[j]
    BY <1>3 DEF LinesAndRest
  <2> DEFINE b == (k - 1) * Width
  <2>2. /\ b \in Nat /\ Width \in Nat /\ b + Width = k * Width /\ b + Width <= Len(file)
    <3> DEFINE c == n * Width
               d == k * Width
    <3>1. b \in Nat /\ c \in Nat /\ Width \in Nat /\ b + Width = d /\ d <= c
      BY ProductFacts
    <3>2. Len(file) = c + w
      BY <1>4
    <3> HIDE DEF b, c, d
    <3>3. b + Width <= Len(file)
      BY <1>2, <3>1, <3>2
    <3> QED
      BY <3>1, <3>3 DEF d
  <2>3. Line(a, l) \in Seq(Unit) /\ Len(Line(a, l)) = Width /\ Line(a, l) \in Lines
    BY LineFacts
  <2>4. \A j \in 1..Width : file[b + j] = Line(a, l)[j]
    BY <2>1
  <2>5. LineAt(k) = SubSeq(file, b + 1, b + Width)
    BY <2>2 DEF LineAt, Width
  <2> HIDE DEF b
  <2>6. Width <= Len(Line(a, l))
    BY <2>2, <2>3
  <2>7. SubSeq(file, b + 1, b + Width) = SubSeq(Line(a, l), 1, Width)
    BY <1>1, <2>2, <2>3, <2>4, <2>6, SamePart
  <2>8. SubSeq(Line(a, l), 1, Width) = Line(a, l)
    BY <2>3, SubSeqFull
  <2> QED
    BY <2>3, <2>5, <2>7, <2>8
<1>7. \E l \in Lines : IsPrefix(rest, l)
  <2> DEFINE b == n * Width
             r == SubSeq(file, b + 1, b + w)
  <2>1. /\ b \in Nat /\ b + w <= Len(file) /\ Width \in Nat
    BY <1>2, <1>4, ProductFacts
  <2>2. rest = r
    BY <1>4, <1>5 DEF Width
  <2>3. Line(a, m) \in Seq(Unit) /\ Len(Line(a, m)) = Width /\ Line(a, m) \in Lines
    BY <1>1, LineFacts
  <2>4. \A j \in 1..w : file[b + j] = Line(a, m)[j]
    BY <1>3 DEF LinesAndRest
  <2> HIDE DEF b
  <2>5. w <= Len(Line(a, m)) /\ Len(Line(a, m)) \in Nat
    BY <1>2, <2>1, <2>3
  <2>6. r = SubSeq(Line(a, m), 1, w) /\ Len(r) = w
    BY <1>1, <1>2, <2>1, <2>3, <2>4, <2>5, SamePart
  <2>7. r \in Seq(Unit)
    <3>1. \A i \in (b+1)..(b+w) : file[i] \in Unit
      BY <1>1, <1>2, <2>1, ElementOfSeq
    <3>2. b + 1 \in Int /\ b + w \in Int
      BY <1>2, <2>1
    <3> QED
      BY <3>1, <3>2, SubSeqProperties
  <2> HIDE DEF r
  <2>8. SubSeq(r, 1, Len(r)) = r
    BY <2>7, SubSeqFull
  <2>9. IsPrefix(r, Line(a, m))
    BY <2>5, <2>6, <2>8 DEF IsPrefix
  <2> HIDE DEF rest
  <2> QED
    BY <2>2, <2>3, <2>9
<1> QED
  BY <1>5, <1>6, <1>7

\* Until a write gives up, the file of one application is whole lines and at
\* most the beginning of one more, for any length of a message, however its
\* writes are cut and whatever signals come between them.
THEOREM LinesStayWhole ==
    ASSUME NEW a, Apps = {a}
    PROVE  Spec => []WholeLines
<1>1. Init => FileInv(a)
  <2> SUFFICES ASSUME Init PROVE FileInv(a)
    OBVIOUS
  <2>1. a \in Apps
    OBVIOUS
  <2>2. file = <<>> /\ Written(a) = 0
    BY <2>1 DEF Init, Written
  <2>3. LinesAndRest(a, file, 0, 0, Messages[msg[a]])
    <3>1. 0 * Width + 0 = 0 /\ 1..0 = {}
      BY ProductFacts
    <3> QED
      BY <2>2, <3>1 DEF LinesAndRest
  <2> QED
    BY <2>2, <2>3 DEF FileInv
<1>2. LoggerInv /\ FileInv(a) /\ [Next]_vars => FileInv(a)'
  BY FileStep
<1>3. LoggerInv /\ FileInv(a) => WholeLines
  BY FileLines
<1> QED
  BY <1>1, <1>2, <1>3, LoggerInvariant, PTL DEF Spec
=============================================================================
