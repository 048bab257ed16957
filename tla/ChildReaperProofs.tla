-------------------------- MODULE ChildReaperProofs --------------------------
(***************************************************************************)
(* Safety of ChildReaper for every number of children and every way to die. *)
(***************************************************************************)
EXTENDS ChildReaper, SequenceTheorems, TLAPS

LEMMA TypeInit == Init => TypeOK
<1> SUFFICES ASSUME Init PROVE TypeOK
  OBVIOUS
<1>1. next \in 1..(NumChildren + 1)
  BY ReaperAssumption DEF Init
<1>2. reports \in Seq([child : Children, status : Statuses \cup {None}])
  BY DEF Init
<1> QED
  BY <1>1, <1>2 DEF Init, TypeOK, ChildStates

LEMMA TypeStep == TypeOK /\ [Next]_vars => TypeOK'
<1> SUFFICES ASSUME TypeOK, [Next]_vars PROVE TypeOK'
  OBVIOUS
<1> USE ReaperAssumption DEF TypeOK, ChildStates, Children
<1>1. CASE Fork
  <2>1. next' \in 1..(NumChildren + 1)
    BY <1>1 DEF Fork, MoreToFork
  <2> QED
    BY <1>1, <2>1 DEF Fork, MoreToFork
<1>2. CASE ForkFails
  BY <1>2 DEF ForkFails
<1>3. ASSUME NEW i \in Children, Die(i) PROVE TypeOK'
  BY <1>3 DEF Die
<1>4. CASE Deliver
  BY <1>4 DEF Deliver
<1>5. ASSUME NEW i \in Children, Reap(i) PROVE TypeOK'
  <2>1. [child |-> i, status |-> status[i]]
          \in [child : Children, status : Statuses \cup {None}]
    OBVIOUS
  <2>2. reports' \in Seq([child : Children, status : Statuses \cup {None}])
    BY <1>5, <2>1, AppendProperties DEF Reap
  <2> QED
    BY <1>5, <2>2 DEF Reap
<1>6. CASE HandlerReturn
  BY <1>6 DEF HandlerReturn
<1>7. CASE UNCHANGED vars
  BY <1>7 DEF vars
<1> QED
  BY <1>1, <1>2, <1>3, <1>4, <1>5, <1>6, <1>7 DEF Next, Handler

\* Type correctness of the reaper.
THEOREM TypeCorrect == Spec => []TypeOK
BY TypeInit, TypeStep, PTL DEF Spec

LEMMA ZombieStep == TypeOK /\ NoLostZombie /\ [Next]_vars => NoLostZombie'
<1> SUFFICES ASSUME TypeOK, NoLostZombie, [Next]_vars PROVE NoLostZombie'
  OBVIOUS
<1> USE DEF TypeOK, NoLostZombie, In
<1>1. CASE Fork
  BY <1>1 DEF Fork, MoreToFork
<1>2. CASE ForkFails
  BY <1>2 DEF ForkFails, ChildStates
<1>3. ASSUME NEW i \in Children, Die(i) PROVE NoLostZombie'
  BY <1>3 DEF Die
<1>4. CASE Deliver
  BY <1>4 DEF Deliver
<1>5. ASSUME NEW i \in Children, Reap(i) PROVE NoLostZombie'
  BY <1>5 DEF Reap
<1>6. CASE HandlerReturn
  BY <1>6 DEF HandlerReturn, NothingToReap
<1>7. CASE UNCHANGED vars
  BY <1>7 DEF vars
<1> QED
  BY <1>1, <1>2, <1>3, <1>4, <1>5, <1>6, <1>7 DEF Next, Handler

\* However many children die on one pending SIGCHLD, no zombie is forgotten.
THEOREM ZombieNeverLost == Spec => []NoLostZombie
<1>1. Init => NoLostZombie
  BY DEF Init, NoLostZombie, In
<1> QED
  BY <1>1, ZombieStep, TypeCorrect, PTL DEF Spec

LEMMA ForkStep == TypeOK /\ ForksInOrder /\ [Next]_vars => ForksInOrder'
<1> SUFFICES ASSUME TypeOK, ForksInOrder, [Next]_vars PROVE ForksInOrder'
  OBVIOUS
<1> USE ReaperAssumption DEF TypeOK, ForksInOrder, Children
<1>1. CASE Fork
  BY <1>1 DEF Fork, MoreToFork
<1>2. CASE ForkFails
  BY <1>2 DEF ForkFails
<1>3. ASSUME NEW i \in Children, Die(i) \/ Reap(i) PROVE ForksInOrder'
  BY <1>3 DEF Die, Reap
<1>4. CASE Deliver \/ HandlerReturn \/ UNCHANGED vars
  BY <1>4 DEF Deliver, HandlerReturn, vars
<1> QED
  BY <1>1, <1>2, <1>3, <1>4 DEF Next, Handler

LEMMA ReportStep ==
    TypeOK /\ ForksInOrder /\ ReportedOnce /\ [Next]_vars => ReportedOnce'
<1> SUFFICES ASSUME TypeOK, ForksInOrder, ReportedOnce, [Next]_vars
             PROVE  ReportedOnce'
  OBVIOUS
<1> USE DEF TypeOK, ReportedOnce, In
\* A step that appends no report keeps the reaped children and their statuses.
<1>1. ASSUME UNCHANGED reports,
             \A i \in Children : child'[i] = "reaped" <=> child[i] = "reaped",
             \A i \in Children : child[i] = "reaped" => status'[i] = status[i]
      PROVE  ReportedOnce'
  <2>1. \A n \in DOMAIN reports :
            reports[n].child \in Children /\ child[reports[n].child] = "reaped"
    OBVIOUS
  <2> QED
    BY <1>1, <2>1
<1>2. CASE Fork
  <2>1. next \in Children /\ child[next] = "unborn"
    BY <1>2 DEF Fork, MoreToFork, ForksInOrder, Children
  <2> QED
    BY <1>1, <1>2, <2>1 DEF Fork, MoreToFork
<1>3. CASE ForkFails
  BY <1>1, <1>3 DEF ForkFails
<1>4. ASSUME NEW i \in Children, Die(i) PROVE ReportedOnce'
  BY <1>1, <1>4 DEF Die
<1>5. CASE Deliver
  BY <1>1, <1>5 DEF Deliver
<1>6. ASSUME NEW i \in Children, Reap(i) PROVE ReportedOnce'
  <2> DEFINE r == [child |-> i, status |-> status[i]]
  <2>1. /\ reports' = Append(reports, r)
        /\ DOMAIN reports = 1..Len(reports) /\ Len(reports) \in Nat
        /\ DOMAIN reports' = 1..(Len(reports) + 1)
        /\ \A n \in DOMAIN reports : reports'[n] = reports[n]
        /\ reports'[Len(reports) + 1] = r
    BY <1>6 DEF Reap
  <2>2. \A n \in DOMAIN reports : reports[n].child # i
    BY <1>6 DEF Reap
  <2>3. /\ \A n \in DOMAIN reports : reports'[n].child = reports[n].child
        /\ r.child = i /\ r.status = status[i]
        /\ status' = status
    BY <1>6, <2>1 DEF Reap
  <2>4. {reports'[n].child : n \in DOMAIN reports'}
            = {reports[n].child : n \in DOMAIN reports} \cup {i}
    BY <2>1, <2>3
  <2>5. {j \in Children : child'[j] = "reaped"} = In("reaped") \cup {i}
    BY <1>6 DEF Reap
  <2>6. \A m, n \in DOMAIN reports' : reports'[m].child = reports'[n].child => m = n
    BY <2>1, <2>2, <2>3
  <2>7. \A n \in DOMAIN reports' : reports'[n].status = status'[reports'[n].child]
    BY <2>1, <2>3
  <2> QED
    BY <2>4, <2>5, <2>6, <2>7
<1>7. CASE HandlerReturn
  BY <1>1, <1>7 DEF HandlerReturn
<1>8. CASE UNCHANGED vars
  BY <1>1, <1>8 DEF vars
<1> QED
  BY <1>2, <1>3, <1>4, <1>5, <1>6, <1>7, <1>8 DEF Next, Handler

\* Every reaped child is printed once, with the status it died with.
THEOREM ReapedReportedOnce == Spec => []ReportedOnce
<1>1. Init => ReportedOnce /\ ForksInOrder
  BY DEF Init, ReportedOnce, ForksInOrder, In
<1> QED
  BY <1>1, ForkStep, ReportStep, TypeCorrect, PTL DEF Spec
=============================================================================
