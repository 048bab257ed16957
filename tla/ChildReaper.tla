----------------------------- MODULE ChildReaper -----------------------------
(***************************************************************************)
(* Signals/Non-Blocking_Wait/non_blocking_wait.c: a parent that forks its  *)
(* children, sleeps, and reaps them in its SIGCHLD handler.  SIGCHLD is an *)
(* ordinary signal, so it is pending at most once however many children    *)
(* have died, and it is blocked while its handler runs.                    *)
(***************************************************************************)
EXTENDS Integers, Sequences

CONSTANTS
    NumChildren,    \* 3 in the code
    Statuses,       \* ways to die: an exit status or a terminating signal
    ForkMayFail     \* may fork return -1?

ASSUME ReaperAssumption ==
    /\ NumChildren \in Nat
    /\ ForkMayFail \in BOOLEAN
    /\ "alive" \notin Statuses

Children == 1..NumChildren

None == "alive"

VARIABLES
    child,          \* state of each child process
    status,         \* how each dead child died
    next,           \* the child that main's loop forks next
    parent,         \* "main", in the "handler", or "exited"
    sigchld,        \* is SIGCHLD pending for the parent?
    reports         \* history: what the handler printed

vars == <<child, status, next, parent, sigchld, reports>>

ChildStates == {"unborn", "running", "zombie", "reaped", "orphan"}

In(state) == {i \in Children : child[i] = state}

TypeOK ==
    /\ child \in [Children -> ChildStates]
    /\ status \in [Children -> Statuses \cup {None}]
    /\ next \in 1..(NumChildren + 1)
    /\ parent \in {"main", "handler", "exited"}
    /\ sigchld \in BOOLEAN
    /\ reports \in Seq([child : Children, status : Statuses \cup {None}])

\* SIGCHLD has its handler and is unblocked before the first fork.
Init ==
    /\ child = [i \in Children |-> "unborn"]
    /\ status = [i \in Children |-> None]
    /\ next = 1
    /\ parent = "main"
    /\ sigchld = FALSE
    /\ reports = <<>>

-----------------------------------------------------------------------------
MoreToFork == next <= NumChildren

Fork ==
    /\ parent = "main"
    /\ MoreToFork
    /\ child' = [child EXCEPT ![next] = "running"]
    /\ next' = next + 1
    /\ UNCHANGED <<status, parent, sigchld, reports>>

\* exit(EXIT_FAILURE): whoever adopts the children reaps them.
ForkFails ==
    /\ ForkMayFail
    /\ parent = "main"
    /\ MoreToFork
    /\ parent' = "exited"
    /\ sigchld' = FALSE
    /\ child' = [i \in Children |->
                   IF child[i] \in {"running", "zombie"} THEN "orphan" ELSE child[i]]
    /\ UNCHANGED <<status, next, reports>>

\* A child exits or is killed, at any time after its fork.
Die(i) ==
    /\ child[i] = "running"
    /\ child' = [child EXCEPT ![i] = "zombie"]
    /\ \E s \in Statuses : status' = [status EXCEPT ![i] = s]
    /\ sigchld' = TRUE
    /\ UNCHANGED <<next, parent, reports>>

\* Mutant of Deliver: SIGCHLD stays blocked after the start-up.
DeliverNever == FALSE /\ UNCHANGED vars

Deliver ==
    /\ parent = "main"
    /\ sigchld
    /\ sigchld' = FALSE
    /\ parent' = "handler"
    /\ UNCHANGED <<child, status, next, reports>>

\* Mutant of Reap: WNOWAIT leaves the zombie in place.
ReapNoWait(i) ==
    /\ parent = "handler"
    /\ child[i] = "zombie"
    /\ Len(reports) < 2 * NumChildren
    /\ reports' = Append(reports, [child |-> i, status |-> status[i]])
    /\ UNCHANGED <<child, status, next, parent, sigchld>>

\* waitpid(-1, &status, WNOHANG) > 0: which zombie it takes is not specified.
Reap(i) ==
    /\ parent = "handler"
    /\ child[i] = "zombie"
    /\ child' = [child EXCEPT ![i] = "reaped"]
    /\ reports' = Append(reports, [child |-> i, status |-> status[i]])
    /\ UNCHANGED <<status, next, parent, sigchld>>

\* Mutant of NothingToReap: one waitpid per signal, if instead of while.
OneWaitpid == TRUE

NothingToReap == In("zombie") = {}

\* waitpid returns 0 (children still run) or -1 with ECHILD (no child left).
HandlerReturn ==
    /\ parent = "handler"
    /\ NothingToReap
    /\ parent' = "main"
    /\ UNCHANGED <<child, status, next, sigchld, reports>>

Handler == (\E i \in Children : Reap(i)) \/ HandlerReturn

Next ==
    \/ Fork \/ ForkFails
    \/ \E i \in Children : Die(i)
    \/ Deliver \/ Handler

Spec == Init /\ [][Next]_vars

\* The parent runs, pending signals are delivered, handlers go on.  A child
\* may run for ever.
Fairness == WF_vars(Fork) /\ WF_vars(Deliver) /\ WF_vars(Handler)

FairSpec == Spec /\ Fairness

-----------------------------------------------------------------------------
\* No death is lost although SIGCHLD does not count: a zombie always has a
\* signal pending for it or a handler that has not made its last waitpid.
NoLostZombie ==
    In("zombie") # {} => sigchld \/ parent = "handler"

\* main's loop has yet to fork exactly the children from next on.
ForksInOrder == \A i \in Children : i >= next => child[i] = "unborn"

\* Every reaped child has been reported exactly once, and how it died is what
\* was printed, though the deaths and the waitpid calls come in any order.
ReportedOnce ==
    /\ {reports[n].child : n \in DOMAIN reports} = In("reaped")
    /\ \A m, n \in DOMAIN reports : reports[m].child = reports[n].child => m = n
    /\ \A n \in DOMAIN reports : reports[n].status = status[reports[n].child]

\* README.md:64, "All terminated children are reaped promptly": no child stays
\* a zombie.
ZombiesReaped ==
    \A i \in Children : child[i] = "zombie" ~> child[i] \in {"reaped", "orphan"}
=============================================================================
