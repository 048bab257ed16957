----------------------------- MODULE ShopSystem -----------------------------
(***************************************************************************)
(* The shop simulation of IPC/: the shop, one inventory manager and the    *)
(* customers, over one semaphore, one shared segment and one message       *)
(* queue.  A behaviour is one life of the IPC objects: it begins when the  *)
(* shop has created and loaded them, and the shop is not started twice.    *)
(***************************************************************************)
EXTENDS ShopProcess, CustomerProcess, InventoryManager

vars == <<shared, shopVars, custVars, mgrVars>>

Init ==
    /\ CommonInit
    /\ ShopInit
    /\ CustInit
    /\ MgrInit

Shop        == ShopNext /\ UNCHANGED <<custVars, mgrVars>>
Customer(c) == CustomerNext(c) /\ UNCHANGED <<shopVars, mgrVars>>
Manager     == MgrNext /\ UNCHANGED <<shopVars, custVars>>

Next == Shop \/ Manager \/ \E c \in Customers : Customer(c)

Spec == Init /\ [][Next]_vars

\* Every process is scheduled and sleeps end.  The kernel serves waiters of
\* a semaphore and of a queue in turn, so a wait that can end again and again
\* does end.  What a user types, and every signal, may never come.
Fairness ==
    /\ WF_vars(ShopStep /\ UNCHANGED <<custVars, mgrVars>>)
    /\ SF_vars(ShopLock /\ UNCHANGED <<custVars, mgrVars>>)
    /\ SF_vars(ShopRespond /\ UNCHANGED <<custVars, mgrVars>>)
    /\ WF_vars(MgrStep /\ UNCHANGED <<shopVars, custVars>>)
    /\ SF_vars(MgrLock /\ UNCHANGED <<shopVars, custVars>>)
    /\ WF_vars(Notifier /\ UNCHANGED <<shopVars, custVars>>)
    /\ \A c \in Customers :
        /\ WF_vars(CustomerStep(c) /\ UNCHANGED <<shopVars, mgrVars>>)
        /\ SF_vars(SendOrder(c) /\ UNCHANGED <<shopVars, mgrVars>>)
        /\ SF_vars(RecvResponse(c) /\ UNCHANGED <<shopVars, mgrVars>>)

FairSpec == Spec /\ Fairness

-----------------------------------------------------------------------------
(* What the state is about *)

ShopInCS == shopPc \in ShopCS
MgrInCS  == mgrPc \in MgrCS

ShopDead == shopPc = "off" /\ QueueExists

Waiting == {c \in Customers : custPc[c] = "wait"}

\* Orders sent and not answered, or answered and not taken.
Pending == Len(mq["MSG_ORDER"]) + Len(mq["MSG_RESPONSE"])
           + IF order = NoOrder THEN 0 ELSE 1

\* Units of item i over the first lines of a cart, for each number of lines.
Units(lines, i) ==
    LET upTo[n \in 0..Len(lines)] ==
            IF n = 0 THEN 0
            ELSE upTo[n-1] + IF lines[n].item = i THEN lines[n].qty ELSE 0
    IN  upTo

UnitsInCart(c, i) == Units(cart[c], i)[Len(cart[c])]

\* The step that prints "Checkout successful!".
Succeeds(c) == /\ custPc[c] = "wait" /\ custPc'[c] = "menu"
               /\ cart[c] # <<>> /\ cart'[c] = <<>>

-----------------------------------------------------------------------------
(* Invariants *)

\* Every variable of every part keeps its type, and every local that a
\* program counter makes live holds a value of its own type.
TypeOK ==
    /\ CommonTypeOK
    /\ ShopTypeOK
    /\ CustTypeOK
    /\ MgrTypeOK

\* As long as the semaphore exists, its value and the two pending SEM_UNDO
\* adjustments add up to the one unit the shop put in: whoever dies, and
\* however often sem_lock and sem_unlock went unpaired, undoing both gives 1.
SemAccounting ==
    SemExists => sem + semadj["shop"] + semadj["mgr"] = 1

\* process_order and the manager's updates exclude each other, as long as no
\* signal has made the manager's sem_lock return without the lock.
MutualExclusion ==
    ~interrupted => ~(ShopInCS /\ MgrInCS)

\* A semaphore at zero always has a process in its critical section that will
\* release it: a process killed there does not leave the others locked out.
NoOrphanLock ==
    SemExists /\ sem = 0 => ShopInCS \/ MgrInCS

\* No sale and no restock is lost: the units on hand and the units sold make
\* up the initial stock and the restocked units, though both sides read the
\* quantity, compute, and write it back in separate steps.
Conservation ==
    ~interrupted =>
        \A i \in Items : quantity[i] + sold[i] = InitStock[i] + restocked[i]

\* The stock is never oversold, not even after a signal broke the exclusion
\* and an update was lost: the manager only ever writes back too much.
NonNegative == \A i \in Items : quantity[i] >= 0

\* While the shop lives, every customer waiting in checkout has an order or a
\* response on the way, although customers take responses that were meant for
\* others; and unless one of them can die nothing is ever left over either.
WaitersServed ==
    QueueExists /\ shopPc # "off" =>
        /\ Cardinality(Waiting) <= Pending
        /\ Killable \cap Customers = {} => Pending <= Cardinality(Waiting)

-----------------------------------------------------------------------------
(* The inductive invariant of the proofs *)

\* The adjustment of the shop is one exactly in its critical section.  The
\* manager's is at most that, and exactly that until a signal has let it into
\* a section without the lock; after the removal nothing is left to undo.
LockInv ==
    /\ SemAccounting
    /\ ShopInCS => SemExists
    /\ semadj["shop"] = IF ShopInCS THEN 1 ELSE 0
    /\ semadj["mgr"] <= IF MgrInCS THEN 1 ELSE 0
    /\ ~interrupted /\ SemExists => semadj["mgr"] = IF MgrInCS THEN 1 ELSE 0
    /\ ~SemExists => sem = 0 /\ semadj["mgr"] = 0

\* Whether or not the lock holds: what the shop is about to write is covered
\* by the stock, and what the manager read is no less than the stock.
StockInv ==
    /\ NonNegative
    /\ shopPc = "load" => quantity[order.item] >= order.qty
    /\ shopPc = "store" => newQty >= 0 /\ newQty <= quantity[order.item]
    /\ mgrPc = "store" => mgrTmp >= quantity[mgrItem]

\* While the lock holds, what either side read is still the stock when it
\* writes.
BalanceInv ==
    /\ Conservation
    /\ ~interrupted /\ shopPc = "store" =>
          newQty = quantity[order.item] - order.qty
    /\ ~interrupted /\ mgrPc = "store" => mgrTmp = quantity[mgrItem]

IndInv == TypeOK /\ LockInv /\ StockInv /\ BalanceInv

-----------------------------------------------------------------------------
(* Action properties *)

\* A lone customer is told that its checkout succeeded only when the shop has
\* taken every unit of every cart line out of the stock for it.
SuccessIsBacked ==
    [][\A c \in Customers : Succeeds(c) =>
         \A i \in Items : granted[c][i] >= UnitsInCart(c, i)]_vars

-----------------------------------------------------------------------------
(* Liveness, under Fairness *)

\* If an inventory manager stays attached and keeps taking the stock alerts,
\* a checkout under way ends, unless the shop dies and leaves the queue.
OrderAnswered ==
    <>[](notPc # "off") =>
        \A c \in Customers : custPc[c] \in {"send", "wait"} ~>
            (custPc[c] \in {"menu", "off"} \/ ShopDead)

\* A customer in the middle of a checkout is released by the shop's orderly
\* shutdown, wherever in the exchange the shutdown finds it.
ShutdownReleases ==
    \A c \in Customers :
        (shopPc = "rmShm" /\ custPc[c] \in {"send", "wait"}) ~>
            (custPc[c] \in {"menu", "off"})

\* A signal ends the shop, even in the middle of an order, as long as a manager
\* takes the alerts: one that comes just before the answer is sent to a queue
\* full of unread alerts is forgotten by msgsnd, and leaves the shop waiting.
ShopStops == <>[](notPc # "off") => (~shopRunning ~> shopPc = "off")

-----------------------------------------------------------------------------
(* What the documentation and the messages say, and the code does not do *)

\* IPC/README.md:57, concurrent order processing: with several customers too, a
\* success is backed by the customer's own units.
ConcurrentOrders == SuccessIsBacked
=============================================================================
