----------------------------- MODULE ShopProcess -----------------------------
(***************************************************************************)
(* IPC/shop_process.c: the server.  It polls for one order at a time,      *)
(* changes the stock under the semaphore, may announce low stock while it  *)
(* still holds the semaphore, and answers after releasing it.  SIGINT and  *)
(* SIGTERM clear `running'; a blocking call that a signal interrupts fails *)
(* and CHECK ends the process, past the removal of the IPC objects.        *)
(***************************************************************************)
EXTENDS ShopCommon

VARIABLES
    shopPc,         \* where the shop stands
    order,          \* msg of main, the order in process_order
    newQty,         \* new_quantity of process_order
    shopRunning     \* running

shopVars == <<shopPc, order, newQty, shopRunning>>

ShopCS == {"check", "load", "store", "notify", "unlock"}

ShopPcs == {"loop", "lock", "respond", "rmShm", "rmSem", "rmMsg", "off"}
           \cup ShopCS

NoOrder == [none |-> TRUE]

ShopTypeOK ==
    /\ shopPc \in ShopPcs
    /\ order \in OrderMsg \cup {NoOrder}
    /\ (shopPc \in ShopCS \cup {"lock", "respond"}) => order \in OrderMsg
    /\ newQty \in Int
    /\ shopRunning \in BOOLEAN

ShopInit ==
    /\ shopPc = "loop"
    /\ order = NoOrder
    /\ newQty = 0
    /\ shopRunning = TRUE

-----------------------------------------------------------------------------
\* One round of the loop that finds an order; process_order's first line
\* sets its status to failure.  A round without an order changes nothing.
ShopReceive ==
    /\ shopPc = "loop"
    /\ shopRunning
    /\ HasMsg("MSG_ORDER")
    /\ Receive("MSG_ORDER")
    /\ order' = [Head(mq["MSG_ORDER"]) EXCEPT !.status = FALSE]
    /\ shopPc' = "lock"
    /\ UNCHANGED <<newQty, shopRunning, store, objects, semVars, history>>

ShopLock ==
    /\ shopPc = "lock"
    /\ SemTake("shop")
    /\ shopPc' = "check"
    /\ UNCHANGED <<order, newQty, shopRunning, store, objects, mq, history>>

\* Mutant of Covered: the shop relies on the test the customer made.
CoveredByCustomer == TRUE

Covered == quantity[order.item] >= order.qty

\* The search always finds the item: a customer only orders what it saw in
\* the inventory, and names are never removed.
ShopCheck ==
    /\ shopPc = "check"
    /\ shopPc' = IF Covered THEN "load" ELSE "unlock"
    /\ UNCHANGED <<order, newQty, shopRunning, shared>>

\* Mutant of ShopLoad: the semaphore is released before the write.
ShopLoadReleasing ==
    /\ shopPc = "load"
    /\ newQty' = quantity[order.item] - order.qty
    /\ SemGive("shop")
    /\ shopPc' = "store"
    /\ UNCHANGED <<order, shopRunning, store, objects, mq, history>>

ShopLoad ==
    /\ shopPc = "load"
    /\ newQty' = quantity[order.item] - order.qty
    /\ shopPc' = "store"
    /\ UNCHANGED <<order, shopRunning, shared>>

ShopStore ==
    LET i    == order.item
        cost == price[i] * order.qty
    IN  /\ shopPc = "store"
        /\ quantity' = [quantity EXCEPT ![i] = newQty]
        /\ order' = [order EXCEPT !.status = TRUE, !.price = cost]
        /\ sold' = [sold EXCEPT ![i] = @ + order.qty]
        /\ granted' = [granted EXCEPT ![order.customer][i] = @ + order.qty]
        /\ shopPc' = "notify"
        /\ UNCHANGED <<newQty, shopRunning, price, objects, mq, semVars,
                       restocked, interrupted>>

\* send_notification: IPC_NOWAIT, so a full queue loses the announcement.
SendNotification(t) ==
    IF QueueFull
    THEN UNCHANGED mq
    ELSE Send(t, [item |-> order.item, qty |-> newQty])

ShopNotify ==
    /\ shopPc = "notify"
    /\ \/ /\ newQty = 0
          /\ SendNotification("MSG_NOTIFY_OUT_OF_STOCK")
       \/ /\ newQty # 0
          /\ newQty <= Threshold[order.item]
          /\ SendNotification("MSG_NOTIFY_LOW_STOCK")
       \/ /\ newQty # 0
          /\ newQty > Threshold[order.item]
          /\ UNCHANGED mq
    /\ shopPc' = "unlock"
    /\ UNCHANGED <<order, newQty, shopRunning, store, objects, semVars, history>>

ShopUnlock ==
    /\ shopPc = "unlock"
    /\ SemGive("shop")
    /\ shopPc' = "respond"
    /\ UNCHANGED <<order, newQty, shopRunning, store, objects, mq, history>>

\* Mutant of ShopRespond: IPC_NOWAIT, as in send_notification.
ShopRespondNoWait ==
    /\ shopPc = "respond"
    /\ IF QueueFull THEN UNCHANGED mq ELSE Send("MSG_RESPONSE", order)
    /\ order' = NoOrder
    /\ newQty' = 0
    /\ shopPc' = "loop"
    /\ UNCHANGED <<shopRunning, store, objects, semVars, history>>

\* msgsnd without IPC_NOWAIT: waits while the queue is full.
ShopRespond ==
    /\ shopPc = "respond"
    /\ ~QueueFull
    /\ Send("MSG_RESPONSE", order)
    /\ order' = NoOrder
    /\ newQty' = 0
    /\ shopPc' = "loop"
    /\ UNCHANGED <<shopRunning, store, objects, semVars, history>>

-----------------------------------------------------------------------------
(* Shutdown *)

\* The handler runs between two instructions, or before a call blocks.
ShopSignal ==
    /\ ShopSignals
    /\ shopPc # "off"
    /\ shopRunning
    /\ shopRunning' = FALSE
    /\ UNCHANGED <<shopPc, order, newQty, shared>>

ShopBlocked ==
    \/ shopPc = "lock" /\ sem = 0
    \/ shopPc = "respond" /\ QueueFull

ShopDown == shopPc' = "off" /\ order' = NoOrder /\ newQty' = 0

\* The handler interrupts a blocked semop or msgsnd: EINTR fails the CHECK
\* and exit() leaves the three IPC objects behind.
ShopSignalBlocked ==
    /\ ShopSignals
    /\ ShopBlocked
    /\ ShopDown
    /\ shopRunning' = FALSE
    /\ SemUndo("shop")
    /\ UNCHANGED <<store, objects, mq, history>>

\* Mutant of ShopLeave: the orders in the queue keep the loop going.
ShopLeaveDrained ==
    /\ shopPc = "loop"
    /\ ~shopRunning
    /\ mq["MSG_ORDER"] = <<>>
    /\ shopPc' = "rmShm"
    /\ UNCHANGED <<order, newQty, shopRunning, shared>>

ShopLeave ==
    /\ shopPc = "loop"
    /\ ~shopRunning
    /\ shopPc' = "rmShm"
    /\ UNCHANGED <<order, newQty, shopRunning, shared>>

\* The segment lives on for the processes attached to it; a new shmget fails.
ShopRemoveShm ==
    /\ shopPc = "rmShm"
    /\ objects' = objects \ {"shm"}
    /\ shopPc' = "rmSem"
    /\ UNCHANGED <<order, newQty, shopRunning, store, mq, semVars, history>>

ShopRemoveSem ==
    /\ shopPc = "rmSem"
    /\ objects' = objects \ {"sem"}
    /\ sem' = 0
    /\ semadj' = [p \in Servers |-> 0]
    /\ shopPc' = "rmMsg"
    /\ UNCHANGED <<order, newQty, shopRunning, store, mq, history>>

\* Mutant of ShopRemoveMsg: the queue is not removed.
ShopKeepMsg ==
    /\ shopPc = "rmMsg"
    /\ ShopDown
    /\ UNCHANGED <<shopRunning, store, objects, mq, semVars, history>>

ShopRemoveMsg ==
    /\ shopPc = "rmMsg"
    /\ objects' = objects \ {"msg"}
    /\ mq' = [t \in MsgTypes |-> <<>>]
    /\ ShopDown
    /\ UNCHANGED <<shopRunning, store, semVars, history>>

\* Killed by a signal it does not handle; the kernel applies SEM_UNDO.
ShopKill ==
    /\ "shop" \in Killable
    /\ shopPc # "off"
    /\ ShopDown
    /\ SemUndo("shop")
    /\ UNCHANGED <<shopRunning, store, objects, mq, history>>

\* What the shop does by itself, once scheduled.
ShopStep ==
    \/ ShopReceive \/ ShopLock \/ ShopCheck \/ ShopLoad \/ ShopStore
    \/ ShopNotify \/ ShopUnlock \/ ShopRespond
    \/ ShopLeave \/ ShopRemoveShm \/ ShopRemoveSem \/ ShopRemoveMsg

ShopNext == ShopStep \/ ShopSignal \/ ShopSignalBlocked \/ ShopKill
=============================================================================
