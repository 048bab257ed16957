----------------------------- MODULE ShopCommon -----------------------------
(***************************************************************************)
(* What the three programs of the shop simulation share (IPC/shop_common.h *)
(* and the System V objects they open): the inventory in shared memory,    *)
(* the one semaphore with its SEM_UNDO adjustments, and the one message    *)
(* queue.  The order of messages of different types is not observable,     *)
(* because every msgrcv of the three programs names one type, so the queue *)
(* is kept as one sequence per type under a common capacity.               *)
(***************************************************************************)
EXTENDS Integers, Sequences, FiniteSets

CONSTANTS
    Customers,      \* customer processes (terminals running customer_process)
    Items,          \* names of the items loaded from inventory.txt
    NoItem,         \* a typed name that is not in the inventory
    InitStock,      \* [Items -> Nat], quantities of inventory.txt
    Threshold,      \* [Items -> Nat], low_threshold of inventory.txt
    Prices,         \* unit prices that occur
    InitPrice,      \* [Items -> Prices], prices of inventory.txt
    OrderQty,       \* quantities a customer may type
    RestockQty,     \* quantities a manager may type
    MaxRestock,     \* bound: units restocked per item in one behaviour
    QueueCap,       \* messages the queue holds (msg_qbytes / message size)
    MaxCartItems,   \* MAX_CART_ITEMS
    ShopSignals,    \* may SIGINT or SIGTERM reach the shop?
    MgrSignals,     \* may SIGINT or SIGTERM reach the inventory manager?
    Killable        \* processes that may be killed without running any code

Servers == {"shop", "mgr"}

ASSUME SetAssumption ==
    /\ NoItem \notin Items
    /\ IsFiniteSet(Customers)
    /\ Customers \cap Servers = {}
    /\ Killable \subseteq Customers \cup Servers
    /\ ShopSignals \in BOOLEAN
    /\ MgrSignals \in BOOLEAN

ASSUME QuantityAssumption ==
    /\ OrderQty \subseteq Nat \ {0}
    /\ RestockQty \subseteq Nat \ {0}
    /\ Prices \subseteq Nat
    /\ InitStock \in [Items -> Nat]
    /\ Threshold \in [Items -> Nat]
    /\ InitPrice \in [Items -> Prices]
    /\ MaxRestock \in Nat
    /\ QueueCap \in Nat \ {0}
    /\ MaxCartItems \in Nat \ {0}

VARIABLES
    quantity,       \* shared memory: units on hand per item
    price,          \* shared memory: unit price per item
    objects,        \* the System V objects that exist
    mq,             \* the message queue: a sequence of messages per type
    sem,            \* value of the semaphore
    semadj,         \* the kernel's SEM_UNDO adjustment of each process
    sold,           \* history: units the shop took out, per item
    restocked,      \* history: units the manager put in, per item
    granted,        \* history: units sold to a customer for its present cart
    interrupted     \* history: a signal made a sem_lock return without the lock

store    == <<quantity, price>>
semVars  == <<sem, semadj>>
history  == <<sold, restocked, granted, interrupted>>
shared   == <<store, objects, mq, semVars, history>>

-----------------------------------------------------------------------------
(* Messages *)

MsgTypes == {"MSG_ORDER", "MSG_RESPONSE",
             "MSG_NOTIFY_LOW_STOCK", "MSG_NOTIFY_OUT_OF_STOCK"}

OrderMsg    == [item : Items, qty : Nat, customer : Customers,
                status : BOOLEAN, price : Nat]
NotifyMsg   == [item : Items, qty : Int]

Typed(t) == IF t \in {"MSG_ORDER", "MSG_RESPONSE"} THEN OrderMsg ELSE NotifyMsg

QueueLen == Len(mq["MSG_ORDER"]) + Len(mq["MSG_RESPONSE"])
            + Len(mq["MSG_NOTIFY_LOW_STOCK"])
            + Len(mq["MSG_NOTIFY_OUT_OF_STOCK"])

QueueFull == QueueLen >= QueueCap

QueueExists == "msg" \in objects
SemExists   == "sem" \in objects

Send(t, m)  == mq' = [mq EXCEPT ![t] = Append(@, m)]

Receive(t)  == mq' = [mq EXCEPT ![t] = Tail(@)]

HasMsg(t)   == QueueExists /\ mq[t] # <<>>

-----------------------------------------------------------------------------
(* Semaphore operations, all with SEM_UNDO *)

\* Mutant of SemTake: IPC_NOWAIT, with the error ignored.
SemTakeNoWait(p) ==
    /\ SemExists
    /\ IF sem = 0 THEN UNCHANGED semVars
       ELSE sem' = sem - 1 /\ semadj' = [semadj EXCEPT ![p] = @ + 1]

SemTake(p) == /\ SemExists
              /\ sem > 0
              /\ sem' = sem - 1
              /\ semadj' = [semadj EXCEPT ![p] = @ + 1]

\* Mutant of SemGive: SEM_UNDO on the way in only.
SemGiveNoUndo(p) ==
    IF SemExists THEN sem' = sem + 1 /\ UNCHANGED semadj ELSE UNCHANGED semVars

\* semop(+1); on a removed semaphore it fails and changes nothing.
SemGive(p) == IF SemExists
              THEN /\ sem' = sem + 1
                   /\ semadj' = [semadj EXCEPT ![p] = @ - 1]
              ELSE UNCHANGED semVars

\* Mutant of SemUndo: the operations are made without SEM_UNDO.
SemUndoNothing(p) == semadj' = [semadj EXCEPT ![p] = 0] /\ UNCHANGED sem

\* The kernel applies the adjustment of an exiting process.  A sum below
\* zero would be cut off at zero.
SemUndo(p) == /\ sem' = IF sem + semadj[p] < 0 THEN 0 ELSE sem + semadj[p]
              /\ semadj' = [semadj EXCEPT ![p] = 0]

-----------------------------------------------------------------------------
\* The state after the shop's init_semaphore, init_shared_memory,
\* init_message_queue and load_inventory.
CommonInit ==
    /\ quantity = InitStock
    /\ price = InitPrice
    /\ objects = {"shm", "sem", "msg"}
    /\ mq = [t \in MsgTypes |-> <<>>]
    /\ sem = 1
    /\ semadj = [p \in Servers |-> 0]
    /\ sold = [i \in Items |-> 0]
    /\ restocked = [i \in Items |-> 0]
    /\ granted = [c \in Customers |-> [i \in Items |-> 0]]
    /\ interrupted = FALSE

MqTypeOK == /\ DOMAIN mq = MsgTypes
            /\ \A t \in MsgTypes : mq[t] \in Seq(Typed(t))

CommonTypeOK ==
    /\ quantity \in [Items -> Int]
    /\ price \in [Items -> Prices]
    /\ objects \subseteq {"shm", "sem", "msg"}
    /\ MqTypeOK
    /\ sem \in Nat
    /\ semadj \in [Servers -> Int]
    /\ sold \in [Items -> Nat]
    /\ restocked \in [Items -> Nat]
    /\ granted \in [Customers -> [Items -> Nat]]
    /\ interrupted \in BOOLEAN
=============================================================================
