-------------------------- MODULE InventoryManager --------------------------
(***************************************************************************)
(* IPC/inventory_manager.c: a main thread that views, restocks and prices  *)
(* under the semaphore, and a notifier thread that polls the queue for     *)
(* stock alerts.  Its sem_lock retries after a signal only while `running' *)
(* holds; otherwise it returns and the caller goes on without the lock.    *)
(* The mutex of the two threads guards only what they print.               *)
(***************************************************************************)
EXTENDS ShopCommon

VARIABLES
    mgrPc,          \* where the main thread stands
    mgrOp,          \* the menu choice it serves
    mgrItem,        \* item_name the user typed
    mgrQty,         \* quantity the user typed
    mgrTmp,         \* what the main thread read of the item's quantity
    mgrRunning,     \* running
    notPc           \* which msgrcv the notifier thread is at

mgrVars == <<mgrPc, mgrOp, mgrItem, mgrQty, mgrTmp, mgrRunning, notPc>>

MgrOps == {"view", "restock", "price"}

MgrLockPcs == {"lockView", "lockUpdate"}
MgrCS      == {"display", "load", "store", "setPrice", "unlock"}
MgrPcs     == {"off", "loop", "menu", "input", "join"} \cup MgrLockPcs \cup MgrCS

MgrTypeOK ==
    /\ mgrPc \in MgrPcs
    /\ mgrOp \in MgrOps
    /\ mgrItem \in Items \cup {NoItem}
    /\ mgrPc \in {"load", "store", "setPrice"} => mgrItem \in Items
    /\ mgrQty \in RestockQty \cup {0}
    /\ mgrTmp \in Int
    /\ mgrRunning \in BOOLEAN
    /\ notPc \in {"off", "low", "out"}

MgrInit ==
    /\ mgrPc = "off"
    /\ mgrOp = "view"
    /\ mgrItem = NoItem
    /\ mgrQty = 0
    /\ mgrTmp = 0
    /\ mgrRunning = TRUE
    /\ notPc = "off"

\* Locals go out of scope: their values are forgotten.
MgrReturn(pc) ==
    /\ mgrPc' = pc
    /\ mgrOp' = "view"
    /\ mgrItem' = NoItem
    /\ mgrQty' = 0
    /\ mgrTmp' = 0

mgrArgs == <<mgrOp, mgrItem, mgrQty, mgrTmp>>

-----------------------------------------------------------------------------
(* main *)

\* Without any of the three objects a CHECK of the start-up ends it.
MgrStart ==
    /\ mgrPc = "off"
    /\ objects = {"shm", "sem", "msg"}
    /\ mgrPc' = "loop"
    /\ mgrRunning' = TRUE
    /\ notPc' = "low"
    /\ UNCHANGED <<mgrArgs, shared>>

\* while (running); after it running = 0 and pthread_join.
MgrLoop ==
    /\ mgrPc = "loop"
    /\ mgrPc' = IF mgrRunning THEN "menu" ELSE "join"
    /\ UNCHANGED <<mgrArgs, mgrRunning, notPc, shared>>

\* scanf returns a choice; running is tested again before it is served.
MgrChoose ==
    /\ mgrPc = "menu"
    /\ mgrRunning
    /\ mgrOp' \in MgrOps
    /\ mgrPc' = "lockView"
    /\ UNCHANGED <<mgrItem, mgrQty, mgrTmp, mgrRunning, notPc, shared>>

\* Choice 4, or any choice once running is 0.
MgrQuit ==
    /\ mgrPc = "menu"
    /\ mgrPc' = "join"
    /\ mgrRunning' = FALSE
    /\ UNCHANGED <<mgrArgs, notPc, shared>>

\* pthread_join returns when the notifier has; the exit applies SEM_UNDO.
MgrExit ==
    /\ mgrPc = "join"
    /\ notPc = "off"
    /\ mgrPc' = "off"
    /\ SemUndo("mgr")
    /\ UNCHANGED <<mgrArgs, mgrRunning, notPc, store, objects, mq, history>>

-----------------------------------------------------------------------------
(* display_inventory, restock_item, update_price *)

\* Where sem_lock returns to: the display, or the update if the name exists.
AfterLock ==
    IF mgrPc = "lockView" THEN "display"
    ELSE IF mgrItem = NoItem THEN "unlock"
    ELSE IF mgrOp = "restock" THEN "load"
    ELSE "setPrice"

MgrLock ==
    /\ mgrPc \in MgrLockPcs
    /\ SemTake("mgr")
    /\ mgrPc' = AfterLock
    /\ UNCHANGED <<mgrArgs, mgrRunning, notPc, store, objects, mq, history>>

\* semop fails with EIDRM or EINVAL: sem_lock only prints the error.
MgrLockFails ==
    /\ mgrPc \in MgrLockPcs
    /\ ~SemExists
    /\ mgrPc' = AfterLock
    /\ UNCHANGED <<mgrArgs, mgrRunning, notPc, shared>>

\* Prints the table and releases the semaphore.
MgrDisplay ==
    /\ mgrPc = "display"
    /\ SemGive("mgr")
    /\ IF mgrOp = "view"
       THEN MgrReturn("loop")
       ELSE mgrPc' = "input" /\ UNCHANGED mgrArgs
    /\ UNCHANGED <<mgrRunning, notPc, store, objects, mq, history>>

MgrInput ==
    /\ mgrPc = "input"
    /\ mgrItem' \in Items \cup {NoItem}
    /\ mgrQty' \in IF mgrOp = "restock" THEN RestockQty ELSE {0}
    /\ mgrItem' \in Items => restocked[mgrItem'] + mgrQty' <= MaxRestock
    /\ mgrPc' = "lockUpdate"
    /\ UNCHANGED <<mgrOp, mgrTmp, mgrRunning, notPc, shared>>

MgrInputInvalid ==
    /\ mgrPc = "input"
    /\ MgrReturn("loop")
    /\ UNCHANGED <<mgrRunning, notPc, shared>>

\* quantity += n reads the quantity and then writes the sum.
MgrLoad ==
    /\ mgrPc = "load"
    /\ mgrTmp' = quantity[mgrItem]
    /\ mgrPc' = "store"
    /\ UNCHANGED <<mgrOp, mgrItem, mgrQty, mgrRunning, notPc, shared>>

MgrStore ==
    /\ mgrPc = "store"
    /\ quantity' = [quantity EXCEPT ![mgrItem] = mgrTmp + mgrQty]
    /\ restocked' = [restocked EXCEPT ![mgrItem] = @ + mgrQty]
    /\ mgrPc' = "unlock"
    /\ UNCHANGED <<mgrArgs, mgrRunning, notPc, price, objects, mq, semVars,
                   sold, granted, interrupted>>

MgrSetPrice ==
    /\ mgrPc = "setPrice"
    /\ \E p \in Prices : price' = [price EXCEPT ![mgrItem] = p]
    /\ mgrPc' = "unlock"
    /\ UNCHANGED <<mgrArgs, mgrRunning, notPc, quantity, objects, mq, semVars,
                   history>>

MgrUnlock ==
    /\ mgrPc = "unlock"
    /\ SemGive("mgr")
    /\ MgrReturn("loop")
    /\ UNCHANGED <<mgrRunning, notPc, store, objects, mq, history>>

-----------------------------------------------------------------------------
(* The notifier thread: while (running), LOW first, then OUT *)

NotifierLow ==
    /\ notPc = "low"
    /\ mgrRunning
    /\ \/ /\ HasMsg("MSG_NOTIFY_LOW_STOCK")
          /\ Receive("MSG_NOTIFY_LOW_STOCK")
          /\ UNCHANGED notPc
       \/ /\ ~HasMsg("MSG_NOTIFY_LOW_STOCK")
          /\ notPc' = "out"
          /\ UNCHANGED mq
    /\ UNCHANGED <<mgrPc, mgrArgs, mgrRunning, store, objects, semVars, history>>

\* Mutant of NotifierOut: the second msgrcv is left out.
NotifierNeverOut ==
    /\ notPc = "out"
    /\ notPc' = "low"
    /\ UNCHANGED <<mgrPc, mgrArgs, mgrRunning, shared>>

NotifierOut ==
    /\ notPc = "out"
    /\ \/ /\ HasMsg("MSG_NOTIFY_OUT_OF_STOCK")
          /\ Receive("MSG_NOTIFY_OUT_OF_STOCK")
       \/ /\ ~HasMsg("MSG_NOTIFY_OUT_OF_STOCK")
          /\ UNCHANGED mq
    /\ notPc' = "low"
    /\ UNCHANGED <<mgrPc, mgrArgs, mgrRunning, store, objects, semVars, history>>

NotifierLeave ==
    /\ notPc = "low"
    /\ ~mgrRunning
    /\ notPc' = "off"
    /\ UNCHANGED <<mgrPc, mgrArgs, mgrRunning, shared>>

-----------------------------------------------------------------------------
(* Signals *)

\* The handler interrupts no blocking call: it runs on the notifier thread,
\* or between the test of running and the call.
MgrSignal ==
    /\ MgrSignals
    /\ mgrPc # "off"
    /\ mgrRunning
    /\ mgrRunning' = FALSE
    /\ UNCHANGED <<mgrPc, mgrArgs, notPc, shared>>

\* The handler interrupts scanf, which fails.
MgrSignalInRead ==
    /\ MgrSignals
    /\ mgrRunning' = FALSE
    /\ \/ mgrPc = "menu" /\ mgrPc' = "join" /\ UNCHANGED mgrArgs
       \/ mgrPc = "input" /\ MgrReturn("loop")
    /\ UNCHANGED <<notPc, shared>>

\* The handler interrupts a semop that waits: EINTR with running = 0, so
\* sem_lock returns and the caller enters the critical section.
MgrSignalInLock ==
    /\ MgrSignals
    /\ mgrPc \in MgrLockPcs
    /\ SemExists
    /\ sem = 0
    /\ mgrRunning' = FALSE
    /\ mgrPc' = AfterLock
    /\ interrupted' = TRUE
    /\ UNCHANGED <<mgrArgs, notPc, store, objects, mq, semVars,
                   sold, restocked, granted>>

MgrKill ==
    /\ "mgr" \in Killable
    /\ mgrPc # "off"
    /\ MgrReturn("off")
    /\ notPc' = "off"
    /\ SemUndo("mgr")
    /\ UNCHANGED <<mgrRunning, store, objects, mq, history>>

-----------------------------------------------------------------------------
MgrUser == MgrStart \/ MgrChoose \/ MgrQuit \/ MgrInput \/ MgrInputInvalid

MgrStep ==
    \/ MgrLoop \/ MgrExit \/ MgrLock \/ MgrLockFails
    \/ MgrDisplay \/ MgrLoad \/ MgrStore \/ MgrSetPrice \/ MgrUnlock

Notifier == NotifierLow \/ NotifierOut \/ NotifierLeave

MgrNext ==
    \/ MgrUser \/ MgrStep \/ Notifier
    \/ MgrSignal \/ MgrSignalInRead \/ MgrSignalInLock \/ MgrKill
=============================================================================
