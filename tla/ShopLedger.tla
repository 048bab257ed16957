----------------------------- MODULE ShopLedger -----------------------------
(***************************************************************************)
(* The shop simulation implements the ledger.  The order in process_order  *)
(* still belongs to the orders until the stock is written, or found too    *)
(* small, and to the answers from then on.                                 *)
(***************************************************************************)
EXTENDS ShopSystem

InHand(pcs) == IF shopPc \in pcs THEN <<order>> ELSE <<>>

Undecided == InHand({"lock", "check", "load", "store"})
Decided   == InHand({"notify", "unlock", "respond"})

Ledger == INSTANCE StockLedger WITH
    RestockQty <- RestockQty \cup {0},
    up         <- shopPc # "off",
    stock      <- quantity,
    tag        <- price,
    orders     <- Undecided \o mq["MSG_ORDER"],
    answers    <- mq["MSG_RESPONSE"] \o Decided

\* The locked, stepwise work of process_order and of the manager, over a
\* shared segment and a queue that customers fill and empty at any time, is a
\* sequence of atomic decisions, restocks and price changes, in the order of
\* the queue, until a signal makes the manager's sem_lock return without the
\* lock.
ImplementsLedger ==
    Ledger!Init /\ [][Ledger!Next \/ interrupted]_(Ledger!vars)
=============================================================================
