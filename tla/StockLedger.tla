----------------------------- MODULE StockLedger -----------------------------
(***************************************************************************)
(* What the shop simulation promises, without semaphore, processes or      *)
(* message types: orders are decided one after the other, in the order in  *)
(* which they were placed, each in one step against the stock and the      *)
(* price of that moment, and answered in the order of the decisions.       *)
(***************************************************************************)
EXTENDS Integers, Sequences

CONSTANTS
    Items, Customers, Prices,
    OrderQty,       \* quantities a customer may order
    RestockQty      \* quantities that may be added

VARIABLES
    up,         \* is there a server?
    stock,      \* units on hand per item
    tag,        \* unit price per item
    orders,     \* orders placed and not decided
    answers     \* orders decided and not collected

vars == <<up, stock, tag, orders, answers>>

Request == [item : Items, qty : OrderQty, customer : Customers,
            status : {FALSE}, price : {0}]

Init ==
    /\ up = TRUE
    /\ stock \in [Items -> Nat]
    /\ tag \in [Items -> Prices]
    /\ orders = <<>>
    /\ answers = <<>>

Place ==
    /\ \E o \in Request : orders' = Append(orders, o)
    /\ UNCHANGED <<up, stock, tag, answers>>

\* All units of the order leave the stock, at the price of this moment.
Sell ==
    LET o == Head(orders)
    IN  /\ up
        /\ orders # <<>>
        /\ stock[o.item] >= o.qty
        /\ stock' = [stock EXCEPT ![o.item] = @ - o.qty]
        /\ orders' = Tail(orders)
        /\ answers' = Append(answers,
             [o EXCEPT !.status = TRUE, !.price = tag[o.item] * o.qty])
        /\ UNCHANGED <<up, tag>>

Reject ==
    /\ up
    /\ orders # <<>>
    /\ stock[Head(orders).item] < Head(orders).qty
    /\ orders' = Tail(orders)
    /\ answers' = Append(answers, Head(orders))
    /\ UNCHANGED <<up, stock, tag>>

Collect ==
    /\ answers # <<>>
    /\ answers' = Tail(answers)
    /\ UNCHANGED <<up, stock, tag, orders>>

Restock ==
    /\ \E i \in Items, n \in RestockQty : stock' = [stock EXCEPT ![i] = @ + n]
    /\ UNCHANGED <<up, tag, orders, answers>>

Reprice ==
    /\ \E i \in Items, p \in Prices : tag' = [tag EXCEPT ![i] = p]
    /\ UNCHANGED <<up, stock, orders, answers>>

\* The server dies with the order it works on, decided or not, but with no
\* other, or ends in order and drops everything.
Stop ==
    /\ up
    /\ up' = FALSE
    /\ \/ UNCHANGED <<orders, answers>>
       \/ orders # <<>> /\ orders' = Tail(orders) /\ UNCHANGED answers
       \/ /\ answers # <<>>
          /\ answers' = SubSeq(answers, 1, Len(answers) - 1)
          /\ UNCHANGED orders
       \/ orders' = <<>> /\ answers' = <<>>
    /\ UNCHANGED <<stock, tag>>

Next == Place \/ Sell \/ Reject \/ Collect \/ Restock \/ Reprice \/ Stop

Spec == Init /\ [][Next]_vars
=============================================================================
