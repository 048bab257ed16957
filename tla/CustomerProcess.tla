--------------------------- MODULE CustomerProcess ---------------------------
(***************************************************************************)
(* IPC/customer_process.c: one customer per terminal.  It reads the        *)
(* inventory without the semaphore, collects a cart, and at checkout sends *)
(* one order per cart line, waiting for one MSG_RESPONSE after each.  It   *)
(* takes the first response in the queue, whosever it is, and keeps the    *)
(* cart when a checkout fails half way.                                    *)
(***************************************************************************)
EXTENDS ShopCommon

VARIABLES
    custPc,         \* where each customer stands
    cart,           \* the item_count lines of cart.items, per customer
    slot,           \* cart.items[item_count], the line being filled in
    total,          \* cart.total_price
    idx             \* the loop index of checkout, counted from one

custVars == <<custPc, cart, slot, total, idx>>

CustPcs == {"off", "menu", "unit", "total", "send", "wait"}

CartLine == [item : Items, qty : OrderQty, unit : Nat]
NoLine   == [none |-> TRUE]

CustTypeOK ==
    /\ custPc \in [Customers -> CustPcs]
    /\ cart \in [Customers -> Seq(CartLine)]
    /\ slot \in [Customers -> CartLine \cup {NoLine}]
    /\ total \in [Customers -> Nat]
    /\ idx \in [Customers -> Nat]
    /\ \A c \in Customers :
        /\ Len(cart[c]) <= MaxCartItems
        /\ custPc[c] \in {"unit", "total"} =>
              slot[c] \in CartLine /\ Len(cart[c]) < MaxCartItems
        /\ custPc[c] \in {"send", "wait"} => idx[c] \in 1..Len(cart[c])

CustInit ==
    /\ custPc = [c \in Customers |-> "off"]
    /\ cart = [c \in Customers |-> <<>>]
    /\ slot = [c \in Customers |-> NoLine]
    /\ total = [c \in Customers |-> 0]
    /\ idx = [c \in Customers |-> 0]

GoTo(c, pc) == custPc' = [custPc EXCEPT ![c] = pc]

\* memset(&cart, 0, ...); the history of the cart ends with it.
EmptyCart(c) ==
    /\ cart' = [cart EXCEPT ![c] = <<>>]
    /\ slot' = [slot EXCEPT ![c] = NoLine]
    /\ total' = [total EXCEPT ![c] = 0]
    /\ granted' = [granted EXCEPT ![c] = [i \in Items |-> 0]]
    /\ UNCHANGED <<sold, restocked, interrupted>>

-----------------------------------------------------------------------------
(* main *)

CustomerStart(c) ==
    /\ custPc[c] = "off"
    /\ {"shm", "msg"} \subseteq objects
    /\ GoTo(c, "menu")
    /\ UNCHANGED <<cart, slot, total, idx, shared>>

CustomerGone(c) ==
    /\ GoTo(c, "off")
    /\ EmptyCart(c)
    /\ idx' = [idx EXCEPT ![c] = 0]
    /\ UNCHANGED <<store, objects, mq, semVars>>

CustomerExit(c) == custPc[c] = "menu" /\ CustomerGone(c)

\* The customer handles no signal: SIGINT ends it wherever it stands.
CustomerKill(c) ==
    /\ c \in Killable
    /\ custPc[c] # "off"
    /\ CustomerGone(c)

ClearCart(c) ==
    /\ custPc[c] = "menu"
    /\ cart[c] # <<>>
    /\ EmptyCart(c)
    /\ UNCHANGED <<custPc, idx, store, objects, mq, semVars>>

-----------------------------------------------------------------------------
(* add_to_cart, which reads the segment three times without the semaphore *)

\* Mutant of CartHasRoom: one line too many.
CartHasRoomOffByOne(c) == Len(cart[c]) <= MaxCartItems

CartHasRoom(c) == Len(cart[c]) < MaxCartItems

\* Too large a quantity, or an unknown name, only prints a message.
AddCheck(c) ==
    /\ custPc[c] = "menu"
    /\ CartHasRoom(c)
    /\ \E i \in Items, q \in OrderQty :
        /\ quantity[i] >= q
        /\ slot' = [slot EXCEPT ![c] = [item |-> i, qty |-> q, unit |-> 0]]
    /\ GoTo(c, "unit")
    /\ UNCHANGED <<cart, total, idx, shared>>

AddUnit(c) ==
    /\ custPc[c] = "unit"
    /\ slot' = [slot EXCEPT ![c].unit = price[slot[c].item]]
    /\ GoTo(c, "total")
    /\ UNCHANGED <<cart, total, idx, shared>>

AddTotal(c) ==
    /\ custPc[c] = "total"
    /\ total' = [total EXCEPT ![c] = @ + slot[c].qty * price[slot[c].item]]
    /\ cart' = [cart EXCEPT ![c] = Append(@, slot[c])]
    /\ slot' = [slot EXCEPT ![c] = NoLine]
    /\ GoTo(c, "menu")
    /\ UNCHANGED <<idx, shared>>

-----------------------------------------------------------------------------
(* checkout *)

Checkout(c) ==
    /\ custPc[c] = "menu"
    /\ cart[c] # <<>>
    /\ idx' = [idx EXCEPT ![c] = 1]
    /\ GoTo(c, "send")
    /\ UNCHANGED <<cart, slot, total, shared>>

OrderOf(c) == LET line == cart[c][idx[c]]
              IN  [item |-> line.item, qty |-> line.qty, customer |-> c,
                   status |-> FALSE, price |-> 0]

\* msgsnd without IPC_NOWAIT: waits while the queue is full.
SendOrder(c) ==
    /\ custPc[c] = "send"
    /\ QueueExists
    /\ ~QueueFull
    /\ Send("MSG_ORDER", OrderOf(c))
    /\ GoTo(c, "wait")
    /\ UNCHANGED <<cart, slot, total, idx, store, objects, semVars, history>>

\* all_success = 0: back to the menu with the cart as it was.
CheckoutFails(c) ==
    /\ GoTo(c, "menu")
    /\ idx' = [idx EXCEPT ![c] = 0]
    /\ UNCHANGED <<cart, slot, total, history>>

CheckoutSucceeds(c) ==
    /\ GoTo(c, "menu")
    /\ idx' = [idx EXCEPT ![c] = 0]
    /\ EmptyCart(c)

NextLine(c) ==
    /\ GoTo(c, "send")
    /\ idx' = [idx EXCEPT ![c] = @ + 1]
    /\ UNCHANGED <<cart, slot, total, history>>

\* Mutant of OrderAccepted: the status of the response is not looked at.
AnyResponse == TRUE

OrderAccepted == Head(mq["MSG_RESPONSE"]).status

RecvResponse(c) ==
    /\ custPc[c] = "wait"
    /\ HasMsg("MSG_RESPONSE")
    /\ Receive("MSG_RESPONSE")
    /\ \/ OrderAccepted /\ idx[c] = Len(cart[c]) /\ CheckoutSucceeds(c)
       \/ OrderAccepted /\ idx[c] # Len(cart[c]) /\ NextLine(c)
       \/ ~OrderAccepted /\ CheckoutFails(c)
    /\ UNCHANGED <<store, objects, semVars>>

\* EIDRM or EINVAL: the queue has been removed.
QueueGone(c) ==
    /\ custPc[c] \in {"send", "wait"}
    /\ ~QueueExists
    /\ CheckoutFails(c)
    /\ UNCHANGED <<store, objects, mq, semVars>>

\* What the user decides, and what the process does by itself.
CustomerInput(c) ==
    \/ CustomerStart(c) \/ CustomerExit(c) \/ ClearCart(c)
    \/ AddCheck(c) \/ Checkout(c)

CustomerStep(c) ==
    \/ AddUnit(c) \/ AddTotal(c)
    \/ SendOrder(c) \/ RecvResponse(c) \/ QueueGone(c)

CustomerNext(c) == CustomerInput(c) \/ CustomerStep(c) \/ CustomerKill(c)
=============================================================================
