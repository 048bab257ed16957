----------------------------- MODULE ShopProofs -----------------------------
(***************************************************************************)
(* The shop simulation for every number of customers and items, every      *)
(* stock, queue capacity and cart size, and with any signals and kills:    *)
(* its safety; that it implements StockLedger; and that every customer     *)
(* that waits in checkout has an order or an answer on the way, also while *)
(* they take each other's answers.                                         *)
(***************************************************************************)
EXTENDS ShopLedger, SequenceTheorems, FiniteSetTheorems, WellFoundedInduction,
        TLAPS

-----------------------------------------------------------------------------
(* The message queue *)

LEMMA SendType ==
    ASSUME MqTypeOK, NEW t \in MsgTypes, NEW m \in Typed(t), Send(t, m)
    PROVE  MqTypeOK'
BY DEF MqTypeOK, Send

LEMMA ReceiveType ==
    ASSUME MqTypeOK, NEW t \in MsgTypes, mq[t] # <<>>
    PROVE  /\ Head(mq[t]) \in Typed(t)
           /\ Receive(t) => MqTypeOK'
<1>1. mq[t] \in Seq(Typed(t))
  BY DEF MqTypeOK
<1>2. Head(mq[t]) \in Typed(t) /\ Tail(mq[t]) \in Seq(Typed(t))
  BY <1>1, HeadTailProperties
<1> QED
  BY <1>2 DEF MqTypeOK, Receive

LEMMA EmptyType ==
    ASSUME mq' = [t \in MsgTypes |-> <<>>]
    PROVE  MqTypeOK'
BY DEF MqTypeOK

-----------------------------------------------------------------------------
(* The semaphore *)

SemTypeOK == sem \in Nat /\ semadj \in [Servers -> Int]

LEMMA SemType ==
    ASSUME SemTypeOK, NEW p \in Servers, SemTake(p) \/ SemGive(p) \/ SemUndo(p)
    PROVE  SemTypeOK'
<1>1. CASE SemTake(p)
  BY <1>1 DEF SemTypeOK, SemTake
<1>2. CASE SemGive(p)
  BY <1>2 DEF SemTypeOK, SemGive, semVars
<1>3. CASE SemUndo(p)
  <2>1. semadj[p] \in Int
    BY DEF SemTypeOK
  <2>2. sem' \in Nat
    BY <1>3, <2>1 DEF SemTypeOK, SemUndo
  <2> QED
    BY <1>3, <2>1, <2>2 DEF SemTypeOK, SemUndo
<1> QED
  BY <1>1, <1>2, <1>3

-----------------------------------------------------------------------------
(* Type correctness *)

LEMMA TypeInit == Init => TypeOK
<1> SUFFICES ASSUME Init PROVE TypeOK
  OBVIOUS
<1>1. CommonTypeOK
  <2>1. MqTypeOK
    BY DEF Init, CommonInit, MqTypeOK
  <2>2. semadj \in [Servers -> Int]
    BY DEF Init, CommonInit
  <2>3. quantity \in [Items -> Int] /\ price \in [Items -> Prices]
    BY QuantityAssumption DEF Init, CommonInit
  <2>4. /\ sold \in [Items -> Nat] /\ restocked \in [Items -> Nat]
        /\ granted \in [Customers -> [Items -> Nat]]
    BY DEF Init, CommonInit
  <2> QED
    BY <2>1, <2>2, <2>3, <2>4 DEF Init, CommonInit, CommonTypeOK
<1>2. ShopTypeOK
  BY DEF Init, ShopInit, ShopTypeOK, ShopPcs, ShopCS
<1>3. CustTypeOK
  BY QuantityAssumption DEF Init, CustInit, CustTypeOK, CustPcs
<1>4. MgrTypeOK
  BY DEF Init, MgrInit, MgrTypeOK, MgrPcs, MgrOps, MgrCS, MgrLockPcs
<1> QED
  BY <1>1, <1>2, <1>3, <1>4 DEF TypeOK

LEMMA TypeShop ==
    ASSUME TypeOK, ShopNext
    PROVE  CommonTypeOK' /\ ShopTypeOK'
<1> USE DEF TypeOK, ShopTypeOK, ShopPcs, ShopCS
<1>0. CommonTypeOK /\ ShopTypeOK
  OBVIOUS
<1>1. CASE ShopReceive
  <2>1. MqTypeOK' /\ Head(mq["MSG_ORDER"]) \in OrderMsg
    BY <1>1, ReceiveType DEF ShopReceive, HasMsg, CommonTypeOK, MsgTypes, Typed
  <2>2. order' \in OrderMsg
    BY <1>1, <2>1 DEF ShopReceive, OrderMsg
  <2> QED
    BY <1>1, <2>1, <2>2
       DEF ShopReceive, CommonTypeOK, store, semVars, history
<1>2. CASE ShopLock
  <2>1. SemTypeOK'
    BY <1>2, SemType DEF ShopLock, SemTypeOK, CommonTypeOK, Servers
  <2> QED
    BY <1>2, <2>1 DEF ShopLock, SemTypeOK, CommonTypeOK, MqTypeOK, store, history
<1>3. CASE ShopCheck
  BY <1>3 DEF ShopCheck, CommonTypeOK, MqTypeOK, shared, store, semVars, history
<1>4. CASE ShopLoad
  <2>1. newQty' \in Int
    BY <1>4 DEF ShopLoad, CommonTypeOK, OrderMsg
  <2> QED
    BY <1>4, <2>1
       DEF ShopLoad, CommonTypeOK, MqTypeOK, shared, store, semVars, history
<1>5. CASE ShopStore
  <2>1. order \in OrderMsg /\ order.item \in Items /\ order.qty \in Nat
        /\ order.customer \in Customers
    BY <1>5 DEF ShopStore, OrderMsg
  <2>2. price[order.item] * order.qty \in Nat
    <3>1. price[order.item] \in Nat
      BY <2>1, QuantityAssumption DEF CommonTypeOK
    <3> QED
      BY <2>1, <3>1
  <2>3. order' \in OrderMsg
    BY <1>5, <2>1, <2>2 DEF ShopStore, OrderMsg
  <2>4. quantity' \in [Items -> Int] /\ sold' \in [Items -> Nat]
    BY <1>5, <2>1 DEF ShopStore, CommonTypeOK
  <2>5. granted' \in [Customers -> [Items -> Nat]]
    BY <1>5, <2>1 DEF ShopStore, CommonTypeOK
  <2> QED
    BY <1>5, <2>3, <2>4, <2>5
       DEF ShopStore, CommonTypeOK, MqTypeOK, semVars
<1>6. CASE ShopNotify
  <2>1. [item |-> order.item, qty |-> newQty] \in NotifyMsg
    BY <1>6 DEF ShopNotify, OrderMsg, NotifyMsg
  <2>2. MqTypeOK'
    <3>1. /\ MqTypeOK
          /\ \/ Send("MSG_NOTIFY_OUT_OF_STOCK", [item |-> order.item, qty |-> newQty])
             \/ Send("MSG_NOTIFY_LOW_STOCK", [item |-> order.item, qty |-> newQty])
             \/ UNCHANGED mq
      BY <1>6 DEF ShopNotify, SendNotification, CommonTypeOK
    <3>2. CASE UNCHANGED mq
      BY <3>1, <3>2 DEF MqTypeOK
    <3> QED
      BY <2>1, <3>1, <3>2, SendType DEF MsgTypes, Typed
  <2> QED
    BY <1>6, <2>2
       DEF ShopNotify, CommonTypeOK, store, semVars, history
<1>7. CASE ShopUnlock
  <2>1. SemTypeOK'
    BY <1>7, SemType DEF ShopUnlock, SemTypeOK, CommonTypeOK, Servers
  <2> QED
    BY <1>7, <2>1
       DEF ShopUnlock, SemTypeOK, CommonTypeOK, MqTypeOK, store, history
<1>8. CASE ShopRespond
  <2>1. MqTypeOK'
    BY <1>8, SendType DEF ShopRespond, CommonTypeOK, MsgTypes, Typed
  <2> QED
    BY <1>8, <2>1 DEF ShopRespond, CommonTypeOK, store, semVars, history
<1>9. CASE ShopSignal
  BY <1>9 DEF ShopSignal, CommonTypeOK, MqTypeOK, shared, store, semVars, history
<1>10. CASE ShopSignalBlocked
  <2>1. SemTypeOK'
    BY <1>10, SemType DEF ShopSignalBlocked, SemTypeOK, CommonTypeOK, Servers
  <2>2. CommonTypeOK'
    BY <1>10, <2>1
       DEF ShopSignalBlocked, SemTypeOK, CommonTypeOK, MqTypeOK, store, history
  <2>3. ShopTypeOK'
    <3>1. shopRunning' \in BOOLEAN
      BY <1>10 DEF ShopSignalBlocked
    <3>2. shopPc' = "off" /\ order' = NoOrder /\ newQty' = 0
      BY <1>10 DEF ShopSignalBlocked, ShopDown
    <3> QED
      BY <3>1, <3>2
  <2> QED
    BY <2>2, <2>3
<1>11. CASE ShopLeave
  BY <1>11 DEF ShopLeave, CommonTypeOK, MqTypeOK, shared, store, semVars, history
<1>12. CASE ShopRemoveShm
  BY <1>12 DEF ShopRemoveShm, CommonTypeOK, MqTypeOK, store, semVars, history
<1>13. CASE ShopRemoveSem
  <2>1. SemTypeOK'
    BY <1>13 DEF ShopRemoveSem, SemTypeOK
  <2> QED
    BY <1>13, <2>1
       DEF ShopRemoveSem, SemTypeOK, CommonTypeOK, MqTypeOK, store, history
<1>14. CASE ShopRemoveMsg
  <2>1. MqTypeOK'
    BY <1>14, EmptyType DEF ShopRemoveMsg
  <2> QED
    BY <1>14, <2>1
       DEF ShopRemoveMsg, ShopDown, CommonTypeOK, store, semVars, history
<1>15. CASE ShopKill
  <2>1. SemTypeOK'
    BY <1>15, SemType DEF ShopKill, SemTypeOK, CommonTypeOK, Servers
  <2> QED
    BY <1>15, <2>1 DEF ShopKill, ShopDown, SemTypeOK, CommonTypeOK, MqTypeOK,
                       store, history
<1> QED
  BY <1>1, <1>2, <1>3, <1>4, <1>5, <1>6, <1>7, <1>8, <1>9, <1>10, <1>11, <1>12,
     <1>13, <1>14, <1>15 DEF ShopNext, ShopStep

LEMMA TypeManager ==
    ASSUME TypeOK, MgrNext
    PROVE  CommonTypeOK' /\ MgrTypeOK'
<1> USE DEF TypeOK, MgrTypeOK, MgrPcs, MgrCS, MgrLockPcs, MgrOps, mgrArgs
<1>0. CommonTypeOK /\ MgrTypeOK
  OBVIOUS
<1>1. CASE MgrStart \/ MgrLoop \/ MgrChoose \/ MgrQuit
  BY <1>1 DEF MgrStart, MgrLoop, MgrChoose, MgrQuit, CommonTypeOK, MqTypeOK,
              shared, store, semVars, history
<1>2. CASE MgrExit
  <2>1. SemTypeOK'
    BY <1>2, SemType DEF MgrExit, SemTypeOK, CommonTypeOK, Servers
  <2> QED
    BY <1>2, <2>1
       DEF MgrExit, SemTypeOK, CommonTypeOK, MqTypeOK, store, history
<1>3. CASE MgrLock
  <2>1. SemTypeOK'
    BY <1>3, SemType DEF MgrLock, SemTypeOK, CommonTypeOK, Servers
  <2> QED
    BY <1>3, <2>1
       DEF MgrLock, AfterLock, SemTypeOK, CommonTypeOK, MqTypeOK, store, history
<1>4. CASE MgrLockFails
  BY <1>4 DEF MgrLockFails, AfterLock, CommonTypeOK, MqTypeOK, shared, store,
              semVars, history
<1>5. CASE MgrDisplay
  <2>1. SemTypeOK'
    BY <1>5, SemType DEF MgrDisplay, SemTypeOK, CommonTypeOK, Servers
  <2> QED
    BY <1>5, <2>1 DEF MgrDisplay, MgrReturn, SemTypeOK, CommonTypeOK, MqTypeOK,
                      store, history
<1>6. CASE MgrInput
  BY <1>6 DEF MgrInput, CommonTypeOK, MqTypeOK, shared, store, semVars, history
<1>7. CASE MgrInputInvalid
  BY <1>7 DEF MgrInputInvalid, MgrReturn, CommonTypeOK, MqTypeOK, shared, store,
              semVars, history
<1>8. CASE MgrLoad
  BY <1>8 DEF MgrLoad, CommonTypeOK, MqTypeOK, shared, store, semVars, history
<1>9. CASE MgrStore
  <2>1. mgrItem \in Items /\ mgrQty \in Nat
    BY <1>9, QuantityAssumption DEF MgrStore
  <2>2. quantity' \in [Items -> Int] /\ restocked' \in [Items -> Nat]
    BY <1>9, <2>1 DEF MgrStore, CommonTypeOK
  <2> QED
    BY <1>9, <2>2 DEF MgrStore, CommonTypeOK, MqTypeOK, semVars
<1>10. CASE MgrSetPrice
  <2>1. price' \in [Items -> Prices]
    BY <1>10 DEF MgrSetPrice, CommonTypeOK
  <2> QED
    BY <1>10, <2>1 DEF MgrSetPrice, CommonTypeOK, MqTypeOK, semVars, history
<1>11. CASE MgrUnlock
  <2>1. SemTypeOK'
    BY <1>11, SemType DEF MgrUnlock, SemTypeOK, CommonTypeOK, Servers
  <2> QED
    BY <1>11, <2>1 DEF MgrUnlock, MgrReturn, SemTypeOK, CommonTypeOK, MqTypeOK,
                       store, history
<1>12. CASE NotifierLow
  <2>1. MqTypeOK'
    BY <1>12, ReceiveType
       DEF NotifierLow, HasMsg, CommonTypeOK, MsgTypes, MqTypeOK
  <2> QED
    BY <1>12, <2>1 DEF NotifierLow, CommonTypeOK, store, semVars, history
<1>13. CASE NotifierOut
  <2>1. MqTypeOK'
    BY <1>13, ReceiveType
       DEF NotifierOut, HasMsg, CommonTypeOK, MsgTypes, MqTypeOK
  <2> QED
    BY <1>13, <2>1 DEF NotifierOut, CommonTypeOK, store, semVars, history
<1>14. CASE NotifierLeave
  BY <1>14 DEF NotifierLeave, CommonTypeOK, MqTypeOK, shared, store, semVars,
               history
<1>15. CASE MgrSignal
  BY <1>15 DEF MgrSignal, CommonTypeOK, MqTypeOK, shared, store, semVars, history
<1>16. CASE MgrSignalInRead
  <2>1. mgrRunning' \in BOOLEAN
    BY <1>16 DEF MgrSignalInRead
  <2>2. CommonTypeOK'
    BY <1>16 DEF MgrSignalInRead, CommonTypeOK, MqTypeOK, shared, store, semVars,
                 history
  <2>3. MgrTypeOK'
    BY <1>16, <2>1 DEF MgrSignalInRead, MgrReturn
  <2> QED
    BY <2>2, <2>3
<1>17. CASE MgrSignalInLock
  BY <1>17 DEF MgrSignalInLock, AfterLock, CommonTypeOK, MqTypeOK, store, semVars
<1>18. CASE MgrKill
  <2>1. SemTypeOK'
    BY <1>18, SemType DEF MgrKill, SemTypeOK, CommonTypeOK, Servers
  <2> QED
    BY <1>18, <2>1 DEF MgrKill, MgrReturn, SemTypeOK, CommonTypeOK, MqTypeOK,
                       store, history
<1> QED
  BY <1>1, <1>2, <1>3, <1>4, <1>5, <1>6, <1>7, <1>8, <1>9, <1>10, <1>11, <1>12,
     <1>13, <1>14, <1>15, <1>16, <1>17, <1>18
     DEF MgrNext, MgrUser, MgrStep, Notifier

LEMMA TypeCustomer ==
    ASSUME TypeOK, NEW c \in Customers, CustomerNext(c)
    PROVE  CommonTypeOK' /\ CustTypeOK'
<1> USE DEF TypeOK, CustTypeOK, CustPcs, GoTo
<1>0. CommonTypeOK /\ CustTypeOK
  OBVIOUS
<1>1. ASSUME EmptyCart(c)
      PROVE  /\ cart' \in [Customers -> Seq(CartLine)]
             /\ slot' \in [Customers -> CartLine \cup {NoLine}]
             /\ total' \in [Customers -> Nat]
             /\ granted' \in [Customers -> [Items -> Nat]]
             /\ cart'[c] = <<>> /\ Len(cart'[c]) <= MaxCartItems
             /\ \A d \in Customers \ {c} : cart'[d] = cart[d] /\ slot'[d] = slot[d]
  BY <1>1, QuantityAssumption DEF EmptyCart, CommonTypeOK
<1>2. CASE CustomerStart(c)
  BY <1>2 DEF CustomerStart, CommonTypeOK, MqTypeOK, shared, store, semVars,
              history
<1>3. CASE CustomerExit(c) \/ CustomerKill(c)
  <2>1. CustomerGone(c)
    BY <1>3 DEF CustomerExit, CustomerKill
  <2>2. CommonTypeOK'
    BY <1>1, <2>1
       DEF CustomerGone, EmptyCart, CommonTypeOK, MqTypeOK, store, semVars
  <2>3. EmptyCart(c)
    BY <2>1 DEF CustomerGone
  <2>4. CustTypeOK'
    BY <1>1, <2>1, <2>3 DEF CustomerGone
  <2> QED
    BY <2>2, <2>4
<1>4. CASE ClearCart(c)
  <2>1. CommonTypeOK'
    BY <1>1, <1>4 DEF ClearCart, EmptyCart, CommonTypeOK, MqTypeOK, store, semVars
  <2>2. CustTypeOK'
    BY <1>1, <1>4 DEF ClearCart
  <2> QED
    BY <2>1, <2>2
<1>5. CASE AddCheck(c)
  <2>1. PICK i \in Items, q \in OrderQty :
            slot' = [slot EXCEPT ![c] = [item |-> i, qty |-> q, unit |-> 0]]
    BY <1>5 DEF AddCheck
  <2>2. slot'[c] \in CartLine /\ slot' \in [Customers -> CartLine \cup {NoLine}]
    BY <2>1 DEF CartLine
  <2> QED
    BY <1>5, <2>1, <2>2 DEF CartHasRoom, AddCheck, CartHasRoom, CommonTypeOK, MqTypeOK, shared, store,
                            semVars, history
<1>6. CASE AddUnit(c)
  <2>1. slot[c] \in CartLine /\ price[slot[c].item] \in Nat
    BY <1>6, QuantityAssumption DEF AddUnit, CartLine, CommonTypeOK
  <2>2. slot'[c] \in CartLine /\ slot' \in [Customers -> CartLine \cup {NoLine}]
    BY <1>6, <2>1 DEF AddUnit, CartLine
  <2> QED
    BY <1>6, <2>2 DEF AddUnit, CommonTypeOK, MqTypeOK, shared, store, semVars,
                      history
<1>7. CASE AddTotal(c)
  <2>1. slot[c] \in CartLine /\ slot[c].qty \in Nat /\ price[slot[c].item] \in Nat
    BY <1>7, QuantityAssumption DEF AddTotal, CartLine, CommonTypeOK
  <2>2. slot[c].qty * price[slot[c].item] \in Nat
    BY <2>1
  <2>3. total' \in [Customers -> Nat]
    BY <1>7, <2>2 DEF AddTotal
  <2>4. /\ Append(cart[c], slot[c]) \in Seq(CartLine)
        /\ Len(Append(cart[c], slot[c])) <= MaxCartItems
    BY <1>7, <2>1, AppendProperties, QuantityAssumption DEF AddTotal
  <2>5. /\ cart' \in [Customers -> Seq(CartLine)]
        /\ cart'[c] = Append(cart[c], slot[c])
        /\ \A d \in Customers \ {c} : cart'[d] = cart[d]
    BY <1>7, <2>4 DEF AddTotal
  <2> QED
    BY <1>7, <2>3, <2>4, <2>5
       DEF AddTotal, CommonTypeOK, MqTypeOK, shared, store, semVars, history
<1>8. CASE Checkout(c)
  <2>1. 1 \in 1..Len(cart[c])
    BY <1>8, EmptySeq, LenProperties DEF Checkout
  <2> QED
    BY <1>8, <2>1 DEF Checkout, CommonTypeOK, MqTypeOK, shared, store, semVars,
                      history
<1>9. CASE SendOrder(c)
  <2>1. cart[c][idx[c]] \in CartLine
    BY <1>9 DEF SendOrder
  <2>2. OrderOf(c) \in OrderMsg
    BY <2>1, QuantityAssumption DEF OrderOf, OrderMsg, CartLine
  <2>3. MqTypeOK'
    BY <1>9, <2>2, SendType DEF SendOrder, CommonTypeOK, MsgTypes, Typed
  <2> QED
    BY <1>9, <2>3 DEF SendOrder, CommonTypeOK, store, semVars, history
<1>10. CASE RecvResponse(c)
  <2>1. MqTypeOK'
    BY <1>10, ReceiveType DEF RecvResponse, HasMsg, CommonTypeOK, MsgTypes
  <2>2. CASE CheckoutSucceeds(c)
    <3>1. CommonTypeOK'
      BY <1>1, <1>10, <2>1, <2>2 DEF RecvResponse, CheckoutSucceeds, EmptyCart,
                                     CommonTypeOK, store, semVars
    <3>2. CustTypeOK'
      BY <1>1, <2>2 DEF CheckoutSucceeds
    <3> QED
      BY <3>1, <3>2
  <2>3. CASE CheckoutFails(c)
    BY <1>10, <2>1, <2>3 DEF RecvResponse, CheckoutFails, CommonTypeOK, store,
                             semVars, history
  <2>4. CASE idx[c] # Len(cart[c]) /\ NextLine(c)
    <3>1. Len(cart[c]) \in Nat /\ idx[c] \in 1..Len(cart[c])
      BY <1>10 DEF RecvResponse
    <3>2. idx[c] + 1 \in 1..Len(cart[c])
      BY <2>4, <3>1
    <3> QED
      BY <1>10, <2>1, <2>4, <3>2 DEF RecvResponse, NextLine, CommonTypeOK, store,
                                     semVars, history
  <2> QED
    BY <1>10, <2>2, <2>3, <2>4 DEF RecvResponse
<1>11. CASE QueueGone(c)
  BY <1>11 DEF QueueGone, CheckoutFails, CommonTypeOK, MqTypeOK, store, semVars,
               history
<1> QED
  BY <1>2, <1>3, <1>4, <1>5, <1>6, <1>7, <1>8, <1>9, <1>10, <1>11
     DEF CustomerNext, CustomerInput, CustomerStep

LEMMA TypeStep == TypeOK /\ [Next]_vars => TypeOK'
<1> SUFFICES ASSUME TypeOK, [Next]_vars PROVE TypeOK'
  OBVIOUS
<1>1. CASE Shop
  BY <1>1, TypeShop DEF Shop, TypeOK, CustTypeOK, MgrTypeOK, custVars, mgrVars
<1>2. CASE Manager
  BY <1>2, TypeManager
     DEF Manager, TypeOK, ShopTypeOK, CustTypeOK, shopVars, custVars
<1>3. ASSUME NEW c \in Customers, Customer(c) PROVE TypeOK'
  BY <1>3, TypeCustomer
     DEF Customer, TypeOK, ShopTypeOK, MgrTypeOK, shopVars, mgrVars
<1>4. CASE UNCHANGED vars
  BY <1>4 DEF vars, shared, store, semVars, history, shopVars, custVars, mgrVars,
              TypeOK, CommonTypeOK, MqTypeOK, ShopTypeOK, CustTypeOK, MgrTypeOK
<1> QED
  BY <1>1, <1>2, <1>3, <1>4 DEF Next

\* Type correctness of the whole system, with the facts about live locals.
THEOREM TypeCorrect == Spec => []TypeOK
BY TypeInit, TypeStep, PTL DEF Spec

-----------------------------------------------------------------------------
(* The semaphore and the two critical sections *)

LEMMA LockFacts ==
    ASSUME TypeOK
    PROVE  /\ sem \in Nat /\ semadj \in [Servers -> Int]
           /\ semadj["shop"] \in Int /\ semadj["mgr"] \in Int
           /\ "shop" \in Servers /\ "mgr" \in Servers
BY DEF TypeOK, CommonTypeOK, Servers

LEMMA LockInit == Init => LockInv
BY DEF Init, CommonInit, ShopInit, MgrInit, LockInv, SemAccounting, SemExists,
       ShopInCS, MgrInCS, ShopCS, MgrCS, Servers

LEMMA LockShop ==
    ASSUME TypeOK, LockInv, ShopNext, UNCHANGED mgrVars
    PROVE  LockInv'
<1> USE LockFacts DEF LockInv, SemAccounting, SemExists, ShopInCS, MgrInCS,
                      ShopCS, mgrVars, history
<1>1. CASE ShopReceive
  BY <1>1 DEF ShopReceive, semVars
<1>2. CASE ShopLock
  BY <1>2 DEF ShopLock, SemTake
<1>3. CASE ShopCheck
  BY <1>3 DEF ShopCheck, shared, semVars
<1>4. CASE ShopLoad
  BY <1>4 DEF ShopLoad, shared, semVars
<1>5. CASE ShopStore
  BY <1>5 DEF ShopStore, semVars
<1>6. CASE ShopNotify
  BY <1>6 DEF ShopNotify, semVars
<1>7. CASE ShopUnlock
  BY <1>7 DEF ShopUnlock, SemGive
<1>8. CASE ShopRespond
  BY <1>8 DEF ShopRespond, semVars
<1>9. CASE ShopSignal
  BY <1>9 DEF ShopSignal, shared, semVars
<1>10. CASE ShopSignalBlocked
  BY <1>10 DEF ShopSignalBlocked, ShopDown, SemUndo
<1>11. CASE ShopLeave
  BY <1>11 DEF ShopLeave, shared, semVars
<1>12. CASE ShopRemoveShm
  BY <1>12 DEF ShopRemoveShm, semVars
<1>13. CASE ShopRemoveSem
  BY <1>13 DEF ShopRemoveSem
<1>14. CASE ShopRemoveMsg
  BY <1>14 DEF ShopRemoveMsg, ShopDown, semVars
<1>15. CASE ShopKill
  BY <1>15 DEF ShopKill, ShopDown, SemUndo
<1> QED
  BY <1>1, <1>2, <1>3, <1>4, <1>5, <1>6, <1>7, <1>8, <1>9, <1>10, <1>11, <1>12,
     <1>13, <1>14, <1>15 DEF ShopNext, ShopStep

LEMMA LockManager ==
    ASSUME TypeOK, LockInv, MgrNext, UNCHANGED shopVars
    PROVE  LockInv'
<1> USE LockFacts DEF LockInv, SemAccounting, SemExists, ShopInCS, MgrInCS,
                      MgrCS, MgrLockPcs, shopVars, history
<1>1. CASE MgrStart \/ MgrLoop \/ MgrChoose \/ MgrQuit \/ MgrInput
  BY <1>1 DEF MgrStart, MgrLoop, MgrChoose, MgrQuit, MgrInput, shared, semVars
<1>2. CASE MgrExit
  BY <1>2 DEF MgrExit, SemUndo
<1>3. CASE MgrLock
  BY <1>3 DEF MgrLock, AfterLock, SemTake
<1>4. CASE MgrLockFails
  BY <1>4 DEF MgrLockFails, AfterLock, shared, semVars
<1>5. CASE MgrDisplay
  BY <1>5 DEF MgrDisplay, MgrReturn, SemGive, semVars
<1>6. CASE MgrInputInvalid
  BY <1>6 DEF MgrInputInvalid, MgrReturn, shared, semVars
<1>7. CASE MgrLoad
  BY <1>7 DEF MgrLoad, shared, semVars
<1>8. CASE MgrStore
  BY <1>8 DEF MgrStore, semVars
<1>9. CASE MgrSetPrice
  BY <1>9 DEF MgrSetPrice, semVars
<1>10. CASE MgrUnlock
  BY <1>10 DEF MgrUnlock, MgrReturn, SemGive, semVars
<1>11. CASE Notifier
  BY <1>11 DEF Notifier, NotifierLow, NotifierOut, NotifierLeave, shared, semVars
<1>12. CASE MgrSignal
  BY <1>12 DEF MgrSignal, shared, semVars
<1>13. CASE MgrSignalInRead
  BY <1>13 DEF MgrSignalInRead, MgrReturn, shared, semVars
<1>14. CASE MgrSignalInLock
  BY <1>14 DEF MgrSignalInLock, AfterLock, semVars
<1>15. CASE MgrKill
  BY <1>15 DEF MgrKill, MgrReturn, SemUndo
<1> QED
  BY <1>1, <1>2, <1>3, <1>4, <1>5, <1>6, <1>7, <1>8, <1>9, <1>10, <1>11, <1>12,
     <1>13, <1>14, <1>15 DEF MgrNext, MgrUser, MgrStep

\* What a customer's step leaves alone.
LEMMA CustomerFrame ==
    ASSUME NEW c \in Customers, CustomerNext(c)
    PROVE  UNCHANGED <<quantity, price, objects, sem, semadj, sold, restocked,
                       interrupted>>
BY DEF CustomerNext, CustomerInput, CustomerStep, CustomerStart, CustomerExit,
       CustomerKill, CustomerGone, ClearCart, AddCheck, AddUnit, AddTotal,
       Checkout, SendOrder, RecvResponse, QueueGone, CheckoutSucceeds,
       CheckoutFails, NextLine, EmptyCart, shared, store, semVars, history

LEMMA LockStep == TypeOK /\ LockInv /\ [Next]_vars => LockInv'
<1> SUFFICES ASSUME TypeOK, LockInv, [Next]_vars PROVE LockInv'
  OBVIOUS
<1>1. CASE Shop
  BY <1>1, LockShop DEF Shop
<1>2. CASE Manager
  BY <1>2, LockManager DEF Manager
<1>3. CASE /\ UNCHANGED <<objects, sem, semadj, interrupted>>
           /\ UNCHANGED <<shopPc, mgrPc>>
  BY <1>3 DEF LockInv, SemAccounting, SemExists, ShopInCS, MgrInCS
<1>4. ASSUME NEW c \in Customers, Customer(c) PROVE LockInv'
  BY <1>3, <1>4, CustomerFrame DEF Customer, shopVars, mgrVars
<1>5. CASE UNCHANGED vars
  BY <1>3, <1>5 DEF vars, shared, semVars, history, shopVars, mgrVars
<1> QED
  BY <1>1, <1>2, <1>4, <1>5 DEF Next

THEOREM LockInvariant == Spec => []LockInv
BY LockInit, LockStep, TypeCorrect, PTL DEF Spec

\* SEM_UNDO accounting: the value and the adjustments always add up to one.
THEOREM SemaphoreAccounted == Spec => []SemAccounting
<1>1. LockInv => SemAccounting
  BY DEF LockInv
<1> QED
  BY <1>1, LockInvariant, PTL

\* A process that dies in its critical section never leaves the semaphore
\* taken.
THEOREM LockIsOwned == Spec => []NoOrphanLock
<1>1. TypeOK /\ LockInv => NoOrphanLock
  BY LockFacts DEF LockInv, SemAccounting, NoOrphanLock
<1> QED
  BY <1>1, TypeCorrect, LockInvariant, PTL

\* The critical sections exclude each other until a signal breaks sem_lock.
THEOREM SectionsExclusive == Spec => []MutualExclusion
<1>1. TypeOK /\ LockInv => MutualExclusion
  BY LockFacts DEF LockInv, SemAccounting, MutualExclusion
<1> QED
  BY <1>1, TypeCorrect, LockInvariant, PTL

-----------------------------------------------------------------------------
(* The stock *)

LEMMA StockFacts ==
    ASSUME TypeOK
    PROVE  /\ quantity \in [Items -> Int]
           /\ sold \in [Items -> Nat] /\ restocked \in [Items -> Nat]
           /\ newQty \in Int /\ mgrTmp \in Int /\ mgrQty \in Nat
           /\ mgrPc = "store" => mgrItem \in Items
           /\ shopPc \in ShopCS => order.item \in Items /\ order.qty \in Nat
BY QuantityAssumption
   DEF TypeOK, CommonTypeOK, ShopTypeOK, MgrTypeOK, OrderMsg

\* The steps of the shop that matter to the stock; every other one leaves the
\* quantities alone and does not reach "load" or "store".
LEMMA ShopFrame ==
    ASSUME ShopNext, ~ShopReceive, ~ShopCheck, ~ShopLoad, ~ShopStore
    PROVE  /\ UNCHANGED <<quantity, sold, restocked, interrupted>>
           /\ \/ shopPc' \notin {"load", "store"}
              \/ UNCHANGED <<shopPc, order, newQty>>
BY DEF ShopNext, ShopStep, ShopLock, ShopNotify, ShopUnlock, ShopRespond,
       ShopSignal, ShopSignalBlocked, ShopLeave, ShopRemoveShm, ShopRemoveSem,
       ShopRemoveMsg, ShopKill, ShopDown, shared, store, semVars, history

LEMMA MgrFrame ==
    ASSUME MgrNext, ~MgrLoad, ~MgrStore
    PROVE  /\ UNCHANGED <<quantity, sold, restocked>>
           /\ interrupted => interrupted'
           /\ \/ mgrPc' # "store"
              \/ UNCHANGED <<mgrPc, mgrItem, mgrQty, mgrTmp>>
<1> USE DEF shared, store, semVars, history, mgrArgs, MgrReturn
<1>1. CASE MgrStart \/ MgrLoop \/ MgrChoose \/ MgrQuit \/ MgrInput \/ MgrInputInvalid
  BY <1>1 DEF MgrStart, MgrLoop, MgrChoose, MgrQuit, MgrInput, MgrInputInvalid
<1>2. CASE MgrLock \/ MgrLockFails \/ MgrSignalInLock
  BY <1>2 DEF MgrLock, MgrLockFails, MgrSignalInLock, AfterLock
<1>3. CASE MgrDisplay \/ MgrSetPrice \/ MgrUnlock \/ MgrExit
  BY <1>3 DEF MgrDisplay, MgrSetPrice, MgrUnlock, MgrExit
<1>4. CASE Notifier
  BY <1>4 DEF Notifier, NotifierLow, NotifierOut, NotifierLeave
<1>5. CASE MgrSignal \/ MgrSignalInRead \/ MgrKill
  BY <1>5 DEF MgrSignal, MgrSignalInRead, MgrKill
<1> QED
  BY <1>1, <1>2, <1>3, <1>4, <1>5 DEF MgrNext, MgrUser, MgrStep

LEMMA StockInit == Init => StockInv /\ BalanceInv
BY QuantityAssumption
   DEF Init, CommonInit, ShopInit, MgrInit, StockInv, NonNegative, BalanceInv,
       Conservation

LEMMA StockShop ==
    ASSUME TypeOK, StockInv, ShopNext, UNCHANGED mgrVars
    PROVE  StockInv'
<1> USE StockFacts DEF StockInv, NonNegative, ShopCS, mgrVars
<1>1. CASE ShopReceive
  BY <1>1 DEF ShopReceive, store
<1>2. CASE ShopCheck
  BY <1>2 DEF ShopCheck, Covered, shared, store
<1>3. CASE ShopLoad
  BY <1>3 DEF ShopLoad, shared, store
<1>4. CASE ShopStore
  <2>1. /\ quantity'[order.item] = newQty
        /\ \A i \in Items \ {order.item} : quantity'[i] = quantity[i]
        /\ shopPc' = "notify"
    BY <1>4 DEF ShopStore
  <2>2. newQty >= 0 /\ newQty <= quantity[order.item]
    BY <1>4 DEF ShopStore
  <2>3. NonNegative'
    BY <2>1, <2>2
  <2>4. mgrPc' = "store" => mgrTmp' >= quantity'[mgrItem']
    BY <1>4, <2>1, <2>2 DEF ShopStore
  <2> QED
    BY <2>1, <2>3, <2>4
<1>5. CASE ~(ShopReceive \/ ShopCheck \/ ShopLoad \/ ShopStore)
  BY <1>5, ShopFrame
<1> QED
  BY <1>1, <1>2, <1>3, <1>4, <1>5

LEMMA StockManager ==
    ASSUME TypeOK, StockInv, MgrNext, UNCHANGED shopVars
    PROVE  StockInv'
<1> USE StockFacts DEF StockInv, NonNegative, ShopCS, shopVars
<1>1. CASE MgrLoad
  <2>1. mgrItem \in Items
    BY <1>1 DEF MgrLoad, TypeOK, MgrTypeOK
  <2> QED
    BY <1>1, <2>1 DEF MgrLoad, shared, store
<1>2. CASE MgrStore
  <2>1. /\ mgrItem \in Items
        /\ quantity'[mgrItem] = mgrTmp + mgrQty
        /\ \A i \in Items \ {mgrItem} : quantity'[i] = quantity[i]
        /\ mgrPc' = "unlock"
    BY <1>2 DEF MgrStore
  <2>2. \A i \in Items : quantity'[i] >= quantity[i]
    BY <1>2, <2>1 DEF MgrStore
  <2>3. quantity' \in [Items -> Int]
    BY <1>2, <2>1 DEF MgrStore
  <2> QED
    BY <2>1, <2>2, <2>3
<1>3. CASE ~(MgrLoad \/ MgrStore)
  BY <1>3, MgrFrame
<1> QED
  BY <1>1, <1>2, <1>3

LEMMA StockStep == TypeOK /\ StockInv /\ [Next]_vars => StockInv'
<1> SUFFICES ASSUME TypeOK, StockInv, [Next]_vars PROVE StockInv'
  OBVIOUS
<1>1. CASE Shop
  BY <1>1, StockShop DEF Shop
<1>2. CASE Manager
  BY <1>2, StockManager DEF Manager
<1>3. CASE UNCHANGED <<quantity, shopVars, mgrVars>>
  BY <1>3 DEF StockInv, NonNegative, shopVars, mgrVars
<1>4. ASSUME NEW c \in Customers, Customer(c) PROVE StockInv'
  BY <1>3, <1>4, CustomerFrame DEF Customer
<1>5. CASE UNCHANGED vars
  BY <1>3, <1>5 DEF vars, shared, store
<1> QED
  BY <1>1, <1>2, <1>4, <1>5 DEF Next

\* The shop never sells a unit it does not have, and this does not depend on
\* the semaphore: LockInv is not used.
THEOREM NeverOversold == Spec => []NonNegative
<1>1. StockInv => NonNegative
  BY DEF StockInv
<1> QED
  BY <1>1, StockInit, StockStep, TypeCorrect, PTL DEF Spec

-----------------------------------------------------------------------------
(* Conservation, which does depend on the semaphore *)

LEMMA BalanceShop ==
    ASSUME TypeOK, MutualExclusion, BalanceInv, ShopNext, UNCHANGED mgrVars
    PROVE  BalanceInv'
<1> USE StockFacts DEF BalanceInv, Conservation, ShopCS, mgrVars
<1>1. CASE ShopReceive
  BY <1>1 DEF ShopReceive, store, history
<1>2. CASE ShopCheck
  BY <1>2 DEF ShopCheck, shared, store, history
<1>3. CASE ShopLoad
  BY <1>3 DEF ShopLoad, shared, store, history
<1>4. CASE ShopStore
  <2>1. /\ order.item \in Items /\ order.qty \in Nat
        /\ quantity'[order.item] = newQty
        /\ sold'[order.item] = sold[order.item] + order.qty
        /\ \A i \in Items \ {order.item} :
              quantity'[i] = quantity[i] /\ sold'[i] = sold[i]
        /\ UNCHANGED <<restocked, interrupted>>
        /\ shopPc' = "notify"
    BY <1>4 DEF ShopStore
  <2>2. Conservation'
    <3>1. SUFFICES ASSUME ~interrupted, NEW i \in Items
                   PROVE  quantity'[i] + sold'[i] = InitStock[i] + restocked'[i]
      BY <2>1
    <3>2. quantity[i] + sold[i] = InitStock[i] + restocked[i]
      BY <3>1
    <3>3. CASE i = order.item
      <4>1. newQty = quantity[i] - order.qty
        BY <1>4, <3>1, <3>3 DEF ShopStore
      <4> QED
        BY <2>1, <3>2, <3>3, <4>1
    <3>4. CASE i # order.item
      BY <2>1, <3>2, <3>4
    <3> QED
      BY <3>3, <3>4
  <2>3. ~interrupted => mgrPc # "store"
    BY <1>4 DEF ShopStore, MutualExclusion, ShopInCS, MgrInCS, MgrCS
  <2> QED
    BY <2>1, <2>2, <2>3
<1>5. CASE ~(ShopReceive \/ ShopCheck \/ ShopLoad \/ ShopStore)
  BY <1>5, ShopFrame
<1> QED
  BY <1>1, <1>2, <1>3, <1>4, <1>5

LEMMA BalanceManager ==
    ASSUME TypeOK, MutualExclusion, BalanceInv, MgrNext, UNCHANGED shopVars
    PROVE  BalanceInv'
<1> USE StockFacts DEF BalanceInv, Conservation, ShopCS, shopVars
<1>1. CASE MgrLoad
  BY <1>1 DEF MgrLoad, shared, store, history
<1>2. CASE MgrStore
  <2>1. /\ mgrItem \in Items
        /\ quantity'[mgrItem] = mgrTmp + mgrQty
        /\ restocked'[mgrItem] = restocked[mgrItem] + mgrQty
        /\ \A i \in Items \ {mgrItem} :
              quantity'[i] = quantity[i] /\ restocked'[i] = restocked[i]
        /\ UNCHANGED <<sold, interrupted>>
        /\ mgrPc' = "unlock"
    BY <1>2 DEF MgrStore
  <2>2. Conservation'
    <3>1. SUFFICES ASSUME ~interrupted, NEW i \in Items
                   PROVE  quantity'[i] + sold'[i] = InitStock[i] + restocked'[i]
      BY <2>1
    <3>2. quantity[i] + sold[i] = InitStock[i] + restocked[i]
      BY <3>1
    <3>3. CASE i = mgrItem
      <4>1. mgrTmp = quantity[i]
        BY <1>2, <3>1, <3>3 DEF MgrStore
      <4>2. InitStock[i] \in Nat
        BY QuantityAssumption
      <4> QED
        BY <2>1, <3>2, <3>3, <4>1, <4>2
    <3>4. CASE i # mgrItem
      BY <2>1, <3>2, <3>4
    <3> QED
      BY <3>3, <3>4
  <2>3. ~interrupted => shopPc # "store"
    BY <1>2 DEF MgrStore, MutualExclusion, ShopInCS, MgrInCS, MgrCS
  <2> QED
    BY <2>1, <2>2, <2>3
<1>3. CASE ~(MgrLoad \/ MgrStore)
  BY <1>3, MgrFrame
<1> QED
  BY <1>1, <1>2, <1>3

LEMMA BalanceStep ==
    TypeOK /\ MutualExclusion /\ BalanceInv /\ [Next]_vars => BalanceInv'
<1> SUFFICES ASSUME TypeOK, MutualExclusion, BalanceInv, [Next]_vars
             PROVE  BalanceInv'
  OBVIOUS
<1>1. CASE Shop
  BY <1>1, BalanceShop DEF Shop
<1>2. CASE Manager
  BY <1>2, BalanceManager DEF Manager
<1>3. CASE UNCHANGED <<quantity, sold, restocked, interrupted, shopVars, mgrVars>>
  BY <1>3 DEF BalanceInv, Conservation, shopVars, mgrVars
<1>4. ASSUME NEW c \in Customers, Customer(c) PROVE BalanceInv'
  BY <1>3, <1>4, CustomerFrame DEF Customer
<1>5. CASE UNCHANGED vars
  BY <1>3, <1>5 DEF vars, shared, store, history
<1> QED
  BY <1>1, <1>2, <1>4, <1>5 DEF Next

\* No sale and no restock is lost while sem_lock keeps its promise.
THEOREM StockConserved == Spec => []Conservation
<1>1. BalanceInv => Conservation
  BY DEF BalanceInv
<1> QED
  BY <1>1, StockInit, BalanceStep, TypeCorrect, SectionsExclusive, PTL DEF Spec

\* The conjunction the runs check is an invariant.
THEOREM Inductive == Spec => []IndInv
<1>1. TypeOK /\ LockInv /\ StockInv /\ BalanceInv => IndInv
  BY DEF IndInv
<1> QED
  BY <1>1, TypeCorrect, LockInvariant, SectionsExclusive, StockInit, StockStep,
     BalanceStep, PTL DEF Spec

-----------------------------------------------------------------------------
(* Sequences: what a step does at one end of a concatenation *)

LEMMA TakeFirst ==
    ASSUME NEW S, NEW s \in Seq(S), NEW e \in S
    PROVE  /\ <<e>> \o s # <<>>
           /\ Head(<<e>> \o s) = e
           /\ Tail(<<e>> \o s) = s
OBVIOUS

LEMMA TakeFirstOf ==
    ASSUME NEW S, NEW s \in Seq(S), NEW t \in Seq(S), s # <<>>
    PROVE  /\ s \o t # <<>>
           /\ Tail(s \o t) = Tail(s) \o t
           /\ s = <<Head(s)>> \o Tail(s)
OBVIOUS

LEMMA PutLast ==
    ASSUME NEW S, NEW s \in Seq(S), NEW t \in Seq(S), NEW e \in S
    PROVE  /\ Append(s \o t, e) = s \o Append(t, e)
           /\ Append(s, e) = s \o <<e>>
<1>1. s \o t \in Seq(S) /\ <<e>> \in Seq(S)
  BY ConcatProperties
<1>2. /\ Append(s \o t, e) = (s \o t) \o <<e>>
      /\ Append(t, e) = t \o <<e>> /\ Append(s, e) = s \o <<e>>
  BY <1>1, AppendIsConcat, Zenon
<1>3. (s \o t) \o <<e>> = s \o (t \o <<e>>)
  BY <1>1, ConcatAssociative
<1> QED
  BY <1>2, <1>3, Zenon

LEMMA DropLast ==
    ASSUME NEW S, NEW s \in Seq(S), NEW e \in S
    PROVE  /\ s \o <<e>> # <<>>
           /\ SubSeq(s \o <<e>>, 1, Len(s \o <<e>>) - 1) = s
<1> DEFINE c == s \o <<e>>
<1>1. /\ c \in Seq(S) /\ Len(c) = Len(s) + 1 /\ Len(s) \in Nat /\ c # <<>>
      /\ \A i \in 1..Len(s) : c[i] = s[i]
  OBVIOUS
<1> HIDE DEF c
<1>2. SubSeq(c, 1, Len(c) - 1) = s
  BY <1>1
<1> QED
  BY <1>1, <1>2 DEF c

LEMMA NoneAround ==
    ASSUME NEW S, NEW s \in Seq(S)
    PROVE  s \o <<>> = s /\ <<>> \o s = s
OBVIOUS
-----------------------------------------------------------------------------
(* The orders in the queue *)

\* An order in the queue is as its customer sent it: process_order's
\* assignment of a failure to its status changes nothing.
OrdersAsSent == mq["MSG_ORDER"] \in Seq(Ledger!Request)

LEMMA MqFacts ==
    ASSUME TypeOK
    PROVE  /\ mq["MSG_ORDER"] \in Seq(OrderMsg)
           /\ mq["MSG_RESPONSE"] \in Seq(OrderMsg)
           /\ DOMAIN mq = MsgTypes
BY DEF TypeOK, CommonTypeOK, MqTypeOK, MsgTypes, Typed

\* The order a customer sends.
LEMMA SentOrder ==
    ASSUME TypeOK, NEW c \in Customers, custPc[c] = "send"
    PROVE  OrderOf(c) \in Ledger!Request /\ OrderOf(c) \in OrderMsg
<1>1. idx[c] \in 1..Len(cart[c]) /\ cart[c] \in Seq(CartLine)
  BY DEF TypeOK, CustTypeOK
<1>2. cart[c][idx[c]] \in CartLine
  BY <1>1
<1> QED
  BY <1>2, QuantityAssumption DEF OrderOf, CartLine, Ledger!Request, OrderMsg

\* No thread of the manager touches an order, a response or an object.
LEMMA MgrQueues ==
    ASSUME TypeOK, MgrNext
    PROVE  UNCHANGED <<objects, granted, mq["MSG_ORDER"], mq["MSG_RESPONSE"]>>
<1> USE DEF shared, store, semVars, history, mgrArgs, MgrReturn
<1>1. CASE MgrStart \/ MgrLoop \/ MgrChoose \/ MgrQuit \/ MgrInput \/ MgrInputInvalid
  BY <1>1 DEF MgrStart, MgrLoop, MgrChoose, MgrQuit, MgrInput, MgrInputInvalid
<1>2. CASE MgrLock \/ MgrLockFails \/ MgrSignalInLock
  BY <1>2 DEF MgrLock, MgrLockFails, MgrSignalInLock
<1>3. CASE MgrDisplay \/ MgrLoad \/ MgrStore \/ MgrSetPrice \/ MgrUnlock \/ MgrExit
  BY <1>3 DEF MgrDisplay, MgrLoad, MgrStore, MgrSetPrice, MgrUnlock, MgrExit
<1>4. CASE Notifier
  BY <1>4, MqFacts DEF Notifier, NotifierLow, NotifierOut, NotifierLeave, Receive, MsgTypes
<1>5. CASE MgrSignal \/ MgrSignalInRead \/ MgrKill
  BY <1>5 DEF MgrSignal, MgrSignalInRead, MgrKill
<1> QED
  BY <1>1, <1>2, <1>3, <1>4, <1>5 DEF MgrNext, MgrUser, MgrStep

\* What a customer does to the orders and the responses.
LEMMA CustomerQueues ==
    ASSUME TypeOK, NEW c \in Customers, CustomerNext(c)
    PROVE  \/ UNCHANGED <<mq["MSG_ORDER"], mq["MSG_RESPONSE"]>>
           \/ /\ custPc[c] = "send"
              /\ mq'["MSG_ORDER"] = Append(mq["MSG_ORDER"], OrderOf(c))
              /\ mq'["MSG_RESPONSE"] = mq["MSG_RESPONSE"]
           \/ /\ mq["MSG_RESPONSE"] # <<>>
              /\ mq'["MSG_RESPONSE"] = Tail(mq["MSG_RESPONSE"])
              /\ mq'["MSG_ORDER"] = mq["MSG_ORDER"]
<1>1. CASE SendOrder(c)
  BY <1>1, MqFacts DEF SendOrder, Send, MsgTypes
<1>2. CASE RecvResponse(c)
  BY <1>2, MqFacts DEF RecvResponse, HasMsg, Receive, MsgTypes
<1>3. CASE ~SendOrder(c) /\ ~RecvResponse(c)
  BY <1>3 DEF CustomerNext, CustomerInput, CustomerStep, CustomerStart,
              CustomerExit, CustomerKill, CustomerGone, ClearCart, AddCheck,
              AddUnit, AddTotal, Checkout, QueueGone, shared
<1> QED
  BY <1>1, <1>2, <1>3

\* The steps of the shop that touch orders or responses.
LEMMA ShopQueues ==
    ASSUME TypeOK, ShopNext, ~ShopReceive, ~ShopRespond, ~ShopRemoveMsg
    PROVE  UNCHANGED <<mq["MSG_ORDER"], mq["MSG_RESPONSE"]>>
<1>1. CASE ShopNotify
  BY <1>1, MqFacts DEF ShopNotify, SendNotification, Send, MsgTypes
<1>2. CASE ~ShopNotify
  BY <1>2 DEF ShopNext, ShopStep, ShopLock, ShopCheck, ShopLoad, ShopStore,
              ShopUnlock, ShopSignal, ShopSignalBlocked, ShopLeave,
              ShopRemoveShm, ShopRemoveSem, ShopKill, shared
<1> QED
  BY <1>1, <1>2

LEMMA OrdersStep == TypeOK /\ OrdersAsSent /\ [Next]_vars => OrdersAsSent'
<1> SUFFICES ASSUME TypeOK, OrdersAsSent, [Next]_vars PROVE OrdersAsSent'
  OBVIOUS
<1> USE DEF OrdersAsSent
<1>1. CASE Shop
  <2>1. CASE ShopReceive
    <3>1. /\ mq["MSG_ORDER"] # <<>>
          /\ mq'["MSG_ORDER"] = Tail(mq["MSG_ORDER"])
      BY <2>1, MqFacts DEF ShopReceive, HasMsg, Receive, MsgTypes
    <3> QED
      BY <3>1, HeadTailProperties
  <2>2. CASE ShopRespond
    BY <2>2, MqFacts DEF ShopRespond, Send, MsgTypes
  <2>3. CASE ShopRemoveMsg
    BY <2>3 DEF ShopRemoveMsg, MsgTypes
  <2>4. CASE ~ShopReceive /\ ~ShopRespond /\ ~ShopRemoveMsg
    BY <1>1, <2>4, ShopQueues DEF Shop
  <2> QED
    BY <2>1, <2>2, <2>3, <2>4
<1>2. CASE Manager
  BY <1>2, MgrQueues DEF Manager
<1>3. ASSUME NEW c \in Customers, Customer(c) PROVE OrdersAsSent'
  BY <1>3, CustomerQueues, SentOrder, AppendProperties DEF Customer
<1>4. CASE UNCHANGED vars
  BY <1>4 DEF vars, shared
<1> QED
  BY <1>1, <1>2, <1>3, <1>4 DEF Next

LEMMA OrdersInvariant == Spec => []OrdersAsSent
<1>1. Init => OrdersAsSent
  BY DEF Init, CommonInit, OrdersAsSent, MsgTypes
<1> QED
  BY <1>1, OrdersStep, TypeCorrect, PTL DEF Spec
-----------------------------------------------------------------------------
(* One step of ShopSystem and the ledger *)

OrdersNow == Undecided \o mq["MSG_ORDER"]
AnswersNow == mq["MSG_RESPONSE"] \o Decided

\* A step that the ledger does not see.
LEMMA Unseen ==
    ASSUME UNCHANGED <<quantity, price, OrdersNow, AnswersNow>>,
           (shopPc' = "off") <=> (shopPc = "off")
    PROVE  UNCHANGED Ledger!vars
BY DEF Ledger!vars, OrdersNow, AnswersNow

\* What belongs to the orders and to the answers, by the place of the shop.
LEMMA HandFacts ==
    ASSUME TypeOK
    PROVE  /\ shopPc \in {"lock", "check", "load", "store"} =>
                order \in OrderMsg /\ Undecided = <<order>> /\ Decided = <<>>
           /\ shopPc \in {"notify", "unlock", "respond"} =>
                order \in OrderMsg /\ Undecided = <<>> /\ Decided = <<order>>
           /\ shopPc \in {"loop", "rmShm", "rmSem", "rmMsg", "off"} =>
                Undecided = <<>> /\ Decided = <<>>
           /\ Undecided \in Seq(OrderMsg) /\ Decided \in Seq(OrderMsg)
BY DEF TypeOK, ShopTypeOK, ShopCS, ShopPcs, Undecided, Decided, InHand

\* The same after a step, which the values of shopPc and order determine.
LEMMA HandFrame ==
    ASSUME UNCHANGED <<shopPc, order>>
    PROVE  UNCHANGED <<Undecided, Decided>>
BY DEF Undecided, Decided, InHand

\* ShopReceive: the order moves from the queue into the shop's hand.
LEMMA LedgerReceive ==
    ASSUME TypeOK, TypeOK', OrdersAsSent, ShopReceive
    PROVE  UNCHANGED Ledger!vars
<1> DEFINE q == mq["MSG_ORDER"]
<1>1. /\ q \in Seq(Ledger!Request) /\ q # <<>>
      /\ mq'["MSG_ORDER"] = Tail(q) /\ mq'["MSG_RESPONSE"] = mq["MSG_RESPONSE"]
      /\ shopPc = "loop" /\ shopPc' = "lock"
      /\ order' = [Head(q) EXCEPT !.status = FALSE]
      /\ UNCHANGED <<quantity, price>>
  BY MqFacts DEF OrdersAsSent, ShopReceive, HasMsg, Receive, MsgTypes, store
<1>2. Head(q) \in Ledger!Request
  BY <1>1, HeadTailProperties
<1>3. order' = Head(q)
  BY <1>1, <1>2 DEF Ledger!Request
<1>4. Undecided = <<>> /\ Decided = <<>>
  BY <1>1, HandFacts
<1>5. Undecided' = <<order'>> /\ Decided' = <<>>
  BY <1>1 DEF Undecided, Decided, InHand
<1>6. OrdersNow' = OrdersNow
  BY <1>1, <1>3, <1>4, <1>5, TakeFirstOf, NoneAround DEF OrdersNow
<1>7. AnswersNow' = AnswersNow
  BY <1>1, <1>4, <1>5 DEF AnswersNow
<1> QED
  BY <1>1, <1>6, <1>7, Unseen

\* ShopCheck: an order that the stock does not cover is rejected.
LEMMA LedgerCheck ==
    ASSUME TypeOK, TypeOK', ShopCheck
    PROVE  Ledger!Reject \/ UNCHANGED Ledger!vars
<1> DEFINE q == mq["MSG_ORDER"]
           r == mq["MSG_RESPONSE"]
<1>1. /\ shopPc = "check" /\ UNCHANGED <<order, quantity, price, mq>>
      /\ q \in Seq(OrderMsg) /\ r \in Seq(OrderMsg)
  BY MqFacts DEF ShopCheck, shared, store
<1>2. order \in OrderMsg /\ Undecided = <<order>> /\ Decided = <<>>
  BY <1>1, HandFacts
<1>3. CASE Covered
  <2>1. shopPc' = "load"
    BY <1>3 DEF ShopCheck
  <2>2. Undecided' = <<order>> /\ Decided' = <<>>
    BY <1>1, <2>1 DEF Undecided, Decided, InHand
  <2> QED
    BY <1>1, <1>2, <2>1, <2>2, Unseen DEF OrdersNow, AnswersNow
<1>4. CASE ~Covered
  <2>1. shopPc' = "unlock"
    BY <1>4 DEF ShopCheck
  <2>2. Undecided' = <<>> /\ Decided' = <<order>>
    BY <1>1, <2>1 DEF Undecided, Decided, InHand
  <2>3. /\ OrdersNow # <<>> /\ Head(OrdersNow) = order /\ Tail(OrdersNow) = q
    BY <1>1, <1>2, TakeFirst DEF OrdersNow
  <2>4. OrdersNow' = Tail(OrdersNow)
    BY <1>1, <2>2, <2>3, NoneAround DEF OrdersNow
  <2>5. AnswersNow' = Append(AnswersNow, Head(OrdersNow))
    BY <1>1, <1>2, <2>2, <2>3, NoneAround, PutLast DEF AnswersNow
  <2>6. quantity[order.item] < order.qty
    BY <1>2, <1>4, StockFacts DEF Covered, OrderMsg
  <2> QED
    BY <1>1, <2>1, <2>3, <2>4, <2>5, <2>6 DEF Ledger!Reject, OrdersNow, AnswersNow
<1> QED
  BY <1>3, <1>4

\* ShopStore: the write is the sale, because what was read is still true.
LEMMA LedgerStore ==
    ASSUME TypeOK, TypeOK', StockInv, BalanceInv, ~interrupted, ShopStore
    PROVE  Ledger!Sell
<1> DEFINE q == mq["MSG_ORDER"]
           r == mq["MSG_RESPONSE"]
<1>1. /\ shopPc = "store" /\ shopPc' = "notify" /\ UNCHANGED <<price, mq>>
      /\ q \in Seq(OrderMsg) /\ r \in Seq(OrderMsg)
      /\ quantity' = [quantity EXCEPT ![order.item] = newQty]
      /\ order' = [order EXCEPT !.status = TRUE,
                                !.price = price[order.item] * order.qty]
  BY MqFacts DEF ShopStore
<1>2. order \in OrderMsg /\ Undecided = <<order>> /\ Decided = <<>>
  BY <1>1, HandFacts
<1>3. Undecided' = <<>> /\ Decided' = <<order'>> /\ order' \in OrderMsg
  BY <1>1, HandFacts DEF Undecided, Decided, InHand, TypeOK, ShopTypeOK, ShopCS
<1>4. /\ newQty = quantity[order.item] - order.qty
      /\ quantity[order.item] >= order.qty
  BY <1>1, <1>2, StockFacts DEF StockInv, BalanceInv, OrderMsg
<1>5. OrdersNow # <<>> /\ Head(OrdersNow) = order /\ Tail(OrdersNow) = q
  BY <1>1, <1>2, TakeFirst DEF OrdersNow
<1>6. OrdersNow' = Tail(OrdersNow)
  BY <1>1, <1>3, <1>5, NoneAround DEF OrdersNow
<1>7. AnswersNow' = Append(AnswersNow, order')
  BY <1>1, <1>2, <1>3, NoneAround, PutLast DEF AnswersNow
<1> QED
  BY <1>1, <1>4, <1>5, <1>6, <1>7 DEF Ledger!Sell, OrdersNow, AnswersNow

\* ShopRespond: the answer moves from the shop's hand into the queue.
LEMMA LedgerRespond ==
    ASSUME TypeOK, ShopRespond
    PROVE  UNCHANGED Ledger!vars
<1> DEFINE r == mq["MSG_RESPONSE"]
<1>1. /\ shopPc = "respond" /\ shopPc' = "loop" /\ UNCHANGED <<quantity, price>>
      /\ r \in Seq(OrderMsg) /\ mq'["MSG_RESPONSE"] = Append(r, order)
      /\ mq'["MSG_ORDER"] = mq["MSG_ORDER"]
  BY MqFacts DEF ShopRespond, Send, MsgTypes, store
<1>2. order \in OrderMsg /\ Undecided = <<>> /\ Decided = <<order>>
  BY <1>1, HandFacts
<1>3. Undecided' = <<>> /\ Decided' = <<>>
  BY <1>1 DEF Undecided, Decided, InHand
<1>4. Append(r, order) \in Seq(OrderMsg) /\ Append(r, order) = r \o <<order>>
  BY <1>1, <1>2, PutLast, AppendProperties
<1>5. AnswersNow' = AnswersNow
  BY <1>1, <1>2, <1>3, <1>4, NoneAround DEF AnswersNow
<1> QED
  BY <1>1, <1>2, <1>3, <1>5, Unseen DEF OrdersNow

\* A shop that dies loses the order in its hand and no other.
LEMMA LedgerDeath ==
    ASSUME TypeOK, ShopDown, shopPc # "off", UNCHANGED <<mq, quantity, price>>
    PROVE  Ledger!Stop
<1> DEFINE q == mq["MSG_ORDER"]
           r == mq["MSG_RESPONSE"]
<1>1. q \in Seq(OrderMsg) /\ r \in Seq(OrderMsg) /\ shopPc \in ShopPcs
  BY MqFacts DEF TypeOK, ShopTypeOK
<1>2. Undecided' = <<>> /\ Decided' = <<>>
  BY DEF ShopDown, Undecided, Decided, InHand
<1>3. OrdersNow' = q /\ AnswersNow' = r
  BY <1>1, <1>2, NoneAround DEF OrdersNow, AnswersNow
<1>4. CASE shopPc \in {"lock", "check", "load", "store"}
  <2>1. order \in OrderMsg /\ Undecided = <<order>> /\ Decided = <<>>
    BY <1>4, HandFacts
  <2>2. OrdersNow # <<>> /\ Tail(OrdersNow) = q /\ AnswersNow = r
    BY <1>1, <2>1, TakeFirst, NoneAround DEF OrdersNow, AnswersNow
  <2> QED
    BY <1>3, <2>2 DEF Ledger!Stop, ShopDown, OrdersNow, AnswersNow
<1>5. CASE shopPc \in {"notify", "unlock", "respond"}
  <2>1. order \in OrderMsg /\ Undecided = <<>> /\ Decided = <<order>>
    BY <1>5, HandFacts
  <2>2. /\ AnswersNow # <<>> /\ SubSeq(AnswersNow, 1, Len(AnswersNow) - 1) = r
        /\ OrdersNow = q
    BY <1>1, <2>1, DropLast, NoneAround DEF OrdersNow, AnswersNow
  <2> QED
    BY <1>3, <2>2 DEF Ledger!Stop, ShopDown, OrdersNow, AnswersNow
<1>6. CASE shopPc \in {"loop", "rmShm", "rmSem", "rmMsg"}
  <2>1. OrdersNow = q /\ AnswersNow = r
    BY <1>1, <1>6, HandFacts, NoneAround DEF OrdersNow, AnswersNow
  <2> QED
    BY <1>3, <2>1 DEF Ledger!Stop, ShopDown, OrdersNow, AnswersNow
<1> QED
  BY <1>1, <1>4, <1>5, <1>6 DEF ShopPcs, ShopCS

\* The orderly end drops every order and every answer.
LEMMA LedgerEnd ==
    ASSUME TypeOK, ShopRemoveMsg
    PROVE  Ledger!Stop
<1>1. /\ mq'["MSG_ORDER"] = <<>> /\ mq'["MSG_RESPONSE"] = <<>>
      /\ shopPc = "rmMsg" /\ shopPc' = "off" /\ UNCHANGED <<quantity, price>>
  BY DEF ShopRemoveMsg, ShopDown, MsgTypes, store
<1>2. Undecided' = <<>> /\ Decided' = <<>>
  BY <1>1 DEF Undecided, Decided, InHand
<1>3. OrdersNow' = <<>> /\ AnswersNow' = <<>>
  BY <1>1, <1>2 DEF OrdersNow, AnswersNow
<1> QED
  BY <1>1, <1>3 DEF Ledger!Stop, OrdersNow, AnswersNow

-----------------------------------------------------------------------------
(* The steps of each process *)

LEMMA LedgerShop ==
    ASSUME TypeOK, TypeOK', OrdersAsSent, StockInv, BalanceInv, ShopNext
    PROVE  Ledger!Next \/ interrupted \/ UNCHANGED Ledger!vars
<1>1. CASE ShopReceive
  BY <1>1, LedgerReceive
<1>2. CASE ShopCheck
  BY <1>2, LedgerCheck DEF Ledger!Next
<1>3. CASE ShopStore
  BY <1>3, LedgerStore DEF Ledger!Next
<1>4. CASE ShopRespond
  BY <1>4, LedgerRespond
<1>5. CASE ShopKill \/ ShopSignalBlocked
  BY <1>5, LedgerDeath
     DEF ShopKill, ShopSignalBlocked, ShopBlocked, store, Ledger!Next
<1>6. CASE ShopRemoveMsg
  BY <1>6, LedgerEnd DEF Ledger!Next
<1>7. CASE ShopLock \/ ShopLoad \/ ShopNotify \/ ShopUnlock
  <2>1. /\ UNCHANGED <<order, quantity, price>>
        /\ \/ shopPc = "lock" /\ shopPc' = "check"
           \/ shopPc = "load" /\ shopPc' = "store"
           \/ shopPc = "notify" /\ shopPc' = "unlock"
           \/ shopPc = "unlock" /\ shopPc' = "respond"
    BY <1>7 DEF ShopLock, ShopLoad, ShopNotify, ShopUnlock, shared, store
  <2>2. UNCHANGED <<Undecided, Decided>>
    BY <2>1 DEF Undecided, Decided, InHand
  <2>3. UNCHANGED <<mq["MSG_ORDER"], mq["MSG_RESPONSE"]>>
    BY <2>1, ShopQueues DEF ShopReceive, ShopRespond, ShopRemoveMsg
  <2> QED
    BY <2>1, <2>2, <2>3, Unseen DEF OrdersNow, AnswersNow
<1>8. CASE ShopSignal \/ ShopLeave \/ ShopRemoveShm \/ ShopRemoveSem
  <2>1. /\ UNCHANGED <<order, quantity, price, mq>>
        /\ \/ shopPc' = shopPc
           \/ /\ shopPc \in {"loop", "rmShm", "rmSem"}
              /\ shopPc' \in {"rmShm", "rmSem", "rmMsg"}
    BY <1>8 DEF ShopSignal, ShopLeave, ShopRemoveShm, ShopRemoveSem, shared, store
  <2>2. UNCHANGED <<Undecided, Decided>>
    BY <2>1 DEF Undecided, Decided, InHand
  <2> QED
    BY <2>1, <2>2, Unseen DEF OrdersNow, AnswersNow
<1> QED
  BY <1>1, <1>2, <1>3, <1>4, <1>5, <1>6, <1>7, <1>8 DEF ShopNext, ShopStep

\* The manager restocks and changes prices; its other steps are not seen.
LEMMA LedgerManager ==
    ASSUME TypeOK, BalanceInv, MgrNext, UNCHANGED shopVars
    PROVE  Ledger!Next \/ interrupted \/ UNCHANGED Ledger!vars
<1>1. UNCHANGED <<OrdersNow, AnswersNow, shopPc>>
  BY MgrQueues, HandFrame DEF OrdersNow, AnswersNow, shopVars
<1>2. CASE MgrStore /\ ~interrupted
  <2>1. mgrItem \in Items /\ mgrQty \in RestockQty \cup {0} /\ UNCHANGED price
    BY <1>2 DEF MgrStore, TypeOK, MgrTypeOK
  <2>2. quantity' = [quantity EXCEPT ![mgrItem] = @ + mgrQty]
    BY <1>2 DEF MgrStore, BalanceInv
  <2>3. Ledger!Restock
    BY <1>1, <2>1, <2>2 DEF Ledger!Restock, OrdersNow, AnswersNow
  <2> QED
    BY <2>3 DEF Ledger!Next
<1>3. CASE MgrSetPrice
  <2>1. mgrItem \in Items /\ UNCHANGED quantity
    BY <1>3 DEF MgrSetPrice, TypeOK, MgrTypeOK
  <2>2. Ledger!Reprice
    BY <1>1, <1>3, <2>1 DEF MgrSetPrice, Ledger!Reprice, OrdersNow, AnswersNow
  <2> QED
    BY <2>2 DEF Ledger!Next
<1>4. CASE ~MgrStore /\ ~MgrSetPrice
  <2>1. UNCHANGED <<quantity, price>>
    BY <1>4 DEF MgrNext, MgrUser, MgrStep, Notifier, MgrStart, MgrLoop, MgrChoose,
                MgrQuit, MgrInput, MgrInputInvalid, MgrExit, MgrLock, MgrLockFails,
                MgrDisplay, MgrLoad, MgrUnlock, NotifierLow, NotifierOut,
                NotifierLeave, MgrSignal, MgrSignalInRead, MgrSignalInLock, MgrKill,
                shared, store
  <2> QED
    BY <1>1, <2>1, Unseen
<1> QED
  BY <1>2, <1>3, <1>4

\* Customers place orders and collect answers.
LEMMA LedgerCustomer ==
    ASSUME TypeOK, NEW c \in Customers, CustomerNext(c), UNCHANGED shopVars
    PROVE  Ledger!Next \/ UNCHANGED Ledger!vars
<1> DEFINE q == mq["MSG_ORDER"]
           r == mq["MSG_RESPONSE"]
<1>1. /\ UNCHANGED <<quantity, price, shopPc, Undecided, Decided>>
      /\ q \in Seq(OrderMsg) /\ r \in Seq(OrderMsg)
      /\ Undecided \in Seq(OrderMsg) /\ Decided \in Seq(OrderMsg)
  BY CustomerFrame, HandFrame, MqFacts, HandFacts DEF shopVars
<1>2. CASE UNCHANGED <<q, r>>
  BY <1>1, <1>2, Unseen DEF OrdersNow, AnswersNow
<1>3. CASE /\ custPc[c] = "send" /\ mq'["MSG_RESPONSE"] = r
           /\ mq'["MSG_ORDER"] = Append(q, OrderOf(c))
  <2>1. OrderOf(c) \in Ledger!Request /\ OrderOf(c) \in OrderMsg
    BY <1>3, SentOrder
  <2>2. OrdersNow' = Append(OrdersNow, OrderOf(c))
    <3>1. Append(Undecided \o q, OrderOf(c)) = Undecided \o Append(q, OrderOf(c))
      <4>1. /\ Undecided \in Seq(OrderMsg) /\ q \in Seq(OrderMsg)
            /\ OrderOf(c) \in OrderMsg
        BY <1>1, <2>1
      <4> HIDE DEF q
      <4> QED
        BY ONLY <4>1, PutLast
    <3>2. OrdersNow' = Undecided \o Append(q, OrderOf(c))
      BY <1>1, <1>3, Zenon DEF OrdersNow
    <3> QED
      BY <3>1, <3>2, Zenon DEF OrdersNow
  <2>3. AnswersNow' = AnswersNow
    BY <1>1, <1>3 DEF AnswersNow
  <2>4. Ledger!Place
    <3>1. UNCHANGED <<shopPc, quantity, price, AnswersNow>>
      BY <1>1, <2>3
    <3> QED
      BY <2>1, <2>2, <3>1, Zenon DEF Ledger!Place, OrdersNow, AnswersNow
  <2> QED
    BY <2>4 DEF Ledger!Next
<1>4. CASE /\ r # <<>> /\ mq'["MSG_ORDER"] = q
           /\ mq'["MSG_RESPONSE"] = Tail(r)
  <2>1. AnswersNow # <<>> /\ AnswersNow' = Tail(AnswersNow)
    BY <1>1, <1>4, TakeFirstOf DEF AnswersNow
  <2>2. OrdersNow' = OrdersNow
    BY <1>1, <1>4 DEF OrdersNow
  <2>3. Ledger!Collect
    BY <1>1, <2>1, <2>2 DEF Ledger!Collect, OrdersNow, AnswersNow
  <2> QED
    BY <2>3 DEF Ledger!Next
<1> QED
  BY <1>2, <1>3, <1>4, CustomerQueues

LEMMA LedgerStep ==
    /\ TypeOK /\ TypeOK' /\ OrdersAsSent /\ StockInv /\ BalanceInv
    /\ [Next]_vars
    => [Ledger!Next \/ interrupted]_(Ledger!vars)
<1> SUFFICES ASSUME TypeOK, TypeOK', OrdersAsSent, StockInv, BalanceInv,
                    [Next]_vars
             PROVE  Ledger!Next \/ interrupted \/ UNCHANGED Ledger!vars
  OBVIOUS
<1>1. CASE Shop
  BY <1>1, LedgerShop DEF Shop
<1>2. CASE Manager
  BY <1>2, LedgerManager DEF Manager
<1>3. ASSUME NEW c \in Customers, Customer(c)
      PROVE  Ledger!Next \/ UNCHANGED Ledger!vars
  BY <1>3, LedgerCustomer DEF Customer
<1>4. CASE UNCHANGED vars
  BY <1>4, HandFrame, Unseen
     DEF vars, shared, store, shopVars, OrdersNow, AnswersNow
<1> QED
  BY <1>1, <1>2, <1>3, <1>4 DEF Next

LEMMA LedgerInit == Init => Ledger!Init
BY QuantityAssumption
   DEF Init, CommonInit, ShopInit, Ledger!Init, Undecided, Decided, InHand, MsgTypes

\* Until a signal breaks the manager's lock, the shop simulation is a sequence
\* of atomic sales, rejections, restocks and price changes in queue order.
THEOREM LedgerImplemented == Spec => ImplementsLedger
<1>1. IndInv => TypeOK /\ StockInv /\ BalanceInv
  BY DEF IndInv
<1> QED
  BY <1>1, LedgerInit, LedgerStep, Inductive, OrdersInvariant, PTL
     DEF Spec, ImplementsLedger

-----------------------------------------------------------------------------
(* The customers that wait *)

\* The shop holds an order exactly between receiving it and answering it.
OrderHeld ==
    order = NoOrder <=> shopPc \in {"loop", "rmShm", "rmSem", "rmMsg", "off"}

LEMMA OrderIsNot == NoOrder \notin OrderMsg
BY DEF NoOrder, OrderMsg

LEMMA HeldStep == TypeOK /\ TypeOK' /\ OrderHeld /\ [Next]_vars => OrderHeld'
<1> SUFFICES ASSUME TypeOK, TypeOK', OrderHeld, [Next]_vars PROVE OrderHeld'
  OBVIOUS
<1>1. CASE UNCHANGED shopVars
  BY <1>1 DEF OrderHeld, shopVars
<1>2. CASE Shop
  <2>1. (shopPc' \in ShopCS \cup {"lock", "respond"}) => order' # NoOrder
    BY OrderIsNot DEF TypeOK, ShopTypeOK
  <2>2. shopPc' \in {"loop", "rmShm", "rmSem", "rmMsg", "off"} => order' = NoOrder
    BY <1>2 DEF Shop, ShopNext, ShopStep, ShopReceive, ShopLock, ShopCheck,
       ShopLoad, ShopStore, ShopNotify, ShopUnlock, ShopRespond, ShopSignal,
       ShopSignalBlocked, ShopLeave, ShopRemoveShm, ShopRemoveSem,
       ShopRemoveMsg, ShopKill, ShopDown, OrderHeld
  <2>3. shopPc' \in ShopPcs
    BY DEF TypeOK, ShopTypeOK
  <2> QED
    BY <2>1, <2>2, <2>3 DEF OrderHeld, ShopPcs, ShopCS
<1> QED
  BY <1>1, <1>2 DEF Next, Manager, Customer, vars

-----------------------------------------------------------------------------
(* Counting *)

LEMMA WaitingFinite ==
    /\ IsFiniteSet(Waiting) /\ Cardinality(Waiting) \in Nat
    /\ IsFiniteSet(Waiting') /\ Cardinality(Waiting') \in Nat
<1>1. Waiting \subseteq Customers /\ Waiting' \subseteq Customers
  BY DEF Waiting
<1>2. IsFiniteSet(Waiting) /\ IsFiniteSet(Waiting')
  BY <1>1, SetAssumption, FS_Subset
<1> QED
  BY <1>2, FS_CardinalityType

NumOrders  == Len(mq["MSG_ORDER"])
NumAnswers == Len(mq["MSG_RESPONSE"])
Held       == IF order = NoOrder THEN 0 ELSE 1

Counts == /\ NumOrders \in Nat /\ NumAnswers \in Nat /\ Held \in Nat
          /\ Pending = NumOrders + NumAnswers + Held
          /\ Pending \in Nat

LEMMA CountsNow == TypeOK => Counts
<1> SUFFICES ASSUME TypeOK PROVE Counts
  OBVIOUS
<1>1. NumOrders \in Nat /\ NumAnswers \in Nat
  BY MqFacts, LenProperties DEF NumOrders, NumAnswers
<1>2. Held \in Nat
  BY DEF Held
<1>3. Pending = NumOrders + NumAnswers + Held
  BY Zenon DEF Pending, NumOrders, NumAnswers, Held
<1> QED
  BY <1>1, <1>2, <1>3 DEF Counts

LEMMA PendingType == TypeOK /\ TypeOK' => Counts /\ Counts'
BY CountsNow, PTL

\* One customer more, or one less.
LEMMA OneMore ==
    ASSUME NEW c, c \notin Waiting, Waiting' = Waiting \cup {c}
    PROVE  Cardinality(Waiting') = Cardinality(Waiting) + 1
BY WaitingFinite, FS_AddElement

LEMMA OneLess ==
    ASSUME NEW c, c \in Waiting, Waiting' = Waiting \ {c}
    PROVE  Cardinality(Waiting') = Cardinality(Waiting) - 1
BY WaitingFinite, FS_RemoveElement

-----------------------------------------------------------------------------
(* What each step does to the two counts *)

Up == QueueExists /\ shopPc # "off"

\* The three ways in which a customer changes a count, and the rest.
LEMMA CustomerCounts ==
    ASSUME TypeOK, NEW c \in Customers, CustomerNext(c), Up
    PROVE  \/ /\ UNCHANGED mq /\ Waiting' = Waiting
           \/ /\ mq'["MSG_ORDER"] = Append(mq["MSG_ORDER"], OrderOf(c))
              /\ mq'["MSG_RESPONSE"] = mq["MSG_RESPONSE"]
              /\ c \notin Waiting /\ Waiting' = Waiting \cup {c}
           \/ /\ mq["MSG_RESPONSE"] # <<>>
              /\ mq'["MSG_RESPONSE"] = Tail(mq["MSG_RESPONSE"])
              /\ mq'["MSG_ORDER"] = mq["MSG_ORDER"]
              /\ c \in Waiting /\ Waiting' = Waiting \ {c}
           \/ /\ c \in Killable /\ UNCHANGED mq
              /\ c \in Waiting /\ Waiting' = Waiting \ {c}
<1> USE DEF GoTo, Waiting
<1>0. custPc \in [Customers -> CustPcs]
  BY DEF TypeOK, CustTypeOK
<1>1. CASE SendOrder(c)
  BY <1>0, <1>1, MqFacts DEF SendOrder, Send, MsgTypes
<1>2. CASE RecvResponse(c)
  <2>1. /\ mq["MSG_RESPONSE"] # <<>>
        /\ mq'["MSG_RESPONSE"] = Tail(mq["MSG_RESPONSE"])
        /\ mq'["MSG_ORDER"] = mq["MSG_ORDER"]
        /\ custPc[c] = "wait"
    BY <1>2, MqFacts DEF RecvResponse, HasMsg, Receive, MsgTypes
  <2>2. \E pc \in {"menu", "send"} : custPc' = [custPc EXCEPT ![c] = pc]
    BY <1>2 DEF RecvResponse, CheckoutSucceeds, CheckoutFails, NextLine
  <2>3. Waiting' = Waiting \ {c}
    BY <1>0, <2>2
  <2> QED
    BY <2>1, <2>3
<1>3. CASE CustomerKill(c)
  <2>1. c \in Killable /\ UNCHANGED mq /\ custPc' = [custPc EXCEPT ![c] = "off"]
    BY <1>3 DEF CustomerKill, CustomerGone
  <2>2. Waiting' = Waiting \ {c}
    BY <1>0, <2>1
  <2> QED
    BY <2>1, <2>2
<1>4. CASE ~SendOrder(c) /\ ~RecvResponse(c) /\ ~CustomerKill(c)
  <2>1. ~QueueGone(c)
    BY DEF QueueGone, Up
  <2>2. /\ UNCHANGED mq /\ custPc[c] # "wait"
        /\ \/ UNCHANGED custPc
           \/ \E pc \in CustPcs \ {"wait"} : custPc' = [custPc EXCEPT ![c] = pc]
    BY <1>4, <2>1 DEF CustomerNext, CustomerInput, CustomerStep, CustomerStart,
       CustomerExit, CustomerGone, ClearCart, AddCheck, AddUnit, AddTotal,
       Checkout, shared, CustPcs
  <2> QED
    BY <1>0, <2>2
<1> QED
  BY <1>1, <1>2, <1>3, <1>4

\* The shop moves an order from the queue to its hand and back as an answer.
LEMMA ShopCounts ==
    ASSUME TypeOK, TypeOK', OrderHeld, OrderHeld', ShopNext, Up'
    PROVE  Pending' = Pending
<1>1. CASE ShopReceive
  <2>1. /\ mq["MSG_ORDER"] \in Seq(OrderMsg) /\ mq["MSG_ORDER"] # <<>>
        /\ mq'["MSG_ORDER"] = Tail(mq["MSG_ORDER"])
        /\ mq'["MSG_RESPONSE"] = mq["MSG_RESPONSE"]
    BY <1>1, MqFacts DEF ShopReceive, HasMsg, Receive, MsgTypes
  <2>2. NumOrders' = NumOrders - 1 /\ NumAnswers' = NumAnswers
    BY <2>1, HeadTailProperties DEF NumOrders, NumAnswers
  <2>3. Held = 0 /\ Held' = 1
    BY <1>1 DEF ShopReceive, OrderHeld, Held
  <2> QED
    BY <2>2, <2>3, PendingType DEF Counts
<1>2. CASE ShopRespond
  <2>1. /\ mq["MSG_RESPONSE"] \in Seq(OrderMsg) /\ order \in OrderMsg
        /\ mq'["MSG_RESPONSE"] = Append(mq["MSG_RESPONSE"], order)
        /\ mq'["MSG_ORDER"] = mq["MSG_ORDER"]
    BY <1>2, MqFacts DEF ShopRespond, Send, MsgTypes, TypeOK, ShopTypeOK
  <2>2. NumAnswers' = NumAnswers + 1 /\ NumOrders' = NumOrders
    BY <2>1, AppendProperties DEF NumOrders, NumAnswers
  <2>3. Held = 1 /\ Held' = 0
    BY <1>2 DEF ShopRespond, OrderHeld, Held
  <2> QED
    BY <2>2, <2>3, PendingType DEF Counts
<1>3. CASE ~ShopReceive /\ ~ShopRespond
  <2>1. ~ShopRemoveMsg
    BY DEF ShopRemoveMsg, ShopDown, Up
  <2>2. UNCHANGED <<mq["MSG_ORDER"], mq["MSG_RESPONSE"]>>
    BY <1>3, <2>1, ShopQueues
  <2>3. (order' = NoOrder) <=> (order = NoOrder)
    BY <1>3, <2>1 DEF ShopNext, ShopStep, ShopLock, ShopCheck, ShopLoad,
       ShopStore, ShopNotify, ShopUnlock, ShopSignal, ShopSignalBlocked,
       ShopLeave, ShopRemoveShm, ShopRemoveSem, ShopKill, ShopDown, OrderHeld, Up
  <2> QED
    BY <2>2, <2>3 DEF Pending
<1> QED
  BY <1>1, <1>2, <1>3

\* A queue and a shop that are there now were there a step ago.
LEMMA UpBefore == TypeOK /\ [Next]_vars /\ Up' => Up
<1> SUFFICES ASSUME TypeOK, [Next]_vars, Up' PROVE Up
  OBVIOUS
<1>1. CASE Shop
  <2>1. objects' \subseteq objects /\ (shopPc = "off" => shopPc' = "off")
    BY <1>1 DEF Shop, ShopNext, ShopStep, ShopReceive, ShopLock, ShopCheck,
       ShopLoad, ShopStore, ShopNotify, ShopUnlock, ShopRespond, ShopSignal,
       ShopSignalBlocked, ShopBlocked, ShopLeave, ShopRemoveShm, ShopRemoveSem,
       ShopRemoveMsg, ShopKill, ShopDown, shared
  <2> QED
    BY <2>1 DEF Up, QueueExists
<1>2. CASE Manager
  BY <1>2, MgrQueues DEF Manager, Up, QueueExists, shopVars
<1>3. ASSUME NEW c \in Customers, Customer(c) PROVE Up
  BY <1>3, CustomerFrame DEF Customer, Up, QueueExists, shopVars
<1>4. CASE UNCHANGED vars
  BY <1>4 DEF vars, shared, shopVars, Up, QueueExists
<1> QED
  BY <1>1, <1>2, <1>3, <1>4 DEF Next

-----------------------------------------------------------------------------
LEMMA WaitersStep ==
    TypeOK /\ TypeOK' /\ OrderHeld /\ OrderHeld' /\ WaitersServed /\ [Next]_vars
    => WaitersServed'
<1> SUFFICES ASSUME TypeOK, TypeOK', OrderHeld, OrderHeld', WaitersServed,
                    [Next]_vars, Up'
             PROVE  /\ Cardinality(Waiting') <= Pending'
                    /\ Killable \cap Customers = {} =>
                          Pending' <= Cardinality(Waiting')
  BY DEF WaitersServed, Up
<1>1. /\ Cardinality(Waiting) <= Pending
      /\ Killable \cap Customers = {} => Pending <= Cardinality(Waiting)
      /\ Up
  BY UpBefore DEF WaitersServed, Up
<1>2. Pending \in Nat /\ Pending' \in Nat /\ Cardinality(Waiting) \in Nat
  BY PendingType, WaitingFinite DEF Counts
<1>3. CASE Shop
  <2>1. Waiting' = Waiting
    BY <1>3 DEF Shop, Waiting, custVars
  <2> QED
    BY <1>1, <1>3, <2>1, ShopCounts DEF Shop
<1>4. CASE Manager
  <2>1. Waiting' = Waiting /\ Pending' = Pending
    BY <1>4, MgrQueues DEF Manager, Waiting, Pending, custVars, shopVars
  <2> QED
    BY <1>1, <2>1
<1>5. ASSUME NEW c \in Customers, Customer(c)
      PROVE  /\ Cardinality(Waiting') <= Pending'
             /\ Killable \cap Customers = {} => Pending' <= Cardinality(Waiting')
  <2> DEFINE q == mq["MSG_ORDER"]
             r == mq["MSG_RESPONSE"]
  <2>0. UNCHANGED order /\ q \in Seq(OrderMsg) /\ r \in Seq(OrderMsg)
    BY <1>5, MqFacts DEF Customer, shopVars
  <2>1. CASE UNCHANGED mq /\ Waiting' = Waiting
    BY <1>1, <2>0, <2>1 DEF Pending
  <2>2. CASE /\ mq'["MSG_ORDER"] = Append(q, OrderOf(c))
             /\ mq'["MSG_RESPONSE"] = r
             /\ c \notin Waiting /\ Waiting' = Waiting \cup {c}
    <3>1. /\ NumOrders' = NumOrders + 1 /\ NumAnswers' = NumAnswers
          /\ Held' = Held
      BY <2>0, <2>2, SentOrder, AppendProperties DEF NumOrders, NumAnswers, Held
    <3>2. Pending' = Pending + 1
      BY <3>1, PendingType DEF Counts
    <3>3. Cardinality(Waiting') = Cardinality(Waiting) + 1
      BY <2>2, OneMore
    <3> QED
      BY <1>1, <1>2, <3>2, <3>3
  <2>3. CASE /\ r # <<>> /\ mq'["MSG_RESPONSE"] = Tail(r)
             /\ mq'["MSG_ORDER"] = q
             /\ c \in Waiting /\ Waiting' = Waiting \ {c}
    <3>1. /\ NumAnswers' = NumAnswers - 1 /\ NumOrders' = NumOrders
          /\ Held' = Held
      BY <2>0, <2>3, HeadTailProperties DEF NumOrders, NumAnswers, Held
    <3>2. Pending' = Pending - 1
      BY <3>1, PendingType DEF Counts
    <3>3. Cardinality(Waiting') = Cardinality(Waiting) - 1
      BY <2>3, OneLess
    <3> QED
      BY <1>1, <1>2, <3>2, <3>3
  <2>4. CASE /\ c \in Killable /\ UNCHANGED mq
             /\ c \in Waiting /\ Waiting' = Waiting \ {c}
    <3>1. Pending' = Pending
      BY <2>0, <2>4 DEF Pending
    <3>2. Cardinality(Waiting') = Cardinality(Waiting) - 1
      BY <2>4, OneLess
    <3> QED
      BY <1>1, <1>2, <2>4, <3>1, <3>2
  <2> QED
    BY <1>1, <1>5, <2>1, <2>2, <2>3, <2>4, CustomerCounts DEF Customer
<1>6. CASE UNCHANGED vars
  <2>1. Waiting' = Waiting /\ Pending' = Pending
    BY <1>6 DEF vars, shared, shopVars, custVars, Waiting, Pending
  <2> QED
    BY <1>1, <2>1
<1> QED
  BY <1>3, <1>4, <1>5, <1>6 DEF Next

\* While queue and shop are there, each waiting customer has an order or an
\* answer of its own number on the way, whoever takes whose; and when no
\* customer is killed there is never one too many.
THEOREM NobodyForgotten == Spec => []WaitersServed
<1>1. Init => OrderHeld /\ WaitersServed
  <2> SUFFICES ASSUME Init PROVE OrderHeld /\ WaitersServed
    OBVIOUS
  <2>1. OrderHeld
    BY DEF Init, ShopInit, OrderHeld
  <2>2. Waiting = {}
    BY DEF Init, CustInit, Waiting
  <2>3. Pending = 0
    BY DEF Init, CommonInit, ShopInit, Pending, MsgTypes
  <2> QED
    BY <2>1, <2>2, <2>3, FS_EmptySet DEF WaitersServed
<1> QED
  BY <1>1, HeldStep, WaitersStep, TypeCorrect, PTL DEF Spec

-----------------------------------------------------------------------------
(* Units is a recursive function: what it computes *)

LEMMA Ascends ==
    ASSUME NEW S, 0 \in S, \A n \in Nat : n \in S => n + 1 \in S
    PROVE  Nat \subseteq S
<1> SUFFICES ASSUME Nat \ S # {}
             PROVE  FALSE
  OBVIOUS
<1>1. \E x \in Nat \ S : \A y \in Nat \ S : ~(<<y, x>> \in OpToRel(<, Nat))
  BY NatLessThanWellFounded, WFMin
<1>2. \A x, y \in Nat : y < x => <<y, x>> \in OpToRel(<, Nat)
  BY DEF OpToRel
<1>3. PICK x \in Nat \ S : \A y \in Nat \ S : ~(y < x)
  BY <1>1, <1>2, Zenon
<1>4. x - 1 \in Nat /\ x - 1 < x /\ (x - 1) + 1 = x
  BY <1>3
<1> QED
  BY <1>3, <1>4

\* f adds up the first n values of w.
Sums(f, w, n) == f[0] = 0 /\ \A k \in 1..n : f[k] = f[k-1] + w[k]

LEMMA SumsExist ==
    ASSUME NEW n \in Nat, NEW w \in [1..n -> Nat]
    PROVE  \E f \in [0..n -> Nat] : Sums(f, w, n)
<1> DEFINE T == {m \in Nat : m <= n => \E f \in [0..m -> Nat] : Sums(f, w, m)}
<1>1. 0 \in T
  <2>1. [k \in 0..0 |-> 0] \in [0..0 -> Nat]
    OBVIOUS
  <2>2. Sums([k \in 0..0 |-> 0], w, 0)
    BY DEF Sums
  <2> QED
    BY <2>1, <2>2
<1>2. ASSUME NEW m \in Nat, m \in T
      PROVE  m + 1 \in T
  <2> SUFFICES ASSUME m + 1 <= n
               PROVE  \E f \in [0..m+1 -> Nat] : Sums(f, w, m + 1)
    OBVIOUS
  <2>1. PICK f \in [0..m -> Nat] : Sums(f, w, m)
    BY <1>2
  <2> DEFINE g == [k \in 0..m+1 |-> IF k = m + 1 THEN f[m] + w[m+1] ELSE f[k]]
  <2>2. g \in [0..m+1 -> Nat]
    OBVIOUS
  <2>3. g[m+1] = f[m] + w[m+1] /\ \A k \in 0..m : g[k] = f[k]
    OBVIOUS
  <2> HIDE DEF g, T
  <2>4. ASSUME NEW k \in 1..m+1
        PROVE  g[k] = g[k-1] + w[k]
    <3>1. CASE k = m + 1
      <4>1. k - 1 = m /\ m \in 0..m
        BY <3>1
      <4>2. g[k-1] = f[m]
        BY <2>3, <4>1
      <4> QED
        BY <2>3, <3>1, <4>2
    <3>2. CASE k # m + 1
      <4>1. k \in 1..m /\ k \in 0..m /\ k - 1 \in 0..m
        BY <3>2
      <4>2. f[k] = f[k-1] + w[k]
        BY <2>1, <4>1 DEF Sums
      <4>3. g[k] = f[k] /\ g[k-1] = f[k-1]
        BY <2>3, <4>1
      <4> QED
        BY <4>2, <4>3
    <3> QED
      BY <3>1, <3>2
  <2>5. Sums(g, w, m + 1)
    BY <2>1, <2>3, <2>4 DEF Sums
  <2> QED
    BY <2>2, <2>5
<1>3. n \in T
  <2>1. \A m \in Nat : m \in T => m + 1 \in T
    BY <1>2
  <2> HIDE DEF T
  <2> QED
    BY <1>1, <2>1, Ascends
<1> QED
  BY <1>3

\* A line counts for its own item.
LEMMA UnitsFacts ==
    ASSUME NEW lines \in Seq(CartLine), NEW i \in Items
    PROVE  /\ Units(lines, i)[0] = 0
           /\ \A n \in 1..Len(lines) :
                /\ Units(lines, i)[n-1] \in Nat
                /\ lines[n].qty \in Nat
                /\ Units(lines, i)[n] = Units(lines, i)[n-1]
                      + IF lines[n].item = i THEN lines[n].qty ELSE 0
<1> DEFINE L == Len(lines)
           w == [n \in 1..L |-> IF lines[n].item = i THEN lines[n].qty ELSE 0]
           Body(f) == [n \in 0..L |-> IF n = 0 THEN 0 ELSE f[n-1]
                         + IF lines[n].item = i THEN lines[n].qty ELSE 0]
           C == CHOOSE f : f = Body(f)
<1>1. Units(lines, i) = C
  BY DEF Units
<1>2. L \in Nat /\ \A n \in 1..L : lines[n].qty \in Nat
  <2>1. L \in Nat /\ \A n \in 1..L : lines[n] \in CartLine
    OBVIOUS
  <2>2. \A line \in CartLine : line.qty \in Nat
    BY QuantityAssumption DEF CartLine
  <2> QED
    BY <2>1, <2>2
<1>3. w \in [1..L -> Nat]
  BY <1>2
<1>4. \E f : f = Body(f)
  <2>1. PICK f \in [0..L -> Nat] : Sums(f, w, L)
    BY <1>2, <1>3, SumsExist
  <2>2. ASSUME NEW n \in 0..L
        PROVE  f[n] = IF n = 0 THEN 0 ELSE f[n-1]
                         + IF lines[n].item = i THEN lines[n].qty ELSE 0
    BY <2>1, <2>2 DEF Sums
  <2>3. f = Body(f)
    BY <2>1, <2>2
  <2> QED
    BY <2>3
<1>5. C = Body(C)
  BY <1>4
<1>6. /\ C[0] = 0
      /\ \A n \in 1..L : C[n] = C[n-1]
           + IF lines[n].item = i THEN lines[n].qty ELSE 0
  <2> HIDE DEF C
  <2>1. ASSUME NEW n \in 0..L
        PROVE  C[n] = IF n = 0 THEN 0 ELSE C[n-1]
                         + IF lines[n].item = i THEN lines[n].qty ELSE 0
    BY <1>5
  <2> QED
    BY <1>2, <2>1
<1> HIDE DEF C
<1>7. \A n \in 0..L : C[n] \in Nat
  <2> DEFINE T == {n \in Nat : n <= L => C[n] \in Nat}
  <2>1. 0 \in T
    BY <1>6
  <2>2. ASSUME NEW n \in Nat, n \in T
        PROVE  n + 1 \in T
    <3> SUFFICES ASSUME n + 1 <= L
                 PROVE  C[n+1] \in Nat
      OBVIOUS
    <3>1. C[n] \in Nat /\ n + 1 \in 1..L
      BY <1>2, <2>2
    <3>2. C[n+1] = C[n] + IF lines[n+1].item = i THEN lines[n+1].qty ELSE 0
      BY <1>6, <3>1
    <3> QED
      BY <1>2, <3>1, <3>2
  <2>3. Nat \subseteq T
    <3>1. \A n \in Nat : n \in T => n + 1 \in T
      BY <2>2
    <3> HIDE DEF T
    <3> QED
      BY <2>1, <3>1, Ascends
  <2> QED
    BY <1>2, <2>3
<1> QED
  BY <1>1, <1>2, <1>6, <1>7

-----------------------------------------------------------------------------
(* A lone customer *)

\* The first n lines of the cart were sold to the customer.
Paid(c, n) == \A i \in Items : granted[c][i] >= Units(cart[c], i)[n]

\* The order or answer under way is that of the line the customer stands at.
InLine(c, m) == LET line == cart[c][idx[c]]
                IN  m.item = line.item /\ m.qty = line.qty

NoneUnderWay ==
    mq["MSG_ORDER"] = <<>> /\ mq["MSG_RESPONSE"] = <<>> /\ order = NoOrder

OrderSent(c) ==
    /\ Len(mq["MSG_ORDER"]) = 1 /\ InLine(c, mq["MSG_ORDER"][1])
    /\ mq["MSG_RESPONSE"] = <<>> /\ order = NoOrder

OrderTaken(c) ==
    /\ order # NoOrder /\ InLine(c, order)
    /\ order.status => Paid(c, idx[c])
    /\ mq["MSG_ORDER"] = <<>> /\ mq["MSG_RESPONSE"] = <<>>

OrderBack(c) ==
    /\ Len(mq["MSG_RESPONSE"]) = 1
    /\ mq["MSG_RESPONSE"][1].status => Paid(c, idx[c])
    /\ mq["MSG_ORDER"] = <<>> /\ order = NoOrder

\* There is at most one message under way, and only while the customer waits;
\* an acceptance is under way only when the line was sold.
OneExchange(c) ==
    \/ NoneUnderWay
    \/ custPc[c] = "wait" /\ (OrderSent(c) \/ OrderTaken(c) \/ OrderBack(c))

\* The lines before the one the customer stands at are sold, and nothing
\* remains of an exchange when the queue is gone.
LoneInv(c) ==
    /\ OneExchange(c)
    /\ custPc[c] \in {"send", "wait"} => Paid(c, idx[c] - 1)
    /\ ~QueueExists => NoneUnderWay /\ shopPc = "off"

LEMMA TailOfOne ==
    ASSUME NEW S, NEW q \in Seq(S), Len(q) = 1
    PROVE  Tail(q) = <<>>
<1>1. q # <<>>
  OBVIOUS
<1>2. Tail(q) \in Seq(S) /\ Len(Tail(q)) = 0
  BY <1>1, HeadTailProperties
<1> QED
  BY <1>2, EmptySeq

LEMMA LoneLine ==
    ASSUME TypeOK, NEW c \in Customers, custPc[c] \in {"send", "wait"}
    PROVE  /\ idx[c] \in 1..Len(cart[c]) /\ cart[c] \in Seq(CartLine)
           /\ cart[c][idx[c]] \in CartLine
           /\ \A i \in Items : Units(cart[c], i)[idx[c] - 1] \in Nat
           /\ \A i \in Items : Units(cart[c], i)[idx[c]] =
                Units(cart[c], i)[idx[c] - 1]
                + IF cart[c][idx[c]].item = i THEN cart[c][idx[c]].qty ELSE 0
<1>1. idx[c] \in 1..Len(cart[c]) /\ cart[c] \in Seq(CartLine)
  BY DEF TypeOK, CustTypeOK
<1>2. cart[c][idx[c]] \in CartLine
  BY <1>1
<1> QED
  BY <1>1, <1>2, UnitsFacts

\* A step of another process that only drops the order in hand, or nothing.
LEMMA LoneApart ==
    ASSUME NEW c \in Customers, LoneInv(c), UNCHANGED custVars,
           UNCHANGED <<mq["MSG_ORDER"], mq["MSG_RESPONSE"], granted[c]>>,
           order' \in {order, NoOrder},
           ~QueueExists' => ~QueueExists,
           shopPc = "off" => shopPc' = "off"
    PROVE  LoneInv(c)'
<1>1. UNCHANGED <<custPc, cart, idx>>
  BY DEF custVars
<1>2. \A n : Paid(c, n)' <=> Paid(c, n)
  BY <1>1 DEF Paid
<1>3. Paid(c, idx[c])' <=> Paid(c, idx[c])
  BY <1>1 DEF Paid
<1>4. Paid(c, idx[c] - 1)' <=> Paid(c, idx[c] - 1)
  BY <1>1 DEF Paid
<1>5. NoneUnderWay => NoneUnderWay'
  BY DEF NoneUnderWay
<1>6. OrderSent(c) => OrderSent(c)'
  BY <1>1 DEF OrderSent, InLine
<1>7. OrderTaken(c) => OrderTaken(c)' \/ NoneUnderWay'
  BY <1>1, <1>3 DEF OrderTaken, InLine, NoneUnderWay
<1>8. OrderBack(c) => OrderBack(c)'
  BY <1>1, <1>3 DEF OrderBack
<1> QED
  BY <1>1, <1>4, <1>5, <1>6, <1>7, <1>8 DEF LoneInv, OneExchange

LEMMA LoneShop ==
    ASSUME TypeOK, TypeOK', OrderHeld, NEW c \in Customers, Customers = {c},
           LoneInv(c), ShopNext, UNCHANGED custVars
    PROVE  LoneInv(c)'
<1>0. /\ UNCHANGED <<custPc, cart, idx>>
      /\ mq["MSG_ORDER"] \in Seq(OrderMsg) /\ mq["MSG_RESPONSE"] \in Seq(OrderMsg)
      /\ DOMAIN mq = MsgTypes
  BY MqFacts DEF custVars
<1>1. CASE ShopReceive
  <2>1. /\ mq["MSG_ORDER"] # <<>> /\ QueueExists
        /\ UNCHANGED <<granted, objects>>
        /\ mq'["MSG_ORDER"] = Tail(mq["MSG_ORDER"])
        /\ mq'["MSG_RESPONSE"] = mq["MSG_RESPONSE"]
        /\ order' = [Head(mq["MSG_ORDER"]) EXCEPT !.status = FALSE]
    BY <1>0, <1>1 DEF ShopReceive, HasMsg, Receive, MsgTypes, history
  <2>2. custPc[c] = "wait" /\ OrderSent(c)
    BY <2>1 DEF LoneInv, OneExchange, NoneUnderWay, OrderTaken, OrderBack
  <2>3. Head(mq["MSG_ORDER"]) = mq["MSG_ORDER"][1] /\ mq["MSG_ORDER"][1] \in OrderMsg
    BY <1>0, <2>1, <2>2 DEF OrderSent
  <2>4. order'.status = FALSE /\ InLine(c, order)' /\ order' \in OrderMsg
    BY <1>0, <2>1, <2>2, <2>3 DEF OrderSent, InLine, OrderMsg
  <2>5. mq'["MSG_ORDER"] = <<>> /\ mq'["MSG_RESPONSE"] = <<>>
    BY <1>0, <2>1, <2>2, TailOfOne DEF OrderSent
  <2>6. OrderTaken(c)'
    BY <2>4, <2>5, OrderIsNot DEF OrderTaken
  <2>7. Paid(c, idx[c] - 1)' <=> Paid(c, idx[c] - 1)
    BY <1>0, <2>1 DEF Paid
  <2>8. QueueExists'
    BY <2>1 DEF QueueExists
  <2> QED
    BY <1>0, <2>2, <2>6, <2>7, <2>8 DEF LoneInv, OneExchange
<1>2. CASE ShopStore
  <2>1. /\ order \in OrderMsg /\ order.customer = c
        /\ UNCHANGED <<mq, objects>>
        /\ order' = [order EXCEPT !.status = TRUE,
                                  !.price = price[order.item] * order.qty]
        /\ granted' = [granted EXCEPT ![c][order.item] = @ + order.qty]
        /\ shopPc # "off"
    <3>1. order \in OrderMsg /\ order.customer = c
      BY <1>2 DEF ShopStore, TypeOK, ShopTypeOK, ShopCS, OrderMsg
    <3> QED
      BY <1>2, <3>1 DEF ShopStore
  <2>2. custPc[c] = "wait" /\ OrderTaken(c)
    BY <2>1, OrderIsNot DEF LoneInv, OneExchange, NoneUnderWay, OrderSent, OrderBack
  <2>3. QueueExists /\ QueueExists'
    BY <2>1 DEF LoneInv, QueueExists
  <2>4. Paid(c, idx[c] - 1)
    BY <2>2 DEF LoneInv
  <2>5. /\ order.item = cart[c][idx[c]].item /\ order.qty = cart[c][idx[c]].qty
        /\ order.item \in Items /\ order.qty \in Nat
    BY <2>1, <2>2 DEF OrderTaken, InLine, OrderMsg
  <2>6. ASSUME NEW i \in Items
        PROVE  /\ granted'[c][i] >= Units(cart[c], i)[idx[c] - 1]
               /\ granted'[c][i] >= Units(cart[c], i)[idx[c]]
    <3> DEFINE before == Units(cart[c], i)[idx[c] - 1]
               after  == Units(cart[c], i)[idx[c]]
    <3>1. granted[c][i] \in Nat /\ granted \in [Customers -> [Items -> Nat]]
      BY DEF TypeOK, CommonTypeOK
    <3>2. granted'[c][i] = granted[c][i] + IF order.item = i THEN order.qty ELSE 0
      BY <2>1, <2>5, <3>1
    <3>3. before \in Nat /\ after = before + IF order.item = i THEN order.qty ELSE 0
      BY <2>2, <2>5, LoneLine
    <3>4. granted[c][i] >= before
      BY <2>4 DEF Paid
    <3> HIDE DEF before, after
    <3>5. granted'[c][i] >= before /\ granted'[c][i] >= after
      BY <2>5, <3>1, <3>2, <3>3, <3>4
    <3> QED
      BY <3>5 DEF before, after
  <2>7. Paid(c, idx[c] - 1)' /\ Paid(c, idx[c])'
    BY <1>0, <2>6 DEF Paid
  <2>8. order' # NoOrder /\ InLine(c, order)'
    <3>1. order' \in OrderMsg
      BY <1>2 DEF ShopStore, TypeOK, ShopTypeOK, ShopCS
    <3>2. order'.item = order.item /\ order'.qty = order.qty
      BY <2>1 DEF OrderMsg
    <3> QED
      BY <1>0, <2>5, <3>1, <3>2, OrderIsNot DEF InLine
  <2>9. OrderTaken(c)'
    BY <2>1, <2>2, <2>7, <2>8 DEF OrderTaken
  <2> QED
    BY <1>0, <2>2, <2>3, <2>7, <2>9 DEF LoneInv, OneExchange
<1>3. CASE ShopRespond
  <2>1. /\ order \in OrderMsg /\ order' = NoOrder
        /\ UNCHANGED <<granted, objects>>
        /\ mq'["MSG_ORDER"] = mq["MSG_ORDER"]
        /\ mq'["MSG_RESPONSE"] = Append(mq["MSG_RESPONSE"], order)
        /\ shopPc # "off"
    BY <1>0, <1>3 DEF ShopRespond, Send, MsgTypes, history, TypeOK, ShopTypeOK
  <2>2. custPc[c] = "wait" /\ OrderTaken(c)
    BY <2>1, OrderIsNot DEF LoneInv, OneExchange, NoneUnderWay, OrderSent, OrderBack
  <2>3. QueueExists /\ QueueExists'
    BY <2>1 DEF LoneInv, QueueExists
  <2>4. /\ Paid(c, idx[c] - 1)' <=> Paid(c, idx[c] - 1)
        /\ Paid(c, idx[c])' <=> Paid(c, idx[c])
    BY <1>0, <2>1 DEF Paid
  <2>5. Len(mq'["MSG_RESPONSE"]) = 1 /\ mq'["MSG_RESPONSE"][1] = order
    BY <2>1, <2>2 DEF OrderTaken
  <2>6. OrderBack(c)'
    BY <2>1, <2>2, <2>4, <2>5 DEF OrderTaken, OrderBack
  <2> QED
    BY <1>0, <2>2, <2>3, <2>4, <2>6 DEF LoneInv, OneExchange
<1>4. CASE ShopRemoveMsg
  <2>1. /\ mq'["MSG_ORDER"] = <<>> /\ mq'["MSG_RESPONSE"] = <<>>
        /\ order' = NoOrder /\ shopPc' = "off" /\ UNCHANGED granted
    BY <1>4 DEF ShopRemoveMsg, ShopDown, MsgTypes, history
  <2>2. NoneUnderWay'
    BY <2>1 DEF NoneUnderWay
  <2>3. Paid(c, idx[c] - 1)' <=> Paid(c, idx[c] - 1)
    BY <1>0, <2>1 DEF Paid
  <2> QED
    BY <1>0, <2>1, <2>2, <2>3 DEF LoneInv, OneExchange
<1>5. CASE ~ShopReceive /\ ~ShopStore /\ ~ShopRespond /\ ~ShopRemoveMsg
  <2>1. UNCHANGED <<mq["MSG_ORDER"], mq["MSG_RESPONSE"]>>
    BY <1>5, ShopQueues
  <2>2. /\ order' \in {order, NoOrder} /\ UNCHANGED granted
        /\ ~QueueExists' => ~QueueExists
        /\ shopPc # "off"
    BY <1>5 DEF ShopNext, ShopStep, ShopLock, ShopCheck, ShopLoad, ShopNotify,
       ShopUnlock, ShopSignal, ShopSignalBlocked, ShopBlocked, ShopLeave,
       ShopRemoveShm, ShopRemoveSem, ShopKill, ShopDown, QueueExists, shared,
       history
  <2> QED
    BY <2>1, <2>2, LoneApart
<1> QED
  BY <1>1, <1>2, <1>3, <1>4, <1>5

LEMMA LoneManager ==
    ASSUME TypeOK, NEW c \in Customers, LoneInv(c), MgrNext,
           UNCHANGED <<shopVars, custVars>>
    PROVE  LoneInv(c)'
<1>1. UNCHANGED <<objects, mq["MSG_ORDER"], mq["MSG_RESPONSE"], granted>>
  BY MgrQueues
<1> QED
  BY <1>1, LoneApart DEF shopVars, QueueExists

LEMMA LoneCustomer ==
    ASSUME TypeOK, NEW c \in Customers, c \notin Killable, LoneInv(c),
           CustomerNext(c), UNCHANGED shopVars
    PROVE  LoneInv(c)'
<1> USE DEF GoTo
<1>0. /\ custPc \in [Customers -> CustPcs] /\ idx \in [Customers -> Nat]
      /\ cart \in [Customers -> Seq(CartLine)]
      /\ mq["MSG_ORDER"] \in Seq(OrderMsg) /\ mq["MSG_RESPONSE"] \in Seq(OrderMsg)
      /\ DOMAIN mq = MsgTypes
  BY MqFacts DEF TypeOK, CustTypeOK
<1>1. UNCHANGED <<objects, order, shopPc>> /\ (QueueExists' <=> QueueExists)
  BY CustomerFrame DEF shopVars, QueueExists
<1>2. CASE SendOrder(c)
  <2>1. /\ custPc[c] = "send" /\ custPc'[c] = "wait" /\ QueueExists
        /\ UNCHANGED <<cart, idx, granted>>
        /\ mq'["MSG_ORDER"] = Append(mq["MSG_ORDER"], OrderOf(c))
        /\ mq'["MSG_RESPONSE"] = mq["MSG_RESPONSE"]
    BY <1>0, <1>2 DEF SendOrder, Send, MsgTypes, history
  <2>2. NoneUnderWay
    BY <2>1 DEF LoneInv, OneExchange
  <2>3. Len(mq'["MSG_ORDER"]) = 1 /\ mq'["MSG_ORDER"][1] = OrderOf(c)
    BY <2>1, <2>2 DEF NoneUnderWay
  <2>4. InLine(c, mq["MSG_ORDER"][1])'
    BY <2>1, <2>3 DEF InLine, OrderOf
  <2>5. OrderSent(c)'
    BY <1>1, <2>1, <2>2, <2>3, <2>4 DEF NoneUnderWay, OrderSent
  <2>6. Paid(c, idx[c] - 1)' <=> Paid(c, idx[c] - 1)
    BY <2>1 DEF Paid
  <2> QED
    BY <1>1, <2>1, <2>5, <2>6 DEF LoneInv, OneExchange
<1>3. CASE RecvResponse(c)
  <2>1. /\ custPc[c] = "wait" /\ mq["MSG_RESPONSE"] # <<>> /\ QueueExists
        /\ mq'["MSG_ORDER"] = mq["MSG_ORDER"]
        /\ mq'["MSG_RESPONSE"] = Tail(mq["MSG_RESPONSE"])
    BY <1>0, <1>3 DEF RecvResponse, HasMsg, Receive, MsgTypes
  <2>2. OrderBack(c)
    BY <2>1 DEF LoneInv, OneExchange, NoneUnderWay, OrderSent, OrderTaken
  <2>3. NoneUnderWay'
    <3>1. Tail(mq["MSG_RESPONSE"]) = <<>>
      BY <1>0, <2>2, TailOfOne DEF OrderBack
    <3> QED
      BY <1>1, <2>1, <2>2, <3>1 DEF OrderBack, NoneUnderWay
  <2>4. CASE custPc'[c] = "menu"
    BY <1>1, <2>1, <2>3, <2>4 DEF LoneInv, OneExchange
  <2>5. CASE custPc'[c] # "menu"
    <3>1. /\ OrderAccepted /\ UNCHANGED <<cart, granted>>
          /\ idx'[c] = idx[c] + 1
      BY <1>0, <1>3, <2>5 DEF RecvResponse, CheckoutSucceeds, CheckoutFails,
         NextLine, history
    <3>2. Paid(c, idx[c])
      <4>1. Head(mq["MSG_RESPONSE"]) = mq["MSG_RESPONSE"][1]
        BY <1>0, <2>1
      <4> QED
        BY <2>2, <3>1, <4>1 DEF OrderBack, OrderAccepted
    <3>3. idx'[c] - 1 = idx[c]
      BY <1>0, <3>1
    <3>4. Paid(c, idx[c] - 1)'
      BY <3>1, <3>2, <3>3 DEF Paid
    <3> QED
      BY <1>1, <2>1, <2>3, <3>4 DEF LoneInv, OneExchange
  <2> QED
    BY <2>4, <2>5
<1>4. CASE QueueGone(c)
  <2>1. ~QueueExists /\ custPc'[c] = "menu" /\ UNCHANGED mq
    BY <1>0, <1>4 DEF QueueGone, CheckoutFails
  <2>2. NoneUnderWay'
    BY <1>1, <2>1 DEF LoneInv, NoneUnderWay
  <2> QED
    BY <1>1, <2>1, <2>2 DEF LoneInv, OneExchange
<1>5. CASE Checkout(c)
  <2>1. /\ custPc[c] = "menu" /\ custPc'[c] = "send" /\ idx'[c] = 1
        /\ UNCHANGED <<cart, granted, mq>>
    BY <1>0, <1>5 DEF Checkout, shared, history
  <2>2. NoneUnderWay'
    BY <1>1, <2>1 DEF LoneInv, OneExchange, NoneUnderWay
  <2>3. Paid(c, idx[c] - 1)'
    <3>1. \A i \in Items : Units(cart[c], i)[0] = 0 /\ granted[c][i] \in Nat
      BY <1>0, UnitsFacts DEF TypeOK, CommonTypeOK
    <3>2. idx'[c] - 1 = 0
      BY <2>1
    <3> QED
      BY <2>1, <3>1, <3>2 DEF Paid
  <2> QED
    BY <1>1, <2>1, <2>2, <2>3 DEF LoneInv, OneExchange
<1>6. CASE \/ CustomerStart(c) \/ CustomerExit(c) \/ ClearCart(c)
           \/ AddCheck(c) \/ AddUnit(c) \/ AddTotal(c)
  <2>1. /\ custPc[c] \notin {"send", "wait"} /\ custPc'[c] \notin {"send", "wait"}
        /\ UNCHANGED mq
    BY <1>0, <1>6 DEF CustomerStart, CustomerExit, CustomerGone, ClearCart,
       AddCheck, AddUnit, AddTotal, shared
  <2>2. NoneUnderWay'
    BY <1>1, <2>1 DEF LoneInv, OneExchange, NoneUnderWay
  <2> QED
    BY <1>1, <2>1, <2>2 DEF LoneInv, OneExchange
<1> QED
  BY <1>2, <1>3, <1>4, <1>5, <1>6
     DEF CustomerNext, CustomerInput, CustomerStep, CustomerKill

LEMMA LoneStep ==
    ASSUME NEW c \in Customers, Customers = {c}, c \notin Killable
    PROVE  TypeOK /\ TypeOK' /\ OrderHeld /\ LoneInv(c) /\ [Next]_vars
           => LoneInv(c)'
<1> SUFFICES ASSUME TypeOK, TypeOK', OrderHeld, LoneInv(c), [Next]_vars
             PROVE  LoneInv(c)'
  OBVIOUS
<1>1. CASE Shop
  BY <1>1, LoneShop DEF Shop
<1>2. CASE Manager
  BY <1>2, LoneManager DEF Manager
<1>3. CASE Customer(c)
  BY <1>3, LoneCustomer DEF Customer
<1>4. CASE UNCHANGED vars
  <2>1. UNCHANGED <<custVars, mq, granted, order, objects, shopPc>>
    BY <1>4 DEF vars, shared, history, shopVars
  <2> QED
    BY <2>1, LoneApart DEF QueueExists
<1> QED
  BY <1>1, <1>2, <1>3, <1>4 DEF Next

Backed == \A c \in Customers : Succeeds(c) =>
              \A i \in Items : granted[c][i] >= UnitsInCart(c, i)

\* What the customer is told is what the history says.
LEMMA LoneSuccess ==
    ASSUME NEW me \in Customers, Customers = {me}, me \notin Killable
    PROVE  TypeOK /\ LoneInv(me) /\ [Next]_vars => [Backed]_vars
<1> SUFFICES ASSUME TypeOK, LoneInv(me), [Next]_vars, Succeeds(me),
                    NEW i \in Items
             PROVE  granted[me][i] >= UnitsInCart(me, i)
  BY DEF Backed
<1>1. Customer(me)
  BY DEF Next, Shop, Manager, custVars, vars, Succeeds
<1>2. /\ custPc \in [Customers -> CustPcs] /\ cart[me] \in Seq(CartLine)
      /\ mq["MSG_RESPONSE"] \in Seq(OrderMsg)
  BY MqFacts DEF TypeOK, CustTypeOK
<1>3. RecvResponse(me)
  BY <1>1 DEF Succeeds, Customer, CustomerNext, CustomerInput, CustomerStep,
     CustomerKill, CustomerStart, CustomerExit, ClearCart, AddCheck, AddUnit,
     AddTotal, Checkout, SendOrder, QueueGone, CheckoutFails
<1>4. OrderAccepted /\ idx[me] = Len(cart[me]) /\ mq["MSG_RESPONSE"] # <<>>
  BY <1>2, <1>3 DEF RecvResponse, Succeeds, NextLine, CheckoutFails, HasMsg
<1>5. OrderBack(me)
  BY <1>4 DEF LoneInv, OneExchange, NoneUnderWay, OrderSent, OrderTaken
<1>6. Paid(me, idx[me])
  <2>1. Head(mq["MSG_RESPONSE"]) = mq["MSG_RESPONSE"][1]
    BY <1>2, <1>4
  <2> QED
    BY <1>4, <1>5, <2>1 DEF OrderBack, OrderAccepted
<1> QED
  BY <1>4, <1>6 DEF Paid, UnitsInCart

LEMMA LoneInit ==
    ASSUME NEW c \in Customers
    PROVE  Init => LoneInv(c)
BY DEF Init, CommonInit, ShopInit, CustInit, LoneInv, OneExchange, NoneUnderWay,
   QueueExists, MsgTypes

LEMMA HeldInvariant == Spec => [](TypeOK /\ OrderHeld)
<1>1. Init => OrderHeld
  BY DEF Init, ShopInit, OrderHeld
<1> QED
  BY <1>1, HeldStep, TypeCorrect, PTL DEF Spec

\* A customer that shops alone, and is not killed with an exchange under way,
\* is told "Checkout successful!" only when every unit of every line of its
\* cart was taken out of the stock for it, whatever the shop, the manager and
\* the signals do meanwhile.
THEOREM LoneSuccessBacked ==
    ASSUME NEW me \in Customers, Customers = {me}, me \notin Killable
    PROVE  Spec => SuccessIsBacked
<1>1. Init => LoneInv(me)
  BY LoneInit
<1>2. TypeOK /\ TypeOK' /\ OrderHeld /\ LoneInv(me) /\ [Next]_vars => LoneInv(me)'
  BY LoneStep
<1>3. TypeOK /\ LoneInv(me) /\ [Next]_vars => [Backed]_vars
  BY LoneSuccess
<1>4. Backed => \A c \in Customers : Succeeds(c) =>
                   \A i \in Items : granted[c][i] >= UnitsInCart(c, i)
  BY DEF Backed
<1> QED
  BY <1>1, <1>2, <1>3, <1>4, HeldInvariant, PTL DEF Spec, SuccessIsBacked
=============================================================================
