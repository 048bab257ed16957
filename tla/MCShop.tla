------------------------------- MODULE MCShop -------------------------------
(***************************************************************************)
(* Values for the constants of ShopSystem.                                 *)
(***************************************************************************)
EXTENDS ShopLedger

CONSTANTS c1, c2, shirt, socks

OneCustomer  == {c1}
TwoCustomers == {c1, c2}
OneItem      == {shirt}
TwoItems     == {shirt, socks}

EachHas(n) == [i \in Items |-> n]
StockOf1   == EachHas(1)
StockOf2   == EachHas(2)
ThresholdOf1 == EachHas(1)
PriceOf1     == EachHas(1)

NoOne      == {}
Everyone   == Customers \cup Servers
=============================================================================
