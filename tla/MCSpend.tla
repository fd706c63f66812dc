------------------------------ MODULE MCSpend ------------------------------
EXTENDS SpendReservation, TLC
CONSTANTS o1, o2, o3
OrderPrices == (o1 :> 1) @@ (o2 :> 2) @@ (o3 :> 1)
=============================================================================
