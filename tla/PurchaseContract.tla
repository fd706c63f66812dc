-------------------------- MODULE PurchaseContract --------------------------
(***************************************************************************)
(* What buying a service once for a mission promises, whatever replicas,   *)
(* retries and crashes do: the wallet is debited for at most one request,  *)
(* the merchant acknowledges that payment only after the debit, and the    *)
(* buyer gets an answer only after the payment was acknowledged.  Each of  *)
(* these happens once and is never undone.                                 *)
(***************************************************************************)
CONSTANTS Order, Request, OrderOf

VARIABLES debits,         \* the requests whose payment left the wallet, by order
          acknowledged,   \* the orders whose payment the merchant recorded
          answered        \* the orders whose result is on record

vars == <<debits, acknowledged, answered>>

Init == /\ debits = [o \in Order |-> {}]
        /\ acknowledged = {}
        /\ answered = {}

Debit(r) == /\ debits[OrderOf[r]] = {}
            /\ debits' = [debits EXCEPT ![OrderOf[r]] = {r}]
            /\ UNCHANGED <<acknowledged, answered>>

Acknowledge(o) == /\ debits[o] # {}
                  /\ acknowledged' = acknowledged \cup {o}
                  /\ UNCHANGED <<debits, answered>>

DeliverAnswer(o) == /\ o \in acknowledged
                    /\ answered' = answered \cup {o}
                    /\ UNCHANGED <<debits, acknowledged>>

Next == \/ \E r \in Request : Debit(r)
        \/ \E o \in Order : Acknowledge(o) \/ DeliverAnswer(o)

Spec == Init /\ [][Next]_vars
=============================================================================
