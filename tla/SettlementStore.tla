--------------------------- MODULE SettlementStore ---------------------------
(***************************************************************************)
(* The x402 tables of PostgreSQL: x402_purchases (what the buyer journals  *)
(* before it signs), x402_executions (what the merchant journals before    *)
(* and after it settles) and the outbox rows that announce a confirmed     *)
(* payment.  One action is one statement or one transaction.               *)
(*                                                                         *)
(* A request is named by its request hash, which its idempotency key and   *)
(* its signed nonce are derived from, so one name stands for all three.    *)
(* PostgresX402ExecutionStore.save is not one action: it is several of     *)
(* these in a row, and other callers may come between them.  TablesNext    *)
(* lets every caller interleave; Settlement.tla says who the callers are.  *)
(*                                                                         *)
(* A definition marked "variant" is a plausible mistake in the one that    *)
(* follows it (see RunStore.tla).                                          *)
(***************************************************************************)
EXTENDS Naturals, FiniteSets

CONSTANTS Order,      \* the (mission, service) pairs; each has one purchase
          Request,    \* the x402 requests
          OrderOf,    \* the pair a request was built for
          Tx,         \* settlement transactions on the chain
          Answer,     \* delivered results
          None        \* NULL

ASSUME SettlementAssumption ==
    /\ OrderOf \in [Request -> Order]
    /\ None \notin Order \cup Request \cup Tx \cup Answer

VARIABLES purchases,    \* x402_purchases, by (mission, service)
          executions,   \* x402_executions, by request
          notices       \* the requests whose x402.payment.confirmed row is in the outbox

tables == <<purchases, executions, notices>>

\* 'settlement_attempting', 'execution_pending' and 'failed' are in the CHECK
\* constraint too, but no statement writes them to a purchase.
PurchaseRow == [state : {"none", "quoted", "settlement_uncertain", "paid", "completed"},
                request : Request \cup {None},
                evidence : Tx \cup {None}, result : Answer \cup {None}]

\* order is purchase_id, binding is settlement_transaction_id.
ExecutionRow == [state : {"none", "settlement_attempting", "settlement_uncertain",
                          "paid", "execution_pending", "completed"},
                 order : Order \cup {None},
                 evidence : Tx \cup {None}, binding : Tx \cup {None},
                 response : Answer \cup {None}]

NoPurchase == [state |-> "none", request |-> None, evidence |-> None, result |-> None]
NoExecution == [state |-> "none", order |-> None, evidence |-> None,
                binding |-> None, response |-> None]

TablesInit == /\ purchases = [o \in Order |-> NoPurchase]
              /\ executions = [r \in Request |-> NoExecution]
              /\ notices = {}

-----------------------------------------------------------------------------
(* The buyer's journal.                                                     *)

Journalled(o) == purchases[o].state # "none"

\* INSERT ... ON CONFLICT (mission_id, service_id) DO NOTHING that inserts.
CreatePurchase(r) ==
    /\ ~Journalled(OrderOf[r])
    /\ purchases' = [purchases EXCEPT ![OrderOf[r]] = [NoPurchase EXCEPT !.state = "quoted",
                                                                         !.request = r]]
    /\ UNCHANGED <<executions, notices>>

-----------------------------------------------------------------------------
(* The merchant's journal.                                                  *)

\* The purchase a new execution is linked to: the one of the same mission and
\* service, whatever its request.
LinkOf(r) == IF Journalled(OrderOf[r]) THEN OrderOf[r] ELSE None

\* purchase_id is UNIQUE: the INSERT fails rather than link a purchase twice.
LinkFree(r) == LinkOf(r) = None \/ \A q \in Request : executions[q].order # LinkOf(r)

BegunRow(r) == [NoExecution EXCEPT !.state = "settlement_attempting", !.order = LinkOf(r)]

FreeToBegin(r) == executions[r].state = "none"

\* The compare-and-set that makes one caller the one that settles.
BeginSettlement(r) ==
    /\ FreeToBegin(r)
    /\ LinkFree(r)
    /\ executions' = [executions EXCEPT ![r] = BegunRow(r)]
    /\ UNCHANGED <<purchases, notices>>

\* An execution that was confirmed before: recordConfirmedPayment's replay.
Confirmed(r) == executions[r].state \in {"paid", "execution_pending", "completed"}

\* The conditions under which the transaction commits: the row exists, is not
\* bound to another settlement, and no other row is bound to this one.
Bindable(r, t) == /\ executions[r].state # "none"
                  /\ executions[r].binding \in {None, t}
                  /\ \A q \in Request \ {r} : executions[q].binding # t

PaidExecution(r, t) ==
    IF Confirmed(r) THEN [executions[r] EXCEPT !.binding = t]
                    ELSE [executions[r] EXCEPT !.state = "paid", !.evidence = t, !.binding = t]

PaidPurchaseIfQuoted(r, t, o) ==   \* variant: an uncertain purchase is left behind
    IF ~Confirmed(r) /\ o = executions[r].order /\ purchases[o].state = "quoted"
    THEN [purchases[o] EXCEPT !.state = "paid", !.evidence = t]
    ELSE purchases[o]

PaidPurchase(r, t, o) ==
    IF /\ ~Confirmed(r)
       /\ o = executions[r].order
       /\ purchases[o].state \in {"quoted", "settlement_uncertain"}
    THEN [purchases[o] EXCEPT !.state = "paid", !.evidence = t]
    ELSE purchases[o]

Announced(r) == notices \cup {r}

\* Chain evidence, execution, purchase and outbox row in one transaction.
RecordConfirmedPayment(r, t) ==
    /\ Bindable(r, t)
    /\ executions' = [executions EXCEPT ![r] = PaidExecution(r, t)]
    /\ purchases' = [o \in Order |-> PaidPurchase(r, t, o)]
    /\ notices' = Announced(r)

DoubtedPurchase(r, o) ==
    IF o = executions[r].order /\ purchases[o].state = "quoted"
    THEN [purchases[o] EXCEPT !.state = "settlement_uncertain"]
    ELSE purchases[o]

\* Does nothing (returns false) unless the settlement is being attempted.
MarkSettlementUncertain(r) ==
    /\ executions[r].state = "settlement_attempting"
    /\ executions' = [executions EXCEPT ![r].state = "settlement_uncertain"]
    /\ purchases' = [o \in Order |-> DoubtedPurchase(r, o)]
    /\ UNCHANGED notices

Coalesce(new, old) == IF new = None THEN old ELSE new

WrittenRowAnyState(r, s, t, a) == [executions[r] EXCEPT !.state = s,   \* variant: completed is not sticky
                                                        !.evidence = Coalesce(t, @),
                                                        !.response = Coalesce(a, @)]

WrittenRow(r, s, t, a) == [executions[r] EXCEPT !.state = IF @ = "completed" THEN @ ELSE s,
                                                !.evidence = Coalesce(t, @),
                                                !.response = Coalesce(a, @)]

\* The UPDATE at the end of save: state s, evidence t and response a of the
\* caller's record (None where the record has none).
WriteExecution(r, s, t, a) ==
    /\ executions[r].state # "none"
    /\ executions' = [executions EXCEPT ![r] = WrittenRow(r, s, t, a)]
    /\ UNCHANGED <<purchases, notices>>

\* The UPDATE of the linked purchase after a completed execution was written.
CompletePurchase(r, a) ==
    /\ purchases' = [o \in Order |-> IF o = executions[r].order
                                     THEN [purchases[o] EXCEPT !.state = "completed", !.result = a]
                                     ELSE purchases[o]]
    /\ UNCHANGED <<executions, notices>>

-----------------------------------------------------------------------------
(* save in any interleaving.  What a caller of each statement knows of the  *)
(* row is what its own earlier statements of the same save established.     *)

SavePending(r) == /\ executions[r].binding # None
                  /\ WriteExecution(r, "execution_pending", executions[r].binding, None)

SavePaid(r) == /\ executions[r].binding # None
               /\ WriteExecution(r, "paid", executions[r].binding, None)

SaveUncertain(r) == /\ executions[r].state \notin {"none", "settlement_attempting"}
                    /\ WriteExecution(r, "settlement_uncertain", None, None)

SaveCompleted(r, a) == /\ executions[r].binding # None
                       /\ WriteExecution(r, "completed", executions[r].binding, a)

SaveResult(r, a) == executions[r].state = "completed" /\ CompletePurchase(r, a)

TablesNext == \E r \in Request :
    \/ CreatePurchase(r)
    \/ BeginSettlement(r)
    \/ \E t \in Tx : RecordConfirmedPayment(r, t)
    \/ MarkSettlementUncertain(r)
    \/ SavePaid(r)
    \/ SavePending(r)
    \/ SaveUncertain(r)
    \/ \E a \in Answer : SaveCompleted(r, a) \/ SaveResult(r, a)

TablesSpec == TablesInit /\ [][TablesNext]_tables

-----------------------------------------------------------------------------
(* Properties.                                                              *)

\* Every row is a row its table allows.
TablesTypeOK == /\ purchases \in [Order -> PurchaseRow]
                /\ executions \in [Request -> ExecutionRow]
                /\ notices \subseteq Request

\* The evidence column, the transaction binding and the outbox agree row by
\* row, although save writes them in separate statements: a request is
\* announced exactly when it is bound, to the evidence it shows, and no row is
\* past settlement without evidence.
EvidenceIsBound == \A r \in Request :
    /\ executions[r].evidence = executions[r].binding
    /\ r \in notices <=> executions[r].binding # None
    /\ Confirmed(r) => executions[r].binding # None
    /\ executions[r].state = "settlement_attempting" => executions[r].binding = None

\* A confirmed chain transaction settles one request, and a purchase belongs
\* to one execution.
OneExecutionPerTx == \A q, r \in Request : q # r =>
    /\ executions[q].binding # None => executions[q].binding # executions[r].binding
    /\ executions[q].order # None => executions[q].order # executions[r].order

\* Buyer's and merchant's journals agree: a purchase is paid exactly when the
\* execution linked to it is, by the same transaction, and is uncertain only
\* while that execution is.
JournalsAgree == \A o \in Order :
    /\ purchases[o].state \in {"paid", "completed"} =>
         \E r \in Request : /\ executions[r].order = o
                            /\ executions[r].binding # None
                            /\ executions[r].binding = purchases[o].evidence
    /\ \A r \in Request : executions[r].order = o =>
         /\ executions[r].binding # None => purchases[o].state \in {"paid", "completed"}
         /\ purchases[o].state = "settlement_uncertain" =>
              executions[r].state = "settlement_uncertain"
         /\ purchases[o].state = "completed" => executions[r].state = "completed"

\* A result is on record exactly for the completed executions.
AnswersAreComplete == \A r \in Request :
    executions[r].response # None <=> executions[r].state = "completed"

\* "settlement_uncertain never goes back to quoted or settlement-attempting":
\* no row of either journal ever returns to the state in which a debit may be
\* (re)tried.
NoRetry ==
    /\ \A r \in Request : executions[r].state # "none" =>
         \/ executions'[r].state = executions[r].state
         \/ executions'[r].state \notin {"none", "settlement_attempting"}
    /\ \A o \in Order : Journalled(o) =>
         /\ purchases'[o].request = purchases[o].request
         /\ \/ purchases'[o].state = purchases[o].state
            \/ purchases'[o].state \notin {"none", "quoted"}

\* Each step obeys NoRetry, above.
NeverRetried == [][NoRetry]_tables

\* Once bound, an execution keeps its transaction; once completed, it and its
\* purchase stay so, whatever late or failing save still writes.
PaymentStays ==
    /\ \A r \in Request :
         /\ executions[r].binding # None =>
              /\ executions'[r].binding = executions[r].binding
              /\ executions'[r].evidence = executions[r].evidence
         /\ executions[r].state = "completed" => executions'[r].state = "completed"
    /\ \A o \in Order :
         /\ purchases[o].state \in {"paid", "completed"} =>
              /\ purchases'[o].state \in {"paid", "completed"}
              /\ purchases'[o].evidence = purchases[o].evidence
         /\ purchases[o].state = "completed" => purchases'[o].state = "completed"

\* Each step obeys PaymentStays, above.
PaymentIsFinal == [][PaymentStays]_tables
=============================================================================
