----------------------------- MODULE Settlement -----------------------------
(***************************************************************************)
(* Buying a service over x402: hunter replicas that may execute the same   *)
(* mission at once, merchant replicas behind one endpoint, the chain, and  *)
(* the operator's reconciliation command, on the tables of                 *)
(* SettlementStore.tla.                                                    *)
(*                                                                         *)
(* A hunter journals the purchase before it signs, signs once, and after   *)
(* a failure or a restart only replays the journalled request unsigned.    *)
(* A merchant claims the request before it calls the facilitator, records  *)
(* the payment, then executes; each await of the handler is a step of its  *)
(* own, because another call, replica or operator may act in between.      *)
(*                                                                         *)
(* External, modelled from how the code uses them: the facilitator (it may *)
(* settle and answer, settle later, or not settle) and the chain (a signed *)
(* nonce pays once, and not after its deadline).                           *)
(***************************************************************************)
EXTENDS SettlementStore

CONSTANTS Hunter, Merchant,
          Call,             \* slots for HTTP requests in flight
          MaxDeliveries,    \* hunterConfig.x402.deliveryAttempts
          MaxFaults         \* bound: crashes, lost replies and store errors

ASSUME DeliveryAssumption ==
    /\ MaxDeliveries \in Nat \ {0}
    /\ MaxFaults \in Nat
    /\ Tx = Request   \* a transfer is named by the request whose nonce it spends
    /\ None \notin Call \cup Hunter \cup Merchant

VARIABLES hunters,    \* the purchase each hunter replica is at
          calls,      \* the merchant's handlers, by call
          jobs,       \* pendingExecutions of each merchant process
          operator,   \* the reconciliation command
          chain,      \* "none", "broadcast" or "settled", by request
          expired,    \* the requests past their expiresAt
          faults

people == <<hunters, operator>>
outside == <<chain, expired>>
vars == <<purchases, executions, notices, hunters, calls, jobs, operator, chain, expired, faults>>

HunterState == [phase : {"idle", "quoted", "journalled", "signed", "waiting", "bought", "failed"},
                request : Request \cup {None}, call : Call \cup {None}, sent : 0..MaxDeliveries]
IdleHunter == [phase |-> "idle", request |-> None, call |-> None, sent |-> 0]

\* Where a handler is: before which await.
CallState == [pc : {"free", "arrived", "claim", "settle", "record", "write",
                    "doubt", "unsure", "deliver", "joined", "done"},
              at : Merchant \cup {None}, request : Request \cup {None}, signed : BOOLEAN,
              payment : Tx \cup {None}, reply : {"ok", "refused", "error", None}]
FreeCall == [pc |-> "free", at |-> None, request |-> None, signed |-> FALSE,
             payment |-> None, reply |-> None]

JobState == [pc : {"none", "work", "record", "write", "close", "note", "mark"},
             payment : Tx \cup {None}, answer : Answer \cup {None}]
NoJob == [pc |-> "none", payment |-> None, answer |-> None]

Init == /\ TablesInit
        /\ hunters = [h \in Hunter |-> IdleHunter]
        /\ calls = [c \in Call |-> FreeCall]
        /\ jobs = [m \in Merchant |-> [r \in Request |-> NoJob]]
        /\ operator = [pc |-> "idle", request |-> None]
        /\ chain = [r \in Request |-> "none"]
        /\ expired = {}
        /\ faults = 0

Fault == faults < MaxFaults /\ faults' = faults + 1

-----------------------------------------------------------------------------
(* The hunter: purchaseServiceWithX402.                                     *)

Awaited(c) == \E h \in Hunter : hunters[h].phase = "waiting" /\ hunters[h].call = c

\* The call once the hunter has stopped waiting for it: its handler goes on.
Abandoned(c) == IF calls[c].pc = "done" THEN FreeCall ELSE calls[c]

Fresh(r) == /\ \A h \in Hunter : hunters[h].request # r
            /\ \A o \in Order : purchases[o].request # r

\* Nothing journalled: build a request with a random nonce and get a quote
\* for it (an unsigned exchange that changes nothing).
Quote(h, r) ==
    /\ hunters[h].phase = "idle"
    /\ ~Journalled(OrderOf[r])
    /\ Fresh(r)
    /\ hunters' = [hunters EXCEPT ![h] = [IdleHunter EXCEPT !.phase = "quoted", !.request = r]]
    /\ UNCHANGED <<tables, calls, jobs, operator, outside, faults>>

\* The CAS lost: createPurchase finds another request's row and throws.
LosesJournalSigns(h) == hunters' = [hunters EXCEPT ![h].phase = "journalled"]   \* variant: result ignored

LosesJournal(h) == hunters' = [hunters EXCEPT ![h].phase = "failed"]

Journal(h) ==
    LET r == hunters[h].request IN
    /\ hunters[h].phase = "quoted"
    /\ \/ /\ CreatePurchase(r)
          /\ \/ /\ hunters' = [hunters EXCEPT ![h].phase = "journalled"]
                /\ UNCHANGED faults
             \/ /\ Fault   \* committed, but the reply was lost
                /\ hunters' = [hunters EXCEPT ![h].phase = "failed"]
       \/ /\ Journalled(OrderOf[r])
          /\ LosesJournal(h)
          /\ UNCHANGED <<tables, faults>>
    /\ UNCHANGED <<calls, jobs, operator, outside>>

\* Authority, reservation and signature; each may refuse.
Sign(h) ==
    /\ hunters[h].phase = "journalled"
    /\ \/ /\ hunters[h].request \notin expired
          /\ hunters' = [hunters EXCEPT ![h].phase = "signed"]
       \/ hunters' = [hunters EXCEPT ![h].phase = "failed"]
    /\ UNCHANGED <<tables, calls, jobs, operator, outside, faults>>

Arrival(m, r, signed) == [FreeCall EXCEPT !.pc = "arrived", !.at = m, !.request = r,
                                          !.signed = signed]

\* One attempt of deliverSignedX402WithRetry.
Deliver(h, c, m) ==
    /\ hunters[h].phase = "signed"
    /\ calls[c].pc = "free"
    /\ hunters' = [hunters EXCEPT ![h] = [@ EXCEPT !.phase = "waiting", !.call = c,
                                                   !.sent = hunters[h].sent + 1]]
    /\ calls' = [calls EXCEPT ![c] = Arrival(m, hunters[h].request, TRUE)]
    /\ UNCHANGED <<tables, jobs, operator, outside, faults>>

\* resumeJournalledPurchase: whoever finds the journal row replays it unsigned.
Replay(h, c, m, o) ==
    /\ hunters[h].phase = "idle"
    /\ Journalled(o)
    /\ calls[c].pc = "free"
    /\ hunters' = [hunters EXCEPT ![h] = [phase |-> "waiting", call |-> c, sent |-> 0,
                                          request |-> purchases[o].request]]
    /\ calls' = [calls EXCEPT ![c] = Arrival(m, purchases[o].request, FALSE)]
    /\ UNCHANGED <<tables, jobs, operator, outside, faults>>

AttemptsLeft(h) == hunters[h].sent \in 1..(MaxDeliveries - 1)

TryAgain(h) == hunters' = [hunters EXCEPT ![h] = [@ EXCEPT !.phase = "signed", !.call = None]]
GiveUp(h) == hunters' = [hunters EXCEPT ![h] = [@ EXCEPT !.phase = "failed", !.call = None]]

Receive(h) ==
    LET c == hunters[h].call IN
    /\ hunters[h].phase = "waiting"
    /\ calls[c].pc = "done"
    /\ \/ /\ calls[c].reply = "ok"
          /\ hunters' = [hunters EXCEPT ![h] = [@ EXCEPT !.phase = "bought", !.call = None]]
       \/ /\ calls[c].reply = "refused"   \* 402, 408, 409, 503 SETTLEMENT_UNCERTAIN
          /\ GiveUp(h)
       \/ /\ calls[c].reply = "error"     \* 502, 503 and 504 are retried, 500 is not
          /\ \/ AttemptsLeft(h) /\ TryAgain(h)
             \/ GiveUp(h)
    /\ calls' = [calls EXCEPT ![c] = FreeCall]
    /\ UNCHANGED <<tables, jobs, operator, outside, faults>>

\* The connection breaks; the handler does not notice.
NetworkError(h) ==
    /\ hunters[h].phase = "waiting"
    /\ Fault
    /\ IF AttemptsLeft(h) THEN TryAgain(h) ELSE GiveUp(h)
    /\ calls' = [calls EXCEPT ![hunters[h].call] = Abandoned(hunters[h].call)]
    /\ UNCHANGED <<tables, jobs, operator, outside>>

\* The mission is executed or recovered again.
Retry(h) ==
    /\ hunters[h].phase = "failed"
    /\ hunters' = [hunters EXCEPT ![h] = IdleHunter]
    /\ UNCHANGED <<tables, calls, jobs, operator, outside, faults>>

HunterCrashes(h) ==
    /\ hunters[h].phase \notin {"idle", "bought", "failed"}
    /\ Fault
    /\ hunters' = [hunters EXCEPT ![h] = IdleHunter]
    /\ calls' = [c \in Call |-> IF c = hunters[h].call THEN Abandoned(c) ELSE calls[c]]
    /\ UNCHANGED <<tables, jobs, operator, outside>>

-----------------------------------------------------------------------------
(* The merchant: handleX402Core, up to the recorded payment.                *)

At(c, pc) == calls[c].pc = pc

GoTo(c, pc) == calls' = [calls EXCEPT ![c].pc = pc]

Replied(c, reply) == IF Awaited(c) THEN [calls[c] EXCEPT !.pc = "done", !.reply = reply]
                                   ELSE FreeCall

Reply(c, reply) == calls' = [calls EXCEPT ![c] = Replied(c, reply)]

\* The next step, or the one its catch block leads to.
GoToOrFail(c, pc, onError) == \/ GoTo(c, pc) /\ UNCHANGED faults
                              \/ Fault /\ GoTo(c, onError)

\* store.get, and what the handler makes of the record.
Look(c) ==
    LET r == calls[c].request
        e == executions[r]
    IN
    /\ At(c, "arrived")
    /\ \/ e.response # None /\ Reply(c, "ok")
       \/ /\ e.response = None
          /\ e.evidence # None
          /\ calls' = [calls EXCEPT ![c] = [@ EXCEPT !.pc = "deliver", !.payment = e.evidence]]
       \/ /\ e.evidence = None
          /\ e.state \in {"settlement_attempting", "settlement_uncertain"}
          /\ Reply(c, "refused")
       \/ /\ e.state = "none"
          /\ r \in expired \/ ~calls[c].signed
          /\ Reply(c, "refused")
       \/ /\ e.state = "none"
          /\ r \notin expired /\ calls[c].signed
          /\ GoTo(c, "claim")
    /\ UNCHANGED <<tables, jobs, people, outside, faults>>

\* Lost the compare-and-set: start over from the stored record.
LostClaimSettles(c) == GoTo(c, "settle")   \* variant: the result of the claim is ignored

LostClaim(c) == GoTo(c, "arrived")

Claim(c) ==
    LET r == calls[c].request IN
    /\ At(c, "claim")
    /\ \/ /\ BeginSettlement(r)
          /\ \/ GoTo(c, "settle") /\ UNCHANGED faults
             \/ Fault /\ Reply(c, "error")   \* committed, but the reply was lost
       \/ /\ ~FreeToBegin(r)
          /\ LostClaim(c)
          /\ UNCHANGED <<tables, faults>>
       \/ /\ FreeToBegin(r) /\ ~LinkFree(r)   \* unique violation on purchase_id
          /\ Reply(c, "error")
          /\ UNCHANGED <<tables, faults>>
    /\ UNCHANGED <<jobs, people, outside>>

\* A 402 or an error of the facilitator is no proof that nothing was paid.
Unconfirmed(c) == GoTo(c, "doubt")

\* merchant.requirePayment(header).
Settle(c) ==
    LET r == calls[c].request
        payable == chain[r] = "none" /\ r \notin expired
    IN
    /\ At(c, "settle")
    /\ \/ /\ payable
          /\ chain' = [chain EXCEPT ![r] = "settled"]
          /\ calls' = [calls EXCEPT ![c] = [@ EXCEPT !.pc = "record", !.payment = r]]
       \/ /\ payable
          /\ chain' = [chain EXCEPT ![r] = "broadcast"]
          /\ Unconfirmed(c)
       \/ /\ UNCHANGED chain
          /\ Unconfirmed(c)
    /\ UNCHANGED <<tables, jobs, people, expired, faults>>

\* save({payment}): the confirmation transaction ...
Record(c) ==
    /\ At(c, "record")
    /\ RecordConfirmedPayment(calls[c].request, calls[c].payment)
    /\ GoToOrFail(c, "write", "doubt")
    /\ UNCHANGED <<jobs, people, outside>>

\* ... and the UPDATE that follows it.
Write(c) ==
    /\ At(c, "write")
    /\ WriteExecution(calls[c].request, "paid", calls[c].payment, None)
    /\ GoToOrFail(c, "deliver", "doubt")
    /\ UNCHANGED <<jobs, people, outside>>

\* Either of them fails without effect.
SaveFails(c) ==
    /\ At(c, "record") \/ At(c, "write")
    /\ Fault
    /\ GoTo(c, "doubt")
    /\ UNCHANGED <<tables, jobs, people, outside>>

DoubtUnmarked(c) == /\ At(c, "doubt")   \* variant: the UPDATE alone
                    /\ GoTo(c, "unsure")
                    /\ UNCHANGED <<tables, jobs, people, outside, faults>>

\* save({settlement: uncertain}): markSettlementUncertain, then the UPDATE.
Doubt(c) ==
    /\ At(c, "doubt")
    /\ \/ MarkSettlementUncertain(calls[c].request)
       \/ /\ executions[calls[c].request].state # "settlement_attempting"
          /\ UNCHANGED tables
    /\ GoTo(c, "unsure")
    /\ UNCHANGED <<jobs, people, outside, faults>>

Unsure(c) ==
    /\ At(c, "unsure")
    /\ WriteExecution(calls[c].request, "settlement_uncertain", None, None)
    /\ Reply(c, "refused")
    /\ UNCHANGED <<jobs, people, outside, faults>>

\* A store error outside the try block fails the request.
HandlerFails(c) ==
    /\ \E pc \in {"arrived", "claim", "doubt", "unsure"} : At(c, pc)
    /\ Fault
    /\ Reply(c, "error")
    /\ UNCHANGED <<tables, jobs, people, outside>>

-----------------------------------------------------------------------------
(* executeSettledRequest: one execution per request and process.            *)

\* Join the execution that is under way here, or start one.
Join(c) ==
    LET m == calls[c].at
        r == calls[c].request
    IN
    /\ At(c, "deliver")
    /\ jobs' = IF jobs[m][r].pc # "none" THEN jobs
               ELSE [jobs EXCEPT ![m][r] = [NoJob EXCEPT !.pc = "work", !.payment = calls[c].payment]]
    /\ GoTo(c, "joined")
    /\ UNCHANGED <<tables, people, outside, faults>>

JobAt(m, r, pc) == jobs[m][r].pc = pc

JobGoesTo(m, r, pc) == jobs' = [jobs EXCEPT ![m][r].pc = pc] /\ UNCHANGED calls

JobGoesToOrFails(m, r, pc, onError) == \/ JobGoesTo(m, r, pc) /\ UNCHANGED faults
                                       \/ Fault /\ JobGoesTo(m, r, onError)

\* The promise settles: the entry is deleted and every joined call answered.
Finish(m, r, reply) ==
    /\ jobs' = [jobs EXCEPT ![m][r] = NoJob]
    /\ calls' = [c \in Call |-> IF At(c, "joined") /\ calls[c].at = m /\ calls[c].request = r
                                THEN Replied(c, reply) ELSE calls[c]]

\* execute and createResultReceipt.
Work(m, r) ==
    /\ JobAt(m, r, "work")
    /\ \/ \E a \in Answer : jobs' = [jobs EXCEPT ![m][r] = [@ EXCEPT !.pc = "record", !.answer = a]]
       \/ jobs' = [jobs EXCEPT ![m][r].pc = "note"]
    /\ UNCHANGED <<tables, calls, people, outside, faults>>

\* save({payment, response}): confirmation, execution, purchase.
RecordAnswer(m, r) ==
    /\ JobAt(m, r, "record")
    /\ RecordConfirmedPayment(r, jobs[m][r].payment)
    /\ JobGoesToOrFails(m, r, "write", "note")
    /\ UNCHANGED <<people, outside>>

WriteAnswer(m, r) ==
    /\ JobAt(m, r, "write")
    /\ WriteExecution(r, "completed", jobs[m][r].payment, jobs[m][r].answer)
    /\ JobGoesToOrFails(m, r, "close", "note")
    /\ UNCHANGED <<people, outside>>

ClosePurchase(m, r) ==
    /\ JobAt(m, r, "close")
    /\ CompletePurchase(r, jobs[m][r].answer)
    /\ \/ Finish(m, r, "ok") /\ UNCHANGED faults
       \/ Fault /\ JobGoesTo(m, r, "note")
    /\ UNCHANGED <<people, outside>>

JobSaveFails(m, r) ==
    /\ \E pc \in {"record", "write", "close"} : JobAt(m, r, pc)
    /\ Fault
    /\ JobGoesTo(m, r, "note")
    /\ UNCHANGED <<tables, people, outside>>

\* The catch block: save({payment, lastError}).
NoteFailure(m, r) ==
    /\ JobAt(m, r, "note")
    /\ RecordConfirmedPayment(r, jobs[m][r].payment)
    /\ JobGoesTo(m, r, "mark")
    /\ UNCHANGED <<people, outside, faults>>

MarkPending(m, r) ==
    /\ JobAt(m, r, "mark")
    /\ WriteExecution(r, "execution_pending", jobs[m][r].payment, None)
    /\ Finish(m, r, "error")
    /\ UNCHANGED <<people, outside, faults>>

NoteFails(m, r) ==
    /\ JobAt(m, r, "note") \/ JobAt(m, r, "mark")
    /\ Fault
    /\ Finish(m, r, "error")
    /\ UNCHANGED <<tables, people, outside>>

\* A merchant process dies and is restarted with no memory.
MerchantCrashes(m) ==
    /\ Fault
    /\ jobs' = [jobs EXCEPT ![m] = [r \in Request |-> NoJob]]
    /\ calls' = [c \in Call |-> IF calls[c].at = m /\ ~At(c, "done") THEN Replied(c, "error")
                                                                      ELSE calls[c]]
    /\ UNCHANGED <<tables, people, outside>>

-----------------------------------------------------------------------------
(* The operator's reconcile-settlement command.                             *)

\* X402_RECONCILE_WORKER_STOPPED: nobody is settling the request any more.
WorkerStopped(r) == \A c \in Call : calls[c].request = r =>
    calls[c].pc \notin {"settle", "record", "write", "doubt", "unsure"}

WithoutProof(r) == operator.pc = "idle"   \* variant: any request will do

\* verifySettlementProof: the transaction spent this request's nonce.
Proven(r) == operator.pc = "idle" /\ chain[r] = "settled"

Reconcile(r) ==
    /\ Proven(r)
    /\ executions[r].evidence = None
    /\ \/ executions[r].state = "settlement_uncertain"
       \/ executions[r].state = "settlement_attempting" /\ WorkerStopped(r)
    /\ operator' = [pc |-> "record", request |-> r]
    /\ UNCHANGED <<tables, hunters, calls, jobs, outside, faults>>

OperatorGoesTo(pc) == operator' = [operator EXCEPT !.pc = pc]

ReconcileRecord ==
    /\ operator.pc = "record"
    /\ RecordConfirmedPayment(operator.request, operator.request)
    /\ OperatorGoesTo("write")
    /\ UNCHANGED <<hunters, calls, jobs, outside, faults>>

ReconcileWrite ==
    /\ operator.pc = "write"
    /\ WriteExecution(operator.request, "paid", operator.request, None)
    /\ operator' = [pc |-> "idle", request |-> None]
    /\ UNCHANGED <<hunters, calls, jobs, outside, faults>>

ReconcileFails ==
    /\ operator.pc # "idle"
    /\ Fault
    /\ operator' = [pc |-> "idle", request |-> None]
    /\ UNCHANGED <<tables, hunters, calls, jobs, outside>>

-----------------------------------------------------------------------------
(* The world outside.                                                       *)

\* A broadcast payment is mined after the facilitator gave up on it.
Mine(r) ==
    /\ chain[r] = "broadcast"
    /\ r \notin expired
    /\ chain' = [chain EXCEPT ![r] = "settled"]
    /\ UNCHANGED <<tables, people, calls, jobs, expired, faults>>

Expire(r) ==
    /\ r \notin expired
    /\ ~Fresh(r)   \* bound: only requests somebody built
    /\ expired' = expired \cup {r}
    /\ UNCHANGED <<tables, people, calls, jobs, chain, faults>>

-----------------------------------------------------------------------------
Handle(c) == \/ Look(c) \/ Claim(c) \/ Settle(c) \/ Record(c) \/ Write(c)
             \/ Doubt(c) \/ Unsure(c) \/ Join(c)

Execute(m, r) == \/ Work(m, r) \/ RecordAnswer(m, r) \/ WriteAnswer(m, r)
                 \/ ClosePurchase(m, r) \/ NoteFailure(m, r) \/ MarkPending(m, r)

Next ==
    \/ \E h \in Hunter :
         \/ \E r \in Request : Quote(h, r)
         \/ \E c \in Call, m \in Merchant :
              \/ Deliver(h, c, m)
              \/ \E o \in Order : Replay(h, c, m, o)
         \/ Journal(h) \/ Sign(h) \/ Receive(h) \/ NetworkError(h)
         \/ Retry(h) \/ HunterCrashes(h)
    \/ \E c \in Call : Handle(c) \/ SaveFails(c) \/ HandlerFails(c)
    \/ \E m \in Merchant :
         \/ \E r \in Request : Execute(m, r) \/ JobSaveFails(m, r) \/ NoteFails(m, r)
         \/ MerchantCrashes(m)
    \/ \E r \in Request : Reconcile(r) \/ Mine(r) \/ Expire(r)
    \/ ReconcileRecord \/ ReconcileWrite \/ ReconcileFails

Spec == Init /\ [][Next]_vars

-----------------------------------------------------------------------------
(* Properties.                                                              *)

SettlementTypeOK ==
    /\ TablesTypeOK
    /\ hunters \in [Hunter -> HunterState]
    /\ calls \in [Call -> CallState]
    /\ jobs \in [Merchant -> [Request -> JobState]]
    /\ operator \in [pc : {"idle", "record", "write"}, request : Request \cup {None}]
    /\ chain \in [Request -> {"none", "broadcast", "settled"}]
    /\ expired \subseteq Request
    /\ faults \in 0..MaxFaults

\* No payment leaves the wallet without a trace: whatever was sent to the
\* chain is the request in the buyer's journal, and the merchant's journal
\* has a row linked to that purchase from which it can be reconciled.
DebitsAreTraceable == \A r \in Request : chain[r] # "none" =>
    /\ purchases[OrderOf[r]].request = r
    /\ executions[r].order = OrderOf[r]

\* At most one handler, of all replicas, is between the claim and the outcome
\* of a settlement, and the facilitator is asked about a request only once.
SingleSettler ==
    /\ \A b, c \in Call : /\ b # c
                          /\ calls[b].request = calls[c].request
                          /\ ~At(b, "free")
         => \/ calls[b].pc \notin {"settle", "record", "write", "doubt", "unsure"}
            \/ calls[c].pc \notin {"settle", "record", "write", "doubt", "unsure"}
    /\ \A c \in Call : At(c, "settle") =>
         /\ chain[calls[c].request] = "none"
         /\ executions[calls[c].request].state = "settlement_attempting"

Contract == INSTANCE PurchaseContract WITH
    debits <- [o \in Order |-> {r \in Request : OrderOf[r] = o /\ chain[r] = "settled"}],
    acknowledged <- {OrderOf[r] : r \in {q \in Request : executions[q].binding # None}},
    answered <- {OrderOf[r] : r \in {q \in Request : executions[q].response # None}}

\* One debit per order, acknowledged only after it, answered only after that.
KeepsPurchaseContract == Contract!Spec

\* Every step on the tables is one of SettlementStore's.
KeepsTables == TablesSpec

\* A delivered answer stands: a request is not executed to an answer twice.
AnswersStand ==
    [][\A r \in Request : executions[r].response # None =>
         executions'[r].response = executions[r].response]_vars
=============================================================================
