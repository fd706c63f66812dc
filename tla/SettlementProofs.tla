-------------------------- MODULE SettlementProofs --------------------------
(***************************************************************************)
(* Proofs about Settlement.tla, for every set of hunters, merchants and    *)
(* requests: whatever the processes do between their awaits, the tables    *)
(* see steps of SettlementStore.tla, one handler at most settles a         *)
(* request, and an order is debited once.                                  *)
(***************************************************************************)
EXTENDS Settlement, SettlementStoreProofs

\* From the claim to the outcome of a settlement.
Settling == {"settle", "record", "write", "doubt", "unsure"}
Engaged(c) == calls[c].pc \in Settling

\* The buyer journalled r before anything else was done about it.
Backed(r) == purchases[OrderOf[r]].request = r

\* A journal row names a request of its own order.
OrdersMatch == \A o \in Order :
    /\ Journalled(o) <=> purchases[o].request # None
    /\ purchases[o].request # None => OrderOf[purchases[o].request] = o

\* What a hunter knows of the request it is at.
HunterFine(h) ==
    /\ hunters[h].phase # "idle" => hunters[h].request \in Request
    /\ hunters[h].phase \in {"journalled", "signed", "waiting"} => Backed(hunters[h].request)
    /\ hunters[h].phase = "waiting" => hunters[h].call \in Call
    /\ hunters[h].phase \in {"quoted", "journalled", "signed"} => hunters[h].sent < MaxDeliveries

\* What a handler knows of its request at each await.
CallFine(c) ==
    LET r == calls[c].request IN
    IF calls[c].pc = "free" THEN calls[c].at = None ELSE
      /\ calls[c].at \in Merchant /\ r \in Request /\ Backed(r)
      /\ Engaged(c) => executions[r].state # "none"
      /\ calls[c].pc = "settle" => executions[r].state = "settlement_attempting" /\ chain[r] = "none"
      /\ calls[c].pc = "unsure" => executions[r].state # "settlement_attempting"
      /\ calls[c].pc \in {"record", "write", "deliver"} =>
            calls[c].payment = r /\ chain[r] = "settled"
      /\ calls[c].pc \in {"write", "deliver"} => executions[r].binding = r

\* An execution is for a payment that is bound.
JobFine(m, r) ==
    jobs[m][r].pc # "none" =>
      /\ jobs[m][r].payment = r /\ executions[r].binding = r
      /\ jobs[m][r].pc \in {"record", "write", "close"} => jobs[m][r].answer \in Answer
      /\ jobs[m][r].pc = "close" => executions[r].state = "completed"

OperatorFine ==
    operator.pc # "idle" =>
      /\ operator.request \in Request
      /\ chain[operator.request] = "settled"
      /\ operator.pc = "write" => executions[operator.request].binding = operator.request

\* The chain and the merchant's journal: nothing is paid that is not journalled
\* on both sides, nothing is bound that is not paid.
RequestFine(r) ==
    /\ chain[r] # "none" => executions[r].state # "none"
    /\ executions[r].state # "none" => executions[r].order = OrderOf[r] /\ Backed(r)
    /\ executions[r].binding # None => executions[r].binding = r /\ chain[r] = "settled"

OneEngaged == \A b, c \in Call :
    b # c /\ Engaged(b) /\ Engaged(c) => calls[b].request # calls[c].request

SettlementInv ==
    /\ SettlementTypeOK
    /\ TablesInv
    /\ OrdersMatch
    /\ \A h \in Hunter : HunterFine(h)
    /\ \A c \in Call : CallFine(c)
    /\ \A m \in Merchant, r \in Request : JobFine(m, r)
    /\ OperatorFine
    /\ \A r \in Request : RequestFine(r)
    /\ OneEngaged

-----------------------------------------------------------------------------
(* What the statements do, seen from a process that is between two awaits.  *)

\* No statement takes back what another process has seen in the tables.
Monotone ==
    /\ \A r \in Request :
         /\ executions[r].state # "none" =>
              /\ executions'[r].state # "none" /\ executions'[r].order = executions[r].order
              /\ executions[r].state # "settlement_attempting" =>
                    executions'[r].state # "settlement_attempting"
         /\ executions[r].binding # None => executions'[r].binding = executions[r].binding
         /\ executions[r].state = "completed" => executions'[r].state = "completed"
    /\ \A o \in Order : purchases[o].request # None => purchases'[o].request = purchases[o].request

\* What a statement of save leaves: only the row of r moves, it was begun and
\* stays begun, and no purchase is added.
Moves(r) ==
    /\ \A q \in Request : q # r => executions'[q] = executions[q]
    /\ executions[r].state # "none" /\ executions'[r].state # "none"
    /\ executions'[r].order = executions[r].order
    /\ \A o \in Order : /\ purchases'[o].request = purchases[o].request
                        /\ Journalled(o)' <=> Journalled(o)

LEMMA RecordMoves ==
  ASSUME TablesTypeOK, NEW r \in Request, NEW t \in Tx, RecordConfirmedPayment(r, t)
  PROVE  /\ Moves(r) /\ executions'[r].binding = t
         /\ executions'[r].response = executions[r].response
<1>1. executions[r].state # "none"
  BY RecordEffect DEF Bindable
<1>2. executions'[r].state # "none"
  BY <1>1, RecordEffect DEF Confirmed
<1>3. QED
  BY <1>1, <1>2, RecordEffect DEF Moves, Journalled

LEMMA MarkMoves ==
  ASSUME TablesTypeOK, NEW r \in Request, MarkSettlementUncertain(r)
  PROVE  /\ Moves(r) /\ executions'[r].binding = executions[r].binding
         /\ executions'[r].response = executions[r].response
         /\ executions'[r].state = "settlement_uncertain"
BY MarkEffect DEF Moves, Journalled

LEMMA WriteMoves ==
  ASSUME TablesTypeOK, NEW r \in Request,
         NEW s \in {"paid", "execution_pending", "settlement_uncertain", "completed"},
         NEW t \in Tx \cup {None}, NEW a \in Answer \cup {None},
         WriteExecution(r, s, t, a)
  PROVE  /\ Moves(r) /\ executions'[r].binding = executions[r].binding
         /\ executions'[r].response = IF a = None THEN executions[r].response ELSE a
         /\ executions'[r].state = IF executions[r].state = "completed" THEN "completed" ELSE s
<1>1. /\ executions[r].state # "none" /\ executions'[r].order = executions[r].order
      /\ executions'[r].binding = executions[r].binding
      /\ executions'[r].state = IF executions[r].state = "completed" THEN "completed" ELSE s
      /\ executions'[r].response = IF a = None THEN executions[r].response ELSE a
      /\ \A q \in Request : q # r => executions'[q] = executions[q]
      /\ purchases' = purchases
  BY WriteEffect
<1>2. executions'[r].state # "none"
  BY <1>1
<1>3. QED
  BY <1>1, <1>2 DEF Moves, Journalled

LEMMA CompleteMoves ==
  ASSUME TablesInv, NEW r \in Request, NEW a \in Answer,
         executions[r].state = "completed", CompletePurchase(r, a)
  PROVE  Moves(r) /\ executions' = executions
<1>1. executions' = executions
  BY CompleteEffect DEF TablesInv
<1>2. ASSUME NEW o \in Order
      PROVE  /\ purchases'[o].request = purchases[o].request
             /\ Journalled(o)' <=> Journalled(o)
  <2>1. o = executions[r].order => Journalled(o)
    BY SettlementAssumption DEF TablesInv, LinksExist
  <2>2. QED
    BY <2>1, CompleteEffect DEF TablesInv, Journalled
<1>3. QED
  BY <1>1, <1>2 DEF Moves

LEMMA StepIsMonotone ==
  ASSUME TablesInv, OrdersMatch, [TablesNext]_tables
  PROVE  Monotone
<1>1. TablesTypeOK /\ EvidenceIsBound
  BY DEF TablesInv, TablesSafety
<1>2. (NoRetry /\ PaymentStays) \/ UNCHANGED tables
  BY StepStays
<1>3. ASSUME NEW o \in Order, purchases[o].request # None
      PROVE  purchases'[o].request = purchases[o].request
  BY <1>2, <1>3 DEF NoRetry, OrdersMatch, tables
<1>4. ASSUME NEW r \in Request, executions[r].state # "none"
      PROVE  /\ executions'[r].state # "none"
             /\ executions[r].state # "settlement_attempting" =>
                   executions'[r].state # "settlement_attempting"
  BY <1>2, <1>4 DEF NoRetry, tables
<1>5. ASSUME NEW r \in Request
      PROVE  /\ executions[r].binding # None => executions'[r].binding = executions[r].binding
             /\ executions[r].state = "completed" => executions'[r].state = "completed"
  BY <1>2 DEF PaymentStays, tables
<1>6. ASSUME NEW q \in Request, executions[q].state # "none"
      PROVE  executions'[q].order = executions[q].order
  <2> DEFINE Same == executions'[q].order = executions[q].order
  <2>1. ASSUME NEW r \in Request, CreatePurchase(r)
        PROVE  Same
    BY <2>1 DEF CreatePurchase
  <2>2. ASSUME NEW r \in Request, BeginSettlement(r)
        PROVE  Same
    BY <1>1, <1>6, <2>2, BeginEffect
  <2>3. ASSUME NEW r \in Request, NEW t \in Tx, RecordConfirmedPayment(r, t)
        PROVE  Same
    BY <1>1, <2>3, RecordEffect
  <2>4. ASSUME NEW r \in Request, MarkSettlementUncertain(r)
        PROVE  Same
    BY <1>1, <2>4, MarkEffect
  <2>5. ASSUME NEW r \in Request, NEW s, NEW t, NEW a, WriteExecution(r, s, t, a)
        PROVE  Same
    <3>1. executions[r] \in ExecutionRow /\ executions \in [Request -> ExecutionRow]
      BY <1>1 DEF TablesTypeOK
    <3>2. WrittenRow(r, s, t, a).order = executions[r].order
      BY <3>1 DEF WrittenRow, ExecutionRow
    <3>3. QED
      BY <2>5, <3>1, <3>2 DEF WriteExecution
  <2>6. ASSUME NEW r \in Request, NEW a \in Answer, SaveResult(r, a)
        PROVE  Same
    BY <2>6 DEF SaveResult, CompletePurchase
  <2>7. CASE UNCHANGED tables
    BY <2>7 DEF tables
  <2> HIDE DEF Same
  <2>8. ASSUME NEW r \in Request, SavePaid(r) \/ SavePending(r) \/ SaveUncertain(r)
        PROVE  Same
    BY <2>5, <2>8 DEF SavePaid, SavePending, SaveUncertain
  <2>9. ASSUME NEW r \in Request, NEW a \in Answer, SaveCompleted(r, a)
        PROVE  Same
    BY <2>5, <2>9 DEF SaveCompleted
  <2>10. ASSUME TablesNext
         PROVE  Same
    BY <2>1, <2>2, <2>3, <2>4, <2>6, <2>8, <2>9, <2>10 DEF TablesNext
  <2>11. QED
    BY <2>7, <2>10 DEF Same, tables
<1>7. QED
  BY <1>3, <1>4, <1>5, <1>6 DEF Monotone

-----------------------------------------------------------------------------
(* What a step leaves of each process's knowledge.                          *)

MemoryOK == /\ hunters \in [Hunter -> HunterState]
            /\ calls \in [Call -> CallState]
            /\ jobs \in [Merchant -> [Request -> JobState]]
            /\ operator \in [pc : {"idle", "record", "write"}, request : Request \cup {None}]
            /\ chain \in [Request -> {"none", "broadcast", "settled"}]
            /\ expired \subseteq Request
            /\ faults \in 0..MaxFaults

\* An attempt that was under way before the step has not been disturbed.
Undisturbed(c) ==
    LET r == calls[c].request IN
    calls[c].pc = "settle" => executions'[r].state = executions[r].state /\ chain'[r] = chain[r]

\* The pieces of the invariant, process by process.
LEMMA Assemble ==
  ASSUME SettlementInv, [TablesNext]_tables, MemoryOK', OrdersMatch', OneEngaged',
         \A r \in Request : RequestFine(r)',
         \A r \in Request : chain[r] = "settled" => chain'[r] = "settled",
         \A h \in Hunter : hunters'[h] = hunters[h] \/ HunterFine(h)',
         \A c \in Call : (calls'[c] = calls[c] /\ Undisturbed(c)) \/ CallFine(c)',
         \A m \in Merchant, r \in Request : jobs'[m][r] = jobs[m][r] \/ JobFine(m, r)',
         operator' = operator \/ OperatorFine'
  PROVE  SettlementInv'
<1>1. TablesInv' /\ Monotone /\ None \notin Request
  BY StepKeeps, StepIsMonotone, SettlementAssumption DEF SettlementInv
<1>2. \A r \in Request : Backed(r) => Backed(r)'
  BY <1>1, SettlementAssumption DEF Monotone, Backed
<1>3. ASSUME NEW h \in Hunter
      PROVE  HunterFine(h)'
  <2>1. CASE hunters'[h] = hunters[h]
    BY <1>2, <2>1 DEF SettlementInv, HunterFine
  <2>2. QED
    BY <2>1
<1>4. ASSUME NEW c \in Call
      PROVE  CallFine(c)'
  <2>1. CASE calls'[c] = calls[c] /\ Undisturbed(c)
    <3>1. CallFine(c)
      BY DEF SettlementInv
    <3>2. SUFFICES ASSUME calls[c].pc # "free"
                   PROVE  CallFine(c)'
      BY <2>1, <3>1 DEF CallFine
    <3> DEFINE r == calls[c].request
    <3>3. /\ calls[c].at \in Merchant /\ r \in Request /\ Backed(r)
          /\ Engaged(c) => executions[r].state # "none"
          /\ calls[c].pc = "settle" =>
                executions[r].state = "settlement_attempting" /\ chain[r] = "none"
          /\ calls[c].pc = "unsure" => executions[r].state # "settlement_attempting"
          /\ calls[c].pc \in {"record", "write", "deliver"} =>
                calls[c].payment = r /\ chain[r] = "settled"
          /\ calls[c].pc \in {"write", "deliver"} => executions[r].binding = r
      BY <3>1, <3>2 DEF CallFine
    <3>4. purchases'[OrderOf[r]].request = r
      BY <1>1, <3>3, SettlementAssumption DEF Monotone, Backed
    <3>5. Engaged(c) => executions'[r].state # "none"
      BY <1>1, <3>3 DEF Monotone
    <3>6. calls[c].pc = "settle" =>
             executions'[r].state = "settlement_attempting" /\ chain'[r] = "none"
      BY <2>1, <3>3 DEF Undisturbed
    <3>7. calls[c].pc = "unsure" => executions'[r].state # "settlement_attempting"
      BY <1>1, <3>3 DEF Monotone, Engaged, Settling
    <3>8. calls[c].pc \in {"write", "deliver"} => executions'[r].binding = r
      BY <1>1, <3>3 DEF Monotone
    <3>9. calls[c].pc \in {"record", "write", "deliver"} => chain'[r] = "settled"
      BY <3>3
    <3>10. QED
      BY <2>1, <3>2, <3>3, <3>4, <3>5, <3>6, <3>7, <3>8, <3>9 DEF CallFine, Engaged, Backed
  <2>2. QED
    BY <2>1
<1>5. ASSUME NEW m \in Merchant, NEW r \in Request
      PROVE  JobFine(m, r)'
  <2>1. CASE jobs'[m][r] = jobs[m][r]
    BY <1>1, <2>1 DEF SettlementInv, JobFine, Monotone
  <2>2. QED
    BY <2>1
<1>6. OperatorFine'
  <2>1. CASE operator' = operator
    BY <1>1, <2>1 DEF SettlementInv, OperatorFine, Monotone
  <2>2. QED
    BY <2>1
<1>7. SettlementTypeOK'
  BY <1>1 DEF MemoryOK, SettlementTypeOK, TablesInv
<1>8. QED
  BY <1>1, <1>3, <1>4, <1>5, <1>6, <1>7 DEF SettlementInv

\* Handlers that only leave the settling section, or stay in it, collide with nobody.
LEMMA EngagedStay ==
  ASSUME OneEngaged,
         \A c \in Call : Engaged(c)' => Engaged(c) /\ calls'[c].request = calls[c].request
  PROVE  OneEngaged'
BY DEF OneEngaged

\* A step that leaves the tables and the chain alone.
LEMMA TablesRest ==
  ASSUME SettlementInv, UNCHANGED tables, UNCHANGED chain
  PROVE  /\ [TablesNext]_tables /\ OrdersMatch' /\ \A r \in Request : RequestFine(r)'
         /\ \A c \in Call : Undisturbed(c)
BY DEF tables, SettlementInv, OrdersMatch, RequestFine, Journalled, Backed, Undisturbed

\* A statement that moves the row of k: what others know of other rows stays.
LEMMA TablesMove ==
  ASSUME SettlementInv, [TablesNext]_tables, UNCHANGED chain, NEW k \in Request, Moves(k),
         executions'[k].binding = executions[k].binding
            \/ (executions'[k].binding = k /\ chain[k] = "settled")
  PROVE  /\ OrdersMatch' /\ \A r \in Request : RequestFine(r)'
         /\ \A c \in Call : calls[c].request # k \/ calls[c].pc # "settle" => Undisturbed(c)
<1>1. OrdersMatch'
  BY DEF SettlementInv, OrdersMatch, Moves, Journalled
<1>2. ASSUME NEW r \in Request
      PROVE  RequestFine(r)'
  <2>1. RequestFine(r) /\ OrderOf[r] \in Order
    BY SettlementAssumption DEF SettlementInv
  <2>2. Backed(r)' <=> Backed(r)
    BY <2>1 DEF Moves, Backed
  <2>3. CASE r = k
    BY <2>1, <2>2, <2>3 DEF RequestFine, Moves
  <2>4. CASE r # k
    BY <2>1, <2>2, <2>4 DEF RequestFine, Moves
  <2>5. QED
    BY <2>3, <2>4
<1>3. ASSUME NEW c \in Call, calls[c].request # k \/ calls[c].pc # "settle"
      PROVE  Undisturbed(c)
  <2>1. calls[c].pc = "settle" => calls[c].request \in Request
    BY DEF SettlementInv, CallFine
  <2>2. QED
    BY <1>3, <2>1 DEF Undisturbed, Moves
<1>4. QED
  BY <1>1, <1>2, <1>3

LEMMA EmptyEntries ==
  /\ FreeCall \in CallState /\ FreeCall.pc = "free" /\ FreeCall.at = None
  /\ IdleHunter \in HunterState /\ IdleHunter.phase = "idle"
  /\ NoJob \in JobState /\ NoJob.pc = "none"
<1>1. 0 \in 0..MaxDeliveries
  BY DeliveryAssumption
<1>2. QED
  BY <1>1 DEF FreeCall, CallState, IdleHunter, HunterState, NoJob, JobState

-----------------------------------------------------------------------------
(* The hunters.                                                             *)

\* Steps of a hunter that change no table: the entry of h, and calls that are
\* answered for, abandoned or sent.
LEMMA HunterMoves ==
  ASSUME SettlementInv, UNCHANGED <<tables, jobs, operator, chain, expired>>,
         UNCHANGED faults \/ Fault,
         NEW h \in Hunter, NEW e \in HunterState, hunters' = [hunters EXCEPT ![h] = e],
         e.phase # "idle" => e.request \in Request,
         e.phase \in {"journalled", "signed", "waiting"} => Backed(e.request),
         e.phase = "waiting" => e.call \in Call,
         e.phase \in {"quoted", "journalled", "signed"} => e.sent < MaxDeliveries,
         calls' \in [Call -> CallState],
         \A c \in Call : calls'[c] = calls[c] \/ (CallFine(c)' /\ ~Engaged(c)')
  PROVE  SettlementInv'
<1>1. SettlementTypeOK /\ OneEngaged /\ MaxFaults \in Nat
  BY DeliveryAssumption DEF SettlementInv
<1>2. UNCHANGED tables /\ UNCHANGED chain
  OBVIOUS
<1>3. faults' \in 0..MaxFaults
  BY <1>1 DEF SettlementTypeOK, Fault
<1>4. MemoryOK'
  BY <1>1, <1>3 DEF SettlementTypeOK, MemoryOK
<1>5. \A k \in Hunter : hunters'[k] = hunters[k] \/ HunterFine(k)'
  <2> SUFFICES ASSUME NEW k \in Hunter, hunters'[k] # hunters[k]
               PROVE  HunterFine(k)'
    OBVIOUS
  <2>1. hunters'[k] = e
    BY <1>1 DEF SettlementTypeOK
  <2>2. QED
    BY <1>2, <2>1 DEF HunterFine, Backed, tables
<1>6. OneEngaged'
  BY <1>1, EngagedStay DEF Engaged
<1>7. /\ [TablesNext]_tables /\ OrdersMatch' /\ \A r \in Request : RequestFine(r)'
      /\ \A c \in Call : Undisturbed(c)
  BY <1>2, TablesRest
<1>8. \A c \in Call : (calls'[c] = calls[c] /\ Undisturbed(c)) \/ CallFine(c)'
  BY <1>7
<1>9. /\ \A r \in Request : chain[r] = "settled" => chain'[r] = "settled"
      /\ \A m \in Merchant, r \in Request : jobs'[m][r] = jobs[m][r]
      /\ operator' = operator
  OBVIOUS
<1>10. QED
  BY <1>4, <1>5, <1>6, <1>7, <1>8, <1>9, Assemble

LEMMA AbandonedCalls ==
  ASSUME SettlementInv, NEW c \in Call
  PROVE  Abandoned(c) \in CallState /\ Abandoned(c) \in {calls[c], FreeCall}
BY EmptyEntries DEF Abandoned, SettlementInv, SettlementTypeOK

\* A request that is sent arrives at a merchant.
LEMMA SentCall ==
  ASSUME SettlementInv, NEW c \in Call, NEW m \in Merchant, NEW r \in Request, Backed(r),
         NEW signed \in BOOLEAN, UNCHANGED tables,
         calls' = [calls EXCEPT ![c] = Arrival(m, r, signed)]
  PROVE  /\ calls' \in [Call -> CallState]
         /\ \A b \in Call : calls'[b] = calls[b] \/ (CallFine(b)' /\ ~Engaged(b)')
<1>1. /\ calls \in [Call -> CallState]
      /\ Arrival(m, r, signed) \in CallState
      /\ Arrival(m, r, signed).pc = "arrived"
      /\ Arrival(m, r, signed).at = m /\ Arrival(m, r, signed).request = r
  BY DEF SettlementInv, SettlementTypeOK, Arrival, FreeCall, CallState
<1> DEFINE a == Arrival(m, r, signed)
<1> HIDE DEF a
<1>2. /\ calls' = [calls EXCEPT ![c] = a]
      /\ a \in CallState /\ a.pc = "arrived" /\ a.at = m /\ a.request = r
  BY <1>1 DEF a
<1>3. calls' \in [Call -> CallState]
  BY <1>1, <1>2
<1>4. ASSUME NEW b \in Call, calls'[b] # calls[b]
      PROVE  CallFine(b)' /\ ~Engaged(b)'
  <2>1. calls'[b] = a
    BY <1>1, <1>2, <1>4
  <2>2. QED
    BY <1>2, <2>1 DEF CallFine, Engaged, Settling, Backed, tables
<1>5. QED
  BY <1>3, <1>4

LEMMA HunterStep ==
  ASSUME SettlementInv, NEW h \in Hunter,
         \/ \E r \in Request : Quote(h, r)
         \/ \E c \in Call, m \in Merchant :
              \/ Deliver(h, c, m)
              \/ \E o \in Order : Replay(h, c, m, o)
         \/ Sign(h) \/ Receive(h) \/ NetworkError(h) \/ Retry(h) \/ HunterCrashes(h)
  PROVE  SettlementInv'
<1>1. /\ hunters \in [Hunter -> HunterState] /\ calls \in [Call -> CallState]
      /\ hunters[h] \in HunterState /\ HunterFine(h)
      /\ MaxDeliveries \in Nat \ {0} /\ None \notin Call /\ None \notin Request
  BY DeliveryAssumption, SettlementAssumption DEF SettlementInv, SettlementTypeOK
<1> DEFINE Entry(e) == /\ e \in HunterState
                       /\ e.phase # "idle" => e.request \in Request
                       /\ e.phase \in {"journalled", "signed", "waiting"} => Backed(e.request)
                       /\ e.phase = "waiting" => e.call \in Call
                       /\ e.phase \in {"quoted", "journalled", "signed"} =>
                             e.sent < MaxDeliveries
           CallsFine == /\ calls' \in [Call -> CallState]
                        /\ \A c \in Call : calls'[c] = calls[c] \/ (CallFine(c)' /\ ~Engaged(c)')
           Rest == /\ UNCHANGED <<tables, jobs, operator, chain, expired>>
                   /\ UNCHANGED faults \/ Fault
<1>a. ASSUME NEW e, Entry(e), hunters' = [hunters EXCEPT ![h] = e], CallsFine, Rest
      PROVE  SettlementInv'
  BY <1>a, HunterMoves
<1>b. ASSUME UNCHANGED calls
      PROVE  CallsFine
  BY <1>1, <1>b
<1>c. ASSUME NEW p \in {"failed", "bought"}, hunters[h].phase # "idle"
      PROVE  /\ Entry([hunters[h] EXCEPT !.phase = p, !.call = None])
             /\ Entry([hunters[h] EXCEPT !.phase = p])
  BY <1>1, <1>c DEF HunterState, HunterFine
<1>d. Entry(IdleHunter)
  BY EmptyEntries
<1>e. ASSUME hunters[h].phase \in {"journalled", "waiting"}, hunters[h].sent < MaxDeliveries
      PROVE  /\ Entry([hunters[h] EXCEPT !.phase = "signed", !.call = None])
             /\ Entry([hunters[h] EXCEPT !.phase = "signed"])
  BY <1>1, <1>e DEF HunterState, HunterFine
<1>f. ASSUME UNCHANGED tables, calls' \in [Call -> CallState],
             \A b \in Call : calls'[b] \in {calls[b], FreeCall}
      PROVE  CallsFine
  BY <1>f, EmptyEntries DEF CallFine, Engaged, Settling
<1>g. ASSUME NEW c \in Call, NEW m \in Merchant, NEW r \in Request, Backed(r),
             NEW signed \in BOOLEAN, UNCHANGED tables,
             calls' = [calls EXCEPT ![c] = Arrival(m, r, signed)]
      PROVE  CallsFine
  BY <1>g, SentCall
<1> HIDE DEF Entry, CallsFine, Rest
<1>2. ASSUME NEW r \in Request, Quote(h, r)
      PROVE  SettlementInv'
  <2> DEFINE e == [IdleHunter EXCEPT !.phase = "quoted", !.request = r]
  <2>1. Entry(e)
    <3>1. /\ e.phase = "quoted" /\ e.request = r /\ e.sent = 0
          /\ e \in HunterState
      <4>1. IdleHunter \in HunterState /\ IdleHunter.sent = 0
        BY EmptyEntries DEF IdleHunter
      <4>2. QED
        BY <1>1, <4>1 DEF HunterState
    <3> HIDE DEF e
    <3>2. QED
      BY <1>1, <3>1 DEF Entry
  <2>2. Rest /\ CallsFine /\ hunters' = [hunters EXCEPT ![h] = e]
    BY <1>2, <1>b DEF Quote, outside, Rest
  <2> HIDE DEF e
  <2>3. QED
    BY <1>a, <2>1, <2>2
<1>3. ASSUME NEW c \in Call, NEW m \in Merchant, Deliver(h, c, m)
      PROVE  SettlementInv'
  <2> DEFINE e == [hunters[h] EXCEPT !.phase = "waiting", !.call = c, !.sent = @ + 1]
  <2>1. /\ hunters[h].phase = "signed" /\ hunters[h].request \in Request
        /\ Backed(hunters[h].request) /\ hunters[h].sent < MaxDeliveries
    BY <1>1, <1>3 DEF Deliver, HunterFine
  <2>2. Entry(e)
    <3>1. hunters[h].sent + 1 \in 0..MaxDeliveries
      BY <1>1, <2>1 DEF HunterState
    <3>2. /\ e \in HunterState
          /\ e.phase = "waiting" /\ e.request = hunters[h].request /\ e.call = c
      BY <1>1, <3>1 DEF HunterState
    <3> HIDE DEF e
    <3>3. QED
      BY <2>1, <3>2 DEF Entry
  <2>3. Rest /\ CallsFine
    BY <1>3, <1>g, <2>1 DEF Deliver, outside, Rest, tables
  <2>4. hunters' = [hunters EXCEPT ![h] = e]
    BY <1>3 DEF Deliver
  <2> HIDE DEF e
  <2>5. QED
    BY <1>a, <2>2, <2>3, <2>4
<1>4. ASSUME NEW c \in Call, NEW m \in Merchant, NEW o \in Order, Replay(h, c, m, o)
      PROVE  SettlementInv'
  <2> DEFINE r == purchases[o].request
             e == [phase |-> "waiting", call |-> c, sent |-> 0, request |-> r]
  <2>1. r \in Request /\ Backed(r)
    <3>1. r # None /\ OrderOf[r] = o
      BY <1>4 DEF Replay, SettlementInv, OrdersMatch
    <3>2. r \in Request \cup {None}
      BY FieldTypes DEF SettlementInv, TablesInv
    <3>3. QED
      BY <3>1, <3>2 DEF Backed
  <2>2. Entry(e)
    BY <1>1, <2>1 DEF Entry, HunterState
  <2>3. Rest /\ CallsFine /\ hunters' = [hunters EXCEPT ![h] = e]
    BY <1>4, <1>g, <2>1 DEF Replay, outside, Rest, tables
  <2> HIDE DEF e
  <2>4. QED
    BY <1>a, <2>2, <2>3
<1>5. ASSUME Sign(h)
      PROVE  SettlementInv'
  <2>1. Rest /\ CallsFine /\ hunters[h].phase = "journalled" /\ hunters[h].sent < MaxDeliveries
    BY <1>1, <1>5, <1>b DEF Sign, outside, Rest, HunterFine
  <2>2. \/ hunters' = [hunters EXCEPT ![h] = [hunters[h] EXCEPT !.phase = "signed"]]
        \/ hunters' = [hunters EXCEPT ![h] = [hunters[h] EXCEPT !.phase = "failed"]]
    BY <1>5 DEF Sign
  <2>3. QED
    BY <1>a, <1>c, <1>e, <2>1, <2>2
<1>6. ASSUME Receive(h) \/ NetworkError(h)
      PROVE  SettlementInv'
  <2>1. hunters[h].phase = "waiting" /\ hunters[h].call \in Call /\ Rest
    BY <1>1, <1>6 DEF Receive, NetworkError, outside, Rest, HunterFine
  <2>2. CallsFine
    <3>1. calls' = [calls EXCEPT ![hunters[h].call] = FreeCall]
          \/ calls' = [calls EXCEPT ![hunters[h].call] = Abandoned(hunters[h].call)]
      BY <1>6 DEF Receive, NetworkError
    <3>2. calls' \in [Call -> CallState] /\
          \A b \in Call : calls'[b] \in {calls[b], FreeCall}
      BY <1>1, <2>1, <3>1, EmptyEntries, AbandonedCalls
    <3>3. QED
      BY <1>f, <2>1, <3>2 DEF Rest, tables
  <2>3. \/ hunters' = [hunters EXCEPT ![h] = [hunters[h] EXCEPT !.phase = "bought", !.call = None]]
        \/ GiveUp(h)
        \/ AttemptsLeft(h) /\ TryAgain(h)
    BY <1>6 DEF Receive, NetworkError
  <2>4. CASE \E p \in {"bought", "failed"} :
               hunters' = [hunters EXCEPT ![h] = [hunters[h] EXCEPT !.phase = p, !.call = None]]
    BY <1>a, <1>c, <2>1, <2>2, <2>4
  <2>5. CASE AttemptsLeft(h) /\ TryAgain(h)
    <3>1. hunters[h].sent < MaxDeliveries
      BY <1>1, <2>5 DEF AttemptsLeft
    <3>2. hunters' = [hunters EXCEPT ![h] = [hunters[h] EXCEPT !.phase = "signed", !.call = None]]
      BY <2>5 DEF TryAgain
    <3>3. QED
      BY <1>a, <1>e, <2>1, <2>2, <3>1, <3>2
  <2>6. QED
    BY <2>3, <2>4, <2>5 DEF GiveUp
<1>7. ASSUME Retry(h)
      PROVE  SettlementInv'
  <2>1. Rest /\ CallsFine /\ hunters' = [hunters EXCEPT ![h] = IdleHunter]
    BY <1>7, <1>b DEF Retry, outside, Rest
  <2>2. QED
    BY <1>a, <1>d, <2>1
<1>8. ASSUME HunterCrashes(h)
      PROVE  SettlementInv'
  <2>1. Rest /\ hunters' = [hunters EXCEPT ![h] = IdleHunter]
    BY <1>8 DEF HunterCrashes, outside, Rest
  <2>2. CallsFine
    <3>1. \A c \in Call : calls'[c] \in CallState /\ calls'[c] \in {calls[c], FreeCall}
      BY <1>1, <1>8, AbandonedCalls DEF HunterCrashes
    <3>2. calls' \in [Call -> CallState]
      BY <1>1, <1>8, AbandonedCalls DEF HunterCrashes
    <3>3. QED
      BY <1>f, <2>1, <3>1, <3>2 DEF Rest, tables
  <2>3. QED
    BY <1>a, <1>d, <2>1, <2>2
<1>9. QED
  BY <1>2, <1>3, <1>4, <1>5, <1>6, <1>7, <1>8

\* The journal entry comes before the signature: Backed is established here.
LEMMA JournalStep ==
  ASSUME SettlementInv, NEW h \in Hunter, Journal(h)
  PROVE  SettlementInv' /\ [TablesNext]_tables
<1> DEFINE r == hunters[h].request
<1>1. /\ hunters \in [Hunter -> HunterState] /\ HunterFine(h) /\ r \in Request
      /\ hunters[h].sent < MaxDeliveries /\ TablesTypeOK /\ OrderOf[r] \in Order
      /\ hunters[h] \in HunterState
  BY SettlementAssumption DEF SettlementInv, SettlementTypeOK, TablesInv, Journal, HunterFine
<1>2. CASE Journalled(OrderOf[r]) /\ LosesJournal(h) /\ UNCHANGED <<tables, faults>>
  <2> DEFINE e == [hunters[h] EXCEPT !.phase = "failed"]
  <2>1. e \in HunterState /\ e.phase = "failed" /\ e.request = r
    BY <1>1 DEF HunterState
  <2>2. hunters' = [hunters EXCEPT ![h] = e]
    BY <1>2 DEF LosesJournal
  <2>3. UNCHANGED <<tables, jobs, operator, chain, expired, calls, faults>>
    BY <1>2 DEF Journal, outside
  <2>4. calls' \in [Call -> CallState]
    BY <2>3 DEF SettlementInv, SettlementTypeOK
  <2> HIDE DEF e
  <2>5. SettlementInv'
    BY <1>1, <2>1, <2>2, <2>3, <2>4, HunterMoves
  <2>6. QED
    BY <2>3, <2>5 DEF tables
<1>3. CASE CreatePurchase(r)
  <2>1. [TablesNext]_tables
    BY <1>1, <1>3 DEF TablesNext
  <2>2. UNCHANGED <<calls, jobs, operator, chain, expired>> /\ (UNCHANGED faults \/ Fault)
    BY <1>3 DEF Journal, outside, CreatePurchase, Journalled
  <2>3. /\ purchases[OrderOf[r]].state = "none"
        /\ purchases'[OrderOf[r]].state = "quoted"
        /\ purchases'[OrderOf[r]].request = r
        /\ \A o \in Order : o # OrderOf[r] => purchases'[o] = purchases[o]
        /\ executions' = executions
    BY <1>1, <1>3, CreateEffect
  <2>a. ~Journalled(OrderOf[r])
    BY <1>3 DEF CreatePurchase
  <2>b. \/ hunters' = [hunters EXCEPT ![h].phase = "journalled"]
        \/ hunters' = [hunters EXCEPT ![h].phase = "failed"]
    BY <2>a DEF Journal
  <2>4. PICK p \in {"journalled", "failed"} : hunters' = [hunters EXCEPT ![h].phase = p]
    BY <2>b
  <2>5. hunters' \in [Hunter -> HunterState] /\
        \A k \in Hunter : hunters'[k] = hunters[k] \/
           (k = h /\ hunters'[k].phase = p /\ hunters'[k].request = r
              /\ hunters'[k].sent = hunters[h].sent)
    BY <1>1, <2>4 DEF HunterState
  <2>6. \A k \in Hunter : hunters'[k] = hunters[k] \/ HunterFine(k)'
    BY <1>1, <2>3, <2>5 DEF HunterFine, Backed
  <2>7. MemoryOK'
    <3>1. faults' \in 0..MaxFaults
      BY <2>2, DeliveryAssumption DEF Fault, SettlementInv, SettlementTypeOK
    <3>2. QED
      BY <2>2, <2>5, <3>1 DEF MemoryOK, SettlementInv, SettlementTypeOK
  <2>8. OrdersMatch'
    <3> SUFFICES ASSUME NEW o \in Order
                 PROVE  /\ (purchases'[o].state # "none" <=> purchases'[o].request # None)
                        /\ (purchases'[o].request # None => OrderOf[purchases'[o].request] = o)
      BY DEF OrdersMatch, Journalled
    <3>1. r # None
      BY <1>1, SettlementAssumption
    <3>2. CASE o = OrderOf[r]
      BY <2>3, <3>1, <3>2
    <3>3. CASE o # OrderOf[r]
      BY <2>3, <3>3 DEF SettlementInv, OrdersMatch, Journalled
    <3>4. QED
      BY <3>2, <3>3
  <2>9. \A q \in Request : RequestFine(q)'
    <3> SUFFICES ASSUME NEW q \in Request
                 PROVE  RequestFine(q)'
      OBVIOUS
    <3>1. RequestFine(q) /\ OrderOf[q] \in Order
      BY SettlementAssumption DEF SettlementInv
    <3>2. Backed(q) => Backed(q)'
      <4>1. OrderOf[q] = OrderOf[r] => purchases[OrderOf[q]].request = None
        BY <1>1, <2>3 DEF SettlementInv, OrdersMatch, Journalled
      <4>2. QED
        BY <2>3, <3>1, <4>1, SettlementAssumption DEF Backed
    <3>3. QED
      BY <2>2, <2>3, <3>1, <3>2 DEF RequestFine
  <2>10. OneEngaged' /\ \A c \in Call : calls'[c] = calls[c] /\ Undisturbed(c)
    BY <2>2, <2>3 DEF SettlementInv, OneEngaged, Engaged, Undisturbed
  <2>11. /\ \A q \in Request : chain[q] = "settled" => chain'[q] = "settled"
         /\ \A m \in Merchant, q \in Request : jobs'[m][q] = jobs[m][q]
         /\ operator' = operator
    BY <2>2
  <2>12. QED
    BY <2>1, <2>6, <2>7, <2>8, <2>9, <2>10, <2>11, Assemble
<1>4. QED
  BY <1>2, <1>3 DEF Journal

-----------------------------------------------------------------------------
(* The merchants' handlers.                                                 *)

\* Assemble, for a step that hunters and operator do not take part in.
LEMMA MerchantMoves ==
  ASSUME SettlementInv, [TablesNext]_tables, OrdersMatch', OneEngaged',
         \A r \in Request : RequestFine(r)',
         chain' \in [Request -> {"none", "broadcast", "settled"}],
         \A r \in Request : chain[r] = "settled" => chain'[r] = "settled",
         UNCHANGED <<hunters, operator, expired>>, UNCHANGED faults \/ Fault,
         calls' \in [Call -> CallState],
         \A c \in Call : (calls'[c] = calls[c] /\ Undisturbed(c)) \/ CallFine(c)',
         jobs' \in [Merchant -> [Request -> JobState]],
         \A m \in Merchant, r \in Request : jobs'[m][r] = jobs[m][r] \/ JobFine(m, r)'
  PROVE  SettlementInv'
<1>1. SettlementTypeOK /\ MaxFaults \in Nat
  BY DeliveryAssumption DEF SettlementInv
<1>2. faults' \in 0..MaxFaults
  BY <1>1 DEF SettlementTypeOK, Fault
<1>3. MemoryOK'
  BY <1>1, <1>2 DEF SettlementTypeOK, MemoryOK
<1>4. operator' = operator /\ \A h \in Hunter : hunters'[h] = hunters[h]
  OBVIOUS
<1>5. QED
  BY <1>3, <1>4, Assemble

\* A handler's step that leaves the chain alone and either no table changed or
\* the row of its own request, inside the settling section.
LEMMA HandlerMoves ==
  ASSUME SettlementInv, [TablesNext]_tables,
         UNCHANGED <<hunters, operator, chain, expired>>, UNCHANGED faults \/ Fault,
         jobs' \in [Merchant -> [Request -> JobState]],
         \A m \in Merchant, r \in Request : jobs'[m][r] = jobs[m][r] \/ JobFine(m, r)',
         NEW c \in Call, NEW k \in Request, calls[c].pc # "free", calls[c].request = k,
         \/ UNCHANGED tables
         \/ /\ Engaged(c) /\ Moves(k)
            /\ executions'[k].binding = executions[k].binding
                  \/ (executions'[k].binding = k /\ chain[k] = "settled"),
         NEW e \in CallState, calls' = [calls EXCEPT ![c] = e],
         IF e.pc = "free" THEN e.at = None ELSE e.at \in Merchant /\ e.request = k,
         e.pc \in Settling => Engaged(c) /\ e.pc # "settle",
         e.pc = "unsure" => executions'[k].state # "settlement_attempting",
         e.pc \in {"record", "write", "deliver"} => e.payment = k /\ chain[k] = "settled",
         e.pc \in {"write", "deliver"} => executions'[k].binding = k
  PROVE  SettlementInv'
<1>1. /\ calls \in [Call -> CallState] /\ chain \in [Request -> {"none", "broadcast", "settled"}]
      /\ CallFine(c) /\ OneEngaged /\ Monotone
  BY StepIsMonotone DEF SettlementInv, SettlementTypeOK
<1>2. calls' \in [Call -> CallState] /\ calls'[c] = e /\ \A b \in Call \ {c} : calls'[b] = calls[b]
  BY <1>1
<1>3. Backed(k) /\ (Engaged(c) => executions[k].state # "none")
  BY <1>1 DEF CallFine
<1>4. Backed(k)'
  BY <1>1, <1>3, SettlementAssumption DEF Monotone, Backed
<1>5. Engaged(c) => executions'[k].state # "none"
  BY <1>1, <1>3 DEF Monotone
<1>6. CallFine(c)'
  <2> SUFFICES ASSUME e.pc # "free"
               PROVE  CallFine(c)'
    BY <1>2 DEF CallFine
  <2>1. calls'[c].request = k /\ calls'[c].pc # "settle" /\ calls'[c].at \in Merchant
    BY <1>2 DEF Settling
  <2>2. Engaged(c)' => executions'[k].state # "none"
    BY <1>2, <1>5 DEF Engaged
  <2>3. /\ calls'[c].pc = "unsure" => executions'[k].state # "settlement_attempting"
        /\ calls'[c].pc \in {"record", "write", "deliver"} =>
              calls'[c].payment = k /\ chain'[k] = "settled"
        /\ calls'[c].pc \in {"write", "deliver"} => executions'[k].binding = k
    BY <1>2
  <2>4. QED
    BY <1>4, <2>1, <2>2, <2>3 DEF CallFine
<1>7. OneEngaged'
  <2>1. \A b \in Call : Engaged(b)' => Engaged(b) /\ calls'[b].request = calls[b].request
    BY <1>2 DEF Engaged, Settling
  <2>2. QED
    BY <1>1, <2>1, EngagedStay
<1>8. UNCHANGED chain
  OBVIOUS
<1>9. OrdersMatch' /\ \A r \in Request : RequestFine(r)'
  BY <1>8, TablesRest, TablesMove
<1>10. \A b \in Call \ {c} : Undisturbed(b)
  <2>1. CASE UNCHANGED tables
    BY <1>8, <2>1, TablesRest
  <2>2. CASE /\ Engaged(c) /\ Moves(k)
             /\ executions'[k].binding = executions[k].binding
                   \/ (executions'[k].binding = k /\ chain[k] = "settled")
    <3>1. \A b \in Call \ {c} : calls[b].request # k \/ calls[b].pc # "settle"
      BY <1>1, <2>2 DEF OneEngaged, Engaged, Settling
    <3>2. QED
      BY <1>8, <2>2, <3>1, TablesMove
  <2>3. QED
    BY <2>1, <2>2
<1>11. \A b \in Call : (calls'[b] = calls[b] /\ Undisturbed(b)) \/ CallFine(b)'
  BY <1>2, <1>6, <1>10
<1>12. \A r \in Request : chain[r] = "settled" => chain'[r] = "settled"
  BY <1>8
<1>13. chain' \in [Request -> {"none", "broadcast", "settled"}]
  BY <1>1, <1>8
<1>14. UNCHANGED <<hunters, operator, expired>>
  OBVIOUS
<1>15. QED
  BY <1>2, <1>7, <1>9, <1>11, <1>12, <1>13, <1>14, MerchantMoves

\* What the caller of a handler is told.
LEMMA RepliedEntry ==
  ASSUME SettlementInv, NEW c \in Call, calls[c].pc # "free",
         NEW reply \in {"ok", "refused", "error"}
  PROVE  LET e == Replied(c, reply) IN
         /\ e \in CallState /\ e.pc \in {"free", "done"}
         /\ IF e.pc = "free" THEN e.at = None
                             ELSE e.at \in Merchant /\ e.request = calls[c].request
<1>1. calls[c] \in CallState /\ calls[c].at \in Merchant /\ calls[c].request \in Request
  BY DEF SettlementInv, SettlementTypeOK, CallFine
<1> DEFINE e == [calls[c] EXCEPT !.pc = "done", !.reply = reply]
<1>2. /\ e \in CallState /\ e.pc = "done" /\ e.at = calls[c].at
      /\ e.request = calls[c].request
  BY <1>1 DEF CallState
<1>3. Replied(c, reply) \in {e, FreeCall}
  BY DEF Replied
<1> HIDE DEF e
<1>4. QED
  BY <1>1, <1>2, <1>3, EmptyEntries

\* The handler's steps that change no table.
LEMMA HandlerRests ==
  ASSUME SettlementInv, NEW c \in Call,
         Look(c) \/ SaveFails(c) \/ HandlerFails(c) \/ Join(c)
  PROVE  SettlementInv' /\ [TablesNext]_tables
<1> DEFINE k == calls[c].request
<1>1. /\ UNCHANGED <<hunters, operator, chain, expired>> /\ UNCHANGED tables
      /\ UNCHANGED faults \/ Fault
      /\ calls[c].pc # "free"
  BY DEF Look, SaveFails, HandlerFails, Join, people, outside, At
<1>2. [TablesNext]_tables
  BY <1>1
<1>3. k \in Request /\ calls[c] \in CallState /\ calls[c].at \in Merchant
      /\ CallFine(c) /\ RequestFine(k) /\ TablesInv
  BY <1>1, RepliedEntry DEF SettlementInv, SettlementTypeOK, CallFine
<1>4. ASSUME UNCHANGED jobs
      PROVE  /\ jobs' \in [Merchant -> [Request -> JobState]]
             /\ \A m \in Merchant, r \in Request : jobs'[m][r] = jobs[m][r] \/ JobFine(m, r)'
  BY <1>4 DEF SettlementInv, SettlementTypeOK
<1>5. ASSUME NEW reply \in {"ok", "refused", "error"}, Reply(c, reply), UNCHANGED jobs
      PROVE  SettlementInv'
  <2> DEFINE e == Replied(c, reply)
  <2>1. calls' = [calls EXCEPT ![c] = e]
    BY <1>5 DEF Reply
  <2>2. /\ e \in CallState /\ e.pc \in {"free", "done"}
        /\ IF e.pc = "free" THEN e.at = None ELSE e.at \in Merchant /\ e.request = k
    BY <1>1, RepliedEntry
  <2>3. e.pc \notin Settling /\ e.pc \notin {"deliver"}
    BY <2>2 DEF Settling
  <2> HIDE DEF e
  <2> HIDE DEF k
  <2>4. calls[c].request = k
    BY DEF k
  <2>5. QED
    BY <1>1, <1>2, <1>3, <1>4, <1>5, <2>1, <2>2, <2>3, <2>4, HandlerMoves DEF Settling
<1>6. ASSUME NEW pc \in {"claim", "doubt", "joined"}, GoTo(c, pc),
             pc = "doubt" => Engaged(c),
             jobs' \in [Merchant -> [Request -> JobState]],
             \A m \in Merchant, r \in Request : jobs'[m][r] = jobs[m][r] \/ JobFine(m, r)'
      PROVE  SettlementInv'
  <2> DEFINE e == [calls[c] EXCEPT !.pc = pc]
  <2>1. calls' = [calls EXCEPT ![c] = e]
    BY <1>6 DEF GoTo
  <2>2. e \in CallState /\ e.pc = pc /\ e.at \in Merchant /\ e.request = k
    BY <1>3 DEF CallState
  <2> HIDE DEF e
  <2> HIDE DEF k
  <2>3. calls[c].request = k
    BY DEF k
  <2>4. QED
    BY <1>1, <1>2, <1>3, <1>6, <2>1, <2>2, <2>3, HandlerMoves DEF Settling
<1>7. CASE Look(c)
  <2>1. UNCHANGED jobs
    BY <1>7 DEF Look
  <2>2. CASE Reply(c, "ok") \/ Reply(c, "refused")
    BY <1>2, <1>5, <2>1, <2>2
  <2>3. CASE GoTo(c, "claim")
    BY <1>2, <1>4, <1>6, <2>1, <2>3
  <2>4. CASE /\ executions[k].evidence # None
             /\ calls' = [calls EXCEPT ![c] = [@ EXCEPT !.pc = "deliver",
                                                        !.payment = executions[k].evidence]]
    <3> DEFINE t == executions[k].evidence
               e == [calls[c] EXCEPT !.pc = "deliver", !.payment = t]
    <3>1. t \in Tx /\ t = executions[k].binding /\ t = k /\ chain[k] = "settled"
      BY <1>3, <2>4, FieldTypes DEF TablesInv, TablesSafety, EvidenceIsBound, RequestFine
    <3>2. calls' = [calls EXCEPT ![c] = e]
      BY <2>4
    <3>3. e \in CallState /\ e.pc = "deliver" /\ e.at \in Merchant /\ e.request = k
          /\ e.payment = k
      BY <1>3, <3>1 DEF CallState
    <3>4. executions'[k].binding = k
      BY <1>1, <3>1 DEF tables
    <3> HIDE DEF e, t
    <3> HIDE DEF k
    <3>5. calls[c].request = k
      BY DEF k
    <3>6. QED
      BY <1>1, <1>2, <1>3, <1>4, <2>1, <3>1, <3>2, <3>3, <3>4, <3>5, HandlerMoves DEF Settling
  <2>5. QED
    BY <1>7, <2>2, <2>3, <2>4 DEF Look
<1>8. CASE SaveFails(c)
  <2>1. UNCHANGED jobs /\ GoTo(c, "doubt") /\ Engaged(c)
    BY <1>8 DEF SaveFails, At, Engaged, Settling
  <2>2. SettlementInv'
    BY <1>4, <1>6, <2>1
  <2>3. QED
    BY <1>2, <2>2
<1>9. CASE HandlerFails(c)
  <2>1. UNCHANGED jobs /\ Reply(c, "error")
    BY <1>9 DEF HandlerFails
  <2>2. SettlementInv'
    BY <1>5, <2>1
  <2>3. QED
    BY <1>2, <2>2
<1>10. CASE Join(c)
  <2> DEFINE m == calls[c].at
             j == [NoJob EXCEPT !.pc = "work", !.payment = calls[c].payment]
  <2>1. calls[c].payment = k /\ executions[k].binding = k
    BY <1>3, <1>10 DEF Join, At, CallFine
  <2>2. j \in JobState /\ j.pc = "work" /\ j.payment = k
    BY <1>3, <2>1, EmptyEntries, DeliveryAssumption DEF JobState
  <2>3. jobs' = jobs \/ jobs' = [jobs EXCEPT ![m][k] = j]
    BY <1>10 DEF Join
  <2>4. jobs \in [Merchant -> [Request -> JobState]]
    BY DEF SettlementInv, SettlementTypeOK
  <2> HIDE DEF j
  <2>5. jobs' \in [Merchant -> [Request -> JobState]]
    BY <1>3, <2>2, <2>3, <2>4
  <2>6. \A n \in Merchant, r \in Request :
           jobs'[n][r] = jobs[n][r] \/ (r = k /\ jobs'[n][r] = j)
    BY <1>3, <2>3, <2>4
  <2>7. executions'[k].binding = k
    BY <1>1, <2>1 DEF tables
  <2>8. \A n \in Merchant, r \in Request : jobs'[n][r] = jobs[n][r] \/ JobFine(n, r)'
    BY <2>2, <2>6, <2>7 DEF JobFine
  <2>9. QED
    BY <1>6, <1>10, <2>5, <2>8 DEF Join
<1>11. QED
  BY <1>2, <1>7, <1>8, <1>9, <1>10

\* Record, Write, Doubt and Unsure: the statements of save, for the handler that
\* settles its request.
LEMMA HandlerSaves ==
  ASSUME SettlementInv, NEW c \in Call, Record(c) \/ Write(c) \/ Doubt(c) \/ Unsure(c)
  PROVE  SettlementInv' /\ [TablesNext]_tables
<1> DEFINE k == calls[c].request
<1>1. /\ UNCHANGED <<jobs, hunters, operator, chain, expired>>
      /\ UNCHANGED faults \/ Fault
      /\ calls[c].pc # "free" /\ Engaged(c)
  BY DEF Record, Write, Doubt, Unsure, GoToOrFail, people, outside, At, Engaged, Settling
<1>2. /\ k \in Request /\ k \in Tx /\ calls[c] \in CallState /\ calls[c].at \in Merchant
      /\ CallFine(c) /\ TablesInv /\ TablesTypeOK /\ executions[k].state # "none"
      /\ None \notin Request /\ None \notin Answer
  BY <1>1, DeliveryAssumption, SettlementAssumption
     DEF SettlementInv, SettlementTypeOK, CallFine, TablesInv
<1>3. /\ jobs' \in [Merchant -> [Request -> JobState]]
      /\ \A m \in Merchant, r \in Request : jobs'[m][r] = jobs[m][r] \/ JobFine(m, r)'
  BY <1>1 DEF SettlementInv, SettlementTypeOK
<1> DEFINE Row == /\ [TablesNext]_tables
                  /\ \/ UNCHANGED tables
                     \/ /\ Moves(k)
                        /\ executions'[k].binding = executions[k].binding
                              \/ (executions'[k].binding = k /\ chain[k] = "settled")
<1>4. ASSUME Row, NEW e \in CallState, calls' = [calls EXCEPT ![c] = e],
             IF e.pc = "free" THEN e.at = None ELSE e.at \in Merchant /\ e.request = k,
             e.pc \in {"free", "done", "write", "doubt", "unsure", "deliver"},
             e.pc = "unsure" => executions'[k].state # "settlement_attempting",
             e.pc \in {"write", "deliver"} =>
                e.payment = k /\ chain[k] = "settled" /\ executions'[k].binding = k
      PROVE  SettlementInv' /\ [TablesNext]_tables
  <2>1. calls[c].request = k /\ Row
    BY <1>4
  <2> HIDE DEF k
  <2>2. QED
    BY <1>1, <1>2, <1>3, <1>4, <2>1, HandlerMoves DEF Settling
<1>5. ASSUME Row, NEW pc \in {"write", "doubt", "unsure", "deliver"}, GoTo(c, pc),
             pc = "unsure" => executions'[k].state # "settlement_attempting",
             pc \in {"write", "deliver"} =>
                calls[c].payment = k /\ chain[k] = "settled" /\ executions'[k].binding = k
      PROVE  SettlementInv' /\ [TablesNext]_tables
  <2> DEFINE e == [calls[c] EXCEPT !.pc = pc]
  <2>1. calls' = [calls EXCEPT ![c] = e]
    BY <1>5 DEF GoTo
  <2>2. e \in CallState /\ e.pc = pc /\ e.at \in Merchant /\ e.request = k
        /\ e.payment = calls[c].payment
    BY <1>2 DEF CallState
  <2> HIDE DEF e, k, Row
  <2>3. QED
    BY <1>4, <1>5, <2>1, <2>2
<1>6. CASE Record(c)
  <2>1. calls[c].payment = k /\ chain[k] = "settled"
    BY <1>2, <1>6 DEF Record, At, CallFine
  <2>2. RecordConfirmedPayment(k, k)
    BY <1>6, <2>1 DEF Record
  <2>3. Moves(k) /\ executions'[k].binding = k
    BY <1>2, <2>2, RecordMoves
  <2>4. Row
    BY <1>2, <2>1, <2>2, <2>3 DEF TablesNext
  <2>5. GoTo(c, "write") \/ GoTo(c, "doubt")
    BY <1>6 DEF Record, GoToOrFail
  <2> HIDE DEF k, Row
  <2>6. QED
    BY <1>5, <2>1, <2>3, <2>4, <2>5
<1>7. CASE Write(c)
  <2>1. calls[c].payment = k /\ chain[k] = "settled" /\ executions[k].binding = k
    BY <1>2, <1>7 DEF Write, At, CallFine
  <2>2. WriteExecution(k, "paid", k, None)
    BY <1>7, <2>1 DEF Write
  <2>3. Moves(k) /\ executions'[k].binding = k
    BY <1>2, <2>1, <2>2, WriteMoves
  <2>4. SavePaid(k)
    BY <1>2, <2>1, <2>2 DEF SavePaid
  <2>5. Row
    BY <1>2, <2>1, <2>3, <2>4 DEF TablesNext
  <2>6. GoTo(c, "deliver") \/ GoTo(c, "doubt")
    BY <1>7 DEF Write, GoToOrFail
  <2> HIDE DEF k, Row
  <2>7. QED
    BY <1>5, <2>1, <2>3, <2>5, <2>6
<1>8. CASE Doubt(c)
  <2>1. GoTo(c, "unsure")
    BY <1>8 DEF Doubt
  <2>2. CASE MarkSettlementUncertain(k)
    <3>1. /\ Moves(k) /\ executions'[k].binding = executions[k].binding
          /\ executions'[k].state # "settlement_attempting"
      BY <1>2, <2>2, MarkMoves
    <3>2. TablesNext
      <4> HIDE DEF k
      <4>1. QED
        BY <1>2, <2>2 DEF TablesNext
    <3>3. Row
      <4> HIDE DEF k
      <4>1. QED
        BY <3>1, <3>2
    <3> HIDE DEF k, Row
    <3>4. QED
      BY <1>5, <2>1, <3>1, <3>3
  <2>3. CASE executions[k].state # "settlement_attempting" /\ UNCHANGED tables
    <3>1. executions'[k].state # "settlement_attempting" /\ Row
      BY <2>3 DEF tables
    <3> HIDE DEF k, Row
    <3>2. QED
      BY <1>5, <2>1, <3>1
  <2>4. QED
    BY <1>8, <2>2, <2>3 DEF Doubt
<1>9. CASE Unsure(c)
  <2>1. executions[k].state # "settlement_attempting"
    BY <1>2, <1>9 DEF Unsure, At, CallFine
  <2>2. WriteExecution(k, "settlement_uncertain", None, None)
    BY <1>9 DEF Unsure
  <2>3. Moves(k) /\ executions'[k].binding = executions[k].binding
    BY <1>2, <2>2, WriteMoves
  <2>4. SaveUncertain(k)
    BY <1>2, <2>1, <2>2 DEF SaveUncertain
  <2>a. TablesNext
    <3> HIDE DEF k
    <3>1. QED
      BY <1>2, <2>4 DEF TablesNext
  <2>5. Row
    <3> HIDE DEF k
    <3>1. QED
      BY <2>3, <2>a
  <2> DEFINE e == Replied(c, "refused")
  <2>6. calls' = [calls EXCEPT ![c] = e]
    BY <1>9 DEF Unsure, Reply
  <2>7. /\ e \in CallState /\ e.pc \in {"free", "done"}
        /\ IF e.pc = "free" THEN e.at = None ELSE e.at \in Merchant /\ e.request = k
    BY <1>1, RepliedEntry
  <2> HIDE DEF e, k, Row
  <2>8. QED
    BY <1>4, <2>5, <2>6, <2>7
<1>10. QED
  BY <1>6, <1>7, <1>8, <1>9

\* The claim: the compare-and-set makes this handler the one that settles.
LEMMA ClaimStep ==
  ASSUME SettlementInv, NEW c \in Call, NEW k \in Request, calls[c].request = k, Claim(c)
  PROVE  SettlementInv' /\ [TablesNext]_tables
<1>1. /\ UNCHANGED <<jobs, hunters, operator, chain, expired>>
      /\ UNCHANGED faults \/ Fault
      /\ calls[c].pc = "claim"
  BY DEF Claim, Reply, people, outside, At
<1>2. /\ k \in Request /\ calls[c] \in CallState /\ calls[c].at \in Merchant
      /\ CallFine(c) /\ Backed(k) /\ RequestFine(k) /\ TablesInv /\ TablesTypeOK
      /\ calls \in [Call -> CallState] /\ chain \in [Request -> {"none", "broadcast", "settled"}]
      /\ OrdersMatch /\ OneEngaged
      /\ None \notin Request /\ OrderOf[k] \in Order
  BY <1>1, SettlementAssumption DEF SettlementInv, SettlementTypeOK, CallFine, TablesInv
<1>3. /\ jobs' \in [Merchant -> [Request -> JobState]]
      /\ \A m \in Merchant, r \in Request : jobs'[m][r] = jobs[m][r] \/ JobFine(m, r)'
  BY <1>1 DEF SettlementInv, SettlementTypeOK
<1>4. PICK e \in CallState :
        /\ calls' = [calls EXCEPT ![c] = e]
        /\ e.pc \in {"free", "done", "arrived", "settle"}
        /\ IF e.pc = "free" THEN e.at = None ELSE e.at \in Merchant /\ e.request = k
        /\ e.pc = "settle" => BeginSettlement(k)
  <2>1. /\ GoTo(c, "arrived") \/ GoTo(c, "settle") \/ Reply(c, "error")
        /\ GoTo(c, "arrived") \/ Reply(c, "error") \/ BeginSettlement(k)
    BY DEF Claim, LostClaim
  <2>2. CASE Reply(c, "error")
    <3> DEFINE e == Replied(c, "error")
    <3>1. calls' = [calls EXCEPT ![c] = e]
      BY <2>2 DEF Reply
    <3>2. /\ e \in CallState /\ e.pc \in {"free", "done"}
          /\ IF e.pc = "free" THEN e.at = None ELSE e.at \in Merchant /\ e.request = k
      BY <1>1, RepliedEntry
    <3> HIDE DEF e
    <3>3. QED
      BY <3>1, <3>2
  <2>3. ASSUME NEW pc \in {"arrived", "settle"}, GoTo(c, pc), pc = "arrived" \/ BeginSettlement(k)
        PROVE  \E e \in CallState :
                  /\ calls' = [calls EXCEPT ![c] = e]
                  /\ e.pc \in {"free", "done", "arrived", "settle"}
                  /\ IF e.pc = "free" THEN e.at = None ELSE e.at \in Merchant /\ e.request = k
                  /\ e.pc = "settle" => BeginSettlement(k)
    <3> DEFINE e == [calls[c] EXCEPT !.pc = pc]
    <3>1. calls' = [calls EXCEPT ![c] = e]
      BY <2>3 DEF GoTo
    <3>2. e \in CallState /\ e.pc = pc /\ e.at \in Merchant /\ e.request = k
      BY <1>2 DEF CallState
    <3> HIDE DEF e
    <3>3. QED
      BY <2>3, <3>1, <3>2
  <2>4. ~(GoTo(c, "arrived") /\ GoTo(c, "settle"))
    BY <1>2 DEF GoTo, CallState
  <2>5. QED
    BY <2>1, <2>2, <2>3, <2>4
<1>5. CASE UNCHANGED tables
  <2>1. e.pc # "settle"
    <3>1. BeginSettlement(k) => executions'[k] # executions[k]
      BY <1>2, BeginEffect
    <3>2. QED
      BY <1>4, <1>5, <3>1 DEF tables
  <2>2. calls[c].request = k /\ calls[c].pc # "free"
    BY <1>1
  <2>3. SettlementInv'
    BY <1>1, <1>2, <1>3, <1>4, <1>5, <2>1, <2>2, HandlerMoves DEF Settling
  <2>4. QED
    BY <1>5, <2>3
<1>6. CASE BeginSettlement(k)
  <2>1. [TablesNext]_tables
    BY <1>2, <1>6 DEF TablesNext
  <2>2. LinkOf(k) = OrderOf[k]
    <3>1. Journalled(OrderOf[k])
      BY <1>2 DEF OrdersMatch, Backed
    <3>2. QED
      BY <3>1 DEF LinkOf
  <2>3. /\ executions[k].state = "none"
        /\ executions'[k].state = "settlement_attempting"
        /\ executions'[k].order = OrderOf[k] /\ executions'[k].binding = None
        /\ \A q \in Request : q # k => executions'[q] = executions[q]
        /\ purchases' = purchases
    BY <1>2, <1>6, <2>2, BeginEffect
  <2>4. chain[k] = "none"
    BY <1>2, <2>3 DEF RequestFine
  <2>5. OrdersMatch' /\ Backed(k)'
    BY <1>2, <2>3 DEF OrdersMatch, Journalled, Backed
  <2>6. ASSUME NEW r \in Request
        PROVE  RequestFine(r)'
    <3>1. RequestFine(r) /\ (Backed(r)' <=> Backed(r))
      BY <2>3 DEF SettlementInv, Backed
    <3>2. CASE r = k
      BY <1>1, <2>3, <2>4, <2>5, <3>2 DEF RequestFine
    <3>3. CASE r # k
      BY <1>1, <2>3, <3>1, <3>3 DEF RequestFine
    <3>4. QED
      BY <3>2, <3>3
  <2>7. \A b \in Call : b # c => calls'[b] = calls[b]
    BY <1>2, <1>4
  <2>8. \A b \in Call : Engaged(b) => calls[b].request # k
    BY <2>3 DEF SettlementInv, CallFine, Engaged, Settling
  <2>9. calls' \in [Call -> CallState] /\ calls'[c] = e
    BY <1>2, <1>4
  <2>10. OneEngaged'
    BY <1>2, <1>4, <2>7, <2>8, <2>9 DEF OneEngaged, Engaged, Settling
  <2>11. CallFine(c)'
    <3> SUFFICES ASSUME e.pc # "free"
                 PROVE  CallFine(c)'
      BY <1>4, <2>9 DEF CallFine
    <3>1. calls'[c].request = k /\ calls'[c].at \in Merchant
          /\ calls'[c].pc \in {"done", "arrived", "settle"}
      BY <1>4, <2>9
    <3>2. executions'[k].state = "settlement_attempting" /\ chain'[k] = "none" /\ Backed(k)'
      BY <1>1, <2>3, <2>4, <2>5
    <3>3. QED
      BY <1>2, <3>1, <3>2 DEF CallFine, Engaged, Settling
  <2>12. ASSUME NEW b \in Call, b # c
         PROVE  Undisturbed(b)
    <3>1. calls[b].pc = "settle" => calls[b].request \in Request /\ calls[b].request # k
      BY <2>8 DEF SettlementInv, CallFine, Engaged, Settling
    <3>2. QED
      BY <1>1, <2>3, <3>1 DEF Undisturbed
  <2>13. /\ \A b \in Call : (calls'[b] = calls[b] /\ Undisturbed(b)) \/ CallFine(b)'
         /\ \A r \in Request : chain[r] = "settled" => chain'[r] = "settled"
         /\ chain' \in [Request -> {"none", "broadcast", "settled"}]
         /\ UNCHANGED <<hunters, operator, expired>>
    BY <1>1, <1>2, <2>7, <2>11, <2>12
  <2>14. SettlementInv'
    BY <1>1, <1>3, <2>1, <2>5, <2>6, <2>9, <2>10, <2>13, MerchantMoves
  <2>15. QED
    BY <2>1, <2>14
<1>7. QED
  BY <1>5, <1>6 DEF Claim

\* The facilitator is asked: the payment may reach the chain.
LEMMA SettleStep ==
  ASSUME SettlementInv, NEW c \in Call, NEW k \in Request, calls[c].request = k, Settle(c)
  PROVE  SettlementInv' /\ [TablesNext]_tables
<1>1. /\ UNCHANGED <<jobs, hunters, operator, expired, faults>> /\ UNCHANGED tables
      /\ calls[c].pc = "settle"
  BY DEF Settle, people, At
<1>2. /\ calls[c] \in CallState /\ calls[c].at \in Merchant /\ CallFine(c) /\ Backed(k)
      /\ executions[k].state = "settlement_attempting" /\ chain[k] = "none"
      /\ RequestFine(k) /\ OneEngaged /\ Engaged(c) /\ None \notin Request
      /\ calls \in [Call -> CallState] /\ chain \in [Request -> {"none", "broadcast", "settled"}]
      /\ jobs \in [Merchant -> [Request -> JobState]] /\ OrdersMatch
  BY <1>1, SettlementAssumption
     DEF SettlementInv, SettlementTypeOK, CallFine, Engaged, Settling
<1>3. PICK s \in {"none", "broadcast", "settled"}, e \in CallState :
        /\ chain' = [chain EXCEPT ![k] = s] /\ calls' = [calls EXCEPT ![c] = e]
        /\ e.at = calls[c].at /\ e.request = k
        /\ \/ e.pc = "doubt"
           \/ e.pc = "record" /\ e.payment = k /\ s = "settled"
  <2>1. CASE Unconfirmed(c)
    <3> DEFINE e == [calls[c] EXCEPT !.pc = "doubt"]
    <3>1. calls' = [calls EXCEPT ![c] = e]
      BY <2>1 DEF Unconfirmed, GoTo
    <3>2. e \in CallState /\ e.pc = "doubt" /\ e.at = calls[c].at /\ e.request = k
      BY <1>2 DEF CallState
    <3>3. \E s \in {"none", "broadcast"} : chain' = [chain EXCEPT ![k] = s]
      <4>1. chain = [chain EXCEPT ![k] = "none"]
        BY <1>2
      <4>2. chain' = [chain EXCEPT ![k] = "broadcast"] \/ chain' = chain
            \/ calls' = [calls EXCEPT ![c] = [calls[c] EXCEPT !.pc = "record", !.payment = k]]
        BY DEF Settle
      <4>3. calls' # [calls EXCEPT ![c] = [calls[c] EXCEPT !.pc = "record", !.payment = k]]
        <5> DEFINE d == [calls[c] EXCEPT !.pc = "record", !.payment = k]
        <5>1. d.pc = "record"
          BY <1>2 DEF CallState
        <5> HIDE DEF d, e
        <5>2. [calls EXCEPT ![c] = d] # [calls EXCEPT ![c] = e]
          BY <1>2, <3>2, <5>1
        <5>3. QED
          BY <3>1, <5>2 DEF d
      <4>4. QED
        BY <4>1, <4>2, <4>3
    <3> HIDE DEF e
    <3>4. QED
      BY <3>1, <3>2, <3>3
  <2>2. CASE /\ chain' = [chain EXCEPT ![k] = "settled"]
             /\ calls' = [calls EXCEPT ![c] = [calls[c] EXCEPT !.pc = "record", !.payment = k]]
    <3> DEFINE e == [calls[c] EXCEPT !.pc = "record", !.payment = k]
    <3>1. /\ e \in CallState /\ e.pc = "record" /\ e.at = calls[c].at /\ e.request = k
          /\ e.payment = k
      BY <1>2, DeliveryAssumption DEF CallState
    <3>2. calls' = [calls EXCEPT ![c] = e] /\ chain' = [chain EXCEPT ![k] = "settled"]
      BY <2>2
    <3> HIDE DEF e
    <3>3. QED
      BY <3>1, <3>2
  <2>3. QED
    BY <2>1, <2>2 DEF Settle
<1>4. /\ calls' \in [Call -> CallState] /\ calls'[c] = e
      /\ \A b \in Call \ {c} : calls'[b] = calls[b]
      /\ chain' \in [Request -> {"none", "broadcast", "settled"}] /\ chain'[k] = s
      /\ \A r \in Request \ {k} : chain'[r] = chain[r]
  BY <1>2, <1>3
<1>5. [TablesNext]_tables /\ OrdersMatch'
  BY <1>1, <1>2 DEF tables, OrdersMatch, Journalled
<1>6. ASSUME NEW r \in Request
      PROVE  RequestFine(r)'
  <2>1. RequestFine(r) /\ (Backed(r)' <=> Backed(r))
    BY <1>1 DEF SettlementInv, Backed, tables
  <2>2. CASE r = k
    <3>1. executions[k].binding = None
      BY <1>2 DEF SettlementInv, TablesInv, TablesSafety, EvidenceIsBound
    <3>2. QED
      BY <1>1, <1>2, <2>1, <2>2, <3>1 DEF RequestFine, tables
  <2>3. CASE r # k
    BY <1>1, <1>4, <2>1, <2>3 DEF RequestFine, tables
  <2>4. QED
    BY <2>2, <2>3
<1>7. OneEngaged'
  <2>1. \A b \in Call : Engaged(b)' => Engaged(b) /\ calls'[b].request = calls[b].request
    BY <1>2, <1>3, <1>4 DEF Engaged
  <2>2. QED
    BY <1>2, <2>1, EngagedStay
<1>8. CallFine(c)'
  <2>1. calls'[c].request = k /\ calls'[c].at \in Merchant /\ calls'[c].pc \in {"doubt", "record"}
    BY <1>2, <1>3, <1>4
  <2>2. calls'[c].pc = "record" => calls'[c].payment = k /\ chain'[k] = "settled"
    BY <1>3, <1>4
  <2>3. Backed(k)' /\ executions'[k].state = "settlement_attempting"
    BY <1>1, <1>2 DEF Backed, tables
  <2>4. QED
    BY <2>1, <2>2, <2>3 DEF CallFine, Engaged, Settling
<1>9. ASSUME NEW b \in Call \ {c}
      PROVE  Undisturbed(b)
  <2>1. calls[b].pc = "settle" => calls[b].request \in Request \ {k}
    BY <1>2 DEF SettlementInv, CallFine, OneEngaged, Engaged, Settling
  <2>2. QED
    BY <1>1, <1>4, <2>1 DEF Undisturbed, tables
<1>10. /\ \A b \in Call : (calls'[b] = calls[b] /\ Undisturbed(b)) \/ CallFine(b)'
       /\ \A r \in Request : chain[r] = "settled" => chain'[r] = "settled"
       /\ UNCHANGED <<hunters, operator, expired>>
       /\ jobs' \in [Merchant -> [Request -> JobState]]
       /\ \A m \in Merchant, r \in Request : jobs'[m][r] = jobs[m][r]
  BY <1>1, <1>2, <1>4, <1>8, <1>9
<1>11. SettlementInv'
  BY <1>1, <1>4, <1>5, <1>6, <1>7, <1>10, MerchantMoves
<1>12. QED
  BY <1>5, <1>11

LEMMA HandlerStep ==
  ASSUME SettlementInv, NEW c \in Call, Handle(c) \/ SaveFails(c) \/ HandlerFails(c)
  PROVE  SettlementInv' /\ [TablesNext]_tables
<1>1. Claim(c) \/ Settle(c) => calls[c].request \in Request
  BY DEF Claim, Settle, At, SettlementInv, CallFine
<1>2. QED
  BY <1>1, HandlerRests, HandlerSaves, ClaimStep, SettleStep DEF Handle

-----------------------------------------------------------------------------
(* The executions, the operator and the world.                              *)

\* Handlers that are answered have let go of their requests.
LEMMA AnsweredCalls ==
  ASSUME SettlementInv, [TablesNext]_tables, NEW reply \in {"ok", "refused", "error"},
         NEW Told \in SUBSET Call,
         calls' = [c \in Call |-> IF c \in Told THEN Replied(c, reply) ELSE calls[c]],
         \A c \in Told : calls[c].pc # "free"
  PROVE  /\ calls' \in [Call -> CallState] /\ OneEngaged'
         /\ \A c \in Call : calls'[c] = calls[c] \/ CallFine(c)'
<1>1. Monotone /\ calls \in [Call -> CallState] /\ OneEngaged
  BY StepIsMonotone DEF SettlementInv, SettlementTypeOK
<1>2. ASSUME NEW c \in Told
      PROVE  /\ calls'[c] \in CallState /\ calls'[c].pc \notin Settling
             /\ CallFine(c)'
  <2> DEFINE e == Replied(c, reply)
             k == calls[c].request
  <2>1. calls'[c] = e
    OBVIOUS
  <2>2. /\ e \in CallState /\ e.pc \in {"free", "done"}
        /\ IF e.pc = "free" THEN e.at = None ELSE e.at \in Merchant /\ e.request = k
    BY RepliedEntry
  <2>3. k \in Request /\ purchases[OrderOf[k]].request = k
    BY DEF SettlementInv, CallFine, Backed
  <2>4. purchases'[OrderOf[k]].request = k
    BY <1>1, <2>3, SettlementAssumption DEF Monotone
  <2> HIDE DEF e
  <2>5. e.pc # "free" => calls'[c].request = k
    BY <2>1, <2>2
  <2> HIDE DEF k
  <2>6. QED
    BY <2>1, <2>2, <2>3, <2>4, <2>5 DEF CallFine, Engaged, Settling, Backed
<1>3. \A c \in Call : c \in Told \/ calls'[c] = calls[c]
  OBVIOUS
<1>4. \A c \in Call : calls'[c] \in CallState
  BY <1>1, <1>2, <1>3
<1>5. calls' \in [Call -> CallState]
  <2>1. calls' = [c \in Call |-> calls'[c]]
    OBVIOUS
  <2>2. QED
    BY <1>4, <2>1
<1>6. \A c \in Call : Engaged(c)' => Engaged(c) /\ calls'[c].request = calls[c].request
  BY <1>2, <1>3 DEF Engaged
<1>7. OneEngaged'
  BY <1>1, <1>6, EngagedStay
<1>8. QED
  BY <1>2, <1>3, <1>5, <1>7

\* A step of the execution of r in m: its statements move the row of r only.
LEMMA JobMoves ==
  ASSUME SettlementInv, [TablesNext]_tables,
         UNCHANGED <<hunters, operator, chain, expired>>, UNCHANGED faults \/ Fault,
         NEW m \in Merchant, NEW r \in Request, jobs[m][r].pc # "none",
         \/ UNCHANGED tables
         \/ Moves(r) /\ executions'[r].binding = executions[r].binding,
         NEW j \in JobState, jobs' = [jobs EXCEPT ![m][r] = j],
         j.pc # "none" => j.payment = r,
         j.pc \in {"record", "write", "close"} => j.answer \in Answer,
         j.pc = "close" => executions'[r].state = "completed",
         calls' \in [Call -> CallState], OneEngaged',
         \A c \in Call : calls'[c] = calls[c] \/ CallFine(c)'
  PROVE  SettlementInv'
<1>1. /\ jobs \in [Merchant -> [Request -> JobState]]
      /\ chain \in [Request -> {"none", "broadcast", "settled"}]
      /\ JobFine(m, r) /\ TablesInv /\ r # None
  BY SettlementAssumption DEF SettlementInv, SettlementTypeOK
<1>2. executions[r].binding = r /\ executions[r].state # "settlement_attempting"
  BY <1>1 DEF JobFine, TablesInv, TablesSafety, EvidenceIsBound
<1>3. executions'[r].binding = r /\ UNCHANGED chain
  BY <1>2 DEF tables
<1>4. OrdersMatch' /\ \A q \in Request : RequestFine(q)'
  BY <1>3, TablesRest, TablesMove
<1>5. \A c \in Call : Undisturbed(c)
  <2>1. \A c \in Call : calls[c].request # r \/ calls[c].pc # "settle"
    BY <1>2 DEF SettlementInv, CallFine
  <2>2. QED
    BY <1>3, <2>1, TablesRest, TablesMove
<1>6. /\ jobs' \in [Merchant -> [Request -> JobState]] /\ jobs'[m][r] = j
      /\ \A n \in Merchant, q \in Request : jobs'[n][q] = jobs[n][q] \/ (n = m /\ q = r)
  BY <1>1
<1>7. JobFine(m, r)'
  BY <1>3, <1>6 DEF JobFine
<1>8. \A n \in Merchant, q \in Request : jobs'[n][q] = jobs[n][q] \/ JobFine(n, q)'
  BY <1>6, <1>7
<1>9. \A c \in Call : (calls'[c] = calls[c] /\ Undisturbed(c)) \/ CallFine(c)'
  BY <1>5
<1>10. /\ \A q \in Request : chain[q] = "settled" => chain'[q] = "settled"
       /\ chain' \in [Request -> {"none", "broadcast", "settled"}]
       /\ UNCHANGED <<hunters, operator, expired>>
  BY <1>1, <1>3
<1>11. QED
  BY <1>4, <1>6, <1>8, <1>9, <1>10, MerchantMoves

LEMMA JobStep ==
  ASSUME SettlementInv, NEW m \in Merchant, NEW r \in Request,
         Execute(m, r) \/ JobSaveFails(m, r) \/ NoteFails(m, r)
  PROVE  SettlementInv' /\ [TablesNext]_tables
<1>1. /\ UNCHANGED <<hunters, operator, chain, expired>> /\ jobs[m][r].pc # "none"
      /\ UNCHANGED faults \/ Fault
  BY DEF Execute, Work, RecordAnswer, WriteAnswer, ClosePurchase, NoteFailure, MarkPending,
         JobSaveFails, NoteFails, JobAt, JobGoesToOrFails, people, outside
<1>2. /\ jobs \in [Merchant -> [Request -> JobState]] /\ jobs[m][r] \in JobState
      /\ JobFine(m, r) /\ jobs[m][r].payment = r /\ executions[r].binding = r
      /\ TablesInv /\ TablesTypeOK /\ r \in Tx /\ r # None /\ None \notin Answer
      /\ calls \in [Call -> CallState] /\ OneEngaged /\ RequestFine(r)
      /\ executions[r].state # "none"
  <2>1. JobFine(m, r) /\ TablesInv /\ r # None
    BY SettlementAssumption DEF SettlementInv
  <2>2. executions[r].binding = r
    BY <1>1, <2>1 DEF JobFine
  <2>3. executions[r].state # "none"
    BY <2>1, <2>2 DEF TablesInv, BlankUntilBegun
  <2>4. QED
    BY <1>1, <2>1, <2>2, <2>3, DeliveryAssumption, SettlementAssumption
       DEF SettlementInv, SettlementTypeOK, TablesInv, JobFine
<1> DEFINE Row == /\ [TablesNext]_tables
                  /\ \/ UNCHANGED tables
                     \/ Moves(r) /\ executions'[r].binding = executions[r].binding
           Quiet == /\ calls' \in [Call -> CallState] /\ OneEngaged'
                    /\ \A c \in Call : calls'[c] = calls[c] \/ CallFine(c)'
<1>3. ASSUME Row, NEW pc \in {"record", "write", "close", "note", "mark"},
             JobGoesTo(m, r, pc),
             pc \in {"record", "write", "close"} => jobs[m][r].answer \in Answer,
             pc = "close" => executions'[r].state = "completed"
      PROVE  SettlementInv' /\ [TablesNext]_tables
  <2> DEFINE j == [jobs[m][r] EXCEPT !.pc = pc]
  <2>1. jobs' = [jobs EXCEPT ![m][r] = j]
    BY <1>3 DEF JobGoesTo
  <2>2. j \in JobState /\ j.pc = pc /\ j.payment = r /\ j.answer = jobs[m][r].answer
    BY <1>2 DEF JobState
  <2>3. Quiet
    BY <1>2, <1>3 DEF JobGoesTo, OneEngaged, Engaged
  <2> HIDE DEF j
  <2>4. SettlementInv'
    BY <1>1, <1>3, <2>1, <2>2, <2>3, JobMoves
  <2>5. QED
    BY <1>3, <2>4
<1>4. ASSUME Row, NEW reply \in {"ok", "error"}, Finish(m, r, reply)
      PROVE  SettlementInv' /\ [TablesNext]_tables
  <2> DEFINE Told == {c \in Call : At(c, "joined") /\ calls[c].at = m /\ calls[c].request = r}
  <2>1. calls' = [c \in Call |-> IF c \in Told THEN Replied(c, reply) ELSE calls[c]]
    BY <1>4 DEF Finish
  <2>2. Told \in SUBSET Call /\ \A c \in Told : calls[c].pc # "free"
    BY DEF At
  <2> HIDE DEF Told
  <2>3. Quiet
    BY <1>4, <2>1, <2>2, AnsweredCalls
  <2>4. /\ jobs' = [jobs EXCEPT ![m][r] = NoJob]
        /\ NoJob \in JobState /\ NoJob.pc = "none"
    BY <1>4, EmptyEntries DEF Finish
  <2>5. SettlementInv'
    BY <1>1, <1>4, <2>3, <2>4, JobMoves
  <2>6. QED
    BY <1>4, <2>5
<1>5. RecordConfirmedPayment(r, r) => Row /\ Moves(r)
  <2> SUFFICES ASSUME RecordConfirmedPayment(r, r)
               PROVE  Row /\ Moves(r)
    OBVIOUS
  <2>1. Moves(r) /\ executions'[r].binding = executions[r].binding
    BY <1>2, RecordMoves
  <2>2. TablesNext
    BY <1>2 DEF TablesNext
  <2>3. QED
    BY <2>1, <2>2
<1>6. ASSUME UNCHANGED tables
      PROVE  Row
  BY <1>6
<1> HIDE DEF Row
<1>7. CASE Work(m, r)
  <2>1. UNCHANGED tables /\ UNCHANGED calls
    BY <1>7 DEF Work
  <2>2. CASE jobs' = [jobs EXCEPT ![m][r].pc = "note"]
    BY <1>3, <1>6, <2>1, <2>2 DEF JobGoesTo
  <2>3. ASSUME NEW a \in Answer,
               jobs' = [jobs EXCEPT ![m][r] = [jobs[m][r] EXCEPT !.pc = "record", !.answer = a]]
        PROVE  SettlementInv' /\ [TablesNext]_tables
    <3> DEFINE j == [jobs[m][r] EXCEPT !.pc = "record", !.answer = a]
    <3>1. jobs' = [jobs EXCEPT ![m][r] = j]
      BY <2>3
    <3>2. j \in JobState /\ j.pc = "record" /\ j.payment = r /\ j.answer = a
      BY <1>2 DEF JobState
    <3>3. Quiet
      BY <1>2, <2>1 DEF OneEngaged, Engaged
    <3>4. [TablesNext]_tables
      BY <2>1
    <3> HIDE DEF j
    <3>5. QED
      BY <1>1, <2>1, <3>1, <3>2, <3>3, <3>4, JobMoves
  <2>4. QED
    BY <1>7, <2>2, <2>3 DEF Work
<1>8. CASE RecordAnswer(m, r)
  <2>1. jobs[m][r].answer \in Answer /\ RecordConfirmedPayment(r, r)
    BY <1>2, <1>8 DEF RecordAnswer, JobAt, JobFine
  <2>2. JobGoesTo(m, r, "write") \/ JobGoesTo(m, r, "note")
    BY <1>8 DEF RecordAnswer, JobGoesToOrFails
  <2>3. QED
    BY <1>3, <1>5, <2>1, <2>2
<1>9. CASE WriteAnswer(m, r)
  <2> DEFINE a == jobs[m][r].answer
  <2>1. a \in Answer /\ WriteExecution(r, "completed", r, a)
    BY <1>2, <1>9 DEF WriteAnswer, JobAt, JobFine
  <2> HIDE DEF a
  <2>2. Moves(r) /\ executions'[r].binding = executions[r].binding
        /\ executions'[r].state = "completed"
    BY <1>2, <2>1, WriteMoves
  <2>3. SaveCompleted(r, a)
    BY <1>2, <2>1 DEF SaveCompleted
  <2>4. Row
    BY <2>1, <2>2, <2>3 DEF Row, TablesNext
  <2>5. JobGoesTo(m, r, "close") \/ JobGoesTo(m, r, "note")
    BY <1>9 DEF WriteAnswer, JobGoesToOrFails
  <2>6. QED
    BY <1>3, <2>1, <2>2, <2>4, <2>5 DEF a
<1>10. CASE ClosePurchase(m, r)
  <2> DEFINE a == jobs[m][r].answer
  <2>1. a \in Answer /\ executions[r].state = "completed" /\ CompletePurchase(r, a)
    BY <1>2, <1>10 DEF ClosePurchase, JobAt, JobFine
  <2> HIDE DEF a
  <2>2. Moves(r) /\ executions' = executions
    BY <1>2, <2>1, CompleteMoves
  <2>3. SaveResult(r, a)
    BY <2>1 DEF SaveResult
  <2>4. Row
    BY <2>1, <2>2, <2>3 DEF Row, TablesNext
  <2>5. Finish(m, r, "ok") \/ JobGoesTo(m, r, "note")
    BY <1>10 DEF ClosePurchase
  <2>6. QED
    BY <1>3, <1>4, <2>4, <2>5
<1>11. CASE JobSaveFails(m, r)
  <2>1. UNCHANGED tables /\ JobGoesTo(m, r, "note")
    BY <1>11 DEF JobSaveFails
  <2>2. QED
    BY <1>3, <1>6, <2>1
<1>12. CASE NoteFailure(m, r)
  <2>1. RecordConfirmedPayment(r, r) /\ JobGoesTo(m, r, "mark")
    BY <1>2, <1>12 DEF NoteFailure
  <2>2. QED
    BY <1>3, <1>5, <2>1
<1>13. CASE MarkPending(m, r)
  <2>1. WriteExecution(r, "execution_pending", r, None) /\ Finish(m, r, "error")
    BY <1>2, <1>13 DEF MarkPending
  <2>2. Moves(r) /\ executions'[r].binding = executions[r].binding
    BY <1>2, <2>1, WriteMoves
  <2>3. SavePending(r)
    BY <1>2, <2>1 DEF SavePending
  <2>4. Row
    BY <2>2, <2>3 DEF Row, TablesNext
  <2>5. QED
    BY <1>4, <2>1, <2>4
<1>14. CASE NoteFails(m, r)
  <2>1. UNCHANGED tables /\ Finish(m, r, "error")
    BY <1>14 DEF NoteFails
  <2>2. QED
    BY <1>4, <1>6, <2>1
<1>15. QED
  BY <1>7, <1>8, <1>9, <1>10, <1>11, <1>12, <1>13, <1>14 DEF Execute

LEMMA CrashStep ==
  ASSUME SettlementInv, NEW m \in Merchant, MerchantCrashes(m)
  PROVE  SettlementInv' /\ [TablesNext]_tables
<1>1. /\ UNCHANGED <<hunters, operator, chain, expired>> /\ UNCHANGED tables /\ Fault
      /\ UNCHANGED chain
  BY DEF MerchantCrashes, people, outside
<1>2. [TablesNext]_tables /\ OrdersMatch' /\ (\A r \in Request : RequestFine(r)')
      /\ \A c \in Call : Undisturbed(c)
  BY <1>1, TablesRest
<1>3. /\ calls' \in [Call -> CallState] /\ OneEngaged'
      /\ \A c \in Call : calls'[c] = calls[c] \/ CallFine(c)'
  <2> DEFINE Told == {c \in Call : calls[c].at = m /\ ~At(c, "done")}
  <2>1. calls' = [c \in Call |-> IF c \in Told THEN Replied(c, "error") ELSE calls[c]]
    BY DEF MerchantCrashes
  <2>2. Told \in SUBSET Call /\ \A c \in Told : calls[c].pc # "free"
    BY DeliveryAssumption DEF SettlementInv, CallFine
  <2> HIDE DEF Told
  <2>3. QED
    BY <1>2, <2>1, <2>2, AnsweredCalls
<1>4. /\ jobs' \in [Merchant -> [Request -> JobState]]
      /\ \A n \in Merchant, r \in Request : jobs'[n][r] = jobs[n][r] \/ JobFine(n, r)'
  <2>1. jobs \in [Merchant -> [Request -> JobState]]
        /\ jobs' = [jobs EXCEPT ![m] = [r \in Request |-> NoJob]]
    BY DEF MerchantCrashes, SettlementInv, SettlementTypeOK
  <2>2. NoJob \in JobState /\ NoJob.pc = "none"
    BY EmptyEntries
  <2>3. jobs' \in [Merchant -> [Request -> JobState]]
    BY <2>1, <2>2
  <2>4. ASSUME NEW n \in Merchant, NEW r \in Request
        PROVE  jobs'[n][r] = jobs[n][r] \/ jobs'[n][r] = NoJob
    BY <2>1
  <2>5. QED
    BY <2>2, <2>3, <2>4 DEF JobFine
<1>5. /\ \A c \in Call : (calls'[c] = calls[c] /\ Undisturbed(c)) \/ CallFine(c)'
      /\ \A r \in Request : chain[r] = "settled" => chain'[r] = "settled"
      /\ chain' \in [Request -> {"none", "broadcast", "settled"}]
      /\ UNCHANGED <<hunters, operator, expired>>
  BY <1>1, <1>2, <1>3 DEF SettlementInv, SettlementTypeOK
<1>6. SettlementInv'
  BY <1>1, <1>2, <1>3, <1>4, <1>5, MerchantMoves
<1>7. QED
  BY <1>2, <1>6

\* The operator's command, with the statements of its save.
LEMMA OperatorStep ==
  ASSUME SettlementInv,
         (\E r \in Request : Reconcile(r)) \/ ReconcileRecord \/ ReconcileWrite \/ ReconcileFails
  PROVE  SettlementInv' /\ [TablesNext]_tables
<1>1. /\ UNCHANGED <<hunters, calls, jobs, chain, expired>> /\ UNCHANGED chain
      /\ UNCHANGED faults \/ Fault
  BY DEF Reconcile, ReconcileRecord, ReconcileWrite, ReconcileFails, outside
<1>2. /\ operator \in [pc : {"idle", "record", "write"}, request : Request \cup {None}]
      /\ OperatorFine /\ TablesInv /\ TablesTypeOK /\ MemoryOK /\ OneEngaged
  BY DEF SettlementInv, SettlementTypeOK, TablesInv, MemoryOK
<1>3. ASSUME [TablesNext]_tables, OrdersMatch', \A r \in Request : RequestFine(r)',
             \A c \in Call : Undisturbed(c),
             operator' \in [pc : {"idle", "record", "write"}, request : Request \cup {None}],
             OperatorFine'
      PROVE  SettlementInv'
  <2>1. faults' \in 0..MaxFaults
    BY <1>1, <1>2, DeliveryAssumption DEF MemoryOK, Fault
  <2>2. MemoryOK' /\ OneEngaged'
    BY <1>1, <1>2, <1>3, <2>1 DEF MemoryOK, OneEngaged, Engaged
  <2>3. /\ \A h \in Hunter : hunters'[h] = hunters[h]
        /\ \A c \in Call : calls'[c] = calls[c] /\ Undisturbed(c)
        /\ \A m \in Merchant, r \in Request : jobs'[m][r] = jobs[m][r]
        /\ \A r \in Request : chain[r] = "settled" => chain'[r] = "settled"
    BY <1>1, <1>3
  <2>4. QED
    BY <1>3, <2>2, <2>3, Assemble
<1>4. ASSUME UNCHANGED tables,
             operator' = [pc |-> "idle", request |-> None]
             \/ \E r \in Request : operator' = [pc |-> "record", request |-> r]
                                   /\ chain[r] = "settled"
      PROVE  SettlementInv' /\ [TablesNext]_tables
  <2>1. /\ operator' \in [pc : {"idle", "record", "write"}, request : Request \cup {None}]
        /\ OperatorFine'
    BY <1>1, <1>4 DEF OperatorFine
  <2>2. QED
    BY <1>1, <1>3, <1>4, <2>1, TablesRest
<1> DEFINE k == operator.request
<1>5. ASSUME operator.pc # "idle", TablesNext, Moves(k), executions'[k].binding = k,
             operator'.request = k \/ operator'.pc = "idle",
             operator' \in [pc : {"idle", "record", "write"}, request : Request \cup {None}]
      PROVE  SettlementInv' /\ [TablesNext]_tables
  <2>1. k \in Request /\ chain[k] = "settled"
    BY <1>2, <1>5 DEF OperatorFine
  <2>2. \A c \in Call : calls[c].request # k \/ calls[c].pc # "settle"
    BY <2>1 DEF SettlementInv, CallFine
  <2>3. OperatorFine'
    BY <1>1, <1>5, <2>1 DEF OperatorFine
  <2>4. [TablesNext]_tables /\ Moves(k) /\ executions'[k].binding = k
    BY <1>5
  <2> HIDE DEF k
  <2>5. OrdersMatch' /\ (\A r \in Request : RequestFine(r)') /\ \A c \in Call : Undisturbed(c)
    BY <1>1, <2>1, <2>2, <2>4, TablesMove
  <2>6. QED
    BY <1>3, <1>5, <2>3, <2>4, <2>5
<1>6. ASSUME NEW r \in Request, Reconcile(r)
      PROVE  SettlementInv' /\ [TablesNext]_tables
  BY <1>4, <1>6 DEF Reconcile, Proven
<1>7. CASE ReconcileFails
  BY <1>4, <1>7 DEF ReconcileFails
<1>8. CASE ReconcileRecord
  <2>1. k \in Request /\ k \in Tx /\ operator.pc # "idle" /\ RecordConfirmedPayment(k, k)
        /\ operator' = [operator EXCEPT !.pc = "write"]
    BY <1>2, <1>8, DeliveryAssumption DEF ReconcileRecord, OperatorFine, OperatorGoesTo
  <2>2. /\ operator' \in [pc : {"idle", "record", "write"}, request : Request \cup {None}]
        /\ operator'.request = k
    BY <1>2, <2>1
  <2>3. TablesNext /\ Moves(k) /\ executions'[k].binding = k
    <3> HIDE DEF k
    <3>1. QED
      BY <1>2, <2>1, RecordMoves DEF TablesNext
  <2>4. QED
    BY <1>5, <2>1, <2>2, <2>3
<1>9. CASE ReconcileWrite
  <2>1. /\ k \in Request /\ k \in Tx /\ k # None /\ operator.pc # "idle"
        /\ WriteExecution(k, "paid", k, None) /\ executions[k].binding = k
        /\ operator' = [pc |-> "idle", request |-> None]
    BY <1>2, <1>9, DeliveryAssumption, SettlementAssumption DEF ReconcileWrite, OperatorFine
  <2>2. TablesNext /\ Moves(k) /\ executions'[k].binding = k
    <3> HIDE DEF k
    <3>1. Moves(k) /\ executions'[k].binding = k
      BY <1>2, <2>1, WriteMoves
    <3>2. SavePaid(k)
      BY <2>1 DEF SavePaid
    <3>3. QED
      BY <2>1, <3>1, <3>2 DEF TablesNext
  <2>3. QED
    BY <1>5, <2>1, <2>2
<1>10. QED
  BY <1>6, <1>7, <1>8, <1>9

LEMMA WorldStep ==
  ASSUME SettlementInv, NEW k \in Request, Mine(k) \/ Expire(k)
  PROVE  SettlementInv' /\ [TablesNext]_tables
<1>1. /\ UNCHANGED <<hunters, operator, calls, jobs, faults>> /\ UNCHANGED tables
      /\ OneEngaged /\ MemoryOK
  BY DEF Mine, Expire, people, SettlementInv, SettlementTypeOK, MemoryOK
<1>2. [TablesNext]_tables /\ OrdersMatch' /\ OneEngaged'
  BY <1>1 DEF tables, SettlementInv, OrdersMatch, Journalled, OneEngaged, Engaged
<1>3. MemoryOK'
  BY <1>1 DEF Mine, Expire, MemoryOK
<1>4. \A r \in Request : chain'[r] = chain[r] \/ (chain[r] = "broadcast" /\ chain'[r] = "settled")
  BY <1>1 DEF Mine, Expire, MemoryOK
<1>5. \A r \in Request : RequestFine(r)'
  BY <1>1, <1>4 DEF SettlementInv, RequestFine, Backed, tables
<1>6. ASSUME NEW c \in Call
      PROVE  Undisturbed(c)
  BY <1>1, <1>4 DEF SettlementInv, CallFine, Undisturbed, tables
<1>7. /\ \A h \in Hunter : hunters'[h] = hunters[h]
      /\ \A c \in Call : calls'[c] = calls[c]
      /\ \A m \in Merchant, r \in Request : jobs'[m][r] = jobs[m][r]
      /\ operator' = operator
      /\ \A r \in Request : chain[r] = "settled" => chain'[r] = "settled"
  BY <1>1, <1>4
<1>8. QED
  BY <1>2, <1>3, <1>5, <1>6, <1>7, Assemble

-----------------------------------------------------------------------------
(* The invariant and what follows from it.                                  *)

LEMMA SettlementInit == Init => SettlementInv
<1> SUFFICES ASSUME Init
             PROVE  SettlementInv
  OBVIOUS
<1>1. TablesInv
  BY InitHolds DEF Init
<1>2. SettlementTypeOK
  BY <1>1, EmptyEntries, DeliveryAssumption DEF Init, SettlementTypeOK, TablesInv
<1>3. OrdersMatch /\ \A r \in Request : RequestFine(r)
  BY DEF Init, TablesInit, NoPurchase, NoExecution, OrdersMatch, Journalled, RequestFine
<1>4. (\A h \in Hunter : HunterFine(h)) /\ (\A c \in Call : CallFine(c)) /\ OneEngaged
  <2>1. /\ \A h \in Hunter : hunters[h].phase = "idle"
        /\ \A c \in Call : calls[c].pc = "free" /\ calls[c].at = None
    BY EmptyEntries DEF Init
  <2>2. QED
    BY <2>1 DEF HunterFine, CallFine, OneEngaged, Engaged, Settling
<1>5. (\A m \in Merchant, r \in Request : JobFine(m, r)) /\ OperatorFine
  BY EmptyEntries DEF Init, JobFine, OperatorFine
<1>6. QED
  BY <1>1, <1>2, <1>3, <1>4, <1>5 DEF SettlementInv

LEMMA SettlementStep ==
  ASSUME SettlementInv, [Next]_vars
  PROVE  SettlementInv' /\ [TablesNext]_tables
<1>1. CASE UNCHANGED vars
  <2>1. UNCHANGED tables /\ UNCHANGED chain
    BY <1>1 DEF vars, tables
  <2>2. [TablesNext]_tables /\ OrdersMatch' /\ (\A r \in Request : RequestFine(r)')
        /\ \A c \in Call : Undisturbed(c)
    BY <2>1, TablesRest
  <2>3. MemoryOK' /\ OneEngaged'
    BY <1>1 DEF vars, SettlementInv, SettlementTypeOK, MemoryOK, OneEngaged, Engaged
  <2>4. QED
    BY <1>1, <2>2, <2>3, Assemble DEF vars
<1>2. ASSUME NEW h \in Hunter,
             \/ \E r \in Request : Quote(h, r)
             \/ \E c \in Call, m \in Merchant :
                  \/ Deliver(h, c, m)
                  \/ \E o \in Order : Replay(h, c, m, o)
             \/ Sign(h) \/ Receive(h) \/ NetworkError(h) \/ Retry(h) \/ HunterCrashes(h)
      PROVE  SettlementInv' /\ [TablesNext]_tables
  <2>1. SettlementInv'
    BY <1>2, HunterStep
  <2>2. UNCHANGED tables
    BY <1>2 DEF Quote, Deliver, Replay, Sign, Receive, NetworkError, Retry, HunterCrashes
  <2>3. QED
    BY <2>1, <2>2
<1>3. ASSUME NEW h \in Hunter, Journal(h)
      PROVE  SettlementInv' /\ [TablesNext]_tables
  BY <1>3, JournalStep
<1>4. QED
  BY <1>1, <1>2, <1>3, HandlerStep, JobStep, CrashStep, OperatorStep, WorldStep DEF Next

LEMMA SettlementInvariant == Spec => []SettlementInv
BY SettlementInit, SettlementStep, PTL DEF Spec

\* Hunters, calls, executions, chain and tables have their types.
THEOREM SettlementTypeCorrect == Spec => []SettlementTypeOK
<1>1. SettlementInv => SettlementTypeOK
  BY DEF SettlementInv
<1>2. QED
  BY <1>1, SettlementInvariant, PTL

\* At most one handler settles a request, and the facilitator is asked about a
\* request only while nothing of it is on the chain.
THEOREM OneSettler == Spec => []SingleSettler
<1>1. SettlementInv => SingleSettler
  <2> SUFFICES ASSUME SettlementInv
               PROVE  SingleSettler
    OBVIOUS
  <2>1. ASSUME NEW b \in Call, NEW c \in Call, b # c, calls[b].request = calls[c].request
        PROVE  ~Engaged(b) \/ ~Engaged(c)
    BY <2>1 DEF SettlementInv, OneEngaged
  <2>2. ASSUME NEW c \in Call, At(c, "settle")
        PROVE  /\ chain[calls[c].request] = "none"
               /\ executions[calls[c].request].state = "settlement_attempting"
    BY <2>2 DEF SettlementInv, CallFine, At
  <2>3. QED
    BY <2>1, <2>2 DEF SingleSettler, Engaged, Settling
<1>2. QED
  BY <1>1, SettlementInvariant, PTL

\* Whatever was sent to the chain is the request in the buyer's journal, and
\* the merchant's journal has the row from which it can be reconciled.
THEOREM EveryDebitIsTraceable == Spec => []DebitsAreTraceable
<1>1. SettlementInv => DebitsAreTraceable
  BY DEF SettlementInv, DebitsAreTraceable, RequestFine, Backed
<1>2. QED
  BY <1>1, SettlementInvariant, PTL

\* Refinement: every step on the tables is a statement of SettlementStore.tla,
\* with what its caller knows then, so its theorems hold of this system too.
THEOREM SettlementKeepsTables == Spec => KeepsTables
<1>1. Init => TablesInit
  BY DEF Init
<1>2. QED
  BY <1>1, SettlementInvariant, SettlementStep, PTL DEF Spec, KeepsTables, TablesSpec

-----------------------------------------------------------------------------
(* What the buyer and the merchant promise each other: PurchaseContract.    *)

\* The contract's state, as the refinement reads it off this one.
DebitsOf(o) == {r \in Request : OrderOf[r] = o /\ chain[r] = "settled"}
AcknowledgedOrders == {OrderOf[r] : r \in {q \in Request : executions[q].binding # None}}
AnsweredOrders == {OrderOf[r] : r \in {q \in Request : executions[q].response # None}}

\* The chain moves for one request at a time, and not together with a table.
LEMMA ChainMoves ==
  ASSUME SettlementInv, [Next]_vars
  PROVE  \/ UNCHANGED chain
         \/ /\ UNCHANGED tables
            /\ \E k \in Request : /\ \A r \in Request \ {k} : chain'[r] = chain[r]
                                  /\ chain[k] # "settled"
<1> DEFINE Moved == \/ UNCHANGED chain
                    \/ /\ UNCHANGED tables
                       /\ \E k \in Request : /\ \A r \in Request \ {k} : chain'[r] = chain[r]
                                             /\ chain[k] # "settled"
<1>1. chain \in [Request -> {"none", "broadcast", "settled"}]
  BY DEF SettlementInv, SettlementTypeOK
<1>2. ASSUME NEW c \in Call, Settle(c)
      PROVE  Moved
  <2> DEFINE k == calls[c].request
  <2>1. k \in Request /\ UNCHANGED tables /\ chain[k] # "settled"
    BY <1>2 DEF Settle, At, SettlementInv, CallFine
  <2>2. \/ chain' = chain
        \/ chain' = [chain EXCEPT ![k] = "settled"] \/ chain' = [chain EXCEPT ![k] = "broadcast"]
    BY <1>2 DEF Settle
  <2> HIDE DEF k
  <2>3. QED
    BY <1>1, <2>1, <2>2
<1>3. ASSUME NEW k \in Request, Mine(k)
      PROVE  Moved
  <2>1. /\ UNCHANGED tables /\ chain' = [chain EXCEPT ![k] = "settled"]
        /\ chain[k] # "settled"
    BY <1>3 DEF Mine
  <2>2. QED
    BY <1>1, <2>1
<1>4. ASSUME NEW h \in Hunter,
             \/ \E r \in Request : Quote(h, r)
             \/ \E c \in Call, m \in Merchant :
                  \/ Deliver(h, c, m)
                  \/ \E o \in Order : Replay(h, c, m, o)
             \/ Journal(h) \/ Sign(h) \/ Receive(h) \/ NetworkError(h)
             \/ Retry(h) \/ HunterCrashes(h)
      PROVE  UNCHANGED chain
  BY <1>4 DEF Quote, Deliver, Replay, Journal, Sign, Receive, NetworkError, Retry,
              HunterCrashes, outside
<1>5. ASSUME NEW c \in Call,
             \/ Look(c) \/ Claim(c) \/ Record(c) \/ Write(c) \/ Doubt(c) \/ Unsure(c)
             \/ Join(c) \/ SaveFails(c) \/ HandlerFails(c)
      PROVE  UNCHANGED chain
  BY <1>5 DEF Look, Claim, Record, Write, Doubt, Unsure, Join, SaveFails, HandlerFails, outside
<1>6. ASSUME NEW m \in Merchant, NEW r \in Request,
             Execute(m, r) \/ JobSaveFails(m, r) \/ NoteFails(m, r)
      PROVE  UNCHANGED chain
  BY <1>6 DEF Execute, Work, RecordAnswer, WriteAnswer, ClosePurchase, NoteFailure, MarkPending,
              JobSaveFails, NoteFails, outside
<1>7. ASSUME \/ \E m \in Merchant : MerchantCrashes(m)
             \/ \E r \in Request : Reconcile(r) \/ Expire(r)
             \/ ReconcileRecord \/ ReconcileWrite \/ ReconcileFails
             \/ UNCHANGED vars
      PROVE  UNCHANGED chain
  BY <1>7 DEF MerchantCrashes, Reconcile, Expire, ReconcileRecord, ReconcileWrite,
              ReconcileFails, outside, vars
<1>8. QED
  BY <1>2, <1>3, <1>4, <1>5, <1>6, <1>7 DEF Next, Handle

\* A statement on the tables acknowledges or answers at most one order.
LEMMA TablesContract ==
  ASSUME SettlementInv, SettlementInv', [TablesNext]_tables, UNCHANGED chain
  PROVE  [Contract!Next]_(Contract!vars)
<1> DEFINE Goal == \/ UNCHANGED <<AcknowledgedOrders, AnsweredOrders>>
                   \/ \E o \in Order :
                        /\ \E r \in Request : OrderOf[r] = o /\ chain[r] = "settled"
                        /\ AcknowledgedOrders' = AcknowledgedOrders \cup {o}
                        /\ UNCHANGED AnsweredOrders
                   \/ \E o \in Order :
                        /\ o \in AcknowledgedOrders
                        /\ AnsweredOrders' = AnsweredOrders \cup {o}
                        /\ UNCHANGED AcknowledgedOrders
<1>1. TablesInv /\ TablesTypeOK /\ OrderOf \in [Request -> Order]
      /\ None \notin Tx /\ None \notin Answer
  BY SettlementAssumption DEF SettlementInv, TablesInv
<1>2. ASSUME \A q \in Request : /\ executions'[q].binding = executions[q].binding
                                /\ executions'[q].response = executions[q].response
      PROVE  Goal
  BY <1>2 DEF AcknowledgedOrders, AnsweredOrders
<1>3. ASSUME NEW r \in Request, NEW t \in Tx, RecordConfirmedPayment(r, t)
      PROVE  Goal
  <2>1. /\ executions'[r].binding = t /\ executions'[r].response = executions[r].response
        /\ \A q \in Request : q # r => executions'[q] = executions[q]
    BY <1>1, <1>3, RecordEffect
  <2>2. t # None
    BY <1>1
  <2>3. AcknowledgedOrders' = AcknowledgedOrders \cup {OrderOf[r]} /\ UNCHANGED AnsweredOrders
    BY <2>1, <2>2 DEF AcknowledgedOrders, AnsweredOrders
  <2>4. chain[r] = "settled"
    BY <2>1, <2>2 DEF SettlementInv, RequestFine
  <2>5. OrderOf[r] \in Order
    BY <1>1
  <2>6. QED
    BY <2>3, <2>4, <2>5
<1>4. ASSUME NEW r \in Request, NEW a \in Answer, SaveCompleted(r, a)
      PROVE  Goal
  <2> DEFINE t == executions[r].binding
  <2>1. t \in Tx /\ WriteExecution(r, "completed", t, a)
    BY <1>1, <1>4, FieldTypes DEF SaveCompleted
  <2> HIDE DEF t
  <2>2. /\ executions'[r].binding = executions[r].binding /\ executions'[r].response = a
        /\ \A q \in Request : q # r => executions'[q] = executions[q]
    BY <1>1, <2>1, WriteEffect
  <2>3. AnsweredOrders' = AnsweredOrders \cup {OrderOf[r]} /\ UNCHANGED AcknowledgedOrders
    BY <1>1, <2>2 DEF AcknowledgedOrders, AnsweredOrders
  <2>4. OrderOf[r] \in AcknowledgedOrders /\ OrderOf[r] \in Order
    BY <1>1, <1>4 DEF SaveCompleted, AcknowledgedOrders
  <2>5. QED
    BY <2>3, <2>4
<1>5. ASSUME NEW r \in Request,
             NEW s \in {"paid", "execution_pending", "settlement_uncertain"},
             NEW t \in Tx \cup {None}, WriteExecution(r, s, t, None)
      PROVE  Goal
  <2>1. /\ executions'[r].binding = executions[r].binding
        /\ executions'[r].response = executions[r].response
        /\ \A q \in Request : q # r => executions'[q] = executions[q]
    BY <1>1, <1>5, WriteEffect
  <2>2. QED
    BY <1>2, <2>1
<1>6. ASSUME NEW r \in Request, SavePaid(r) \/ SavePending(r) \/ SaveUncertain(r)
      PROVE  Goal
  BY <1>1, <1>5, <1>6, FieldTypes DEF SavePaid, SavePending, SaveUncertain
<1>7. ASSUME NEW r \in Request, MarkSettlementUncertain(r)
      PROVE  Goal
  <2>1. /\ executions'[r].binding = executions[r].binding
        /\ executions'[r].response = executions[r].response
        /\ \A q \in Request : q # r => executions'[q] = executions[q]
    BY <1>1, <1>7, MarkEffect
  <2>2. QED
    BY <1>2, <2>1
<1>8. ASSUME NEW r \in Request, BeginSettlement(r)
      PROVE  Goal
  <2>1. /\ executions[r].binding = None /\ executions[r].response = None
        /\ executions'[r].binding = None /\ executions'[r].response = None
        /\ \A q \in Request : q # r => executions'[q] = executions[q]
    BY <1>1, <1>8, BeginEffect DEF TablesInv, BlankUntilBegun
  <2>2. QED
    BY <1>2, <2>1
<1>9. ASSUME NEW r \in Request,
             CreatePurchase(r) \/ \E a \in Answer : SaveResult(r, a)
      PROVE  Goal
  <2>1. executions' = executions
    BY <1>9 DEF CreatePurchase, SaveResult, CompletePurchase
  <2>2. QED
    BY <1>2, <2>1
<1>10. ASSUME UNCHANGED tables
       PROVE  Goal
  BY <1>2, <1>10 DEF tables
<1> HIDE DEF Goal
<1>11. Goal
  BY <1>3, <1>4, <1>6, <1>7, <1>8, <1>9, <1>10 DEF TablesNext
<1>12. CASE UNCHANGED <<AcknowledgedOrders, AnsweredOrders>>
  BY <1>12 DEF Contract!vars, AcknowledgedOrders, AnsweredOrders
<1>13. ASSUME NEW o \in Order,
              \E r \in Request : OrderOf[r] = o /\ chain[r] = "settled",
              AcknowledgedOrders' = AcknowledgedOrders \cup {o}, UNCHANGED AnsweredOrders
       PROVE  Contract!Acknowledge(o)
  BY <1>13 DEF Contract!Acknowledge, AcknowledgedOrders, AnsweredOrders
<1>14. ASSUME NEW o \in Order, o \in AcknowledgedOrders,
              AnsweredOrders' = AnsweredOrders \cup {o}, UNCHANGED AcknowledgedOrders
       PROVE  Contract!DeliverAnswer(o)
  BY <1>14 DEF Contract!DeliverAnswer, AcknowledgedOrders, AnsweredOrders
<1>15. QED
  BY <1>11, <1>12, <1>13, <1>14 DEF Goal, Contract!Next

\* A payment that reaches the chain is the first of its order.
LEMMA ChainContract ==
  ASSUME SettlementInv, SettlementInv', UNCHANGED tables,
         NEW k \in Request, chain[k] # "settled", \A r \in Request \ {k} : chain'[r] = chain[r]
  PROVE  [Contract!Next]_(Contract!vars)
<1>1. UNCHANGED <<AcknowledgedOrders, AnsweredOrders>>
  BY DEF tables, AcknowledgedOrders, AnsweredOrders
<1>2. CASE chain'[k] # "settled"
  <2>1. \A r \in Request : chain'[r] = "settled" <=> chain[r] = "settled"
    BY <1>2
  <2>2. UNCHANGED [o \in Order |-> DebitsOf(o)]
    BY <2>1 DEF DebitsOf
  <2>3. QED
    BY <1>1, <2>2 DEF Contract!vars, AcknowledgedOrders, AnsweredOrders, DebitsOf
<1>3. CASE chain'[k] = "settled"
  <2>1. ASSUME NEW q \in Request, OrderOf[q] = OrderOf[k], chain'[q] = "settled"
        PROVE  q = k
    BY <1>3, <2>1 DEF SettlementInv, RequestFine, Backed
  <2>2. DebitsOf(OrderOf[k]) = {}
    BY <1>3, <2>1 DEF DebitsOf
  <2>3. \A o \in Order : DebitsOf(o)' = IF o = OrderOf[k] THEN {k} ELSE DebitsOf(o)
    BY <1>3, <2>1 DEF DebitsOf
  <2>4. OrderOf[k] \in Order
    BY SettlementAssumption
  <2>5. [o \in Order |-> DebitsOf(o)]' =
           [[o \in Order |-> DebitsOf(o)] EXCEPT ![OrderOf[k]] = {k}]
    BY <2>3, <2>4
  <2>6. Contract!Debit(k)
    BY <1>1, <2>2, <2>4, <2>5 DEF Contract!Debit, AcknowledgedOrders, AnsweredOrders, DebitsOf
  <2>7. QED
    BY <2>6 DEF Contract!Next
<1>4. QED
  BY <1>2, <1>3

\* Refinement: whatever replicas, retries and crashes do, an order is debited
\* for one request at most, acknowledged only after that and answered only then.
THEOREM SettlementKeepsContract == Spec => KeepsPurchaseContract
<1>1. Init => Contract!Init
  BY SettlementAssumption
     DEF Init, TablesInit, NoExecution, Contract!Init
<1>2. SettlementInv /\ [Next]_vars => [Contract!Next]_(Contract!vars)
  <2> SUFFICES ASSUME SettlementInv, [Next]_vars
               PROVE  [Contract!Next]_(Contract!vars)
    OBVIOUS
  <2>1. SettlementInv' /\ [TablesNext]_tables
    BY SettlementStep
  <2>2. QED
    BY <2>1, ChainMoves, TablesContract, ChainContract
<1>3. QED
  BY <1>1, <1>2, SettlementInvariant, PTL DEF Spec, KeepsPurchaseContract, Contract!Spec
=============================================================================
