----------------------- MODULE SettlementStoreProofs -----------------------
(***************************************************************************)
(* Proofs about SettlementStore.tla, for every set of orders, requests,    *)
(* transactions and answers.  Each action first gets a lemma that says     *)
(* field by field what it leaves in the rows; the invariants follow from   *)
(* those lemmas without looking at the rows again.                         *)
(***************************************************************************)
EXTENDS SettlementStore, TLAPS

-----------------------------------------------------------------------------
(* The strengthening: a request nobody began has an empty row, an execution *)
(* is only linked to its own, existing purchase, and a doubted purchase has *)
(* the execution that made it doubtful.                                     *)

BlankUntilBegun == \A r \in Request : executions[r].state = "none" =>
    executions[r].order = None /\ executions[r].binding = None /\ executions[r].response = None

LinksExist == \A r \in Request : executions[r].order # None =>
    executions[r].order = OrderOf[r] /\ Journalled(OrderOf[r])

DoubtsAreLinked == \A o \in Order : purchases[o].state = "settlement_uncertain" =>
    \E r \in Request : executions[r].order = o

TablesSafety == EvidenceIsBound /\ OneExecutionPerTx /\ JournalsAgree /\ AnswersAreComplete

TablesInv == /\ TablesTypeOK
             /\ BlankUntilBegun /\ LinksExist /\ DoubtsAreLinked
             /\ TablesSafety

-----------------------------------------------------------------------------
(* What each action does to the rows.                                       *)

\* The fields of a row have their types.
LEMMA FieldTypes ==
  ASSUME TablesTypeOK
  PROVE  /\ \A o \in Order :
              /\ purchases[o].request \in Request \cup {None}
              /\ purchases[o].evidence \in Tx \cup {None}
              /\ purchases[o].result \in Answer \cup {None}
         /\ \A r \in Request :
              /\ executions[r].order \in Order \cup {None}
              /\ executions[r].evidence \in Tx \cup {None}
              /\ executions[r].binding \in Tx \cup {None}
              /\ executions[r].response \in Answer \cup {None}
BY DEF TablesTypeOK, PurchaseRow, ExecutionRow

\* CreatePurchase fills one empty purchase.
LEMMA CreateEffect ==
  ASSUME TablesTypeOK, NEW r \in Request, CreatePurchase(r)
  PROVE  /\ OrderOf[r] \in Order
         /\ purchases[OrderOf[r]].state = "none"
         /\ purchases'[OrderOf[r]].state = "quoted"
         /\ purchases'[OrderOf[r]].request = r
         /\ \A o \in Order : o # OrderOf[r] => purchases'[o] = purchases[o]
         /\ UNCHANGED <<executions, notices>>
         /\ TablesTypeOK'
<1> DEFINE row == [NoPurchase EXCEPT !.state = "quoted", !.request = r]
<1>1. OrderOf[r] \in Order
  BY SettlementAssumption
<1>2. row \in PurchaseRow /\ row.state = "quoted" /\ row.request = r
  <2>1. NoPurchase \in PurchaseRow
    BY DEF NoPurchase, PurchaseRow
  <2>2. QED
    BY <2>1 DEF PurchaseRow
<1>3. /\ purchases' = [purchases EXCEPT ![OrderOf[r]] = row]
      /\ purchases[OrderOf[r]].state = "none"
      /\ UNCHANGED <<executions, notices>>
  BY DEF CreatePurchase, Journalled
<1> HIDE DEF row
<1>4. QED
  BY <1>1, <1>2, <1>3 DEF TablesTypeOK

\* BeginSettlement fills one empty execution, linked to a purchase no other
\* execution is linked to.
LEMMA BeginEffect ==
  ASSUME TablesTypeOK, NEW r \in Request, BeginSettlement(r)
  PROVE  /\ executions[r].state = "none"
         /\ executions'[r].state = "settlement_attempting"
         /\ executions'[r].order = LinkOf(r)
         /\ executions'[r].evidence = None
         /\ executions'[r].binding = None
         /\ executions'[r].response = None
         /\ \A q \in Request : q # r => executions'[q] = executions[q]
         /\ LinkFree(r)
         /\ UNCHANGED <<purchases, notices>>
         /\ TablesTypeOK'
<1>1. /\ BegunRow(r) \in ExecutionRow
      /\ BegunRow(r).state = "settlement_attempting"
      /\ BegunRow(r).order = LinkOf(r)
      /\ BegunRow(r).evidence = None
      /\ BegunRow(r).binding = None
      /\ BegunRow(r).response = None
  <2>1. LinkOf(r) \in Order \cup {None}
    BY SettlementAssumption DEF LinkOf
  <2>2. /\ NoExecution \in ExecutionRow
        /\ NoExecution.evidence = None
        /\ NoExecution.binding = None
        /\ NoExecution.response = None
    BY DEF NoExecution, ExecutionRow
  <2>3. QED
    BY <2>1, <2>2 DEF BegunRow, ExecutionRow
<1>2. /\ executions' = [executions EXCEPT ![r] = BegunRow(r)]
      /\ executions[r].state = "none"
      /\ LinkFree(r)
      /\ UNCHANGED <<purchases, notices>>
  BY DEF BeginSettlement, FreeToBegin
<1>3. QED
  BY <1>1, <1>2 DEF TablesTypeOK

\* RecordConfirmedPayment binds one execution and pays its purchase.
LEMMA RecordEffect ==
  ASSUME TablesTypeOK, NEW r \in Request, NEW t \in Tx, RecordConfirmedPayment(r, t)
  PROVE  /\ Bindable(r, t)
         /\ executions'[r].state = IF Confirmed(r) THEN executions[r].state ELSE "paid"
         /\ executions'[r].order = executions[r].order
         /\ executions'[r].evidence = IF Confirmed(r) THEN executions[r].evidence ELSE t
         /\ executions'[r].binding = t
         /\ executions'[r].response = executions[r].response
         /\ \A q \in Request : q # r => executions'[q] = executions[q]
         /\ \A o \in Order :
              IF /\ ~Confirmed(r)
                 /\ o = executions[r].order
                 /\ purchases[o].state \in {"quoted", "settlement_uncertain"}
              THEN /\ purchases'[o].state = "paid"
                   /\ purchases'[o].request = purchases[o].request
                   /\ purchases'[o].evidence = t
              ELSE purchases'[o] = purchases[o]
         /\ notices' = notices \cup {r}
         /\ TablesTypeOK'
<1>1. executions[r] \in ExecutionRow
  BY DEF TablesTypeOK
<1>2. PaidExecution(r, t) \in ExecutionRow
  BY <1>1 DEF PaidExecution, ExecutionRow
<1>3. ASSUME NEW o \in Order
      PROVE  /\ PaidPurchase(r, t, o) \in PurchaseRow
             /\ IF /\ ~Confirmed(r)
                   /\ o = executions[r].order
                   /\ purchases[o].state \in {"quoted", "settlement_uncertain"}
                THEN /\ PaidPurchase(r, t, o).state = "paid"
                     /\ PaidPurchase(r, t, o).request = purchases[o].request
                     /\ PaidPurchase(r, t, o).evidence = t
                ELSE PaidPurchase(r, t, o) = purchases[o]
  <2>1. purchases[o] \in PurchaseRow
    BY DEF TablesTypeOK
  <2>2. QED
    BY <2>1 DEF PaidPurchase, PurchaseRow
<1>4. /\ executions' = [executions EXCEPT ![r] = PaidExecution(r, t)]
      /\ purchases' = [o \in Order |-> PaidPurchase(r, t, o)]
      /\ notices' = notices \cup {r}
      /\ Bindable(r, t)
  BY DEF RecordConfirmedPayment, Announced
<1>5. TablesTypeOK'
  BY <1>2, <1>3, <1>4 DEF TablesTypeOK
<1>6. /\ executions'[r] = PaidExecution(r, t)
      /\ \A q \in Request : q # r => executions'[q] = executions[q]
  BY <1>4 DEF TablesTypeOK
<1>7. /\ PaidExecution(r, t).state = IF Confirmed(r) THEN executions[r].state ELSE "paid"
      /\ PaidExecution(r, t).order = executions[r].order
      /\ PaidExecution(r, t).evidence = IF Confirmed(r) THEN executions[r].evidence ELSE t
      /\ PaidExecution(r, t).binding = t
      /\ PaidExecution(r, t).response = executions[r].response
  BY <1>1 DEF PaidExecution, ExecutionRow
<1>8. QED
  BY <1>3, <1>4, <1>5, <1>6, <1>7

\* MarkSettlementUncertain doubts one attempted execution and its purchase.
LEMMA MarkEffect ==
  ASSUME TablesTypeOK, NEW r \in Request, MarkSettlementUncertain(r)
  PROVE  /\ executions[r].state = "settlement_attempting"
         /\ executions'[r].state = "settlement_uncertain"
         /\ executions'[r].order = executions[r].order
         /\ executions'[r].evidence = executions[r].evidence
         /\ executions'[r].binding = executions[r].binding
         /\ executions'[r].response = executions[r].response
         /\ \A q \in Request : q # r => executions'[q] = executions[q]
         /\ \A o \in Order :
              IF o = executions[r].order /\ purchases[o].state = "quoted"
              THEN /\ purchases'[o].state = "settlement_uncertain"
                   /\ purchases'[o].request = purchases[o].request
                   /\ purchases'[o].evidence = purchases[o].evidence
              ELSE purchases'[o] = purchases[o]
         /\ UNCHANGED notices
         /\ TablesTypeOK'
<1> DEFINE row == [executions[r] EXCEPT !.state = "settlement_uncertain"]
<1>1. /\ row \in ExecutionRow
      /\ row.state = "settlement_uncertain"
      /\ row.order = executions[r].order
      /\ row.evidence = executions[r].evidence
      /\ row.binding = executions[r].binding
      /\ row.response = executions[r].response
  <2>1. executions[r] \in ExecutionRow
    BY DEF TablesTypeOK
  <2>2. QED
    BY <2>1 DEF ExecutionRow
<1>2. ASSUME NEW o \in Order
      PROVE  /\ DoubtedPurchase(r, o) \in PurchaseRow
             /\ IF o = executions[r].order /\ purchases[o].state = "quoted"
                THEN /\ DoubtedPurchase(r, o).state = "settlement_uncertain"
                     /\ DoubtedPurchase(r, o).request = purchases[o].request
                     /\ DoubtedPurchase(r, o).evidence = purchases[o].evidence
                ELSE DoubtedPurchase(r, o) = purchases[o]
  <2>1. purchases[o] \in PurchaseRow
    BY DEF TablesTypeOK
  <2>2. QED
    BY <2>1 DEF DoubtedPurchase, PurchaseRow
<1>3. /\ executions' = [executions EXCEPT ![r] = row]
      /\ purchases' = [o \in Order |-> DoubtedPurchase(r, o)]
      /\ executions[r].state = "settlement_attempting"
      /\ UNCHANGED notices
  BY DEF MarkSettlementUncertain
<1> HIDE DEF row
<1>4. TablesTypeOK'
  BY <1>1, <1>2, <1>3 DEF TablesTypeOK
<1>5. executions'[r] = row /\ \A q \in Request : q # r => executions'[q] = executions[q]
  BY <1>3 DEF TablesTypeOK
<1>6. QED
  BY <1>1, <1>2, <1>3, <1>4, <1>5

\* The UPDATE of save touches one execution; completed is sticky and no value
\* is erased.
LEMMA WriteEffect ==
  ASSUME TablesTypeOK, NEW r \in Request,
         NEW s \in {"paid", "execution_pending", "settlement_uncertain", "completed"},
         NEW t \in Tx \cup {None}, NEW a \in Answer \cup {None},
         WriteExecution(r, s, t, a)
  PROVE  /\ executions[r].state # "none"
         /\ executions'[r].state = IF executions[r].state = "completed" THEN "completed" ELSE s
         /\ executions'[r].order = executions[r].order
         /\ executions'[r].evidence = IF t = None THEN executions[r].evidence ELSE t
         /\ executions'[r].binding = executions[r].binding
         /\ executions'[r].response = IF a = None THEN executions[r].response ELSE a
         /\ \A q \in Request : q # r => executions'[q] = executions[q]
         /\ UNCHANGED <<purchases, notices>>
         /\ TablesTypeOK'
<1>1. /\ WrittenRow(r, s, t, a) \in ExecutionRow
      /\ WrittenRow(r, s, t, a).state = IF executions[r].state = "completed" THEN "completed" ELSE s
      /\ WrittenRow(r, s, t, a).order = executions[r].order
      /\ WrittenRow(r, s, t, a).evidence = IF t = None THEN executions[r].evidence ELSE t
      /\ WrittenRow(r, s, t, a).binding = executions[r].binding
      /\ WrittenRow(r, s, t, a).response = IF a = None THEN executions[r].response ELSE a
  <2>1. executions[r] \in ExecutionRow
    BY DEF TablesTypeOK
  <2>2. PICK row, v, e, p : /\ row = executions[r] /\ e = Coalesce(t, row.evidence)
                            /\ v = (IF row.state = "completed" THEN row.state ELSE s)
                            /\ p = Coalesce(a, row.response)
    OBVIOUS
  <2>3. WrittenRow(r, s, t, a) = [row EXCEPT !.state = v, !.evidence = e, !.response = p]
    BY <2>2 DEF WrittenRow
  <2>4. row = [state |-> row.state, order |-> row.order, evidence |-> row.evidence,
               binding |-> row.binding, response |-> row.response]
    BY <2>1, <2>2 DEF ExecutionRow
  <2>5. WrittenRow(r, s, t, a) = [state |-> v, order |-> row.order, evidence |-> e,
                                  binding |-> row.binding, response |-> p]
    BY <2>3, <2>4
  <2>6. /\ v = (IF row.state = "completed" THEN "completed" ELSE s)
        /\ e = (IF t = None THEN row.evidence ELSE t)
        /\ p = (IF a = None THEN row.response ELSE a)
    BY <2>2 DEF Coalesce
  <2>7. WrittenRow(r, s, t, a) \in ExecutionRow
    BY <2>1, <2>2, <2>5, <2>6 DEF ExecutionRow
  <2> QED BY <2>2, <2>5, <2>6, <2>7
<1>2. /\ executions' = [executions EXCEPT ![r] = WrittenRow(r, s, t, a)]
      /\ executions[r].state # "none"
      /\ UNCHANGED <<purchases, notices>>
  BY DEF WriteExecution
<1>3. QED
  BY <1>1, <1>2 DEF TablesTypeOK

\* The last UPDATE of save touches the linked purchase.
LEMMA CompleteEffect ==
  ASSUME TablesTypeOK, NEW r \in Request, NEW a \in Answer, CompletePurchase(r, a)
  PROVE  /\ \A o \in Order :
              IF o = executions[r].order
              THEN /\ purchases'[o].state = "completed"
                   /\ purchases'[o].request = purchases[o].request
                   /\ purchases'[o].evidence = purchases[o].evidence
              ELSE purchases'[o] = purchases[o]
         /\ UNCHANGED <<executions, notices>>
         /\ TablesTypeOK'
<1> DEFINE row(o) == [purchases[o] EXCEPT !.state = "completed", !.result = a]
<1>1. ASSUME NEW o \in Order
      PROVE  /\ row(o) \in PurchaseRow
             /\ row(o).state = "completed"
             /\ row(o).request = purchases[o].request
             /\ row(o).evidence = purchases[o].evidence
  <2>1. purchases[o] \in PurchaseRow
    BY DEF TablesTypeOK
  <2>2. QED
    BY <2>1 DEF PurchaseRow
<1>2. /\ purchases' = [o \in Order |-> IF o = executions[r].order THEN row(o) ELSE purchases[o]]
      /\ UNCHANGED <<executions, notices>>
  BY DEF CompletePurchase
<1> HIDE DEF row
<1>3. TablesTypeOK'
  BY <1>1, <1>2 DEF TablesTypeOK
<1>4. QED
  BY <1>1, <1>2, <1>3

-----------------------------------------------------------------------------
(* The invariant is inductive: one lemma per action.                        *)

LEMMA CreateKeeps ==
  ASSUME TablesInv, NEW r \in Request, CreatePurchase(r)
  PROVE  TablesInv'
<1> USE DEF TablesInv, TablesSafety
<1>1. TablesTypeOK'
  BY CreateEffect
<1>2. \A q \in Request : executions[q].order # OrderOf[r]
  BY CreateEffect, SettlementAssumption DEF LinksExist, Journalled
<1>3. BlankUntilBegun' /\ EvidenceIsBound' /\ OneExecutionPerTx' /\ AnswersAreComplete'
  BY CreateEffect
     DEF BlankUntilBegun, EvidenceIsBound, OneExecutionPerTx, AnswersAreComplete, Confirmed
<1>4. LinksExist' /\ DoubtsAreLinked'
  BY CreateEffect, SettlementAssumption DEF LinksExist, DoubtsAreLinked, Journalled
<1>5. JournalsAgree'
  BY <1>2, CreateEffect DEF JournalsAgree
<1>6. QED
  BY <1>1, <1>3, <1>4, <1>5

LEMMA BeginKeeps ==
  ASSUME TablesInv, NEW r \in Request, BeginSettlement(r)
  PROVE  TablesInv'
<1> USE DEF TablesInv, TablesSafety
<1>1. TablesTypeOK'
  BY BeginEffect
<1>2. /\ executions[r].order = None
      /\ executions[r].binding = None
      /\ executions[r].response = None
      /\ executions[r].state = "none"
      /\ r \notin notices
  BY BeginEffect DEF BlankUntilBegun, EvidenceIsBound
<1>3. BlankUntilBegun' /\ AnswersAreComplete'
  BY BeginEffect DEF BlankUntilBegun, AnswersAreComplete
<1>4. LinksExist'
  BY BeginEffect DEF LinksExist, LinkOf, Journalled
<1>5. DoubtsAreLinked'
  BY <1>2, BeginEffect, SettlementAssumption DEF DoubtsAreLinked
<1>6. EvidenceIsBound'
  BY <1>2, BeginEffect DEF EvidenceIsBound, Confirmed
<1>7. OneExecutionPerTx'
  BY BeginEffect DEF OneExecutionPerTx, LinkFree
<1>8. \A o \in Order : LinkOf(r) = o => purchases[o].state \in {"quoted"}
  <2> SUFFICES ASSUME NEW o \in Order, LinkOf(r) = o
               PROVE  purchases[o].state = "quoted"
    OBVIOUS
  <2>1. \A q \in Request : executions[q].order # o
    BY BeginEffect, SettlementAssumption DEF LinkFree
  <2>2. purchases[o].state \notin {"settlement_uncertain", "paid", "completed"}
    BY <2>1 DEF DoubtsAreLinked, JournalsAgree
  <2>3. purchases[o].state # "none"
    BY SettlementAssumption DEF LinkOf, Journalled
  <2>4. purchases[o] \in PurchaseRow
    BY DEF TablesTypeOK
  <2>5. QED
    BY <2>2, <2>3, <2>4 DEF PurchaseRow
<1>9. JournalsAgree'
  BY <1>2, <1>8, BeginEffect, SettlementAssumption DEF JournalsAgree
<1>10. QED
  BY <1>1, <1>3, <1>4, <1>5, <1>6, <1>7, <1>9

LEMMA RecordKeeps ==
  ASSUME TablesInv, NEW r \in Request, NEW t \in Tx, RecordConfirmedPayment(r, t)
  PROVE  TablesInv'
<1> USE DEF TablesInv, TablesSafety
<1>1. TablesTypeOK'
  BY RecordEffect
<1>2. /\ t # None
      /\ executions[r].state # "none"
      /\ Confirmed(r) => executions[r].binding = t /\ executions[r].evidence = t
  BY RecordEffect, SettlementAssumption DEF EvidenceIsBound, Bindable
<1>3. BlankUntilBegun'
  BY <1>2, RecordEffect DEF BlankUntilBegun
<1>4. LinksExist'
  BY RecordEffect, SettlementAssumption DEF LinksExist, Journalled
<1>5. DoubtsAreLinked'
  BY RecordEffect DEF DoubtsAreLinked
<1>6. EvidenceIsBound'
  <2>1. ASSUME NEW q \in Request, q # r
        PROVE  executions'[q] = executions[q] /\ (q \in notices' <=> q \in notices)
    BY <2>1, RecordEffect
  <2>2. /\ executions'[r].evidence = t
        /\ executions'[r].binding = t
        /\ r \in notices'
        /\ executions'[r].state # "settlement_attempting"
    BY <1>2, RecordEffect DEF Confirmed
  <2>3. QED
    BY <1>2, <2>1, <2>2 DEF EvidenceIsBound, Confirmed
<1>7. OneExecutionPerTx'
  BY <1>2, RecordEffect DEF OneExecutionPerTx, Bindable
<1>8. AnswersAreComplete'
  BY RecordEffect DEF AnswersAreComplete, Confirmed
<1>9. JournalsAgree'
  <2> SUFFICES ASSUME NEW o \in Order
               PROVE  /\ purchases'[o].state \in {"paid", "completed"} =>
                           \E q \in Request : /\ executions'[q].order = o
                                               /\ executions'[q].binding # None
                                               /\ executions'[q].binding = purchases'[o].evidence
                      /\ \A q \in Request : executions'[q].order = o =>
                           /\ executions'[q].binding # None =>
                                purchases'[o].state \in {"paid", "completed"}
                           /\ purchases'[o].state = "settlement_uncertain" =>
                                executions'[q].state = "settlement_uncertain"
                           /\ purchases'[o].state = "completed" => executions'[q].state = "completed"
    BY DEF JournalsAgree
  <2>1. CASE executions[r].order # o
    BY <2>1, RecordEffect DEF JournalsAgree
  <2>2. CASE executions[r].order = o
    <3>1. \A q \in Request : q # r => executions[q].order # o
      BY <2>2, SettlementAssumption DEF OneExecutionPerTx
    <3>2. purchases[o].state \in {"quoted", "settlement_uncertain", "paid", "completed"}
      <4>1. purchases[o] \in PurchaseRow
        BY DEF TablesTypeOK
      <4>2. purchases[o].state # "none"
        BY <2>2, SettlementAssumption DEF LinksExist, Journalled
      <4>3. QED
        BY <4>1, <4>2 DEF PurchaseRow
    <3>3. CASE ~Confirmed(r) /\ purchases[o].state \in {"quoted", "settlement_uncertain"}
      <4>1. purchases'[o].state = "paid" /\ purchases'[o].evidence = t
        BY <2>2, <3>3, RecordEffect
      <4>2. QED
        BY <1>2, <2>2, <3>1, <4>1, RecordEffect
    <3>4. CASE Confirmed(r) \/ purchases[o].state \in {"paid", "completed"}
      <4>1. purchases[o].state \in {"paid", "completed"}
        BY <1>2, <2>2, <3>4 DEF JournalsAgree
      <4>2. purchases'[o] = purchases[o]
        BY <4>1, RecordEffect
      <4>3. executions[r].binding = t /\ purchases[o].evidence = t
        BY <2>2, <3>1, <4>1, RecordEffect DEF JournalsAgree, Bindable
      <4>4. purchases[o].state = "completed" => Confirmed(r)
        BY <2>2 DEF JournalsAgree, Confirmed
      <4>5. QED
        BY <1>2, <2>2, <3>1, <4>1, <4>2, <4>3, <4>4, RecordEffect DEF JournalsAgree
    <3>5. QED
      BY <3>2, <3>3, <3>4
  <2>3. QED
    BY <2>1, <2>2
<1>10. QED
  BY <1>1, <1>3, <1>4, <1>5, <1>6, <1>7, <1>8, <1>9

LEMMA MarkKeeps ==
  ASSUME TablesInv, NEW r \in Request, MarkSettlementUncertain(r)
  PROVE  TablesInv'
<1> USE DEF TablesInv, TablesSafety
<1>1. TablesTypeOK'
  BY MarkEffect
<1>2. \A q \in Request : q # r /\ executions[r].order # None =>
        executions[q].order # executions[r].order
  BY DEF OneExecutionPerTx
<1>3. BlankUntilBegun' /\ LinksExist'
  BY MarkEffect, SettlementAssumption DEF BlankUntilBegun, LinksExist, Journalled
<1>4. DoubtsAreLinked'
  BY MarkEffect DEF DoubtsAreLinked
<1>5. EvidenceIsBound' /\ OneExecutionPerTx' /\ AnswersAreComplete'
  BY MarkEffect DEF EvidenceIsBound, OneExecutionPerTx, AnswersAreComplete, Confirmed
<1>6. JournalsAgree'
  <2>1. executions[r].binding = None
    BY MarkEffect DEF EvidenceIsBound
  <2>2. QED
    BY <1>2, <2>1, MarkEffect, SettlementAssumption DEF JournalsAgree
<1>7. QED
  BY <1>1, <1>3, <1>4, <1>5, <1>6

\* Every UPDATE of save: it shows no evidence but the transaction the row is
\* bound to, and a response exactly when it completes the execution.
LEMMA WriteKeeps ==
  ASSUME TablesInv, NEW r \in Request,
         NEW s \in {"paid", "execution_pending", "settlement_uncertain", "completed"},
         NEW t \in Tx \cup {None}, NEW a \in Answer \cup {None},
         t \in {None, executions[r].binding},
         s # "settlement_uncertain" => executions[r].binding # None,
         executions[r].state # "settlement_attempting",
         a # None <=> s = "completed",
         WriteExecution(r, s, t, a)
  PROVE  TablesInv'
<1> USE DEF TablesInv, TablesSafety
<1>1. TablesTypeOK'
  BY WriteEffect
<1>2. executions'[r].evidence = executions[r].evidence
  BY WriteEffect DEF EvidenceIsBound
<1>3. executions'[r].state \notin {"none", "settlement_attempting"}
  BY WriteEffect
<1>4. executions[r].state = "completed" => executions[r].binding # None
  BY DEF EvidenceIsBound, Confirmed
<1>5. BlankUntilBegun' /\ LinksExist' /\ DoubtsAreLinked'
  BY <1>3, WriteEffect DEF BlankUntilBegun, LinksExist, DoubtsAreLinked, Journalled
<1>6. EvidenceIsBound'
  BY <1>2, <1>3, <1>4, WriteEffect DEF EvidenceIsBound, Confirmed
<1>7. OneExecutionPerTx'
  BY WriteEffect DEF OneExecutionPerTx
<1>8. AnswersAreComplete'
  BY WriteEffect DEF AnswersAreComplete
<1>9. JournalsAgree'
  BY <1>4, WriteEffect DEF JournalsAgree
<1>10. QED
  BY <1>1, <1>5, <1>6, <1>7, <1>8, <1>9

LEMMA CompleteKeeps ==
  ASSUME TablesInv, NEW r \in Request, NEW a \in Answer,
         executions[r].state = "completed", CompletePurchase(r, a)
  PROVE  TablesInv'
<1> USE DEF TablesInv, TablesSafety
<1>1. TablesTypeOK'
  BY CompleteEffect
<1>2. BlankUntilBegun' /\ LinksExist' /\ DoubtsAreLinked'
  BY CompleteEffect, SettlementAssumption DEF BlankUntilBegun, LinksExist, DoubtsAreLinked, Journalled
<1>3. EvidenceIsBound' /\ OneExecutionPerTx' /\ AnswersAreComplete'
  BY CompleteEffect DEF EvidenceIsBound, OneExecutionPerTx, AnswersAreComplete, Confirmed
<1>4. executions[r].binding # None
  BY DEF EvidenceIsBound, Confirmed
<1>5. \A q \in Request : q # r /\ executions[r].order # None =>
        executions[q].order # executions[r].order
  BY DEF OneExecutionPerTx
<1>6. JournalsAgree'
  BY <1>4, <1>5, CompleteEffect, SettlementAssumption DEF JournalsAgree
<1>7. QED
  BY <1>1, <1>2, <1>3, <1>6

LEMMA InitHolds == TablesInit => TablesInv
<1> SUFFICES ASSUME TablesInit
             PROVE  TablesInv
  OBVIOUS
<1>1. NoPurchase \in PurchaseRow /\ NoExecution \in ExecutionRow
  BY DEF NoPurchase, PurchaseRow, NoExecution, ExecutionRow
<1>2. TablesTypeOK
  BY <1>1 DEF TablesInit, TablesTypeOK
<1>3. /\ \A o \in Order : purchases[o].state = "none"
      /\ \A r \in Request : /\ executions[r].state = "none"
                            /\ executions[r].order = None
                            /\ executions[r].evidence = None
                            /\ executions[r].binding = None
                            /\ executions[r].response = None
      /\ notices = {}
  BY DEF TablesInit, NoPurchase, NoExecution
<1>4. BlankUntilBegun /\ LinksExist /\ DoubtsAreLinked
  BY <1>3 DEF BlankUntilBegun, LinksExist, DoubtsAreLinked
<1>5. TablesSafety
  BY <1>3 DEF TablesSafety, EvidenceIsBound, OneExecutionPerTx, JournalsAgree,
              AnswersAreComplete, Confirmed
<1>6. QED
  BY <1>2, <1>4, <1>5 DEF TablesInv

LEMMA StepKeeps == TablesInv /\ [TablesNext]_tables => TablesInv'
<1> SUFFICES ASSUME TablesInv, [TablesNext]_tables
             PROVE  TablesInv'
  OBVIOUS
<1>1. ASSUME NEW q \in Request, executions[q].binding # None
      PROVE  /\ executions[q].binding \in Tx
             /\ executions[q].state # "settlement_attempting"
  BY <1>1, FieldTypes DEF TablesInv, TablesSafety, EvidenceIsBound
<1>2. ASSUME NEW r \in Request, CreatePurchase(r)
      PROVE  TablesInv'
  BY <1>2, CreateKeeps
<1>3. ASSUME NEW r \in Request, BeginSettlement(r)
      PROVE  TablesInv'
  BY <1>3, BeginKeeps
<1>4. ASSUME NEW r \in Request, NEW t \in Tx, RecordConfirmedPayment(r, t)
      PROVE  TablesInv'
  BY <1>4, RecordKeeps
<1>5. ASSUME NEW r \in Request, MarkSettlementUncertain(r)
      PROVE  TablesInv'
  BY <1>5, MarkKeeps
<1>6. ASSUME NEW r \in Request, SavePaid(r)
      PROVE  TablesInv'
  <2> DEFINE t == executions[r].binding
  <2>1. t # None
    BY <1>6 DEF SavePaid
  <2>2. WriteExecution(r, "paid", t, None)
    BY <1>6 DEF SavePaid
  <2>3. /\ t \in {None, executions[r].binding}
        /\ t \in Tx \cup {None}
        /\ executions[r].state # "settlement_attempting"
    BY <1>1, <2>1
  <2>4. None \in Answer \cup {None} /\ (None # None <=> "paid" = "completed")
    BY SettlementAssumption
  <2>5. executions[r].binding # None
    BY <2>1
  <2> HIDE DEF t
  <2>6. QED
    BY <2>2, <2>3, <2>4, <2>5, WriteKeeps
<1>7. ASSUME NEW r \in Request, SavePending(r)
      PROVE  TablesInv'
  <2> DEFINE t == executions[r].binding
  <2>1. t # None
    BY <1>7 DEF SavePending
  <2>2. WriteExecution(r, "execution_pending", t, None)
    BY <1>7 DEF SavePending
  <2>3. /\ t \in {None, executions[r].binding}
        /\ t \in Tx \cup {None}
        /\ executions[r].state # "settlement_attempting"
    BY <1>1, <2>1
  <2>4. None \in Answer \cup {None} /\ (None # None <=> "execution_pending" = "completed")
    BY SettlementAssumption
  <2>5. executions[r].binding # None
    BY <2>1
  <2> HIDE DEF t
  <2>6. QED
    BY <2>2, <2>3, <2>4, <2>5, WriteKeeps
<1>8. ASSUME NEW r \in Request, SaveUncertain(r)
      PROVE  TablesInv'
  BY <1>8, WriteKeeps, SettlementAssumption DEF SaveUncertain
<1>9. ASSUME NEW r \in Request, NEW a \in Answer, SaveCompleted(r, a)
      PROVE  TablesInv'
  <2> DEFINE t == executions[r].binding
  <2>1. t # None
    BY <1>9 DEF SaveCompleted
  <2>2. WriteExecution(r, "completed", t, a)
    BY <1>9 DEF SaveCompleted
  <2>3. /\ t \in {None, executions[r].binding}
        /\ t \in Tx \cup {None}
        /\ executions[r].state # "settlement_attempting"
    BY <1>1, <2>1
  <2>4. a \in Answer \cup {None} /\ (a # None <=> "completed" = "completed")
    BY SettlementAssumption
  <2>5. executions[r].binding # None
    BY <2>1
  <2> HIDE DEF t
  <2>6. QED
    BY <2>2, <2>3, <2>4, <2>5, WriteKeeps
<1>10. ASSUME NEW r \in Request, NEW a \in Answer, SaveResult(r, a)
       PROVE  TablesInv'
  BY <1>10, CompleteKeeps DEF SaveResult
<1>11. CASE UNCHANGED tables
  BY <1>11 DEF tables, TablesInv, TablesSafety, TablesTypeOK, BlankUntilBegun, LinksExist,
               DoubtsAreLinked, EvidenceIsBound, OneExecutionPerTx, JournalsAgree,
               AnswersAreComplete, Confirmed, Journalled
<1>12. QED
  BY <1>2, <1>3, <1>4, <1>5, <1>6, <1>7, <1>8, <1>9, <1>10, <1>11 DEF TablesNext

LEMMA TablesInvariant == TablesSpec => []TablesInv
BY InitHolds, StepKeeps, PTL DEF TablesSpec

-----------------------------------------------------------------------------
(* The results.                                                             *)

\* Every row is a row its table allows.
THEOREM TablesTypeCorrect == TablesSpec => []TablesTypeOK
<1>1. TablesInv => TablesTypeOK
  BY DEF TablesInv
<1>2. QED
  BY <1>1, TablesInvariant, PTL

\* Evidence, binding and announcement agree in every row, although save writes
\* them in statements of their own.
THEOREM EvidenceBound == TablesSpec => []EvidenceIsBound
<1>1. TablesInv => EvidenceIsBound
  BY DEF TablesInv, TablesSafety
<1>2. QED
  BY <1>1, TablesInvariant, PTL

\* A chain transaction settles one execution and a purchase has one execution.
THEOREM TransactionsAreExclusive == TablesSpec => []OneExecutionPerTx
<1>1. TablesInv => OneExecutionPerTx
  BY DEF TablesInv, TablesSafety
<1>2. QED
  BY <1>1, TablesInvariant, PTL

\* The buyer's journal and the merchant's journal agree on what was paid.
THEOREM JournalsAgreeAlways == TablesSpec => []JournalsAgree
<1>1. TablesInv => JournalsAgree
  BY DEF TablesInv, TablesSafety
<1>2. QED
  BY <1>1, TablesInvariant, PTL

\* Results are on record exactly for the completed executions.
THEOREM ResultsAreComplete == TablesSpec => []AnswersAreComplete
<1>1. TablesInv => AnswersAreComplete
  BY DEF TablesInv, TablesSafety
<1>2. QED
  BY <1>1, TablesInvariant, PTL

-----------------------------------------------------------------------------
(* The two promises about steps, by the same case analysis.                 *)

\* What the saves do to a row that is already begun: binding and evidence stay,
\* completed is sticky and no row goes back.
LEMMA WriteStays ==
  ASSUME TablesInv, NEW r \in Request,
         NEW s \in {"paid", "execution_pending", "settlement_uncertain", "completed"},
         NEW t \in Tx \cup {None}, NEW a \in Answer \cup {None},
         t \in {None, executions[r].binding},
         WriteExecution(r, s, t, a)
  PROVE  NoRetry /\ PaymentStays
<1>1. TablesTypeOK /\ executions[r].evidence = executions[r].binding
  BY DEF TablesInv, TablesSafety, EvidenceIsBound
<1>2. executions'[r].evidence = executions[r].evidence
  BY <1>1, WriteEffect
<1>3. QED
  BY <1>1, <1>2, WriteEffect, SMTT(40) DEF NoRetry, PaymentStays, Journalled

LEMMA StepStays == TablesInv /\ [TablesNext]_tables => [NoRetry /\ PaymentStays]_tables
<1> SUFFICES ASSUME TablesInv, TablesNext
             PROVE  NoRetry /\ PaymentStays
  OBVIOUS
<1>1. TablesTypeOK /\ EvidenceIsBound
  BY DEF TablesInv, TablesSafety
<1>2. ASSUME NEW q \in Request, executions[q].binding # None
      PROVE  executions[q].binding \in Tx
  BY <1>1, <1>2, FieldTypes
<1>3. ASSUME NEW r \in Request, CreatePurchase(r)
      PROVE  NoRetry /\ PaymentStays
  BY <1>1, <1>3, CreateEffect DEF NoRetry, PaymentStays, Journalled
<1>4. ASSUME NEW r \in Request, BeginSettlement(r)
      PROVE  NoRetry /\ PaymentStays
  <2>1. executions[r].binding = None
    BY <1>1, <1>4, BeginEffect DEF TablesInv, BlankUntilBegun
  <2>2. QED
    BY <1>1, <1>4, <2>1, BeginEffect DEF NoRetry, PaymentStays, Journalled
<1>5. ASSUME NEW r \in Request, NEW t \in Tx, RecordConfirmedPayment(r, t)
      PROVE  NoRetry /\ PaymentStays
  <2>1. /\ t # None
        /\ executions[r].binding # None => executions[r].binding = t /\ executions[r].evidence = t
    BY <1>1, <1>5, RecordEffect, SettlementAssumption DEF EvidenceIsBound, Bindable
  <2>2. executions[r].state = "completed" => Confirmed(r)
    BY DEF Confirmed
  <2>3. QED
    BY <1>1, <1>5, <2>1, <2>2, RecordEffect DEF NoRetry, PaymentStays, Journalled
<1>6. ASSUME NEW r \in Request, MarkSettlementUncertain(r)
      PROVE  NoRetry /\ PaymentStays
  BY <1>1, <1>6, MarkEffect DEF NoRetry, PaymentStays, Journalled
<1>7. ASSUME NEW r \in Request, NEW s \in {"paid", "execution_pending", "completed"},
             NEW a \in Answer \cup {None}, executions[r].binding # None,
             WriteExecution(r, s, executions[r].binding, a)
      PROVE  NoRetry /\ PaymentStays
  <2> DEFINE t == executions[r].binding
  <2>1. t \in Tx \cup {None} /\ t \in {None, executions[r].binding}
    BY <1>2, <1>7
  <2>2. WriteExecution(r, s, t, a)
    BY <1>7
  <2> HIDE DEF t
  <2>3. QED
    BY <2>1, <2>2, WriteStays
<1>8. ASSUME NEW r \in Request, SavePaid(r) \/ SavePending(r)
      PROVE  NoRetry /\ PaymentStays
  BY <1>7, <1>8 DEF SavePaid, SavePending
<1>9. ASSUME NEW r \in Request, SaveUncertain(r)
      PROVE  NoRetry /\ PaymentStays
  BY <1>9, WriteStays DEF SaveUncertain
<1>10. ASSUME NEW r \in Request, NEW a \in Answer, SaveCompleted(r, a)
       PROVE  NoRetry /\ PaymentStays
  BY <1>7, <1>10 DEF SaveCompleted
<1>11. ASSUME NEW r \in Request, NEW a \in Answer, SaveResult(r, a)
       PROVE  NoRetry /\ PaymentStays
  BY <1>1, <1>11, CompleteEffect DEF SaveResult, NoRetry, PaymentStays, Journalled
<1>12. QED
  BY <1>3, <1>4, <1>5, <1>6, <1>8, <1>9, <1>10, <1>11 DEF TablesNext

\* No row of either journal returns to a state in which the wallet may be
\* debited (again).
THEOREM NothingIsRetried == TablesSpec => NeverRetried
<1>1. [NoRetry /\ PaymentStays]_tables => [NoRetry]_tables
  OBVIOUS
<1>2. QED
  BY <1>1, TablesInvariant, StepStays, PTL DEF TablesSpec, NeverRetried

\* A confirmed payment keeps its transaction and a completed purchase stays so.
THEOREM PaymentsAreFinal == TablesSpec => PaymentIsFinal
<1>1. [NoRetry /\ PaymentStays]_tables => [PaymentStays]_tables
  OBVIOUS
<1>2. QED
  BY <1>1, TablesInvariant, StepStays, PTL DEF TablesSpec, PaymentIsFinal
=============================================================================
