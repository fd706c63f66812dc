---------------------------- MODULE ProgramsProofs --------------------------
(***************************************************************************)
(* Proofs about programs of their own: the mission that a language model   *)
(* drives and the Writers that serve it, the registration of an identity,  *)
(* the import of the file stores, what the validators of the evidence      *)
(* accept, and what the public page shows.                                 *)
(***************************************************************************)
EXTENDS ReactHunter, FinalReport, EvidenceStudy, IdentityRegistration, FileImport,
        AdvantagePage, FiniteSetTheorems, TLAPS

-----------------------------------------------------------------------------
(* ReactHunter: a Writer's memory, and what a result was paid with.        *)

Numbers == 1..MaxTransfers
Executions == [by : Writers \cup {Unset}, tx : Nat]
Hunts ==
  [at : {"turn", "done", "failed"}, steps : Nat, services : SUBSET Services,
   service : Services \cup {Unset}, quote : Services \cup {Unset}, tx : Nat,
   execution : Executions, checked : BOOLEAN,
   report : [service : Services \cup {Unset}, purchase : Executions, verified : BOOLEAN]]
ToolCalls ==
  [id : Nat, tool : {"chosen", "pay", "wait", "sent", "verifying", "executing", "answered"},
   tx : Nat, to : Writers \cup {Unset}]
Memories == [pending : SUBSET Numbers, used : SUBSET Numbers, served : [Numbers -> Nat]]

TransfersOK ==
  \E k \in 0..MaxTransfers : transfers \in [1..k -> [to : Writers, mined : BOOLEAN]]

ReactTypeOK ==
  /\ hunt \in Hunts /\ calls \subseteq ToolCalls /\ TransfersOK
  /\ writer \in [Writers -> Memories] /\ resets \in Nat

PaidTo(n, w) == n \in DOMAIN transfers /\ transfers[n].mined /\ transfers[n].to = w
Serving(c) == c.tool \in {"verifying", "executing"}

\* A tool call at work names a transfer of this mission; once the Writer has
\* looked at the chain, one that was made to it.
CallFine(c) ==
  /\ c.tool = "pay" => c.to \in Writers
  /\ c.tool \in {"wait", "sent", "verifying", "executing", "answered"} => c.tx \in DOMAIN transfers
  /\ c.tool \in {"sent", "verifying", "executing", "answered"} => c.to \in Writers
  /\ c.tool \in {"executing", "answered"} => PaidTo(c.tx, c.to)

HuntFine(h) ==
  /\ h.tx # 0 => h.tx \in DOMAIN transfers
  /\ h.execution # NoExecution => PaidTo(h.execution.tx, h.execution.by)
  /\ h.report.verified =>
       /\ h.report.purchase.by = ProviderOf[h.report.service]
       /\ PaidTo(h.report.purchase.tx, h.report.purchase.by)

\* A transfer is reserved for one request, and never again once it was used.
MemoryFine ==
  /\ \A w \in Writers : /\ writer[w].pending \cap writer[w].used = {}
                        /\ \A n \in Numbers : writer[w].served[n] = IF n \in writer[w].used THEN 1 ELSE 0
  /\ \A c \in calls : Serving(c) => c.tx \in writer[c.to].pending
  /\ \A c, d \in calls : Serving(c) /\ Serving(d) /\ c.to = d.to /\ c.tx = d.tx => c = d

ReactInv == ReactTypeOK /\ HuntFine(hunt) /\ (\A c \in calls : CallFine(c)) /\ MemoryFine

LEMMA ReactParts ==
  ASSUME ReactInv
  PROVE  /\ hunt \in Hunts /\ calls \subseteq ToolCalls /\ writer \in [Writers -> Memories]
         /\ DOMAIN transfers \subseteq Numbers /\ 0 \notin Numbers /\ Numbers \subseteq Nat
         /\ NoExecution \in Executions /\ ProviderOf \in [Services -> Writers] /\ Unset \notin Services
<1>1. MaxTransfers \in Nat
  BY ReactAssumption
<1>2. DOMAIN transfers \subseteq Numbers
  <2>1. PICK k \in 0..MaxTransfers : transfers \in [1..k -> [to : Writers, mined : BOOLEAN]]
    BY DEF ReactInv, ReactTypeOK, TransfersOK
  <2>2. DOMAIN transfers = 1..k
    BY <2>1
  <2>3. QED
    BY <1>1, <2>2 DEF Numbers
<1>3. NoExecution \in Executions
  BY DEF NoExecution, Executions
<1>4. QED
  BY <1>1, <1>2, <1>3, ReactAssumption DEF ReactInv, ReactTypeOK, Numbers

LEMMA ReactInvInit == ReactInit => ReactInv
<1> SUFFICES ASSUME ReactInit PROVE ReactInv
  OBVIOUS
<1>1. MaxTransfers \in Nat
  BY ReactAssumption
<1>2. TransfersOK
  <2>1. transfers \in [1..0 -> [to : Writers, mined : BOOLEAN]]
    BY DEF ReactInit
  <2>2. QED
    BY <1>1, <2>1 DEF TransfersOK
<1>3. hunt \in Hunts /\ ~hunt.report.verified /\ hunt.tx = 0 /\ hunt.execution = NoExecution
  BY DEF ReactInit, Hunts, Executions, NoExecution, NoReport
<1>4. /\ NoMemory \in Memories /\ NoMemory.pending = {} /\ NoMemory.used = {}
      /\ \A n \in Numbers : NoMemory.served[n] = 0
  BY DEF NoMemory, Memories, Numbers
<1>5. calls = {} /\ writer = [w \in Writers |-> NoMemory] /\ resets = 0
  BY DEF ReactInit
<1>6. MemoryFine
  BY <1>4, <1>5 DEF MemoryFine
<1>7. QED
  BY <1>2, <1>3, <1>4, <1>5, <1>6 DEF ReactInv, ReactTypeOK, HuntFine, CallFine

\* What the model and its tools do, while no Writer looks.
LEMMA ToolStep ==
  ASSUME ReactInv, UNCHANGED <<transfers, writer, resets>>,
         hunt' \in Hunts, HuntFine(hunt)', calls' \subseteq ToolCalls,
         \A d \in calls' : d \in calls \/ (~Serving(d) /\ CallFine(d))
  PROVE  ReactInv'
<1>1. ReactTypeOK'
  BY DEF ReactInv, ReactTypeOK, TransfersOK
<1>2. \A d \in calls' : CallFine(d)'
  BY DEF ReactInv, CallFine, PaidTo
<1>3. MemoryFine'
  BY DEF ReactInv, MemoryFine, Serving
<1>4. QED
  BY <1>1, <1>2, <1>3 DEF ReactInv

LEMMA TurnStep ==
  ASSUME ReactInv, Thinks \/ Concludes
  PROVE  ReactInv'
<1>1. CASE Thinks
  <2>1. PICK n \in 1..Overlap :
          calls' = {[id |-> i, tool |-> "chosen", tx |-> 0, to |-> Unset] : i \in 1..n}
    BY <1>1 DEF Thinks
  <2>2. hunt' = [hunt EXCEPT !.steps = hunt.steps + 1] /\ UNCHANGED <<transfers, writer, resets>>
    BY <1>1 DEF Thinks
  <2>3. calls' \subseteq ToolCalls /\ \A d \in calls' : d.tool = "chosen"
    BY <2>1, ReactAssumption DEF ToolCalls
  <2>4. hunt' \in Hunts /\ hunt'.tx = hunt.tx /\ hunt'.execution = hunt.execution /\ hunt'.report = hunt.report
    BY <2>2, ReactParts DEF Hunts
  <2>5. HuntFine(hunt)'
    BY <2>2, <2>4 DEF ReactInv, HuntFine, PaidTo
  <2>6. QED
    BY <2>2, <2>3, <2>4, <2>5, ToolStep DEF Serving, CallFine
<1>2. CASE Concludes
  <2>1. UNCHANGED <<calls, transfers, writer, resets>>
    BY <1>2 DEF Concludes
  <2>2. CASE hunt' = [hunt EXCEPT !.at = "failed"]
    <3>1. hunt' \in Hunts /\ hunt'.tx = hunt.tx /\ hunt'.execution = hunt.execution /\ hunt'.report = hunt.report
      BY <2>2, ReactParts DEF Hunts
    <3>2. HuntFine(hunt)'
      BY <2>1, <3>1 DEF ReactInv, HuntFine, PaidTo
    <3>3. QED
      BY <2>1, <3>1, <3>2, ReactParts, ToolStep
  <2>3. CASE /\ hunt.service # Unset /\ hunt.quote # Unset /\ hunt.tx # 0 /\ hunt.execution # NoExecution
             /\ hunt' = [hunt EXCEPT !.at = "done",
                           !.report = [service |-> hunt.service, purchase |-> hunt.execution,
                                       verified |-> Verdict(hunt)]]
    <3>1. hunt.service \in Services \cup {Unset} /\ hunt.execution \in Executions /\ Verdict(hunt) \in BOOLEAN
      BY ReactParts DEF Hunts, Verdict, ReceiptValid
    <3>2. /\ hunt' \in Hunts /\ hunt'.tx = hunt.tx /\ hunt'.execution = hunt.execution
          /\ hunt'.report = [service |-> hunt.service, purchase |-> hunt.execution, verified |-> Verdict(hunt)]
      BY <2>3, <3>1, ReactParts DEF Hunts
    <3>3. Verdict(hunt) => hunt.execution.by = ProviderOf[hunt.service]
      BY DEF Verdict, ReceiptValid
    <3>4. HuntFine(hunt)'
      BY <2>1, <2>3, <3>2, <3>3 DEF ReactInv, HuntFine, PaidTo
    <3>5. QED
      BY <2>1, <3>2, <3>4, ReactParts, ToolStep
  <2>4. QED
    BY <1>2, <2>2, <2>3 DEF Concludes
<1>3. QED
  BY <1>1, <1>2

\* A tool that returns changes what the mission knows, and not what it was
\* given unless it says so.
LEMMA ReturnStep ==
  ASSUME ReactInv, NEW c \in calls, NEW h \in Hunts, hunt' = h, calls' \subseteq calls, HuntFine(h),
         UNCHANGED <<transfers, writer, resets>>
  PROVE  ReactInv'
<1>1. HuntFine(hunt)'
  BY DEF HuntFine, PaidTo
<1>2. QED
  BY <1>1, ReactParts, ToolStep

LEMMA ToolReturns ==
  ASSUME ReactInv, NEW c \in calls,
         \/ DiscoverServices(c) \/ EvaluateService(c) \/ RequestService(c) \/ PaymentConfirmed(c)
         \/ ResultArrives(c) \/ VerifyReceipt(c) \/ OtherTool(c) \/ ToolFails(c)
  PROVE  ReactInv'
<1>1. /\ UNCHANGED <<transfers, writer, resets>> /\ calls' \subseteq calls
      /\ hunt \in Hunts /\ HuntFine(hunt) /\ c \in ToolCalls /\ CallFine(c)
  BY ReactParts DEF ReactInv, DiscoverServices, EvaluateService, RequestService, PaymentConfirmed, ResultArrives,
     VerifyReceipt, OtherTool, ToolFails, Returns, Throws
<1>2. ASSUME NEW h \in Hunts, hunt' = h, h.tx = hunt.tx, h.execution = hunt.execution, h.report = hunt.report
      PROVE  ReactInv'
  <2>1. HuntFine(h)
    BY <1>1, <1>2 DEF HuntFine
  <2>2. QED
    BY <1>1, <1>2, <2>1, ReturnStep
<1>3. CASE DiscoverServices(c)
  <2>1. PICK live \in SUBSET Services : hunt' = [hunt EXCEPT !.services = live]
    BY <1>3 DEF DiscoverServices, Returns
  <2>2. QED
    BY <1>1, <1>2, <2>1 DEF Hunts
<1>4. CASE EvaluateService(c)
  <2>1. PICK s \in Services : hunt' = [hunt EXCEPT !.service = s]
    BY <1>1, <1>4 DEF EvaluateService, Returns, Hunts
  <2>2. QED
    BY <1>1, <1>2, <2>1 DEF Hunts
<1>5. CASE RequestService(c)
  <2>1. PICK s \in Candidates : hunt' = [hunt EXCEPT !.service = s, !.quote = s]
    BY <1>5 DEF RequestService, Returns
  <2>2. s \in Services
    BY <1>1 DEF Candidates, Hunts
  <2>3. PICK h : h = [hunt EXCEPT !.service = s, !.quote = s]
    OBVIOUS
  <2>4. h \in Hunts /\ h.tx = hunt.tx /\ h.execution = hunt.execution /\ h.report = hunt.report
    BY <1>1, <2>2, <2>3 DEF Hunts
  <2>5. QED
    BY <1>2, <2>1, <2>3, <2>4
<1>6. CASE PaymentConfirmed(c)
  <2>1. c.tx \in Nat /\ c.tx \in DOMAIN transfers /\ hunt' = [hunt EXCEPT !.tx = c.tx]
    BY <1>1, <1>6 DEF PaymentConfirmed, Returns, CallFine, ToolCalls
  <2>2. PICK h \in Hunts : h = [hunt EXCEPT !.tx = c.tx]
    BY <1>1, <2>1 DEF Hunts
  <2>3. h.tx = c.tx /\ h.execution = hunt.execution /\ h.report = hunt.report
    BY <1>1, <2>2 DEF Hunts
  <2>4. HuntFine(h)
    BY <1>1, <2>1, <2>3 DEF HuntFine
  <2>5. QED
    BY <1>1, <2>1, <2>2, <2>4, ReturnStep
<1>7. CASE ResultArrives(c)
  <2>1. /\ c.tx \in Nat /\ c.to \in Writers /\ PaidTo(c.tx, c.to)
        /\ hunt' = [hunt EXCEPT !.execution = [by |-> c.to, tx |-> c.tx]]
    BY <1>1, <1>7 DEF ResultArrives, Returns, CallFine, ToolCalls
  <2>2. PICK h \in Hunts : h = [hunt EXCEPT !.execution = [by |-> c.to, tx |-> c.tx]]
    BY <1>1, <2>1 DEF Hunts, Executions
  <2>3. h.tx = hunt.tx /\ h.execution.by = c.to /\ h.execution.tx = c.tx /\ h.report = hunt.report
    BY <1>1, <2>2 DEF Hunts
  <2>4. HuntFine(h)
    BY <1>1, <2>1, <2>3 DEF HuntFine
  <2>5. QED
    BY <1>1, <2>1, <2>2, <2>4, ReturnStep
<1>8. CASE VerifyReceipt(c)
  <2>1. ReceiptValid(hunt) \in BOOLEAN /\ hunt' = [hunt EXCEPT !.checked = ReceiptValid(hunt)]
    BY <1>8 DEF VerifyReceipt, Returns, ReceiptValid
  <2>2. QED
    BY <1>1, <1>2, <2>1 DEF Hunts
<1>9. CASE OtherTool(c)
  BY <1>1, <1>2, <1>9 DEF OtherTool, Returns
<1>10. CASE ToolFails(c)
  <2>1. hunt' = [hunt EXCEPT !.at = "failed"]
    BY <1>10 DEF ToolFails, Throws, Returns
  <2>2. QED
    BY <1>1, <1>2, <2>1 DEF Hunts
<1>11. QED
  BY <1>3, <1>4, <1>5, <1>6, <1>7, <1>8, <1>9, <1>10

LEMMA PaymentToolStep ==
  ASSUME ReactInv, NEW c \in calls, MakePayment(c) \/ SubmitPayment(c)
  PROVE  ReactInv'
<1>1. /\ UNCHANGED <<hunt, transfers, writer, resets>> /\ hunt \in Hunts /\ HuntFine(hunt)
      /\ c \in ToolCalls /\ c.tool = "chosen"
  BY ReactParts DEF ReactInv, MakePayment, SubmitPayment, Proceeds, Fresh
<1>2. PICK d : /\ calls' = (calls \ {c}) \cup {d} /\ d \in ToolCalls /\ ~Serving(d) /\ CallFine(d)
  <2>1. CASE MakePayment(c)
    <3>1. PICK w \in Writers : w = ProviderOf[hunt.quote]
      BY <1>1, <2>1, ReactParts DEF MakePayment, Hunts
    <3>2. PICK d : d = [c EXCEPT !.tool = "pay", !.to = w]
      OBVIOUS
    <3>3. d \in ToolCalls /\ d.tool = "pay" /\ d.to = w
      BY <1>1, <3>2 DEF ToolCalls
    <3>4. calls' = (calls \ {c}) \cup {d}
      BY <2>1, <3>1, <3>2 DEF MakePayment, Proceeds
    <3>5. QED
      BY <3>3, <3>4 DEF Serving, CallFine
  <2>2. CASE SubmitPayment(c)
    <3>1. PICK w \in Writers : w = ProviderOf[hunt.service]
      BY <1>1, <2>2, ReactParts DEF SubmitPayment, Hunts
    <3>2. hunt.tx \in Nat /\ hunt.tx \in DOMAIN transfers
      BY <1>1, <2>2 DEF SubmitPayment, Hunts, HuntFine
    <3>3. PICK d : d = [c EXCEPT !.tool = "sent", !.to = w, !.tx = hunt.tx]
      OBVIOUS
    <3>4. d \in ToolCalls /\ d.tool = "sent" /\ d.to = w /\ d.tx = hunt.tx
      BY <1>1, <3>2, <3>3 DEF ToolCalls
    <3>5. calls' = (calls \ {c}) \cup {d}
      BY <2>2, <3>1, <3>3 DEF SubmitPayment, Proceeds
    <3>6. QED
      BY <3>2, <3>4, <3>5 DEF Serving, CallFine
  <2>3. QED
    BY <2>1, <2>2
<1>3. HuntFine(hunt)'
  BY <1>1 DEF HuntFine, PaidTo
<1>4. QED
  BY <1>1, <1>2, <1>3, ReactParts, ToolStep

-----------------------------------------------------------------------------
(* ReactHunter: the transfers and the Writers. *)

LEMMA ChainStep ==
  ASSUME ReactInv, TransfersOK', UNCHANGED <<writer, resets, hunt>>, calls' \subseteq ToolCalls,
         DOMAIN transfers \subseteq DOMAIN transfers',
         \A n \in DOMAIN transfers : /\ transfers'[n].to = transfers[n].to
                                     /\ transfers[n].mined => transfers'[n].mined,
         \A d \in calls' : d \in calls \/ (d.tool = "wait" /\ d.tx \in DOMAIN transfers')
  PROVE  ReactInv'
<1>1. ReactTypeOK'
  BY DEF ReactInv, ReactTypeOK
<1>2. HuntFine(hunt)' /\ \A d \in calls' : CallFine(d)'
  BY DEF ReactInv, HuntFine, CallFine, PaidTo
<1>3. MemoryFine'
  BY DEF ReactInv, MemoryFine, Serving
<1>4. QED
  BY <1>1, <1>2, <1>3 DEF ReactInv

LEMMA BroadcastStep ==
  ASSUME ReactInv, NEW c \in calls, Broadcast(c)
  PROVE  ReactInv'
<1>1. PICK k \in 0..MaxTransfers : transfers \in [1..k -> [to : Writers, mined : BOOLEAN]]
  BY DEF ReactInv, ReactTypeOK, TransfersOK
<1>2. MaxTransfers \in Nat /\ DOMAIN transfers = 1..k /\ Cardinality(1..k) = k
  <2>1. MaxTransfers \in Nat
    BY ReactAssumption
  <2>2. k \in Nat /\ DOMAIN transfers = 1..k
    BY <1>1, <2>1
  <2>3. Cardinality(1..k) = k
    BY <2>2, FS_Interval
  <2> QED BY <2>1, <2>2, <2>3
<1>3. PICK n : n = Cardinality(DOMAIN transfers) + 1
  OBVIOUS
<1>4. c \in ToolCalls /\ c.tool = "pay" /\ c.to \in Writers
  BY ReactParts DEF ReactInv, Broadcast, CallFine
<1>5. n = k + 1 /\ n \in 1..MaxTransfers /\ n \in Nat
  BY <1>1, <1>2, <1>3 DEF Broadcast
<1>6. /\ UNCHANGED <<writer, resets, hunt>>
      /\ transfers' = [i \in 1..n |-> IF i = n THEN [to |-> c.to, mined |-> FALSE] ELSE transfers[i]]
      /\ calls' = (calls \ {c}) \cup {[c EXCEPT !.tool = "wait", !.tx = n]}
  BY <1>3 DEF Broadcast, Proceeds
<1>7. PICK d : d = [c EXCEPT !.tool = "wait", !.tx = n]
  OBVIOUS
<1>8. d \in ToolCalls /\ d.tool = "wait" /\ d.tx = n
  BY <1>4, <1>5, <1>7 DEF ToolCalls
<1>9. transfers' \in [1..n -> [to : Writers, mined : BOOLEAN]]
  BY <1>1, <1>4, <1>5, <1>6
<1>10. TransfersOK'
  BY <1>5, <1>9 DEF TransfersOK
<1>11. /\ DOMAIN transfers' = 1..n /\ DOMAIN transfers \subseteq 1..n
       /\ \A i \in DOMAIN transfers : transfers'[i] = transfers[i]
  BY <1>2, <1>5, <1>6
<1>12. n \in 1..n
  BY <1>5
<1>13. QED
  BY <1>5, <1>6, <1>7, <1>8, <1>10, <1>11, <1>12, ReactParts, ChainStep

LEMMA MinedStep ==
  ASSUME ReactInv, NEW n \in DOMAIN transfers, Mined(n)
  PROVE  ReactInv'
<1>1. PICK k \in 0..MaxTransfers : transfers \in [1..k -> [to : Writers, mined : BOOLEAN]]
  BY DEF ReactInv, ReactTypeOK, TransfersOK
<1>2. transfers' = [transfers EXCEPT ![n].mined = TRUE] /\ UNCHANGED <<hunt, calls, writer, resets>>
  BY DEF Mined
<1>3. /\ transfers' \in [1..k -> [to : Writers, mined : BOOLEAN]] /\ DOMAIN transfers' = DOMAIN transfers
      /\ \A i \in DOMAIN transfers : /\ transfers'[i].to = transfers[i].to
                                     /\ transfers[i].mined => transfers'[i].mined
  BY <1>1, <1>2
<1>4. TransfersOK'
  BY <1>3 DEF TransfersOK
<1>5. QED
  BY <1>2, <1>3, <1>4, ReactParts, ChainStep

\* The transfer is reserved before the Writer looks at the chain, and no
\* other request for it gets in until it was served or given up.
LEMMA ReserveStep ==
  ASSUME ReactInv, NEW c \in calls, Reserve(c)
  PROVE  ReactInv'
<1>1. /\ c \in ToolCalls /\ c.tool = "sent" /\ c.to \in Writers /\ c.tx \in DOMAIN transfers
      /\ c.tx \in Numbers /\ c.tx \notin writer[c.to].used /\ c.tx \notin writer[c.to].pending
  BY ReactParts DEF ReactInv, Reserve, CallFine, Duplicate, ReservedOrUsed
<1>2. PICK d : d = [c EXCEPT !.tool = "verifying"]
  OBVIOUS
<1>3. d \in ToolCalls /\ d.tool = "verifying" /\ d.to = c.to /\ d.tx = c.tx
  BY <1>1, <1>2 DEF ToolCalls
<1>4. /\ calls' = (calls \ {c}) \cup {d} /\ UNCHANGED <<hunt, transfers, resets>>
      /\ writer' = [writer EXCEPT ![c.to].pending = writer[c.to].pending \cup {c.tx}]
  BY <1>2 DEF Reserve, Proceeds
<1>5. writer \in [Writers -> Memories]
  BY ReactParts
<1>6. /\ writer' \in [Writers -> Memories]
      /\ \A w \in Writers \ {c.to} : writer'[w] = writer[w]
      /\ writer'[c.to].pending = writer[c.to].pending \cup {c.tx}
      /\ writer'[c.to].used = writer[c.to].used /\ writer'[c.to].served = writer[c.to].served
  BY <1>1, <1>4, <1>5 DEF Memories
<1>7. ReactTypeOK'
  BY <1>3, <1>4, <1>6 DEF ReactInv, ReactTypeOK, TransfersOK
<1>8. HuntFine(hunt)' /\ \A e \in calls' : CallFine(e)'
  BY <1>1, <1>3, <1>4 DEF ReactInv, HuntFine, CallFine, PaidTo
<1>9. MemoryFine'
  <2>1. \A w \in Writers : /\ writer'[w].pending \cap writer'[w].used = {}
                           /\ \A n \in Numbers : writer'[w].served[n] = IF n \in writer'[w].used THEN 1 ELSE 0
    <3> TAKE w \in Writers
    <3>1. CASE w = c.to
      BY <1>1, <1>6, <3>1 DEF ReactInv, MemoryFine
    <3>2. CASE w # c.to
      BY <1>6, <3>2 DEF ReactInv, MemoryFine
    <3>3. QED
      BY <3>1, <3>2
  <2>2. \A e \in calls : Serving(e) => e.to \in Writers /\ e.tx \in writer[e.to].pending
    BY DEF ReactInv, MemoryFine, Serving, CallFine
  <2>3. \A e \in calls' : Serving(e) => e.tx \in writer'[e.to].pending
    BY <1>3, <1>4, <1>6, <2>2
  <2>4. \A e, f \in calls' : Serving(e) /\ Serving(f) /\ e.to = f.to /\ e.tx = f.tx => e = f
    BY <1>1, <1>3, <1>4, <2>2 DEF ReactInv, MemoryFine
  <2>5. QED
    BY <2>1, <2>3, <2>4 DEF MemoryFine
<1>10. QED
  BY <1>7, <1>8, <1>9 DEF ReactInv

LEMMA LookStep ==
  ASSUME ReactInv, NEW c \in calls, VerifyTransfer(c)
  PROVE  ReactInv'
<1>1. /\ c \in ToolCalls /\ c.tool = "verifying" /\ c.to \in Writers /\ c.tx \in DOMAIN transfers
      /\ PaidTo(c.tx, c.to)
  BY ReactParts DEF ReactInv, VerifyTransfer, CallFine, Acceptable, PaidTo
<1>2. PICK d : d = [c EXCEPT !.tool = "executing"]
  OBVIOUS
<1>3. d \in ToolCalls /\ d.tool = "executing" /\ d.to = c.to /\ d.tx = c.tx
  BY <1>1, <1>2 DEF ToolCalls
<1>4. calls' = (calls \ {c}) \cup {d} /\ UNCHANGED <<hunt, transfers, writer, resets>>
  BY <1>2 DEF VerifyTransfer, Proceeds
<1>5. ReactTypeOK'
  BY <1>3, <1>4 DEF ReactInv, ReactTypeOK, TransfersOK
<1>6. HuntFine(hunt)' /\ \A e \in calls' : CallFine(e)'
  BY <1>1, <1>3, <1>4 DEF ReactInv, HuntFine, CallFine, PaidTo
<1>7. MemoryFine'
  BY <1>1, <1>3, <1>4 DEF ReactInv, MemoryFine, Serving
<1>8. QED
  BY <1>5, <1>6, <1>7 DEF ReactInv

\* A reservation ends: the transfer was used, or it is given up.
LEMMA ReservationEnds ==
  ASSUME ReactInv, NEW c \in calls, Serving(c), hunt' \in Hunts, HuntFine(hunt)',
         calls' \subseteq ToolCalls,
         UNCHANGED <<transfers, resets>>, writer' \in [Writers -> Memories],
         \A w \in Writers \ {c.to} : writer'[w] = writer[w],
         writer'[c.to].pending = writer[c.to].pending \ {c.tx},
         writer'[c.to].pending \cap writer'[c.to].used = {},
         \A n \in Numbers : writer'[c.to].served[n] = IF n \in writer'[c.to].used THEN 1 ELSE 0,
         \A d \in calls' : d \in calls \ {c} \/ (~Serving(d) /\ CallFine(d))
  PROVE  ReactInv'
<1>1. ReactTypeOK'
  BY DEF ReactInv, ReactTypeOK, TransfersOK
<1>2. \A e \in calls' : CallFine(e)'
  BY DEF ReactInv, CallFine, PaidTo
<1>3. MemoryFine'
  <2>1. \A w \in Writers : /\ writer'[w].pending \cap writer'[w].used = {}
                           /\ \A n \in Numbers : writer'[w].served[n] = IF n \in writer'[w].used THEN 1 ELSE 0
    <3> TAKE w \in Writers
    <3>1. CASE w = c.to
      BY <3>1
    <3>2. CASE w # c.to
      BY <3>2 DEF ReactInv, MemoryFine
    <3>3. QED
      BY <3>1, <3>2
  <2>2. \A e \in calls : Serving(e) => e.to \in Writers /\ e.tx \in writer[e.to].pending
    BY DEF ReactInv, MemoryFine, Serving, CallFine
  <2>3. ASSUME NEW e \in calls', Serving(e)
        PROVE  e.tx \in writer'[e.to].pending
    <3>1. e \in calls /\ e # c /\ e.to \in Writers /\ e.tx \in writer[e.to].pending
      BY <2>2, <2>3
    <3>2. e.to = c.to => e.tx # c.tx
      BY <2>3, <3>1 DEF ReactInv, MemoryFine
    <3>3. QED
      BY <3>1, <3>2
  <2>4. \A e, f \in calls' : Serving(e) /\ Serving(f) /\ e.to = f.to /\ e.tx = f.tx => e = f
    BY DEF ReactInv, MemoryFine
  <2>5. QED
    BY <2>1, <2>3, <2>4 DEF MemoryFine
<1>4. QED
  BY <1>1, <1>2, <1>3 DEF ReactInv

LEMMA ExecuteStep ==
  ASSUME ReactInv, NEW c \in calls, Execute(c)
  PROVE  ReactInv'
<1>1. /\ c \in ToolCalls /\ c.tool = "executing" /\ c.to \in Writers /\ PaidTo(c.tx, c.to)
      /\ c.tx \in Numbers /\ c.tx \in writer[c.to].pending
  BY ReactParts DEF ReactInv, Execute, CallFine, MemoryFine, Serving
<1>2. PICK d : d = [c EXCEPT !.tool = "answered"]
  OBVIOUS
<1>3. d \in ToolCalls /\ d.tool = "answered" /\ d.to = c.to /\ d.tx = c.tx
  BY <1>1, <1>2 DEF ToolCalls
<1>4. calls' = (calls \ {c}) \cup {d} /\ UNCHANGED <<hunt, transfers, resets>>
  BY <1>2 DEF Execute, Proceeds
<1>5. writer' = [writer EXCEPT ![c.to].pending = @ \ {c.tx}, ![c.to].used = @ \cup {c.tx},
                                 ![c.to].served[c.tx] = @ + 1]
  BY DEF Execute
<1>6. writer \in [Writers -> Memories] /\ writer[c.to] \in Memories
  BY <1>1, ReactParts
<1>7. PICK s \in [Numbers -> Nat] : s = [writer[c.to].served EXCEPT ![c.tx] = writer[c.to].served[c.tx] + 1]
  <2>1. writer[c.to].served \in [Numbers -> Nat]
    BY <1>6 DEF Memories
  <2>2. ASSUME NEW f \in [Numbers -> Nat], NEW n \in Numbers
        PROVE  [f EXCEPT ![n] = f[n] + 1] \in [Numbers -> Nat]
    <3>1. f[n] + 1 \in Nat
      OBVIOUS
    <3>2. QED
      BY <3>1
  <2>3. [writer[c.to].served EXCEPT ![c.tx] = writer[c.to].served[c.tx] + 1] \in [Numbers -> Nat]
    BY <1>1, <2>1, <2>2
  <2>4. QED
    BY <2>3
<1>8. PICK m : m = [writer[c.to] EXCEPT !.pending = writer[c.to].pending \ {c.tx},
                      !.used = writer[c.to].used \cup {c.tx}, !.served = s]
  OBVIOUS
<1>9. /\ m \in Memories /\ m.pending = writer[c.to].pending \ {c.tx}
      /\ m.used = writer[c.to].used \cup {c.tx} /\ m.served = s
  BY <1>1, <1>6, <1>8 DEF Memories
<1>10. writer' = [writer EXCEPT ![c.to] = m]
  BY <1>1, <1>6, <1>8, <1>5, <1>7 DEF Memories
<1>11. writer' \in [Writers -> Memories] /\ writer'[c.to] = m /\ \A w \in Writers \ {c.to} : writer'[w] = writer[w]
  BY <1>1, <1>6, <1>9, <1>10
<1>12. /\ writer[c.to].pending \cap writer[c.to].used = {}
       /\ \A n \in Numbers : writer[c.to].served[n] = IF n \in writer[c.to].used THEN 1 ELSE 0
  BY <1>1 DEF ReactInv, MemoryFine
<1>13. m.pending \cap m.used = {} /\ \A n \in Numbers : m.served[n] = IF n \in m.used THEN 1 ELSE 0
  BY <1>1, <1>6, <1>9, <1>12, <1>7 DEF Memories
<1>14. CallFine(d) /\ ~Serving(d) /\ Serving(c)
  BY <1>1, <1>3 DEF CallFine, PaidTo, Serving
<1>15. hunt' \in Hunts /\ HuntFine(hunt)' /\ calls' \subseteq ToolCalls
  BY <1>3, <1>4, ReactParts DEF ReactInv, HuntFine, PaidTo
<1>16. QED
  BY <1>4, <1>9, <1>11, <1>13, <1>14, <1>15, ReservationEnds

LEMMA RefuseStep ==
  ASSUME ReactInv, NEW c \in calls, Refuse(c)
  PROVE  ReactInv'
<1>1. calls' = calls \ {c} /\ hunt' = [hunt EXCEPT !.at = "failed"] /\ UNCHANGED <<transfers, resets>>
  BY DEF Refuse, Throws, Returns
<1>2. hunt' \in Hunts /\ hunt'.tx = hunt.tx /\ hunt'.execution = hunt.execution /\ hunt'.report = hunt.report
  BY <1>1, ReactParts DEF Hunts
<1>3. HuntFine(hunt)' /\ calls' \subseteq ToolCalls
  BY <1>1, <1>2, ReactParts DEF ReactInv, HuntFine, PaidTo
<1>4. CASE UNCHANGED writer
  BY <1>1, <1>2, <1>3, <1>4, ToolStep
<1>5. CASE Serving(c) /\ writer' = [writer EXCEPT ![c.to].pending = writer[c.to].pending \ {c.tx}]
  <2>1. writer \in [Writers -> Memories] /\ c.to \in Writers
    BY <1>5, ReactParts DEF ReactInv, CallFine, Serving
  <2>2. /\ writer' \in [Writers -> Memories] /\ \A w \in Writers \ {c.to} : writer'[w] = writer[w]
        /\ writer'[c.to].pending = writer[c.to].pending \ {c.tx}
        /\ writer'[c.to].used = writer[c.to].used /\ writer'[c.to].served = writer[c.to].served
    BY <1>5, <2>1 DEF Memories
  <2>3. /\ writer[c.to].pending \cap writer[c.to].used = {}
        /\ \A n \in Numbers : writer[c.to].served[n] = IF n \in writer[c.to].used THEN 1 ELSE 0
    BY <2>1 DEF ReactInv, MemoryFine
  <2>4. QED
    BY <1>1, <1>2, <1>3, <1>5, <2>2, <2>3, ReservationEnds
<1>6. QED
  BY <1>4, <1>5 DEF Refuse, Serving

LEMMA WriterRestartStep ==
  ASSUME ReactInv, NEW w \in Writers, WriterRestarts(w)
  PROVE  ReactInv'
<1> DEFINE cut == {c \in calls : c.to = w /\ c.tool \in {"verifying", "executing", "answered"}}
<1>1. /\ resets' = resets + 1 /\ writer' = [writer EXCEPT ![w] = NoMemory] /\ transfers' = transfers
      /\ calls' = calls \ cut
      /\ hunt' = hunt \/ hunt' = [hunt EXCEPT !.at = "failed"]
  BY DEF WriterRestarts
<1>2. hunt' \in Hunts /\ hunt'.tx = hunt.tx /\ hunt'.execution = hunt.execution /\ hunt'.report = hunt.report
  BY <1>1, ReactParts DEF Hunts
<1>3. /\ NoMemory \in Memories /\ NoMemory.pending = {} /\ NoMemory.used = {}
      /\ \A n \in Numbers : NoMemory.served[n] = 0
  BY DEF NoMemory, Memories, Numbers
<1>4. /\ writer' \in [Writers -> Memories] /\ writer'[w] = NoMemory
      /\ \A v \in Writers \ {w} : writer'[v] = writer[v]
  BY <1>1, <1>3, ReactParts
<1>5. ReactTypeOK'
  BY <1>1, <1>2, <1>4 DEF ReactInv, ReactTypeOK, TransfersOK
<1>6. HuntFine(hunt)' /\ \A e \in calls' : CallFine(e)'
  BY <1>1, <1>2 DEF ReactInv, HuntFine, CallFine, PaidTo
<1>7. MemoryFine'
  <2>1. \A v \in Writers : /\ writer'[v].pending \cap writer'[v].used = {}
                           /\ \A n \in Numbers : writer'[v].served[n] = IF n \in writer'[v].used THEN 1 ELSE 0
    <3> TAKE v \in Writers
    <3>1. CASE v = w
      BY <1>3, <1>4, <3>1
    <3>2. CASE v # w
      BY <1>4, <3>2 DEF ReactInv, MemoryFine
    <3>3. QED
      BY <3>1, <3>2
  <2>2. \A e \in calls' : e \in calls /\ (Serving(e) => e.to \in Writers /\ e.to # w)
    BY <1>1 DEF ReactInv, CallFine, Serving
  <2>3. \A e \in calls' : Serving(e) => e.tx \in writer'[e.to].pending
    BY <1>4, <2>2 DEF ReactInv, MemoryFine
  <2>4. \A e, f \in calls' : Serving(e) /\ Serving(f) /\ e.to = f.to /\ e.tx = f.tx => e = f
    BY <2>2 DEF ReactInv, MemoryFine
  <2>5. QED
    BY <2>1, <2>3, <2>4 DEF MemoryFine
<1>8. QED
  BY <1>5, <1>6, <1>7 DEF ReactInv

LEMMA ReactInvNext == ReactInv /\ [ReactNext]_reactVars => ReactInv'
<1> SUFFICES ASSUME ReactInv, [ReactNext]_reactVars PROVE ReactInv'
  OBVIOUS
<1>1. CASE UNCHANGED reactVars
  <2>1. UNCHANGED <<hunt, calls, transfers, writer, resets>>
    BY <1>1 DEF reactVars
  <2>2. HuntFine(hunt)'
    BY <2>1 DEF ReactInv, HuntFine, PaidTo
  <2>3. QED
    BY <2>1, <2>2, ReactParts, ToolStep
<1>2. CASE Thinks \/ Concludes
  BY <1>2, TurnStep
<1>3. ASSUME NEW c \in calls,
             \/ DiscoverServices(c) \/ EvaluateService(c) \/ RequestService(c)
             \/ MakePayment(c) \/ Broadcast(c) \/ PaymentConfirmed(c)
             \/ SubmitPayment(c) \/ ResultArrives(c) \/ VerifyReceipt(c) \/ OtherTool(c) \/ ToolFails(c)
             \/ Reserve(c) \/ VerifyTransfer(c) \/ Execute(c) \/ Refuse(c)
      PROVE  ReactInv'
  BY <1>3, ToolReturns, PaymentToolStep, BroadcastStep, ReserveStep, LookStep, ExecuteStep, RefuseStep
<1>4. ASSUME NEW n \in DOMAIN transfers, Mined(n) PROVE ReactInv'
  BY <1>4, MinedStep
<1>5. ASSUME NEW w \in Writers, WriterRestarts(w) PROVE ReactInv'
  BY <1>5, WriterRestartStep
<1>6. QED
  BY <1>1, <1>2, <1>3, <1>4, <1>5 DEF ReactNext

THEOREM ReactInvariant == ReactSpec => []ReactInv
<1>1. ReactSpec => ReactInv /\ [][ReactNext]_reactVars
  BY ReactInvInit DEF ReactSpec
<1>2. QED
  BY <1>1, ReactInvNext, PTL

(* A verified report is of a result that its service's provider gave for a
   transfer this mission made to it, in whatever order the model called its
   tools: the receipt is verified on what the state says at the end, and a
   Writer answers only for a transfer it found on the chain.                *)
THEOREM VerifiedIsAlwaysPaidFor == ReactSpec => []VerifiedIsPaidFor
<1>1. ReactInv => VerifiedIsPaidFor
  BY DEF ReactInv, HuntFine, PaidTo, VerifiedIsPaidFor
<1>2. QED
  BY <1>1, ReactInvariant, PTL

(* A Writer that stays up executes at most once for a transfer: it reserves
   the transfer before anything else, whatever requests arrive together.    *)
THEOREM ServedAtMostOnce == ReactSpec => []ServedOncePerPayment
<1>1. ReactInv => ServedOncePerPayment
  BY DEF ReactInv, MemoryFine, ServedOncePerPayment, Numbers
<1>2. QED
  BY <1>1, ReactInvariant, PTL

-----------------------------------------------------------------------------
(* FinalReport: what a report says comes from one reading of the inputs.   *)

ReportFine(r) ==
  /\ r.hashes.baseline2.facts = r.hashes.truth2.facts
  /\ r.hashes.truth2.enrichment = r.token
  /\ r.hashes.baseline3.adjudication = r.hashes.truth3.adjudication
  /\ r.hashes.baseline3.adjudication.review = r.hashes.baseline3.review
  /\ r.hashes.baseline3.adjudication.slither = r.hashes.baseline3.review.slither
  /\ r.hashes.truth3.paid = r.paid

\* What is at work on a desk; `got` may be anything.
Works(t) == t = [script |-> t.script, step |-> t.step, got |-> t.got, open |-> t.open] /\ t.step \in Nat
Writing(t) == t.script = "finalise" /\ t.step > Len(Reads) + 1
DeskFine(t) == t = Idle \/ (Works(t) /\ (Writing(t) => RowsBound(t.got)))

FinalInv ==
  /\ adv = [f \in DOMAIN adv |-> adv[f]] /\ "report" \in DOMAIN adv
  /\ DOMAIN desk = Desks /\ \A d \in Desks : DeskFine(desk[d])
  /\ desk = [d \in Desks |-> desk[d]]
  /\ adv["report"] # Torn => ReportFine(adv["report"])

LEMMA ReportOfOneReading ==
  ASSUME NEW got, RowsBound(got)
  PROVE  ReportFine(Report([f \in Named |-> HashOf(f, got)], got))
BY DEF RowsBound, ReportFine, Report, Named, HashOf, MadeOf, Adjudication, Baseline2, Baseline3, Truth2, Truth3

LEMMA FinalInvInit == FinalInit => FinalInv
<1> SUFFICES ASSUME FinalInit PROVE FinalInv
  OBVIOUS
<1>1. PICK inputs : inputs = InputsOf(First)
  OBVIOUS
<1>2. RowsBound(inputs) /\ inputs.truth1 = First
  BY <1>1 DEF InputsOf, RowsBound
<1>3. adv["report"] = Report([f \in Named |-> IF f = "truth1" THEN First ELSE MadeOf(inputs)[f]], inputs)
  BY <1>1 DEF FinalInit, InputsOf, MadeOf
<1>4. adv["report"] = Report([f \in Named |-> HashOf(f, inputs)], inputs)
  BY <1>2, <1>3 DEF HashOf
<1>5. adv = [f \in DOMAIN adv |-> adv[f]] /\ "report" \in DOMAIN adv
  BY DEF FinalInit
<1>6. desk = [d \in Desks |-> Idle]
  BY DEF FinalInit
<1>7. QED
  BY <1>2, <1>4, <1>5, <1>6, ReportOfOneReading DEF FinalInv, DeskFine

\* A step that moves one desk.
LEMMA DeskMoves ==
  ASSUME FinalInv, NEW d \in Desks, NEW t, desk' = [desk EXCEPT ![d] = t], DeskFine(t),
         adv' = [f \in DOMAIN adv |-> adv'[f]], DOMAIN adv' = DOMAIN adv,
         adv'["report"] # Torn => ReportFine(adv'["report"])
  PROVE  FinalInv'
BY DEF FinalInv

LEMMA GoesOn ==
  ASSUME FinalInv, NEW d \in Desks, NEW n \in Nat, NEW got, Continues(d, n, got), desk[d] # Idle,
         desk[d].script = "finalise" /\ n > Len(Reads) + 1 => RowsBound(got)
  PROVE  \E t : desk' = [desk EXCEPT ![d] = t] /\ DeskFine(t)
<1>1. PICK t : t = [desk[d] EXCEPT !.step = n, !.got = got, !.open = FALSE]
  OBVIOUS
<1>2. Works(desk[d])
  BY DEF FinalInv, DeskFine
<1>3. t = [script |-> desk[d].script, step |-> n, got |-> got, open |-> FALSE]
  BY <1>1, <1>2 DEF Works
<1>4. desk' = [desk EXCEPT ![d] = t]
  BY <1>1 DEF Continues, FinalInv
<1>5. DeskFine(t)
  BY <1>3 DEF DeskFine, Works, Writing
<1>6. QED
  BY <1>4, <1>5

LEMMA ItEnds ==
  ASSUME FinalInv, NEW d \in Desks, Over(d), desk[d] # Idle
  PROVE  \E t : desk' = [desk EXCEPT ![d] = t] /\ DeskFine(t)
<1>1. 0 \in Nat /\ ~(0 > Len(Reads) + 1)
  BY DEF Reads
<1>2. Continues(d, 0, << >>)
  BY DEF Over, Finished
<1>3. QED
  BY <1>1, <1>2, GoesOn

\* A file other than the report is written.
LEMMA Written ==
  ASSUME FinalInv, NEW f, f # "report", NEW c, adv' = [adv EXCEPT ![f] = c]
  PROVE  /\ adv' = [g \in DOMAIN adv |-> adv'[g]] /\ DOMAIN adv' = DOMAIN adv
         /\ adv'["report"] # Torn => ReportFine(adv'["report"])
BY DEF FinalInv

LEMMA ReportWritten ==
  ASSUME FinalInv, NEW c, adv' = [adv EXCEPT !["report"] = c], c # Torn => ReportFine(c)
  PROVE  /\ adv' = [g \in DOMAIN adv |-> adv'[g]] /\ DOMAIN adv' = DOMAIN adv
         /\ adv'["report"] # Torn => ReportFine(adv'["report"])
BY DEF FinalInv

LEMMA TruncateStep ==
  ASSUME FinalInv, NEW d \in Desks, NEW f, desk[d] # Idle, Truncates(d, f)
  PROVE  FinalInv'
<1>1. PICK t : t = [desk[d] EXCEPT !.open = TRUE]
  OBVIOUS
<1>2. DeskFine(desk[d]) /\ Works(desk[d])
  BY DEF FinalInv, DeskFine
<1>3. t = [script |-> desk[d].script, step |-> desk[d].step, got |-> desk[d].got, open |-> TRUE]
  BY <1>1, <1>2 DEF Works
<1>4. DeskFine(t)
  BY <1>2, <1>3 DEF DeskFine, Works, Writing
<1>5. desk' = [desk EXCEPT ![d] = t] /\ adv' = [adv EXCEPT ![f] = Torn]
  BY <1>1 DEF Truncates, FinalInv
<1>6. /\ adv' = [g \in DOMAIN adv |-> adv'[g]] /\ DOMAIN adv' = DOMAIN adv
      /\ adv'["report"] # Torn => ReportFine(adv'["report"])
  BY <1>5 DEF FinalInv
<1>7. QED
  BY <1>4, <1>5, <1>6, DeskMoves

\* A step that ends, reads or begins, and writes nothing of the report.
LEMMA FinaliserReads ==
  ASSUME FinalInv, NEW d \in Desks, ReadInput(d) \/ Dies(d) \/ StartFinaliser(d)
  PROVE  FinalInv'
<1>1. UNCHANGED adv
  BY DEF ReadInput, Dies, StartFinaliser
<1>2. /\ adv' = [f \in DOMAIN adv |-> adv'[f]] /\ DOMAIN adv' = DOMAIN adv
      /\ adv'["report"] # Torn => ReportFine(adv'["report"])
  BY <1>1 DEF FinalInv
<1>3. CASE StartFinaliser(d)
  <2>1. PICK t : t = [script |-> "finalise", step |-> 1, got |-> << >>, open |-> FALSE]
    OBVIOUS
  <2>2. DeskFine(t)
    BY <2>1 DEF DeskFine, Works, Writing, Reads
  <2>3. QED
    BY <1>2, <1>3, <2>1, <2>2, DeskMoves DEF StartFinaliser, Starts
<1>4. CASE Dies(d)
  BY <1>2, <1>4, ItEnds, DeskMoves DEF Dies
<1>5. CASE ReadInput(d)
  <2>1. PICK k \in 1..8 : /\ AtStep(d, "finalise", k)
                          /\ Over(d) \/ \E got : Continues(d, k + 1, got)
    BY <1>5 DEF ReadInput, Reads
  <2>2. desk[d] # Idle /\ k + 1 \in Nat /\ k + 1 <= Len(Reads) + 1
    BY <2>1 DEF AtStep, Reads
  <2>3. CASE Over(d)
    BY <1>2, <2>2, <2>3, ItEnds, DeskMoves
  <2>4. CASE \E got : Continues(d, k + 1, got)
    <3>1. PICK got : Continues(d, k + 1, got)
      BY <2>4
    <3>2. ~(k + 1 > Len(Reads) + 1)
      BY <2>2 DEF Reads
    <3>3. QED
      BY <1>2, <2>2, <3>1, <3>2, GoesOn, DeskMoves
  <2>5. QED
    BY <2>1, <2>3, <2>4
<1>6. QED
  BY <1>3, <1>4, <1>5

LEMMA ArtifactStep ==
  ASSUME FinalInv, NEW d \in Desks, WriteArtifact(d)
  PROVE  FinalInv'
<1>1. PICK k \in 1..6 : \E f, got :
        /\ f = Writes[k] /\ got = desk[d].got
        /\ AtStep(d, "finalise", Len(Reads) + k)
        /\ IF ~RowsBound(got) THEN Over(d) /\ UNCHANGED <<adv, replaced>>
           ELSE \/ Truncates(d, f)
                \/ Fills(d, f, MadeOf(got)[f]) /\ Continues(d, Len(Reads) + k + 1, got)
  BY SMTT(40) DEF WriteArtifact, Writes
<1>2. PICK f, got :
        /\ f = Writes[k] /\ AtStep(d, "finalise", Len(Reads) + k)
        /\ IF ~RowsBound(got) THEN Over(d) /\ UNCHANGED <<adv, replaced>>
           ELSE \/ Truncates(d, f)
                \/ Fills(d, f, MadeOf(got)[f]) /\ Continues(d, Len(Reads) + k + 1, got)
  BY <1>1
<1>3. f # "report"
  BY <1>2 DEF Writes
<1>4. desk[d] # Idle /\ Len(Reads) + k + 1 \in Nat
  BY <1>2 DEF AtStep, Reads
<1>5. CASE ~RowsBound(got)
  <2>1. Over(d) /\ UNCHANGED adv
    BY <1>2, <1>5
  <2>2. /\ adv' = [g \in DOMAIN adv |-> adv'[g]] /\ DOMAIN adv' = DOMAIN adv
        /\ adv'["report"] # Torn => ReportFine(adv'["report"])
    BY <2>1 DEF FinalInv
  <2>3. QED
    BY <1>4, <2>1, <2>2, ItEnds, DeskMoves
<1>6. CASE RowsBound(got) /\ Truncates(d, f)
  BY <1>4, <1>6, TruncateStep
<1>7. CASE RowsBound(got) /\ Fills(d, f, MadeOf(got)[f]) /\ Continues(d, Len(Reads) + k + 1, got)
  <2>1. PICK c : adv' = [adv EXCEPT ![f] = c]
    BY <1>7 DEF Fills
  <2>2. QED
    BY <1>3, <1>4, <1>7, <2>1, Written, GoesOn, DeskMoves
<1>8. QED
  BY <1>2, <1>5, <1>6, <1>7

LEMMA ReportStep ==
  ASSUME FinalInv, NEW d \in Desks, WriteReport(d)
  PROVE  FinalInv'
<1>1. PICK got : /\ got = desk[d].got /\ AtStep(d, "finalise", Len(Reads) + Len(Writes))
                 /\ \/ Truncates(d, "report")
                    \/ /\ Fills(d, "report", Report([f \in Named |-> HashOf(f, got)], got))
                       /\ Over(d)
  BY DEF WriteReport
<1>2. desk[d] # Idle /\ RowsBound(got)
  BY <1>1 DEF AtStep, FinalInv, DeskFine, Writing, Reads, Writes
<1>3. PICK r : r = Report([f \in Named |-> HashOf(f, got)], got) /\ ReportFine(r)
  BY <1>2, ReportOfOneReading
<1>4. CASE Truncates(d, "report")
  BY <1>2, <1>4, TruncateStep
<1>5. CASE Fills(d, "report", r) /\ Over(d)
  <2>1. PICK c : adv' = [adv EXCEPT !["report"] = c] /\ (c # Torn => c = r)
    BY <1>5 DEF Fills
  <2>2. QED
    BY <1>2, <1>3, <1>5, <2>1, ReportWritten, ItEnds, DeskMoves
<1>6. QED
  BY <1>1, <1>3, <1>4, <1>5

LEMMA OtherScripts ==
  ASSUME FinalInv, NEW d \in Desks,
         StartCandidate(d) \/ ScoreCandidate(d) \/ WriteCandidate(d) \/ RunToolBaseline(d)
  PROVE  FinalInv'
<1>1. \/ \E f, c : f # "report" /\ adv' = [adv EXCEPT ![f] = c]
      \/ UNCHANGED adv
  BY DEF StartCandidate, ScoreCandidate, WriteCandidate, RunToolBaseline
<1>2. /\ adv' = [g \in DOMAIN adv |-> adv'[g]] /\ DOMAIN adv' = DOMAIN adv
      /\ adv'["report"] # Torn => ReportFine(adv'["report"])
  BY <1>1 DEF FinalInv
<1>3. \E t : desk' = [desk EXCEPT ![d] = t] /\ DeskFine(t)
  <2>1. CASE StartCandidate(d)
    <3>1. PICK got : Starts(d, "candidate1", 1, got)
      BY <2>1 DEF StartCandidate
    <3>2. PICK t : t = [script |-> "candidate1", step |-> 1, got |-> got, open |-> FALSE]
      OBVIOUS
    <3>3. DeskFine(t)
      BY <3>2 DEF DeskFine, Works, Writing
    <3>4. QED
      BY <3>1, <3>2, <3>3 DEF Starts
  <2>2. CASE ScoreCandidate(d)
    <3>1. PICK got : Continues(d, 2, got)
      BY <2>2 DEF ScoreCandidate
    <3>2. desk[d] # Idle /\ ~(2 > Len(Reads) + 1) /\ 2 \in Nat
      BY <2>2 DEF ScoreCandidate, AtStep, Reads
    <3>3. QED
      BY <3>1, <3>2, GoesOn
  <2>3. CASE WriteCandidate(d)
    BY <2>3, ItEnds DEF WriteCandidate, AtStep
  <2>4. CASE RunToolBaseline(d)
    <3>1. PICK t : t = [script |-> "tool", step |-> 0, got |-> << >>, open |-> FALSE]
      OBVIOUS
    <3>2. DeskFine(t)
      BY <3>1 DEF DeskFine, Works, Writing
    <3>3. QED
      BY <2>4, <3>1, <3>2 DEF RunToolBaseline, Starts, Finished
  <2>5. QED
    BY <2>1, <2>2, <2>3, <2>4
<1>4. QED
  BY <1>2, <1>3, DeskMoves

LEMMA FinalInvNext == FinalInv /\ [FinalNext]_finalVars => FinalInv'
<1> SUFFICES ASSUME FinalInv, [FinalNext]_finalVars PROVE FinalInv'
  OBVIOUS
<1>1. CASE Replaces
  <2>1. UNCHANGED desk /\ \E f, c : f # "report" /\ adv' = [adv EXCEPT ![f] = c]
    BY <1>1 DEF Replaces, Replace
  <2>2. QED
    BY <2>1 DEF FinalInv
<1>2. CASE UNCHANGED finalVars
  BY <1>2 DEF FinalInv, finalVars
<1>3. QED
  BY <1>1, <1>2, FinaliserReads, ArtifactStep, ReportStep, OtherScripts DEF FinalNext

\* Whatever scripts overlap or die, a report that is not torn was made from one
\* reading, and a finaliser writes only if the review is of the detections it
\* read (finalize-agent-advantage.ts, which checks before its first write).
THEOREM FinalInvariant == FinalSpec => []FinalInv
<1>1. QED
  BY FinalInvInit, FinalInvNext, PTL DEF FinalSpec

\* A report that the validator accepts comes from one reading of the inputs,
\* however many finalisers wrote the same files at the same time: the hashes
\* in the report bind the other files to its reading.
THEOREM AcceptedIsOneReading == FinalSpec => []AcceptedReportIsOneReading
<1>1. FinalInv => AcceptedReportIsOneReading
  BY DEF FinalInv, AcceptedReportIsOneReading, ReportAccepted, Whole, ReportBound, Named, ReportFine
<1>2. QED
  BY <1>1, FinalInvariant, PTL

-----------------------------------------------------------------------------
(* EvidenceStudy: an enrichment, and a candidate, is of one report.        *)

EnrichmentFine(e) == e.dex = e.of
CandidateFine(c) ==
  /\ c.source = ImplementationOf[c.of] /\ c.review.of = c.of
  /\ c.enrichment.of = c.of /\ c.enrichment.dex = c.of

\* What a script has yet to rename into place; `got` may be anything.
TodoFine(todo) ==
  /\ "enrichment" \in DOMAIN todo => EnrichmentFine(todo["enrichment"])
  /\ "candidate" \in DOMAIN todo => CandidateFine(todo["candidate"])
Holding(script, step, got) ==
  (script = "candidate" /\ step \in {"source", "audit"}) => EnrichmentFine(got.enrichment)
ShellFine(s) ==
  \/ s = Prompt
  \/ /\ s = [script |-> s.script, step |-> s.step, got |-> s.got, todo |-> s.todo]
     /\ TodoFine(s.todo) /\ Holding(s.script, s.step, s.got)

StudyInv ==
  /\ dir = [n \in DOMAIN dir |-> dir[n]] /\ EnrichmentFine(dir["enrichment"]) /\ CandidateFine(dir["candidate"])
  /\ {"enrichment", "candidate"} \subseteq DOMAIN dir
  /\ shell = [t \in Terminals |-> shell[t]] /\ \A t \in Terminals : ShellFine(shell[t])

LEMMA StudyInvInit == StudyInit => StudyInv
<1> SUFFICES ASSUME StudyInit PROVE StudyInv
  OBVIOUS
<1>1. ASSUME NEW p, NEW o
      PROVE  /\ EnrichmentFine(StudyOf(p, o)["enrichment"]) /\ CandidateFine(StudyOf(p, o)["candidate"])
             /\ {"enrichment", "candidate"} \subseteq DOMAIN StudyOf(p, o)
  BY DEF EnrichmentFine, CandidateFine, StudyOf
<1>2. PICK q \in Studies, stale \in {S \in SUBSET DOMAIN HeldStudy : Cardinality(S) <= MaxStale} :
        LET other == StudyOf(q, CHOOSE o \in Opinions : TRUE) IN
        dir = [n \in DOMAIN HeldStudy |-> IF n \in stale THEN other[n] ELSE HeldStudy[n]]
  BY DEF StudyInit
<1>3. PICK first, other :
        /\ first = HeldStudy /\ other = StudyOf(q, CHOOSE o \in Opinions : TRUE)
        /\ EnrichmentFine(first["enrichment"]) /\ CandidateFine(first["candidate"])
        /\ EnrichmentFine(other["enrichment"]) /\ CandidateFine(other["candidate"])
        /\ {"enrichment", "candidate"} \subseteq DOMAIN first
  BY <1>1 DEF HeldStudy
<1>4. /\ dir = [n \in DOMAIN dir |-> dir[n]] /\ {"enrichment", "candidate"} \subseteq DOMAIN dir
      /\ EnrichmentFine(dir["enrichment"]) /\ CandidateFine(dir["candidate"])
  <2>1. DOMAIN dir = DOMAIN first /\ \A n \in DOMAIN dir : dir[n] = IF n \in stale THEN other[n] ELSE first[n]
    BY <1>2, <1>3
  <2>2. dir = [n \in DOMAIN dir |-> dir[n]]
    BY <1>2
  <2>3. QED
    BY <1>3, <2>1, <2>2
<1>5. shell = [t \in Terminals |-> Prompt]
  BY DEF StudyInit
<1>6. QED
  BY <1>4, <1>5 DEF StudyInv, ShellFine

\* A script that opens, reads or goes on leaves the directory alone.
LEMMA ShellMoves ==
  ASSUME StudyInv, NEW t \in Terminals, NEW s, shell' = [shell EXCEPT ![t] = s], ShellFine(s), UNCHANGED dir
  PROVE  StudyInv'
BY DEF StudyInv

LEMMA ScriptOpens ==
  ASSUME StudyInv, NEW t \in Terminals, NEW script, NEW got, Opens(t, script, got)
  PROVE  StudyInv'
<1>1. PICK s : s = [script |-> script, step |-> "read", got |-> got, todo |-> << >>]
  OBVIOUS
<1>2. DOMAIN << >> = {}
  OBVIOUS
<1>3. ShellFine(s)
  BY <1>1, <1>2 DEF ShellFine, TodoFine, Holding
<1>4. QED
  BY <1>1, <1>3, ShellMoves DEF Opens

LEMMA ScriptGoes ==
  ASSUME StudyInv, NEW t \in Terminals, NEW step, NEW got, NEW todo, Goes(t, step, got, todo),
         TodoFine(todo), Holding(shell[t].script, step, got)
  PROVE  StudyInv'
<1>1. PICK s : s = [script |-> shell[t].script, step |-> step, got |-> got, todo |-> todo]
  OBVIOUS
<1>2. shell' = [shell EXCEPT ![t] = s]
  BY <1>1 DEF Goes, StudyInv
<1>3. ShellFine(s)
  BY <1>1 DEF ShellFine
<1>4. QED
  BY <1>2, <1>3, ShellMoves DEF Goes

LEMMA ScriptEnds ==
  ASSUME StudyInv, NEW t \in Terminals, NEW todo, Ends(t, todo), TodoFine(todo)
  PROVE  StudyInv'
<1>1. Holding(shell[t].script, "end", << >>)
  BY DEF Holding
<1>2. QED
  BY <1>1, ScriptGoes DEF Ends

LEMMA ScriptStops ==
  ASSUME StudyInv, NEW t \in Terminals, GivesUp(t)
  PROVE  StudyInv'
<1>1. ShellFine(Prompt)
  BY DEF ShellFine
<1>2. QED
  BY <1>1, ShellMoves DEF GivesUp

\* Files other than the two.
LEMMA OtherFiles ==
  ASSUME NEW todo, {"enrichment", "candidate"} \cap DOMAIN todo = {}
  PROVE  TodoFine(todo)
BY DEF TodoFine

LEMMA RenameStep ==
  ASSUME StudyInv, NEW t \in Terminals, Rename(t)
  PROVE  StudyInv'
<1>1. PICK todo : todo = shell[t].todo
  OBVIOUS
<1>2. PICK n : /\ shell[t] # Prompt /\ n \in DOMAIN todo /\ dir' = [dir EXCEPT ![n] = todo[n]]
               /\ shell' = [shell EXCEPT ![t] =
                    IF shell[t].step = "end" /\ DOMAIN todo \ {n} = {} THEN Prompt
                    ELSE [shell[t] EXCEPT !.todo = [m \in DOMAIN todo \ {n} |-> todo[m]]]]
  <2>1. PICK n \in DOMAIN shell[t].todo :
          LET rest == DOMAIN shell[t].todo \ {n} IN
          /\ dir' = [dir EXCEPT ![n] = shell[t].todo[n]]
          /\ shell' = [shell EXCEPT ![t] =
               IF shell[t].step = "end" /\ rest = {} THEN Prompt
               ELSE [shell[t] EXCEPT !.todo = [m \in rest |-> shell[t].todo[m]]]]
    BY DEF Rename
  <2>2. shell[t] # Prompt
    BY DEF Rename
  <2>3. QED
    BY <1>1, <2>1, <2>2
<1>3. TodoFine(todo) /\ Holding(shell[t].script, shell[t].step, shell[t].got)
  BY <1>1, <1>2 DEF StudyInv, ShellFine
<1>4. PICK rest : rest = [m \in DOMAIN todo \ {n} |-> todo[m]]
  OBVIOUS
<1>5. TodoFine(rest)
  BY <1>3, <1>4 DEF TodoFine
<1>6. PICK s : shell' = [shell EXCEPT ![t] = s] /\ ShellFine(s)
  <2>1. shell[t] = [script |-> shell[t].script, step |-> shell[t].step, got |-> shell[t].got, todo |-> todo]
    BY <1>1, <1>2 DEF StudyInv, ShellFine
  <2>2. PICK s : s = [shell[t] EXCEPT !.todo = rest]
    OBVIOUS
  <2>3. s = [script |-> shell[t].script, step |-> shell[t].step, got |-> shell[t].got, todo |-> rest]
    BY <2>1, <2>2
  <2>4. ShellFine(s) /\ ShellFine(Prompt)
    BY <1>3, <1>5, <2>3 DEF ShellFine
  <2>5. QED
    BY <1>2, <1>4, <2>2, <2>4
<1>7. /\ dir' = [m \in DOMAIN dir' |-> dir'[m]] /\ DOMAIN dir' = DOMAIN dir
      /\ EnrichmentFine(dir'["enrichment"]) /\ CandidateFine(dir'["candidate"])
  BY <1>2, <1>3 DEF StudyInv, TodoFine
<1>8. QED
  BY <1>6, <1>7 DEF StudyInv

\* Every other script writes neither, or one that is of one report.
LEMMA StudyScripts ==
  ASSUME StudyInv, NEW t \in Terminals,
         \/ RunReview(t) \/ RunSnapshot(t) \/ RunTriage(t) \/ RunPrepare(t)
         \/ RunBaseline2(t) \/ RunBaseline3(t)
  PROVE  StudyInv'
<1>1. \A x : LET none(todo) == {"enrichment", "candidate"} \cap DOMAIN todo = {} IN
               /\ none([rpc |-> x]) /\ none([model2 |-> x]) /\ none([baseline2 |-> x])
               /\ none([slither |-> x]) /\ none([model3 |-> x]) /\ none([baseline3 |-> x])
  OBVIOUS
<1>2. \/ \E script, got : Opens(t, script, got)
      \/ \E todo : Ends(t, todo) /\ {"enrichment", "candidate"} \cap DOMAIN todo = {}
      \/ \E step, got, todo : /\ Goes(t, step, got, todo) /\ shell[t].script # "candidate"
                              /\ {"enrichment", "candidate"} \cap DOMAIN todo = {}
  <2>1. CASE RunReview(t)
    BY <2>1 DEF RunReview
  <2>2. CASE RunSnapshot(t)
    BY <2>2 DEF RunSnapshot
  <2>3. CASE RunTriage(t)
    BY <2>3 DEF RunTriage
  <2>4. CASE RunPrepare(t)
    BY <2>4 DEF RunPrepare
  <2>5. CASE RunBaseline2(t)
    <3>1. \/ \E got : Opens(t, "baseline2", got)
          \/ shell[t].script = "baseline2" /\ \E x : Goes(t, "model", x, [rpc |-> x])
          \/ shell[t].script = "baseline2" /\ \E x : Goes(t, "report", x, [model2 |-> x])
          \/ \E x : Ends(t, [baseline2 |-> x])
      BY <2>5, Zenon DEF RunBaseline2, At
    <3>2. QED
      BY <1>1, <3>1
  <2>6. CASE RunBaseline3(t)
    <3>1. \/ \E got : Opens(t, "baseline3", got)
          \/ shell[t].script = "baseline3" /\ \E got, x : Goes(t, "model", got, [slither |-> x])
          \/ shell[t].script = "baseline3" /\ \E x : Goes(t, "report", x, [model3 |-> x])
          \/ \E x : Ends(t, [baseline3 |-> x])
      BY <2>6, Zenon DEF RunBaseline3, At
    <3>2. QED
      BY <1>1, <3>1
  <2>7. QED
    BY <2>1, <2>2, <2>3, <2>4, <2>5, <2>6
<1>3. CASE \E script, got : Opens(t, script, got)
  BY <1>3, ScriptOpens
<1>4. CASE \E todo : Ends(t, todo) /\ {"enrichment", "candidate"} \cap DOMAIN todo = {}
  BY <1>4, OtherFiles, ScriptEnds
<1>5. CASE \E step, got, todo : /\ Goes(t, step, got, todo) /\ shell[t].script # "candidate"
                                /\ {"enrichment", "candidate"} \cap DOMAIN todo = {}
  <2>1. \A step, got : shell[t].script # "candidate" => Holding(shell[t].script, step, got)
    BY DEF Holding
  <2>2. QED
    BY <1>5, <2>1, OtherFiles, ScriptGoes
<1>6. QED
  BY <1>2, <1>3, <1>4, <1>5

\* The liquidity is read at the report's block, or kept from it.
LEMMA EnrichmentStep ==
  ASSUME StudyInv, NEW t \in Terminals, RunEnrichment(t)
  PROVE  StudyInv'
<1>1. PICK got : got = shell[t].got
  OBVIOUS
<1>2. \/ \E reads : Opens(t, "enrichment", reads)
      \/ GivesUp(t)
      \/ Ends(t, [enrichment |-> [of |-> got.of, dex |-> got.of]])
      \/ got.old.dex = got.of /\ Ends(t, [enrichment |-> [of |-> got.of, dex |-> got.old.dex]])
  BY <1>1 DEF RunEnrichment, MayReuse
<1>3. TodoFine([enrichment |-> [of |-> got.of, dex |-> got.of]])
  BY DEF TodoFine, EnrichmentFine
<1>4. QED
  BY <1>2, <1>3, ScriptOpens, ScriptStops, ScriptEnds

\* What was read of an enrichment stays with the script that read it.
LEMMA CandidateStep ==
  ASSUME StudyInv, NEW t \in Terminals, RunCandidate(t)
  PROVE  StudyInv'
<1>1. CASE \E got : Opens(t, "candidate", got)
  BY <1>1, ScriptOpens
<1>2. CASE At(t, "candidate", "read") /\ RunCandidate(t) /\ \A got : ~Opens(t, "candidate", got)
  <2>1. PICK got : /\ got = [of |-> shell[t].got.of, review |-> dir.review, enrichment |-> dir.enrichment]
                   /\ Goes(t, "source", got, << >>)
    BY <1>2 DEF RunCandidate, At
  <2>2. Holding(shell[t].script, "source", got)
    BY <2>1 DEF StudyInv, Holding
  <2>3. DOMAIN << >> = {}
    OBVIOUS
  <2>4. TodoFine(<< >>)
    BY <2>3, OtherFiles
  <2>5. QED
    BY <2>1, <2>2, <2>4, ScriptGoes
<1>3. CASE /\ At(t, "candidate", "source")
           /\ GivesUp(t) \/ Goes(t, "audit", shell[t].got, << >>)
  <2>1. Holding(shell[t].script, "audit", shell[t].got)
    BY <1>3 DEF StudyInv, ShellFine, Holding, At
  <2>2. DOMAIN << >> = {}
    OBVIOUS
  <2>3. TodoFine(<< >>)
    BY <2>2, OtherFiles
  <2>4. QED
    BY <1>3, <2>1, <2>3, ScriptGoes, ScriptStops
<1>4. CASE At(t, "candidate", "audit") /\ RunCandidate(t) /\ \A got : ~Opens(t, "candidate", got)
  <2>1. PICK got : got = shell[t].got /\ EnrichmentFine(got.enrichment)
    BY <1>4 DEF StudyInv, ShellFine, Holding, At
  <2>2. CASE GivesUp(t)
    BY <2>2, ScriptStops
  <2>3. CASE \E audit : LET source == ImplementationOf[got.of] IN
               /\ Synthesises(got)
               /\ Ends(t, [source    |-> source,
                           auditor   |-> audit,
                           verifier  |-> [source |-> source, answer |-> audit.answer],
                           candidate |-> [of |-> got.of, source |-> source, answer |-> audit.answer,
                                          review |-> got.review, enrichment |-> got.enrichment]])
    <3>1. PICK audit, candidate, todo :
            /\ Synthesises(got) /\ Ends(t, todo)
            /\ candidate = [of |-> got.of, source |-> ImplementationOf[got.of], answer |-> audit.answer,
                            review |-> got.review, enrichment |-> got.enrichment]
            /\ todo = [source |-> ImplementationOf[got.of], auditor |-> audit,
                       verifier |-> [source |-> ImplementationOf[got.of], answer |-> audit.answer],
                       candidate |-> candidate]
      BY <2>3
    <3>2. CandidateFine(candidate)
      BY <2>1, <3>1 DEF CandidateFine, EnrichmentFine, Synthesises
    <3>3. TodoFine(todo)
      BY <3>1, <3>2 DEF TodoFine
    <3>4. QED
      BY <3>1, <3>3, ScriptEnds
  <2>4. QED
    BY <1>4, <2>1, <2>2, <2>3 DEF RunCandidate, At
<1>5. QED
  BY <1>1, <1>2, <1>3, <1>4 DEF RunCandidate

LEMMA StudyInvNext == StudyInv /\ [StudyNext]_studyVars => StudyInv'
<1> SUFFICES ASSUME StudyInv, [StudyNext]_studyVars PROVE StudyInv'
  OBVIOUS
<1>1. CASE \E p \in Studies : PaysAgain(p)
  <2>1. PICK p : dir' = [dir EXCEPT !["paid"] = p] /\ UNCHANGED shell
    BY <1>1 DEF PaysAgain
  <2>2. QED
    BY <2>1 DEF StudyInv
<1>2. CASE UNCHANGED studyVars
  BY <1>2 DEF StudyInv, studyVars
<1>3. ASSUME NEW t \in Terminals, Killed(t)
      PROVE  StudyInv'
  BY <1>3, ScriptStops DEF Killed
<1>4. QED
  BY <1>1, <1>2, <1>3, StudyScripts, EnrichmentStep, CandidateStep, RenameStep DEF StudyNext

\* Every enrichment in the directory, or about to be put there, has its
\* liquidity from its own report's block, and every candidate was put together
\* from a review and an enrichment of its own report
\* (synthesizeDueDiligenceCandidate throws otherwise).
THEOREM StudyInvariant == StudySpec => []StudyInv
<1>1. QED
  BY StudyInvInit, StudyInvNext, PTL DEF StudySpec

\* What the validator compares is enough: a directory it accepts, whatever
\* scripts overlapped or died, is of one paid report in the respects it does
\* not compare as well.
THEOREM AcceptedStudyIsOne == StudySpec => []AcceptedIsOneStudy
<1>1. StudyInv => AcceptedIsOneStudy
  <2> SUFFICES ASSUME StudyInv, Accepted
               PROVE  LET p == dir.paid IN
                      /\ dir.source = ImplementationOf[p]
                      /\ dir.candidate.review.of = p
                      /\ {dir.candidate.enrichment.dex, dir.enrichment.dex} = {p}
                      /\ dir.model2.shown.of = p /\ dir.model2.shown.bundle.of = p
                      /\ dir.model3.shown[1].source = ImplementationOf[p] /\ dir.model3.shown[2].of = p
    BY DEF AcceptedIsOneStudy
  <2>1. dir.source = ImplementationOf[dir.paid] /\ dir.candidate.review.of = dir.paid
    BY DEF StudyInv, CandidateFine, Accepted, CandidateBound
  <2>2. dir.enrichment.of = dir.paid /\ dir.bundle2.of = dir.paid
    BY DEF Accepted, AgentSideBound
  <2>3. dir.candidate.enrichment.dex = dir.paid /\ dir.enrichment.dex = dir.paid
    BY <2>2 DEF StudyInv, CandidateFine, EnrichmentFine, Accepted, CandidateBound
  <2>4. dir.model2.shown.of = dir.paid /\ dir.model2.shown.bundle.of = dir.paid
    BY <2>2 DEF Accepted, TokenBaselineBound
  <2>5. dir.model3.shown = <<dir.slither, dir.rpc>> /\ dir.slither.source = dir.source /\ dir.rpc.of = dir.paid
    BY DEF Accepted, TokenBaselineBound, DueDiligenceBaselineBound
  <2>6. dir.model3.shown[1] = dir.slither /\ dir.model3.shown[2] = dir.rpc
    BY <2>5
  <2>7. QED
    BY <2>1, <2>3, <2>4, <2>5, <2>6
<1>2. QED
  BY <1>1, StudyInvariant, PTL

-----------------------------------------------------------------------------
(* IdentityRegistration: what the scripts registered, or may have.         *)

AnyWallet == Wallets \cup {NoWallet}
Records == [token : Nat, wallet : AnyWallet]
ProgramStates ==
  [kind : {"none", "script", "service"},
   at : {"none", "waiting", "entered", "ready", "sent", "minted", "bind", "binding", "bound", "over", "dead"},
   target : AnyWallet, copy : Records \cup {NoIdentity}]

IdentityTypeOK ==
  /\ identities \in Seq([by : Programs, wallet : AnyWallet])
  /\ unmined \subseteq [of : Programs, token : Nat, wallet : AnyWallet] /\ IsFiniteSet(unmined)
  /\ onRecord \in Records \cup {NoIdentity} /\ regLock \in 0..MaxPrograms
  /\ program \in [Programs -> ProgramStates] /\ erred \in Nat

\* A script at work holds the lock, and keeps it when it dies; what is to be
\* saved is a record.
ProgramFine(p, held) ==
  /\ (p.kind = "none") <=> (p.at = "none")
  /\ p.kind = "service" => p.at \notin {"waiting", "dead"}
  /\ p.kind = "script" => p.at \notin {"bind", "binding", "bound"}
  /\ held => (p.kind = "script" /\ p.at \in {"entered", "ready", "sent", "minted", "dead"})
  /\ p.kind = "script" /\ p.at \in {"entered", "ready", "sent", "minted"} => held
  /\ p.at \in {"minted", "bind", "binding", "bound"} => p.copy \in Records

ScriptTokens == {n \in DOMAIN identities : program[identities[n].by].kind = "script"}
ScriptsOut == {t \in unmined : t.token = 0 /\ program[t.of].kind = "script"}

\* One registration beyond the errors is accounted for: it is on record, or
\* the holder of the lock sent it.  A script that is ready to register has
\* found nothing on record.
Slack ==
  IF regLock # 0 /\ program[regLock].at = "ready" THEN 0
  ELSE IF onRecord # NoIdentity \/ (regLock # 0 /\ program[regLock].at \in {"sent", "minted", "dead"})
  THEN 1 ELSE 0

IdentityInv ==
  /\ IdentityTypeOK
  /\ \A i \in Programs : ProgramFine(program[i], regLock = i)
  /\ \A n \in DOMAIN identities : program[identities[n].by].kind # "none"
  /\ \A t \in unmined : program[t.of].kind # "none"
  /\ Cardinality(ScriptTokens) + Cardinality(ScriptsOut) <= erred + Slack

LEMMA Elements ==
  ASSUME NEW S, NEW q \in Seq(S)
  PROVE  /\ DOMAIN q = 1..Len(q) /\ Len(q) \in Nat /\ \A n \in DOMAIN q : q[n] \in S
         /\ q \in [1..Len(q) -> S]
OBVIOUS

LEMMA Replaced ==
  ASSUME NEW S, NEW q \in Seq(S), NEW n \in DOMAIN q, NEW x \in S
  PROVE  /\ [q EXCEPT ![n] = x] \in Seq(S) /\ DOMAIN [q EXCEPT ![n] = x] = DOMAIN q
         /\ \A m \in DOMAIN q : [q EXCEPT ![n] = x][m] = IF m = n THEN x ELSE q[m]
OBVIOUS

LEMMA CountsAreFinite ==
  ASSUME IdentityInv
  PROVE  /\ IsFiniteSet(ScriptTokens) /\ IsFiniteSet(ScriptsOut) /\ Slack \in {0, 1} /\ erred \in Nat
         /\ Cardinality(ScriptTokens) \in Nat /\ Cardinality(ScriptsOut) \in Nat
<1>1. DOMAIN identities = 1..Len(identities) /\ Len(identities) \in Nat
  BY DEF IdentityInv, IdentityTypeOK
<1>2. IsFiniteSet(ScriptTokens)
  <2>1. IsFiniteSet(DOMAIN identities)
    BY <1>1, FS_Interval
  <2>2. QED
    BY <2>1, FS_Subset DEF ScriptTokens
<1>3. IsFiniteSet(ScriptsOut)
  BY FS_Subset DEF ScriptsOut, IdentityInv, IdentityTypeOK
<1>4. QED
  BY <1>2, <1>3, FS_CardinalityType DEF Slack, IdentityInv, IdentityTypeOK

\* A step of program i, which may send a transaction: e counts one more
\* registration of a script.
LEMMA OneProgram ==
  ASSUME IdentityInv, NEW i \in Programs, NEW p \in ProgramStates, NEW e \in {0, 1},
         program' = [program EXCEPT ![i] = p], p.kind # "none",
         p.kind = program[i].kind \/ program[i].kind = "none",
         regLock' \in 0..MaxPrograms, ProgramFine(p, regLock' = i),
         \A j \in Programs \ {i} : (regLock' = j) <=> (regLock = j),
         onRecord' \in Records \cup {NoIdentity}, erred' \in Nat,
         identities' \in Seq([by : Programs, wallet : AnyWallet]), DOMAIN identities' = DOMAIN identities,
         \A n \in DOMAIN identities : identities'[n].by = identities[n].by,
         \/ unmined' \subseteq unmined
         \/ \E t \in [of : Programs, token : Nat, wallet : AnyWallet] :
              t.of = i /\ unmined' = unmined \cup {t} /\ (e = 1 \/ p.kind # "script"),
         erred + Slack + e <= erred' + Slack'
  PROVE  IdentityInv'
<1>1. /\ program \in [Programs -> ProgramStates] /\ program'[i] = p
      /\ \A j \in Programs \ {i} : program'[j] = program[j]
      /\ program' \in [Programs -> ProgramStates]
  BY DEF IdentityInv, IdentityTypeOK
<1>2. /\ identities \in Seq([by : Programs, wallet : AnyWallet])
      /\ unmined \subseteq [of : Programs, token : Nat, wallet : AnyWallet] /\ IsFiniteSet(unmined)
  BY DEF IdentityInv, IdentityTypeOK
<1>3. /\ unmined' \subseteq [of : Programs, token : Nat, wallet : AnyWallet] /\ IsFiniteSet(unmined')
      /\ \A t \in unmined' : t \in unmined \/ t.of = i
  BY <1>2, FS_Subset, FS_AddElement
<1>4. IdentityTypeOK'
  BY <1>1, <1>3 DEF IdentityTypeOK
<1>5. \A j \in Programs : ProgramFine(program'[j], regLock' = j)
  BY <1>1 DEF IdentityInv, ProgramFine
<1>6. \A j \in Programs : program[j].kind # "none" => program'[j].kind = program[j].kind
  BY <1>1
<1>7. \A n \in DOMAIN identities : /\ identities[n].by \in Programs /\ program[identities[n].by].kind # "none"
  <2>1. \A n \in DOMAIN identities : identities[n] \in [by : Programs, wallet : AnyWallet]
    BY <1>2, Elements
  <2>2. QED
    BY <2>1 DEF IdentityInv
<1>8. ScriptTokens' = ScriptTokens /\ \A n \in DOMAIN identities' : program'[identities'[n].by].kind # "none"
  BY <1>6, <1>7 DEF ScriptTokens
<1>9. \A t \in unmined : t.of \in Programs /\ program[t.of].kind # "none"
  BY <1>2 DEF IdentityInv
<1>10. \A t \in unmined' : program'[t.of].kind # "none"
  BY <1>1, <1>3, <1>6, <1>9
<1>11. Cardinality(ScriptsOut') <= Cardinality(ScriptsOut) + e
  <2>1. CASE ScriptsOut' \subseteq ScriptsOut
    BY <2>1, CountsAreFinite, FS_Subset, FS_CardinalityType
  <2>2. CASE unmined' \subseteq unmined
    <3>1. ScriptsOut' \subseteq ScriptsOut
      BY <1>6, <1>9, <2>2 DEF ScriptsOut
    <3>2. QED
      BY <2>1, <3>1
  <2>3. ASSUME NEW t \in [of : Programs, token : Nat, wallet : AnyWallet],
               t.of = i, unmined' = unmined \cup {t}, e = 1 \/ p.kind # "script"
        PROVE  Cardinality(ScriptsOut') <= Cardinality(ScriptsOut) + e
    <3>1. ScriptsOut' \subseteq ScriptsOut \cup {t}
      BY <1>6, <1>9, <2>3 DEF ScriptsOut
    <3>2. CASE e = 1
      <4>1. PICK S : S = ScriptsOut \cup {t}
        OBVIOUS
      <4>2. IsFiniteSet(S) /\ Cardinality(S) <= Cardinality(ScriptsOut) + 1
        <5>1. IsFiniteSet(ScriptsOut) /\ Cardinality(ScriptsOut) \in Nat
          BY CountsAreFinite
        <5>2. /\ IsFiniteSet(S)
              /\ Cardinality(S) = IF t \in ScriptsOut THEN Cardinality(ScriptsOut) ELSE Cardinality(ScriptsOut) + 1
          BY <4>1, <5>1, FS_AddElement
        <5>3. QED
          BY <5>1, <5>2
      <4>3. QED
        BY <3>1, <3>2, <4>1, <4>2, CountsAreFinite, FS_Subset, FS_CardinalityType
    <3>3. CASE p.kind # "script"
      <4>1. t \notin ScriptsOut'
        BY <1>1, <2>3, <3>3 DEF ScriptsOut
      <4>2. QED
        BY <2>1, <3>1, <4>1
    <3>4. QED
      BY <2>3, <3>2, <3>3
  <2>4. QED
    BY <2>2, <2>3
<1>12. Cardinality(ScriptsOut') \in Nat
  <2>1. IsFiniteSet(ScriptsOut')
    BY <1>3, FS_Subset DEF ScriptsOut
  <2>2. QED
    BY <2>1, FS_CardinalityType
<1>13. Slack' \in {0, 1}
  BY DEF Slack
<1>14. (Cardinality(ScriptTokens) + Cardinality(ScriptsOut) <= erred + Slack)'
  <2>1. Cardinality(ScriptTokens) + Cardinality(ScriptsOut) <= erred + Slack
    BY DEF IdentityInv
  <2>2. Cardinality(ScriptTokens') = Cardinality(ScriptTokens)
    BY <1>8
  <2>3. QED
    BY <1>11, <1>12, <1>13, <2>1, <2>2, CountsAreFinite, SMTT(40)
<1>15. QED
  BY <1>4, <1>5, <1>8, <1>10, <1>14 DEF IdentityInv

\* Away from the lock, the slack can only grow.
LEMMA SlackKept ==
  ASSUME IdentityInv, NEW i \in Programs, NEW p, program' = [program EXCEPT ![i] = p],
         regLock' = regLock, regLock # i, onRecord' = onRecord \/ onRecord' # NoIdentity
  PROVE  Slack <= Slack'
<1>1. /\ program \in [Programs -> ProgramStates] /\ regLock \in 0..MaxPrograms /\ MaxPrograms \in Nat
  BY IdentityAssumption DEF IdentityInv, IdentityTypeOK
<1>2. regLock # 0 => program'[regLock] = program[regLock]
  BY <1>1 DEF Programs
<1>3. QED
  BY <1>2 DEF Slack

LEMMA StandsAs ==
  ASSUME IdentityInv, NEW i \in Programs, NEW at, Stands(i, at), [program[i] EXCEPT !.at = at] \in ProgramStates
  PROVE  \E p \in ProgramStates : /\ program' = [program EXCEPT ![i] = p]
                                  /\ p.kind = program[i].kind /\ p.at = at /\ p.copy = program[i].copy
<1>1. program[i] \in ProgramStates /\ program \in [Programs -> ProgramStates]
  BY DEF IdentityInv, IdentityTypeOK
<1>2. PICK p \in ProgramStates : p = [program[i] EXCEPT !.at = at]
  OBVIOUS
<1>3. program' = [program EXCEPT ![i] = p]
  BY <1>1, <1>2 DEF Stands
<1>4. p.kind = program[i].kind /\ p.at = at /\ p.copy = program[i].copy
  BY <1>1, <1>2 DEF ProgramStates
<1>5. QED
  BY <1>3, <1>4

LEMMA StandsWithAs ==
  ASSUME IdentityInv, NEW i \in Programs, NEW at \in {"minted", "bind"}, NEW copy \in Records, StandsWith(i, at, copy)
  PROVE  \E p \in ProgramStates : /\ program' = [program EXCEPT ![i] = p]
                                  /\ p.kind = program[i].kind /\ p.at = at /\ p.copy = copy
<1>1. program[i] \in ProgramStates /\ program \in [Programs -> ProgramStates]
  BY DEF IdentityInv, IdentityTypeOK
<1>2. PICK p : p = [program[i] EXCEPT !.at = at, !.copy = copy]
  OBVIOUS
<1>3. program' = [program EXCEPT ![i] = p]
  BY <1>1, <1>2 DEF StandsWith
<1>4. p \in ProgramStates /\ p.kind = program[i].kind /\ p.at = at /\ p.copy = copy
  BY <1>1, <1>2 DEF ProgramStates
<1>5. QED
  BY <1>3, <1>4

LEMMA StopsAs ==
  ASSUME IdentityInv, NEW i \in Programs, NEW at \in {"over", "dead"}, Stops(i, at)
  PROVE  \E p \in ProgramStates : /\ program' = [program EXCEPT ![i] = p]
                                  /\ p.kind = program[i].kind /\ p.at = at
<1>1. program[i].kind \in {"none", "script", "service"} /\ NoWallet \in AnyWallet
  BY DEF IdentityInv, IdentityTypeOK, ProgramStates, AnyWallet
<1>2. PICK p : p = [NotStarted EXCEPT !.kind = program[i].kind, !.at = at]
  OBVIOUS
<1>3. p \in ProgramStates /\ p.kind = program[i].kind /\ p.at = at
  BY <1>1, <1>2 DEF ProgramStates, NotStarted
<1>4. program' = [program EXCEPT ![i] = p]
  BY <1>2 DEF Stops
<1>5. QED
  BY <1>3, <1>4

\* The facts about one program that its steps start from.
LEMMA ProgramParts ==
  ASSUME IdentityInv, NEW i \in Programs
  PROVE  /\ program \in [Programs -> ProgramStates] /\ program[i] \in ProgramStates
         /\ regLock \in 0..MaxPrograms /\ MaxPrograms \in Nat /\ i # 0 /\ i \in 0..MaxPrograms
         /\ ProgramFine(program[i], regLock = i)
         /\ onRecord \in Records \cup {NoIdentity} /\ erred \in Nat /\ NoIdentity \notin Records
         /\ identities \in Seq([by : Programs, wallet : AnyWallet])
         /\ Slack \in {0, 1} /\ Slack' \in {0, 1}
BY IdentityAssumption DEF IdentityInv, IdentityTypeOK, Programs, Records, AnyWallet, Slack

\* A step of one program that sends nothing, and does not touch what the slack
\* counts.
LEMMA QuietStep ==
  ASSUME IdentityInv, NEW i \in Programs, NEW p \in ProgramStates,
         program' = [program EXCEPT ![i] = p], p.kind # "none",
         p.kind = program[i].kind \/ program[i].kind = "none",
         regLock' \in 0..MaxPrograms, ProgramFine(p, regLock' = i),
         \A j \in Programs \ {i} : (regLock' = j) <=> (regLock = j),
         onRecord' \in Records \cup {NoIdentity}, erred' \in Nat, UNCHANGED <<identities, unmined>>,
         erred + Slack <= erred' + Slack'
  PROVE  IdentityInv'
<1>1. PICK e \in {0, 1} : e = 0
  OBVIOUS
<1>2. erred + Slack + e <= erred' + Slack'
  BY <1>1, ProgramParts
<1>3. UNCHANGED identities /\ identities' \in Seq([by : Programs, wallet : AnyWallet]) /\ unmined' \subseteq unmined
  BY ProgramParts
<1>4. QED
  BY <1>2, <1>3, OneProgram

LEMMA LeavesStep ==
  ASSUME IdentityInv, NEW i \in Programs, Leaves(i), program[i].kind # "none",
         onRecord' \in Records \cup {NoIdentity}, erred' \in Nat, UNCHANGED <<identities, unmined>>,
         erred <= erred', onRecord' = onRecord \/ onRecord' # NoIdentity,
         \/ regLock # i
         \/ program[i].at = "ready" \/ erred < erred' \/ onRecord' # NoIdentity
  PROVE  IdentityInv'
<1>1. PICK p \in ProgramStates : /\ program' = [program EXCEPT ![i] = p]
                                 /\ p.kind = program[i].kind /\ p.at = "over"
  BY StopsAs DEF Leaves
<1>2. regLock' = (IF regLock = i THEN 0 ELSE regLock) /\ regLock' \in 0..MaxPrograms /\ regLock' # i
  BY ProgramParts DEF Leaves
<1>3. ProgramFine(p, regLock' = i)
  BY <1>1, <1>2 DEF ProgramFine
<1>4. erred + Slack <= erred' + Slack'
  <2>1. CASE regLock # i
    <3>1. Slack <= Slack'
      BY <1>1, <1>2, <2>1, SlackKept
    <3>2. QED
      BY <3>1, ProgramParts
  <2>2. CASE regLock = i
    <3>1. regLock' = 0 /\ Slack' = IF onRecord' # NoIdentity THEN 1 ELSE 0
      BY <1>2, <2>2 DEF Slack
    <3>2. program[i].at = "ready" => Slack = 0
      BY <2>2, ProgramParts DEF Slack
    <3>3. QED
      BY <2>2, <3>1, <3>2, ProgramParts
  <2>3. QED
    BY <2>1, <2>2
<1>5. \A j \in Programs \ {i} : (regLock' = j) <=> (regLock = j)
  BY <1>2 DEF Programs
<1>6. QED
  BY <1>1, <1>2, <1>3, <1>4, <1>5, QuietStep

LEMMA IdentityInvInit == IdentityInit => IdentityInv
<1> SUFFICES ASSUME IdentityInit PROVE IdentityInv
  OBVIOUS
<1>1. NotStarted \in ProgramStates /\ NotStarted.kind = "none" /\ NotStarted.at = "none" /\ MaxPrograms \in Nat
  BY IdentityAssumption DEF NotStarted, ProgramStates, AnyWallet
<1>2. /\ identities = << >> /\ unmined = {} /\ onRecord = NoIdentity /\ regLock = 0 /\ erred = 0
      /\ program = [i \in Programs |-> NotStarted]
  BY DEF IdentityInit
<1>3. DOMAIN identities = {} /\ identities \in Seq([by : Programs, wallet : AnyWallet])
  BY <1>2
<1>4. IdentityTypeOK
  BY <1>1, <1>2, <1>3, FS_EmptySet DEF IdentityTypeOK
<1>5. \A i \in Programs : ProgramFine(program[i], regLock = i)
  BY <1>1, <1>2 DEF ProgramFine, Programs
<1>6. ScriptTokens = {} /\ ScriptsOut = {} /\ Slack = 0
  BY <1>2, <1>3 DEF ScriptTokens, ScriptsOut, Slack
<1>7. Cardinality(ScriptTokens) = 0 /\ Cardinality(ScriptsOut) = 0
  BY <1>6, FS_EmptySet
<1>8. QED
  BY <1>2, <1>3, <1>4, <1>5, <1>6, <1>7 DEF IdentityInv

LEMMA StartStep ==
  ASSUME IdentityInv, NEW i \in Programs, StartProgram(i)
  PROVE  IdentityInv'
<1>1. program[i].at = "none" /\ program[i].kind = "none" /\ regLock # i /\ UNCHANGED <<identities, unmined, onRecord, regLock, erred>>
  BY ProgramParts DEF StartProgram, Is, ProgramFine
<1>2. PICK p \in ProgramStates : /\ program' = [program EXCEPT ![i] = p]
                                 /\ \/ p.kind = "script" /\ p.at = "waiting"
                                    \/ p.kind = "service" /\ p.at = "entered"
  <2>1. CASE program' = [program EXCEPT ![i].kind = "script", ![i].at = "waiting"]
    <3>1. PICK p : p = [program[i] EXCEPT !.kind = "script", !.at = "waiting"]
      OBVIOUS
    <3>2. program[i] \in ProgramStates
      BY ProgramParts
    <3>3. p \in ProgramStates /\ p.kind = "script" /\ p.at = "waiting"
      BY <3>1, <3>2 DEF ProgramStates
    <3>4. program' = [program EXCEPT ![i] = p]
      BY <2>1, <3>1, ProgramParts
    <3>5. QED
      BY <3>3, <3>4
  <2>2. CASE \E w \in Wallets : program' = [program EXCEPT ![i] = [kind |-> "service", at |-> "entered",
                                                             target |-> w, copy |-> NoIdentity]]
    <3>1. PICK w \in Wallets : program' = [program EXCEPT ![i] = [kind |-> "service", at |-> "entered",
                                                               target |-> w, copy |-> NoIdentity]]
      BY <2>2
    <3>2. PICK p : p = [kind |-> "service", at |-> "entered", target |-> w, copy |-> NoIdentity]
      OBVIOUS
    <3>3. p \in ProgramStates
      BY <3>2 DEF ProgramStates, AnyWallet
    <3>4. QED
      BY <3>1, <3>2, <3>3
  <2>3. QED
    BY <2>1, <2>2 DEF StartProgram
<1>3. Slack <= Slack'
  BY <1>1, <1>2, SlackKept
<1>4. erred + Slack <= erred' + Slack'
  BY <1>1, <1>3, ProgramParts
<1>5. ProgramFine(p, regLock' = i)
  BY <1>1, <1>2 DEF ProgramFine
<1>6. QED
  BY <1>1, <1>2, <1>4, <1>5, ProgramParts, QuietStep

LEMMA EnterStep ==
  ASSUME IdentityInv, NEW i \in Programs, EnterLock(i)
  PROVE  IdentityInv'
<1>1. /\ program[i].at = "waiting" /\ program[i].kind = "script" /\ regLock # i
      /\ UNCHANGED <<identities, unmined, onRecord, erred>>
  BY ProgramParts DEF EnterLock, Is, ProgramFine, ProgramStates
<1>2. CASE Leaves(i)
  <2>1. erred <= erred'
    BY <1>1, ProgramParts
  <2>2. QED
    BY <1>1, <1>2, <2>1, ProgramParts, LeavesStep
<1>3. CASE regLock = 0 /\ regLock' = i /\ Stands(i, "entered")
  <2>1. [program[i] EXCEPT !.at = "entered"] \in ProgramStates
    BY ProgramParts DEF ProgramStates
  <2>2. PICK p \in ProgramStates : /\ program' = [program EXCEPT ![i] = p]
                                   /\ p.kind = "script" /\ p.at = "entered"
    BY <1>1, <1>3, <2>1, StandsAs
  <2>3. program'[regLock'].at = "entered"
    BY <1>3, <2>2, ProgramParts
  <2>4. Slack = Slack'
    BY <1>1, <1>3, <2>3 DEF Slack
  <2>5. ProgramFine(p, regLock' = i)
    BY <1>3, <2>2 DEF ProgramFine
  <2>6. \A j \in Programs \ {i} : (regLock' = j) <=> (regLock = j)
    BY <1>3 DEF Programs
  <2>7. erred + Slack <= erred' + Slack'
    BY <1>1, <2>4, ProgramParts
  <2>8. QED
    BY <1>1, <1>3, <2>2, <2>5, <2>6, <2>7, ProgramParts, QuietStep, ZenonT(40)
<1>4. QED
  BY <1>2, <1>3 DEF EnterLock, LockFree

\* A program goes on, and holds the lock or not as before.
LEMMA GoesOnStep ==
  ASSUME IdentityInv, NEW i \in Programs, NEW p \in ProgramStates,
         program' = [program EXCEPT ![i] = p], p.kind = program[i].kind, program[i].kind # "none",
         UNCHANGED <<identities, unmined, regLock, erred>>,
         onRecord' \in Records \cup {NoIdentity}, onRecord' = onRecord \/ onRecord' # NoIdentity,
         ProgramFine(p, regLock = i),
         \/ regLock # i
         \/ p.at = "ready" /\ program[i].at = "entered" /\ onRecord = NoIdentity
         \/ p.at \in {"sent", "minted", "dead"}
  PROVE  IdentityInv'
<1>1. Slack <= Slack'
  <2>1. CASE regLock # i
    BY <2>1, SlackKept
  <2>2. CASE regLock = i
    <3>1. program'[regLock'].at = p.at /\ regLock' = i /\ i # 0
      BY <2>2, ProgramParts
    <3>2. CASE p.at = "ready" /\ program[i].at = "entered" /\ onRecord = NoIdentity
      <4>1. Slack = 0
        BY <2>2, <3>2 DEF Slack
      <4>2. QED
        BY <4>1, ProgramParts
    <3>3. CASE p.at \in {"sent", "minted", "dead"}
      <4>1. Slack' = 1
        BY <3>1, <3>3 DEF Slack
      <4>2. Slack \in {0, 1}
        BY ProgramParts
      <4>3. QED
        BY <4>1, <4>2
    <3>4. QED
      BY <2>2, <3>2, <3>3
  <2>3. QED
    BY <2>1, <2>2
<1>2. erred + Slack <= erred' + Slack'
  BY <1>1, ProgramParts, SMTT(40)
<1>3. QED
  BY <1>2, ProgramParts, QuietStep

LEMMA LookUpStep ==
  ASSUME IdentityInv, NEW i \in Programs, LookUpIdentity(i)
  PROVE  IdentityInv'
<1>1. /\ program[i].at = "entered" /\ program[i].kind \in {"script", "service"}
      /\ UNCHANGED <<identities, unmined, onRecord, erred>>
  BY ProgramParts DEF LookUpIdentity, Is, ProgramFine, ProgramStates
<1>2. program[i].kind = "script" => regLock = i
  BY <1>1, ProgramParts DEF ProgramFine
<1>3. program[i].kind = "service" => regLock # i
  BY <1>1, ProgramParts DEF ProgramFine
<1>4. program[i] \in ProgramStates
  BY ProgramParts
<1>5. CASE onRecord = NoIdentity /\ Stands(i, "ready") /\ UNCHANGED regLock
  <2>1. [program[i] EXCEPT !.at = "ready"] \in ProgramStates
    BY <1>4 DEF ProgramStates
  <2>2. PICK p \in ProgramStates : /\ program' = [program EXCEPT ![i] = p]
                                   /\ p.kind = program[i].kind /\ p.at = "ready"
    BY <1>5, <2>1, StandsAs
  <2>3. ProgramFine(p, regLock = i)
    BY <1>1, <1>2, <1>3, <2>2 DEF ProgramFine
  <2>4. QED
    BY <1>1, <1>2, <1>3, <1>5, <2>2, <2>3, ProgramParts, GoesOnStep
<1>6. CASE onRecord # NoIdentity /\ Leaves(i)
  <2>1. erred <= erred'
    BY <1>1, ProgramParts
  <2>2. QED
    BY <1>1, <1>6, <2>1, ProgramParts, LeavesStep
<1>7. CASE /\ onRecord # NoIdentity /\ program[i].kind = "service"
           /\ StandsWith(i, "bind", onRecord) /\ UNCHANGED regLock
  <2>1. PICK copy \in Records : copy = onRecord
    BY <1>7, ProgramParts
  <2>2. PICK p \in ProgramStates : /\ program' = [program EXCEPT ![i] = p]
                                   /\ p.kind = program[i].kind /\ p.at = "bind" /\ p.copy = copy
    BY <1>7, <2>1, StandsWithAs
  <2>3. ProgramFine(p, regLock = i)
    BY <1>3, <1>7, <2>1, <2>2 DEF ProgramFine
  <2>4. QED
    BY <1>1, <1>3, <1>7, <2>2, <2>3, ProgramParts, GoesOnStep
<1>8. QED
  BY <1>1, <1>5, <1>6, <1>7 DEF LookUpIdentity

\* An error after the transaction was sent is counted; and only a script
\* holds the lock.
LEMMA FailsStep ==
  ASSUME IdentityInv, NEW i \in Programs, NEW sent \in BOOLEAN, RegistrationFails(i, sent),
         UNCHANGED <<identities, unmined, onRecord>>, program[i].kind # "none",
         sent \/ program[i].at = "ready"
  PROVE  IdentityInv'
<1>1. Leaves(i) /\ erred' = IF sent /\ program[i].kind = "script" THEN erred + 1 ELSE erred
  BY DEF RegistrationFails
<1>2. erred' \in Nat /\ erred <= erred' /\ onRecord' \in Records \cup {NoIdentity}
  BY <1>1, ProgramParts
<1>3. regLock = i => program[i].kind = "script"
  BY ProgramParts DEF ProgramFine
<1>4. regLock # i \/ program[i].at = "ready" \/ erred < erred'
  BY <1>1, <1>3, ProgramParts
<1>5. QED
  BY <1>1, <1>2, <1>4, LeavesStep

LEMMA ConfirmStep ==
  ASSUME IdentityInv, NEW i \in Programs, Confirmed(i)
  PROVE  IdentityInv'
<1>1. /\ program[i].at = "sent" /\ program[i].kind \in {"script", "service"}
      /\ UNCHANGED <<identities, unmined, onRecord>>
  BY ProgramParts DEF Confirmed, Is, ProgramFine, ProgramStates
<1>2. CASE RegistrationFails(i, TRUE)
  BY <1>1, <1>2, FailsStep
<1>3. CASE /\ UNCHANGED <<regLock, erred>>
           /\ \E n \in TokensOf(i) : StandsWith(i, "minted", [token |-> n, wallet |-> NoWallet])
  <2>1. PICK n \in TokensOf(i) : StandsWith(i, "minted", [token |-> n, wallet |-> NoWallet])
    BY <1>3
  <2>2. n \in Nat
    BY ProgramParts, Elements DEF TokensOf
  <2>3. PICK copy \in Records : copy = [token |-> n, wallet |-> NoWallet]
    BY <2>2 DEF Records, AnyWallet
  <2>4. PICK p \in ProgramStates : /\ program' = [program EXCEPT ![i] = p]
                                   /\ p.kind = program[i].kind /\ p.at = "minted" /\ p.copy = copy
    BY <2>1, <2>3, StandsWithAs
  <2>5. ProgramFine(p, regLock = i)
    BY <1>1, <2>4, ProgramParts DEF ProgramFine
  <2>6. QED
    BY <1>1, <1>3, <2>4, <2>5, ProgramParts, GoesOnStep
<1>4. QED
  BY <1>2, <1>3 DEF Confirmed

LEMMA SaveStep ==
  ASSUME IdentityInv, NEW i \in Programs, SaveIdentity(i)
  PROVE  IdentityInv'
<1>1. /\ program[i].at = "minted" /\ program[i].kind \in {"script", "service"}
      /\ program[i].copy \in Records /\ UNCHANGED <<identities, unmined>>
  BY ProgramParts DEF SaveIdentity, Is, ProgramFine, ProgramStates
<1>2. CASE RegistrationFails(i, TRUE) /\ UNCHANGED onRecord
  BY <1>1, <1>2, FailsStep
<1>3. CASE onRecord' = program[i].copy /\ Leaves(i) /\ UNCHANGED erred
  <2>1. erred <= erred' /\ erred' \in Nat /\ onRecord' \in Records \cup {NoIdentity} /\ onRecord' # NoIdentity
    BY <1>1, <1>3, ProgramParts
  <2>2. QED
    BY <1>1, <1>3, <2>1, LeavesStep
<1>4. CASE /\ onRecord' = program[i].copy /\ program[i].kind # "script"
           /\ Stands(i, "bind") /\ UNCHANGED <<regLock, erred>>
  <2>1. onRecord' \in Records \cup {NoIdentity} /\ onRecord' # NoIdentity /\ program[i] \in ProgramStates
    BY <1>1, <1>4, ProgramParts
  <2>2. [program[i] EXCEPT !.at = "bind"] \in ProgramStates
    BY <2>1 DEF ProgramStates
  <2>3. PICK p \in ProgramStates : /\ program' = [program EXCEPT ![i] = p] /\ p.kind = program[i].kind
                                   /\ p.at = "bind" /\ p.copy = program[i].copy
    BY <1>4, <2>2, StandsAs
  <2>4. regLock # i
    BY <1>4, ProgramParts DEF ProgramFine
  <2>5. ProgramFine(p, regLock = i)
    BY <1>1, <1>4, <2>3, <2>4 DEF ProgramFine
  <2>6. QED
    BY <1>1, <1>4, <2>1, <2>3, <2>4, <2>5, GoesOnStep
<1>5. QED
  BY <1>2, <1>3, <1>4 DEF SaveIdentity

LEMMA DeathStep ==
  ASSUME IdentityInv, NEW i \in Programs, ProgramDies(i)
  PROVE  IdentityInv'
<1>1. /\ program[i].at # "none" /\ program[i].kind # "none" /\ UNCHANGED <<identities, unmined, onRecord, regLock, erred>>
  BY ProgramParts DEF ProgramDies, ProgramFine
<1>2. PICK p \in ProgramStates : /\ program' = [program EXCEPT ![i] = p] /\ p.kind = program[i].kind
                                 /\ p.at = IF regLock = i THEN "dead" ELSE "over"
  <2>1. (IF regLock = i THEN "dead" ELSE "over") \in {"over", "dead"}
    OBVIOUS
  <2>2. QED
    BY <2>1, StopsAs DEF ProgramDies
<1>3. ProgramFine(p, regLock = i)
  BY <1>1, <1>2, ProgramParts DEF ProgramFine
<1>4. QED
  BY <1>1, <1>2, <1>3, ProgramParts, GoesOnStep

LEMMA RegisterStep ==
  ASSUME IdentityInv, NEW i \in Programs, Register(i)
  PROVE  IdentityInv'
<1>1. /\ program[i].at = "ready" /\ program[i].kind \in {"script", "service"}
      /\ UNCHANGED <<identities, onRecord>>
  BY ProgramParts DEF Register, Is, ProgramFine, ProgramStates
<1>2. /\ program[i].kind = "script" => regLock = i /\ Slack = 0
      /\ program[i].kind = "service" => regLock # i
  BY <1>1, ProgramParts DEF ProgramFine, Slack
<1>3. CASE RegistrationFails(i, FALSE) /\ UNCHANGED unmined
  BY <1>1, <1>3, FailsStep
<1>4. CASE /\ unmined' = unmined \cup {[of |-> i, token |-> 0, wallet |-> NoWallet]}
           /\ (Stands(i, "sent") /\ UNCHANGED <<regLock, erred>>) \/ RegistrationFails(i, TRUE)
  <2>1. PICK t \in [of : Programs, token : Nat, wallet : AnyWallet] : t.of = i /\ unmined' = unmined \cup {t}
    BY <1>4 DEF AnyWallet
  <2>2. PICK e \in {0, 1} : e = IF program[i].kind = "script" THEN 1 ELSE 0
    OBVIOUS
  <2>3. PICK p \in ProgramStates :
          /\ program' = [program EXCEPT ![i] = p] /\ p.kind = program[i].kind
          /\ \/ p.at = "sent" /\ UNCHANGED <<regLock, erred>>
             \/ /\ p.at = "over" /\ regLock' = IF regLock = i THEN 0 ELSE regLock
                /\ erred' = IF program[i].kind = "script" THEN erred + 1 ELSE erred
    <3>1. CASE Stands(i, "sent") /\ UNCHANGED <<regLock, erred>>
      <4>1. program[i] \in ProgramStates
        BY ProgramParts
      <4>2. [program[i] EXCEPT !.at = "sent"] \in ProgramStates
        BY <4>1 DEF ProgramStates
      <4>3. QED
        BY <3>1, <4>2, StandsAs
    <3>2. CASE RegistrationFails(i, TRUE)
      BY <3>2, StopsAs DEF RegistrationFails, Leaves
    <3>3. QED
      BY <1>4, <3>1, <3>2
  <2>4. /\ regLock' \in 0..MaxPrograms /\ erred' \in Nat /\ onRecord' \in Records \cup {NoIdentity}
        /\ identities' \in Seq([by : Programs, wallet : AnyWallet])
    <3>1. /\ regLock \in 0..MaxPrograms /\ MaxPrograms \in Nat /\ erred \in Nat
          /\ onRecord \in Records \cup {NoIdentity}
          /\ identities \in Seq([by : Programs, wallet : AnyWallet])
      BY ProgramParts
    <3>2. QED
      BY <1>1, <2>3, <3>1
  <2>5. ProgramFine(p, regLock' = i)
    BY <1>1, <1>2, <2>3, ProgramParts DEF ProgramFine
  <2>6. \A j \in Programs \ {i} : (regLock' = j) <=> (regLock = j)
    BY <2>3 DEF Programs
  <2>7. erred + Slack + e <= erred' + Slack'
    <3>1. CASE program[i].kind = "service"
      <4>1. Slack <= Slack' /\ e = 0 /\ erred' = erred
        BY <1>1, <1>2, <2>2, <2>3, <3>1, SlackKept
      <4>2. QED
        BY <4>1, ProgramParts
    <3>2. CASE program[i].kind = "script" /\ p.at = "sent"
      <4>1. program'[regLock'].at = "sent" /\ regLock' # 0 /\ erred' = erred
        BY <1>2, <2>3, <3>2, ProgramParts
      <4>2. Slack' = 1 /\ Slack = 0 /\ e = 1
        BY <1>2, <2>2, <3>2, <4>1 DEF Slack
      <4>3. QED
        BY <4>1, <4>2, ProgramParts
    <3>3. CASE program[i].kind = "script" /\ erred' = erred + 1
      <4>1. Slack = 0 /\ e = 1
        BY <1>2, <2>2, <3>3
      <4>2. QED
        BY <3>3, <4>1, ProgramParts, SMTT(40)
    <3>4. QED
      BY <1>1, <2>3, <3>1, <3>2, <3>3
  <2>8. QED
    BY <1>1, <2>1, <2>2, <2>3, <2>4, <2>5, <2>6, <2>7, OneProgram
<1>5. QED
  BY <1>3, <1>4 DEF Register

\* Binding the wallet is a service's: it is away from the lock.
LEMMA ServiceStep ==
  ASSUME IdentityInv, NEW i \in Programs, NEW p \in ProgramStates, program[i].kind = "service",
         program' = [program EXCEPT ![i] = p], p.kind = "service",
         p.at \in {"bind", "binding", "bound"} => p.copy \in Records,
         p.at \in {"bind", "binding", "bound", "over"},
         UNCHANGED <<regLock, erred>>,
         onRecord' \in Records \cup {NoIdentity}, onRecord' = onRecord \/ onRecord' # NoIdentity,
         identities' \in Seq([by : Programs, wallet : AnyWallet]), DOMAIN identities' = DOMAIN identities,
         \A n \in DOMAIN identities : identities'[n].by = identities[n].by,
         \/ unmined' \subseteq unmined
         \/ \E t \in [of : Programs, token : Nat, wallet : AnyWallet] : t.of = i /\ unmined' = unmined \cup {t}
  PROVE  IdentityInv'
<1>1. regLock # i
  BY ProgramParts DEF ProgramFine
<1>2. Slack <= Slack'
  BY <1>1, SlackKept
<1>3. PICK e \in {0, 1} : e = 0
  OBVIOUS
<1>4. erred + Slack + e <= erred' + Slack'
  BY <1>2, <1>3, ProgramParts
<1>5. ProgramFine(p, regLock' = i)
  BY <1>1 DEF ProgramFine
<1>6. regLock' \in 0..MaxPrograms /\ erred' \in Nat
  BY ProgramParts
<1>7. QED
  BY <1>4, <1>5, <1>6, OneProgram

LEMMA WalletStep ==
  ASSUME IdentityInv, NEW i \in Programs, BindWallet(i) \/ WaitFails(i) \/ SaveWallet(i)
  PROVE  IdentityInv'
<1>1. /\ program[i].at \in {"bind", "binding", "bound"} /\ program[i].kind = "service"
      /\ program[i].copy \in Records /\ UNCHANGED <<identities, regLock, erred>>
  BY ProgramParts DEF BindWallet, WaitFails, SaveWallet, Is, ProgramFine, ProgramStates
<1>2. /\ program[i] \in ProgramStates /\ program[i].target \in AnyWallet
      /\ onRecord \in Records \cup {NoIdentity} /\ NoIdentity \notin Records
      /\ identities \in Seq([by : Programs, wallet : AnyWallet])
  BY ProgramParts DEF ProgramStates
<1>3. CASE UNCHANGED <<unmined, onRecord>> /\ Stops(i, "over")
  <2>1. PICK p \in ProgramStates : program' = [program EXCEPT ![i] = p] /\ p.kind = "service" /\ p.at = "over"
    BY <1>1, <1>3, StopsAs
  <2>2. QED
    BY <1>1, <1>2, <1>3, <2>1, ServiceStep
<1>4. CASE UNCHANGED unmined /\ Stops(i, "over") /\ onRecord' = [program[i].copy EXCEPT !.wallet = program[i].target]
  <2>1. PICK p \in ProgramStates : program' = [program EXCEPT ![i] = p] /\ p.kind = "service" /\ p.at = "over"
    BY <1>1, <1>4, StopsAs
  <2>2. onRecord' \in Records
    BY <1>1, <1>2, <1>4 DEF Records
  <2>3. QED
    BY <1>1, <1>2, <1>4, <2>1, <2>2, ServiceStep
<1>5. CASE UNCHANGED <<unmined, onRecord>> /\ Stands(i, "bound")
  <2>1. [program[i] EXCEPT !.at = "bound"] \in ProgramStates
    BY <1>2 DEF ProgramStates
  <2>2. PICK p \in ProgramStates : /\ program' = [program EXCEPT ![i] = p] /\ p.kind = "service"
                                   /\ p.at = "bound" /\ p.copy = program[i].copy
    BY <1>1, <1>5, <2>1, StandsAs
  <2>3. QED
    BY <1>1, <1>2, <1>5, <2>2, ServiceStep
<1>6. CASE /\ UNCHANGED onRecord /\ Stands(i, "binding")
           /\ unmined' = unmined \cup {[of |-> i, token |-> program[i].copy.token, wallet |-> program[i].target]}
  <2>1. [program[i] EXCEPT !.at = "binding"] \in ProgramStates
    BY <1>2 DEF ProgramStates
  <2>2. PICK p \in ProgramStates : /\ program' = [program EXCEPT ![i] = p] /\ p.kind = "service"
                                   /\ p.at = "binding" /\ p.copy = program[i].copy
    BY <1>1, <1>6, <2>1, StandsAs
  <2>3. PICK t \in [of : Programs, token : Nat, wallet : AnyWallet] : t.of = i /\ unmined' = unmined \cup {t}
    BY <1>1, <1>2, <1>6 DEF Records
  <2>4. QED
    BY <1>1, <1>2, <1>6, <2>2, <2>3, ServiceStep
<1>7. QED
  BY <1>3, <1>4, <1>5, <1>6 DEF BindWallet, WaitFails, SaveWallet

\* A transaction that reverts leaves the chain's queue; so does a wallet that
\* is set.
LEMMA MineWalletStep ==
  ASSUME IdentityInv, MineWallet
  PROVE  IdentityInv'
<1>1. PICK t \in unmined :
        /\ t.token # 0 /\ unmined' = unmined \ {t}
        /\ identities' = identities \/ identities' = [identities EXCEPT ![t.token].wallet = t.wallet]
        /\ \/ Is(t.of, "binding") /\ (Stands(t.of, "bound") \/ Stops(t.of, "over"))
           \/ UNCHANGED program
        /\ UNCHANGED <<onRecord, regLock, erred>>
  BY DEF MineWallet
<1>2. PICK i \in Programs : i = t.of /\ t.token \in Nat /\ t.wallet \in AnyWallet
  BY DEF IdentityInv, IdentityTypeOK
<1>3. /\ identities \in Seq([by : Programs, wallet : AnyWallet]) /\ program[i] \in ProgramStates
      /\ onRecord \in Records \cup {NoIdentity} /\ program \in [Programs -> ProgramStates]
  BY ProgramParts
<1>4. /\ identities' \in Seq([by : Programs, wallet : AnyWallet]) /\ DOMAIN identities' = DOMAIN identities
      /\ \A n \in DOMAIN identities : identities'[n].by = identities[n].by
  <2>1. CASE identities' = identities
    BY <1>3, <2>1
  <2>2. CASE identities' = [identities EXCEPT ![t.token].wallet = t.wallet] /\ t.token \in DOMAIN identities
    <3>1. PICK one : one = [identities[t.token] EXCEPT !.wallet = t.wallet]
      OBVIOUS
    <3>2. identities[t.token] \in [by : Programs, wallet : AnyWallet]
      BY <1>3, <2>2, Elements
    <3>3. one \in [by : Programs, wallet : AnyWallet] /\ one.by = identities[t.token].by
      BY <1>2, <3>1, <3>2
    <3>4. identities' = [identities EXCEPT ![t.token] = one]
      BY <2>2, <3>1
    <3>5. QED
      BY <1>3, <2>2, <3>3, <3>4, Replaced
  <2>3. CASE identities' = [identities EXCEPT ![t.token].wallet = t.wallet] /\ t.token \notin DOMAIN identities
    <3>1. identities \in [1..Len(identities) -> [by : Programs, wallet : AnyWallet]]
      BY <1>3, Elements
    <3>2. identities' = identities
      BY <2>3, <3>1
    <3>3. QED
      BY <1>3, <3>2
  <2>4. QED
    BY <1>1, <2>1, <2>2, <2>3
<1>5. CASE program[i].at = "binding" /\ (Stands(i, "bound") \/ Stops(i, "over"))
  <2>1. program[i].kind = "service" /\ program[i].copy \in Records
    BY <1>5, ProgramParts DEF ProgramFine, ProgramStates
  <2>2. [program[i] EXCEPT !.at = "bound"] \in ProgramStates
    BY <1>3 DEF ProgramStates
  <2>3. PICK p \in ProgramStates : /\ program' = [program EXCEPT ![i] = p] /\ p.kind = "service"
                                   /\ (p.at = "bound" /\ p.copy \in Records) \/ p.at = "over"
    BY <1>5, <2>1, <2>2, StandsAs, StopsAs
  <2>4. QED
    BY <1>1, <1>3, <1>4, <2>1, <2>3, ServiceStep
<1>6. CASE UNCHANGED program
  <2>1. ScriptTokens' = ScriptTokens /\ ScriptsOut' = ScriptsOut /\ Slack' = Slack
    BY <1>1, <1>4, <1>6 DEF ScriptTokens, ScriptsOut, Slack
  <2>2. IdentityTypeOK'
    BY <1>1, <1>4, <1>6, FS_Subset DEF IdentityInv, IdentityTypeOK
  <2>3. QED
    BY <1>1, <1>4, <1>6, <2>1, <2>2 DEF IdentityInv
<1>7. QED
  BY <1>1, <1>2, <1>5, <1>6 DEF Is

\* A registration that is mined is an identity instead of a transaction.
LEMMA MineRegistrationStep ==
  ASSUME IdentityInv, MineRegistration
  PROVE  IdentityInv'
<1>1. PICK t \in unmined :
        /\ t.token = 0 /\ unmined' = unmined \ {t}
        /\ UNCHANGED identities \/ identities' = Append(identities, [by |-> t.of, wallet |-> NoWallet])
        /\ UNCHANGED <<onRecord, regLock, program, erred>>
  BY DEF MineRegistration
<1>2. /\ t.of \in Programs /\ program[t.of].kind # "none" /\ IsFiniteSet(unmined') /\ unmined' \subseteq unmined
  BY <1>1, FS_Subset DEF IdentityInv, IdentityTypeOK
<1>3. PICK one : one = [by |-> t.of, wallet |-> NoWallet] /\ one \in [by : Programs, wallet : AnyWallet]
  <2>1. NoWallet \in AnyWallet
    BY DEF AnyWallet
  <2>2. [by |-> t.of, wallet |-> NoWallet] \in [by : Programs, wallet : AnyWallet]
    BY <1>2, <2>1
  <2>3. QED
    BY <2>2
<1>4. PICK k \in Nat : /\ k = Len(identities) /\ DOMAIN identities = 1..k
                       /\ \A n \in 1..k : identities[n] \in [by : Programs, wallet : AnyWallet]
  <2>1. identities \in Seq([by : Programs, wallet : AnyWallet])
    BY DEF IdentityInv, IdentityTypeOK
  <2>2. /\ DOMAIN identities = 1..Len(identities) /\ Len(identities) \in Nat
        /\ \A n \in DOMAIN identities : identities[n] \in [by : Programs, wallet : AnyWallet]
    BY <2>1, Elements
  <2>3. QED
    BY <2>2
<1>5. CASE UNCHANGED identities
  <2>1. IdentityTypeOK'
    BY <1>1, <1>2, <1>5 DEF IdentityInv, IdentityTypeOK
  <2>2. ScriptTokens' = ScriptTokens /\ Slack' = Slack /\ ScriptsOut' \subseteq ScriptsOut
    BY <1>1, <1>5 DEF ScriptTokens, ScriptsOut, Slack
  <2>3. Cardinality(ScriptsOut') <= Cardinality(ScriptsOut) /\ Cardinality(ScriptsOut') \in Nat
    BY <2>2, CountsAreFinite, FS_Subset, FS_CardinalityType
  <2>4. (Cardinality(ScriptTokens) + Cardinality(ScriptsOut) <= erred + Slack)'
    BY <1>1, <2>2, <2>3, CountsAreFinite DEF IdentityInv
  <2>5. QED
    BY <1>1, <1>5, <2>1, <2>4 DEF IdentityInv
<1>6. CASE identities' = Append(identities, one)
  <2>1. /\ DOMAIN identities' = 1..(k + 1) /\ identities'[k + 1] = one
        /\ \A n \in 1..k : identities'[n] = identities[n]
        /\ identities' \in Seq([by : Programs, wallet : AnyWallet])
    BY <1>3, <1>4, <1>6 DEF IdentityInv, IdentityTypeOK
  <2>2. IdentityTypeOK'
    BY <1>1, <1>2, <2>1 DEF IdentityInv, IdentityTypeOK
  <2>3. \A n \in DOMAIN identities' : n \in DOMAIN identities \/ n = k + 1
    BY <1>4, <2>1
  <2>4. \A n \in DOMAIN identities' : program'[identities'[n].by].kind # "none"
    BY <1>1, <1>2, <1>3, <1>4, <2>1, <2>3 DEF IdentityInv
  <2>5. Slack' = Slack
    BY <1>1 DEF Slack
  <2>6. Cardinality(ScriptTokens') + Cardinality(ScriptsOut') <= Cardinality(ScriptTokens) + Cardinality(ScriptsOut)
    <3>1. CASE program[t.of].kind = "script"
      <4>1. ScriptTokens' = ScriptTokens \cup {k + 1} /\ k + 1 \notin ScriptTokens
        BY <1>1, <1>3, <1>4, <2>1, <2>3, <3>1 DEF ScriptTokens
      <4>2. ScriptsOut' = ScriptsOut \ {t} /\ t \in ScriptsOut
        BY <1>1, <3>1 DEF ScriptsOut
      <4>3. Cardinality(ScriptTokens') = Cardinality(ScriptTokens) + 1
        BY <4>1, CountsAreFinite, FS_AddElement
      <4>4. Cardinality(ScriptsOut') = Cardinality(ScriptsOut) - 1
        BY <4>2, CountsAreFinite, FS_RemoveElement
      <4>5. QED
        BY <4>3, <4>4, CountsAreFinite
    <3>2. CASE program[t.of].kind # "script"
      <4>1. ScriptTokens' = ScriptTokens
        BY <1>1, <1>3, <1>4, <2>1, <2>3, <3>2 DEF ScriptTokens
      <4>2. ScriptsOut' = ScriptsOut
        BY <1>1, <3>2 DEF ScriptsOut
      <4>3. QED
        BY <4>1, <4>2, CountsAreFinite
    <3>3. QED
      BY <3>1, <3>2
  <2>7. (Cardinality(ScriptTokens) + Cardinality(ScriptsOut) <= erred + Slack)'
    <3>1. Cardinality(ScriptTokens) + Cardinality(ScriptsOut) <= erred + Slack
      BY DEF IdentityInv
    <3>2. IsFiniteSet(ScriptTokens') /\ IsFiniteSet(ScriptsOut')
      <4>1. IsFiniteSet(1..(k + 1))
        BY FS_Interval
      <4>2. QED
        BY <1>2, <2>1, <4>1, FS_Subset DEF ScriptTokens, ScriptsOut
    <3>3. Cardinality(ScriptTokens') \in Nat /\ Cardinality(ScriptsOut') \in Nat
      BY <3>2, FS_CardinalityType
    <3>4. QED
      BY <1>1, <2>5, <2>6, <3>1, <3>3, CountsAreFinite
  <2>8. QED
    BY <1>1, <2>2, <2>4, <2>7 DEF IdentityInv
<1>7. QED
  BY <1>1, <1>3, <1>5, <1>6

\* The operator looks at the chain before the lock of a dead script goes: what
\* it registered is on record afterwards.
LEMMA UnlockStep ==
  ASSUME IdentityInv, OperatorUnlocks
  PROVE  IdentityInv'
<1>1. /\ regLock # 0 /\ regLock \in Programs /\ program[regLock].at = "dead" /\ unmined = {} /\ regLock' = 0
      /\ UNCHANGED <<identities, unmined, program, erred>>
  BY IdentityAssumption DEF OperatorUnlocks, Is, IdentityInv, IdentityTypeOK, Programs
<1>2. /\ identities \in Seq([by : Programs, wallet : AnyWallet]) /\ onRecord \in Records \cup {NoIdentity}
      /\ NoIdentity \notin Records /\ MaxPrograms \in Nat
  BY <1>1, ProgramParts
<1>3. onRecord' \in Records \cup {NoIdentity} /\ (onRecord' # NoIdentity \/ identities = << >>)
  <2>1. CASE onRecord # NoIdentity \/ identities = << >>
    BY <1>2, <2>1 DEF OperatorUnlocks
  <2>2. CASE \E n \in DOMAIN identities : onRecord' = [token |-> n, wallet |-> NoWallet]
    <3>1. onRecord' \in Records
      BY <1>2, <2>2, Elements DEF Records, AnyWallet
    <3>2. QED
      BY <1>2, <3>1
  <2>3. QED
    BY <2>1, <2>2 DEF OperatorUnlocks
<1>4. IdentityTypeOK'
  BY <1>1, <1>2, <1>3 DEF IdentityInv, IdentityTypeOK
<1>5. \A j \in Programs : ProgramFine(program[j], regLock = j)'
  <2>1. \A j \in Programs : ProgramFine(program[j], regLock = j)
    BY DEF IdentityInv
  <2>2. \A j \in Programs : regLock' # j /\ (regLock = j => program[j].at = "dead")
    BY <1>1 DEF Programs
  <2>3. QED
    BY <1>1, <2>1, <2>2 DEF ProgramFine
<1>6. ScriptTokens' = ScriptTokens /\ ScriptsOut' = ScriptsOut
  BY <1>1 DEF ScriptTokens, ScriptsOut
<1>7. Cardinality(ScriptTokens) + Cardinality(ScriptsOut) <= erred + Slack'
  <2>1. CASE onRecord' # NoIdentity
    <3>1. Slack' = 1
      BY <1>1, <2>1 DEF Slack
    <3>2. QED
      BY <3>1, CountsAreFinite DEF IdentityInv
  <2>2. CASE identities = << >>
    <3>1. ScriptTokens = {} /\ ScriptsOut = {}
      BY <1>1, <2>2 DEF ScriptTokens, ScriptsOut
    <3>2. Cardinality(ScriptTokens) = 0 /\ Cardinality(ScriptsOut) = 0
      BY <3>1, FS_EmptySet
    <3>3. Slack' \in {0, 1}
      BY DEF Slack
    <3>4. QED
      BY <3>2, <3>3, CountsAreFinite
  <2>3. QED
    BY <1>3, <2>1, <2>2
<1>8. QED
  BY <1>1, <1>4, <1>5, <1>6, <1>7 DEF IdentityInv

LEMMA IdentityInvNext == IdentityInv /\ [IdentityNext]_identityVars => IdentityInv'
<1> SUFFICES ASSUME IdentityInv, [IdentityNext]_identityVars PROVE IdentityInv'
  OBVIOUS
<1>1. ASSUME NEW i \in Programs,
             \/ StartProgram(i) \/ EnterLock(i) \/ LookUpIdentity(i) \/ Register(i) \/ Confirmed(i)
             \/ SaveIdentity(i) \/ BindWallet(i) \/ WaitFails(i) \/ SaveWallet(i) \/ ProgramDies(i)
      PROVE  IdentityInv'
  BY <1>1, StartStep, EnterStep, LookUpStep, RegisterStep, ConfirmStep, SaveStep, WalletStep, DeathStep
<1>2. CASE UNCHANGED identityVars
  <2>1. ScriptTokens' = ScriptTokens /\ ScriptsOut' = ScriptsOut /\ Slack' = Slack
    BY <1>2 DEF identityVars, ScriptTokens, ScriptsOut, Slack
  <2>2. QED
    BY <1>2, <2>1 DEF identityVars, IdentityInv, IdentityTypeOK
<1>3. QED
  BY <1>1, <1>2, MineRegistrationStep, MineWalletStep, UnlockStep DEF IdentityNext

\* What the scripts registered or sent is covered by their errors, but for one
\* registration that is on record, or that the holder of the lock has sent.
THEOREM IdentityInvariant == IdentitySpec => []IdentityInv
<1>1. QED
  BY IdentityInvInit, IdentityInvNext, PTL DEF IdentitySpec

\* However many scripts are started together, and wherever they die, they
\* register one identity more than they reported errors at most
\* (register-hunter-erc8004.ts, under withLocalFileLock).
THEOREM DuplicatesAreAlwaysErrors == IdentitySpec => []DuplicatesAreErrors
<1>1. IdentityInv => DuplicatesAreErrors
  <2> SUFFICES ASSUME IdentityInv PROVE DuplicatesAreErrors
    OBVIOUS
  <2>1. Cardinality(ScriptTokens) <= 1 + erred
    BY CountsAreFinite DEF IdentityInv
  <2>2. QED
    BY <2>1 DEF DuplicatesAreErrors, ScriptTokens
<1>2. QED
  BY <1>1, IdentityInvariant, PTL

-----------------------------------------------------------------------------
(* FileImport: whoever commits holds the lock and found nothing imported.  *)

FileSources ==
  [runs : [Missions -> {"none", "running", "ended"}], purchases : SUBSET Missions,
   executions : [Missions -> {"none", "settlement_attempting", "paid", "completed"}],
   authority : {"none", "pending", "granted"}]
TableRows ==
  [table : TableNames, key : Missions \cup {"a", "new mission"},
   state : {"running", "ended", "parent", "quoted", "settlement_attempting", "paid", "completed",
            "confirmed", "invalid", "pending", "active"},
   by : {"import", "service"}]
ImporterStates ==
  [at : {"idle", "authorities", "purchases", "executions", "loaded", "looked", "locked", "inserted", "verified"},
   source : FileSources, before : Nat, known : BOOLEAN, inserted : SUBSET TableRows]

ImportTypeOK ==
  /\ files \in FileSources /\ changes \in Nat
  /\ importer \in [Importers -> ImporterStates]
  /\ advisory \in Importers \cup {Unlocked}
  /\ rows \subseteq TableRows /\ IsFiniteSet(rows)
  /\ ledger \subseteq FileSources

Imported == {r \in rows : r.by = "import"}

\* The transaction of one importer: under the lock, with the rows of its source,
\* none of them imported before; once the totals agree, nothing was.
ImporterFine(i) ==
  /\ importer[i].at \in {"locked", "inserted", "verified"} => advisory = i
  /\ importer[i].at \in {"inserted", "verified"} => importer[i].inserted = SourceRows(importer[i].source)
  /\ importer[i].at = "inserted" => Imported \cap importer[i].inserted = {}
  /\ importer[i].at = "verified" => Imported = {}

ImportInv ==
  /\ ImportTypeOK
  /\ \A i \in Importers : ImporterFine(i)
  /\ Imported = UNION {SourceRows(s) : s \in ledger}
  /\ \A s, t \in ledger : (SourceRows(s) # {} /\ SourceRows(t) # {}) => s = t

\* Rows with different keys: as many as the keys, or more.
LEMMA RowPerKey ==
  ASSUME NEW K, NEW R, IsFiniteSet(R), \A k \in K : \E r \in R : r.key = k
  PROVE  IsFiniteSet(K) /\ Cardinality(K) <= Cardinality(R)
<1> DEFINE f == [k \in K |-> CHOOSE r \in R : r.key = k]
<1>1. \A k \in K : f[k] \in R /\ f[k].key = k
  OBVIOUS
<1>2. f \in [K -> R]
  BY <1>1
<1> HIDE DEF f
<1>3. \A j, k \in K : f[j] = f[k] => j = k
  BY <1>1
<1>4. f \in Injection(K, R)
  BY <1>2, <1>3 DEF Injection, IsInjective
<1>5. QED
  BY <1>4, FS_Injection

KeysOf(s, t) ==
  CASE t = "runs"               -> RunsOf(s) \cup s.purchases
    [] t = "x402_purchases"     -> s.purchases
    [] t = "x402_executions"    -> {m \in Missions : s.executions[m] # "none"}
    [] t = "chain_transactions" -> {m \in Missions : Paid(s, m)}
                                   \cup (IF s.authority = "granted" THEN {"a"} ELSE {})
    [] t = "authorities"        -> IF s.authority = "none" THEN {} ELSE {"a"}
    [] t = "authority_steps"    -> IF s.authority = "none" THEN {} ELSE {"a"}

\* What the preflight foresees is the number of keys the source has.
LEMMA KeysForeseen ==
  ASSUME NEW s \in FileSources, NEW t \in TableNames
  PROVE  SourceCounts(s)[t] = Cardinality(KeysOf(s, t))
<1> DEFINE paid == {m \in Missions : Paid(s, m)}
<1>1. IsFiniteSet(Missions) /\ "a" \notin Missions /\ s.purchases \subseteq Missions
  BY ImportAssumption DEF FileSources
<1>2. Cardinality({"a"}) = 1 /\ Cardinality({}) = 0 /\ IsFiniteSet({"a"}) /\ IsFiniteSet({})
  BY FS_Singleton, FS_EmptySet
<1>3. CASE t = "runs"
  <2> DEFINE A == RunsOf(s)
             B == s.purchases \ RunsOf(s)
  <2>1. A \in SUBSET Missions /\ B \in SUBSET Missions
    BY <1>1 DEF RunsOf
  <2>2. IsFiniteSet(A) /\ IsFiniteSet(B)
    BY <1>1, <2>1, FS_Subset
  <2>3. Cardinality(A \cup B) = Cardinality(A) + Cardinality(B) - Cardinality(A \cap B)
    BY <2>2, FS_Union
  <2>4. A \cap B = {} /\ A \cup B = RunsOf(s) \cup s.purchases
    OBVIOUS
  <2>5. Cardinality(A) \in Nat /\ Cardinality(B) \in Nat
    BY <2>2, FS_CardinalityType
  <2>6. Cardinality(A \cap B) = 0
    BY <1>2, <2>4
  <2>7. Cardinality(RunsOf(s) \cup s.purchases) = Cardinality(A) + Cardinality(B)
    <3>1. Cardinality(A \cup B) = Cardinality(A) + Cardinality(B) - 0
      BY <2>3, <2>6
    <3>2. Cardinality(RunsOf(s) \cup s.purchases) = Cardinality(A) + Cardinality(B) - 0
      BY <2>4, <3>1
    <3> HIDE DEF A, B
    <3>3. QED
      BY <2>5, <3>2
  <2>8. KeysOf(s, t) = RunsOf(s) \cup s.purchases
    BY <1>3 DEF KeysOf
  <2>9. SourceCounts(s)[t] = Cardinality(RunsOf(s)) + Cardinality(s.purchases \ RunsOf(s))
    BY <1>3 DEF SourceCounts
  <2>10. QED
    BY <2>7, <2>8, <2>9
<1>4. CASE t = "x402_purchases"
  BY <1>4 DEF SourceCounts, KeysOf
<1>5. CASE t = "x402_executions"
  BY <1>5 DEF SourceCounts, KeysOf
<1>6. CASE t = "chain_transactions"
  <2> DEFINE E == IF s.authority = "granted" THEN {"a"} ELSE {}
  <2>1. paid \in SUBSET Missions
    OBVIOUS
  <2>2. IsFiniteSet(paid)
    BY <1>1, <2>1, FS_Subset
  <2>3. IsFiniteSet(E) /\ Cardinality(E) = IF s.authority = "granted" THEN 1 ELSE 0
    BY <1>2
  <2>4. paid \cap E = {}
    BY <1>1
  <2>5. Cardinality(paid \cup E) = Cardinality(paid) + Cardinality(E) - Cardinality(paid \cap E)
    BY <2>2, <2>3, FS_Union
  <2>6. Cardinality(paid) \in Nat /\ Cardinality(paid \cap E) = 0
    BY <1>2, <2>2, <2>4, FS_CardinalityType
  <2>7. KeysOf(s, t) = paid \cup E
    BY <1>6 DEF KeysOf
  <2>8. SourceCounts(s)[t] = Cardinality(paid) + IF s.authority = "granted" THEN 1 ELSE 0
    BY <1>6 DEF SourceCounts
  <2> HIDE DEF paid, E
  <2>9. QED
    BY <2>3, <2>5, <2>6, <2>7, <2>8
<1>7. CASE t \in {"authorities", "authority_steps"}
  <2>1. KeysOf(s, t) = IF s.authority = "none" THEN {} ELSE {"a"}
    BY <1>7 DEF KeysOf
  <2>2. SourceCounts(s)[t] = IF s.authority = "none" THEN 0 ELSE 1
    BY <1>7 DEF SourceCounts
  <2>3. QED
    BY <1>2, <2>1, <2>2
<1>8. QED
  BY <1>3, <1>4, <1>5, <1>6, <1>7 DEF TableNames

\* Every key of a source has its row.
LEMMA KeysHaveRows ==
  ASSUME NEW s \in FileSources, NEW t \in TableNames, NEW k \in KeysOf(s, t)
  PROVE  \E r \in SourceRows(s) : r.table = t /\ r.key = k
<1>0. /\ \A st : Row(t, k, st).table = t /\ Row(t, k, st).key = k
      /\ s.purchases \subseteq Missions /\ s.authority \in {"none", "pending", "granted"}
  BY DEF Row, FileSources
<1>1. SUFFICES \E st : Row(t, k, st) \in SourceRows(s)
  BY <1>0
<1>2. CASE t = "runs"
  <2>1. CASE k \in RunsOf(s)
    <3>1. Row(t, k, "ended") \in RunRows(s)
      BY <1>2, <2>1 DEF RunRows
    <3>2. QED
      BY <3>1 DEF SourceRows
  <2>2. CASE k \notin RunsOf(s)
    <3>1. k \in s.purchases \ RunsOf(s)
      BY <1>2, <2>2 DEF KeysOf
    <3>2. Row(t, k, "parent") \in ParentRows(s)
      BY <1>2, <3>1 DEF ParentRows
    <3>3. QED
      BY <3>2 DEF SourceRows
  <2>3. QED
    BY <2>1, <2>2
<1>3. CASE t = "x402_purchases"
  <2>1. k \in s.purchases
    BY <1>3 DEF KeysOf
  <2>2. Row(t, k, IF s.executions[k] = "none" THEN "quoted" ELSE s.executions[k]) \in PurchaseRows(s)
    BY <1>3, <2>1 DEF PurchaseRows
  <2>3. QED
    BY <2>2 DEF SourceRows
<1>4. CASE t = "x402_executions"
  <2>1. k \in {m \in Missions : s.executions[m] # "none"}
    BY <1>4 DEF KeysOf
  <2>2. Row(t, k, s.executions[k]) \in ExecutionRows(s)
    BY <1>4, <2>1 DEF ExecutionRows
  <2>3. QED
    BY <2>2 DEF SourceRows
<1>5. CASE t = "chain_transactions"
  <2>1. CASE k \in {m \in Missions : Paid(s, m)}
    <3>1. k \in {n \in {m \in Missions : s.executions[m] # "none"} : Paid(s, n)}
      BY <2>1 DEF Paid
    <3>2. Row(t, k, "confirmed") \in ExecutionRows(s)
      BY <1>5, <3>1 DEF ExecutionRows
    <3>3. QED
      BY <3>2 DEF SourceRows
  <2>2. CASE k \notin {m \in Missions : Paid(s, m)}
    <3>1. k = "a" /\ s.authority = "granted"
      BY <1>5, <2>2 DEF KeysOf
    <3>2. Row(t, k, "confirmed") \in AuthorityRows(s)
      BY <1>5, <3>1 DEF AuthorityRows
    <3>3. QED
      BY <3>2 DEF SourceRows
  <2>3. QED
    BY <2>1, <2>2
<1>6. CASE t \in {"authorities", "authority_steps"}
  <2>1. k = "a" /\ s.authority \in {"pending", "granted"}
    BY <1>0, <1>6 DEF KeysOf
  <2>2. \E st : Row(t, k, st) \in AuthorityRows(s)
    BY <1>6, <2>1 DEF AuthorityRows
  <2>3. QED
    BY <2>2 DEF SourceRows
<1>7. QED
  BY <1>2, <1>3, <1>4, <1>5, <1>6 DEF TableNames

\* The rows of a source: well formed, by the importer, no more than are finite.
LEMMA SourceRowsTyped ==
  ASSUME NEW s \in FileSources
  PROVE  /\ SourceRows(s) \subseteq TableRows
         /\ \A r \in SourceRows(s) : r.by = "import"
<1>0. /\ s.purchases \subseteq Missions /\ s.authority \in {"none", "pending", "granted"}
      /\ \A m \in Missions : s.executions[m] \in {"none", "settlement_attempting", "paid", "completed"}
      /\ RunsOf(s) \subseteq Missions
  BY DEF FileSources, RunsOf
<1>1. ASSUME NEW t \in TableNames, NEW k \in Missions \cup {"a"},
             NEW st \in {"ended", "parent", "quoted", "settlement_attempting", "paid", "completed",
                         "confirmed", "invalid", "pending", "active"}
      PROVE  Row(t, k, st) \in TableRows /\ Row(t, k, st).by = "import"
  BY DEF Row, TableRows
<1>2. ASSUME NEW r \in RunRows(s) \cup ParentRows(s) PROVE r \in TableRows /\ r.by = "import"
  BY <1>0, <1>1 DEF RunRows, ParentRows, TableNames
<1>3. ASSUME NEW r \in PurchaseRows(s) PROVE r \in TableRows /\ r.by = "import"
  <2>1. PICK m \in s.purchases :
          r = Row("x402_purchases", m, IF s.executions[m] = "none" THEN "quoted" ELSE s.executions[m])
    BY DEF PurchaseRows
  <2>2. (IF s.executions[m] = "none" THEN "quoted" ELSE s.executions[m])
          \in {"quoted", "settlement_attempting", "paid", "completed"}
    BY <1>0
  <2>3. QED
    BY <1>0, <1>1, <2>1, <2>2 DEF TableNames
<1>4. ASSUME NEW r \in ExecutionRows(s) PROVE r \in TableRows /\ r.by = "import"
  <2>1. \/ \E m \in Missions : s.executions[m] # "none" /\ r = Row("x402_executions", m, s.executions[m])
        \/ \E m \in Missions : r = Row("chain_transactions", m, "confirmed")
    BY DEF ExecutionRows
  <2>2. QED
    BY <1>0, <1>1, <2>1 DEF TableNames
<1>5. ASSUME NEW r \in AuthorityRows(s) PROVE r \in TableRows /\ r.by = "import"
  BY <1>0, <1>1 DEF AuthorityRows, TableNames
<1>6. QED
  BY <1>2, <1>3, <1>4, <1>5 DEF SourceRows

\* A purchase has its run, and the state of its execution, if it has one.
LEMMA SourceHangsTogether ==
  ASSUME NEW s \in FileSources, NEW p \in SourceRows(s), p.table = "x402_purchases"
  PROVE  /\ \E r \in SourceRows(s) : r.table = "runs" /\ r.key = p.key
         /\ \A x \in SourceRows(s) : (x.table = "x402_executions" /\ x.key = p.key) => x.state = p.state
<1>0. \A t, k, st : Row(t, k, st).table = t /\ Row(t, k, st).key = k /\ Row(t, k, st).state = st
  BY DEF Row
<1>1. \A r \in RunRows(s) \cup ParentRows(s) : r.table = "runs"
  BY <1>0 DEF RunRows, ParentRows
<1>2. \A r \in PurchaseRows(s) : r.table = "x402_purchases"
  BY <1>0 DEF PurchaseRows
<1>3. \A r \in ExecutionRows(s) :
        \/ r.table = "chain_transactions"
        \/ r.table = "x402_executions" /\ \E m \in Missions : s.executions[m] # "none" /\ r = Row("x402_executions", m, s.executions[m])
  BY <1>0 DEF ExecutionRows
<1>4. \A r \in AuthorityRows(s) : r.table \in {"authorities", "authority_steps", "chain_transactions"}
  BY <1>0 DEF AuthorityRows, FileSources
<1>5. p \in PurchaseRows(s)
  BY <1>1, <1>3, <1>4 DEF SourceRows
<1>6. PICK m \in s.purchases :
        p = Row("x402_purchases", m, IF s.executions[m] = "none" THEN "quoted" ELSE s.executions[m])
  BY <1>5 DEF PurchaseRows
<1>7. p.key = m /\ p.state = IF s.executions[m] = "none" THEN "quoted" ELSE s.executions[m]
  BY <1>0, <1>6
<1>8. \E r \in SourceRows(s) : r.table = "runs" /\ r.key = m
  <2>1. m \in KeysOf(s, "runs") /\ "runs" \in TableNames
    BY DEF KeysOf, TableNames
  <2>2. QED
    BY <2>1, KeysHaveRows
<1>9. ASSUME NEW x \in SourceRows(s), x.table = "x402_executions", x.key = m PROVE x.state = p.state
  <2>1. x \in ExecutionRows(s)
    BY <1>1, <1>2, <1>4, <1>9 DEF SourceRows
  <2>2. PICK n \in Missions : s.executions[n] # "none" /\ x = Row("x402_executions", n, s.executions[n])
    BY <1>3, <1>9, <2>1
  <2>3. n = m /\ x.state = s.executions[n]
    BY <1>0, <1>9, <2>2
  <2>4. QED
    BY <1>7, <2>2, <2>3
<1>10. QED
  BY <1>7, <1>8, <1>9

\* Totals that agree leave no place for a row of another source.
LEMMA AgreedTotals ==
  ASSUME NEW s \in FileSources, NEW R, R \subseteq TableRows, IsFiniteSet(R),
         IsFiniteSet(SourceRows(s)), TableCounts(R \cup SourceRows(s)) = SourceCounts(s)
  PROVE  R \subseteq SourceRows(s)
<1> SUFFICES ASSUME NEW q \in R PROVE q \in SourceRows(s)
  OBVIOUS
<1> DEFINE t == q.table
           U == R \cup SourceRows(s)
           A == {r \in SourceRows(s) : r.table = t}
           B == {r \in U : r.table = t}
<1>1. t \in TableNames
  BY DEF TableRows
<1>2. IsFiniteSet(U)
  BY FS_Union
<1>3. A \in SUBSET SourceRows(s) /\ B \in SUBSET U /\ A \in SUBSET B
  OBVIOUS
<1>4. IsFiniteSet(A) /\ IsFiniteSet(B)
  BY <1>2, <1>3, FS_Subset
<1>5. Cardinality(B) = SourceCounts(s)[t]
  <2>1. TableCounts(U)[t] = Cardinality(B)
    BY <1>1 DEF TableCounts
  <2>2. QED
    BY <2>1
<1>6. Cardinality(B) = Cardinality(KeysOf(s, t))
  BY <1>1, <1>5, KeysForeseen
<1>7. \A k \in KeysOf(s, t) : \E r \in A : r.key = k
  BY <1>1, KeysHaveRows
<1>8. Cardinality(KeysOf(s, t)) <= Cardinality(A)
  BY <1>4, <1>7, RowPerKey
<1>9. Cardinality(A) <= Cardinality(B) /\ (Cardinality(B) = Cardinality(A) => B = A)
  BY <1>3, <1>4, FS_Subset
<1>10. Cardinality(A) \in Nat /\ Cardinality(B) \in Nat
  BY <1>4, FS_CardinalityType
<1>11. B = A
  <2> HIDE DEF A, B, t
  <2>1. QED
    BY <1>6, <1>8, <1>9, <1>10
<1>12. q \in B
  OBVIOUS
<1>13. QED
  BY <1>11, <1>12

LEMMA RowsAreFinite == IsFiniteSet(TableRows)
<1> DEFINE Key == Missions \cup {"a", "new mission"}
           State == {"running", "ended", "parent", "quoted", "settlement_attempting", "paid", "completed",
                     "confirmed", "invalid", "pending", "active"}
           By == {"import", "service"}
<1>1. IsFiniteSet({"a", "new mission"}) /\ IsFiniteSet(Missions)
  <2>1. IsFiniteSet({"a"}) /\ IsFiniteSet({"a"} \cup {"new mission"})
    BY FS_Singleton, FS_AddElement
  <2>2. {"a"} \cup {"new mission"} = {"a", "new mission"}
    OBVIOUS
  <2>3. QED
    BY <2>1, <2>2, ImportAssumption
<1>2. IsFiniteSet(Key)
  BY <1>1, FS_Union
<1>3. IsFiniteSet(TableNames) /\ IsFiniteSet(State) /\ IsFiniteSet(By)
  <2>1. ASSUME NEW x1, NEW x2, NEW x3, NEW x4, NEW x5, NEW x6
        PROVE  IsFiniteSet({x1, x2, x3, x4, x5, x6})
    <3>1. IsFiniteSet({x1})
      BY FS_Singleton
    <3>2. IsFiniteSet({x1} \cup {x2})
      BY <3>1, FS_AddElement
    <3>3. IsFiniteSet({x1} \cup {x2} \cup {x3})
      BY <3>2, FS_AddElement
    <3>4. IsFiniteSet({x1} \cup {x2} \cup {x3} \cup {x4})
      BY <3>3, FS_AddElement
    <3>5. IsFiniteSet({x1} \cup {x2} \cup {x3} \cup {x4} \cup {x5})
      BY <3>4, FS_AddElement
    <3>6. IsFiniteSet({x1} \cup {x2} \cup {x3} \cup {x4} \cup {x5} \cup {x6})
      BY <3>5, FS_AddElement
    <3>7. {x1} \cup {x2} \cup {x3} \cup {x4} \cup {x5} \cup {x6} = {x1, x2, x3, x4, x5, x6}
      OBVIOUS
    <3>8. QED
      BY <3>6, <3>7
  <2>2. IsFiniteSet(TableNames)
    BY <2>1 DEF TableNames
  <2>3. IsFiniteSet({"running", "ended", "parent", "quoted", "settlement_attempting", "paid"})
    BY <2>1
  <2>4. IsFiniteSet({"completed", "confirmed", "invalid", "pending", "active", "active"})
    BY <2>1
  <2>5. IsFiniteSet({"running", "ended", "parent", "quoted", "settlement_attempting", "paid"}
                    \cup {"completed", "confirmed", "invalid", "pending", "active", "active"})
    BY <2>3, <2>4, FS_Union
  <2>6. State = {"running", "ended", "parent", "quoted", "settlement_attempting", "paid"}
                \cup {"completed", "confirmed", "invalid", "pending", "active", "active"}
    OBVIOUS
  <2>7. IsFiniteSet({"import"}) /\ IsFiniteSet({"import"} \cup {"service"})
    BY FS_Singleton, FS_AddElement
  <2>8. By = {"import"} \cup {"service"}
    OBVIOUS
  <2> HIDE DEF State, By
  <2>9. QED
    BY <2>2, <2>5, <2>6, <2>7, <2>8
<1> HIDE DEF Key, State, By
<1>4. IsFiniteSet(TableNames \X Key)
  BY <1>2, <1>3, FS_Product
<1>5. IsFiniteSet(State \X By)
  BY <1>3, FS_Product
<1>6. IsFiniteSet((TableNames \X Key) \X (State \X By))
  BY <1>4, <1>5, FS_Product
<1> DEFINE f == [p \in (TableNames \X Key) \X (State \X By) |->
                   [table |-> p[1][1], key |-> p[1][2], state |-> p[2][1], by |-> p[2][2]]]
<1>7. TableRows = [table : TableNames, key : Key, state : State, by : By]
  BY DEF TableRows, Key, State, By
<1>8. f \in [(TableNames \X Key) \X (State \X By) -> TableRows]
  BY <1>7
<1>9. \A r \in TableRows : \E p \in (TableNames \X Key) \X (State \X By) : f[p] = r
  <2> SUFFICES ASSUME NEW r \in TableRows
               PROVE  \E p \in (TableNames \X Key) \X (State \X By) : f[p] = r
    OBVIOUS
  <2> DEFINE p == << <<r.table, r.key>>, <<r.state, r.by>> >>
  <2>1. r.table \in TableNames /\ r.key \in Key /\ r.state \in State /\ r.by \in By
        /\ r = [table |-> r.table, key |-> r.key, state |-> r.state, by |-> r.by]
    BY <1>7
  <2>2. p \in (TableNames \X Key) \X (State \X By)
    BY <2>1
  <2>3. f[p] = [table |-> r.table, key |-> r.key, state |-> r.state, by |-> r.by]
    BY <2>2
  <2>4. QED
    BY <2>1, <2>2, <2>3
<1> HIDE DEF f
<1>10. f \in Surjection((TableNames \X Key) \X (State \X By), TableRows)
  BY <1>8, <1>9 DEF Surjection
<1>11. QED
  BY <1>6, <1>10, FS_Surjection

LEMMA ImportInvInit == ImportInit => ImportInv
<1> SUFFICES ASSUME ImportInit PROVE ImportInv
  OBVIOUS
<1>1. NoFiles \in FileSources
  BY DEF NoFiles, FileSources
<1>2. NoImport \in ImporterStates /\ NoImport.at = "idle"
  BY <1>1 DEF NoImport, ImporterStates
<1>3. ImportTypeOK
  BY <1>1, <1>2, FS_EmptySet DEF ImportInit, ImportTypeOK
<1>4. \A i \in Importers : ImporterFine(i)
  BY <1>2 DEF ImportInit, ImporterFine
<1>5. Imported = {} /\ UNION {SourceRows(s) : s \in ledger} = {}
  BY DEF ImportInit, Imported
<1>6. QED
  BY <1>3, <1>4, <1>5 DEF ImportInv, ImportInit

\* An importer moves, and the rows and the ledger stay as they are.
LEMMA ImporterMoves ==
  ASSUME ImportInv, UNCHANGED <<files, changes, rows, ledger>>,
         NEW i \in Importers, NEW new \in ImporterStates,
         importer' = [importer EXCEPT ![i] = new],
         \/ advisory' = advisory
         \/ advisory = Unlocked /\ advisory' = i
         \/ advisory = i /\ advisory' = Unlocked /\ new.at = "idle",
         new.at \in {"locked", "inserted", "verified"} => advisory' = i,
         new.at \in {"inserted", "verified"} => new.inserted = SourceRows(new.source),
         new.at = "inserted" => Imported \cap new.inserted = {},
         new.at = "verified" => Imported = {}
  PROVE  ImportInv'
<1>1. importer \in [Importers -> ImporterStates] /\ "unlocked" \notin Importers
  BY ImportAssumption DEF ImportInv, ImportTypeOK
<1>2. importer'[i] = new /\ \A j \in Importers \ {i} : importer'[j] = importer[j]
  BY <1>1
<1>3. importer' \in [Importers -> ImporterStates]
  BY <1>1
<1>4. ImportTypeOK'
  BY <1>3 DEF ImportInv, ImportTypeOK
<1>5. Imported' = Imported
  BY DEF Imported
<1>6. ASSUME NEW j \in Importers PROVE ImporterFine(j)'
  <2>1. CASE j = i
    BY <1>2, <1>5, <2>1 DEF ImporterFine
  <2>2. CASE j # i
    <3>1. importer'[j] = importer[j] /\ ImporterFine(j)
      BY <1>2, <2>2 DEF ImportInv
    <3>2. importer[j].at \in {"locked", "inserted", "verified"} => advisory' = j
      BY <1>1, <2>2, <3>1 DEF ImporterFine, Unlocked
    <3>3. QED
      BY <1>5, <3>1, <3>2 DEF ImporterFine
  <2>3. QED
    BY <2>1, <2>2
<1>7. QED
  BY <1>4, <1>5, <1>6 DEF ImportInv

\* One field of an importer at a time.
LEMMA ImporterFields ==
  ASSUME NEW q \in ImporterStates
  PROVE  /\ \A src \in FileSources : LET n == [q EXCEPT !.source = src] IN n \in ImporterStates /\ n.at = q.at
         /\ \A at \in {"idle", "authorities", "purchases", "executions", "loaded", "looked"} :
              LET n == [q EXCEPT !.at = at] IN
                n \in ImporterStates /\ n.at = at /\ n.source = q.source
         /\ \A b \in Nat : LET n == [q EXCEPT !.before = b] IN n \in ImporterStates /\ n.at = q.at
         /\ \A k \in BOOLEAN : LET n == [q EXCEPT !.known = k] IN n \in ImporterStates /\ n.at = q.at
<1>1. \A src \in FileSources : [q EXCEPT !.source = src] \in ImporterStates /\ [q EXCEPT !.source = src].at = q.at
  BY DEF ImporterStates
<1>2. \A at \in {"idle", "authorities", "purchases", "executions", "loaded", "looked"} :
        /\ [q EXCEPT !.at = at] \in ImporterStates
        /\ [q EXCEPT !.at = at].at = at /\ [q EXCEPT !.at = at].source = q.source
  BY DEF ImporterStates
<1>3. \A b \in Nat : [q EXCEPT !.before = b] \in ImporterStates /\ [q EXCEPT !.before = b].at = q.at
  BY DEF ImporterStates
<1>4. \A k \in BOOLEAN : [q EXCEPT !.known = k] \in ImporterStates /\ [q EXCEPT !.known = k].at = q.at
  BY DEF ImporterStates
<1>5. QED
  BY <1>1, <1>2, <1>3, <1>4

LEMMA LoadingInv ==
  ASSUME ImportInv, NEW i \in Importers,
         \/ LoadRuns(i) \/ LoadAuthorities(i) \/ LoadPurchases(i) \/ LoadExecutions(i)
         \/ LooksAtTarget(i) \/ LeavesTarget(i)
  PROVE  ImportInv'
<1>1. /\ importer \in [Importers -> ImporterStates] /\ importer[i] \in ImporterStates
      /\ files \in FileSources /\ importer[i].source \in FileSources
      /\ rows \subseteq TableRows /\ IsFiniteSet(rows)
  BY DEF ImportInv, ImportTypeOK, ImporterStates
<1>2. NoFiles \in FileSources /\ NoImport \in ImporterStates /\ NoImport.at = "idle"
  BY DEF NoFiles, NoImport, FileSources, ImporterStates
<1>3. UNCHANGED <<files, changes, rows, ledger>> /\ advisory' = advisory
  BY DEF LoadRuns, LoadAuthorities, LoadPurchases, LoadExecutions, LooksAtTarget, LeavesTarget, Stays
<1> DEFINE Quiet == {"idle", "authorities", "purchases", "executions", "loaded", "looked"}
<1>4. SUFFICES \E new \in ImporterStates : new.at \in Quiet /\ importer' = [importer EXCEPT ![i] = new]
  BY <1>3, ImporterMoves
<1>5. CASE LoadRuns(i)
  <2> DEFINE new == [NoImport EXCEPT !.at = "authorities", !.source.runs = files.runs]
  <2>1. [NoFiles EXCEPT !.runs = files.runs] \in FileSources
    BY <1>1, <1>2 DEF FileSources
  <2> DEFINE q == [NoImport EXCEPT !.at = "authorities"]
  <2>2. q \in ImporterStates /\ q.at = "authorities" /\ q.source = NoFiles
    <3>1. NoImport.source = NoFiles
      BY DEF NoImport
    <3>2. QED
      BY <1>2, <3>1, ImporterFields
  <2>3. new \in ImporterStates /\ new.at \in Quiet
    <3>1. [q.source EXCEPT !.runs = files.runs] \in FileSources
      BY <2>1, <2>2
    <3> HIDE DEF q
    <3>2. [q EXCEPT !.source = [q.source EXCEPT !.runs = files.runs]] \in ImporterStates
          /\ [q EXCEPT !.source = [q.source EXCEPT !.runs = files.runs]].at = q.at
      BY <2>2, <3>1, ImporterFields, ZenonT(40)
    <3>3. QED
      BY <2>2, <3>2 DEF q
  <2>4. QED
    BY <1>5, <2>3 DEF LoadRuns, Advances
<1>6. CASE LoadAuthorities(i)
  <2> DEFINE new == [importer[i] EXCEPT !.at = "purchases", !.source.authority = files.authority]
  <2>1. [importer[i].source EXCEPT !.authority = files.authority] \in FileSources
    BY <1>1 DEF FileSources
  <2> DEFINE q == [importer[i] EXCEPT !.at = "purchases"]
  <2>2. q \in ImporterStates /\ q.at = "purchases" /\ q.source = importer[i].source
    BY <1>1, ImporterFields
  <2>3. new \in ImporterStates /\ new.at \in Quiet
    <3>1. [q.source EXCEPT !.authority = files.authority] \in FileSources
      BY <2>1, <2>2
    <3> HIDE DEF q
    <3>2. [q EXCEPT !.source = [q.source EXCEPT !.authority = files.authority]] \in ImporterStates
          /\ [q EXCEPT !.source = [q.source EXCEPT !.authority = files.authority]].at = q.at
      BY <2>2, <3>1, ImporterFields, ZenonT(40)
    <3>3. QED
      BY <2>2, <3>2 DEF q
  <2>4. QED
    BY <1>6, <2>3 DEF LoadAuthorities, Advances
<1>7. CASE LoadPurchases(i)
  <2> DEFINE new == [importer[i] EXCEPT !.at = "executions", !.source.purchases = files.purchases]
  <2>1. [importer[i].source EXCEPT !.purchases = files.purchases] \in FileSources
    BY <1>1 DEF FileSources
  <2> DEFINE q == [importer[i] EXCEPT !.at = "executions"]
  <2>2. q \in ImporterStates /\ q.at = "executions" /\ q.source = importer[i].source
    BY <1>1, ImporterFields
  <2>3. new \in ImporterStates /\ new.at \in Quiet
    <3>1. [q.source EXCEPT !.purchases = files.purchases] \in FileSources
      BY <2>1, <2>2
    <3> HIDE DEF q
    <3>2. [q EXCEPT !.source = [q.source EXCEPT !.purchases = files.purchases]] \in ImporterStates
          /\ [q EXCEPT !.source = [q.source EXCEPT !.purchases = files.purchases]].at = q.at
      BY <2>2, <3>1, ImporterFields, ZenonT(40)
    <3>3. QED
      BY <2>2, <3>2 DEF q
  <2>4. QED
    BY <1>7, <2>3 DEF LoadPurchases, Advances
<1>8. CASE LoadExecutions(i)
  <2> DEFINE new == [importer[i] EXCEPT !.at = "loaded", !.source.executions = files.executions]
  <2>1. [importer[i].source EXCEPT !.executions = files.executions] \in FileSources
    BY <1>1 DEF FileSources
  <2> DEFINE q == [importer[i] EXCEPT !.at = "loaded"]
  <2>2. q \in ImporterStates /\ q.at = "loaded" /\ q.source = importer[i].source
    BY <1>1, ImporterFields
  <2>3. new \in ImporterStates /\ new.at \in Quiet
    <3>1. [q.source EXCEPT !.executions = files.executions] \in FileSources
      BY <2>1, <2>2
    <3> HIDE DEF q
    <3>2. [q EXCEPT !.source = [q.source EXCEPT !.executions = files.executions]] \in ImporterStates
          /\ [q EXCEPT !.source = [q.source EXCEPT !.executions = files.executions]].at = q.at
      BY <2>2, <3>1, ImporterFields, ZenonT(40)
    <3>3. QED
      BY <2>2, <3>2 DEF q
  <2> HIDE DEF new
  <2>4. importer' = [importer EXCEPT ![i] = new] \/ importer' = [importer EXCEPT ![i] = NoImport]
    BY <1>8 DEF LoadExecutions, Advances, new
  <2>5. QED
    BY <1>2, <2>3, <2>4
<1>9. CASE LooksAtTarget(i)
  <2> DEFINE new == [importer[i] EXCEPT !.at = "looked", !.before = Cardinality(rows),
                       !.known = importer[i].source \in ledger]
  <2>1. Cardinality(rows) \in Nat /\ (importer[i].source \in ledger) \in BOOLEAN
    BY <1>1, FS_CardinalityType
  <2> DEFINE q == [importer[i] EXCEPT !.at = "looked"]
             p == [q EXCEPT !.before = Cardinality(rows)]
  <2>2. q \in ImporterStates /\ q.at = "looked"
    BY <1>1, ImporterFields
  <2>5. p \in ImporterStates /\ p.at = "looked"
    <3> HIDE DEF q
    <3>1. \A b \in Nat : [q EXCEPT !.before = b] \in ImporterStates /\ [q EXCEPT !.before = b].at = q.at
      BY <2>2, ImporterFields
    <3>2. [q EXCEPT !.before = Cardinality(rows)] \in ImporterStates
          /\ [q EXCEPT !.before = Cardinality(rows)].at = q.at
      BY <2>1, <3>1
    <3>3. QED
      BY <2>2, <3>2
  <2>3. new \in ImporterStates /\ new.at \in Quiet
    <3> HIDE DEF p
    <3>1. [p EXCEPT !.known = importer[i].source \in ledger] \in ImporterStates
          /\ [p EXCEPT !.known = importer[i].source \in ledger].at = p.at
      BY <2>1, <2>5, ImporterFields, ZenonT(40)
    <3>2. QED
      BY <2>5, <3>1 DEF p
  <2>4. QED
    BY <1>9, <2>3 DEF LooksAtTarget, Advances
<1>10. CASE LeavesTarget(i)
  BY <1>2, <1>10 DEF LeavesTarget, Advances
<1>11. QED
  BY <1>5, <1>6, <1>7, <1>8, <1>9, <1>10

LEMMA TransactionInv ==
  ASSUME ImportInv, NEW i \in Importers,
         TakesAdvisoryLock(i) \/ InsertsSource(i) \/ VerifiesTotals(i) \/ RollsBack(i)
  PROVE  ImportInv'
<1>1. /\ importer \in [Importers -> ImporterStates] /\ importer[i] \in ImporterStates
      /\ importer[i].source \in FileSources /\ ImporterFine(i)
      /\ rows \subseteq TableRows /\ IsFiniteSet(rows)
  BY DEF ImportInv, ImportTypeOK, ImporterStates
<1>2. NoFiles \in FileSources /\ NoImport \in ImporterStates /\ NoImport.at = "idle"
  BY DEF NoFiles, NoImport, FileSources, ImporterStates
<1>3. UNCHANGED <<files, changes, rows, ledger>>
  BY DEF TakesAdvisoryLock, InsertsSource, VerifiesTotals, RollsBack, Stays
<1>4. CASE TakesAdvisoryLock(i)
  <2> DEFINE new == [importer[i] EXCEPT !.at = "locked"]
  <2>1. new \in ImporterStates /\ new.at = "locked"
    BY <1>1 DEF ImporterStates
  <2>2. importer' = [importer EXCEPT ![i] = new] /\ advisory = Unlocked /\ advisory' = i
    BY <1>4 DEF TakesAdvisoryLock, Advances
  <2> HIDE DEF new
  <2>3. QED
    BY <1>3, <2>1, <2>2, ImporterMoves
<1>5. CASE InsertsSource(i)
  <2> DEFINE new == [importer[i] EXCEPT !.at = "inserted", !.inserted = SourceRows(importer[i].source)]
  <2>1. SourceRows(importer[i].source) \subseteq TableRows
    BY <1>1, SourceRowsTyped
  <2>2. new \in ImporterStates /\ new.at = "inserted" /\ new.source = importer[i].source
        /\ new.inserted = SourceRows(importer[i].source)
    BY <1>1, <2>1 DEF ImporterStates
  <2>3. importer' = [importer EXCEPT ![i] = new] /\ importer[i].at = "locked" /\ advisory' = advisory
    BY <1>5 DEF InsertsSource, Advances
  <2>4. advisory = i
    BY <1>1, <2>3 DEF ImporterFine
  <2>5. Imported \cap new.inserted = {}
    BY <1>5, <2>2 DEF InsertsSource, Clashes, Imported
  <2> HIDE DEF new
  <2>6. QED
    BY <1>3, <2>2, <2>3, <2>4, <2>5, ImporterMoves
<1>6. CASE VerifiesTotals(i)
  <2> DEFINE new == [importer[i] EXCEPT !.at = "verified"]
             src == importer[i].source
  <2>1. /\ new \in ImporterStates /\ new.at = "verified" /\ new.source = src
        /\ new.inserted = importer[i].inserted
    BY <1>1 DEF ImporterStates
  <2>2. /\ importer' = [importer EXCEPT ![i] = new] /\ importer[i].at = "inserted" /\ advisory' = advisory
        /\ TableCounts(rows \cup importer[i].inserted) = SourceCounts(src)
    BY <1>6 DEF VerifiesTotals, Advances, CountsEqual
  <2>3. advisory = i /\ importer[i].inserted = SourceRows(src) /\ Imported \cap importer[i].inserted = {}
    BY <1>1, <2>2 DEF ImporterFine
  <2>4. IsFiniteSet(SourceRows(src))
    <3>1. SourceRows(src) \in SUBSET TableRows
      BY <1>1, SourceRowsTyped
    <3>2. QED
      BY <3>1, RowsAreFinite, FS_Subset
  <2>5. rows \subseteq SourceRows(src)
    BY <1>1, <2>2, <2>3, <2>4, AgreedTotals
  <2>6. Imported = {}
    BY <2>3, <2>5 DEF Imported
  <2> HIDE DEF new
  <2>7. QED
    BY <1>3, <2>1, <2>2, <2>3, <2>6, ImporterMoves
<1>7. CASE RollsBack(i)
  <2>1. advisory = i
    BY <1>1, <1>7 DEF RollsBack, ImporterFine
  <2>2. importer' = [importer EXCEPT ![i] = NoImport] /\ advisory' = Unlocked
    BY <1>7 DEF RollsBack
  <2>3. QED
    BY <1>2, <1>3, <2>1, <2>2, ImporterMoves
<1>8. QED
  BY <1>4, <1>5, <1>6, <1>7

LEMMA CommitInv == ASSUME ImportInv, NEW i \in Importers, CommitsImport(i) PROVE ImportInv'
<1> DEFINE src == importer[i].source
<1>1. /\ importer \in [Importers -> ImporterStates] /\ importer[i] \in ImporterStates
      /\ src \in FileSources /\ ImporterFine(i) /\ ledger \subseteq FileSources /\ files \in FileSources
      /\ rows \subseteq TableRows /\ IsFiniteSet(rows) /\ changes \in Nat
      /\ \A j \in Importers : ImporterFine(j)
  BY DEF ImportInv, ImportTypeOK, ImporterStates
<1>2. NoFiles \in FileSources /\ NoImport \in ImporterStates /\ NoImport.at = "idle"
  BY DEF NoFiles, NoImport, FileSources, ImporterStates
<1>3. /\ importer[i].at = "verified" /\ importer' = [importer EXCEPT ![i] = NoImport]
      /\ rows' = rows \cup importer[i].inserted /\ ledger' = ledger \cup {src}
      /\ advisory' = Unlocked /\ files' = files /\ changes' = changes
  BY DEF CommitsImport, Advances
<1>4. advisory = i /\ importer[i].inserted = SourceRows(src) /\ Imported = {}
  BY <1>1, <1>3 DEF ImporterFine
<1>5. SourceRows(src) \subseteq TableRows /\ (\A r \in SourceRows(src) : r.by = "import")
  BY <1>1, SourceRowsTyped
<1>6. Imported' = SourceRows(src)
  BY <1>3, <1>4, <1>5 DEF Imported
<1>7. \A s \in ledger : SourceRows(s) = {}
  BY <1>4 DEF ImportInv
<1>8. ImportTypeOK'
  <2>1. importer' \in [Importers -> ImporterStates]
    BY <1>1, <1>2, <1>3
  <2>2. rows' \in SUBSET TableRows
    BY <1>1, <1>3, <1>4, <1>5
  <2>3. IsFiniteSet(rows')
    BY <2>2, RowsAreFinite, FS_Subset
  <2>4. QED
    BY <1>1, <1>3, <2>1, <2>2, <2>3 DEF ImportTypeOK, Unlocked
<1>9. ASSUME NEW j \in Importers PROVE ImporterFine(j)'
  <2>1. importer'[j].at \notin {"locked", "inserted", "verified"}
    <3>1. CASE j = i
      BY <1>1, <1>2, <1>3, <3>1
    <3>2. CASE j # i
      <4>1. importer'[j] = importer[j]
        BY <1>1, <1>3, <3>2
      <4>2. QED
        BY <1>1, <1>4, <3>2, <4>1 DEF ImporterFine
    <3>3. QED
      BY <3>1, <3>2
  <2>2. QED
    BY <2>1 DEF ImporterFine
<1>10. Imported' = UNION {SourceRows(s) : s \in ledger'}
  BY <1>3, <1>6, <1>7
<1>11. \A s, t \in ledger' : (SourceRows(s) # {} /\ SourceRows(t) # {}) => s = t
  BY <1>3, <1>7
<1>12. QED
  BY <1>8, <1>9, <1>10, <1>11 DEF ImportInv

\* The services that write the files, or the tables, import nothing.
LEMMA OthersWriteInv == ASSUME ImportInv, FilesChange \/ TablesChange PROVE ImportInv'
<1>1. /\ importer \in [Importers -> ImporterStates] /\ files \in FileSources /\ changes \in Nat
      /\ rows \subseteq TableRows /\ IsFiniteSet(rows)
      /\ \A i \in Importers : ImporterFine(i)
  BY DEF ImportInv, ImportTypeOK
<1>2. UNCHANGED <<importer, advisory, ledger>>
  BY DEF FilesChange, TablesChange
<1>3. Imported' = Imported
  <2>1. CASE FilesChange
    BY <2>1 DEF FilesChange, Imported
  <2>2. CASE TablesChange
    <3> DEFINE r0 == [table |-> "runs", key |-> "new mission", state |-> "running", by |-> "service"]
    <3>1. r0.by = "service"
      OBVIOUS
    <3>2. rows' = rows \cup {r0}
      BY <2>2 DEF TablesChange
    <3> HIDE DEF r0
    <3>3. QED
      BY <3>1, <3>2 DEF Imported
  <2>3. QED
    BY <2>1, <2>2
<1>4. files' \in FileSources /\ changes' \in Nat
  <2>1. CASE TablesChange
    BY <1>1, <2>1 DEF TablesChange
  <2>2. CASE FilesChange
    <3>1. CASE FileGrants
      BY <1>1, <3>1 DEF FileGrants, Changed, FileSources
    <3>2. ASSUME NEW m \in Missions, FileRunStarts(m) \/ FileRunEnds(m)
          PROVE  files' \in FileSources /\ changes' \in Nat
      <4>1. PICK st \in {"running", "ended"} : files' = [files EXCEPT !.runs[m] = st]
        BY <3>2 DEF FileRunStarts, FileRunEnds, Changed
      <4>2. [files.runs EXCEPT ![m] = st] \in [Missions -> {"none", "running", "ended"}]
        BY <1>1 DEF FileSources
      <4>3. QED
        BY <1>1, <3>2, <4>1, <4>2 DEF FileSources, FileRunStarts, FileRunEnds, Changed
    <3>3. ASSUME NEW m \in Missions, FileJournals(m) PROVE files' \in FileSources /\ changes' \in Nat
      BY <1>1, <3>3 DEF FileJournals, Changed, FileSources
    <3>4. ASSUME NEW m \in Missions, FileSettles(m) PROVE files' \in FileSources /\ changes' \in Nat
      <4>1. PICK st \in {"settlement_attempting", "paid", "completed"} :
              files' = [files EXCEPT !.executions[m] = st] /\ changes' = changes + 1
        BY <3>4 DEF FileSettles, Changed
      <4>2. [files.executions EXCEPT ![m] = st] \in [Missions -> {"none", "settlement_attempting", "paid", "completed"}]
        BY <1>1 DEF FileSources
      <4>3. QED
        BY <1>1, <4>1, <4>2 DEF FileSources
    <3>5. QED
      BY <2>2, <3>1, <3>2, <3>3, <3>4 DEF FilesChange
  <2>3. QED
    BY <2>1, <2>2
<1>5. rows' \in SUBSET TableRows
  <2>1. CASE TablesChange
    <3>1. [table |-> "runs", key |-> "new mission", state |-> "running", by |-> "service"] \in TableRows
      BY DEF TableRows, TableNames
    <3>2. QED
      BY <1>1, <2>1, <3>1 DEF TablesChange
  <2>2. CASE FilesChange
    BY <1>1, <2>2 DEF FilesChange
  <2>3. QED
    BY <2>1, <2>2
<1>6. IsFiniteSet(rows')
  BY <1>5, RowsAreFinite, FS_Subset
<1>7. ImportTypeOK'
  BY <1>2, <1>4, <1>5, <1>6 DEF ImportInv, ImportTypeOK
<1>8. \A i \in Importers : ImporterFine(i)'
  BY <1>1, <1>2, <1>3 DEF ImporterFine
<1>9. QED
  BY <1>2, <1>3, <1>7, <1>8 DEF ImportInv

THEOREM ImportInvariant == ImportSpec => []ImportInv
<1>1. ImportInv /\ [ImportNext]_importVars => ImportInv'
  <2> SUFFICES ASSUME ImportInv, [ImportNext]_importVars PROVE ImportInv'
    OBVIOUS
  <2>1. CASE FilesChange \/ TablesChange
    BY <2>1, OthersWriteInv
  <2>2. ASSUME NEW i \in Importers,
               \/ LoadRuns(i) \/ LoadAuthorities(i) \/ LoadPurchases(i) \/ LoadExecutions(i)
               \/ LooksAtTarget(i) \/ LeavesTarget(i)
        PROVE  ImportInv'
    BY <2>2, LoadingInv
  <2>3. ASSUME NEW i \in Importers,
               TakesAdvisoryLock(i) \/ InsertsSource(i) \/ VerifiesTotals(i) \/ RollsBack(i)
        PROVE  ImportInv'
    BY <2>3, TransactionInv
  <2>4. ASSUME NEW i \in Importers, CommitsImport(i) PROVE ImportInv'
    BY <2>4, CommitInv
  <2>5. CASE UNCHANGED importVars
    <3>1. ImportTypeOK' /\ Imported' = Imported
      BY <2>5 DEF importVars, ImportInv, ImportTypeOK, Imported
    <3>2. \A i \in Importers : ImporterFine(i)'
      BY <2>5, <3>1 DEF importVars, ImportInv, ImporterFine
    <3>3. QED
      BY <2>5, <3>1, <3>2 DEF importVars, ImportInv
  <2>6. QED
    BY <2>1, <2>2, <2>3, <2>4, <2>5 DEF ImportNext
<1>2. QED
  BY <1>1, ImportInvInit, PTL DEF ImportSpec

\* Importers that overlap, start again or die, over files that move and tables
\* in use, for any number of importers and missions: the tables hold nothing
\* imported, or the whole of one source, each purchase with its run and with
\* the state of its execution (main, assertPostImportTotals).
THEOREM ImportIsAlwaysWhole == ImportSpec => []ImportIsWhole
<1>1. ImportInv => ImportIsWhole
  <2> SUFFICES ASSUME ImportInv PROVE ImportIsWhole
    OBVIOUS
  <2> DEFINE Full == {s \in ledger : SourceRows(s) # {}}
  <2>1. /\ ledger \subseteq FileSources /\ Imported = UNION {SourceRows(s) : s \in ledger}
        /\ \A s, t \in ledger : (SourceRows(s) # {} /\ SourceRows(t) # {}) => s = t
    BY DEF ImportInv, ImportTypeOK
  <2>2. Cardinality(Full) <= 1
    <3>1. CASE Full = {}
      <4>1. Cardinality({}) = 0
        BY FS_EmptySet
      <4>2. QED
        BY <3>1, <4>1
    <3>2. CASE Full # {}
      <4>1. PICK s : s \in Full
        BY <3>2
      <4>2. Full = {s}
        BY <2>1, <4>1
      <4>3. Cardinality({s}) = 1
        BY FS_Singleton
      <4>4. QED
        BY <4>2, <4>3
    <3>3. QED
      BY <3>1, <3>2
  <2>3. ASSUME NEW p \in Imported, p.table = "x402_purchases"
        PROVE  /\ \E r \in Imported : r.table = "runs" /\ r.key = p.key
               /\ \A x \in Imported : (x.table = "x402_executions" /\ x.key = p.key) => x.state = p.state
    <3>1. PICK s \in ledger : p \in SourceRows(s)
      BY <2>1
    <3>2. Imported = SourceRows(s)
      BY <2>1, <3>1
    <3>3. s \in FileSources
      BY <2>1
    <3>4. QED
      BY <2>3, <3>1, <3>2, <3>3, SourceHangsTogether
  <2>4. QED
    BY <2>1, <2>2, <2>3 DEF ImportIsWhole, Imported
<1>2. QED
  BY <1>1, ImportInvariant, PTL

-----------------------------------------------------------------------------
(* AdvantagePage: what a page shows beside a mission.                      *)

\* The payments of two missions that each paid two services are four.
LEMMA FourPayments ==
  ASSUME NEW a, NEW t, a.second, t.second, a.id # t.id
  PROVE  Cardinality(PaymentsOf(a) \cup PaymentsOf(t)) = 4
<1>1. PICK w, x, y, z : w = <<a.id, 1>> /\ x = <<a.id, 2>> /\ y = <<t.id, 1>> /\ z = <<t.id, 2>>
  OBVIOUS
<1>2. w # x /\ w # y /\ w # z /\ x # y /\ x # z /\ y # z
  BY <1>1
<1>3. PaymentsOf(a) \cup PaymentsOf(t) = (({w} \cup {x}) \cup {y}) \cup {z}
  BY <1>1 DEF PaymentsOf
<1>4. IsFiniteSet({w}) /\ Cardinality({w}) = 1
  BY FS_Singleton
<1>5. IsFiniteSet({w} \cup {x}) /\ Cardinality({w} \cup {x}) = 2
  BY <1>2, <1>4, FS_AddElement
<1>6. IsFiniteSet(({w} \cup {x}) \cup {y}) /\ Cardinality(({w} \cup {x}) \cup {y}) = 3
  BY <1>2, <1>5, FS_AddElement
<1>7. Cardinality((({w} \cup {x}) \cup {y}) \cup {z}) = 4
  BY <1>2, <1>6, FS_AddElement
<1> QED BY <1>3, <1>7

\* A due diligence that is shown is a completed audit and a completed
\* investigation, and the file lists their four payments.
LEMMA DiligenceIsPaid ==
  ASSUME PageAssumption, NEW list, NEW paid, DueDiligence(list, paid) # << >>,
         NEW q, q = DueDiligence(list, paid)
  PROVE  /\ paid.pays = PaymentsOf(q[1]) \cup PaymentsOf(q[2])
         /\ Cardinality(paid.pays) = 4 /\ q[1].completed /\ q[2].completed
<1> DEFINE Verified(kind) == {r \in ToSet(list) : r.completed /\ r.second /\ r.id \in kind}
           pairs == {pair \in Verified(Audits) \X Verified(Tokens) :
                       /\ paid.of = <<pair[1].id, pair[2].id>>
                       /\ paid.pays = PaymentsOf(pair[1]) \cup PaymentsOf(pair[2])}
<1>1. q \in pairs
  BY DEF DueDiligence
<1>2. PICK a \in Verified(Audits), t \in Verified(Tokens) :
        q = <<a, t>> /\ paid.pays = PaymentsOf(a) \cup PaymentsOf(t)
  BY <1>1
<1>3. /\ a.completed /\ t.completed /\ a.second /\ t.second /\ a.id \in Audits /\ t.id \in Tokens
  OBVIOUS
<1>4. a.id # t.id
  BY <1>3 DEF PageAssumption
<1>5. Cardinality(PaymentsOf(a) \cup PaymentsOf(t)) = 4
  BY <1>3, <1>4, FourPayments
<1> QED BY <1>2, <1>3, <1>5

\* PageIsOfItsMissions, of any page.
Joins(page) ==
  page.answered =>
    /\ \A evidence \in {page.review, page.enrichment} :
         evidence # << >> => evidence = <<page.token[1].id>>
    /\ page.diligence # << >> =>
         /\ page.payments = UNION {PaymentsOf(page.diligence[k]) : k \in 1..2}
         /\ Cardinality(page.payments) = 4 /\ \A k \in 1..2 : page.diligence[k].completed
    /\ page.tool \in {<< >>, page.truth}

\* Every page keeps what it shows with what it was made from.
LEMMA PagesJoin ==
  ASSUME PageAssumption, NEW list, NEW shelved, NEW page, page = Page(list, shelved)
  PROVE  Joins(page)
<1>1. PICK token, paid : token = TokenShown(list, shelved) /\ paid = shelved["paid"]
  OBVIOUS
<1>2. /\ page.token = token /\ page.payments = paid.pays
      /\ page.review = (IF token = << >> THEN << >> ELSE ReviewOf(token[1], shelved))
      /\ page.enrichment = (IF token # << >> /\ Bound(shelved["enrichment"], token[1])
                             THEN shelved["enrichment"].of ELSE << >>)
      /\ page.diligence = DueDiligence(list, paid)
      /\ page.tool = ToolShown(shelved) /\ page.truth = shelved["truth"].of
  BY <1>1 DEF Page
<1>3. page.review # << >> => page.review = <<page.token[1].id>>
  BY <1>2 DEF ReviewOf, Bound
<1>4. page.enrichment # << >> => page.enrichment = <<page.token[1].id>>
  BY <1>2 DEF Bound
<1>5. ASSUME page.diligence # << >>
      PROVE  /\ page.payments = UNION {PaymentsOf(page.diligence[k]) : k \in 1..2}
             /\ Cardinality(page.payments) = 4 /\ \A k \in 1..2 : page.diligence[k].completed
  <2>1. PICK q : q = DueDiligence(list, paid)
    OBVIOUS
  <2>2. /\ paid.pays = PaymentsOf(q[1]) \cup PaymentsOf(q[2])
        /\ Cardinality(paid.pays) = 4 /\ q[1].completed /\ q[2].completed
    BY <1>2, <1>5, <2>1, DiligenceIsPaid
  <2>3. 1..2 = {1, 2}
    OBVIOUS
  <2>4. UNION {PaymentsOf(q[k]) : k \in 1..2} = PaymentsOf(q[1]) \cup PaymentsOf(q[2])
    BY <2>3
  <2> QED BY <1>2, <2>1, <2>2, <2>3, <2>4
<1>6. page.tool \in {<< >>, page.truth}
  BY <1>2 DEF ToolShown
<1> QED BY <1>3, <1>4, <1>5, <1>6 DEF Joins

\* Whatever ended or was replaced while a page was put together, what it shows
\* beside an investigation was made from it, the payments of a due diligence
\* are those of its two missions, and a score stands beside its own manifest.
THEOREM PageIsAlwaysOfItsMissions == PageSpec => []PageIsOfItsMissions
<1>1. PageInit => PageIsOfItsMissions
  BY DEF PageInit, PageIsOfItsMissions, NoPage
<1>2. ASSUME PageIsOfItsMissions, [PageNext]_pageVars PROVE PageIsOfItsMissions'
  <2>1. ASSUME shown' = NoPage PROVE PageIsOfItsMissions'
    BY <2>1 DEF PageIsOfItsMissions, NoPage
  <2>2. CASE PageAnswers
    <3>1. PICK r : shown' = Page(Reverse(r.book), r.files)
      BY <2>2 DEF PageAnswers
    <3>2. Joins(shown')
      BY <3>1, PagesJoin, PageAssumption
    <3> QED BY <3>2 DEF Joins, PageIsOfItsMissions
  <2>3. CASE UNCHANGED pageVars
    BY <1>2, <2>3 DEF pageVars, PageIsOfItsMissions
  <2>4. CASE PageStarts \/ PageFails
    BY <2>1, <2>4 DEF PageStarts, PageFails
  <2>5. ASSUME NEW m, MissionEnds(m) PROVE PageIsOfItsMissions'
    BY <2>1, <2>5 DEF MissionEnds
  <2>6. ASSUME NEW k, MissionRecovers(k) PROVE PageIsOfItsMissions'
    BY <2>1, <2>6 DEF MissionRecovers
  <2>7. ASSUME NEW f, Refresh(f) PROVE PageIsOfItsMissions'
    BY <2>1, <2>7 DEF Refresh
  <2> QED BY <1>2, <2>2, <2>3, <2>4, <2>5, <2>6, <2>7 DEF PageNext
<1> QED BY <1>1, <1>2, PTL DEF PageSpec
=============================================================================
