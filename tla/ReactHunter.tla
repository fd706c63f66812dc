----------------------------- MODULE ReactHunter ----------------------------
(***************************************************************************)
(* A single mission that a language model drives through tools             *)
(* (react-engine.ts, kimi-loop.ts, react-tool-catalog.ts) and pays for by  *)
(* a native transfer, and the Writers' POST /execute that serves it        *)
(* (routes.ts, payment.ts).  The tools share one runtime state and the     *)
(* model may call them in any order, again, and, with the OpenAI provider, *)
(* several at once.  A Writer remembers the transfers it was paid with     *)
(* only in memory.                                                         *)
(*                                                                         *)
(* The model, the directory and the network are external: they choose.     *)
(* Prices, texts and scores are left out.                                  *)
(***************************************************************************)
EXTENDS Integers, FiniteSets

CONSTANTS Services, Writers,
          ProviderOf,    \* the Writer that provides a service and signs for it
          Unset,         \* a field of the runtime state not yet set
          MaxSteps,      \* turns of the model, 12
          Overlap,       \* tool calls of one turn at work together: 1 with Kimi
          MaxTransfers,  \* bound: native transfers
          MaxWriterRestarts    \* bound: restarts of Writers

ASSUME ReactAssumption ==
  /\ ProviderOf \in [Services -> Writers] /\ Unset \notin Services
  /\ {MaxSteps, Overlap, MaxTransfers, MaxWriterRestarts} \subseteq Nat

VARIABLES
  hunt,       \* HunterRuntimeState, and how far the mission has come
  calls,      \* the tool calls at work
  transfers,  \* the transfers broadcast, by number
  writer,     \* what each Writer holds in memory
  resets      \* restarts of Writers so far

reactVars == <<hunt, calls, transfers, writer, resets>>

NoExecution == [by |-> Unset, tx |-> 0]
NoReport == [service |-> Unset, purchase |-> NoExecution, verified |-> FALSE]
NoMemory == [pending |-> {}, used |-> {}, served |-> [n \in 1..MaxTransfers |-> 0]]

ReactInit ==
  /\ hunt = [at |-> "turn", steps |-> 0, services |-> {}, service |-> Unset, quote |-> Unset,
             tx |-> 0, execution |-> NoExecution, checked |-> FALSE, report |-> NoReport]
  /\ calls = {} /\ transfers = << >>
  /\ writer = [w \in Writers |-> NoMemory]
  /\ resets = 0

-----------------------------------------------------------------------------
(* The loop: the model takes a turn when no tool is at work, and calls one *)
(* or more tools.  An error of any tool ends the mission.                  *)

Thinks ==
  /\ hunt.at = "turn" /\ calls = {} /\ hunt.steps < MaxSteps
  /\ \E n \in 1..Overlap :
       calls' = {[id |-> i, tool |-> "chosen", tx |-> 0, to |-> Unset] : i \in 1..n}
  /\ hunt' = [hunt EXCEPT !.steps = @ + 1]
  /\ UNCHANGED <<transfers, writer, resets>>

Fresh(c) == c.tool = "chosen"

\* A tool that is done leaves its result in the runtime state.
Returns(c, state) == calls' = calls \ {c} /\ hunt' = state
Throws(c) == Returns(c, [hunt EXCEPT !.at = "failed"])
Proceeds(c, to) == calls' = (calls \ {c}) \cup {to} /\ UNCHANGED hunt

DiscoverServices(c) ==
  /\ Fresh(c)
  /\ \E live \in SUBSET Services : Returns(c, [hunt EXCEPT !.services = live])
  /\ UNCHANGED <<transfers, writer, resets>>

EvaluateService(c) ==
  /\ Fresh(c)
  /\ \E s \in hunt.services : Returns(c, [hunt EXCEPT !.service = s])
  /\ UNCHANGED <<transfers, writer, resets>>

\* The chosen service first, then the others by rank: the first that answers.
Candidates == hunt.services \cup ({hunt.service} \ {Unset})

RequestService(c) ==
  /\ Fresh(c) /\ hunt.services # {}
  /\ \E s \in Candidates : Returns(c, [hunt EXCEPT !.service = s, !.quote = s])
  /\ UNCHANGED <<transfers, writer, resets>>

MakePayment(c) ==
  /\ Fresh(c) /\ hunt.quote # Unset
  /\ Proceeds(c, [c EXCEPT !.tool = "pay", !.to = ProviderOf[hunt.quote]])
  /\ UNCHANGED <<transfers, writer, resets>>

Broadcast(c) ==
  /\ c.tool = "pay" /\ Cardinality(DOMAIN transfers) < MaxTransfers
  /\ LET n == Cardinality(DOMAIN transfers) + 1 IN
     /\ transfers' = [i \in 1..n |-> IF i = n THEN [to |-> c.to, mined |-> FALSE] ELSE transfers[i]]
     /\ Proceeds(c, [c EXCEPT !.tool = "wait", !.tx = n])
  /\ UNCHANGED <<writer, resets>>

Mined(n) ==
  /\ ~transfers[n].mined /\ transfers' = [transfers EXCEPT ![n].mined = TRUE]
  /\ UNCHANGED <<hunt, calls, writer, resets>>

PaymentConfirmed(c) ==
  /\ c.tool = "wait" /\ transfers[c.tx].mined
  /\ Returns(c, [hunt EXCEPT !.tx = c.tx])
  /\ UNCHANGED <<transfers, writer, resets>>

\* The payment goes to the service of the moment, whatever it was made for.
SubmitPayment(c) ==
  /\ Fresh(c) /\ hunt.service # Unset /\ hunt.quote # Unset /\ hunt.tx # 0
  /\ Proceeds(c, [c EXCEPT !.tool = "sent", !.to = ProviderOf[hunt.service], !.tx = hunt.tx])
  /\ UNCHANGED <<transfers, writer, resets>>

ResultArrives(c) ==
  /\ c.tool = "answered"
  /\ Returns(c, [hunt EXCEPT !.execution = [by |-> c.to, tx |-> c.tx]])
  /\ UNCHANGED <<transfers, writer, resets>>

\* A receipt is valid when the Writer that signed it provides the service.
ReceiptValid(state) == state.service # Unset /\ state.execution.by = ProviderOf[state.service]

VerifyReceipt(c) ==
  /\ Fresh(c) /\ hunt.execution # NoExecution
  /\ Returns(c, [hunt EXCEPT !.checked = ReceiptValid(hunt)])
  /\ UNCHANGED <<transfers, writer, resets>>

\* check_balance, evaluate_result, reflect and give_feedback leave what the report is about.
OtherTool(c) ==
  /\ Fresh(c) /\ Returns(c, hunt)
  /\ UNCHANGED <<transfers, writer, resets>>

\* A tool called too early, a service that does not answer, a transfer that
\* fails, an answer lost or refused.
ToolFails(c) ==
  /\ IF c.tool \in {"sent", "verifying", "executing"}   \* the Writer goes on
     THEN hunt' = [hunt EXCEPT !.at = "failed"] /\ UNCHANGED calls
     ELSE Throws(c)
  /\ UNCHANGED <<transfers, writer, resets>>

\* The model stops.  The receipt is verified again on what the state now
\* says; feedback is best effort, but a lesson that cannot be stored fails the run.
Checked(state) == state.checked       \* variant: what verify_receipt found
Verdict(state) == ReceiptValid(state)

Concludes ==
  /\ hunt.at = "turn" /\ calls = {} /\ hunt.steps > 0
  /\ \/ /\ hunt.service # Unset /\ hunt.quote # Unset /\ hunt.tx # 0 /\ hunt.execution # NoExecution
        /\ hunt' = [hunt EXCEPT !.at = "done",
                      !.report = [service |-> hunt.service, purchase |-> hunt.execution,
                                  verified |-> Verdict(hunt)]]
     \/ hunt' = [hunt EXCEPT !.at = "failed"]
  /\ UNCHANGED <<calls, transfers, writer, resets>>

-----------------------------------------------------------------------------
(* A Writer serves POST /execute: it reserves the transfer, looks at the   *)
(* chain, executes, and remembers the transfer as used.                    *)

ReservedOrUsed(w, n) == n \in writer[w].used \cup writer[w].pending
UsedOnly(w, n) == n \in writer[w].used     \* variant: concurrent requests are not seen
Duplicate(w, n) == ReservedOrUsed(w, n)

Reserve(c) ==
  /\ c.tool = "sent" /\ ~Duplicate(c.to, c.tx)
  /\ writer' = [writer EXCEPT ![c.to].pending = @ \cup {c.tx}]
  /\ Proceeds(c, [c EXCEPT !.tool = "verifying"])
  /\ UNCHANGED <<transfers, resets>>

Acceptable(c) == transfers[c.tx].mined /\ transfers[c.tx].to = c.to

VerifyTransfer(c) ==
  /\ c.tool = "verifying" /\ Acceptable(c)
  /\ Proceeds(c, [c EXCEPT !.tool = "executing"])
  /\ UNCHANGED <<transfers, writer, resets>>

Execute(c) ==
  /\ c.tool = "executing"
  /\ writer' = [writer EXCEPT ![c.to].pending = @ \ {c.tx}, ![c.to].used = @ \cup {c.tx},
                              ![c.to].served[c.tx] = @ + 1]
  /\ Proceeds(c, [c EXCEPT !.tool = "answered"])
  /\ UNCHANGED <<transfers, resets>>

\* 409 for a duplicate; otherwise the reservation is given up.
Refuse(c) ==
  /\ \/ c.tool = "sent" /\ Duplicate(c.to, c.tx) /\ UNCHANGED writer
     \/ /\ c.tool \in {"verifying", "executing"}
        /\ writer' = [writer EXCEPT ![c.to].pending = @ \ {c.tx}]
  /\ Throws(c) /\ UNCHANGED <<transfers, resets>>

WriterRestarts(w) ==
  /\ resets < MaxWriterRestarts /\ resets' = resets + 1
  /\ writer' = [writer EXCEPT ![w] = NoMemory]
  /\ LET cut == {c \in calls : c.to = w /\ c.tool \in {"verifying", "executing", "answered"}} IN
     /\ calls' = calls \ cut
     /\ hunt' = IF cut = {} THEN hunt ELSE [hunt EXCEPT !.at = "failed"]
  /\ UNCHANGED transfers

ReactNext ==
  \/ Thinks \/ Concludes
  \/ \E c \in calls :
       \/ DiscoverServices(c) \/ EvaluateService(c) \/ RequestService(c)
       \/ MakePayment(c) \/ Broadcast(c) \/ PaymentConfirmed(c)
       \/ SubmitPayment(c) \/ ResultArrives(c) \/ VerifyReceipt(c) \/ OtherTool(c) \/ ToolFails(c)
       \/ Reserve(c) \/ VerifyTransfer(c) \/ Execute(c) \/ Refuse(c)
  \/ \E n \in DOMAIN transfers : Mined(n)
  \/ \E w \in Writers : WriterRestarts(w)

ReactSpec == ReactInit /\ [][ReactNext]_reactVars

-----------------------------------------------------------------------------
\* However often the model chooses, quotes, pays and submits again, a report
\* whose receipt is verified is of a result that the reported service's own
\* provider gave, for a transfer that this mission made to that provider.
VerifiedIsPaidFor ==
  hunt.report.verified =>
    LET by == ProviderOf[hunt.report.service]
        n  == hunt.report.purchase.tx
    IN hunt.report.purchase.by = by /\ transfers[n].mined /\ transfers[n].to = by

\* While it stays up, a Writer executes at most once for a transfer, whatever
\* requests arrive together, fail or are sent again.
ServedOncePerPayment == \A w \in Writers, n \in 1..MaxTransfers : writer[w].served[n] <= 1
=============================================================================
