---------------------------- MODULE CommanderBudget ----------------------------
(***************************************************************************)
(* How a commander mission spends: a planner hires agents phase by phase,  *)
(* each phase may spend what the mission's budget has left, buys one       *)
(* service and, for audits and investigations, an independent review, and  *)
(* is charged when it returns.                                             *)
(*                                                                         *)
(* A phase races its timeout and the mission's abort signal, and the loser *)
(* of the race is not stopped: it goes on buying.  Every await of the      *)
(* phase is a step.  The process may die and the mission be executed       *)
(* again, with a new budget, over the purchase journal it left.            *)
(*                                                                         *)
(* External: the planner (a language model that calls hire_agent, several  *)
(* times in one step if the provider runs tool calls in parallel) and the  *)
(* services.  A payment counts once it is signed or sent.                  *)
(***************************************************************************)
EXTENDS Naturals, FiniteSets, FiniteSetsExt

CONSTANTS Hire,                        \* the calls of hire_agent (a bound)
          Fallback,                    \* the phase run if the planner hires nobody
          Plain, Auditor, Investigator, Reviewer, RiskReviewer,   \* services by task type
          X402,                        \* the services bought over x402
          Price, Task, None,
          MaxTotal, MaxPerPhase, MaxPhases,   \* the budget
          Parallel,                    \* the planner's calls of a step overlap
          MaxRestarts                  \* bound: deaths of the process

Primary == Plain \cup Auditor \cup Investigator
Service == Primary \cup Reviewer \cup RiskReviewer
Slot == Hire \cup {Fallback}

ASSUME CommanderAssumption ==
    /\ Fallback \notin Hire /\ None \notin Service \cup Task
    /\ Primary \cap (Reviewer \cup RiskReviewer) = {}
    /\ Plain \cap (Auditor \cup Investigator) = {} /\ Auditor \cap Investigator = {}
    /\ X402 \subseteq Service /\ Price \in [Service -> Nat]
    /\ MaxTotal \in Nat /\ MaxPerPhase \in Nat /\ MaxPhases \in Nat \ {0}
    /\ Parallel \in BOOLEAN /\ MaxRestarts \in Nat

VARIABLES stage,      \* of the mission
          budget,     \* CommanderRuntimeState: what is spent, counted, stopped
          aborted,    \* the mission's abort signal
          phases,     \* the phase each hire started
          journal,    \* the x402 purchase of each service by this mission
          debits,     \* history: payments made to each service by this mission
          restarts

vars == <<stage, budget, aborted, phases, journal, debits, restarts>>
process == <<stage, budget, aborted, restarts>>

\* fate: what the commander makes of it; replay: an earlier purchase is fetched.
Phase == [at : {"idle", "lookup", "quote", "pay", "answer", "done", "failed"},
          fate : {"none", "awaited", "returned", "lost"},
          primary : Service \cup {None}, service : Service \cup {None},
          task : Task \cup {None}, replay : BOOLEAN,
          limit : Nat, approved : Nat, paid : Nat]
NoPhase == [at |-> "idle", fate |-> "none", primary |-> None, service |-> None, task |-> None,
            replay |-> FALSE, limit |-> 0, approved |-> 0, paid |-> 0]
NoPurchase == [task |-> None, signed |-> FALSE]
FullBudget == [spent |-> 0, count |-> 0, stopped |-> FALSE, success |-> FALSE]

Init == /\ stage = "planning"
        /\ budget = FullBudget
        /\ aborted = FALSE
        /\ phases = [h \in Slot |-> NoPhase]
        /\ journal = [s \in X402 |-> NoPurchase]
        /\ debits = [s \in Service |-> 0]
        /\ restarts = 0

-----------------------------------------------------------------------------
(* The budget.                                                              *)

Available == IF MaxTotal - budget.spent < MaxPerPhase THEN MaxTotal - budget.spent
             ELSE MaxPerPhase

Blocked == budget.stopped \/ budget.count >= MaxPhases \/ budget.spent >= MaxTotal

\* readPhaseSpend: the service and an Auditor's reviewer, not a risk reviewer.
Charge(p) == Price[p.primary] + IF p.primary \in Auditor THEN Price[p.service] ELSE 0

Charged(p) ==
    LET spent == budget.spent + Charge(p)
    IN [spent |-> spent, count |-> budget.count + 1, success |-> TRUE,
        stopped |-> budget.stopped \/ Charge(p) > MaxPerPhase \/ spent >= MaxTotal]

-----------------------------------------------------------------------------
(* The commander.                                                           *)

Awaited == {h \in Slot : phases[h].fate = "awaited"}

\* The service a phase buys is the best of those discovered for its goal.
Begin(h) ==
    /\ phases[h] = NoPhase
    /\ \E s \in Primary, t \in Task :
          phases' = [phases EXCEPT ![h] = [NoPhase EXCEPT
              !.at = "lookup", !.fate = "awaited", !.primary = s, !.service = s, !.task = t,
              !.limit = Available]]

HireAgent(h) ==
    /\ stage = "planning"
    /\ Parallel \/ Awaited = {}
    /\ ~aborted /\ ~Blocked
    /\ Begin(h)
    /\ UNCHANGED <<process, journal, debits>>

\* A call made after the signal only notes it.
HireInterrupted ==
    /\ stage = "planning"
    /\ aborted /\ ~budget.stopped
    /\ budget' = [budget EXCEPT !.stopped = TRUE]
    /\ UNCHANGED <<stage, aborted, phases, journal, debits, restarts>>

Settled(h, fate) == phases' = [phases EXCEPT ![h].fate = fate]

\* The fallback is the last phase: its failure fails the mission.
PhaseReturns(h) ==
    /\ phases[h].fate = "awaited" /\ phases[h].at = "done"
    /\ budget' = Charged(phases[h])
    /\ stage' = IF h = Fallback THEN "completed" ELSE stage
    /\ Settled(h, "returned")
    /\ UNCHANGED <<aborted, journal, debits, restarts>>

Lost(h, interrupted) ==
    /\ phases[h].fate = "awaited"
    /\ IF h = Fallback THEN stage' = "failed" /\ UNCHANGED budget
       ELSE /\ budget' = [budget EXCEPT !.count = @ + 1, !.stopped = @ \/ interrupted]
            /\ UNCHANGED stage
    /\ Settled(h, "lost")
    /\ UNCHANGED <<aborted, journal, debits, restarts>>

Running(p) == p.at \notin {"idle", "done", "failed"}

PhaseThrows(h) == phases[h].at = "failed" /\ Lost(h, FALSE)

PhaseTimesOut(h) == Running(phases[h]) /\ Lost(h, FALSE)

PhaseInterrupted(h) == aborted /\ Running(phases[h]) /\ Lost(h, TRUE)

Abort == /\ stage \in {"planning", "fallback"}
         /\ ~aborted
         /\ aborted' = TRUE
         /\ UNCHANGED <<stage, budget, phases, journal, debits, restarts>>

\* The planner has its last answers; nobody hired and no signal: the fallback.
PlannerReturns ==
    /\ stage = "planning" /\ Awaited = {}
    /\ budget' = [budget EXCEPT !.stopped = @ \/ aborted]
    /\ IF budget.count = 0 /\ ~aborted
       THEN stage' = "fallback" /\ Begin(Fallback)
       ELSE stage' = (IF budget.success THEN "completed" ELSE "failed") /\ UNCHANGED phases
    /\ UNCHANGED <<aborted, journal, debits, restarts>>

PlannerThrows ==
    /\ stage = "planning" /\ Awaited = {}
    /\ stage' = "failed"
    /\ UNCHANGED <<budget, aborted, phases, journal, debits, restarts>>

\* The process dies with its phases; the run is claimed and executed again.
Restart ==
    /\ stage \in {"planning", "fallback"} /\ restarts < MaxRestarts
    /\ restarts' = restarts + 1
    /\ stage' = "planning"
    /\ budget' = FullBudget
    /\ aborted' = FALSE
    /\ phases' = [h \in Slot |-> NoPhase]
    /\ UNCHANGED <<journal, debits>>

-----------------------------------------------------------------------------
(* A phase: one purchase, then the independent review of its result.        *)

Step(h, p) == phases' = [phases EXCEPT ![h] = p]

ApproveEachQuote(p) == Price[p.service] <= p.limit   \* variant: quotes are not added up

Approves(p) == p.approved + Price[p.service] <= p.limit
Approved(p) == [p EXCEPT !.approved = @ + Price[p.service]]

\* The purchase journalled for the service is fetched, approved once more.
Resumed(p) ==
    IF journal[p.service].task = p.task /\ Approves(p)
    THEN [Approved(p) EXCEPT !.at = "answer", !.replay = TRUE]
    ELSE [p EXCEPT !.at = "failed"]

HasPurchase(s) == s \in X402 /\ journal[s] # NoPurchase

LookUp(h) ==
    LET p == phases[h]
    IN /\ p.at = "lookup"
       /\ Step(h, IF HasPurchase(p.service) THEN Resumed(p) ELSE [p EXCEPT !.at = "quote"])
       /\ UNCHANGED <<process, journal, debits>>

LosesPurchasePays(h, p) == Step(h, [p EXCEPT !.at = "pay"])   \* variant: the journal decides nothing

LosesPurchase(h, p) == Step(h, Resumed(p))

\* The quote arrives: approved, then journalled if the service takes x402.
Quoted(h) ==
    LET p == phases[h]
        ok == [Approved(p) EXCEPT !.at = "pay"]
    IN /\ p.at = "quote"
       /\ CASE ~Approves(p) -> Step(h, [p EXCEPT !.at = "failed"]) /\ UNCHANGED journal
            [] Approves(p) /\ HasPurchase(p.service) ->
                   LosesPurchase(h, Approved(p)) /\ UNCHANGED journal
            [] OTHER ->
                   /\ Step(h, ok)
                   /\ journal' = IF p.service \in X402
                                 THEN [journal EXCEPT ![p.service].task = p.task] ELSE journal
       /\ UNCHANGED <<process, debits>>

Pay(h) ==
    LET p == phases[h]
    IN /\ p.at = "pay"
       /\ debits' = [debits EXCEPT ![p.service] = @ + 1]
       /\ journal' = IF p.service \in X402 THEN [journal EXCEPT ![p.service].signed = TRUE]
                     ELSE journal
       /\ Step(h, [p EXCEPT !.at = "answer", !.paid = @ + Price[p.service]])
       /\ UNCHANGED process

ReviewersOf(s) == IF s \in Auditor THEN Reviewer
                  ELSE IF s \in Investigator THEN RiskReviewer ELSE {}

\* The review is of the result: the same for a replayed purchase.
ReviewTasks(p) == IF p.primary \in X402 THEN {p.task} ELSE Task

Answered(h) ==
    LET p == phases[h]
    IN /\ p.at = "answer"
       /\ p.replay => journal[p.service].signed
       /\ IF p.service = p.primary /\ p.primary \notin Plain
          THEN \E r \in ReviewersOf(p.primary), t \in ReviewTasks(p) :
                  Step(h, [p EXCEPT !.at = "lookup", !.service = r, !.task = t, !.replay = FALSE])
          ELSE Step(h, [p EXCEPT !.at = "done"])
       /\ UNCHANGED <<process, journal, debits>>

\* No offer, a refused quote or payment, an invalid receipt or report.
Fails(h) ==
    /\ Running(phases[h])
    /\ Step(h, [phases[h] EXCEPT !.at = "failed"])
    /\ UNCHANGED <<process, journal, debits>>

PhaseStep(h) == LookUp(h) \/ Quoted(h) \/ Pay(h) \/ Answered(h) \/ Fails(h)
Settle(h) == PhaseReturns(h) \/ PhaseThrows(h) \/ PhaseTimesOut(h) \/ PhaseInterrupted(h)

Next == \/ \E h \in Hire : HireAgent(h)
        \/ \E h \in Slot : PhaseStep(h) \/ Settle(h)
        \/ HireInterrupted \/ Abort \/ PlannerReturns \/ PlannerThrows \/ Restart

Spec == Init /\ [][Next]_vars

-----------------------------------------------------------------------------
(* Properties                                                               *)

\* Values stay in their types.
CommanderTypeOK ==
    /\ stage \in {"planning", "fallback", "completed", "failed"}
    /\ budget \in [spent : Nat, count : Nat, stopped : BOOLEAN, success : BOOLEAN]
    /\ aborted \in BOOLEAN
    /\ phases \in [Slot -> Phase]
    /\ journal \in [X402 -> [task : Task \cup {None}, signed : BOOLEAN]]
    /\ debits \in [Service -> Nat]
    /\ restarts \in 0..MaxRestarts

\* A phase, waited for or abandoned, never pays more than the limit it was
\* started with, its service and its reviewer together (createPhaseSpendApprover).
PhaseWithinLimit == \A h \in Slot : phases[h].paid <= phases[h].limit

\* The books never exceed the mission's total, though the limit of a phase is
\* read before it runs and charged after it (sequential planner).
SpentWithinTotal == ~Parallel => budget.spent <= MaxTotal

\* No more phases are run than the budget allows.
PhasesWithinLimit == budget.count <= MaxPhases

\* Over x402 a mission pays a service at most once: phases that time out and
\* are hired again, overlap, or belong to an earlier execution share the purchase.
PaidOncePerService == \A s \in X402 : debits[s] <= 1

\* "Total budget cap": a mission pays no more than its total.
PaidWithinTotal ==
    MapThenSumSet(LAMBDA s : debits[s] * Price[s], Service) <= MaxTotal

===============================================================================
