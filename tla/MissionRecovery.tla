-------------------------- MODULE MissionRecovery ---------------------------
(***************************************************************************)
(* A mission that failed after its audit was paid for, and how it is       *)
(* completed afterwards: recoverPaidAudit (started by the browser or the   *)
(* operator's command) hires the independent Verifier again, saves the     *)
(* mission, then completes the durable run; recoverMissionFromEvidence     *)
(* rebuilds a mission that was never saved.  The purchase journal stands   *)
(* between an attempt and a second payment.                                *)
(*                                                                         *)
(* The recovery lock bears the name of the authority the process acts for, *)
(* and so does the run store it opens.  Another lock than the mission's    *)
(* own is taken by the command without an authority, on a mission of the   *)
(* browser: it shares missions and purchases with the others, not the run. *)
(***************************************************************************)
EXTENDS Naturals, Sequences, FiniteSets, TLC

CONSTANTS
  Recoverers,    \* processes that can run recoverPaidAudit
  Verifiers,     \* services that offer finding-verification
  MaxAttempts    \* bound on attempts; 0 is the live run

ASSUME RecoveryAssumption == MaxAttempts \in Nat /\ "free" \notin Recoverers

\* Lock names in use: with a stranger to the mission or not, whose run store
\* is another file, or another scope of the one table of runs.
LockNames == {"own", "other file", "other scope"}
Deployments == {{"own"}, {"own", "other file"}, {"own", "other scope"}}

VARIABLES
  run,         \* the durable run: status, events, result, is its trace near the limit,
               \* and has onTerminal been called
  mission,     \* the stored mission
  remembered,  \* Hunter memory has the experience of this mission
  intents,     \* X402PurchaseStore: what is on record for (mission, verifier)
  payments,      \* payments that reached a verifier: <<verifier, attempt>>
  job,         \* each recoverer's attempt
  recoveryLock, \* who holds the lock of each name
  attempts,
  rebuilding   \* GET /missions/:id found no mission and rebuilds one

recoveryVars == <<run, mission, remembered, intents, payments, job, recoveryLock, attempts, rebuilding>>

\* Events are numbered by the attempt that wrote them; these two by the live run.
LiveEvent == "live"
VerifierPaidEvent == "verifier paid"
EvidenceEvent == "evidence"

NoMission == [status |-> "none", source |-> "none", events |-> <<>>, result |-> 0]
NoJob == [at |-> "idle", lock |-> "own", attempt |-> 0, verifier |-> "none",
          base |-> <<>>,      \* events of the mission it read
          adds |-> <<>>,      \* recovery events, for the run
          result |-> 0]

RecoveryInit ==
  /\ \E nearLimit \in BOOLEAN :
       run = [status |-> "running", events |-> <<LiveEvent>>, result |-> 0, full |-> nearLimit,
              told |-> FALSE]
  /\ mission = NoMission
  /\ remembered = FALSE
  /\ intents = [v \in Verifiers |-> "none"]
  /\ payments = {}
  /\ job = [p \in Recoverers |-> NoJob]
  /\ \E names \in Deployments : recoveryLock = [l \in names |-> "free"]
  /\ attempts = 0 /\ rebuilding = FALSE

(***************************************************************************)
(* The live run                                                            *)
(***************************************************************************)
\* hireIndependentVerifier in the live run: paid and delivered, or on record
\* with an outcome nobody knows.
LiveHires(v) ==
  /\ run.status = "running" /\ payments = {} /\ \A w \in Verifiers : intents[w] = "none"
  /\ \E outcome \in {"delivered", "uncertain", "unpaid"} :
       /\ intents' = [intents EXCEPT ![v] = IF outcome = "delivered" THEN "delivered" ELSE "intent"]
       /\ payments' = IF outcome = "unpaid" THEN payments ELSE {<<v, 0>>}
       /\ run' = IF outcome = "delivered"
                   THEN [run EXCEPT !.events = Append(@, VerifierPaidEvent)]
                   ELSE run
       /\ \E kept \in {FALSE, outcome = "delivered"} : remembered' = kept
  /\ UNCHANGED <<mission, job, recoveryLock, attempts, rebuilding>>

LiveEnds ==
  /\ run.status = "running"
  /\ \E s \in {"failed", "cancelled"} : run' = [run EXCEPT !.status = s]
  /\ UNCHANGED <<mission, remembered, intents, payments, job, recoveryLock, attempts, rebuilding>>

\* onTerminal, once per run: the mission is replaced, whatever it was, unless
\* saveMissionSafely loses it.  The error of a cancelled run is not resumable.
LiveMissionSaved ==
  /\ run.status # "running" /\ ~run.told
  /\ run' = [run EXCEPT !.told = TRUE]
  /\ mission' \in {mission, [status |-> run.status, source |-> "live", events |-> run.events, result |-> 0]}
  /\ UNCHANGED <<remembered, intents, payments, job, recoveryLock, attempts, rebuilding>>

(***************************************************************************)
(* GET /missions/:id                                                       *)
(***************************************************************************)
\* The experience and exactly one auditor and one verifier receipt are found.
RebuildReads ==
  /\ mission = NoMission /\ remembered /\ ~rebuilding
  /\ rebuilding' = TRUE
  /\ UNCHANGED <<run, mission, remembered, intents, payments, job, recoveryLock, attempts>>

RebuildSaves ==
  /\ rebuilding
  /\ mission' = [status |-> "completed", source |-> "recovered", events |-> <<EvidenceEvent>>, result |-> 0]
  /\ rebuilding' = FALSE
  /\ UNCHANGED <<run, remembered, intents, payments, job, recoveryLock, attempts>>

(***************************************************************************)
(* recoverPaidAudit                                                        *)
(***************************************************************************)
\* The command asks nothing of the run; the browser's route wants it failed.
RecoveryBegins(p, l) ==
  /\ job[p].at = "idle" /\ attempts < MaxAttempts
  /\ l \in DOMAIN recoveryLock /\ recoveryLock[l] = "free"
  /\ attempts' = attempts + 1
  /\ recoveryLock' = [recoveryLock EXCEPT ![l] = p]
  /\ job' = [job EXCEPT ![p] = [NoJob EXCEPT !.at = "locked", !.lock = l, !.attempt = attempts + 1]]
  /\ UNCHANGED <<run, mission, remembered, intents, payments, rebuilding>>

\* "Recovered mission and durable run histories diverged"
NeverDiverged == FALSE                                        \* variant
Diverged ==
  \/ Len(run.events) > Len(mission.events)
  \/ \E i \in 1..Len(run.events) : run.events[i] # mission.events[i]

\* Completes a run whose mission an earlier attempt saved (a stranger finds no
\* run), goes on to hire, or refuses.
RecoveryReads(p) ==
  /\ job[p].at = "locked"
  /\ LET hasVerifier == \E i \in 1..Len(mission.events) : mission.events[i] = VerifierPaidEvent
         next == CASE mission.status = "completed" /\ mission.source = "recovered" ->
                        IF job[p].lock # "own" \/ Diverged THEN "leaving" ELSE "saved"
                   [] mission.status = "failed" /\ ~hasVerifier -> "hiring"
                   [] OTHER -> "leaving"
     IN job' = [job EXCEPT ![p] = [@ EXCEPT !.at = next, !.base = mission.events,
                  !.adds = IF next = "saved" THEN SubSeq(mission.events, Len(run.events) + 1, Len(mission.events)) ELSE <<>>,
                  !.result = IF next = "saved" THEN mission.result ELSE 0]]
  /\ UNCHANGED <<run, mission, remembered, intents, payments, recoveryLock, attempts, rebuilding>>

PurchaseAlways(v) == TRUE                  \* variant: the journal does not stop a purchase
PurchaseIsNew(v) == intents[v] = "none"

\* The ranking picks a verifier; the purchase journal admits one intent for it.
RecoveryHires(p, v) ==
  /\ job[p].at = "hiring"
  /\ job' = [job EXCEPT ![p] = [@ EXCEPT !.verifier = v, !.at =
              IF PurchaseIsNew(v) THEN "paying"
              ELSE IF intents[v] = "delivered" THEN "hired" ELSE "leaving"]]
  /\ intents' = IF PurchaseIsNew(v) THEN [intents EXCEPT ![v] = "intent"] ELSE intents
  /\ UNCHANGED <<run, mission, remembered, payments, recoveryLock, attempts, rebuilding>>

\* paidFetch: answered, paid with the answer lost, or refused before payment.
RecoveryPays(p) ==
  /\ job[p].at = "paying"
  /\ \E outcome \in {"delivered", "uncertain", "unpaid"} :
       LET v == job[p].verifier IN
       /\ payments' = IF outcome = "unpaid" THEN payments ELSE payments \cup {<<v, job[p].attempt>>}
       /\ intents' = IF outcome = "delivered" THEN [intents EXCEPT ![v] = "delivered"] ELSE intents
       /\ job' = [job EXCEPT ![p].at = IF outcome = "delivered" THEN "hired" ELSE "leaving"]
  /\ UNCHANGED <<run, mission, remembered, recoveryLock, attempts, rebuilding>>

\* The specialist or an operator's reconciliation makes a paid order replayable.
OrderReconciled(v) ==
  /\ intents[v] = "intent" /\ \E d \in payments : d[1] = v
  /\ \A p \in Recoverers : job[p].at # "paying"
  /\ intents' = [intents EXCEPT ![v] = "delivered"]
  /\ UNCHANGED <<run, mission, remembered, payments, job, recoveryLock, attempts, rebuilding>>

RecoverySaves(p) ==
  /\ job[p].at = "hired"
  /\ LET k == job[p].attempt IN
       /\ mission' = [status |-> "completed", source |-> "recovered",
                      events |-> Append(job[p].base, ToString(k)), result |-> k]
       /\ job' = [job EXCEPT ![p] = [@ EXCEPT !.at = "saved", !.adds = <<ToString(k)>>, !.result = k]]
  /\ UNCHANGED <<run, remembered, intents, payments, recoveryLock, attempts, rebuilding>>

\* completeRecovered: refused when the run would pass the trace limit, or is
\* not failed, or is in another file; the table is searched in every scope.
RecoveryCompletes(p) ==
  /\ job[p].at = "saved"
  /\ run' = IF run.status = "failed" /\ ~run.full /\ job[p].lock # "other file"
              THEN [run EXCEPT !.status = "completed", !.result = job[p].result,
                               !.events = @ \o job[p].adds]
              ELSE run
  /\ job' = [job EXCEPT ![p].at = "leaving"]
  /\ UNCHANGED <<mission, remembered, intents, payments, recoveryLock, attempts, rebuilding>>

RecoveryLeaves(p) ==
  /\ job[p].at = "leaving"
  /\ recoveryLock' = [recoveryLock EXCEPT ![job[p].lock] = "free"]
  /\ job' = [job EXCEPT ![p] = NoJob]
  /\ UNCHANGED <<run, mission, remembered, intents, payments, attempts, rebuilding>>

\* The process dies; its lock stays until an operator removes it.
RecovererDies(p) ==
  /\ job[p].at # "idle"
  /\ \E left \in {p, "free"} : recoveryLock' = [recoveryLock EXCEPT ![job[p].lock] = left]
  /\ job' = [job EXCEPT ![p] = NoJob]
  /\ UNCHANGED <<run, mission, remembered, intents, payments, attempts, rebuilding>>

RecoveryNext ==
  \/ \E v \in Verifiers : LiveHires(v) \/ OrderReconciled(v)
  \/ LiveEnds \/ LiveMissionSaved \/ RebuildReads \/ RebuildSaves
  \/ \E p \in Recoverers :
       \/ \E l \in LockNames : RecoveryBegins(p, l)
       \/ RecoveryReads(p) \/ RecoveryPays(p) \/ RecoverySaves(p)
       \/ RecoveryCompletes(p) \/ RecoveryLeaves(p) \/ RecovererDies(p)
       \/ \E v \in Verifiers : RecoveryHires(p, v)

RecoverySpec == RecoveryInit /\ [][RecoveryNext]_recoveryVars

(***************************************************************************)
(* Properties                                                              *)
(***************************************************************************)
\* "Mission already contains a confirmed Verifier payment": however often
\* recovery is tried, dies and is tried again, the Verifier is paid once.
VerifierPaidOnce == Cardinality(payments) <= 1

\* A recovered run and its recovered mission tell one history and one result,
\* whichever attempt wrote which, where all attempts take the mission's own
\* lock: a stranger beside them may save the mission again.
HistoriesAgree ==
  DOMAIN recoveryLock = {"own"} /\ run.status = "completed" /\ mission.status = "completed" =>
    run.events = mission.events /\ run.result = mission.result
=============================================================================
