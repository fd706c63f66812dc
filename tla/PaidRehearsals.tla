--------------------------- MODULE PaidRehearsals ---------------------------
(***************************************************************************)
(* The scripts that rehearse with real money: the three paid rehearsals of *)
(* one authority (run-three-paid-rehearsals.ts), or the paid acceptance of *)
(* the backend (run-paid-backend-acceptance.ts, its finalisation, and the  *)
(* Sentinel's), against a Hunter whose missions fail after they paid and   *)
(* are recovered, an authority that is revoked and followed by another,    *)
(* and the validator of what they leave in evidence/stability.             *)
(***************************************************************************)
EXTENDS Integers, Sequences, FiniteSets, FiniteSetsExt

CONSTANTS
  Runs,          \* expected.runs
  PriceOf,       \* of "auditor", "verifier" and "sentinel"
  MaxStarts,     \* bounds for each plan: scripts started, missions, midnights
  MaxMissions,
  MaxDays

ASSUME RehearsalAssumption ==
  /\ Runs \in Nat \ {0}
  /\ {MaxStarts, MaxMissions, MaxDays} \subseteq [{"rehearsals", "acceptance"} -> Nat]
  /\ PriceOf \in [{"auditor", "verifier", "sentinel"} -> Nat \ {0}]

VARIABLES
  plan,       \* what the first authority was approved for
  active,     \* the authority Hunter uses: that one, a later one, or none
  today,
  payments,     \* payments on the chain, by number
  missions,   \* registry/missions.json and the receipts of the Auditor
  terminal,   \* the scripts started
  stability   \* evidence/stability: the artifact of the runs, and the Sentinel's

rehearsalVars == <<plan, active, today, payments, missions, terminal, stability>>

Scripts == 1..MaxStarts[plan]
NotRun == [kind |-> "none", at |-> "none", runs |-> << >>, waits |-> 0]
NoArtifact == [runs |-> << >>, sentinel |-> 0]

\* The cap of the authority is exactly the intended spend.
CapOf(p) == IF p = "rehearsals" THEN Runs * (PriceOf["auditor"] + PriceOf["verifier"])
            ELSE PriceOf["auditor"] + PriceOf["verifier"] + PriceOf["sentinel"]

RehearsalInit ==
  /\ plan \in {"rehearsals", "acceptance"}
  /\ active = "approved" /\ today = 0
  /\ payments = << >> /\ missions = << >>
  /\ terminal = [i \in Scripts |-> NotRun] /\ stability = NoArtifact

InState(m, status) == missions[m].status = status

CostOf(D) == MapThenSumSet(LAMBDA n : PriceOf[payments[n].role], D)

\* Spend limits have the period "day".
SpentToday ==
  CostOf({n \in DOMAIN payments : payments[n].under = active /\ payments[n].day = today})

Affords(role) == active # "none" /\ SpentToday + PriceOf[role] <= CapOf(plan)

Debit(role, m) ==
  payments' = Append(payments, [role |-> role, mission |-> m, under |-> active, day |-> today])

-----------------------------------------------------------------------------
(* A mission of Hunter: pays the Auditor, receives its answer, pays the    *)
(* Verifier.  One that failed after the first payment can be recovered.    *)

NewMission ==
  [status |-> "running", source |-> "live", audit |-> 0, verify |-> 0, delivered |-> FALSE]
AtWork(m) == missions[m].status \in {"running", "recovering"}
Becomes(m, status) == missions' = [missions EXCEPT ![m].status = status]

HireAuditor(m) ==
  /\ InState(m, "running") /\ missions[m].audit = 0 /\ Affords("auditor")
  /\ Debit("auditor", m) /\ missions' = [missions EXCEPT ![m].audit = Len(payments')]
  /\ UNCHANGED <<plan, active, today, terminal, stability>>

Audited(m) ==
  /\ InState(m, "running") /\ missions[m].audit # 0 /\ ~missions[m].delivered
  /\ missions' = [missions EXCEPT ![m].delivered = TRUE]
  /\ UNCHANGED <<plan, active, today, payments, terminal, stability>>

\* A verifier already paid is not paid again (the journal of the mission).
HireVerifier(m) ==
  /\ AtWork(m) /\ missions[m].delivered /\ missions[m].verify = 0 /\ Affords("verifier")
  /\ Debit("verifier", m) /\ missions' = [missions EXCEPT ![m].verify = Len(payments')]
  /\ UNCHANGED <<plan, active, today, terminal, stability>>

MissionCompletes(m) ==
  /\ AtWork(m) /\ missions[m].verify # 0
  /\ missions' =
       [missions EXCEPT ![m].status = "completed",
                        ![m].source = IF InState(m, "recovering") THEN "recovered" ELSE "live"]
  /\ UNCHANGED <<plan, active, today, payments, terminal, stability>>

\* A service, a settlement or the limit fails it, or its report is refused.
MissionFails(m) ==
  /\ AtWork(m) /\ Becomes(m, "failed")
  /\ UNCHANGED <<plan, active, today, payments, terminal, stability>>

\* recoverPaidAudit, under whichever authority Hunter has by then.
RecoverMission(m) ==
  /\ InState(m, "failed") /\ missions[m].delivered /\ Becomes(m, "recovering")
  /\ UNCHANGED <<plan, active, today, payments, terminal, stability>>

\* The script on the Auditor's host executes a settled order whose answer is
\* missing; the operator names the mission's own transaction.
RecoverSettledAudit(m) ==
  /\ InState(m, "failed") /\ missions[m].audit # 0 /\ ~missions[m].delivered
  /\ missions' = [missions EXCEPT ![m].delivered = TRUE]
  /\ UNCHANGED <<plan, active, today, payments, terminal, stability>>

-----------------------------------------------------------------------------
(* The scripts.                                                            *)

\* validateCompletedRun: what the artifact says of a completed mission.
RunOf(m) == [mission |-> m, mode |-> missions[m].source,
             auditor |-> missions[m].audit, verifier |-> missions[m].verify]

Started(i, kind) ==
  /\ terminal[i].kind = "none" /\ \A j \in Scripts : j < i => terminal[j].kind # "none"
  /\ active = "approved" /\ plan = kind

Completed == {m \in DOMAIN missions : InState(m, "completed")}

\* The operator lists the missions to resume: completed ones, in any order.
StartRehearsals(i) ==
  /\ Started(i, "rehearsals")
  /\ \E n \in 0..Runs : \E resumed \in [1..n -> Completed] :
       terminal' = [terminal EXCEPT ![i] = [kind |-> "rehearsals", at |-> "next", waits |-> 0,
                                            runs |-> [k \in 1..n |-> RunOf(resumed[k])]]]
  /\ UNCHANGED <<plan, active, today, payments, missions, stability>>

StartAcceptance(i) ==
  /\ Started(i, "acceptance")
  /\ terminal' = [terminal EXCEPT ![i] = [NotRun EXCEPT !.kind = "acceptance", !.at = "next"]]
  /\ UNCHANGED <<plan, active, today, payments, missions, stability>>

Expected(i) == IF terminal[i].kind = "rehearsals" THEN Runs ELSE 1

\* POST /run: the rehearsals send no Idempotency-Key.
PostRun(i) ==
  /\ terminal[i].at = "next" /\ Len(terminal[i].runs) < Expected(i)
  /\ Len(missions) < MaxMissions[plan]
  /\ missions' = Append(missions, NewMission)
  /\ terminal' = [terminal EXCEPT ![i].at = "waiting", ![i].waits = Len(missions')]
  /\ UNCHANGED <<plan, active, today, payments, stability>>

\* Any other client of Hunter pays with the same authority.
OtherRun ==
  /\ plan = "acceptance" /\ Len(missions) < MaxMissions[plan]
  /\ missions' = Append(missions, NewMission)
  /\ UNCHANGED <<plan, active, today, payments, terminal, stability>>

\* A failed mission ends the script.
RunAnswered(i) ==
  LET m == terminal[i].waits IN
  /\ terminal[i].at = "waiting"
  /\ \/ /\ InState(m, "completed") /\ missions[m].source = "live"
        /\ terminal' = [terminal EXCEPT ![i].at = "next", ![i].runs = Append(@, RunOf(m))]
     \/ /\ missions[m].status \in {"failed", "recovering"} \/ missions[m].source = "recovered"
        /\ terminal' = [terminal EXCEPT ![i] = [NotRun EXCEPT !.kind = "over"]]
  /\ UNCHANGED <<plan, active, today, payments, missions, stability>>

Publish(i) ==
  /\ terminal[i].at = "next" /\ Len(terminal[i].runs) = Expected(i)
  /\ stability' = [stability EXCEPT !.runs = terminal[i].runs]
  /\ terminal' = [terminal EXCEPT ![i] = [NotRun EXCEPT !.kind = "over"]]
  /\ UNCHANGED <<plan, active, today, payments, missions>>

\* finalize-paid-backend-acceptance.ts, of a mission that was recovered.
FinaliseAcceptance(m) ==
  /\ plan = "acceptance" /\ InState(m, "completed") /\ missions[m].source = "recovered"
  /\ stability' = [stability EXCEPT !.runs = <<RunOf(m)>>]
  /\ UNCHANGED <<plan, active, today, payments, missions, terminal>>

\* run-sentinel-paid-acceptance.ts pays without a mission of Hunter's.
BuySentinel(i) ==
  /\ Started(i, "acceptance") /\ Affords("sentinel") /\ Debit("sentinel", 0)
  /\ terminal' = [terminal EXCEPT ![i] = [NotRun EXCEPT !.kind = "sentinel",
                                                        !.waits = Len(payments')]]
  /\ UNCHANGED <<plan, active, today, missions, stability>>

PublishSentinel(i) ==
  /\ terminal[i].kind = "sentinel"
  /\ stability' = [stability EXCEPT !.sentinel = terminal[i].waits]
  /\ terminal' = [terminal EXCEPT ![i] = [NotRun EXCEPT !.kind = "over"]]
  /\ UNCHANGED <<plan, active, today, payments, missions>>

\* Killed, or out of its 15 minutes; the mission it waited for goes on.
ScriptStops(i) ==
  /\ terminal[i].kind \notin {"none", "over"}
  /\ terminal' = [terminal EXCEPT ![i] = [NotRun EXCEPT !.kind = "over"]]
  /\ UNCHANGED <<plan, active, today, payments, missions, stability>>

-----------------------------------------------------------------------------
Revoke ==
  /\ active = "approved" /\ active' = "none"
  /\ UNCHANGED <<plan, today, payments, missions, terminal, stability>>

ApproveAnother ==
  /\ active = "none" /\ active' = "later"
  /\ UNCHANGED <<plan, today, payments, missions, terminal, stability>>

Midnight ==
  /\ today < MaxDays[plan] /\ today' = today + 1
  /\ UNCHANGED <<plan, active, payments, missions, terminal, stability>>

RehearsalNext ==
  \/ \E m \in DOMAIN missions :
       \/ HireAuditor(m) \/ Audited(m) \/ HireVerifier(m) \/ MissionCompletes(m)
       \/ MissionFails(m) \/ RecoverMission(m) \/ RecoverSettledAudit(m) \/ FinaliseAcceptance(m)
  \/ \E i \in Scripts :
       \/ StartRehearsals(i) \/ StartAcceptance(i) \/ PostRun(i) \/ RunAnswered(i)
       \/ Publish(i) \/ BuySentinel(i) \/ PublishSentinel(i) \/ ScriptStops(i)
  \/ OtherRun \/ Revoke \/ ApproveAnother \/ Midnight

RehearsalSpec == RehearsalInit /\ [][RehearsalNext]_rehearsalVars

-----------------------------------------------------------------------------
(* The validator.                                                          *)

RunsMatchMissions ==
  \A k \in DOMAIN stability.runs :
    LET r == stability.runs[k] IN
    InState(r.mission, "completed") /\ r.auditor = missions[r.mission].audit
                               /\ r.verifier = missions[r.mission].verify

ClaimedBy(r) == {r.auditor, r.verifier}
Claimed == (UNION {ClaimedBy(stability.runs[k]) : k \in DOMAIN stability.runs})
           \cup ({stability.sentinel} \ {0})

\* variant: every run is compared with its own mission, not with the others
UniqueInEachRun(runs) == \A k \in DOMAIN runs : Cardinality(ClaimedBy(runs[k])) = 2
Unique(runs) ==
  /\ Cardinality({runs[k].mission : k \in DOMAIN runs}) = Len(runs)
  /\ Cardinality(UNION {ClaimedBy(runs[k]) : k \in DOMAIN runs}) = 2 * Len(runs)

\* validatePaidStability: all but the last run were answered live.
StabilityAccepted ==
  /\ Len(stability.runs) = Runs /\ Unique(stability.runs) /\ RunsMatchMissions
  /\ \A k \in 1..Runs : stability.runs[k].mode = IF k = Runs THEN "recovered" ELSE "live"

\* validateLatestBackendAcceptance, before its transactions were pinned.
AcceptanceAccepted ==
  /\ Len(stability.runs) = 1 /\ stability.runs[1].mode = "recovered" /\ RunsMatchMissions
  /\ stability.sentinel # 0

SpendAccepted ==
  /\ active # "approved"
  /\ IF plan = "rehearsals" THEN StabilityAccepted ELSE AcceptanceAccepted

\* Accepted evidence claims the whole intended spend in distinct payments,
\* each made for its own mission, whatever was killed, resumed, recovered or
\* paid beside it; and if they were all made in one day of the approved
\* authority, that authority paid nothing else that day.  (The artifact does
\* not measure its actualSpendRaw: it copies the intended one.)
AcceptedSpendIsWhole ==
  SpendAccepted =>
    /\ CostOf(Claimed) = CapOf(plan)
    /\ \A k \in DOMAIN stability.runs : \A n \in ClaimedBy(stability.runs[k]) :
         payments[n].mission = stability.runs[k].mission
    /\ \A d \in 0..today :
         LET ofDay == {n \in DOMAIN payments :
                         payments[n].under = "approved" /\ payments[n].day = d}
         IN Claimed \subseteq ofDay => ofDay = Claimed
=============================================================================
