----------------------------- MODULE FinalReport ----------------------------
(***************************************************************************)
(* The comparison report of the three experiments (evidence/agent-         *)
(* advantage-report.json): the two scripts of experiment 1 that write its  *)
(* inputs, finalize-agent-advantage.ts, which reads ten files one after    *)
(* the other and then writes seven, and what the validator compares.  The  *)
(* files are written in place, not renamed, so a script that is killed     *)
(* leaves a torn file; nothing stops two scripts from overlapping.         *)
(*                                                                         *)
(* A file is what it was made from, and its hash its content.  A take is   *)
(* one of several answers of a model, a tool or an operator.  Scores,      *)
(* costs and texts are left out, and the medians of the paid rehearsals.   *)
(***************************************************************************)
EXTENDS Integers, Sequences, TLC

CONSTANTS Takes,
          SizeOf,        \* the findings a version of the ground truth lists
          First,         \* the take everything in the directory was made of at first
          Torn,          \* a file whose writer has not finished
          MaxScripts, MaxReplaced   \* bounds: scripts run, inputs replaced

ASSUME FinalAssumption ==
  /\ SizeOf \in [Takes -> Nat \ {0}] /\ First \in Takes /\ Torn \notin Takes
  /\ MaxScripts \in Nat /\ MaxReplaced \in Nat

VARIABLES
  adv,       \* the files
  desk,      \* the scripts at work, by number, or Idle
  replaced

finalVars == <<adv, desk, replaced>>

Idle == [script |-> "none"]
Desks == 1..MaxScripts

\* The files the finaliser reads, and writes, in order.
Reads == <<"candidate1", "candidate2", "review3", "slither3", "truth1", "facts2",
           "enrichment2", "paid3">>
Writes == <<"adjudication", "baseline1", "baseline2", "baseline3", "truth2", "truth3", "report">>

(* What the finaliser makes of its reading.                                *)
Adjudication(got) == [slither |-> got.slither3, review |-> got.review3]
Baseline2(got) == [candidate |-> got.candidate2, facts |-> got.facts2]
Baseline3(got) == [review |-> got.review3, adjudication |-> Adjudication(got)]
Truth2(got) == [enrichment |-> got.enrichment2, facts |-> got.facts2]
Truth3(got) == [adjudication |-> Adjudication(got), paid |-> got.paid3]

MadeOf(got) ==
  [adjudication |-> Adjudication(got), baseline1 |-> got.candidate1, baseline2 |-> Baseline2(got),
   baseline3 |-> Baseline3(got), truth2 |-> Truth2(got), truth3 |-> Truth3(got)]

\* The artifacts the report names by their hashes.
Named == {"baseline1", "baseline2", "baseline3", "truth1", "truth2", "truth3"}

\* The report: the hashes, and the missions whose durations it states.
Report(hashes, got) == [hashes |-> hashes, token |-> got.enrichment2, paid |-> got.paid3]

InputsOf(o) ==
  [candidate1 |-> [raw |-> [answer |-> o], answer |-> o, truth |-> o], candidate2 |-> o,
   review3 |-> [slither |-> o, take |-> o], slither3 |-> o, truth1 |-> o,
   facts2 |-> o, enrichment2 |-> o, paid3 |-> o]

FinalInit ==
  /\ LET inputs == InputsOf(First)
         made   == MadeOf(inputs)
         hashes == [f \in Named |-> IF f = "truth1" THEN First ELSE made[f]]
         scripts == [report |-> Report(hashes, inputs), raw1 |-> [answer |-> First],
                     tool1 |-> First, metrics1 |-> First]
     IN adv = [f \in DOMAIN inputs \cup DOMAIN made \cup DOMAIN scripts |->
                 IF f \in DOMAIN inputs THEN inputs[f]
                 ELSE IF f \in DOMAIN made THEN made[f] ELSE scripts[f]]
  /\ desk = [d \in Desks |-> Idle]
  /\ replaced = 0

-----------------------------------------------------------------------------
AtStep(d, script, step) == desk[d] # Idle /\ desk[d].script = script /\ desk[d].step = step

\* Scripts are started on one desk after the other.
Starts(d, script, step, got) ==
  /\ desk[d] = Idle /\ \A e \in Desks : e < d => desk[e] # Idle
  /\ desk' = [desk EXCEPT ![d] = [script |-> script, step |-> step, got |-> got, open |-> FALSE]]

Continues(d, step, got) ==
  desk' = [desk EXCEPT ![d].step = step, ![d].got = got, ![d].open = FALSE]

Finished == 0
Over(d) == Continues(d, Finished, << >>)

Dies(d) ==
  /\ desk[d] # Idle /\ desk[d].step # Finished
  /\ Over(d) /\ UNCHANGED <<adv, replaced>>

\* writeFile truncates the file and then fills it.  If another writer filled
\* it in between and wrote more, its tail remains.
Truncates(d, f) ==
  /\ ~desk[d].open /\ desk' = [desk EXCEPT ![d].open = TRUE]
  /\ adv' = [adv EXCEPT ![f] = Torn] /\ UNCHANGED replaced

Fills(d, f, content) ==
  /\ desk[d].open
  /\ \E c \in {content} \cup (IF adv[f] = Torn THEN {} ELSE {Torn}) : adv' = [adv EXCEPT ![f] = c]

-----------------------------------------------------------------------------
(* finalize-agent-advantage.ts                                             *)

StartFinaliser(d) ==
  /\ Starts(d, "finalise", 1, << >>) /\ UNCHANGED <<adv, replaced>>

\* A torn file does not parse.
ReadInput(d) ==
  \E k \in DOMAIN Reads :
    /\ AtStep(d, "finalise", k)
    /\ LET f == Reads[k] IN
       IF adv[f] = Torn THEN Over(d)
       ELSE Continues(d, k + 1, desk[d].got @@ (f :> adv[f]))
    /\ UNCHANGED <<adv, replaced>>

\* Every adjudicated row must be bound to the raw detection.
RowsBound(got) == got.review3.slither = got.slither3

HashOf(f, got) == IF f = "truth1" THEN got.truth1 ELSE MadeOf(got)[f]

WriteArtifact(d) ==
  \E k \in 1..(Len(Writes) - 1) :
    LET f == Writes[k]
        got == desk[d].got
    IN /\ AtStep(d, "finalise", Len(Reads) + k)
       /\ IF ~RowsBound(got) THEN Over(d) /\ UNCHANGED <<adv, replaced>>
          ELSE \/ Truncates(d, f)
               \/ /\ Fills(d, f, MadeOf(got)[f]) /\ Continues(d, Len(Reads) + k + 1, got)
                  /\ UNCHANGED replaced

\* The ground truth of experiment 1 is not written, only read.
WriteReport(d) ==
  /\ AtStep(d, "finalise", Len(Reads) + Len(Writes))
  /\ LET got == desk[d].got IN
     \/ Truncates(d, "report")
     \/ /\ Fills(d, "report", Report([f \in Named |-> HashOf(f, got)], got))
        /\ Over(d) /\ UNCHANGED replaced

-----------------------------------------------------------------------------
(* Experiment 1: run-controlled-baseline-candidate.ts, which keeps what    *)
(* the model answered (or takes what it kept) before it looks at the       *)
(* ground truth, and run-audit-tool-baseline.ts, whose output the operator *)
(* keeps.                                                                  *)

StartCandidate(d) ==
  \/ \E o \in Takes :
       /\ Starts(d, "candidate1", 1, [answer |-> o])
       /\ adv' = [adv EXCEPT !.raw1 = [answer |-> o]] /\ UNCHANGED replaced
  \/ Starts(d, "candidate1", 1, adv.raw1) /\ UNCHANGED <<adv, replaced>>

ScoreCandidate(d) ==
  /\ AtStep(d, "candidate1", 1) /\ Continues(d, 2, desk[d].got @@ [truth |-> adv.truth1])
  /\ UNCHANGED <<adv, replaced>>

\* It names the kept answer by the file's hash of that moment.
WriteCandidate(d) ==
  /\ AtStep(d, "candidate1", 2) /\ Over(d)
  /\ adv' = [adv EXCEPT !.candidate1 = desk[d].got @@ [raw |-> adv.raw1]]
  /\ UNCHANGED replaced

RunToolBaseline(d) ==
  /\ Starts(d, "tool", Finished, << >>)
  /\ adv' = [adv EXCEPT !.tool1 = adv.truth1] /\ UNCHANGED replaced

-----------------------------------------------------------------------------
(* The scripts of experiments 2 and 3, paid runs and the operator replace  *)
(* the other inputs.                                                       *)

Replace(f, content) ==
  /\ replaced < MaxReplaced /\ replaced' = replaced + 1
  /\ adv' = [adv EXCEPT ![f] = content] /\ UNCHANGED desk

Replaces ==
  \E o \in Takes :
    \/ \E f \in {"candidate2", "slither3", "truth1", "facts2", "enrichment2", "paid3"} : Replace(f, o)
    \/ Replace("review3", [slither |-> adv.slither3, take |-> o])
    \/ Replace("metrics1", adv.tool1)

FinalNext ==
  \/ \E d \in Desks :
       \/ StartFinaliser(d) \/ ReadInput(d) \/ WriteArtifact(d) \/ WriteReport(d)
       \/ StartCandidate(d) \/ ScoreCandidate(d) \/ WriteCandidate(d) \/ RunToolBaseline(d)
       \/ Dies(d)
  \/ Replaces

FinalSpec == FinalInit /\ [][FinalNext]_finalVars

-----------------------------------------------------------------------------
(* What the validator compares, on the files of one moment.                *)

Whole == \A f \in DOMAIN adv : adv[f] # Torn

Experiment1Bound ==
  /\ adv.candidate1.raw = adv.raw1
  /\ SizeOf[adv.candidate1.truth] = SizeOf[adv.truth1]
  /\ adv.metrics1 = adv.tool1

TruthsBound ==                     \* variant: the baselines' hashes are not compared
  \A f \in {"truth1", "truth2", "truth3"} : adv.report.hashes[f] = adv[f]
ReportBound == \A f \in Named : adv.report.hashes[f] = adv[f]

AdjudicationBound ==
  /\ adv.adjudication.slither = adv.slither3 /\ adv.adjudication.review = adv.review3

ReportAccepted == Whole /\ Experiment1Bound /\ ReportBound /\ AdjudicationBound

\* Whatever finalisers overlapped or died and whatever inputs were replaced
\* under them: a report that the validator accepts comes from one reading of
\* the inputs.  The baseline and the ground truth of experiment 2 rest on one
\* review of the facts, those of experiment 3 on one adjudication, which is of
\* the review the baseline reports, and the durations it states are those of
\* the missions its ground truths are about.
AcceptedReportIsOneReading ==
  ReportAccepted =>
    /\ adv.baseline2.facts = adv.truth2.facts
    /\ adv.truth2.enrichment = adv.report.token
    /\ adv.baseline3.adjudication = adv.truth3.adjudication
    /\ adv.baseline3.adjudication.review = adv.baseline3.review
    /\ adv.baseline3.adjudication.slither = adv.baseline3.review.slither
    /\ adv.truth3.paid = adv.report.paid
=============================================================================
