---------------------------- MODULE EvidenceStudy ---------------------------
(***************************************************************************)
(* The evidence directory of experiments 2 and 3 and the scripts that fill *)
(* it from a paid token-risk report: review, holder snapshot, enrichment,  *)
(* due-diligence candidate, runtime triage, blind inputs and the two       *)
(* ordinary-model baselines.  A script reads its inputs, works for minutes *)
(* and renames its outputs into place one at a time; nothing stops another *)
(* script, a kill, or a new paid report in between.  The validator that    *)
(* `npm run verify:evidence` runs is a predicate over the directory.       *)
(*                                                                         *)
(* A file is what it was made from; its hash is its content.  A report     *)
(* stands for its mission, payment, hash and block, which no two share,    *)
(* and a source package for its implementation.  The format of the files,  *)
(* timings and token counts are left out.                                  *)
(***************************************************************************)
EXTENDS Integers, FiniteSets, TLC

CONSTANTS Studies,           \* the paid reports
          ImplementationOf,  \* the proxy's implementation at the report's block
          Opinions,          \* what an auditor or a model may answer
          CountOf,           \* findings in an auditor's answer
          Silent,            \* the answer of an auditor that was skipped or failed
          Held,              \* the study in the directory at first
          MaxLaunches, MaxStale  \* bounds: scripts run, files of another study at first

ASSUME StudyAssumption ==
  /\ ImplementationOf \in [Studies -> Studies] /\ CountOf \in [Opinions -> Nat]
  /\ Held \in Studies /\ MaxLaunches \in Nat /\ MaxStale \in Nat

VARIABLES
  dir,       \* the evidence directory
  shell,     \* the script each terminal runs, or Prompt: a terminal is opened per script
  launches

studyVars == <<dir, shell, launches>>

Prompt == [script |-> "none"]

(* The contents of a complete study of report p. *)
Rpc(p, o)   == [bundle |-> [of |-> p], of |-> p, take |-> o]
Model2(p, o) == [bundle |-> [of |-> p], rpc |-> Rpc(p, o), shown |-> Rpc(p, o), answer |-> o]
Bundle3(p)  == [of |-> p, source |-> ImplementationOf[p]]
Slither(p, o) == [bundle |-> Bundle3(p), source |-> ImplementationOf[p], ok |-> TRUE, take |-> o]
Model3(p, o) ==
  [bundle |-> Bundle3(p), source |-> ImplementationOf[p], slither |-> Slither(p, o),
   rpc |-> Rpc(p, o), shown |-> <<Slither(p, o), Rpc(p, o)>>, answer |-> o]

StudyOf(p, o) ==
  [paid       |-> p,
   review     |-> [of |-> p],
   snapshot   |-> [of |-> p],
   enrichment |-> [of |-> p, dex |-> p],
   source     |-> ImplementationOf[p],
   triage     |-> [source |-> ImplementationOf[p], of |-> p],
   auditor    |-> [source |-> ImplementationOf[p], measured |-> TRUE, answer |-> o],
   verifier   |-> [source |-> ImplementationOf[p], answer |-> o],
   candidate  |-> [of |-> p, source |-> ImplementationOf[p], answer |-> o,
                   review |-> [of |-> p], enrichment |-> [of |-> p, dex |-> p]],
   bundle2    |-> [of |-> p],
   rpc        |-> Rpc(p, o),
   model2     |-> Model2(p, o),
   baseline2  |-> [bundle |-> [of |-> p], of |-> p, rpc |-> Rpc(p, o),
                   model |-> Model2(p, o), answer |-> o],
   bundle3    |-> Bundle3(p),
   slither    |-> Slither(p, o),
   model3     |-> Model3(p, o),
   baseline3  |-> [bundle |-> Bundle3(p), of |-> p, source |-> ImplementationOf[p],
                   slither |-> Slither(p, o), rpc |-> Rpc(p, o),
                   model |-> Model3(p, o), answer |-> o]]

Terminals == 1..MaxLaunches
HeldStudy == StudyOf(Held, CHOOSE o \in Opinions : TRUE)

\* The directory is a git working tree: files of another study may stand in it.
StudyInit ==
  /\ \E q \in Studies, stale \in {S \in SUBSET DOMAIN HeldStudy : Cardinality(S) <= MaxStale} :
       LET other == StudyOf(q, CHOOSE o \in Opinions : TRUE) IN
       dir = [n \in DOMAIN HeldStudy |-> IF n \in stale THEN other[n] ELSE HeldStudy[n]]
  /\ shell = [t \in Terminals |-> Prompt]
  /\ launches = 0

-----------------------------------------------------------------------------
(* A shell holds the script, its step, what it has got so far, and the files it *)
(* has yet to rename into place before it goes on.                         *)
At(t, script, step) ==
  shell[t] # Prompt /\ shell[t].script = script /\ shell[t].step = step /\ DOMAIN shell[t].todo = {}

\* A script starts by reading.
Opens(t, script, got) ==
  /\ t = launches + 1 /\ launches' = t
  /\ shell' = [shell EXCEPT ![t] = [script |-> script, step |-> "read", got |-> got, todo |-> << >>]]
  /\ UNCHANGED dir

\* It goes on to a step with what it has got, once it has written `todo`.
Goes(t, step, got, todo) ==
  /\ shell' = [shell EXCEPT ![t] = [script |-> @.script, step |-> step, got |-> got, todo |-> todo]]
  /\ UNCHANGED <<dir, launches>>

Ends(t, todo) == Goes(t, "end", << >>, todo)

GivesUp(t) == shell' = [shell EXCEPT ![t] = Prompt] /\ UNCHANGED <<dir, launches>>

\* One of the files a script writes replaces the old one.
Rename(t) ==
  /\ shell[t] # Prompt
  /\ \E n \in DOMAIN shell[t].todo :
       LET rest == DOMAIN shell[t].todo \ {n} IN
       /\ dir' = [dir EXCEPT ![n] = shell[t].todo[n]]
       /\ shell' = [shell EXCEPT ![t] =
            IF shell[t].step = "end" /\ rest = {} THEN Prompt
            ELSE [shell[t] EXCEPT !.todo = [m \in rest |-> shell[t].todo[m]]]]
  /\ UNCHANGED launches

\* A script is killed: what it has not renamed stays as it was.
Killed(t) == shell[t] # Prompt /\ GivesUp(t)

\* The paid run is taken again and its output replaces the old one.
PaysAgain(p) ==
  /\ launches < MaxLaunches /\ launches' = launches + 1
  /\ dir' = [dir EXCEPT !.paid = p] /\ UNCHANGED shell

-----------------------------------------------------------------------------
(* The agent's side of the study.                                          *)

RunReview(t) ==
  \/ Opens(t, "review", [of |-> dir.paid])
  \/ At(t, "review", "read") /\ Ends(t, [review |-> shell[t].got])

RunSnapshot(t) ==
  \/ Opens(t, "snapshot", [of |-> dir.paid])
  \/ At(t, "snapshot", "read") /\ Ends(t, [snapshot |-> shell[t].got])

\* The enrichment already there may be used again for the report's block.
MayReuse(old, p) == old.of = p /\ old.dex = p

RunEnrichment(t) ==
  \/ Opens(t, "enrichment", [of |-> dir.paid, holders |-> dir.snapshot, old |-> dir.enrichment])
  \/ /\ At(t, "enrichment", "read")
     /\ LET got == shell[t].got IN
        IF got.holders.of # got.of THEN GivesUp(t)
        ELSE \/ Ends(t, [enrichment |-> [of |-> got.of, dex |-> got.of]])
             \/ /\ MayReuse(got.old, got.of)
                /\ Ends(t, [enrichment |-> [of |-> got.of, dex |-> got.old.dex]])

SynthesisesAnyDex(got) == got.review.of = got.of   \* variant: the enrichment is not compared
Synthesises(got) == got.review.of = got.of /\ got.enrichment.of = got.of

\* The auditor's file as it may be used again; the auditor may also be
\* skipped or fail, which leaves no finding and nothing measured.
AuditOf(source) ==
  {[source |-> source, measured |-> TRUE, answer |-> o] : o \in Opinions}
  \cup {[source |-> source, measured |-> FALSE, answer |-> Silent]}
  \cup {a \in {dir.auditor} : a.source = source /\ a.measured}

RunCandidate(t) ==
  \/ Opens(t, "candidate", [of |-> dir.paid])
  \/ /\ At(t, "candidate", "read")
     /\ Goes(t, "source", [of |-> shell[t].got.of, review |-> dir.review,
                           enrichment |-> dir.enrichment], << >>)
  \/ /\ At(t, "candidate", "source")    \* fetched, or cached and the same; bound by the triage
     /\ IF dir.triage.source = ImplementationOf[shell[t].got.of]
        THEN Goes(t, "audit", shell[t].got, << >>) ELSE GivesUp(t)
  \/ /\ At(t, "candidate", "audit")
     /\ LET got == shell[t].got
            source == ImplementationOf[got.of]
        IN \E audit \in AuditOf(source) :
             IF Synthesises(got)
             THEN Ends(t, [source    |-> source,
                           auditor   |-> audit,
                           verifier  |-> [source |-> source, answer |-> audit.answer],
                           candidate |-> [of |-> got.of, source |-> source, answer |-> audit.answer,
                                          review |-> got.review, enrichment |-> got.enrichment]])
             ELSE GivesUp(t)

RunTriage(t) ==
  \/ Opens(t, "triage", [source |-> dir.candidate.source, of |-> dir.candidate.of])
  \/ At(t, "triage", "read") /\ Ends(t, [triage |-> shell[t].got])

-----------------------------------------------------------------------------
(* The baselines' side: blind inputs, then an ordinary model on them.      *)

RunPrepare(t) ==
  \/ Opens(t, "prepare", [of |-> dir.paid])
  \/ /\ At(t, "prepare", "read")
     /\ Ends(t, [bundle2 |-> shell[t].got,
                 bundle3 |-> [of |-> shell[t].got.of, source |-> dir.source]])

\* Evidence names the input bundle by the hash of the file at that moment.
RunBaseline2(t) ==
  \/ Opens(t, "baseline2", dir.bundle2)
  \/ /\ At(t, "baseline2", "read")
     /\ \E take \in Opinions :
          LET rpc == [bundle |-> dir.bundle2, of |-> shell[t].got.of, take |-> take]
          IN Goes(t, "model", rpc, [rpc |-> rpc])
  \/ /\ At(t, "baseline2", "model")
     /\ \E o \in Opinions :
          LET mine  == shell[t].got
              model == [bundle |-> mine.bundle, rpc |-> dir.rpc, shown |-> mine, answer |-> o]
          IN Goes(t, "report", model, [model2 |-> model])
  \/ /\ At(t, "baseline2", "report")
     /\ LET mine == shell[t].got
        IN Ends(t, [baseline2 |-> [bundle |-> mine.bundle, of |-> mine.shown.of, rpc |-> mine.rpc,
                                   model |-> dir.model2, answer |-> mine.answer]])

RunBaseline3(t) ==
  \/ /\ dir.bundle3.source = dir.source /\ dir.rpc.of = dir.bundle3.of
     /\ Opens(t, "baseline3", [bundle |-> dir.bundle3, source |-> dir.source, rpc |-> dir.rpc])
  \/ /\ At(t, "baseline3", "read")
     /\ \E take \in Opinions, ok \in BOOLEAN :
          LET got     == shell[t].got
              slither == [bundle |-> got.bundle, source |-> got.source, ok |-> ok, take |-> take]
          IN Goes(t, "model", [rpc |-> got.rpc, slither |-> slither], [slither |-> slither])
  \/ /\ At(t, "baseline3", "model")
     /\ \E o \in Opinions :
          LET mine  == shell[t].got.slither
              model == [bundle |-> mine.bundle, source |-> mine.source, slither |-> dir.slither,
                        rpc |-> shell[t].got.rpc, shown |-> <<mine, shell[t].got.rpc>>, answer |-> o]
          IN Goes(t, "report", model, [model3 |-> model])
  \/ /\ At(t, "baseline3", "report")
     /\ LET mine == shell[t].got
        IN Ends(t, [baseline3 |->
             [bundle |-> mine.bundle, of |-> mine.bundle.of, source |-> mine.source,
              slither |-> mine.slither, rpc |-> mine.rpc, model |-> dir.model3,
              answer |-> mine.answer]])

StudyNext ==
  \/ \E t \in Terminals :
       \/ RunReview(t) \/ RunSnapshot(t) \/ RunEnrichment(t) \/ RunCandidate(t) \/ RunTriage(t)
       \/ RunPrepare(t) \/ RunBaseline2(t) \/ RunBaseline3(t)
       \/ Rename(t) \/ Killed(t)
  \/ \E p \in Studies : PaysAgain(p)

StudySpec == StudyInit /\ [][StudyNext]_studyVars

-----------------------------------------------------------------------------
(* What the validator compares, on the directory of one moment.            *)

FindingCount(answer) == IF answer = Silent THEN 0 ELSE CountOf[answer]

AgentSideBound ==
  /\ {dir.review.of, dir.enrichment.of, dir.snapshot.of, dir.bundle2.of} = {dir.paid}

TokenBaselineBound ==
  /\ dir.rpc.bundle = dir.bundle2 /\ dir.rpc.of = dir.paid
  /\ dir.model2.bundle = dir.bundle2 /\ dir.model2.rpc = dir.rpc /\ dir.model2.shown = dir.rpc
  /\ dir.baseline2 = [bundle |-> dir.bundle2, of |-> dir.paid, rpc |-> dir.rpc,
                      model |-> dir.model2, answer |-> dir.model2.answer]

\* The candidate is held against the audit by the number of findings.
CandidateBound ==
  /\ dir.auditor.source = dir.source /\ dir.auditor.measured
  /\ dir.verifier = [source |-> dir.source, answer |-> dir.auditor.answer]
  /\ dir.candidate.of = dir.paid /\ dir.candidate.source = dir.source
  /\ FindingCount(dir.candidate.answer) = FindingCount(dir.auditor.answer)
  /\ dir.triage = [source |-> dir.source, of |-> dir.paid]

DueDiligenceBaselineBound ==
  /\ dir.bundle3 = [of |-> dir.paid, source |-> dir.source]
  /\ dir.slither.bundle = dir.bundle3 /\ dir.slither.source = dir.source /\ dir.slither.ok
  /\ dir.model3.bundle = dir.bundle3 /\ dir.model3.source = dir.source
  /\ dir.model3.slither = dir.slither /\ dir.model3.rpc = dir.rpc
  /\ dir.model3.shown = <<dir.slither, dir.rpc>>
  /\ dir.baseline3 = [bundle |-> dir.bundle3, of |-> dir.paid, source |-> dir.source,
                      slither |-> dir.slither, rpc |-> dir.rpc,
                      model |-> dir.model3, answer |-> dir.model3.answer]

Accepted == AgentSideBound /\ TokenBaselineBound /\ CandidateBound /\ DueDiligenceBaselineBound

\* Whatever scripts overlapped, died between two renames or worked on a paid
\* report since replaced: in a directory the validator accepts, the source is
\* the implementation that the paid report found behind the proxy, the
\* candidate was put together from a review and an enrichment of that report,
\* the liquidity was read at its block, and both ordinary models were shown
\* readings of that report's block and nothing of another study.
AcceptedIsOneStudy ==
  Accepted =>
    LET p == dir.paid IN
    /\ dir.source = ImplementationOf[p]
    /\ dir.candidate.review.of = p
    /\ {dir.candidate.enrichment.dex, dir.enrichment.dex} = {p}
    /\ dir.model2.shown.of = p /\ dir.model2.shown.bundle.of = p
    /\ dir.model3.shown[1].source = ImplementationOf[p] /\ dir.model3.shown[2].of = p
=============================================================================
