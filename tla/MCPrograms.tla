------------------------------ MODULE MCPrograms -----------------------------
(***************************************************************************)
(* Nine programs on small instances, in one run: the budget of a mission,  *)
(* the import of the JSON files into Postgres, the snapshot of a token's   *)
(* holders, the evidence scripts of two experiments and those of the       *)
(* report, a mission driven by a language model, the registration of an    *)
(* agent's identity, the rehearsals with real money, and the page that     *)
(* joins the missions with evidence.  One part runs at a time, the others  *)
(* at rest, as in MCParts.                                                 *)
(***************************************************************************)
EXTENDS CommanderBudget, FileImport, HolderSnapshot, EvidenceStudy, ReactHunter, FinalReport,
        IdentityRegistration, PaidRehearsals, AdvantagePage

CONSTANTS h1, h2, t1, t2, sv1, sv2, wr1, wr2

VARIABLE part

\* Permutations of sets of two.  One part moves and the others rest in a state
\* that no exchange of their values changes, so sets of different parts may be
\* exchanged together: on each part that is an exchange of its own.
Exchanges(p) == \E x \in DOMAIN p : p[x] # x
Along(P, S) ==
  {q[1] @@ q[2] : q \in {r \in P \X Permutations(S) : Exchanges(r[1]) <=> Exchanges(r[2])}}
Interchangeable ==
  Permutations({h1}) \cup Along(Along(Permutations({h1, h2}), Importers), Tokens)
                     \cup Along(Along(Permutations({t1, t2}), Sources), Holders)
Prices == [s \in Service |-> IF s \in Auditor \cup Plain THEN 2 ELSE 1]

\* The proxy was upgraded between the reports; every answer has as many findings.
MCImplementationOf == [s \in Studies |-> s]
MCCountOf == [o \in Opinions |-> 1]
MCSizeOf == [o \in Takes |-> 1]

MCProviderOf == (sv1 :> wr1) @@ (sv2 :> wr2)

\* In units of 0.05 U.  A rehearsal is two scripts, the backend's acceptance one
\* with a client beside it and a midnight.
MCPriceOf == [auditor |-> 10, verifier |-> 5, sentinel |-> 8]
MCMaxStarts == [rehearsals |-> 2, acceptance |-> 1]
MCMaxMissions == [rehearsals |-> 3, acceptance |-> 2]
MCMaxDays == [rehearsals |-> 0, acceptance |-> 1]

\* A part at rest is kept small where the invariants allow it: what they read
\* stays, the rest of its state is empty.
NoBudget ==
  /\ stage = "" /\ budget = << >> /\ aborted = FALSE /\ journal = << >> /\ restarts = 0
  /\ phases = [h \in Slot |-> [paid |-> 0, limit |-> 0]] /\ debits = [s \in Service |-> 0]
NoImporter ==
  /\ files = << >> /\ changes = 0 /\ importer = << >> /\ advisory = Unlocked
  /\ rows = {} /\ ledger = {}
NoSnapshot == chainLog = << >> /\ report = << >> /\ scan = << >> /\ logCache = << >> /\ snapshot = NoTable
NoHunt ==
  /\ hunt = [report |-> [verified |-> FALSE]] /\ calls = {} /\ transfers = << >> /\ resets = 0
  /\ writer = [w \in Writers |-> [served |-> [n \in 1..MaxTransfers |-> 0]]]
NoEvidence ==
  /\ dir = [f \in {"review", "enrichment", "snapshot", "bundle2"} |-> [of |-> Silent]] @@ [paid |-> Held]
  /\ shell = << >> /\ launches = 0
NoReportYet == adv = [report |-> Torn] /\ desk = << >> /\ replaced = 0
NoProgram ==
  /\ identities = << >> /\ unmined = {} /\ onRecord = NoIdentity /\ regLock = 0
  /\ program = << >> /\ erred = 0
NoRehearsal ==
  /\ plan = "acceptance" /\ active = "approved" /\ today = 0 /\ payments = << >>
  /\ missions = << >> /\ terminal = << >> /\ stability = << >>
NoPageYet == book = << >> /\ shelf = << >> /\ edits = 0 /\ request = NoRequest /\ shown = NoPage

PartsInit ==
  /\ part \in {"budget", "import", "snapshot", "evidence", "react", "report", "identity",
               "rehearsal", "page"}
  /\ IF part = "budget"   THEN Init         ELSE NoBudget
  /\ IF part = "import"   THEN ImportInit   ELSE NoImporter
  /\ IF part = "snapshot" THEN SnapshotInit ELSE NoSnapshot
  /\ IF part = "evidence" THEN StudyInit    ELSE NoEvidence
  /\ IF part = "react"    THEN ReactInit    ELSE NoHunt
  /\ IF part = "report"   THEN FinalInit    ELSE NoReportYet
  /\ IF part = "identity" THEN IdentityInit ELSE NoProgram
  /\ IF part = "rehearsal" THEN RehearsalInit ELSE NoRehearsal
  /\ IF part = "page"     THEN PageInit     ELSE NoPageYet

\* The variables of every part but one.
Rest(p) ==
  /\ p # "budget"    => UNCHANGED vars
  /\ p # "import"    => UNCHANGED importVars
  /\ p # "snapshot"  => UNCHANGED snapshotVars
  /\ p # "evidence"  => UNCHANGED studyVars
  /\ p # "react"     => UNCHANGED reactVars
  /\ p # "report"    => UNCHANGED finalVars
  /\ p # "identity"  => UNCHANGED identityVars
  /\ p # "rehearsal" => UNCHANGED rehearsalVars
  /\ p # "page"      => UNCHANGED pageVars

PartsNext ==
  /\ \/ part = "budget"    /\ Next
     \/ part = "import"    /\ ImportNext
     \/ part = "snapshot"  /\ SnapshotNext
     \/ part = "evidence"  /\ StudyNext
     \/ part = "react"     /\ ReactNext
     \/ part = "report"    /\ FinalNext
     \/ part = "identity"  /\ IdentityNext
     \/ part = "rehearsal" /\ RehearsalNext
     \/ part = "page"      /\ PageNext
  /\ UNCHANGED part /\ Rest(part)

partsVars ==
  <<part, vars, importVars, snapshotVars, studyVars, reactVars, finalVars, identityVars,
    rehearsalVars, pageVars>>

PartsSpec == PartsInit /\ [][PartsNext]_partsVars
=============================================================================
