----------------------- MODULE AuthorityLifecycleProofs -----------------------
(***************************************************************************)
(* Proofs about AuthorityLifecycle.tla, for every set of authorities and   *)
(* any number of faults: what the two stores say of an authority is so on  *)
(* the chain, although each save and each broadcast may be the last thing  *)
(* a command does.                                                         *)
(***************************************************************************)
EXTENDS AuthorityLifecycle, TLAPS

InFlight(a, step) == inflight = [id |-> a, step |-> step]
NoneInFlight(a) == \A step \in Steps : ~InFlight(a, step)

\* What a record of evidence about a, stored or in the hands of a command,
\* knows of the chain.  Disabling is recorded in the order of the steps.
EvidenceFine(a, j) ==
    /\ j.op = "provision" =>
         /\ "grantSession" \in j.done => a \in chain.keys
         /\ "approveChecker" \in j.done \cup j.seen => a \in chain.checkers
         /\ j.status = "active" => /\ "grantSession" \in j.done
                                   /\ "approveChecker" \in j.done \cup j.seen
    /\ j.op = "revoke" =>
         /\ "revokeChecker" \in j.done =>
              a \notin chain.checkers /\ ~InFlight(a, "approveChecker")
         /\ "revokeAllowance" \in j.done => "revokeChecker" \in j.done
         /\ "revokeSession" \in j.done =>
              "revokeAllowance" \in j.done /\ a \notin chain.keys /\ NoneInFlight(a)
    /\ j.retired \/ j.test = "rejected" => j.op = "revoke" /\ "revokeSession" \in j.done

\* A broadcast that takes something away is announced in the stored evidence,
\* and one that grants a key has the key's session on disk.
InFlightFine == \A a \in Authority :
    /\ \A step \in DisableSteps : InFlight(a, step) => journals[a].op = "revoke"
    /\ a \in chain.keys \/ InFlight(a, "grantSession") => sessions[a] # NoSession

\* Where each command is, and what it has behind it.
Provisioning(c) ==
    LET j == c.journal
        approved == "approveChecker" \in j.done \cup j.seen
    IN
    /\ j.op = "provision" /\ journals[c.id].op # "revoke"
    /\ c.step \in EnableSteps
    /\ c.pc \in {"keepKey", "open", "intend", "send", "sent", "record", "block", "keepGrant",
                   "look", "reconcile", "activate", "enable"}
    /\ c.pc # "keepKey" => sessions[c.id] # NoSession
    /\ c.step # "grantSession" \/ c.pc = "keepGrant" => "grantSession" \in j.done
    /\ c.step = "grantSession" => c.name = "provision" /\ c.pc \notin {"look", "reconcile"}
    /\ c.step = "approveAllowance" => approved
    /\ c.pc \in {"activate", "enable"} => c.step = "approveAllowance"
    /\ c.pc = "keepGrant" => c.step = "grantSession"
    /\ c.pc = "reconcile" /\ c.step = "approveChecker" => c.id \in chain.checkers

Revoking(c) ==
    LET j == c.journal IN
    /\ j.op = "revoke"
    /\ c.step \in DisableSteps
    /\ c.pc \in {"open", "intend", "send", "sent", "record", "block", "disable",
                   "retireSession", "retire", "test", "noteTest", "delete", "certify"}
    /\ c.pc \notin {"disable", "open"} => journals[c.id].op = "revoke"
    /\ journals[c.id].op = "revoke" => journals[c.id].done \subseteq j.done
    /\ c.step # "revokeChecker" => "revokeChecker" \in j.done
    /\ c.step = "revokeSession" => "revokeAllowance" \in j.done
    /\ c.pc \in {"retireSession", "retire", "test", "noteTest", "delete", "certify"} =>
         "revokeSession" \in j.done
    /\ c.pc \in {"delete", "certify"} => j.test = "rejected"

CommandFine(c) == c # Idle =>
    /\ c.id \in Authority
    /\ c.name \in {"provision", "resume"} => Provisioning(c)
    /\ c.name \notin {"provision", "resume"} => Revoking(c)
    /\ c.session.status # "none"
    /\ c.session.status = "active" => c.pc = "enable"
    /\ c.pc = "send" => c.step \notin c.journal.done
    /\ c.pc = "sent" => InFlight(c.id, c.step) /\ c.step \notin c.journal.done
    /\ c.pc = "record" => c.step \in c.journal.done
    /\ EvidenceFine(c.id, c.journal)

LifecycleInv ==
    /\ LifecycleTypeOK
    /\ InFlightFine
    /\ \A a \in Authority : EvidenceFine(a, journals[a])
    /\ CommandFine(cli)

-----------------------------------------------------------------------------
(* What a record of evidence needs, and how a step is put together.         *)

\* Evidence stays true under any change of what it does not speak of.
LEMMA EvidenceCopy ==
  ASSUME NEW a \in Authority, NEW j \in JournalState, NEW i \in JournalState, EvidenceFine(a, j),
         i.op = j.op, i.done = j.done, i.seen = j.seen,
         i.status \in {j.status, "none", "invalid", "revoked"},
         i.retired => j.retired \/ (j.op = "revoke" /\ "revokeSession" \in j.done),
         i.test = "rejected" =>
            j.test = "rejected" \/ (j.op = "revoke" /\ "revokeSession" \in j.done)
  PROVE  EvidenceFine(a, i)
BY DEF EvidenceFine

LEMMA EvidenceKept ==
  ASSUME NEW a \in Authority, NEW j \in JournalState, EvidenceFine(a, j),
         UNCHANGED <<chain, inflight>>
  PROVE  EvidenceFine(a, j)'
BY DEF EvidenceFine, InFlight, NoneInFlight

\* A step that moves neither the chain nor a broadcast, and at most the two
\* records of one authority.
LEMMA RecordsMove ==
  ASSUME LifecycleInv, UNCHANGED <<chain, inflight>>, UNCHANGED faults \/ Fault,
         NEW k \in Authority, NEW s \in Session, NEW j \in JournalState,
         sessions' = [sessions EXCEPT ![k] = s], journals' = [journals EXCEPT ![k] = j],
         \/ s # NoSession \/ sessions[k] = NoSession
         \/ k \notin chain.keys /\ ~InFlight(k, "grantSession"),
         EvidenceFine(k, j), journals[k].op = "revoke" => j.op = "revoke",
         cli' \in Command, CommandFine(cli)'
  PROVE  LifecycleInv'
<1>1. LifecycleTypeOK /\ MaxFaults \in Nat
  BY AuthorityAssumption DEF LifecycleInv
<1>2. faults' \in 0..MaxFaults
  BY <1>1 DEF LifecycleTypeOK, Fault
<1>3. LifecycleTypeOK'
  BY <1>1, <1>2 DEF LifecycleTypeOK
<1>4. /\ sessions'[k] = s /\ journals'[k] = j
      /\ \A a \in Authority \ {k} : sessions'[a] = sessions[a] /\ journals'[a] = journals[a]
  BY <1>1 DEF LifecycleTypeOK
<1>5. InFlightFine'
  BY <1>4 DEF LifecycleInv, InFlightFine, InFlight
<1>6. ASSUME NEW a \in Authority
      PROVE  EvidenceFine(a, journals[a])'
  <2> DEFINE i == IF a = k THEN j ELSE journals[a]
  <2>1. i \in JournalState /\ EvidenceFine(a, i) /\ journals'[a] = i
    BY <1>1, <1>4 DEF LifecycleInv, LifecycleTypeOK
  <2> HIDE DEF i
  <2>2. QED
    BY <2>1 DEF EvidenceFine, InFlight, NoneInFlight
<1>7. QED
  BY <1>3, <1>5, <1>6 DEF LifecycleInv

\* A step of the command alone.
LEMMA CommandMoves ==
  ASSUME LifecycleInv, UNCHANGED <<stores, chain, inflight>>, UNCHANGED faults \/ Fault,
         cli' \in Command, CommandFine(cli)'
  PROVE  LifecycleInv'
<1>1. LifecycleTypeOK /\ MaxFaults \in Nat
  BY AuthorityAssumption DEF LifecycleInv
<1>2. faults' \in 0..MaxFaults
  BY <1>1 DEF LifecycleTypeOK, Fault
<1>3. LifecycleTypeOK' /\ InFlightFine'
  BY <1>1, <1>2 DEF LifecycleTypeOK, LifecycleInv, InFlightFine, InFlight, stores
<1>4. \A a \in Authority : EvidenceFine(a, journals[a])'
  BY DEF LifecycleInv, EvidenceFine, InFlight, NoneInFlight, stores
<1>5. QED
  BY <1>3, <1>4 DEF LifecycleInv

\* The command cli is still the same one, at p, with step t and copies s and j.
MovesTo(p, t, s, j) ==
    /\ cli' \in Command /\ cli'.name = cli.name /\ cli'.id = cli.id
    /\ cli'.pc = p /\ cli'.step = t /\ cli'.session = s /\ cli'.journal = j

LEMMA Held ==
  ASSUME LifecycleInv, cli.pc # "idle"
  PROVE  /\ cli \in Command /\ cli.id \in Authority /\ cli.step \in Steps
         /\ cli.session \in Session /\ cli.session # NoSession
         /\ cli.journal \in JournalState
         /\ sessions[cli.id] \in Session /\ journals[cli.id] \in JournalState
         /\ EvidenceFine(cli.id, cli.journal) /\ EvidenceFine(cli.id, journals[cli.id])
         /\ cli.name \in {"provision", "resume"} => Provisioning(cli)
         /\ cli.name \notin {"provision", "resume"} => Revoking(cli)
         /\ cli.session.status = "active" => cli.pc = "enable"
         /\ cli.pc = "send" => cli.step \notin cli.journal.done
         /\ cli.pc = "sent" => InFlight(cli.id, cli.step) /\ cli.step \notin cli.journal.done
         /\ cli.pc = "record" => cli.step \in cli.journal.done
<1>1. cli # Idle /\ CommandFine(cli) /\ LifecycleTypeOK
  BY DEF Idle, LifecycleInv
<1>2. cli \in Command /\ cli.id \in Authority /\ cli.session.status # "none"
  BY <1>1 DEF CommandFine, LifecycleTypeOK
<1>3. cli.session \in Session /\ cli.journal \in JournalState
  BY <1>2 DEF Command
<1>4. cli.session # NoSession
  BY <1>2 DEF NoSession
<1>5. cli.step \in Steps
  BY <1>1 DEF CommandFine, Provisioning, Revoking, Steps
<1>6. QED
  BY <1>1, <1>2, <1>3, <1>4, <1>5 DEF CommandFine, LifecycleInv, LifecycleTypeOK

LEMMA GotoMoves ==
  ASSUME cli \in Command,
         NEW p \in {"idle", "keepKey", "open", "intend", "send", "sent", "record", "block",
                    "keepGrant", "look", "reconcile", "activate", "enable",
                    "disable", "retireSession", "retire", "test", "noteTest", "delete", "certify"},
         Goto(p)
  PROVE  MovesTo(p, cli.step, cli.session, cli.journal)
BY DEF Goto, MovesTo, Command

\* What Advance leads to, for a step that the journal says is done or seen.
LEMMA AdvanceMoves ==
  ASSUME LifecycleInv, cli.pc # "idle", NEW j \in JournalState, Advance(j)
  PROVE  MovesTo(NextPc, NextStep, cli.session, j)
<1>1. NextPc \in {"keepGrant", "look", "intend", "activate", "retireSession"}
  BY DEF NextPc
<1>2. NextStep \in Steps \cup {Nothing}
  BY Held DEF NextStep, Steps, EnableSteps, DisableSteps
<1>3. QED
  BY <1>1, <1>2, Held DEF Advance, MovesTo, Command

\* The command's own entry after a step with no broadcast, when its copies and
\* the stored evidence allow it to be there.
LEMMA Advanced ==
  ASSUME LifecycleInv, cli.pc \in {"intend", "look", "record", "reconcile"},
         NEW j \in JournalState, MovesTo(NextPc, NextStep, cli.session, j),
         UNCHANGED sessions, journals'[cli.id].op = journals[cli.id].op
            \/ journals'[cli.id].op = j.op,
         journals'[cli.id].done \in {journals[cli.id].done, j.done},
         j.op = cli.journal.op, cli.journal.done \subseteq j.done,
         cli.journal.seen \subseteq j.seen, j.test = cli.journal.test,
         \/ cli.step \in j.done
         \/ /\ cli.step \in j.seen /\ cli.pc = "reconcile",
         EvidenceFine(cli.id, j)'
  PROVE  CommandFine(cli)'
<1>1. cli'.id = cli.id /\ cli'.name = cli.name /\ cli'.session = cli.session /\ cli'.journal = j
      /\ cli'.pc = NextPc /\ cli'.step = NextStep
  BY DEF MovesTo
<1>a. /\ cli'.pc \in {"keepGrant", "look", "intend", "activate", "retireSession"}
      /\ cli.pc # "idle" /\ cli.pc # "enable"
  BY <1>1 DEF NextPc
<1>b. /\ cli.session \in Session /\ cli.session # NoSession /\ cli.session.status # "active"
      /\ cli.session.status # "none" /\ cli.id \in Authority
  BY <1>a, Held DEF LifecycleInv, CommandFine, Idle
<1>2. CASE cli.name \in {"provision", "resume"}
  <2>1. Provisioning(cli)
    BY <1>a, <1>2, Held
  <2>2. Provisioning(cli)'
    BY <1>1, <1>2, <2>1 DEF Provisioning, NextPc, NextStep, EnableSteps, DisableSteps
  <2>3. QED
    BY <1>1, <1>a, <1>b, <1>2, <2>2 DEF CommandFine
<1>3. CASE cli.name \notin {"provision", "resume"}
  <2>1. Revoking(cli)
    BY <1>a, <1>3, Held
  <2>2. Revoking(cli)'
    BY <1>1, <1>3, <2>1 DEF Revoking, NextPc, NextStep, EnableSteps, DisableSteps
  <2>3. QED
    BY <1>1, <1>a, <1>b, <1>3, <2>2 DEF CommandFine
<1>4. QED
  BY <1>2, <1>3

-----------------------------------------------------------------------------
(* The commands start, stop and look.                                       *)

LEMMA BlankRecords ==
  /\ NoSession \in Session /\ NoSession.status = "none"
  /\ NoJournal \in JournalState /\ NoJournal.op = Nothing /\ NoJournal.done = {}
  /\ NoJournal.seen = {} /\ ~NoJournal.retired /\ NoJournal.test = Nothing
  /\ Idle \in Command /\ Idle.pc = "idle" /\ Idle.name = Nothing
BY DEF NoSession, Session, NoJournal, JournalState, Idle, Command

LEMMA StopStep ==
  ASSUME LifecycleInv, cli' = Idle
  PROVE  cli' \in Command /\ CommandFine(cli)'
BY BlankRecords DEF CommandFine

\* The entry of a command that starts: its copies are of the stored records.
LEMMA StartStep ==
  ASSUME LifecycleInv, NEW a \in Authority,
         NEW name \in {"provision", "resume", "revoke"}, NEW pc \in {"keepKey", "look", "disable"},
         NEW step \in Steps, NEW s \in Session, NEW j \in JournalState,
         Starts(name, a, pc, step, s, j),
         s.status = "invalid", EvidenceFine(a, j),
         name = "provision" =>
            pc = "keepKey" /\ step = "grantSession" /\ journals[a] = NoJournal,
         name = "resume" => pc = "look" /\ step = "approveChecker" /\ "grantSession" \in j.done
                            /\ sessions[a] # NoSession /\ journals[a] = j,
         name # "revoke" => j.op = "provision",
         name = "revoke" => pc = "disable" /\ step = "revokeChecker" /\ j.op = "revoke",
         journals[a].op = "revoke" => journals[a].done \subseteq j.done
  PROVE  LifecycleInv'
<1>1. cli' = [name |-> name, id |-> a, pc |-> pc, step |-> step, session |-> s, journal |-> j]
      /\ UNCHANGED <<stores, chain, inflight, faults>>
  BY DEF Starts
<1>2. cli' \in Command
  BY <1>1 DEF Command
<1>3. cli'.name = name /\ cli'.id = a /\ cli'.pc = pc /\ cli'.step = step
      /\ cli'.session = s /\ cli'.journal = j
  BY <1>1
<1>4. EvidenceFine(a, j)' /\ sessions' = sessions /\ journals' = journals
  BY <1>1, EvidenceKept DEF stores
<1>5. CASE name # "revoke"
  <2>1. Provisioning(cli)'
    BY <1>3, <1>4, <1>5, BlankRecords, AuthorityAssumption DEF Provisioning, EnableSteps
  <2>2. QED
    BY <1>1, <1>2, <1>3, <1>4, <1>5, <2>1, CommandMoves DEF CommandFine
<1>6. CASE name = "revoke"
  <2>1. Revoking(cli)'
    BY <1>3, <1>4, <1>6 DEF Revoking, DisableSteps
  <2>2. QED
    BY <1>1, <1>2, <1>3, <1>4, <1>6, <2>1, CommandMoves DEF CommandFine
<1>7. QED
  BY <1>5, <1>6

LEMMA ProvisionStep ==
  ASSUME LifecycleInv, NEW a \in Authority, Provision(a)
  PROVE  LifecycleInv'
<1> DEFINE s == [NoSession EXCEPT !.status = "invalid"]
           j == Opened("provision")
<1>1. Starts("provision", a, "keepKey", "grantSession", s, j) /\ journals[a] = NoJournal
  BY DEF Provision, ProvisionAt, Unused
<1>2. s \in Session /\ s.status = "invalid"
  BY BlankRecords DEF Session
<1>3. /\ j \in JournalState /\ j.op = "provision" /\ j.done = {} /\ j.seen = {}
      /\ j.status = "invalid" /\ ~j.retired /\ j.test = Nothing
  BY BlankRecords DEF Opened, JournalState
<1>4. EvidenceFine(a, j)
  <2>1. Nothing # "rejected"
    BY AuthorityAssumption
  <2>2. QED
    BY <1>3, <2>1 DEF EvidenceFine
<1> HIDE DEF s, j
<1>5. QED
  BY <1>1, <1>2, <1>3, <1>4, BlankRecords, StartStep DEF Steps, EnableSteps

LEMMA ResumeStep ==
  ASSUME LifecycleInv, NEW a \in Authority, Resume(a)
  PROVE  LifecycleInv'
<1> DEFINE s == sessions[a]
           j == journals[a]
<1>1. /\ Starts("resume", a, "look", "approveChecker", s, j)
      /\ s.status = "invalid" /\ j.op = "provision" /\ "grantSession" \in j.done
  BY DEF Resume, Resumable
<1>2. s \in Session /\ j \in JournalState /\ EvidenceFine(a, j)
  BY DEF LifecycleInv, LifecycleTypeOK
<1>3. sessions[a] # NoSession
  BY <1>1, BlankRecords
<1>4. "approveChecker" \in Steps
  BY DEF Steps, EnableSteps
<1>5. s = sessions[a] /\ j = journals[a]
  OBVIOUS
<1> HIDE DEF s, j
<1>6. QED
  BY <1>1, <1>2, <1>3, <1>4, <1>5, StartStep

LEMMA RevokeStep ==
  ASSUME LifecycleInv, NEW a \in Authority, Revoke(a)
  PROVE  LifecycleInv'
<1> DEFINE s == [sessions[a] EXCEPT !.status = "invalid"]
           j == journals[a]
           r == IF j.op = "revoke" THEN j
                ELSE [j EXCEPT !.op = "revoke", !.phase = "in-progress",
                               !.pending = Nothing, !.done = {}, !.seen = {}]
           i == [r EXCEPT !.done = @ \cup IF j.retired THEN DisableSteps ELSE {}]
<1>1. Starts("revoke", a, "disable", "revokeChecker", s, i)
  BY DEF Revoke, RevokeAt
<1>2. sessions[a] \in Session /\ j \in JournalState /\ EvidenceFine(a, j)
  BY DEF LifecycleInv, LifecycleTypeOK
<1>3. s \in Session /\ s.status = "invalid"
  BY <1>2 DEF Session
<1>4. /\ r \in JournalState /\ r.op = "revoke" /\ r.retired = j.retired /\ r.test = j.test
      /\ r.done = IF j.op = "revoke" THEN j.done ELSE {}
  BY <1>2, ZenonT(40) DEF JournalState
<1> HIDE DEF r
<1>5. i \in JournalState /\ i.op = r.op /\ i.retired = r.retired /\ i.test = r.test
      /\ i.done = r.done \cup (IF j.retired THEN DisableSteps ELSE {})
  BY <1>4 DEF JournalState, Steps
<1>6. j.retired => j.op = "revoke" /\ DisableSteps \subseteq j.done
  BY <1>2 DEF EvidenceFine, DisableSteps
<1>7. i.done = IF j.op = "revoke" THEN j.done ELSE {}
  BY <1>4, <1>5, <1>6
<1>8. EvidenceFine(a, i)
  BY <1>2, <1>4, <1>5, <1>7 DEF EvidenceFine
<1>9. "revokeChecker" \in Steps /\ (journals[a].op = "revoke" => journals[a].done \subseteq i.done)
  BY <1>7 DEF Steps, DisableSteps
<1> HIDE DEF s, i
<1>10. QED
  BY <1>1, <1>3, <1>4, <1>5, <1>8, <1>9, StartStep

\* Steps of the command that stay at the same step of the lifecycle.
LEMMA SameStep ==
  ASSUME LifecycleInv, cli.pc # "idle", NEW p \in {"reconcile", "intend", "block", "noteTest"},
         NEW j \in JournalState, EvidenceFine(cli.id, j),
         MovesTo(p, cli.step, cli.session, j), UNCHANGED <<stores, chain, inflight>>,
         UNCHANGED faults \/ Fault, cli.pc # "enable",
         j.op = cli.journal.op, j.done = cli.journal.done, j.seen = cli.journal.seen,
         p # "noteTest" => cli.pc \in {"look", "record", "sent"},
         p \in {"reconcile", "intend"} =>
            cli.name \in {"provision", "resume"} /\ cli.step # "grantSession",
         p = "reconcile" /\ cli.step = "approveChecker" => cli.id \in chain.checkers,
         p = "noteTest" => cli.pc = "test"
  PROVE  LifecycleInv'
<1>1. cli'.id = cli.id /\ cli'.name = cli.name /\ cli'.session = cli.session
      /\ cli'.pc = p /\ cli'.step = cli.step /\ cli'.journal = j /\ cli' \in Command
      /\ sessions' = sessions /\ journals' = journals /\ chain' = chain
  BY DEF MovesTo, stores
<1>2. EvidenceFine(cli.id, j)'
  BY DEF EvidenceFine, InFlight, NoneInFlight, MovesTo
<1>3. cli.session.status # "none" /\ cli.session.status # "active" /\ cli.id \in Authority
  BY Held DEF LifecycleInv, CommandFine, Idle
<1>4. CASE cli.name \in {"provision", "resume"}
  <2>1. Provisioning(cli)
    BY <1>4, Held
  <2>2. Provisioning(cli)'
    BY <1>1, <1>4, <2>1 DEF Provisioning, EnableSteps
  <2>3. CommandFine(cli)'
    BY <1>1, <1>2, <1>3, <1>4, <2>2 DEF CommandFine
  <2>4. QED
    BY <1>1, <2>3, CommandMoves
<1>5. CASE cli.name \notin {"provision", "resume"}
  <2>1. Revoking(cli)
    BY <1>5, Held
  <2>2. Revoking(cli)'
    BY <1>1, <1>5, <2>1 DEF Revoking
  <2>3. CommandFine(cli)'
    BY <1>1, <1>2, <1>3, <1>5, <2>2 DEF CommandFine
  <2>4. QED
    BY <1>1, <2>3, CommandMoves
<1>6. QED
  BY <1>4, <1>5

\* Steps of the command that save nothing and send nothing.
LEMMA SilentStep ==
  ASSUME LifecycleInv, SkipDone \/ Look \/ NegativeTest \/ RecordFails \/ CommandStops
  PROVE  LifecycleInv'
<1>1. CASE SkipDone
  <2> DEFINE j == cli.journal
  <2>1. /\ cli.pc \in {"intend", "look"} /\ cli.pc # "idle" /\ cli.step \in j.done /\ Advance(j)
        /\ UNCHANGED <<stores, chain, inflight, faults>>
    BY <1>1 DEF SkipDone
  <2>2. j \in JournalState /\ EvidenceFine(cli.id, j) /\ cli.id \in Authority
    BY <2>1, Held
  <2>3. j = cli.journal /\ EvidenceFine(cli.id, j)' /\ UNCHANGED <<sessions, journals>>
    BY <2>1, <2>2 DEF EvidenceFine, InFlight, NoneInFlight, stores, Advance
  <2>4. QED
    BY <2>1, <2>2, <2>3, AdvanceMoves, Advanced, CommandMoves DEF MovesTo
<1>2. CASE Look
  <2>1. cli.pc = "look" /\ cli.step \notin cli.journal.done
        /\ UNCHANGED <<stores, chain, inflight, faults>>
        /\ \/ Goto("reconcile") /\ OnChain(cli.id, cli.step)
           \/ Goto("intend")
    BY <1>2 DEF Look
  <2>2. cli.name \in {"provision", "resume"} /\ cli.step # "grantSession"
    BY <2>1, Held DEF Provisioning, Revoking
  <2>3. QED
    BY <2>1, <2>2, Held, GotoMoves, SameStep DEF OnChain
<1>3. CASE NegativeTest
  <2>1. PICK outcome \in {"unexpected", "rejected", "inconclusive"} :
          Tested(outcome) /\ (UNCHANGED faults \/ Fault)
    BY <1>3 DEF NegativeTest
  <2> DEFINE p == IF outcome = "rejected" THEN "complete" ELSE "blocked"
             j == [cli.journal EXCEPT !.test = outcome, !.phase = p]
  <2>2. cli.pc = "test" /\ UNCHANGED <<stores, chain, inflight>>
        /\ cli' = [cli EXCEPT !.pc = "noteTest", !.journal.test = outcome, !.journal.phase = p]
    BY <2>1 DEF Tested
  <2>3. j \in JournalState /\ j.op = cli.journal.op /\ j.done = cli.journal.done
        /\ j.seen = cli.journal.seen /\ j.status = cli.journal.status
        /\ j.retired = cli.journal.retired /\ j.test = outcome
    BY <2>2, Held DEF JournalState
  <2>4. MovesTo("noteTest", cli.step, cli.session, j)
    BY <2>2, <2>3, Held DEF MovesTo, Command
  <2>5. cli.journal.op = "revoke" /\ "revokeSession" \in cli.journal.done
    BY <2>2, Held DEF Provisioning, Revoking
  <2> HIDE DEF j
  <2>6. EvidenceFine(cli.id, j)
    BY <2>2, <2>3, <2>5, Held, EvidenceCopy
  <2>7. QED
    BY <2>1, <2>2, <2>3, <2>4, <2>6, SameStep
<1>4. CASE RecordFails
  BY <1>4, Held, SameStep, GotoMoves DEF RecordFails
<1>5. CASE CommandStops
  BY <1>5, StopStep, CommandMoves DEF CommandStops
<1>6. QED
  BY <1>1, <1>2, <1>3, <1>4, <1>5

-----------------------------------------------------------------------------
(* The steps that save a record.                                            *)

\* The journal is saved: what remains is the command's own entry.
LEMMA JournalSaved ==
  ASSUME LifecycleInv, cli.pc # "idle", NEW s \in Session, NEW j \in JournalState,
         NEW k \in Authority, k = cli.id, SaveJournal(s, j), s.status # "none", EvidenceFine(cli.id, j), j.op = cli.journal.op,
         s.status = "active" /\ j.op = "provision" =>
            "grantSession" \in j.done /\ "approveChecker" \in j.done \cup j.seen
  PROVE  /\ journals'[cli.id].op = j.op /\ journals'[cli.id].done = j.done
         /\ UNCHANGED <<sessions, chain, inflight>>
         /\ EvidenceFine(k, j)'
         /\ cli' \in Command /\ CommandFine(cli)' => LifecycleInv'
<1> DEFINE i == [j EXCEPT !.status = s.status]
<1>1. k \in Authority /\ journals[k] \in JournalState /\ sessions[k] \in Session
      /\ LifecycleTypeOK
  BY Held DEF LifecycleInv
<1>2. /\ i \in JournalState /\ i.op = j.op /\ i.done = j.done /\ i.seen = j.seen
      /\ i.retired = j.retired /\ i.test = j.test /\ i.status = s.status
  BY DEF JournalState, Session
<1>3. journals' = [journals EXCEPT ![k] = i] /\ UNCHANGED <<sessions, chain, inflight, faults>>
  BY DEF SaveJournal
<1>4. EvidenceFine(k, i)
  BY <1>1, <1>2 DEF EvidenceFine
<1>5. EvidenceFine(k, j)'
  BY <1>3 DEF EvidenceFine, InFlight, NoneInFlight
<1>6. journals'[k] = i
  BY <1>1, <1>3 DEF LifecycleTypeOK
<1>7. journals[k].op = "revoke" => i.op = "revoke"
  BY <1>2, Held DEF Provisioning, Revoking
<1>8. /\ sessions' = [sessions EXCEPT ![k] = sessions[k]]
      /\ sessions[k] # NoSession \/ sessions[k] = NoSession
  BY <1>1, <1>3 DEF LifecycleTypeOK
<1> HIDE DEF i
<1>9. ASSUME cli' \in Command, CommandFine(cli)'
      PROVE  LifecycleInv'
  BY <1>1, <1>2, <1>3, <1>4, <1>7, <1>8, <1>9, RecordsMove
<1>10. QED
  BY <1>2, <1>3, <1>5, <1>6, <1>9

\* The session is saved, or deleted when it is dead.
LEMMA SessionSaved ==
  ASSUME LifecycleInv, cli.pc # "idle", NEW s \in Session, SaveSession(s),
         \/ s # NoSession
         \/ cli.id \notin chain.keys /\ ~InFlight(cli.id, "grantSession")
  PROVE  /\ sessions'[cli.id] = s /\ UNCHANGED <<journals, chain, inflight>>
         /\ cli' \in Command /\ CommandFine(cli)' => LifecycleInv'
<1> DEFINE k == cli.id
<1>1. k \in Authority /\ journals[k] \in JournalState /\ LifecycleTypeOK
      /\ EvidenceFine(k, journals[k])
  BY Held DEF LifecycleInv
<1>2. sessions' = [sessions EXCEPT ![k] = s] /\ UNCHANGED <<journals, chain, inflight, faults>>
  BY DEF SaveSession
<1>3. journals' = [journals EXCEPT ![k] = journals[k]] /\ sessions'[k] = s
  BY <1>1, <1>2 DEF LifecycleTypeOK
<1>4. ASSUME cli' \in Command, CommandFine(cli)'
      PROVE  LifecycleInv'
  BY <1>1, <1>2, <1>3, <1>4, RecordsMove
<1>5. QED
  BY <1>2, <1>3, <1>4

\* What a command that goes on must still show.
LEMMA Onward ==
  ASSUME LifecycleInv, cli.pc # "idle", NEW p, NEW t, NEW s, NEW j, MovesTo(p, t, s, j),
         p \notin {"sent", "send", "record"}, s.status # "none",
         s.status = "active" => p = "enable", EvidenceFine(cli.id, cli.journal)',
         cli.name \in {"provision", "resume"} => Provisioning(cli)',
         cli.name \notin {"provision", "resume"} => Revoking(cli)'
  PROVE  cli' \in Command /\ CommandFine(cli)'
<1>1. cli' \in Command /\ cli'.name = cli.name /\ cli'.id = cli.id /\ cli'.pc = p
      /\ cli'.session = s
  BY DEF MovesTo
<1>2. cli'.id \in Authority
  BY <1>1, Held
<1>3. QED
  BY <1>1, <1>2 DEF CommandFine

LEMMA SessionSteps ==
  ASSUME LifecycleInv, KeepSession \/ KeepGrant \/ Enable \/ RetireSession \/ DeleteKey
  PROVE  LifecycleInv'
<1>1. CASE KeepSession
  <2>1. cli.pc \in {"keepKey", "disable"} /\ cli.pc # "idle"
        /\ SaveSession(cli.session) /\ Goto("open")
    BY <1>1 DEF KeepSession
  <2>2. sessions'[cli.id] = cli.session /\ UNCHANGED <<journals, chain, inflight>>
        /\ (cli' \in Command /\ CommandFine(cli)' => LifecycleInv')
    BY <2>1, Held, SessionSaved
  <2>3. MovesTo("open", cli.step, cli.session, cli.journal)
    BY <2>1, Held, GotoMoves
  <2>4. cli'.id = cli.id /\ cli'.name = cli.name /\ cli'.pc = "open" /\ cli'.step = cli.step
        /\ cli'.journal = cli.journal
    BY <2>3 DEF MovesTo
  <2>5. EvidenceFine(cli.id, cli.journal)' /\ cli.session.status # "none"
        /\ cli.session.status # "active"
    BY <2>1, <2>2, <2>4, Held DEF EvidenceFine, InFlight, NoneInFlight, LifecycleInv,
       CommandFine, Idle
  <2>6. cli.name \in {"provision", "resume"} => Provisioning(cli)'
    BY <2>1, <2>2, <2>4, Held DEF Provisioning
  <2>7. cli.name \notin {"provision", "resume"} => Revoking(cli)'
    BY <2>1, <2>2, <2>4, Held DEF Revoking, Provisioning
  <2>8. QED
    BY <2>1, <2>2, <2>3, <2>5, <2>6, <2>7, Held, Onward
<1>2. CASE KeepGrant
  <2> DEFINE s == [cli.session EXCEPT !.known = TRUE]
  <2>1. cli.pc = "keepGrant" /\ cli.pc # "idle" /\ SaveSession(s)
        /\ cli' = [cli EXCEPT !.pc = "intend", !.step = "approveChecker", !.session = s]
    BY <1>2 DEF KeepGrant
  <2>2. cli.session.status # "none" /\ cli.session.status # "active"
    BY <2>1, Held DEF LifecycleInv, CommandFine, Idle
  <2>3. s \in Session /\ s.status = cli.session.status /\ s # NoSession
    BY <2>1, <2>2, Held, BlankRecords DEF Session
  <2>4. MovesTo("intend", "approveChecker", s, cli.journal)
    BY <2>1, <2>3, Held DEF MovesTo, Command, Steps, EnableSteps
  <2> HIDE DEF s
  <2>5. sessions'[cli.id] = s /\ UNCHANGED <<journals, chain, inflight>>
        /\ (cli' \in Command /\ CommandFine(cli)' => LifecycleInv')
    BY <2>1, <2>3, SessionSaved
  <2>6. cli'.id = cli.id /\ cli'.name = cli.name /\ cli'.pc = "intend"
        /\ cli'.step = "approveChecker" /\ cli'.journal = cli.journal
    BY <2>4 DEF MovesTo
  <2>7. EvidenceFine(cli.id, cli.journal)'
    BY <2>1, <2>5, <2>6, Held DEF EvidenceFine, InFlight, NoneInFlight
  <2>8. cli.name \in {"provision", "resume"} /\ Provisioning(cli)'
    BY <2>1, <2>3, <2>5, <2>6, Held DEF Provisioning, Revoking, EnableSteps
  <2>9. QED
    BY <2>1, <2>2, <2>3, <2>4, <2>5, <2>7, <2>8, Held, Onward
<1>3. CASE Enable
  <2>1. cli.pc # "idle" /\ SaveSession(cli.session) /\ cli' = Idle
    BY <1>3 DEF Enable
  <2>2. QED
    BY <2>1, Held, SessionSaved, StopStep
<1>4. CASE RetireSession
  <2> DEFINE s == [cli.session EXCEPT !.status = "revoked"]
             j == [cli.journal EXCEPT !.retired = TRUE, !.deleted = FALSE]
  <2>1. cli.pc = "retireSession" /\ cli.pc # "idle" /\ SaveSession(s)
        /\ cli' = [cli EXCEPT !.pc = "retire", !.session = s,
                              !.journal.retired = TRUE, !.journal.deleted = FALSE]
    BY <1>4 DEF RetireSession
  <2>2. s \in Session /\ s.status = "revoked" /\ s # NoSession
    BY <2>1, Held, BlankRecords DEF Session
  <2>3. j \in JournalState /\ j.op = cli.journal.op /\ j.done = cli.journal.done
        /\ j.seen = cli.journal.seen /\ j.status = cli.journal.status /\ j.test = cli.journal.test
    BY <2>1, Held DEF JournalState
  <2>4. MovesTo("retire", cli.step, s, j)
    BY <2>1, <2>2, <2>3, Held DEF MovesTo, Command
  <2>5. cli.name \notin {"provision", "resume"} /\ Revoking(cli)
        /\ cli.journal.op = "revoke" /\ "revokeSession" \in cli.journal.done
    BY <2>1, Held DEF Provisioning, Revoking
  <2> HIDE DEF s, j
  <2>6. sessions'[cli.id] = s /\ UNCHANGED <<journals, chain, inflight>>
        /\ (cli' \in Command /\ CommandFine(cli)' => LifecycleInv')
    BY <2>1, <2>2, SessionSaved
  <2>7. cli'.id = cli.id /\ cli'.name = cli.name /\ cli'.pc = "retire"
        /\ cli'.step = cli.step /\ cli'.journal = j
    BY <2>4 DEF MovesTo
  <2>8. EvidenceFine(cli.id, j)
    BY <2>1, <2>3, <2>5, Held, EvidenceCopy
  <2>9. EvidenceFine(cli.id, cli.journal)'
    BY <2>6, <2>7, <2>8 DEF EvidenceFine, InFlight, NoneInFlight
  <2>10. Revoking(cli)'
    BY <2>1, <2>3, <2>5, <2>6, <2>7 DEF Revoking
  <2>11. QED
    BY <2>1, <2>2, <2>3, <2>4, <2>5, <2>6, <2>9, <2>10, Held, Onward
<1>5. CASE DeleteKey
  <2>1. cli.pc = "delete" /\ cli.pc # "idle" /\ SaveSession(NoSession) /\ Goto("certify")
    BY <1>5 DEF DeleteKey
  <2>2. cli.name \notin {"provision", "resume"} /\ Revoking(cli)
        /\ cli.journal.op = "revoke" /\ "revokeSession" \in cli.journal.done
    BY <2>1, Held DEF Provisioning, Revoking
  <2>3. cli.id \notin chain.keys /\ ~InFlight(cli.id, "grantSession")
    BY <2>1, <2>2, Held DEF EvidenceFine, NoneInFlight, Steps, EnableSteps
  <2>4. UNCHANGED <<journals, chain, inflight>>
        /\ (cli' \in Command /\ CommandFine(cli)' => LifecycleInv')
    BY <2>1, <2>3, BlankRecords, SessionSaved
  <2>5. MovesTo("certify", cli.step, cli.session, cli.journal)
    BY <2>1, Held, GotoMoves
  <2>6. cli'.id = cli.id /\ cli'.name = cli.name /\ cli'.pc = "certify" /\ cli'.step = cli.step
        /\ cli'.journal = cli.journal
    BY <2>5 DEF MovesTo
  <2>7. EvidenceFine(cli.id, cli.journal)' /\ cli.session.status # "none"
        /\ cli.session.status # "active"
    BY <2>1, <2>4, <2>6, Held DEF EvidenceFine, InFlight, NoneInFlight, LifecycleInv,
       CommandFine, Idle
  <2>8. Revoking(cli)'
    BY <2>1, <2>2, <2>4, <2>6 DEF Revoking
  <2>9. QED
    BY <2>1, <2>2, <2>4, <2>5, <2>7, <2>8, Held, Onward
<1>6. QED
  BY <1>1, <1>2, <1>3, <1>4, <1>5

\* The command after a save of the journal, still with that journal: the
\* places it can go to without advancing.
LEMMA AfterSave ==
  ASSUME LifecycleInv, cli.pc # "idle", NEW s \in Session, NEW j \in JournalState,
         SaveJournal(s, j), NEW p \in {"intend", "enable", "delete", "test"},
         MovesTo(p, cli.step, s, j), s.status # "none", EvidenceFine(cli.id, j),
         s.status = "active" => p = "enable" /\ j.op = "provision"
            /\ "grantSession" \in j.done /\ "approveChecker" \in j.done \cup j.seen,
         j.op = cli.journal.op, j.done = cli.journal.done, j.seen = cli.journal.seen,
         p = "intend" => cli.pc = "open",
         p = "enable" => cli.pc = "activate",
         p \in {"delete", "test"} => cli.pc \in {"retire", "noteTest"},
         p = "delete" => j.test = "rejected"
  PROVE  LifecycleInv'
<1>1. cli'.id = cli.id /\ cli'.name = cli.name /\ cli'.pc = p /\ cli'.step = cli.step
      /\ cli'.session = s /\ cli'.journal = j
  BY DEF MovesTo
<1>2. PICK k \in Authority : k = cli.id
  BY Held
<1>3. /\ journals'[cli.id].op = j.op /\ journals'[cli.id].done = j.done
      /\ UNCHANGED <<sessions, chain, inflight>> /\ EvidenceFine(k, j)'
      /\ (cli' \in Command /\ CommandFine(cli)' => LifecycleInv')
  BY <1>2, JournalSaved
<1>4. EvidenceFine(cli.id, cli.journal)'
  BY <1>1, <1>2, <1>3 DEF EvidenceFine, InFlight, NoneInFlight
<1>5. cli.name \in {"provision", "resume"} => Provisioning(cli)'
  BY <1>1, <1>3, Held DEF Provisioning
<1>6. cli.name \notin {"provision", "resume"} => Revoking(cli)'
  BY <1>1, <1>3, Held DEF Revoking
<1>7. QED
  BY <1>1, <1>3, <1>4, <1>5, <1>6, Onward

\* Saving and letting go of the lock.
LEMMA LastSave ==
  ASSUME LifecycleInv, cli.pc # "idle", NEW j \in JournalState,
         SaveJournal(cli.session, j), EvidenceFine(cli.id, j), j.op = cli.journal.op,
         cli.session.status # "active", cli' = Idle
  PROVE  LifecycleInv'
<1>1. PICK k \in Authority : k = cli.id
  BY Held
<1>2. cli.session \in Session /\ cli.session.status # "none"
  BY Held DEF LifecycleInv, CommandFine, Idle
<1>3. cli' \in Command /\ CommandFine(cli)' => LifecycleInv'
  BY <1>1, <1>2, JournalSaved
<1>4. QED
  BY <1>3, StopStep

LEMMA JournalSteps ==
  ASSUME LifecycleInv, \/ Block \/ Open \/ Activate \/ Retire \/ NoteTest \/ Certify
  PROVE  LifecycleInv'
<1> DEFINE s == cli.session
           j == cli.journal
<1>0. ASSUME cli.pc # "idle", cli.pc # "enable"
      PROVE  s \in Session /\ s.status # "none" /\ s.status # "active" /\ j \in JournalState
             /\ EvidenceFine(cli.id, j)
  BY <1>0, Held DEF LifecycleInv, CommandFine, Idle
<1>1. CASE Block
  <2> DEFINE i == [j EXCEPT !.phase = "blocked"]
  <2>1. cli.pc = "block" /\ SaveJournal(s, i) /\ cli' = Idle
    BY <1>1 DEF Block
  <2>2. i \in JournalState /\ i.op = j.op /\ i.done = j.done /\ i.seen = j.seen
        /\ i.status = j.status /\ i.retired = j.retired /\ i.test = j.test
    BY <1>0, <2>1 DEF JournalState
  <2> HIDE DEF i
  <2>3. QED
    BY <1>0, <2>1, <2>2, Held, EvidenceCopy, LastSave
<1>2. CASE Open
  <2>1. cli.pc = "open" /\ SaveJournal(s, j) /\ Goto("intend")
    BY <1>2 DEF Open
  <2>2. MovesTo("intend", cli.step, s, j)
    BY <2>1, Held, GotoMoves
  <2>3. QED
    BY <1>0, <2>1, <2>2, Held, AfterSave
<1>3. CASE Activate
  <2> DEFINE r == [s EXCEPT !.status = "active"]
             i == [j EXCEPT !.phase = "complete", !.pending = Nothing]
  <2>1. cli.pc = "activate" /\ cli.pc # "idle" /\ SaveJournal(r, i)
        /\ cli' = [cli EXCEPT !.pc = "enable", !.session = r, !.journal = i]
    BY <1>3 DEF Activate
  <2>2. r \in Session /\ r.status = "active"
    BY <1>0, <2>1 DEF Session
  <2>3. i \in JournalState /\ i.op = j.op /\ i.done = j.done /\ i.seen = j.seen
        /\ i.status = j.status /\ i.retired = j.retired /\ i.test = j.test
    BY <1>0, <2>1 DEF JournalState
  <2>4. MovesTo("enable", cli.step, r, i)
    BY <2>1, <2>2, <2>3, Held DEF MovesTo, Command
  <2> HIDE DEF i, r
  <2>5. i.op = "provision" /\ "grantSession" \in i.done
        /\ "approveChecker" \in i.done \cup i.seen
    BY <2>1, <2>3, Held DEF Provisioning, Revoking
  <2>6. EvidenceFine(cli.id, i)
    BY <1>0, <2>1, <2>3, Held, EvidenceCopy
  <2>7. QED
    BY <1>0, <2>1, <2>2, <2>3, <2>4, <2>5, <2>6, AfterSave
<1>4. CASE Retire
  <2>1. cli.pc = "retire" /\ SaveJournal(s, j)
        /\ \/ j.test = "rejected" /\ Goto("delete")
           \/ cli' = Idle
           \/ Goto("test")
    BY <1>4 DEF Retire
  <2>2. CASE cli' = Idle
    BY <1>0, <2>1, <2>2, LastSave
  <2>3. ASSUME NEW p \in {"delete", "test"}, Goto(p), p = "delete" => j.test = "rejected"
        PROVE  LifecycleInv'
    <3>1. MovesTo(p, cli.step, s, j)
      BY <2>1, <2>3, Held, GotoMoves
    <3>2. QED
      BY <1>0, <2>1, <2>3, <3>1, AfterSave
  <2>4. QED
    BY <2>1, <2>2, <2>3
<1>5. CASE NoteTest
  <2>1. cli.pc = "noteTest" /\ SaveJournal(s, j)
        /\ \/ j.test = "rejected" /\ Goto("delete")
           \/ cli' = Idle
    BY <1>5 DEF NoteTest
  <2>2. CASE cli' = Idle
    BY <1>0, <2>1, <2>2, LastSave
  <2>3. CASE j.test = "rejected" /\ Goto("delete")
    <3>1. MovesTo("delete", cli.step, s, j)
      BY <2>1, <2>3, Held, GotoMoves
    <3>2. QED
      BY <1>0, <2>1, <2>3, <3>1, AfterSave
  <2>4. QED
    BY <2>1, <2>2, <2>3
<1>6. CASE Certify
  <2> DEFINE i == [j EXCEPT !.deleted = TRUE, !.phase = "complete"]
  <2>1. cli.pc = "certify" /\ SaveJournal(s, i) /\ cli' = Idle
    BY <1>6 DEF Certify
  <2>2. i \in JournalState /\ i.op = j.op /\ i.done = j.done /\ i.seen = j.seen
        /\ i.status = j.status /\ i.retired = j.retired /\ i.test = j.test
    BY <1>0, <2>1 DEF JournalState
  <2> HIDE DEF i
  <2>3. QED
    BY <1>0, <2>1, <2>2, Held, EvidenceCopy, LastSave
<1>7. QED
  BY <1>1, <1>2, <1>3, <1>4, <1>5, <1>6

\* The intent to broadcast, saved before the broadcast.
LEMMA IntendStep ==
  ASSUME LifecycleInv, Intend
  PROVE  LifecycleInv'
<1> DEFINE s == cli.session
           j == [cli.journal EXCEPT !.pending = cli.step, !.phase = "in-progress"]
<1>1. cli.pc = "intend" /\ cli.pc # "idle" /\ cli.step \notin cli.journal.done
      /\ SaveJournal(s, j) /\ cli' = [cli EXCEPT !.pc = "send", !.journal = j]
  BY DEF Intend
<1>2. s \in Session /\ s.status # "none" /\ s.status # "active"
  BY <1>1, Held DEF LifecycleInv, CommandFine, Idle
<1>3. j \in JournalState /\ j.op = cli.journal.op /\ j.done = cli.journal.done
      /\ j.seen = cli.journal.seen /\ j.status = cli.journal.status
      /\ j.retired = cli.journal.retired /\ j.test = cli.journal.test
  BY <1>1, Held DEF JournalState
<1>4. MovesTo("send", cli.step, s, j)
  BY <1>1, <1>3, Held DEF MovesTo, Command
<1> HIDE DEF s, j
<1>5. EvidenceFine(cli.id, j)
  BY <1>1, <1>3, Held, EvidenceCopy
<1>6. PICK k \in Authority : k = cli.id
  BY <1>1, Held
<1>7. /\ journals'[cli.id].op = j.op /\ journals'[cli.id].done = j.done
      /\ UNCHANGED <<sessions, chain, inflight>>
      /\ (cli' \in Command /\ CommandFine(cli)' => LifecycleInv')
  BY <1>1, <1>2, <1>3, <1>5, <1>6, JournalSaved
<1>8. cli'.id = cli.id /\ cli'.name = cli.name /\ cli'.pc = "send" /\ cli'.step = cli.step
      /\ cli'.session = s /\ cli'.journal = j /\ cli' \in Command
  BY <1>4 DEF MovesTo
<1>9. EvidenceFine(cli.id, cli.journal)'
  BY <1>5, <1>7, <1>8 DEF EvidenceFine, InFlight, NoneInFlight
<1>10. cli.name \in {"provision", "resume"} => Provisioning(cli)'
  BY <1>1, <1>3, <1>7, <1>8, Held DEF Provisioning
<1>11. cli.name \notin {"provision", "resume"} => Revoking(cli)'
  BY <1>1, <1>3, <1>7, <1>8, Held DEF Revoking
<1>12. CommandFine(cli)'
  BY <1>1, <1>2, <1>3, <1>6, <1>8, <1>9, <1>10, <1>11 DEF CommandFine
<1>13. QED
  BY <1>7, <1>8, <1>12

\* The outcome of a step: what the relay confirmed or the chain shows.
LEMMA OutcomeStep ==
  ASSUME LifecycleInv, Record \/ Reconcile
  PROVE  LifecycleInv'
<1>1. PICK j \in JournalState :
        /\ cli.pc \in {"record", "reconcile"} /\ SaveJournal(cli.session, j) /\ Advance(j)
        /\ j.op = cli.journal.op /\ j.done = cli.journal.done /\ j.status = cli.journal.status
        /\ j.retired = cli.journal.retired /\ j.test = cli.journal.test
        /\ \/ j.seen = cli.journal.seen /\ cli.pc = "record"
           \/ j.seen = cli.journal.seen \cup {cli.step} /\ cli.pc = "reconcile"
  <2>1. CASE Record
    BY <2>1, Held DEF Record
  <2>2. CASE Reconcile
    <3> DEFINE i == [cli.journal EXCEPT !.seen = @ \cup {cli.step}, !.pending = Nothing]
    <3>1. cli.pc = "reconcile" /\ SaveJournal(cli.session, i) /\ Advance(i)
      BY <2>2 DEF Reconcile
    <3>2. /\ i \in JournalState /\ i.op = cli.journal.op /\ i.done = cli.journal.done
          /\ i.seen = cli.journal.seen \cup {cli.step} /\ i.status = cli.journal.status
          /\ i.retired = cli.journal.retired /\ i.test = cli.journal.test
      BY <3>1, Held DEF JournalState
    <3> HIDE DEF i
    <3>3. QED
      BY <3>1, <3>2
  <2>3. QED
    BY <2>1, <2>2
<1>2. cli.pc # "idle" /\ cli.pc # "enable" /\ cli.session.status # "none"
      /\ cli.session.status # "active"
  BY <1>1, Held DEF LifecycleInv, CommandFine, Idle
<1>3. cli.pc = "reconcile" =>
        cli.journal.op = "provision" /\ (cli.step = "approveChecker" => cli.id \in chain.checkers)
  BY <1>2, Held DEF Provisioning, Revoking
<1>4. EvidenceFine(cli.id, j)
  BY <1>1, <1>2, <1>3, Held DEF EvidenceFine
<1>5. PICK k \in Authority : k = cli.id
  BY <1>2, Held
<1>6. /\ journals'[cli.id].op = j.op /\ journals'[cli.id].done = j.done
      /\ UNCHANGED <<sessions, chain, inflight>> /\ EvidenceFine(k, j)'
      /\ (cli' \in Command /\ CommandFine(cli)' => LifecycleInv')
  BY <1>1, <1>2, <1>4, <1>5, Held, JournalSaved
<1>7. MovesTo(NextPc, NextStep, cli.session, j)
  BY <1>1, <1>2, AdvanceMoves
<1>8. cli' \in Command /\ cli'.id = cli.id
  BY <1>7 DEF MovesTo
<1>9. EvidenceFine(cli.id, j)'
  BY <1>5, <1>6, <1>8 DEF EvidenceFine, InFlight, NoneInFlight
<1>10. cli.pc = "record" => cli.step \in j.done
  BY <1>1, <1>2, Held
<1>11. CommandFine(cli)'
  BY <1>1, <1>6, <1>7, <1>9, <1>10, Advanced
<1>12. QED
  BY <1>6, <1>8, <1>11

-----------------------------------------------------------------------------
(* The broadcasts.                                                          *)

\* What the decision of the open broadcast can change.
LEMMA EffectTouches ==
  ASSUME LifecycleInv, inflight # Nothing, chain' \in {chain, Effect(inflight)}
  PROVE  /\ chain' \in [keys : SUBSET Authority, checkers : SUBSET Authority, allowance : BOOLEAN]
         /\ \A a \in Authority :
              /\ a \in chain'.keys => a \in chain.keys \/ InFlight(a, "grantSession")
              /\ a \in chain.keys => a \in chain'.keys \/ InFlight(a, "revokeSession")
              /\ a \in chain'.checkers => a \in chain.checkers \/ InFlight(a, "approveChecker")
              /\ a \in chain.checkers => a \in chain'.checkers \/ InFlight(a, "revokeChecker")
<1>1. PICK b \in Authority, step \in Steps : InFlight(b, step)
  BY DEF LifecycleInv, LifecycleTypeOK, InFlight
<1>2. inflight.id = b /\ inflight.step = step
  BY <1>1 DEF InFlight
<1>3. chain \in [keys : SUBSET Authority, checkers : SUBSET Authority, allowance : BOOLEAN]
  BY DEF LifecycleInv, LifecycleTypeOK
<1>4. CASE chain' = chain
  BY <1>3, <1>4
<1>5. CASE chain' = Effect(inflight)
  <2>1. step \in {"grantSession", "approveChecker", "approveAllowance",
                  "revokeChecker", "revokeAllowance", "revokeSession"}
    BY DEF Steps, EnableSteps, DisableSteps
  <2>2. CASE step = "grantSession"
    BY <1>1, <1>2, <1>3, <1>5, <2>2 DEF Effect
  <2>3. CASE step = "approveChecker"
    BY <1>1, <1>2, <1>3, <1>5, <2>3 DEF Effect
  <2>4. CASE step \in {"approveAllowance", "revokeAllowance"}
    BY <1>1, <1>2, <1>3, <1>5, <2>4 DEF Effect
  <2>5. CASE step = "revokeChecker"
    BY <1>1, <1>2, <1>3, <1>5, <2>5 DEF Effect
  <2>6. CASE step = "revokeSession"
    BY <1>1, <1>2, <1>3, <1>5, <2>6 DEF Effect
  <2>7. QED
    BY <2>1, <2>2, <2>3, <2>4, <2>5, <2>6
<1>6. QED
  BY <1>4, <1>5

\* Evidence survives the decision, since a disabling step was announced and
\* nothing about a revoked authority is open.
LEMMA EvidenceSettles ==
  ASSUME LifecycleInv, inflight # Nothing, chain' \in {chain, Effect(inflight)},
         inflight' = Nothing, NEW a \in Authority, NEW j \in JournalState, EvidenceFine(a, j),
         j.op = "provision" => journals[a].op # "revoke"
  PROVE  EvidenceFine(a, j)'
<1>1. \A step \in Steps : ~InFlight(a, step)'
  BY AuthorityAssumption DEF InFlight
<1>2. "approveChecker" \in Steps /\ "grantSession" \in Steps /\ DisableSteps \subseteq Steps
  BY DEF Steps, EnableSteps
<1>3. j.op = "provision" => ~InFlight(a, "revokeSession") /\ ~InFlight(a, "revokeChecker")
  BY DEF LifecycleInv, InFlightFine, DisableSteps
<1>4. QED
  BY <1>1, <1>2, <1>3, EffectTouches DEF EvidenceFine, NoneInFlight

LEMMA SettledSends ==
  ASSUME LifecycleInv, inflight # Nothing, chain' \in {chain, Effect(inflight)},
         inflight' = Nothing, UNCHANGED stores, UNCHANGED faults \/ Fault,
         cli' \in Command, CommandFine(cli)'
  PROVE  LifecycleInv'
<1>1. LifecycleTypeOK /\ MaxFaults \in Nat /\ UNCHANGED <<sessions, journals>>
  BY AuthorityAssumption DEF LifecycleInv, stores
<1>2. faults' \in 0..MaxFaults
  BY <1>1 DEF LifecycleTypeOK, Fault
<1>3. LifecycleTypeOK'
  BY <1>1, <1>2, EffectTouches DEF LifecycleTypeOK
<1>4. \A a \in Authority, step \in Steps : ~InFlight(a, step)'
  BY AuthorityAssumption DEF InFlight
<1>5. InFlightFine'
  BY <1>1, <1>4, EffectTouches
     DEF LifecycleInv, InFlightFine, Steps, EnableSteps, DisableSteps
<1>6. ASSUME NEW a \in Authority
      PROVE  EvidenceFine(a, journals[a])'
  <2>1. PICK j \in JournalState : j = journals[a] /\ EvidenceFine(a, j)
    BY <1>1 DEF LifecycleInv, LifecycleTypeOK
  <2>2. EvidenceFine(a, j)'
    BY <2>1, EvidenceSettles
  <2>3. QED
    BY <1>1, <2>1, <2>2 DEF EvidenceFine, InFlight, NoneInFlight
<1>7. QED
  BY <1>3, <1>5, <1>6 DEF LifecycleInv

\* The command's entry when its copy of the evidence holds what it held, or
\* its step as well.
LEMMA Answered ==
  ASSUME LifecycleInv, cli.pc = "sent", NEW p \in {"record", "block"}, NEW j \in JournalState,
         MovesTo(p, cli.step, cli.session, j), UNCHANGED stores,
         j.op = cli.journal.op, cli.journal.done \subseteq j.done, j.seen = cli.journal.seen,
         p = "record" => cli.step \in j.done,
         EvidenceFine(cli.id, cli.journal)'
  PROVE  cli' \in Command /\ CommandFine(cli)'
<1>1. cli'.id = cli.id /\ cli'.name = cli.name /\ cli'.session = cli.session
      /\ cli'.pc = p /\ cli'.step = cli.step /\ cli'.journal = j /\ cli' \in Command
      /\ UNCHANGED <<sessions, journals>>
  BY DEF MovesTo, stores
<1>2. cli.session.status # "none" /\ cli.session.status # "active" /\ cli.id \in Authority
  BY Held DEF LifecycleInv, CommandFine, Idle
<1>3. cli.name \in {"provision", "resume"} => Provisioning(cli)'
  BY <1>1, Held DEF Provisioning
<1>4. cli.name \notin {"provision", "resume"} => Revoking(cli)'
  BY <1>1, Held DEF Revoking
<1>5. QED
  BY <1>1, <1>2, <1>3, <1>4 DEF CommandFine

LEMMA AnswerStep ==
  ASSUME LifecycleInv, RevokeAnswer
  PROVE  LifecycleInv'
<1>1. cli.pc = "sent" /\ cli.pc # "idle" /\ UNCHANGED stores
  BY DEF RevokeAnswer
<1>2. PICK k \in Authority : k = cli.id
  BY <1>1, Held
<1>3. /\ cli.journal \in JournalState /\ EvidenceFine(k, cli.journal) /\ InFlight(k, cli.step)
      /\ cli.journal.op = "provision" => journals[k].op # "revoke"
      /\ cli.step \in Steps
  BY <1>1, <1>2, Held DEF Provisioning, Revoking
<1>4. inflight # Nothing /\ inflight.id = k /\ inflight.step = cli.step
  BY <1>3, AuthorityAssumption DEF InFlight
<1>5. CASE /\ chain' = Effect(inflight) /\ inflight' = Nothing
           /\ cli' = [cli EXCEPT !.pc = "record", !.journal.pending = Nothing,
                                 !.journal.done = @ \cup {cli.step}]
           /\ UNCHANGED faults
  <2> DEFINE i == [cli.journal EXCEPT !.pending = Nothing, !.done = @ \cup {cli.step}]
  <2>1. /\ i \in JournalState /\ i.op = cli.journal.op /\ i.seen = cli.journal.seen
        /\ i.done = cli.journal.done \cup {cli.step} /\ i.status = cli.journal.status
        /\ i.retired = cli.journal.retired /\ i.test = cli.journal.test
    BY <1>3 DEF JournalState
  <2>2. MovesTo("record", cli.step, cli.session, i)
    BY <1>1, <1>5, <2>1, Held DEF MovesTo, Command
  <2> HIDE DEF i
  <2>3. PICK j \in JournalState : j = i
    BY <2>1
  <2>4. cli'.journal = j /\ cli'.id = k /\ UNCHANGED <<sessions, journals>>
    BY <1>1, <1>2, <2>2, <2>3 DEF MovesTo, stores
  <2>5. PICK h \in JournalState : h = cli.journal
    BY <1>3
  <2>6. EvidenceFine(k, h)'
    BY <1>3, <1>4, <1>5, <2>5, EvidenceSettles
  <2>7. \A step \in Steps : ~InFlight(k, step)'
    BY <1>5, AuthorityAssumption DEF InFlight
  <2>8. /\ cli.step = "grantSession" => k \in chain'.keys
        /\ cli.step = "approveChecker" => k \in chain'.checkers
        /\ cli.step = "revokeChecker" => k \notin chain'.checkers
        /\ cli.step = "revokeSession" => k \notin chain'.keys
    <3>1. chain \in [keys : SUBSET Authority, checkers : SUBSET Authority, allowance : BOOLEAN]
      BY DEF LifecycleInv, LifecycleTypeOK
    <3>2. QED
      BY <1>4, <1>5, <3>1 DEF Effect
  <2>9. /\ cli.journal.op = "provision" => cli.step \notin DisableSteps
        /\ cli.journal.op = "revoke" =>
             /\ cli.step # "revokeChecker" => "revokeChecker" \in cli.journal.done
             /\ cli.step = "revokeSession" => "revokeAllowance" \in cli.journal.done
             /\ cli.step \in DisableSteps
    BY <1>1, Held DEF Provisioning, Revoking, EnableSteps, DisableSteps
  <2>10. "approveChecker" \in Steps /\ DisableSteps =
            {"revokeChecker", "revokeAllowance", "revokeSession"}
    BY DEF Steps, EnableSteps, DisableSteps
  <2>11. EvidenceFine(k, j)'
    BY <2>1, <2>3, <2>5, <2>6, <2>7, <2>8, <2>9, <2>10 DEF EvidenceFine, NoneInFlight
  <2>12. EvidenceFine(cli.id, cli.journal)'
    BY <2>4, <2>11 DEF EvidenceFine, InFlight, NoneInFlight
  <2>13. cli' \in Command /\ CommandFine(cli)'
    BY <1>1, <2>1, <2>2, <2>12, Answered
  <2>14. QED
    BY <1>1, <1>4, <1>5, <2>13, SettledSends
<1>6. CASE Fault /\ chain' \in {chain, Effect(inflight)} /\ inflight' = Nothing /\ Goto("block")
  <2>1. MovesTo("block", cli.step, cli.session, cli.journal)
    BY <1>1, <1>6, Held, GotoMoves
  <2>2. PICK h \in JournalState : h = cli.journal
    BY <1>3
  <2>3. EvidenceFine(k, h)'
    BY <1>3, <1>4, <1>6, <2>2, EvidenceSettles
  <2>4. EvidenceFine(cli.id, cli.journal)'
    BY <1>2, <2>1, <2>2, <2>3 DEF MovesTo, EvidenceFine, InFlight, NoneInFlight
  <2>5. cli' \in Command /\ CommandFine(cli)'
    BY <1>1, <1>3, <2>1, <2>4, Answered
  <2>6. QED
    BY <1>1, <1>4, <1>6, <2>5, SettledSends
<1>7. CASE Fault /\ Goto("block") /\ UNCHANGED <<chain, inflight>>
  BY <1>1, <1>2, <1>3, <1>7, Held, GotoMoves, SameStep
<1>8. PICK answer \in Answers :
        /\ Reports(answer)
        /\ IF Confirms(answer)
           THEN /\ cli' = [cli EXCEPT !.pc = "record", !.journal.pending = Nothing,
                                      !.journal.done = @ \cup {cli.step}]
                /\ UNCHANGED faults
           ELSE Fault /\ Goto("block")
  BY DEF RevokeAnswer
<1>9. CASE Executed(answer)
  <2>1. chain' = Effect(inflight) /\ inflight' = Nothing
    BY <1>8, <1>9 DEF Reports
  <2>2. QED
    BY <1>5, <1>6, <1>8, <2>1
<1>10. CASE ~Executed(answer)
  <2>1. ~Confirms(answer)
    BY <1>10 DEF Confirms, Executed
  <2>2. \/ inflight' = Nothing /\ UNCHANGED chain
        \/ UNCHANGED <<chain, inflight>>
    BY <1>8, <1>10 DEF Reports
  <2>3. QED
    BY <1>6, <1>7, <1>8, <2>1, <2>2
<1>11. QED
  BY <1>9, <1>10

LEMMA SettleStep ==
  ASSUME LifecycleInv, SettleSent
  PROVE  LifecycleInv'
<1>1. /\ inflight # Nothing /\ cli.pc # "sent" /\ chain' \in {chain, Effect(inflight)}
      /\ inflight' = Nothing /\ UNCHANGED <<stores, cli, faults>>
  BY DEF SettleSent
<1>2. cli' \in Command /\ UNCHANGED <<sessions, journals>>
  BY <1>1 DEF LifecycleInv, LifecycleTypeOK, stores
<1>3. CASE cli.pc = "idle"
  <2>1. cli = Idle
    BY <1>3, Held DEF LifecycleInv, CommandFine, Provisioning, Revoking
  <2>2. cli' = Idle
    BY <1>1, <2>1
  <2>3. QED
    BY <1>1, <2>2, StopStep, SettledSends
<1>4. CASE cli.pc # "idle"
  <2>1. PICK k \in Authority : k = cli.id
    BY <1>4, Held
  <2>2. PICK j \in JournalState : j = cli.journal
    BY <1>4, Held
  <2>3. EvidenceFine(k, j) /\ (j.op = "provision" => journals[k].op # "revoke")
    BY <1>4, <2>1, <2>2, Held DEF Provisioning, Revoking
  <2>4. EvidenceFine(k, j)'
    BY <1>1, <2>3, EvidenceSettles
  <2>5. EvidenceFine(cli.id, cli.journal)'
    BY <1>1, <2>1, <2>2, <2>4 DEF EvidenceFine, InFlight, NoneInFlight
  <2>6. CommandFine(cli)
    BY DEF LifecycleInv
  <2>7. cli.name \in {"provision", "resume"} => Provisioning(cli)'
    <3>1. ASSUME cli.name \in {"provision", "resume"}
          PROVE  ~InFlight(k, "revokeChecker")
      BY <1>4, <2>1, <3>1, Held DEF Provisioning, LifecycleInv, InFlightFine, DisableSteps
    <3>2. QED
      BY <1>1, <1>2, <1>4, <2>1, <3>1, Held, EffectTouches DEF Provisioning
  <2>8. cli.name \notin {"provision", "resume"} => Revoking(cli)'
    BY <1>1, <1>2, <1>4, Held DEF Revoking
  <2>9. CommandFine(cli)'
    BY <1>1, <2>5, <2>6, <2>7, <2>8 DEF CommandFine
  <2>10. QED
    BY <1>1, <1>2, <2>9, SettledSends
<1>5. QED
  BY <1>3, <1>4

\* The broadcast: what is being sent is not yet recorded as done, so nothing
\* that the evidence rules out is sent.
LEMMA SendStep ==
  ASSUME LifecycleInv, Send
  PROVE  LifecycleInv'
<1>1. /\ cli.pc = "send" /\ cli.pc # "idle" /\ inflight = Nothing
      /\ inflight' = [id |-> cli.id, step |-> cli.step] /\ Goto("sent")
      /\ UNCHANGED <<stores, chain, faults>> /\ UNCHANGED <<sessions, journals>>
  BY DEF Send, stores
<1>2. MovesTo("sent", cli.step, cli.session, cli.journal)
  BY <1>1, Held, GotoMoves
<1>3. cli'.id = cli.id /\ cli'.name = cli.name /\ cli'.session = cli.session
      /\ cli'.pc = "sent" /\ cli'.step = cli.step /\ cli'.journal = cli.journal /\ cli' \in Command
  BY <1>2 DEF MovesTo
<1>4. PICK k \in Authority : k = cli.id
  BY <1>1, Held
<1>5. PICK step \in Steps : step = cli.step
  BY <1>1, Held
<1>6. \A a \in Authority, t \in Steps : InFlight(a, t)' <=> a = k /\ t = step
  BY <1>1, <1>4, <1>5 DEF InFlight
<1>7. /\ "approveChecker" \in Steps /\ "grantSession" \in Steps /\ DisableSteps \subseteq Steps
      /\ DisableSteps = {"revokeChecker", "revokeAllowance", "revokeSession"}
      /\ EnableSteps \cap DisableSteps = {}
  BY DEF Steps, EnableSteps, DisableSteps
<1>8. LifecycleTypeOK /\ LifecycleTypeOK'
  BY <1>1, <1>3, <1>4, <1>5 DEF LifecycleInv, LifecycleTypeOK
<1>9. \/ /\ cli.name \in {"provision", "resume"} /\ step \in EnableSteps /\ Provisioning(cli)
         /\ cli.journal.op = "provision" /\ journals[k].op # "revoke" /\ sessions[k] # NoSession
      \/ /\ cli.name \notin {"provision", "resume"} /\ step \in DisableSteps /\ Revoking(cli)
         /\ cli.journal.op = "revoke" /\ journals[k].op = "revoke"
         /\ journals[k].done \subseteq cli.journal.done
  BY <1>1, <1>4, <1>5, Held DEF Provisioning, Revoking
<1>10. InFlightFine'
  BY <1>1, <1>6, <1>7, <1>9 DEF LifecycleInv, InFlightFine
<1>11. ASSUME NEW a \in Authority, NEW j \in JournalState, EvidenceFine(a, j),
              a = k /\ j.op = "revoke" => step \in DisableSteps \ j.done
       PROVE  EvidenceFine(a, j)'
  BY <1>1, <1>6, <1>7, <1>11 DEF EvidenceFine, NoneInFlight
<1>12. step \notin cli.journal.done
  BY <1>1, <1>5, Held
<1>13. ASSUME NEW a \in Authority
       PROVE  EvidenceFine(a, journals[a])'
  <2>1. PICK j \in JournalState : j = journals[a] /\ EvidenceFine(a, j)
    BY <1>8 DEF LifecycleInv, LifecycleTypeOK
  <2>2. a = k /\ j.op = "revoke" => step \in DisableSteps \ j.done
    BY <1>9, <1>12, <2>1
  <2>3. EvidenceFine(a, j)'
    BY <1>11, <2>1, <2>2
  <2>4. QED
    BY <1>1, <2>1, <2>3 DEF EvidenceFine, InFlight, NoneInFlight
<1>14. EvidenceFine(cli.id, cli.journal)'
  <2>1. PICK j \in JournalState : j = cli.journal /\ EvidenceFine(k, j)
    BY <1>1, <1>4, Held
  <2>2. EvidenceFine(k, j)'
    BY <1>9, <1>11, <1>12, <2>1
  <2>3. QED
    BY <1>3, <1>4, <2>1, <2>2 DEF EvidenceFine, InFlight, NoneInFlight
<1>15. CommandFine(cli)'
  <2>1. cli.name \in {"provision", "resume"} => Provisioning(cli)'
    BY <1>1, <1>3, <1>9 DEF Provisioning
  <2>2. cli.name \notin {"provision", "resume"} => Revoking(cli)'
    BY <1>1, <1>3, <1>9 DEF Revoking
  <2>3. InFlight(cli.id, cli.step)'
    BY <1>1, <1>3 DEF InFlight
  <2>4. cli.session.status # "none" /\ cli.session.status # "active"
    BY <1>1, Held DEF LifecycleInv, CommandFine, Idle
  <2>5. QED
    BY <1>3, <1>4, <1>5, <1>12, <1>14, <2>1, <2>2, <2>3, <2>4 DEF CommandFine
<1>16. QED
  BY <1>8, <1>10, <1>13, <1>15 DEF LifecycleInv

\* The missing flag of a revocation whose key is gone.
LEMMA FinishStep ==
  ASSUME LifecycleInv, NEW a \in Authority, FinishRevoked(a)
  PROVE  LifecycleInv'
<1> DEFINE j == [journals[a] EXCEPT !.deleted = TRUE]
<1>1. journals[a] \in JournalState /\ sessions[a] \in Session /\ LifecycleTypeOK
      /\ EvidenceFine(a, journals[a])
  BY DEF LifecycleInv, LifecycleTypeOK
<1>2. j \in JournalState /\ j.op = journals[a].op /\ j.done = journals[a].done
      /\ j.seen = journals[a].seen /\ j.status = journals[a].status
      /\ j.retired = journals[a].retired /\ j.test = journals[a].test
  BY <1>1 DEF JournalState
<1>3. journals' = [journals EXCEPT ![a] = j] /\ cli = Idle /\ sessions[a] = NoSession
      /\ UNCHANGED <<sessions, cli, chain, inflight, faults>>
  BY <1>1 DEF FinishRevoked, LifecycleTypeOK
<1> HIDE DEF j
<1>4. sessions' = [sessions EXCEPT ![a] = sessions[a]] /\ cli' = Idle
  BY <1>1, <1>3 DEF LifecycleTypeOK
<1>5. EvidenceFine(a, j)
  BY <1>1, <1>2, EvidenceCopy
<1>6. QED
  BY <1>1, <1>2, <1>3, <1>4, <1>5, StopStep, RecordsMove

-----------------------------------------------------------------------------
(* The invariant and the theorems.                                          *)

LEMMA InvInit == LifecycleInit => LifecycleInv
<1> SUFFICES ASSUME LifecycleInit PROVE LifecycleInv
  OBVIOUS
<1>1. /\ sessions = [a \in Authority |-> NoSession] /\ journals = [a \in Authority |-> NoJournal]
      /\ cli = Idle /\ chain = [keys |-> {}, checkers |-> {}, allowance |-> FALSE]
      /\ inflight = Nothing /\ faults = 0 /\ MaxFaults \in Nat
  BY AuthorityAssumption DEF LifecycleInit
<1>2. LifecycleTypeOK
  BY <1>1, BlankRecords DEF LifecycleTypeOK
<1>3. \A a \in Authority, step \in Steps : ~InFlight(a, step)
  BY <1>1, AuthorityAssumption DEF InFlight
<1>4. InFlightFine
  BY <1>1, <1>3 DEF InFlightFine, Steps, EnableSteps
<1>5. \A a \in Authority : EvidenceFine(a, journals[a])
  <2>1. Nothing \notin {"provision", "revoke", "rejected"}
    BY AuthorityAssumption
  <2>2. QED
    BY <1>1, <2>1, BlankRecords DEF EvidenceFine
<1>6. QED
  BY <1>1, <1>2, <1>4, <1>5 DEF LifecycleInv, CommandFine

LEMMA InvNext ==
  ASSUME LifecycleInv, [LifecycleNext]_lifecycleVars
  PROVE  LifecycleInv'
<1>1. CASE \E a \in Authority : Provision(a) \/ Resume(a) \/ Revoke(a) \/ FinishRevoked(a)
  BY <1>1, ProvisionStep, ResumeStep, RevokeStep, FinishStep
<1>2. CASE CommandStep
  BY <1>2, SilentStep, SessionSteps, JournalSteps, IntendStep, OutcomeStep, SendStep, AnswerStep
     DEF CommandStep
<1>3. CASE SettleSent
  BY <1>3, SettleStep
<1>4. CASE CommandStops
  BY <1>4, SilentStep
<1>5. CASE UNCHANGED lifecycleVars
  <2>1. UNCHANGED <<stores, chain, inflight, faults, sessions, journals>> /\ UNCHANGED cli
    BY <1>5 DEF lifecycleVars, stores
  <2>2. CommandFine(cli)' /\ cli' \in Command
    BY <2>1 DEF LifecycleInv, LifecycleTypeOK, CommandFine, Provisioning, Revoking,
       EvidenceFine, InFlight, NoneInFlight
  <2>3. QED
    BY <2>1, <2>2, CommandMoves
<1>6. QED
  BY <1>1, <1>2, <1>3, <1>4, <1>5 DEF LifecycleNext

THEOREM LifecycleInvariant == LifecycleSpec => []LifecycleInv
<1>1. QED
  BY InvInit, InvNext, PTL DEF LifecycleSpec

(* The two stores, the command and the chain hold records of their kinds,
   whatever command runs and wherever it dies.                              *)
THEOREM LifecycleTypeCorrect == LifecycleSpec => []LifecycleTypeOK
<1>1. LifecycleInv => LifecycleTypeOK
  BY DEF LifecycleInv
<1>2. QED
  BY <1>1, LifecycleInvariant, PTL

(* A session loadActiveAltanaAuthority accepts has its key and its checker on
   the chain: the evidence it reads is active only after both were confirmed
   or seen, and no disabling step is open before the evidence says so.      *)
THEOREM UsableSessionIsBacked == LifecycleSpec => []UsableIsBacked
<1>1. LifecycleInv => UsableIsBacked
  BY DEF LifecycleInv, UsableIsBacked, Usable, Loads, EvidenceFine
<1>2. QED
  BY <1>1, LifecycleInvariant, PTL

(* provisionAltanaAuthority keeps the signer before the grant is broadcast and
   revokeAltanaAuthority deletes it after the session is off the chain: the
   key of a live session is never lost.                                     *)
THEOREM LiveKeyIsAlwaysKept == LifecycleSpec => []LiveKeyIsKept
<1>1. LifecycleInv => LiveKeyIsKept
  BY DEF LifecycleInv, LiveKeyIsKept, InFlightFine, InFlight
<1>2. QED
  BY <1>1, LifecycleInvariant, PTL

(* A rejected negative test in the public evidence certifies a dead key: it
   and its checker are off the chain and no broadcast about it is open.     *)
THEOREM CertificateIsAlwaysTrue == LifecycleSpec => []CertificateIsTrue
<1>1. ASSUME LifecycleInv, NEW a \in Authority, journals[a].test = "rejected"
      PROVE  /\ a \notin chain.keys \cup chain.checkers
             /\ inflight = Nothing \/ inflight.id # a
  <2>1. /\ a \notin chain.keys \cup chain.checkers /\ NoneInFlight(a)
    BY <1>1 DEF LifecycleInv, EvidenceFine
  <2>2. inflight \in [id : Authority, step : Steps] \cup {Nothing}
    BY <1>1 DEF LifecycleInv, LifecycleTypeOK
  <2>3. QED
    BY <2>1, <2>2 DEF NoneInFlight, InFlight
<1>2. LifecycleInv => CertificateIsTrue
  BY <1>1 DEF CertificateIsTrue
<1>3. QED
  BY <1>2, LifecycleInvariant, PTL
=============================================================================
