------------------------- MODULE AuthorityLifecycle -------------------------
(***************************************************************************)
(* The life of a spending authority: the commands that provision, resume   *)
(* and revoke a session key of the paying wallet, over two stores that are *)
(* saved one after the other (the encrypted session, the public evidence   *)
(* with its journal of steps) and a chain whose answers can be lost.       *)
(*                                                                         *)
(* The lifecycle lock admits one command at a time; a command dies at any  *)
(* await, and the operator may then run any other. Every save and every    *)
(* broadcast is a step of its own.                                         *)
(*                                                                         *)
(* External: the chain. A wallet's transactions execute in the order of    *)
(* its nonces, so an unanswered one lands or is dropped before the next.   *)
(* Disabling twice succeeds, as the code assumes when it retries. The SDK  *)
(* gives a hash without a status only for what has been executed.          *)
(***************************************************************************)
EXTENDS Naturals

CONSTANTS Authority,    \* the authority identifiers, all of one wallet
          Nothing,
          MaxFaults     \* bound: crashes, failed saves, lost or odd answers

VARIABLES sessions,   \* the encrypted session of each authority
          journals,   \* its public evidence
          cli,        \* the command that holds the lifecycle lock
          chain,      \* what the wallet has enabled
          inflight,   \* the broadcast whose fate is open
          faults

stores == <<sessions, journals>>
lifecycleVars == <<stores, cli, chain, inflight, faults>>

EnableSteps == {"grantSession", "approveChecker", "approveAllowance"}
DisableSteps == {"revokeChecker", "revokeAllowance", "revokeSession"}
Steps == EnableSteps \cup DisableSteps

\* Nothing is no identifier, no word of a record and no broadcast.
ASSUME AuthorityAssumption ==
    /\ MaxFaults \in Nat
    /\ Nothing \notin Authority \cup Steps
                       \cup {"provision", "resume", "revoke", "in-progress", "blocked", "complete",
                             "rejected", "inconclusive", "unexpected", "CONFIRMED", "PENDING", "FAILED"}
    /\ Nothing \notin [id : Authority, step : Steps]

\* known: the record holds the hash of its grant.
Session == [status : {"none", "invalid", "active", "revoked"}, known : BOOLEAN]
NoSession == [status |-> "none", known |-> FALSE]

\* done: transactions, seen: reconciled, retired: revocation is present.
JournalState == [status : {"none", "invalid", "active", "revoked"},
                 op : {"provision", "revoke", Nothing},
                 phase : {"in-progress", "blocked", "complete", Nothing},
                 pending : Steps \cup {Nothing}, done : SUBSET Steps, seen : SUBSET Steps,
                 test : {"rejected", "inconclusive", "unexpected", Nothing},
                 retired : BOOLEAN, deleted : BOOLEAN]
NoJournal == [status |-> "none", op |-> Nothing, phase |-> Nothing, pending |-> Nothing, done |-> {},
              seen |-> {}, test |-> Nothing, retired |-> FALSE, deleted |-> FALSE]
Opened(op) == [NoJournal EXCEPT !.status = "invalid", !.op = op, !.phase = "in-progress"]

\* A command: the step it is at and its copies of the two records.
Command == [name : {"provision", "resume", "revoke", Nothing}, id : Authority \cup {Nothing},
            pc : {"idle", "keepKey", "open", "intend", "send", "sent", "record", "block",
                  "keepGrant", "look", "reconcile", "activate", "enable",
                  "disable", "retireSession", "retire", "test", "noteTest", "delete", "certify"},
            step : Steps \cup {Nothing}, session : Session, journal : JournalState]
Idle == [name |-> Nothing, id |-> Nothing, pc |-> "idle", step |-> Nothing,
         session |-> NoSession, journal |-> NoJournal]

LifecycleInit == /\ sessions = [a \in Authority |-> NoSession]
        /\ journals = [a \in Authority |-> NoJournal]
        /\ cli = Idle
        /\ chain = [keys |-> {}, checkers |-> {}, allowance |-> FALSE]
        /\ inflight = Nothing
        /\ faults = 0

\* What loadActiveAltanaAuthority accepts (expiry aside).
Loads(s, j) == /\ s.status = "active"
               /\ j.status = "active" /\ j.op = "provision" /\ j.phase = "complete"
Usable(a) == Loads(sessions[a], journals[a])

Fault == faults < MaxFaults /\ faults' = faults + 1
Goto(pc) == cli' = [cli EXCEPT !.pc = pc]

SaveSession(s) ==
    /\ sessions' = [sessions EXCEPT ![cli.id] = s]
    /\ UNCHANGED <<journals, chain, inflight, faults>>

\* The evidence shares the session's authority object: its status follows.
SaveJournal(s, j) ==
    /\ journals' = [journals EXCEPT ![cli.id] = [j EXCEPT !.status = s.status]]
    /\ UNCHANGED <<sessions, chain, inflight, faults>>

-----------------------------------------------------------------------------
(* The commands start.                                                      *)

Starts(name, a, pc, step, s, j) ==
    /\ cli = Idle
    /\ cli' = [name |-> name, id |-> a, pc |-> pc, step |-> step, session |-> s, journal |-> j]
    /\ UNCHANGED <<stores, chain, inflight, faults>>

Unused(a) == sessions[a] = NoSession /\ journals[a] = NoJournal

ProvisionGrantsFirst == "open"   \* variant: the session is saved after its grant
ProvisionAt == "keepKey"

Provision(a) ==
    /\ Unused(a)
    /\ Starts("provision", a, ProvisionAt, "grantSession",
              [NoSession EXCEPT !.status = "invalid"], Opened("provision"))

Resumable(s, j) == /\ s.status = "invalid"
                   /\ j.op = "provision" /\ j.phase # "complete"
                   /\ "grantSession" \in j.done /\ s.known

Resume(a) ==
    /\ Resumable(sessions[a], journals[a])
    /\ Starts("resume", a, "look", "approveChecker", sessions[a], journals[a])

\* The session is disabled and saved before anything else.
RevokeAt == "disable"

Revoke(a) ==
    /\ sessions[a] # NoSession
    /\ LET j == journals[a]
           revoking == IF j.op = "revoke" THEN j
                       ELSE [j EXCEPT !.op = "revoke", !.phase = "in-progress",
                                      !.pending = Nothing, !.done = {}, !.seen = {}]
       IN Starts("revoke", a, RevokeAt, "revokeChecker", [sessions[a] EXCEPT !.status = "invalid"],
                 [revoking EXCEPT !.done = @ \cup IF j.retired THEN DisableSteps ELSE {}])

\* The key is gone already: only the flag is missing.
FinishRevokedRefused(a) == FALSE /\ UNCHANGED lifecycleVars   \* variant: refused like any absence

FinishRevoked(a) ==
    /\ cli = Idle
    /\ sessions[a] = NoSession
    /\ journals[a].status = "revoked" /\ journals[a].test = "rejected"
    /\ journals' = [journals EXCEPT ![a].deleted = TRUE]
    /\ UNCHANGED <<sessions, cli, chain, inflight, faults>>

-----------------------------------------------------------------------------
(* checkpoint: intent, broadcast, outcome.                                  *)

\* Where the command goes once its step is settled, and with which step.
NextPc == CASE cli.step = "grantSession" -> "keepGrant"
            [] cli.step = "approveChecker" -> IF cli.name = "resume" THEN "look" ELSE "intend"
            [] cli.step = "approveAllowance" -> "activate"
            [] cli.step = "revokeSession" -> "retireSession"
            [] OTHER -> "intend"
NextStep == CASE cli.step = "approveChecker" -> "approveAllowance"
              [] cli.step = "revokeChecker" -> "revokeAllowance"
              [] cli.step = "revokeAllowance" -> "revokeSession"
              [] OTHER -> cli.step
Advance(j) == cli' = [cli EXCEPT !.pc = NextPc, !.step = NextStep, !.journal = j]

SkipDone ==
    /\ cli.pc \in {"intend", "look"} /\ cli.step \in cli.journal.done
    /\ Advance(cli.journal)
    /\ UNCHANGED <<stores, chain, inflight, faults>>

Intend ==
    /\ cli.pc = "intend" /\ cli.step \notin cli.journal.done
    /\ LET j == [cli.journal EXCEPT !.pending = cli.step, !.phase = "in-progress"]
       IN /\ SaveJournal(cli.session, j)
          /\ cli' = [cli EXCEPT !.pc = "send", !.journal = j]

Send ==
    /\ cli.pc = "send" /\ inflight = Nothing
    /\ inflight' = [id |-> cli.id, step |-> cli.step]
    /\ Goto("sent")
    /\ UNCHANGED <<stores, chain, faults>>

Effect(t) ==
    CASE t.step = "grantSession" -> [chain EXCEPT !.keys = @ \cup {t.id}]
      [] t.step = "approveChecker" -> [chain EXCEPT !.checkers = @ \cup {t.id}]
      [] t.step = "approveAllowance" -> [chain EXCEPT !.allowance = TRUE]
      [] t.step = "revokeChecker" -> [chain EXCEPT !.checkers = @ \ {t.id}]
      [] t.step = "revokeAllowance" -> [chain EXCEPT !.allowance = FALSE]
      [] t.step = "revokeSession" -> [chain EXCEPT !.keys = @ \ {t.id}]

\* What the relay says of a broadcast; no status and no hash: the answer is lost.
Answers == [status : {"CONFIRMED", "PENDING", "FAILED", Nothing}, hashed : BOOLEAN]

ConfirmsByHash(answer) == answer.hashed   \* variant: any transaction hash counts as confirmed

Confirms(answer) == answer.status \in {"CONFIRMED", Nothing} /\ answer.hashed

\* What has become of the broadcast when it is said: executed, dropped, or open.
Executed(answer) == answer.status = "CONFIRMED" \/ (answer.status = Nothing /\ answer.hashed)
Reports(answer) ==
    /\ chain' = IF Executed(answer) THEN Effect(inflight) ELSE chain
    /\ inflight' = IF Executed(answer) \/ answer.status = "FAILED" THEN Nothing ELSE inflight

RevokeAnswer ==
    /\ cli.pc = "sent"
    /\ \E answer \in Answers :
         /\ Reports(answer)
         /\ IF Confirms(answer)
            THEN /\ cli' = [cli EXCEPT !.pc = "record", !.journal.pending = Nothing,
                                       !.journal.done = @ \cup {cli.step}]
                 /\ UNCHANGED faults
            ELSE Fault /\ Goto("block")
    /\ UNCHANGED <<stores>>

\* The second save of the checkpoint; if it fails the phase is blocked too.
Record ==
    /\ cli.pc = "record"
    /\ SaveJournal(cli.session, cli.journal)
    /\ Advance(cli.journal)

RecordFails ==
    /\ cli.pc = "record" /\ Fault
    /\ Goto("block")
    /\ UNCHANGED <<stores, chain, inflight>>

Block ==
    /\ cli.pc = "block"
    /\ SaveJournal(cli.session, [cli.journal EXCEPT !.phase = "blocked"])
    /\ cli' = Idle

\* Nobody waits for it any more.
SettleSent ==
    /\ inflight # Nothing /\ cli.pc # "sent"
    /\ chain' \in {chain, Effect(inflight)}
    /\ inflight' = Nothing
    /\ UNCHANGED <<stores, cli, faults>>

-----------------------------------------------------------------------------
(* The rest of each command.                                                *)

\* The signer's key is kept before the grant is broadcast; a revocation
\* disables the session before its first transaction.
KeepSession ==
    /\ cli.pc \in {"keepKey", "disable"}
    /\ SaveSession(cli.session)
    /\ Goto("open")

Open ==
    /\ cli.pc = "open"
    /\ SaveJournal(cli.session, cli.journal)
    /\ Goto("intend")

KeepGrant ==
    /\ cli.pc = "keepGrant"
    /\ LET s == [cli.session EXCEPT !.known = TRUE]
       IN /\ SaveSession(s)
          /\ cli' = [cli EXCEPT !.pc = "intend", !.step = "approveChecker", !.session = s]

OnChainIfSent(a, step) == cli.journal.pending = step /\ cli.id = a   \* variant: trusts the journal

OnChain(a, step) == IF step = "approveChecker" THEN a \in chain.checkers ELSE chain.allowance

Look ==
    /\ cli.pc = "look" /\ cli.step \notin cli.journal.done
    /\ Goto(IF OnChain(cli.id, cli.step) THEN "reconcile" ELSE "intend")
    /\ UNCHANGED <<stores, chain, inflight, faults>>

Reconcile ==
    /\ cli.pc = "reconcile"
    /\ LET j == [cli.journal EXCEPT !.seen = @ \cup {cli.step}, !.pending = Nothing]
       IN SaveJournal(cli.session, j) /\ Advance(j)

Activate ==
    /\ cli.pc = "activate"
    /\ LET s == [cli.session EXCEPT !.status = "active"]
           j == [cli.journal EXCEPT !.phase = "complete", !.pending = Nothing]
       IN /\ SaveJournal(s, j)
          /\ cli' = [cli EXCEPT !.pc = "enable", !.session = s, !.journal = j]

Enable ==
    /\ cli.pc = "enable"
    /\ SaveSession(cli.session)
    /\ cli' = Idle

RetireSession ==
    /\ cli.pc = "retireSession"
    /\ LET s == [cli.session EXCEPT !.status = "revoked"]
       IN /\ SaveSession(s)
          /\ cli' = [cli EXCEPT !.pc = "retire", !.session = s,
                                !.journal.retired = TRUE, !.journal.deleted = FALSE]

Retire ==
    /\ cli.pc = "retire"
    /\ SaveJournal(cli.session, cli.journal)
    /\ CASE cli.journal.test = "rejected" -> Goto("delete")
         [] cli.journal.test = "unexpected" -> cli' = Idle
         [] OTHER -> Goto("test")

\* A transfer signed with the revoked key: the relay rejects an unknown key,
\* executes a known one, or gives no clear answer.
Tested(outcome) ==
    /\ cli.pc = "test"
    /\ cli' = [cli EXCEPT !.pc = "noteTest", !.journal.test = outcome,
                          !.journal.phase = IF outcome = "rejected" THEN "complete" ELSE "blocked"]
    /\ UNCHANGED <<stores, chain, inflight>>

NegativeTest ==
    \/ Tested(IF cli.id \in chain.keys THEN "unexpected" ELSE "rejected") /\ UNCHANGED faults
    \/ \E outcome \in {"inconclusive", "unexpected"} : Tested(outcome) /\ Fault

NoteTest ==
    /\ cli.pc = "noteTest"
    /\ SaveJournal(cli.session, cli.journal)
    /\ IF cli.journal.test = "rejected" THEN Goto("delete") ELSE cli' = Idle

DeleteKey ==
    /\ cli.pc = "delete"
    /\ SaveSession(NoSession)
    /\ Goto("certify")

Certify ==
    /\ cli.pc = "certify"
    /\ SaveJournal(cli.session, [cli.journal EXCEPT !.deleted = TRUE, !.phase = "complete"])
    /\ cli' = Idle

\* The process dies, or a save outside the checkpoint's try fails.
CommandStops == /\ cli # Idle /\ Fault
        /\ cli' = Idle
        /\ UNCHANGED <<stores, chain, inflight>>

CommandStep == \/ SkipDone \/ Intend \/ Send \/ RevokeAnswer \/ Record \/ RecordFails \/ Block
               \/ KeepSession \/ Open \/ KeepGrant \/ Look \/ Reconcile \/ Activate \/ Enable
               \/ RetireSession \/ Retire \/ NegativeTest \/ NoteTest \/ DeleteKey \/ Certify

LifecycleNext == \/ \E a \in Authority : Provision(a) \/ Resume(a) \/ Revoke(a) \/ FinishRevoked(a)
        \/ CommandStep \/ SettleSent \/ CommandStops

LifecycleSpec == LifecycleInit /\ [][LifecycleNext]_lifecycleVars

\* A running command goes on, a broadcast is decided, and the operator reruns
\* a revocation that failed, however often the lock is held by another command.
LifecycleFairness == /\ WF_lifecycleVars(CommandStep) /\ WF_lifecycleVars(SettleSent)
            /\ \A a \in Authority : SF_lifecycleVars(Revoke(a)) /\ SF_lifecycleVars(FinishRevoked(a))
FairLifecycleSpec == LifecycleSpec /\ LifecycleFairness
-----------------------------------------------------------------------------
(* Types and values of the state: each store holds records of its kind, and
   no unusual step, status or phase appears.                                *)
LifecycleTypeOK ==
    /\ sessions \in [Authority -> Session]
    /\ journals \in [Authority -> JournalState]
    /\ cli \in Command
    /\ chain \in [keys : SUBSET Authority, checkers : SUBSET Authority, allowance : BOOLEAN]
    /\ inflight \in [id : Authority, step : Steps] \cup {Nothing}
    /\ faults \in 0..MaxFaults

(* A session the hunter may pay with has its key and its signature checker
   on the chain, whichever crashes, lost answers and reconciliations led
   there: provisioning activates only after every step was confirmed or read
   from the chain.                                                          *)
UsableIsBacked == \A a \in Authority : Usable(a) => a \in chain.keys \cap chain.checkers

(* The key of a session that is, or may yet become, live on the chain is
   never lost: it is stored before the grant is broadcast and deleted only
   when the relay has rejected it.                                          *)
LiveKeyIsKept == \A a \in Authority :
    a \in chain.keys \/ inflight = [id |-> a, step |-> "grantSession"]
    => sessions[a] # NoSession

(* What the evidence certifies is so: after a rejected negative test neither
   the key nor its checker is on the chain, and nothing can bring them back. *)
CertificateIsTrue == \A a \in Authority :
    journals[a].test = "rejected" => /\ a \notin chain.keys \cup chain.checkers
                                     /\ inflight = Nothing \/ inflight.id # a

(* A revocation that has begun ends with the key deleted, if the operator
   reruns the command, unless a negative test returned a transaction: the
   code then refuses to test again.                                         *)
RevocationCompletes == \A a \in Authority :
    journals[a].op = "revoke" ~> journals[a].deleted \/ journals[a].test = "unexpected"
=============================================================================
