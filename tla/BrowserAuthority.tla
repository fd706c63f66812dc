-------------------------- MODULE BrowserAuthority --------------------------
(***************************************************************************)
(* An authority managed from the browser: the passkey wallet in the page   *)
(* sends every transaction (use-browser-authority.ts), the server decides  *)
(* which may be sent next and what its receipt proves                      *)
(* (browser-authority.ts).  The page may be reloaded, or be open twice, at *)
(* any point between begin, the transaction and confirm.                   *)
(*                                                                         *)
(* The handlers run under the lifecycle lock, so each is one step; a crash *)
(* of the server between the two saves of one is a step of its own.  One   *)
(* authority.  External: the wallet's relay, which mines or drops what it  *)
(* was sent in any order, and the account contract.                        *)
(***************************************************************************)
EXTENDS Naturals, Sequences

CONSTANTS Tabs,      \* open pages that hold the access token
          MaxSent,   \* bound on transactions sent
          MaxHalts   \* bound on server crashes between two saves

ASSUME BrowserAssumption == MaxSent \in Nat /\ MaxHalts \in Nat

VARIABLES
  record,    \* the encrypted session record
  evidence,  \* the public evidence with its lifecycle
  tab,       \* what each page is doing
  sent,      \* transactions sent: [step, state]
  account,   \* the wallet on the chain
  halts

browserVars == <<record, evidence, tab, sent, account, halts>>

GrantSteps  == <<"grantSession", "approveChecker", "approveAllowance">>
RevokeSteps == <<"revokeChecker", "revokeAllowance", "revokeSession">>
Before(steps, s) == {steps[i] : i \in {j \in 1..3 : \E k \in 1..3 : j < k /\ steps[k] = s}}
Grants  == {GrantSteps[i] : i \in 1..3}
Revokes == {RevokeSteps[i] : i \in 1..3}
BrowserSteps == Grants \cup Revokes

TxId == 1..MaxSent
NoTx == 0

RecordState ==
  [ status : {"none", "invalid", "active", "revoked", "deleted"}, granted : BOOLEAN ]
EvidenceState ==
  [ status  : {"none", "invalid", "active", "revoked"},
    op      : {"provision", "revoke"},
    phase   : {"in-progress", "blocked", "complete"},
    pending : BrowserSteps \cup {"none"},
    hashes  : [BrowserSteps -> TxId \cup {NoTx}] ]

NoHashes == [s \in BrowserSteps |-> NoTx]
ClosedTab == [at |-> "closed", step |-> "none", tx |-> NoTx]

BrowserInit ==
  /\ record = [status |-> "none", granted |-> FALSE]
  /\ evidence = [status |-> "none", op |-> "provision", phase |-> "in-progress",
                 pending |-> "none", hashes |-> NoHashes]
  /\ tab = [t \in Tabs |-> ClosedTab]
  /\ sent = <<>>
  /\ account = [key |-> FALSE, checker |-> FALSE, allowance |-> FALSE]
  /\ halts = 0

Done(e, s) == e.hashes[s] # NoTx

\* loadActiveAltanaAuthority: both stores agree that the provision completed.
BrowserUsable ==
  /\ record.status = "active"
  /\ evidence.status = "active" /\ evidence.op = "provision" /\ evidence.phase = "complete"

Halt == halts < MaxHalts /\ halts' = halts + 1

\* A handler saves the record and the evidence, or dies after the first save.
Saves(r, e, firstIsRecord) ==
  \/ record' = r /\ evidence' = e /\ UNCHANGED halts
  \/ /\ Halt
     /\ IF firstIsRecord THEN record' = r /\ UNCHANGED evidence
                         ELSE evidence' = e /\ UNCHANGED record

(***************************************************************************)
(* The server's handlers                                                   *)
(***************************************************************************)
Prepare ==
  /\ record.status = "none"
  /\ Saves([record EXCEPT !.status = "invalid"], [evidence EXCEPT !.status = "invalid"], TRUE)
  /\ UNCHANGED <<tab, sent, account>>

\* A first revoking step opens a new lifecycle: no hash, nothing pending.
BeginAllowed(r, e, s) ==
  /\ s \in Revokes /\ e.op # "revoke" => r.granted
  /\ r.status # "revoked"
  /\ ~(s \in Grants /\ e.op = "revoke")
  /\ LET fresh == s \in Revokes /\ e.op # "revoke"
         steps == IF s \in Revokes THEN RevokeSteps ELSE GrantSteps
     IN /\ \A p \in Before(steps, s) : ~fresh /\ Done(e, p)
        /\ ~fresh => ~Done(e, s) /\ e.pending = "none"

Disabled(r) == [r EXCEPT !.status = "invalid"]

BeginStep(t, s) ==
  /\ tab[t].at = "open"
  /\ record.status \notin {"none", "deleted"} /\ evidence.status # "none"
  /\ BeginAllowed(record, evidence, s)
  /\ IF s \in Revokes /\ evidence.op # "revoke"
     THEN Saves(Disabled(record),
                [evidence EXCEPT !.status = Disabled(record).status, !.op = "revoke",
                   !.phase = "in-progress", !.pending = s, !.hashes = NoHashes],
                TRUE)
     ELSE /\ evidence' = [evidence EXCEPT !.pending = s, !.phase = "in-progress"]
          /\ UNCHANGED <<record, halts>>
  /\ tab' = IF halts' = halts THEN [tab EXCEPT ![t] = [at |-> "begun", step |-> s, tx |-> NoTx]]
            ELSE tab
  /\ UNCHANGED <<sent, account>>

\* A revoking step out of turn is refused, after the record was disabled for it.
BeginOutOfTurn(t, s) ==
  /\ tab[t].at = "open"
  /\ record.status \notin {"none", "deleted", "revoked"} /\ record.granted
  /\ evidence.op # "revoke" /\ s \in Revokes /\ Before(RevokeSteps, s) # {}
  /\ record' = Disabled(record)
  /\ UNCHANGED <<evidence, tab, sent, account, halts>>

\* The wallet's state the step must have left behind.
Holds(s) ==
  CASE s = "grantSession"     -> account.key
    [] s = "approveChecker"   -> account.checker
    [] s = "approveAllowance" -> account.key /\ account.checker /\ account.allowance
    [] s = "revokeChecker"    -> ~account.checker
    [] s = "revokeAllowance"  -> ~account.allowance
    [] s = "revokeSession"    -> ~account.key

ProvesByHash(tx, s) ==           \* variant: the hash is believed, no receipt is read
  sent[tx].step = s /\ \A p \in BrowserSteps : evidence.hashes[p] # tx

Proves(tx, s) ==
  /\ sent[tx].state = "mined" /\ sent[tx].step = s
  /\ \A p \in BrowserSteps : evidence.hashes[p] # tx
  /\ Holds(s)

\* Any page may confirm, with any hash its user supplies.
Confirm(t, tx) ==
  LET s == evidence.pending
      r == [record EXCEPT !.granted = @ \/ s \in {"grantSession", "approveAllowance"},
                          !.status = IF s = "approveAllowance" THEN "active" ELSE @]
  IN /\ tab[t].at \in {"open", "sent"}
     /\ record.status \notin {"none", "deleted"}
     /\ s # "none" /\ tx \in DOMAIN sent /\ Proves(tx, s)
     /\ Saves(r, [evidence EXCEPT !.hashes[s] = tx, !.pending = "none", !.status = r.status,
                    !.phase = IF s = "approveAllowance" THEN "complete" ELSE @], FALSE)
     /\ tab' = [tab EXCEPT ![t] = [@ EXCEPT !.at = "open", !.tx = NoTx]]
     /\ UNCHANGED <<sent, account>>

RevokedInPart == \E s \in Revokes : Done(evidence, s)   \* variant: one step of the three
FullyRevoked == \A s \in Revokes : Done(evidence, s)

\* revokeAuthority without a step left to send: both stores are told the
\* authority is revoked, the dead key is tried, and only a rejection deletes it.
FinishRevoke(outcome) ==
  /\ record.status \notin {"none", "deleted"}
  /\ FullyRevoked
  /\ record' = [record EXCEPT !.status = IF outcome = "rejected" THEN "deleted" ELSE "revoked"]
  /\ evidence' = [evidence EXCEPT !.status = "revoked",
                    !.phase = CASE outcome = "rejected"     -> "complete"
                                [] outcome = "inconclusive" -> "blocked"
                                [] outcome = "died"         -> @]
  /\ IF outcome = "died" THEN Halt ELSE UNCHANGED halts
  /\ UNCHANGED <<tab, sent, account>>

(***************************************************************************)
(* The page                                                                *)
(***************************************************************************)
OpenPage(t) ==
  /\ tab[t].at # "open"
  /\ tab' = [tab EXCEPT ![t] = [at |-> "open", step |-> "none", tx |-> NoTx]]
  /\ UNCHANGED <<record, evidence, sent, account, halts>>

\* The wallet is asked for the transaction of the step that was begun.
SendTx(t) ==
  /\ tab[t].at = "begun" /\ Len(sent) < MaxSent
  /\ sent' = Append(sent, [step |-> tab[t].step, state |-> "pending"])
  /\ tab' = [tab EXCEPT ![t].at = "sent", ![t].tx = Len(sent) + 1]
  /\ UNCHANGED <<record, evidence, account, halts>>

(***************************************************************************)
(* The chain                                                               *)
(***************************************************************************)
\* An operation on a key the account does not hold reverts.
Reverts(s) == s \notin {"grantSession", "approveAllowance", "revokeAllowance"} /\ ~account.key

After(s) ==
  CASE s = "grantSession"     -> [account EXCEPT !.key = TRUE]
    [] s = "approveChecker"   -> [account EXCEPT !.checker = TRUE]
    [] s = "approveAllowance" -> [account EXCEPT !.allowance = TRUE]
    [] s = "revokeChecker"    -> [account EXCEPT !.checker = FALSE]
    [] s = "revokeAllowance"  -> [account EXCEPT !.allowance = FALSE]
    [] s = "revokeSession"    -> [account EXCEPT !.key = FALSE]

MineTx(i) ==
  /\ sent[i].state = "pending"
  /\ IF Reverts(sent[i].step)
     THEN sent' = [sent EXCEPT ![i].state = "dropped"] /\ UNCHANGED account
     ELSE sent' = [sent EXCEPT ![i].state = "mined"] /\ account' = After(sent[i].step)
  /\ UNCHANGED <<record, evidence, tab, halts>>

DropTx(i) ==
  /\ sent[i].state = "pending"
  /\ sent' = [sent EXCEPT ![i].state = "dropped"]
  /\ UNCHANGED <<record, evidence, tab, account, halts>>

BrowserNext ==
  \/ Prepare
  \/ \E t \in Tabs :
       \/ OpenPage(t) \/ SendTx(t)
       \/ \E s \in BrowserSteps : BeginStep(t, s) \/ BeginOutOfTurn(t, s)
       \/ \E tx \in DOMAIN sent : Confirm(t, tx)
  \/ \E outcome \in {"rejected", "inconclusive", "died"} : FinishRevoke(outcome)
  \/ \E i \in DOMAIN sent : MineTx(i) \/ DropTx(i)

BrowserSpec == BrowserInit /\ [][BrowserNext]_browserVars

(***************************************************************************)
(* Properties                                                              *)
(***************************************************************************)
\* An authority the server would sign payments with has its key, its checker
\* and its allowance on the chain: whatever pages, late transactions and
\* crashes do, the app sends nothing that takes one of them away before both
\* stores have stopped calling the authority active.
UsableWhileBacked ==
  BrowserUsable => account.key /\ account.checker /\ account.allowance

\* Once the revocation is certified (the key material is deleted) the session
\* key is dead on the chain and stays dead: no late grant can revive it.
CertifiedKeyIsDead == record.status = "deleted" => ~account.key
=============================================================================
