------------------------------ MODULE RunStore ------------------------------
(***************************************************************************)
(* The run tables of PostgreSQL (runs, run_events) and the statements      *)
(* PostgresCoordinationStore executes on them.  One action is one          *)
(* statement or one transaction: under READ COMMITTED an UPDATE evaluates  *)
(* its WHERE clause on the locked row, so each is atomic.                  *)
(*                                                                         *)
(* Writes present credentials, a worker and a fencing token.  This module  *)
(* lets any caller present any credentials; RunManager.tla says which ones *)
(* the replicas really present.                                            *)
(*                                                                         *)
(* lease_expires_at is kept as the time left until it: 0 means expired.    *)
(*                                                                         *)
(* A definition marked "variant" is a plausible mistake in the one that    *)
(* follows it.  No specification uses it; it documents which mistake each  *)
(* property rules out (README, "What each property would catch").          *)
(***************************************************************************)
EXTENDS Naturals, FiniteSets

CONSTANTS Mission,      \* the mission ids that may be admitted
          Worker,       \* the ownerId of each replica process
          NoOwner,      \* lease_owner IS NULL
          LeaseTicks,   \* leaseMs, in clock ticks
          ClaimLimit,   \* the LIMIT of claimRuns
          TraceLimit,   \* the durable trace limit (2000 in the code)
          MaxToken,     \* bound: no claim once the token has this value
          MaxEvents     \* bound: no append once this many events exist

ASSUME StoreAssumption ==
    /\ NoOwner \notin Worker
    /\ LeaseTicks \in Nat \ {0}
    /\ ClaimLimit \in Nat \ {0}
    /\ TraceLimit \in Nat \ {0}
    /\ MaxToken \in Nat
    /\ MaxEvents \in Nat

VARIABLES runs,         \* the rows of table runs, by mission id
          runEvents     \* the rows of table run_events

storeVars == <<runs, runEvents>>

Terminal == {"completed", "failed", "cancelled"}
Status == {"absent", "created", "running"} \cup Terminal

\* author stands for the payload written: the token of the claim under which
\* the caller computed it, 0 for the operator's recovery command.
RunRow == [status : Status, cancelRequested : BOOLEAN,
           leaseOwner : Worker \cup {NoOwner}, leaseLeft : 0..LeaseTicks,
           token : Nat, nextSequence : Nat \ {0}, author : Nat]

EventRow == [mission : Mission, sequence : Nat \ {0}, token : Nat \ {0}, author : Nat]

AbsentRow == [status |-> "absent", cancelRequested |-> FALSE,
              leaseOwner |-> NoOwner, leaseLeft |-> 0,
              token |-> 0, nextSequence |-> 1, author |-> 0]

StoreInit == /\ runs = [m \in Mission |-> AbsentRow]
             /\ runEvents = {}

-----------------------------------------------------------------------------
(* What the WHERE clauses say.                                              *)

ClaimableOnce(m) == runs[m].status = "created"   \* variant: no takeover

Claimable(m) == \/ runs[m].status = "created"
                \/ runs[m].status = "running" /\ runs[m].leaseLeft = 0

HoldsLeaseAsOwner(m, w, t) == /\ runs[m].status = "running"   \* variant: token ignored
                              /\ runs[m].leaseOwner = w
                              /\ runs[m].leaseLeft > 0

\* The row is running under exactly these credentials, on an unexpired lease.
HoldsLease(m, w, t) == /\ runs[m].status = "running"
                       /\ runs[m].leaseOwner = w
                       /\ runs[m].token = t
                       /\ runs[m].leaseLeft > 0

MayWriteCancelled(m, w, t) == HoldsLease(m, w, t)   \* variant: cancellation ignored

MayWrite(m, w, t) == HoldsLease(m, w, t) /\ ~runs[m].cancelRequested

MayFinish(m, w, t, outcome) ==
    HoldsLease(m, w, t) /\ (~runs[m].cancelRequested \/ outcome = "cancelled")

EventsOf(m) == {e \in runEvents : e.mission = m}

-----------------------------------------------------------------------------
(* The statements.                                                          *)

\* The transaction that admits a run under a fresh idempotency key.  A key
\* that is known already is only read, so it is no action.
AdmitRun(m) ==
    /\ runs[m].status = "absent"
    /\ runs' = [runs EXCEPT ![m].status = "created"]
    /\ UNCHANGED runEvents

ClaimedRowSameToken(m, w) == [runs[m] EXCEPT !.status = "running",   \* variant: no new epoch
                                             !.leaseOwner = w,
                                             !.leaseLeft = LeaseTicks]

ClaimedRow(m, w) == [runs[m] EXCEPT !.status = "running",
                                    !.leaseOwner = w,
                                    !.leaseLeft = LeaseTicks,
                                    !.token = @ + 1]

\* One statement claims every row of S: claimRuns skips rows others have
\* locked, so S is any set of claimable rows; claimRun is the case S = {m}.
ClaimRuns(S, w) ==
    /\ S # {}
    /\ Cardinality(S) <= ClaimLimit
    /\ \A m \in S : Claimable(m) /\ runs[m].token < MaxToken
    /\ runs' = [m \in Mission |-> IF m \in S THEN ClaimedRow(m, w) ELSE runs[m]]
    /\ UNCHANGED runEvents

RenewRunLease(m, w, t) ==
    /\ MayWrite(m, w, t)
    /\ runs' = [runs EXCEPT ![m].leaseLeft = LeaseTicks]
    /\ UNCHANGED runEvents

AppendRunEvent(m, w, t, author) ==
    /\ MayWrite(m, w, t)
    /\ runs[m].nextSequence <= MaxEvents
    /\ runs' = [runs EXCEPT ![m].nextSequence = @ + 1]
    /\ runEvents' = runEvents \cup {[mission |-> m, sequence |-> runs[m].nextSequence,
                                     token |-> t, author |-> author]}

FinishedRow(m, outcome, author) == [runs[m] EXCEPT !.status = outcome,
                                                   !.author = author,
                                                   !.leaseOwner = NoOwner,
                                                   !.leaseLeft = 0]

FinishRun(m, w, t, outcome, author) ==
    /\ MayFinish(m, w, t, outcome)
    /\ runs' = [runs EXCEPT ![m] = FinishedRow(m, outcome, author)]
    /\ UNCHANGED runEvents

RequestRunCancellation(m) ==
    /\ runs[m].status \in {"created", "running"}
    /\ runs' = [runs EXCEPT ![m].cancelRequested = TRUE]
    /\ UNCHANGED runEvents

\* The operator's repair of a failed run from a delivery that was paid for:
\* n recovery events and the result, in one transaction.
RecoveryTokenOne(m) == 1   \* variant: recovery events of epoch 1

RecoveryToken(m) == IF runs[m].token > 0 THEN runs[m].token ELSE 1

RecoveredRow(m, n) == [FinishedRow(m, "completed", 0) EXCEPT
                          !.nextSequence = @ + n, !.token = RecoveryToken(m)]

RecoveryEvents(m, n) ==
    {[mission |-> m, sequence |-> s, token |-> RecoveryToken(m), author |-> 0] :
        s \in runs[m].nextSequence..(runs[m].nextSequence + n - 1)}

CompleteRecovered(m, n) ==
    /\ runs[m].status = "failed"
    /\ Cardinality(EventsOf(m)) + n <= TraceLimit
    /\ runs' = [runs EXCEPT ![m] = RecoveredRow(m, n)]
    /\ runEvents' = runEvents \cup RecoveryEvents(m, n)

\* The database clock, the same for every row.
ClockTick ==
    /\ \E m \in Mission : runs[m].leaseLeft > 0
    /\ runs' = [m \in Mission |->
                  [runs[m] EXCEPT !.leaseLeft = IF @ > 0 THEN @ - 1 ELSE 0]]
    /\ UNCHANGED runEvents

StoreNext ==
    \/ \E m \in Mission : AdmitRun(m) \/ RequestRunCancellation(m)
    \/ \E S \in SUBSET Mission, w \in Worker : ClaimRuns(S, w)
    \/ \E m \in Mission, w \in Worker, t \in 1..MaxToken :
          \/ RenewRunLease(m, w, t)
          \/ \E author \in 0..MaxToken : AppendRunEvent(m, w, t, author)
          \/ \E author \in 0..MaxToken, outcome \in Terminal :
                FinishRun(m, w, t, outcome, author)
    \/ \E m \in Mission, n \in 0..TraceLimit : CompleteRecovered(m, n)
    \/ ClockTick

StoreSpec == StoreInit /\ [][StoreNext]_storeVars

-----------------------------------------------------------------------------
(* Properties.                                                              *)

StoreTypeOK == /\ runs \in [Mission -> RunRow]
               /\ runEvents \subseteq EventRow

\* The replay cursor.  The rows of run_events are numbered 1, 2, ... up to the
\* counter in runs, without a gap and without two rows of one number, whatever
\* takeovers and recoveries wrote them: a reader that resumes after sequence n
\* misses nothing and reads nothing twice (listRunEvents, streamRun).
LogIsDense ==
    \A m \in Mission :
        /\ {e.sequence : e \in EventsOf(m)} = 1..(runs[m].nextSequence - 1)
        /\ \A e, f \in EventsOf(m) : e.sequence = f.sequence => e = f

\* No write of an older lease epoch is ever placed after one of a newer epoch,
\* and none carries an epoch that was not handed out.
EpochsInOrder ==
    /\ \A e, f \in runEvents :
          e.mission = f.mission /\ e.sequence < f.sequence => e.token <= f.token
    /\ \A e \in runEvents : e.token <= runs[e.mission].token

\* A run is leased exactly while it is running: the CHECK constraints of the
\* table, plus what claimRuns relies on (a running row always has a lease that
\* can expire, so a run cannot be stranded).
LeasedIffRunning ==
    \A m \in Mission :
        /\ runs[m].leaseOwner # NoOwner <=> runs[m].status = "running"
        /\ runs[m].leaseLeft > 0 => runs[m].status = "running"
        /\ runs[m].status = "running" => runs[m].token > 0

\* A run whose cancellation was requested while it was live never ends as
\* completed or failed: the request survives takeovers and races with finish.
CancellationWins ==
    \A m \in Mission :
        runs[m].cancelRequested => runs[m].status \notin {"completed", "failed"}

\* A terminal row changes only once more, when recovery completes a failed
\* run, and events are never rewritten or removed.
HistoryStays ==
    /\ runEvents \subseteq runEvents'
    /\ \A m \in Mission :
          runs[m].status \in Terminal /\ runs'[m] # runs[m]
             => runs[m].status = "failed" /\ runs'[m].status = "completed"

\* Each step obeys HistoryStays, above.
HistoryIsFinal == [][HistoryStays]_storeVars

\* The tables keep the promise of RunContract.tla: the log of a run is the
\* tokens of its rows in sequence order, its epoch the fencing token.
LogOf(m) == [s \in 1..(runs[m].nextSequence - 1) |->
               (CHOOSE e \in EventsOf(m) : e.sequence = s).token]

Contract == INSTANCE RunContract WITH
    MaxRepair <- TraceLimit,
    log <- [m \in Mission |-> LogOf(m)],
    epoch <- [m \in Mission |-> runs[m].token],
    ending <- [m \in Mission |->
                 IF runs[m].status \in Terminal THEN runs[m].status ELSE "none"]

KeepsContract == Contract!ContractSpec

\* Once a cancellation is recorded no event is added to the run, by a replica
\* or by recovery.
NothingAdded == \A e \in runEvents' \ runEvents : ~runs[e.mission].cancelRequested

\* Each step obeys NothingAdded, above.
SilentAfterCancel == [][NothingAdded]_storeVars
=============================================================================
