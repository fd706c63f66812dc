----------------------------- MODULE RunManager -----------------------------
(***************************************************************************)
(* The hunter replicas: HunterRunManager over PostgresHunterRunStore.      *)
(*                                                                         *)
(* A replica that claims a run keeps a lifecycle for it: the execution,    *)
(* the promise chain of its durable writes (event appends and lease        *)
(* heartbeats), the terminal write and the mission projection.  Every      *)
(* await is a step of its own, so replicas interleave between the read     *)
(* and the write of PostgresHunterRunStore.update.  A replica may stall    *)
(* past its lease, crash, drain, or lose the reply of the database.        *)
(*                                                                         *)
(* A Worker is one process incarnation: a restart draws a new ownerId.     *)
(* Definitions marked "variant" are as in RunStore.tla.                    *)
(***************************************************************************)
EXTENDS RunStore

CONSTANT MaxFaults      \* bound: crashes, shutdowns, lost replies and lease
                        \* expiries under an active replica, together

ASSUME ManagerAssumption == MaxFaults \in Nat

VARIABLES process,      \* process[w]: "up", "draining" after SIGTERM, "down"
          admitting,    \* submissions between the admission and its claim
          granted,      \* granted[w][m]: token of a claim whose reply is under way, or 0
          life,         \* life[w][m]: the entry of w's active map for m
          missions,     \* the mission projection, last writer wins
          recovering,   \* missions whose recovery command is between its two writes
          faults        \* faults so far

managerVars == <<process, admitting, granted, life, missions, recovering, faults>>
vars == <<runs, runEvents, managerVars>>

\* executing: execute() runs and the write chain is idle
\* appending: an update has read the run and is about to append
\* returned, threw: execute() is over and the chain has drained
\* finishing: an update has read the run and is about to write the outcome
\* finished: the terminal record is about to be read back
\* projecting: onTerminal is about to save the mission
Phase == {"off", "executing", "appending", "returned", "threw", "finishing",
          "finished", "projecting"}

\* token is the one this lifecycle claimed; lost is persistenceFailure; cred
\* holds the credentials the last update read; outcome its next.status.
Lifecycle == [phase : Phase, token : Nat, lost : BOOLEAN, aborted : BOOLEAN,
              cred : [owner : Worker \cup {NoOwner}, token : Nat],
              outcome : Terminal \cup {"none"}]

NoCred == [owner |-> NoOwner, token |-> 0]

Off == [phase |-> "off", token |-> 0, lost |-> FALSE, aborted |-> FALSE,
        cred |-> NoCred, outcome |-> "none"]

ManagerInit == /\ StoreInit
               /\ process = [w \in Worker |-> "up"]
               /\ admitting = {}
               /\ granted = [w \in Worker |-> [m \in Mission |-> 0]]
               /\ life = [w \in Worker |-> [m \in Mission |-> Off]]
               /\ missions = [m \in Mission |-> "none"]
               /\ recovering = {}
               /\ faults = 0

-----------------------------------------------------------------------------
Active(w, m) == life[w][m].phase # "off"

SetLife(w, m, entry) == life' = [life EXCEPT ![w][m] = entry]

\* controller.abort: heard only while execute() is under way.
Aborted(l) == [l EXCEPT !.aborted = @ \/ l.phase \in {"executing", "appending"}]

\* persistenceFailure is set and the controller aborted.
Broken(l) == [Aborted(l) EXCEPT !.lost = TRUE]

\* What PostgresHunterRunStore.update takes for its writes: the owner and the
\* token in the row it has just read, whoever the caller is.
CurrentCred(m) == [owner |-> runs[m].leaseOwner, token |-> runs[m].token]

Fault == /\ faults < MaxFaults
         /\ faults' = faults + 1

-----------------------------------------------------------------------------
(* Admission, claims and the processes.                                     *)

Submit(w, m) ==
    /\ process[w] = "up"
    /\ AdmitRun(m)
    /\ admitting' = admitting \cup {<<w, m>>}
    /\ UNCHANGED <<process, granted, life, missions, recovering, faults>>

\* The second statement of admit; when a poll was faster the admission is
\* answered as a replay.
ClaimAdmitted(w, m) ==
    /\ <<w, m>> \in admitting
    /\ granted[w][m] = 0
    /\ admitting' = admitting \ {<<w, m>>}
    /\ \/ /\ ClaimRuns({m}, w)
          /\ granted' = [granted EXCEPT ![w][m] = runs[m].token + 1]
       \/ /\ ~Claimable(m)
          /\ UNCHANGED <<storeVars, granted>>
    /\ UNCHANGED <<process, life, missions, recovering, faults>>

\* The recovery poll.  It asks for whatever is claimable, runs this process
\* is still executing under an expired lease included.
PollClaim(w, S) ==
    /\ process[w] = "up"
    /\ \A m \in S : granted[w][m] = 0
    /\ ClaimRuns(S, w)
    /\ granted' = [granted EXCEPT ![w] =
                     [m \in Mission |-> IF m \in S THEN runs[m].token + 1 ELSE @[m]]]
    /\ UNCHANGED <<process, admitting, life, missions, recovering, faults>>

\* The claim's reply arrives.  A run that is active here is not started again:
\* its old lifecycle, with its old token, goes on.
Start(w, m) ==
    /\ granted[w][m] # 0
    /\ granted' = [granted EXCEPT ![w][m] = 0]
    /\ \/ Active(w, m) /\ UNCHANGED life
       \/ /\ ~Active(w, m)
          /\ SetLife(w, m, [Off EXCEPT !.phase = "executing", !.token = granted[w][m]])
    /\ UNCHANGED <<storeVars, process, admitting, missions, recovering, faults>>

\* The claim committed but its reply, or the reads that map it, failed.
GrantLost(w, m) ==
    /\ Fault
    /\ granted[w][m] # 0
    /\ granted' = [granted EXCEPT ![w][m] = 0]
    /\ UNCHANGED <<storeVars, process, admitting, life, missions, recovering>>

OtherIsUp(w) == \E v \in Worker \ {w} : process[v] = "up"

Halt(w) ==
    /\ process' = [process EXCEPT ![w] = "down"]
    /\ admitting' = {a \in admitting : a[1] # w}
    /\ granted' = [granted EXCEPT ![w] = [m \in Mission |-> 0]]
    /\ life' = [life EXCEPT ![w] = [m \in Mission |-> Off]]
    /\ UNCHANGED <<storeVars, missions, recovering>>

Crash(w) == Fault /\ process[w] = "up" /\ OtherIsUp(w) /\ Halt(w)

\* SIGTERM: no further poll or request, and every active controller is aborted.
Shutdown(w) ==
    /\ Fault
    /\ process[w] = "up"
    /\ OtherIsUp(w)
    /\ process' = [process EXCEPT ![w] = "draining"]
    /\ life' = [life EXCEPT ![w] =
                  [m \in Mission |-> Aborted(life[w][m])]]
    /\ UNCHANGED <<storeVars, admitting, granted, missions, recovering>>

Exit(w) == process[w] = "draining" /\ Halt(w) /\ UNCHANGED faults

-----------------------------------------------------------------------------
(* The lifecycle: writes while the execution runs.                          *)

HeartbeatDeaf(w, m) ==   \* variant: a refused renewal is ignored
    LET l == life[w][m] IN
    /\ l.phase \notin {"off", "appending"}
    /\ RenewRunLease(m, w, l.token)
    /\ UNCHANGED <<process, admitting, granted, life, missions, recovering, faults>>

\* A heartbeat queued on the write chain: renewal under the claimed token.
Heartbeat(w, m) ==
    LET l == life[w][m] IN
    /\ l.phase \notin {"off", "appending"}
    /\ ~l.lost
    /\ \/ RenewRunLease(m, w, l.token) /\ UNCHANGED life
       \/ /\ ~MayWrite(m, w, l.token)
          /\ SetLife(w, m, Broken(l))
          /\ UNCHANGED storeVars
    /\ UNCHANGED <<process, admitting, granted, missions, recovering, faults>>

\* onEvent: the update reads the run.  Of a run that is over the callback
\* returns the record unchanged, which writes nothing.
BeginAppend(w, m) ==
    LET l == life[w][m] IN
    /\ l.phase = "executing"
    /\ ~l.lost
    /\ runs[m].status = "running"
    /\ \/ /\ runs[m].nextSequence - 1 < TraceLimit
          /\ SetLife(w, m, [l EXCEPT !.phase = "appending", !.cred = CurrentCred(m)])
       \/ /\ runs[m].nextSequence - 1 >= TraceLimit
          /\ SetLife(w, m, Broken(l))
    /\ UNCHANGED <<storeVars, process, admitting, granted, missions, recovering, faults>>

Appended(l) == [l EXCEPT !.phase = "executing", !.cred = NoCred]

CommitAppend(w, m) ==
    LET l == life[w][m] IN
    /\ l.phase = "appending"
    /\ \/ /\ AppendRunEvent(m, l.cred.owner, l.cred.token, l.token)
          /\ SetLife(w, m, Appended(l))
          /\ UNCHANGED faults
       \/ /\ AppendRunEvent(m, l.cred.owner, l.cred.token, l.token)   \* reply lost
          /\ SetLife(w, m, Broken(Appended(l)))
          /\ Fault
       \/ /\ ~MayWrite(m, l.cred.owner, l.cred.token)
          /\ SetLife(w, m, Broken(Appended(l)))
          /\ UNCHANGED <<storeVars, faults>>
    /\ UNCHANGED <<process, admitting, granted, missions, recovering>>

\* execute() resolves, or throws, and the chain has drained.  Success with a
\* persistence failure is turned into a throw.
ExecuteReturns(w, m) ==
    LET l == life[w][m] IN
    /\ l.phase = "executing"
    /\ SetLife(w, m, [l EXCEPT !.phase = IF l.lost THEN "threw" ELSE "returned",
                               !.aborted = FALSE])
    /\ UNCHANGED <<storeVars, process, admitting, granted, missions, recovering, faults>>

ExecuteThrows(w, m) ==
    LET l == life[w][m] IN
    /\ l.phase = "executing"
    /\ SetLife(w, m, [l EXCEPT !.phase = "threw", !.aborted = FALSE])
    /\ UNCHANGED <<storeVars, process, admitting, granted, missions, recovering, faults>>

-----------------------------------------------------------------------------
(* The lifecycle: the outcome.                                              *)

Outcome(l, m) == CASE l.phase = "returned"    -> "completed"
                   [] runs[m].cancelRequested -> "cancelled"
                   [] OTHER                   -> "failed"

\* The terminal update reads the run.  Of a run that is over nothing is written.
BeginFinish(w, m) ==
    LET l == life[w][m] IN
    /\ l.phase \in {"returned", "threw"}
    /\ \/ /\ runs[m].status = "running"
          /\ SetLife(w, m, [l EXCEPT !.phase = "finishing", !.cred = CurrentCred(m),
                                     !.outcome = Outcome(l, m)])
       \/ /\ runs[m].status \in Terminal
          /\ SetLife(w, m, [l EXCEPT !.phase = "finished", !.outcome = Outcome(l, m)])
    /\ UNCHANGED <<storeVars, process, admitting, granted, missions, recovering, faults>>

\* A refused completion is caught and becomes the failure update; a refused
\* failure update ends the lifecycle and leaves the run to its lease.
AfterRefusal(l) == IF l.outcome = "completed"
                   THEN [l EXCEPT !.phase = "threw", !.cred = NoCred, !.outcome = "none"]
                   ELSE Off

CommitFinish(w, m) ==
    LET l == life[w][m] IN
    /\ l.phase = "finishing"
    /\ \/ /\ FinishRun(m, l.cred.owner, l.cred.token, l.outcome, l.token)
          /\ SetLife(w, m, [l EXCEPT !.phase = "finished", !.cred = NoCred])
          /\ UNCHANGED faults
       \/ /\ FinishRun(m, l.cred.owner, l.cred.token, l.outcome, l.token)   \* reply lost
          /\ SetLife(w, m, AfterRefusal(l))
          /\ Fault
       \/ /\ ~MayFinish(m, l.cred.owner, l.cred.token, l.outcome)
          /\ SetLife(w, m, AfterRefusal(l))
          /\ UNCHANGED <<storeVars, faults>>
    /\ UNCHANGED <<process, admitting, granted, missions, recovering>>

ReadBackNothing(w, m) ==   \* variant: update returns what it meant to write
    LET l == life[w][m] IN
    /\ l.phase = "finished"
    /\ SetLife(w, m, [l EXCEPT !.phase = "projecting"])
    /\ UNCHANGED <<storeVars, process, admitting, granted, missions, recovering, faults>>

\* update returns the row as it is now.
ReadBack(w, m) ==
    LET l == life[w][m] IN
    /\ l.phase = "finished"
    /\ SetLife(w, m, [l EXCEPT !.phase = "projecting", !.outcome = runs[m].status])
    /\ UNCHANGED <<storeVars, process, admitting, granted, missions, recovering, faults>>

\* onTerminal saves the mission; an error of its store is logged and swallowed.
\* A cancelled run is saved as failed with the code RUN_CANCELLED, which the
\* recovery command does not accept: "cancelled" stands for that.
Project(w, m) ==
    LET l == life[w][m] IN
    /\ l.phase = "projecting"
    /\ SetLife(w, m, Off)
    /\ \/ missions' = [missions EXCEPT ![m] = l.outcome] /\ UNCHANGED faults
       \/ Fault /\ UNCHANGED missions
    /\ UNCHANGED <<storeVars, process, admitting, granted, recovering>>

\* The database is unreachable for one statement of the lifecycle, which did
\* not take effect.
StoreError(w, m) ==
    LET l == life[w][m] IN
    /\ Fault
    /\ \/ /\ l.phase = "appending"
          /\ SetLife(w, m, Broken(Appended(l)))
       \/ /\ l.phase = "executing"
          /\ ~l.lost
          /\ SetLife(w, m, Broken(l))
       \/ /\ l.phase = "returned"
          /\ SetLife(w, m, [l EXCEPT !.phase = "threw", !.aborted = FALSE])
       \/ /\ l.phase \in {"finishing", "finished"}
          /\ SetLife(w, m, AfterRefusal(l))
       \/ /\ l.phase = "threw"
          /\ SetLife(w, m, Off)
    /\ UNCHANGED <<storeVars, process, admitting, granted, missions, recovering>>

-----------------------------------------------------------------------------
(* Cancellation, recovery and time.                                         *)

CancelAnyRun(w, m) ==   \* variant: the flag is set on runs that are over
    /\ process[w] = "up"
    /\ runs[m].status # "absent"
    /\ runs' = [runs EXCEPT ![m].cancelRequested = TRUE]
    /\ SetLife(w, m, Aborted(life[w][m]))
    /\ UNCHANGED <<runEvents, process, admitting, granted, missions, recovering, faults>>

\* A cancel request served by w.  The status it checks first was read before,
\* so a run that is over by now is left as it is; the controller is aborted
\* when the run is active here.
Cancel(w, m) ==
    /\ process[w] = "up"
    /\ runs[m].status # "absent"
    /\ \/ RequestRunCancellation(m)
       \/ runs[m].status \in Terminal /\ UNCHANGED storeVars
    /\ SetLife(w, m, Aborted(life[w][m]))
    /\ UNCHANGED <<process, admitting, granted, missions, recovering, faults>>

\* The recovery command rewrites a failed mission, then the run.
RecoverMission(m) ==
    /\ missions[m] = "failed"
    /\ m \notin recovering
    /\ missions' = [missions EXCEPT ![m] = "recovered"]
    /\ recovering' = recovering \cup {m}
    /\ UNCHANGED <<storeVars, process, admitting, granted, life, faults>>

\* The run's half, by the command itself or by a rerun that finds the mission
\* recovered.  A run that is not failed refuses it.
RecoverRun(m) ==
    /\ m \in recovering \/ missions[m] = "recovered"
    /\ \/ CompleteRecovered(m, 1)
       \/ runs[m].status # "failed" /\ UNCHANGED storeVars
    /\ recovering' = recovering \ {m}
    /\ UNCHANGED <<process, admitting, granted, life, missions, faults>>

\* The command dies between its writes, or its second transaction fails.
RecoveryStops(m) ==
    /\ m \in recovering
    /\ recovering' = recovering \ {m}
    /\ UNCHANGED <<storeVars, process, admitting, granted, life, missions, faults>>

\* Some process works for m under the lease that w holds.
Served(m) == \E w \in Worker :
                runs[m].leaseOwner = w /\ (Active(w, m) \/ granted[w][m] # 0)

\* A lease that runs out under a process that still serves it is a stall of
\* that process (its heartbeat is three times faster than the lease).
Tick ==
    /\ ClockTick
    /\ IF \E m \in Mission : runs[m].leaseLeft = 1 /\ Served(m)
       THEN Fault ELSE UNCHANGED faults
    /\ UNCHANGED <<process, admitting, granted, life, missions, recovering>>

-----------------------------------------------------------------------------
LifecycleStep(w, m) ==
    \/ Heartbeat(w, m) \/ BeginAppend(w, m) \/ CommitAppend(w, m)
    \/ ExecuteReturns(w, m) \/ ExecuteThrows(w, m)
    \/ BeginFinish(w, m) \/ CommitFinish(w, m) \/ ReadBack(w, m) \/ Project(w, m)
    \/ StoreError(w, m)

ManagerNext ==
    \/ \E w \in Worker, m \in Mission :
          \/ Submit(w, m) \/ ClaimAdmitted(w, m) \/ Start(w, m) \/ GrantLost(w, m)
          \/ LifecycleStep(w, m) \/ Cancel(w, m)
    \/ \E w \in Worker, S \in SUBSET Mission : PollClaim(w, S)
    \/ \E w \in Worker : Crash(w) \/ Shutdown(w) \/ Exit(w)
    \/ \E m \in Mission : RecoverMission(m) \/ RecoverRun(m) \/ RecoveryStops(m)
    \/ Tick

ManagerSpec == ManagerInit /\ [][ManagerNext]_vars

\* What the runtime guarantees: timers fire, promises that can settle settle,
\* an execution whose signal is aborted ends.
ExecutionEnds(w, m) == ExecuteReturns(w, m) \/ ExecuteThrows(w, m)

Advance(w, m) == \/ CommitAppend(w, m) \/ BeginFinish(w, m) \/ CommitFinish(w, m)
                 \/ ReadBack(w, m) \/ Project(w, m)

Fairness ==
    /\ WF_vars(Tick)
    /\ \A w \in Worker, m \in Mission :
          /\ WF_vars(ClaimAdmitted(w, m))
          /\ WF_vars(\E S \in SUBSET Mission : m \in S /\ PollClaim(w, S))
          /\ WF_vars(Start(w, m))
          /\ WF_vars(Heartbeat(w, m))
          /\ WF_vars(Advance(w, m))
          /\ WF_vars(life[w][m].aborted /\ ExecutionEnds(w, m))

FairSpec == ManagerSpec /\ Fairness

\* In addition every execution ends by itself (its tools have timeouts).
ExecutionsEnd == \A w \in Worker, m \in Mission : WF_vars(ExecutionEnds(w, m))

-----------------------------------------------------------------------------
(* Properties.                                                              *)

ManagerTypeOK == /\ StoreTypeOK
                 /\ process \in [Worker -> {"up", "draining", "down"}]
                 /\ admitting \subseteq Worker \X Mission
                 /\ granted \in [Worker -> [Mission -> 0..MaxToken]]
                 /\ life \in [Worker -> [Mission -> Lifecycle]]
                 /\ missions \in [Mission -> {"none", "recovered"} \cup Terminal]
                 /\ recovering \subseteq Mission
                 /\ faults \in 0..MaxFaults

\* A fencing token names one claim: no two lifecycles, and no lifecycle and a
\* claim whose reply is still under way, hold the same one, and none is ahead
\* of the row (start, recoverAvailable, claimRuns).
Holds(w, m, t) == t > 0 /\ (life[w][m].token = t \/ granted[w][m] = t)

TokensNameClaims ==
    \A m \in Mission, w \in Worker, t \in 1..MaxToken : Holds(w, m, t) =>
        /\ t <= runs[m].token
        /\ \A v \in Worker : Holds(v, m, t) => v = w
        /\ life[w][m].token # granted[w][m]

\* The mission history never reports an outcome the durable run did not reach,
\* though it is written later, by whichever process, in any order.
HistoryFollowsRun ==
    \A m \in Mission :
        /\ missions[m] \in {"completed", "cancelled"} => runs[m].status = missions[m]
        /\ missions[m] \in {"failed", "recovered"} =>
              runs[m].status \in {"failed", "completed"}

\* PRODUCTION_DESIGN.md: "Event, renewal and terminal writes match the current
\* owner and token, so a paused old worker cannot commit."
StaleWorkerCannotCommit ==
    /\ \A e \in runEvents : e.author \in {0, e.token}
    /\ \A m \in Mission :
          runs[m].status \in Terminal => runs[m].author \in {0, runs[m].token}

\* A replica that lost its lease to another notices and stops.
SupersededStops ==
    \A w \in Worker, m \in Mission :
        (Active(w, m) /\ life[w][m].token < runs[m].token) ~> ~Active(w, m)

\* A recorded cancellation ends the run, wherever it executes and even when its
\* execution would never end by itself.
CancelledRunsStop ==
    \A m \in Mission : runs[m].cancelRequested ~> runs[m].status = "cancelled"

\* Every admitted run reaches an outcome, whatever crashes and stalls happen,
\* if executions end by themselves.
AdmittedRunsEnd ==
    ExecutionsEnd => \A m \in Mission : runs[m].status = "created" ~> runs[m].status \in Terminal
=============================================================================
