------------------------------ MODULE RunProofs -----------------------------
(***************************************************************************)
(* Proofs about RunStore.tla, for every set of missions and workers, every *)
(* lease length and every limit; then about RunManager.tla: whatever the   *)
(* replicas do, the tables see steps of RunStore.tla, and what a replica   *)
(* keeps in memory agrees with its row.                                    *)
(***************************************************************************)
EXTENDS RunManager, SequenceTheorems, TLAPS

-----------------------------------------------------------------------------
(* RunStore.                                                                *)


\* The rows a finish or a recovery leaves are well typed.
LEMMA FinishedRowType ==
  ASSUME StoreTypeOK, NEW m \in Mission, NEW outcome \in Terminal, NEW author \in Nat
  PROVE  FinishedRow(m, outcome, author) \in RunRow
<1>1. /\ runs[m] \in RunRow
      /\ outcome \in Status
      /\ 0 \in 0..LeaseTicks
      /\ NoOwner \in Worker \cup {NoOwner}
  BY StoreAssumption DEF StoreTypeOK, Status
<1>2. QED
  BY <1>1 DEF FinishedRow, RunRow

LEMMA RecoveredRowType ==
  ASSUME StoreTypeOK, NEW m \in Mission, NEW n \in Nat
  PROVE  RecoveredRow(m, n) \in RunRow
<1> DEFINE row == FinishedRow(m, "completed", 0)
<1>1. row \in RunRow
  BY FinishedRowType DEF Terminal
<1>2. RecoveryToken(m) \in Nat
  BY DEF RecoveryToken, StoreTypeOK, RunRow
<1>3. row.nextSequence + n \in Nat \ {0}
  BY <1>1 DEF RunRow
<1>4. QED
  <2> HIDE DEF row
  <2>1. [row EXCEPT !.nextSequence = @ + n, !.token = RecoveryToken(m)] \in RunRow
    BY <1>1, <1>2, <1>3 DEF RunRow
  <2>2. QED
    BY <2>1 DEF row, RecoveredRow

LEMMA StoreTypeStep ==
  ASSUME StoreTypeOK, [StoreNext]_storeVars
  PROVE  StoreTypeOK'
<1> USE StoreAssumption DEF StoreTypeOK, RunRow
<1>1. ASSUME NEW m \in Mission, AdmitRun(m)
      PROVE  StoreTypeOK'
  BY <1>1 DEF AdmitRun, Status
<1>2. ASSUME NEW m \in Mission, RequestRunCancellation(m)
      PROVE  StoreTypeOK'
  BY <1>2 DEF RequestRunCancellation
<1>3. ASSUME NEW S \in SUBSET Mission, NEW w \in Worker, ClaimRuns(S, w)
      PROVE  StoreTypeOK'
  <2>1. ASSUME NEW m \in Mission
        PROVE  ClaimedRow(m, w) \in RunRow
    <3>1. runs[m] \in RunRow
      OBVIOUS
    <3>2. /\ "running" \in Status
          /\ w \in Worker \cup {NoOwner}
          /\ LeaseTicks \in 0..LeaseTicks
          /\ runs[m].token + 1 \in Nat
      BY <3>1 DEF Status
    <3>3. QED
      BY <3>1, <3>2 DEF ClaimedRow
  <2>2. QED
    BY <1>3, <2>1 DEF ClaimRuns
<1>4. ASSUME NEW m \in Mission, NEW w \in Worker, NEW t \in 1..MaxToken,
             RenewRunLease(m, w, t)
      PROVE  StoreTypeOK'
  BY <1>4 DEF RenewRunLease
<1>5. ASSUME NEW m \in Mission, NEW w \in Worker, NEW t \in 1..MaxToken,
             NEW author \in 0..MaxToken, AppendRunEvent(m, w, t, author)
      PROVE  StoreTypeOK'
  BY <1>5 DEF AppendRunEvent, EventRow
<1>6. ASSUME NEW m \in Mission, NEW w \in Worker, NEW t \in 1..MaxToken,
             NEW author \in 0..MaxToken, NEW outcome \in Terminal,
             FinishRun(m, w, t, outcome, author)
      PROVE  StoreTypeOK'
  <2>1. FinishedRow(m, outcome, author) \in RunRow
    <3> HIDE DEF StoreTypeOK, RunRow
    <3>1. author \in Nat
      OBVIOUS
    <3>2. QED
      BY <3>1, FinishedRowType
  <2>2. QED
    BY <1>6, <2>1 DEF FinishRun
<1>7. ASSUME NEW m \in Mission, NEW n \in 0..TraceLimit, CompleteRecovered(m, n)
      PROVE  StoreTypeOK'
  <2>1. RecoveryToken(m) \in Nat \ {0}
    BY DEF RecoveryToken
  <2>2. RecoveredRow(m, n) \in RunRow
    <3> HIDE DEF StoreTypeOK, RunRow
    <3>1. n \in Nat
      OBVIOUS
    <3>2. QED
      BY <3>1, RecoveredRowType
  <2>3. RecoveryEvents(m, n) \subseteq EventRow
    BY <2>1 DEF RecoveryEvents, EventRow
  <2>4. QED
    BY <1>7, <2>2, <2>3 DEF CompleteRecovered
<1>8. CASE ClockTick
  <2>1. ASSUME NEW m \in Mission
        PROVE  /\ runs[m] \in RunRow
               /\ (IF runs[m].leaseLeft > 0 THEN runs[m].leaseLeft - 1 ELSE 0)
                     \in 0..LeaseTicks
    OBVIOUS
  <2>2. QED
    BY <1>8, <2>1 DEF ClockTick
<1>9. CASE UNCHANGED storeVars
  BY <1>9 DEF storeVars
<1>10. QED
  BY <1>1, <1>2, <1>3, <1>4, <1>5, <1>6, <1>7, <1>8, <1>9 DEF StoreNext

\* Every column keeps its type (the CHECK constraints on single columns).
THEOREM StoreTypeCorrect == StoreSpec => []StoreTypeOK
<1>1. StoreInit => StoreTypeOK
  BY StoreAssumption DEF StoreInit, StoreTypeOK, AbsentRow, RunRow, Status, EventRow
<1>2. StoreTypeOK /\ [StoreNext]_storeVars => StoreTypeOK'
  BY StoreTypeStep
<1>3. QED
  BY <1>1, <1>2, PTL DEF StoreSpec
-----------------------------------------------------------------------------
(***************************************************************************)
(* LogIsDense compares sets; the proofs use its three readings.            *)
(***************************************************************************)
Counted == \A e \in runEvents : e.sequence < runs[e.mission].nextSequence

NoGap == \A m \in Mission, s \in Nat \ {0} :
            s < runs[m].nextSequence =>
                \E e \in runEvents : e.mission = m /\ e.sequence = s

NoDuplicate == \A e, f \in runEvents :
                  e.mission = f.mission /\ e.sequence = f.sequence => e = f

LEMMA DenseReadings ==
  ASSUME StoreTypeOK
  PROVE  LogIsDense <=> Counted /\ NoGap /\ NoDuplicate
<1> USE DEF StoreTypeOK, EventsOf
<1>0. /\ \A m \in Mission : runs[m].nextSequence \in Nat \ {0}
      /\ \A e \in runEvents : e.mission \in Mission /\ e.sequence \in Nat \ {0}
  BY DEF RunRow, EventRow
<1>1. ASSUME LogIsDense
      PROVE  Counted /\ NoGap /\ NoDuplicate
  <2>1. ASSUME NEW e \in runEvents
        PROVE  e.sequence < runs[e.mission].nextSequence
    <3>1. e.sequence \in 1..(runs[e.mission].nextSequence - 1)
      BY <1>0, <1>1 DEF LogIsDense
    <3>2. QED
      BY <1>0, <3>1
  <2>2. ASSUME NEW m \in Mission, NEW s \in Nat \ {0}, s < runs[m].nextSequence
        PROVE  \E e \in runEvents : e.mission = m /\ e.sequence = s
    <3>1. s \in 1..(runs[m].nextSequence - 1)
      BY <1>0, <2>2
    <3>2. QED
      BY <1>1, <3>1 DEF LogIsDense
  <2>3. NoDuplicate
    BY <1>0, <1>1 DEF LogIsDense, NoDuplicate
  <2>4. QED
    BY <2>1, <2>2, <2>3 DEF Counted, NoGap
<1>2. ASSUME Counted, NoGap, NoDuplicate
      PROVE  LogIsDense
  <2> SUFFICES ASSUME NEW m \in Mission
               PROVE  {e.sequence : e \in EventsOf(m)} = 1..(runs[m].nextSequence - 1)
    BY <1>2 DEF LogIsDense, NoDuplicate
  <2>1. ASSUME NEW e \in EventsOf(m)
        PROVE  e.sequence \in 1..(runs[m].nextSequence - 1)
    BY <1>0, <1>2 DEF Counted
  <2>2. ASSUME NEW s \in 1..(runs[m].nextSequence - 1)
        PROVE  \E e \in EventsOf(m) : e.sequence = s
    BY <1>0, <1>2 DEF NoGap
  <2>3. QED
    BY <2>1, <2>2
<1>3. QED
  BY <1>1, <1>2

\* The inductive invariant is the type invariant with these two halves.
LogInv == Counted /\ NoGap /\ NoDuplicate /\ EpochsInOrder

\* A run ends under a claim, so a repair finds its epoch (KeepsContract needs it).
EndedWasClaimed == \A m \in Mission : runs[m].status \in Terminal => runs[m].token > 0

RowInv == LeasedIffRunning /\ CancellationWins /\ EndedWasClaimed

\* Statements that write no event keep the log's invariant as long as they
\* leave the counters alone and take no token back.
LEMMA SilentStep ==
  ASSUME StoreTypeOK, StoreTypeOK', LogInv, runEvents' = runEvents,
         \A m \in Mission : /\ runs'[m].nextSequence = runs[m].nextSequence
                            /\ runs'[m].token >= runs[m].token
  PROVE  LogInv'
<1>1. \A m \in Mission : runs[m].token \in Nat /\ runs'[m].token \in Nat
  BY DEF StoreTypeOK, RunRow
<1>2. \A e \in runEvents : e.mission \in Mission /\ e.token \in Nat
  BY DEF StoreTypeOK, EventRow
<1>3. Counted' /\ NoGap' /\ NoDuplicate'
  BY <1>2 DEF LogInv, Counted, NoGap, NoDuplicate
<1>4. EpochsInOrder'
  BY <1>1, <1>2 DEF LogInv, EpochsInOrder
<1>5. QED
  BY <1>3, <1>4 DEF LogInv

\* Writing the next k events of a run under its present token keeps it too.
LEMMA WritingStep ==
  ASSUME StoreTypeOK, StoreTypeOK', LogInv,
         NEW m \in Mission, NEW k \in Nat, NEW t \in Nat, NEW author,
         t >= runs[m].token,
         runs'[m].token = t,
         runs'[m].nextSequence = runs[m].nextSequence + k,
         \A n \in Mission \ {m} : runs'[n] = runs[n],
         runEvents' = runEvents \cup
            {[mission |-> m, sequence |-> s, token |-> t, author |-> author] :
                s \in runs[m].nextSequence..(runs[m].nextSequence + k - 1)}
  PROVE  LogInv'
<1> DEFINE next == runs[m].nextSequence
           Row(s) == [mission |-> m, sequence |-> s, token |-> t, author |-> author]
           fresh == {Row(s) : s \in next..(next + k - 1)}
<1>1. /\ next \in Nat \ {0}
      /\ \A n \in Mission : /\ runs[n].nextSequence \in Nat /\ runs[n].token \in Nat
                            /\ runs'[n].nextSequence \in Nat /\ runs'[n].token \in Nat
  BY DEF StoreTypeOK, RunRow
<1>2. \A e \in runEvents : /\ e.mission \in Mission
                           /\ e.sequence \in Nat \ {0}
                           /\ e.token \in Nat
  BY DEF StoreTypeOK, EventRow
<1>3. \A e \in fresh : /\ e.mission = m /\ e.token = t
                       /\ e.sequence \in Nat
                       /\ next <= e.sequence /\ e.sequence < next + k
                       /\ e = Row(e.sequence)
  BY <1>1
<1>4. runEvents' = runEvents \cup fresh
  OBVIOUS
<1>5. \A e \in runEvents : e.mission = m => e.sequence < next
  BY DEF LogInv, Counted
<1> HIDE DEF fresh
<1>6. Counted'
  <2> SUFFICES ASSUME NEW e \in runEvents'
               PROVE  e.sequence < runs'[e.mission].nextSequence
    BY DEF Counted
  <2>1. CASE e \in fresh
    BY <2>1, <1>3
  <2>2. CASE e \in runEvents /\ e.mission = m
    BY <2>2, <1>1, <1>2, <1>5
  <2>3. CASE e \in runEvents /\ e.mission # m
    BY <2>3, <1>2 DEF LogInv, Counted
  <2>4. QED
    BY <2>1, <2>2, <2>3, <1>4
<1>7. NoGap'
  <2> SUFFICES ASSUME NEW n \in Mission, NEW s \in Nat \ {0},
                      s < runs'[n].nextSequence
               PROVE  \E e \in runEvents' : e.mission = n /\ e.sequence = s
    BY DEF NoGap
  <2>1. CASE s < runs[n].nextSequence
    BY <2>1, <1>4 DEF LogInv, NoGap
  <2>2. CASE ~(s < runs[n].nextSequence)
    <3>1. n = m
      BY <2>2
    <3>2. s \in next..(next + k - 1)
      BY <2>2, <3>1, <1>1
    <3>3. Row(s) \in fresh
      BY <3>2 DEF fresh
    <3>4. QED
      BY <3>1, <3>3, <1>4
  <2>3. QED
    BY <2>1, <2>2
<1>8. NoDuplicate'
  <2> SUFFICES ASSUME NEW e \in runEvents', NEW f \in runEvents',
                      e.mission = f.mission, e.sequence = f.sequence
               PROVE  e = f
    BY DEF NoDuplicate
  <2>1. CASE e \in runEvents /\ f \in runEvents
    BY <2>1 DEF LogInv, NoDuplicate
  <2>2. CASE e \in fresh /\ f \in fresh
    BY <2>2, <1>3
  <2>3. CASE e \in fresh /\ f \in runEvents
    BY <2>3, <1>1, <1>2, <1>3, <1>5
  <2>4. CASE e \in runEvents /\ f \in fresh
    BY <2>4, <1>1, <1>2, <1>3, <1>5
  <2>5. QED
    BY <2>1, <2>2, <2>3, <2>4, <1>4
<1>9. EpochsInOrder'
  <2>1. \A e \in runEvents : e.mission = m => e.token <= t
    BY <1>1, <1>2 DEF LogInv, EpochsInOrder
  <2>2. ASSUME NEW e \in runEvents', NEW f \in runEvents',
               e.mission = f.mission, e.sequence < f.sequence
        PROVE  e.token <= f.token
    <3>1. CASE e \in runEvents /\ f \in runEvents
      BY <2>2, <3>1 DEF LogInv, EpochsInOrder
    <3>2. CASE f \in fresh
      BY <2>1, <2>2, <3>2, <1>3, <1>4
    <3>3. CASE e \in fresh /\ f \in runEvents
      BY <2>2, <3>3, <1>1, <1>2, <1>3, <1>5
    <3>4. QED
      BY <3>1, <3>2, <3>3, <1>4
  <2>3. ASSUME NEW e \in runEvents'
        PROVE  e.token <= runs'[e.mission].token
    <3>1. CASE e.mission = m
      BY <3>1, <2>1, <1>3, <1>4
    <3>2. CASE e.mission # m
      BY <3>2, <1>2, <1>3, <1>4 DEF LogInv, EpochsInOrder
    <3>3. QED
      BY <3>1, <3>2
  <2>4. QED
    BY <2>2, <2>3 DEF EpochsInOrder
<1>10. QED
  BY <1>6, <1>7, <1>8, <1>9 DEF LogInv

LEMMA AppendKeepsLog ==
  ASSUME StoreTypeOK, StoreTypeOK', LogInv, NEW m \in Mission, NEW w, NEW t, NEW author,
         AppendRunEvent(m, w, t, author)
  PROVE  LogInv'
<1>1. /\ runs[m].token \in Nat /\ runs[m].nextSequence \in Nat
      /\ t = runs[m].token
      /\ runs'[m].token = t
      /\ runs'[m].nextSequence = runs[m].nextSequence + 1
      /\ \A n \in Mission \ {m} : runs'[n] = runs[n]
  BY DEF StoreTypeOK, RunRow, AppendRunEvent, MayWrite, HoldsLease
<1>2. runs[m].nextSequence..(runs[m].nextSequence + 1 - 1) = {runs[m].nextSequence}
  BY <1>1
<1>3. runEvents' = runEvents \cup
          {[mission |-> m, sequence |-> s, token |-> t, author |-> author] :
              s \in runs[m].nextSequence..(runs[m].nextSequence + 1 - 1)}
  BY <1>2 DEF AppendRunEvent
<1>4. t \in Nat /\ t >= runs[m].token /\ 1 \in Nat
  BY <1>1
<1>5. QED
  BY <1>1, <1>3, <1>4, WritingStep, ZenonT(40)

LEMMA RecoveryKeepsLog ==
  ASSUME StoreTypeOK, StoreTypeOK', LogInv, NEW m \in Mission, NEW n \in Nat,
         CompleteRecovered(m, n)
  PROVE  LogInv'
<1> DEFINE t == RecoveryToken(m)
<1>1. /\ runs[m] \in RunRow
      /\ runs' = [runs EXCEPT ![m] = RecoveredRow(m, n)]
  BY DEF StoreTypeOK, CompleteRecovered
<1>2. /\ t \in Nat /\ t >= runs[m].token
      /\ RecoveredRow(m, n).token = t
      /\ RecoveredRow(m, n).nextSequence = runs[m].nextSequence + n
  BY <1>1 DEF RecoveryToken, RecoveredRow, FinishedRow, RunRow
<1>3. /\ runs'[m].token = t
      /\ runs'[m].nextSequence = runs[m].nextSequence + n
      /\ \A k \in Mission \ {m} : runs'[k] = runs[k]
  BY <1>1, <1>2 DEF StoreTypeOK
<1>4. runEvents' = runEvents \cup
          {[mission |-> m, sequence |-> s, token |-> t, author |-> 0] :
              s \in runs[m].nextSequence..(runs[m].nextSequence + n - 1)}
  BY DEF CompleteRecovered, RecoveryEvents
<1> HIDE DEF t
<1>5. QED
  BY <1>2, <1>3, <1>4, WritingStep

\* A claim touches the rows of S only, and there only the lease.
LEMMA ClaimFacts ==
  ASSUME StoreTypeOK, NEW S \in SUBSET Mission, NEW w \in Worker, ClaimRuns(S, w),
         NEW m \in Mission
  PROVE  /\ m \notin S => runs'[m] = runs[m]
         /\ m \in S => /\ Claimable(m)
                       /\ runs'[m].status = "running"
                       /\ runs'[m].leaseOwner = w
                       /\ runs'[m].token = runs[m].token + 1
         /\ runs'[m].nextSequence = runs[m].nextSequence
         /\ runs'[m].cancelRequested = runs[m].cancelRequested
<1>1. runs[m] \in RunRow
  BY DEF StoreTypeOK
<1>2. runs'[m] = IF m \in S THEN ClaimedRow(m, w) ELSE runs[m]
  BY DEF ClaimRuns
<1>3. /\ ClaimedRow(m, w).status = "running"
      /\ ClaimedRow(m, w).leaseOwner = w
      /\ ClaimedRow(m, w).token = runs[m].token + 1
      /\ ClaimedRow(m, w).nextSequence = runs[m].nextSequence
      /\ ClaimedRow(m, w).cancelRequested = runs[m].cancelRequested
  BY <1>1 DEF ClaimedRow, RunRow
<1>4. QED
  BY <1>2, <1>3 DEF ClaimRuns

\* The rows' half of the invariant, one action at a time.
LEMMA RowStep ==
  ASSUME StoreTypeOK, RowInv, [StoreNext]_storeVars
  PROVE  RowInv'
<1> USE StoreAssumption DEF StoreTypeOK, RunRow, RowInv, LeasedIffRunning, CancellationWins,
                             EndedWasClaimed, Terminal
<1>1. ASSUME NEW m \in Mission, AdmitRun(m)
      PROVE  RowInv'
  BY <1>1 DEF AdmitRun
<1>2. ASSUME NEW m \in Mission, RequestRunCancellation(m)
      PROVE  RowInv'
  BY <1>2 DEF RequestRunCancellation
<1>3. ASSUME NEW S \in SUBSET Mission, NEW w \in Worker, ClaimRuns(S, w)
      PROVE  RowInv'
  <2> SUFFICES ASSUME NEW m \in Mission
               PROVE  /\ runs'[m].leaseOwner # NoOwner <=> runs'[m].status = "running"
                      /\ runs'[m].leaseLeft > 0 => runs'[m].status = "running"
                      /\ runs'[m].status = "running" => runs'[m].token > 0
                      /\ runs'[m].cancelRequested =>
                            runs'[m].status \notin {"completed", "failed"}
                      /\ runs'[m].status \in Terminal => runs'[m].token > 0
    OBVIOUS
  <2>1. w # NoOwner /\ runs[m].token + 1 > 0
    OBVIOUS
  <2>2. CASE m \in S
    <3> HIDE DEF StoreTypeOK, RunRow
    <3>1. QED
      BY <1>3, <2>1, <2>2, ClaimFacts
  <2>3. CASE m \notin S
    <3>1. runs'[m] = runs[m]
      BY <1>3, <2>3 DEF ClaimRuns
    <3>2. QED
      BY <3>1
  <2>4. QED
    BY <2>2, <2>3
<1>4. ASSUME NEW m \in Mission, NEW w \in Worker, NEW t \in 1..MaxToken,
             RenewRunLease(m, w, t)
      PROVE  RowInv'
  BY <1>4 DEF RenewRunLease, MayWrite, HoldsLease
<1>5. ASSUME NEW m \in Mission, NEW w \in Worker, NEW t \in 1..MaxToken,
             NEW author \in 0..MaxToken, AppendRunEvent(m, w, t, author)
      PROVE  RowInv'
  BY <1>5 DEF AppendRunEvent
<1>6. ASSUME NEW m \in Mission, NEW w \in Worker, NEW t \in 1..MaxToken,
             NEW author \in 0..MaxToken, NEW outcome \in Terminal,
             FinishRun(m, w, t, outcome, author)
      PROVE  RowInv'
  BY <1>6 DEF FinishRun, FinishedRow, MayFinish, HoldsLease, Terminal
<1>7. ASSUME NEW m \in Mission, NEW n \in 0..TraceLimit, CompleteRecovered(m, n)
      PROVE  RowInv'
  BY <1>7 DEF CompleteRecovered, RecoveredRow, FinishedRow, RecoveryToken
<1>8. CASE ClockTick
  BY <1>8 DEF ClockTick
<1>9. CASE UNCHANGED storeVars
  BY <1>9 DEF storeVars
<1>10. QED
  BY <1>1, <1>2, <1>3, <1>4, <1>5, <1>6, <1>7, <1>8, <1>9 DEF StoreNext

\* The log's half: three kinds of step.
LEMMA LogStep ==
  ASSUME StoreTypeOK, StoreTypeOK', LogInv, [StoreNext]_storeVars
  PROVE  LogInv'
<1> DEFINE Silent == /\ runEvents' = runEvents
                     /\ \A m \in Mission :
                           /\ runs'[m].nextSequence = runs[m].nextSequence
                           /\ runs'[m].token >= runs[m].token
<1>a. \A m \in Mission : runs[m] \in RunRow /\ runs[m].token \in Nat
  BY DEF StoreTypeOK, RunRow
<1>b. ASSUME Silent
      PROVE  LogInv'
  BY <1>b, SilentStep
<1>1. ASSUME NEW m \in Mission, AdmitRun(m)
      PROVE  Silent
  BY <1>1, <1>a DEF AdmitRun, StoreTypeOK, RunRow
<1>2. ASSUME NEW m \in Mission, RequestRunCancellation(m)
      PROVE  Silent
  BY <1>2, <1>a DEF RequestRunCancellation, StoreTypeOK, RunRow
<1>3. ASSUME NEW S \in SUBSET Mission, NEW w \in Worker, ClaimRuns(S, w)
      PROVE  Silent
  BY <1>3, <1>a, ClaimFacts DEF ClaimRuns
<1>4. ASSUME NEW m \in Mission, NEW w \in Worker, NEW t \in 1..MaxToken,
             RenewRunLease(m, w, t)
      PROVE  Silent
  BY <1>4, <1>a DEF RenewRunLease, StoreTypeOK, RunRow
<1>5. ASSUME NEW m \in Mission, NEW w \in Worker, NEW t \in 1..MaxToken,
             NEW author \in 0..MaxToken, AppendRunEvent(m, w, t, author)
      PROVE  LogInv'
  BY <1>5, AppendKeepsLog
<1>6. ASSUME NEW m \in Mission, NEW w \in Worker, NEW t \in 1..MaxToken,
             NEW author \in 0..MaxToken, NEW outcome \in Terminal,
             FinishRun(m, w, t, outcome, author)
      PROVE  Silent
  BY <1>6, <1>a DEF FinishRun, FinishedRow, StoreTypeOK, RunRow
<1>7. ASSUME NEW m \in Mission, NEW n \in 0..TraceLimit, CompleteRecovered(m, n)
      PROVE  LogInv'
  <2>1. n \in Nat
    OBVIOUS
  <2>2. QED
    BY <1>7, <2>1, RecoveryKeepsLog
<1>8. CASE ClockTick
  <2>1. Silent
    BY <1>8, <1>a DEF ClockTick, RunRow
  <2>2. QED
    BY <2>1, <1>b
<1>9. CASE UNCHANGED storeVars
  <2>1. Silent
    BY <1>9, <1>a DEF storeVars
  <2>2. QED
    BY <2>1, <1>b
<1> HIDE DEF Silent
<1>10. QED
  BY <1>1, <1>2, <1>3, <1>4, <1>5, <1>6, <1>7, <1>8, <1>9, <1>b DEF StoreNext

\* Together: the inductive invariant.
StoreInv == StoreTypeOK /\ LogInv /\ RowInv

LEMMA StoreInvStep ==
  ASSUME StoreInv, [StoreNext]_storeVars
  PROVE  StoreInv'
<1>1. StoreTypeOK'
  BY StoreTypeStep DEF StoreInv
<1>2. QED
  BY <1>1, LogStep, RowStep DEF StoreInv

LEMMA StoreInvInit == StoreInit => StoreInv
<1> SUFFICES ASSUME StoreInit
             PROVE  StoreInv
  OBVIOUS
<1>1. StoreTypeOK
  BY StoreAssumption DEF StoreInit, StoreTypeOK, AbsentRow, RunRow, Status, EventRow
<1>2. LogInv
  BY DEF StoreInit, AbsentRow, LogInv, Counted, NoGap, NoDuplicate, EpochsInOrder
<1>3. RowInv
  BY DEF StoreInit, AbsentRow, RowInv, LeasedIffRunning, CancellationWins, EndedWasClaimed, Terminal
<1>4. QED
  BY <1>1, <1>2, <1>3 DEF StoreInv

LEMMA StoreInvariant == StoreSpec => []StoreInv
<1>1. StoreInit => StoreInv
  BY StoreInvInit
<1>2. StoreInv /\ [StoreNext]_storeVars => StoreInv'
  BY StoreInvStep
<1>3. QED
  BY <1>1, <1>2, PTL DEF StoreSpec

-----------------------------------------------------------------------------
(* The results.                                                             *)

\* The replay cursor has no gap and no duplicate, whoever wrote the events.
THEOREM LogIsAlwaysDense == StoreSpec => []LogIsDense
<1>1. StoreInv => LogIsDense
  BY DenseReadings DEF StoreInv, LogInv
<1>2. QED
  BY <1>1, StoreInvariant, PTL

\* No write of an older lease epoch lands after one of a newer epoch.
THEOREM EpochsAreOrdered == StoreSpec => []EpochsInOrder
<1>1. StoreInv => EpochsInOrder
  BY DEF StoreInv, LogInv
<1>2. QED
  BY <1>1, StoreInvariant, PTL

\* A run is leased exactly while it is running.
THEOREM RunningIsLeased == StoreSpec => []LeasedIffRunning
<1>1. StoreInv => LeasedIffRunning
  BY DEF StoreInv, RowInv
<1>2. QED
  BY <1>1, StoreInvariant, PTL

\* A recorded cancellation is never outrun by completed or failed.
THEOREM CancellationHolds == StoreSpec => []CancellationWins
<1>1. StoreInv => CancellationWins
  BY DEF StoreInv, RowInv
<1>2. QED
  BY <1>1, StoreInvariant, PTL

\* No step adds an event to a run whose cancellation is recorded: a replica's
\* WHERE clause says so, and recovery only touches failed runs.
THEOREM CancelledStaySilent == StoreSpec => SilentAfterCancel
<1>1. StoreInv /\ [StoreNext]_storeVars => [NothingAdded]_storeVars
  <2> SUFFICES ASSUME StoreInv, StoreNext, NEW e \in runEvents' \ runEvents
               PROVE  ~runs[e.mission].cancelRequested
    BY DEF NothingAdded
  <2>1. ASSUME NEW m \in Mission, NEW w, NEW t, NEW author, AppendRunEvent(m, w, t, author)
        PROVE  ~runs[e.mission].cancelRequested
    BY <2>1 DEF AppendRunEvent, MayWrite
  <2>2. ASSUME NEW m \in Mission, NEW n, CompleteRecovered(m, n)
        PROVE  ~runs[e.mission].cancelRequested
    <3>1. e.mission = m
      BY <2>2 DEF CompleteRecovered, RecoveryEvents
    <3>2. QED
      BY <2>2, <3>1 DEF CompleteRecovered, StoreInv, RowInv, CancellationWins
  <2>3. QED
    BY <2>1, <2>2 DEF StoreNext, AdmitRun, RequestRunCancellation, ClaimRuns, RenewRunLease,
                      FinishRun, ClockTick
<1>2. QED
  BY <1>1, StoreInvariant, PTL DEF StoreSpec, SilentAfterCancel

LEMMA HistoryStep ==
  ASSUME StoreInv, StoreNext
  PROVE  HistoryStays
<1>1. runEvents \subseteq runEvents'
  BY DEF StoreNext, AdmitRun, RequestRunCancellation, ClaimRuns, RenewRunLease,
         AppendRunEvent, FinishRun, CompleteRecovered, ClockTick
<1>2. ASSUME NEW m \in Mission, runs[m].status \in Terminal, runs'[m] # runs[m]
      PROVE  runs[m].status = "failed" /\ runs'[m].status = "completed"
  <2>1. /\ runs[m] \in RunRow
        /\ runs[m].status \notin {"absent", "created", "running"}
        /\ runs[m].leaseLeft = 0
        /\ runs \in [Mission -> RunRow]
    BY <1>2 DEF StoreInv, StoreTypeOK, RunRow, RowInv, LeasedIffRunning, Terminal
  <2>2. ~ClockTick
    <3>1. ASSUME ClockTick
          PROVE  FALSE
      <4>1. runs'[m] = [runs[m] EXCEPT !.leaseLeft = IF runs[m].leaseLeft > 0
                                                    THEN runs[m].leaseLeft - 1 ELSE 0]
        BY <3>1 DEF ClockTick
      <4>2. runs'[m] = runs[m]
        BY <2>1, <4>1 DEF RunRow
      <4>3. QED
        BY <1>2, <4>2
    <3>2. QED
      BY <3>1
  <2>3. ASSUME NEW k \in Mission, NEW n, CompleteRecovered(k, n)
        PROVE  runs[m].status = "failed" /\ runs'[m].status = "completed"
    <3>1. k = m
      BY <1>2, <2>1, <2>3 DEF CompleteRecovered
    <3>2. runs'[m] = RecoveredRow(m, n)
      BY <2>1, <2>3, <3>1 DEF CompleteRecovered
    <3>3. RecoveredRow(m, n).status = "completed"
      BY <2>1 DEF RecoveredRow, FinishedRow, RunRow
    <3>4. QED
      BY <2>3, <3>1, <3>2, <3>3 DEF CompleteRecovered
  <2>4. QED
    BY <1>2, <2>1, <2>2, <2>3
       DEF StoreNext, AdmitRun, RequestRunCancellation, ClaimRuns, Claimable, RenewRunLease,
           AppendRunEvent, FinishRun, MayFinish, MayWrite, HoldsLease
<1>3. QED
  BY <1>1, <1>2 DEF HistoryStays

\* Events are never removed, and only recovery changes a row that has ended.
THEOREM HistoryIsAlwaysFinal == StoreSpec => HistoryIsFinal
<1>1. StoreInv /\ [StoreNext]_storeVars => [HistoryStays]_storeVars
  BY HistoryStep
<1>2. QED
  BY <1>1, StoreInvariant, PTL DEF StoreSpec, HistoryIsFinal

-----------------------------------------------------------------------------
(***************************************************************************)
(* RunStore implements RunContract.                                        *)
(***************************************************************************)
\* What a reader finds at each place of the log, in both states of a step.
Readable ==
  \A m \in Mission :
     /\ LogOf(m) \in Seq(Nat)
     /\ Len(LogOf(m)) = runs[m].nextSequence - 1
     /\ \A e \in runEvents : e.mission = m => LogOf(m)[e.sequence] = e.token
     /\ \A s \in 1..(runs[m].nextSequence - 1) :
           \E e \in runEvents : e.mission = m /\ e.sequence = s

LEMMA LogsAreReadable == StoreTypeOK /\ LogInv => Readable
<1> SUFFICES ASSUME StoreTypeOK, LogInv, NEW m \in Mission
             PROVE  /\ LogOf(m) \in Seq(Nat)
                    /\ Len(LogOf(m)) = runs[m].nextSequence - 1
                    /\ \A e \in runEvents : e.mission = m => LogOf(m)[e.sequence] = e.token
                    /\ \A s \in 1..(runs[m].nextSequence - 1) :
                          \E e \in runEvents : e.mission = m /\ e.sequence = s
  BY DEF Readable
<1> DEFINE last == runs[m].nextSequence - 1
           At(s) == CHOOSE e \in EventsOf(m) : e.sequence = s
<1>1. /\ last \in Nat /\ runs[m].nextSequence \in Nat \ {0}
      /\ \A e \in runEvents : e.mission \in Mission /\ e.sequence \in Nat \ {0} /\ e.token \in Nat
  BY DEF StoreTypeOK, RunRow, EventRow
<1>2. \A s \in 1..last : \E e \in runEvents : e.mission = m /\ e.sequence = s
  BY <1>1 DEF LogInv, NoGap
<1>3. \A s \in 1..last : At(s) \in EventsOf(m) /\ At(s).sequence = s
  BY <1>2 DEF EventsOf
<1> HIDE DEF At
<1>4. LogOf(m) = [s \in 1..last |-> At(s).token]
  BY DEF LogOf, At
<1>5. \A s \in 1..last : At(s).token \in Nat
  BY <1>1, <1>3 DEF EventsOf
<1>6. LogOf(m) \in Seq(Nat) /\ Len(LogOf(m)) = last
  <2>1. LogOf(m) \in [1..last -> Nat]
    BY <1>4, <1>5
  <2>2. QED
    BY <1>1, <2>1
<1>7. ASSUME NEW e \in runEvents, e.mission = m
      PROVE  LogOf(m)[e.sequence] = e.token
  <2>1. e.sequence \in 1..last
    BY <1>1, <1>7 DEF LogInv, Counted
  <2>2. At(e.sequence) = e
    BY <1>3, <1>7, <2>1 DEF LogInv, NoDuplicate, EventsOf
  <2>3. QED
    BY <1>4, <2>1, <2>2
<1>8. QED
  BY <1>2, <1>6, <1>7

\* A log is what its events say: two readings of the same events are equal.
LEMMA SameLog ==
  ASSUME NEW m \in Mission, runEvents' = runEvents,
         runs'[m].nextSequence = runs[m].nextSequence
  PROVE  LogOf(m)' = LogOf(m)
BY DEF LogOf, EventsOf

\* Events of one run written under its next numbers extend its log, and only it.
LEMMA LongerLog ==
  ASSUME StoreTypeOK, StoreTypeOK', LogInv, Readable, Readable',
         NEW m \in Mission, NEW k \in Nat, NEW t \in Nat,
         \A n \in Mission \ {m} : runs'[n] = runs[n],
         runs'[m].nextSequence = runs[m].nextSequence + k,
         runEvents \subseteq runEvents',
         \A e \in runEvents' \ runEvents :
            e.mission = m /\ e.token = t /\ e.sequence >= runs[m].nextSequence
  PROVE  /\ LogOf(m)' = LogOf(m) \o [i \in 1..k |-> t]
         /\ \A n \in Mission \ {m} : LogOf(n)' = LogOf(n)
<1>1. /\ \A n \in Mission : /\ runs[n].nextSequence \in Nat \ {0}
                            /\ runs'[n].nextSequence \in Nat \ {0}
      /\ \A e \in runEvents' : e.sequence \in Nat \ {0} /\ e.token \in Nat /\ e.mission \in Mission
  BY DEF StoreTypeOK, RunRow, EventRow
<1>2. \A n \in Mission :
        /\ LogOf(n) \in Seq(Nat)
        /\ Len(LogOf(n)) = runs[n].nextSequence - 1
        /\ \A e \in runEvents : e.mission = n => LogOf(n)[e.sequence] = e.token
        /\ \A s \in 1..(runs[n].nextSequence - 1) :
              \E e \in runEvents : e.mission = n /\ e.sequence = s
  BY DEF Readable
<1>3. \A n \in Mission :
        /\ LogOf(n)' \in Seq(Nat)
        /\ Len(LogOf(n)') = runs'[n].nextSequence - 1
        /\ \A e \in runEvents' : e.mission = n => LogOf(n)'[e.sequence] = e.token
        /\ \A s \in 1..(runs'[n].nextSequence - 1) :
              \E e \in runEvents' : e.mission = n /\ e.sequence = s
  BY DEF Readable
<1>4. ASSUME NEW n \in Mission \ {m}
      PROVE  LogOf(n)' = LogOf(n)
  <2>1. Len(LogOf(n)') = Len(LogOf(n))
    <3>1. runs'[n] = runs[n]
      OBVIOUS
    <3>2. n \in Mission
      OBVIOUS
    <3>3. Len(LogOf(n)) = runs[n].nextSequence - 1
      BY <1>2, <3>2, Zenon
    <3>4. Len(LogOf(n)') = runs'[n].nextSequence - 1
      BY <1>3, <3>2, Zenon
    <3>5. QED
      BY <3>1, <3>3, <3>4, Zenon
  <2>2. ASSUME NEW s \in 1..Len(LogOf(n))
        PROVE  LogOf(n)'[s] = LogOf(n)[s]
    <3>1. PICK e \in runEvents : e.mission = n /\ e.sequence = s
      BY <1>2
    <3>2. QED
      BY <3>1, <1>2, <1>3
  <2>3. QED
    BY <1>2, <1>3, <2>1, <2>2, SeqEqual
<1>5. LogOf(m)' = LogOf(m) \o [i \in 1..k |-> t]
  <2> DEFINE tail == [i \in 1..k |-> t]
             all == LogOf(m) \o tail
  <2>1. tail \in Seq(Nat) /\ Len(tail) = k
    OBVIOUS
  <2>2. /\ all \in Seq(Nat)
        /\ Len(all) = runs[m].nextSequence - 1 + k
        /\ \A s \in 1..(runs[m].nextSequence - 1) : all[s] = LogOf(m)[s]
        /\ \A s \in runs[m].nextSequence..(runs[m].nextSequence - 1 + k) : all[s] = t
    <3>1. /\ all \in Seq(Nat)
          /\ Len(all) = Len(LogOf(m)) + k
          /\ \A s \in 1..(Len(LogOf(m)) + k) :
                all[s] = IF s <= Len(LogOf(m)) THEN LogOf(m)[s] ELSE tail[s - Len(LogOf(m))]
      BY <1>2, <2>1, ConcatProperties
    <3>2. \A i \in 1..k : tail[i] = t
      OBVIOUS
    <3> HIDE DEF tail, all
    <3>3. Len(LogOf(m)) = runs[m].nextSequence - 1 /\ runs[m].nextSequence \in Nat \ {0}
      BY <1>1, <1>2
    <3>4. Len(all) = runs[m].nextSequence - 1 + k
      BY <3>1, <3>3
    <3>5. ASSUME NEW s \in 1..(runs[m].nextSequence - 1)
          PROVE  all[s] = LogOf(m)[s]
      BY <3>1, <3>3, SMTT(40)
    <3>6. ASSUME NEW s \in runs[m].nextSequence..(runs[m].nextSequence - 1 + k)
          PROVE  all[s] = t
      <4>1. /\ s \in 1..(Len(LogOf(m)) + k)
            /\ ~(s <= Len(LogOf(m)))
            /\ s - Len(LogOf(m)) \in 1..k
        <5> DEFINE base == Len(LogOf(m))
        <5>1. base = runs[m].nextSequence - 1 /\ runs[m].nextSequence \in Nat \ {0}
          BY <3>3
        <5>2. s \in Nat /\ runs[m].nextSequence <= s /\ s <= runs[m].nextSequence - 1 + k
          BY <5>1
        <5> HIDE DEF base
        <5>3. s \in 1..(base + k) /\ ~(s <= base) /\ s - base \in 1..k
          BY <5>1, <5>2
        <5>4. QED
          BY <5>3 DEF base
      <4>2. QED
        BY <3>1, <3>2, <4>1
    <3>7. QED
      BY <3>1, <3>4, <3>5, <3>6
  <2> HIDE DEF tail, all
  <2>3. Len(LogOf(m)') = Len(all)
    BY <1>1, <1>3, <2>2
  <2>4. ASSUME NEW s \in 1..Len(all)
        PROVE  LogOf(m)'[s] = all[s]
    <3>1. PICK e \in runEvents' : e.mission = m /\ e.sequence = s
      BY <1>3, <2>3
    <3>2. LogOf(m)'[s] = e.token
      BY <1>3, <3>1
    <3>3. CASE e \in runEvents
      <4>1. s \in 1..(runs[m].nextSequence - 1)
        BY <1>1, <3>1, <3>3 DEF LogInv, Counted
      <4>2. QED
        BY <1>2, <2>2, <3>1, <3>2, <3>3, <4>1
    <3>4. CASE e \notin runEvents
      BY <1>1, <2>2, <3>1, <3>2, <3>4
    <3>5. QED
      BY <3>3, <3>4
  <2>5. QED
    BY <1>3, <2>2, <2>3, <2>4, SeqEqual DEF all, tail
<1>6. QED
  BY <1>4, <1>5

LEMMA OneMore ==
  ASSUME NEW s \in Seq(Nat), NEW t \in Nat
  PROVE  s \o [i \in 1..1 |-> t] = Append(s, t)
<1>1. [i \in 1..1 |-> t] = <<t>>
  OBVIOUS
<1>2. QED
  BY <1>1, AppendIsConcat

\* The reader's three columns, as the INSTANCE maps them.
Log == [m \in Mission |-> LogOf(m)]
Epoch == [m \in Mission |-> runs[m].token]
EndingOf(m) == IF runs[m].status \in Terminal THEN runs[m].status ELSE "none"
Ending == [m \in Mission |-> EndingOf(m)]

LEMMA SameLogs ==
  ASSUME runEvents' = runEvents,
         \A m \in Mission : runs'[m].nextSequence = runs[m].nextSequence
  PROVE  Log' = Log
<1>1. ASSUME NEW m \in Mission
      PROVE  LogOf(m)' = LogOf(m)
  BY SameLog
<1>2. QED
  BY <1>1 DEF Log

\* Admission, renewal, a recorded cancellation and time are not seen by readers.
LEMMA UnseenStep ==
  ASSUME runEvents' = runEvents,
         \A m \in Mission : /\ runs'[m].nextSequence = runs[m].nextSequence
                            /\ runs'[m].token = runs[m].token
                            /\ EndingOf(m)' = EndingOf(m)
  PROVE  UNCHANGED Contract!contractVars
<1>1. Log' = Log
  BY SameLogs
<1>2. Epoch' = Epoch /\ Ending' = Ending
  BY DEF Epoch, Ending
<1>3. QED
  BY <1>1, <1>2 DEF Contract!contractVars, Log, Epoch, Ending, EndingOf

LEMMA ClaimHandsOver ==
  ASSUME StoreTypeOK, NEW S \in SUBSET Mission, NEW w \in Worker, ClaimRuns(S, w)
  PROVE  Contract!Handover(S)
<1>1. Log' = Log
  BY SameLogs, ClaimFacts DEF ClaimRuns
<1>2. ASSUME NEW m \in Mission
      PROVE  /\ runs'[m].token = runs[m].token + (IF m \in S THEN 1 ELSE 0)
             /\ EndingOf(m)' = EndingOf(m)
             /\ m \in S => EndingOf(m) = "none"
  <2>1. runs[m].token \in Nat
    BY DEF StoreTypeOK, RunRow
  <2>2. CASE m \in S
    <3>1. /\ Claimable(m) /\ runs'[m].status = "running"
          /\ runs'[m].token = runs[m].token + 1
      BY <2>2, ClaimFacts
    <3>2. QED
      BY <2>2, <3>1 DEF EndingOf, Terminal, Claimable
  <2>3. CASE m \notin S
    <3>1. runs'[m] = runs[m]
      BY <2>3, ClaimFacts
    <3>2. QED
      BY <2>1, <2>3, <3>1 DEF EndingOf
  <2>4. QED
    BY <2>2, <2>3
<1>3. /\ Ending' = Ending
      /\ \A m \in S : Ending[m] = "none"
      /\ Epoch' = [m \in Mission |-> Epoch[m] + (IF m \in S THEN 1 ELSE 0)]
  BY <1>2 DEF Ending, Epoch
<1>4. QED
  BY <1>1, <1>3 DEF Contract!Handover, Log, Epoch, Ending, EndingOf

LEMMA AppendRecords ==
  ASSUME StoreInv, StoreInv', Readable, Readable',
         NEW m \in Mission, NEW w, NEW t, NEW author, AppendRunEvent(m, w, t, author)
  PROVE  Contract!Record(m)
<1>1. /\ StoreTypeOK /\ StoreTypeOK' /\ LogInv
      /\ runs[m] \in RunRow /\ runs \in [Mission -> RunRow]
      /\ runs[m].token > 0 /\ runs[m].status = "running"
      /\ t = runs[m].token /\ t \in Nat
  BY DEF StoreInv, StoreTypeOK, RunRow, AppendRunEvent, MayWrite, HoldsLease,
         RowInv, LeasedIffRunning
<1>2. /\ \A n \in Mission \ {m} : runs'[n] = runs[n]
      /\ runs'[m].nextSequence = runs[m].nextSequence + 1
      /\ \A n \in Mission : /\ runs'[n].token = runs[n].token
                            /\ runs'[n].status = runs[n].status
  BY <1>1 DEF AppendRunEvent, RunRow
<1>3. /\ runEvents \subseteq runEvents'
      /\ \A e \in runEvents' \ runEvents :
            e.mission = m /\ e.token = t /\ e.sequence >= runs[m].nextSequence
  <2>1. runs[m].nextSequence \in Nat
    BY <1>1 DEF RunRow
  <2>2. QED
    BY <2>1 DEF AppendRunEvent
<1>4. /\ LogOf(m)' = LogOf(m) \o [i \in 1..1 |-> t]
      /\ \A n \in Mission \ {m} : LogOf(n)' = LogOf(n)
  <2>1. 1 \in Nat
    OBVIOUS
  <2>2. QED
    BY <1>1, <1>2, <1>3, <2>1, LongerLog, ZenonT(40)
<1>5. LogOf(m)' = Append(LogOf(m), t)
  <2>1. LogOf(m) \in Seq(Nat)
    BY DEF Readable
  <2>2. QED
    BY <1>1, <1>4, <2>1, OneMore
<1>6. Log' = [Log EXCEPT ![m] = Append(@, Epoch[m])]
  <2>1. Epoch[m] = t
    BY <1>1 DEF Epoch
  <2>2. QED
    BY <1>4, <1>5, <2>1 DEF Log
<1>7. Epoch' = Epoch /\ Ending' = Ending
  BY <1>2 DEF Epoch, Ending, EndingOf
<1>8. Ending[m] = "none" /\ Epoch[m] > 0
  BY <1>1 DEF Epoch, Ending, EndingOf, Terminal
<1>9. QED
  BY <1>6, <1>7, <1>8 DEF Contract!Record, Log, Epoch, Ending, EndingOf

LEMMA FinishEnds ==
  ASSUME StoreInv, NEW m \in Mission, NEW w, NEW t, NEW outcome \in Terminal, NEW author,
         FinishRun(m, w, t, outcome, author)
  PROVE  Contract!End(m, outcome)
<1>1. /\ runs[m] \in RunRow /\ runs \in [Mission -> RunRow]
      /\ runs[m].token > 0 /\ runs[m].status = "running"
  BY DEF StoreInv, StoreTypeOK, FinishRun, MayFinish, HoldsLease, RowInv, LeasedIffRunning
<1>2. /\ \A n \in Mission \ {m} : runs'[n] = runs[n]
      /\ \A n \in Mission : /\ runs'[n].nextSequence = runs[n].nextSequence
                            /\ runs'[n].token = runs[n].token
      /\ runs'[m].status = outcome
  BY <1>1 DEF FinishRun, FinishedRow, RunRow
<1>3. Log' = Log
  BY <1>2, SameLogs DEF FinishRun
<1>4. Epoch' = Epoch
  BY <1>2 DEF Epoch
<1>5. Ending' = [Ending EXCEPT ![m] = outcome]
  BY <1>2 DEF Ending, EndingOf
<1>6. Ending[m] = "none" /\ Epoch[m] > 0
  BY <1>1 DEF Epoch, Ending, EndingOf, Terminal
<1>7. QED
  BY <1>3, <1>4, <1>5, <1>6 DEF Contract!End, Log, Epoch, Ending, EndingOf

LEMMA RecoveryRepairs ==
  ASSUME StoreInv, StoreInv', Readable, Readable',
         NEW m \in Mission, NEW n \in Nat, CompleteRecovered(m, n)
  PROVE  Contract!Repair(m, n)
<1> DEFINE t == runs[m].token
<1>1. /\ StoreTypeOK /\ StoreTypeOK' /\ LogInv
      /\ runs[m] \in RunRow /\ runs \in [Mission -> RunRow]
      /\ runs[m].status = "failed" /\ t > 0 /\ t \in Nat
  BY DEF StoreInv, StoreTypeOK, RunRow, CompleteRecovered, RowInv, EndedWasClaimed, Terminal
<1>2. RecoveryToken(m) = t
  BY <1>1 DEF RecoveryToken
<1>3. /\ \A k \in Mission \ {m} : runs'[k] = runs[k]
      /\ runs'[m].nextSequence = runs[m].nextSequence + n
      /\ runs'[m].token = t
      /\ runs'[m].status = "completed"
  BY <1>1, <1>2 DEF CompleteRecovered, RecoveredRow, FinishedRow, RunRow
<1>4. /\ runEvents \subseteq runEvents'
      /\ \A e \in runEvents' \ runEvents :
            e.mission = m /\ e.token = t /\ e.sequence >= runs[m].nextSequence
  <2>1. runs[m].nextSequence \in Nat
    BY <1>1 DEF RunRow
  <2>2. QED
    BY <2>1, <1>2 DEF CompleteRecovered, RecoveryEvents
<1>5. /\ LogOf(m)' = LogOf(m) \o [i \in 1..n |-> t]
      /\ \A k \in Mission \ {m} : LogOf(k)' = LogOf(k)
  BY <1>1, <1>3, <1>4, LongerLog
<1>6. Log' = [Log EXCEPT ![m] = @ \o [i \in 1..n |-> Epoch[m]]]
  BY <1>5 DEF Log, Epoch
<1>7. Epoch' = Epoch
  BY <1>3 DEF Epoch
<1>8. Ending' = [Ending EXCEPT ![m] = "completed"] /\ Ending[m] = "failed"
  BY <1>1, <1>3 DEF Ending, EndingOf, Terminal
<1>9. QED
  BY <1>6, <1>7, <1>8 DEF Contract!Repair, Log, Epoch, Ending, EndingOf

\* Every statement is one step of the contract, or none.
LEMMA ContractStep ==
  ASSUME StoreInv, StoreInv', Readable, Readable', [StoreNext]_storeVars
  PROVE  [Contract!ContractNext]_(Contract!contractVars)
<1> DEFINE Seen == [Contract!ContractNext]_(Contract!contractVars)
           Unseen == /\ runEvents' = runEvents
                     /\ \A m \in Mission : /\ runs'[m].nextSequence = runs[m].nextSequence
                                           /\ runs'[m].token = runs[m].token
                                           /\ EndingOf(m)' = EndingOf(m)
<1>a. StoreTypeOK /\ \A m \in Mission : runs[m] \in RunRow
  BY DEF StoreInv, StoreTypeOK
<1>b. ASSUME Unseen
      PROVE  Seen
  BY <1>b, UnseenStep
<1>1. ASSUME NEW m \in Mission, AdmitRun(m) \/ RequestRunCancellation(m)
      PROVE  Unseen
  BY <1>1, <1>a DEF AdmitRun, RequestRunCancellation, StoreTypeOK, RunRow, EndingOf, Terminal
<1>2. ASSUME NEW S \in SUBSET Mission, NEW w \in Worker, ClaimRuns(S, w)
      PROVE  Seen
  BY <1>2, <1>a, ClaimHandsOver DEF Contract!ContractNext
<1>3. ASSUME NEW m \in Mission, NEW w, NEW t, RenewRunLease(m, w, t)
      PROVE  Unseen
  BY <1>3, <1>a DEF RenewRunLease, StoreTypeOK, RunRow, EndingOf
<1>4. ASSUME NEW m \in Mission, NEW w, NEW t, NEW author, AppendRunEvent(m, w, t, author)
      PROVE  Seen
  BY <1>4, AppendRecords DEF Contract!ContractNext
<1>5. ASSUME NEW m \in Mission, NEW w, NEW t, NEW author, NEW outcome \in Terminal,
             FinishRun(m, w, t, outcome, author)
      PROVE  Seen
  BY <1>5, FinishEnds DEF Contract!ContractNext, Terminal
<1>6. ASSUME NEW m \in Mission, NEW n \in 0..TraceLimit, CompleteRecovered(m, n)
      PROVE  Seen
  <2>1. n \in Nat
    BY StoreAssumption
  <2>2. QED
    BY <1>6, <2>1, RecoveryRepairs DEF Contract!ContractNext
<1>7. ASSUME ClockTick
      PROVE  Unseen
  BY <1>7, <1>a DEF ClockTick, RunRow, EndingOf
<1>8. ASSUME UNCHANGED storeVars
      PROVE  Unseen
  BY <1>8 DEF storeVars, EndingOf
<1> HIDE DEF Seen, Unseen
<1>9. Seen
  BY <1>b, <1>1, <1>2, <1>3, <1>4, <1>5, <1>6, <1>7, <1>8 DEF StoreNext
<1>10. QED
  BY <1>9 DEF Seen

\* The run tables keep the promise of RunContract.tla: per run a log that only
\* grows, written under epochs that only grow, an ending that comes once, and at
\* most one repair, whatever statements the replicas and the operator interleave.
THEOREM StoreKeepsContract == StoreSpec => KeepsContract
<1>1. StoreInit => Contract!ContractInit
  <2> SUFFICES ASSUME StoreInit
               PROVE  Log = [m \in Mission |-> <<>>]
    BY DEF StoreInit, AbsentRow, Terminal, Contract!ContractInit, Log
  <2>1. ASSUME NEW m \in Mission
        PROVE  LogOf(m) = <<>>
    <3>1. runs[m].nextSequence = 1
      BY DEF StoreInit, AbsentRow
    <3>2. LogOf(m) = [s \in 1..0 |-> (CHOOSE e \in EventsOf(m) : e.sequence = s).token]
      BY <3>1 DEF LogOf
    <3>3. QED
      BY <3>2
  <2>2. QED
    BY <2>1 DEF Log
<1>2. StoreInv => Readable
  BY LogsAreReadable DEF StoreInv
<1>3. /\ StoreInv /\ StoreInv' /\ Readable /\ Readable'
      /\ [StoreNext]_storeVars
      => [Contract!ContractNext]_(Contract!contractVars)
  BY ContractStep
<1>4. QED
  BY <1>1, <1>2, <1>3, StoreInvariant, PTL DEF StoreSpec, KeepsContract, Contract!ContractSpec

-----------------------------------------------------------------------------
(* RunManager.                                                              *)

\* No claim is ever counted past the bound, and a replica's token is one the
\* row has given out (TokensNameClaims says to whom).
TokensBounded ==
    \A m \in Mission : /\ runs[m].token <= MaxToken
                       /\ \A w \in Worker : life[w][m].token <= MaxToken

Agrees(outcome, status) ==
    /\ outcome \in {"completed", "cancelled"} => status = outcome
    /\ outcome \in {"failed", "recovered"} => status \in {"failed", "completed"}

\* What a lifecycle that is past its execution knows about the row: this is what
\* makes HistoryFollowsRun inductive.
LateLifecycle ==
    \A w \in Worker, m \in Mission :
        LET l == life[w][m] IN
        /\ l.phase = "finishing" => l.outcome \in Terminal
        /\ l.phase = "finished" => runs[m].status \in Terminal
        /\ l.phase = "projecting" => /\ l.outcome \in Terminal
                                     /\ Agrees(l.outcome, runs[m].status)

HistoryInv == LateLifecycle /\ \A m \in Mission : Agrees(missions[m], runs[m].status)

ManagerInv == /\ ManagerTypeOK
              /\ StoreInv
              /\ TokensBounded
              /\ TokensNameClaims
              /\ HistoryInv

-----------------------------------------------------------------------------
(* What the tables see.                                                     *)

\* Credentials the tables accept are those of a worker and of a claim.
LEMMA AcceptedCredentials ==
  ASSUME StoreInv, TokensBounded, NEW m \in Mission, NEW w, NEW t, HoldsLease(m, w, t)
  PROVE  w \in Worker /\ t \in 1..MaxToken
<1>1. runs[m] \in RunRow
  BY DEF StoreInv, StoreTypeOK
<1>2. QED
  BY <1>1, StoreAssumption
     DEF HoldsLease, StoreInv, RowInv, LeasedIffRunning, TokensBounded, RunRow

LEMMA RenewIsStoreStep ==
  ASSUME StoreInv, TokensBounded, NEW m \in Mission, NEW w, NEW t, RenewRunLease(m, w, t)
  PROVE  StoreNext
<1>1. w \in Worker /\ t \in 1..MaxToken
  BY AcceptedCredentials DEF RenewRunLease, MayWrite
<1>2. QED
  BY <1>1 DEF StoreNext

LEMMA AppendIsStoreStep ==
  ASSUME StoreInv, TokensBounded, NEW m \in Mission, NEW w, NEW t,
         NEW author \in 0..MaxToken, AppendRunEvent(m, w, t, author)
  PROVE  StoreNext
<1>1. w \in Worker /\ t \in 1..MaxToken
  BY AcceptedCredentials DEF AppendRunEvent, MayWrite
<1>2. QED
  BY <1>1 DEF StoreNext

LEMMA FinishIsStoreStep ==
  ASSUME StoreInv, TokensBounded, NEW m \in Mission, NEW w, NEW t,
         NEW outcome \in Terminal, NEW author \in 0..MaxToken,
         FinishRun(m, w, t, outcome, author)
  PROVE  StoreNext
<1>1. w \in Worker /\ t \in 1..MaxToken
  BY AcceptedCredentials DEF FinishRun, MayFinish
<1>2. QED
  BY <1>1 DEF StoreNext

\* Whatever a replica does is one statement on the tables, or none.
LEMMA ManagerStepIsStoreStep ==
  ASSUME ManagerInv, [ManagerNext]_vars
  PROVE  [StoreNext]_storeVars
<1>1. /\ StoreInv /\ TokensBounded
      /\ \A w \in Worker, m \in Mission : life[w][m].token \in 0..MaxToken
  BY StoreAssumption DEF ManagerInv, ManagerTypeOK, TokensBounded, Lifecycle
<1>2. ASSUME NEW w \in Worker, NEW m \in Mission, Submit(w, m)
      PROVE  StoreNext
  BY <1>2 DEF Submit, StoreNext
<1>3. ASSUME NEW w \in Worker, NEW m \in Mission, ClaimAdmitted(w, m)
      PROVE  [StoreNext]_storeVars
  BY <1>3 DEF ClaimAdmitted, StoreNext
<1>4. ASSUME NEW w \in Worker, NEW S \in SUBSET Mission, PollClaim(w, S)
      PROVE  StoreNext
  BY <1>4 DEF PollClaim, StoreNext
<1>5. ASSUME NEW w \in Worker, NEW m \in Mission, Heartbeat(w, m)
      PROVE  [StoreNext]_storeVars
  BY <1>1, <1>5, RenewIsStoreStep DEF Heartbeat
<1>6. ASSUME NEW w \in Worker, NEW m \in Mission, CommitAppend(w, m)
      PROVE  [StoreNext]_storeVars
  BY <1>1, <1>6, AppendIsStoreStep DEF CommitAppend
<1>7. ASSUME NEW w \in Worker, NEW m \in Mission, CommitFinish(w, m)
      PROVE  [StoreNext]_storeVars
  <2>1. life[w][m].outcome \in Terminal
    BY <1>7 DEF CommitFinish, ManagerInv, HistoryInv, LateLifecycle
  <2>2. QED
    BY <1>1, <1>7, <2>1, FinishIsStoreStep DEF CommitFinish
<1>8. ASSUME NEW w \in Worker, NEW m \in Mission, Cancel(w, m)
      PROVE  [StoreNext]_storeVars
  BY <1>8 DEF Cancel, StoreNext
<1>9. ASSUME NEW m \in Mission, RecoverRun(m)
      PROVE  [StoreNext]_storeVars
  <2>1. 1 \in 0..TraceLimit
    BY StoreAssumption
  <2>2. QED
    BY <1>9, <2>1 DEF RecoverRun, StoreNext
<1>10. ASSUME Tick
       PROVE  StoreNext
  BY <1>10 DEF Tick, StoreNext
<1>11. ASSUME NEW w \in Worker, NEW m \in Mission,
              \/ Start(w, m) \/ GrantLost(w, m) \/ BeginAppend(w, m) \/ ExecuteReturns(w, m)
              \/ ExecuteThrows(w, m) \/ BeginFinish(w, m) \/ ReadBack(w, m) \/ Project(w, m)
              \/ StoreError(w, m)
       PROVE  UNCHANGED storeVars
  BY <1>11 DEF Start, GrantLost, BeginAppend, ExecuteReturns, ExecuteThrows, BeginFinish,
               ReadBack, Project, StoreError
<1>12. ASSUME NEW w \in Worker, Crash(w) \/ Shutdown(w) \/ Exit(w)
       PROVE  UNCHANGED storeVars
  BY <1>12 DEF Crash, Shutdown, Exit, Halt
<1>13. ASSUME NEW m \in Mission, RecoverMission(m) \/ RecoveryStops(m)
       PROVE  UNCHANGED storeVars
  BY <1>13 DEF RecoverMission, RecoveryStops
<1>14. ASSUME UNCHANGED vars
       PROVE  UNCHANGED storeVars
  BY <1>14 DEF vars, storeVars
<1>15. QED
  BY <1>2, <1>3, <1>4, <1>5, <1>6, <1>7, <1>8, <1>9, <1>10, <1>11, <1>12, <1>13, <1>14
     DEF ManagerNext, LifecycleStep

\* A statement never takes a token back and never counts past the bound.
LEMMA RowTokens ==
  ASSUME StoreInv, TokensBounded, [StoreNext]_storeVars, NEW m \in Mission
  PROVE  runs'[m].token >= runs[m].token /\ runs'[m].token <= MaxToken
<1> DEFINE Fine == runs'[m].token >= runs[m].token /\ runs'[m].token <= MaxToken
<1>1. /\ StoreTypeOK /\ runs \in [Mission -> RunRow]
      /\ runs[m] \in RunRow /\ runs[m].token \in Nat /\ runs[m].token <= MaxToken
      /\ MaxToken \in Nat
  BY StoreAssumption DEF StoreInv, StoreTypeOK, RunRow, TokensBounded
<1>2. ASSUME runs'[m].token = runs[m].token
      PROVE  Fine
  BY <1>1, <1>2
<1>3. ASSUME NEW k \in Mission, AdmitRun(k) \/ RequestRunCancellation(k)
      PROVE  runs'[m].token = runs[m].token
  BY <1>1, <1>3 DEF AdmitRun, RequestRunCancellation, RunRow
<1>4. ASSUME NEW S \in SUBSET Mission, NEW w \in Worker, ClaimRuns(S, w)
      PROVE  Fine
  <2>1. CASE m \in S
    <3>1. runs[m].token < MaxToken /\ runs'[m].token = runs[m].token + 1
      BY <1>1, <1>4, <2>1, ClaimFacts DEF ClaimRuns
    <3>2. QED
      BY <1>1, <3>1
  <2>2. CASE m \notin S
    BY <1>1, <1>4, <2>2, ClaimFacts
  <2>3. QED
    BY <2>1, <2>2
<1>5. ASSUME NEW k \in Mission, NEW w, NEW t, NEW author, NEW outcome,
             \/ RenewRunLease(k, w, t) \/ AppendRunEvent(k, w, t, author)
             \/ FinishRun(k, w, t, outcome, author)
      PROVE  runs'[m].token = runs[m].token
  <2>1. CASE RenewRunLease(k, w, t)
    BY <1>1, <2>1 DEF RenewRunLease, RunRow
  <2>2. CASE AppendRunEvent(k, w, t, author)
    BY <1>1, <2>2 DEF AppendRunEvent, RunRow
  <2>3. CASE FinishRun(k, w, t, outcome, author)
    <3>1. /\ runs' = [runs EXCEPT ![k] = FinishedRow(k, outcome, author)]
          /\ runs[k] \in RunRow
      BY <1>1, <2>3 DEF FinishRun
    <3>2. FinishedRow(k, outcome, author).token = runs[k].token
      BY <3>1 DEF FinishedRow, RunRow
    <3>3. QED
      BY <1>1, <3>1, <3>2
  <2>4. QED
    BY <1>5, <2>1, <2>2, <2>3
<1>6. ASSUME NEW k \in Mission, NEW n, CompleteRecovered(k, n)
      PROVE  runs'[m].token = runs[m].token
  <2>1. runs[k].token > 0 /\ runs[k] \in RunRow
    BY <1>1, <1>6 DEF CompleteRecovered, StoreInv, RowInv, EndedWasClaimed, Terminal
  <2>2. QED
    BY <1>1, <1>6, <2>1 DEF CompleteRecovered, RecoveredRow, FinishedRow, RecoveryToken, RunRow
<1>7. ASSUME ClockTick \/ UNCHANGED storeVars
      PROVE  runs'[m].token = runs[m].token
  BY <1>1, <1>7 DEF ClockTick, storeVars, RunRow
<1> HIDE DEF Fine
<1>8. Fine
  BY <1>2, <1>3, <1>4, <1>5, <1>6, <1>7 DEF StoreNext
<1>9. QED
  BY <1>8 DEF Fine

\* A run that has an outcome keeps it, or is repaired.
LEMMA OutcomeStays ==
  ASSUME StoreInv, [StoreNext]_storeVars, NEW m \in Mission, runs[m].status \in Terminal
  PROVE  /\ runs'[m].status \in Terminal
         /\ \A outcome : /\ outcome # "none"
                         /\ outcome \in {"none", "recovered"} \cup Terminal
                         /\ Agrees(outcome, runs[m].status)
                         => Agrees(outcome, runs'[m].status)
<1>1. \/ runs'[m].status = runs[m].status
      \/ runs[m].status = "failed" /\ runs'[m].status = "completed"
  BY HistoryStep DEF HistoryStays, storeVars
<1>2. QED
  BY <1>1 DEF Agrees, Terminal

-----------------------------------------------------------------------------
(* What the replicas remember.                                              *)

\* The replicas' own part of the type invariant.
MemoryTypeOK == /\ process \in [Worker -> {"up", "draining", "down"}]
                /\ admitting \subseteq Worker \X Mission
                /\ granted \in [Worker -> [Mission -> 0..MaxToken]]
                /\ life \in [Worker -> [Mission -> Lifecycle]]
                /\ missions \in [Mission -> {"none", "recovered"} \cup Terminal]
                /\ recovering \subseteq Mission
                /\ faults \in 0..MaxFaults

\* A step in which a lifecycle keeps its token, drops it or takes over the one
\* its claim was granted, and in which no other claim is granted.
TokenPasses(w, m) ==
    \/ /\ life'[w][m].token \in {life[w][m].token, 0}
       /\ granted'[w][m] \in {granted[w][m], 0}
    \/ life'[w][m].token = granted[w][m] /\ granted'[w][m] = 0

\* A step in which a lifecycle that is past its execution may rely on what it
\* relied on before, or establishes it.
OutcomePasses(w, m) ==
    LET l == life'[w][m] IN
    \/ l.phase = life[w][m].phase /\ l.outcome = life[w][m].outcome
    \/ /\ l.phase = "finishing" => l.outcome \in Terminal
       /\ l.phase = "finished" => runs'[m].status \in Terminal
       /\ l.phase = "projecting" => /\ l.outcome \in Terminal
                                    /\ Agrees(l.outcome, runs'[m].status)

\* Saved missions stay, or are saved in agreement with the row.
MissionPasses(m) == missions'[m] = missions[m] \/ Agrees(missions'[m], runs'[m].status)

LEMMA TokensPassOn ==
  ASSUME ManagerInv, [StoreNext]_storeVars, MemoryTypeOK',
         \A w \in Worker, m \in Mission : TokenPasses(w, m)
  PROVE  TokensBounded' /\ TokensNameClaims'
<1>1. \A w \in Worker, m \in Mission :
         /\ life[w][m].token \in Nat /\ life'[w][m].token \in Nat
         /\ granted[w][m] \in 0..MaxToken /\ granted'[w][m] \in 0..MaxToken
         /\ life[w][m].token <= MaxToken
  BY DEF ManagerInv, ManagerTypeOK, MemoryTypeOK, Lifecycle, TokensBounded
<1>2. \A m \in Mission : /\ runs'[m].token >= runs[m].token /\ runs'[m].token <= MaxToken
                         /\ runs[m].token \in Nat /\ runs'[m].token \in Nat
  BY RowTokens, StoreInvStep DEF ManagerInv, StoreInv, StoreTypeOK, RunRow
<1>3. ASSUME NEW w \in Worker, NEW m \in Mission
      PROVE  life'[w][m].token <= MaxToken
  BY <1>1, StoreAssumption DEF TokenPasses
<1>4. ASSUME NEW w \in Worker, NEW m \in Mission, NEW t \in 1..MaxToken, Holds(w, m, t)'
      PROVE  Holds(w, m, t)
  BY <1>1, <1>4 DEF TokenPasses, Holds
<1>5. ASSUME NEW m \in Mission, NEW w \in Worker, NEW t \in 1..MaxToken, Holds(w, m, t)'
      PROVE  /\ t <= runs'[m].token
             /\ \A v \in Worker : Holds(v, m, t)' => v = w
             /\ life'[w][m].token # granted'[w][m]
  <2>1. /\ Holds(w, m, t)
        /\ t <= runs[m].token
        /\ \A v \in Worker : Holds(v, m, t) => v = w
        /\ life[w][m].token # granted[w][m]
    BY <1>4, <1>5 DEF ManagerInv, TokensNameClaims
  <2>2. t <= runs'[m].token
    BY <1>2, <2>1
  <2>3. \A v \in Worker : Holds(v, m, t)' => v = w
    BY <1>4, <2>1
  <2>4. life'[w][m].token # granted'[w][m]
    BY <1>1, <1>5, <2>1 DEF TokenPasses, Holds
  <2>5. QED
    BY <2>2, <2>3, <2>4
<1>6. QED
  BY <1>2, <1>3, <1>5 DEF TokensBounded, TokensNameClaims

LEMMA OutcomesPassOn ==
  ASSUME ManagerInv, [StoreNext]_storeVars, MemoryTypeOK',
         \A w \in Worker, m \in Mission : OutcomePasses(w, m),
         \A m \in Mission : MissionPasses(m)
  PROVE  HistoryInv'
<1>1. ASSUME NEW w \in Worker, NEW m \in Mission
      PROVE  LET l == life'[w][m] IN
             /\ l.phase = "finishing" => l.outcome \in Terminal
             /\ l.phase = "finished" => runs'[m].status \in Terminal
             /\ l.phase = "projecting" => /\ l.outcome \in Terminal
                                          /\ Agrees(l.outcome, runs'[m].status)
  <2> DEFINE old == life[w][m]
             new == life'[w][m]
  <2>1. CASE new.phase = old.phase /\ new.outcome = old.outcome
    <3>1. CASE new.phase = "finishing"
      BY <2>1, <3>1 DEF ManagerInv, HistoryInv, LateLifecycle
    <3>2. CASE new.phase = "finished"
      <4>1. runs[m].status \in Terminal
        BY <2>1, <3>2 DEF ManagerInv, HistoryInv, LateLifecycle
      <4>2. QED
        BY <3>2, <4>1, OutcomeStays DEF ManagerInv
    <3>3. CASE new.phase = "projecting"
      <4>1. old.outcome \in Terminal /\ Agrees(old.outcome, runs[m].status)
        BY <2>1, <3>3 DEF ManagerInv, HistoryInv, LateLifecycle
      <4>2. runs[m].status \in Terminal /\ old.outcome # "none"
        BY <4>1 DEF Agrees, Terminal
      <4>3. Agrees(old.outcome, runs'[m].status)
        BY <4>1, <4>2, OutcomeStays DEF ManagerInv
      <4>4. QED
        BY <2>1, <3>3, <4>1, <4>3
    <3>4. QED
      BY <3>1, <3>2, <3>3
  <2>2. CASE ~(new.phase = old.phase /\ new.outcome = old.outcome)
    BY <2>2 DEF OutcomePasses
  <2>3. QED
    BY <2>1, <2>2
<1>2. ASSUME NEW m \in Mission
      PROVE  Agrees(missions'[m], runs'[m].status)
  <2>1. CASE missions'[m] = missions[m]
    <3>1. /\ Agrees(missions[m], runs[m].status)
          /\ missions[m] \in {"none", "recovered"} \cup Terminal
      BY DEF ManagerInv, HistoryInv, ManagerTypeOK
    <3>2. CASE missions[m] = "none"
      BY <2>1, <3>2 DEF Agrees
    <3>3. CASE missions[m] # "none"
      <4>1. runs[m].status \in Terminal
        BY <3>1, <3>3 DEF Agrees, Terminal
      <4>2. QED
        BY <2>1, <3>1, <3>3, <4>1, OutcomeStays DEF ManagerInv
    <3>4. QED
      BY <3>2, <3>3
  <2>2. CASE missions'[m] # missions[m]
    BY <2>2 DEF MissionPasses
  <2>3. QED
    BY <2>1, <2>2
<1>3. QED
  BY <1>1, <1>2 DEF HistoryInv, LateLifecycle

\* A claim that is granted is granted under a token nobody holds.
LEMMA GrantsAreFresh ==
  ASSUME ManagerInv, MemoryTypeOK', NEW w \in Worker, NEW S \in SUBSET Mission,
         ClaimRuns(S, w), life' = life,
         \A m \in S : granted[w][m] = 0,
         \A v \in Worker, m \in Mission :
            granted'[v][m] = IF v = w /\ m \in S THEN runs[m].token + 1 ELSE granted[v][m]
  PROVE  TokensBounded' /\ TokensNameClaims'
<1>1. \A v \in Worker, m \in Mission :
         /\ life[v][m].token \in Nat /\ life[v][m].token <= MaxToken
         /\ granted[v][m] \in 0..MaxToken /\ granted'[v][m] \in 0..MaxToken
  BY DEF ManagerInv, ManagerTypeOK, MemoryTypeOK, Lifecycle, TokensBounded
<1>2. [StoreNext]_storeVars /\ StoreTypeOK
  BY DEF StoreNext, ManagerInv, ManagerTypeOK
<1>3. \A m \in Mission : /\ runs'[m].token >= runs[m].token /\ runs'[m].token <= MaxToken
                         /\ runs[m].token \in Nat /\ runs'[m].token \in Nat
  BY <1>2, RowTokens, StoreInvStep DEF ManagerInv, StoreInv, StoreTypeOK, RunRow
<1>4. \A m \in S : runs'[m].token = runs[m].token + 1
  BY <1>2, ClaimFacts
<1>5. ASSUME NEW v \in Worker, NEW m \in Mission, NEW t \in 1..MaxToken, Holds(v, m, t)'
      PROVE  \/ Holds(v, m, t)
             \/ v = w /\ m \in S /\ t = runs[m].token + 1
  BY <1>1, <1>5 DEF Holds
<1>6. ASSUME NEW m \in Mission, NEW v \in Worker, NEW t \in 1..MaxToken, Holds(v, m, t)'
      PROVE  /\ t <= runs'[m].token
             /\ \A u \in Worker : Holds(u, m, t)' => u = v
             /\ life'[v][m].token # granted'[v][m]
  <2>1. \A u \in Worker, s \in 1..MaxToken : Holds(u, m, s) =>
           /\ s <= runs[m].token
           /\ \A x \in Worker : Holds(x, m, s) => x = u
           /\ life[u][m].token # granted[u][m]
    BY DEF ManagerInv, TokensNameClaims
  <2>2. t <= runs'[m].token
    BY <1>3, <1>4, <1>5, <1>6, <2>1
  <2>3. ASSUME NEW u \in Worker, Holds(u, m, t)'
        PROVE  u = v
    BY <1>3, <1>5, <1>6, <2>1, <2>3
  <2>4. life'[v][m].token # granted'[v][m]
    <3>1. life[v][m].token > 0 => life[v][m].token <= runs[m].token
      BY <1>1, <2>1 DEF Holds
    <3>2. CASE v = w /\ m \in S
      BY <1>1, <1>3, <3>1, <3>2
    <3>3. CASE ~(v = w /\ m \in S)
      BY <1>1, <1>5, <1>6, <2>1, <3>3
    <3>4. QED
      BY <3>2, <3>3
  <2>5. QED
    BY <2>2, <2>3, <2>4
<1>7. QED
  BY <1>1, <1>3, <1>6 DEF TokensBounded, TokensNameClaims

-----------------------------------------------------------------------------
(* One action at a time.                                                    *)

OthersTypeOK == /\ process \in [Worker -> {"up", "draining", "down"}]
                /\ admitting \subseteq Worker \X Mission
                /\ missions \in [Mission -> {"none", "recovered"} \cup Terminal]
                /\ recovering \subseteq Mission
                /\ faults \in 0..MaxFaults

\* The entries the handlers write.
LEMMA EntryTypes ==
  ASSUME NEW l \in Lifecycle
  PROVE  /\ Aborted(l) \in Lifecycle /\ Aborted(l).phase = l.phase
         /\ Aborted(l).token = l.token /\ Aborted(l).outcome = l.outcome
         /\ Broken(l) \in Lifecycle /\ Broken(l).phase = l.phase
         /\ Broken(l).token = l.token /\ Broken(l).outcome = l.outcome
         /\ Appended(l) \in Lifecycle /\ Appended(l).phase = "executing"
         /\ Appended(l).token = l.token
         /\ Off \in Lifecycle /\ Off.token = 0 /\ Off.phase = "off"
         /\ AfterRefusal(l) \in Lifecycle /\ AfterRefusal(l).phase \in {"threw", "off"}
         /\ AfterRefusal(l).token \in {l.token, 0}
<1>1. NoCred \in [owner : Worker \cup {NoOwner}, token : Nat]
  BY DEF NoCred
<1>2. Off \in Lifecycle /\ Off.token = 0 /\ Off.phase = "off"
  BY <1>1 DEF Off, Lifecycle, Phase
<1>3. /\ Aborted(l) \in Lifecycle /\ Aborted(l).phase = l.phase
      /\ Aborted(l).token = l.token /\ Aborted(l).outcome = l.outcome
  BY DEF Aborted, Lifecycle
<1>4. /\ Broken(l) \in Lifecycle /\ Broken(l).phase = l.phase
      /\ Broken(l).token = l.token /\ Broken(l).outcome = l.outcome
  BY <1>3 DEF Broken, Lifecycle
<1>5. /\ Appended(l) \in Lifecycle /\ Appended(l).phase = "executing"
      /\ Appended(l).token = l.token
  BY <1>1 DEF Appended, Lifecycle, Phase
<1>6. /\ AfterRefusal(l) \in Lifecycle /\ AfterRefusal(l).phase \in {"threw", "off"}
      /\ AfterRefusal(l).token \in {l.token, 0}
  BY <1>1, <1>2 DEF AfterRefusal, Lifecycle, Phase
<1>7. QED
  BY <1>2, <1>3, <1>4, <1>5, <1>6

\* A step that replaces one entry by e.
LEMMA EntryKeeps ==
  ASSUME ManagerInv, [StoreNext]_storeVars, OthersTypeOK', granted' = granted,
         \A k \in Mission : MissionPasses(k),
         NEW w \in Worker, NEW m \in Mission, NEW e \in Lifecycle, SetLife(w, m, e),
         e.token \in {life[w][m].token, 0},
         \/ e.phase = life[w][m].phase /\ e.outcome = life[w][m].outcome
         \/ /\ e.phase = "finishing" => e.outcome \in Terminal
            /\ e.phase = "finished" => runs'[m].status \in Terminal
            /\ e.phase = "projecting" => /\ e.outcome \in Terminal
                                         /\ Agrees(e.outcome, runs'[m].status)
  PROVE  ManagerInv'
<1>1. /\ life \in [Worker -> [Mission -> Lifecycle]]
      /\ granted \in [Worker -> [Mission -> 0..MaxToken]]
  BY DEF ManagerInv, ManagerTypeOK
<1>2. /\ life'[w][m] = e
      /\ \A v \in Worker, k \in Mission : v # w \/ k # m => life'[v][k] = life[v][k]
      /\ life' \in [Worker -> [Mission -> Lifecycle]]
  BY <1>1 DEF SetLife
<1>3. MemoryTypeOK'
  BY <1>1, <1>2 DEF OthersTypeOK, MemoryTypeOK
<1>4. \A v \in Worker, k \in Mission : TokenPasses(v, k)
  BY <1>2 DEF TokenPasses
<1>5. \A v \in Worker, k \in Mission : OutcomePasses(v, k)
  BY <1>2 DEF OutcomePasses
<1>6. StoreInv'
  BY StoreInvStep DEF ManagerInv
<1>7. QED
  BY <1>3, <1>4, <1>5, <1>6, TokensPassOn, OutcomesPassOn
     DEF ManagerInv, ManagerTypeOK, MemoryTypeOK, StoreInv

\* A step that leaves the entries alone and grants nothing.
LEMMA CalmKeeps ==
  ASSUME ManagerInv, [StoreNext]_storeVars, OthersTypeOK', life' = life,
         granted' \in [Worker -> [Mission -> 0..MaxToken]],
         \A v \in Worker, k \in Mission : granted'[v][k] \in {granted[v][k], 0},
         \A k \in Mission : MissionPasses(k)
  PROVE  ManagerInv'
<1>1. MemoryTypeOK'
  BY DEF OthersTypeOK, MemoryTypeOK, ManagerInv, ManagerTypeOK
<1>2. \A v \in Worker, k \in Mission : TokenPasses(v, k) /\ OutcomePasses(v, k)
  BY DEF TokenPasses, OutcomePasses
<1>3. StoreInv'
  BY StoreInvStep DEF ManagerInv
<1>4. QED
  BY <1>1, <1>2, <1>3, TokensPassOn, OutcomesPassOn
     DEF ManagerInv, ManagerTypeOK, MemoryTypeOK, StoreInv

\* A step that grants a claim.
LEMMA ClaimKeeps ==
  ASSUME ManagerInv, NEW w \in Worker, NEW S \in SUBSET Mission,
         ClaimRuns(S, w), life' = life, missions' = missions, OthersTypeOK',
         \A m \in S : granted[w][m] = 0,
         granted' = [granted EXCEPT ![w] =
                       [m \in Mission |-> IF m \in S THEN runs[m].token + 1 ELSE @[m]]]
  PROVE  ManagerInv'
<1>1. /\ granted \in [Worker -> [Mission -> 0..MaxToken]]
      /\ \A m \in Mission : runs[m].token \in Nat
      /\ \A m \in S : runs[m].token < MaxToken
      /\ MaxToken \in Nat
  BY StoreAssumption DEF ManagerInv, ManagerTypeOK, StoreTypeOK, RunRow, ClaimRuns
<1>2. \A m \in S : runs[m].token + 1 \in 0..MaxToken
  BY <1>1
<1>3. /\ granted' \in [Worker -> [Mission -> 0..MaxToken]]
      /\ \A v \in Worker, m \in Mission :
            granted'[v][m] = IF v = w /\ m \in S THEN runs[m].token + 1 ELSE granted[v][m]
  BY <1>1, <1>2
<1>4. MemoryTypeOK'
  BY <1>3 DEF OthersTypeOK, MemoryTypeOK, ManagerInv, ManagerTypeOK
<1>5. [StoreNext]_storeVars
  BY DEF StoreNext
<1>6. StoreInv'
  BY <1>5, StoreInvStep DEF ManagerInv
<1>7. /\ \A v \in Worker, k \in Mission : OutcomePasses(v, k)
      /\ \A k \in Mission : MissionPasses(k)
  BY DEF OutcomePasses, MissionPasses
<1>8. QED
  BY <1>3, <1>4, <1>5, <1>6, <1>7, GrantsAreFresh, OutcomesPassOn
     DEF ManagerInv, ManagerTypeOK, MemoryTypeOK, StoreInv

\* A process that stops, or is told to: every entry is dropped or aborted.
LEMMA ProcessKeeps ==
  ASSUME ManagerInv, UNCHANGED storeVars, UNCHANGED missions, OthersTypeOK',
         NEW w \in Worker, Halt(w) \/ (granted' = granted /\
            life' = [life EXCEPT ![w] = [m \in Mission |-> Aborted(life[w][m])]])
  PROVE  ManagerInv'
<1>1. /\ life \in [Worker -> [Mission -> Lifecycle]]
      /\ granted \in [Worker -> [Mission -> 0..MaxToken]]
      /\ MaxToken \in Nat
  BY StoreAssumption DEF ManagerInv, ManagerTypeOK
<1>2. /\ granted' \in [Worker -> [Mission -> 0..MaxToken]]
      /\ \A v \in Worker, k \in Mission : granted'[v][k] \in {granted[v][k], 0}
  <2>1. CASE granted' = granted
    BY <1>1, <2>1
  <2>2. CASE granted' = [granted EXCEPT ![w] = [m \in Mission |-> 0]]
    <3>1. 0 \in 0..MaxToken
      BY <1>1
    <3>2. QED
      BY <1>1, <2>2, <3>1
  <2>3. QED
    BY <2>1, <2>2 DEF Halt
<1>3. /\ life' \in [Worker -> [Mission -> Lifecycle]]
      /\ \A v \in Worker, k \in Mission :
           \/ life'[v][k] = life[v][k]
           \/ life'[v][k] = Off
           \/ life'[v][k] = Aborted(life[v][k])
  <2>1. CASE Halt(w)
    <3>1. Off \in Lifecycle
      BY DEF Off, NoCred, Lifecycle, Phase
    <3>2. QED
      BY <1>1, <2>1, <3>1 DEF Halt
  <2>2. CASE life' = [life EXCEPT ![w] = [m \in Mission |-> Aborted(life[w][m])]]
    BY <1>1, <2>2, EntryTypes
  <2>3. QED
    BY <2>1, <2>2
<1>4. \A v \in Worker, k \in Mission : TokenPasses(v, k) /\ OutcomePasses(v, k)
  <2> SUFFICES ASSUME NEW v \in Worker, NEW k \in Mission
               PROVE  TokenPasses(v, k) /\ OutcomePasses(v, k)
    OBVIOUS
  <2>1. life[v][k] \in Lifecycle
    BY <1>1
  <2>2. \/ life'[v][k].token = life[v][k].token /\ life'[v][k].phase = life[v][k].phase
           /\ life'[v][k].outcome = life[v][k].outcome
        \/ life'[v][k].token = 0 /\ life'[v][k].phase = "off"
    <3>1. CASE life'[v][k] = life[v][k]
      BY <3>1
    <3>2. CASE life'[v][k] = Off
      BY <2>1, <3>2, EntryTypes
    <3>3. CASE life'[v][k] = Aborted(life[v][k])
      BY <2>1, <3>3, EntryTypes
    <3>4. QED
      BY <1>3, <3>1, <3>2, <3>3
  <2>3. QED
    BY <1>2, <2>2 DEF TokenPasses, OutcomePasses
<1>5. MemoryTypeOK'
  BY <1>2, <1>3 DEF OthersTypeOK, MemoryTypeOK
<1>6. StoreInv' /\ \A k \in Mission : MissionPasses(k)
  BY StoreInvStep DEF ManagerInv, MissionPasses
<1>7. QED
  BY <1>4, <1>5, <1>6, TokensPassOn, OutcomesPassOn
     DEF ManagerInv, ManagerTypeOK, MemoryTypeOK, StoreInv

LEMMA ManagerStep ==
  ASSUME ManagerInv, [ManagerNext]_vars
  PROVE  ManagerInv'
<1>a. [StoreNext]_storeVars
  BY ManagerStepIsStoreStep
<1>b. /\ OthersTypeOK
      /\ life \in [Worker -> [Mission -> Lifecycle]]
      /\ granted \in [Worker -> [Mission -> 0..MaxToken]]
      /\ faults \in Nat /\ MaxFaults \in Nat /\ 0 \in 0..MaxToken
  BY ManagerAssumption, StoreAssumption DEF ManagerInv, ManagerTypeOK, OthersTypeOK
<1>c. ASSUME UNCHANGED faults \/ Fault
      PROVE  faults' \in 0..MaxFaults
  BY <1>b, <1>c DEF Fault, OthersTypeOK
<1>d. ASSUME UNCHANGED missions
      PROVE  \A k \in Mission : MissionPasses(k)
  BY <1>d DEF MissionPasses
<1>1. ASSUME NEW w \in Worker, NEW m \in Mission, Submit(w, m)
      PROVE  ManagerInv'
  <2>1. OthersTypeOK'
    BY <1>1, <1>b DEF Submit, OthersTypeOK
  <2>2. QED
    BY <1>1, <1>a, <1>b, <1>d, <2>1, CalmKeeps DEF Submit
<1>2. ASSUME NEW w \in Worker, NEW m \in Mission, ClaimAdmitted(w, m)
      PROVE  ManagerInv'
  <2>1. OthersTypeOK'
    BY <1>2, <1>b DEF ClaimAdmitted, OthersTypeOK
  <2>2. CASE ClaimRuns({m}, w)
    <3>1. granted[w][m] = 0 /\ life' = life /\ missions' = missions
      BY <1>2 DEF ClaimAdmitted
    <3>2. granted' = [granted EXCEPT ![w][m] = runs[m].token + 1]
      BY <1>2, <2>2 DEF ClaimAdmitted, ClaimRuns
    <3>3. granted' = [granted EXCEPT ![w] =
                        [k \in Mission |-> IF k \in {m} THEN runs[k].token + 1 ELSE @[k]]]
      BY <1>b, <3>2
    <3>4. \A k \in {m} : granted[w][k] = 0
      BY <3>1
    <3>5. {m} \in SUBSET Mission
      OBVIOUS
    <3>6. QED
      BY <2>1, <2>2, <3>1, <3>3, <3>4, <3>5, ClaimKeeps
  <2>3. CASE UNCHANGED <<storeVars, granted>>
    BY <1>2, <1>a, <1>b, <1>d, <2>1, <2>3, CalmKeeps DEF ClaimAdmitted
  <2>4. QED
    BY <1>2, <2>2, <2>3 DEF ClaimAdmitted
<1>3. ASSUME NEW w \in Worker, NEW S \in SUBSET Mission, PollClaim(w, S)
      PROVE  ManagerInv'
  <2>1. OthersTypeOK'
    BY <1>3, <1>b DEF PollClaim, OthersTypeOK
  <2>2. QED
    BY <1>3, <2>1, ClaimKeeps DEF PollClaim
<1>4. ASSUME NEW w \in Worker, NEW m \in Mission, Start(w, m)
      PROVE  ManagerInv'
  <2>1. OthersTypeOK'
    BY <1>4, <1>b DEF Start, OthersTypeOK
  <2>2. /\ granted' \in [Worker -> [Mission -> 0..MaxToken]]
        /\ granted'[w][m] = 0
        /\ \A v \in Worker, k \in Mission : v # w \/ k # m => granted'[v][k] = granted[v][k]
    BY <1>4, <1>b DEF Start
  <2>3. \A v \in Worker, k \in Mission : granted'[v][k] \in {granted[v][k], 0}
    BY <2>2
  <2>4. CASE UNCHANGED life
    BY <1>4, <1>a, <1>d, <2>1, <2>2, <2>3, <2>4, CalmKeeps DEF Start
  <2>5. CASE SetLife(w, m, [Off EXCEPT !.phase = "executing", !.token = granted[w][m]])
    <3> DEFINE e == [Off EXCEPT !.phase = "executing", !.token = granted[w][m]]
    <3>1. e \in Lifecycle /\ e.phase = "executing" /\ e.token = granted[w][m]
      <4>1. Off \in Lifecycle
        BY DEF Off, NoCred, Lifecycle, Phase
      <4>2. granted[w][m] \in Nat
        BY <1>b, StoreAssumption
      <4> HIDE DEF Off
      <4>3. QED
        BY <4>1, <4>2 DEF Lifecycle, Phase
    <3> HIDE DEF e
    <3>2. /\ life' \in [Worker -> [Mission -> Lifecycle]]
          /\ life'[w][m] = e
          /\ \A v \in Worker, k \in Mission : v # w \/ k # m => life'[v][k] = life[v][k]
      BY <1>b, <2>5, <3>1 DEF SetLife, e
    <3>3. MemoryTypeOK'
      BY <2>1, <2>2, <3>2 DEF OthersTypeOK, MemoryTypeOK
    <3>4. \A v \in Worker, k \in Mission : TokenPasses(v, k) /\ OutcomePasses(v, k)
      BY <2>2, <3>1, <3>2 DEF TokenPasses, OutcomePasses
    <3>5. StoreInv' /\ \A k \in Mission : MissionPasses(k)
      BY <1>4, <1>a, <1>d, StoreInvStep DEF Start, ManagerInv
    <3>6. QED
      BY <1>a, <3>3, <3>4, <3>5, TokensPassOn, OutcomesPassOn
         DEF ManagerInv, ManagerTypeOK, MemoryTypeOK, StoreInv
  <2>6. QED
    BY <1>4, <2>4, <2>5 DEF Start
<1>5. ASSUME NEW w \in Worker, NEW m \in Mission, GrantLost(w, m)
      PROVE  ManagerInv'
  <2>1. OthersTypeOK'
    BY <1>5, <1>b, <1>c DEF GrantLost, OthersTypeOK
  <2>2. /\ granted' \in [Worker -> [Mission -> 0..MaxToken]]
        /\ \A v \in Worker, k \in Mission : granted'[v][k] \in {granted[v][k], 0}
    BY <1>5, <1>b DEF GrantLost
  <2>3. QED
    BY <1>5, <1>a, <1>d, <2>1, <2>2, CalmKeeps DEF GrantLost
<1>6. ASSUME NEW w \in Worker, Crash(w) \/ Shutdown(w) \/ Exit(w)
      PROVE  ManagerInv'
  <2>1. OthersTypeOK'
    <3>1. process' \in [Worker -> {"up", "draining", "down"}]
      BY <1>6, <1>b DEF Crash, Shutdown, Exit, Halt, OthersTypeOK
    <3>2. UNCHANGED faults \/ Fault
      BY <1>6 DEF Crash, Shutdown, Exit
    <3>3. admitting' \subseteq admitting /\ UNCHANGED <<missions, recovering>>
      BY <1>6 DEF Crash, Shutdown, Exit, Halt
    <3>4. QED
      BY <1>b, <1>c, <3>1, <3>2, <3>3 DEF OthersTypeOK
  <2>2. /\ UNCHANGED storeVars /\ UNCHANGED missions
        /\ Halt(w) \/ (granted' = granted /\
             life' = [life EXCEPT ![w] = [m \in Mission |-> Aborted(life[w][m])]])
    BY <1>6 DEF Crash, Shutdown, Exit, Halt
  <2>3. QED
    BY <2>1, <2>2, ProcessKeeps
<1>7. ASSUME NEW w \in Worker, NEW m \in Mission, LifecycleStep(w, m) \/ Cancel(w, m)
      PROVE  ManagerInv'
  <2> DEFINE l == life[w][m]
  <2>a. l \in Lifecycle
    BY <1>b
  <2>b. ASSUME granted' = granted, UNCHANGED <<process, admitting, missions, recovering>>,
               UNCHANGED faults \/ Fault, NEW e \in Lifecycle, SetLife(w, m, e),
               e.token \in {l.token, 0},
               \/ e.phase = l.phase /\ e.outcome = l.outcome
               \/ /\ e.phase = "finishing" => e.outcome \in Terminal
                  /\ e.phase = "finished" => runs'[m].status \in Terminal
                  /\ e.phase = "projecting" => /\ e.outcome \in Terminal
                                               /\ Agrees(e.outcome, runs'[m].status)
        PROVE  ManagerInv'
    <3>1. OthersTypeOK'
      BY <1>b, <1>c, <2>b DEF OthersTypeOK
    <3>2. QED
      BY <1>a, <1>d, <2>b, <3>1, EntryKeeps
  <2> HIDE DEF l
  <2>1. CASE Heartbeat(w, m)
    <3>1. CASE UNCHANGED life
      <4>1. OthersTypeOK' /\ granted' = granted /\ missions' = missions
        BY <1>b, <2>1 DEF Heartbeat, OthersTypeOK
      <4>2. QED
        BY <1>a, <1>b, <1>d, <3>1, <4>1, CalmKeeps
    <3>2. CASE SetLife(w, m, Broken(l))
      BY <2>1, <2>a, <2>b, <3>2, EntryTypes DEF Heartbeat
    <3>3. QED
      BY <2>1, <3>1, <3>2 DEF Heartbeat, l
  <2>2. CASE BeginAppend(w, m)
    <3>1. CASE SetLife(w, m, Broken(l))
      BY <2>2, <2>a, <2>b, <3>1, EntryTypes DEF BeginAppend
    <3>2. CASE SetLife(w, m, [l EXCEPT !.phase = "appending", !.cred = CurrentCred(m)])
      <4> DEFINE e == [l EXCEPT !.phase = "appending", !.cred = CurrentCred(m)]
      <4>1. CurrentCred(m) \in [owner : Worker \cup {NoOwner}, token : Nat]
        BY DEF CurrentCred, ManagerInv, ManagerTypeOK, StoreTypeOK, RunRow
      <4>2. e \in Lifecycle /\ e.phase = "appending" /\ e.token = l.token
        BY <2>a, <4>1 DEF Lifecycle, Phase
      <4> HIDE DEF e
      <4>3. SetLife(w, m, e)
        BY <3>2 DEF e
      <4>4. QED
        BY <2>2, <2>b, <4>2, <4>3 DEF BeginAppend
    <3>3. QED
      BY <2>2, <3>1, <3>2 DEF BeginAppend, l
  <2>3. CASE CommitAppend(w, m)
    <3>1. CASE SetLife(w, m, Appended(l))
      BY <2>3, <2>a, <2>b, <3>1, EntryTypes DEF CommitAppend
    <3>2. CASE SetLife(w, m, Broken(Appended(l)))
      <4>1. Appended(l) \in Lifecycle /\ Appended(l).phase = "executing"
            /\ Appended(l).token = l.token
        BY <2>a, EntryTypes
      <4>2. /\ Broken(Appended(l)) \in Lifecycle
            /\ Broken(Appended(l)).phase = "executing"
            /\ Broken(Appended(l)).token = l.token
        BY <4>1, EntryTypes
      <4>3. QED
        BY <2>3, <2>b, <3>2, <4>2 DEF CommitAppend
    <3>3. QED
      BY <2>3, <3>1, <3>2 DEF CommitAppend, l
  <2>4. CASE ExecuteReturns(w, m) \/ ExecuteThrows(w, m)
    <3>1. ASSUME NEW p \in {"threw", "returned"},
                 SetLife(w, m, [l EXCEPT !.phase = p, !.aborted = FALSE])
          PROVE  ManagerInv'
      <4> DEFINE e == [l EXCEPT !.phase = p, !.aborted = FALSE]
      <4>1. e \in Lifecycle /\ e.phase \in {"threw", "returned"} /\ e.token = l.token
        BY <2>a DEF Lifecycle, Phase
      <4> HIDE DEF e
      <4>2. SetLife(w, m, e)
        BY <3>1 DEF e
      <4>3. QED
        BY <2>4, <2>b, <4>1, <4>2 DEF ExecuteReturns, ExecuteThrows
    <3>2. QED
      BY <2>4, <3>1 DEF ExecuteReturns, ExecuteThrows, l
  <2>5. CASE BeginFinish(w, m)
    <3>1. Outcome(l, m) \in Terminal
      BY DEF Outcome, Terminal
    <3>2. CASE SetLife(w, m, [l EXCEPT !.phase = "finishing", !.cred = CurrentCred(m),
                                       !.outcome = Outcome(l, m)])
      <4> DEFINE e == [l EXCEPT !.phase = "finishing", !.cred = CurrentCred(m),
                                !.outcome = Outcome(l, m)]
      <4>1. CurrentCred(m) \in [owner : Worker \cup {NoOwner}, token : Nat]
        BY DEF CurrentCred, ManagerInv, ManagerTypeOK, StoreTypeOK, RunRow
      <4>2. /\ e \in Lifecycle /\ e.phase = "finishing" /\ e.token = l.token
            /\ e.outcome \in Terminal
        BY <2>a, <3>1, <4>1 DEF Lifecycle, Phase
      <4> HIDE DEF e
      <4>3. SetLife(w, m, e)
        BY <3>2 DEF e
      <4>4. QED
        BY <2>5, <2>b, <4>2, <4>3 DEF BeginFinish
    <3>3. CASE /\ runs[m].status \in Terminal
               /\ SetLife(w, m, [l EXCEPT !.phase = "finished", !.outcome = Outcome(l, m)])
      <4> DEFINE e == [l EXCEPT !.phase = "finished", !.outcome = Outcome(l, m)]
      <4>1. e \in Lifecycle /\ e.phase = "finished" /\ e.token = l.token
        BY <2>a, <3>1 DEF Lifecycle, Phase
      <4> HIDE DEF e
      <4>2. SetLife(w, m, e) /\ runs'[m].status \in Terminal
        BY <2>5, <3>3 DEF e, BeginFinish, storeVars
      <4>3. QED
        BY <2>5, <2>b, <4>1, <4>2 DEF BeginFinish
    <3>4. QED
      BY <2>5, <3>2, <3>3 DEF BeginFinish, l
  <2>6. CASE CommitFinish(w, m)
    <3>1. l.outcome \in Terminal
      BY <2>6 DEF CommitFinish, ManagerInv, HistoryInv, LateLifecycle, l
    <3>2. CASE SetLife(w, m, AfterRefusal(l))
      BY <2>6, <2>a, <2>b, <3>2, EntryTypes DEF CommitFinish
    <3>3. CASE /\ FinishRun(m, l.cred.owner, l.cred.token, l.outcome, l.token)
               /\ SetLife(w, m, [l EXCEPT !.phase = "finished", !.cred = NoCred])
      <4> DEFINE e == [l EXCEPT !.phase = "finished", !.cred = NoCred]
      <4>1. e \in Lifecycle /\ e.phase = "finished" /\ e.token = l.token
        BY <2>a DEF Lifecycle, Phase, NoCred
      <4> HIDE DEF e
      <4>2. SetLife(w, m, e)
        BY <3>3 DEF e
      <4>3. runs'[m].status \in Terminal
        <5>1. runs[m] \in RunRow /\ runs \in [Mission -> RunRow]
          BY DEF ManagerInv, StoreInv, StoreTypeOK
        <5>2. runs'[m] = FinishedRow(m, l.outcome, l.token)
          BY <3>3, <5>1 DEF FinishRun
        <5>3. QED
          BY <3>1, <5>1, <5>2 DEF FinishedRow, RunRow
      <4>4. QED
        BY <2>6, <2>b, <4>1, <4>2, <4>3 DEF CommitFinish
    <3>4. QED
      BY <2>6, <3>2, <3>3 DEF CommitFinish, l
  <2>7. CASE ReadBack(w, m)
    <3> DEFINE e == [l EXCEPT !.phase = "projecting", !.outcome = runs[m].status]
    <3>1. l.phase = "finished" /\ runs[m].status \in Terminal
      BY <2>7 DEF ReadBack, ManagerInv, HistoryInv, LateLifecycle, l
    <3>2. /\ e \in Lifecycle /\ e.phase = "projecting" /\ e.token = l.token
          /\ e.outcome = runs[m].status
      BY <2>a, <3>1 DEF Lifecycle, Phase
    <3> HIDE DEF e
    <3>3. SetLife(w, m, e) /\ runs' = runs
      BY <2>7 DEF ReadBack, e, storeVars, l
    <3>4. Agrees(e.outcome, runs'[m].status)
      BY <3>1, <3>2, <3>3 DEF Agrees, Terminal
    <3>5. QED
      BY <2>7, <2>b, <3>1, <3>2, <3>3, <3>4 DEF ReadBack
  <2>8. CASE Project(w, m)
    <3>1. /\ l.outcome \in Terminal /\ Agrees(l.outcome, runs[m].status)
          /\ runs' = runs /\ SetLife(w, m, Off) /\ granted' = granted
          /\ missions' = [missions EXCEPT ![m] = l.outcome] \/ missions' = missions
      BY <2>8 DEF Project, ManagerInv, HistoryInv, LateLifecycle, l, storeVars
    <3>2. OthersTypeOK'
      BY <2>8, <1>b, <1>c, <3>1 DEF Project, OthersTypeOK
    <3>3. \A k \in Mission : MissionPasses(k)
      BY <1>b, <3>1 DEF MissionPasses, OthersTypeOK
    <3>4. Off \in Lifecycle /\ Off.token = 0 /\ Off.phase = "off"
      BY <2>a, EntryTypes
    <3>5. QED
      BY <1>a, <3>1, <3>2, <3>3, <3>4, EntryKeeps DEF l
  <2>9. CASE StoreError(w, m)
    <3>1. CASE SetLife(w, m, Broken(Appended(l)))
      <4>1. Appended(l) \in Lifecycle /\ Appended(l).phase = "executing"
            /\ Appended(l).token = l.token
        BY <2>a, EntryTypes
      <4>2. /\ Broken(Appended(l)) \in Lifecycle
            /\ Broken(Appended(l)).phase = "executing"
            /\ Broken(Appended(l)).token = l.token
        BY <4>1, EntryTypes
      <4>3. QED
        BY <2>9, <2>b, <3>1, <4>2 DEF StoreError
    <3>2. CASE SetLife(w, m, Broken(l)) \/ SetLife(w, m, AfterRefusal(l)) \/ SetLife(w, m, Off)
      BY <2>9, <2>a, <2>b, <3>2, EntryTypes DEF StoreError
    <3>3. CASE SetLife(w, m, [l EXCEPT !.phase = "threw", !.aborted = FALSE])
      <4> DEFINE e == [l EXCEPT !.phase = "threw", !.aborted = FALSE]
      <4>1. e \in Lifecycle /\ e.phase = "threw" /\ e.token = l.token
        BY <2>a DEF Lifecycle, Phase
      <4> HIDE DEF e
      <4>2. SetLife(w, m, e)
        BY <3>3 DEF e
      <4>3. QED
        BY <2>9, <2>b, <4>1, <4>2 DEF StoreError
    <3>4. QED
      BY <2>9, <3>1, <3>2, <3>3 DEF StoreError, l
  <2>10. CASE Cancel(w, m)
    <3>1. SetLife(w, m, Aborted(l))
      BY <2>10 DEF Cancel, l
    <3>2. QED
      BY <2>10, <2>a, <2>b, <3>1, EntryTypes DEF Cancel
  <2>11. QED
    BY <1>7, <2>1, <2>2, <2>3, <2>4, <2>5, <2>6, <2>7, <2>8, <2>9, <2>10 DEF LifecycleStep
<1>8. ASSUME NEW m \in Mission, RecoverMission(m)
      PROVE  ManagerInv'
  <2>1. OthersTypeOK' /\ runs' = runs
    BY <1>8, <1>b DEF RecoverMission, OthersTypeOK, storeVars
  <2>2. Agrees("recovered", runs[m].status)
    BY <1>8 DEF RecoverMission, ManagerInv, HistoryInv, Agrees
  <2>3. \A k \in Mission : MissionPasses(k)
    BY <1>8, <1>b, <2>1, <2>2 DEF RecoverMission, MissionPasses, OthersTypeOK
  <2>4. QED
    BY <1>8, <1>a, <1>b, <2>1, <2>3, CalmKeeps DEF RecoverMission
<1>9. ASSUME NEW m \in Mission, RecoverRun(m) \/ RecoveryStops(m)
      PROVE  ManagerInv'
  <2>1. OthersTypeOK' /\ UNCHANGED <<missions, life, granted>>
    BY <1>9, <1>b DEF RecoverRun, RecoveryStops, OthersTypeOK
  <2>2. QED
    BY <1>a, <1>b, <1>d, <2>1, CalmKeeps
<1>10. CASE Tick \/ UNCHANGED vars
  <2>1. UNCHANGED <<process, admitting, granted, life, missions, recovering>>
        /\ (UNCHANGED faults \/ Fault)
    BY <1>10 DEF Tick, vars, managerVars
  <2>2. OthersTypeOK'
    BY <1>b, <1>c, <2>1 DEF OthersTypeOK
  <2>3. QED
    BY <1>a, <1>b, <1>d, <2>1, <2>2, CalmKeeps
<1>11. QED
  BY <1>1, <1>2, <1>3, <1>4, <1>5, <1>6, <1>7, <1>8, <1>9, <1>10 DEF ManagerNext

LEMMA ManagerInvInit == ManagerInit => ManagerInv
<1> SUFFICES ASSUME ManagerInit
             PROVE  ManagerInv
  OBVIOUS
<1> USE ManagerAssumption, StoreAssumption DEF ManagerInit
<1>1. StoreInv
  BY StoreInvInit
<1>2. Off \in Lifecycle
  BY DEF Off, NoCred, Lifecycle, Phase
<1>3. ManagerTypeOK
  BY <1>1, <1>2 DEF ManagerTypeOK, StoreInv
<1>4. \A m \in Mission, w \in Worker : /\ runs[m].token = 0 /\ life[w][m] = Off
                                      /\ granted[w][m] = 0 /\ missions[m] = "none"
                                      /\ life[w][m].token = 0
  BY DEF StoreInit, AbsentRow, Off
<1>5. TokensBounded /\ TokensNameClaims
  <2>1. TokensBounded
    <3>1. \A m \in Mission : runs[m].token = 0
      BY DEF StoreInit, AbsentRow
    <3>2. QED
      BY <1>4, <3>1 DEF TokensBounded
  <2>2. ASSUME NEW m \in Mission, NEW w \in Worker, NEW t \in 1..MaxToken
        PROVE  ~Holds(w, m, t)
    BY <1>4 DEF Holds
  <2>3. QED
    BY <2>1, <2>2 DEF TokensNameClaims
<1>6. HistoryInv
  BY <1>4 DEF HistoryInv, LateLifecycle, Agrees, Off
<1>7. QED
  BY <1>1, <1>3, <1>5, <1>6 DEF ManagerInv

LEMMA ManagerInvariant == ManagerSpec => []ManagerInv
<1>1. ManagerInv /\ [ManagerNext]_vars => ManagerInv'
  BY ManagerStep
<1>2. QED
  BY <1>1, ManagerInvInit, PTL DEF ManagerSpec

-----------------------------------------------------------------------------
(* The results.                                                             *)

\* What a replica keeps in memory keeps its type.
THEOREM ManagerTypeCorrect == ManagerSpec => []ManagerTypeOK
<1>1. ManagerInv => ManagerTypeOK
  BY DEF ManagerInv
<1>2. QED
  BY <1>1, ManagerInvariant, PTL

\* The replicas implement the store's specification: whatever HunterRunManager
\* does between its awaits, the tables see the statements of RunStore.tla under
\* credentials the WHERE clauses accept.  So every property of the store, its
\* contract with readers included, holds of the running system.
THEOREM ManagerImplementsStore == ManagerSpec => StoreSpec
<1>1. ManagerInv /\ [ManagerNext]_vars => [StoreNext]_storeVars
  BY ManagerStepIsStoreStep
<1>2. ManagerInit => StoreInit
  BY DEF ManagerInit
<1>3. QED
  BY <1>1, <1>2, ManagerInvariant, PTL DEF ManagerSpec, StoreSpec

THEOREM ManagerKeepsContract == ManagerSpec => KeepsContract
BY ManagerImplementsStore, StoreKeepsContract, PTL

\* A fencing token names one claim: two replicas never work under the same one,
\* however polls, lost replies and restarts interleave.
THEOREM TokensAlwaysNameClaims == ManagerSpec => []TokensNameClaims
<1>1. ManagerInv => TokensNameClaims
  BY DEF ManagerInv
<1>2. QED
  BY <1>1, ManagerInvariant, PTL

\* The mission history never tells an outcome the durable run did not reach.
THEOREM HistoryAlwaysFollowsRun == ManagerSpec => []HistoryFollowsRun
<1>1. ManagerInv => HistoryFollowsRun
  BY DEF ManagerInv, HistoryInv, Agrees, HistoryFollowsRun
<1>2. QED
  BY <1>1, ManagerInvariant, PTL
=============================================================================
