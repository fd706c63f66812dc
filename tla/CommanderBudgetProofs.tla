------------------------ MODULE CommanderBudgetProofs ------------------------
(***************************************************************************)
(* Proofs about CommanderBudget.tla, for every set of hires, services and  *)
(* tasks, every price and every budget.                                    *)
(***************************************************************************)
EXTENDS CommanderBudget, TLAPS

-----------------------------------------------------------------------------
(* Types.                                                                   *)

\* A phase under way has a service to buy; nothing is spent before a phase counts.
Placed(p) == p.at # "idle" => p.primary \in Primary /\ p.service \in Service /\ p.task \in Task
TypeInv == /\ CommanderTypeOK
           /\ \A h \in Slot : Placed(phases[h])
           /\ budget.count = 0 => budget.spent = 0

\* The services a phase goes through are services, and have prices.
LEMMA ServiceFacts ==
  /\ Primary \subseteq Service
  /\ None \notin Service /\ None \notin Task
  /\ \A s \in Service : Price[s] \in Nat /\ ReviewersOf(s) \subseteq Service
  /\ \A s \in Primary : s \notin ReviewersOf(s) /\ (s \in Auditor => s \notin Plain)
  /\ \A s \in Primary : \A r \in ReviewersOf(s) : r # s
BY CommanderAssumption DEF Primary, Service, ReviewersOf

LEMMA BlankPhase == NoPhase \in Phase
BY DEF NoPhase, Phase

\* What approvals and replays make of a phase.
LEMMA ApprovedPhase ==
  ASSUME NEW p \in Phase, p.service \in Service
  PROVE  /\ Approved(p) \in Phase
         /\ Approved(p).approved = p.approved + Price[p.service]
         /\ Approved(p).at = p.at /\ Approved(p).fate = p.fate
         /\ Approved(p).primary = p.primary /\ Approved(p).service = p.service
         /\ Approved(p).task = p.task /\ Approved(p).limit = p.limit /\ Approved(p).paid = p.paid
BY ServiceFacts DEF Approved, Phase

LEMMA MovedPhase ==
  ASSUME NEW p \in Phase, NEW q,
         NEW at \in {"idle", "lookup", "quote", "pay", "answer", "done", "failed"},
         q = [p EXCEPT !.at = at]
  PROVE  /\ q \in Phase
         /\ q.at = at /\ q.fate = p.fate /\ q.primary = p.primary /\ q.service = p.service
         /\ q.task = p.task /\ q.limit = p.limit /\ q.approved = p.approved /\ q.paid = p.paid
BY DEF Phase

\* Resuming approves the quote or fails the phase.
LEMMA ResumedPhase ==
  ASSUME NEW p \in Phase, p.service \in Service, NEW q, q = Resumed(p)
  PROVE  /\ q \in Phase
         /\ q.fate = p.fate /\ q.primary = p.primary /\ q.service = p.service
         /\ q.task = p.task /\ q.limit = p.limit /\ q.paid = p.paid
         /\ \/ q.at = "failed" /\ q.approved = p.approved
            \/ /\ q.at = "answer" /\ Approves(p)
               /\ q.approved = p.approved + Price[p.service]
<1> DEFINE a == Approved(p)
           b == [a EXCEPT !.at = "answer"]
<1>1. a \in Phase /\ a.approved = p.approved + Price[p.service] /\ a.fate = p.fate
      /\ a.primary = p.primary /\ a.service = p.service /\ a.task = p.task
      /\ a.limit = p.limit /\ a.paid = p.paid
  BY ApprovedPhase
<1>2. CASE journal[p.service].task = p.task /\ Approves(p)
  <2>1. q = [b EXCEPT !.replay = TRUE]
    BY <1>2 DEF Resumed
  <2> HIDE DEF a
  <2>2. b \in Phase /\ b.at = "answer" /\ b.fate = a.fate /\ b.primary = a.primary
        /\ b.service = a.service /\ b.task = a.task /\ b.limit = a.limit
        /\ b.approved = a.approved /\ b.paid = a.paid
    BY <1>1 DEF Phase
  <2> HIDE DEF b
  <2>3. q \in Phase /\ q.at = b.at /\ q.fate = b.fate /\ q.primary = b.primary
        /\ q.service = b.service /\ q.task = b.task /\ q.limit = b.limit
        /\ q.approved = b.approved /\ q.paid = b.paid
    BY <2>1, <2>2 DEF Phase
  <2>4. QED
    BY <1>1, <1>2, <2>2, <2>3
<1>3. CASE ~(journal[p.service].task = p.task /\ Approves(p))
  <2>1. q = [p EXCEPT !.at = "failed"]
    BY <1>3 DEF Resumed
  <2>2. QED
    BY <2>1, MovedPhase
<1>4. QED
  BY <1>2, <1>3

-----------------------------------------------------------------------------
(* What one step makes of a phase.                                          *)

\* It asks for a quote or fails; has quotes approved; pays; goes on to the
\* review; or returns.
Advances(p, q) ==
    /\ q \in Phase /\ Placed(q)
    /\ q.fate = p.fate /\ q.primary = p.primary /\ q.limit = p.limit
    /\ \/ /\ q.at = "quote" /\ p.at = "lookup"
          /\ q.service = p.service /\ q.approved = p.approved /\ q.paid = p.paid
       \/ /\ q.at = "failed" /\ q.service = p.service /\ q.paid = p.paid
          /\ q.approved = p.approved \/ (p.approved <= q.approved /\ q.approved <= p.limit)
       \/ /\ p.at \in {"lookup", "quote"} /\ q.at \in {"pay", "answer"}
          /\ q.service = p.service /\ q.paid = p.paid
          /\ p.approved + Price[p.service] <= q.approved /\ q.approved <= p.limit
       \/ /\ p.at = "pay" /\ q.at = "answer" /\ q.service = p.service
          /\ q.approved = p.approved /\ q.paid = p.paid + Price[p.service]
       \/ /\ p.at = "answer" /\ q.at = "lookup" /\ p.service = p.primary /\ q.service # p.primary
          /\ q.approved = p.approved /\ q.paid = p.paid
       \/ /\ p.at = "answer" /\ q.at = "done" /\ q.service = p.service
          /\ p.service = p.primary => p.primary \in Plain
          /\ q.approved = p.approved /\ q.paid = p.paid

\* Every step of a phase is one of these, and touches no other phase.
LEMMA PhaseAdvances ==
  ASSUME TypeInv, NEW h \in Slot, PhaseStep(h)
  PROVE  /\ Advances(phases[h], phases'[h])
         /\ \A g \in Slot \ {h} : phases'[g] = phases[g]
         /\ phases' = [phases EXCEPT ![h] = phases'[h]] /\ UNCHANGED process
<1> DEFINE p == phases[h]
<1>1. p \in Phase /\ phases \in [Slot -> Phase] /\ Placed(p)
  BY DEF TypeInv, CommanderTypeOK
<1>2. p.at # "idle"
  BY DEF PhaseStep, LookUp, Quoted, Pay, Answered, Fails, Running
<1>3. p.primary \in Primary /\ p.service \in Service /\ p.task \in Task
  BY <1>1, <1>2 DEF Placed
<1>4. Price[p.service] \in Nat
  BY <1>3, ServiceFacts
<1>5. ASSUME NEW q, Step(h, q)
      PROVE  /\ phases'[h] = q
             /\ \A g \in Slot \ {h} : phases'[g] = phases[g]
             /\ phases' = [phases EXCEPT ![h] = phases'[h]]
  BY <1>1, <1>5 DEF Step
<1>6. CASE LookUp(h)
  <2>1. CASE HasPurchase(p.service)
    <3>1. Step(h, Resumed(p)) /\ UNCHANGED process /\ p.at = "lookup"
      BY <1>6, <2>1 DEF LookUp
    <3> DEFINE q == Resumed(p)
    <3> HIDE DEF q
    <3>2. Advances(p, q)
      <4>1. q = Resumed(p)
        BY DEF q
      <4> HIDE DEF p
      <4>2. /\ q \in Phase
            /\ q.fate = p.fate /\ q.primary = p.primary /\ q.service = p.service
            /\ q.task = p.task /\ q.limit = p.limit /\ q.paid = p.paid
            /\ \/ q.at = "failed" /\ q.approved = p.approved
               \/ /\ q.at = "answer" /\ Approves(p)
                  /\ q.approved = p.approved + Price[p.service]
        BY <1>1, <1>3, <4>1, ResumedPhase
      <4>3. QED
        BY <1>1, <1>3, <1>4, <3>1, <4>2 DEF Advances, Placed, Approves, Phase, p
    <3>3. QED
      BY <1>5, <3>1, <3>2 DEF q
  <2>2. CASE ~HasPurchase(p.service)
    <3> DEFINE q == [p EXCEPT !.at = "quote"]
    <3>1. Step(h, q) /\ UNCHANGED process /\ p.at = "lookup"
      BY <1>6, <2>2 DEF LookUp
    <3>2. Advances(p, q)
      BY <1>1, <1>3, <3>1, MovedPhase DEF Advances, Placed
    <3>3. QED
      BY <1>5, <3>1, <3>2
  <2>3. QED
    BY <2>1, <2>2
<1>7. CASE Quoted(h)
  <2>1. p.at = "quote" /\ UNCHANGED process
    BY <1>7 DEF Quoted
  <2>2. CASE ~Approves(p)
    <3> DEFINE q == [p EXCEPT !.at = "failed"]
    <3>1. Step(h, q)
      BY <1>7, <2>2 DEF Quoted
    <3>2. Advances(p, q)
      BY <1>1, <1>3, MovedPhase DEF Advances, Placed
    <3>3. QED
      BY <1>5, <2>1, <3>1, <3>2
  <2>3. CASE Approves(p) /\ HasPurchase(p.service)
    <3> DEFINE a == Approved(p)
               q == Resumed(a)
    <3>1. Step(h, q)
      BY <1>7, <2>3 DEF Quoted, LosesPurchase
    <3>2. /\ a \in Phase /\ a.approved = p.approved + Price[p.service]
          /\ a.fate = p.fate /\ a.primary = p.primary /\ a.service = p.service
          /\ a.task = p.task /\ a.limit = p.limit /\ a.paid = p.paid
      BY <1>1, <1>3, ApprovedPhase
    <3> HIDE DEF a
    <3>3. q = Resumed(a)
      OBVIOUS
    <3> HIDE DEF q
    <3>4. /\ q \in Phase
          /\ q.fate = a.fate /\ q.primary = a.primary /\ q.service = a.service
          /\ q.task = a.task /\ q.limit = a.limit /\ q.paid = a.paid
          /\ \/ q.at = "failed" /\ q.approved = a.approved
             \/ /\ q.at = "answer" /\ Approves(a)
                /\ q.approved = a.approved + Price[a.service]
      BY <1>3, <3>2, <3>3, ResumedPhase
    <3>5. Advances(p, q)
      <4> HIDE DEF p
      <4>1. p.approved \in Nat /\ p.limit \in Nat
        BY <1>1 DEF Phase
      <4>2. QED
        BY <1>1, <1>3, <1>4, <2>1, <2>3, <3>2, <3>4, <4>1 DEF Advances, Placed, Approves
    <3>6. QED
      BY <1>5, <2>1, <3>1, <3>5 DEF q, a
  <2>4. CASE Approves(p) /\ ~HasPurchase(p.service)
    <3> DEFINE a == Approved(p)
               q == [a EXCEPT !.at = "pay"]
    <3>1. Step(h, q)
      BY <1>7, <2>4 DEF Quoted
    <3>2. /\ a \in Phase /\ a.approved = p.approved + Price[p.service]
          /\ a.fate = p.fate /\ a.primary = p.primary /\ a.service = p.service
          /\ a.task = p.task /\ a.limit = p.limit /\ a.paid = p.paid
      BY <1>1, <1>3, ApprovedPhase
    <3> HIDE DEF a
    <3>3. /\ q \in Phase
          /\ q.at = "pay" /\ q.fate = a.fate /\ q.primary = a.primary /\ q.service = a.service
          /\ q.task = a.task /\ q.limit = a.limit /\ q.approved = a.approved /\ q.paid = a.paid
      BY <3>2, MovedPhase
    <3> HIDE DEF q
    <3>4. Advances(p, q)
      <4> HIDE DEF p
      <4>1. p.approved \in Nat
        BY <1>1 DEF Phase
      <4>2. QED
        BY <1>1, <1>3, <1>4, <2>1, <2>4, <3>2, <3>3, <4>1 DEF Advances, Placed, Approves
    <3>5. QED
      BY <1>5, <2>1, <3>1, <3>4 DEF q, a
  <2>5. QED
    BY <2>2, <2>3, <2>4
<1>8. CASE Pay(h)
  <2> DEFINE q == [p EXCEPT !.at = "answer", !.paid = @ + Price[p.service]]
  <2>1. p.at = "pay" /\ Step(h, q) /\ UNCHANGED process
    BY <1>8 DEF Pay
  <2>2. /\ q \in Phase
        /\ q.at = "answer" /\ q.fate = p.fate /\ q.primary = p.primary
        /\ q.service = p.service /\ q.task = p.task /\ q.limit = p.limit
        /\ q.approved = p.approved /\ q.paid = p.paid + Price[p.service]
    <3> DEFINE r == [p EXCEPT !.at = "answer"]
    <3>1. /\ r \in Phase /\ r.at = "answer" /\ r.fate = p.fate /\ r.primary = p.primary
          /\ r.service = p.service /\ r.task = p.task /\ r.limit = p.limit
          /\ r.approved = p.approved /\ r.paid = p.paid
      BY <1>1, MovedPhase
    <3>2. q = [r EXCEPT !.paid = @ + Price[p.service]]
      OBVIOUS
    <3> HIDE DEF r
    <3>3. r.paid + Price[p.service] \in Nat
      BY <1>4, <3>1 DEF Phase
    <3> HIDE DEF p
    <3>4. QED
      BY <3>1, <3>2, <3>3 DEF Phase
  <2>3. Advances(p, q)
    <3> HIDE DEF p, q
    <3>1. QED
      BY <1>3, <2>1, <2>2 DEF Advances, Placed
  <2>4. QED
    BY <1>5, <2>1, <2>3
<1>9. CASE Answered(h)
  <2>1. p.at = "answer" /\ UNCHANGED process
    BY <1>9 DEF Answered
  <2>2. CASE p.service = p.primary /\ p.primary \notin Plain
    <3>1. PICK r \in ReviewersOf(p.primary), t \in ReviewTasks(p) :
             Step(h, [p EXCEPT !.at = "lookup", !.service = r, !.task = t, !.replay = FALSE])
      BY <1>9, <2>2 DEF Answered
    <3> DEFINE q == [p EXCEPT !.at = "lookup", !.service = r, !.task = t, !.replay = FALSE]
    <3>2. r \in Service /\ r # p.primary /\ t \in Task
      BY <1>3, ServiceFacts DEF ReviewTasks
    <3>3. /\ q \in Phase
          /\ q.at = "lookup" /\ q.fate = p.fate /\ q.primary = p.primary /\ q.service = r
          /\ q.task = t /\ q.limit = p.limit /\ q.approved = p.approved /\ q.paid = p.paid
      BY <1>1, <3>2 DEF Phase
    <3>4. Advances(p, q)
      <4> HIDE DEF p, q
      <4>1. QED
        BY <1>3, <2>1, <2>2, <3>2, <3>3 DEF Advances, Placed
    <3>5. QED
      BY <1>5, <2>1, <3>1, <3>4
  <2>3. CASE ~(p.service = p.primary /\ p.primary \notin Plain)
    <3> DEFINE q == [p EXCEPT !.at = "done"]
    <3>1. Step(h, q)
      BY <1>9, <2>3 DEF Answered
    <3>2. Advances(p, q)
      BY <1>1, <1>3, <2>1, <2>3, MovedPhase DEF Advances, Placed
    <3>3. QED
      BY <1>5, <2>1, <3>1, <3>2
  <2>4. QED
    BY <2>2, <2>3
<1>10. CASE Fails(h)
  <2> DEFINE q == [p EXCEPT !.at = "failed"]
  <2>1. Step(h, q) /\ UNCHANGED process
    BY <1>10 DEF Fails
  <2>2. Advances(p, q)
    BY <1>1, <1>3, MovedPhase DEF Advances, Placed
  <2>3. QED
    BY <1>5, <2>1, <2>2
<1>11. QED
  BY <1>6, <1>7, <1>8, <1>9, <1>10 DEF PhaseStep
-----------------------------------------------------------------------------
(* What the commander makes of a phase.                                     *)

\* A phase begins with what the budget has left for it.
LEMMA PhaseBegins ==
  ASSUME TypeInv, NEW h \in Slot, Begin(h), Available \in Nat
  PROVE  /\ phases[h] = NoPhase
         /\ phases'[h] \in Phase /\ Placed(phases'[h])
         /\ phases'[h].at = "lookup" /\ phases'[h].fate = "awaited"
         /\ phases'[h].primary = phases'[h].service /\ phases'[h].limit = Available
         /\ phases'[h].approved = 0 /\ phases'[h].paid = 0
         /\ \A g \in Slot \ {h} : phases'[g] = phases[g]
         /\ phases' = [phases EXCEPT ![h] = phases'[h]]
<1>1. PICK s \in Primary, t \in Task :
         phases' = [phases EXCEPT ![h] = [NoPhase EXCEPT
             !.at = "lookup", !.fate = "awaited", !.primary = s, !.service = s, !.task = t,
             !.limit = Available]]
  BY DEF Begin
<1> DEFINE q == [NoPhase EXCEPT
             !.at = "lookup", !.fate = "awaited", !.primary = s, !.service = s, !.task = t,
             !.limit = Available]
<1>2. s \in Service
  BY ServiceFacts
<1>3. /\ q \in Phase /\ q.at = "lookup" /\ q.fate = "awaited" /\ q.primary = s /\ q.service = s
      /\ q.task = t /\ q.limit = Available /\ q.approved = 0 /\ q.paid = 0
  BY <1>2 DEF NoPhase, Phase
<1>4. phases[h] = NoPhase
  BY DEF Begin
<1> HIDE DEF q
<1>5. phases \in [Slot -> Phase] /\ phases' = [phases EXCEPT ![h] = q]
  BY <1>1 DEF TypeInv, CommanderTypeOK, q
<1>6. phases'[h] = q /\ phases' = [phases EXCEPT ![h] = phases'[h]]
  BY <1>5
<1>7. \A g \in Slot \ {h} : phases'[g] = phases[g]
  BY <1>5
<1>8. Placed(q)
  BY <1>2, <1>3 DEF Placed
<1>9. QED
  BY <1>3, <1>4, <1>6, <1>7, <1>8

\* Settling a hire changes its fate and nothing else of any phase.
LEMMA PhaseSettles ==
  ASSUME TypeInv, NEW h \in Slot, NEW fate \in {"returned", "lost"}, Settled(h, fate)
  PROVE  /\ phases'[h] \in Phase /\ phases'[h].fate = fate /\ phases'[h].at = phases[h].at
         /\ phases'[h].primary = phases[h].primary /\ phases'[h].service = phases[h].service
         /\ phases'[h].task = phases[h].task /\ phases'[h].limit = phases[h].limit
         /\ phases'[h].approved = phases[h].approved /\ phases'[h].paid = phases[h].paid
         /\ \A g \in Slot \ {h} : phases'[g] = phases[g]
         /\ phases' = [phases EXCEPT ![h] = phases'[h]]
<1>1. phases \in [Slot -> Phase] /\ phases[h] \in Phase
  BY DEF TypeInv, CommanderTypeOK
<1> DEFINE p == phases[h]
           q == [p EXCEPT !.fate = fate]
<1>2. phases' = [phases EXCEPT ![h] = q]
  BY DEF Settled
<1>3. /\ q \in Phase /\ q.fate = fate /\ q.at = p.at /\ q.primary = p.primary
      /\ q.service = p.service /\ q.task = p.task /\ q.limit = p.limit
      /\ q.approved = p.approved /\ q.paid = p.paid
  BY <1>1 DEF Phase
<1> HIDE DEF q
<1>4. QED
  BY <1>1, <1>2, <1>3

\* What is available to a phase fits the budget.
LEMMA AvailableFits ==
  ASSUME CommanderTypeOK, budget.spent <= MaxTotal
  PROVE  Available \in Nat /\ budget.spent + Available <= MaxTotal
BY CommanderAssumption DEF CommanderTypeOK, Available

\* The charge of a phase is an amount of money.
LEMMA ChargeIsAmount ==
  ASSUME NEW p \in Phase, p.primary \in Primary, p.service \in Service
  PROVE  Charge(p) \in Nat
BY ServiceFacts DEF Charge

\* The functions of phases that satisfy the type, put back together.
LEMMA PhasesAreTyped ==
  ASSUME TypeInv, NEW h \in Slot, phases'[h] \in Phase, Placed(phases'[h]),
         phases' = [phases EXCEPT ![h] = phases'[h]]
  PROVE  phases' \in [Slot -> Phase] /\ \A g \in Slot : Placed(phases'[g])
BY DEF TypeInv, CommanderTypeOK

-----------------------------------------------------------------------------
(* Type correctness.                                                        *)

\* The journal and the debits keep their types through a step of a phase.
LEMMA PurchasesAreTyped ==
  ASSUME TypeInv, NEW h \in Slot, PhaseStep(h)
  PROVE  /\ journal' \in [X402 -> [task : Task \cup {None}, signed : BOOLEAN]]
         /\ debits' \in [Service -> Nat]
<1>1. /\ journal \in [X402 -> [task : Task \cup {None}, signed : BOOLEAN]]
      /\ debits \in [Service -> Nat]
      /\ phases[h] \in Phase /\ Placed(phases[h])
  BY DEF TypeInv, CommanderTypeOK
<1>2. CASE LookUp(h) \/ Answered(h) \/ Fails(h)
  BY <1>1, <1>2 DEF LookUp, Answered, Fails
<1>3. CASE Quoted(h)
  <2>1. phases[h].task \in Task \cup {None}
    BY <1>1 DEF Phase
  <2>2. debits' = debits
    BY <1>3 DEF Quoted
  <2>3. \/ journal' = journal
        \/ /\ phases[h].service \in X402
           /\ journal' = [journal EXCEPT ![phases[h].service].task = phases[h].task]
    BY <1>3 DEF Quoted
  <2>4. QED
    BY <1>1, <2>1, <2>2, <2>3
<1>4. CASE Pay(h)
  <2>1. phases[h].service \in Service
    BY <1>1, <1>4 DEF Pay, Placed
  <2>2. debits' = [debits EXCEPT ![phases[h].service] = @ + 1]
    BY <1>4 DEF Pay
  <2>3. \/ journal' = journal
        \/ /\ phases[h].service \in X402
           /\ journal' = [journal EXCEPT ![phases[h].service].signed = TRUE]
    BY <1>4 DEF Pay
  <2>4. \A s \in X402 : [journal[s] EXCEPT !.signed = TRUE]
                         \in [task : Task \cup {None}, signed : BOOLEAN]
    BY <1>1
  <2>5. journal' \in [X402 -> [task : Task \cup {None}, signed : BOOLEAN]]
    BY <1>1, <2>3, <2>4
  <2>6. debits' \in [Service -> Nat]
    BY <1>1, <2>1, <2>2
  <2>7. QED
    BY <2>5, <2>6
<1>5. QED
  BY <1>2, <1>3, <1>4 DEF PhaseStep

LEMMA BlankRecords ==
  /\ FullBudget \in [spent : Nat, count : Nat, stopped : BOOLEAN, success : BOOLEAN]
  /\ FullBudget.spent = 0 /\ FullBudget.count = 0
  /\ NoPurchase \in [task : Task \cup {None}, signed : BOOLEAN]
  /\ NoPurchase.signed = FALSE
  /\ Placed(NoPhase)
BY DEF FullBudget, NoPurchase, Placed, NoPhase

LEMMA BlankPhases ==
  ASSUME NEW ps, ps = [h \in Slot |-> NoPhase]
  PROVE  ps \in [Slot -> Phase] /\ \A h \in Slot : Placed(ps[h])
BY BlankPhase, BlankRecords

LEMMA TypeInvInit == Init => TypeInv
<1> SUFFICES ASSUME Init
             PROVE  TypeInv
  OBVIOUS
<1>1. phases \in [Slot -> Phase] /\ \A h \in Slot : Placed(phases[h])
  BY BlankPhases DEF Init
<1>2. /\ journal \in [X402 -> [task : Task \cup {None}, signed : BOOLEAN]]
      /\ debits \in [Service -> Nat]
  BY BlankRecords DEF Init
<1>3. /\ stage \in {"planning", "fallback", "completed", "failed"}
      /\ aborted \in BOOLEAN /\ restarts \in 0..MaxRestarts
  <2>1. MaxRestarts \in Nat
    BY CommanderAssumption
  <2>2. restarts = 0 /\ stage = "planning" /\ aborted = FALSE
    BY DEF Init
  <2>3. restarts \in 0..MaxRestarts
    BY <2>1, <2>2
  <2>4. aborted \in BOOLEAN
    BY <2>2
  <2>5. QED
    BY <2>2, <2>3, <2>4
<1>4. /\ budget \in [spent : Nat, count : Nat, stopped : BOOLEAN, success : BOOLEAN]
      /\ budget.count = 0 => budget.spent = 0
  <2>1. budget = FullBudget
    BY DEF Init
  <2>2. QED
    BY <2>1, BlankRecords
<1>5. QED
  BY <1>1, <1>2, <1>3, <1>4 DEF TypeInv, CommanderTypeOK

LEMMA TypeInvStep == TypeInv /\ [Next]_vars => TypeInv'
<1> SUFFICES ASSUME TypeInv, [Next]_vars
             PROVE  TypeInv'
  OBVIOUS
<1> USE DEF process
<1>1. ASSUME NEW h \in Hire, HireAgent(h)
      PROVE  TypeInv'
  <2>1. h \in Slot /\ Begin(h) /\ budget.spent <= MaxTotal
    BY <1>1, CommanderAssumption DEF HireAgent, Blocked, Slot, TypeInv, CommanderTypeOK
  <2>2. Available \in Nat
    BY <2>1, AvailableFits DEF TypeInv
  <2>3. phases' \in [Slot -> Phase] /\ \A g \in Slot : Placed(phases'[g])
    BY <2>1, <2>2, PhaseBegins, PhasesAreTyped
  <2>4. QED
    BY <1>1, <2>3 DEF HireAgent, TypeInv, CommanderTypeOK, Placed
<1>2. ASSUME NEW h \in Slot, PhaseStep(h)
      PROVE  TypeInv'
  <2>1. phases' \in [Slot -> Phase] /\ \A g \in Slot : Placed(phases'[g])
    BY <1>2, PhaseAdvances, PhasesAreTyped DEF Advances
  <2>2. UNCHANGED process
    BY <1>2, PhaseAdvances
  <2>3. QED
    BY <1>2, <2>1, <2>2, PurchasesAreTyped DEF TypeInv, CommanderTypeOK, Placed
<1>3. ASSUME NEW h \in Slot, PhaseReturns(h)
      PROVE  TypeInv'
  <2>1. Settled(h, "returned") /\ budget' = Charged(phases[h]) /\ stage' \in {stage, "completed"}
        /\ UNCHANGED <<aborted, journal, debits, restarts>> /\ phases[h].at = "done"
    BY <1>3 DEF PhaseReturns
  <2>2. phases[h] \in Phase /\ phases[h].primary \in Primary /\ phases[h].service \in Service
    BY <2>1 DEF TypeInv, CommanderTypeOK, Placed
  <2>3. Charge(phases[h]) \in Nat
    BY <2>2, ChargeIsAmount
  <2>4. Placed(phases'[h]) /\ phases'[h] \in Phase
    BY <2>1, PhaseSettles DEF TypeInv, Placed
  <2>5. phases' \in [Slot -> Phase] /\ \A g \in Slot : Placed(phases'[g])
    BY <2>1, <2>4, PhaseSettles, PhasesAreTyped
  <2>6. budget' \in [spent : Nat, count : Nat, stopped : BOOLEAN, success : BOOLEAN]
        /\ budget'.count # 0
    BY <2>1, <2>3 DEF Charged, TypeInv, CommanderTypeOK
  <2>7. QED
    BY <2>1, <2>5, <2>6 DEF TypeInv, CommanderTypeOK, Placed
<1>4. ASSUME NEW h \in Slot, NEW interrupted \in BOOLEAN, Lost(h, interrupted)
      PROVE  TypeInv'
  <2>1. Settled(h, "lost") /\ stage' \in {stage, "failed"}
        /\ UNCHANGED <<aborted, journal, debits, restarts>>
        /\ \/ budget' = budget
           \/ budget' = [budget EXCEPT !.count = @ + 1, !.stopped = @ \/ interrupted]
    BY <1>4 DEF Lost
  <2>2. Placed(phases'[h]) /\ phases'[h] \in Phase
    BY <2>1, PhaseSettles DEF TypeInv, Placed
  <2>3. phases' \in [Slot -> Phase] /\ \A g \in Slot : Placed(phases'[g])
    BY <2>1, <2>2, PhaseSettles, PhasesAreTyped
  <2>4. budget' \in [spent : Nat, count : Nat, stopped : BOOLEAN, success : BOOLEAN]
        /\ (budget'.count = 0 => budget'.spent = 0)
    <3>1. budget.stopped \/ interrupted \in BOOLEAN
      OBVIOUS
    <3> DEFINE stopped == budget.stopped \/ interrupted
    <3>2. \/ budget' = budget
          \/ budget' = [budget EXCEPT !.count = @ + 1, !.stopped = stopped]
      BY <2>1
    <3>3. stopped \in BOOLEAN
      BY <3>1
    <3> HIDE DEF stopped
    <3>4. /\ budget \in [spent : Nat, count : Nat, stopped : BOOLEAN, success : BOOLEAN]
          /\ budget.count = 0 => budget.spent = 0
      BY DEF TypeInv, CommanderTypeOK
    <3>5. budget.count \in Nat /\ budget.count + 1 \in Nat /\ budget.count + 1 # 0
      BY <3>4
    <3>6. CASE budget' = [budget EXCEPT !.count = @ + 1, !.stopped = stopped]
      <4> DEFINE n == budget.count + 1
      <4>1. budget' = [budget EXCEPT !.count = n, !.stopped = stopped]
        BY <3>6
      <4>2. n \in Nat /\ n # 0
        BY <3>5
      <4> HIDE DEF n
      <4>3. QED
        BY <3>3, <3>4, <4>1, <4>2
    <3>7. QED
      BY <3>2, <3>4, <3>6
  <2>5. QED
    BY <2>1, <2>3, <2>4 DEF TypeInv, CommanderTypeOK, Placed
<1>5. CASE HireInterrupted
  BY <1>5 DEF HireInterrupted, TypeInv, CommanderTypeOK, Placed
<1>6. CASE Abort
  BY <1>6 DEF Abort, TypeInv, CommanderTypeOK, Placed
<1>7. CASE PlannerReturns
  <2>1. budget' \in [spent : Nat, count : Nat, stopped : BOOLEAN, success : BOOLEAN]
        /\ (budget'.count = 0 => budget'.spent = 0)
    BY <1>7 DEF PlannerReturns, TypeInv, CommanderTypeOK
  <2>2. stage' \in {"fallback", "completed", "failed"} /\ UNCHANGED <<aborted, journal, debits, restarts>>
    BY <1>7 DEF PlannerReturns
  <2>3. phases' \in [Slot -> Phase] /\ \A g \in Slot : Placed(phases'[g])
    <3>1. CASE budget.count = 0 /\ ~aborted
      <4>1. Fallback \in Slot /\ Begin(Fallback) /\ budget.spent <= MaxTotal
        BY <1>7, <3>1, CommanderAssumption DEF PlannerReturns, Slot, TypeInv
      <4>2. Available \in Nat
        BY <4>1, AvailableFits DEF TypeInv
      <4>3. QED
        BY <4>1, <4>2, PhaseBegins, PhasesAreTyped
    <3>2. CASE ~(budget.count = 0 /\ ~aborted)
      BY <1>7, <3>2 DEF PlannerReturns, TypeInv, CommanderTypeOK
    <3>3. QED
      BY <3>1, <3>2
  <2>4. QED
    BY <2>1, <2>2, <2>3 DEF TypeInv, CommanderTypeOK, Placed
<1>8. CASE PlannerThrows
  BY <1>8 DEF PlannerThrows, TypeInv, CommanderTypeOK, Placed
<1>9. CASE Restart
  <2>1. phases' \in [Slot -> Phase] /\ \A h \in Slot : Placed(phases'[h])
    BY <1>9, BlankPhases DEF Restart
  <2>2. /\ stage' \in {"planning", "fallback", "completed", "failed"}
        /\ aborted' \in BOOLEAN /\ restarts' \in 0..MaxRestarts
    <3>1. MaxRestarts \in Nat
      BY CommanderAssumption
    <3>2. restarts' = restarts + 1 /\ restarts < MaxRestarts /\ stage' = "planning" /\ aborted' = FALSE
      BY <1>9 DEF Restart
    <3>3. restarts \in 0..MaxRestarts
      BY DEF TypeInv, CommanderTypeOK
    <3>4. restarts' \in 0..MaxRestarts
      BY <3>1, <3>2, <3>3
    <3>5. aborted' \in BOOLEAN
      BY <3>2
    <3>6. QED
      BY <3>2, <3>4, <3>5
  <2>3. /\ budget' \in [spent : Nat, count : Nat, stopped : BOOLEAN, success : BOOLEAN]
        /\ budget'.count = 0 => budget'.spent = 0
    <3>1. budget' = FullBudget
      BY <1>9 DEF Restart
    <3>2. QED
      BY <3>1, BlankRecords
  <2>4. UNCHANGED <<journal, debits>>
    BY <1>9 DEF Restart
  <2>5. QED
    BY <2>1, <2>2, <2>3, <2>4 DEF TypeInv, CommanderTypeOK, Placed
<1>10. CASE UNCHANGED vars
  BY <1>10 DEF vars, TypeInv, CommanderTypeOK, Placed
<1>11. QED
  BY <1>1, <1>2, <1>3, <1>4, <1>5, <1>6, <1>7, <1>8, <1>9, <1>10
     DEF Next, Settle, PhaseThrows, PhaseTimesOut, PhaseInterrupted

\* Every variable keeps its type, a phase's limit included: what is left of
\* the budget is never negative when it is given to a phase.
THEOREM CommanderTypeCorrect == Spec => []CommanderTypeOK
<1>1. TypeInv => CommanderTypeOK
  BY DEF TypeInv
<1>2. QED
  BY <1>1, TypeInvInit, TypeInvStep, PTL DEF Spec

-----------------------------------------------------------------------------
(* Money.                                                                   *)

\* What a phase has bought, or is about to pay, is within what it approved.
Due(p) == (IF p.service # p.primary \/ p.at \in {"pay", "answer", "done"} THEN Price[p.primary] ELSE 0)
          + (IF p.service # p.primary /\ p.at \in {"pay", "answer", "done"} THEN Price[p.service] ELSE 0)
ToPay(p) == IF p.at = "pay" THEN Price[p.service] ELSE 0
Sound(p) == /\ p.approved <= p.limit
            /\ p.paid + ToPay(p) <= p.approved
            /\ p.at # "idle" => Due(p) <= p.approved
            /\ p.at = "done" /\ p.service = p.primary => p.primary \in Plain

\* A sequential planner awaits one phase, whose limit the budget still holds.
Sequential ==
    /\ \A g, h \in Slot : phases[g].fate = "awaited" /\ phases[h].fate = "awaited" => g = h
    /\ budget.spent <= MaxTotal /\ budget.count <= MaxPhases
    /\ \A h \in Slot : phases[h].fate = "awaited" =>
          budget.spent + phases[h].limit <= MaxTotal /\ budget.count < MaxPhases

MoneyInv == /\ TypeInv
            /\ \A h \in Slot : Sound(phases[h])
            /\ ~Parallel => Sequential

\* A phase stays sound as it advances, and when it has returned its charge is
\* within its limit.
LEMMA SoundAdvances ==
  ASSUME NEW p \in Phase, NEW q \in Phase, Placed(p), p.at # "idle", Sound(p), Advances(p, q)
  PROVE  Sound(q)
<1>1. /\ p.primary \in Primary /\ p.service \in Service
      /\ q.service \in Service
      /\ Price[p.primary] \in Nat /\ Price[p.service] \in Nat /\ Price[q.service] \in Nat
  <2>1. p.primary \in Primary /\ p.service \in Service /\ p.primary \in Service
    BY ServiceFacts DEF Placed
  <2>2. q.at # "idle"
    BY DEF Advances
  <2>3. q.service \in Service
    BY <2>2 DEF Advances, Placed
  <2>4. QED
    BY <2>1, <2>3, ServiceFacts
<1>2. /\ p.approved \in Nat /\ p.limit \in Nat /\ p.paid \in Nat
      /\ q.approved \in Nat /\ q.limit \in Nat /\ q.paid \in Nat
  BY DEF Phase
<1>3. q.primary = p.primary /\ q.limit = p.limit
  BY DEF Advances
<1>4. q.approved <= q.limit
  BY <1>1, <1>2, <1>3 DEF Advances, Sound
<1>5. q.paid + ToPay(q) <= q.approved
  BY <1>1, <1>2 DEF Advances, Sound, ToPay
<1>6. Due(q) <= q.approved
  BY <1>1, <1>2, <1>3 DEF Advances, Sound, Due
<1>7. q.at = "done" /\ q.service = q.primary => q.primary \in Plain
  BY <1>3 DEF Advances
<1>8. QED
  BY <1>4, <1>5, <1>6, <1>7 DEF Sound

LEMMA ChargeWithinLimit ==
  ASSUME NEW p \in Phase, Placed(p), Sound(p), p.at = "done"
  PROVE  Charge(p) \in Nat /\ Charge(p) <= p.limit
<1>1. p.primary \in Primary /\ p.service \in Service /\ p.primary \in Service
  BY ServiceFacts DEF Placed
<1>2. Price[p.primary] \in Nat /\ Price[p.service] \in Nat
  BY <1>1, ServiceFacts
<1>3. p.approved \in Nat /\ p.limit \in Nat /\ p.approved <= p.limit /\ Due(p) <= p.approved
  BY DEF Phase, Sound
<1>4. p.primary \in Auditor => p.service # p.primary
  BY <1>1, ServiceFacts DEF Sound
<1>5. Charge(p) \in Nat /\ Charge(p) <= Due(p)
  BY <1>1, <1>2, <1>4 DEF Charge, Due
<1>6. Due(p) \in Nat
  BY <1>2 DEF Due
<1>7. QED
  BY <1>3, <1>5, <1>6

\* A phase that begins is sound.
LEMMA SoundBegins ==
  ASSUME NEW p \in Phase, p.at = "lookup", p.service = p.primary, p.approved = 0, p.paid = 0
  PROVE  Sound(p)
BY DEF Sound, Due, ToPay, Phase

LEMMA SoundBlank == Sound(NoPhase)
BY DEF Sound, ToPay, NoPhase

\* Soundness does not depend on the fate of a phase.
LEMMA SoundSettles ==
  ASSUME NEW p, NEW q, Sound(p), q.at = p.at, q.primary = p.primary, q.service = p.service,
         q.limit = p.limit, q.approved = p.approved, q.paid = p.paid
  PROVE  Sound(q)
BY DEF Sound, Due, ToPay

LEMMA MoneyInvInit == Init => MoneyInv
BY TypeInvInit, SoundBlank, CommanderAssumption DEF Init, MoneyInv, Sequential, FullBudget, NoPhase

\* A step that begins one phase when none is awaited.
LEMMA MoneyBegins ==
  ASSUME MoneyInv, NEW h \in Slot, Begin(h), Available \in Nat,
         budget'.spent = budget.spent, budget'.count = budget.count, TypeInv',
         ~Parallel => /\ Awaited = {} /\ budget.count < MaxPhases
                      /\ budget.spent + Available <= MaxTotal
  PROVE  MoneyInv'
<1>1. /\ phases'[h] \in Phase
      /\ phases'[h].at = "lookup" /\ phases'[h].service = phases'[h].primary
      /\ phases'[h].limit = Available /\ phases'[h].approved = 0 /\ phases'[h].paid = 0
      /\ \A g \in Slot \ {h} : phases'[g] = phases[g]
  BY PhaseBegins DEF MoneyInv
<1>2. \A g \in Slot : Sound(phases'[g])
  BY <1>1, SoundBegins DEF MoneyInv
<1>3. ASSUME ~Parallel
      PROVE  Sequential'
  <2>1. \A g \in Slot \ {h} : phases'[g].fate # "awaited"
    BY <1>1, <1>3 DEF Awaited
  <2>2. QED
    BY <1>1, <1>3, <2>1 DEF Sequential, MoneyInv
<1>4. QED
  BY <1>2, <1>3 DEF MoneyInv, Sound, Due, ToPay

\* A step that settles one hire.
LEMMA MoneySettles ==
  ASSUME MoneyInv, NEW h \in Slot, NEW fate \in {"returned", "lost"}, Settled(h, fate),
         phases[h].fate = "awaited", TypeInv',
         budget'.count \in {budget.count, budget.count + 1},
         budget'.spent = budget.spent
           \/ (phases[h].at = "done" /\ budget'.spent = budget.spent + Charge(phases[h]))
  PROVE  MoneyInv'
<1>1. /\ phases'[h].fate = fate /\ phases'[h].at = phases[h].at
      /\ phases'[h].primary = phases[h].primary /\ phases'[h].service = phases[h].service
      /\ phases'[h].limit = phases[h].limit
      /\ phases'[h].approved = phases[h].approved /\ phases'[h].paid = phases[h].paid
      /\ \A g \in Slot \ {h} : phases'[g] = phases[g]
  BY PhaseSettles DEF MoneyInv
<1>2. \A g \in Slot : Sound(phases'[g])
  BY <1>1, SoundSettles DEF MoneyInv
<1>3. ASSUME ~Parallel
      PROVE  Sequential'
  <2>1. \A g \in Slot : phases'[g].fate # "awaited"
    BY <1>1, <1>3 DEF Sequential, MoneyInv
  <2>2. phases[h] \in Phase /\ Placed(phases[h]) /\ Sound(phases[h])
    BY DEF MoneyInv, TypeInv, CommanderTypeOK
  <2>3. budget.spent + phases[h].limit <= MaxTotal /\ budget.count < MaxPhases
        /\ budget.spent <= MaxTotal
    BY <1>3 DEF MoneyInv, Sequential
  <2>4. budget'.spent <= MaxTotal
    <3>1. budget.spent \in Nat /\ phases[h].limit \in Nat /\ MaxTotal \in Nat
      BY <2>2, CommanderAssumption DEF MoneyInv, TypeInv, CommanderTypeOK, Phase
    <3>2. CASE budget'.spent = budget.spent
      BY <2>3, <3>2
    <3>3. CASE phases[h].at = "done" /\ budget'.spent = budget.spent + Charge(phases[h])
      <4>1. Charge(phases[h]) \in Nat /\ Charge(phases[h]) <= phases[h].limit
        BY <2>2, <3>3, ChargeWithinLimit
      <4>2. QED
        BY <2>3, <3>1, <3>3, <4>1
    <3>4. QED
      BY <3>2, <3>3
  <2>5. budget'.count <= MaxPhases
    BY <2>3, CommanderAssumption DEF MoneyInv, TypeInv, CommanderTypeOK
  <2>6. QED
    BY <2>1, <2>4, <2>5 DEF Sequential
<1>4. QED
  BY <1>2, <1>3 DEF MoneyInv, Sound, Due, ToPay

LEMMA MoneyInvStep == MoneyInv /\ [Next]_vars => MoneyInv'
<1> SUFFICES ASSUME MoneyInv, [Next]_vars
             PROVE  MoneyInv'
  OBVIOUS
<1>0. TypeInv /\ TypeInv'
  BY TypeInvStep DEF MoneyInv
<1>1. ASSUME NEW h \in Hire, HireAgent(h)
      PROVE  MoneyInv'
  <2>1. /\ h \in Slot /\ Begin(h) /\ UNCHANGED budget
        /\ budget.spent <= MaxTotal /\ budget.count < MaxPhases
        /\ Parallel \/ Awaited = {}
    BY <1>0, <1>1, CommanderAssumption
       DEF HireAgent, Blocked, Slot, TypeInv, CommanderTypeOK, process
  <2>2. Available \in Nat /\ budget.spent + Available <= MaxTotal
    BY <1>0, <2>1, AvailableFits DEF TypeInv
  <2>3. QED
    BY <1>0, <2>1, <2>2, MoneyBegins
<1>2. ASSUME NEW h \in Slot, PhaseStep(h)
      PROVE  MoneyInv'
  <2>1. /\ Advances(phases[h], phases'[h])
        /\ \A g \in Slot \ {h} : phases'[g] = phases[g]
        /\ UNCHANGED budget
    BY <1>0, <1>2, PhaseAdvances DEF process
  <2>2. phases[h] \in Phase /\ Placed(phases[h]) /\ Sound(phases[h]) /\ phases'[h] \in Phase
    BY <1>0, <2>1 DEF MoneyInv, TypeInv, CommanderTypeOK, Advances
  <2>3. phases[h].at # "idle"
    BY <1>2 DEF PhaseStep, LookUp, Quoted, Pay, Answered, Fails, Running
  <2>4. Sound(phases'[h])
    BY <2>1, <2>2, <2>3, SoundAdvances
  <2>5. \A g \in Slot : Sound(phases'[g])
    BY <2>1, <2>4 DEF MoneyInv
  <2>6. \A g \in Slot : phases'[g].fate = phases[g].fate /\ phases'[g].limit = phases[g].limit
    BY <2>1 DEF Advances
  <2>7. ~Parallel => Sequential'
    BY <2>1, <2>6 DEF MoneyInv, Sequential
  <2>8. QED
    BY <1>0, <2>5, <2>7 DEF MoneyInv, Sound, Due, ToPay
<1>3. ASSUME NEW h \in Slot, PhaseReturns(h)
      PROVE  MoneyInv'
  <2>1. /\ Settled(h, "returned") /\ phases[h].fate = "awaited" /\ phases[h].at = "done"
        /\ budget'.count = budget.count + 1
        /\ budget'.spent = budget.spent + Charge(phases[h])
    BY <1>3 DEF PhaseReturns, Charged
  <2>2. QED
    BY <1>0, <2>1, MoneySettles
<1>4. ASSUME NEW h \in Slot, NEW interrupted \in BOOLEAN, Lost(h, interrupted)
      PROVE  MoneyInv'
  <2>1. /\ Settled(h, "lost") /\ phases[h].fate = "awaited"
        /\ budget'.count \in {budget.count, budget.count + 1}
        /\ budget'.spent = budget.spent
    BY <1>0, <1>4 DEF Lost, TypeInv, CommanderTypeOK
  <2>2. QED
    BY <1>0, <2>1, MoneySettles
<1>5. CASE \/ HireInterrupted \/ Abort \/ PlannerThrows \/ UNCHANGED vars
           \/ (PlannerReturns /\ UNCHANGED phases)
  <2>1. UNCHANGED phases /\ budget'.spent = budget.spent /\ budget'.count = budget.count
    BY <1>0, <1>5 DEF HireInterrupted, Abort, PlannerThrows, PlannerReturns, vars,
                      TypeInv, CommanderTypeOK
  <2>2. QED
    BY <1>0, <2>1 DEF MoneyInv, Sound, Due, ToPay, Sequential
<1>6. CASE PlannerReturns /\ ~UNCHANGED phases
  <2>1. /\ Fallback \in Slot /\ Begin(Fallback) /\ Awaited = {}
        /\ budget.count = 0 /\ budget.spent = 0
        /\ budget'.count = budget.count /\ budget'.spent = budget.spent
    BY <1>0, <1>6 DEF PlannerReturns, Slot, TypeInv, CommanderTypeOK
  <2>2. /\ budget.spent <= MaxTotal /\ budget.count < MaxPhases
    BY <2>1, CommanderAssumption
  <2>3. Available \in Nat /\ budget.spent + Available <= MaxTotal
    BY <1>0, <2>2, AvailableFits DEF TypeInv
  <2>4. QED
    BY <1>0, <2>1, <2>2, <2>3, MoneyBegins
<1>7. CASE Restart
  BY <1>0, <1>7, SoundBlank, CommanderAssumption
     DEF Restart, MoneyInv, Sequential, FullBudget, NoPhase, Sound, Due, ToPay
<1>8. QED
  BY <1>1, <1>2, <1>3, <1>4, <1>5, <1>6, <1>7
     DEF Next, Settle, PhaseThrows, PhaseTimesOut, PhaseInterrupted

\* A phase never pays more than it was given, whatever the services quote,
\* the journal replays, and the commander has given up waiting for.
THEOREM PhasesStayWithinLimit == Spec => []PhaseWithinLimit
<1>1. MoneyInv => PhaseWithinLimit
  <2>1. ASSUME MoneyInv, NEW h \in Slot
        PROVE  phases[h].paid <= phases[h].limit
    <3>1. phases[h] \in Phase /\ Sound(phases[h]) /\ Placed(phases[h])
      BY <2>1 DEF MoneyInv, TypeInv, CommanderTypeOK
    <3>2. phases[h].paid \in Nat /\ phases[h].approved \in Nat /\ phases[h].limit \in Nat
      BY <3>1 DEF Phase
    <3>3. ToPay(phases[h]) \in Nat
      BY <3>1, ServiceFacts DEF ToPay, Placed
    <3>4. QED
      BY <3>1, <3>2, <3>3 DEF Sound
  <2>2. QED
    BY <2>1 DEF PhaseWithinLimit
<1>2. QED
  BY <1>1, MoneyInvInit, MoneyInvStep, PTL DEF Spec

\* With a sequential planner the books never exceed the total of the budget.
THEOREM BooksStayWithinTotal == Spec => []SpentWithinTotal
<1>1. MoneyInv => SpentWithinTotal
  BY DEF MoneyInv, Sequential, SpentWithinTotal
<1>2. QED
  BY <1>1, MoneyInvInit, MoneyInvStep, PTL DEF Spec

\* With a sequential planner no more phases are run than the budget allows.
THEOREM PhasesStayWithinLimitOfBudget ==
  ASSUME ~Parallel
  PROVE  Spec => []PhasesWithinLimit
<1>1. MoneyInv => PhasesWithinLimit
  BY DEF MoneyInv, Sequential, PhasesWithinLimit
<1>2. QED
  BY <1>1, MoneyInvInit, MoneyInvStep, PTL DEF Spec

-----------------------------------------------------------------------------
(* One payment for each x402 service.                                       *)

\* A phase about to pay holds the service's purchase, unsigned and alone.
Paying(h, s) == phases[h].at = "pay" /\ phases[h].service = s
PurchaseInv ==
    /\ TypeInv
    /\ \A s \in X402 : debits[s] = 0 \/ (debits[s] = 1 /\ journal[s].signed)
    /\ \A s \in X402, h \in Slot : Paying(h, s) => journal[s].task # None /\ ~journal[s].signed
    /\ \A s \in X402, g \in Slot, h \in Slot : Paying(g, s) /\ Paying(h, s) => g = h

\* A step after which nobody is newly about to pay, over the same purchases.
LEMMA PurchasesStay ==
  ASSUME PurchaseInv, TypeInv', UNCHANGED <<journal, debits>>,
         \A h \in Slot, s \in X402 : Paying(h, s)' => Paying(h, s)
  PROVE  PurchaseInv'
BY DEF PurchaseInv

LEMMA PurchaseInvStep == PurchaseInv /\ [Next]_vars => PurchaseInv'
<1> SUFFICES ASSUME PurchaseInv, [Next]_vars
             PROVE  PurchaseInv'
  OBVIOUS
<1>0. TypeInv /\ TypeInv'
  BY TypeInvStep DEF PurchaseInv
<1>1. ASSUME NEW h \in Slot, Begin(h), UNCHANGED <<journal, debits>>, Available \in Nat
      PROVE  PurchaseInv'
  BY <1>0, <1>1, PhaseBegins, PurchasesStay DEF Paying
<1>2. ASSUME NEW h \in Slot, NEW fate \in {"returned", "lost"}, Settled(h, fate),
             UNCHANGED <<journal, debits>>
      PROVE  PurchaseInv'
  BY <1>0, <1>2, PhaseSettles, PurchasesStay DEF Paying
<1>3. CASE UNCHANGED <<phases, journal, debits>>
  BY <1>0, <1>3, PurchasesStay DEF Paying
<1>4. CASE Restart
  BY <1>0, <1>4, PurchasesStay DEF Paying, Restart, NoPhase
<1>5. ASSUME NEW h \in Slot, LookUp(h) \/ Answered(h) \/ Fails(h)
      PROVE  PurchaseInv'
  <2>1. PhaseStep(h) /\ UNCHANGED <<journal, debits>>
    BY <1>5 DEF PhaseStep, LookUp, Answered, Fails
  <2>2. phases'[h].at # "pay"
    <3>1. phases[h] \in Phase /\ phases \in [Slot -> Phase] /\ Placed(phases[h])
      BY <1>0 DEF TypeInv, CommanderTypeOK
    <3>2. Advances(phases[h], phases'[h])
      BY <1>0, <2>1, PhaseAdvances
    <3>3. CASE LookUp(h)
      <4>1. phases[h].at = "lookup" /\ phases[h].service \in Service
        BY <3>1, <3>3 DEF LookUp, Placed
      <4>2. \/ phases'[h] = Resumed(phases[h])
            \/ phases'[h] = [phases[h] EXCEPT !.at = "quote"]
        BY <3>1, <3>3 DEF LookUp, Step
      <4>3. CASE phases'[h] = Resumed(phases[h])
        BY <3>1, <4>1, <4>3, ResumedPhase
      <4>4. CASE phases'[h] = [phases[h] EXCEPT !.at = "quote"]
        BY <3>1, <4>4, MovedPhase
      <4>5. QED
        BY <4>2, <4>3, <4>4
    <3>4. CASE Answered(h)
      BY <3>2, <3>4 DEF Answered, Advances
    <3>5. CASE Fails(h)
      <4>1. phases'[h] = [phases[h] EXCEPT !.at = "failed"]
        BY <3>1, <3>5 DEF Fails, Step
      <4>2. QED
        BY <3>1, <4>1, MovedPhase
    <3>6. QED
      BY <1>5, <3>3, <3>4, <3>5
  <2>3. QED
    BY <1>0, <2>1, <2>2, PhaseAdvances, PurchasesStay DEF Paying
<1>6. ASSUME NEW h \in Slot, Quoted(h)
      PROVE  PurchaseInv'
  <2> DEFINE p == phases[h]
  <2>1. /\ PhaseStep(h) /\ debits' = debits /\ p.at = "quote"
        /\ p \in Phase /\ phases \in [Slot -> Phase]
        /\ p.service \in Service /\ p.task \in Task
    BY <1>0, <1>6 DEF PhaseStep, Quoted, TypeInv, CommanderTypeOK, Placed
  <2>2. CASE Approves(p) /\ ~HasPurchase(p.service)
    <3> DEFINE q == phases'[h]
    <3>1. Advances(p, q) /\ \A g \in Slot \ {h} : phases'[g] = phases[g]
      BY <1>0, <2>1, PhaseAdvances
    <3>2. q.service = p.service
      BY <2>1, <3>1 DEF Advances
    <3>3. CASE p.service \notin X402
      <4>1. journal' = journal
        BY <1>6, <2>2, <3>3 DEF Quoted
      <4>2. \A g \in Slot, s \in X402 : Paying(g, s)' => Paying(g, s)
        BY <3>1, <3>2, <3>3 DEF Paying
      <4>3. QED
        BY <1>0, <2>1, <4>1, <4>2, PurchasesStay
    <3>4. CASE p.service \in X402
      <4>1. journal' = [journal EXCEPT ![p.service].task = p.task]
        BY <1>6, <2>2, <3>4 DEF Quoted
      <4>2. journal[p.service] = NoPurchase
        BY <2>2, <3>4 DEF HasPurchase
      <4>3. journal[p.service].task = None /\ journal[p.service].signed = FALSE
        BY <4>2 DEF NoPurchase
      <4>4. journal \in [X402 -> [task : Task \cup {None}, signed : BOOLEAN]]
        BY <1>0 DEF TypeInv, CommanderTypeOK
      <4>5. /\ journal'[p.service].task = p.task
            /\ journal'[p.service].signed = journal[p.service].signed
            /\ \A s \in X402 \ {p.service} : journal'[s] = journal[s]
        BY <3>4, <4>1, <4>4
      <4>6. p.task # None
        BY <2>1, ServiceFacts
      <4>7. \A g \in Slot : ~Paying(g, p.service)
        BY <3>4, <4>3 DEF PurchaseInv
      <4>8. \A g \in Slot, s \in X402 : Paying(g, s)' => Paying(g, s) \/ (g = h /\ s = p.service)
        BY <3>1, <3>2 DEF Paying
      <4> HIDE DEF p
      <4>9. \A s \in X402 : debits'[s] = 0 \/ (debits'[s] = 1 /\ journal'[s].signed)
        BY <2>1, <4>5 DEF PurchaseInv
      <4>10. \A s \in X402, g \in Slot : Paying(g, s)' => journal'[s].task # None /\ ~journal'[s].signed
        BY <4>3, <4>5, <4>6, <4>7, <4>8 DEF PurchaseInv
      <4>11. \A s \in X402, g \in Slot, k \in Slot : Paying(g, s)' /\ Paying(k, s)' => g = k
        BY <4>7, <4>8 DEF PurchaseInv
      <4>12. QED
        BY <1>0, <4>9, <4>10, <4>11 DEF PurchaseInv, Paying
    <3>5. QED
      BY <3>3, <3>4
  <2>3. CASE ~(Approves(p) /\ ~HasPurchase(p.service))
    <3>1. journal' = journal
      BY <1>6, <2>3 DEF Quoted
    <3>2. phases'[h].at # "pay"
      <4>1. CASE ~Approves(p)
        <5>1. phases'[h] = [p EXCEPT !.at = "failed"]
          BY <1>6, <2>1, <4>1 DEF Quoted, Step
        <5>2. QED
          BY <2>1, <5>1, MovedPhase
      <4>2. CASE Approves(p)
        <5>1. phases'[h] = Resumed(Approved(p))
          BY <1>6, <2>1, <2>3, <4>2 DEF Quoted, LosesPurchase, Step
        <5>2. Approved(p) \in Phase /\ Approved(p).service \in Service
          BY <2>1, ApprovedPhase
        <5>3. QED
          BY <5>1, <5>2, ResumedPhase
      <4>3. QED
        BY <4>1, <4>2
    <3>3. QED
      BY <1>0, <2>1, <3>1, <3>2, PhaseAdvances, PurchasesStay DEF Paying
  <2>4. QED
    BY <2>2, <2>3
<1>7. ASSUME NEW h \in Slot, Pay(h)
      PROVE  PurchaseInv'
  <2>0. PICK t \in Service : t = phases[h].service
    BY <1>0, <1>7 DEF Pay, TypeInv, Placed
  <2>1. /\ PhaseStep(h) /\ phases[h].at = "pay"
        /\ debits' = [debits EXCEPT ![t] = @ + 1]
        /\ debits \in [Service -> Nat] /\ X402 \subseteq Service
        /\ journal \in [X402 -> [task : Task \cup {None}, signed : BOOLEAN]]
    BY <1>0, <1>7, <2>0, CommanderAssumption DEF PhaseStep, Pay, TypeInv, CommanderTypeOK
  <2>2. /\ phases'[h].at # "pay"
        /\ \A g \in Slot \ {h} : phases'[g] = phases[g]
    BY <1>0, <2>1, PhaseAdvances DEF Advances
  <2>3. \A g \in Slot, s \in X402 : Paying(g, s)' => Paying(g, s) /\ g # h
    BY <2>2 DEF Paying
  <2>4. \A s \in X402 \ {t} : debits'[s] = debits[s] /\ journal'[s] = journal[s]
    BY <1>7, <2>0, <2>1 DEF Pay
  <2>5. CASE t \notin X402
    <3>1. \A s \in X402 : debits'[s] = debits[s] /\ journal'[s] = journal[s]
      BY <2>4, <2>5
    <3>2. QED
      BY <1>0, <2>3, <3>1 DEF PurchaseInv
  <2>6. CASE t \in X402
    <3>1. Paying(h, t) /\ ~journal[t].signed
      BY <2>0, <2>1, <2>6 DEF PurchaseInv, Paying
    <3>2. debits[t] = 0
      BY <2>6, <3>1 DEF PurchaseInv
    <3>3. debits'[t] = 1
      BY <2>1, <3>2
    <3>4. journal'[t].signed
      BY <1>7, <2>0, <2>1, <2>6 DEF Pay
    <3>5. \A g \in Slot : ~Paying(g, t)'
      BY <2>3, <2>6, <3>1 DEF PurchaseInv
    <3>6. QED
      BY <1>0, <2>3, <2>4, <3>3, <3>4, <3>5 DEF PurchaseInv
  <2>7. QED
    BY <2>5, <2>6
<1>8. ASSUME NEW h \in Hire, HireAgent(h)
      PROVE  PurchaseInv'
  <2>1. h \in Slot /\ Begin(h) /\ UNCHANGED <<journal, debits>> /\ budget.spent <= MaxTotal
    BY <1>0, <1>8, CommanderAssumption DEF HireAgent, Blocked, Slot, TypeInv, CommanderTypeOK
  <2>2. Available \in Nat
    BY <1>0, <2>1, AvailableFits DEF TypeInv
  <2>3. QED
    BY <1>1, <2>1, <2>2
<1>9. CASE PlannerReturns
  <2>1. UNCHANGED <<journal, debits>>
    BY <1>9 DEF PlannerReturns
  <2>2. CASE budget.count = 0 /\ ~aborted
    <3>1. Fallback \in Slot /\ Begin(Fallback) /\ budget.spent <= MaxTotal
      BY <1>0, <1>9, <2>2, CommanderAssumption DEF PlannerReturns, Slot, TypeInv
    <3>2. Available \in Nat
      BY <1>0, <3>1, AvailableFits DEF TypeInv
    <3>3. QED
      BY <1>1, <2>1, <3>1, <3>2
  <2>3. CASE ~(budget.count = 0 /\ ~aborted)
    BY <1>3, <1>9, <2>1, <2>3 DEF PlannerReturns
  <2>4. QED
    BY <2>2, <2>3
<1>10. ASSUME NEW h \in Slot, Settle(h)
       PROVE  PurchaseInv'
  BY <1>2, <1>10 DEF Settle, PhaseReturns, PhaseThrows, PhaseTimesOut, PhaseInterrupted, Lost
<1>11. CASE HireInterrupted \/ Abort \/ PlannerThrows \/ UNCHANGED vars
  BY <1>3, <1>11 DEF HireInterrupted, Abort, PlannerThrows, vars
<1>12. QED
  BY <1>4, <1>5, <1>6, <1>7, <1>8, <1>9, <1>10, <1>11 DEF Next, PhaseStep

\* Over x402 a mission pays each service at most once, through timeouts,
\* overlapping phases and executions of the mission again.
THEOREM PurchasesArePaidOnce == Spec => []PaidOncePerService
<1>1. Init => PurchaseInv
  BY TypeInvInit, CommanderAssumption DEF Init, PurchaseInv, Paying, NoPhase
<1>2. PurchaseInv => PaidOncePerService
  BY DEF PurchaseInv, PaidOncePerService
<1>3. QED
  BY <1>1, <1>2, PurchaseInvStep, PTL DEF Spec

=============================================================================
