------------------------------- MODULE MCParts ------------------------------
(***************************************************************************)
(* Nine parts on small instances, in one run: the tables of runs and of    *)
(* x402 purchases, the JSON files of a single host, the stream a client    *)
(* reads a run through, the daily spend check, the recovery of a paid      *)
(* mission, the authorities that the command line and the browser grant    *)
(* and take away, and the reviews of services.  They share no variable, so *)
(* a behaviour of the instance is one of any part, the others at rest in   *)
(* an initial state: the state spaces add up instead of multiplying.       *)
(***************************************************************************)
EXTENDS RunStore, SettlementStore, FileStores, RunStream,
        SpendReservation, MissionRecovery, BrowserAuthority, AuthorityLifecycle, ServiceFeedback

CONSTANTS o1, o2, r1, r2, r3, a1, a2, q1, q2, of1, of2

VARIABLE part

\* Two requests compete for one purchase; a third belongs to another.
MCOrderOf == r1 :> o1 @@ r2 :> o1 @@ r3 :> o2
MCAmountOf == q1 :> 1 @@ q2 :> 2
MCFeeOf == of1 :> 1 @@ of2 :> 2

\* Permutations of sets of two.  One part moves and the others rest in a state
\* that no exchange of their values changes, so sets of different parts may be
\* exchanged together: on each part that is an exchange of its own.
Exchanges(p) == \E x \in DOMAIN p : p[x] # x
Along(P, S) ==
  {q[1] @@ q[2] : q \in {r \in P \X Permutations(S) : Exchanges(r[1]) <=> Exchanges(r[2])}}
Symmetry ==
  Permutations({o1}) \cup Along(Along(Along(Permutations(Mission), Jobs), Authority), Buyers)
                     \cup Along(Along(Along(Permutations(Worker), Callers), Tabs), Tx)

\* A part at rest is kept small where the invariants allow it.
NoReader == saved = [len |-> 0] /\ es = << >> /\ feed = << >> /\ shown = << >> /\ view = "" /\ drops = 0
NoRecovery ==
  /\ run = [status |-> ""] /\ mission = [status |-> ""] /\ remembered = FALSE
  /\ intents = << >> /\ payments = {} /\ job = << >>
  /\ recoveryLock = << >> /\ attempts = 0 /\ rebuilding = FALSE
NoBrowser ==
  /\ record = [status |-> "none"] /\ evidence = << >> /\ tab = << >> /\ sent = << >>
  /\ account = [key |-> FALSE] /\ halts = 0
NoCaller == file = EmptyFile /\ lock = FileOwner0 /\ call = << >> /\ copy = << >> /\ won = << >>
NoBuying ==
  /\ granted = TRUE /\ transfers = {} /\ receipts = {} /\ head = 0 /\ day = 0 /\ deaths = 0
  /\ reserved = [p \in Buyers |-> 0] /\ order = [o \in Orders |-> [buyer |-> NoBuyer]]
NoCommand ==
  /\ sessions = [a \in Authority |-> NoSession]
  /\ journals = [a \in Authority |-> [test |-> Nothing]]
  /\ cli = << >> /\ chain = [keys |-> {}] /\ inflight = Nothing /\ faults = 0
NoReviews == hiring = << >> /\ posts = {} /\ reviews = << >> /\ listed = {} /\ graded = {}

PartsInit ==
  /\ part \in {"runs", "x402", "files", "stream", "spend", "recovery", "browser", "authority", "feedback"}
  /\ StoreInit /\ TablesInit
  /\ IF part = "files" THEN FileInit ELSE NoCaller
  /\ IF part = "stream" THEN StreamInit ELSE NoReader
  /\ IF part = "spend" THEN SpendInit ELSE NoBuying
  /\ IF part = "recovery" THEN RecoveryInit ELSE NoRecovery
  /\ IF part = "browser" THEN BrowserInit ELSE NoBrowser
  /\ IF part = "authority" THEN LifecycleInit ELSE NoCommand
  /\ IF part = "feedback" THEN FeedbackInit ELSE NoReviews

\* The variables of every part but one.
Rest(p) ==
  /\ p # "runs"      => UNCHANGED storeVars
  /\ p # "x402"      => UNCHANGED tables
  /\ p # "files"     => UNCHANGED fileVars
  /\ p # "stream"    => UNCHANGED streamVars
  /\ p # "spend"     => UNCHANGED spendVars
  /\ p # "recovery"  => UNCHANGED recoveryVars
  /\ p # "browser"   => UNCHANGED browserVars
  /\ p # "authority" => UNCHANGED lifecycleVars
  /\ p # "feedback"  => UNCHANGED feedbackVars

PartsNext ==
  /\ \/ part = "runs"      /\ StoreNext
     \/ part = "x402"      /\ TablesNext
     \/ part = "files"     /\ FileNext
     \/ part = "stream"    /\ StreamNext
     \/ part = "spend"     /\ SpendNext
     \/ part = "recovery"  /\ RecoveryNext
     \/ part = "browser"   /\ BrowserNext
     \/ part = "authority" /\ LifecycleNext
     \/ part = "feedback"  /\ FeedbackNext
  /\ UNCHANGED part /\ Rest(part)

PartsVars == <<part, storeVars, tables, fileVars, streamVars, spendVars,
               recoveryVars, browserVars, lifecycleVars, feedbackVars>>

PartsSpec == PartsInit /\ [][PartsNext]_PartsVars
=============================================================================
