--------------------------- MODULE ServiceFeedback ---------------------------
(***************************************************************************)
(* The reputation of a service: a mission ranks the offers by reputation   *)
(* and price, hires the first, grades what it delivered, and posts the     *)
(* grade to the registry, whose table counts one review per service, agent *)
(* and mission.  A run is executed again after a crash of its worker, and  *)
(* a post may arrive late or never.                                        *)
(***************************************************************************)
EXTENDS Integers, FiniteSets, FiniteSetsExt, TLC

CONSTANTS
  Jobs, Offers,      \* missions, and the services that may be hired for one
  Dynamic,           \* those of the services that register for a limited time
  FeeOf,            \* the price of an offer
  Grades,            \* values of a review, 0..100
  MinimumSamples,    \* reviews before a service is qualified (3 in the code)
  MaxExecutions      \* bound: executions of a mission

ASSUME FeedbackAssumption ==
  /\ Grades \subseteq 0..100 /\ FeeOf \in [Offers -> 1..100]
  /\ Dynamic \subseteq Offers /\ {MinimumSamples, MaxExecutions} \subseteq Nat \ {0}

VARIABLES
  hiring,    \* per mission: its stage, its execution, the offer, the grade
  posts,     \* reviews on their way to the registry
  reviews,   \* the table: the value of every (service, mission)
  listed,    \* the services the registry knows
  graded     \* history: every grade a mission has given

feedbackVars == <<hiring, posts, reviews, listed, graded>>

FeedbackInit ==
  /\ hiring = [j \in Jobs |-> [stage |-> "created", execution |-> 1]]
  /\ posts = {} /\ reviews = << >> /\ listed = Offers /\ graded = {}

-----------------------------------------------------------------------------
(* What the table says of a service, and how offers are ranked.            *)

\* variant: no unique index, and every execution inserts a row of its own
KeyPerExecution(p) == <<p.offer, p.job, p.execution>>
Key(p) == <<p.offer, p.job>>

\* A later post of the mission replaces what an earlier one said.
PostWritten(p) ==
  [k \in DOMAIN reviews \cup {Key(p)} |-> IF k = Key(p) THEN p.value ELSE reviews[k]]

Reviewed(s) == {k \in DOMAIN reviews : k[1] = s}
Count(s) == Cardinality(Reviewed(s))
Qualified(s) == Count(s) >= MinimumSamples

\* All reviews weigh the same, as those of one day do.
Average(s) == FoldSet(LAMBDA k, sum : sum + reviews[k], 0, Reviewed(s)) \div Count(s)

\* Few reviews do not count against a service; one without any is asked for
\* its own word, and stands at zero if it does not answer.
Standing(s, word) ==
  IF Count(s) = 0 THEN word ELSE IF Qualified(s) THEN Average(s) ELSE Max({Average(s), 55})

Fees(offers) == {FeeOf[s] : s \in offers}

\* Cheapness in percent: of the cheapest offer 100, of the dearest 0.
Cheapness(s, offers) ==
  LET dearest == Max(Fees(offers))
      cheapest == Min(Fees(offers))
  IN IF dearest = cheapest THEN 100 ELSE ((dearest - FeeOf[s]) * 100) \div (dearest - cheapest)

\* The balanced weights: reputation 30, price 20; capability and latency are
\* equal.  Of equal offers the cheaper one is first.
Rating(s, offers, words) == 30 * Standing(s, words[s]) + 20 * Cheapness(s, offers)
Precedes(s, u, offers, words) ==
  \/ Rating(s, offers, words) > Rating(u, offers, words)
  \/ Rating(s, offers, words) = Rating(u, offers, words) /\ FeeOf[s] <= FeeOf[u]

-----------------------------------------------------------------------------
(* A mission.                                                              *)

\* The first of the ranking.  (The list is read a moment before; what the
\* table gets in that moment is taken to come after.)
HireBest(j) ==
  /\ hiring[j].stage = "created"
  /\ \E words \in [listed -> {0} \cup Grades] : \E s \in listed :
       /\ \A u \in listed : Precedes(s, u, listed, words)
       /\ hiring' = [hiring EXCEPT ![j] = [stage |-> "hired", execution |-> @.execution, offer |-> s]]
  /\ UNCHANGED <<posts, reviews, listed, graded>>

\* The delivery is evaluated and the grade posted to the registry.
Grade(j) ==
  /\ hiring[j].stage = "hired"
  /\ \E v \in Grades :
       /\ graded' = graded \cup {[job |-> j, offer |-> hiring[j].offer, value |-> v]}
       /\ posts' = posts \cup {[job |-> j, offer |-> hiring[j].offer, value |-> v,
                                execution |-> hiring[j].execution]}
  /\ hiring' = [hiring EXCEPT ![j].stage = "posting"]
  /\ UNCHANGED <<reviews, listed>>

\* Answered, refused or broken: the mission goes on.
GoesOn(j) ==
  /\ hiring[j].stage = "posting"
  /\ hiring' = [hiring EXCEPT ![j] = [stage |-> "completed"]]
  /\ UNCHANGED <<posts, reviews, listed, graded>>

\* The worker dies and the run is claimed again.
ExecutedAgain(j) ==
  /\ hiring[j].stage \in {"hired", "posting"} /\ hiring[j].execution < MaxExecutions
  /\ hiring' = [hiring EXCEPT ![j] = [stage |-> "created", execution |-> @.execution + 1]]
  /\ UNCHANGED <<posts, reviews, listed, graded>>

-----------------------------------------------------------------------------
(* The registry.                                                           *)

\* An unknown service is answered with 404.
Received(p) ==
  /\ p \in posts /\ posts' = posts \ {p}
  /\ reviews' = IF p.offer \in listed THEN PostWritten(p) ELSE reviews
  /\ UNCHANGED <<hiring, listed, graded>>

LostPost(p) == p \in posts /\ posts' = posts \ {p} /\ UNCHANGED <<hiring, reviews, listed, graded>>

\* The lease of a service ends, or it registers again.
ListingChanges ==
  /\ \E s \in Dynamic : listed' = IF s \in listed THEN listed \ {s} ELSE listed \cup {s}
  /\ UNCHANGED <<hiring, posts, reviews, graded>>

FeedbackNext ==
  \/ \E j \in Jobs : HireBest(j) \/ Grade(j) \/ GoesOn(j) \/ ExecutedAgain(j)
  \/ \E p \in posts : Received(p) \/ LostPost(p)
  \/ ListingChanges

FeedbackSpec == FeedbackInit /\ [][FeedbackNext]_feedbackVars

-----------------------------------------------------------------------------
\* However often a mission is executed and however late its posts arrive, a
\* service is qualified, and freed of the bonus of the untried, only by as
\* many different missions that hired it; and the value on record for a
\* mission is a grade the mission gave this service.
QualifiedByMissions ==
  \A s \in Offers :
    /\ Qualified(s) => Cardinality({g.job : g \in {h \in graded : h.offer = s}}) >= MinimumSamples
    /\ \A k \in Reviewed(s) :
         \E g \in graded : g.offer = s /\ g.job = k[2] /\ g.value = reviews[k]
=============================================================================
