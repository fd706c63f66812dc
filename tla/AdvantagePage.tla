---------------------------- MODULE AdvantagePage ----------------------------
(***************************************************************************)
(* GET /advantage: a public page that joins the missions of Hunter's store *)
(* with evidence files that scripts and the operator replace while it is   *)
(* read.  Its inputs are read concurrently, each at some moment between    *)
(* the request and the answer; then buildAdvantageReport decides which     *)
(* missions are shown and what of the evidence belongs to them.            *)
(***************************************************************************)
EXTENDS Integers, Sequences, FiniteSets, SequencesExt

CONSTANTS
  Audits, Tokens,   \* missions; those of Tokens investigate one token, again
  Sources,          \* hashes of audited sources
  Standings,        \* how the page sorts the missions of equal quality and better
  MaxEnded,         \* bounds: missions that end, and files that are replaced
  MaxReplacements

ASSUME PageAssumption ==
  {MaxEnded, MaxReplacements} \subseteq Nat /\ Audits \cap Tokens = {} /\ Standings \subseteq Nat \ {0}

VARIABLES
  book,       \* the records of the mission store, the latest last
  shelf,      \* the evidence files
  edits,      \* replacements of files
  request,    \* what the store and the files were when the request came
  shown       \* the page the last step answered, or no page

pageVars == <<book, shelf, edits, request, shown>>

Files == {"truth", "tool", "review", "enrichment", "paid", "drafts", "bundle"}

\* What a file is about, the payments it lists, and whether its loader takes it.
Absent == [of |-> << >>, pays |-> {}, sound |-> TRUE]
Unsound == [Absent EXCEPT !.sound = FALSE]
About(things) == [Absent EXCEPT !.of = things]

NoPage == [answered |-> FALSE]
NoRequest == << >>

PaidFor(a, t, pays) == [About(<<a, t>>) EXCEPT !.pays = pays]

\* The evidence of one study, or none yet.
Evidence(a, t, s) ==
  [f \in Files |->
     CASE f \in {"truth", "tool"}        -> About(<<s>>)
       [] f \in {"review", "enrichment"} -> About(<<t>>)
       [] f = "bundle"                   -> About(<<a>>)
       [] f = "paid"                     -> PaidFor(a, t, {a, t} \X {1, 2})
       [] OTHER                          -> About(<<f>>)]

PageInit ==
  /\ \/ shelf = [f \in Files |-> Absent]
     \/ \E a \in Audits, t \in Tokens, s \in Sources : shelf = Evidence(a, t, s)
  /\ book = << >> /\ edits = 0 /\ request = NoRequest /\ shown = NoPage

-----------------------------------------------------------------------------
(* Missions end and files are replaced, whether or not a page is read.     *)

PaymentsOf(r) == IF r.second THEN {<<r.id, 1>>, <<r.id, 2>>} ELSE {<<r.id, 1>>}

\* second: the mission also paid its verifier.
MissionEnds(m) ==
  /\ Len(book) < MaxEnded /\ \A k \in DOMAIN book : book[k].id # m
  /\ \E completed, second \in BOOLEAN : \E source \in Sources : \E standing \in Standings :
       book' = Append(book, [id |-> m, completed |-> completed, second |-> second,
                             source |-> source, standing |-> standing])
  /\ shown' = NoPage /\ UNCHANGED <<shelf, edits, request>>

\* A recovered mission is the latest of the list.
MissionRecovers(k) ==
  /\ ~book[k].completed /\ book[k].id \in Audits
  /\ book' = Append(RemoveAt(book, k), [book[k] EXCEPT !.completed = TRUE, !.second = TRUE])
  /\ shown' = NoPage /\ UNCHANGED <<shelf, edits, request>>

\* The manifest may not be reviewed yet; the paid evidence may list a payment
\* that belongs to neither of its missions (the orphaned settlement).
Contents(f) ==
  IF f = "paid"
  THEN {PaidFor(a, t, {<<b, n>>, <<a, 2>>, <<t, 1>>, <<t, 2>>}) :
          a, b \in Audits, n \in 1..2, t \in Tokens}
  ELSE {Evidence(a, t, s)[f] : a \in Audits, t \in Tokens, s \in Sources}

\* Renamed into place, or written in place and found truncated or malformed.
Refresh(f) ==
  /\ edits < MaxReplacements /\ edits' = edits + 1
  /\ \E c \in {Unsound, Absent} \cup Contents(f) : shelf' = [shelf EXCEPT ![f] = c]
  /\ shown' = NoPage /\ UNCHANGED <<book, request>>

-----------------------------------------------------------------------------
(* What belongs to a mission.                                              *)

\* variant: the token is compared, and not the mission and its report's hash
BoundByToken(file, r) == file.of # << >>
Bound(file, r) == file.of = <<r.id>>

Quality(r, truth) == IF r.second /\ truth.of = <<r.source>> THEN r.standing ELSE 0

ReviewOf(r, files) ==
  IF r.second THEN <<r.id>> ELSE IF Bound(files["review"], r) THEN files["review"].of ELSE << >>

Measured(list, kind) == SelectSeq(list, LAMBDA r : r.completed /\ r.id \in kind)

HeadOr(list, otherwise) == IF list = << >> THEN otherwise ELSE <<Head(list)>>

\* The audit of the best quality, or the latest one.
AuditShown(list, files) ==
  LET audits == Measured(list, Audits)
      Q(r) == Quality(r, files["truth"])
      best == SelectSeq(audits, LAMBDA r : Q(r) > 0 /\ \A k \in DOMAIN audits : Q(audits[k]) <= Q(r))
  IN HeadOr(best, HeadOr(audits, << >>))

\* The latest investigation with an enrichment, or with a review, or at all.
TokenShown(list, files) ==
  LET tokens == Measured(list, Tokens)
      enriched == SelectSeq(tokens, LAMBDA r : Bound(files["enrichment"], r))
      reviewed == SelectSeq(tokens, LAMBDA r : ReviewOf(r, files) # << >>)
  IN HeadOr(enriched, HeadOr(reviewed, HeadOr(tokens, << >>)))

\* The two missions of the paid due diligence, if they made its payments.
DueDiligence(list, paid) ==
  LET Verified(kind) == {r \in ToSet(list) : r.completed /\ r.second /\ r.id \in kind}
      pairs == {pair \in Verified(Audits) \X Verified(Tokens) :
                  /\ paid.of = <<pair[1].id, pair[2].id>>
                  /\ paid.pays = PaymentsOf(pair[1]) \cup PaymentsOf(pair[2])}
  IN IF pairs = {} THEN << >> ELSE CHOOSE pair \in pairs : TRUE

\* The scanner's result is shown with the manifest it was scored against.
ToolShown(files) ==
  IF files["truth"].of # << >> /\ files["tool"].of = files["truth"].of THEN files["tool"].of ELSE << >>

Experiment(measured, comparison) ==
  IF measured # << >> /\ comparison # << >> THEN "completed" ELSE "partial"

Page(list, files) ==
  LET audit == AuditShown(list, files)
      token == TokenShown(list, files) IN
  [answered |-> TRUE, audit |-> audit, token |-> token,
   review |-> IF token = << >> THEN << >> ELSE ReviewOf(token[1], files),
   enrichment |-> IF token # << >> /\ Bound(files["enrichment"], token[1])
                  THEN files["enrichment"].of ELSE << >>,
   diligence |-> DueDiligence(list, files["paid"]), payments |-> files["paid"].pays,
   tool |-> ToolShown(files), truth |-> files["truth"].of,
   experiment |-> Experiment(audit, files["bundle"].of)]

-----------------------------------------------------------------------------
(* A request.                                                              *)

PageStarts ==
  /\ request = NoRequest /\ request' = <<[book |-> book, shelf |-> shelf]>>
  /\ shown' = NoPage /\ UNCHANGED <<book, shelf, edits>>

\* What the loaders may have read: of each input what it was when the request
\* came or what it is now.  (The inputs change independently of each other,
\* so that a value between the two is either of them in another behaviour.)
Readings ==
  LET then == request[1]
      changed == {f \in Files : then.shelf[f] # shelf[f]} IN
  [book : {then.book, book},
   files : {[f \in Files |-> IF f \in early THEN then.shelf[f] ELSE shelf[f]] : early \in SUBSET changed}]

PageAnswers ==
  /\ request # NoRequest
  /\ \E r \in Readings :
       /\ \A f \in Files : r.files[f].sound
       /\ shown' = Page(Reverse(r.book), r.files)
  /\ request' = NoRequest /\ UNCHANGED <<book, shelf, edits>>

\* A loader throws, and the answer is 500.
PageFails ==
  /\ request # NoRequest
  /\ \E r \in Readings : \E f \in Files : ~r.files[f].sound
  /\ request' = NoRequest /\ shown' = NoPage /\ UNCHANGED <<book, shelf, edits>>

PageNext ==
  \/ \E m \in Audits \cup Tokens : MissionEnds(m)
  \/ \E k \in DOMAIN book : MissionRecovers(k)
  \/ \E f \in Files : Refresh(f)
  \/ PageStarts \/ PageAnswers \/ PageFails

PageSpec == PageInit /\ [][PageNext]_pageVars

-----------------------------------------------------------------------------
\* Whatever ended or was replaced while a page was put together, what it
\* shows beside an investigation was made from that investigation, not from
\* an earlier one of the same token; the payments of a due diligence are
\* those of the two completed missions it names, no more and no fewer; and a
\* scanner's score stands beside the manifest it was scored against.  (The
\* comparison of an experiment is not bound in this way: it is shown with
\* whatever mission the page prefers.)
PageIsOfItsMissions ==
  shown.answered =>
    /\ \A evidence \in {shown.review, shown.enrichment} :
         evidence # << >> => evidence = <<shown.token[1].id>>
    /\ shown.diligence # << >> =>
         /\ shown.payments = UNION {PaymentsOf(shown.diligence[k]) : k \in 1..2}
         /\ Cardinality(shown.payments) = 4 /\ \A k \in 1..2 : shown.diligence[k].completed
    /\ shown.tool \in {<< >>, shown.truth}
=============================================================================
