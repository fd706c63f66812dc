-------------------------- MODULE SpendReservation --------------------------
(***************************************************************************)
(* The spend check a Hunter process makes before it signs an x402 payment  *)
(* (paidFetch of x402-client.ts): it awaits the authority's spending of    *)
(* the day (authority-spending.ts), then reads the reservations of its own *)
(* process, and holds a reservation until the signed request is answered.  *)
(*                                                                         *)
(* Abstracted: addresses, assets and signatures.  One authority, one       *)
(* token, one daily limit; every transfer goes to an approved recipient.   *)
(***************************************************************************)
EXTENDS Integers, FiniteSets, FiniteSetsExt

CONSTANTS Buyers,      \* Hunter processes that share the authority
          Orders,      \* purchases, each paid by at most one process
          AmountOf,    \* price of each order
          SpendLimit,  \* daily limit of the authority
          ChunkSize,   \* LOG_CHUNK_SIZE
          MaxDay,      \* bound on midnights
          MaxDeaths    \* bound on crashes of the processes

ASSUME SpendAssumption ==
  /\ AmountOf \in [Orders -> Nat]
  /\ SpendLimit \in Nat
  /\ ChunkSize \in Nat \ {0}
  /\ MaxDay \in Nat /\ MaxDeaths \in Nat
  /\ "no buyer" \notin Buyers

VARIABLES
  granted,   \* the authority record has a grantTxHash
  transfers, \* token transfers of the wallet: [order, block, day]
  head,      \* number of the latest block
  day,       \* the current UTC day
  receipts,  \* the receipt stores found: the orders whose payment each holds
  reserved,  \* authoritySpendReservations of each process
  order,     \* where paidFetch is with each order
  deaths     \* crashes so far

spendVars == <<granted, transfers, head, day, receipts, reserved, order, deaths>>

NoBuyer == "no buyer"

OrderState ==
  [ at        : {"idle", "reading", "read", "reserved", "sent", "done", "refused"},
    buyer     : Buyers \cup {NoBuyer},
    now       : 0..MaxDay,       \* day of `now` in readAuthoritySpending
    latest    : Nat,             \* latestBlock of the reading
    remaining : 0..SpendLimit,
    payment   : {"none", "live", "settled"} ]

IdleOrder == [ at |-> "idle", buyer |-> NoBuyer, now |-> 0, latest |-> 0,
               remaining |-> 0, payment |-> "none" ]

Total(S) == MapThenSumSet(LAMBDA t : AmountOf[t.order], S)
Saturating(a, b) == IF a > b THEN a - b ELSE 0

SpendInit ==
  /\ granted \in BOOLEAN
  /\ transfers = {} /\ receipts \in {{}, {{}}}      \* no store, or an empty one
  /\ head = 0 /\ day = 0
  /\ reserved = [p \in Buyers |-> 0]
  /\ order = [o \in Orders |-> IdleOrder]
  /\ deaths = 0

(***************************************************************************)
(* authority-spending.ts                                                   *)
(***************************************************************************)
LogRanges(from, to) ==
  { [first |-> s, last |-> Min({to, s + ChunkSize - 1})] :
      s \in {b \in from..to : (b - from) % ChunkSize = 0} }

InWindow(now) == {t \in transfers : t.day >= now}

\* getLogs range by range, the decoded amounts added up.
LoggedSpend(now, from, to) ==
  MapThenSumSet(
    LAMBDA r : Total({t \in InWindow(now) : t.block \in r.first..r.last}),
    LogRanges(from, to))

\* For a record without a grant the receipts stand in for the logs as soon as
\* a receipt store is there, whatever it holds; when there is none, the scan
\* starts at the block it ends with.
Spent(now) ==
  IF ~granted /\ receipts # {}
  THEN Total({t \in InWindow(now) : t.order \in UNION receipts})
  ELSE LoggedSpend(now, IF granted THEN 0 ELSE head, head)

(***************************************************************************)
(* paidFetch                                                               *)
(***************************************************************************)
Moves(o, f) == order' = [order EXCEPT ![o] = f]

\* The quote fits the authority's own limit; `now` is taken, the reading awaited.
Approve(p, o) ==
  /\ order[o].at = "idle"
  /\ IF AmountOf[o] <= SpendLimit
     THEN Moves(o, [order[o] EXCEPT !.at = "reading", !.buyer = p, !.now = day])
     ELSE Moves(o, [order[o] EXCEPT !.at = "refused"])
  /\ UNCHANGED <<granted, transfers, head, day, receipts, reserved, deaths>>

ReadSpending(o) ==
  /\ order[o].at = "reading"
  /\ Moves(o, [order[o] EXCEPT !.at = "read", !.latest = head,
                 !.remaining = Saturating(SpendLimit, Spent(order[o].now))])
  /\ UNCHANGED <<granted, transfers, head, day, receipts, reserved, deaths>>

\* The reading, or the authority, cannot be loaded: nothing is reserved.
ReadFails(o) ==
  /\ order[o].at = "reading"
  /\ Moves(o, [order[o] EXCEPT !.at = "refused"])
  /\ UNCHANGED <<granted, transfers, head, day, receipts, reserved, deaths>>

FitsAlone(o, p) ==               \* variant: the reservations of others ignored
  AmountOf[o] <= order[o].remaining

Fits(o, p) == AmountOf[o] + reserved[p] <= order[o].remaining

Reserve(o) ==
  LET p == order[o].buyer IN
  /\ order[o].at = "read"
  /\ IF Fits(o, p)
     THEN /\ Moves(o, [order[o] EXCEPT !.at = "reserved"])
          /\ reserved' = [reserved EXCEPT ![p] = @ + AmountOf[o]]
     ELSE /\ Moves(o, [order[o] EXCEPT !.at = "refused"])
          /\ UNCHANGED reserved
  /\ UNCHANGED <<granted, transfers, head, day, receipts, deaths>>

Released(o) ==
  [reserved EXCEPT ![order[o].buyer] = Saturating(@, AmountOf[o])]

Sign(o) ==
  /\ order[o].at = "reserved"
  /\ Moves(o, [order[o] EXCEPT !.at = "sent", !.payment = "live"])
  /\ UNCHANGED <<granted, transfers, head, day, receipts, reserved, deaths>>

SignFails(o) ==
  /\ order[o].at = "reserved"
  /\ Moves(o, [order[o] EXCEPT !.at = "refused"])
  /\ reserved' = Released(o)
  /\ UNCHANGED <<granted, transfers, head, day, receipts, deaths>>

\* An answer, of any status, or the last broken connection: `finally` releases.
\* The signed payment outlives the request; one that is never settled stands
\* for one that expired.
Delivered(o) ==
  /\ order[o].at = "sent"
  /\ Moves(o, [order[o] EXCEPT !.at = "done"])
  /\ reserved' = Released(o)
  /\ UNCHANGED <<granted, transfers, head, day, receipts, deaths>>

BuyerDies(p) ==
  /\ deaths < MaxDeaths
  /\ deaths' = deaths + 1
  /\ reserved' = [reserved EXCEPT ![p] = 0]
  /\ order' = [o \in Orders |->
       IF order[o].buyer = p /\ order[o].at # "refused"
       THEN [order[o] EXCEPT !.at = "done"] ELSE order[o]]
  /\ UNCHANGED <<granted, transfers, head, day, receipts>>

(***************************************************************************)
(* The merchant, the chain and the clock                                   *)
(***************************************************************************)
\* The merchant's facilitator settles a live payment, and its receipt store,
\* which may be where the hunter does not look, may lose the record of it.
SettleTransfer(o, stored) ==
  /\ order[o].payment = "live"
  /\ head' = head + 1
  /\ transfers' = transfers \cup {[order |-> o, block |-> head + 1, day |-> day]}
  /\ receipts' \in IF stored THEN {{(UNION receipts) \cup {o}}} ELSE {receipts, {UNION receipts}}
  /\ Moves(o, [order[o] EXCEPT !.payment = "settled"])
  /\ UNCHANGED <<granted, day, reserved, deaths>>

DayEnds ==
  /\ day < MaxDay
  /\ day' = day + 1
  /\ UNCHANGED <<granted, transfers, head, receipts, reserved, order, deaths>>

SpendNext ==
  \/ \E o \in Orders :
       \/ \E p \in Buyers : Approve(p, o)
       \/ ReadSpending(o) \/ ReadFails(o) \/ Reserve(o)
       \/ Sign(o) \/ SignFails(o) \/ Delivered(o)
       \/ \E stored \in BOOLEAN : SettleTransfer(o, stored)
  \/ \E p \in Buyers : BuyerDies(p)
  \/ DayEnds

SpendSpec == SpendInit /\ [][SpendNext]_spendVars

(***************************************************************************)
(* Properties                                                              *)
(***************************************************************************)
Holding(p) == {o \in Orders : order[o].buyer = p /\ order[o].at \in {"reserved", "sent"}}

\* The payments one process has reserved and not yet seen answered never add
\* up to more than the daily limit, however their readings, signatures and
\* answers interleave, and the map of reservations is exactly their sum: no
\* path of paidFetch releases twice or forgets to release.
InFlightWithinLimit ==
  \A p \in Buyers :
    /\ reserved[p] = MapThenSumSet(LAMBDA o : AmountOf[o], Holding(p))
    /\ reserved[p] <= SpendLimit

\* x402-client.test.ts:265: "rejects a payment when confirmed spend or
\* in-flight reservations consume the limit".  A reservation is made only
\* when the orders transferred that day, those its process has in flight and
\* the new one fit the limit together.
RejectsWhenConsumed ==
  [][\A o \in Orders :
       granted /\ order[o].at = "read" /\ order'[o].at = "reserved" =>
         MapThenSumSet(LAMBDA x : AmountOf[x],
           {t.order : t \in InWindow(day)} \cup Holding(order[o].buyer) \cup {o})
           <= SpendLimit
    ]_spendVars
=============================================================================
