--------------------------- MODULE HolderSnapshot ---------------------------
(***************************************************************************)
(* The table of a token's holders (run-holder-snapshot.ts): from the       *)
(* Transfer logs, fetched in ranges by concurrent workers from a node that *)
(* fails, times out or answers with part of the logs, or from the holder   *)
(* index of an explorer.  A snapshot is written only when it reconciles    *)
(* with the balances and the supply read at one block.                     *)
(*                                                                         *)
(* A block holds at most one transfer, of one unit; a log is its block.    *)
(***************************************************************************)
EXTENDS Integers, Sequences, FiniteSets, FiniteSetsExt

CONSTANTS Holders,
          Chunk,         \* HOLDER_SNAPSHOT_CHUNK_SIZE
          SmallRange,    \* the range that is no longer bisected, 10000 blocks
          Concurrency,
          Created,       \* the block of the contract's creation
          MaxBlock       \* bound on the length of the chain

ASSUME SnapshotAssumption ==
  /\ {Chunk, SmallRange, Concurrency, Created} \subseteq Nat \ {0} /\ MaxBlock \in Nat
  /\ IsFiniteSet(Holders) /\ "zero" \notin Holders

VARIABLES
  chainLog,  \* the transfer of every block, or Quiet
  report,    \* block and supply of the paid report, or block 0
  scan,      \* the running script
  logCache,  \* the file of transfer logs, or NoLogs
  snapshot   \* holder-snapshot-output.json, or NoTable

snapshotVars == <<chainLog, report, scan, logCache, snapshot>>

Zero == "zero"                     \* the address of mints and burns
Quiet == [from |-> Zero, to |-> Zero]
NoLogs == [first |-> 0, last |-> 0, logs |-> {}]
NoTable == [block |-> 0, table |-> {}]
NoScan == [at |-> "idle", block |-> 0, supply |-> 0, first |-> 0, next |-> 0, open |-> {}, logs |-> {}]

SnapshotInit ==
  /\ chainLog = [b \in 1..(Created - 1) |-> Quiet]
  /\ report = [block |-> 0, supply |-> 0]
  /\ scan = NoScan /\ logCache = NoLogs /\ snapshot = NoTable

(***************************************************************************)
(* The log of transfers, and its replay from a set of logs                 *)
(***************************************************************************)
LogsIn(first, last) == {b \in first..last : b \in DOMAIN chainLog /\ chainLog[b] # Quiet}

BalanceOf(h, logs) ==
  Cardinality({b \in logs : chainLog[b].to = h}) - Cardinality({b \in logs : chainLog[b].from = h})
SupplyOf(logs) == 0 - BalanceOf(Zero, logs)
Participants(logs) == {h \in Holders : \E b \in logs : h \in {chainLog[b].from, chainLog[b].to}}

\* A log that would make its sender negative ends the script.
Replays(logs) ==
  \A b \in logs : chainLog[b].from # Zero => BalanceOf(chainLog[b].from, {c \in logs : c < b}) >= 1

Table(addresses, logs) ==
  {[holder |-> h, balance |-> BalanceOf(h, logs)] : h \in {a \in addresses : BalanceOf(a, logs) > 0}}
SumOf(table) == MapThenSumSet(LAMBDA row : row.balance, table)

(***************************************************************************)
(* The chain and the paid report                                           *)
(***************************************************************************)
Transfers ==
  {t \in [from : Holders \cup {Zero}, to : Holders \cup {Zero}] :
     t.from # t.to /\ (t.from # Zero => BalanceOf(t.from, LogsIn(1, Len(chainLog))) > 0)}

Mine ==
  /\ Len(chainLog) < MaxBlock
  /\ \E t \in Transfers \cup {Quiet} : chainLog' = Append(chainLog, t)
  /\ UNCHANGED <<report, scan, logCache, snapshot>>

\* A paid investigation replaces paid-run-output.json.
Investigate ==
  /\ Len(chainLog) >= Created /\ report.block # Len(chainLog)
  /\ report' = [block |-> Len(chainLog), supply |-> SupplyOf(LogsIn(1, Len(chainLog)))]
  /\ UNCHANGED <<chainLog, scan, logCache, snapshot>>

(***************************************************************************)
(* The script                                                              *)
(***************************************************************************)
\* Bisection on eth_getCode, for a contract that once created stays.
FirstCodeBlock(top) ==
  LET search[low \in 0..top, high \in 0..top] ==
        IF low >= high THEN low
        ELSE LET middle == (low + high) \div 2 IN
             IF middle < Created THEN search[middle + 1, high] ELSE search[low, middle]
  IN search[0, top]

\* The creation block may also be configured, rightly or not.
StartScan ==
  /\ scan.at = "idle" /\ report.block > 0
  /\ \E first \in {FirstCodeBlock(report.block)} \cup 0..report.block :
       LET cached == logCache.first = first /\ logCache.last = report.block IN
       scan' = [NoScan EXCEPT !.at = IF cached THEN "fetched" ELSE "scanning",
                              !.block = report.block, !.supply = report.supply,
                              !.first = first, !.next = first,
                              !.logs = IF cached THEN logCache.logs ELSE {}]
  /\ UNCHANGED <<chainLog, report, logCache, snapshot>>

NextRange ==
  [top |-> scan.next, from |-> scan.next,
   to |-> IF scan.next + Chunk - 1 < scan.block THEN scan.next + Chunk - 1 ELSE scan.block]

TakeRange ==
  /\ scan.at = "scanning" /\ scan.next <= scan.block
  /\ Cardinality({r.top : r \in scan.open}) < Concurrency
  /\ scan' = [scan EXCEPT !.open = @ \cup {NextRange}, !.next = @ + Chunk]
  /\ UNCHANGED <<chainLog, report, logCache, snapshot>>

\* The node, or the fallback for a small range, answers, maybe not with every log.
RangeAnswered(r) ==
  /\ \E some \in SUBSET LogsIn(r.from, r.to) :
       scan' = [scan EXCEPT !.open = @ \ {r}, !.logs = @ \cup some]
  /\ UNCHANGED <<chainLog, report, logCache, snapshot>>

RangeBisected(r) ==
  /\ r.to - r.from + 1 > SmallRange
  /\ LET middle == (r.from + r.to) \div 2 IN
     scan' = [scan EXCEPT !.open = (@ \ {r}) \cup {[r EXCEPT !.to = middle], [r EXCEPT !.from = middle + 1]}]
  /\ UNCHANGED <<chainLog, report, logCache, snapshot>>

\* The logs are cached before anything is checked.
CacheLogs ==
  /\ scan.at = "scanning" /\ scan.next > scan.block /\ scan.open = {}
  /\ scan' = [scan EXCEPT !.at = "fetched"]
  /\ logCache' = [first |-> scan.first, last |-> scan.block, logs |-> scan.logs]
  /\ UNCHANGED <<chainLog, report, snapshot>>

\* variant: only the supply is compared
ReconcilesSupply(table, chain, logs, supply) == SupplyOf(logs) = SupplyOf(chain) /\ SupplyOf(chain) = supply
Reconciles(table, chain, logs, supply) ==
  /\ SupplyOf(logs) = SupplyOf(chain) /\ SumOf(table) = SupplyOf(chain) /\ SupplyOf(chain) = supply
  /\ \A h \in Participants(logs) : BalanceOf(h, logs) = BalanceOf(h, chain)

WriteSnapshot ==
  LET chain == LogsIn(1, scan.block)
      table == Table(Participants(scan.logs), chain) IN
  /\ scan.at = "fetched"
  /\ Replays(scan.logs) /\ Reconciles(table, chain, scan.logs, scan.supply)
  /\ snapshot' = [block |-> scan.block, table |-> table]
  /\ scan' = NoScan
  /\ UNCHANGED <<chainLog, report, logCache>>

\* The addresses of the explorer's index, at the current block.
WriteIndexedSnapshot ==
  /\ scan.at = "idle" /\ report.block > 0
  /\ \E indexed \in SUBSET Holders :
       LET chain == LogsIn(1, Len(chainLog))
           table == Table(indexed, chain) IN
       /\ SumOf(table) = SupplyOf(chain) /\ SupplyOf(chain) = report.supply
       /\ snapshot' = [block |-> Len(chainLog), table |-> table]
  /\ UNCHANGED <<chainLog, report, scan, logCache>>

\* A small range that neither node answers, logs that do not reconcile, a death.
ScanEnds ==
  /\ scan.at # "idle"
  /\ scan' = NoScan
  /\ UNCHANGED <<chainLog, report, logCache, snapshot>>

SnapshotNext ==
  \/ Mine \/ Investigate
  \/ StartScan \/ TakeRange \/ \E r \in scan.open : RangeAnswered(r) \/ RangeBisected(r)
  \/ CacheLogs \/ WriteSnapshot \/ WriteIndexedSnapshot \/ ScanEnds

SnapshotSpec == SnapshotInit /\ [][SnapshotNext]_snapshotVars

(***************************************************************************)
(* Properties                                                              *)
(***************************************************************************)
\* Whatever the nodes leave out, the index forgets, the operator configures
\* and an earlier run cached, a written table names every holder of its block
\* with its balance, and nobody else.
SnapshotIsExact ==
  snapshot.table = Table(Holders, LogsIn(1, snapshot.block))
=============================================================================
