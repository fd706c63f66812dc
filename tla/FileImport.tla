----------------------------- MODULE FileImport -----------------------------
(***************************************************************************)
(* The move of a host from its JSON files to Postgres                      *)
(* (postgres-import-file-stores.ts).  An importer reads the files one by   *)
(* one, without their locks, foresees how many rows they make, and writes  *)
(* them all in one transaction under an advisory lock.  It may be started  *)
(* twice, die, and meet processes that still write the files, or already   *)
(* write the tables.                                                       *)
(*                                                                         *)
(* One record of each kind for a mission: its run, its purchase (the       *)
(* buyer's journal) and its execution (the merchant's); and one authority. *)
(***************************************************************************)
EXTENDS Naturals, FiniteSets

CONSTANTS Importers, Missions,
          MaxChanges   \* bound on changes of the files

\* Keys of rows: "a" is the authority's, and the lock has a value of its own.
ASSUME ImportAssumption ==
  /\ MaxChanges \in Nat /\ IsFiniteSet(Missions)
  /\ "a" \notin Missions /\ "unlocked" \notin Importers

VARIABLES
  files,     \* runs.json, x402-purchases/, x402-*-receipts.json, authority-evidence.json
  changes,
  importer,  \* where each importer is, and what it has loaded
  advisory,  \* the importer that holds the advisory lock, or Unlocked
  rows,      \* committed rows: table, key, state, who wrote them
  ledger     \* file_imports: the digests imported

importVars == <<files, changes, importer, advisory, rows, ledger>>

Unlocked == "unlocked"
NoFiles == [ runs       |-> [m \in Missions |-> "none"],
             purchases  |-> {},
             executions |-> [m \in Missions |-> "none"],
             authority  |-> "none" ]
NoImport == [at |-> "idle", source |-> NoFiles, before |-> 0, known |-> FALSE, inserted |-> {}]

ImportInit ==
  /\ files = NoFiles /\ changes = 0
  /\ importer = [i \in Importers |-> NoImport]
  /\ advisory = Unlocked
  /\ rows = {} /\ ledger = {}

(***************************************************************************)
(* The services that still write the files                                 *)
(***************************************************************************)
Changed(f) == changes < MaxChanges /\ changes' = changes + 1 /\ files' = f

FileRunStarts(m) ==
  files.runs[m] = "none" /\ Changed([files EXCEPT !.runs[m] = "running"])
FileRunEnds(m) ==
  files.runs[m] = "running" /\ Changed([files EXCEPT !.runs[m] = "ended"])
\* A command buys without a run.
FileJournals(m) ==
  m \notin files.purchases /\ Changed([files EXCEPT !.purchases = @ \cup {m}])
FileSettles(m) ==
  /\ m \in files.purchases
  /\ \E step \in {<<"none", "settlement_attempting">>, <<"settlement_attempting", "paid">>, <<"paid", "completed">>} :
       /\ files.executions[m] = step[1]
       /\ Changed([files EXCEPT !.executions[m] = step[2]])
FileGrants ==
  \E step \in {<<"none", "pending">>, <<"pending", "granted">>} :
     files.authority = step[1] /\ Changed([files EXCEPT !.authority = step[2]])

FilesChange ==
  /\ \/ \E m \in Missions : FileRunStarts(m) \/ FileRunEnds(m) \/ FileJournals(m) \/ FileSettles(m)
     \/ FileGrants
  /\ UNCHANGED <<importer, advisory, rows, ledger>>

\* A replica that already runs over Postgres admits a mission of its own.
TablesChange ==
  /\ \A r \in rows : r.by # "service"
  /\ rows' = rows \cup {[table |-> "runs", key |-> "new mission", state |-> "running", by |-> "service"]}
  /\ UNCHANGED <<files, changes, importer, advisory, ledger>>

(***************************************************************************)
(* What a source means                                                     *)
(***************************************************************************)
Row(table, key, state) == [table |-> table, key |-> key, state |-> state, by |-> "import"]

Paid(s, m) == s.executions[m] \in {"paid", "completed"}
RunsOf(s) == {m \in Missions : s.runs[m] # "none"}

\* A purchase needs a run for its foreign key: one that has none gets a parent.
RunRows(s) == {Row("runs", m, "ended") : m \in RunsOf(s)}
ParentRows(s) == {Row("runs", m, "parent") : m \in s.purchases \ RunsOf(s)}
PurchaseRows(s) ==
  {Row("x402_purchases", m, IF s.executions[m] = "none" THEN "quoted" ELSE s.executions[m]) : m \in s.purchases}
ExecutionRows(s) ==
  LET begun == {m \in Missions : s.executions[m] # "none"} IN
    {Row("x402_executions", m, s.executions[m]) : m \in begun}
    \cup {Row("chain_transactions", m, "confirmed") : m \in {n \in begun : Paid(s, n)}}
AuthorityRows(s) ==
  CASE s.authority = "none"    -> {}
    [] s.authority = "pending" -> {Row("authorities", "a", "invalid"), Row("authority_steps", "a", "pending")}
    [] s.authority = "granted" -> {Row("authorities", "a", "active"), Row("authority_steps", "a", "confirmed"),
                                   Row("chain_transactions", "a", "confirmed")}

SourceRows(s) ==
  RunRows(s) \cup ParentRows(s) \cup PurchaseRows(s) \cup ExecutionRows(s) \cup AuthorityRows(s)

TableNames == {"runs", "x402_purchases", "x402_executions", "chain_transactions", "authorities", "authority_steps"}
TableCounts(set) == [t \in TableNames |-> Cardinality({r \in set : r.table = t})]

SourceCounts(s) ==
  LET paid == {m \in Missions : Paid(s, m)} IN
  [ runs               |-> Cardinality(RunsOf(s)) + Cardinality(s.purchases \ RunsOf(s)),
    x402_purchases     |-> Cardinality(s.purchases),
    x402_executions    |-> Cardinality({m \in Missions : s.executions[m] # "none"}),
    chain_transactions |-> Cardinality(paid) + IF s.authority = "granted" THEN 1 ELSE 0,
    authorities        |-> IF s.authority = "none" THEN 0 ELSE 1,
    authority_steps    |-> IF s.authority = "none" THEN 0 ELSE 1 ]

(***************************************************************************)
(* main                                                                    *)
(***************************************************************************)
Advances(i, from, new) ==
  /\ importer[i].at = from
  /\ importer' = [importer EXCEPT ![i] = new]
Stays == UNCHANGED <<files, changes, rows, ledger>>

LoadRuns(i) ==
  /\ Advances(i, "idle", [NoImport EXCEPT !.at = "authorities", !.source.runs = files.runs])
  /\ Stays /\ UNCHANGED advisory
LoadAuthorities(i) ==
  /\ Advances(i, "authorities", [importer[i] EXCEPT !.at = "purchases", !.source.authority = files.authority])
  /\ Stays /\ UNCHANGED advisory
LoadPurchases(i) ==
  /\ Advances(i, "purchases", [importer[i] EXCEPT !.at = "executions", !.source.purchases = files.purchases])
  /\ Stays /\ UNCHANGED advisory

\* "File import requires every Hunter run to be stopped or terminal"
LoadExecutions(i) ==
  /\ Advances(i, "executions",
       IF \E m \in Missions : importer[i].source.runs[m] = "running" THEN NoImport
       ELSE [importer[i] EXCEPT !.at = "loaded", !.source.executions = files.executions])
  /\ Stays /\ UNCHANGED advisory

\* Before the transaction: is the target empty, is this digest in the ledger.
LooksAtTarget(i) ==
  /\ Advances(i, "loaded", [importer[i] EXCEPT !.at = "looked", !.before = Cardinality(rows),
                              !.known = importer[i].source \in ledger])
  /\ Stays /\ UNCHANGED advisory

\* A dry run, an import made before, or a target that is not empty: nothing is written.
LeavesTarget(i) ==
  /\ Advances(i, "looked", NoImport)
  /\ Stays /\ UNCHANGED advisory

TakesAdvisoryLock(i) ==
  /\ ~importer[i].known /\ importer[i].before = 0 /\ advisory = Unlocked
  /\ Advances(i, "looked", [importer[i] EXCEPT !.at = "locked"])
  /\ advisory' = i
  /\ Stays

Clashes(i) == \E r \in rows, q \in SourceRows(importer[i].source) : r.table = q.table /\ r.key = q.key

InsertsSource(i) ==
  /\ ~Clashes(i)
  /\ Advances(i, "locked", [importer[i] EXCEPT !.at = "inserted", !.inserted = SourceRows(importer[i].source)])
  /\ Stays /\ UNCHANGED advisory

CountsForeseen(i) == TRUE                  \* variant: the totals are not compared
CountsEqual(i) == TableCounts(rows \cup importer[i].inserted) = SourceCounts(importer[i].source)

VerifiesTotals(i) ==
  /\ CountsEqual(i)
  /\ Advances(i, "inserted", [importer[i] EXCEPT !.at = "verified"])
  /\ Stays /\ UNCHANGED advisory

CommitsImport(i) ==
  /\ Advances(i, "verified", NoImport)
  /\ rows' = rows \cup importer[i].inserted
  /\ ledger' = ledger \cup {importer[i].source}
  /\ advisory' = Unlocked
  /\ UNCHANGED <<files, changes>>

\* A key that exists, totals that differ, or the death of the process.
RollsBack(i) ==
  /\ importer[i].at \in {"locked", "inserted", "verified"}
  /\ importer' = [importer EXCEPT ![i] = NoImport]
  /\ advisory' = Unlocked
  /\ Stays

ImportNext ==
  \/ FilesChange \/ TablesChange
  \/ \E i \in Importers :
       \/ LoadRuns(i) \/ LoadAuthorities(i) \/ LoadPurchases(i) \/ LoadExecutions(i)
       \/ LooksAtTarget(i) \/ LeavesTarget(i) \/ TakesAdvisoryLock(i)
       \/ InsertsSource(i) \/ VerifiesTotals(i) \/ CommitsImport(i) \/ RollsBack(i)

ImportSpec == ImportInit /\ [][ImportNext]_importVars

(***************************************************************************)
(* Properties                                                              *)
(***************************************************************************)
\* Importers that overlap, start again or die, over files that move and tables
\* in use, leave the tables with no imported row, or with every row of exactly
\* one source (an empty one aside), each purchase with its run and the state of its execution.
ImportIsWhole ==
  LET imported == {r \in rows : r.by = "import"} IN
  /\ Cardinality({s \in ledger : SourceRows(s) # {}}) <= 1
  /\ imported = UNION {SourceRows(s) : s \in ledger}
  /\ \A p \in imported : p.table = "x402_purchases" =>
       /\ \E r \in imported : r.table = "runs" /\ r.key = p.key
       /\ \A x \in imported : x.table = "x402_executions" /\ x.key = p.key => x.state = p.state
=============================================================================
