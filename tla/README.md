# A formal model of agora-mesh

agora-mesh is a marketplace of AI agents on BNB Chain. A *hunter* takes a mission, hires
service agents (*writers*), pays each over x402 with a session key that may spend within an
on-chain authority, and streams what happens. In the multi-replica deployment every hunter
and every service runs as two or more processes over one PostgreSQL database; on a single host
they share JSON files; and beside them run operator's scripts that spend money, move data and
fill the evidence directory a public page is made from. What makes the system correct is what
those processes, the chain and an operator may do to each other. That is what is modelled
here: the protocol, not the analysis the agents perform.

Sources are named relative to `src/`. `CF` is `agents/hunter/src/commander-flow.ts`, `PCS` is
`shared/src/postgres-coordination-store.ts`.

Contents: [1 Inventory](#1-inventory) · [2 Modules](#2-modules) ·
[3 Runs](#3-runs-and-bounds) · [4 Fairness](#4-fairness) · [5 Proofs](#5-proofs) ·
[6 Findings](#6-findings) · [7 What each property would catch](#7-what-each-property-would-catch) ·
[8 What is external or left out](#8-what-is-external-or-left-out) · [9 Plan](#9-plan)

To check: `tlc -config MCParts.cfg MCParts` (module and configuration of each run are in
`PROJECT.json`); `tlapm RunProofs.tla`, and likewise for the other seven `*Proofs` modules, which
take up to ten minutes each. No run takes more than three minutes with two workers.

## 1 Inventory

| Component | State | Operations | Interacts through | What is hard | What makes it correct |
|---|---|---|---|---|---|
| **Run tables** (`PCS` 175–380, `database/migrations/001`) | `runs` (status, cancel flag, lease, fencing token, sequence), `run_events` | admit, claim, renew, append, finish, cancel, complete a recovered run | SQL statements | two workers present old and new credentials; a cancellation races a finish | the log is dense and ordered by epoch, a run ends once, cancellation wins |
| **Run manager** (`agents/hunter/src/run-manager.ts`, `run-store.ts`) | active runs of a process: abort signal, chain of writes, lost flag | submit, poll, heartbeat, append, finish, cancel, shutdown | the run tables; the mission store | every write is read-then-write; stalls, crashes, lost replies, drain | admitted runs end, superseded replicas stop, history never runs ahead |
| **x402 tables** (`PCS` 387–570, migration 010) | purchases (buyer's journal), executions (merchant's), transactions, outbox | create purchase, begin settlement, record payment, mark uncertain, save | both services write them | `save` is several statements | journals agree, a transaction pays once |
| **x402 buyer** (`integrations/altana/x402-client.ts`) | journal, in-process spend reservations | quote, journal, sign, deliver, replay | HTTP to the merchant, the wallet | two replicas buy the same service; crash before or after the signature | one debit per order, always traceable |
| **x402 merchant** (`agents/writer/src/x402/routes.ts`, `receipt-store.ts`) | executions, executions under way | claim, settle, record, execute, answer | the facilitator, the tables | unknown outcome of a settlement; other replicas; joining an execution | nothing is settled twice or answered unpaid |
| **Reconciliation** (`agents/writer/src/spikes/reconcile-settlement.ts`) | – | bind a transaction to an uncertain request | the tables, the chain | races a late confirmation | evidence is the order's own |
| **Authority lifecycle** (`integrations/altana/authority-lifecycle.ts`, two stores, three commands) | encrypted session, public evidence with a journal of steps | provision, resume, revoke | the chain; an operator | two stores saved one after the other, lost answers | usable ⇒ backed by the chain; no live key is lost; a begun revocation completes |
| **Browser authority** (`browser-authority.ts`, `use-browser-authority.ts`) | the same stores; the page's step | prepare, begin, confirm, revoke | a passkey wallet in the page | pages reload or are open twice, the relay drops and reorders | usable while backed; a certified key is dead |
| **Authority spending** (`authority-spending.ts`, `x402-client.ts` 160–200) | reservations of a process | read the day's spending, reserve, release | chain logs, receipts | awaits between the two reads | what is in flight fits the limit |
| **Commander** (`CF`, `commander-budget.ts`) | mission budget, phases | hire, charge, time out, abort, fall back | scripted flow per phase; planner (LLM) | a phase that lost its race goes on; parallel tool calls; re-execution | caps of phases, phase and mission; a service is paid once |
| **Scripted flow** (`scripted-flow.ts`) | spend approver of a phase | buy, verify or review | x402 buyer | two purchases against one limit | never more than the limit |
| **ReAct loops** (`react-engine.ts`, `kimi-loop.ts`) | runtime state shared by the tools | search, hire, pay, execute, verify, conclude | a language model; Writers | tools in any order, several at once | verified ⇒ paid for and executed |
| **Native payments** (`agents/writer/src/payment.ts`, `routes.ts`) | used and reserved transfers of a process | reserve, verify, execute, mark used | the chain | restarts, two requests with one transfer | served once per payment |
| **File stores, file lock** (`shared/src/file-lock.ts`, file variants of the stores) | JSON files, a lock directory | read, change, rename under the lock | processes of one host | crashed holder | each call is atomic; a receipt keeps its payment |
| **Dynamic services** (`shared/src/dynamic-service-store.ts`) | a JSON file, a lock file that is stolen when stale | register, list | providers, the registry | stealing is three steps | a living provider is listed again |
| **Service leases, registry** (`PCS` 575–780, `agents/registry`) | leases with TTL, identities, a seed file | upsert, list, offer | heartbeats of replicas | drains, replicas with different endpoints | a living replica is offered again |
| **Feedback, reputation, ranking** (`PCS` 674–760, `service-reputation.ts`, `comparator.ts`) | one review per service, agent and mission | rank, hire, grade, post | missions, the registry | re-execution, late posts | a qualified service has enough missions behind it |
| **Event stream** (`agents/hunter/src/index.ts` 234–338, `use-agent-stream.ts`) | offset of each client | admit, replay, follow | the run tables | reconnection, recovery while connected | nothing the page shows has been skipped |
| **Mission store and recovery** (`mission-store.ts`, `paid-audit-recovery.ts`, `mission-evidence-recovery.ts`) | mission records, a recovery lock | recover a paid audit, rebuild a mission | run tables, purchase journal | attempts die after paying | one Verifier is paid once; mission and run agree |
| **Import** (`scripts/postgres-import-file-stores.ts`) | – | read, digest, write, verify | files, tables | overlapping importers, living writers | all or nothing, and equal to what was read |
| **ERC-8004 identity** (`scripts/register-hunter-erc8004.ts`, `onchain-registration.ts`) | a lock file, a record, the registry on the chain | register, bind the wallet | chain | a death after the broadcast | a second identity is an error somebody saw |
| **Paid rehearsals** (`scripts/run-three-paid-rehearsals.ts`, acceptance scripts) | result files, an authority's spending | run missions, recover, finalise, validate | the Hunter, the chain | failures after payment, a new authority | accepted spending is all of it, once |
| **Holder snapshot** (`scripts/run-holder-snapshot.ts`) | cached logs, cursor | fetch, bisect, fail over, reconcile | nodes, an explorer | nodes that omit logs | a written snapshot is the balances |
| **Evidence scripts** (experiments 2, 3; `validate-evidence.ts`) | evidence directory | review, enrich, candidate, triage, baselines, validate | files | overlapping or killed scripts, files of another study | what is accepted is one study |
| **Final report** (experiment 1; `finalize-agent-advantage.ts`) | report and its inputs | run, adjudicate, finalise | files written in place | torn and mixed inputs | an accepted report is one reading |
| **Advantage page** (`advantage-report.ts`, `advantage-evaluator.ts`) | – | join missions with evidence | stores and files that change | read while replaced | what is shown belongs to the mission |
| **Outbox** (`PCS` 841–916) | rows with lock, attempts | enqueue, claim, publish, fail | no caller but tests | expired lock claimed again | published once per claim |
| HTTP security, rate limiter; money formats; analysis pipelines; rest of the frontend; deployment | counters; none | – | – | – | not modelled, see `PROJECT.json` |

`PROJECT.json` lists all of them with their status, and, under `hazards`, each place of this
code that a test would hardly reach with the properties that watch it.

## 2 Modules

```
RunContract  <--implements--  RunStore  <--EXTENDS, implements--  RunManager
PurchaseContract <--implements-- Settlement --EXTENDS, implements--> SettlementStore
AtomicRecords <--implements-- FileStores

RunProofs               RunStore, RunManager and their refinements
SettlementStoreProofs   SettlementStore       <--EXTENDS--  SettlementProofs   Settlement
CommanderBudgetProofs   CommanderBudget
AuthorityLifecycleProofs AuthorityLifecycle
PartsProofs             FileStores | BrowserAuthority | MissionRecovery | ServiceFeedback | RunStream
ProgramsProofs          ReactHunter | FinalReport | EvidenceStudy | IdentityRegistration |
                        FileImport | AdvantagePage
SumProofs               SpendReservation | PaidRehearsals | HolderSnapshot

MCParts    = RunStore | SettlementStore | FileStores | RunStream | SpendReservation |
             MissionRecovery | BrowserAuthority | AuthorityLifecycle | ServiceFeedback
MCPrograms = CommanderBudget | FileImport | HolderSnapshot | EvidenceStudy | ReactHunter |
             FinalReport | IdentityRegistration | PaidRehearsals | AdvantagePage
MCKeepers  = AuthorityLifecycle | DynamicServices | ServiceRegistry
```

Each `MC*` module gives the definitions TLC needs (symmetry, functions); each `.cfg`
gives the constants. `MCParts`, `MCPrograms` and `MCKeepers` check several components in one run:
a variable `part` says which component moves, the others rest, so that state spaces add up and do not
multiply. A resting part is in an initial state, or, where the checked invariants hold
of it trivially, in a smaller one (`NoReader`, `NoBuying`, …). Where sets of different parts are
exchanged together (`Along`), that is an exchange within each part: one part moves, and the others
rest in states no exchange changes. Nothing is concluded
about a component from a behaviour of another: these are not compositions.
The compositions are inside the modules: RunManager is the replicas with the tables, Settlement the
hunters, merchants, chain and operator with the tables, and each later module a component with
the processes around it.

### Runs and missions

**RunStore** – the tables `runs` and `run_events`. One action is one SQL statement or one
transaction: under READ COMMITTED an UPDATE re-evaluates its WHERE clause on the locked row.
`lease_expires_at` is the time left until it (`leaseLeft`, 0 = expired), `ClockTick` is the
database clock. Callers may present *any* worker and token. Each row and event carries an
`author`, the token under which its payload was computed, which no column of the table records:
it is what lets a property say who really wrote.

**RunContract** – what a reader of runs is promised, without leases or tables: logs grow under
growing epochs, a run ends once, a failed one may be repaired once.

**RunManager** – the replicas. `life[w][m]` is the entry of `active` of process `w`; its
`phase` names the await the lifecycle is at. `BeginAppend`/`CommitAppend` and
`BeginFinish`/`CommitFinish` are the two halves of `PostgresHunterRunStore.update`, which reads
the row and then writes with the credentials *of the row* (`CurrentCred`). A worker is one
process incarnation, because a restart draws a new owner id. Faults: a reply of the database is
lost, a process stalls past its lease, crashes, or drains.

**RunStream** – `streamRun` and the page's `EventSource`. A connection carries messages in
`feed`; a lost connection loses them, and the browser reconnects with the last id it has
seen. `es` is the client, `shown` what the page has on screen; the trace can grow by a recovery after
the run has ended.

**MissionRecovery** – `recoverPaidAudit` by several processes: hire a Verifier, save the mission,
complete the run, each a step at which an attempt can die. `intents` is the purchase journal,
`payments` the chain. `recoverMissionFromEvidence` rebuilds a mission nobody saved. The lock is named
after the authority of the process (`paid-audit-recovery.ts:102`), and so is its run store: `recoveryLock` has one lock for
those who act for the mission's own authority and, in two of the three `Deployments`, another for a
stranger: the command without an authority on a browser's mission, or the one that resumes under the
configured authority a mission of the command line. A stranger shares missions and
purchases with the others; the run it does not find, or, where runs are rows of one table, it does not
read and still completes (`get` asks for the scope, `completeRecovered` does not). Another browser
authority is refused. The live run's `onTerminal` replaces the mission, whatever it is, once.

**ReactHunter** – the tools over one runtime state (offer, hired service, transaction, result,
verdict), called by a model that chooses freely, up to `Overlap` at a time; and the Writers'
`POST /execute` with reserved and used transfers in memory, lost at a restart.

### Money

**SettlementStore** – the x402 tables, one action per statement; `save` of the receipt store is
`RecordConfirmedPayment`, `MarkSettlementUncertain`, `Save…` and `SaveResult` with other
callers in between. A request hash stands for the hash, the idempotency key and the nonce that
are derived from it.

**PurchaseContract** – a purchase: at most one debit, then the acknowledgement, then the answer.

**Settlement** – hunters that may execute the same mission, merchants behind one endpoint, calls
(`Call`), executions under way (`jobs`, the `Map` of each process), the operator's command and
the chain. A broken connection abandons a call whose handler goes on. The facilitator may settle
and answer, settle later, or not at all; a nonce pays once and not after its deadline.

**SpendReservation** – the check before a signature. A buyer reads the logs of the day in
chunks (`LOG_CHUNK_SIZE`), then receipts in place of logs, then the reservations of its own
process; each is a step, and other buyers settle in between. Days begin at midnight UTC. `receipts` is
the receipt store, if there is one: without a grant to start from, an existing store is believed, even
an empty one, and the scan from the head is for a process that has none.

**CommanderBudget** – `phases[h]` is the phase of one call of `hire_agent`: `at` is the await it
is at, `fate` what the commander made of it. `fate = "lost"` with `at` still running is a phase
that lost the race of `runPhaseWithTimeout` and goes on. `journal` is the x402 purchase of each
service by this mission; `debits` and `paid` count signed or sent payments.

**PaidRehearsals** – two plans, three rehearsals or the backend's acceptance: scripts that
start again after a failure, a Hunter whose missions fail after they paid and are recovered, an
authority that is revoked and followed by another, and the validator's sums.

### Authorities and identities

**AuthorityLifecycle** – `cli` is the command that holds the lifecycle lock with its in-memory
copies of the two records; every save and broadcast is a step (`pc`). `inflight` is the
broadcast whose fate is open, `Answers` what the relay may say of it: an answer with a hash counts as
confirmed with the status CONFIRMED or with none. `CommandStops` is a crash or a thrown error, at any step.

**BrowserAuthority** – pages (`tab`), what they sent (`sent`, which the relay mines or drops in
any order), the account contract and the server's records. Each route handler is a step under the
lock; a server crash between its two saves (`Halt`) is part of it.

**IdentityRegistration** – the script with its lock and journal, the services that register at
start without a lock, the record they share and the registry. `erred` counts the scripts that failed
alive after they had sent their transaction.

### Services

**ServiceRegistry** – replicas that advertise one service each at its own endpoint, heartbeat,
drain and lapse; the registry merges leases over its seed and asks the endpoint it is
about to offer.

**DynamicServices** – the file variant, with its lock file that is stolen when stale: `stat`,
`unlink` and `open` are three steps. A reader of the list takes the lock too, and writes back only
if an entry has lapsed.

**ServiceFeedback** – missions rank offers by reputation (`Rating`) and fee, hire the first
(`HireBest`), grade it and post the grade; a run is executed again after a crash; a post may
arrive late, after a newer one, or never. The table counts a review per service, agent and mission
(`Key`).

### Files and evidence

**FileStores**, **AtomicRecords** – JSON files read, changed and renamed under a lock
directory. `call` is where each process is in `withLocalFileLock`; a death leaves the
lock for ever, and waiters give up. AtomicRecords is the promise: each call
changes one record at once, from what it is then.

**FileImport** – importers that read files one by one without their locks, foresee counts and a digest,
and write in one transaction under an advisory lock; writers that may not be frozen.

**HolderSnapshot** – workers that take ranges, fail over between nodes, bisect, cache a scan and
reconcile it with supply and balances at one block, while a node may leave logs out.
`chainLog` is the chain and `BalanceOf` its balances, the reference the snapshot is compared with.

**EvidenceStudy**, **FinalReport** – every script as what it reads, the files it
renames (or writes in place) one by one and what it binds in them; the validator is a
predicate over the directory. A file is what it was made from.

**AdvantagePage** – the request, whose inputs are each read at some moment (`Readings`), the
missions and files that change meanwhile, and `buildAdvantageReport` as the operators that choose
and bind what is shown.

A definition whose comment says *variant* is a plausible mistake in the one after it. No
specification uses it; section 7 says which property rules it out.

## 3 Runs and bounds

| Run | Configuration | What it asks | Bounds and why they are enough |
|---|---|---|---|
| `parts` | MCParts | nine components, sixteen properties | see below |
| `programs` | MCPrograms | nine programs, eleven properties | see below |
| `keepers` | MCKeepers | a begun revocation completes; a living provider is listed and offered again | 2 authorities of one wallet, 1 fault; 1 provider and the registry that lists it, 2 deaths, either of them with the lock in hand; 2 replicas, 3 starts: both die and one comes back. No symmetry (liveness) |
| `run_manager` | MCRunManager | tokens name claims, history follows the run | 1 mission (lifecycles of different missions share no state), 2 replicas, 2 faults: a fault, and one during its handling. `MaxToken` 5 is above what two faults can claim, `MaxEvents` 3 above what the trace limit lets through |
| `run_manager_live` | MCRunManagerLive | cancellations, superseded replicas and admitted runs come to an end; replicas only do what RunStore allows | 1 fault; no symmetry (liveness) |
| `settlement` | MCSettlement | one debit, traceable; one settler; PurchaseContract; SettlementStore | 1 order, 2 requests, 2 hunters, 2 merchants, 2 calls in flight, 2 deliveries, 2 faults |
| `run_fencing` | MCRunFencing | violation, section 6 | 1 fault |
| `settlement_twice` | MCSettlementTwice | violation, section 6 | no fault, 2 answers |
| `commander_pays` | MCCommanderPays | violation, section 6 | sequential planner, no restart |
| `spend_overlap` | MCSpend | violation, section 6 | one process, 3 orders, no fault |
| `stolen_lock` | MCStolenLock | violation, section 6 | 2 providers, 2 deaths |
| `second_verifier` | MCSecondVerifier | violation, section 6 | 1 recoverer, 2 Verifiers |

Bounds of `parts`:

* runs: 2 missions, 2 workers: every rule is about one run and at most two parties, the second mission
  is for claims of several runs at once. 2 tokens: one takeover; 2 events: one under each token; `TraceLimit` 2 is reachable.
* x402 tables: 2 orders, 3 requests (two compete for one order), 2 transactions, 2 answers.
* files: 2 processes, 3 calls each, one record of each kind: a race needs two callers, and the third
  call meets what they left. `stream`: 3 events, 3 connections lost: one while admitting, one while
  following, one after the recovery. `AnyReplica` FALSE is the stricter of the two deployments.
* spend: 2 processes, 2 orders whose sum passes the limit, a scan of two chunks, 1 midnight, 1 death.
* recovery: 2 recoverers, each with the mission's own lock or one of them as a stranger, 4 attempts, 1 Verifier
  (with two the property fails, section 6).
* authorities: the command line manages 2 authorities of one wallet with 2 faults, one while provisioning and
  one while revoking, or one during the recovery from the other; the browser has 2 pages, 7 transactions (a
  grant and a revocation take six, so one may be sent twice) and 1 crash.
* feedback: 2 missions, 2 offers, one of them dynamic, 2 executions, `MinimumSamples` 2 (3 in the
  code): one mission alone cannot qualify a service, two can.

Bounds of `programs`:

* budget: 2 hires, 2 tasks, one service of each kind; total 4 < 2 × 3, so the second phase gets less
  than the first; 1 restart.
* import: 2 importers, 1 mission, 2 changes of the files: one while reading, one after the digest.
* snapshot: 2 holders, `Chunk` 2, `SmallRange` 1 (one bisection), 2 workers, 2 blocks to scan.
* evidence: 2 studies, 2 scripts that run or overlap, 1 file of the other study at first, one
  opinion of auditor and model: what is bound is whose study a file is of (the proof takes any number).
* react: 2 services of 2 Writers, 4 turns (12 in the code), 2 tools at once, 2 transfers, 1 restart.
* report: 2 takes of each answer, 2 scripts, 1 input replaced. `SizeOf` is 1 throughout.
* identity: 1 wallet, 3 programs: a script, a script that follows its death, and a service.
* rehearsals: 2 scripts, 3 missions (of 3 accepted ones), no midnight; acceptance: 1 script, 2 missions, 1 midnight,
  with one run of another script in the directory.
* page: 1 audit, 2 missions about one token, 2 audited sources, 2 missions end while the page is open, 1 file replaced.

Bounds that are guards of the modules: every constant whose comment says *bound*, and the finite sets that
name the actors. `MaxDeliveries` is a parameter of the code
(`deliveryAttempts`), as are `ClaimLimit`, `TraceLimit` (2000 in the code), `MaxTotal`,
`MaxPerPhase`, `MaxPhases`, `MaxSteps`, `ChunkSize`, `Chunk` and `MinimumSamples`.

A property that is proved for every instance (section 5) and follows from what a run checks, or holds
beside it, has no run of its own: `LogIsDense`, `CancellationWins`, `EvidenceIsBound`, `OneExecutionPerTx`,
`NeverRetried`, `SpentWithinTotal`, `PhasesWithinLimit`, nor have the type invariants
of RunManager, Settlement and AuthorityLifecycle.

Deadlock is not checked: every one of these systems may come to rest (all missions over, nothing
to buy, no command run, bounds used up). What must not rest is stated as liveness.
Symmetry is used only in runs without fairness, over sets whose members no specification orders.

## 4 Fairness

* **RunManager** `FairSpec`: timers fire (the poll, the heartbeat, the database clock), promises
  that can settle settle, and an execution whose signal is aborted ends, because the flow checks
  the signal between steps. `SupersededStops` and `CancelledRunsStop` need no more.
  `AdmittedRunsEnd` has the premise that executions end by themselves (`ExecutionsEnd`): tools and phases
  have timeouts. A crash, a stall or a lost reply is never fair, and a down process
  stays down; the bound on faults leaves at least one replica, as the deployment does.
* **AuthorityLifecycle** `LifecycleFairness`: a running command goes on, a broadcast is decided, and the
  operator reruns a revocation that failed. The last is strong fairness, because another command may
  hold the lifecycle lock whenever one looks, and it is an assumption about a person: without
  it a command that died stays dead, which is what the code intends.
* **DynamicServices** `DynamicFairness`: awaits of a living process settle, its registration timer
  fires, and locks grow old. Opening the lock is strongly fair: a waiter polls, and holders keep the lock
  for one read and one rename, so a living waiter finds it free some time; nothing in the code
  queues waiters, and this is what `ListedAgain` assumes of the scheduler. Deaths and
  starts are never fair, and neither is the lapse of a registration.
* **ServiceRegistry** `RegistryFairness`: the heartbeat timer of a living replica fires and its calls
  settle; the registry is asked for offers again and again. That a lease lapses is not fair, nor that a replica
  starts or stops. `OfferedAgain` has the premise that one replica stays up.

## 5 Proofs

TLAPS checks the following for every value of the constants that satisfies the named assumption
of each module: any number of missions, workers, requests, hunters, merchants, authorities, pages,
recoverers, services, holders and faults, any prices, limits and bounds. Every safety invariant and every
action property that a passing run checks, refinements included, is stated by a theorem. Of what the runs
check, only liveness is not.

The assumptions say that bounds are natural numbers, that a mark (`NoOwner`, `None`,
`Nothing`, `NoBuyer`, `"free"`, `"unlocked"`, `"zero"`) is none of the things it stands beside, and what
the code fixes or a proof needs beyond that: leases, claim limits and traces are not empty
(`StoreAssumption`: 30 s, 2000 events), prices of missions are positive (`RehearsalAssumption`), holders are
finitely many (`SnapshotAssumption`), audits are not token missions (`PageAssumption`), a transfer
is named by the request whose nonce it spends (`DeliveryAssumption`). Each is evaluated by the run
of its module.

A section of a proof module states the inductive invariant (`…Inv`), one lemma per action or group of
actions, a lemma that joins them, and the theorems. Where TLC can evaluate an invariant it was checked on the
run's instance first. The second column says what a property lacks to be inductive.

| Module | Inductive invariant, and what has to be added to the property |
|---|---|
| RunStore (`RunProofs`) | `StoreInv`. "Dense" equates a set of numbers with an interval, which no step shows: it is split into `Counted`, `NoGap`, `NoDuplicate`. `EpochsInOrder` needs that no event is ahead of its row's token, and that a leased row is a running one |
| RunManager (`RunProofs`) | `ManagerInv`. What a lifecycle knows of its row once its execution is over (`LateLifecycle`): from "finished" on the row is terminal, and the outcome it is about to report to the mission history is one the row has reached. Terminal rows change only by the recovery of a failed one, so this survives everybody else's steps |
| SettlementStore (`SettlementStoreProofs`) | `TablesInv`. A request nobody began is blank, links name existing purchases of their own order, and a doubtful purchase has the execution that made it so (without it nothing would keep a purchase from staying doubtful after the payment) |
| Settlement (`SettlementProofs`) | `SettlementInv`. What each process knows at each await: a hunter past the journal is backed by it (`HunterFine`), a handler past the claim owns it (`CallFine`, `OneEngaged`), an execution is for a bound payment (`JobFine`). `Monotone` says that no statement takes back what another process has seen; it carries all of these over the steps of the others |
| CommanderBudget (`CommanderBudgetProofs`) | `Sound` of each phase: what it paid and still has to pay for approved quotes fits its limit. `PhaseAdvances` reduces its steps to a few changes of its record. `Sequential`: with a sequential planner the limit of the one awaited phase is what the budget has left *now*, though it was read when the phase began. `PurchaseInv`: only the phase that journalled a service can be about to pay it |
| AuthorityLifecycle (`AuthorityLifecycleProofs`) | `LifecycleInv`. `EvidenceFine` relates a journal to the chain, and is asked of the stored journals and of the one in the hands of the command (`CommandFine`), because either may be the next that is saved; the order of disabling is part of it, and so is what is in flight |
| FileStores (`PartsProofs`) | `FileInv`. Who is inside holds the lock and has read the current file; of the processes that hold copies of a receipt only one began it, and nobody knows of a payment before that one |
| BrowserAuthority (`PartsProofs`) | `BrowserInv`. Over all pages and everything sent, one grant is ever begun (`GrantedOnce`); until revocation begins only grants are sent; once it has, no grant is open (`NoGrantOpen`), so none can arrive late and revive the key |
| MissionRecovery (`PartsProofs`) | `RecoveryInv`, in two parts. Whatever locks the attempts take, a payment has an intent and one attempt at most may pay it (`PaymentInv`). While all take the mission's own (`AgreementInv`), one attempt runs at a time, none has anything to do before `onTerminal`, and one that saved the mission holds exactly the events the run still lacks (`AttemptFine`), so whoever completes the run makes the two agree |
| ServiceFeedback (`PartsProofs`) | `FeedbackInv`. Every post under way and every review has a grade behind it. A qualified service has enough reviews, reviews differ in their mission, each mission graded: the rest counts sets |
| RunStream (`PartsProofs`) | `StreamInv`. `InFlight` gives the form of what is on the wire: a ready message or not, a stretch of events that ends with the last one sent, an outcome or not. The page has all events before that stretch, and the browser never resumes after an event it has not seen |
| ReactHunter (`ProgramsProofs`) | `ReactInv`. A tool call names a transfer made to the Writer it is at; a transfer is reserved for one request, is never both reserved and used, and has been served as often as it was used |
| FinalReport, EvidenceStudy (`ProgramsProofs`) | `FinalInv`, `StudyInv`. What a script holds in memory, and has yet to write, is bound as what it has written; files written in place may be torn. What binds the rest is the validator's comparison, from which the theorem then follows |
| IdentityRegistration (`ProgramsProofs`) | `IdentityInv`. An account: tokens of scripts and transactions of scripts are at most the errors and `Slack`, which is 1 if an identity is on record or the lock's holder has sent it, dead or alive, and 0 if the holder has just found nothing on record |
| FileImport (`ProgramsProofs`) | `ImportInv`. An importer past its insert holds the advisory lock with the rows of its source, and once the totals have been compared no imported row was there before. That totals agree forces this by counting: rows with different keys are as many as the keys |
| AdvantagePage (`ProgramsProofs`) | Nothing: a page keeps what it shows with what it was made from whatever was read (`PagesJoin`). A due diligence joins two missions of different kinds that paid their verifiers, hence four payments (`FourPayments`) |
| SpendReservation (`SumProofs`) | `SpendInv`. What a process has reserved is the sum over the orders it holds, which are finitely many |
| PaidRehearsals (`SumProofs`) | `RehearsalInv`. Missions note payments made for them; no day of the approved authority costs more than its cap. Accepted runs are different missions with different payments, so their prices add up to a part of the payments that already costs the whole cap |
| HolderSnapshot (`SumProofs`) | `SnapshotInv`. Nobody ever sends what he does not have (`NobodyOwes`). Each log has one sender and one receiver, so all balances add up to the supply. A table lists holders with their balance at the block; if it left out one with a balance, its sum would be less than the supply, which the script compares |

**Refinements.** `StoreKeepsContract` (RunStore implements RunContract), `ManagerImplementsStore` (RunManager
implements RunStore) and their composition `ManagerKeepsContract`; `SettlementKeepsTables` (Settlement
implements SettlementStore) and `SettlementKeepsContract` (it implements PurchaseContract);
`FileKeepsRecords` (FileStores implements AtomicRecords). Each has a lemma per action which says to what
step of the abstract module it maps, or that it leaves the abstract variables alone. So what is proved
of the tables holds of replicas and merchants.

**Sums.** The models add up money with the fold `MapThenSumSet` of the community modules. The prover cannot
instantiate induction theorems, which take an operator, so `SumProofs` argues with minimal
counterexamples: a set of subsets of a finite set has a minimal member (`MinimalSubset`), hence the
recursive function of the fold exists and is unique (`FoldExists`, `FoldsAgree`), and does not depend on the order of elements
(`WeightWithout`). From this follow the laws the rest uses: `WeightUnion`, `WeightAdds`,
`WeightOfPart` (a part weighs no more), `WeightOfEqual` (a part of positive weights that weighs the same is the whole),
`WeightOfImage` and `WeightOfParts`.

**What is not as general as it may look.** `VerifierPaidOnce` is proved for one Verifier on offer
(`OneVerifierIsPaidOnce`), since with two it is false (finding 6); for any number,
`EachVerifierIsPaidOnce`. Both hold whatever locks the attempts take; `HistoriesAlwaysAgree` is about
attempts under the mission's own lock (section 6 says what a stranger does). `BooksStayWithinTotal` and
`PhasesStayWithinLimitOfBudget` assume a sequential planner, `ServedAtMostOnce` counts since the last
restart of a Writer. The bounds on tokens, trace and faults are constants of the modules; the
theorems hold for every value of them.

**Only model-checked**: liveness under fairness, which is out of this prover's reach
(`CancelledRunsStop`, `SupersededStops`, `AdmittedRunsEnd`, `RevocationCompletes`, `ListedAgain`,
`OfferedAgain`), and with it the modules that have nothing else, DynamicServices and ServiceRegistry. The
statements of section 6 are false, and shown so by TLC.

## 6 Findings

1. **A stale worker can commit** (`run_fencing`; `agents/hunter/src/run-store.ts:306`).
   `update` writes with the owner and token it reads, not those its caller claimed, and the
   failure path of a lifecycle uses it after the lease is lost. The fencing of the tables, which
   `parts` confirms (`KeepsContract`), is defeated by the caller. `database/PRODUCTION_DESIGN.md:37-38` states that a
   paused old worker cannot commit.
2. **A paid request is executed twice** (`settlement_twice`; `agents/writer/src/x402/routes.ts:196`).
   Executions are joined within one process only, and the second answer replaces the first in the
   journal. `routes.test.ts:261` states that a replay joins the execution; services run as two or more
   replicas (`PRODUCTION_DESIGN.md:13-14`).
3. **A mission can pay more than its total** (`commander_pays`; `CF` 589). A phase that timed out
   after paying raises the phase count only, and the next phase gets the same money. Two smaller
   causes: the loser of the race goes on and may pay later (`CF` 242), and the risk review of an
   investigation is not charged (`CF` 288). What does hold is that no phase, lost or not, pays more than
   its own limit and that each uses up a place, so the overrun is bounded by phases × per-phase cap.
4. **In-flight and confirmed spending are read at different times** (`spend_overlap`;
   `integrations/altana/x402-client.ts:179`). An order that completes between the two reads is in
   neither sum, and one process passes the daily limit without a fault.
   `x402-client.test.ts:265` states that such a payment is rejected. What holds is
   `InFlightWithinLimit`: what one process has in flight never passes the limit. The
   authority on the chain stays the last line of defence.
5. **A stolen lock is stolen from its new holder** (`stolen_lock`;
   `shared/src/dynamic-service-store.ts:90`). Two waiters see one stale lock, the slower one unlinks the
   lock the faster one has just made, and an acknowledged registration is lost until its next heartbeat.
   `dynamic-service-store.test.ts:23` states that registrations are serialized.
6. **A second Verifier is paid** (`second_verifier`; `agents/hunter/src/paid-audit-recovery.ts:221`).
   The journal protects the pair of mission and service; a recovery that ranks another Verifier first
   after an attempt of unknown outcome pays again. The guard at line 144 reads events that a
   failed attempt never wrote.

Met while modelling, and not counted as findings since no text promises otherwise:

* parallel hires of one planner step pass the phase cap, because the budget is checked before the await
  and counted after it (`CF` 505; `Parallel = TRUE` violates `PhasesWithinLimit`). With a sequential planner the
  cap holds (proved);
* revoking one authority clears the Permit2 allowance another one of the same wallet needs; a crash
  between the two saves that activate an authority leaves one that can only be revoked; a buyer that
  crashed between journal and signature leaves an order nobody will ever pay;
* an execution imported from a file in state `failed` can never be begun again in Postgres; an import
  whose writers were not frozen copies a torn snapshot, and nothing tells;
* services register an identity without the script's lock, so two replicas that start together register
  twice; a script that fails alive after its broadcast releases the lock, and the next run registers again;
* a failed reflection fails a mission that has been paid and verified; the Kimi loop throws after twelve
  steps where the other loop ends;
* the finaliser writes in place: killed after it rewrote `slither-adjudication.json` it leaves a
  directory that is accepted with a baseline made on the old review, and missing paid missions make it
  throw after six artifacts were rewritten;
* two locks admit two recoveries of one mission at once: a command without an authority, run on a
  browser's mission while the browser recovers it, saves the mission again after the run was completed, and
  `HistoriesAgree` without its first conjunct is violated. The Verifier is still paid once. The command
  asks nothing of the run, the browser's route wants it failed;
* on the page the comparison bundle is not bound to the mission shown, and the duration of the
  security review is the external one's even when the paid one is shown;
* a delayed review of an older execution overwrites a newer grade; the Hunter posts reviews without
  the token the registry requires in production; a never-reviewed service that does not answer
  `/reputation` stands at 0 while one with a single bad review stands at 55 or more.

## 7 What each property would catch

Each row changes one definition to its variant (the definition before it in the module); the
property then fails in the run.

| Property | Run | Definition | Variant | The mistake |
|---|---|---|---|---|
| `EpochsInOrder` | `parts` | `RecoveryToken` | `RecoveryTokenOne` | recovery writes under token 1 instead of the row's |
| `KeepsContract` | `parts` | `HoldsLease` | `HoldsLeaseAsOwner` | the fencing token is not compared |
| `JournalsAgree` | `parts` | `PaidPurchase` | `PaidPurchaseIfQuoted` | a payment leaves an uncertain purchase behind |
| `PaymentIsFinal` | `parts` | `WrittenRow` | `WrittenRowAnyState` | `completed` is not sticky |
| `KeepsRecords` | `parts` | `Acquire` | `AcquireAnyway` | a lock found in place is taken over |
| `ReceiptKeepsPayment` | `parts` | `Begun` | `BegunUnlessAnswered` | a receipt may begin again until it has its answer |
| `NothingSkipped` | `parts` | `TraceId` | `TraceIdLate` | the id of a sent event is one too high |
| `InFlightWithinLimit` | `parts` | `Fits` | `FitsAlone` | the reservations of other orders are ignored |
| `VerifierPaidOnce` | `parts` | `PurchaseIsNew` | `PurchaseAlways` | a recovery ignores the purchase an earlier attempt journaled |
| `HistoriesAgree` | `parts` | `Diverged` | `NeverDiverged` | a mission that differs from its run is not repaired |
| `UsableWhileBacked` | `parts` | `Proves` | `ProvesByHash` | a hash confirms a step, no receipt is read |
| `CertifiedKeyIsDead` | `parts` | `FullyRevoked` | `RevokedInPart` | one of the three revocations certifies all |
| `UsableIsBacked` | `parts` | `OnChain` | `OnChainIfSent` | resume trusts the journal instead of reading the chain |
| `LiveKeyIsKept` | `parts` | `ProvisionAt` | `ProvisionGrantsFirst` | the grant is broadcast before the key is saved |
| `CertificateIsTrue` | `parts` | `Confirms` | `ConfirmsByHash` | any transaction hash counts as confirmed |
| `QualifiedByMissions` | `parts` | `Key` | `KeyPerExecution` | every execution of a mission leaves a review of its own |
| `RevocationCompletes` | `keepers` | `FinishRevoked` | `FinishRevokedRefused` | a rerun after the key was deleted is refused |
| `ListedAgain` | `keepers` | `LockIsStale` | `NeverStale` | an abandoned lock is never stolen |
| `OfferedAgain` | `keepers` | `LeaseRow` | `LeaseRowKept` | a heartbeat does not replace the endpoint of a lease |
| `TokensNameClaims` | `run_manager` | `ClaimedRow` | `ClaimedRowSameToken` | a claim keeps the token |
| `HistoryFollowsRun` | `run_manager` | `ReadBack` | `ReadBackNothing` | what was meant to be written is reported, not what is stored |
| `StoreSpec` | `run_manager_live` | `Cancel` | `CancelAnyRun` | a replica cancels a run that is over |
| `CancelledRunsStop` | `run_manager_live` | `MayWrite` | `MayWriteCancelled` | a worker goes on writing after a cancellation |
| `SupersededStops` | `run_manager_live` | `Heartbeat` | `HeartbeatDeaf` | a refused heartbeat does not abort |
| `AdmittedRunsEnd` | `run_manager_live` | `Claimable` | `ClaimableOnce` | an expired lease is not claimed |
| `DebitsAreTraceable` | `settlement` | `LosesJournal` | `LosesJournalSigns` | the result of creating the journal entry is ignored |
| `SingleSettler` | `settlement` | `LostClaim` | `LostClaimSettles` | a replica that lost the claim settles |
| `KeepsPurchaseContract` | `settlement` | `Proven` | `WithoutProof` | the operator may bind any request |
| `KeepsTables` | `settlement` | `Doubt` | `DoubtUnmarked` | an unknown outcome is saved without marking its purchase |
| `PhaseWithinLimit` | `programs` | `Approves` | `ApproveEachQuote` | quotes are compared with the limit one by one |
| `PaidOncePerService` | `programs` | `LosesPurchase` | `LosesPurchasePays` | losing the journal entry does not stop the payment |
| `ImportIsWhole` | `programs` | `CountsEqual` | `CountsForeseen` | the totals are not compared before the commit |
| `SnapshotIsExact` | `programs` | `Reconciles` | `ReconcilesSupply` | the supply is compared, the balances are not |
| `AcceptedIsOneStudy` | `programs` | `Synthesises` | `SynthesisesAnyDex` | a candidate does not ask whose study the enrichment is |
| `AcceptedReportIsOneReading` | `programs` | `ReportBound` | `TruthsBound` | the hashes of the baselines are not compared |
| `VerifiedIsPaidFor` | `programs` | `Verdict` | `Checked` | the conclusion repeats what `verify_receipt` found earlier |
| `ServedOncePerPayment` | `programs` | `Duplicate` | `UsedOnly` | a transfer under verification is not reserved |
| `DuplicatesAreErrors` | `programs` | `LockFree` | `StaleOrFree` | an abandoned registration lock may be taken |
| `AcceptedSpendIsWhole` | `programs` | `Unique` | `UniqueInEachRun` | a run's transactions are compared with its own only |
| `PageIsOfItsMissions` | `programs` | `Bound` | `BoundByToken` | the token is compared, not the mission and its report |

## 8 What is external or left out

External, modelled from how the code uses it: PostgreSQL (a statement is atomic on the rows it locks), the
chain (a wallet's transactions execute in nonce order, a nonce pays once), the facilitator,
the relay that answers for session keys (disabling twice succeeds, as
`authority-lifecycle.ts:142` assumes; `confirmed` takes a hash without a status for a confirmation, so
the model assumes that the SDK returns that only for what has been executed), the browser's `EventSource`, the file system (rename is
atomic, a write in place is not), nodes and explorers, the planner and the language models
(which call any tool, possibly several at once) and the services' analyses.

Left out of the modelled components:

* **Runs**: the one-time import of file records into the run tables; **x402**: the
  validation of request fields and signatures (a request is either its own or refused), expiry of
  quotes other than the payment deadline; **authorities**: expiry. `notices` models the outbox
  rows of payments.
* **ReactHunter**: the price of a skill against the Writer's own price, texts and scores. A Writer
  forgets used transfers when it restarts; a transfer is then served again, and the property counts since the restart.
* **MissionRecovery**: the content of a report.
* **ServiceFeedback**: the JSON backend (no lock, written in place: reviews can be lost or torn, and are not
  deduplicated), the trend (four reviews and more), the decay of old reviews and the on-chain
  reputation; the ReAct model, which may name any mission and service in `give_feedback`. Ranking reads
  reputations a moment before hiring, as the code does.
* **FileImport**: the order of rows and their columns. **HolderSnapshot**: amounts (a transfer moves one
  unit), and the transfer logs, which are cached before reconciliation.
* **IdentityRegistration**: the wallet on record may lag the chain until the next start; the property
  allows it.
* **PaidRehearsals**: limits per day; `actualSpendRaw` is copied from the intended spend. The operator is
  trusted to name the mission's own transaction to `recover-settled-x402-audit.ts`, and a recovery after
  the authority was replaced pays under the later one. `refund-orphaned-auditor-payment.ts` keeps no journal
  and is not modelled; nor are the pinned transactions of `validateLatestBackendAcceptance`.
* **EvidenceStudy**: the validator reads its files one after the other, here at one moment. A
  candidate is held against the auditor's file by finding count and verification summary only; candidate and
  triage each bind the other; enrichment attempts that are used again accumulate.
* **FinalReport**: scores, costs, the medians of the rehearsals; the validator does not check the candidate hash of
  the baseline's output, nor compare the candidate report of experiment 1 with its raw output.
* **AdvantagePage**: scores, costs and texts.

Not modelled:

* **Outbox**: rows are enqueued, and only tests claim or publish them, so there is no behaviour of the
  program to check.
* **Money and payment formats**, **HTTP security and rate limits**: pure functions, and counters of one process
  without an interleaving.
* **Analysis**: the pipelines for security, due diligence, verification and investigation read the chain and
  models and produce data; they keep no state another component relies on. An execution of them is one step of
  Settlement or ReactHunter.
* **The rest of the frontend**, deployment and start-up: presentation, or one statement each.

## 9 Plan

The order is by what can cost money or lose a run. Done: runs, x402 purchases,
authorities by command and by browser, commander, spending, stream, recovery, files, services,
feedback, native payments, import, identities, rehearsals, evidence, report and page.

Every safety property the runs check is proved (section 5). Next theorems: of DynamicServices and
ServiceRegistry, what a registration and an offer never do (both are checked for liveness only); an abstract
specification of the recovery, a mission's history as a reader sees it, and of the event stream, a
prefix of the log that grows, with MissionRecovery and RunStream shown to implement them.

Next models: the pure algorithms of **Money** and **RateLimit** against reference definitions over bounded
inputs, the JSON backend of reputation, and the liveness of the x402 handlers and of a mission.
