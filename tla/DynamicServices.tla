-------------------------- MODULE DynamicServices ---------------------------
(***************************************************************************)
(* The dynamic service store of a single host: providers register their    *)
(* service again and again with a time to live, and the registry lists     *)
(* what has not lapsed.  Every access reads and replaces one JSON file     *)
(* under a lock file.  Unlike the other stores' lock, this one is stolen   *)
(* when it is older than 30 s: stat, unlink and open are three steps, and  *)
(* the finally of the holder unlinks whatever lock is there.               *)
(***************************************************************************)
EXTENDS Naturals, FiniteSets

CONSTANTS Providers, Lister, MaxKills   \* MaxKills bounds deaths of processes

ASSUME DynamicAssumption == Lister \notin Providers /\ MaxKills \in Nat

VARIABLES
  entries,   \* the file: provider |-> its registration
  lockFile,  \* who created it; fresh, left by a process that died, or left for STALE_LOCK_MS
  at,        \* where each process is
  seen,      \* the store each process read
  acked,     \* providers whose last registration returned and has not lapsed
  kills

dynamicVars == <<entries, lockFile, at, seen, acked, kills>>

DynamicProcs == Providers \cup {Lister}
NoEntries == [p \in Providers |-> "none"]
NoLockFile == [by |-> "none", age |-> "none"]

DynamicInit ==
  /\ entries = NoEntries /\ lockFile = NoLockFile
  /\ at = [p \in DynamicProcs |-> "off"]
  /\ seen = [p \in DynamicProcs |-> NoEntries]
  /\ acked = {} /\ kills = 0

Goes(p, from, to) == at[p] = from /\ at' = [at EXCEPT ![p] = to]

StartProcess(p) == Goes(p, "off", "idle") /\ UNCHANGED <<entries, lockFile, seen, acked, kills>>

\* A heartbeat of a provider, or a request that lists the services.
BeginAccess(p) == Goes(p, "idle", "waiting") /\ UNCHANGED <<entries, lockFile, seen, acked, kills>>

(***************************************************************************)
(* withDynamicStoreLock                                                    *)
(***************************************************************************)
OpenLock(p) ==
  /\ lockFile = NoLockFile
  /\ Goes(p, "waiting", "held")
  /\ lockFile' = [by |-> p, age |-> "fresh"]
  /\ UNCHANGED <<entries, seen, acked, kills>>

NeverStale == FALSE                          \* variant: no lock is stolen
LockIsStale == lockFile.age = "stale"

SeeStale(p) ==
  /\ LockIsStale
  /\ Goes(p, "waiting", "stealing")
  /\ UNCHANGED <<entries, lockFile, seen, acked, kills>>

\* unlink: of the lock that is there now, not of the one that was seen.
StealLock(p) ==
  /\ Goes(p, "stealing", "waiting")
  /\ lockFile' = NoLockFile
  /\ UNCHANGED <<entries, seen, acked, kills>>

\* LOCK_TIMEOUT_MS passes only behind a holder that died.
LockWaitEnds(p) ==
  /\ lockFile.age = "left"
  /\ Goes(p, "waiting", "idle")
  /\ UNCHANGED <<entries, lockFile, seen, acked, kills>>

LockAges ==
  /\ lockFile.age = "left"
  /\ lockFile' = [lockFile EXCEPT !.age = "stale"]
  /\ UNCHANGED <<entries, at, seen, acked, kills>>

ReadEntries(p) ==
  /\ Goes(p, "held", "read")
  /\ seen' = [seen EXCEPT ![p] = entries]
  /\ UNCHANGED <<entries, lockFile, acked, kills>>

\* registerDynamicService replaces the provider's entry; listDynamicServices
\* drops what has lapsed, and writes only if something has.
WriteEntries(p) ==
  /\ Goes(p, "read", "written")
  /\ LET active == [q \in Providers |-> IF seen[p][q] = "lapsed" THEN "none" ELSE seen[p][q]]
     IN entries' = IF p # Lister THEN [seen[p] EXCEPT ![p] = "live"]
                   ELSE IF active # seen[p] THEN active ELSE entries
  /\ acked' = IF p = Lister THEN acked ELSE acked \cup {p}
  /\ UNCHANGED <<lockFile, seen, kills>>

CloseLock(p) ==
  /\ Goes(p, "written", "idle")
  /\ lockFile' = NoLockFile
  /\ seen' = [seen EXCEPT ![p] = NoEntries]
  /\ UNCHANGED <<entries, acked, kills>>

(***************************************************************************)
(* Deaths and time                                                         *)
(***************************************************************************)
Kill(p) ==
  /\ at[p] \notin {"off", "dead"} /\ kills < MaxKills
  /\ at' = [at EXCEPT ![p] = "dead"]
  /\ seen' = [seen EXCEPT ![p] = NoEntries]
  /\ lockFile' = IF lockFile = [by |-> p, age |-> "fresh"] THEN [lockFile EXCEPT !.age = "left"] ELSE lockFile
  /\ kills' = kills + 1
  /\ UNCHANGED <<entries, acked>>

Revive(p) == Goes(p, "dead", "idle") /\ UNCHANGED <<entries, lockFile, seen, acked, kills>>

\* Nothing renews the registrations of a dead provider.
Lapse(p) ==
  LET old(s) == [s EXCEPT ![p] = IF @ = "live" THEN "lapsed" ELSE @] IN
  /\ at[p] = "dead" /\ entries[p] = "live"
  /\ entries' = old(entries)
  /\ seen' = [q \in DynamicProcs |-> old(seen[q])]
  /\ acked' = acked \ {p}
  /\ UNCHANGED <<lockFile, at, kills>>

Accesses(p) ==
  \/ BeginAccess(p) \/ SeeStale(p) \/ StealLock(p) \/ LockWaitEnds(p)
  \/ ReadEntries(p) \/ WriteEntries(p) \/ CloseLock(p)

DynamicNext ==
  \/ \E p \in DynamicProcs :
       StartProcess(p) \/ OpenLock(p) \/ Accesses(p) \/ Kill(p) \/ Revive(p)
  \/ \E p \in Providers : Lapse(p)
  \/ LockAges

\* Heartbeats are periodic and each await returns; the lock is polled every
\* 20 ms and held for one file access, so a waiter gets it in the end.
DynamicFairness ==
  /\ WF_dynamicVars(LockAges)
  /\ \A p \in DynamicProcs : WF_dynamicVars(Accesses(p)) /\ SF_dynamicVars(OpenLock(p))

DynamicSpec == DynamicInit /\ [][DynamicNext]_dynamicVars /\ DynamicFairness

(***************************************************************************)
(* Properties                                                              *)
(***************************************************************************)
\* "serializes concurrent registrations": a registration that returned is in
\* the store until it lapses.
Serialized == \A p \in acked : entries[p] = "live"

\* A provider that keeps running is listed again and again, whatever died
\* with the lock in its hands.
ListedAgain ==
  \A p \in Providers :
    <>[](at[p] \notin {"off", "dead"}) => []<>(entries[p] = "live")
=============================================================================
