----------------------------- MODULE FileStores -----------------------------
(***************************************************************************)
(* The single-host stores: one JSON file per store, read, changed and      *)
(* renamed into place under a lock directory (withLocalFileLock).  The     *)
(* callers are processes of one host; they can die at any await, which     *)
(* leaves the lock behind for ever, and a caller that waits gives up.      *)
(*                                                                         *)
(* Two kinds of record share the file here: durable runs, which are        *)
(* created once and then updated from what the file holds, and x402        *)
(* receipts, which are begun by compare-and-set and then saved whole from  *)
(* the copy the request handler keeps.                                     *)
(***************************************************************************)
EXTENDS Naturals, FiniteSets

CONSTANTS Callers, RunKeys, ReceiptKeys,
          FileOwner0,   \* nobody
          MaxCalls      \* bound on the calls of one process

ASSUME FileAssumption ==
  FileOwner0 \notin Callers /\ RunKeys \cap ReceiptKeys = {} /\ MaxCalls \in Nat

VARIABLES
  file,   \* the store: key |-> facts of its record
  lock,   \* the lock directory, and who made it (which the directory does not say)
  call,   \* each process's call
  copy,   \* the receipt each process holds, from its own writes or a get
  won     \* receipts each process began

fileVars == <<file, lock, call, copy, won>>

FileKeys == RunKeys \cup ReceiptKeys
EmptyFile == [k \in FileKeys |-> {}]
\* The facts of a receipt, and of a run: which process wrote to it.
FileFacts == {"begun", "paid", "answer", "error"} \cup Callers

NoCall == [at |-> "idle", op |-> "none", key |-> "none", read |-> EmptyFile, made |-> 0]
CallState ==
  [ at   : {"idle", "waiting", "locked", "read", "renamed", "dead"},
    op   : {"none", "admit", "update", "begin", "pay", "answer", "fail"},
    key  : FileKeys \cup {"none"},
    read : [FileKeys -> SUBSET FileFacts],
    made : 0..MaxCalls ]

FileInit ==
  /\ file = EmptyFile
  /\ lock = FileOwner0
  /\ call = [c \in Callers |-> NoCall]
  /\ copy = [c \in Callers |-> [k \in ReceiptKeys |-> {}]]
  /\ won  = [c \in Callers |-> {}]

(***************************************************************************)
(* What the callers ask for                                                *)
(***************************************************************************)
\* The paid route saves a payment, or its doubt about one, only for a
\* settlement it began, and an outcome only for an order its copy shows paid.
MayAsk(c, op, k) ==
  CASE op \in {"admit", "update"}  -> k \in RunKeys
    [] op = "begin"                -> k \in ReceiptKeys
    [] op = "pay"                  -> k \in won[c] /\ "paid" \notin copy[c][k]
    [] op = "answer"               -> k \in ReceiptKeys /\ "paid" \in copy[c][k]
    [] op = "fail"                 -> k \in won[c] \/ (k \in ReceiptKeys /\ "paid" \in copy[c][k])

Ask(c, op, k) ==
  /\ call[c].at = "idle" /\ call[c].made < MaxCalls
  /\ MayAsk(c, op, k)
  /\ call' = [call EXCEPT ![c] = [call[c] EXCEPT !.at = "waiting", !.op = op, !.key = k,
                                                 !.made = call[c].made + 1]]
  /\ UNCHANGED <<file, lock, copy, won>>

\* get: a read of the file without the lock; rename makes it whole.
Get(c, k) ==
  /\ call[c].at = "idle" /\ file[k] # copy[c][k]
  /\ copy' = [copy EXCEPT ![c][k] = file[k]]
  /\ UNCHANGED <<file, lock, call, won>>

(***************************************************************************)
(* withLocalFileLock                                                       *)
(***************************************************************************)
AcquireAnyway(c) ==               \* variant: a lock found in place is taken over
  /\ call[c].at = "waiting"
  /\ lock' = c
  /\ call' = [call EXCEPT ![c].at = "locked"]
  /\ UNCHANGED <<file, copy, won>>

Acquire(c) ==
  /\ call[c].at = "waiting" /\ lock = FileOwner0
  /\ lock' = c
  /\ call' = [call EXCEPT ![c].at = "locked"]
  /\ UNCHANGED <<file, copy, won>>

LockTimesOut(c) ==
  /\ call[c].at = "waiting" /\ lock # FileOwner0
  /\ call' = [call EXCEPT ![c] = [NoCall EXCEPT !.made = call[c].made]]
  /\ UNCHANGED <<file, lock, copy, won>>

ReadStore(c) ==
  /\ call[c].at = "locked"
  /\ call' = [call EXCEPT ![c].at = "read", ![c].read = file]
  /\ UNCHANGED <<file, lock, copy, won>>

BegunUnlessAnswered(read, k) == "answer" \in read[k]   \* variant
Begun(read, k) == read[k] # {}

\* The record the operation puts in its place, from the store it read.
Written(c) ==
  LET o == call[c] IN
  CASE o.op = "admit"  -> {c}
    [] o.op = "update" -> o.read[o.key] \cup {c}
    [] o.op = "begin"  -> {"begun"}
    [] o.op = "pay"    -> copy[c][o.key] \cup {"paid"}
    [] o.op = "answer" -> (copy[c][o.key] \ {"error"}) \cup {"answer"}
    [] o.op = "fail"   -> copy[c][o.key] \cup {"error"}

\* admit replays, update throws, begin answers false: nothing is written.
Declined(c) ==
  LET o == call[c] IN
  \/ o.op = "admit"  /\ o.read[o.key] # {}
  \/ o.op = "update" /\ o.read[o.key] = {}
  \/ o.op = "begin"  /\ Begun(o.read, o.key)

RenameStore(c) ==
  /\ call[c].at = "read"
  /\ call' = [call EXCEPT ![c].at = "renamed"]
  /\ IF Declined(c) THEN UNCHANGED <<file, copy, won>>
     ELSE LET o == call[c] IN
       /\ file' = [o.read EXCEPT ![o.key] = Written(c)]
       /\ copy' = IF o.key \in ReceiptKeys THEN [copy EXCEPT ![c][o.key] = Written(c)] ELSE copy
       /\ won'  = IF o.op = "begin" THEN [won EXCEPT ![c] = @ \cup {o.key}] ELSE won
  /\ UNCHANGED lock

Release(c) ==
  /\ call[c].at = "renamed"
  /\ lock' = FileOwner0
  /\ call' = [call EXCEPT ![c] = [NoCall EXCEPT !.made = call[c].made]]
  /\ UNCHANGED <<file, copy, won>>

CallerDies(c) ==
  /\ call[c].at # "dead"
  /\ call' = [call EXCEPT ![c] = [NoCall EXCEPT !.at = "dead", !.made = call[c].made]]
  /\ UNCHANGED <<file, lock, copy, won>>

\* The process comes back without memory.
CallerRestarts(c) ==
  /\ call[c].at = "dead" /\ call[c].made < MaxCalls
  /\ call' = [call EXCEPT ![c] = [NoCall EXCEPT !.made = call[c].made + 1]]
  /\ copy' = [copy EXCEPT ![c] = [k \in ReceiptKeys |-> {}]]
  /\ won'  = [won EXCEPT ![c] = {}]
  /\ UNCHANGED <<file, lock>>

\* "Verify no writer is running before removing its .lock directory."
OperatorUnlocks ==
  /\ lock # FileOwner0
  /\ \A c \in Callers : call[c].at \notin {"locked", "read", "renamed"}
  /\ lock' = FileOwner0
  /\ UNCHANGED <<file, call, copy, won>>

FileNext ==
  \/ \E c \in Callers :
       \/ \E op \in {"admit", "update", "begin", "pay", "answer", "fail"}, k \in FileKeys : Ask(c, op, k)
       \/ \E k \in ReceiptKeys : Get(c, k)
       \/ Acquire(c) \/ LockTimesOut(c) \/ ReadStore(c) \/ RenameStore(c) \/ Release(c)
       \/ CallerDies(c) \/ CallerRestarts(c)
  \/ OperatorUnlocks

FileSpec == FileInit /\ [][FileNext]_fileVars

(***************************************************************************)
(* Properties                                                              *)
(***************************************************************************)
Atomic == INSTANCE AtomicRecords WITH
            Logged <- RunKeys, Replaced <- ReceiptKeys, Facts <- FileFacts, records <- file

\* Through crashes, lock timeouts and locks left behind, the file behaves as
\* an atomic map of records: no update is lost, none touches another record.
KeepsRecords == Atomic!AtomicSpec

\* A payment once on record in a receipt is never overwritten by a later save
\* of another process's copy, although a save replaces the whole record.
ReceiptKeepsPayment ==
  [][\A k \in ReceiptKeys : "paid" \in file[k] => "paid" \in file'[k]]_fileVars
=============================================================================
