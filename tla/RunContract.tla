----------------------------- MODULE RunContract -----------------------------
(***************************************************************************)
(* What the run tables promise to whoever reads them (the SSE stream, the  *)
(* mission history, the operator): every run is a log that only grows,     *)
(* written under epochs that only grow, and it ends once; a run that ended *)
(* in failure may later be repaired, which extends its log one last time.  *)
(***************************************************************************)
EXTENDS Naturals, Sequences

CONSTANTS Mission,
          MaxRepair     \* how many entries one repair may add

VARIABLES log,      \* log[m]: the epochs under which the events of m were written
          epoch,    \* epoch[m]: the lease epoch handed out last
          ending    \* ending[m]: "none" until the run ends

contractVars == <<log, epoch, ending>>

ContractInit == /\ log = [m \in Mission |-> <<>>]
                /\ epoch = [m \in Mission |-> 0]
                /\ ending = [m \in Mission |-> "none"]

\* Hand the open runs of S to a worker, under the next epoch of each.
Handover(S) ==
    /\ \A m \in S : ending[m] = "none"
    /\ epoch' = [m \in Mission |-> epoch[m] + (IF m \in S THEN 1 ELSE 0)]
    /\ UNCHANGED <<log, ending>>

Record(m) ==
    /\ ending[m] = "none"
    /\ epoch[m] > 0
    /\ log' = [log EXCEPT ![m] = Append(@, epoch[m])]
    /\ UNCHANGED <<epoch, ending>>

End(m, outcome) ==
    /\ ending[m] = "none"
    /\ epoch[m] > 0
    /\ ending' = [ending EXCEPT ![m] = outcome]
    /\ UNCHANGED <<log, epoch>>

Repair(m, n) ==
    /\ ending[m] = "failed"
    /\ ending' = [ending EXCEPT ![m] = "completed"]
    /\ log' = [log EXCEPT ![m] = @ \o [i \in 1..n |-> epoch[m]]]
    /\ UNCHANGED epoch

ContractNext ==
    \/ \E S \in SUBSET Mission : Handover(S)
    \/ \E m \in Mission :
          \/ Record(m)
          \/ \E outcome \in {"completed", "failed", "cancelled"} : End(m, outcome)
          \/ \E n \in 0..MaxRepair : Repair(m, n)

ContractSpec == ContractInit /\ [][ContractNext]_contractVars
=============================================================================
