--------------------------- MODULE AtomicRecords ---------------------------
(***************************************************************************)
(* What the file stores promise their callers: a map of records in which   *)
(* every call changes one record, at once, from what it is at that moment. *)
(* A record is the set of facts it holds; it is absent while it has none.  *)
(***************************************************************************)
CONSTANTS Logged,     \* keys of records that only grow (durable runs)
          Replaced,   \* keys of records that are saved whole (receipts, missions)
          Facts

VARIABLE records

AtomicInit == records = [k \in Logged \cup Replaced |-> {}]

CreateRecord(k, f)  == records[k] = {} /\ records' = [records EXCEPT ![k] = {f}]
ExtendRecord(k, f)  == records[k] # {} /\ records' = [records EXCEPT ![k] = @ \cup {f}]
ReplaceRecord(k, r) == records' = [records EXCEPT ![k] = r]

AtomicNext ==
  \/ \E k \in Logged, f \in Facts : CreateRecord(k, f) \/ ExtendRecord(k, f)
  \/ \E k \in Replaced, f \in Facts : CreateRecord(k, f)
  \/ \E k \in Replaced, r \in (SUBSET Facts) \ {{}} : ReplaceRecord(k, r)

AtomicSpec == AtomicInit /\ [][AtomicNext]_records
=============================================================================
