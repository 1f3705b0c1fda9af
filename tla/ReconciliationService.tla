----------------------- MODULE ReconciliationService -----------------------
(***************************************************************************)
(* The reconciliation service: one record per payment in a map behind a    *)
(* mutex. Match marks a record as matched or notes a discrepancy, and      *)
(* neither mark takes the other away.                                      *)
(***************************************************************************)
EXTENDS Integers

VARIABLES records

NoRecord == [status |-> "none"]

ReconciliationInit(ids) == records = [i \in ids |-> NoRecord]

Restart(ids) == records' = [i \in ids |-> NoRecord]

Insert(id, amount, status) ==
  records' = [records EXCEPT ![id] =
    [status |-> status, amount |-> amount, matched |-> FALSE, discrepancy |-> FALSE]]

Match(id, expected) ==
  /\ records[id] # NoRecord
  /\ records' = IF records[id].status = expected THEN [records EXCEPT ![id].matched = TRUE]
                ELSE [records EXCEPT ![id].discrepancy = TRUE]

===========================================================================
