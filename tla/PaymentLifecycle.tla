------------------------- MODULE PaymentLifecycle -------------------------
(***************************************************************************)
(* What the switch promises about the status of a payment row, whatever    *)
(* fails and however many gateways, sagas and sweepers are at work: the    *)
(* row climbs the ladder of statuses one rung at a time, it may be         *)
(* aborted from any rung, and an aborted payment stays aborted.            *)
(*                                                                         *)
(* PaymentSaga implements this specification; no guard in the SQL of the   *)
(* repository enforces it (UpdateStatus overwrites any status), so it is a *)
(* property of the whole system and not of one statement.                  *)
(***************************************************************************)
EXTENDS Integers

CONSTANT Payments

VARIABLE status     \* status[p]: the status column of payment p's row

\* The statuses of a payment row, in the order of the saga's steps.
Rungs == << "RECEIVED", "VALIDATED", "LOOKED_UP", "ROUTED", "QUOTED",
            "SCREENED", "RESERVED", "COMMITTED", "SETTLED" >>

\* The status a row has while no row exists.
NoRow == "NONE"

PaymentStatus == { Rungs[i] : i \in 1..9 } \cup {"ABORTED"}

Init == status = [p \in Payments |-> NoRow]

Receive(p) ==
  /\ status[p] = NoRow
  /\ status' = [status EXCEPT ![p] = "RECEIVED"]

Advance(p) == \E i \in 1..8 :
  /\ status[p] = Rungs[i]
  /\ status' = [status EXCEPT ![p] = Rungs[i + 1]]

Abort(p) ==
  /\ status[p] # NoRow
  /\ status' = [status EXCEPT ![p] = "ABORTED"]

Next == \E p \in Payments : Receive(p) \/ Advance(p) \/ Abort(p)

Spec == Init /\ [][Next]_status
===========================================================================
