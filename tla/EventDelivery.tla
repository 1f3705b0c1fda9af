-------------------------- MODULE EventDelivery ---------------------------
(***************************************************************************)
(* What the outbox promises of every event: the audit log holds it only    *)
(* after the transaction that wrote it has committed, and what is          *)
(* committed or logged stays so.                                           *)
(***************************************************************************)
CONSTANT Events

VARIABLES written,    \* events whose transaction committed
          delivered   \* events the audit log holds

Init == written = {} /\ delivered = {}

Write(e) ==
  /\ e \in Events \ written
  /\ written' = written \cup {e}
  /\ UNCHANGED delivered

Deliver(e) ==
  /\ e \in written \ delivered
  /\ delivered' = delivered \cup {e}
  /\ UNCHANGED written

Next == \E e \in Events : Write(e) \/ Deliver(e)

Spec == Init /\ [][Next]_<<written, delivered>>
===========================================================================
