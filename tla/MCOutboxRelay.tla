-------------------------- MODULE MCOutboxRelay ---------------------------
(***************************************************************************)
(* Instance of OutboxRelay for TLC.                                        *)
(***************************************************************************)
EXTENDS OutboxRelay

CONSTANTS r1, r2

ThreeEvents == 1..3
TwoRelays   == {r1, r2}
===========================================================================
