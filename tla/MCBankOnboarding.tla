------------------------- MODULE MCBankOnboarding --------------------------
(* A switch administrator and the administrator of bank b1.                 *)
EXTENDS BankOnboarding

MCRole          == [admin |-> "SWITCH_ADMIN", own |-> "BANK_ADMIN"]
MCRegistered    == [c1 |-> "b1", c2 |-> NoBank]
MCParticipantID == [admin |-> NoBank, own |-> "b1"]
===========================================================================
