------------------------ MODULE MCSettlementWindow ------------------------
(***************************************************************************)
(* Instance of SettlementWindow for TLC: four payments between three banks,*)
(* a and b paying each other back and forth, one payment within bank c.    *)
(***************************************************************************)
EXTENDS SettlementWindow

ThreeBanks   == {"a", "b", "c"}
FourPayments == 1..4

Entry(s, d, n) == [SourceBIC |-> s, DestBIC |-> d, Amount |-> n, Currency |-> "KES"]

FourEntries == << Entry("a", "b", 2), Entry("b", "a", 2), Entry("b", "c", 1), Entry("c", "c", 3) >>
===========================================================================
