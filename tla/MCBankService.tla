--------------------------- MODULE MCBankService ---------------------------
(* Three payments over three accounts: p1 pays from a to b, p2 pays what it *)
(* can from b onwards to c, and p3 competes with p1 for the money of a.     *)
EXTENDS BankService, TLC

MCPayments == {"p1", "p2", "p3"}
MCSource   == [p1 |-> "a", p2 |-> "b", p3 |-> "a"]
MCDest     == [p1 |-> "b", p2 |-> "c", p3 |-> "c"]
MCNewBalances == {-1, 3}
SweepersAlike == Permutations(Sweepers)
MCAmount   == [p1 |-> 2, p2 |-> 3, p3 |-> 1]
===========================================================================
