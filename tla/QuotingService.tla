--------------------------- MODULE QuotingService ---------------------------
(***************************************************************************)
(* The quoting service: quotes in a map behind a mutex, never removed. A   *)
(* quote is named by the payment it was asked for, or "none".              *)
(***************************************************************************)
EXTENDS Integers

CONSTANTS QuoteTTL   \* 30 s

VARIABLES quotes

NoQuote == [exp |-> 0]
baseFee == 25

QuotingInit(ids) == quotes = [i \in ids |-> NoQuote]

Restart(ids) == quotes' = [i \in ids |-> NoQuote]

CanQuote(p) == p.source # "" /\ p.dest # "" /\ p.amount > 0

getQuote(id, p, now) ==
  LET fee == baseFee + p.amount \div 10000
  IN  quotes' = [quotes EXCEPT ![id] =
        [fee |-> fee, total |-> p.amount + fee, exp |-> now + QuoteTTL, accepted |-> FALSE]]

CanAccept(id, now) == quotes[id] # NoQuote /\ now <= quotes[id].exp /\ ~ quotes[id].accepted

AcceptQuote(id, now) ==
  CanAccept(id, now) /\ quotes' = [quotes EXCEPT ![id].accepted = TRUE]

===========================================================================
