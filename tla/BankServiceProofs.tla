------------------------- MODULE BankServiceProofs ------------------------
(***************************************************************************)
(* Theorems about BankService for every finite set of payments, whatever   *)
(* accounts and amounts they have, any replicas that sweep, and every      *)
(* number of faults, sweeps and administrative requests.                   *)
(***************************************************************************)
EXTENDS BankService, FoldTheorems

---------------------------------------------------------------------------
(***************************************************************************)
(* The inductive invariant: what the bank keeps, and how the calls made    *)
(* for a payment depend on how far its saga is.                            *)
(***************************************************************************)
BankInv ==
  /\ accounts \subseteq Accounts
  /\ balance \in [Accounts -> Int] /\ reserved \in [Accounts -> Nat]
  /\ opening \in [Accounts -> Int] /\ overdrawn \subseteq Accounts
  /\ held \in [Payments -> Int] /\ given \in [Payments -> Int]
  /\ \A a \in Accounts : balance[a] < 0 => a \in overdrawn
  /\ BooksAddUp
  /\ RecordIsOfAHold

ControlInv ==
  /\ reply \in {"none", "ok", "exists", "notfound", "found", "settled", "rejected"}
  /\ phase \in [Payments -> Phases] /\ marked \subseteq Payments
  /\ mishaps \in [Payments -> SUBSET {"fault", "refused", "swept", "restart"}]
  /\ found \in [Sweepers -> SUBSET Payments] /\ releasing \in [Sweepers -> SUBSET Payments]
  /\ faults \in 0..MaxFaults /\ admin \in 0..MaxAdmin /\ sweeps \in 0..MaxSweeps

\* Sweepers work only for payments no saga works for.
SweepInv == \A g \in Sweepers : \A p \in found[g] \cup releasing[g] : phase[p] \in Ended

\* No sweeper and no restart has interfered with payment p.
Untouched(p) == mishaps[p] \cap {"swept", "restart"} = {}

PayInv(p) ==
  /\ phase[p] = "start" => held[p] = 0 /\ given[p] = 0 /\ mishaps[p] = {}
  /\ phase[p] = "reserved" => given[p] = 0
  /\ held[p] <= Amount[p] /\ given[p] <= Amount[p]
  /\ Untouched(p) =>
       /\ held[p] \in {0, Amount[p]} /\ given[p] \in {0, Amount[p]}
       /\ phase[p] \in {"reserved", "credited", "reverse", "release"} => held[p] = Amount[p]
       /\ phase[p] \in {"credited", "reverse"} => given[p] = Amount[p]
  /\ mishaps[p] = {} => <<held[p], given[p]>> = Believed(p)

IInv == BankInv /\ ControlInv /\ SweepInv /\ \A p \in Payments : PayInv(p)

\* What the run checks follows.
LEMMA InvImplies == IInv => TypeOK /\ BalancesMatchSagas /\ RecordIsOfAHold
  <1> SUFFICES ASSUME IInv PROVE TypeOK /\ BalancesMatchSagas /\ RecordIsOfAHold
    OBVIOUS
  <1>1. TypeOK
    BY DEF IInv, BankInv, ControlInv, TypeOK
  <1>2. ASSUME NEW p \in Payments, held[p] < 0 \/ given[p] < 0
        PROVE  mishaps[p] \cap {"swept", "restart"} # {}
    <2>1. Amount[p] \in Nat
      BY BankAssumption
    <2>2. ~(held[p] \in {0, Amount[p]} /\ given[p] \in {0, Amount[p]})
      BY <1>2, <2>1
    <2> QED BY <2>2 DEF IInv, PayInv, Untouched
  <1>3. BalancesMatchSagas
    BY <1>2 DEF IInv, BankInv, PayInv, BalancesMatchSagas
  <1> QED BY <1>1, <1>3 DEF IInv, BankInv

---------------------------------------------------------------------------
(***************************************************************************)
(* Sums of what was held and given.                                        *)
(***************************************************************************)

\* The payments that concern an account are finitely many.
LEMMA FewPayments ==
  \A a : IsFiniteSet({p \in Payments : Source[p] = a}) /\ IsFiniteSet({p \in Payments : Dest[p] = a})
  <1> SUFFICES ASSUME NEW a
               PROVE  IsFiniteSet({p \in Payments : Source[p] = a}) /\ IsFiniteSet({p \in Payments : Dest[p] = a})
    OBVIOUS
  <1>1. {p \in Payments : Source[p] = a} \subseteq Payments /\ {p \in Payments : Dest[p] = a} \subseteq Payments
    OBVIOUS
  <1> QED BY <1>1, BankAssumption, FS_Subset

\* A sum of integers over the payments of an account is one.
LEMMA SumsType ==
  ASSUME NEW f \in [Payments -> Int], NEW a
  PROVE  /\ SumFunctionOnSet(f, {p \in Payments : Source[p] = a}) \in Int
         /\ SumFunctionOnSet(f, {p \in Payments : Dest[p] = a}) \in Int
  <1> DEFINE S == {p \in Payments : Source[p] = a}
             T == {p \in Payments : Dest[p] = a}
  <1>1. IsFiniteSet(S) /\ IsFiniteSet(T) /\ (\A p \in S : f[p] \in Int) /\ \A p \in T : f[p] \in Int
    BY FewPayments
  <1> HIDE DEF S, T
  <1>2. SumFunctionOnSet(f, S) \in Int /\ SumFunctionOnSet(f, T) \in Int
    BY <1>1, SumType
  <1> QED BY <1>2 DEF S, T

LEMMA TakenGivenType ==
  ASSUME held \in [Payments -> Int], given \in [Payments -> Int]
  PROVE  \A a : Taken(a) \in Int /\ Given(a) \in Int
  BY SumsType DEF Taken, Given

\* What is taken from an account changes with what payment p holds of it.
LEMMA TakenMoves ==
  ASSUME held \in [Payments -> Int], NEW p \in Payments, NEW h \in Int, Holds(p, h), NEW a
  PROVE  Taken(a)' = Taken(a) + (IF Source[p] = a THEN h ELSE 0)
  <1> DEFINE S == {q \in Payments : Source[q] = a}
  <1>1. Taken(a) = SumFunctionOnSet(held, S) /\ Taken(a)' = SumFunctionOnSet(held', S)
    BY DEF Taken
  <1>2. held' \in [Payments -> Int] /\ held'[p] = held[p] + h /\ \A q \in Payments : q # p => held'[q] = held[q]
    BY DEF Holds
  <1>3. IsFiniteSet(S) /\ (S \subseteq Payments) /\ (p \in S <=> Source[p] = a)
    BY FewPayments
  <1>4. SumFunctionOnSet(held, S) \in Int
    BY SumsType
  <1> DEFINE x == SumFunctionOnSet(held, S)
             y == SumFunctionOnSet(held', S)
  <1> HIDE DEF S
  <1>5. CASE p \in S
    <2>1. y = x - held[p] + held'[p]
      BY <1>2, <1>3, <1>5, SumUpdate
    <2>2. x \in Int /\ held[p] \in Int
      BY <1>4
    <2> HIDE DEF x, y
    <2>3. y = x + h
      BY <1>2, <2>1, <2>2
    <2> QED BY <1>1, <1>3, <1>5, <2>3 DEF x, y
  <1>6. CASE p \notin S
    <2>1. y = x
      BY <1>2, <1>3, <1>6, SumCongruence
    <2>2. x \in Int
      BY <1>4
    <2> HIDE DEF x, y
    <2>3. y = x + 0
      BY <2>1, <2>2
    <2> QED BY <1>1, <1>3, <1>6, <2>3 DEF x, y
  <1> QED BY <1>5, <1>6

\* What is given to an account changes with what payment p gives it.
LEMMA GivenMoves ==
  ASSUME given \in [Payments -> Int], NEW p \in Payments, NEW c \in Int, Gives(p, c), NEW a
  PROVE  Given(a)' = Given(a) + (IF Dest[p] = a THEN c ELSE 0)
  <1> DEFINE S == {q \in Payments : Dest[q] = a}
  <1>1. Given(a) = SumFunctionOnSet(given, S) /\ Given(a)' = SumFunctionOnSet(given', S)
    BY DEF Given
  <1>2. given' \in [Payments -> Int] /\ given'[p] = given[p] + c /\ \A q \in Payments : q # p => given'[q] = given[q]
    BY DEF Gives
  <1>3. IsFiniteSet(S) /\ (S \subseteq Payments) /\ (p \in S <=> Dest[p] = a)
    BY FewPayments
  <1>4. SumFunctionOnSet(given, S) \in Int
    BY SumsType
  <1> DEFINE x == SumFunctionOnSet(given, S)
             y == SumFunctionOnSet(given', S)
  <1> HIDE DEF S
  <1>5. CASE p \in S
    <2>1. y = x - given[p] + given'[p]
      BY <1>2, <1>3, <1>5, SumUpdate
    <2>2. x \in Int /\ given[p] \in Int
      BY <1>4
    <2> HIDE DEF x, y
    <2>3. y = x + c
      BY <1>2, <2>1, <2>2
    <2> QED BY <1>1, <1>3, <1>5, <2>3 DEF x, y
  <1>6. CASE p \notin S
    <2>1. y = x
      BY <1>2, <1>3, <1>6, SumCongruence
    <2>2. x \in Int
      BY <1>4
    <2> HIDE DEF x, y
    <2>3. y = x + 0
      BY <2>1, <2>2
    <2> QED BY <1>1, <1>3, <1>6, <2>3 DEF x, y
  <1> QED BY <1>5, <1>6

---------------------------------------------------------------------------
(***************************************************************************)
(* The four calls and the bank's books, whoever makes them.                *)
(***************************************************************************)

\* A call that holds h more for payment p and leaves its credit alone.
LEMMA HoldMoves ==
  ASSUME BankInv, NEW p \in Payments, NEW h \in Int, Holds(p, h), UNCHANGED <<given, accounts, opening>>,
         Source[p] \in accounts, balance' = [balance EXCEPT ![Source[p]] = @ - h]
  PROVE  BooksAddUp' /\ held' \in [Payments -> Int] /\ balance' \in [Accounts -> Int]
  <1> USE BankAssumption DEF BankInv
  <1>1. held' \in [Payments -> Int] /\ balance' \in [Accounts -> Int]
    BY DEF Holds
  <1>2. ASSUME NEW b \in accounts PROVE balance'[b] = opening[b] - Taken(b)' + Given(b)
    <2>1. balance[b] = opening[b] - Taken(b) + Given(b)
      BY DEF BooksAddUp
    <2>2. Taken(b) \in Int /\ Given(b) \in Int /\ opening[b] \in Int /\ balance[b] \in Int
      BY TakenGivenType
    <2>3. Taken(b)' = Taken(b) + (IF Source[p] = b THEN h ELSE 0)
      BY TakenMoves
    <2>4. balance'[b] = balance[b] - (IF Source[p] = b THEN h ELSE 0)
      BY <2>2
    <2> DEFINE x == IF Source[p] = b THEN h ELSE 0
    <2>5. x \in Int /\ Taken(b)' = Taken(b) + x /\ balance'[b] = balance[b] - x
      BY <2>3, <2>4
    <2> HIDE DEF x
    <2> QED BY <2>1, <2>2, <2>5
  <1>3. \A b \in accounts : Given(b)' = Given(b)
    BY DEF Given
  <1> QED BY <1>1, <1>2, <1>3 DEF BooksAddUp

\* A call that gives c more for payment p and leaves its hold alone.
LEMMA GiftMoves ==
  ASSUME BankInv, NEW p \in Payments, NEW c \in Int, Gives(p, c), UNCHANGED <<held, accounts, opening>>,
         Dest[p] \in accounts, balance' = [balance EXCEPT ![Dest[p]] = @ + c]
  PROVE  BooksAddUp' /\ given' \in [Payments -> Int] /\ balance' \in [Accounts -> Int]
  <1> USE BankAssumption DEF BankInv
  <1>1. given' \in [Payments -> Int] /\ balance' \in [Accounts -> Int]
    BY DEF Gives
  <1>2. ASSUME NEW b \in accounts PROVE balance'[b] = opening[b] - Taken(b) + Given(b)'
    <2>1. balance[b] = opening[b] - Taken(b) + Given(b)
      BY DEF BooksAddUp
    <2>2. Taken(b) \in Int /\ Given(b) \in Int /\ opening[b] \in Int /\ balance[b] \in Int
      BY TakenGivenType
    <2>3. Given(b)' = Given(b) + (IF Dest[p] = b THEN c ELSE 0)
      BY GivenMoves
    <2>4. balance'[b] = balance[b] + (IF Dest[p] = b THEN c ELSE 0)
      BY <2>2
    <2> DEFINE x == IF Dest[p] = b THEN c ELSE 0
    <2>5. x \in Int /\ Given(b)' = Given(b) + x /\ balance'[b] = balance[b] + x
      BY <2>3, <2>4
    <2> HIDE DEF x
    <2> QED BY <2>1, <2>2, <2>5
  <1>3. \A b \in accounts : Taken(b)' = Taken(b)
    BY DEF Taken
  <1> QED BY <1>1, <1>2, <1>3 DEF BooksAddUp

\* Reserve, for a payment that holds nothing yet.
LEMMA ReserveBooks ==
  ASSUME BankInv, NEW p \in Payments, held[p] = 0, Reserve(Source[p], Amount[p]), Holds(p, Amount[p]),
         UNCHANGED <<given, opening, overdrawn>>
  PROVE  BankInv'
  <1> USE BankAssumption DEF BankInv
  <1> DEFINE a == Source[p]
             n == Amount[p]
  <1>1. /\ a \in accounts /\ a \in Accounts /\ n \in Nat /\ n # 0 /\ balance[a] >= n /\ UNCHANGED accounts
        /\ balance' = [balance EXCEPT ![a] = balance[a] - n] /\ reserved' = [reserved EXCEPT ![a] = n]
    BY DEF Reserve, CanReserve
  <1>2. BooksAddUp' /\ held' \in [Payments -> Int] /\ balance' \in [Accounts -> Int]
    <2>1. n \in Int
      BY <1>1
    <2> HIDE DEF BankInv
    <2> QED BY <1>1, <2>1, HoldMoves
  <1>3. \A b \in Accounts : balance'[b] < 0 => b \in overdrawn
    BY <1>1
  <1>4. held'[p] = n /\ \A q \in Payments : q # p => held'[q] = held[q]
    BY <1>1 DEF Holds
  <1>5. RecordIsOfAHold'
    <2> SUFFICES ASSUME NEW b \in Accounts, reserved'[b] # 0
                 PROVE  \E q \in Payments : Source[q] = b /\ Amount[q] = reserved'[b] /\ held'[q] = Amount[q]
      BY DEF RecordIsOfAHold
    <2>1. CASE b = a
      BY <1>1, <1>4, <2>1
    <2>2. CASE b # a
      <3>1. PICK q \in Payments : Source[q] = b /\ Amount[q] = reserved[b] /\ held[q] = Amount[q]
        BY <1>1, <2>2 DEF RecordIsOfAHold
      <3> QED BY <1>1, <1>4, <2>2, <3>1
    <2> QED BY <2>1, <2>2
  <1> QED BY <1>1, <1>2, <1>3, <1>5

\* ReleaseReservation, whether the payment holds anything or not.
LEMMA ReleaseBooks ==
  ASSUME BankInv, NEW p \in Payments, ReleaseReservation(Source[p], Amount[p]), Holds(p, -Amount[p]),
         UNCHANGED <<given, opening, overdrawn>>
  PROVE  BankInv'
  <1> USE BankAssumption DEF BankInv
  <1> DEFINE a == Source[p]
             n == Amount[p]
  <1>1. /\ a \in accounts /\ a \in Accounts /\ n \in Nat /\ n # 0 /\ UNCHANGED accounts
        /\ balance' = [balance EXCEPT ![a] = balance[a] + n] /\ reserved' = [reserved EXCEPT ![a] = 0]
    BY DEF ReleaseReservation
  <1>2. -n \in Int /\ balance' = [balance EXCEPT ![a] = balance[a] - (-n)]
    <2>1. n \in Int /\ balance[a] \in Int
      BY <1>1
    <2> HIDE DEF n
    <2>2. -n \in Int /\ balance[a] + n = balance[a] - (-n)
      BY <2>1
    <2> QED BY <1>1, <2>2
  <1>3. BooksAddUp' /\ held' \in [Payments -> Int] /\ balance' \in [Accounts -> Int]
    <2> HIDE DEF BankInv
    <2> QED BY <1>1, <1>2, HoldMoves
  <1>4. \A b \in Accounts : balance'[b] < 0 => b \in overdrawn
    BY <1>1
  <1>5. \A q \in Payments : q # p => held'[q] = held[q]
    BY DEF Holds
  <1>6. RecordIsOfAHold'
    <2> SUFFICES ASSUME NEW b \in Accounts, reserved'[b] # 0
                 PROVE  \E q \in Payments : Source[q] = b /\ Amount[q] = reserved'[b] /\ held'[q] = Amount[q]
      BY DEF RecordIsOfAHold
    <2>1. b # a /\ reserved'[b] = reserved[b]
      BY <1>1
    <2>2. PICK q \in Payments : Source[q] = b /\ Amount[q] = reserved[b] /\ held[q] = Amount[q]
      BY <2>1 DEF RecordIsOfAHold
    <2> QED BY <1>5, <2>1, <2>2
  <1> QED BY <1>1, <1>3, <1>4, <1>6

\* Credit removes a record of the destination account, whoever made it.
LEMMA CreditBooks ==
  ASSUME BankInv, NEW p \in Payments, Credit(Dest[p], Amount[p]), Gives(p, Amount[p]),
         UNCHANGED <<held, opening, overdrawn>>
  PROVE  BankInv'
  <1> USE BankAssumption DEF BankInv
  <1> DEFINE a == Dest[p]
             n == Amount[p]
  <1>1. /\ a \in accounts /\ a \in Accounts /\ n \in Nat /\ UNCHANGED accounts
        /\ balance' = [balance EXCEPT ![a] = balance[a] + n] /\ reserved' = [reserved EXCEPT ![a] = 0]
    BY DEF Credit
  <1>2. BooksAddUp' /\ given' \in [Payments -> Int] /\ balance' \in [Accounts -> Int]
    <2>1. n \in Int
      BY <1>1
    <2> HIDE DEF BankInv
    <2> QED BY <1>1, <2>1, GiftMoves
  <1>3. \A b \in Accounts : balance'[b] < 0 => b \in overdrawn
    BY <1>1
  <1>4. RecordIsOfAHold'
    <2>1. \A b \in Accounts : reserved'[b] # 0 => reserved'[b] = reserved[b]
      BY <1>1
    <2> QED BY <2>1 DEF RecordIsOfAHold
  <1> QED BY <1>1, <1>2, <1>3, <1>4

\* ReverseCredit, whether the payment gave anything or not.
LEMMA ReverseBooks ==
  ASSUME BankInv, NEW p \in Payments, ReverseCredit(Dest[p], Amount[p]), Gives(p, -Amount[p]),
         UNCHANGED <<held, opening, overdrawn>>
  PROVE  BankInv'
  <1> USE BankAssumption DEF BankInv
  <1> DEFINE a == Dest[p]
             n == Amount[p]
  <1>1. /\ a \in accounts /\ a \in Accounts /\ n \in Nat /\ UNCHANGED <<accounts, reserved>>
        /\ balance[a] >= n /\ balance' = [balance EXCEPT ![a] = balance[a] - n]
    BY DEF ReverseCredit, CanReverse
  <1>2. -n \in Int /\ balance' = [balance EXCEPT ![a] = balance[a] + (-n)]
    <2>1. n \in Int /\ balance[a] \in Int
      BY <1>1
    <2> HIDE DEF n
    <2>2. -n \in Int /\ balance[a] - n = balance[a] + (-n)
      BY <2>1
    <2> QED BY <1>1, <2>2
  <1>3. BooksAddUp' /\ given' \in [Payments -> Int] /\ balance' \in [Accounts -> Int]
    <2> HIDE DEF BankInv
    <2> QED BY <1>1, <1>2, GiftMoves
  <1>4. \A b \in Accounts : balance'[b] < 0 => b \in overdrawn
    BY <1>1
  <1>5. RecordIsOfAHold'
    BY <1>1 DEF RecordIsOfAHold
  <1> QED BY <1>1, <1>3, <1>4, <1>5

\* No call.
LEMMA SameBooks ==
  ASSUME BankInv, UNCHANGED <<bankVars, moneyVars, bookVars>>
  PROVE  BankInv'
  BY DEF BankInv, bankVars, moneyVars, bookVars, BooksAddUp, RecordIsOfAHold, Taken, Given

---------------------------------------------------------------------------
(***************************************************************************)
(* Every action keeps the invariant.                                       *)
(***************************************************************************)
LEMMA InitInv == Init => IInv
  <1> SUFFICES ASSUME Init PROVE IInv
    OBVIOUS
  <1> USE BankAssumption DEF Init
  <1>1. SeedDefaults \in [Accounts -> Nat]
    BY DEF SeedDefaults
  <1>2. BooksAddUp
    <2> SUFFICES ASSUME NEW a \in accounts PROVE balance[a] = opening[a] - Taken(a) + Given(a)
      BY DEF BooksAddUp
    <2>1. Taken(a) = 0 /\ Given(a) = 0
      BY FewPayments, SumOfZeros DEF Taken, Given
    <2>2. balance[a] \in Int /\ opening[a] = balance[a]
      BY <1>1
    <2> QED BY <2>1, <2>2
  <1>3. BankInv
    BY <1>1, <1>2 DEF BankInv, RecordIsOfAHold
  <1>4. ControlInv
    BY DEF ControlInv, Phases
  <1>5. SweepInv
    BY DEF SweepInv
  <1>6. \A p \in Payments : PayInv(p)
    BY DEF PayInv, Untouched, Believed
  <1> QED BY <1>3, <1>4, <1>5, <1>6 DEF IInv

\* A payment nothing happens to.
LEMMA PaySame ==
  ASSUME NEW q \in Payments, PayInv(q),
         phase'[q] = phase[q], held'[q] = held[q], given'[q] = given[q], mishaps'[q] = mishaps[q]
  PROVE  PayInv(q)'
  BY DEF PayInv, Untouched, Believed

\* A saga's step: payment p goes to phase f, and no sweeper notices.
LEMMA SagaStep ==
  ASSUME IInv, NEW p \in Payments, NEW f \in Phases, Goto(p, f),
         NEW K \in SUBSET {"fault", "refused", "swept", "restart"}, Suffers(p, K),
         phase[p] \notin Ended,
         marked' \subseteq Payments, faults' \in 0..MaxFaults, UNCHANGED <<reply, sweepVars, admin>>,
         \A q \in Payments : q # p => held'[q] = held[q] /\ given'[q] = given[q],
         BankInv', PayInv(p)'
  PROVE  IInv'
  <1> USE DEF IInv, ControlInv
  <1>1. \A q \in Payments : q # p => phase'[q] = phase[q] /\ mishaps'[q] = mishaps[q]
    BY DEF Goto, Suffers
  <1>2. \A q \in Payments : PayInv(q)'
    BY <1>1, PaySame
  <1>3. SweepInv'
    <2>1. \A g \in Sweepers : \A q \in found[g] \cup releasing[g] : q # p
      BY DEF SweepInv
    <2> QED BY <1>1, <2>1 DEF SweepInv, sweepVars
  <1>4. ControlInv'
    <2>1. phase' \in [Payments -> Phases] /\ mishaps' \in [Payments -> SUBSET {"fault", "refused", "swept", "restart"}]
      BY DEF Goto, Suffers
    <2> QED BY <2>1 DEF sweepVars
  <1> QED BY <1>2, <1>3, <1>4

\* No fault, or one more within the bound.
LEMMA FaultsBounded == faults \in 0..MaxFaults /\ (NoFault \/ Fault) => faults' \in 0..MaxFaults
  BY BankAssumption DEF NoFault, Fault

\* Nothing new befalls a payment.
LEMMA NothingSuffered ==
  ASSUME ControlInv, NEW p \in Payments, UNCHANGED mishaps
  PROVE  Suffers(p, {})
  <1>1. mishaps \in [Payments -> SUBSET {"fault", "refused", "swept", "restart"}]
    BY DEF ControlInv
  <1>2. [mishaps EXCEPT ![p] = @ \cup {}] = mishaps
    BY <1>1
  <1> QED BY <1>2 DEF Suffers

\* ReserveStep and handleReserve.
LEMMA ReserveKeeps ==
  ASSUME IInv, NEW p \in Payments, CallReserve(p)
  PROVE  IInv'
  <1> USE BankAssumption DEF IInv, ControlInv
  <1>0. held \in [Payments -> Int] /\ given \in [Payments -> Int]
    BY DEF BankInv
  <1>1. phase[p] = "start" /\ held[p] = 0 /\ given[p] = 0 /\ mishaps[p] = {} /\ Amount[p] \in Nat
    BY DEF CallReserve, PayInv
  <1>2. /\ UNCHANGED <<reply, opening, overdrawn, admin, sweepVars>> /\ faults' \in 0..MaxFaults
        /\ marked' \subseteq Payments /\ phase[p] \notin Ended
    BY <1>1, FaultsBounded DEF CallReserve, bookVars, Mark, Ended
  <1>3. CASE /\ Reserve(Source[p], Amount[p]) /\ Holds(p, Amount[p]) /\ UNCHANGED given
             /\ Goto(p, "reserved") /\ UNCHANGED mishaps
    <2>1. BankInv'
      BY <1>1, <1>2, <1>3, ReserveBooks
    <2>2. held'[p] = Amount[p] /\ \A q \in Payments : q # p => held'[q] = held[q]
      BY <1>0, <1>1, <1>3 DEF Holds
    <2>3. PayInv(p)'
      <3>1. phase'[p] = "reserved" /\ given'[p] = 0 /\ mishaps'[p] = {}
        BY <1>1, <1>3 DEF Goto
      <3> QED BY <1>1, <2>2, <3>1 DEF PayInv, Believed
    <2>4. Suffers(p, {}) /\ "reserved" \in Phases
      BY <1>3, NothingSuffered DEF Phases
    <2> QED BY <1>2, <1>3, <2>1, <2>2, <2>3, <2>4, SagaStep
  <1>4. CASE /\ Reserve(Source[p], Amount[p]) /\ Holds(p, Amount[p]) /\ UNCHANGED given
             /\ Goto(p, "failed") /\ Suffers(p, {"fault"})
    <2>1. BankInv'
      BY <1>1, <1>2, <1>4, ReserveBooks
    <2>2. held'[p] = Amount[p] /\ \A q \in Payments : q # p => held'[q] = held[q]
      BY <1>0, <1>1, <1>4 DEF Holds
    <2>3. PayInv(p)'
      <3>1. phase'[p] = "failed" /\ given'[p] = 0 /\ mishaps'[p] = {"fault"}
        BY <1>1, <1>4 DEF Goto, Suffers
      <3> QED BY <1>1, <2>2, <3>1 DEF PayInv, Believed
    <2>4. "failed" \in Phases
      BY DEF Phases
    <2> QED BY <1>2, <1>4, <2>1, <2>2, <2>3, <2>4, SagaStep
  <1>5. CASE UNCHANGED <<bankVars, moneyVars, mishaps>> /\ Goto(p, "failed")
    <2>1. BankInv'
      BY <1>2, <1>5, SameBooks DEF bookVars
    <2>2. PayInv(p)'
      <3>1. phase'[p] = "failed" /\ held'[p] = 0 /\ given'[p] = 0 /\ mishaps'[p] = {}
        BY <1>1, <1>5 DEF Goto, moneyVars
      <3> QED BY <1>1, <3>1 DEF PayInv, Believed
    <2>3. Suffers(p, {}) /\ "failed" \in Phases
      BY <1>5, NothingSuffered DEF Phases
    <2> QED BY <1>2, <1>5, <2>1, <2>2, <2>3, SagaStep DEF moneyVars
  <1> QED BY <1>3, <1>4, <1>5 DEF CallReserve

\* CommitStep and handleCredit.
LEMMA CreditKeeps ==
  ASSUME IInv, NEW p \in Payments, CallCredit(p)
  PROVE  IInv'
  <1> USE BankAssumption DEF IInv, ControlInv
  <1>0. held \in [Payments -> Int] /\ given \in [Payments -> Int]
    BY DEF BankInv
  <1>1. phase[p] = "reserved" /\ given[p] = 0 /\ Amount[p] \in Nat /\ PayInv(p) /\ held[p] <= Amount[p]
    BY DEF CallCredit, PayInv
  <1>2. /\ UNCHANGED <<reply, opening, overdrawn, admin, sweepVars>> /\ faults' \in 0..MaxFaults
        /\ marked' \subseteq Payments /\ phase[p] \notin Ended
    BY <1>1, FaultsBounded DEF CallCredit, bookVars, Unmark, Ended
  <1>3. ASSUME Credit(Dest[p], Amount[p]), Gives(p, Amount[p]), UNCHANGED held
        PROVE  BankInv' /\ given'[p] = Amount[p] /\ \A q \in Payments : q # p => given'[q] = given[q]
    <2>1. BankInv'
      BY <1>2, <1>3, CreditBooks
    <2> QED BY <1>0, <1>1, <1>3, <2>1 DEF Gives
  <1>4. CASE /\ Credit(Dest[p], Amount[p]) /\ Gives(p, Amount[p]) /\ UNCHANGED held
             /\ Goto(p, "credited") /\ UNCHANGED mishaps
    <2>1. phase'[p] = "credited" /\ held'[p] = held[p] /\ mishaps'[p] = mishaps[p]
      BY <1>4 DEF Goto
    <2>2. PayInv(p)'
      BY <1>1, <1>3, <1>4, <2>1 DEF PayInv, Believed, Untouched
    <2>3. Suffers(p, {}) /\ "credited" \in Phases
      BY <1>4, NothingSuffered DEF Phases
    <2> QED BY <1>2, <1>3, <1>4, <2>2, <2>3, SagaStep
  <1>5. ASSUME Credit(Dest[p], Amount[p]), Gives(p, Amount[p]), UNCHANGED held,
               NEW f \in {"release", "dead"}, Goto(p, f), Suffers(p, {"fault"})
        PROVE  IInv'
    <2>1. phase'[p] = f /\ held'[p] = held[p] /\ mishaps'[p] = mishaps[p] \cup {"fault"}
      BY <1>5 DEF Goto, Suffers
    <2>2. PayInv(p)'
      BY <1>1, <1>3, <1>5, <2>1 DEF PayInv, Believed, Untouched
    <2>3. f \in Phases
      BY <1>5 DEF Phases
    <2> QED BY <1>2, <1>3, <1>5, <2>2, <2>3, SagaStep
  <1>6. CASE UNCHANGED <<bankVars, moneyVars, mishaps>> /\ Goto(p, "release")
    <2>1. BankInv'
      BY <1>2, <1>6, SameBooks DEF bookVars
    <2>2. PayInv(p)'
      <3>1. phase'[p] = "release" /\ held'[p] = held[p] /\ given'[p] = 0 /\ mishaps'[p] = mishaps[p]
        BY <1>1, <1>6 DEF Goto, moneyVars
      <3> QED BY <1>1, <3>1 DEF PayInv, Believed, Untouched
    <2>3. Suffers(p, {}) /\ "release" \in Phases
      BY <1>6, NothingSuffered DEF Phases
    <2> QED BY <1>2, <1>6, <2>1, <2>2, <2>3, SagaStep DEF moneyVars
  <1> QED BY <1>4, <1>5, <1>6 DEF CallCredit

\* The steps after the commit call no bank, and a crash calls none either.
LEMMA NoCallKeeps ==
  ASSUME IInv, NEW p \in Payments, AfterCommit(p) \/ Die(p)
  PROVE  IInv'
  <1> USE BankAssumption DEF IInv, ControlInv
  <1>1. /\ UNCHANGED <<bankVars, moneyVars, bookVars, marked, reply, admin, sweepVars>>
        /\ faults' \in 0..MaxFaults /\ Amount[p] \in Nat /\ PayInv(p)
    BY FaultsBounded DEF AfterCommit, Die, NoFault
  <1>2. BankInv'
    BY <1>1, SameBooks
  <1>3. CASE AfterCommit(p)
    <2>1. PICK f \in {"done", "reverse"} : Goto(p, f)
      BY <1>3 DEF AfterCommit
    <2>2. phase[p] = "credited" /\ phase'[p] = f /\ UNCHANGED mishaps
      BY <1>3, <2>1 DEF AfterCommit, Goto
    <2>3. PayInv(p)'
      BY <1>1, <2>1, <2>2 DEF PayInv, Believed, Untouched, moneyVars
    <2>4. Suffers(p, {}) /\ f \in Phases /\ phase[p] \notin Ended
      BY <2>2, NothingSuffered DEF Phases, Ended
    <2> QED BY <1>1, <1>2, <2>1, <2>3, <2>4, SagaStep DEF moneyVars
  <1>4. CASE Die(p)
    <2>1. Goto(p, "dead") /\ Suffers(p, {"fault"}) /\ phase[p] \notin Ended
      BY <1>4 DEF Die, Ended
    <2>2. phase'[p] = "dead" /\ mishaps'[p] = mishaps[p] \cup {"fault"}
      BY <2>1 DEF Goto, Suffers
    <2>3. PayInv(p)'
      BY <1>1, <2>2 DEF PayInv, Believed, Untouched, moneyVars
    <2>4. "dead" \in Phases
      BY DEF Phases
    <2> QED BY <1>1, <1>2, <2>1, <2>3, <2>4, SagaStep DEF moneyVars
  <1> QED BY <1>3, <1>4

\* CommitStep.Compensate: the credit is taken back, or something befell the
\* payment.
LEMMA UndoCreditMoves ==
  ASSUME IInv, NEW p \in Payments, NEW by \in SUBSET {"swept"}, UndoCredit(p, by), UNCHANGED <<held, bookVars>>
  PROVE  /\ BankInv' /\ marked' \subseteq Payments /\ faults' \in 0..MaxFaults
         /\ \A q \in Payments : q # p => given'[q] = given[q]
         /\ \E K \in SUBSET {"fault", "refused"} :
              /\ Suffers(p, by \cup K)
              /\ given'[p] = given[p] - Amount[p] \/ (given'[p] = given[p] /\ K # {})
  <1> USE BankAssumption DEF IInv, ControlInv
  <1>0. given \in [Payments -> Int] /\ Amount[p] \in Nat
    BY DEF BankInv
  <1>1. marked' \subseteq Payments /\ faults' \in 0..MaxFaults
    BY FaultsBounded DEF UndoCredit, Unmark
  <1>2. PICK K \in SUBSET {"fault", "refused"} :
          Reversed(p, by \cup K) \/ (NotReversed(p, by \cup K) /\ K # {})
    <2>1. CASE Reversed(p, by)
      <3>1. Reversed(p, by \cup {})
        BY <2>1 DEF Reversed, Suffers
      <3> QED BY <3>1
    <2>2. CASE NotReversed(p, by \cup {"refused"})
      BY <2>2
    <2>3. CASE Reversed(p, by \cup {"fault"}) \/ NotReversed(p, by \cup {"fault"})
      BY <2>3
    <2> QED BY <2>1, <2>2, <2>3 DEF UndoCredit
  <1>3. CASE Reversed(p, by \cup K)
    <2>1. BankInv'
      BY <1>3, ReverseBooks DEF Reversed, bookVars
    <2>2. given'[p] = given[p] - Amount[p] /\ \A q \in Payments : q # p => given'[q] = given[q]
      BY <1>0, <1>3 DEF Reversed, Gives
    <2> QED BY <1>1, <1>3, <2>1, <2>2 DEF Reversed
  <1>4. CASE NotReversed(p, by \cup K) /\ K # {}
    <2>1. BankInv'
      BY <1>4, SameBooks DEF NotReversed, moneyVars
    <2> QED BY <1>1, <1>4, <2>1 DEF NotReversed
  <1> QED BY <1>2, <1>3, <1>4

\* ReserveStep.Compensate, likewise.
LEMMA UndoHoldMoves ==
  ASSUME IInv, NEW p \in Payments, NEW by \in SUBSET {"swept"}, UndoHold(p, by), UNCHANGED <<given, bookVars>>
  PROVE  /\ BankInv' /\ marked' \subseteq Payments /\ faults' \in 0..MaxFaults
         /\ \A q \in Payments : q # p => held'[q] = held[q]
         /\ \E K \in SUBSET {"fault", "refused"} :
              /\ Suffers(p, by \cup K)
              /\ held'[p] = held[p] - Amount[p] \/ (held'[p] = held[p] /\ K # {})
  <1> USE BankAssumption DEF IInv, ControlInv
  <1>0. held \in [Payments -> Int] /\ Amount[p] \in Nat
    BY DEF BankInv
  <1>1. marked' \subseteq Payments /\ faults' \in 0..MaxFaults
    BY FaultsBounded DEF UndoHold, Unmark
  <1>2. PICK K \in SUBSET {"fault", "refused"} :
          Released(p, by \cup K) \/ (NotReleased(p, by \cup K) /\ K # {})
    <2>1. CASE Released(p, by)
      <3>1. Released(p, by \cup {})
        BY <2>1 DEF Released, Suffers
      <3> QED BY <3>1
    <2>2. CASE NotReleased(p, by \cup {"refused"})
      BY <2>2
    <2>3. CASE Released(p, by \cup {"fault"}) \/ NotReleased(p, by \cup {"fault"})
      BY <2>3
    <2> QED BY <2>1, <2>2, <2>3 DEF UndoHold
  <1>3. CASE Released(p, by \cup K)
    <2>1. BankInv'
      BY <1>3, ReleaseBooks DEF Released, bookVars
    <2>2. held'[p] = held[p] - Amount[p] /\ \A q \in Payments : q # p => held'[q] = held[q]
      BY <1>0, <1>3 DEF Released, Holds
    <2> QED BY <1>1, <1>3, <2>1, <2>2 DEF Released
  <1>4. CASE NotReleased(p, by \cup K) /\ K # {}
    <2>1. BankInv'
      BY <1>4, SameBooks DEF NotReleased, moneyVars
    <2> QED BY <1>1, <1>4, <2>1 DEF NotReleased
  <1> QED BY <1>2, <1>3, <1>4

\* The rollback of a saga.
LEMMA RollbackKeeps ==
  ASSUME IInv, NEW p \in Payments, CallReverse(p) \/ CallRelease(p)
  PROVE  IInv'
  <1> USE BankAssumption DEF IInv, ControlInv
  <1>0. held \in [Payments -> Int] /\ given \in [Payments -> Int] /\ Amount[p] \in Nat /\ PayInv(p)
    BY DEF BankInv
  <1>1. CASE CallReverse(p)
    <2>1. phase[p] = "reverse" /\ UndoCredit(p, {}) /\ Goto(p, "release") /\ UNCHANGED <<held, reply, sweepVars, bookVars, admin>>
      BY <1>1 DEF CallReverse
    <2>2. PICK K \in SUBSET {"fault", "refused"} :
            /\ Suffers(p, {} \cup K)
            /\ given'[p] = given[p] - Amount[p] \/ (given'[p] = given[p] /\ K # {})
      BY <2>1, UndoCreditMoves
    <2>3. /\ BankInv' /\ marked' \subseteq Payments /\ faults' \in 0..MaxFaults
          /\ \A q \in Payments : q # p => given'[q] = given[q]
      BY <2>1, UndoCreditMoves
    <2>4. phase'[p] = "release" /\ mishaps'[p] = mishaps[p] \cup K
      BY <2>1, <2>2 DEF Goto, Suffers
    <2>5. PayInv(p)'
      <3>1. Untouched(p)' <=> Untouched(p)
        BY <2>4 DEF Untouched
      <3> QED BY <1>0, <2>1, <2>2, <2>4, <3>1 DEF PayInv, Believed
    <2>6. "release" \in Phases /\ phase[p] \notin Ended
      BY <2>1 DEF Phases, Ended
    <2>7. K \in SUBSET {"fault", "refused", "swept", "restart"} /\ Suffers(p, K)
      BY <2>2 DEF Suffers
    <2> QED BY <2>1, <2>3, <2>5, <2>6, <2>7, SagaStep
  <1>2. CASE CallRelease(p)
    <2>1. phase[p] = "release" /\ UndoHold(p, {}) /\ Goto(p, "aborted") /\ UNCHANGED <<given, reply, sweepVars, bookVars, admin>>
      BY <1>2 DEF CallRelease
    <2>2. PICK K \in SUBSET {"fault", "refused"} :
            /\ Suffers(p, {} \cup K)
            /\ held'[p] = held[p] - Amount[p] \/ (held'[p] = held[p] /\ K # {})
      BY <2>1, UndoHoldMoves
    <2>3. /\ BankInv' /\ marked' \subseteq Payments /\ faults' \in 0..MaxFaults
          /\ \A q \in Payments : q # p => held'[q] = held[q]
      BY <2>1, UndoHoldMoves
    <2>4. phase'[p] = "aborted" /\ mishaps'[p] = mishaps[p] \cup K
      BY <2>1, <2>2 DEF Goto, Suffers
    <2>5. PayInv(p)'
      <3>1. Untouched(p)' <=> Untouched(p)
        BY <2>4 DEF Untouched
      <3> QED BY <1>0, <2>1, <2>2, <2>4, <3>1 DEF PayInv, Believed
    <2>6. "aborted" \in Phases /\ phase[p] \notin Ended
      BY <2>1 DEF Phases, Ended
    <2>7. K \in SUBSET {"fault", "refused", "swept", "restart"} /\ Suffers(p, K)
      BY <2>2 DEF Suffers
    <2> QED BY <2>1, <2>3, <2>5, <2>6, <2>7, SagaStep
  <1> QED BY <1>1, <1>2

\* A sweeper's compensation of payment p, of which no saga expects anything.
LEMMA SweepStep ==
  ASSUME IInv, NEW p \in Payments, phase[p] \in Ended, UNCHANGED <<reply, phase, sweeps, admin>>,
         found' \in [Sweepers -> SUBSET Payments], releasing' \in [Sweepers -> SUBSET Payments],
         \A g \in Sweepers : \A q \in found'[g] \cup releasing'[g] : q = p \/ q \in found[g] \cup releasing[g],
         BankInv', marked' \subseteq Payments, faults' \in 0..MaxFaults,
         NEW K \in SUBSET {"fault", "refused"}, Suffers(p, {"swept"} \cup K),
         \A q \in Payments : q # p => held'[q] = held[q] /\ given'[q] = given[q],
         held'[p] \in {held[p], held[p] - Amount[p]}, given'[p] \in {given[p], given[p] - Amount[p]}
  PROVE  IInv'
  <1> USE BankAssumption DEF IInv, ControlInv
  <1>0. held \in [Payments -> Int] /\ given \in [Payments -> Int] /\ Amount[p] \in Nat /\ PayInv(p)
    BY DEF BankInv
  <1>1. /\ mishaps' \in [Payments -> SUBSET {"fault", "refused", "swept", "restart"}]
        /\ "swept" \in mishaps'[p] /\ \A q \in Payments : q # p => mishaps'[q] = mishaps[q]
    BY DEF Suffers
  <1>2. PayInv(p)'
    <2>1. ~Untouched(p)' /\ mishaps'[p] # {}
      BY <1>1 DEF Untouched
    <2>2. held'[p] <= Amount[p] /\ given'[p] <= Amount[p]
      BY <1>0 DEF PayInv
    <2> QED BY <2>1, <2>2 DEF PayInv, Ended
  <1>3. \A q \in Payments : PayInv(q)'
    BY <1>1, <1>2, PaySame
  <1>4. SweepInv'
    BY DEF SweepInv
  <1>5. ControlInv'
    BY <1>1
  <1> QED BY <1>3, <1>4, <1>5

\* The sweepers.
LEMMA SweepKeeps ==
  ASSUME IInv, NEW g \in Sweepers, Sweep(g)
  PROVE  IInv'
  <1> USE BankAssumption DEF IInv, ControlInv
  <1>1. CASE SweepFind(g)
    <2>1. /\ UNCHANGED <<bankVars, moneyVars, marked, mishaps, reply, phase, releasing, bookVars, faults, admin>>
          /\ sweeps' \in 0..MaxSweeps
      BY <1>1 DEF SweepFind
    <2>2. PICK S \in SUBSET Expired : found' = [found EXCEPT ![g] = S]
      BY <1>1 DEF SweepFind
    <2>3. S \subseteq Payments /\ \A q \in S : phase[q] \in Ended
      BY DEF Expired
    <2>4. ControlInv'
      BY <2>1, <2>2, <2>3
    <2>5. SweepInv'
      BY <2>1, <2>2, <2>3 DEF SweepInv
    <2>6. BankInv' /\ \A q \in Payments : PayInv(q)'
      BY <2>1, SameBooks, PaySame DEF moneyVars
    <2> QED BY <2>4, <2>5, <2>6
  <1>2. ASSUME NEW p \in Payments, SweepSkip(g, p) PROVE IInv'
    <2>1. /\ UNCHANGED <<bankVars, moneyVars, mishaps, reply, phase, releasing, sweeps, bookVars, faults, admin>>
          /\ marked' \subseteq Payments /\ found' = [found EXCEPT ![g] = found[g] \ {p}]
      BY <1>2 DEF SweepSkip, Unmark
    <2>2. ControlInv'
      BY <2>1
    <2>3. SweepInv'
      BY <2>1 DEF SweepInv
    <2>4. BankInv' /\ \A q \in Payments : PayInv(q)'
      BY <2>1, SameBooks, PaySame DEF moneyVars
    <2> QED BY <2>2, <2>3, <2>4
  <1>3. ASSUME NEW p \in Payments, SweepReverse(g, p) PROVE IInv'
    <2>1. /\ UndoCredit(p, {"swept"}) /\ UNCHANGED <<held, reply, phase, sweeps, bookVars, admin>>
          /\ p \in found[g] /\ found' = [found EXCEPT ![g] = found[g] \ {p}]
          /\ releasing' \in {releasing, [releasing EXCEPT ![g] = {p}]}
      BY <1>3 DEF SweepReverse
    <2>2. PICK K \in SUBSET {"fault", "refused"} :
            /\ Suffers(p, {"swept"} \cup K)
            /\ given'[p] = given[p] - Amount[p] \/ (given'[p] = given[p] /\ K # {})
      BY <2>1, UndoCreditMoves
    <2>3. /\ BankInv' /\ marked' \subseteq Payments /\ faults' \in 0..MaxFaults
          /\ \A q \in Payments : q # p => given'[q] = given[q]
      BY <2>1, UndoCreditMoves
    <2>4. /\ found' \in [Sweepers -> SUBSET Payments] /\ releasing' \in [Sweepers -> SUBSET Payments]
          /\ \A k \in Sweepers : \A q \in found'[k] \cup releasing'[k] : q = p \/ q \in found[k] \cup releasing[k]
      BY <2>1
    <2>5. phase[p] \in Ended
      BY <2>1 DEF SweepInv
    <2>6. given'[p] \in {given[p], given[p] - Amount[p]} /\ held'[p] \in {held[p], held[p] - Amount[p]}
          /\ \A q \in Payments : q # p => held'[q] = held[q] /\ given'[q] = given[q]
      BY <2>1, <2>2, <2>3
    <2> HIDE DEF IInv, ControlInv
    <2> QED BY <2>1, <2>2, <2>3, <2>4, <2>5, <2>6, SweepStep
  <1>4. ASSUME NEW p \in Payments, SweepRelease(g, p) PROVE IInv'
    <2>1. /\ UndoHold(p, {"swept"}) /\ UNCHANGED <<given, reply, phase, sweeps, bookVars, admin>>
          /\ p \in found[g] \cup releasing[g] /\ found' = [found EXCEPT ![g] = found[g] \ {p}]
          /\ releasing' = [releasing EXCEPT ![g] = {}]
      BY <1>4 DEF SweepRelease
    <2>2. PICK K \in SUBSET {"fault", "refused"} :
            /\ Suffers(p, {"swept"} \cup K)
            /\ held'[p] = held[p] - Amount[p] \/ (held'[p] = held[p] /\ K # {})
      BY <2>1, UndoHoldMoves
    <2>3. /\ BankInv' /\ marked' \subseteq Payments /\ faults' \in 0..MaxFaults
          /\ \A q \in Payments : q # p => held'[q] = held[q]
      BY <2>1, UndoHoldMoves
    <2>4. /\ found' \in [Sweepers -> SUBSET Payments] /\ releasing' \in [Sweepers -> SUBSET Payments]
          /\ \A k \in Sweepers : \A q \in found'[k] \cup releasing'[k] : q = p \/ q \in found[k] \cup releasing[k]
      BY <2>1
    <2>5. phase[p] \in Ended
      BY <2>1 DEF SweepInv
    <2>6. given'[p] \in {given[p], given[p] - Amount[p]} /\ held'[p] \in {held[p], held[p] - Amount[p]}
          /\ \A q \in Payments : q # p => held'[q] = held[q] /\ given'[q] = given[q]
      BY <2>1, <2>2, <2>3
    <2> HIDE DEF IInv, ControlInv
    <2> QED BY <2>1, <2>2, <2>3, <2>4, <2>5, <2>6, SweepStep
  <1> QED BY <1>1, <1>2, <1>3, <1>4 DEF Sweep

\* A request from outside that gives account a the balance v, or does nothing.
LEMMA OutsideKeeps ==
  ASSUME IInv, NEW a \in Accounts, NEW v \in Int,
         UNCHANGED <<moneyVars, marked, mishaps, phase, sweepVars, faults>>, admin' \in 0..MaxAdmin,
         reply' \in {"none", "ok", "exists", "notfound", "found", "settled", "rejected"},
         \/ UNCHANGED <<bankVars, bookVars>>
         \/ /\ accounts' \in {accounts, accounts \cup {a}} /\ balance' = [balance EXCEPT ![a] = v]
            /\ Reopen(a, v) /\ Overdraw(a, v)
            /\ reserved' \in {reserved, [reserved EXCEPT ![a] = 0]}
  PROVE  IInv'
  <1> USE BankAssumption DEF IInv, ControlInv
  <1>1. ControlInv' /\ SweepInv' /\ \A p \in Payments : PayInv(p)'
    BY PaySame DEF SweepInv, moneyVars, sweepVars
  <1>2. CASE UNCHANGED <<bankVars, bookVars>>
    BY <1>1, <1>2, SameBooks
  <1>3. CASE /\ accounts' \in {accounts, accounts \cup {a}} /\ balance' = [balance EXCEPT ![a] = v]
             /\ Reopen(a, v) /\ Overdraw(a, v)
             /\ reserved' \in {reserved, [reserved EXCEPT ![a] = 0]}
    <2> USE DEF BankInv
    <2>1. \A b : Taken(b)' = Taken(b) /\ Given(b)' = Given(b) /\ Taken(b) \in Int /\ Given(b) \in Int
      <3>1. \A b : Taken(b) \in Int /\ Given(b) \in Int
        BY TakenGivenType
      <3>2. \A b : Taken(b)' = Taken(b) /\ Given(b)' = Given(b)
        BY DEF Taken, Given, moneyVars
      <3> QED BY <3>1, <3>2
    <2>2. opening' = [opening EXCEPT ![a] = v + Taken(a) - Given(a)] /\ v + Taken(a) - Given(a) \in Int
      BY <1>3, <2>1 DEF Reopen
    <2>3. BooksAddUp'
      <3> SUFFICES ASSUME NEW b \in accounts' PROVE balance'[b] = opening'[b] - Taken(b) + Given(b)
        BY <2>1 DEF BooksAddUp
      <3>1. CASE b = a
        <4>1. balance'[b] = v /\ opening'[b] = v + Taken(a) - Given(a)
          BY <1>3, <2>2, <3>1
        <4> QED BY <2>1, <3>1, <4>1
      <3>2. CASE b # a
        BY <1>3, <2>2, <3>2 DEF BooksAddUp
      <3> QED BY <3>1, <3>2
    <2>4. /\ accounts' \subseteq Accounts /\ balance' \in [Accounts -> Int] /\ opening' \in [Accounts -> Int]
          /\ reserved' \in [Accounts -> Nat] /\ \A b \in Accounts : reserved'[b] \in {0, reserved[b]}
      BY <1>3, <2>2
    <2>5. overdrawn' \subseteq Accounts /\ \A b \in Accounts : balance'[b] < 0 => b \in overdrawn'
      BY <1>3 DEF Overdraw
    <2>6. RecordIsOfAHold'
      BY <2>4 DEF RecordIsOfAHold, moneyVars
    <2>7. BankInv'
      BY <2>3, <2>4, <2>5, <2>6 DEF moneyVars
    <2> QED BY <1>1, <2>7
  <1> QED BY <1>2, <1>3

\* Administration, queries and a pacs.008 keep the books.
LEMMA RequestKeeps ==
  ASSUME IInv, NEW a \in Accounts, AdminRequest(a)
  PROVE  IInv'
  <1> USE BankAssumption
  <1>0. admin \in 0..MaxAdmin /\ balance[a] \in Int
    BY DEF IInv, BankInv, ControlInv
  <1>1. CASE handleLookup(a)
    <2>1. /\ UNCHANGED <<bankVars, bookVars, moneyVars, marked, mishaps, phase, sweepVars, faults>>
          /\ admin' \in 0..MaxAdmin /\ reply' \in {"found", "notfound"}
      BY <1>0, <1>1 DEF handleLookup
    <2> QED BY <1>0, <2>1, OutsideKeeps
  <1>2. ASSUME NEW v \in NewBalances, handleCreateAccount(a, v) \/ handleSetBalance(a, v) PROVE IInv'
    <2>1. /\ UNCHANGED <<reserved, moneyVars, marked, mishaps, phase, sweepVars, faults>>
          /\ admin' \in 0..MaxAdmin /\ reply' \in {"ok", "exists", "notfound"} /\ v \in Int
      BY <1>0, <1>2 DEF handleCreateAccount, handleSetBalance, Administer
    <2>2. \/ UNCHANGED <<bankVars, bookVars>>
          \/ /\ accounts' \in {accounts, accounts \cup {a}} /\ balance' = [balance EXCEPT ![a] = v]
             /\ Reopen(a, v) /\ Overdraw(a, v)
      BY <1>2, <2>1 DEF handleCreateAccount, handleSetBalance, AddAccount, SetBalance, bankVars
    <2> QED BY <2>1, <2>2, OutsideKeeps
  <1>3. ASSUME NEW n \in NewBalances, handlePacs008(a, n) PROVE IInv'
    <2>1. /\ UNCHANGED <<moneyVars, marked, mishaps, phase, sweepVars, faults>>
          /\ admin' \in 0..MaxAdmin /\ reply' \in {"settled", "rejected"} /\ n \in Int
      BY <1>0, <1>3 DEF handlePacs008, Administer
    <2>2. \/ UNCHANGED <<bankVars, bookVars>>
          \/ /\ accounts' = accounts /\ balance' = [balance EXCEPT ![a] = balance[a] + n]
             /\ Reopen(a, balance[a] + n) /\ Overdraw(a, balance[a] + n)
             /\ reserved' = [reserved EXCEPT ![a] = 0]
      BY <1>3 DEF handlePacs008, Credit
    <2>3. balance[a] + n \in Int
      BY <1>0, <2>1
    <2> QED BY <2>1, <2>2, <2>3, OutsideKeeps
  <1> QED BY <1>1, <1>2, <1>3 DEF AdminRequest

\* A restart forgets every hold and every credit; the sagas go on.
LEMMA RestartKeeps ==
  ASSUME IInv, Restart
  PROVE  IInv'
  <1> USE BankAssumption DEF IInv, ControlInv
  <1>1. SeedDefaults \in [Accounts -> Nat]
    BY DEF SeedDefaults
  <1>2. /\ accounts' = Seeded /\ balance' = SeedDefaults /\ opening' = SeedDefaults /\ overdrawn' = {}
        /\ reserved' = [a \in Accounts |-> 0]
        /\ held' = [p \in Payments |-> 0] /\ given' = [p \in Payments |-> 0]
        /\ UNCHANGED <<reply, phase, marked, sweepVars, faults>> /\ admin' \in 0..MaxAdmin
    BY DEF Restart, Administer
  <1>3. BooksAddUp'
    <2> SUFFICES ASSUME NEW a \in Accounts PROVE balance'[a] = opening'[a] - Taken(a)' + Given(a)'
      BY <1>2 DEF BooksAddUp
    <2>1. Taken(a)' = 0 /\ Given(a)' = 0
      BY <1>2, FewPayments, SumOfZeros DEF Taken, Given
    <2>2. balance'[a] \in Int /\ opening'[a] = balance'[a]
      BY <1>1, <1>2
    <2> QED BY <2>1, <2>2
  <1>4. BankInv'
    BY <1>1, <1>2, <1>3 DEF BankInv, RecordIsOfAHold
  <1>5. \A p \in Payments :
          mishaps'[p] = IF held[p] = 0 /\ given[p] = 0 THEN mishaps[p] ELSE mishaps[p] \cup {"restart"}
    BY DEF Restart
  <1>6. ControlInv'
    <2>1. mishaps' \in [Payments -> SUBSET {"fault", "refused", "swept", "restart"}]
      BY DEF Restart
    <2> QED BY <1>2, <2>1 DEF sweepVars
  <1>7. SweepInv'
    BY <1>2 DEF SweepInv, sweepVars
  <1>8. ASSUME NEW p \in Payments PROVE PayInv(p)'
    <2>1. PayInv(p) /\ Amount[p] \in Nat /\ phase'[p] = phase[p] /\ held'[p] = 0 /\ given'[p] = 0
      BY <1>2
    <2>2. CASE held[p] = 0 /\ given[p] = 0
      BY <1>5, <2>1, <2>2, PaySame
    <2>3. CASE ~(held[p] = 0 /\ given[p] = 0)
      <3>1. mishaps'[p] # {} /\ ~Untouched(p)' /\ phase[p] # "start"
        BY <1>5, <2>1, <2>3 DEF Untouched, PayInv
      <3> QED BY <2>1, <3>1 DEF PayInv
    <2> QED BY <2>2, <2>3
  <1> QED BY <1>4, <1>6, <1>7, <1>8

\* Every call, sweep, request and restart keeps the invariant.
LEMMA StepInv == IInv /\ [Next]_vars => IInv'
  <1> SUFFICES ASSUME IInv, [Next]_vars PROVE IInv'
    OBVIOUS
  <1>1. CASE Next
    BY <1>1, ReserveKeeps, CreditKeeps, NoCallKeeps, RollbackKeeps, SweepKeeps, RequestKeeps,
       RestartKeeps DEF Next, SagaCall
  <1>2. CASE UNCHANGED vars
    BY <1>2, SameBooks, PaySame DEF IInv, ControlInv, SweepInv, vars, moneyVars, sweepVars
  <1> QED BY <1>1, <1>2

\* The invariant holds of every behaviour.
THEOREM Invariance == Spec => []IInv
  <1> QED BY InitInv, StepInv, PTL DEF Spec

---------------------------------------------------------------------------
(***************************************************************************)
(* What the run checks on a small instance.                                *)
(***************************************************************************)

\* No call of a saga or of a sweeper puts a balance below zero, however the
\* calls of any number of payments interleave on an account; only requests
\* from outside, which name any integer, do.
THEOREM TypeCorrect == Spec => []TypeOK
  <1> QED BY Invariance, InvImplies, PTL

\* The bank's money and the sagas agree: the books add up through repeated
\* releases, reversals of credits never made and restarts; a payment nothing
\* befell has exactly what its saga believes; and only a sweeper or a restart
\* makes the bank give back what it did not take.
THEOREM BooksBalance == Spec => []BalancesMatchSagas
  <1> QED BY Invariance, InvImplies, PTL

\* A reservation record names an amount some payment of the account still holds.
THEOREM NoRecordLeftOver == Spec => []RecordIsOfAHold
  <1> QED BY Invariance, InvImplies, PTL
===========================================================================
