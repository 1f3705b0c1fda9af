---------------------------- MODULE BankService ----------------------------
(***************************************************************************)
(* The bank service: one process that plays every participant bank, with   *)
(* its accounts behind one mutex, and the payments whose sagas call it     *)
(* through the bank client. A reservation is a debit of the balance plus a *)
(* record filed under the ACCOUNT, so the account's newest reservation     *)
(* replaces the record of an earlier one, and any release or credit        *)
(* removes it whoever made it. Nothing is kept on disk: a restart brings   *)
(* the seeded accounts back with their seeded balances.                    *)
(*                                                                         *)
(* The sagas' sweepers call it too: a reservation whose row was left       *)
(* RESERVED is compensated by every replica that finds it, by as many      *)
(* steps as the counter of that replica's Saga happens to say, so a hold   *)
(* may be released again and a credit reversed that was never made.        *)
(***************************************************************************)
EXTENDS Integers, FiniteSetsExt

CONSTANTS
  Accounts,      \* account numbers
  Seeded,        \* those SeedDefaults creates
  SeedBalance,   \* with this balance
  NewBalances,   \* amounts in requests from outside: any int64, negative ones too
  Payments,
  Source,        \* the source account of a payment
  Dest,          \* its destination account
  Amount,        \* its amount
  Sweepers,      \* the replicas that sweep
  MaxFaults,     \* bound: crashes, lost answers and calls that do not arrive
  MaxAdmin,      \* bound: administrative requests and restarts
  MaxSweeps      \* bound: sweeps that find something

ASSUME BankAssumption ==
  /\ IsFiniteSet(Payments)
  /\ Seeded \subseteq Accounts /\ SeedBalance \in Nat /\ NewBalances \subseteq Int
  /\ Source \in [Payments -> Accounts] /\ Dest \in [Payments -> Accounts]
  /\ Amount \in [Payments -> Nat \ {0}]
  /\ \A p \in Payments : Source[p] # Dest[p]
  /\ MaxFaults \in Nat /\ MaxAdmin \in Nat /\ MaxSweeps \in Nat

VARIABLES
  \* BankState
  accounts,   \* the numbers in use
  balance,    \* Account.Balance
  reserved,   \* the amount of the account's Reservation record, 0 for none
  \* the answer of the last request that did not come from a saga
  reply,
  \* the sagas and the sweepers
  phase,      \* how far the saga of a payment has come
  marked,     \* payments whose row says RESERVED
  found,      \* the expired reservations a sweeper has listed and not handled
  releasing,  \* the one it has reversed the credit of, and releases next
  \* history: what the bank has done for a payment since it last started
  held,       \* taken from its source account, releases subtracted
  given,      \* credited to its destination account, reversals subtracted
  mishaps,    \* what befell it: "fault", "refused", "swept", "restart"
  opening,    \* the balance an account would have without any payment
  overdrawn,  \* accounts that a request from outside put below zero
  \* bounds
  faults,
  admin,
  sweeps

bankVars  == <<accounts, balance, reserved>>
moneyVars == <<held, given>>
sweepVars == <<found, releasing, sweeps>>
bookVars  == <<opening, overdrawn>>
vars      == <<bankVars, reply, phase, marked, mishaps, moneyVars, sweepVars, bookVars, faults, admin>>

Phases == {"start", "failed", "reserved", "credited", "reverse", "release", "aborted", "done", "dead"}

\* Phases in which no goroutine works for the payment any more.
Ended == {"failed", "aborted", "done", "dead"}

\* Sagas and sweepers never overdraw an account, whatever holds, credits,
\* releases and reversals are interleaved on it: both debits check the balance
\* under the lock. Only a request from outside puts a balance below zero.
TypeOK ==
  /\ accounts \subseteq Accounts
  /\ balance \in [Accounts -> Int] /\ reserved \in [Accounts -> Nat]
  /\ \A a \in Accounts : balance[a] < 0 => a \in overdrawn
  /\ reply \in {"none", "ok", "exists", "notfound", "found", "settled", "rejected"}
  /\ phase \in [Payments -> Phases] /\ marked \subseteq Payments
  /\ found \in [Sweepers -> SUBSET Payments] /\ releasing \in [Sweepers -> SUBSET Payments]
  /\ held \in [Payments -> Int] /\ given \in [Payments -> Int]
  /\ mishaps \in [Payments -> SUBSET {"fault", "refused", "swept", "restart"}]
  /\ opening \in [Accounts -> Int] /\ overdrawn \subseteq Accounts
  /\ faults \in 0..MaxFaults /\ admin \in 0..MaxAdmin /\ sweeps \in 0..MaxSweeps

SeedDefaults == [a \in Accounts |-> IF a \in Seeded THEN SeedBalance ELSE 0]

Init ==
  /\ accounts = Seeded
  /\ balance = SeedDefaults
  /\ reserved = [a \in Accounts |-> 0]
  /\ reply = "none"
  /\ phase = [p \in Payments |-> "start"] /\ marked = {}
  /\ found = [g \in Sweepers |-> {}] /\ releasing = [g \in Sweepers |-> {}]
  /\ held = [p \in Payments |-> 0] /\ given = [p \in Payments |-> 0]
  /\ mishaps = [p \in Payments |-> {}]
  /\ opening = SeedDefaults /\ overdrawn = {}
  /\ faults = 0 /\ admin = 0 /\ sweeps = 0

---------------------------------------------------------------------------
(***************************************************************************)
(* The methods of BankState that change it, as they are when they succeed. *)
(* Each runs under the mutex; one that refuses changes nothing.            *)
(***************************************************************************)
AddAccount(a, v) ==
  /\ a \notin accounts
  /\ accounts' = accounts \cup {a}
  /\ balance' = [balance EXCEPT ![a] = v]

SetBalance(a, v) == a \in accounts /\ balance' = [balance EXCEPT ![a] = v]

CanReserve(a, n) == a \in accounts /\ balance[a] >= n
CanReverse(a, n) == a \in accounts /\ balance[a] >= n

Reserve(a, n) ==
  /\ CanReserve(a, n)
  /\ balance' = [balance EXCEPT ![a] = @ - n]
  /\ reserved' = [reserved EXCEPT ![a] = n]
  /\ UNCHANGED accounts

\* Mutant: nothing is given back when the account has no record any more.
ReleaseReservation_OfRecord(a, n) ==
  /\ a \in accounts
  /\ reserved' = [reserved EXCEPT ![a] = 0]
  /\ balance' = [balance EXCEPT ![a] = IF reserved[a] = 0 THEN @ ELSE @ + n]
  /\ UNCHANGED accounts

\* Mutant: the record of the reservation is not removed.
ReleaseReservation_KeepsRecord(a, n) ==
  /\ a \in accounts
  /\ balance' = [balance EXCEPT ![a] = @ + n]
  /\ UNCHANGED <<accounts, reserved>>

ReleaseReservation(a, n) ==
  /\ a \in accounts
  /\ reserved' = [reserved EXCEPT ![a] = 0]
  /\ balance' = [balance EXCEPT ![a] = @ + n]
  /\ UNCHANGED accounts

Credit(a, n) ==
  /\ a \in accounts
  /\ balance' = [balance EXCEPT ![a] = @ + n]
  /\ reserved' = [reserved EXCEPT ![a] = 0]
  /\ UNCHANGED accounts

\* Mutant: the balance is not checked.
ReverseCredit_Unchecked(a, n) ==
  /\ a \in accounts
  /\ balance' = [balance EXCEPT ![a] = @ - n]
  /\ UNCHANGED <<accounts, reserved>>

ReverseCredit(a, n) ==
  /\ CanReverse(a, n)
  /\ balance' = [balance EXCEPT ![a] = @ - n]
  /\ UNCHANGED <<accounts, reserved>>

---------------------------------------------------------------------------
(***************************************************************************)
(* The calls of a payment's saga. A call that is refused, or not made for  *)
(* want of an enabled API, has no effect; a fault is an answer that gets   *)
(* lost after the effect, a compensation that does not arrive, a write to  *)
(* the payment's row that fails after the call, or the end of the process. *)
(***************************************************************************)
NoFault == UNCHANGED faults
Fault   == faults < MaxFaults /\ faults' = faults + 1

Goto(p, f)    == phase' = [phase EXCEPT ![p] = f]
Holds(p, n)   == held' = [held EXCEPT ![p] = @ + n]
Gives(p, n)   == given' = [given EXCEPT ![p] = @ + n]
Suffers(p, K) == mishaps' = [mishaps EXCEPT ![p] = @ \cup K]

\* The row becomes RESERVED, or stops being so, or the write of it failed.
Mark(p)   == marked' = marked \cup {p}
Unmark(p) == marked' = marked \ {p}

\* ReserveStep.Execute and handleReserve; after a failure the saga has no bank
\* call to compensate, and writes ABORTED to the row if it can.
CallReserve(p) ==
  /\ phase[p] = "start"
  /\ \/ /\ Reserve(Source[p], Amount[p]) /\ Holds(p, Amount[p]) /\ UNCHANGED given
        /\ \/ NoFault /\ Mark(p) /\ Goto(p, "reserved") /\ UNCHANGED mishaps
           \/ Fault /\ (Mark(p) \/ UNCHANGED marked) /\ Goto(p, "failed") /\ Suffers(p, {"fault"})
     \/ NoFault /\ Goto(p, "failed") /\ UNCHANGED <<bankVars, moneyVars, marked, mishaps>>
  /\ UNCHANGED <<reply, sweepVars, bookVars, admin>>

\* CommitStep.Execute and handleCredit. When the credit is made and the step
\* fails all the same, the saga compensates the steps before it only, or the
\* process is gone.
CallCredit(p) ==
  /\ phase[p] = "reserved"
  /\ \/ /\ Credit(Dest[p], Amount[p]) /\ Gives(p, Amount[p]) /\ UNCHANGED held
        /\ \/ NoFault /\ Unmark(p) /\ Goto(p, "credited") /\ UNCHANGED mishaps
           \/ /\ Fault /\ (Unmark(p) \/ UNCHANGED marked)
              /\ Goto(p, "release") \/ Goto(p, "dead")
              /\ Suffers(p, {"fault"})
     \/ NoFault /\ Goto(p, "release") /\ UNCHANGED <<bankVars, moneyVars, marked, mishaps>>
  /\ UNCHANGED <<reply, sweepVars, bookVars, admin>>

\* The steps after the commit: the payment is through, or the settle step
\* fails and the saga rolls back.
AfterCommit(p) ==
  /\ phase[p] = "credited"
  /\ Goto(p, "done") \/ Goto(p, "reverse")
  /\ UNCHANGED <<bankVars, moneyVars, marked, mishaps, reply, sweepVars, bookVars, faults, admin>>

\* handleReverseCredit and handleRelease, when they are applied and when not.
Reversed(p, K)    == ReverseCredit(Dest[p], Amount[p]) /\ Gives(p, -Amount[p]) /\ Suffers(p, K)
NotReversed(p, K) == UNCHANGED <<bankVars, given>> /\ Suffers(p, K)
Released(p, K)    == ReleaseReservation(Source[p], Amount[p]) /\ Holds(p, -Amount[p]) /\ Suffers(p, K)
NotReleased(p, K) == UNCHANGED <<bankVars, held>> /\ Suffers(p, K)

\* CommitStep.Compensate, for a saga or for a sweeper: the bank's error is
\* dropped (it refuses when the money was spent onwards, and the credit
\* stays), and ABORTED is written to the row.
UndoCredit(p, by) ==
  \/ /\ NoFault /\ Unmark(p)
     /\ \/ Reversed(p, by)
        \/ ~CanReverse(Dest[p], Amount[p]) /\ NotReversed(p, by \cup {"refused"})
  \/ /\ Fault /\ (Unmark(p) \/ UNCHANGED marked)
     /\ Reversed(p, by \cup {"fault"}) \/ NotReversed(p, by \cup {"fault"})

\* ReserveStep.Compensate, likewise.
UndoHold(p, by) ==
  \/ /\ NoFault /\ Unmark(p)
     /\ \/ Released(p, by)
        \/ Source[p] \notin accounts /\ NotReleased(p, by \cup {"refused"})
  \/ /\ Fault /\ (Unmark(p) \/ UNCHANGED marked)
     /\ Released(p, by \cup {"fault"}) \/ NotReleased(p, by \cup {"fault"})

\* Saga.rollback drops the errors of Compensate and goes on.
CallReverse(p) ==
  /\ phase[p] = "reverse"
  /\ UndoCredit(p, {}) /\ Goto(p, "release")
  /\ UNCHANGED <<held, reply, sweepVars, bookVars, admin>>

CallRelease(p) ==
  /\ phase[p] = "release"
  /\ UndoHold(p, {}) /\ Goto(p, "aborted")
  /\ UNCHANGED <<given, reply, sweepVars, bookVars, admin>>

\* The replica that runs the saga crashes.
Die(p) ==
  /\ phase[p] \in {"reserved", "credited", "reverse", "release"}
  /\ Fault /\ Goto(p, "dead") /\ Suffers(p, {"fault"})
  /\ UNCHANGED <<bankVars, moneyVars, marked, reply, sweepVars, bookVars, admin>>

---------------------------------------------------------------------------
(***************************************************************************)
(* The sweepers. A row still RESERVED after its five minutes belongs to no *)
(* running saga (SweptSagaIsDead of PaymentSaga). Every replica lists such *)
(* rows for itself, and works through its list whatever the others do.     *)
(***************************************************************************)
Expired == { p \in marked : phase[p] \in Ended }

SweepFind(g) ==
  /\ found[g] = {} /\ releasing[g] = {}
  /\ sweeps < MaxSweeps /\ sweeps' = sweeps + 1
  /\ \E S \in SUBSET Expired : S # {} /\ found' = [found EXCEPT ![g] = S]
  /\ UNCHANGED <<bankVars, moneyVars, marked, mishaps, reply, phase, releasing, bookVars, faults, admin>>

\* CompensatePayment of the next payment of the list. How many steps it
\* compensates is up to completedSteps, which the replica's sagas share, or up
\* to the status: fewer than six steps are no bank call, six release the hold,
\* seven and more reverse the credit first, made or not.
SweepSkip(g, p) ==
  /\ p \in found[g] /\ releasing[g] = {}
  /\ found' = [found EXCEPT ![g] = @ \ {p}]
  /\ Unmark(p) \/ UNCHANGED marked
  /\ UNCHANGED <<bankVars, moneyVars, mishaps, reply, phase, releasing, sweeps, bookVars, faults, admin>>

\* CompensatePayment, unlike the saga's rollback, stops at the first error.
SweepReverse(g, p) ==
  /\ p \in found[g] /\ releasing[g] = {}
  /\ found' = [found EXCEPT ![g] = @ \ {p}]
  /\ UndoCredit(p, {"swept"})
  /\ \/ p \notin marked' /\ releasing' = [releasing EXCEPT ![g] = {p}]
     \/ faults' # faults /\ UNCHANGED releasing
  /\ UNCHANGED <<held, reply, phase, sweeps, bookVars, admin>>

SweepRelease(g, p) ==
  /\ \/ p \in releasing[g]
     \/ p \in found[g] /\ releasing[g] = {}
  /\ found' = [found EXCEPT ![g] = @ \ {p}]
  /\ releasing' = [releasing EXCEPT ![g] = {}]
  /\ UndoHold(p, {"swept"})
  /\ UNCHANGED <<given, reply, phase, sweeps, bookVars, admin>>

---------------------------------------------------------------------------
(***************************************************************************)
(* The other requests: administration, account queries, and a pacs.008     *)
(* sent straight to the bank. None of them checks the sign of an amount.   *)
(***************************************************************************)
Taken(a) == SumFunctionOnSet(held, {p \in Payments : Source[p] = a})
Given(a) == SumFunctionOnSet(given, {p \in Payments : Dest[p] = a})

\* The opening balance that explains balance v of account a.
Reopen(a, v) == opening' = [opening EXCEPT ![a] = v + Taken(a) - Given(a)]

\* Whether account a with balance v is overdrawn.
Overdraw(a, v) == overdrawn' = IF v < 0 THEN overdrawn \cup {a} ELSE overdrawn \ {a}

Administer == admin < MaxAdmin /\ admin' = admin + 1

handleCreateAccount(a, v) ==
  /\ Administer
  /\ \/ AddAccount(a, v) /\ Reopen(a, v) /\ Overdraw(a, v) /\ reply' = "ok"
     \/ a \in accounts /\ reply' = "exists" /\ UNCHANGED <<accounts, balance, bookVars>>
  /\ UNCHANGED <<reserved, moneyVars, marked, mishaps, phase, sweepVars, faults>>

handleSetBalance(a, v) ==
  /\ Administer
  /\ \/ SetBalance(a, v) /\ Reopen(a, v) /\ Overdraw(a, v) /\ reply' = "ok"
     \/ a \notin accounts /\ reply' = "notfound" /\ UNCHANGED <<balance, bookVars>>
  /\ UNCHANGED <<accounts, reserved, moneyVars, marked, mishaps, phase, sweepVars, faults>>

\* handleGetAccount, and handleCamt003 behind a bank's lookup API.
handleLookup(a) ==
  /\ reply' = IF a \in accounts THEN "found" ELSE "notfound"
  /\ UNCHANGED <<bankVars, moneyVars, marked, mishaps, phase, sweepVars, bookVars, faults, admin>>

\* A pacs.008 credits its destination account and is answered with SETTLED,
\* or with RJCT and AM09 when the account is not there. A negative amount is
\* a debit that nothing checks.
handlePacs008(a, n) ==
  /\ Administer
  /\ \/ /\ Credit(a, n) /\ Reopen(a, balance[a] + n) /\ Overdraw(a, balance[a] + n)
        /\ reply' = "settled"
     \/ a \notin accounts /\ reply' = "rejected" /\ UNCHANGED <<bankVars, bookVars>>
  /\ UNCHANGED <<moneyVars, marked, mishaps, phase, sweepVars, faults>>

\* The process dies and New seeds the defaults again: what the bank did for
\* the payments is forgotten, the sagas and the rows do not know.
Restart ==
  /\ Administer
  /\ accounts' = Seeded
  /\ balance' = SeedDefaults /\ opening' = SeedDefaults
  /\ reserved' = [a \in Accounts |-> 0] /\ overdrawn' = {}
  /\ held' = [p \in Payments |-> 0] /\ given' = [p \in Payments |-> 0]
  /\ mishaps' = [p \in Payments |->
                   IF held[p] = 0 /\ given[p] = 0 THEN mishaps[p] ELSE mishaps[p] \cup {"restart"}]
  /\ UNCHANGED <<reply, phase, marked, sweepVars, faults>>

SagaCall(p) ==
  CallReserve(p) \/ CallCredit(p) \/ AfterCommit(p) \/ CallReverse(p) \/ CallRelease(p) \/ Die(p)

Sweep(g) ==
  SweepFind(g) \/ \E p \in Payments : SweepSkip(g, p) \/ SweepReverse(g, p) \/ SweepRelease(g, p)

AdminRequest(a) ==
  \/ \E v \in NewBalances :
       handleCreateAccount(a, v) \/ handleSetBalance(a, v) \/ handlePacs008(a, v)
  \/ handleLookup(a)

Next ==
  \/ \E p \in Payments : SagaCall(p)
  \/ \E g \in Sweepers : Sweep(g)
  \/ \E a \in Accounts : AdminRequest(a)
  \/ Restart

Spec == Init /\ [][Next]_vars

---------------------------------------------------------------------------
(***************************************************************************)
(* Properties.                                                             *)
(***************************************************************************)

\* Every balance is the opening balance, minus what the payments took from the
\* account, plus what they gave it.
BooksAddUp == \A a \in accounts : balance[a] = opening[a] - Taken(a) + Given(a)

\* What the saga of a payment, at its phase, takes the bank to have done.
Believed(p) ==
  CASE phase[p] \in {"credited", "reverse", "done"} -> <<Amount[p], Amount[p]>>
    [] phase[p] \in {"reserved", "release"}         -> <<Amount[p], 0>>
    [] OTHER                                        -> <<0, 0>>

\* The bank's money and the sagas agree, although the bank keeps no hold by
\* payment and any call on an account removes its only record.
\* The books add up.
\* The sagas: of a payment that met no fault, no refused compensation, no
\* sweep and no restart of the bank, the bank has done what its saga believes;
\* so a rollback leaves nothing behind.
\* The limits: a payment never holds or gives more than its amount, and money
\* is given back that was not taken only by a sweeper or after a restart that
\* forgot the hold.
BalancesMatchSagas ==
  /\ BooksAddUp
  /\ \A p \in Payments :
       /\ mishaps[p] = {} => <<held[p], given[p]>> = Believed(p)
       /\ held[p] <= Amount[p] /\ given[p] <= Amount[p]
       /\ held[p] < 0 \/ given[p] < 0 => mishaps[p] \cap {"swept", "restart"} # {}

\* A reservation record of the bank is never left over from a payment that
\* has been released: it names an amount that some payment of the account
\* still holds or has taken. (The converse is false: the record of a hold is
\* lost to the next reservation, release or credit of the account.)
RecordIsOfAHold ==
  \A a \in Accounts : reserved[a] # 0 =>
    \E p \in Payments : Source[p] = a /\ Amount[p] = reserved[a] /\ held[p] = Amount[p]

===========================================================================
