--------------------------- MODULE PaymentSaga ----------------------------
(***************************************************************************)
(* The core of the switch: every gateway replica accepts payments, runs    *)
(* one saga goroutine per payment over the Postgres row, the two banks and *)
(* the settlement service, and runs a sweeper that compensates expired     *)
(* reservations. All sagas of a replica and its sweeper share ONE Saga     *)
(* value, and with it the counter completedSteps.                          *)
(*                                                                         *)
(* Time is a counter of ticks. A saga has a context that expires           *)
(* SagaTimeout ticks after it starts (60 s in the code); a reservation     *)
(* expires ReservationTTL ticks after it is recorded (5 min).              *)
(***************************************************************************)
EXTENDS Integers

CONSTANTS
  Payments,           \* the payments that may be submitted
  Gateways,           \* the gateway replicas
  NoPayment,          \* not a payment
  OtherPayments,      \* the replicas also run payments that are not in Payments
  SettlementEnabled,  \* cfg.SettlementAddr # "": the settle step is there
  SagaTimeout,        \* ticks a saga's context lives
  ReservationTTL,     \* ticks a reservation lives
  FaultKinds,         \* the faults that may strike, of the kinds below
  MaxFaults,          \* bound: how many of them
  LastSubmit,         \* bound: no payment is submitted after this tick
  MaxTime             \* bound: the clock stops here

(***************************************************************************)
(* Fault kinds. "deadline": a saga may outlive its context. "crash": a     *)
(* replica may die between any two steps. "db": a transaction may fail.    *)
(* "ack": a transaction may commit and its acknowledgement be lost.        *)
(* "lost": a bank or the settlement service may apply a call whose answer  *)
(* is lost. "undo": a bank may refuse a compensation.                      *)
(***************************************************************************)
AllFaultKinds == {"deadline", "crash", "db", "ack", "lost", "undo"}

ASSUME ConstantsAssumption ==
  /\ NoPayment \notin Payments
  /\ SettlementEnabled \in BOOLEAN /\ OtherPayments \in BOOLEAN
  /\ FaultKinds \subseteq AllFaultKinds
  /\ MaxFaults \in Nat /\ LastSubmit \in Nat /\ MaxTime \in Nat

\* 60 s and 5 min in the code: a reservation outlives the saga that made it.
ASSUME TimingAssumption ==
  /\ SagaTimeout \in Nat \ {0} /\ ReservationTTL \in Nat
  /\ ReservationTTL >= SagaTimeout

---------------------------------------------------------------------------
(***************************************************************************)
(* The pipeline assembled in cmd/gateway/main.go, as positions 1..NSteps.  *)
(* Positions 1..5 only check and record; 6, 7 and 8 have an effect outside *)
(* the database; the last two are best effort.                             *)
(***************************************************************************)
ValidateStep == 1
LookupStep   == 2
RouteStep    == 3
QuoteStep    == 4
ScreenStep   == 5
ReserveStep  == 6
CommitStep   == 7
SettleStep   == 8

LastRecording == IF SettlementEnabled THEN SettleStep ELSE CommitStep
NSteps        == LastRecording + 2

\* The status a step records when it succeeds.
StatusOfStep(i) ==
  << "VALIDATED", "LOOKED_UP", "ROUTED", "QUOTED", "SCREENED", "RESERVED",
     "COMMITTED", "SETTLED" >>[i]

PaymentStatus ==
  {"RECEIVED", "ABORTED"} \cup { StatusOfStep(i) : i \in 1..SettleStep }

\* Mutant: a reservation counts for no step, as the default case does.
statusToStepCount_NoReserved(s) ==
  IF s \in {"RECEIVED", "ABORTED", "RESERVED"} THEN 0
  ELSE CHOOSE i \in 1..SettleStep : StatusOfStep(i) = s

statusToStepCount(s) ==
  IF s \in {"RECEIVED", "ABORTED"} THEN 0
  ELSE CHOOSE i \in 1..SettleStep : StatusOfStep(i) = s

\* What the pacs.002 callback carries for a domain status.
DomainStatusToISO(s) ==
  IF s = "RECEIVED" THEN "RCVD"
  ELSE IF s = "ABORTED" THEN "RJCT"
  ELSE IF s = "SETTLED" THEN "ACSC"
  ELSE IF s \in {"RESERVED", "COMMITTED"} THEN "ACCP"
  ELSE "PDNG"

\* Mutant: CommitStep.Compensate does not call ReverseCredit.
UndoneAtBank_ReserveOnly(k) == k = ReserveStep

\* The steps whose Compensate calls a bank, and those whose Compensate
\* records ABORTED; the others' Compensate does nothing.
UndoneAtBank(k)  == k \in {ReserveStep, CommitStep}
RecordsAbort(k)  == \/ k \in {ValidateStep, QuoteStep, ScreenStep, ReserveStep, CommitStep}
                    \/ k = SettleStep /\ SettlementEnabled

---------------------------------------------------------------------------
VARIABLES
  now,             \* the clock
  faults,          \* faults that have struck
  \* Postgres
  status,          \* payment.status, "NONE" before the row exists
  expiresAt,       \* payment.expires_at, 0 for NULL
  lastEvent,       \* the topic of the payment's newest outbox row
  abortReason,     \* transaction_view.abort_reason is set
  \* outside the switch
  hold,            \* Reserve minus ReleaseReservation calls applied at the source bank
  credit,          \* Credit minus ReverseCredit calls applied at the destination bank
  submitted,       \* SubmitForSettlement calls the settlement service took
  callback,        \* the ISO status the originating bank was called back with
  \* a gateway replica
  up,              \* the process runs
  completedSteps,  \* Saga.completedSteps, shared by all goroutines of the replica
  \* the saga goroutine of a payment
  home,            \* the replica it runs on
  pc,              \* where it is
  step,            \* forward: the step under way; rollback: the step to compensate
  loaded,          \* completedSteps as the pending completedSteps++ has read it
  deadline,        \* when its context expires
  mem,             \* p.Status of its in-memory payment
  \* the sweeper of a replica
  sweepPc,
  sweepQ,          \* reservations found and not yet handled
  sweepCur,        \* the payment being compensated
  sweepStep        \* the step to compensate next

dbVars    == <<status, expiresAt, lastEvent, abortReason>>
bankVars  == <<hold, credit, submitted>>
sagaVars  == <<home, pc, step, loaded, deadline, mem>>
sweepVars == <<sweepPc, sweepQ, sweepCur, sweepStep>>
vars      == <<now, faults, dbVars, bankVars, callback, up, completedSteps, sagaVars, sweepVars>>

\* Mutant: the saga runs under a context without timeout.
CtxAlive_NoTimeout(p) == TRUE

Running(p)  == pc[p] \in {"exec", "record", "undo", "unrecord", "finish"}
CtxAlive(p) == now < deadline[p]

TypeOK ==
  /\ now \in Nat /\ faults \in Nat
  /\ status \in [Payments -> PaymentStatus \cup {"NONE"}]
  /\ lastEvent \in [Payments -> PaymentStatus \cup {"NONE"}]
  /\ mem \in [Payments -> PaymentStatus]
  /\ expiresAt \in [Payments -> Nat] /\ deadline \in [Payments -> Nat]
  /\ abortReason \in [Payments -> BOOLEAN]
  /\ hold \in [Payments -> Int] /\ credit \in [Payments -> Int]
  /\ submitted \in [Payments -> Nat]
  /\ callback \in [Payments -> {"none", "RCVD", "RJCT", "ACSC", "ACCP", "PDNG"}]
  /\ up \in [Gateways -> BOOLEAN]
  /\ completedSteps \in [Gateways -> Nat]
  /\ home \in [Payments -> Gateways]
  /\ pc \in [Payments -> {"none", "accepted", "exec", "record", "undo", "unrecord",
                          "finish", "done", "lost"}]
  /\ step \in [Payments -> 0..(NSteps + 1)]
  /\ loaded \in [Payments -> Nat]
  /\ sweepPc \in [Gateways -> {"idle", "next", "undo", "unrecord"}]
  /\ sweepQ \in [Gateways -> SUBSET Payments]
  /\ sweepCur \in [Gateways -> Payments \cup {NoPayment}]
  /\ sweepStep \in [Gateways -> 0..NSteps]

Init ==
  /\ now = 0 /\ faults = 0
  /\ status = [p \in Payments |-> "NONE"] /\ lastEvent = status
  /\ mem = [p \in Payments |-> "RECEIVED"]
  /\ expiresAt = [p \in Payments |-> 0] /\ deadline = expiresAt
  /\ abortReason = [p \in Payments |-> FALSE]
  /\ hold = [p \in Payments |-> 0] /\ credit = hold /\ submitted = hold
  /\ callback = [p \in Payments |-> "none"]
  /\ up = [g \in Gateways |-> TRUE]
  /\ completedSteps = [g \in Gateways |-> 0]
  /\ home \in [Payments -> Gateways]
  /\ pc = [p \in Payments |-> "none"]
  /\ step = [p \in Payments |-> 0] /\ loaded = step
  /\ sweepPc = [g \in Gateways |-> "idle"]
  /\ sweepQ = [g \in Gateways |-> {}]
  /\ sweepCur = [g \in Gateways |-> NoPayment]
  /\ sweepStep = [g \in Gateways |-> 0]

---------------------------------------------------------------------------
(***************************************************************************)
(* Outcomes. A call either succeeds, or errs without effect, or has its    *)
(* effect and errs all the same; only the faults allowed may strike.       *)
(***************************************************************************)
NoFault == faults' = faults

Fault(kind) ==
  /\ kind \in FaultKinds
  /\ faults < MaxFaults
  /\ faults' = faults + 1

\* A transaction under a context: the outcomes are "ok", "err" and "ack".
DbOutcome(o, alive) ==
  \/ o = "ok"  /\ alive /\ NoFault
  \/ o = "err" /\ IF alive THEN Fault("db") ELSE NoFault
  \/ o = "ack" /\ alive /\ Fault("ack")

\* Mutant: the outbox row is written outside the transaction.
WriteStatus_EventOutsideTx(p, s, o) ==
  /\ status' = IF o = "err" THEN status ELSE [status EXCEPT ![p] = s]
  /\ lastEvent' = IF s = "ROUTED" THEN lastEvent ELSE [lastEvent EXCEPT ![p] = s]
  /\ expiresAt' = IF o = "err" \/ s # "RESERVED" THEN expiresAt
                  ELSE [expiresAt EXCEPT ![p] = now + ReservationTTL]
  /\ UNCHANGED abortReason

\* Mutant: MarkReserved stores the time of the reservation as its expiry.
WriteStatus_NoTTL(p, s, o) ==
  /\ status' = IF o = "err" THEN status ELSE [status EXCEPT ![p] = s]
  /\ lastEvent' = IF o = "err" \/ s = "ROUTED" THEN lastEvent
                  ELSE [lastEvent EXCEPT ![p] = s]
  /\ expiresAt' = IF o = "err" \/ s # "RESERVED" THEN expiresAt
                  ELSE [expiresAt EXCEPT ![p] = now]
  /\ UNCHANGED abortReason

\* UpdateStatus, MarkReserved and UpdateRoute: the row, and in the same
\* transaction the outbox row, except that UpdateRoute writes none.
WriteStatus(p, s, o) ==
  /\ status' = IF o = "err" THEN status ELSE [status EXCEPT ![p] = s]
  /\ lastEvent' = IF o = "err" \/ s = "ROUTED" THEN lastEvent
                  ELSE [lastEvent EXCEPT ![p] = s]
  /\ expiresAt' = IF o = "err" \/ s # "RESERVED" THEN expiresAt
                  ELSE [expiresAt EXCEPT ![p] = now + ReservationTTL]
  /\ UNCHANGED abortReason

\* Mutant: a call does not give up when its context expires.
BankOutcome_Hangs(o, alive) ==
  \/ o = "ok"   /\ alive /\ NoFault
  \/ o = "err"  /\ alive /\ NoFault
  \/ o = "lost" /\ alive /\ Fault("lost")

\* callBank: under an expired context the request is never made.
BankOutcome(o, alive) ==
  \/ o = "ok"   /\ alive /\ NoFault
  \/ o = "err"  /\ NoFault
  \/ o = "lost" /\ alive /\ Fault("lost")

ApplyEffect(p, i) ==
  /\ hold'      = IF i = ReserveStep THEN [hold EXCEPT ![p] = @ + 1] ELSE hold
  /\ credit'    = IF i = CommitStep THEN [credit EXCEPT ![p] = @ + 1] ELSE credit
  /\ submitted' = IF i = SettleStep THEN [submitted EXCEPT ![p] = @ + 1] ELSE submitted

\* The bank half of Compensate; its error is discarded, so an answer that is
\* lost is no different from one that arrives.
UndoEffect(p, k, alive) ==
  \/ /\ alive /\ NoFault
     /\ hold'   = IF k = ReserveStep THEN [hold EXCEPT ![p] = @ - 1] ELSE hold
     /\ credit' = IF k = CommitStep THEN [credit EXCEPT ![p] = @ - 1] ELSE credit
     /\ UNCHANGED submitted
  \/ /\ IF alive THEN Fault("undo") ELSE NoFault
     /\ UNCHANGED bankVars

---------------------------------------------------------------------------
(***************************************************************************)
(* The gateway: SubmitPayment persists the row with its outbox event and   *)
(* answers 202; the goroutine it starts runs the saga. A refused request   *)
(* changes nothing. If the commit's acknowledgement is lost, the row is    *)
(* there and no goroutine is.                                              *)
(***************************************************************************)
SubmitPayment(p) ==
  /\ status[p] = "NONE" /\ pc[p] = "none"
  /\ up[home[p]] /\ now <= LastSubmit
  /\ status' = [status EXCEPT ![p] = "RECEIVED"]
  /\ lastEvent' = [lastEvent EXCEPT ![p] = "RECEIVED"]
  /\ \/ NoFault /\ pc' = [pc EXCEPT ![p] = "accepted"]
     \/ Fault("ack") /\ pc' = [pc EXCEPT ![p] = "lost"]
  /\ UNCHANGED <<now, expiresAt, abortReason, bankVars, callback, up,
                 completedSteps, home, step, loaded, deadline, mem, sweepVars>>

StartSaga(p) ==
  /\ pc[p] = "accepted"
  /\ deadline' = [deadline EXCEPT ![p] = now + SagaTimeout]
  /\ completedSteps' = [completedSteps EXCEPT ![home[p]] = 0]
  /\ pc' = [pc EXCEPT ![p] = "exec"]
  /\ step' = [step EXCEPT ![p] = 1]
  /\ UNCHANGED <<now, faults, dbVars, bankVars, callback, up, home, loaded, mem, sweepVars>>

(***************************************************************************)
(* completedSteps++ after a step is a data race: the value it stores comes *)
(* from a load made when the step had just succeeded or right now, and     *)
(* other goroutines of the replica may have written in between.            *)
(***************************************************************************)
StoreCompleted(p) ==
  IF step[p] > 1
  THEN \E v \in {loaded[p], completedSteps[home[p]]} :
         completedSteps' = [completedSteps EXCEPT ![home[p]] = v + 1]
  ELSE completedSteps' = completedSteps

Succeed(p) ==
  /\ loaded' = [loaded EXCEPT ![p] = completedSteps'[home[p]]]
  /\ step' = [step EXCEPT ![p] = @ + 1]
  /\ pc' = [pc EXCEPT ![p] = IF step[p] = NSteps THEN "finish" ELSE "exec"]

\* Mutant: the loop of rollback does not stop at the first step.
CompensationPc_NoEnd(k) == IF UndoneAtBank(k) THEN "undo" ELSE "unrecord"

\* Where the compensation of step k starts; after the first step, Run returns.
CompensationPc(k) == IF k = 0 THEN "finish" ELSE IF UndoneAtBank(k) THEN "undo" ELSE "unrecord"

\* Mutant: rollback starts from the shared counter, not from its own list.
Unwind_SharedCounter(p) ==
  LET n == IF pc[p] \in {"exec", "record"} THEN completedSteps'[home[p]] ELSE step[p] - 1
  IN  /\ step' = [step EXCEPT ![p] = n]
      /\ pc' = [pc EXCEPT ![p] = CompensationPc(n)]
      /\ UNCHANGED <<loaded, mem>>

\* Step i has failed, or step i has been compensated: on to the one before.
Unwind(p) ==
  /\ step' = [step EXCEPT ![p] = @ - 1]
  /\ pc' = [pc EXCEPT ![p] = CompensationPc(step[p] - 1)]
  /\ UNCHANGED <<loaded, mem>>

\* The goroutine's in-memory status after it has recorded step i.
Recorded(p, o) ==
  \/ /\ o = "ok"
     /\ mem' = [mem EXCEPT ![p] = StatusOfStep(step[p])]
     /\ Succeed(p)
  \/ o # "ok" /\ Unwind(p)

\* Execute of validate, lookup, route, quote and screen: the check fails, or
\* it passes and the status is recorded.
ExecuteCheck(p) ==
  /\ pc[p] = "exec" /\ step[p] \in ValidateStep..ScreenStep
  /\ StoreCompleted(p)
  /\ \/ Unwind(p) /\ NoFault /\ UNCHANGED dbVars
     \/ \E o \in {"ok", "err", "ack"} :
          /\ DbOutcome(o, CtxAlive(p))
          /\ WriteStatus(p, StatusOfStep(step[p]), o)
          /\ Recorded(p, o)
  /\ UNCHANGED <<now, bankVars, callback, up, home, deadline, sweepVars>>

\* The first half of Execute of reserve, credit and settle: the call.
CallEffect(p) ==
  /\ pc[p] = "exec" /\ step[p] \in ReserveStep..LastRecording
  /\ StoreCompleted(p)
  /\ \E o \in {"ok", "err", "lost"} :
       /\ BankOutcome(o, CtxAlive(p))
       /\ IF o = "err" THEN UNCHANGED bankVars ELSE ApplyEffect(p, step[p])
       /\ \/ /\ o = "ok"
             /\ pc' = [pc EXCEPT ![p] = "record"]
             /\ UNCHANGED <<step, loaded, mem>>
          \/ o # "ok" /\ Unwind(p)
  /\ UNCHANGED <<now, dbVars, callback, up, home, deadline, sweepVars>>

\* The second half: MarkReserved or UpdateStatus.
RecordEffect(p) ==
  /\ pc[p] = "record"
  /\ UNCHANGED completedSteps
  /\ \E o \in {"ok", "err", "ack"} :
       /\ DbOutcome(o, CtxAlive(p))
       /\ WriteStatus(p, StatusOfStep(step[p]), o)
       /\ Recorded(p, o)
  /\ UNCHANGED <<now, bankVars, callback, up, home, deadline, sweepVars>>

\* Mutant: record_reconciliation and notify return their errors.
BestEffort_Fails(p) ==
  /\ pc[p] = "exec" /\ step[p] > LastRecording
  /\ StoreCompleted(p)
  /\ (Succeed(p) /\ UNCHANGED mem) \/ Unwind(p)
  /\ UNCHANGED <<now, faults, dbVars, bankVars, callback, up, home, deadline, sweepVars>>

\* Execute of record_reconciliation and notify: errors are only logged.
BestEffort(p) ==
  /\ pc[p] = "exec" /\ step[p] > LastRecording
  /\ StoreCompleted(p)
  /\ Succeed(p)
  /\ UNCHANGED <<now, faults, dbVars, bankVars, callback, up, home, deadline, mem, sweepVars>>

\* rollback, step by step: the bank's half of Compensate ...
Undo(p) ==
  /\ pc[p] = "undo"
  /\ UndoEffect(p, step[p], CtxAlive(p))
  /\ pc' = [pc EXCEPT ![p] = "unrecord"]
  /\ UNCHANGED <<now, dbVars, callback, up, completedSteps, home, step, loaded,
                 deadline, mem, sweepVars>>

\* ... and the database's half; rollback ignores its error.
Unrecord(p) ==
  /\ pc[p] = "unrecord"
  /\ IF RecordsAbort(step[p])
     THEN \E o \in {"ok", "err", "ack"} :
            DbOutcome(o, CtxAlive(p)) /\ WriteStatus(p, "ABORTED", o)
     ELSE NoFault /\ UNCHANGED dbVars
  /\ Unwind(p)
  /\ UNCHANGED <<now, bankVars, callback, up, completedSteps, home, deadline, sweepVars>>

\* processPaymentAsync after Run: abort_reason on failure, then one attempt at
\* the callback, whose body is made from the in-memory payment.
Finish(p) ==
  /\ pc[p] = "finish"
  /\ pc' = [pc EXCEPT ![p] = "done"]
  /\ StoreCompleted(p)
  /\ IF step[p] = 0
     THEN \E o \in {"ok", "err", "ack"} :
            /\ DbOutcome(o, CtxAlive(p))
            /\ abortReason' = IF o = "err" THEN abortReason ELSE [abortReason EXCEPT ![p] = TRUE]
     ELSE NoFault /\ UNCHANGED abortReason
  /\ \/ CtxAlive(p) /\ callback' = [callback EXCEPT ![p] = DomainStatusToISO(mem[p])]
     \/ UNCHANGED callback
  /\ UNCHANGED <<now, status, expiresAt, lastEvent, bankVars, up, home, step, loaded,
                 deadline, mem, sweepVars>>

\* Run for a payment outside Payments: all it shares with the others is the
\* counter, which it resets when it starts and increments after every step.
OtherSaga(g) ==
  /\ OtherPayments /\ up[g]
  /\ \/ completedSteps' = [completedSteps EXCEPT ![g] = 0]
     \/ /\ completedSteps[g] < NSteps
        /\ completedSteps' = [completedSteps EXCEPT ![g] = @ + 1]
  /\ UNCHANGED <<now, faults, dbVars, bankVars, callback, up, sagaVars, sweepVars>>

SagaStep(p) ==
  \/ StartSaga(p) \/ ExecuteCheck(p) \/ CallEffect(p) \/ RecordEffect(p)
  \/ BestEffort(p) \/ Undo(p) \/ Unrecord(p) \/ Finish(p)

---------------------------------------------------------------------------
(***************************************************************************)
(* The sweeper. Its context is the process's and never expires.            *)
(***************************************************************************)
\* Mutant: the query does not look at expires_at.
ExpiredReservations_AnyAge == { p \in Payments : status[p] = "RESERVED" }

ExpiredReservations == { p \in Payments : status[p] = "RESERVED" /\ expiresAt[p] < now }

\* FindExpiredReservations; the row locks end with the statement.
SweepFind(g) ==
  /\ up[g] /\ sweepPc[g] = "idle"
  /\ ExpiredReservations # {}
  /\ sweepQ' = [sweepQ EXCEPT ![g] = ExpiredReservations]
  /\ sweepPc' = [sweepPc EXCEPT ![g] = "next"]
  /\ UNCHANGED <<now, faults, dbVars, bankVars, callback, up, completedSteps, sagaVars,
                 sweepCur, sweepStep>>

\* The number of steps CompensatePayment compensates for a row of status s.
CompensationCount(g, s) ==
  LET n == IF completedSteps[g] <= 0 THEN statusToStepCount(s) ELSE completedSteps[g]
  IN  IF n > NSteps THEN NSteps ELSE n

\* Compensate steps n, n-1, ... of p next; with none left, the next payment.
SweepFrom(g, p, n) ==
  /\ sweepCur' = [sweepCur EXCEPT ![g] = IF n = 0 THEN NoPayment ELSE p]
  /\ sweepStep' = [sweepStep EXCEPT ![g] = n]
  /\ sweepPc' = [sweepPc EXCEPT ![g] = IF n = 0 THEN "next" ELSE CompensationPc(n)]

\* GetByID and the start of CompensatePayment, for one reservation found.
SweepNext(g) ==
  /\ up[g] /\ sweepPc[g] = "next"
  /\ \/ /\ sweepQ[g] = {} /\ NoFault
        /\ sweepPc' = [sweepPc EXCEPT ![g] = "idle"]
        /\ UNCHANGED <<sweepQ, sweepCur, sweepStep>>
     \/ \E p \in sweepQ[g] :
          /\ sweepQ' = [sweepQ EXCEPT ![g] = @ \ {p}]
          /\ \/ NoFault /\ SweepFrom(g, p, CompensationCount(g, status[p]))
             \/ Fault("db") /\ SweepFrom(g, p, 0)
  /\ UNCHANGED <<now, dbVars, bankVars, callback, up, completedSteps, sagaVars>>

SweepUndo(g) ==
  /\ up[g] /\ sweepPc[g] = "undo"
  /\ UndoEffect(sweepCur[g], sweepStep[g], TRUE)
  /\ sweepPc' = [sweepPc EXCEPT ![g] = "unrecord"]
  /\ UNCHANGED <<now, dbVars, callback, up, completedSteps, sagaVars, sweepQ, sweepCur, sweepStep>>

\* CompensatePayment stops at the first error.
SweepUnrecord(g) ==
  /\ up[g] /\ sweepPc[g] = "unrecord"
  /\ IF RecordsAbort(sweepStep[g])
     THEN \E o \in {"ok", "err", "ack"} :
            /\ DbOutcome(o, TRUE)
            /\ WriteStatus(sweepCur[g], "ABORTED", o)
            /\ SweepFrom(g, sweepCur[g], IF o = "ok" THEN sweepStep[g] - 1 ELSE 0)
     ELSE NoFault /\ UNCHANGED dbVars /\ SweepFrom(g, sweepCur[g], sweepStep[g] - 1)
  /\ UNCHANGED <<now, bankVars, callback, up, completedSteps, sagaVars, sweepQ>>

SweepStep(g) == SweepFind(g) \/ SweepNext(g) \/ SweepUndo(g) \/ SweepUnrecord(g)

---------------------------------------------------------------------------
(***************************************************************************)
(* The environment: the clock, and the death and restart of a replica.     *)
(* A goroutine is scheduled within the tick in which it is started.        *)
(***************************************************************************)
Tick ==
  /\ now < MaxTime
  /\ \A p \in Payments : pc[p] # "accepted"
  /\ "deadline" \in FaultKinds \/ \A p \in Payments : Running(p) => now + 1 < deadline[p]
  /\ now' = now + 1
  /\ UNCHANGED <<faults, dbVars, bankVars, callback, up, completedSteps, sagaVars, sweepVars>>

\* A replica dies, or is shut down: nothing waits for its saga goroutines.
Crash(g) ==
  /\ up[g] /\ Fault("crash")
  /\ up' = [up EXCEPT ![g] = FALSE]
  /\ pc' = [p \in Payments |->
              IF home[p] = g /\ (Running(p) \/ pc[p] = "accepted") THEN "lost" ELSE pc[p]]
  /\ sweepPc' = [sweepPc EXCEPT ![g] = "idle"]
  /\ sweepQ' = [sweepQ EXCEPT ![g] = {}]
  /\ sweepCur' = [sweepCur EXCEPT ![g] = NoPayment]
  /\ sweepStep' = [sweepStep EXCEPT ![g] = 0]
  /\ UNCHANGED <<now, dbVars, bankVars, callback, completedSteps, home, step, loaded,
                 deadline, mem>>

Restart(g) ==
  /\ ~up[g]
  /\ up' = [up EXCEPT ![g] = TRUE]
  /\ completedSteps' = [completedSteps EXCEPT ![g] = 0]
  /\ UNCHANGED <<now, faults, dbVars, bankVars, callback, sagaVars, sweepVars>>

Next ==
  \/ \E p \in Payments : SubmitPayment(p) \/ SagaStep(p)
  \/ \E g \in Gateways : SweepStep(g) \/ OtherSaga(g) \/ Crash(g) \/ Restart(g)
  \/ Tick

Spec == Init /\ [][Next]_vars

---------------------------------------------------------------------------
(***************************************************************************)
(* Fairness. A goroutine that can run is scheduled, the tickers of the     *)
(* sweepers keep firing, time passes and a dead replica is restarted (the  *)
(* deployment's job). Submitting a payment and every fault are left free.  *)
(***************************************************************************)
FairSpec ==
  /\ Spec
  /\ \A p \in Payments : WF_vars(SagaStep(p))
  /\ \A g \in Gateways : WF_vars(SweepStep(g)) /\ WF_vars(Restart(g))
  /\ WF_vars(Tick)

---------------------------------------------------------------------------
(***************************************************************************)
(* Safety                                                                  *)
(***************************************************************************)
InSweep(g, p) == p \in sweepQ[g] \/ p = sweepCur[g]

\* SweepOnce never re-reads a row's status before it compensates and
\* UpdateStatus never looks at the old status, so a sweep must not overlap a
\* saga that can still write: every payment in a sweeper's hands has a saga
\* that ended, died with its replica, or outlived its context.
SweptSagaIsDead ==
  \A g \in Gateways, p \in Payments : InSweep(g, p) => ~(Running(p) /\ CtxAlive(p))

Lifecycle == INSTANCE PaymentLifecycle

\* The status column only ever moves the way PaymentLifecycle allows,
\* although no SQL statement of the repository guards on the old status.
ImplementsLifecycle == Lifecycle!Spec

\* A row in the final status of the pipeline is one whose funds are held at
\* the source, credited at the destination exactly once, and (with the settle
\* step) handed to settlement: no rollback, sweep, crash or lost answer can
\* take the money back under it. (A lost commit acknowledgement can.)
PaidMeansPaid ==
  "ack" \notin FaultKinds =>
    \A p \in Payments : status[p] = StatusOfStep(LastRecording) =>
      /\ hold[p] = 1 /\ credit[p] = 1
      /\ SettlementEnabled => submitted[p] = 1

\* The newest outbox event of a payment announces the status its row has,
\* whatever transaction failed; the ROUTED status alone is never announced.
EventTracksRow ==
  \A p \in Payments :
    lastEvent[p] = IF status[p] = "ROUTED" THEN "LOOKED_UP" ELSE status[p]

\* Without faults the destination never holds money that is not held at the
\* source: rollback reverses the credit before it releases the hold, also
\* while other sagas overwrite the shared counter.
CreditIsFunded ==
  FaultKinds = {} => \A p \in Payments : 0 <= credit[p] /\ credit[p] <= hold[p] /\ hold[p] <= 1

\* Without faults a saga is all or nothing: when its goroutine has ended,
\* either the row has the final status, the money has moved and settlement has
\* the entry; or nothing is left at any bank or at settlement, the portal shows
\* a reason, and the row is ABORTED, or RECEIVED if validation refused it.
OutcomeAtomic ==
  FaultKinds = {} =>
    \A p \in Payments : pc[p] = "done" =>
      \/ /\ status[p] = StatusOfStep(LastRecording) /\ ~abortReason[p]
         /\ hold[p] = 1 /\ credit[p] = 1
         /\ submitted[p] = IF SettlementEnabled THEN 1 ELSE 0
      \/ /\ status[p] \in {"ABORTED", "RECEIVED"} /\ abortReason[p]
         /\ hold[p] = 0 /\ credit[p] = 0 /\ submitted[p] = 0

---------------------------------------------------------------------------
(***************************************************************************)
(* The inductive invariant behind the safety theorems (PaymentSagaProofs). *)
(***************************************************************************)

\* Where a goroutine or a sweeper is bounds the step it is at.
ControlInv ==
  /\ \A p \in Payments :
       /\ pc[p] = "exec" => step[p] \in 1..NSteps
       /\ pc[p] = "record" => step[p] \in ReserveStep..LastRecording
       /\ pc[p] = "undo" => step[p] \in {ReserveStep, CommitStep}
       /\ pc[p] = "unrecord" => step[p] \in 1..NSteps
       /\ pc[p] = "finish" => step[p] \in {0, NSteps + 1}
  /\ \A g \in Gateways :
       /\ sweepPc[g] \in {"undo", "unrecord"} => sweepCur[g] \in Payments /\ sweepStep[g] >= 1
       /\ sweepPc[g] = "undo" => sweepStep[g] \in {ReserveStep, CommitStep}

\* The status the row has when the goroutine is about to execute step i.
StatusBefore(i) ==
  IF i = 1 THEN "RECEIVED"
  ELSE IF i > LastRecording THEN StatusOfStep(LastRecording) ELSE StatusOfStep(i - 1)

Started(p) == pc[p] \notin {"none", "accepted"}

\* A goroutine whose context lives knows what the row says.
RowInv ==
  \A p \in Payments :
    /\ pc[p] = "none" <=> status[p] = "NONE"
    /\ pc[p] = "accepted" => status[p] = "RECEIVED"
    /\ pc[p] \in {"exec", "record"} /\ CtxAlive(p) => status[p] = StatusBefore(step[p])

\* A reservation outlives the context of the saga that made it, so that a
\* sweeper only ever finds payments whose saga can no longer write.
TimeInv ==
  \A p \in Payments :
    /\ deadline[p] <= now + SagaTimeout
    /\ status[p] = "RESERVED" => deadline[p] <= expiresAt[p]
    /\ \A g \in Gateways : InSweep(g, p) => Started(p) /\ deadline[p] <= now

IInv == TypeOK /\ ControlInv /\ RowInv /\ TimeInv

\* What a goroutine about to execute (or record) step i has done outside.
Effects(p, done) ==
  /\ hold[p] = IF done >= ReserveStep THEN 1 ELSE 0
  /\ credit[p] = IF done >= CommitStep THEN 1 ELSE 0
  /\ SettlementEnabled => submitted[p] = IF done >= SettleStep THEN 1 ELSE 0

PaidInv ==
  \A p \in Payments :
    /\ ~Started(p) => Effects(p, 0)
    /\ pc[p] = "exec" /\ CtxAlive(p) => Effects(p, step[p] - 1)
    /\ pc[p] = "record" /\ CtxAlive(p) => Effects(p, step[p])
    /\ status[p] = StatusOfStep(LastRecording) =>
         /\ Effects(p, LastRecording)
         /\ pc[p] \in {"exec", "finish", "done", "lost"}
         /\ pc[p] = "exec" => step[p] > LastRecording
         /\ \A g \in Gateways : ~InSweep(g, p)

\* The last step of p whose effect outside the switch is in place.
Done(p) == IF pc[p] \in {"record", "undo"} \/ step[p] = 0 THEN step[p] ELSE step[p] - 1

\* Without faults a goroutine never outlives its context and no reservation
\* outlives its goroutine, so that no sweeper finds any; a rollback starts
\* before settlement and undoes one step's effect after the other.
AtomicInv ==
  \A p \in Payments :
    /\ pc[p] # "lost" /\ (Running(p) => CtxAlive(p))
    /\ ~Started(p) => step[p] = 0
    /\ status[p] = "RESERVED" => Running(p)
    /\ \A g \in Gateways : ~InSweep(g, p)
    /\ pc[p] \in {"undo", "unrecord"} => step[p] <= CommitStep
    /\ pc[p] \in {"finish", "done"} =>
         \/ step[p] = 0 /\ status[p] \in {"ABORTED", "RECEIVED"}
         \/ step[p] = NSteps + 1 /\ status[p] = StatusOfStep(LastRecording)
    /\ abortReason[p] <=> pc[p] = "done" /\ step[p] = 0
    /\ Effects(p, Done(p)) /\ (~SettlementEnabled => submitted[p] = 0)

---------------------------------------------------------------------------
(***************************************************************************)
(* Liveness                                                                *)
(***************************************************************************)

\* No row stays RESERVED: its saga takes it further, or its reservation
\* expires and some replica's sweeper aborts it, after crashes, failed
\* transactions and refused compensations alike.
ReservationResolved ==
  \A p \in Payments : status[p] = "RESERVED" ~> status[p] # "RESERVED"

\* Every accepted payment's goroutine ends, unless its replica dies: the 60 s
\* context leaves no call that waits for ever.
SagaEnds ==
  \A p \in Payments : pc[p] = "accepted" ~> pc[p] \in {"done", "lost"}

---------------------------------------------------------------------------
(***************************************************************************)
(* What the documentation says and the code does not do.                   *)
(***************************************************************************)

\* statusToStepCount counts the "steps that must have completed before or at
\* that status" (saga.go): a sweep reverses no credit that was not made.
SweepUndoesOnlyWhatRan == \A p \in Payments : credit[p] >= 0

\* "FOR UPDATE SKIP LOCKED for sweeper ... concurrency" (README.md): two
\* sweepers never release the same reservation.
ReleasedAtMostOnce == \A p \in Payments : hold[p] >= 0

\* "automatic compensation on failure" (README.md): a payment whose saga ended
\* in ABORTED has left nothing at the banks or at settlement.
AbortedLeavesNothing ==
  \A p \in Payments : pc[p] = "done" /\ status[p] = "ABORTED" =>
    hold[p] = 0 /\ credit[p] = 0 /\ submitted[p] = 0
===========================================================================
