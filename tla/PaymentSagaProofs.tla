------------------------- MODULE PaymentSagaProofs ------------------------
(***************************************************************************)
(* Theorems about PaymentSaga for every set of payments and gateways, every*)
(* bound, every choice of faults, and every pair of timeouts in which a    *)
(* reservation lives at least as long as the saga that makes it.           *)
(***************************************************************************)
EXTENDS PaymentSaga, TLAPS

---------------------------------------------------------------------------
(***************************************************************************)
(* Facts about the pipeline.                                               *)
(***************************************************************************)

\* The pipeline ends with or without the settle step, and two best-effort
\* steps follow (the step list built in cmd/gateway/main.go).
LEMMA PipelineFacts ==
  /\ LastRecording \in {7, 8} /\ NSteps = LastRecording + 2
  /\ LastRecording = 8 <=> SettlementEnabled
  BY ConstantsAssumption DEF LastRecording, NSteps, SettleStep, CommitStep

\* A step records a status of a payment, never ABORTED or RECEIVED.
LEMMA StatusOfStepType ==
  ASSUME NEW i \in 1..8
  PROVE  /\ StatusOfStep(i) \in PaymentStatus
         /\ StatusOfStep(i) \notin {"NONE", "RECEIVED", "ABORTED"}
  <1>1. StatusOfStep(i) \in PaymentStatus
    BY DEF PaymentStatus, SettleStep
  <1>2. StatusOfStep(i) \notin {"NONE", "RECEIVED", "ABORTED"}
    BY DEF StatusOfStep
  <1> QED BY <1>1, <1>2

\* Only the reserve step records RESERVED, only the last recording step the
\* final status (statusToStepCount relies on it).
LEMMA StatusOfStepInjective ==
  ASSUME NEW i \in 1..8, NEW j \in 1..8, StatusOfStep(i) = StatusOfStep(j)
  PROVE  i = j
  BY DEF StatusOfStep

\* The statuses the proofs name.
LEMMA SpecialStatuses ==
  /\ StatusOfStep(6) = "RESERVED" /\ StatusOfStep(3) = "ROUTED"
  /\ "ABORTED" \in PaymentStatus /\ "RECEIVED" \in PaymentStatus
  BY DEF StatusOfStep, PaymentStatus

\* statusToStepCount of a status a row can have is a number of steps.
LEMMA StepCountType ==
  ASSUME NEW s \in PaymentStatus
  PROVE  statusToStepCount(s) \in 0..8
  <1>1. CASE s \in {"RECEIVED", "ABORTED"}
    BY <1>1 DEF statusToStepCount
  <1>2. CASE s \notin {"RECEIVED", "ABORTED"}
    <2>1. \E i \in 1..8 : StatusOfStep(i) = s
      BY <1>2 DEF PaymentStatus, SettleStep
    <2>2. (CHOOSE i \in 1..8 : StatusOfStep(i) = s) \in 1..8
      BY <2>1
    <2> QED BY <1>2, <2>2 DEF statusToStepCount, SettleStep
  <1> QED BY <1>1, <1>2

\* DomainStatusToISO gives every status one of five codes.
LEMMA ISOType ==
  ASSUME NEW s \in PaymentStatus
  PROVE  DomainStatusToISO(s) \in {"RCVD", "RJCT", "ACSC", "ACCP", "PDNG"}
  BY DEF DomainStatusToISO

---------------------------------------------------------------------------
(***************************************************************************)
(* IInv is inductive: one lemma per action.                                *)
(***************************************************************************)
\* A switch that starts has no payment, no sweep and no reservation.
LEMMA InitInv == Init => IInv
  <1> SUFFICES ASSUME Init PROVE IInv
    OBVIOUS
  <1> USE PipelineFacts, SpecialStatuses, ConstantsAssumption, TimingAssumption DEF Init
  <1>1. TypeOK
    BY DEF TypeOK
  <1>2. ControlInv
    BY DEF ControlInv
  <1>3. RowInv
    BY DEF RowInv
  <1>4. TimeInv
    <2>1. \A p \in Payments : deadline[p] <= now + SagaTimeout
      <3>1. now = 0 /\ \A p \in Payments : deadline[p] = 0
        OBVIOUS
      <3>2. 0 <= 0 + SagaTimeout
        BY TimingAssumption
      <3> HIDE DEF Init
      <3> QED BY <3>1, <3>2
    <2>2. \A p \in Payments : status[p] # "RESERVED" /\ \A g \in Gateways : ~InSweep(g, p)
      BY DEF InSweep
    <2> QED BY <2>1, <2>2 DEF TimeInv
  <1> QED BY <1>1, <1>2, <1>3, <1>4 DEF IInv

\* SubmitPayment: the row appears together with its goroutine.
LEMMA SubmitPaymentInv ==
  ASSUME IInv, NEW p \in Payments, SubmitPayment(p)
  PROVE  IInv'
  <1> USE PipelineFacts, SpecialStatuses, ConstantsAssumption
      DEF IInv, SubmitPayment, bankVars, sweepVars, NoFault, Fault
  <1>1. TypeOK'
    BY DEF TypeOK
  <1>2. ControlInv'
    BY DEF TypeOK, ControlInv
  <1>3. RowInv'
    BY DEF TypeOK, RowInv, CtxAlive
  <1>4. TimeInv'
    BY DEF TypeOK, TimeInv, RowInv, InSweep, Started
  <1> QED BY <1>1, <1>2, <1>3, <1>4

\* processPaymentAsync starts: the context of 60 s, the counter reset.
LEMMA StartSagaInv ==
  ASSUME IInv, NEW p \in Payments, StartSaga(p)
  PROVE  IInv'
  <1> USE PipelineFacts, SpecialStatuses, ConstantsAssumption, TimingAssumption
      DEF IInv, StartSaga, dbVars, bankVars, sweepVars
  <1>1. TypeOK'
    BY DEF TypeOK
  <1>2. ControlInv'
    BY DEF TypeOK, ControlInv
  <1>3. RowInv'
    BY DEF TypeOK, RowInv, CtxAlive, StatusBefore
  <1>4. TimeInv'
    BY DEF TypeOK, TimeInv, RowInv, InSweep, Started
  <1> QED BY <1>1, <1>2, <1>3, <1>4

---------------------------------------------------------------------------
\* The parts of TypeOK that the actions of a goroutine share.
RowType ==
  /\ status \in [Payments -> PaymentStatus \cup {"NONE"}]
  /\ lastEvent \in [Payments -> PaymentStatus \cup {"NONE"}]
  /\ expiresAt \in [Payments -> Nat]
  /\ abortReason \in [Payments -> BOOLEAN]

GoroutineType ==
  /\ mem \in [Payments -> PaymentStatus]
  /\ loaded \in [Payments -> Nat]
  /\ step \in [Payments -> 0..(NSteps + 1)]
  /\ pc \in [Payments -> {"none", "accepted", "exec", "record", "undo", "unrecord",
                          "finish", "done", "lost"}]

\* The racy completedSteps++ of Run keeps the counter a natural number.
LEMMA StoreCompletedType ==
  ASSUME TypeOK, NEW p \in Payments, StoreCompleted(p)
  PROVE  completedSteps' \in [Gateways -> Nat]
  BY DEF TypeOK, StoreCompleted

\* UpdateStatus, MarkReserved and UpdateRoute keep the row well typed.
LEMMA WriteStatusType ==
  ASSUME TypeOK, NEW p \in Payments, NEW s \in PaymentStatus, NEW o, WriteStatus(p, s, o)
  PROVE  RowType'
  BY TimingAssumption DEF TypeOK, RowType, WriteStatus

\* Run going on to the next step keeps the goroutine well typed.
LEMMA SucceedType ==
  ASSUME TypeOK, NEW p \in Payments, Succeed(p), step[p] \in 1..NSteps,
         completedSteps' \in [Gateways -> Nat], mem' \in [Payments -> PaymentStatus]
  PROVE  GoroutineType'
  <1>1. completedSteps'[home[p]] \in Nat
    BY DEF TypeOK
  <1>2. loaded' \in [Payments -> Nat]
    BY <1>1 DEF TypeOK, Succeed
  <1>3. step' \in [Payments -> 0..(NSteps + 1)]
    BY PipelineFacts DEF TypeOK, Succeed
  <1> QED BY <1>2, <1>3 DEF TypeOK, GoroutineType, Succeed

\* rollback going on to the step before keeps the goroutine well typed.
LEMMA UnwindType ==
  ASSUME TypeOK, NEW p \in Payments, Unwind(p), step[p] \in 1..NSteps
  PROVE  GoroutineType'
  BY PipelineFacts DEF TypeOK, GoroutineType, Unwind, CompensationPc

\* The checking steps (validate to screen) keep IInv: a status is written only under
\* a live context, so the goroutine knows what it replaces.
LEMMA ExecuteCheckInv ==
  ASSUME IInv, NEW p \in Payments, ExecuteCheck(p)
  PROVE  IInv'
  <1> USE PipelineFacts, SpecialStatuses, ConstantsAssumption, TimingAssumption
      DEF IInv, ExecuteCheck, dbVars, bankVars, sweepVars, NoFault, Fault, DbOutcome,
          ValidateStep, ScreenStep
  <1>0. \A i \in 1..8 : StatusOfStep(i) \in PaymentStatus \ {"NONE", "RECEIVED", "ABORTED"}
    BY StatusOfStepType
  <1>1. TypeOK'
    <2>1. completedSteps' \in [Gateways -> Nat]
      BY StoreCompletedType
    <2>s. step[p] \in 1..5 /\ step[p] \in 1..NSteps /\ StatusOfStep(step[p]) \in PaymentStatus
      BY <1>0
    <2>2. RowType'
      <3>1. CASE UNCHANGED dbVars
        BY <3>1 DEF TypeOK, RowType
      <3>2. CASE \E o : WriteStatus(p, StatusOfStep(step[p]), o)
        BY <2>s, <3>2, WriteStatusType
      <3> QED BY <3>1, <3>2
    <2>3. GoroutineType'
      <3>1. CASE Unwind(p)
        BY <2>s, <3>1, UnwindType
      <3>2. CASE Succeed(p) /\ mem' = [mem EXCEPT ![p] = StatusOfStep(step[p])]
        BY <2>s, <2>1, <3>2, SucceedType DEF TypeOK, GoroutineType
      <3> QED BY <3>1, <3>2 DEF Recorded
    <2>4. faults' \in Nat
      BY DEF TypeOK
    <2> QED BY <2>1, <2>2, <2>3, <2>4 DEF TypeOK, RowType, GoroutineType
  <1> USE DEF Unwind, Succeed, Recorded, WriteStatus, CompensationPc, UndoneAtBank, ReserveStep,
              CommitStep
  <1>2. ControlInv'
    BY DEF TypeOK, ControlInv
  <1>3. RowInv'
    BY <1>0 DEF TypeOK, ControlInv, RowInv, CtxAlive, StatusBefore
  <1>4. TimeInv'
    BY <1>0, StatusOfStepInjective DEF TypeOK, ControlInv, TimeInv, RowInv, InSweep, Started, CtxAlive
  <1> QED BY <1>1, <1>2, <1>3, <1>4

\* A call to a bank or to settlement leaves the row and the clocks alone.
LEMMA CallEffectInv ==
  ASSUME IInv, NEW p \in Payments, CallEffect(p)
  PROVE  IInv'
  <1> USE PipelineFacts, ConstantsAssumption, TimingAssumption
      DEF IInv, CallEffect, dbVars, bankVars, sweepVars, NoFault, Fault, BankOutcome, ApplyEffect,
          ReserveStep, CommitStep, SettleStep
  <1>1. TypeOK'
    <2>1. completedSteps' \in [Gateways -> Nat]
      BY StoreCompletedType
    <2>2. /\ hold' \in [Payments -> Int] /\ credit' \in [Payments -> Int]
          /\ submitted' \in [Payments -> Nat]
      BY DEF TypeOK
    <2>3. step[p] \in 1..NSteps
      OBVIOUS
    <2>4. GoroutineType'
      <3>1. CASE Unwind(p)
        BY <2>3, <3>1, UnwindType
      <3>2. CASE pc' = [pc EXCEPT ![p] = "record"] /\ UNCHANGED <<step, loaded, mem>>
        BY <3>2 DEF TypeOK, GoroutineType
      <3> QED BY <3>1, <3>2
    <2>5. faults' \in Nat
      BY DEF TypeOK
    <2> QED BY <2>1, <2>2, <2>4, <2>5 DEF TypeOK, GoroutineType
  <1> USE DEF Unwind, CompensationPc, UndoneAtBank
  <1>2. ControlInv'
    BY DEF TypeOK, ControlInv
  <1>3. RowInv'
    BY DEF TypeOK, ControlInv, RowInv, CtxAlive, StatusBefore
  <1>4. TimeInv'
    BY DEF TypeOK, ControlInv, TimeInv, RowInv, InSweep, Started, CtxAlive
  <1> QED BY <1>1, <1>2, <1>3, <1>4

\* MarkReserved and UpdateStatus after an effect: the expiry written is not before
\* the deadline of the context, because TTL >= timeout.
LEMMA RecordEffectInv ==
  ASSUME IInv, NEW p \in Payments, RecordEffect(p)
  PROVE  IInv'
  <1> USE PipelineFacts, SpecialStatuses, ConstantsAssumption, TimingAssumption
      DEF IInv, RecordEffect, dbVars, bankVars, sweepVars, NoFault, Fault, DbOutcome, ReserveStep
  <1>0. \A i \in 1..8 : StatusOfStep(i) \in PaymentStatus \ {"NONE", "RECEIVED", "ABORTED"}
    BY StatusOfStepType
  <1>s. step[p] \in 6..LastRecording
    BY DEF ControlInv
  <1>1. TypeOK'
    <2>s. step[p] \in 1..NSteps /\ StatusOfStep(step[p]) \in PaymentStatus
      BY <1>0, <1>s
    <2>1. completedSteps' \in [Gateways -> Nat]
      BY DEF TypeOK
    <2>2. RowType'
      BY <2>s, WriteStatusType
    <2>3. GoroutineType'
      <3>1. CASE Unwind(p)
        BY <2>s, <3>1, UnwindType
      <3>2. CASE Succeed(p) /\ mem' = [mem EXCEPT ![p] = StatusOfStep(step[p])]
        BY <2>s, <2>1, <3>2, SucceedType DEF TypeOK, GoroutineType
      <3> QED BY <3>1, <3>2 DEF Recorded
    <2>4. faults' \in Nat
      BY DEF TypeOK
    <2> QED BY <2>1, <2>2, <2>3, <2>4 DEF TypeOK, RowType, GoroutineType
  <1> USE DEF Unwind, Succeed, Recorded, WriteStatus, CompensationPc, UndoneAtBank, CommitStep
  <1>2. ControlInv'
    BY DEF TypeOK, ControlInv
  <1>3. RowInv'
    <2> SUFFICES ASSUME NEW q \in Payments
        PROVE  /\ pc'[q] = "none" <=> status'[q] = "NONE"
               /\ pc'[q] = "accepted" => status'[q] = "RECEIVED"
               /\ pc'[q] \in {"exec", "record"} /\ now' < deadline'[q] =>
                     status'[q] = StatusBefore(step'[q])
      BY DEF RowInv, CtxAlive
    <2>1. CASE q # p
      BY <2>1 DEF TypeOK, RowInv, CtxAlive
    <2>2. CASE q = p
      <3>1. CASE Succeed(p) /\ status' = [status EXCEPT ![p] = StatusOfStep(step[p])]
        <4>1. step'[q] = step[p] + 1 /\ status'[q] = StatusOfStep(step[p])
          BY <2>2, <3>1 DEF TypeOK
        <4>2. StatusBefore(step[p] + 1) = StatusOfStep(step[p])
          BY <1>s DEF StatusBefore
        <4>3. status'[q] \notin {"NONE", "RECEIVED"} /\ pc'[q] \in {"exec", "finish"}
          <5>1. status'[q] \notin {"NONE", "RECEIVED"}
            BY <1>0, <1>s, <4>1
          <5>2. pc'[q] \in {"exec", "finish"}
            BY <2>2, <3>1 DEF TypeOK
          <5> QED BY <5>1, <5>2
        <4> QED BY <4>1, <4>2, <4>3
      <3>2. CASE Unwind(p)
        <4>1. pc'[q] \in {"undo", "unrecord"}
          BY <2>2, <1>s, <3>2 DEF TypeOK
        <4>2. status[q] # "NONE"
          BY <2>2 DEF RowInv
        <4>3. status'[q] # "NONE"
          <5>1. status'[q] \in {status[q], StatusOfStep(step[p])}
            BY <2>2 DEF TypeOK
          <5> QED BY <1>0, <1>s, <4>2, <5>1
        <4> QED BY <4>1, <4>3
      <3> QED BY <3>1, <3>2
    <2> QED BY <2>1, <2>2
  <1>4. TimeInv'
    BY <1>0, <1>s, StatusOfStepInjective DEF TypeOK, TimeInv, RowInv, InSweep, Started, CtxAlive
  <1> QED BY <1>1, <1>2, <1>3, <1>4

\* record_reconciliation and notify only move the goroutine on.
LEMMA BestEffortInv ==
  ASSUME IInv, NEW p \in Payments, BestEffort(p)
  PROVE  IInv'
  <1> USE PipelineFacts DEF IInv, BestEffort, dbVars, bankVars, sweepVars
  <1>s. step[p] \in {LastRecording + 1, LastRecording + 2}
    BY DEF ControlInv
  <1>1. TypeOK'
    <2>1. completedSteps' \in [Gateways -> Nat]
      BY StoreCompletedType
    <2>2. GoroutineType'
      <3>1. step[p] \in 1..NSteps /\ mem' \in [Payments -> PaymentStatus]
        BY <1>s DEF TypeOK
      <3> QED BY <2>1, <3>1, SucceedType
    <2> QED BY <2>1, <2>2 DEF TypeOK, GoroutineType
  <1> USE DEF Succeed
  <1>2. ControlInv'
    BY <1>s DEF TypeOK, ControlInv
  <1>3. RowInv'
    BY <1>s DEF TypeOK, RowInv, CtxAlive, StatusBefore
  <1>4. TimeInv'
    BY DEF TypeOK, TimeInv, RowInv, InSweep, Started
  <1> QED BY <1>1, <1>2, <1>3, <1>4

\* The bank half of Compensate leaves the row alone.
LEMMA UndoInv ==
  ASSUME IInv, NEW p \in Payments, Undo(p)
  PROVE  IInv'
  <1> USE PipelineFacts DEF IInv, Undo, dbVars, bankVars, sweepVars, UndoEffect, NoFault, Fault,
          ReserveStep, CommitStep
  <1>1. TypeOK'
    BY DEF TypeOK, ControlInv
  <1>2. ControlInv'
    BY DEF TypeOK, ControlInv
  <1>3. RowInv'
    BY DEF TypeOK, RowInv, CtxAlive
  <1>4. TimeInv'
    BY DEF TypeOK, TimeInv, InSweep, Started
  <1> QED BY <1>1, <1>2, <1>3, <1>4

\* The database half of Compensate, in rollback: ABORTED is written by a goroutine
\* that executes no further step.
LEMMA UnrecordInv ==
  ASSUME IInv, NEW p \in Payments, Unrecord(p)
  PROVE  IInv'
  <1> USE PipelineFacts, SpecialStatuses, TimingAssumption
      DEF IInv, Unrecord, dbVars, bankVars, sweepVars, NoFault, Fault, DbOutcome
  <1>1. TypeOK'
    <2>1. RowType'
      <3>1. CASE UNCHANGED dbVars
        BY <3>1 DEF TypeOK, RowType
      <3>2. CASE \E o : WriteStatus(p, "ABORTED", o)
        BY <3>2, WriteStatusType
      <3> QED BY <3>1, <3>2
    <2>2. GoroutineType'
      BY UnwindType DEF ControlInv
    <2>3. faults' \in Nat
      BY DEF TypeOK
    <2> QED BY <2>1, <2>2, <2>3 DEF TypeOK, RowType, GoroutineType
  <1> USE DEF Unwind, WriteStatus, CompensationPc, UndoneAtBank, ReserveStep, CommitStep
  <1>2. ControlInv'
    BY DEF TypeOK, ControlInv
  <1>3. RowInv'
    BY DEF TypeOK, ControlInv, RowInv, CtxAlive
  <1>4. TimeInv'
    BY DEF TypeOK, ControlInv, TimeInv, RowInv, InSweep, Started
  <1> QED BY <1>1, <1>2, <1>3, <1>4

\* The end of processPaymentAsync.
LEMMA FinishInv ==
  ASSUME IInv, NEW p \in Payments, Finish(p)
  PROVE  IInv'
  <1> USE DEF IInv, Finish, bankVars, sweepVars, NoFault, Fault, DbOutcome
  <1>1. TypeOK'
    <2>1. completedSteps' \in [Gateways -> Nat]
      BY StoreCompletedType
    <2>2. callback' \in [Payments -> {"none", "RCVD", "RJCT", "ACSC", "ACCP", "PDNG"}]
      BY ISOType DEF TypeOK
    <2>3. faults' \in Nat
      BY DEF TypeOK
    <2>4. abortReason' \in [Payments -> BOOLEAN]
      <3>1. abortReason' \in {abortReason, [abortReason EXCEPT ![p] = TRUE]}
        OBVIOUS
      <3> QED BY <3>1 DEF TypeOK
    <2> QED BY <2>1, <2>2, <2>3, <2>4 DEF TypeOK
  <1>2. ControlInv'
    BY DEF TypeOK, ControlInv
  <1>3. RowInv'
    BY DEF TypeOK, RowInv, CtxAlive
  <1>4. TimeInv'
    BY DEF TypeOK, TimeInv, InSweep, Started
  <1> QED BY <1>1, <1>2, <1>3, <1>4

\* Run for other payments touches only the shared counter.
LEMMA OtherSagaInv ==
  ASSUME IInv, NEW g \in Gateways, OtherSaga(g)
  PROVE  IInv'
  <1> USE DEF IInv, OtherSaga, dbVars, bankVars, sagaVars, sweepVars
  <1>1. TypeOK'
    BY DEF TypeOK
  <1>2. ControlInv'
    BY DEF ControlInv
  <1>3. RowInv'
    BY DEF RowInv, CtxAlive
  <1>4. TimeInv'
    BY DEF TimeInv, InSweep, Started
  <1> QED BY <1>1, <1>2, <1>3, <1>4

\* FindExpiredReservations: a reservation that has expired belongs to a saga whose
\* context has expired before.
LEMMA SweepFindInv ==
  ASSUME IInv, NEW g \in Gateways, SweepFind(g)
  PROVE  IInv'
  <1> USE DEF IInv, SweepFind, dbVars, bankVars, sagaVars
  <1>1. TypeOK'
    BY DEF TypeOK, ExpiredReservations
  <1>2. ControlInv'
    BY DEF TypeOK, ControlInv
  <1>3. RowInv'
    BY DEF RowInv, CtxAlive
  <1>4. TimeInv'
    BY DEF TypeOK, TimeInv, RowInv, InSweep, Started, ExpiredReservations
  <1> QED BY <1>1, <1>2, <1>3, <1>4

\* CompensatePayment never compensates more steps than the pipeline has.
LEMMA CompensationCountType ==
  ASSUME TypeOK, NEW g \in Gateways, NEW s \in PaymentStatus
  PROVE  CompensationCount(g, s) \in 0..NSteps
  BY StepCountType, PipelineFacts DEF TypeOK, CompensationCount

\* The sweeper going on to the step before, or to the next payment.
LEMMA SweepFromInv ==
  ASSUME IInv, NEW g \in Gateways, NEW p \in Payments, NEW n \in 0..NSteps, SweepFrom(g, p, n)
  PROVE  /\ sweepPc' \in [Gateways -> {"idle", "next", "undo", "unrecord"}]
         /\ sweepCur' \in [Gateways -> Payments \cup {NoPayment}]
         /\ sweepStep' \in [Gateways -> 0..NSteps]
         /\ \A h \in Gateways :
              /\ sweepPc'[h] \in {"undo", "unrecord"} => sweepCur'[h] \in Payments /\ sweepStep'[h] >= 1
              /\ sweepPc'[h] = "undo" => sweepStep'[h] \in {ReserveStep, CommitStep}
              /\ sweepCur'[h] \in {sweepCur[h], IF h = g THEN p ELSE NoPayment, NoPayment}
  <1> USE PipelineFacts DEF IInv, SweepFrom, CompensationPc, UndoneAtBank
  <1>1. sweepPc' \in [Gateways -> {"idle", "next", "undo", "unrecord"}]
    BY DEF TypeOK
  <1>2. sweepCur' \in [Gateways -> Payments \cup {NoPayment}]
    BY DEF TypeOK
  <1>3. sweepStep' \in [Gateways -> 0..NSteps]
    BY DEF TypeOK
  <1>4. ASSUME NEW h \in Gateways
        PROVE  /\ sweepPc'[h] \in {"undo", "unrecord"} => sweepCur'[h] \in Payments /\ sweepStep'[h] >= 1
               /\ sweepPc'[h] = "undo" => sweepStep'[h] \in {ReserveStep, CommitStep}
               /\ sweepCur'[h] \in {sweepCur[h], IF h = g THEN p ELSE NoPayment, NoPayment}
    <2>1. CASE h = g
      BY <2>1 DEF TypeOK
    <2>2. CASE h # g
      BY <2>2 DEF TypeOK, ControlInv
    <2> QED BY <2>1, <2>2
  <1> QED BY <1>1, <1>2, <1>3, <1>4

\* GetByID and the start of CompensatePayment.
LEMMA SweepNextInv ==
  ASSUME IInv, NEW g \in Gateways, SweepNext(g)
  PROVE  IInv'
  <1> USE PipelineFacts, ConstantsAssumption
      DEF IInv, SweepNext, dbVars, bankVars, sagaVars, NoFault, Fault
  <1>1. CASE sweepQ[g] = {} /\ sweepPc' = [sweepPc EXCEPT ![g] = "idle"]
             /\ UNCHANGED <<sweepQ, sweepCur, sweepStep>> /\ NoFault
    <2>1. TypeOK'
      BY <1>1 DEF TypeOK
    <2>2. ControlInv'
      BY <1>1 DEF TypeOK, ControlInv
    <2>3. RowInv'
      BY DEF RowInv, CtxAlive
    <2>4. TimeInv'
      BY <1>1 DEF TimeInv, InSweep, Started
    <2> QED BY <2>1, <2>2, <2>3, <2>4
  <1>2. ASSUME NEW p \in sweepQ[g], sweepQ' = [sweepQ EXCEPT ![g] = @ \ {p}],
               NEW n \in 0..NSteps, SweepFrom(g, p, n), faults' \in Nat
        PROVE  IInv'
    <2>0. p \in Payments
      BY DEF TypeOK
    <2>1. TypeOK'
      BY <1>2, <2>0, SweepFromInv DEF TypeOK
    <2>2. ControlInv'
      BY <1>2, <2>0, SweepFromInv DEF ControlInv
    <2>3. RowInv'
      BY DEF RowInv, CtxAlive
    <2>4. ASSUME NEW h \in Gateways, NEW q \in Payments, InSweep(h, q)'
          PROVE  InSweep(h, q)
      <3>1. sweepQ'[h] \subseteq sweepQ[h]
        BY <1>2 DEF TypeOK
      <3>2. sweepCur'[h] \in {sweepCur[h], IF h = g THEN p ELSE NoPayment, NoPayment}
        BY <1>2, <2>0, SweepFromInv
      <3> QED BY <2>4, <3>1, <3>2 DEF InSweep
    <2>5. TimeInv'
      BY <2>4 DEF TimeInv, Started
    <2> QED BY <2>1, <2>2, <2>3, <2>5
  <1>3. ASSUME NEW p \in sweepQ[g]
        PROVE  CompensationCount(g, status[p]) \in 0..NSteps
    <2>1. p \in Payments /\ status[p] # "NONE"
      BY DEF TypeOK, TimeInv, RowInv, InSweep, Started
    <2>2. status[p] \in PaymentStatus
      BY <2>1 DEF TypeOK
    <2> QED BY <2>2, CompensationCountType
  <1>4. faults' \in Nat /\ 0 \in 0..NSteps
    BY DEF TypeOK
  <1> QED BY <1>1, <1>2, <1>3, <1>4

\* The bank half of Compensate, by a sweeper.
LEMMA SweepUndoInv ==
  ASSUME IInv, NEW g \in Gateways, SweepUndo(g)
  PROVE  IInv'
  <1> USE DEF IInv, SweepUndo, dbVars, bankVars, sagaVars, NoFault, Fault, UndoEffect, ReserveStep,
              CommitStep
  <1>1. TypeOK'
    BY DEF TypeOK, ControlInv
  <1>2. ControlInv'
    BY DEF TypeOK, ControlInv
  <1>3. RowInv'
    BY DEF RowInv, CtxAlive
  <1>4. TimeInv'
    BY DEF TimeInv, InSweep, Started
  <1> QED BY <1>1, <1>2, <1>3, <1>4

\* The database half of Compensate, by a sweeper: the row exists and its saga is dead.
LEMMA SweepUnrecordInv ==
  ASSUME IInv, NEW g \in Gateways, SweepUnrecord(g)
  PROVE  IInv'
  <1> DEFINE c == sweepCur[g]
  <1> USE PipelineFacts, ConstantsAssumption, SpecialStatuses
      DEF IInv, SweepUnrecord, dbVars, bankVars, sagaVars, NoFault, Fault, DbOutcome
  <1>0. c \in Payments /\ InSweep(g, c) /\ sweepStep[g] \in 1..NSteps
    BY DEF TypeOK, ControlInv, InSweep
  <1>1. PICK n \in 0..NSteps : SweepFrom(g, c, n)
    BY <1>0
  <1>2. \/ UNCHANGED <<status, expiresAt>>
        \/ status' = [status EXCEPT ![c] = "ABORTED"] /\ UNCHANGED expiresAt
    BY DEF WriteStatus
  <1>3. TypeOK'
    <2>1. RowType'
      <3>1. CASE UNCHANGED dbVars
        BY <3>1 DEF TypeOK, RowType
      <3>2. CASE \E o : WriteStatus(c, "ABORTED", o)
        BY <1>0, <3>2, WriteStatusType
      <3> QED BY <3>1, <3>2
    <2>2. faults' \in Nat
      BY DEF TypeOK
    <2> QED BY <1>0, <1>1, <2>1, <2>2, SweepFromInv DEF TypeOK, RowType
  <1>4. ControlInv'
    BY <1>0, <1>1, SweepFromInv DEF ControlInv
  <1>5. RowInv'
    BY <1>0, <1>2 DEF TypeOK, RowInv, TimeInv, CtxAlive, Started
  <1>6. ASSUME NEW h \in Gateways, NEW q \in Payments, InSweep(h, q)'
        PROVE  InSweep(h, q)
    <2>1. sweepCur'[h] \in {sweepCur[h], IF h = g THEN c ELSE NoPayment, NoPayment}
      BY <1>0, <1>1, SweepFromInv
    <2> QED BY <1>6, <2>1 DEF InSweep
  <1>7. TimeInv'
    BY <1>0, <1>2, <1>6 DEF TypeOK, TimeInv, Started
  <1> QED BY <1>3, <1>4, <1>5, <1>7

\* Time passing only ends contexts.
LEMMA TickInv ==
  ASSUME IInv, Tick
  PROVE  IInv'
  <1> USE TimingAssumption DEF IInv, Tick, dbVars, bankVars, sagaVars, sweepVars
  <1>1. TypeOK'
    BY DEF TypeOK
  <1>2. ControlInv'
    BY DEF ControlInv
  <1>3. RowInv'
    BY DEF TypeOK, RowInv, CtxAlive
  <1>4. TimeInv'
    BY DEF TypeOK, TimeInv, InSweep, Started
  <1> QED BY <1>1, <1>2, <1>3, <1>4

\* The death of a replica ends its goroutines and its sweep.
LEMMA CrashInv ==
  ASSUME IInv, NEW g \in Gateways, Crash(g)
  PROVE  IInv'
  <1> USE PipelineFacts, ConstantsAssumption DEF IInv, Crash, dbVars, bankVars, Fault
  <1>1. TypeOK'
    BY DEF TypeOK
  <1>2. ControlInv'
    BY DEF TypeOK, ControlInv
  <1>3. RowInv'
    BY DEF TypeOK, RowInv, CtxAlive, Running
  <1>4. TimeInv'
    BY DEF TypeOK, RowInv, TimeInv, InSweep, Started, Running
  <1> QED BY <1>1, <1>2, <1>3, <1>4

\* A restarted replica begins with an empty counter.
LEMMA RestartInv ==
  ASSUME IInv, NEW g \in Gateways, Restart(g)
  PROVE  IInv'
  <1> USE DEF IInv, Restart, dbVars, bankVars, sagaVars, sweepVars
  <1>1. TypeOK'
    BY DEF TypeOK
  <1>2. ControlInv'
    BY DEF ControlInv
  <1>3. RowInv'
    BY DEF RowInv, CtxAlive
  <1>4. TimeInv'
    BY DEF TimeInv, InSweep, Started
  <1> QED BY <1>1, <1>2, <1>3, <1>4

\* IInv is a predicate of the variables.
LEMMA StutterInv ==
  ASSUME IInv, UNCHANGED vars
  PROVE  IInv'
  BY DEF IInv, TypeOK, ControlInv, RowInv, TimeInv, InSweep, Started, CtxAlive, vars, dbVars, bankVars,
         sagaVars, sweepVars

\* Every step of gateways, sagas, sweepers and the environment keeps IInv.
LEMMA NextInv == IInv /\ [Next]_vars => IInv'
  <1> SUFFICES ASSUME IInv, [Next]_vars PROVE IInv'
    OBVIOUS
  <1>1. ASSUME NEW p \in Payments, SubmitPayment(p) \/ SagaStep(p) PROVE IInv'
    BY <1>1, SubmitPaymentInv, StartSagaInv, ExecuteCheckInv, CallEffectInv, RecordEffectInv,
       BestEffortInv, UndoInv, UnrecordInv, FinishInv DEF SagaStep
  <1>2. ASSUME NEW g \in Gateways, SweepStep(g) \/ OtherSaga(g) \/ Crash(g) \/ Restart(g)
        PROVE  IInv'
    BY <1>2, SweepFindInv, SweepNextInv, SweepUndoInv, SweepUnrecordInv, OtherSagaInv, CrashInv,
       RestartInv DEF SweepStep
  <1> QED BY <1>1, <1>2, TickInv, StutterInv DEF Next

\* Whatever fails, and however sagas, sweepers, crashes and restarts
\* interleave, IInv holds.
THEOREM Invariance == Spec => []IInv
  BY InitInv, NextInv, PTL DEF Spec

\* Every variable of the switch keeps its type.
THEOREM TypeCorrect == Spec => []TypeOK
  <1>1. IInv => TypeOK
    BY DEF IInv
  <1> QED BY <1>1, Invariance, PTL

\* A sweep never overlaps a saga that can still write: the reservation TTL
\* (saga/steps.go) is at least the saga timeout (gateway/handler.go).
THEOREM SweepsOnlyDeadSagas == Spec => []SweptSagaIsDead
  <1>1. IInv => SweptSagaIsDead
    BY DEF IInv, TypeOK, TimeInv, SweptSagaIsDead, CtxAlive
  <1> QED BY <1>1, Invariance, PTL

---------------------------------------------------------------------------
(***************************************************************************)
(* PaymentSaga implements PaymentLifecycle.                                *)
(***************************************************************************)

\* The status before step i is rung i of the ladder, the one it records is
\* the next rung.
LEMMA RungOfStep ==
  ASSUME NEW i \in 1..LastRecording
  PROVE  /\ i \in 1..8
         /\ StatusBefore(i) = Lifecycle!Rungs[i]
         /\ StatusOfStep(i) = Lifecycle!Rungs[i + 1]
  <1> USE PipelineFacts
  <1>1. i \in 1..8
    OBVIOUS
  <1>2. StatusOfStep(i) = Lifecycle!Rungs[i + 1]
    BY <1>1 DEF StatusOfStep, Lifecycle!Rungs
  <1>3. StatusBefore(i) = Lifecycle!Rungs[i]
    <2>1. CASE i = 1
      BY <2>1 DEF StatusBefore, Lifecycle!Rungs
    <2>2. CASE i # 1
      <3>1. StatusBefore(i) = StatusOfStep(i - 1) /\ i - 1 \in 1..7
        BY <1>1, <2>2 DEF StatusBefore
      <3>2. StatusOfStep(i - 1) = Lifecycle!Rungs[i]
        BY <3>1 DEF StatusOfStep, Lifecycle!Rungs
      <3> QED BY <3>1, <3>2
    <2> QED BY <2>1, <2>2
  <1> QED BY <1>1, <1>2, <1>3

\* A step that records its status (UpdateStatus, MarkReserved, UpdateRoute)
\* moves the row up one rung, or the transaction fails and it stays.
LEMMA RecordingClimbs ==
  ASSUME IInv, NEW p \in Payments, pc[p] \in {"exec", "record"}, step[p] \in 1..LastRecording,
         NEW o, DbOutcome(o, CtxAlive(p)), WriteStatus(p, StatusOfStep(step[p]), o)
  PROVE  status' = status \/ Lifecycle!Advance(p)
  <1>1. CASE o = "err"
    BY <1>1 DEF WriteStatus
  <1>2. CASE o # "err"
    <2>1. CtxAlive(p)
      BY <1>2 DEF DbOutcome
    <2>2. status[p] = StatusBefore(step[p])
      BY <2>1 DEF IInv, RowInv
    <2>3. status' = [status EXCEPT ![p] = StatusOfStep(step[p])]
      BY <1>2 DEF WriteStatus
    <2> QED BY <2>2, <2>3, RungOfStep DEF Lifecycle!Advance
  <1> QED BY <1>1, <1>2

\* A compensation (UpdateStatus ABORTED) aborts a row that exists.
LEMMA CompensationAborts ==
  ASSUME NEW p \in Payments, status[p] # "NONE", NEW o, WriteStatus(p, "ABORTED", o)
  PROVE  status' = status \/ Lifecycle!Abort(p)
  BY DEF WriteStatus, Lifecycle!Abort, Lifecycle!NoRow

\* Every step of the switch is a step of the ladder, or leaves it alone.
LEMMA StepImplements == IInv /\ [Next]_vars => [Lifecycle!Next]_status
  <1> SUFFICES ASSUME IInv, [Next]_vars
      PROVE  status' = status \/ \E p \in Payments :
                Lifecycle!Receive(p) \/ Lifecycle!Advance(p) \/ Lifecycle!Abort(p)
    BY DEF Lifecycle!Next
  <1> USE DEF dbVars
  <1>1. ASSUME NEW p \in Payments, SubmitPayment(p)
        PROVE  Lifecycle!Receive(p)
    BY <1>1 DEF SubmitPayment, Lifecycle!Receive, Lifecycle!NoRow
  <1>2. ASSUME NEW p \in Payments, ExecuteCheck(p)
        PROVE  status' = status \/ Lifecycle!Advance(p)
    <2>1. step[p] \in 1..LastRecording
      BY <1>2, PipelineFacts DEF ExecuteCheck, ValidateStep, ScreenStep
    <2> QED BY <1>2, <2>1, RecordingClimbs DEF ExecuteCheck
  <1>3. ASSUME NEW p \in Payments, RecordEffect(p)
        PROVE  status' = status \/ Lifecycle!Advance(p)
    <2>1. step[p] \in 1..LastRecording
      BY <1>3, PipelineFacts DEF RecordEffect, IInv, ControlInv, ReserveStep
    <2> QED BY <1>3, <2>1, RecordingClimbs DEF RecordEffect
  <1>4. ASSUME NEW p \in Payments, Unrecord(p)
        PROVE  status' = status \/ Lifecycle!Abort(p)
    <2>1. status[p] # "NONE"
      BY <1>4 DEF Unrecord, IInv, RowInv
    <2> QED BY <1>4, <2>1, CompensationAborts DEF Unrecord
  <1>5. ASSUME NEW g \in Gateways, SweepUnrecord(g)
        PROVE  status' = status \/ \E p \in Payments : Lifecycle!Abort(p)
    <2>1. sweepCur[g] \in Payments /\ InSweep(g, sweepCur[g])
      BY <1>5 DEF SweepUnrecord, IInv, ControlInv, InSweep
    <2>2. status[sweepCur[g]] # "NONE"
      BY <2>1 DEF IInv, TimeInv, RowInv, Started
    <2> QED BY <1>5, <2>1, <2>2, CompensationAborts DEF SweepUnrecord
  <1>6. ASSUME NEW p \in Payments,
               \/ StartSaga(p) \/ CallEffect(p) \/ BestEffort(p) \/ Undo(p) \/ Finish(p)
        PROVE  status' = status
    BY <1>6 DEF StartSaga, CallEffect, BestEffort, Undo, Finish
  <1>7. ASSUME NEW g \in Gateways,
               \/ SweepFind(g) \/ SweepNext(g) \/ SweepUndo(g)
               \/ OtherSaga(g) \/ Crash(g) \/ Restart(g)
        PROVE  status' = status
    BY <1>7 DEF SweepFind, SweepNext, SweepUndo, OtherSaga, Crash, Restart
  <1>8. CASE Tick \/ UNCHANGED vars
    BY <1>8 DEF Tick, vars
  <1> QED BY <1>1, <1>2, <1>3, <1>4, <1>5, <1>6, <1>7, <1>8 DEF Next, SagaStep, SweepStep

\* The switch implements the ladder of statuses.
THEOREM Refinement == Spec => ImplementsLifecycle
  <1>1. Init => Lifecycle!Init
    BY DEF Init, Lifecycle!Init, Lifecycle!NoRow
  <1> QED BY <1>1, StepImplements, Invariance, PTL DEF Spec, ImplementsLifecycle, Lifecycle!Spec

---------------------------------------------------------------------------
(***************************************************************************)
(* Events follow the row.                                                  *)
(***************************************************************************)

\* writeEventTx puts the event into the transaction of the status update, so
\* event and row change together; UpdateRoute alone writes no event, and it
\* only ever replaces LOOKED_UP.
LEMMA WriteKeepsEvents ==
  ASSUME IInv, EventTracksRow, NEW p \in Payments, NEW s, NEW o, WriteStatus(p, s, o),
         o # "err" /\ s = "ROUTED" => status[p] = "LOOKED_UP"
  PROVE  EventTracksRow'
  <1>1. CASE o = "err"
    BY <1>1 DEF WriteStatus, EventTracksRow
  <1>2. CASE o # "err"
    BY <1>2 DEF WriteStatus, EventTracksRow, IInv, TypeOK
  <1> QED BY <1>1, <1>2

\* A step that records its status keeps event and row together.
LEMMA RecordingKeepsEvents ==
  ASSUME IInv, EventTracksRow, NEW p \in Payments, pc[p] \in {"exec", "record"},
         step[p] \in 1..LastRecording,
         NEW o, DbOutcome(o, CtxAlive(p)), WriteStatus(p, StatusOfStep(step[p]), o)
  PROVE  EventTracksRow'
  <1>1. ASSUME o # "err", StatusOfStep(step[p]) = "ROUTED"
        PROVE  status[p] = "LOOKED_UP"
    <2>1. CtxAlive(p)
      BY <1>1 DEF DbOutcome
    <2>2. step[p] = 3
      BY <1>1, PipelineFacts, SpecialStatuses, StatusOfStepInjective
    <2>3. StatusBefore(3) = "LOOKED_UP"
      BY PipelineFacts DEF StatusBefore, StatusOfStep
    <2> QED BY <2>1, <2>2, <2>3 DEF IInv, RowInv
  <1> QED BY <1>1, WriteKeepsEvents

\* Every step keeps event and row together.
LEMMA EventStep == IInv /\ EventTracksRow /\ [Next]_vars => EventTracksRow'
  <1> SUFFICES ASSUME IInv, EventTracksRow, [Next]_vars PROVE EventTracksRow'
    OBVIOUS
  <1> USE DEF dbVars
  <1>0. UNCHANGED <<status, lastEvent>> => EventTracksRow'
    BY DEF EventTracksRow
  <1>1. ASSUME NEW p \in Payments, SubmitPayment(p)
        PROVE  EventTracksRow'
    BY <1>1 DEF SubmitPayment, EventTracksRow, IInv, TypeOK
  <1>2. ASSUME NEW p \in Payments, ExecuteCheck(p)
        PROVE  EventTracksRow'
    <2>1. step[p] \in 1..LastRecording
      BY <1>2, PipelineFacts DEF ExecuteCheck, ValidateStep, ScreenStep
    <2> QED BY <1>0, <1>2, <2>1, RecordingKeepsEvents DEF ExecuteCheck
  <1>3. ASSUME NEW p \in Payments, RecordEffect(p)
        PROVE  EventTracksRow'
    <2>1. step[p] \in 1..LastRecording
      BY <1>3, PipelineFacts DEF RecordEffect, IInv, ControlInv, ReserveStep
    <2> QED BY <1>3, <2>1, RecordingKeepsEvents DEF RecordEffect
  <1>4. ASSUME NEW p \in Payments, Unrecord(p)
        PROVE  EventTracksRow'
    BY <1>0, <1>4, WriteKeepsEvents DEF Unrecord
  <1>5. ASSUME NEW g \in Gateways, SweepUnrecord(g)
        PROVE  EventTracksRow'
    <2>1. sweepCur[g] \in Payments
      BY <1>5 DEF SweepUnrecord, IInv, ControlInv
    <2> QED BY <1>0, <1>5, <2>1, WriteKeepsEvents DEF SweepUnrecord
  <1>6. ASSUME NEW p \in Payments,
               \/ StartSaga(p) \/ CallEffect(p) \/ BestEffort(p) \/ Undo(p) \/ Finish(p)
        PROVE  EventTracksRow'
    BY <1>0, <1>6 DEF StartSaga, CallEffect, BestEffort, Undo, Finish
  <1>7. ASSUME NEW g \in Gateways,
               \/ SweepFind(g) \/ SweepNext(g) \/ SweepUndo(g)
               \/ OtherSaga(g) \/ Crash(g) \/ Restart(g)
        PROVE  EventTracksRow'
    BY <1>0, <1>7 DEF SweepFind, SweepNext, SweepUndo, OtherSaga, Crash, Restart
  <1>8. CASE Tick \/ UNCHANGED vars
    BY <1>0, <1>8 DEF Tick, vars
  <1> QED BY <1>1, <1>2, <1>3, <1>4, <1>5, <1>6, <1>7, <1>8 DEF Next, SagaStep, SweepStep

\* No failed transaction, crash or race separates a row from its event.
THEOREM EventsFollowRows == Spec => []EventTracksRow
  <1>1. Init => EventTracksRow
    BY DEF Init, EventTracksRow
  <1> QED BY <1>1, EventStep, Invariance, PTL DEF Spec

---------------------------------------------------------------------------
(***************************************************************************)
(* A payment in the final status has been paid.                            *)
(***************************************************************************)

\* The final status is neither a compensation's nor an earlier step's.
LEMMA FinalStatus ==
  /\ StatusOfStep(LastRecording) \notin {"NONE", "RECEIVED", "ABORTED", "RESERVED"}
  /\ \A i \in 1..LastRecording : StatusOfStep(i) = StatusOfStep(LastRecording) => i = LastRecording
  <1>1. LastRecording \in 1..8 /\ LastRecording # 6 /\ \A i \in 1..LastRecording : i \in 1..8
    BY PipelineFacts
  <1>2. StatusOfStep(LastRecording) # "RESERVED"
    BY <1>1, SpecialStatuses, StatusOfStepInjective
  <1> QED BY <1>1, <1>2, StatusOfStepType, StatusOfStepInjective

\* A new row is RECEIVED and nothing has been done for it.
LEMMA SubmitPaymentPaid ==
  ASSUME IInv, PaidInv, NEW p \in Payments, SubmitPayment(p)
  PROVE  PaidInv'
  BY FinalStatus DEF IInv, TypeOK, RowInv, SubmitPayment, PaidInv, Started, CtxAlive, Effects,
     InSweep, bankVars, sweepVars

\* A saga starts with nothing done outside.
LEMMA StartSagaPaid ==
  ASSUME IInv, PaidInv, NEW p \in Payments, StartSaga(p)
  PROVE  PaidInv'
  BY FinalStatus DEF IInv, TypeOK, RowInv, StartSaga, PaidInv, Started, CtxAlive, Effects,
     InSweep, dbVars, bankVars, sweepVars

\* The best-effort steps cannot fail, so nothing is rolled back after the final
\* status has been recorded.
LEMMA BestEffortPaid ==
  ASSUME IInv, PaidInv, NEW p \in Payments, BestEffort(p)
  PROVE  PaidInv'
  BY PipelineFacts, FinalStatus DEF IInv, TypeOK, ControlInv, RowInv, BestEffort, Succeed,
     PaidInv, Started, CtxAlive, Effects, InSweep, dbVars, bankVars, sweepVars, ReserveStep,
     CommitStep, SettleStep

\* The reason and the callback touch neither row nor money.
LEMMA FinishPaid ==
  ASSUME IInv, PaidInv, NEW p \in Payments, Finish(p)
  PROVE  PaidInv'
  BY FinalStatus DEF IInv, TypeOK, Finish, PaidInv, Started, CtxAlive, Effects, InSweep,
     bankVars, sweepVars

\* rollback never runs for a payment in the final status.
LEMMA UndoPaid ==
  ASSUME IInv, PaidInv, NEW p \in Payments, Undo(p)
  PROVE  PaidInv'
  BY FinalStatus DEF IInv, TypeOK, Undo, UndoEffect, PaidInv, Started, CtxAlive, Effects,
     InSweep, dbVars, bankVars, sweepVars

\* rollback records ABORTED, which is not the final status.
LEMMA UnrecordPaid ==
  ASSUME IInv, PaidInv, NEW p \in Payments, Unrecord(p)
  PROVE  PaidInv'
  BY FinalStatus DEF IInv, TypeOK, ControlInv, Unrecord, WriteStatus, Unwind, CompensationPc,
     PaidInv, Started, CtxAlive, Effects, InSweep, dbVars, bankVars, sweepVars

\* The checking steps come before any effect and before the final status.
LEMMA ExecuteCheckPaid ==
  ASSUME IInv, PaidInv, NEW p \in Payments, ExecuteCheck(p)
  PROVE  PaidInv'
  BY PipelineFacts, FinalStatus DEF IInv, TypeOK, ExecuteCheck, Recorded, Succeed, DbOutcome,
     WriteStatus, Unwind, CompensationPc, PaidInv, Started, CtxAlive, Effects, InSweep, dbVars,
     bankVars, sweepVars, ValidateStep, ScreenStep, ReserveStep, CommitStep, SettleStep

\* An effect is applied to a payment that is not in the final status; a saga that
\* goes on has had it applied exactly once.
LEMMA CallEffectPaid ==
  ASSUME IInv, PaidInv, NEW p \in Payments, CallEffect(p)
  PROVE  PaidInv'
  <1> USE PipelineFacts
      DEF CallEffect, ApplyEffect, dbVars, bankVars, sweepVars, ReserveStep, CommitStep, SettleStep
  <1>1. status'[p] # StatusOfStep(LastRecording)
    BY DEF PaidInv
  <1>2. ASSUME pc'[p] = "record", CtxAlive(p)'
        PROVE  Effects(p, step[p])'
    <2>1. CtxAlive(p) /\ Effects(p, step[p] - 1)
      BY <1>2 DEF PaidInv, CtxAlive
    <2>2. ApplyEffect(p, step[p]) /\ step' = step
      BY <1>2 DEF Unwind, CompensationPc, IInv, TypeOK
    <2>3. hold'[p] = IF step[p] = 6 THEN hold[p] + 1 ELSE hold[p]
      BY <2>2 DEF IInv, TypeOK
    <2>4. credit'[p] = IF step[p] = 7 THEN credit[p] + 1 ELSE credit[p]
      BY <2>2 DEF IInv, TypeOK
    <2>5. submitted'[p] = IF step[p] = 8 THEN submitted[p] + 1 ELSE submitted[p]
      BY <2>2 DEF IInv, TypeOK
    <2>6. step[p] \in {6, 7, 8}
      <3>1. step[p] \in 6..LastRecording
        OBVIOUS
      <3> HIDE DEF CallEffect
      <3> QED BY <3>1
    <2> HIDE DEF CallEffect, ApplyEffect
    <2> QED BY <2>1, <2>2, <2>3, <2>4, <2>5, <2>6 DEF Effects
  <1>3. pc'[p] \notin {"none", "accepted", "exec"}
        /\ (pc'[p] = "record" => step'[p] = step[p])
    BY DEF Unwind, CompensationPc, IInv, TypeOK
  <1> QED BY <1>1, <1>2, <1>3 DEF PaidInv, Started, CtxAlive, Effects, InSweep, Unwind, IInv, TypeOK

\* The final status is recorded under a live context, by a saga whose effects are
\* all in place and which no sweeper has in hand.
LEMMA RecordEffectPaid ==
  ASSUME "ack" \notin FaultKinds, IInv, PaidInv, NEW p \in Payments, RecordEffect(p)
  PROVE  PaidInv'
  BY PipelineFacts, FinalStatus DEF IInv, TypeOK, ControlInv, TimeInv, RecordEffect, Recorded,
     Succeed, DbOutcome, Fault, WriteStatus, Unwind, CompensationPc, PaidInv, Started,
     CtxAlive, Effects, InSweep, dbVars, bankVars, sweepVars, ReserveStep, CommitStep,
     SettleStep

\* A sweeper takes only RESERVED rows.
LEMMA SweepFindPaid ==
  ASSUME IInv, PaidInv, NEW g \in Gateways, SweepFind(g)
  PROVE  PaidInv'
  BY FinalStatus DEF IInv, TypeOK, SweepFind, ExpiredReservations, PaidInv, Started, CtxAlive,
     Effects, InSweep, dbVars, bankVars, sagaVars

\* A sweeper goes from one of its payments to another.
LEMMA SweepNextPaid ==
  ASSUME IInv, PaidInv, NEW g \in Gateways, SweepNext(g)
  PROVE  PaidInv'
  BY ConstantsAssumption DEF IInv, TypeOK, SweepNext, SweepFrom, PaidInv, Started, CtxAlive,
     Effects, InSweep, dbVars, bankVars, sagaVars

\* What a sweeper undoes belongs to a payment in its hands: not in the final
\* status, and its saga has outlived its context.
LEMMA SweepUndoPaid ==
  ASSUME IInv, PaidInv, NEW g \in Gateways, SweepUndo(g)
  PROVE  PaidInv'
  BY FinalStatus DEF IInv, TypeOK, ControlInv, TimeInv, SweepUndo, UndoEffect, PaidInv,
     Started, CtxAlive, Effects, InSweep, dbVars, bankVars, sagaVars

\* A sweeper records ABORTED, which is not the final status.
LEMMA SweepUnrecordPaid ==
  ASSUME IInv, PaidInv, NEW g \in Gateways, SweepUnrecord(g)
  PROVE  PaidInv'
  <1> USE DEF SweepUnrecord, bankVars, sagaVars
  <1>1. sweepCur[g] \in Payments
    BY DEF IInv, ControlInv
  <1>2. ASSUME NEW q \in Payments
        PROVE  status'[q] \in {status[q], "ABORTED"}
    BY <1>1 DEF WriteStatus, dbVars, IInv, TypeOK
  <1>3. ASSUME NEW h \in Gateways, NEW q \in Payments, InSweep(h, q)'
        PROVE  InSweep(h, q)
    <2>1. sweepCur' \in {[sweepCur EXCEPT ![g] = NoPayment], [sweepCur EXCEPT ![g] = sweepCur[g]]}
      BY DEF SweepFrom
    <2> QED BY <1>3, <2>1, ConstantsAssumption DEF InSweep, IInv, TypeOK
  <1> QED BY <1>2, <1>3, FinalStatus DEF PaidInv, Started, CtxAlive, Effects

\* Time only ends contexts.
LEMMA TickPaid ==
  ASSUME IInv, PaidInv, Tick
  PROVE  PaidInv'
  BY FinalStatus DEF IInv, TypeOK, Tick, PaidInv, Started, CtxAlive, Effects, InSweep, dbVars,
     bankVars, sagaVars, sweepVars

\* A crash ends goroutines and sweeps; rows and money stay.
LEMMA CrashPaid ==
  ASSUME IInv, PaidInv, NEW g \in Gateways, Crash(g)
  PROVE  PaidInv'
  BY FinalStatus, ConstantsAssumption DEF IInv, TypeOK, Crash, Running, PaidInv, Started,
     CtxAlive, Effects, InSweep, dbVars, bankVars

\* The other actions touch neither rows, money nor goroutines.
LEMMA RestPaid ==
  ASSUME PaidInv,
         \/ \E g \in Gateways : OtherSaga(g) \/ Restart(g)
         \/ UNCHANGED vars
  PROVE  PaidInv'
  BY DEF OtherSaga, Restart, vars, PaidInv, Started, CtxAlive, Effects, InSweep, dbVars,
     bankVars, sagaVars, sweepVars

\* PaidInv is inductive relative to IInv.
LEMMA PaidStep == "ack" \notin FaultKinds /\ IInv /\ PaidInv /\ [Next]_vars => PaidInv'
  <1> SUFFICES ASSUME "ack" \notin FaultKinds, IInv, PaidInv, [Next]_vars PROVE PaidInv'
    OBVIOUS
  <1>1. ASSUME NEW p \in Payments, SubmitPayment(p) \/ SagaStep(p) PROVE PaidInv'
    BY <1>1, SubmitPaymentPaid, StartSagaPaid, ExecuteCheckPaid, CallEffectPaid, RecordEffectPaid,
       BestEffortPaid, UndoPaid, UnrecordPaid, FinishPaid DEF SagaStep
  <1>2. ASSUME NEW g \in Gateways, SweepStep(g) \/ Crash(g) PROVE PaidInv'
    BY <1>2, SweepFindPaid, SweepNextPaid, SweepUndoPaid, SweepUnrecordPaid, CrashPaid DEF SweepStep
  <1> QED BY <1>1, <1>2, TickPaid, RestPaid DEF Next

\* If a commit's acknowledgement is never lost, no rollback, sweep, crash, lost
\* answer or refused compensation leaves a paid status on an unpaid payment.
THEOREM PaidIsPaid == Spec => []PaidMeansPaid
  <1>1. CASE "ack" \in FaultKinds
    <2>1. PaidMeansPaid
      BY <1>1 DEF PaidMeansPaid
    <2> QED BY <2>1, PTL
  <1>2. CASE "ack" \notin FaultKinds
    <2>1. Init => PaidInv
      <3> SUFFICES ASSUME Init, NEW p \in Payments
          PROVE  Effects(p, 0) /\ pc[p] = "none" /\ status[p] = "NONE"
        BY FinalStatus DEF PaidInv, Started
      <3>1. hold[p] = 0 /\ credit[p] = 0 /\ submitted[p] = 0
        BY DEF Init
      <3>2. Effects(p, 0)
        BY <3>1 DEF Effects, ReserveStep, CommitStep, SettleStep
      <3> QED BY <3>2 DEF Init
    <2>2. IInv /\ PaidInv /\ [Next]_vars => PaidInv'
      BY <1>2, PaidStep
    <2>3. PaidInv => PaidMeansPaid
      BY PipelineFacts
         DEF PaidInv, PaidMeansPaid, Effects, ReserveStep, CommitStep, SettleStep
    <2> QED BY <2>1, <2>2, <2>3, Invariance, PTL DEF Spec
  <1> QED BY <1>1, <1>2
---------------------------------------------------------------------------
(***************************************************************************)
(* Without faults a saga is all or nothing.                                *)
(***************************************************************************)

\* AtomicInv for one payment.
Atomic(p) ==
  /\ pc[p] # "lost" /\ (Running(p) => CtxAlive(p))
  /\ ~Started(p) => step[p] = 0
  /\ status[p] = "RESERVED" => Running(p)
  /\ \A g \in Gateways : ~InSweep(g, p)
  /\ pc[p] \in {"undo", "unrecord"} => step[p] <= CommitStep
  /\ pc[p] \in {"finish", "done"} =>
       \/ step[p] = 0 /\ status[p] \in {"ABORTED", "RECEIVED"}
       \/ step[p] = NSteps + 1 /\ status[p] = StatusOfStep(LastRecording)
  /\ abortReason[p] <=> pc[p] = "done" /\ step[p] = 0
  /\ Effects(p, Done(p)) /\ (~SettlementEnabled => submitted[p] = 0)

\* What Atomic says of a payment is about its own row, money and goroutine.
LEMMA AtomicFrame ==
  ASSUME NEW q \in Payments, Atomic(q), now' = now,
         /\ pc'[q] = pc[q] /\ step'[q] = step[q] /\ deadline'[q] = deadline[q]
         /\ status'[q] = status[q] /\ abortReason'[q] = abortReason[q]
         /\ hold'[q] = hold[q] /\ credit'[q] = credit[q] /\ submitted'[q] = submitted[q],
         \A g \in Gateways : ~InSweep(g, q)'
  PROVE  Atomic(q)'
  BY DEF Atomic, Running, CtxAlive, Started, Effects, Done

\* A new row: nothing has been done for it.
LEMMA SubmitPaymentAtomic ==
  ASSUME FaultKinds = {}, IInv, AtomicInv, NEW p \in Payments, SubmitPayment(p)
  PROVE  AtomicInv'
  <1> USE DEF SubmitPayment, Fault, bankVars, sweepVars
  <1>1. ASSUME NEW q \in Payments PROVE Atomic(q)'
    <2>1. Atomic(q) /\ \A g \in Gateways : ~InSweep(g, q)'
      BY DEF AtomicInv, Atomic, InSweep
    <2>2. CASE q # p
      BY <2>1, <2>2, AtomicFrame DEF IInv, TypeOK
    <2>3. CASE q = p
      BY <2>1, <2>3 DEF IInv, TypeOK, Atomic, Running, Started, Effects, Done
    <2> QED BY <2>2, <2>3
  <1> QED BY <1>1 DEF AtomicInv, Atomic

\* A saga starts under a context that lives, with nothing done outside.
LEMMA StartSagaAtomic ==
  ASSUME FaultKinds = {}, IInv, AtomicInv, NEW p \in Payments, StartSaga(p)
  PROVE  AtomicInv'
  <1> USE DEF StartSaga, dbVars, bankVars, sweepVars
  <1>1. ASSUME NEW q \in Payments PROVE Atomic(q)'
    <2>1. Atomic(q) /\ \A g \in Gateways : ~InSweep(g, q)'
      BY DEF AtomicInv, Atomic, InSweep
    <2>2. CASE q # p
      BY <2>1, <2>2, AtomicFrame DEF IInv, TypeOK
    <2>3. CASE q = p
      <3>1. now < deadline'[p]
        BY TimingAssumption DEF IInv, TypeOK
      <3>2. /\ pc'[p] = "exec" /\ step'[p] = 1 /\ step[p] = 0 /\ Done(p)' = 0 /\ Done(p) = 0
            /\ status'[p] = "RECEIVED" /\ ~abortReason'[p]
        BY <2>1, <2>3 DEF IInv, TypeOK, RowInv, Atomic, Started, Done
      <3>3. Effects(p, 0)'
        BY <2>1, <2>3, <3>2 DEF Atomic, Effects
      <3> QED BY <2>1, <2>3, <3>1, <3>2, <3>3 DEF Atomic, Running, CtxAlive, Started
    <2> QED BY <2>2, <2>3
  <1> QED BY <1>1 DEF AtomicInv, Atomic

\* A check that fails unwinds steps without effect; the first one leaves RECEIVED.
LEMMA ExecuteCheckAtomic ==
  ASSUME FaultKinds = {}, IInv, AtomicInv, NEW p \in Payments, ExecuteCheck(p)
  PROVE  AtomicInv'
  <1> USE DEF ExecuteCheck, dbVars, bankVars, sweepVars, ValidateStep, ScreenStep
  <1>s. step[p] \in 1..5 /\ CtxAlive(p) /\ status[p] = StatusBefore(step[p])
    BY DEF AtomicInv, Running, IInv, RowInv
  <1>0. StatusOfStep(step[p]) \notin {"NONE", "RECEIVED", "ABORTED", "RESERVED"}
    BY <1>s, StatusOfStepType, StatusOfStepInjective, SpecialStatuses
  <1>1. ASSUME NEW q \in Payments PROVE Atomic(q)'
    <2>1. Atomic(q) /\ \A g \in Gateways : ~InSweep(g, q)'
      BY DEF AtomicInv, Atomic, InSweep
    <2>2. CASE q # p
      <3>1. pc'[q] = pc[q] /\ step'[q] = step[q]
        BY <2>2 DEF Recorded, Succeed, Unwind, IInv, TypeOK
      <3>2. status'[q] = status[q] /\ abortReason' = abortReason
        BY <2>2 DEF WriteStatus, IInv, TypeOK
      <3> QED BY <2>1, <3>1, <3>2, AtomicFrame
    <2>3. CASE q = p
      <3>1. CASE Unwind(p) /\ status'[p] = status[p]
        <4>1. /\ step'[p] = step[p] - 1
              /\ pc'[p] = IF step[p] = 1 THEN "finish" ELSE "unrecord"
          BY <1>s, <3>1 DEF Unwind, CompensationPc, UndoneAtBank, ReserveStep, CommitStep, IInv, TypeOK
        <4>2. status'[p] # "RESERVED" /\ (step[p] = 1 => status'[p] = "RECEIVED")
          BY <1>s, <3>1, StatusOfStepInjective, SpecialStatuses, PipelineFacts DEF StatusBefore
        <4>3. Done(p) < 6 /\ Done(p)' < 6
          BY <1>s, <4>1 DEF Done
        <4>4. Effects(p, Done(p))' /\ abortReason' = abortReason
          <5>1. abortReason' = abortReason /\ UNCHANGED <<hold, credit, submitted>>
            BY DEF WriteStatus
          <5>2. Effects(p, Done(p))
            BY <2>1, <2>3 DEF Atomic
          <5> HIDE DEF ExecuteCheck
          <5>3. Done(p) \in Int /\ Done(p)' \in Int
            BY <1>s, <4>1 DEF Done
          <5> QED BY <4>3, <5>1, <5>2, <5>3 DEF Effects, ReserveStep, CommitStep, SettleStep
        <4> QED BY <1>s, <2>1, <2>3, <4>1, <4>2, <4>4
                DEF Atomic, Running, CtxAlive, Started, CommitStep
      <3>2. CASE Succeed(p) /\ status'[p] = StatusOfStep(step[p])
        <4>1. step'[p] = step[p] + 1 /\ pc'[p] = "exec"
          BY <1>s, <3>2, PipelineFacts DEF Succeed, IInv, TypeOK
        <4>3. Done(p) < 6 /\ Done(p)' < 6
          BY <1>s, <4>1 DEF Done
        <4>4. Effects(p, Done(p))' /\ abortReason' = abortReason
          <5>1. abortReason' = abortReason /\ UNCHANGED <<hold, credit, submitted>>
            BY DEF WriteStatus
          <5>2. Effects(p, Done(p))
            BY <2>1, <2>3 DEF Atomic
          <5> HIDE DEF ExecuteCheck
          <5>3. Done(p) \in Int /\ Done(p)' \in Int
            BY <1>s, <4>1 DEF Done
          <5> QED BY <4>3, <5>1, <5>2, <5>3 DEF Effects, ReserveStep, CommitStep, SettleStep
        <4> QED BY <1>s, <1>0, <2>1, <2>3, <3>2, <4>1, <4>4 DEF Atomic, Running, CtxAlive, Started
      <3>3. (Unwind(p) /\ status'[p] = status[p]) \/ (Succeed(p) /\ status'[p] = StatusOfStep(step[p]))
        BY <1>s DEF Recorded, DbOutcome, Fault, WriteStatus, IInv, TypeOK
      <3> QED BY <3>1, <3>2, <3>3
    <2> QED BY <2>2, <2>3
  <1> QED BY <1>1 DEF AtomicInv, Atomic

\* A call that errs had no effect, so rollback starts with what the steps before
\* it did; a refused settlement still leaves settlement without an entry.
LEMMA CallEffectAtomic ==
  ASSUME FaultKinds = {}, IInv, AtomicInv, NEW p \in Payments, CallEffect(p)
  PROVE  AtomicInv'
  <1> USE DEF CallEffect, dbVars, bankVars, sweepVars
  <1>s. step[p] \in 6..LastRecording /\ step[p] \in {6, 7, 8} /\ CtxAlive(p)
    BY PipelineFacts DEF AtomicInv, Running, ReserveStep
  <1>1. ASSUME NEW q \in Payments PROVE Atomic(q)'
    <2>1. Atomic(q) /\ \A g \in Gateways : ~InSweep(g, q)'
      BY DEF AtomicInv, Atomic, InSweep
    <2>2. CASE q # p
      <3>1. pc'[q] = pc[q] /\ step'[q] = step[q]
        BY <2>2 DEF Unwind, IInv, TypeOK
      <3>2. hold'[q] = hold[q] /\ credit'[q] = credit[q] /\ submitted'[q] = submitted[q]
        BY <2>2 DEF ApplyEffect, IInv, TypeOK
      <3> QED BY <2>1, <3>1, <3>2, AtomicFrame
    <2>3. CASE q = p
      <3>1. CASE Unwind(p) /\ UNCHANGED bankVars
        <4>1. /\ step'[p] = step[p] - 1
              /\ pc'[p] = IF step[p] = 6 THEN "unrecord" ELSE "undo"
          BY <1>s, <3>1 DEF Unwind, CompensationPc, UndoneAtBank, ReserveStep, CommitStep, IInv, TypeOK
        <4>2. Done(p) = step[p] - 1 /\ Done(p)' = IF step[p] = 6 THEN 4 ELSE step[p] - 1
          BY <1>s, <4>1 DEF Done
        <4>3. Effects(p, Done(p))'
          BY <1>s, <2>1, <2>3, <3>1, <4>2 DEF Atomic, Effects, ReserveStep, CommitStep, SettleStep
        <4> QED BY <1>s, <2>1, <2>3, <3>1, <4>1, <4>3
                DEF Atomic, Running, CtxAlive, Started, CommitStep
      <3>2. CASE ApplyEffect(p, step[p]) /\ pc' = [pc EXCEPT ![p] = "record"] /\ step' = step
        <4>1. pc'[p] = "record" /\ step'[p] = step[p] /\ Done(p) = step[p] - 1 /\ Done(p)' = step[p]
          BY <1>s, <3>2 DEF Done, IInv, TypeOK
        <4>2. hold'[p] = IF step[p] = 6 THEN hold[p] + 1 ELSE hold[p]
          BY <3>2 DEF ApplyEffect, ReserveStep, IInv, TypeOK
        <4>3. credit'[p] = IF step[p] = 7 THEN credit[p] + 1 ELSE credit[p]
          BY <3>2 DEF ApplyEffect, CommitStep, IInv, TypeOK
        <4>4. submitted'[p] = IF step[p] = 8 THEN submitted[p] + 1 ELSE submitted[p]
          BY <3>2 DEF ApplyEffect, SettleStep, IInv, TypeOK
        <4>5. Effects(p, step[p] - 1)
          BY <2>1, <2>3, <4>1 DEF Atomic
        <4>6. Effects(p, Done(p))'
          <5> HIDE DEF CallEffect
          <5> QED BY <1>s, <4>1, <4>2, <4>3, <4>4, <4>5 DEF Effects, ReserveStep, CommitStep, SettleStep
        <4>7. ~SettlementEnabled => submitted'[p] = 0
          <5> HIDE DEF CallEffect
          <5> QED BY <1>s, <2>1, <2>3, <4>4, PipelineFacts DEF Atomic
        <4> QED BY <1>s, <2>1, <2>3, <4>1, <4>6, <4>7 DEF Atomic, Running, CtxAlive, Started
      <3>3. \/ Unwind(p) /\ UNCHANGED bankVars
            \/ ApplyEffect(p, step[p]) /\ pc' = [pc EXCEPT ![p] = "record"] /\ step' = step
        BY DEF BankOutcome, Fault
      <3> QED BY <3>1, <3>2, <3>3
    <2> QED BY <2>2, <2>3
  <1> QED BY <1>1 DEF AtomicInv, Atomic

\* Under a live context and without faults the status of an effect is recorded.
LEMMA RecordEffectAtomic ==
  ASSUME FaultKinds = {}, IInv, AtomicInv, NEW p \in Payments, RecordEffect(p)
  PROVE  AtomicInv'
  <1> USE DEF RecordEffect, bankVars, sweepVars
  <1>s. step[p] \in 6..LastRecording /\ step[p] \in {6, 7, 8} /\ CtxAlive(p)
    BY PipelineFacts DEF AtomicInv, Running, ReserveStep, IInv, ControlInv
  <1>0. Succeed(p) /\ WriteStatus(p, StatusOfStep(step[p]), "ok")
    BY <1>s DEF Recorded, DbOutcome, Fault
  <1>1. ASSUME NEW q \in Payments PROVE Atomic(q)'
    <2>1. Atomic(q) /\ \A g \in Gateways : ~InSweep(g, q)'
      BY DEF AtomicInv, Atomic, InSweep
    <2>2. CASE q # p
      <3>1. pc'[q] = pc[q] /\ step'[q] = step[q]
        BY <1>0, <2>2 DEF Succeed, IInv, TypeOK
      <3>2. status'[q] = status[q] /\ abortReason' = abortReason
        BY <1>0, <2>2 DEF WriteStatus, IInv, TypeOK
      <3> QED BY <2>1, <3>1, <3>2, AtomicFrame
    <2>3. CASE q = p
      <3>1. step'[p] = step[p] + 1 /\ pc'[p] = "exec"
        BY <1>s, <1>0, PipelineFacts DEF Succeed, IInv, TypeOK
      <3>2. Done(p) = step[p] /\ Done(p)' = step[p] /\ abortReason' = abortReason
        BY <1>s, <1>0, <3>1 DEF Done, WriteStatus
      <3>3. Effects(p, Done(p))'
        BY <2>1, <2>3, <3>2 DEF Atomic, Effects
      <3> QED BY <1>s, <2>1, <2>3, <3>1, <3>2, <3>3 DEF Atomic, Running, CtxAlive, Started
    <2> QED BY <2>2, <2>3
  <1> QED BY <1>1 DEF AtomicInv, Atomic

\* The best-effort steps cannot fail: after settlement nothing is rolled back.
LEMMA BestEffortAtomic ==
  ASSUME FaultKinds = {}, IInv, AtomicInv, NEW p \in Payments, BestEffort(p)
  PROVE  AtomicInv'
  <1> USE DEF BestEffort, dbVars, bankVars, sweepVars
  <1>s. /\ step[p] \in {LastRecording + 1, LastRecording + 2} /\ step[p] \in {8, 9, 10}
        /\ CtxAlive(p) /\ status[p] = StatusOfStep(LastRecording)
    <2>1. step[p] \in {LastRecording + 1, LastRecording + 2} /\ step[p] \in {8, 9, 10}
      BY PipelineFacts DEF IInv, ControlInv
    <2>2. CtxAlive(p) /\ status[p] = StatusBefore(step[p])
      BY DEF AtomicInv, Running, IInv, RowInv
    <2> QED BY <2>1, <2>2, PipelineFacts DEF StatusBefore
  <1>1. ASSUME NEW q \in Payments PROVE Atomic(q)'
    <2>1. Atomic(q) /\ \A g \in Gateways : ~InSweep(g, q)'
      BY DEF AtomicInv, Atomic, InSweep
    <2>2. CASE q # p
      BY <2>1, <2>2, AtomicFrame DEF Succeed, IInv, TypeOK
    <2>3. CASE q = p
      <3>1. /\ step'[p] = step[p] + 1
            /\ pc'[p] = IF step[p] = NSteps THEN "finish" ELSE "exec"
        BY <1>s DEF Succeed, IInv, TypeOK
      <3>2. Done(p) = step[p] - 1 /\ Done(p)' = step[p]
        BY <1>s, <3>1 DEF Done
      <3>3. Effects(p, step[p] - 1) /\ (~SettlementEnabled => submitted[p] = 0)
        BY <2>1, <2>3, <3>2 DEF Atomic
      <3>4. Effects(p, Done(p))'
        <4> HIDE DEF BestEffort
        <4>1. hold' = hold /\ credit' = credit /\ submitted' = submitted
          BY DEF BestEffort
        <4>2. SettlementEnabled => step[p] >= 9
          BY <1>s, PipelineFacts
        <4> QED BY <1>s, <3>2, <3>3, <4>1, <4>2 DEF Effects, ReserveStep, CommitStep, SettleStep
      <3>5. pc'[p] = "finish" => step'[p] = NSteps + 1
        BY <3>1
      <3> QED BY <1>s, <2>1, <2>3, <3>1, <3>4, <3>5, FinalStatus
              DEF Atomic, Running, CtxAlive, Started
    <2> QED BY <2>2, <2>3
  <1> QED BY <1>1 DEF AtomicInv, Atomic

\* The bank half of Compensate takes back what the step did.
LEMMA UndoAtomic ==
  ASSUME FaultKinds = {}, IInv, AtomicInv, NEW p \in Payments, Undo(p)
  PROVE  AtomicInv'
  <1> USE DEF Undo, dbVars, sweepVars
  <1>s. step[p] \in {6, 7} /\ CtxAlive(p)
    BY DEF AtomicInv, Running, IInv, ControlInv, ReserveStep, CommitStep
  <1>0. /\ hold'   = IF step[p] = 6 THEN [hold EXCEPT ![p] = @ - 1] ELSE hold
        /\ credit' = IF step[p] = 7 THEN [credit EXCEPT ![p] = @ - 1] ELSE credit
        /\ submitted' = submitted
    BY <1>s DEF UndoEffect, Fault, ReserveStep, CommitStep
  <1>1. ASSUME NEW q \in Payments PROVE Atomic(q)'
    <2>1. Atomic(q) /\ \A g \in Gateways : ~InSweep(g, q)'
      BY DEF AtomicInv, Atomic, InSweep
    <2>2. CASE q # p
      BY <1>0, <2>1, <2>2, AtomicFrame DEF IInv, TypeOK
    <2>3. CASE q = p
      <3>1. step'[p] = step[p] /\ pc'[p] = "unrecord"
        BY DEF IInv, TypeOK
      <3>2. Done(p) = step[p] /\ Done(p)' = step[p] - 1
        BY <1>s, <3>1 DEF Done
      <3>3. Effects(p, step[p]) /\ (~SettlementEnabled => submitted[p] = 0)
        BY <2>1, <2>3, <3>2 DEF Atomic
      <3>4. /\ hold'[p] = IF step[p] = 6 THEN hold[p] - 1 ELSE hold[p]
            /\ credit'[p] = IF step[p] = 7 THEN credit[p] - 1 ELSE credit[p]
        BY <1>s, <1>0 DEF IInv, TypeOK
      <3>5. Effects(p, Done(p))'
        <4> HIDE DEF Undo
        <4> QED BY <1>s, <1>0, <3>2, <3>3, <3>4 DEF Effects, ReserveStep, CommitStep, SettleStep
      <3> QED BY <1>s, <1>0, <2>1, <2>3, <3>1, <3>3, <3>5
              DEF Atomic, Running, CtxAlive, Started, CommitStep
    <2> QED BY <2>2, <2>3
  <1> QED BY <1>1 DEF AtomicInv, Atomic

\* The database half of Compensate; the first step's records ABORTED, so that a
\* rollback that ran never ends in another status.
LEMMA UnrecordAtomic ==
  ASSUME FaultKinds = {}, IInv, AtomicInv, NEW p \in Payments, Unrecord(p)
  PROVE  AtomicInv'
  <1> USE DEF Unrecord, dbVars, bankVars, sweepVars
  <1>s. step[p] \in 1..7 /\ CtxAlive(p)
    BY DEF AtomicInv, Running, IInv, ControlInv, CommitStep
  <1>0. /\ Unwind(p)
        /\ \/ UNCHANGED dbVars /\ ~RecordsAbort(step[p])
           \/ WriteStatus(p, "ABORTED", "ok")
    BY <1>s DEF DbOutcome, Fault
  <1>1. ASSUME NEW q \in Payments PROVE Atomic(q)'
    <2>1. Atomic(q) /\ \A g \in Gateways : ~InSweep(g, q)'
      BY DEF AtomicInv, Atomic, InSweep
    <2>2. CASE q # p
      <3>1. pc'[q] = pc[q] /\ step'[q] = step[q]
        BY <1>0, <2>2 DEF Unwind, IInv, TypeOK
      <3>2. status'[q] = status[q] /\ abortReason' = abortReason
        BY <1>0, <2>2 DEF WriteStatus, IInv, TypeOK
      <3> QED BY <2>1, <3>1, <3>2, AtomicFrame
    <2>3. CASE q = p
      <3>1. /\ step'[p] = step[p] - 1
            /\ pc'[p] = IF step[p] = 1 THEN "finish" ELSE IF step[p] = 7 THEN "undo" ELSE "unrecord"
        BY <1>s, <1>0 DEF Unwind, CompensationPc, UndoneAtBank, ReserveStep, CommitStep, IInv, TypeOK
      <3>2. abortReason' = abortReason /\ status'[p] \in {status[p], "ABORTED"}
            /\ (step[p] = 1 => status'[p] = "ABORTED")
        BY <1>0 DEF WriteStatus, RecordsAbort, ValidateStep, IInv, TypeOK
      <3>3. Done(p) = step[p] - 1 /\ Effects(p, step[p] - 1)
        BY <1>s, <2>1, <2>3 DEF Done, Atomic
      <3>4. Done(p)' = IF step[p] \in {1, 7} THEN step[p] - 1 ELSE step[p] - 2
        BY <1>s, <3>1 DEF Done
      <3>5. Effects(p, Done(p))'
        <4>1. hold' = hold /\ credit' = credit /\ submitted' = submitted
          OBVIOUS
        <4> HIDE DEF Unrecord
        <4> QED BY <1>s, <3>3, <3>4, <4>1 DEF Effects, ReserveStep, CommitStep, SettleStep
      <3>6. status'[p] = "RESERVED" => Running(p)'
        BY <1>s, <3>1, <3>2 DEF Running
      <3> QED BY <1>s, <2>1, <2>3, <3>1, <3>2, <3>5, <3>6
              DEF Atomic, Running, CtxAlive, Started, CommitStep
    <2> QED BY <2>2, <2>3
  <1> QED BY <1>1 DEF AtomicInv, Atomic

\* A saga that was rolled back, and only such a one, leaves a reason.
LEMMA FinishAtomic ==
  ASSUME FaultKinds = {}, IInv, AtomicInv, NEW p \in Payments, Finish(p)
  PROVE  AtomicInv'
  <1> USE DEF Finish, bankVars, sweepVars
  <1>s. CtxAlive(p)
    BY DEF AtomicInv, Running
  <1>0. abortReason' = IF step[p] = 0 THEN [abortReason EXCEPT ![p] = TRUE] ELSE abortReason
    BY <1>s DEF DbOutcome, Fault
  <1>1. ASSUME NEW q \in Payments PROVE Atomic(q)'
    <2>1. Atomic(q) /\ \A g \in Gateways : ~InSweep(g, q)'
      BY DEF AtomicInv, Atomic, InSweep
    <2>2. CASE q # p
      <3>1. pc'[q] = pc[q] /\ abortReason'[q] = abortReason[q]
        BY <1>0, <2>2 DEF IInv, TypeOK
      <3> QED BY <2>1, <3>1, AtomicFrame
    <2>3. CASE q = p
      <3>1. pc'[p] = "done" /\ step'[p] = step[p] /\ Done(p)' = Done(p)
        BY DEF Done, IInv, TypeOK
      <3>2. abortReason'[p] <=> step[p] = 0
        BY <1>0, <2>1, <2>3 DEF Atomic, IInv, TypeOK
      <3>3. Effects(p, Done(p))'
        BY <2>1, <2>3, <3>1 DEF Atomic, Effects
      <3>4. status'[p] # "RESERVED"
        BY <2>1, <2>3, FinalStatus DEF Atomic
      <3>5. \/ step'[p] = 0 /\ status'[p] \in {"ABORTED", "RECEIVED"}
            \/ step'[p] = NSteps + 1 /\ status'[p] = StatusOfStep(LastRecording)
        BY <2>1, <2>3, <3>1 DEF Atomic
      <3>6. ~SettlementEnabled => submitted'[p] = 0
        BY <2>1, <2>3 DEF Atomic
      <3>7. (abortReason[p] <=> pc[p] = "done" /\ step[p] = 0)'
        BY <3>1, <3>2
      <3>8. /\ pc'[p] # "lost" /\ ~Running(p)' /\ Started(p)'
            /\ pc'[p] \notin {"undo", "unrecord"}
        BY <3>1 DEF Running, Started
      <3>9. \A g \in Gateways : ~InSweep(g, p)'
        BY <2>1, <2>3
      <3> HIDE DEF Finish
      <3>10. Atomic(p)'
        BY <3>3, <3>4, <3>5, <3>6, <3>7, <3>8, <3>9 DEF Atomic
      <3> QED BY <2>3, <3>10
    <2> QED BY <2>2, <2>3
  <1> QED BY <1>1 DEF AtomicInv, Atomic

\* The clock passes the deadline of no saga that runs.
LEMMA TickAtomic ==
  ASSUME FaultKinds = {}, IInv, AtomicInv, Tick
  PROVE  AtomicInv'
  BY DEF Tick, AtomicInv, Running, CtxAlive, Started, Effects, Done, InSweep, dbVars, bankVars,
     sagaVars, sweepVars

\* The sweepers find nothing: a reservation has a saga whose context lives.
LEMMA SweepAtomic ==
  ASSUME FaultKinds = {}, IInv, AtomicInv, NEW g \in Gateways, SweepStep(g)
  PROVE  AtomicInv'
  <1>1. ~SweepFind(g)
    <2>1. ASSUME NEW p \in Payments, status[p] = "RESERVED"
          PROVE  ~(expiresAt[p] < now)
      BY <2>1 DEF AtomicInv, CtxAlive, IInv, TypeOK, TimeInv
    <2> QED BY <2>1 DEF SweepFind, ExpiredReservations
  <1>2. ~SweepUndo(g) /\ ~SweepUnrecord(g)
    BY DEF SweepUndo, SweepUnrecord, IInv, ControlInv, AtomicInv, InSweep
  <1>3. SweepNext(g) /\ sweepQ[g] = {}
    BY <1>1, <1>2 DEF SweepStep, SweepNext, IInv, TypeOK, AtomicInv, InSweep
  <1> QED BY <1>3 DEF SweepNext, AtomicInv, Running, CtxAlive, Started, Effects, Done, InSweep,
             dbVars, bankVars, sagaVars

\* The other actions touch neither rows, money nor goroutines, and no replica dies.
LEMMA RestAtomic ==
  ASSUME FaultKinds = {}, AtomicInv,
         \/ \E g \in Gateways : OtherSaga(g) \/ Crash(g) \/ Restart(g)
         \/ UNCHANGED vars
  PROVE  AtomicInv'
  BY DEF OtherSaga, Crash, Fault, Restart, vars, AtomicInv, Running, CtxAlive, Started, Effects,
     Done, InSweep, dbVars, bankVars, sagaVars, sweepVars

\* Without faults AtomicInv is inductive relative to IInv.
LEMMA AtomicStep == FaultKinds = {} /\ IInv /\ AtomicInv /\ [Next]_vars => AtomicInv'
  <1> SUFFICES ASSUME FaultKinds = {}, IInv, AtomicInv, [Next]_vars PROVE AtomicInv'
    OBVIOUS
  <1>1. ASSUME NEW p \in Payments, SubmitPayment(p) \/ SagaStep(p) PROVE AtomicInv'
    BY <1>1, SubmitPaymentAtomic, StartSagaAtomic, ExecuteCheckAtomic, CallEffectAtomic,
       RecordEffectAtomic, BestEffortAtomic, UndoAtomic, UnrecordAtomic, FinishAtomic DEF SagaStep
  <1> QED BY <1>1, SweepAtomic, TickAtomic, RestAtomic DEF Next

\* AtomicInv holds of every state the faultless switch reaches.
LEMMA AtomicInvariance == Spec => [](FaultKinds = {} => AtomicInv)
  <1>1. Init => AtomicInv
    <2> SUFFICES ASSUME Init, NEW p \in Payments PROVE Atomic(p)
      BY DEF AtomicInv, Atomic
    <2>1. hold[p] = 0 /\ credit[p] = 0 /\ submitted[p] = 0 /\ step[p] = 0 /\ pc[p] = "none"
      BY DEF Init
    <2>2. Effects(p, Done(p))
      BY <2>1 DEF Effects, Done, ReserveStep, CommitStep, SettleStep
    <2>3. \A g \in Gateways : ~InSweep(g, p)
      BY ConstantsAssumption DEF Init, InSweep
    <2>4. status[p] = "NONE" /\ ~abortReason[p]
      BY DEF Init
    <2> QED BY <2>1, <2>2, <2>3, <2>4 DEF Atomic, Running, Started
  <1>2. IInv /\ (FaultKinds = {} => AtomicInv) /\ [Next]_vars => (FaultKinds = {} => AtomicInv)'
    BY AtomicStep
  <1> QED BY <1>1, <1>2, Invariance, PTL DEF Spec

\* Without faults money is credited only while it is held, whatever the order in
\* which the sagas of a replica overwrite the shared counter.
THEOREM CreditsAreFunded == Spec => []CreditIsFunded
  <1>1. IInv /\ (FaultKinds = {} => AtomicInv) => CreditIsFunded
    <2> SUFFICES ASSUME IInv, AtomicInv, NEW p \in Payments
        PROVE  0 <= credit[p] /\ credit[p] <= hold[p] /\ hold[p] <= 1
      BY DEF CreditIsFunded
    <2>1. Effects(p, Done(p))
      BY DEF AtomicInv
    <2>2. (Done(p) >= 7) => (Done(p) >= 6)
      BY PipelineFacts DEF Done, IInv, TypeOK
    <2> QED BY <2>1, <2>2 DEF Effects, ReserveStep, CommitStep
  <1> QED BY <1>1, AtomicInvariance, Invariance, PTL

\* Without faults a saga that has ended has done everything or left nothing.
THEOREM AllOrNothing == Spec => []OutcomeAtomic
  <1>1. ASSUME IInv, FaultKinds = {}, AtomicInv, NEW p \in Payments, pc[p] = "done"
        PROVE  \/ /\ status[p] = StatusOfStep(LastRecording) /\ ~abortReason[p]
                  /\ hold[p] = 1 /\ credit[p] = 1
                  /\ submitted[p] = IF SettlementEnabled THEN 1 ELSE 0
               \/ /\ status[p] \in {"ABORTED", "RECEIVED"} /\ abortReason[p]
                  /\ hold[p] = 0 /\ credit[p] = 0 /\ submitted[p] = 0
    <2>1. Effects(p, Done(p)) /\ (~SettlementEnabled => submitted[p] = 0)
      BY <1>1 DEF AtomicInv
    <2>2. CASE step[p] = 0
      <3>1. Done(p) = 0 /\ status[p] \in {"ABORTED", "RECEIVED"} /\ abortReason[p]
        BY <1>1, <2>2, PipelineFacts DEF AtomicInv, Done
      <3> QED BY <2>1, <3>1 DEF Effects, ReserveStep, CommitStep, SettleStep
    <2>3. CASE step[p] # 0
      <3>1. step[p] = NSteps + 1 /\ status[p] = StatusOfStep(LastRecording) /\ ~abortReason[p]
        BY <1>1, <2>3 DEF AtomicInv
      <3>2. Done(p) = NSteps
        BY <1>1, <3>1, PipelineFacts DEF Done
      <3> QED BY <2>1, <3>1, <3>2, PipelineFacts DEF Effects, ReserveStep, CommitStep, SettleStep
    <2> QED BY <2>2, <2>3
  <1>2. IInv /\ (FaultKinds = {} => AtomicInv) => OutcomeAtomic
    BY <1>1 DEF OutcomeAtomic
  <1> QED BY <1>2, AtomicInvariance, Invariance, PTL
===========================================================================
