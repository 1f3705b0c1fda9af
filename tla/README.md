# payswitch in TLA+

A TLA+ model of payswitch, an ISO 20022 instant-payment switch: Go services that
accept `pacs.008` messages, run one saga per payment over Postgres, two banks and
a settlement service, and publish what happened through a transactional outbox.
The model is taken from the Go and SQL sources; docs are only quoted where they
say something about the program that the code does not do.

| File | What it is |
|---|---|
| `PaymentLifecycle` | what the switch promises about the status of a payment row |
| `PaymentSaga` | gateway, saga engine, repository, bank client and sweeper, composed |
| `SettlementWindow` | settlement-service |
| `EventDelivery` | what the outbox promises of an event |
| `OutboxRelay` | outbox, relays, Kafka partition, audit-service |
| `BankService` | the bank service, and the sagas of several payments as its callers |
| `BankLifecycle` | what the portal promises about the status of a bank |
| `PortalSessions` | the sessions of the auth service and the CSRF tokens of the portal |
| `BankOnboarding` | every request that writes through the portal; extends `PortalSessions` |
| `Iso20022` | the conversions between payments, pacs.008, pacs.002 and columns |
| `LookupService`, `RoutingService`, `QuotingService`, `ReconciliationService` | the state of these services and what a call does to it |
| `PortalViews` | the queries behind the portal's screens |
| `PaymentIntake` | from a request to the reports about its payment; composes the six modules above it |
| `PaymentSagaProofs`, `SettlementWindowProofs`, `OutboxRelayProofs`, `BankServiceProofs`, `BankOnboardingProofs`, `PaymentIntakeProofs` | the theorems about these modules and their proofs |
| `PortalViewsProofs` | the theorem about the portal's screens; extends `PaymentIntakeProofs` |
| `FoldTheorems` | what sums over finite sets are, for the proofs that need it |
| `MC*.tla`, `*.cfg` | the instances TLC checks |
| `PROJECT.json` | components, runs, mutants, map to the source, findings, hazards, theorems |

    tlc -workers 2 -config MCSagaAtomic.cfg MCPaymentSaga
    tlapm PaymentSagaProofs.tla
    tlapm PortalViewsProofs.tla

## 1. The system

### Components, their state and operations

| Component | State | Operations | Correct when |
|---|---|---|---|
| gateway (`cmd/gateway`, `internal/gateway`) | the goroutines of accepted payments; one `Saga` value per process | `SubmitPayment` stores the row and answers 202; `processPaymentAsync` runs the saga under a 60 s context, records `abort_reason`, calls the originating bank back once | every accepted payment ends; sending again makes no second payment; the row keeps what was sent, up to defaults, padding and dates |
| saga engine (`internal/orchestrator/saga`) | the list of completed steps of a `Run`; **`completedSteps`, one field for all runs of the process** | `Run`, `rollback`, `CompensatePayment`; ten steps with `Execute` and `Compensate` | all or nothing; a compensation undoes what ran and nothing else |
| payment repository (`internal/orchestrator/db`) | tables `payment`, `transaction_view` | `CreateWithEvent`, `UpdateStatus`, `MarkReserved`, `UpdateRoute`, `FindExpiredReservations`, `GetByID` | row and outbox event change together; statuses only move along the ladder |
| sweeper (`internal/orchestrator/sweep`) | none | `SweepOnce` every 30 s on every replica | no reservation stays; a sweep never meets a saga that can still write |
| bank client (`internal/bankclient`) | none | `Reserve`, `ReleaseReservation`, `Credit`, `ReverseCredit` over HTTP | - |
| settlement-service (`internal/settlement`) | one in-memory `Window`; the ledger table | `Add`, `Settle`, `SubmitForSettlement`, `SettleWindow`, shutdown | every entry settled once, netting exact |
| outbox and relay (`pkg/outbox`) | table `outbox` | `Write`, `flushBatch` on every replica | at least once, never before the commit |
| event bus, audit-service (`pkg/eventbus`, `internal/audit`) | consumer offset | `Consume`, `HandlePaymentEvent` | no committed message unhandled |
| bank service (`internal/banksvc`) | accounts; **one reservation record per account**, in memory | reserve, release, credit, reverse; create an account, set a balance, look up, pacs.008 | balances are what the bank did for all payments, and what their sagas believe; sagas and sweepers never overdraw an account |
| portal (`internal/portal`, `cmd/portal-api`) | tables `bank`, `bank_certificate`, `audit_log`; CSRF tokens in memory | onboarding transitions, configuration, certificates; lists, dashboard, settlement screens | a bank moves along `validTransitions` under concurrent operators; audit log and answers are true; the screens agree with each other |
| auth service (`cmd/auth-service`) | sessions in memory | login, logout, the check the reverse proxy asks for | no request without a live session |
| lookup service (`internal/lookup`) | registry in memory, Redis cache shared by the replicas | `Lookup`, `Register` | the cache is not staler than it has to be |
| routing, quoting, reconciliation (`internal/...`) | routes, quotes, records in memory | `LookupRoute`, `AddRoute`; `GetQuote`, `AcceptQuote`; `AddRecord`, `Match` | one route per pair; records agree with rows |
| compliance, notification | none | one rule; a log line | - |
| participant registry, certificate service | participants in memory | `GetByID`; thumbprints are compared by no handler | - |
| ISO 20022 (`pkg/iso20022`) | none | pacs.008 and pacs.002 to and from payments, amounts in floating point | no party, id or cent is lost |
| middleware, resilience | - | wired into no binary | - |

### Interaction

    client --POST--> gateway --tx--> Postgres (payment + outbox row)
                        |                 ^   ^
                  goroutine: saga --------+   +---- sweeper (each replica, 30 s)
                   |      |     |             +---- outbox relay (each replica) --> Kafka --> audit-service
          source bank  dest bank  settlement-service
             (hold)    (credit)     (window, ledger)
          (bank service: accounts)

    the saga also calls lookup (Redis), routing, quoting, compliance before the
    banks, and reconciliation and notification after settlement

    browser --> reverse proxy --(auth service: session?)--> portal-api (replicas)
                                                              |--> bank, bank_certificate, audit_log
                                                              +--> transaction_view (triggers on payment)

### What is hard

* All sagas of a replica and its sweeper share one counter without a lock, a data
  race whose value decides how many steps a sweep compensates.
* No SQL statement guards on the old status. That an aborted payment stays aborted
  and that a sweep does not abort a payment under way follows only from timing
  (5 min reservation, 60 s context) and from where contexts are checked.
* An effect at a bank and the row that records it are two steps. In between a
  replica can die, a transaction fail, its acknowledgement be lost, the context
  expire.
* Rollback runs under the context that has failed.
* Relays publish inside a transaction they may have to roll back.
* Settlement is triggered by goroutines, RPCs and the end of `main`, at once.
* The bank files a hold by account, not by payment; a credited amount can be spent
  before it is reversed, and sweepers release and reverse what is gone already.
* A portal request is a check, a change, a re-read and an audit entry in separate
  statements; operators race on replicas that restart.
* A bank that hears nothing sends its payment again, while the first request may
  have been committed, or be under way, or have lost its saga.
* Four services and the two stores of the portal forget everything at a restart.

`PROJECT.json` lists the hazards one by one with the line where each one bites and
the properties that would notice.

## 2. The modules

### PaymentSaga

One module, because the components meet in shared state: the row, the counter, the
banks, the clock.

| Variables | In the code |
|---|---|
| `status`, `expiresAt`, `lastEvent`, `abortReason` | columns of `payment`, the newest `outbox` row of the payment, `transaction_view.abort_reason` |
| `hold`, `credit`, `submitted`, `callback` | what the banks and settlement have been told, as counts (so that a double release is `-1`) |
| `up`, `completedSteps` | a process and its `Saga.completedSteps` |
| `home`, `pc`, `step`, `loaded`, `deadline`, `mem` | the goroutine of a payment: replica, place, step under way or to compensate, the racy load, context deadline, `p.Status` in memory |
| `sweepPc`, `sweepQ`, `sweepCur`, `sweepStep` | a sweeper inside `SweepOnce` / `CompensatePayment` |

| Action | In the code |
|---|---|
| `SubmitPayment` | `Handler.SubmitPayment`, `CreateWithEvent`; the commit's acknowledgement may be lost |
| `StartSaga` | the start of `processPaymentAsync` and `Run`: context, counter reset |
| `ExecuteCheck` | `Execute` of validate, lookup, route, quote, screen with its status update |
| `CallEffect`, `RecordEffect` | the two halves of `Execute` of reserve, credit, settle |
| `BestEffort` | record_reconciliation and notify, which never fail |
| `Undo`, `Unrecord` | the two halves of `Compensate`, in `rollback` |
| `Finish` | the rest of `processPaymentAsync`: `abort_reason`, callback |
| `OtherSaga` | what the sagas of payments outside `Payments` do to the counter |
| `SweepFind`, `SweepNext`, `SweepUndo`, `SweepUnrecord` | `SweepOnce` and `CompensatePayment` |
| `Crash`, `Restart`, `Tick` | death or shutdown of a replica (nothing waits for sagas), its restart, time |

Abstractions, and why they are sound for the properties stated:

* A check that calls lookup, routing, quoting, compliance or a certificate test
  is one that passes or fails. The check and the status update that follows are one
  action: nothing outside the database happens in between.
* `completedSteps++` is a load and a store. The model keeps both: the value stored
  comes from a load made when the step had just succeeded or from one made right
  at the store (`StoreCompleted`), so updates may be lost or go backwards.
* A call that times out and is applied by the bank later is one applied at once
  whose answer is lost (fault `lost`): the counts commute.
* Banks accept every call they do not lose or refuse. Whether a bank has an
  idempotency rule of its own is not in this repository.
* A goroutine starts within the tick in which it was accepted (`Tick` waits for
  it). Once started it may be arbitrarily slow, beyond its deadline too.
* `UpdateRoute` writes no outbox row: `ROUTED` is the one status no event announces.
* The development stand-in `MockBankClient` is not modelled.

Faults are drawn from `FaultKinds` and counted by `faults` up to `MaxFaults`:
`deadline`, `crash`, `db`, `ack` (commit applied, acknowledgement lost), `lost`
(call applied, answer lost), `undo` (bank refuses a compensation). A business
refusal (a check fails, a bank says no) is not a fault and may always happen.

### PaymentLifecycle

The abstract specification: a row climbs the nine statuses one rung at a time, may
be aborted from any rung, and stays aborted. `PaymentSaga` implements it
(`ImplementsLifecycle`) with the identity mapping of `status`; the content is in the
detailed side, where no statement checks the old status.

### SettlementWindow

`entries`, `closed` are the window, `pending` the goroutines `Add` started and that
have not called `Settle`, `batch` and `positions` what the one effective `Settle`
took and computed, `settler` and `written` the ledger writing outside the lock,
`ledger` the rows, `proc` the phases of `main` (serving, draining in `GracefulStop`,
settling, exiting, exited), `acked` and `kept` what callers were told and what `Add`
took. `NetMap` and `calculateNetPositions` follow the loop of the code;
`NettingIsExact` compares them with a definition by sums. The net rows that `Settle`
writes last have `payment_id` `"net"`, which the uuid column refuses; that error is
dropped like all of them, so the model writes no such rows. The window's `interval`
is stored and used nowhere, so there is no timer.

### OutboxRelay and EventDelivery

`row` is `outbox.status` with the life of its transaction (`open`, `gone`), `todo`
and `ids` are what a relay has locked and published inside its transaction, `log`
is a Kafka partition, `position` and `committed` the consumer's. `Write` takes ids
in order, `CommitWrite` may happen in any order. `EventDelivery` says that an event
is in the audit log only after its transaction committed, and stays there;
`ImplementsDelivery` maps `written` to the committed rows and `delivered` to
`handled`. The events are those of one topic in one partition; audit-service
consumes five topics in five independent goroutines. Kafka and Postgres row locks
are external and modelled by how the code uses them.

### BankService

`accounts`, `balance`, `reserved` are `BankState`; a method is atomic because it
holds the mutex. The callers are

* the sagas of `Payments`, each reduced to its calls at the bank (`phase`), with
  answers that get lost, compensations that do not arrive, writes to the row that fail
  after the call, and the death of the replica;
* the `Sweepers`: `marked` are the payments whose row says RESERVED, `found` what a
  sweeper has listed, `releasing` the payment it is in the middle of. Two sweepers may
  list the same payment. How many steps one compensates is up to the shared counter, so
  `SweepSkip`, `SweepRelease` and `SweepReverse` are all possible of a listed payment:
  a hold may be released again and a credit reversed that was never made;
* requests from outside, which create accounts, set balances and send pacs.008 with
  amounts of either sign: no handler checks it, so `NewBalances` is any set of integers;
* a restart, which seeds the accounts again and forgets all else.

`held` and `given` are history variables: what the bank has taken from and given to the
accounts of a payment since it last started, with every release and reversal
subtracted, so both may become negative. `mishaps` is what befell a payment (a fault, a
refused compensation, a sweep, a restart that forgot something). `opening` is the
balance an account would have without any payment, and changes only where a request
from outside or a restart sets the balance; `overdrawn` are the accounts such a request
put below zero. `BalancesMatchSagas` then has three parts: the books add up; a payment
without a mishap has at the bank what its saga believes; and money that was not taken is
given back only by a sweeper or after a restart. The record of a reservation is kept
although nothing reads it, because `RecordIsOfAHold` is about it: its amount is that of
a payment that still has its hold, while a hold need not have a record (the next
reservation, release or credit of the account takes it away).

### PortalSessions, BankOnboarding and BankLifecycle

A request is declined on its way in (session, token, scope, role), or runs in a
handler: `admitted`, for a status change `locked` (between `SELECT ... FOR UPDATE`
and commit) and `reread` (`GetBank`), then `audit`. Every statement may fail, an
answer of the database may be lost, and a replica may restart at any point, which
rolls its transactions back and forgets its tokens. `lock` is the row lock; updates
of the row and inserts that refer to it wait for it. The bodies of requests are
reduced to which request wrote a group of columns last. A session or token that
nobody holds any more is forgotten, since it is never presented again.
`BankLifecycle` is the abstract specification: a bank is created once, follows
`validTransitions`, and its `onboarded_at` is set at the first activation and kept.
`BankOnboarding` implements it (`ImplementsBankLifecycle`) with the identity on
`status`, `onboardedAt` and `now`, because the lock holds from the check to the commit.

### PaymentIntake and what it composes

`SubmitPayment` is the whole handler: the sender (`tlsAuthMiddleware`, with the
default of development for a request without a certificate), a body that does not
parse (400), JSON or pacs.008 in the layouts the code reads, `buildPayment`, the insert
(`Insert`: a text too long for its column, the unique index on source and end-to-end id,
a trigger that casts the UETR to a UUID). `Bodies` are pairs of a shape and data: JSON,
the pacs.008 the switch itself writes, and that of another bank with its settlement date
in the group header or in the transaction. It can lose the answer, the acknowledgement of the commit
or the process. The saga's checks call the modules of the services; its steps at the
banks and its rollback, which `PaymentSaga` models in detail, are one step each.
`RollBack` covers refusals and errors, with and without the row becoming ABORTED;
`Expire` is the end of the 60 s context, after which nothing is written. `Validate` and
`RollBack` have the checks of `ValidateStep`. The final status is SETTLED, or COMMITTED
when `SettlementEnabled` is false: `cmd/gateway/main.go:123` adds the settle step only
for a configured `SettlementAddr`. The run has it TRUE, the theorems hold for both.
`createdAt` is the time at which the transaction began, so a row may appear behind
others; `names` are the names of the two banks at the insert, which the trigger never
updates.

* `Iso20022` converts field by field. An amount in a document is a float: a number
  in thousandths of a minor unit that is off by one either way. A settlement date is
  one of `Dates`, a date with a time (`Stamps`), or a text that is neither: JSON
  understands the first, the header of a pacs.008 the first two, the transaction of a
  pacs.008 is not read, and all else becomes today. Currency, charge bearer and purpose
  are stored in CHAR(3) and CHAR(4): `Char3` and `Char4` give what a text is padded to,
  and a text outside their domain is refused by the insert.
* `LookupService` knows one bank by the version of its registration. A miss is two
  steps (`LookupBIC` reads, `FillCache` writes), so a slow lookup can file what it
  read before a change. No binary calls `Register`; it stands for a redeployment
  with another seed while Redis keeps its entries. A `Set` ends with the context of its
  saga; an IO timeout that overruns it is neglected.
* `RoutingService`, `QuotingService`, `ReconciliationService` are maps that a restart
  resets. One replica of each is modelled; with two, a call may also meet the state of
  another one, which a restart covers for everything but routes added by hand.
* `PortalViews` has the SQL of the screens as set expressions over `Table`, which is
  `transaction_view` (triggers keep it equal to `payment`), with the scope a caller's
  role gives them. The list is sorted by `created_at` alone, so a row has a range of
  pages it may be on, from `FirstPage` to `LastPage`; they differ when another row has
  the same time. A page with a total is two statements over two tables. The page of a
  day is looked up among the `WindowDays` newest days (365) and has a position per BIC
  and name.

## 3. The runs

`CHECK_DEADLOCK` is off everywhere: a finite set of payments, entries or events is
handled and then nothing is left to do (and the clock ends at `MaxTime`).

| Run | Instance | Checks | Shows |
|---|---|---|---|
| `saga_atomic` | 2 payments, 1 replica, no faults | `TypeOK`, `CreditIsFunded`, `OutcomeAtomic` | whatever checks and banks refuse, and however the counter is raced over, a saga ends all or nothing |
| `saga_faults` | 1 payment and the effect of others on the counter, 1 replica, 2 faults of any kind but `ack`, slow sagas | `SweptSagaIsDead`, `PaidMeansPaid`, `EventTracksRow` | what the row and its events say is true |
| `saga_recovery` | 1 payment, 2 replicas, 2 faults of any kind, no settle step, fairness | `IInv`, `ReservationResolved`, `SagaEnds`, `ImplementsLifecycle` | reservations are resolved, sagas end, a status moves along the ladder; the invariant of the proofs |
| `settlement` | 4 entries between 3 banks (two that cancel out, one within a bank), window of 2, 1 failure | `TypeOK`, `KeptExactlyOnce`, `NettingIsExact`, `LedgerMirrorsBatch`, `StopSettlesAll`, `SettledOnce`, `FullWindowSettles` | racing settlements lose and repeat nothing |
| `outbox` | 3 events, 2 relays, batches of 2, 2 failures | `TypeOK`, `PublishedIsInLog`, `DuplicatesNeedFaults`, `CommittedIsHandled`, `ImplementsDelivery`, `EventPublished`, `EventHandled` | at least once from transaction to audit log |
| `bank` | 3 payments over 3 accounts, 2 sweepers and 2 sweeps, 1 fault, 1 request from outside or restart | `TypeOK`, `BalancesMatchSagas`, `RecordIsOfAHold` | whatever is interleaved, released twice or reversed without a credit, the books add up, nobody inside overdraws an account, and only what something befell differs from its saga |
| `portal` | 2 requests, 2 users, 1 bank, 2 certificates, 1 replica, 1 fault, fairness | `TypeOK`, `AuditMatchesChanges`, `OneWinner`, `ImplementsBankLifecycle`, `TokenLivesUntilExpiry`, `RequestEnds` | racing operators follow the onboarding path; an answer and an audit entry are true; nobody waits for ever |
| `intake` | 2 requests with one end-to-end id, 2 participants and a stranger, 1 fault or administrative call, days of 2 ticks of which 1 is looked through | `TypeOK`, `RetryIsSafe`, `RowKeepsRequest`, `LookupStalenessBounded`, `OutcomeReported`, `ViewsAgree`, `WalkMissesNothing` | a repeated request is safe, the row keeps what was sent as far as the code does, the reports and screens are true |
| four more | the smallest instance that shows it | one property each, violated | the findings below |

Bounds. `SagaTimeout = 1` and `ReservationTTL = 2` keep the order of 60 s and 5 min;
with `LastSubmit = 0` and `MaxTime = 3` a reservation made at tick 0 expires and is
swept, and a saga can be past its deadline before, during and after that. Two faults
are what a failed compensation followed by a failed recovery takes. One payment is
enough where sagas interact only through the counter, because `OtherSaga` makes the
counter take every value other sagas can give it; `saga_atomic` has two real ones, but
no sweeps, which alone read the counter.
Two replicas make two sweepers or two relays, and each one treats all others alike.
Four entries into a window of two start several settling goroutines and leave
entries that come too late. Three events and batches of two leave a second batch and
a committed row behind an uncommitted smaller id. In `bank`, p2 wants more than its
account has without the credit of p1, so that the reversal of p1 is refused, and p3
replaces the record of p1; two sweeps by one or two sweepers release or reverse a
payment twice, and the amounts -1 and 3 from outside overdraw an account or feed it.
(With two faults the run has 4.6 million states, with two requests from outside 6.6
million; both pass.) In `portal` two requests are what a race takes, `TokenTTL`
is one tick of three so that a page gets a second token, and the table starts empty,
in the middle of the path or suspended; a request runs on one replica, and two
requests there interleave exactly like those of two replicas, because all they share
is the database (a restart takes both at once). In `intake` the amounts 7 and 10001 make the fee and the rounding
matter, one optional field set is full and one is bare; the dates are one that does not
parse, one with a time, one in the header and one in the transaction; the currency is
missing in one body (which validate refuses, after the row was made), the purpose short
in one and too long in another, the uetr no UUID in one. Two ticks let a saga, a cache
entry and a quote expire; days of two ticks, of which one is looked through, make a
listed day without a page, and two rows may have one `created_at` or not. The proofs of section 5 have no
such bounds.

Every property has a mutant in `PROJECT.json`: a plausible bug, as an operator next
to the definition it replaces, under which TLC finds the property violated.

### Fairness

* `SagaStep(p)`, weak: the Go scheduler runs a runnable goroutine, and every call in
  it has a context or client timeout.
* `SweepStep(g)`, `RelayStep(r)`, weak: tickers that fire as long as the process
  lives. A sweep at which nothing has expired is a stutter.
* `Restart(g)`, weak: the Kubernetes deployment restarts a dead replica.
* `Tick`, weak: time passes.
* `AutoSettle`, `WriteLedger`, `SettleDone`, `Handle`, `CommitMessages`, weak: running
  goroutines go on.
* `BankOnboarding`: `Handle(r)`, weak: the Go runtime runs every handler on, and Postgres
  grants a lock to one of those who wait for it.
* Nothing makes a client or a user of the portal send a request, an operator call
  `SettleWindow` or stop a process, audit-service restart, or a fault happen.

## 4. Findings

1. `saga_shared_counter`: `CompensatePayment` trusts `completedSteps` of the process
   before the row, so a sweep can reverse a credit that was never made
   (`SweepUndoesOnlyWhatRan`).
2. `saga_two_sweepers`: `FOR UPDATE SKIP LOCKED` outside a transaction locks nothing
   after the query; two sweepers release the same hold (`ReleasedAtMostOnce`).
3. `saga_partial`: a step whose effect succeeded and whose update failed is not
   compensated (`AbortedLeavesNothing`).
4. `settlement_accepted`: entries refused by a closed window are acknowledged as
   accepted (`AcceptedIsKept`).

Also met, without a run:

* After a rollback the callback carries the in-memory status of the last step that
  succeeded (`Finish` in `PaymentSaga`), while `README.md:384` of the repository speaks
  of ABORTED and RJCT; docs describe retries of the callback, the code tries once.
* The repository's README says that all state transitions write an outbox event, and
  `UpdateRoute` writes none. A payment refused by validate stays `RECEIVED`, because
  nothing has completed that could be compensated.
* `deploy/docker/compose.yaml:424` fixes the CSRF secret "so tokens survive container
  restarts"; the tokens are in the memory of the process and do not.
* A status change that was committed is answered with 409, and not audited, when the
  re-read fails; the error of an audit entry is dropped. `AuditMatchesChanges` states
  what remains true.
* The settlement screens count ABORTED payments too, and the "net" of their list is a
  gross sum. A list filtered by status can miss rows between two pages.
* A `settlement_date` that does not parse is replaced by today's without an error
  (`handler.go:762`), and the `IntrBkSttlmDt` of a pacs.008 transaction is not read
  (`convert.go:96`). Codes come back padded from their CHAR columns, and one that is too
  long is answered with 500.
* The transaction list has no second sort key: rows with the same `created_at` may change
  places between two queries, and one of them be missed. A settlement day that is listed
  and has 365 newer ones is answered with 404. A bank that was named in between has two
  positions on a day.
* `api/openapi/gateway.yaml:43` documents that a repeated Idempotency-Key is answered
  with 409; the middleware that does so is wired into no binary. Repeats are recognised by
  source and end-to-end id only (`RetryIsSafe`).
* Setting a balance, creating an account and a pacs.008 at the bank service accept
  negative amounts.
* The quote of a payment is never accepted, and its fee never charged. Sessions and
  quotes are never removed.

## 5. What is proved

Every safety invariant, action property and refinement that a passing run checks is
also a theorem, for every value of the constants the assumptions allow: any number
of payments, replicas, relays, requests, entries and faults, all bounds.

| Module | Theorems |
|---|---|
| `PaymentSagaProofs` | `Invariance`, `TypeCorrect`, `SweepsOnlyDeadSagas` (`SweptSagaIsDead`), `Refinement` (`ImplementsLifecycle`), `EventsFollowRows` (`EventTracksRow`), `PaidIsPaid` (`PaidMeansPaid`), `CreditsAreFunded` (`CreditIsFunded`), `AllOrNothing` (`OutcomeAtomic`) |
| `SettlementWindowProofs` | `TypeCorrect`, `NothingLostOrRepeated` (`KeptExactlyOnce`), `NettingCorrect` (`NettingIsExact`), `LedgerComplete` (`LedgerMirrorsBatch`), `StopIsClean` (`StopSettlesAll`), `WindowSettledOnce` (`SettledOnce`) |
| `OutboxRelayProofs` | `TypeCorrect`, `NoEventLost` (`PublishedIsInLog`), `DuplicatesBounded` (`DuplicatesNeedFaults`), `CommittedHandled` (`CommittedIsHandled`), `Refinement` (`ImplementsDelivery`) |
| `BankServiceProofs` | `TypeCorrect`, `BooksBalance` (`BalancesMatchSagas`), `NoRecordLeftOver` (`RecordIsOfAHold`) |
| `BankOnboardingProofs` | `TypeCorrect`, `AuditIsTrue` (`AuditMatchesChanges`), `RacesHaveOneWinner` (`OneWinner`), `Refinement` (`ImplementsBankLifecycle`), `TokensLive` (`TokenLivesUntilExpiry`) |
| `PaymentIntakeProofs` | `TypeCorrect`, `RetriesAreSafe` (`RetryIsSafe`), `RowsAreFaithful` (`RowKeepsRequest`), `StalenessBound` (`LookupStalenessBounded`), `OutcomesReported` (`OutcomeReported`), `NothingMissed` (`WalkMissesNothing`), `NothingMissedOnAnyPage` (the same for pages of any length) |
| `PortalViewsProofs` | `ScreensAgree` (`ViewsAgree`) |

Each module proves `Init => IInv` and `IInv /\ [Next]_vars => IInv'` with a lemma per
action, and its theorems from `IInv`.

### Assumptions

* `PaymentSaga`: `ConstantsAssumption` (types) and `TimingAssumption`: a saga has at
  least one tick and a reservation lives at least as long (60 s and 5 min in the code).
  `PaidMeansPaid` is about `"ack" \notin FaultKinds`, `CreditIsFunded` and
  `OutcomeAtomic` about `FaultKinds = {}`; the properties say so themselves.
* `SettlementWindow`: finitely many banks, entries with a bank on either side and a
  natural amount, `MaxSize >= 1`.
* `OutboxRelay`: ids are numbers, `BatchLimit >= 1`.
* `BankService`: finitely many payments, of positive amounts (`ValidateStep` refuses the
  others), between two different accounts. Balances from outside are any integers.
* `PortalSessions`, `BankOnboarding`: roles and certificates are well-formed, a token
  lives at least one tick, banks start in a status of the path or without a row.
* `PaymentIntake`: participants have distinct non-empty accounts, the routes of the
  seed have distinct keys, and the data banks send have the types of the fields; dates
  and codes are any texts, of which `Dates`, `Stamps`, `Char3`, `Char4` say which ones
  are understood and fit. The
  ids of requests are none of the three strings that stand for a missing value.

### The arguments

*PaymentSaga.* That an aborted payment stays aborted needs: a goroutine that writes
knows what it overwrites. `RowInv` says so as long as its context lives, and under an
expired context a write fails. A sweeper does not have a context that expires, so it
must never hold a payment whose goroutine can write, and that is `TimeInv`: the
deadline of a saga is at most `SagaTimeout` ahead when the reservation is recorded,
the reservation expires `ReservationTTL` later, so `deadline <= expiresAt`, and a
sweeper only picks rows with `expiresAt < now`. `ControlInv` bounds the step by the
place of the goroutine. `IInv = TypeOK /\ ControlInv /\ RowInv /\ TimeInv` is
inductive; `SweptSagaIsDead` and the refinement follow from it. None of the three
properties is inductive alone. `EventTracksRow` needs `RowInv` (a ROUTED row had the
LOOKED_UP event). `PaidMeansPaid` needs `PaidInv`, inductive relative to `IInv`, which
counts the effects of a goroutine with a live context and says that a row in its final
status is in no rollback and no sweep; with a lost commit acknowledgement a payment
recorded as settled would be rolled back. `CreditIsFunded` and `OutcomeAtomic` need
`AtomicInv`: without faults a goroutine never outlives its context and a reservation
never outlives its goroutine, so no sweeper finds any and the raced counter is never
read; a rollback starts before settlement and undoes one effect at a time, and the
effects present are those of the steps done.

*SettlementWindow.* Who closes the window takes all entries in the same critical
section (`OpenInv`), so what `Add` took is in the window or in the batch, each payment
once (`KeptInv`), and later calls of `Settle` find nothing. `NetInv` has the positions
of a closed window equal `calculateNetPositions(batch)`; that this loop computes credits
minus debits of every bank, and positions that add up to zero, is shown for every
sequence of entries by induction on its prefixes. `LedgerInv` follows the index of the
settler through the rows, `ExitInv` says `main` exits behind a closed window.

*OutboxRelay.* `LockInv`: rows held by a relay are PENDING and held by no other
relay. Hence a published but unmarked row is published by one relay only until its
transaction ends, and each further copy in the log has a failure of its own
(`DupInv`), a marked row is in the log (`PublishInv`), the log has committed rows only
(`LogInv`), which is the refinement, and the consumer passes no message unhandled
(`PassedInv`).

*BankService.* Each call, of a saga or of a sweeper, changes the sum of `held` or of
`given` over the payments of one account by one amount, and its balance by the same;
this is the first part of `BalancesMatchSagas`, for any number of releases and
reversals. The others need to know what a mishap is for: a payment without one has `held`
and `given` as its phase says, and one that no sweeper or restart has touched has them
at nothing or its amount, with the hold and the credit there when its saga comes to undo
them (`PayInv`); sweepers work only for payments whose saga has ended (`SweepInv`). Debits inside check the balance under the
lock, so a negative one was made outside.

*BankOnboarding.* `LockInv`: between `SELECT ... FOR UPDATE` and commit the row is what
the request has read, so a transition checked against it is still valid at the
`UPDATE`; this is the refinement. `ChangeInv` ties the place of a request to whether
it has changed something, and `AuditInv` the audit log to that. `WinnerInv` says what
a change leaves behind for good, and so why a second request fails. `SessionInv`
bounds the restarts by the faults.

*PaymentIntake.* `RetryIsSafe` and `RowKeepsRequest` are inductive together with
`RowInv` and `ControlInv`; their core are the lemmas on what parsing makes of each
layout, which dates survive it, that an amount survives floating point off by one
thousandth of a minor unit, and that reading a row back undoes storing it, up to the
padding. `LookupInv` has the reason for the staleness bound: a registration that a slow
lookup has read was replaced no sooner than its saga started, whose time limit bounds
how late it can reach the cache. `OutcomeInv` says what a saga at each place has
recorded and announced. `WalkMissesNothing` follows because rows are
only added and keep their `created_at`: as many rows as before, or more, are in front of
a row, and one without an equal was on one page only.

*PortalViews.* For every finite table, the numbers of the days add up to the rows of
the list, those of the reasons to the aborted rows, and the net positions of a day to
zero: a sum over rows equals the sum over groups of the sums within a group, here the
pairs of BIC and name. The page of a day is there exactly when fewer than `WindowDays`
newer days are listed to the switch, because both queries see the same days. The screens
are compared at one moment; between two moments only `WalkMissesNothing` holds.

*FoldTheorems.* The induction theorems of the library take a predicate as a parameter,
which the provers cannot instantiate. Stated with a set in place of the predicate
(`NatSetInduction`, `SubsetInduction`), induction over numbers and finite sets is
within reach. `SumIsFold` shows that the recursive function inside `SumFunctionOnSet`
exists and what it satisfies; the rest are the usual laws of finite sums.

### Only model-checked

Liveness: `ReservationResolved`, `SagaEnds`, `FullWindowSettles`, `EventPublished`,
`EventHandled` and `RequestEnds`, because fairness and ENABLED are out of the prover's
reach. The four findings are counterexamples, which TLC shows.

## 6. Plan

The modules of the plan are built (PaymentLifecycle, PaymentSaga, SettlementWindow,
EventDelivery and OutboxRelay, BankService, BankLifecycle with PortalSessions and
BankOnboarding, PaymentIntake with the modules it composes), and what the runs check is
proved, but for liveness. What could follow:

1. The relation between `PaymentIntake`, where the steps at the banks are one step, and
   `PaymentSaga`, where they are many: `PaymentIntake` as a second specification that
   `PaymentSaga` implements on the columns both have.
2. What holds of a saga with faults beyond `PaidMeansPaid`: which effects may remain
   after which fault, as a theorem instead of the finding `saga_partial`.
3. Shorter proofs where one action's frame is shown conjunct by conjunct.

## 7. Not modelled

* The mock bank client (a stand-in for development); middleware, replay protection
  and the circuit breaker (wired into no binary); certgen, configuration, telemetry
  and metrics (no protocol state); generated code under `api/`.
* The certificate service and the registry's look-up by thumbprint, which no handler
  uses; `ImportExternal` of lookup, a stub; reads without state (`SearchBanks`,
  `Report`, `listBanks`, `getBank`, `listCertificates`, `getMe`).
* The portal's export jobs: a row is inserted and nothing processes it.
* A list filtered by status or date beyond what `PortalViews` has; CORS and static
  files.
* Currencies: amounts are of one currency throughout.
* The overflow of 64-bit balances and sums.
