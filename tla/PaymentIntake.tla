--------------------------- MODULE PaymentIntake ---------------------------
(***************************************************************************)
(* From a bank's request to the reports about its payment. The gateway     *)
(* authenticates the sender, parses JSON or pacs.008, and creates the row; *)
(* the saga asks the lookup, routing, quoting and compliance services,     *)
(* moves the money and reports to the reconciliation and notification      *)
(* services; the portal shows the rows. A bank that got no answer, or an   *)
(* error, sends its payment again with the same end-to-end id.             *)
(*                                                                         *)
(* The steps at the bank and the rollback, of which PaymentSaga is the     *)
(* detailed model, are one step each here.                                 *)
(***************************************************************************)
EXTENDS Integers, Sequences, FiniteSets

CONSTANTS
  Requests,
  Participants,  \* participant id -> its BIC and account
  Senders,       \* the client certificates' common names a request may come
                 \* with, "" for none
  Bodies,        \* what it may ask for, and in which format
  Dates, Stamps, \* texts of dates, and what they mean: see Iso20022
  Char3, Char4,  \* texts for columns of a fixed width
  Names,         \* BIC -> the name under which the portal registers the bank
  SettlementEnabled,  \* whether the gateway is given a settlement service
  Callers,       \* pairs: the bank of a portal user, and the bank they ask for
  SeedRoutes, NewFee,
  DayLength, WindowDays,
  CacheTTL, QuoteTTL,
  SagaTimeout,   \* ticks until the context of a saga expires (60 s)
  MaxTime,       \* bound: the clock stops here
  MaxEvents      \* bound: faults (failed calls and statements, lost answers,
                 \* crashes) and administrative calls, together

\* The data of a payment. The string "NULL" stands for the absent value of a
\* column and is no text a bank sends.
Text        == STRING \ {"NULL"}
PaymentData == [ e2e : STRING, dest : STRING, acct : STRING, amount : Int, ccy : STRING,
                 uetr : Text, instr : Text, bearer : Text, date : Text, purp : Text, rmt : Text ]
RouteData   == [ key : STRING \X STRING \X STRING, fee : Nat ]

\* JSON; pacs.008 as the switch writes it; and as another bank does, with the
\* settlement date in the group header or in the transaction.
Shapes == {"json", "pacs008", "groupDate", "txDate"}

ASSUME IntakeAssumption ==
  /\ Requests \subseteq STRING \ {"", "none", "NULL"}
  /\ \A p \in DOMAIN Participants :
       Participants[p] \in [bic : STRING, account : STRING] /\ Participants[p].account # ""
  /\ \A p, q \in DOMAIN Participants : Participants[p].account = Participants[q].account => p = q
  /\ \A r \in Requests : Bodies[r] \subseteq [shape : Shapes, data : PaymentData]
  /\ "today" \in Dates /\ "" \notin Dates \cup DOMAIN Stamps /\ "NULL" \notin Dates
  /\ \A t \in DOMAIN Stamps : Stamps[t] \in Dates
  /\ "SLEV" \in DOMAIN Char4 /\ \A t \in DOMAIN Char4 : Char4[t] \notin {"", "NULL"}
  /\ SettlementEnabled \in BOOLEAN /\ DayLength \in Nat \ {0} /\ WindowDays \in Nat
  /\ SeedRoutes \in Seq(RouteData) /\ NewFee \in Nat
  /\ \A i, j \in 1..Len(SeedRoutes) : SeedRoutes[i].key = SeedRoutes[j].key => i = j
  /\ CacheTTL \in Nat /\ QuoteTTL \in Nat /\ SagaTimeout \in Nat
  /\ MaxTime \in Nat /\ MaxEvents \in Nat

VARIABLES
  now,
  answer,    \* what the sender of a request was told
  sent,      \* history: who sent a request that was parsed, how, and what for
  \* table payment and, kept equal to it by triggers, transaction_view
  payment,   \* the columns that never change
  createdAt, \* of the row, when its transaction began
  names,     \* of the two banks, in transaction_view: copied when the row is made
  status, reason, fee,
  \* the sagas
  pc,
  start,     \* when the context of a saga was made
  got,       \* the version of the bank the lookup has read
  notices,   \* who has been notified
  \* the services
  registry, cache, routes, quotes, records,
  named,     \* the banks the portal's table knows by name
  \* bounds
  faults, admin

rowVars     == <<payment, createdAt, names>>
columnVars  == <<status, reason, fee>>
serviceVars == <<registry, cache, routes, quotes, records>>
clientVars  == <<answer, sent>>
adminVars   == <<named, admin>>
vars == <<now, clientVars, rowVars, columnVars, pc, start, got, notices, serviceVars, faults, adminVars>>

Iso     == INSTANCE Iso20022
Lookup  == INSTANCE LookupService
Routing == INSTANCE RoutingService
Quoting == INSTANCE QuotingService
Recon   == INSTANCE ReconciliationService
Portal  == INSTANCE PortalViews

NoRow  == [id |-> "none"]
HasRow == { r \in Requests : payment[r] # NoRow }

\* The bank's steps end with the settle step, if main has configured it.
Final == IF SettlementEnabled THEN "SETTLED" ELSE "COMMITTED"

\* Mutant: the record for reconciliation is made before the bank is called.
sagaSteps_ReconciledEarly ==
  <<"validate", "lookup", "route", "quote", "screen", "recon", "bank", "notify", "done">>

\* The steps in the order main configures them.
sagaSteps == <<"validate", "lookup", "route", "quote", "screen", "bank", "recon", "notify", "done">>

After(s) == LET i == CHOOSE i \in 1..Len(sagaSteps) : sagaSteps[i] = s IN sagaSteps[i + 1]

StatusAfter(s) == CASE s = "validate" -> "VALIDATED" [] s = "lookup" -> "LOOKED_UP"
                    [] s = "route" -> "ROUTED" [] s = "quote" -> "QUOTED"
                    [] s = "screen" -> "SCREENED" [] s = "bank" -> Final

Running == {"validate", "lookup", "fill", "route", "quote", "screen", "bank", "recon", "notify"}
Ended   == {"done", "failed", "dead"}

TypeOK ==
  /\ now \in 0..MaxTime
  /\ answer \in [Requests -> {"none", "202", "400", "401", "409", "500", "lost"}]
  /\ pc \in [Requests -> {"new", "answered"} \cup Running \cup Ended]
  /\ \A r \in Requests : pc[r] \in Running \cup Ended => r \in HasRow
  /\ \A r \in HasRow : payment[r].id = r
  /\ status \in [Requests -> {"", "RECEIVED", "VALIDATED", "LOOKED_UP", "ROUTED", "QUOTED",
                              "SCREENED", Final, "ABORTED"}]
  /\ reason \in [Requests -> {""} \cup Running]
  /\ fee \in [Requests -> Nat] /\ createdAt \in [Requests -> 0..MaxTime]
  /\ start \in [Requests -> 0..MaxTime] /\ got \in [Requests -> 0..Lookup!Current]
  /\ notices \subseteq (Requests \X {"source", "dest"})
  /\ \A v \in 1..Len(registry) : registry[v] \in 0..MaxTime
  /\ cache.ver \in 0..Lookup!Current
  /\ \A i, j \in 1..Len(routes) : routes[i].key = routes[j].key => i = j
  /\ \A r \in Requests : quotes[r] # Quoting!NoQuote =>
       quotes[r].total = quotes[r].fee + payment[r].amount
  /\ \A r \in Requests : records[r] # Recon!NoRecord => records[r].amount = payment[r].amount
  /\ named \subseteq DOMAIN Names
  /\ faults \in Nat /\ admin \in Nat /\ faults + admin <= MaxEvents

Init ==
  /\ now = 0
  /\ answer = [r \in Requests |-> "none"] /\ sent = [r \in Requests |-> NoRow]
  /\ payment = [r \in Requests |-> NoRow]
  /\ status = [r \in Requests |-> ""] /\ reason = status
  /\ fee = [r \in Requests |-> 0] /\ createdAt = fee
  /\ names = [r \in Requests |-> [source |-> "", dest |-> ""]] /\ named = {}
  /\ pc = [r \in Requests |-> "new"] /\ start = fee /\ got = fee
  /\ notices = {}
  /\ Lookup!LookupInit /\ Routing!RoutingInit
  /\ Quoting!QuotingInit(Requests) /\ Recon!ReconciliationInit(Requests)
  /\ faults = 0 /\ admin = 0

NoFault == UNCHANGED faults
Fault   == faults + admin < MaxEvents /\ faults' = faults + 1

---------------------------------------------------------------------------
(***************************************************************************)
(* The gateway.                                                            *)
(***************************************************************************)
GetBankForParticipant(p) == Participants[p]

\* Whom a request comes from; without a certificate it is the default of
\* development.
tlsAuthMiddleware(cn) == IF cn = "" THEN "bank-a" ELSE cn

LookupAccount(a) == { Participants[p].bic : p \in { p \in DOMAIN Participants : Participants[p].account = a } }

\* The account of a camt.003 or JSON query, and the BIC in the answer.
AccountLookup(a) ==
  IF a = "" THEN "400" ELSE IF LookupAccount(a) = {} THEN "404" ELSE CHOOSE b \in LookupAccount(a) : TRUE

\* The row, and the status report made from it.
GetPayment(r) ==
  LET row == Iso!mapFromSQLC(payment[r])
  IN  [row |-> row, report |-> Iso!ToPacs002(row, status[r])]

\* See SubmitPayment for a body that does not parse.
Parsed(shape, d, e) ==
  CASE shape = "json" -> d
    [] shape = "pacs008" -> Iso!FromPacs008(Iso!ToPacs008(d, e))
    [] shape = "groupDate" -> Iso!FromPacs008(Iso!OtherPacs008(d, e, TRUE))
    [] shape = "txDate" -> Iso!FromPacs008(Iso!OtherPacs008(d, e, FALSE))

\* Mutant: the index is on the end-to-end id alone.
Duplicate_AnySource(p) == \E q \in HasRow : payment[q].e2e = p.e2e

\* UNIQUE (source_bic, end_to_end_id).
Duplicate(p) == \E q \in HasRow : payment[q].source = p.source /\ payment[q].e2e = p.e2e

\* The trigger casts the uetr to a UUID.
Uncastable(p) == p.uetr = "not-a-uuid"

Told(r, a) == answer' = [answer EXCEPT ![r] = a]

\* Refused without a trace in the database.
Refused(r, a) ==
  /\ Told(r, a) /\ pc' = [pc EXCEPT ![r] = "answered"]
  /\ UNCHANGED <<rowVars, status, start>>

\* The trigger's name for a bank: that of the portal's table, or the BIC.
NameOf(bic) == IF bic \in named THEN Names[bic] ELSE bic

\* CreateWithEvent commits the row. Its created_at is the time at which the
\* transaction began, and its names are those of that time, for good.
Created(r, p) ==
  /\ payment' = [payment EXCEPT ![r] = Iso!CreatePaymentParams(p)]
  /\ status' = [status EXCEPT ![r] = "RECEIVED"]
  /\ names' = [names EXCEPT ![r] = [source |-> NameOf(p.source), dest |-> NameOf(p.dest)]]
  /\ \E at \in 0..now : createdAt' = [createdAt EXCEPT ![r] = at]

\* processPaymentAsync starts, also when nobody hears the answer.
Accepted(r) ==
  /\ pc' = [pc EXCEPT ![r] = "validate"] /\ start' = [start EXCEPT ![r] = now]
  /\ \/ Told(r, "202") /\ NoFault
     \/ Told(r, "lost") /\ Fault

\* The commit is applied and its acknowledgement lost, or the process dies
\* before it starts the saga: a row without a saga.
Orphaned(r) ==
  /\ Fault /\ pc' = [pc EXCEPT ![r] = "dead"] /\ UNCHANGED start
  /\ Told(r, "500") \/ Told(r, "lost")

\* The statement fails on a text that is too long for its column, then on the
\* index, then in the trigger.
Insert(r, p) ==
  \/ ~ Iso!Fits(p) /\ Refused(r, "500") /\ NoFault
  \/ Iso!Fits(p) /\ Duplicate(p) /\ Refused(r, "409") /\ NoFault
  \/ Iso!Fits(p) /\ ~ Duplicate(p) /\ Uncastable(p) /\ Refused(r, "500") /\ NoFault
  \/ /\ Iso!Fits(p) /\ ~ Duplicate(p) /\ ~ Uncastable(p) /\ Created(r, p)
     /\ Accepted(r) \/ Orphaned(r)

SubmitPayment(r) ==
  /\ pc[r] = "new"
  /\ \E cn \in Senders[r], body \in Bodies[r] : LET who == tlsAuthMiddleware(cn) IN
       \/ who \notin DOMAIN Participants /\ Refused(r, "401") /\ NoFault /\ UNCHANGED sent
       \/ /\ who \in DOMAIN Participants
          /\ \/ Refused(r, "400") /\ NoFault /\ UNCHANGED sent
             \/ Refused(r, "500") /\ Fault /\ UNCHANGED sent
             \/ \E e \in Iso!Imprecision :
                  LET bank == GetBankForParticipant(who)
                      p    == Iso!buildPayment(Parsed(body.shape, body.data, e), r, bank.bic, bank.account)
                  IN  /\ sent' = [sent EXCEPT ![r] = [who |-> who, shape |-> body.shape, data |-> body.data]]
                      /\ Insert(r, p)
  /\ UNCHANGED <<now, reason, fee, got, notices, serviceVars, adminVars>>

---------------------------------------------------------------------------
(***************************************************************************)
(* The saga.                                                               *)
(***************************************************************************)
Alive(r) == now <= start[r] + SagaTimeout

At(r, s) == pc[r] = s /\ Alive(r)

Move(r, s)       == pc' = [pc EXCEPT ![r] = s]
Records(r, step) == status' = [status EXCEPT ![r] = StatusAfter(step)] /\ UNCHANGED reason

\* The saga works on the payment in memory, whose currency is not padded.
Currency(r) == sent[r].data.ccy
RouteKey(r) == <<payment[r].source, payment[r].dest, Currency(r)>>

Valid(r) ==
  /\ payment[r].amount > 0 /\ payment[r].source # "" /\ payment[r].dest # ""
  /\ payment[r].sourceAcct # "" /\ payment[r].acct # "" /\ Currency(r) # ""

\* The step succeeds, and its UpdateStatus too.
Passed(r, step) == Move(r, After(step)) /\ Records(r, step) /\ NoFault

\* A step refuses or fails: the rollback compensates validate, which makes the
\* row ABORTED, and processPaymentAsync notes the reason. When validate itself
\* refuses there is nothing to compensate.
RollBack(r) ==
  /\ pc[r] \in Running \ {"recon", "notify"} /\ Alive(r)
  /\ Move(r, "failed")
  /\ reason' = [reason EXCEPT ![r] = pc[r]]
  /\ \/ /\ status' = [status EXCEPT ![r] = IF pc[r] = "validate" THEN @ ELSE "ABORTED"]
        /\ IF pc[r] = "validate" /\ ~ Valid(r) THEN NoFault ELSE Fault
     \/ /\ pc[r] = "route" /\ ~ Routing!HasRoute(RouteKey(r))
        /\ status' = [status EXCEPT ![r] = "ABORTED"] /\ NoFault
     \/ Fault /\ UNCHANGED status
  /\ UNCHANGED <<now, clientVars, rowVars, fee, start, got, notices, serviceVars, adminVars>>

\* The context has expired: the rollback and the note fail like everything.
Expire(r) ==
  /\ pc[r] \in Running /\ ~ Alive(r)
  /\ Move(r, "failed")
  /\ NoFault
  /\ UNCHANGED <<now, clientVars, rowVars, columnVars, start, got, notices, serviceVars, adminVars>>

Validate(r) ==
  /\ At(r, "validate") /\ Valid(r) /\ Passed(r, "validate")
  /\ UNCHANGED <<now, clientVars, rowVars, fee, start, got, notices, serviceVars, adminVars>>

\* Lookup: answered from the cache, or read from the registry and on to Set.
LookupBIC(r) ==
  /\ At(r, "lookup")
  /\ \/ Lookup!Cached(now) /\ Passed(r, "lookup") /\ UNCHANGED got
     \/ /\ ~ Lookup!Cached(now) /\ Move(r, "fill") /\ got' = [got EXCEPT ![r] = Lookup!Current]
        /\ NoFault /\ UNCHANGED <<status, reason>>
  /\ UNCHANGED <<now, clientVars, rowVars, fee, start, notices, serviceVars, adminVars>>

\* Mutant: the cache is filled whether or not the caller still waits.
CanSet_Detached(r) == pc[r] = "fill"

\* Set runs under the deadline of the call.
CanSet(r) == At(r, "fill")

FillCache(r) ==
  /\ CanSet(r)
  /\ \/ Lookup!Set(got[r], now) /\ Passed(r, "lookup")
     \/ /\ Fault /\ Move(r, After("lookup")) /\ Records(r, "lookup")
        /\ UNCHANGED <<registry, cache>>
  /\ got' = [got EXCEPT ![r] = 0]
  /\ UNCHANGED <<now, clientVars, rowVars, fee, start, notices, routes, quotes, records, adminVars>>

Route(r) ==
  /\ At(r, "route") /\ Routing!HasRoute(RouteKey(r))
  /\ fee' = [fee EXCEPT ![r] = Routing!LookupRoute(RouteKey(r))]
  /\ Passed(r, "route")
  /\ UNCHANGED <<now, clientVars, rowVars, start, got, notices, serviceVars, adminVars>>

\* The quote is asked for and never accepted.
Quote(r) ==
  /\ At(r, "quote") /\ Quoting!CanQuote(payment[r]) /\ Passed(r, "quote")
  /\ Quoting!getQuote(r, payment[r], now)
  /\ UNCHANGED <<now, clientVars, rowVars, fee, start, got, notices,
                 registry, cache, routes, records, adminVars>>

\* The stub clears whatever has two BICs.
Screen(r) ==
  /\ At(r, "screen") /\ payment[r].source # "" /\ payment[r].dest # "" /\ Passed(r, "screen")
  /\ UNCHANGED <<now, clientVars, rowVars, fee, start, got, notices, serviceVars, adminVars>>

\* Reserve, commit and, where there is a settlement service, settle.
Bank(r) ==
  /\ At(r, "bank") /\ Passed(r, "bank")
  /\ UNCHANGED <<now, clientVars, rowVars, fee, start, got, notices, serviceVars, adminVars>>

\* An error of AddRecord is logged and dropped.
RecordReconciliation(r) ==
  /\ At(r, "recon") /\ Move(r, After("recon"))
  /\ \/ NoFault /\ Recon!Insert(r, payment[r].amount, status[r])
     \/ Fault /\ UNCHANGED records
  /\ UNCHANGED <<now, clientVars, rowVars, columnVars, start, got, notices,
                 registry, cache, routes, quotes, adminVars>>

\* So are the errors of the two calls of Notify.
Notify(r) ==
  /\ At(r, "notify") /\ Move(r, After("notify"))
  /\ \/ NoFault /\ notices' = notices \cup {<<r, "source">>, <<r, "dest">>}
     \/ \E side \in {"source", "dest"} : Fault /\ notices' = notices \cup {<<r, side>>}
  /\ UNCHANGED <<now, clientVars, rowVars, columnVars, start, got, serviceVars, adminVars>>

\* The gateway's process dies with its sagas.
Crash ==
  /\ Fault
  /\ pc' = [r \in Requests |-> IF pc[r] \in Running THEN "dead" ELSE pc[r]]
  /\ UNCHANGED <<now, clientVars, rowVars, columnVars, start, got, notices, serviceVars, adminVars>>

---------------------------------------------------------------------------
(***************************************************************************)
(* Administrative calls, restarts of the services, the clock.              *)
(***************************************************************************)
\* The portal's createBank; nothing renames a bank. See BankOnboarding.
CreateBank(b) == named' = named \cup {b}

Administer ==
  /\ faults + admin < MaxEvents /\ admin' = admin + 1
  /\ \/ Lookup!Register(now) /\ UNCHANGED <<routes, quotes, records, named>>
     \/ \E r \in HasRow : Routing!AddRoute(RouteKey(r), NewFee)
        /\ UNCHANGED <<registry, cache, quotes, records, named>>
     \/ \E r \in Requests : Quoting!AcceptQuote(r, now)
        /\ UNCHANGED <<registry, cache, routes, records, named>>
     \/ \E r \in Requests, s \in {Final, "ABORTED"} : Recon!Match(r, s)
        /\ UNCHANGED <<registry, cache, routes, quotes, named>>
     \/ \E b \in DOMAIN Names \ named : CreateBank(b) /\ UNCHANGED serviceVars
  /\ NoFault
  /\ UNCHANGED <<now, clientVars, rowVars, columnVars, pc, start, got, notices>>

\* The routing, quoting and reconciliation services keep nothing on disk.
RestartService ==
  /\ Fault
  /\ \/ Routing!Restart /\ UNCHANGED <<quotes, records>>
     \/ Quoting!Restart(Requests) /\ UNCHANGED <<routes, records>>
     \/ Recon!Restart(Requests) /\ UNCHANGED <<routes, quotes>>
  /\ UNCHANGED <<now, clientVars, rowVars, columnVars, pc, start, got, notices, registry, cache, adminVars>>

Tick ==
  /\ now < MaxTime /\ now' = now + 1 /\ NoFault
  /\ UNCHANGED <<clientVars, rowVars, columnVars, pc, start, got, notices, serviceVars, adminVars>>

SagaStep(r) ==
  \/ Validate(r) \/ LookupBIC(r) \/ FillCache(r) \/ Route(r) \/ Quote(r) \/ Screen(r)
  \/ Bank(r) \/ RecordReconciliation(r) \/ Notify(r) \/ RollBack(r) \/ Expire(r)

Next ==
  \/ \E r \in Requests : SubmitPayment(r) \/ SagaStep(r)
  \/ Crash \/ Administer \/ RestartService \/ Tick

Spec == Init /\ [][Next]_vars

---------------------------------------------------------------------------
(***************************************************************************)
(* Properties.                                                             *)
(***************************************************************************)

\* Sending a payment again is safe: a sender has at most one payment under an
\* end-to-end id, however its requests race, and the answers are true. 202
\* means there is a row, 400 and 401 that there is none, and 409 that another
\* request of the same sender has made the payment.
RetryIsSafe ==
  /\ \A r, q \in HasRow :
       payment[r].source = payment[q].source /\ payment[r].e2e = payment[q].e2e => r = q
  /\ \A r \in Requests :
       /\ answer[r] = "202" => r \in HasRow
       /\ answer[r] \in {"400", "401", "409"} => r \notin HasRow
       /\ answer[r] = "409" => \E q \in HasRow \ {r} :
            /\ payment[q].source = Participants[sent[r].who].bic
            /\ payment[q].e2e = sent[r].data.e2e

\* The dates the gateway understands: JSON has one layout, a pacs.008 two, and in
\* a pacs.008 only that of the header is read.
Understood(shape, t) ==
  \/ shape # "txDate" /\ t \in Dates
  \/ shape \in {"pacs008", "groupDate"} /\ t \in DOMAIN Stamps

Kept(p, who, shape, d) ==
  /\ \A f \in {"e2e", "dest", "acct", "amount", "rmt"} : p[f] = d[f]
  /\ \A f \in {"uetr", "instr"} : p[f] # "" /\ (d[f] # "" => p[f] = d[f])
  /\ p.ccy = Char3[d.ccy] /\ p.bearer = Char4[Iso!Or(d.bearer, "SLEV")]
  /\ p.purp = IF d.purp = "" THEN "" ELSE Char4[d.purp]
  /\ p.date = IF Understood(shape, d.date) THEN Iso!DateOf(d.date) ELSE "today"
  /\ p.source = Participants[who].bic
  /\ AccountLookup(p.sourceAcct) = p.source

\* The payment as GetPayment reads it back is the one the bank asked for, in
\* JSON or in a pacs.008 with an amount that went through floating point: ids,
\* parties, amount and remittance are kept, what was left out has its default,
\* the codes are kept up to the padding of their columns (and are not cut), and
\* the source is the sender's own account. The settlement date is kept when it
\* is one the gateway understands in that format, and is today's otherwise.
RowKeepsRequest ==
  \A r \in HasRow : Kept(GetPayment(r).row, sent[r].who, sent[r].shape, sent[r].data)

\* Whatever the cache answers is the newest registration of the bank, or one
\* that was replaced less than the TTL of the cache plus the time limit of a
\* saga ago: a slow lookup may file what it read before the change, but no
\* later than its deadline.
LookupStalenessBounded ==
  Lookup!Cached(now) /\ cache.ver # Lookup!Current =>
    now < registry[cache.ver + 1] + SagaTimeout + CacheTTL

\* What the reconciliation service and the two banks are told agrees with the
\* row and with GetPayment, for ever: a record or a notice is about a payment
\* in its final status, which is SETTLED, or COMMITTED in a switch without a
\* settlement service; and without a fault both are there in the end.
OutcomeReported ==
  \A r \in Requests :
    /\ records[r] # Recon!NoRecord \/ \E side \in {"source", "dest"} : <<r, side>> \in notices
         => status[r] = Final
            /\ GetPayment(r).report.txSts = IF SettlementEnabled THEN "ACSC" ELSE "ACCP"
    /\ records[r] # Recon!NoRecord => records[r].status = status[r]
    /\ pc[r] = "done" /\ faults = 0 =>
         records[r] # Recon!NoRecord /\ {<<r, "source">>, <<r, "dest">>} \subseteq notices

\* transaction_view.
Table == [ r \in HasRow |->
  [ source |-> payment[r].source, sourceName |-> names[r].source,
    dest |-> payment[r].dest, destName |-> names[r].dest, amount |-> payment[r].amount,
    status |-> status[r], reason |-> reason[r], at |-> createdAt[r] ] ]

BICs == { Participants[p].bic : p \in DOMAIN Participants } \cup {Portal!All}

\* No other row of the list has the same created_at.
Untied(T, b, r) == \A q \in Portal!Rows(T, b) \ {r} : T[q].at # T[r].at

\* From one table to a later one: every row is still listed, and so is its day;
\* a total counted before the page was read is none too many; and no row comes
\* to a page before those on which it could be. The page of a row without an
\* equal was one certain page, so that it is never on an earlier one.
NoRowMovesBack(T, U, n) ==
  \A b \in BICs :
    /\ DOMAIN Portal!ListSettlementWindows(T, b) \subseteq DOMAIN Portal!ListSettlementWindows(U, b)
    /\ Portal!ListTransactions(T, U, b, 1, n).total <= Cardinality(Portal!Rows(U, b))
    /\ \A r \in Portal!Rows(T, b) :
         /\ r \in Portal!Rows(U, b)
         /\ Portal!FirstPage(U, b, r, n) >= Portal!FirstPage(T, b, r, n)
         /\ Untied(T, b, r) => Portal!FirstPage(U, b, r, n) >= Portal!LastPage(T, b, r, n)

\* Someone who turns the pages of the transaction list, for one bank or for
\* all, while payments arrive and change, misses no payment that was there when
\* they began, except among payments with the very same created_at: the list
\* has no second key, and these may change places between two queries. (With
\* one row a page; NothingMissedOnAnyPage has it for longer ones.)
WalkMissesNothing ==
  [][\A T \in {Table}, U \in {Table'} : NoRowMovesBack(T, U, 1)]_<<rowVars, columnVars>>

Sum(f) == Portal!SumFunction(f)

\* The page of a day d, in the list of days of a caller, against that list: it
\* is missing when WindowDays newer days are listed to switch staff, and else
\* its positions add up to nothing and, in the same scope, to the sum of the
\* list, and a bank is shown its own positions as the switch is.
DayAgrees(T, own, asked, d) ==
  LET windows == Portal!listSettlementWindows(T, own, asked)
      page    == Portal!getSettlementWindow(T, T, own, d)
      full    == Portal!getSettlementWindow(T, T, Portal!All, d)
      pos     == page.positions
      newer   == { c \in DOMAIN Portal!listSettlementWindows(T, Portal!All, Portal!All) : c > d }
  IN  IF Cardinality(newer) >= WindowDays THEN page.code = "404"
      ELSE /\ page.code = "200"
           /\ Sum([k \in DOMAIN pos |-> pos[k].sent - pos[k].received]) = 0
           /\ Portal!Scope(own, asked) = own => Sum([k \in DOMAIN pos |-> pos[k].sent]) = windows[d]
           /\ \A k \in DOMAIN full.positions : own = k[1] => k \in DOMAIN pos /\ pos[k] = full.positions[k]

\* The screens of the portal agree with each other, for every caller, when they
\* are read while nothing changes, over a range that leaves older payments out:
\* the buckets of the dashboard and the reasons of aborted payments count the
\* payments of the list, whose total has room for each of them; the details and
\* the timeline open for the listed ones and no other; and the page of every
\* listed day agrees with the list.
ViewsAgree ==
  LET since == now - 1 IN
  \A T \in {Table}, c \in Callers :
    LET own   == c[1]
        asked == c[2]
        scope == Portal!Scope(own, asked)
        rows  == Portal!Rows(T, scope)
        dash  == Portal!getDashboardSummary(T, own, asked, since, DayLength)
    IN  /\ Sum([d \in DOMAIN dash |-> dash[d].total]) = Cardinality({r \in rows : T[r].at >= since})
        /\ Sum([d \in DOMAIN dash |-> dash[d].abort]) = Sum(Portal!getAbortReasons(T, own, asked, since))
        /\ \A r \in rows : Portal!LastPage(T, scope, r, 1)
                             <= Portal!listTransactions(T, T, own, asked, 1, 1).total
        /\ \A r \in DOMAIN T :
             /\ Portal!getTransaction(T, own, r) = "200" <=> r \in Portal!Rows(T, own)
             /\ r \in rows => Portal!getTransaction(T, own, r) = "200"
             /\ Portal!getTransactionTimeline(T, own, r) = Portal!getTransaction(T, own, r)
        /\ \A d \in DOMAIN Portal!listSettlementWindows(T, own, asked) : DayAgrees(T, own, asked, d)

===========================================================================
