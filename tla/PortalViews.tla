---------------------------- MODULE PortalViews ----------------------------
(***************************************************************************)
(* The reading half of the portal: lists, dashboard and settlement screens *)
(* are queries over transaction_view, which triggers keep equal to the     *)
(* payment table. T is that table: a function from payment ids to rows     *)
(*   [source, sourceName, dest, destName, amount, status, reason, at],     *)
(* where at is created_at. The screens that run two statements see two     *)
(* tables: T at the first, U at the second.                                *)
(***************************************************************************)
EXTENDS Integers, FiniteSets, Functions

CONSTANTS
  DayLength,   \* ticks in a day
  WindowDays   \* the days GetSettlementWindow looks through (365)

All == "all"

\* WHERE source_bic = bic OR destination_bic = bic; a bank role sees no other.
Rows(T, bic) == { i \in DOMAIN T : bic = All \/ T[i].source = bic \/ T[i].dest = bic }

\* Mutant: the list is sorted by status first.
Before_ByStatus(T, i, j) ==
  \/ T[i].status = "ABORTED" /\ T[j].status # "ABORTED"
  \/ (T[i].status = "ABORTED" <=> T[j].status = "ABORTED") /\ T[i].at > T[j].at

\* ORDER BY created_at DESC and by nothing else.
Before(T, i, j) == T[i].at > T[j].at

\* LIMIT pageSize OFFSET (page - 1) * pageSize. Rows with the same created_at
\* come in any order, another one each time: a row may be on any page from
\* FirstPage, with its equals behind it, to LastPage, with them before it.
FirstPage(T, bic, i, pageSize) ==
  1 + Cardinality({ j \in Rows(T, bic) : Before(T, j, i) }) \div pageSize
LastPage(T, bic, i, pageSize) ==
  1 + (Cardinality({ j \in Rows(T, bic) : ~ Before(T, i, j) }) - 1) \div pageSize

\* The rows that may be on a page, with the total counted just before.
ListTransactions(T, U, bic, page, pageSize) ==
  [ data  |-> { i \in Rows(U, bic) :
                  page \in FirstPage(U, bic, i, pageSize)..LastPage(U, bic, i, pageSize) },
    total |-> Cardinality(Rows(T, bic)) ]

\* A payment's details, for the bank of the caller's claims or for switch staff.
txScopeCheck(bic, row) == bic = All \/ bic = row.source \/ bic = row.dest

getTransaction(T, bic, i) ==
  IF i \notin DOMAIN T THEN "404" ELSE IF txScopeCheck(bic, T[i]) THEN "200" ELSE "403"

\* Switch staff get an empty timeline for a payment that does not exist.
getTransactionTimeline(T, bic, i) ==
  IF bic = All THEN "200"
  ELSE IF i \notin DOMAIN T THEN "404" ELSE IF txScopeCheck(bic, T[i]) THEN "200" ELSE "403"

Since(T, bic, since) == { i \in Rows(T, bic) : T[i].at >= since }

Amounts(T, S) == SumFunction([i \in S |-> T[i].amount])

\* One bucket per period: an hour or a day, as parseDuration has it for the range.
Period(T, i, unit) == T[i].at \div unit

GetDashboardSummary(T, bic, since, unit) ==
  LET recent == Since(T, bic, since) IN
  [ d \in { Period(T, i, unit) : i \in recent } |->
      LET S == { i \in recent : Period(T, i, unit) = d }
      IN  [ total   |-> Cardinality(S),
            success |-> Cardinality({ i \in S : T[i].status \in {"COMMITTED", "SETTLED"} }),
            abort   |-> Cardinality({ i \in S : T[i].status = "ABORTED" }),
            amount  |-> Amounts(T, S) ] ]

\* Mutant: whatever has a reason is counted.
GetAbortReasons_AnyStatus(T, bic, since) ==
  LET S == { i \in Since(T, bic, since) : T[i].reason # "" }
  IN  [ c \in { T[i].reason : i \in S } |-> Cardinality({ i \in S : T[i].reason = c }) ]

Category(T, i) == IF T[i].reason = "" THEN "unknown" ELSE T[i].reason

GetAbortReasons(T, bic, since) ==
  LET S == { i \in Since(T, bic, since) : T[i].status = "ABORTED" }
  IN  [ c \in { Category(T, i) : i \in S } |-> Cardinality({ i \in S : Category(T, i) = c }) ]

\* The payments of a day, whatever became of them.
Day(T, i)        == Period(T, i, DayLength)
OfDay(T, bic, d) == { i \in Rows(T, bic) : Day(T, i) = d }

ListSettlementWindows(T, bic) ==
  [ d \in { Day(T, i) : i \in Rows(T, bic) } |-> Amounts(T, OfDay(T, bic, d)) ]

\* SELECT DISTINCT created_at::date ... ORDER BY ... DESC LIMIT 365, of all banks.
NewestDays(T) ==
  LET days == { Day(T, i) : i \in DOMAIN T }
  IN  { d \in days : Cardinality({ c \in days : c > d }) < WindowDays }

\* What each bank sent and received on a day, GROUP BY bic, bank_name: a bank
\* that was named in between has two positions.
Source(T, i) == <<T[i].source, T[i].sourceName>>
Dest(T, i)   == <<T[i].dest, T[i].destName>>

Positions(T, bic, d) ==
  LET S == OfDay(T, bic, d)
  IN  [ k \in { Source(T, i) : i \in S } \cup { Dest(T, i) : i \in S } |->
          [ sent |-> Amounts(T, { i \in S : Source(T, i) = k }),
            received |-> Amounts(T, { i \in S : Dest(T, i) = k }) ] ]

\* A day is looked up among the newest ones, also when the list shows it.
GetSettlementWindow(T, U, bic, d) ==
  IF d \in NewestDays(T) THEN [code |-> "200", positions |-> Positions(U, bic, d)]
  ELSE [code |-> "404"]

---------------------------------------------------------------------------
(***************************************************************************)
(* The handlers: a caller with a bank's role sees that bank, switch staff  *)
(* the bank they ask for, or all.                                          *)
(***************************************************************************)
Scope(own, asked) == IF own = All THEN asked ELSE own

listTransactions(T, U, own, asked, page, size) == ListTransactions(T, U, Scope(own, asked), page, size)
getDashboardSummary(T, own, asked, since, unit) == GetDashboardSummary(T, Scope(own, asked), since, unit)
getAbortReasons(T, own, asked, since)           == GetAbortReasons(T, Scope(own, asked), since)
listSettlementWindows(T, own, asked)            == ListSettlementWindows(T, Scope(own, asked))

\* The page of one day cannot be narrowed by switch staff.
getSettlementWindow(T, U, own, d) == GetSettlementWindow(T, U, own, d)

===========================================================================
