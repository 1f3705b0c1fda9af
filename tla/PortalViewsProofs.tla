-------------------------- MODULE PortalViewsProofs ------------------------
(***************************************************************************)
(* The screens of the portal agree with each other. The lemmas hold for    *)
(* every finite table; the theorem is about the one the switch keeps.      *)
(***************************************************************************)
EXTENDS PaymentIntakeProofs

---------------------------------------------------------------------------
(***************************************************************************)
(* The columns by which the queries group, and the one they add up.        *)
(***************************************************************************)
AmountOf(T)   == [i \in DOMAIN T |-> T[i].amount]
PeriodOf(T, unit) == [i \in DOMAIN T |-> Portal!Period(T, i, unit)]
SourceOf(T)   == [i \in DOMAIN T |-> Portal!Source(T, i)]
DestOf(T)     == [i \in DOMAIN T |-> Portal!Dest(T, i)]
CategoryOf(T) == [i \in DOMAIN T |-> Portal!Category(T, i)]

IsTable(T) == IsFiniteSet(DOMAIN T) /\ \A i \in DOMAIN T : T[i].amount \in Int

\* The portal's SUM is the sum of FoldTheorems.
LEMMA PortalSum == \A f : Portal!SumFunction(f) = SumFunctionOnSet(f, DOMAIN f)
  BY DEF Portal!SumFunction, Portal!SumFunctionOnSet, Portal!FoldFunctionOnSet,
     Portal!MapThenFoldSet, SumFunctionOnSet, FoldFunctionOnSet, MapThenFoldSet

\* SUM(amount) over some rows.
LEMMA AmountsAreSums ==
  ASSUME NEW T, IsTable(T), NEW S, S \subseteq DOMAIN T
  PROVE  /\ IsFiniteSet(S) /\ \A i \in S : AmountOf(T)[i] \in Int
         /\ Portal!Amounts(T, S) = SumFunctionOnSet(AmountOf(T), S)
         /\ Portal!Amounts(T, S) \in Int
  <1> DEFINE f == [i \in S |-> T[i].amount]
  <1>1. IsFiniteSet(S) /\ \A i \in S : AmountOf(T)[i] \in Int
    BY FS_Subset DEF IsTable, AmountOf
  <1>2. DOMAIN f = S /\ \A i \in S : f[i] = AmountOf(T)[i]
    BY DEF AmountOf
  <1>3. Portal!Amounts(T, S) = SumFunctionOnSet(f, S)
    BY PortalSum DEF Portal!Amounts
  <1> HIDE DEF f
  <1>4. SumFunctionOnSet(f, S) = SumFunctionOnSet(AmountOf(T), S)
    BY <1>1, <1>2, SumCongruence
  <1>5. SumFunctionOnSet(AmountOf(T), S) \in Int
    BY <1>1, SumType
  <1> QED BY <1>1, <1>3, <1>4, <1>5

\* The values of a column are finitely many.
LEMMA ColumnFinite ==
  ASSUME NEW f, NEW S, IsFiniteSet(S)
  PROVE  IsFiniteSet({ f[i] : i \in S })
  <1> DEFINE C == { f[i] : i \in S }
             g == [i \in S |-> f[i]]
  <1>1. g \in [S -> C] /\ \A c \in C : \E i \in S : g[i] = c
    OBVIOUS
  <1> HIDE DEF C, g
  <1>2. g \in Surjection(S, C)
    BY <1>1 DEF Surjection
  <1>3. IsFiniteSet(C)
    BY <1>2, FS_Surjection
  <1> QED BY <1>3 DEF C

---------------------------------------------------------------------------
(***************************************************************************)
(* The dashboard and the reasons.                                          *)
(***************************************************************************)

\* The buckets of GetDashboardSummary split the payments of its range by period.
LEMMA DashboardCounts ==
  ASSUME NEW T, IsTable(T), NEW bic, NEW since, NEW unit,
         NEW dash, dash = Portal!GetDashboardSummary(T, bic, since, unit)
  PROVE  /\ Sum([d \in DOMAIN dash |-> dash[d].total]) = Cardinality(Portal!Since(T, bic, since))
         /\ Sum([d \in DOMAIN dash |-> dash[d].abort]) =
              Cardinality({ i \in Portal!Since(T, bic, since) : T[i].status = "ABORTED" })
  <1> DEFINE recent == Portal!Since(T, bic, since)
             S == { i \in recent : T[i].status = "ABORTED" }
             C == { PeriodOf(T, unit)[i] : i \in recent }
             total == [d \in DOMAIN dash |-> dash[d].total]
             abort == [d \in DOMAIN dash |-> dash[d].abort]
  <1>1. recent \subseteq DOMAIN T /\ S \subseteq recent
    BY DEF Portal!Since, Portal!Rows
  <1>2. IsFiniteSet(recent) /\ IsFiniteSet(S)
    BY <1>1, FS_Subset DEF IsTable
  <1>3. IsFiniteSet(C)
    <2> HIDE DEF recent
    <2> QED BY <1>2, ColumnFinite
  <1>4. DOMAIN dash = C
    <2>1. DOMAIN dash = { Portal!Period(T, i, unit) : i \in recent }
      BY DEF Portal!GetDashboardSummary
    <2>2. \A i \in recent : PeriodOf(T, unit)[i] = Portal!Period(T, i, unit)
      BY <1>1 DEF PeriodOf
    <2> HIDE DEF recent
    <2> QED BY <2>1, <2>2
  <1>5. ASSUME NEW d \in C
        PROVE  /\ total[d] = Cardinality(Class(recent, PeriodOf(T, unit), d))
               /\ abort[d] = Cardinality(Class(S, PeriodOf(T, unit), d))
    <2> DEFINE B == { i \in recent : Portal!Period(T, i, unit) = d }
    <2>1. /\ dash[d].total = Portal!Cardinality(B)
          /\ dash[d].abort = Portal!Cardinality({ i \in B : T[i].status = "ABORTED" })
      BY <1>4 DEF Portal!GetDashboardSummary
    <2>2. B = Class(recent, PeriodOf(T, unit), d)
      BY <1>1 DEF Class, PeriodOf
    <2>3. { i \in B : T[i].status = "ABORTED" } = Class(S, PeriodOf(T, unit), d)
      BY <1>1 DEF Class, PeriodOf
    <2> HIDE DEF B, S, C, recent
    <2> QED BY <1>4, <1>5, <2>1, <2>2, <2>3, PortalCardinality
  <1>6. (\A i \in recent : PeriodOf(T, unit)[i] \in C) /\ (\A i \in S : PeriodOf(T, unit)[i] \in C)
    OBVIOUS
  <1>7. DOMAIN total = C /\ DOMAIN abort = C
    BY <1>4
  <1> HIDE DEF recent, S, C, total, abort
  <1>8. SumFunctionOnSet(total, C) = Cardinality(recent)
    BY <1>2, <1>3, <1>5, <1>6, CountByClass
  <1>9. SumFunctionOnSet(abort, C) = Cardinality(S)
    BY <1>2, <1>3, <1>5, <1>6, CountByClass
  <1>10. Sum(total) = Cardinality(recent) /\ Sum(abort) = Cardinality(S)
    BY <1>7, <1>8, <1>9, PortalSum DEF Sum
  <1> QED BY <1>10 DEF recent, S, total, abort

\* GetAbortReasons splits the aborted payments of its range by category.
LEMMA ReasonCounts ==
  ASSUME NEW T, IsTable(T), NEW bic, NEW since
  PROVE  Sum(Portal!GetAbortReasons(T, bic, since)) =
           Cardinality({ i \in Portal!Since(T, bic, since) : T[i].status = "ABORTED" })
  <1> DEFINE S == { i \in Portal!Since(T, bic, since) : T[i].status = "ABORTED" }
             C == { CategoryOf(T)[i] : i \in S }
             g == Portal!GetAbortReasons(T, bic, since)
  <1>1. S \subseteq DOMAIN T
    BY DEF Portal!Since, Portal!Rows
  <1>2. IsFiniteSet(S)
    <2> HIDE DEF S
    <2> QED BY <1>1, FS_Subset DEF IsTable
  <1>3. IsFiniteSet(C)
    <2> HIDE DEF S
    <2> QED BY <1>2, ColumnFinite
  <1>4. \A i \in S : CategoryOf(T)[i] = Portal!Category(T, i)
    BY <1>1 DEF CategoryOf
  <1>5. g = [ c \in { Portal!Category(T, i) : i \in S } |->
                Portal!Cardinality({ i \in S : Portal!Category(T, i) = c }) ]
    BY DEF Portal!GetAbortReasons
  <1> HIDE DEF g, S
  <1>6. DOMAIN g = C
    BY <1>4, <1>5
  <1>7. ASSUME NEW c \in C PROVE g[c] = Cardinality(Class(S, CategoryOf(T), c))
    <2>1. { i \in S : Portal!Category(T, i) = c } = Class(S, CategoryOf(T), c)
      BY <1>4 DEF Class
    <2>2. g[c] = Portal!Cardinality({ i \in S : Portal!Category(T, i) = c })
      BY <1>4, <1>5
    <2> QED BY <2>1, <2>2, PortalCardinality
  <1>8. \A i \in S : CategoryOf(T)[i] \in C
    OBVIOUS
  <1> HIDE DEF C
  <1>9. SumFunctionOnSet(g, C) = Cardinality(S)
    BY <1>2, <1>3, <1>7, <1>8, CountByClass
  <1> QED BY <1>6, <1>9, PortalSum DEF Sum, g, S

---------------------------------------------------------------------------
(***************************************************************************)
(* The settlement screens.                                                 *)
(***************************************************************************)

\* Every payment of a day is sent under one bic and name of GetSettlementWindow's
\* positions and received under one.
LEMMA PositionsAddUp ==
  ASSUME NEW T, IsTable(T), NEW bic, NEW d, NEW pos, pos = Portal!Positions(T, bic, d)
  PROVE  /\ Sum([x \in DOMAIN pos |-> pos[x].sent]) = Portal!Amounts(T, Portal!OfDay(T, bic, d))
         /\ Sum([x \in DOMAIN pos |-> pos[x].sent - pos[x].received]) = 0
  <1> DEFINE S == Portal!OfDay(T, bic, d)
             C == { SourceOf(T)[i] : i \in S } \cup { DestOf(T)[i] : i \in S }
             sentBy     == [x \in DOMAIN pos |-> pos[x].sent]
             receivedBy == [x \in DOMAIN pos |-> pos[x].received]
             net        == [x \in DOMAIN pos |-> pos[x].sent - pos[x].received]
             A == SumFunctionOnSet(AmountOf(T), S)
  <1>1. S \subseteq DOMAIN T
    BY DEF Portal!OfDay, Portal!Rows
  <1>2. \A i \in S : SourceOf(T)[i] = Portal!Source(T, i) /\ DestOf(T)[i] = Portal!Dest(T, i)
    BY <1>1 DEF SourceOf, DestOf
  <1>3. /\ DOMAIN pos = { Portal!Source(T, i) : i \in S } \cup { Portal!Dest(T, i) : i \in S }
        /\ \A b \in DOMAIN pos :
             /\ pos[b].sent = Portal!Amounts(T, { i \in S : Portal!Source(T, i) = b })
             /\ pos[b].received = Portal!Amounts(T, { i \in S : Portal!Dest(T, i) = b })
    BY DEF Portal!Positions
  <1> HIDE DEF S
  <1>4. DOMAIN pos = C
    BY <1>2, <1>3
  <1>5. IsFiniteSet(S) /\ (\A i \in S : AmountOf(T)[i] \in Int) /\ Portal!Amounts(T, S) = A
        /\ A \in Int
    BY <1>1, AmountsAreSums
  <1>6. IsFiniteSet(C)
    BY <1>5, ColumnFinite, FS_Union
  <1>7. \A i \in S : SourceOf(T)[i] \in C /\ DestOf(T)[i] \in C
    OBVIOUS
  <1>8. ASSUME NEW b \in C
        PROVE  /\ sentBy[b] = SumFunctionOnSet(AmountOf(T), Class(S, SourceOf(T), b)) /\ sentBy[b] \in Int
               /\ receivedBy[b] = SumFunctionOnSet(AmountOf(T), Class(S, DestOf(T), b))
               /\ receivedBy[b] \in Int /\ net[b] = sentBy[b] - receivedBy[b]
    <2>1. /\ { i \in S : Portal!Source(T, i) = b } = Class(S, SourceOf(T), b)
          /\ { i \in S : Portal!Dest(T, i) = b } = Class(S, DestOf(T), b)
      BY <1>2 DEF Class
    <2>2. Class(S, SourceOf(T), b) \subseteq DOMAIN T /\ Class(S, DestOf(T), b) \subseteq DOMAIN T
      BY <1>1 DEF Class
    <2> HIDE DEF C
    <2>3. /\ sentBy[b] = Portal!Amounts(T, Class(S, SourceOf(T), b))
          /\ receivedBy[b] = Portal!Amounts(T, Class(S, DestOf(T), b))
          /\ net[b] = sentBy[b] - receivedBy[b]
      BY <1>3, <1>4, <1>8, <2>1
    <2> HIDE DEF sentBy, receivedBy, net
    <2> QED BY <2>2, <2>3, AmountsAreSums
  <1>9. DOMAIN sentBy = C /\ DOMAIN net = C
    BY <1>4
  <1> HIDE DEF C, sentBy, receivedBy, net
  <1>10. SumFunctionOnSet(sentBy, C) = A
    BY <1>5, <1>6, <1>7, <1>8, SumByClass
  <1>11. SumFunctionOnSet(receivedBy, C) = A
    BY <1>5, <1>6, <1>7, <1>8, SumByClass
  <1>12. SumFunctionOnSet(net, C) = SumFunctionOnSet(sentBy, C) - SumFunctionOnSet(receivedBy, C)
    BY <1>6, <1>8, SumDifference
  <1>13. Sum(sentBy) = Portal!Amounts(T, S) /\ Sum(net) = 0
    BY <1>5, <1>9, <1>10, <1>11, <1>12, PortalSum DEF Sum
  <1> QED BY <1>13 DEF sentBy, net, S

\* The positions under a bank's own BIC are the same in its page and in the
\* switch's: every payment of that bank is in its scope.
LEMMA OwnPosition ==
  ASSUME NEW T, NEW own, NEW d, own # Portal!All, NEW full, full = Portal!Positions(T, Portal!All, d),
         NEW pos, pos = Portal!Positions(T, own, d), NEW k \in DOMAIN full, k[1] = own
  PROVE  k \in DOMAIN pos /\ pos[k] = full[k]
  <1> DEFINE S == Portal!OfDay(T, own, d)
             A == Portal!OfDay(T, Portal!All, d)
  <1>1. \A i \in A : Portal!Source(T, i) = k \/ Portal!Dest(T, i) = k => i \in S
    BY DEF Portal!OfDay, Portal!Rows, Portal!Source, Portal!Dest
  <1>2. S \subseteq A
    BY DEF Portal!OfDay, Portal!Rows
  <1> HIDE DEF S, A
  <1>3. k \in { Portal!Source(T, i) : i \in A } \cup { Portal!Dest(T, i) : i \in A }
    BY DEF Portal!Positions, A
  <1>4. k \in { Portal!Source(T, i) : i \in S } \cup { Portal!Dest(T, i) : i \in S }
    BY <1>1, <1>3
  <1>5. /\ { i \in S : Portal!Source(T, i) = k } = { i \in A : Portal!Source(T, i) = k }
        /\ { i \in S : Portal!Dest(T, i) = k } = { i \in A : Portal!Dest(T, i) = k }
    BY <1>1, <1>2
  <1>6. k \in DOMAIN pos /\ pos[k] =
          [ sent |-> Portal!Amounts(T, { i \in S : Portal!Source(T, i) = k }),
            received |-> Portal!Amounts(T, { i \in S : Portal!Dest(T, i) = k }) ]
    BY <1>4 DEF Portal!Positions, S
  <1>7. full[k] =
          [ sent |-> Portal!Amounts(T, { i \in A : Portal!Source(T, i) = k }),
            received |-> Portal!Amounts(T, { i \in A : Portal!Dest(T, i) = k }) ]
    BY <1>3 DEF Portal!Positions, A
  <1> QED BY <1>5, <1>6, <1>7, Zenon

\* GetSettlementWindow finds a listed day unless the list of all banks has
\* WindowDays newer ones.
LEMMA PageOfListedDay ==
  ASSUME NEW T, IsTable(T), NEW own, NEW asked, NEW d,
         d \in DOMAIN Portal!listSettlementWindows(T, own, asked),
         NEW newer,
         newer = { c \in DOMAIN Portal!listSettlementWindows(T, Portal!All, Portal!All) : c > d }
  PROVE  d \in Portal!NewestDays(T) <=> ~ (Cardinality(newer) >= WindowDays)
  <1> DEFINE days == { Portal!Day(T, i) : i \in DOMAIN T }
             later == { c \in days : c > d }
  <1>1. DOMAIN Portal!listSettlementWindows(T, Portal!All, Portal!All) = days
    BY DEF Portal!listSettlementWindows, Portal!ListSettlementWindows, Portal!Scope, Portal!Rows
  <1>2. d \in days
    BY DEF Portal!listSettlementWindows, Portal!ListSettlementWindows, Portal!Rows
  <1>3. newer = later
    BY <1>1
  <1>4. IsFiniteSet(days)
    <2> DEFINE f == [i \in DOMAIN T |-> Portal!Day(T, i)]
    <2>1. IsFiniteSet({ f[i] : i \in DOMAIN T })
      <3> HIDE DEF f
      <3> QED BY ColumnFinite DEF IsTable
    <2>2. { f[i] : i \in DOMAIN T } = days
      OBVIOUS
    <2> QED BY <2>1, <2>2, Zenon
  <1>5. Portal!NewestDays(T) = { x \in days : Cardinality({ c \in days : c > x }) < WindowDays }
    BY PortalCardinality, Zenon DEF Portal!NewestDays
  <1>6. IsFiniteSet(later)
    <2> HIDE DEF days
    <2> QED BY <1>4, FS_Subset
  <1> HIDE DEF days
  <1>7. d \in Portal!NewestDays(T) <=> Cardinality(later) < WindowDays
    BY <1>2, <1>5
  <1> HIDE DEF later
  <1>8. Cardinality(later) \in Nat /\ WindowDays \in Nat
    BY <1>6, FS_CardinalityType, IntakeAssumption
  <1> QED BY <1>3, <1>7, <1>8

\* The page of a listed day agrees with the list.
LEMMA DaysAgree ==
  ASSUME NEW T, IsTable(T), NEW own, NEW asked,
         NEW d \in DOMAIN Portal!listSettlementWindows(T, own, asked)
  PROVE  DayAgrees(T, own, asked, d)
  <1> DEFINE windows == Portal!listSettlementWindows(T, own, asked)
             page    == Portal!getSettlementWindow(T, T, own, d)
             full    == Portal!getSettlementWindow(T, T, Portal!All, d)
             newer   == { c \in DOMAIN Portal!listSettlementWindows(T, Portal!All, Portal!All) : c > d }
             pos     == Portal!Positions(T, own, d)
             all     == Portal!Positions(T, Portal!All, d)
  <1>1. d \in Portal!NewestDays(T) <=> ~ (Cardinality(newer) >= WindowDays)
    <2> HIDE DEF newer
    <2> QED BY PageOfListedDay DEF newer
  <1>2. Cardinality(newer) >= WindowDays => page.code = "404"
    <2> HIDE DEF newer
    <2> QED BY <1>1 DEF Portal!getSettlementWindow, Portal!GetSettlementWindow
  <1>3. ~ (Cardinality(newer) >= WindowDays) =>
          page.code = "200" /\ page.positions = pos /\ full.positions = all
    <2> HIDE DEF newer, pos, all
    <2> QED BY <1>1 DEF Portal!getSettlementWindow, Portal!GetSettlementWindow, pos, all
  <1>4. /\ Sum([k \in DOMAIN pos |-> pos[k].sent]) = Portal!Amounts(T, Portal!OfDay(T, own, d))
        /\ Sum([k \in DOMAIN pos |-> pos[k].sent - pos[k].received]) = 0
    <2> HIDE DEF pos
    <2> QED BY PositionsAddUp DEF pos
  <1>5. windows[d] = Portal!Amounts(T, Portal!OfDay(T, Portal!Scope(own, asked), d))
    BY DEF Portal!listSettlementWindows, Portal!ListSettlementWindows
  <1>6. \A k \in DOMAIN all : own = k[1] => k \in DOMAIN pos /\ pos[k] = all[k]
    <2>1. CASE own = Portal!All
      BY <2>1
    <2>2. CASE own # Portal!All
      <3> HIDE DEF pos, all
      <3> QED BY <2>2, OwnPosition DEF pos, all
    <2> QED BY <2>1, <2>2
  <1> HIDE DEF windows, page, full, newer, pos, all
  <1>7. IF Cardinality(newer) >= WindowDays THEN page.code = "404"
        ELSE /\ page.code = "200"
             /\ Sum([k \in DOMAIN page.positions |-> page.positions[k].sent - page.positions[k].received]) = 0
             /\ Portal!Scope(own, asked) = own =>
                  Sum([k \in DOMAIN page.positions |-> page.positions[k].sent]) = windows[d]
             /\ \A k \in DOMAIN full.positions : own = k[1] =>
                  k \in DOMAIN page.positions /\ page.positions[k] = full.positions[k]
    BY <1>2, <1>3, <1>4, <1>5, <1>6, Zenon
  <1> QED BY <1>7, Zenon DEF DayAgrees, windows, page, full, newer

\* The total of the list has room for every row, wherever its equals put it.
LEMMA TotalHasRoom ==
  ASSUME NEW T, IsTable(T), NEW own, NEW asked, NEW scope, scope = Portal!Scope(own, asked),
         NEW r \in Portal!Rows(T, scope)
  PROVE  Portal!LastPage(T, scope, r, 1) <= Portal!listTransactions(T, T, own, asked, 1, 1).total
  <1> DEFINE R == Portal!Rows(T, scope)
             V == { j \in R : ~ Portal!Before(T, r, j) }
  <1>1. R \subseteq DOMAIN T
    BY DEF Portal!Rows
  <1>2. /\ Portal!LastPage(T, scope, r, 1) = 1 + (Cardinality(V) - 1) \div 1
        /\ Portal!listTransactions(T, T, own, asked, 1, 1).total = Cardinality(R)
    BY PortalCardinality DEF Portal!LastPage, Portal!listTransactions, Portal!ListTransactions
  <1> HIDE DEF R
  <1>3. IsFiniteSet(R)
    BY <1>1, FS_Subset DEF IsTable
  <1>4. V \subseteq R
    OBVIOUS
  <1> HIDE DEF V
  <1>5. IsFiniteSet(V) /\ Cardinality(V) <= Cardinality(R)
    BY <1>3, <1>4, FS_Subset
  <1>6. Cardinality(V) \in Nat /\ Cardinality(R) \in Nat
    BY <1>3, <1>5, FS_CardinalityType
  <1> QED BY <1>2, <1>5, <1>6

---------------------------------------------------------------------------
(***************************************************************************)
(* The theorem.                                                            *)
(***************************************************************************)

\* transaction_view is a finite table with whole amounts.
LEMMA TableIsTable == IInv => IsTable(Table)
  BY DEF IInv, BaseInv, RowInv, IsTable, Table

\* txScopeCheck opens the rows that the list shows.
LEMMA DetailsOfListed ==
  ASSUME NEW T, NEW own, NEW asked, NEW r \in DOMAIN T
  PROVE  /\ Portal!getTransaction(T, own, r) = "200" <=> r \in Portal!Rows(T, own)
         /\ r \in Portal!Rows(T, Portal!Scope(own, asked)) => Portal!getTransaction(T, own, r) = "200"
         /\ Portal!getTransactionTimeline(T, own, r) = Portal!getTransaction(T, own, r)
  BY DEF Portal!getTransaction, Portal!getTransactionTimeline, Portal!txScopeCheck, Portal!Rows,
     Portal!Scope

\* At any time and for every caller the portal's screens agree.
THEOREM ScreensAgree == Spec => []ViewsAgree
  <1>1. ASSUME IInv PROVE ViewsAgree
    <2> DEFINE since == now - 1
    <2> SUFFICES ASSUME NEW T \in {Table}, NEW c \in Callers
        PROVE
          LET own   == c[1]
              asked == c[2]
              scope == Portal!Scope(own, asked)
              rows  == Portal!Rows(T, scope)
              dash  == Portal!getDashboardSummary(T, own, asked, since, DayLength)
          IN  /\ Sum([d \in DOMAIN dash |-> dash[d].total]) = Cardinality({r \in rows : T[r].at >= since})
              /\ Sum([d \in DOMAIN dash |-> dash[d].abort]) = Sum(Portal!getAbortReasons(T, own, asked, since))
              /\ \A r \in rows : Portal!LastPage(T, scope, r, 1)
                                   <= Portal!listTransactions(T, T, own, asked, 1, 1).total
              /\ \A r \in DOMAIN T :
                   /\ Portal!getTransaction(T, own, r) = "200" <=> r \in Portal!Rows(T, own)
                   /\ r \in rows => Portal!getTransaction(T, own, r) = "200"
                   /\ Portal!getTransactionTimeline(T, own, r) = Portal!getTransaction(T, own, r)
              /\ \A d \in DOMAIN Portal!listSettlementWindows(T, own, asked) : DayAgrees(T, own, asked, d)
      BY Zenon DEF ViewsAgree
    <2>0. IsTable(T)
      BY <1>1, TableIsTable
    <2> DEFINE own   == c[1]
               asked == c[2]
               scope == Portal!Scope(own, asked)
               rows  == Portal!Rows(T, scope)
               dash  == Portal!getDashboardSummary(T, own, asked, since, DayLength)
    <2> HIDE DEF since, own, asked
    <2>1. dash = Portal!GetDashboardSummary(T, scope, since, DayLength)
      BY DEF Portal!getDashboardSummary
    <2>2. Portal!Since(T, scope, since) = {r \in rows : T[r].at >= since}
      BY DEF Portal!Since
    <2>3. Portal!getAbortReasons(T, own, asked, since) = Portal!GetAbortReasons(T, scope, since)
      BY DEF Portal!getAbortReasons
    <2>4. /\ Sum([d \in DOMAIN dash |-> dash[d].total]) = Cardinality({r \in rows : T[r].at >= since})
          /\ Sum([d \in DOMAIN dash |-> dash[d].abort]) = Sum(Portal!getAbortReasons(T, own, asked, since))
      <3> HIDE DEF dash, scope
      <3>1. /\ Sum([d \in DOMAIN dash |-> dash[d].total]) = Cardinality(Portal!Since(T, scope, since))
            /\ Sum([d \in DOMAIN dash |-> dash[d].abort]) =
                 Cardinality({ i \in Portal!Since(T, scope, since) : T[i].status = "ABORTED" })
        BY <2>0, <2>1, DashboardCounts
      <3>2. Sum(Portal!GetAbortReasons(T, scope, since)) =
              Cardinality({ i \in Portal!Since(T, scope, since) : T[i].status = "ABORTED" })
        BY <2>0, ReasonCounts
      <3> QED BY <2>2, <2>3, <3>1, <3>2, Zenon
    <2>5. \A r \in rows : Portal!LastPage(T, scope, r, 1)
                            <= Portal!listTransactions(T, T, own, asked, 1, 1).total
      <3> HIDE DEF scope
      <3> QED BY <2>0, TotalHasRoom DEF scope
    <2>6. \A r \in DOMAIN T :
            /\ Portal!getTransaction(T, own, r) = "200" <=> r \in Portal!Rows(T, own)
            /\ r \in rows => Portal!getTransaction(T, own, r) = "200"
            /\ Portal!getTransactionTimeline(T, own, r) = Portal!getTransaction(T, own, r)
      BY DetailsOfListed, Zenon
    <2>7. \A d \in DOMAIN Portal!listSettlementWindows(T, own, asked) : DayAgrees(T, own, asked, d)
      BY <2>0, DaysAgree
    <2> HIDE DEF dash
    <2> QED BY <2>4, <2>5, <2>6, <2>7, Zenon DEF dash, since, own, asked
  <1> QED BY <1>1, Invariance, PTL

============================================================================
