---------------------- MODULE SettlementWindowProofs ----------------------
(***************************************************************************)
(* Theorems about SettlementWindow for every finite set of banks, every set*)
(* of payments, every window size and every number of faults, with or      *)
(* without a ledger.                                                       *)
(***************************************************************************)
EXTENDS SettlementWindow, FoldTheorems, SequenceTheorems

---------------------------------------------------------------------------
(***************************************************************************)
(* Netting: the pass of calculateNetPositions over the entries computes    *)
(* the sums, and they cancel out.                                          *)
(***************************************************************************)
Zero == [b \in Banks |-> 0]

\* NetOf, for the entries at some of the indices of es.
CreditsIn(b, es, s) == { i \in s : EntryOf[es[i]].DestBIC = b }
DebitsIn(b, es, s)  == { i \in s : EntryOf[es[i]].SourceBIC = b }
NetIn(b, es, s)     == SumFunctionOnSet(Amounts(es), CreditsIn(b, es, s))
                       - SumFunctionOnSet(Amounts(es), DebitsIn(b, es, s))

\* The fold NetMap stands for, taking the last entry off first.
IsNetting(h, es) ==
  h = [s \in SUBSET DOMAIN es |->
         IF s = {} THEN Zero ELSE NetEntry(h[s \ {Max(s)}], es[Max(s)])]

\* One round of the loop moves an amount between two entries of the map.
LEMMA NetEntryType ==
  ASSUME NEW m \in [Banks -> Int], NEW p \in Payments
  PROVE  NetEntry(m, p) \in [Banks -> Int]
  BY WindowAssumption DEF NetEntry

\* The loop computes something: its fold exists.
LEMMA NetMapIsFold ==
  ASSUME NEW es \in Seq(Payments)
  PROVE  \E h : IsNetting(h, es) /\ NetMap(es) = h[DOMAIN es]
  <1> DEFINE D == DOMAIN es
             V == [Banks -> Int]
             pick == [s \in SUBSET D |-> Max(s)]
             step == [xv \in D \X V |-> NetEntry(xv[2], es[xv[1]])]
             body(h) == [s \in SUBSET D |->
                           IF s = {} THEN Zero ELSE NetEntry(h[s \ {Max(s)}], es[Max(s)])]
  <1>1. D = 1..Len(es) /\ Len(es) \in Nat /\ \A i \in D : es[i] \in Payments
    BY LenProperties, ElementOfSeq
  <1>2. IsFiniteSet(D)
    BY <1>1, FS_Interval
  <1>3. \A s \in SUBSET D : s # {} => Max(s) \in s
    <2>1. ASSUME NEW s \in SUBSET D, s # {} PROVE Max(s) \in s
      <3>1. IsFiniteSet(s)
        BY <1>2, FS_Subset
      <3>2. s \in SUBSET Int
        BY <1>1
      <3> QED BY <2>1, <3>1, <3>2, MaxIn
    <2> QED BY <2>1
  <1>4. step \in [D \X V -> V] /\ Zero \in V
    <2>1. Zero \in V
      BY DEF Zero
    <2>2. \A xv \in D \X V : NetEntry(xv[2], es[xv[1]]) \in V
      BY <1>1, NetEntryType
    <2> QED BY <2>1, <2>2
  <1>5. PICK g \in [SUBSET D -> V] : IsFold(g, SUBSET D, Zero, pick, step)
    <2>1. \A s \in SUBSET D : s # {} => pick[s] \in s
      BY <1>3
    <2> HIDE DEF pick, step, D, V
    <2> QED BY <1>2, <1>4, <2>1, FoldExists, Zenon
  <1>6. g = body(g)
    <2>1. ASSUME NEW s \in SUBSET D, s # {}
          PROVE  g[s] = NetEntry(g[s \ {Max(s)}], es[Max(s)])
      <3> DEFINE x == Max(s)
      <3>1. x \in D /\ pick[s] = x
        BY <1>3, <2>1
      <3> HIDE DEF x
      <3>2. g[s] = step[<<x, g[s \ {x}]>>]
        <4> HIDE DEF pick, step, D
        <4> QED BY <1>5, <2>1, <3>1 DEF IsFold
      <3>3. <<x, g[s \ {x}]>> \in D \X V
        BY <3>1
      <3>4. step[<<x, g[s \ {x}]>>] = NetEntry(g[s \ {x}], es[x])
        BY <3>3
      <3> QED BY <3>2, <3>4 DEF x
    <2>2. g[{}] = Zero
      BY <1>5 DEF IsFold
    <2> HIDE DEF D
    <2> QED BY <2>1, <2>2
  <1> DEFINE h == CHOOSE h : h = body(h)
  <1>7. h = body(h)
    BY <1>6, Zenon
  <1>8. NetMap(es) = h[DOMAIN es]
    BY DEF NetMap, FoldLeft, MapThenFoldSet, Zero
  <1> HIDE DEF h
  <1> QED BY <1>7, <1>8 DEF IsNetting

\* One more entry is one more credit of its destination and one more debit of
\* its source.
LEMMA NetInStep ==
  ASSUME NEW es \in Seq(Payments), NEW s \in SUBSET DOMAIN es, NEW x \in s,
         NEW m \in [Banks -> Int], \A b \in Banks : m[b] = NetIn(b, es, s \ {x})
  PROVE  \A b \in Banks : NetEntry(m, es[x])[b] = NetIn(b, es, s)
  <1> DEFINE A == Amounts(es)
             t == s \ {x}
             e == EntryOf[es[x]]
  <1>1. DOMAIN es = 1..Len(es) /\ Len(es) \in Nat /\ \A i \in DOMAIN es : es[i] \in Payments
    BY LenProperties, ElementOfSeq
  <1>2. \A i \in DOMAIN es : EntryOf[es[i]].Amount \in Nat /\ A[i] = EntryOf[es[i]].Amount
    BY <1>1, WindowAssumption DEF Amounts
  <1>3. e.SourceBIC \in Banks /\ e.DestBIC \in Banks /\ e.Amount \in Nat /\ A[x] = e.Amount
    BY <1>1, <1>2, WindowAssumption
  <1>4. ASSUME NEW q \in SUBSET DOMAIN es
        PROVE  IsFiniteSet(q) /\ (\A i \in q : A[i] \in Int) /\ SumFunctionOnSet(A, q) \in Int
    <2>1. IsFiniteSet(q)
      <3>1. IsFiniteSet(DOMAIN es)
        BY <1>1, FS_Interval
      <3> QED BY <3>1, FS_Subset
    <2>2. \A i \in q : A[i] \in Int
      BY <1>2
    <2> HIDE DEF A
    <2> QED BY <2>1, <2>2, SumType
  <1>5. ASSUME NEW q \in SUBSET DOMAIN es, x \notin q
        PROVE  SumFunctionOnSet(A, q \cup {x}) = SumFunctionOnSet(A, q) + e.Amount
    <2>1. IsFiniteSet(q) /\ (\A i \in q : A[i] \in Int) /\ A[x] \in Int
      BY <1>3, <1>4
    <2> HIDE DEF A
    <2> QED BY <1>3, <1>5, <2>1, SumAdd
  <1>6. ASSUME NEW b \in Banks
        PROVE  SumFunctionOnSet(A, CreditsIn(b, es, s)) =
                 SumFunctionOnSet(A, CreditsIn(b, es, t)) + (IF e.DestBIC = b THEN e.Amount ELSE 0)
    <2>0. CreditsIn(b, es, t) \in SUBSET DOMAIN es /\ x \notin CreditsIn(b, es, t)
      BY DEF CreditsIn
    <2>1. CASE e.DestBIC = b
      <3>1. CreditsIn(b, es, s) = CreditsIn(b, es, t) \cup {x}
        BY <2>1 DEF CreditsIn
      <3> HIDE DEF A, t, e
      <3> QED BY <1>5, <2>0, <2>1, <3>1
    <2>2. CASE e.DestBIC # b
      <3>1. CreditsIn(b, es, s) = CreditsIn(b, es, t)
        BY <2>2 DEF CreditsIn
      <3>2. SumFunctionOnSet(A, CreditsIn(b, es, t)) \in Int
        BY <1>4, <2>0
      <3> HIDE DEF A, t, e
      <3> QED BY <2>2, <3>1, <3>2
    <2> QED BY <2>1, <2>2
  <1>7. ASSUME NEW b \in Banks
        PROVE  SumFunctionOnSet(A, DebitsIn(b, es, s)) =
                 SumFunctionOnSet(A, DebitsIn(b, es, t)) + (IF e.SourceBIC = b THEN e.Amount ELSE 0)
    <2>0. DebitsIn(b, es, t) \in SUBSET DOMAIN es /\ x \notin DebitsIn(b, es, t)
      BY DEF DebitsIn
    <2>1. CASE e.SourceBIC = b
      <3>1. DebitsIn(b, es, s) = DebitsIn(b, es, t) \cup {x}
        BY <2>1 DEF DebitsIn
      <3> HIDE DEF A, t, e
      <3> QED BY <1>5, <2>0, <2>1, <3>1
    <2>2. CASE e.SourceBIC # b
      <3>1. DebitsIn(b, es, s) = DebitsIn(b, es, t)
        BY <2>2 DEF DebitsIn
      <3>2. SumFunctionOnSet(A, DebitsIn(b, es, t)) \in Int
        BY <1>4, <2>0
      <3> HIDE DEF A, t, e
      <3> QED BY <2>2, <3>1, <3>2
    <2> QED BY <2>1, <2>2
  <1>8. ASSUME NEW b \in Banks
        PROVE  NetEntry(m, es[x])[b] = NetIn(b, es, s)
    <2> DEFINE c == SumFunctionOnSet(A, CreditsIn(b, es, t))
               d == SumFunctionOnSet(A, DebitsIn(b, es, t))
    <2>1. c \in Int /\ d \in Int
      <3>1. CreditsIn(b, es, t) \in SUBSET DOMAIN es /\ DebitsIn(b, es, t) \in SUBSET DOMAIN es
        BY DEF CreditsIn, DebitsIn
      <3> HIDE DEF A, t
      <3> QED BY <1>4, <3>1
    <2>2. m[b] = c - d
      BY DEF NetIn
    <2>3. NetIn(b, es, s) = (c + (IF e.DestBIC = b THEN e.Amount ELSE 0))
                            - (d + (IF e.SourceBIC = b THEN e.Amount ELSE 0))
      <3> HIDE DEF e, t
      <3> QED BY <1>6, <1>7 DEF NetIn
    <2>4. NetEntry(m, es[x])[b] =
             (m[b] - (IF e.SourceBIC = b THEN e.Amount ELSE 0))
             + (IF e.DestBIC = b THEN e.Amount ELSE 0)
      <3>1. m[b] \in Int
        OBVIOUS
      <3> QED BY <1>3, <3>1 DEF NetEntry
    <2> HIDE DEF c, d, e
    <2> QED BY <1>3, <2>1, <2>2, <2>3, <2>4
  <1> QED BY <1>8

\* One round of the loop takes from one bank what it gives to another.
LEMMA NetEntryCancels ==
  ASSUME NEW m \in [Banks -> Int], NEW p \in Payments
  PROVE  SumFunctionOnSet(NetEntry(m, p), Banks) = SumFunctionOnSet(m, Banks)
  <1> DEFINE e == EntryOf[p]
             debited == [m EXCEPT ![e.SourceBIC] = m[e.SourceBIC] - e.Amount]
             paid == [debited EXCEPT ![e.DestBIC] = debited[e.DestBIC] + e.Amount]
  <1>1. e.SourceBIC \in Banks /\ e.DestBIC \in Banks /\ e.Amount \in Nat /\ IsFiniteSet(Banks)
    BY WindowAssumption
  <1>2. NetEntry(m, p) = paid
    BY DEF NetEntry
  <1> HIDE DEF e
  <1>3. debited \in [Banks -> Int] /\ paid \in [Banks -> Int]
    BY <1>1
  <1>4. SumFunctionOnSet(debited, Banks) = SumFunctionOnSet(m, Banks) - m[e.SourceBIC] + (m[e.SourceBIC] - e.Amount)
    <2>1. /\ \A b \in Banks : m[b] \in Int /\ debited[b] \in Int
          /\ \A b \in Banks : b # e.SourceBIC => debited[b] = m[b]
          /\ debited[e.SourceBIC] = m[e.SourceBIC] - e.Amount
      BY <1>1, <1>3
    <2> HIDE DEF debited
    <2> QED BY <1>1, <2>1, SumUpdate
  <1>5. SumFunctionOnSet(paid, Banks) =
          SumFunctionOnSet(debited, Banks) - debited[e.DestBIC] + (debited[e.DestBIC] + e.Amount)
    <2>1. /\ \A b \in Banks : debited[b] \in Int /\ paid[b] \in Int
          /\ \A b \in Banks : b # e.DestBIC => paid[b] = debited[b]
          /\ paid[e.DestBIC] = debited[e.DestBIC] + e.Amount
      BY <1>1, <1>3
    <2> HIDE DEF debited, paid
    <2> QED BY <1>1, <2>1, SumUpdate
  <1>6. SumFunctionOnSet(m, Banks) \in Int /\ SumFunctionOnSet(debited, Banks) \in Int
    <2> HIDE DEF debited, paid
    <2> QED BY <1>1, <1>3, SumType
  <1>7. m[e.SourceBIC] \in Int /\ debited[e.DestBIC] \in Int
    BY <1>1, <1>3
  <1> DEFINE a == SumFunctionOnSet(m, Banks)
             b == SumFunctionOnSet(debited, Banks)
             c == m[e.SourceBIC]
             d == debited[e.DestBIC]
             n == e.Amount
  <1>8. a \in Int /\ b \in Int /\ c \in Int /\ d \in Int /\ n \in Int
    BY <1>1, <1>6, <1>7
  <1>9. b = a - c + (c - n) /\ SumFunctionOnSet(paid, Banks) = b - d + (d + n)
    BY <1>4, <1>5
  <1> HIDE DEF a, b, c, d, n, paid
  <1>10. SumFunctionOnSet(paid, Banks) = a
    BY <1>8, <1>9
  <1> QED BY <1>2, <1>10 DEF a

\* What the loop of calculateNetPositions computes: the net of every bank, and
\* a total of zero.
LEMMA NetMapIsNet ==
  ASSUME NEW es \in Seq(Payments)
  PROVE  /\ NetMap(es) \in [Banks -> Int]
         /\ \A b \in Banks : NetMap(es)[b] = NetOf(b, es)
         /\ SumFunctionOnSet(NetMap(es), Banks) = 0
  <1> DEFINE D == DOMAIN es
  <1>1. PICK h : IsNetting(h, es) /\ NetMap(es) = h[DOMAIN es]
    BY NetMapIsFold
  <1>2. D = 1..Len(es) /\ Len(es) \in Nat /\ \A i \in D : es[i] \in Payments
    BY LenProperties, ElementOfSeq
  <1>3. IsFiniteSet(D)
    BY <1>2, FS_Interval
  <1> DEFINE Good(s) == /\ h[s] \in [Banks -> Int]
                        /\ \A b \in Banks : h[s][b] = NetIn(b, es, s)
                        /\ SumFunctionOnSet(h[s], Banks) = 0
             P == { s \in SUBSET D : Good(s) }
  <1>4. ASSUME NEW s \in SUBSET D, \A t \in SUBSET s : t # s => t \in P
        PROVE  s \in P
    <2>1. CASE s = {}
      <3>1. h[s] = Zero
        BY <1>1, <2>1 DEF IsNetting
      <3>2. \A b \in Banks : CreditsIn(b, es, s) = {} /\ DebitsIn(b, es, s) = {}
        BY <2>1 DEF CreditsIn, DebitsIn
      <3>3. \A b \in Banks : NetIn(b, es, s) = 0
        <4>1. SumFunctionOnSet(Amounts(es), {}) = 0
          BY SumEmpty
        <4>2. ASSUME NEW b \in Banks PROVE NetIn(b, es, s) = 0 - 0
          BY <3>2, <4>1, Zenon DEF NetIn
        <4> QED BY <4>2
      <3>4. SumFunctionOnSet(Zero, Banks) = 0
        <4>1. \A b \in Banks : Zero[b] = 0
          BY DEF Zero
        <4> QED BY <4>1, SumOfZeros, WindowAssumption
      <3>5. Good(s)
        BY <3>1, <3>3, <3>4 DEF Zero
      <3> QED BY <3>5
    <2>2. CASE s # {}
      <3> DEFINE x == Max(s)
                 t == s \ {x}
      <3>1. x \in s
        <4>1. IsFiniteSet(s) /\ s \in SUBSET Int
          BY <1>2, <1>3, FS_Subset
        <4> QED BY <2>2, <4>1, MaxIn
      <3>2. h[s] = NetEntry(h[t], es[x])
        BY <1>1, <2>2 DEF IsNetting
      <3> HIDE DEF x
      <3>3. Good(t)
        <4>1. t \in P
          BY <1>4, <3>1
        <4> QED BY <4>1
      <3>4. es[x] \in Payments
        BY <1>2, <3>1
      <3>5. NetEntry(h[t], es[x]) \in [Banks -> Int]
        BY <3>3, <3>4, NetEntryType
      <3>6. \A b \in Banks : NetEntry(h[t], es[x])[b] = NetIn(b, es, s)
        BY <3>1, <3>3, NetInStep
      <3>7. SumFunctionOnSet(NetEntry(h[t], es[x]), Banks) = 0
        BY <3>3, <3>4, NetEntryCancels
      <3>8. Good(s)
        BY <3>2, <3>5, <3>6, <3>7
      <3> QED BY <3>8
    <2> QED BY <2>1, <2>2
  <1>5. SUBSET D \subseteq P
    <2> HIDE DEF D, P
    <2> QED BY <1>3, <1>4, SubsetInduction
  <1>6. Good(D)
    <2>1. D \in P
      BY <1>5
    <2> QED BY <2>1
  <1>7. \A b \in Banks : NetIn(b, es, D) = NetOf(b, es)
    BY DEF NetIn, NetOf, CreditsIn, DebitsIn, Credits, Debits
  <1> QED BY <1>1, <1>6, <1>7

\* What calculateNetPositions returns: a position with its net for each bank
\* whose net is not zero, and all of them together are zero.
LEMMA PositionsAreNet ==
  ASSUME NEW es \in Seq(Payments)
  PROVE  LET ps == calculateNetPositions(es)
         IN  /\ \A n \in ps : n.BIC \in Banks /\ n.Amount \in Int \ {0}
             /\ { <<n.BIC, n.Amount>> : n \in ps } =
                  { <<b, NetOf(b, es)>> : b \in { c \in Banks : NetOf(c, es) # 0 } }
             /\ SumFunction([n \in ps |-> n.Amount]) = 0
  <1> DEFINE net == NetMap(es)
             S == { c \in Banks : net[c] # 0 }
             cur(b) == EntryOf[es[Min({ i \in DOMAIN es :
                         b \in {EntryOf[es[i]].SourceBIC, EntryOf[es[i]].DestBIC} })]].Currency
             h == [b \in S |-> [BIC |-> b, Amount |-> net[b], Currency |-> cur(b)]]
             ps == calculateNetPositions(es)
             g == [n \in ps |-> n.Amount]
  <1>1. net \in [Banks -> Int] /\ (\A b \in Banks : net[b] = NetOf(b, es)) /\ SumFunctionOnSet(net, Banks) = 0
    BY NetMapIsNet
  <1>2. ps = { h[b] : b \in S }
    BY DEF calculateNetPositions
  <1> HIDE DEF net, ps, cur
  <1>3. \A n \in ps : n.BIC \in Banks /\ n.Amount \in Int \ {0}
    <2>1. \A b \in S : h[b].BIC \in Banks /\ h[b].Amount \in Int \ {0}
      BY <1>1
    <2> HIDE DEF h
    <2> QED BY <1>2, <2>1, Zenon
  <1>4. { <<n.BIC, n.Amount>> : n \in ps } =
          { <<b, NetOf(b, es)>> : b \in { c \in Banks : NetOf(c, es) # 0 } }
    <2>1. \A b \in S : h[b].BIC = b /\ h[b].Amount = NetOf(b, es)
      BY <1>1
    <2>2. S = { c \in Banks : NetOf(c, es) # 0 }
      BY <1>1
    <2> HIDE DEF h, S
    <2>3. { <<n.BIC, n.Amount>> : n \in ps } = { <<b, NetOf(b, es)>> : b \in S }
      BY <1>2, <2>1
    <2> QED BY <2>2, <2>3
  <1>5. SumFunctionOnSet(g, ps) = 0
    <2>1. IsFiniteSet(S) /\ (\A b \in S : net[b] \in Int)
      BY <1>1, WindowAssumption, FS_Subset
    <2>2. h \in [S -> ps] /\ (\A n \in ps : \E b \in S : h[b] = n)
      BY <1>2
    <2>3. \A b, c \in S : h[b] = h[c] => b = c
      <3>1. \A b \in S : h[b].BIC = b
        OBVIOUS
      <3> HIDE DEF h
      <3> QED BY <3>1
    <2>4. \A b \in S : g[h[b]] = net[b]
      <3>1. \A b \in S : h[b].Amount = net[b]
        OBVIOUS
      <3> HIDE DEF h
      <3> QED BY <2>2, <3>1
    <2>5. SumFunctionOnSet(net, S) = SumFunctionOnSet(net, Banks)
      <3>1. S \subseteq Banks /\ \A b \in Banks : b \notin S => net[b] = 0
        OBVIOUS
      <3>2. IsFiniteSet(Banks) /\ \A b \in Banks : net[b] \in Int
        BY <1>1, WindowAssumption
      <3> HIDE DEF S
      <3> QED BY <3>1, <3>2, SumDropZeros
    <2> HIDE DEF h, g, S
    <2>6. SumFunctionOnSet(g, ps) = SumFunctionOnSet(net, S)
      <3>1. h \in [S -> ps]
        BY <2>2
      <3> QED BY <2>1, <2>2, <2>3, <2>4, <3>1, SumReindex
    <2> QED BY <1>1, <2>5, <2>6
  <1>6. SumFunction(g) = 0
    BY <1>5 DEF SumFunction
  <1> QED BY <1>3, <1>4, <1>6 DEF ps

---------------------------------------------------------------------------
(***************************************************************************)
(* The inductive invariant.                                                *)
(***************************************************************************)

\* The entries Add accepted: in the window until it closes, then in the batch.
Taken == IF closed THEN batch ELSE entries

\* An open window has settled nothing, a closed one holds nothing.
OpenInv ==
  /\ ~closed => batch = <<>> /\ settler = "none" /\ ledger = {}
  /\ closed  => entries = <<>>

\* What Add accepted, each payment once.
KeptInv ==
  /\ \A i, j \in DOMAIN Taken : Taken[i] = Taken[j] => i = j
  /\ { Taken[i] : i \in DOMAIN Taken } = kept
  /\ kept \subseteq acked

\* The positions of a closed window are those of its batch.
NetInv == closed => positions = calculateNetPositions(batch)

\* main exits only after the window has closed.
ExitInv == proc \in {"settling", "exiting"} => closed

\* The rows tried so far are written, but for faults, and there are no others.
LedgerInv ==
  /\ ledger \subseteq ToSet(batch) \X {"debit", "credit"}
  /\ written \in 0..RowsToWrite
  /\ faults = 0 => \A n \in 0..(written - 1) : RowAt(n) \in ledger
  /\ closed /\ settler = "none" /\ proc # "exited" => written = RowsToWrite

IInv == TypeOK /\ OpenInv /\ KeptInv /\ NetInv /\ ExitInv /\ LedgerInv

---------------------------------------------------------------------------
(***************************************************************************)
(* Every action keeps the invariant.                                       *)
(***************************************************************************)
LEMMA InitInv == Init => IInv
  <1> SUFFICES ASSUME Init PROVE IInv
    OBVIOUS
  <1> USE WindowAssumption DEF Init
  <1>1. TypeOK
    <2>1. <<>> \in Seq(Payments)
      BY EmptySeq
    <2>2. entries \in Seq(Payments) /\ batch \in Seq(Payments) /\ closed \in BOOLEAN
      BY <2>1
    <2>3. pending \in Nat /\ written \in Nat /\ faults \in 0..MaxFaults
      OBVIOUS
    <2>4. /\ \A n \in positions : n.BIC \in Banks /\ n.Amount \in Int \ {0}
          /\ ledger \subseteq Payments \X {"debit", "credit"}
      OBVIOUS
    <2> QED BY <2>2, <2>3, <2>4 DEF TypeOK, Owners
  <1>2. OpenInv /\ NetInv /\ ExitInv
    BY DEF OpenInv, NetInv, ExitInv
  <1>3. KeptInv
    BY DEF KeptInv, Taken
  <1>4. LedgerInv
    BY DEF LedgerInv, RowsToWrite
  <1> QED BY <1>1, <1>2, <1>3, <1>4 DEF IInv

\* A row to write is of an entry of the batch.
LEMMA RowAtType ==
  ASSUME batch \in Seq(Payments), NEW n \in Nat, n < RowsToWrite
  PROVE  RowAt(n) \in ToSet(batch) \X {"debit", "credit"} /\ LedgerEnabled
  <1>1. Len(batch) \in Nat /\ DOMAIN batch = 1..Len(batch)
    BY LenProperties
  <1>2. LedgerEnabled /\ n < 2 * Len(batch)
    BY <1>1 DEF RowsToWrite
  <1>3. n \div 2 + 1 \in 1..Len(batch)
    BY <1>1, <1>2
  <1>4. batch[n \div 2 + 1] \in ToSet(batch)
    BY <1>1, <1>3 DEF ToSet
  <1> QED BY <1>2, <1>4 DEF RowAt

\* SubmitForSettlement adds its entry to the open window, once.
LEMMA SubmitKeeps ==
  ASSUME IInv, NEW p \in Payments, SubmitForSettlement(p)
  PROVE  IInv'
  <1> USE WindowAssumption DEF IInv, TypeOK, SubmitForSettlement
  <1>1. CASE closed
    <2>1. /\ UNCHANGED <<entries, kept, pending, closed, batch, positions, settler, written, ledger, proc, faults>>
          /\ acked' = acked \cup {p}
      BY <1>1 DEF Add
    <2>2. TypeOK'
      BY <2>1
    <2>3. OpenInv' /\ KeptInv' /\ NetInv' /\ ExitInv' /\ LedgerInv'
      BY <2>1 DEF OpenInv, KeptInv, NetInv, ExitInv, LedgerInv, Taken, RowsToWrite, RowAt
    <2> QED BY <2>2, <2>3
  <1>2. CASE ~closed
    <2>1. /\ UNCHANGED <<closed, batch, positions, settler, written, ledger, proc, faults>>
          /\ acked' = acked \cup {p} /\ kept' = kept \cup {p} /\ entries' = Append(entries, p)
          /\ pending' \in {pending, pending + 1} /\ p \notin acked
      BY <1>2 DEF Add
    <2>2. TypeOK'
      BY <2>1, AppendProperties
    <2>3. OpenInv' /\ NetInv' /\ ExitInv'
      BY <1>2, <2>1 DEF OpenInv, NetInv, ExitInv
    <2>4. LedgerInv'
      <3>1. RowsToWrite' = RowsToWrite /\ \A n \in Int : RowAt(n)' = RowAt(n)
        BY <2>1 DEF RowsToWrite, RowAt
      <3> QED BY <1>2, <2>1, <3>1 DEF LedgerInv
    <2>5. KeptInv'
      <3> DEFINE n == Len(entries)
      <3>1. n \in Nat /\ DOMAIN entries = 1..n
        BY LenProperties
      <3>2. /\ DOMAIN entries' = 1..(n + 1) /\ entries'[n + 1] = p
            /\ \A i \in 1..n : entries'[i] = entries[i]
        BY <2>1, <3>1, AppendProperties, LenProperties
      <3>3. p \notin kept /\ \A i \in 1..n : entries[i] # p
        BY <1>2, <2>1, <3>1 DEF KeptInv, Taken
      <3>4. \A i, j \in 1..n : entries[i] = entries[j] => i = j
        BY <1>2, <3>1 DEF KeptInv, Taken
      <3>5. \A i, j \in DOMAIN entries' : entries'[i] = entries'[j] => i = j
        <4>1. \A i \in DOMAIN entries' : i \in 1..n \/ i = n + 1
          BY <3>1, <3>2
        <4> HIDE DEF n
        <4> QED BY <3>2, <3>3, <3>4, <4>1
      <3>6. { entries'[i] : i \in DOMAIN entries' } = kept'
        <4>1. { entries[i] : i \in 1..n } = kept
          BY <1>2, <3>1 DEF KeptInv, Taken
        <4>2. 1..(n + 1) = 1..n \cup {n + 1}
          BY <3>1
        <4>3. { entries'[i] : i \in 1..n \cup {n + 1} } = { entries[i] : i \in 1..n } \cup {p}
          <5> HIDE DEF n
          <5> QED BY <3>2, Zenon
        <4> QED BY <2>1, <3>2, <4>1, <4>2, <4>3
      <3>7. Taken' = entries'
        BY <1>2, <2>1 DEF Taken
      <3>8. kept' \subseteq acked'
        BY <2>1 DEF KeptInv
      <3> QED BY <3>5, <3>6, <3>7, <3>8 DEF KeptInv
    <2> QED BY <2>2, <2>3, <2>4, <2>5
  <1> QED BY <1>1, <1>2

\* The Settle that finds the window open moves its entries into the batch.
LEMMA SettleKeeps ==
  ASSUME IInv, NEW who \in {"goroutine", "rpc", "main"}, Settle(who), pending' \in Nat,
         UNCHANGED <<acked, kept, ledger, faults>>,
         proc' = proc \/ proc' = IF closed THEN "exiting" ELSE "settling",
         proc' \in {"serving", "draining", "settling", "exiting", "exited"},
         proc = "exited" => proc' = "exited"
  PROVE  IInv'
  <1> USE WindowAssumption DEF IInv, TypeOK
  <1>1. CASE closed
    <2>1. UNCHANGED <<closed, entries, batch, positions, settler, written>>
      BY <1>1 DEF Settle, settleVars
    <2>2. TypeOK'
      BY <2>1
    <2>3. OpenInv' /\ KeptInv' /\ NetInv' /\ ExitInv'
      BY <1>1, <2>1 DEF OpenInv, KeptInv, NetInv, ExitInv, Taken
    <2>4. RowsToWrite' = RowsToWrite /\ \A n \in 0..(written - 1) : RowAt(n)' = RowAt(n)
      BY <2>1 DEF RowsToWrite, RowAt
    <2>5. LedgerInv'
      BY <2>1, <2>4 DEF LedgerInv
    <2> QED BY <2>2, <2>3, <2>5
  <1>2. CASE ~closed
    <2>1. /\ closed' = TRUE /\ batch' = entries /\ entries' = <<>> /\ settler' = who /\ written' = 0
          /\ positions' = calculateNetPositions(entries)
      BY <1>2 DEF Settle
    <2>2. TypeOK'
      <3>1. \A n \in positions' : n.BIC \in Banks /\ n.Amount \in Int \ {0}
        BY <2>1, PositionsAreNet
      <3> QED BY <2>1, <3>1 DEF Owners
    <2>3. OpenInv' /\ NetInv' /\ ExitInv'
      BY <2>1 DEF OpenInv, NetInv, ExitInv
    <2>4. KeptInv'
      BY <1>2, <2>1 DEF KeptInv, Taken
    <2>5. LedgerInv'
      <3>1. RowsToWrite' \in Nat
        BY <2>1, LenProperties DEF RowsToWrite
      <3> QED BY <1>2, <2>1, <3>1 DEF LedgerInv, OpenInv
    <2> QED BY <2>2, <2>3, <2>4, <2>5
  <1> QED BY <1>1, <1>2

\* The ledger's rows are written one by one: a debit and a credit for each entry.
LEMMA WriteLedgerKeeps ==
  ASSUME IInv, WriteLedger
  PROVE  IInv'
  <1> USE WindowAssumption DEF IInv, TypeOK
  <1>1. /\ UNCHANGED <<entries, closed, pending, acked, kept, batch, positions, settler, proc>>
        /\ settler # "none" /\ written' = written + 1 /\ written < RowsToWrite
        /\ \/ ledger' = ledger \cup {RowAt(written)} /\ faults' = faults
           \/ ledger' = ledger /\ faults' = faults + 1 /\ faults' \in 0..MaxFaults
    BY DEF WriteLedger
  <1>2. RowAt(written) \in ToSet(batch) \X {"debit", "credit"}
    BY <1>1, RowAtType
  <1>3. ToSet(batch) \subseteq Payments
    BY ElementOfSeq, LenProperties DEF ToSet
  <1>4. TypeOK'
    BY <1>1, <1>2, <1>3
  <1>5. OpenInv' /\ KeptInv' /\ NetInv' /\ ExitInv'
    BY <1>1 DEF OpenInv, KeptInv, NetInv, ExitInv, Taken
  <1>6. LedgerInv'
    <2>1. RowsToWrite' = RowsToWrite /\ \A n \in Int : RowAt(n)' = RowAt(n)
      BY <1>1 DEF RowsToWrite, RowAt
    <2>2. ledger' \subseteq ToSet(batch') \X {"debit", "credit"}
      BY <1>1, <1>2 DEF LedgerInv
    <2>3. written' \in 0..RowsToWrite'
      <3>1. RowsToWrite \in Nat
        BY LenProperties DEF RowsToWrite
      <3> QED BY <1>1, <2>1, <3>1
    <2>4. ASSUME faults' = 0, NEW n \in 0..(written' - 1) PROVE RowAt(n)' \in ledger'
      <3>1. faults = 0 /\ ledger' = ledger \cup {RowAt(written)}
        BY <1>1, <2>4
      <3>2. n \in 0..(written - 1) \/ n = written
        BY <1>1
      <3>3. RowAt(n)' = RowAt(n)
        BY <2>1
      <3> QED BY <3>1, <3>2, <3>3 DEF LedgerInv
    <2> QED BY <1>1, <2>2, <2>3, <2>4 DEF LedgerInv
  <1> QED BY <1>4, <1>5, <1>6

\* Settle returns, the process stops or ends: what is settled stays as it is.
LEMMA ProcessKeeps ==
  ASSUME IInv, SettleDone \/ Stop \/ Exit \/ Crash
  PROVE  IInv'
  <1> USE WindowAssumption DEF IInv, TypeOK
  <1>1. UNCHANGED <<entries, closed, acked, kept, batch, positions, written, ledger>>
    BY DEF SettleDone, Stop, Exit, Crash, settleVars
  <1>2. TypeOK'
    BY <1>1 DEF SettleDone, Stop, Exit, Crash, settleVars, Owners
  <1>3. OpenInv' /\ NetInv'
    BY <1>1 DEF OpenInv, NetInv, SettleDone, Stop, Exit, Crash, settleVars
  <1>4. KeptInv'
    BY <1>1 DEF KeptInv, Taken
  <1>5. ExitInv'
    BY <1>1 DEF ExitInv, OpenInv, SettleDone, Stop, Exit, Crash, settleVars
  <1>6. RowsToWrite' = RowsToWrite /\ \A n \in Int : RowAt(n)' = RowAt(n)
    BY <1>1 DEF RowsToWrite, RowAt
  <1>7. faults' = 0 => faults = 0
    BY DEF SettleDone, Stop, Exit, Crash
  <1>8. closed /\ settler' = "none" /\ proc' # "exited" => written = RowsToWrite
    BY DEF LedgerInv, SettleDone, Stop, Exit, Crash, settleVars
  <1>9. LedgerInv'
    BY <1>1, <1>6, <1>7, <1>8 DEF LedgerInv
  <1> QED BY <1>2, <1>3, <1>4, <1>5, <1>9

\* Every step of submitters, engine and ledger keeps the invariant.
LEMMA StepInv == IInv /\ [Next]_vars => IInv'
  <1> SUFFICES ASSUME IInv, [Next]_vars PROVE IInv'
    OBVIOUS
  <1>1. CASE \E p \in Payments : SubmitForSettlement(p)
    BY <1>1, SubmitKeeps
  <1>2. CASE AutoSettle
    <2>1. pending' \in Nat
      BY <1>2 DEF AutoSettle, IInv, TypeOK
    <2> QED BY <1>2, <2>1, SettleKeeps DEF AutoSettle, IInv, TypeOK
  <1>3. CASE SettleWindow
    BY <1>3, SettleKeeps DEF SettleWindow, IInv, TypeOK
  <1>4. CASE MainSettle
    BY <1>4, SettleKeeps DEF MainSettle, IInv, TypeOK
  <1>5. CASE WriteLedger \/ SettleDone \/ Stop \/ Exit \/ Crash
    BY <1>5, WriteLedgerKeeps, ProcessKeeps
  <1>6. CASE UNCHANGED vars
    BY <1>6 DEF IInv, TypeOK, OpenInv, KeptInv, NetInv, ExitInv, LedgerInv, Taken, RowsToWrite, RowAt, vars
  <1> QED BY <1>1, <1>2, <1>3, <1>4, <1>5, <1>6 DEF Next

\* The invariant holds of every behaviour.
THEOREM Invariance == Spec => []IInv
  <1> QED BY InitInv, StepInv, PTL DEF Spec

---------------------------------------------------------------------------
(***************************************************************************)
(* What the runs check on a small instance.                                *)
(***************************************************************************)

\* The window's state stays in its types; the amounts of calculateNetPositions
\* are integers of known banks whatever the entries are.
THEOREM TypeCorrect == Spec => []TypeOK
  <1> QED BY Invariance, PTL DEF IInv

\* Every entry Add accepts is in the window or in the one batch Settle takes,
\* exactly once, however many settlers race.
THEOREM NothingLostOrRepeated == Spec => []KeptExactlyOnce
  <1>1. IInv => KeptExactlyOnce
    <2> SUFFICES ASSUME IInv, NEW p \in Payments
                 PROVE  Occurrences(p, entries \o batch) = IF p \in kept THEN 1 ELSE 0
      BY DEF KeptExactlyOnce
    <2>1. entries \o batch = Taken
      <3>1. entries \in Seq(Payments) /\ batch \in Seq(Payments)
        BY DEF IInv, TypeOK
      <3>2. entries \o <<>> = entries /\ <<>> \o batch = batch
        BY <3>1
      <3> QED BY <3>2 DEF IInv, OpenInv, Taken
    <2>2. CASE p \in kept
      <3>1. PICK i \in DOMAIN Taken : Taken[i] = p
        BY <2>2 DEF IInv, KeptInv
      <3>2. { j \in DOMAIN Taken : Taken[j] = p } = {i}
        BY <3>1 DEF IInv, KeptInv
      <3> QED BY <2>1, <2>2, <3>2, FS_Singleton DEF Occurrences
    <2>3. CASE p \notin kept
      <3>1. { j \in DOMAIN Taken : Taken[j] = p } = {}
        BY <2>3 DEF IInv, KeptInv
      <3> QED BY <2>1, <2>3, <3>1, FS_EmptySet DEF Occurrences
    <2> QED BY <2>2, <2>3
  <1> QED BY <1>1, Invariance, PTL

\* calculateNetPositions is right for every batch: the position of a bank is
\* the sum of its credits minus the sum of its debits, banks that come out even
\* have none, and the positions add up to zero.
THEOREM NettingCorrect == Spec => []NettingIsExact
  <1>1. IInv => NettingIsExact
    <2> SUFFICES ASSUME IInv, closed
                 PROVE  /\ { <<n.BIC, n.Amount>> : n \in positions } =
                             { <<b, NetOf(b, batch)>> : b \in { c \in Banks : NetOf(c, batch) # 0 } }
                        /\ SumFunction([n \in positions |-> n.Amount]) = 0
      BY DEF NettingIsExact
    <2>1. positions = calculateNetPositions(batch) /\ batch \in Seq(Payments)
      BY DEF IInv, NetInv, TypeOK
    <2> QED BY <2>1, PositionsAreNet
  <1> QED BY <1>1, Invariance, PTL

\* Without faults, the ledger of a Settle that has returned holds both rows of
\* every entry and no other, although the rows are written outside the lock.
THEOREM LedgerComplete == Spec => []LedgerMirrorsBatch
  <1>1. IInv => LedgerMirrorsBatch
    <2> SUFFICES ASSUME IInv PROVE LedgerMirrorsBatch
      OBVIOUS
    <2>1. ledger \subseteq ToSet(batch) \X {"debit", "credit"}
      BY DEF IInv, LedgerInv
    <2>2. ASSUME closed, faults = 0, LedgerEnabled, settler = "none", proc # "exited",
                 NEW r \in ToSet(batch) \X {"debit", "credit"}
          PROVE  r \in ledger
      <3>1. Len(batch) \in Nat /\ DOMAIN batch = 1..Len(batch)
        BY LenProperties DEF IInv, TypeOK
      <3>2. written = 2 * Len(batch) /\ \A n \in 0..(written - 1) : RowAt(n) \in ledger
        BY <2>2 DEF IInv, LedgerInv, RowsToWrite
      <3>3. PICK i \in 1..Len(batch), k \in {"debit", "credit"} : r = <<batch[i], k>>
        BY <3>1 DEF ToSet
      <3>4. PICK n \in 0..(2 * Len(batch) - 1) :
               n \div 2 + 1 = i /\ (n % 2 = 0 <=> k = "debit")
        <4>1. 2 * (i - 1) \in 0..(2 * Len(batch) - 1) /\ 2 * (i - 1) + 1 \in 0..(2 * Len(batch) - 1)
          BY <3>1
        <4>2. (2 * (i - 1)) \div 2 + 1 = i /\ (2 * (i - 1)) % 2 = 0
          BY <3>1
        <4>3. (2 * (i - 1) + 1) \div 2 + 1 = i /\ (2 * (i - 1) + 1) % 2 = 1
          BY <3>1
        <4>4. CASE k = "debit"
          BY <4>1, <4>2, <4>4
        <4>5. CASE k = "credit"
          BY <4>1, <4>3, <4>5
        <4> QED BY <4>4, <4>5
      <3>5. RowAt(n) = r
        BY <3>3, <3>4 DEF RowAt
      <3> QED BY <3>2, <3>4, <3>5
    <2> QED BY <2>1, <2>2 DEF LedgerMirrorsBatch
  <1> QED BY <1>1, Invariance, PTL

\* main settles before it returns: no accepted entry is left in memory when it
\* does.
THEOREM StopIsClean == Spec => []StopSettlesAll
  <1>1. IInv => StopSettlesAll
    BY DEF IInv, ExitInv, KeptInv, Taken, StopSettlesAll, ToSet
  <1> QED BY <1>1, Invariance, PTL

\* Only the Settle that finds the window open fixes batch and positions; every
\* later one, of a goroutine, an RPC or main, changes nothing.
THEOREM WindowSettledOnce == Spec => SettledOnce
  <1>1. [Next]_vars => [closed => UNCHANGED <<closed, batch, positions>>]_vars
    <2> SUFFICES ASSUME [Next]_vars, closed PROVE UNCHANGED <<closed, batch, positions>>
      OBVIOUS
    <2>1. ASSUME NEW p \in Payments, SubmitForSettlement(p)
          PROVE  UNCHANGED <<closed, batch, positions>>
      BY <2>1 DEF SubmitForSettlement
    <2>2. CASE AutoSettle \/ SettleWindow \/ MainSettle
      BY <2>2 DEF AutoSettle, SettleWindow, MainSettle, Settle, settleVars
    <2>3. CASE WriteLedger \/ SettleDone \/ Stop \/ Exit \/ Crash
      BY <2>3 DEF WriteLedger, SettleDone, Stop, Exit, Crash, settleVars
    <2>4. CASE UNCHANGED vars
      BY <2>4 DEF vars
    <2> QED BY <2>1, <2>2, <2>3, <2>4 DEF Next
  <1> QED BY <1>1, PTL DEF Spec, SettledOnce
===========================================================================
