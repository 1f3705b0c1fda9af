------------------------- MODULE SettlementWindow -------------------------
(***************************************************************************)
(* settlement-service: ONE window (cmd/settlement-service/main.go), kept   *)
(* in memory. The gateways' settle steps add entries to it; the Add that   *)
(* reaches maxSize, and every later one until the window closes, starts a  *)
(* goroutine that settles it. SettleWindow and the end of main settle it   *)
(* too. The one Settle that finds the window open takes the entries, nets  *)
(* them and writes the ledger, outside the lock.                           *)
(***************************************************************************)
EXTENDS Integers, Sequences, SequencesExt, FiniteSetsExt

CONSTANTS
  Payments,       \* the payments that may be submitted
  Banks,
  EntryOf,        \* the SettlementEntry of a payment
  MaxSize,        \* Window.maxSize
  LedgerEnabled,  \* Window.Ledger # nil
  MaxFaults       \* bound: ledger writes that may fail

ASSUME WindowAssumption ==
  /\ IsFiniteSet(Banks)
  /\ EntryOf \in [Payments -> [SourceBIC : Banks, DestBIC : Banks, Amount : Nat, Currency : STRING]]
  /\ MaxSize \in Nat \ {0} /\ MaxFaults \in Nat /\ LedgerEnabled \in BOOLEAN

VARIABLES
  entries,    \* Window.entries
  closed,     \* Window.closed
  pending,    \* goroutines started by Add that have not called Settle yet
  acked,      \* payments answered SettlementAck{Accepted: true}
  kept,       \* payments whose Add returned no error
  batch,      \* the entries taken by the Settle that closed the window
  positions,  \* its net positions
  settler,    \* who is writing the ledger: "none", "goroutine", "rpc", "main"
  written,    \* how many rows it has tried to write
  ledger,     \* the rows written: <<payment, "debit" or "credit">>
  proc,       \* main: "serving", "draining", "settling", "exiting", "exited"
  faults

settleVars == <<closed, entries, batch, positions, settler, written>>
vars == <<entries, closed, pending, acked, kept, batch, positions, settler, written,
          ledger, proc, faults>>

---------------------------------------------------------------------------
(***************************************************************************)
(* Netting, as calculateNetPositions does it: one pass over the entries    *)
(* into a map, then one position per bank with a non-zero amount, in the   *)
(* currency of the first entry that names the bank.                        *)
(***************************************************************************)

\* Mutant: the source bank is not debited.
NetEntry_CreditOnly(m, p) == [m EXCEPT ![EntryOf[p].DestBIC] = @ + EntryOf[p].Amount]

NetEntry(m, p) ==
  LET debited == [m EXCEPT ![EntryOf[p].SourceBIC] = @ - EntryOf[p].Amount]
  IN  [debited EXCEPT ![EntryOf[p].DestBIC] = @ + EntryOf[p].Amount]

NetMap(es) == FoldLeft(NetEntry, [b \in Banks |-> 0], es)

\* Mutant: a bank whose payments cancel out gets a position of zero.
calculateNetPositions_KeepsZeros(es) ==
  LET net == NetMap(es)
      first(b) == es[Min({ i \in DOMAIN es : b \in {EntryOf[es[i]].SourceBIC, EntryOf[es[i]].DestBIC} })]
      named    == { b \in Banks : \E i \in DOMAIN es : b \in {EntryOf[es[i]].SourceBIC, EntryOf[es[i]].DestBIC} }
  IN  { [BIC |-> b, Amount |-> net[b], Currency |-> EntryOf[first(b)].Currency] : b \in named }

calculateNetPositions(es) ==
  LET net == NetMap(es)
      first(b) == es[Min({ i \in DOMAIN es : b \in {EntryOf[es[i]].SourceBIC, EntryOf[es[i]].DestBIC} })]
  IN  { [BIC |-> b, Amount |-> net[b], Currency |-> EntryOf[first(b)].Currency] :
          b \in { c \in Banks : net[c] # 0 } }

---------------------------------------------------------------------------
Owners == {"none", "goroutine", "rpc", "main"}

\* A position is an amount to pay or to receive: a bank whose payments cancel
\* out has none.
TypeOK ==
  /\ entries \in Seq(Payments) /\ batch \in Seq(Payments)
  /\ closed \in BOOLEAN
  /\ pending \in Nat /\ written \in Nat /\ faults \in 0..MaxFaults
  /\ acked \subseteq Payments /\ kept \subseteq Payments
  /\ \A n \in positions : n.BIC \in Banks /\ n.Amount \in Int \ {0}
  /\ settler \in Owners
  /\ ledger \subseteq Payments \X {"debit", "credit"}
  /\ proc \in {"serving", "draining", "settling", "exiting", "exited"}

Init ==
  /\ entries = <<>> /\ batch = <<>> /\ closed = FALSE
  /\ pending = 0 /\ written = 0 /\ faults = 0
  /\ acked = {} /\ kept = {} /\ positions = {} /\ ledger = {}
  /\ settler = "none" /\ proc = "serving"

\* Window.Add: an error when closed, else the entry is appended, and a window
\* that is full starts a goroutine to settle it.
Add(p) ==
  IF closed
  THEN UNCHANGED <<entries, kept, pending>>
  ELSE /\ entries' = Append(entries, p)
       /\ kept' = kept \cup {p}
       /\ pending' = IF Len(entries) + 1 >= MaxSize THEN pending + 1 ELSE pending

\* SubmitForSettlement drops Add's error and always answers Accepted.
SubmitForSettlement(p) ==
  /\ proc = "serving" /\ p \notin acked
  /\ Add(p)
  /\ acked' = acked \cup {p}
  /\ UNCHANGED <<closed, batch, positions, settler, written, ledger, proc, faults>>

\* Mutant: Settle does not look whether the window is closed already.
Settle_Again(who) ==
  /\ closed' = TRUE
  /\ batch' = entries
  /\ entries' = <<>>
  /\ positions' = calculateNetPositions(entries)
  /\ settler' = who
  /\ written' = 0

\* Mutant: Settle leaves the entries in the window.
Settle_KeepsEntries(who) ==
  IF closed
  THEN UNCHANGED settleVars
  ELSE /\ closed' = TRUE
       /\ batch' = entries
       /\ entries' = entries
       /\ positions' = calculateNetPositions(entries)
       /\ settler' = who
       /\ written' = 0

\* Window.Settle up to the ledger writes.
Settle(who) ==
  IF closed
  THEN UNCHANGED settleVars
  ELSE /\ closed' = TRUE
       /\ batch' = entries
       /\ entries' = <<>>
       /\ positions' = calculateNetPositions(entries)
       /\ settler' = who
       /\ written' = 0

\* Mutant: the goroutine is started and never reaches Settle.
AutoSettle_Lost ==
  /\ proc # "exited" /\ pending > 0
  /\ pending' = pending - 1
  /\ UNCHANGED <<settleVars, acked, kept, ledger, proc, faults>>

\* A goroutine started by Add.
AutoSettle ==
  /\ proc # "exited" /\ pending > 0
  /\ pending' = pending - 1
  /\ Settle("goroutine")
  /\ UNCHANGED <<acked, kept, ledger, proc, faults>>

SettleWindow ==
  /\ proc = "serving"
  /\ Settle("rpc")
  /\ UNCHANGED <<pending, acked, kept, ledger, proc, faults>>

\* The rows of the entries, debit before credit, in the order of the entries.
\* The net rows that follow have payment_id "net", which the uuid column of the
\* ledger refuses; that error is dropped like any other, so they are no rows.
RowsToWrite == IF LedgerEnabled THEN 2 * Len(batch) ELSE 0

RowAt(n) == <<batch[n \div 2 + 1], IF n % 2 = 0 THEN "debit" ELSE "credit">>

\* Mutant: the debit row is not written.
WriteLedger_CreditOnly ==
  /\ settler # "none" /\ written < RowsToWrite
  /\ written' = written + 1
  /\ ledger' = IF written % 2 = 0 THEN ledger ELSE ledger \cup {RowAt(written)}
  /\ UNCHANGED <<entries, closed, pending, acked, kept, batch, positions, settler, proc, faults>>

\* WriteSettlement; its error is dropped.
WriteLedger ==
  /\ settler # "none" /\ written < RowsToWrite
  /\ written' = written + 1
  /\ \/ ledger' = ledger \cup {RowAt(written)} /\ UNCHANGED faults
     \/ faults < MaxFaults /\ faults' = faults + 1 /\ UNCHANGED ledger
  /\ UNCHANGED <<entries, closed, pending, acked, kept, batch, positions, settler, proc>>

\* Settle returns.
SettleDone ==
  /\ settler # "none" /\ written = RowsToWrite
  /\ proc' = IF settler = "main" THEN "exiting" ELSE proc
  /\ settler' = "none"
  /\ UNCHANGED <<entries, closed, pending, acked, kept, batch, positions, written, ledger, faults>>

---------------------------------------------------------------------------
(***************************************************************************)
(* The end of main: GracefulStop refuses new calls and waits for the       *)
(* handlers, then main settles the window and the process ends, whatever   *)
(* other goroutines are doing.                                             *)
(***************************************************************************)
Stop ==
  /\ proc = "serving"
  /\ proc' = "draining"
  /\ UNCHANGED <<settleVars, pending, acked, kept, ledger, faults>>

\* Mutant: main does not settle the window before it returns.
MainSettle_Skipped ==
  /\ proc = "draining" /\ settler # "rpc"
  /\ proc' = "exiting"
  /\ UNCHANGED <<settleVars, pending, acked, kept, ledger, faults>>

MainSettle ==
  /\ proc = "draining" /\ settler # "rpc"
  /\ Settle("main")
  /\ proc' = IF closed THEN "exiting" ELSE "settling"
  /\ UNCHANGED <<pending, acked, kept, ledger, faults>>

Exit ==
  /\ proc = "exiting"
  /\ proc' = "exited" /\ settler' = "none" /\ pending' = 0
  /\ UNCHANGED <<entries, closed, acked, kept, batch, positions, written, ledger, faults>>

Crash ==
  /\ proc # "exited" /\ faults < MaxFaults
  /\ faults' = faults + 1
  /\ proc' = "exited" /\ settler' = "none" /\ pending' = 0
  /\ UNCHANGED <<entries, closed, acked, kept, batch, positions, written, ledger>>

Next ==
  \/ \E p \in Payments : SubmitForSettlement(p)
  \/ AutoSettle \/ SettleWindow \/ WriteLedger \/ SettleDone
  \/ Stop \/ MainSettle \/ Exit \/ Crash

Spec == Init /\ [][Next]_vars

\* Goroutines are scheduled and a Settle that runs goes on; nobody has to call
\* SettleWindow or stop the process.
FairSpec ==
  /\ Spec
  /\ WF_vars(AutoSettle) /\ WF_vars(WriteLedger) /\ WF_vars(SettleDone)

---------------------------------------------------------------------------
Occurrences(p, s) == Cardinality({ i \in DOMAIN s : s[i] = p })

\* Every entry Add accepted is in the window or in the settled batch, exactly
\* once, however many goroutines, RPCs and main race to settle; and nothing
\* else is there.
KeptExactlyOnce ==
  \A p \in Payments : Occurrences(p, entries \o batch) = IF p \in kept THEN 1 ELSE 0

\* What calculateNetPositions should return: the sum of a bank's credits minus
\* the sum of its debits.
Amounts(es)    == [i \in DOMAIN es |-> EntryOf[es[i]].Amount]
Credits(b, es) == { i \in DOMAIN es : EntryOf[es[i]].DestBIC = b }
Debits(b, es)  == { i \in DOMAIN es : EntryOf[es[i]].SourceBIC = b }
NetOf(b, es)   == SumFunctionOnSet(Amounts(es), Credits(b, es)) - SumFunctionOnSet(Amounts(es), Debits(b, es))

\* The positions are the net of the batch, a bank whose net is zero has none,
\* and what the banks pay is what the banks receive.
NettingIsExact ==
  closed =>
    /\ { <<n.BIC, n.Amount>> : n \in positions } =
         { <<b, NetOf(b, batch)>> : b \in { c \in Banks : NetOf(c, batch) # 0 } }
    /\ SumFunction([n \in positions |-> n.Amount]) = 0

\* A window is settled once: of all goroutines started at and past maxSize, the
\* RPCs and main, only the first to take the lock fixes batch and positions.
SettledOnce == [][closed => UNCHANGED <<closed, batch, positions>>]_vars

\* Without faults, a Settle that has returned has written both rows of every
\* entry of the batch and no other row.
LedgerMirrorsBatch ==
  /\ ledger \subseteq ToSet(batch) \X {"debit", "credit"}
  /\ closed /\ faults = 0 /\ LedgerEnabled /\ settler = "none" /\ proc # "exited" =>
       ledger = ToSet(batch) \X {"debit", "credit"}

\* When main returns, no accepted entry is left in the window's memory.
StopSettlesAll == proc = "exiting" => ToSet(batch) = kept

\* A window that is full is settled, or the process ends.
FullWindowSettles == Len(entries) >= MaxSize ~> closed \/ proc = "exited"

---------------------------------------------------------------------------
(***************************************************************************)
(* What the interface says and the code does not do.                       *)
(***************************************************************************)

\* "Submit a completed payment for net settlement" and be told "accepted"
\* (settlement.proto): an accepted payment is in the window or settled.
AcceptedIsKept == acked \subseteq kept
===========================================================================
