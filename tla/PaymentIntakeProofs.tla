------------------------ MODULE PaymentIntakeProofs -----------------------
(***************************************************************************)
(* Theorems about PaymentIntake for every set of requests and participants,*)
(* whatever payments they ask for, and every time limit and number of      *)
(* faults.                                                                 *)
(***************************************************************************)
EXTENDS PaymentIntake, FoldTheorems, SequenceTheorems

---------------------------------------------------------------------------
(***************************************************************************)
(* The inductive invariant.                                                *)
(***************************************************************************)
ClockInv ==
  /\ now \in 0..MaxTime /\ named \subseteq DOMAIN Names
  /\ faults \in Nat /\ admin \in Nat /\ faults + admin <= MaxEvents

\* A request has a row before its saga starts, and none before it arrives.
ControlInv ==
  /\ pc \in [Requests -> {"new", "answered"} \cup Running \cup Ended]
  /\ answer \in [Requests -> {"none", "202", "400", "401", "409", "500", "lost"}]
  /\ DOMAIN sent = Requests
  /\ start \in [Requests -> 0..MaxTime]
  /\ \A r \in Requests :
       /\ start[r] <= now
       /\ pc[r] \in Running \cup Ended => r \in HasRow
       /\ pc[r] = "new" => r \notin HasRow /\ answer[r] = "none"

\* Every row is a payment, and there are finitely many.
RowInv ==
  /\ DOMAIN payment = Requests /\ DOMAIN names = Requests
  /\ \A r \in HasRow : /\ payment[r].id = r /\ payment[r].amount \in Int
                       /\ payment[r].source \in STRING /\ payment[r].dest \in STRING
                       /\ sent[r].data.ccy \in STRING
  /\ createdAt \in [Requests -> 0..MaxTime]
  /\ IsFiniteSet(HasRow)

ColumnInv ==
  /\ status \in [Requests -> {"", "RECEIVED", "VALIDATED", "LOOKED_UP", "ROUTED", "QUOTED",
                              "SCREENED", Final, "ABORTED"}]
  /\ reason \in [Requests -> {""} \cup Running]
  /\ fee \in [Requests -> Nat]

\* What a lookup has read was replaced no sooner than the saga started, so that
\* its deadline bounds the age of what it puts into the cache.
LookupInv ==
  /\ registry \in Seq(0..MaxTime) /\ Len(registry) >= 1
  /\ cache \in [ver : Nat, exp : Nat] /\ cache.ver <= Len(registry)
  /\ got \in [Requests -> Nat] /\ \A r \in Requests : got[r] <= Len(registry)
  /\ cache.exp <= now + CacheTTL
  /\ cache.ver < Len(registry) => cache.exp <= registry[cache.ver + 1] + SagaTimeout + CacheTTL
  /\ \A r \in Requests : pc[r] = "fill" /\ got[r] < Len(registry) => start[r] <= registry[got[r] + 1]

\* The table of routes has one route for a source and a destination.
RouteInv ==
  /\ routes \in Seq(RouteData)
  /\ \A i, j \in 1..Len(routes) : routes[i].key = routes[j].key => i = j

QuoteInv ==
  /\ quotes \in [Requests -> {Quoting!NoQuote} \cup
                             [fee : Int, total : Int, exp : Nat, accepted : BOOLEAN]]
  /\ \A r \in Requests : quotes[r] # Quoting!NoQuote =>
       r \in HasRow /\ quotes[r].total = quotes[r].fee + payment[r].amount

\* How far a saga is tells what was recorded and who was told.
OutcomeInv ==
  /\ records \in [Requests -> {Recon!NoRecord} \cup
                   [status : {Final}, amount : Int, matched : BOOLEAN, discrepancy : BOOLEAN]]
  /\ notices \subseteq (Requests \X {"source", "dest"})
  /\ \A r \in Requests :
       /\ pc[r] \in {"recon", "notify", "done"} => status[r] = Final
       /\ records[r] # Recon!NoRecord =>
            /\ pc[r] \in {"notify", "done", "failed", "dead"} /\ status[r] = Final
            /\ records[r].amount = payment[r].amount
       /\ \A side \in {"source", "dest"} : <<r, side>> \in notices => pc[r] = "done"
       /\ pc[r] \in {"notify", "done"} /\ faults = 0 => records[r] # Recon!NoRecord
       /\ pc[r] = "done" /\ faults = 0 => {<<r, "source">>, <<r, "dest">>} \subseteq notices

BaseInv == ClockInv /\ ControlInv /\ RowInv /\ RetryIsSafe /\ RowKeepsRequest

IInv == BaseInv /\ ColumnInv /\ LookupInv /\ RouteInv /\ QuoteInv /\ OutcomeInv

---------------------------------------------------------------------------
(***************************************************************************)
(* Conversions.                                                            *)
(***************************************************************************)

\* An amount survives the way through floating point.
LEMMA AmountRoundTrip ==
  ASSUME NEW v \in Int, NEW e \in Iso!Imprecision
  PROVE  Iso!amountToMinorUnits(Iso!minorUnitsToAmount(v, e)) = v
  BY DEF Iso!Imprecision, Iso!amountToMinorUnits, Iso!minorUnitsToAmount

\* The constants that say which texts are dates and which fit a column.
LEMMA DateFacts ==
  /\ "today" \in Dates /\ "" \notin Dates /\ "NULL" \notin Dates /\ "" \notin DOMAIN Stamps
  /\ \A t \in DOMAIN Stamps : Stamps[t] \in Dates
  /\ "SLEV" \in DOMAIN Char4 /\ \A t \in DOMAIN Char4 : Char4[t] # "" /\ Char4[t] # "NULL"
  BY IntakeAssumption

\* The date buildPayment gives a payment, and the one RowKeepsRequest expects.
GivenDate(t)       == IF t \in Dates THEN t ELSE "today"
DateKept(shape, t) == IF Understood(shape, t) THEN Iso!DateOf(t) ELSE "today"

\* What the gateway parses is what the bank wrote, up to the defaults of the
\* bearer and the date, in every format.
LEMMA ParsedIsData ==
  ASSUME NEW shape \in Shapes, NEW d \in PaymentData, NEW e \in Iso!Imprecision,
         NEW x, x = Parsed(shape, d, e)
  PROVE  /\ x.e2e = d.e2e /\ x.dest = d.dest /\ x.acct = d.acct /\ x.amount = d.amount
         /\ x.ccy = d.ccy /\ x.uetr = d.uetr /\ x.instr = d.instr /\ x.purp = d.purp
         /\ x.rmt = d.rmt /\ Iso!Or(x.bearer, "SLEV") = Iso!Or(d.bearer, "SLEV")
         /\ GivenDate(x.date) = DateKept(shape, d.date)
  <1> DEFINE Reads(doc) ==
               /\ x.e2e = doc.e2e /\ x.dest = Iso!Or(doc.bicfi, doc.agtOthr)
               /\ x.acct = Iso!Or(doc.iban, doc.acctOthr) /\ x.amount = Iso!amountToMinorUnits(doc.amt)
               /\ x.ccy = doc.ccy /\ x.uetr = doc.uetr /\ x.instr = doc.instr
               /\ x.bearer = doc.bearer /\ x.date = Iso!DateOf(doc.grpDate)
               /\ x.purp = Iso!Or(doc.purp, doc.ctgy) /\ x.rmt = doc.rmt
  <1>1. CASE shape = "json"
    <2>1. x = d
      BY <1>1 DEF Parsed
    <2>2. GivenDate(d.date) = DateKept(shape, d.date)
      BY <1>1 DEF GivenDate, DateKept, Understood, Iso!DateOf
    <2> QED BY <2>1, <2>2
  <1>2. CASE shape = "pacs008"
    <2> DEFINE doc == Iso!ToPacs008(d, e)
    <2>1. /\ doc.e2e = d.e2e /\ doc.bicfi = "" /\ doc.agtOthr = d.dest /\ doc.iban = ""
          /\ doc.acctOthr = d.acct /\ doc.amt = Iso!minorUnitsToAmount(d.amount, e)
          /\ doc.ccy = d.ccy /\ doc.uetr = d.uetr /\ doc.instr = d.instr
          /\ doc.bearer = Iso!Or(d.bearer, "SLEV")
          /\ doc.grpDate = Iso!Or(Iso!DateOf(d.date), "today")
          /\ doc.purp = d.purp /\ doc.ctgy = "" /\ doc.rmt = d.rmt
      BY DEF Iso!ToPacs008, Iso!OtherPacs008
    <2> HIDE DEF doc
    <2>2. x = Iso!FromPacs008(doc)
      BY <1>2 DEF Parsed, doc
    <2>3. Reads(doc)
      BY <2>2 DEF Iso!FromPacs008, Iso!accountBICFromAgent, Iso!accountIDValue
    <2>4. x.amount = d.amount
      BY <2>1, <2>3, AmountRoundTrip DEF PaymentData
    <2>5. x.dest = d.dest /\ x.acct = d.acct /\ x.purp = d.purp
      BY <2>1, <2>3 DEF Iso!Or
    <2>6. Iso!Or(x.bearer, "SLEV") = Iso!Or(d.bearer, "SLEV")
      BY <2>1, <2>3 DEF Iso!Or
    <2>7. GivenDate(x.date) = DateKept(shape, d.date)
      BY <1>2, <2>1, <2>3, DateFacts DEF GivenDate, DateKept, Understood, Iso!DateOf, Iso!Or
    <2> QED BY <2>1, <2>3, <2>4, <2>5, <2>6, <2>7
  <1>3. CASE shape = "groupDate"
    <2> DEFINE doc == Iso!OtherPacs008(d, e, TRUE)
    <2>1. /\ doc.e2e = d.e2e /\ doc.bicfi = d.dest /\ doc.agtOthr = "" /\ doc.iban = d.acct
          /\ doc.acctOthr = "" /\ doc.amt = Iso!minorUnitsToAmount(d.amount, e)
          /\ doc.ccy = d.ccy /\ doc.uetr = d.uetr /\ doc.instr = d.instr
          /\ doc.bearer = d.bearer /\ doc.grpDate = d.date
          /\ doc.purp = "" /\ doc.ctgy = d.purp /\ doc.rmt = d.rmt
      BY DEF Iso!ToPacs008, Iso!OtherPacs008
    <2> HIDE DEF doc
    <2>2. x = Iso!FromPacs008(doc)
      BY <1>3 DEF Parsed, doc
    <2>3. Reads(doc)
      BY <2>2 DEF Iso!FromPacs008, Iso!accountBICFromAgent, Iso!accountIDValue
    <2>4. x.amount = d.amount
      BY <2>1, <2>3, AmountRoundTrip DEF PaymentData
    <2>5. x.dest = d.dest /\ x.acct = d.acct /\ x.purp = d.purp
      BY <2>1, <2>3 DEF Iso!Or
    <2>6. Iso!Or(x.bearer, "SLEV") = Iso!Or(d.bearer, "SLEV")
      BY <2>1, <2>3 DEF Iso!Or
    <2>7. GivenDate(x.date) = DateKept(shape, d.date)
      BY <1>3, <2>1, <2>3, DateFacts DEF GivenDate, DateKept, Understood, Iso!DateOf, Iso!Or
    <2> QED BY <2>1, <2>3, <2>4, <2>5, <2>6, <2>7
  <1>4. CASE shape = "txDate"
    <2> DEFINE doc == Iso!OtherPacs008(d, e, FALSE)
    <2>1. /\ doc.e2e = d.e2e /\ doc.bicfi = d.dest /\ doc.agtOthr = "" /\ doc.iban = d.acct
          /\ doc.acctOthr = "" /\ doc.amt = Iso!minorUnitsToAmount(d.amount, e)
          /\ doc.ccy = d.ccy /\ doc.uetr = d.uetr /\ doc.instr = d.instr
          /\ doc.bearer = d.bearer /\ doc.grpDate = ""
          /\ doc.purp = "" /\ doc.ctgy = d.purp /\ doc.rmt = d.rmt
      BY DEF Iso!ToPacs008, Iso!OtherPacs008
    <2> HIDE DEF doc
    <2>2. x = Iso!FromPacs008(doc)
      BY <1>4 DEF Parsed, doc
    <2>3. Reads(doc)
      BY <2>2 DEF Iso!FromPacs008, Iso!accountBICFromAgent, Iso!accountIDValue
    <2>4. x.amount = d.amount
      BY <2>1, <2>3, AmountRoundTrip DEF PaymentData
    <2>5. x.dest = d.dest /\ x.acct = d.acct /\ x.purp = d.purp
      BY <2>1, <2>3 DEF Iso!Or
    <2>6. Iso!Or(x.bearer, "SLEV") = Iso!Or(d.bearer, "SLEV")
      BY <2>1, <2>3 DEF Iso!Or
    <2>7. GivenDate(x.date) = DateKept(shape, d.date)
      BY <1>4, <2>1, <2>3, DateFacts DEF GivenDate, DateKept, Understood, Iso!DateOf, Iso!Or
    <2> QED BY <2>1, <2>3, <2>4, <2>5, <2>6, <2>7
  <1> QED BY <1>1, <1>2, <1>3, <1>4 DEF Shapes

\* A column is read back as it was stored: NULL for no text, or else the text,
\* padded to the width of its column.
LEMMA StoredAndRead ==
  ASSUME NEW p, NEW row, row = Iso!CreatePaymentParams(p), NEW m, m = Iso!mapFromSQLC(row),
         NEW f \in DOMAIN p, p[f] # "NULL", Iso!Padded(f, p[f]) # "NULL"
  PROVE  /\ m[f] = IF f \in Iso!Texts /\ p[f] = "" THEN "" ELSE Iso!Padded(f, p[f])
         /\ f \notin Iso!Texts => row[f] = Iso!Padded(f, p[f])
  <1>1. DOMAIN row = DOMAIN p
        /\ row[f] = IF f \in Iso!Texts /\ p[f] = "" THEN "NULL" ELSE Iso!Padded(f, p[f])
    BY DEF Iso!CreatePaymentParams
  <1>2. m[f] = IF f \in Iso!Texts /\ row[f] = "NULL" THEN "" ELSE row[f]
    BY <1>1 DEF Iso!mapFromSQLC
  <1> QED BY <1>1, <1>2

\* The same for a column that is neither optional nor padded.
LEMMA PlainColumn ==
  ASSUME NEW p, NEW row, row = Iso!CreatePaymentParams(p), NEW m, m = Iso!mapFromSQLC(row),
         NEW f \in DOMAIN p, f \notin Iso!Texts
  PROVE  /\ row[f] = Iso!Padded(f, p[f]) /\ m[f] = row[f]
  <1>1. DOMAIN row = DOMAIN p /\ row[f] = Iso!Padded(f, p[f])
    BY DEF Iso!CreatePaymentParams
  <1>2. m[f] = row[f]
    BY <1>1 DEF Iso!mapFromSQLC
  <1> QED BY <1>1, <1>2

\* The bank an account belongs to.
LEMMA AccountOfParticipant ==
  ASSUME NEW who \in DOMAIN Participants
  PROVE  AccountLookup(Participants[who].account) = Participants[who].bic
  <1>1. LookupAccount(Participants[who].account) = {Participants[who].bic}
    <2>1. \A q \in DOMAIN Participants : Participants[q].account = Participants[who].account => q = who
      BY IntakeAssumption
    <2> QED BY <2>1 DEF LookupAccount
  <1>2. Participants[who].account # ""
    BY IntakeAssumption
  <1> QED BY <1>1, <1>2 DEF AccountLookup

\* The row that a request becomes.
LEMMA BuiltRow ==
  ASSUME NEW r \in Requests, NEW who \in DOMAIN Participants, NEW d \in PaymentData,
         NEW shape \in Shapes, NEW e \in Iso!Imprecision,
         NEW p, p = Iso!buildPayment(Parsed(shape, d, e), r, Participants[who].bic,
                                     Participants[who].account),
         Iso!Fits(p),
         NEW row, row = Iso!CreatePaymentParams(p), NEW m, m = Iso!mapFromSQLC(row)
  PROVE  /\ p.source = Participants[who].bic /\ p.e2e = d.e2e
         /\ row.id = r /\ row.source = Participants[who].bic /\ row.e2e = d.e2e
         /\ row.amount = d.amount /\ row.dest = d.dest
         /\ Kept(m, who, shape, d)
  <1> DEFINE x == Parsed(shape, d, e)
  <1>1. /\ x.e2e = d.e2e /\ x.dest = d.dest /\ x.acct = d.acct /\ x.amount = d.amount
        /\ x.ccy = d.ccy /\ x.uetr = d.uetr /\ x.instr = d.instr /\ x.purp = d.purp
        /\ x.rmt = d.rmt /\ Iso!Or(x.bearer, "SLEV") = Iso!Or(d.bearer, "SLEV")
        /\ GivenDate(x.date) = DateKept(shape, d.date)
    BY ParsedIsData
  <1> HIDE DEF x
  <1>2. /\ DOMAIN p = {"id", "e2e", "source", "dest", "sourceAcct", "acct", "amount", "ccy", "uetr",
                       "instr", "bearer", "date", "purp", "rmt"}
        /\ p.id = r /\ p.e2e = x.e2e /\ p.source = Participants[who].bic /\ p.dest = x.dest
        /\ p.sourceAcct = Participants[who].account /\ p.acct = x.acct /\ p.amount = x.amount
        /\ p.ccy = x.ccy /\ p.uetr = Iso!Or(x.uetr, "new") /\ p.instr = Iso!Or(x.instr, r)
        /\ p.bearer = Iso!Or(x.bearer, "SLEV") /\ p.date = GivenDate(x.date)
        /\ p.purp = x.purp /\ p.rmt = x.rmt
    BY DEF Iso!buildPayment, GivenDate, x
  <1>3. /\ d.uetr # "NULL" /\ d.instr # "NULL" /\ d.bearer # "NULL"
        /\ d.purp # "NULL" /\ d.rmt # "NULL"
    BY DEF PaymentData, Text
  <1>4. r # "" /\ r # "NULL"
    BY IntakeAssumption
  <1>5. /\ p.uetr # "" /\ p.uetr # "NULL" /\ (d.uetr # "" => p.uetr = d.uetr)
        /\ p.instr # "" /\ p.instr # "NULL" /\ (d.instr # "" => p.instr = d.instr)
        /\ p.bearer # "" /\ p.bearer # "NULL" /\ p.bearer = Iso!Or(d.bearer, "SLEV")
        /\ p.purp # "NULL" /\ p.rmt # "NULL" /\ p.purp = d.purp /\ p.rmt = d.rmt
    BY <1>1, <1>2, <1>3, <1>4 DEF Iso!Or
  <1>6. p.date \in Dates /\ p.date # "" /\ p.date # "NULL"
    BY <1>2, DateFacts DEF GivenDate
  <1>7. p.bearer \in DOMAIN Char4 /\ (p.purp = "" \/ p.purp \in DOMAIN Char4)
    BY <1>5 DEF Iso!Fits
  <1>read. \A f \in DOMAIN p : p[f] # "NULL" /\ p[f] # "" /\ Iso!Padded(f, p[f]) # "NULL"
                                => m[f] = Iso!Padded(f, p[f])
    BY StoredAndRead
  <1>8. /\ m["uetr"] = p.uetr /\ m["instr"] = p.instr /\ m["date"] = p.date /\ m["rmt"] = p.rmt
    <2>1. \A f \in {"uetr", "instr", "date", "rmt"} : Iso!Padded(f, p[f]) = p[f] /\ f \in DOMAIN p
      BY <1>2 DEF Iso!Padded
    <2>2. p.rmt = "" => m["rmt"] = ""
      <3>1. "rmt" \in DOMAIN p /\ "rmt" \in Iso!Texts /\ p["rmt"] = p.rmt
        BY <1>2 DEF Iso!Texts
      <3>2. p.rmt = "" => DOMAIN row = DOMAIN p /\ row["rmt"] = "NULL"
        BY <3>1 DEF Iso!CreatePaymentParams
      <3> QED BY <3>1, <3>2 DEF Iso!mapFromSQLC
    <2> QED BY <1>read, <1>5, <1>6, <2>1, <2>2
  <1>9. m["bearer"] = Char4[p.bearer]
    <2>1. "bearer" \in DOMAIN p /\ Iso!Padded("bearer", p["bearer"]) = Char4[p.bearer]
      BY <1>2 DEF Iso!Padded
    <2>2. Char4[p.bearer] # "NULL"
      BY <1>7, DateFacts
    <2> QED BY <1>read, <1>5, <2>1, <2>2
  <1>10. m["purp"] = IF p.purp = "" THEN "" ELSE Char4[p.purp]
    <2>1. /\ "purp" \in DOMAIN p /\ "purp" \in Iso!Texts /\ p["purp"] = p.purp
          /\ Iso!Padded("purp", p["purp"]) = Char4[p.purp]
      BY <1>2 DEF Iso!Padded, Iso!Texts
    <2>2. CASE p.purp = ""
      <3>1. DOMAIN row = DOMAIN p /\ row["purp"] = "NULL"
        BY <2>1, <2>2 DEF Iso!CreatePaymentParams
      <3>2. m["purp"] = ""
        BY <2>1, <3>1 DEF Iso!mapFromSQLC
      <3> QED BY <2>2, <3>2
    <2>3. CASE p.purp # ""
      <3>1. Char4[p.purp] # "NULL"
        BY <1>7, <2>3, DateFacts
      <3> QED BY <1>read, <1>5, <2>1, <2>3, <3>1
    <2> QED BY <2>2, <2>3
  <1>11. m["ccy"] = Char3[p.ccy]
    <2>1. "ccy" \in DOMAIN p /\ "ccy" \notin Iso!Texts /\ Iso!Padded("ccy", p["ccy"]) = Char3[p.ccy]
      BY <1>2 DEF Iso!Padded, Iso!Texts
    <2> QED BY <2>1, PlainColumn
  <1>12. /\ m["e2e"] = p.e2e /\ m["dest"] = p.dest /\ m["acct"] = p.acct /\ m["amount"] = p.amount
         /\ m.source = p.source /\ m.sourceAcct = p.sourceAcct
         /\ row.id = p.id /\ row.source = p.source /\ row.e2e = p.e2e /\ row.amount = p.amount
         /\ row.dest = p.dest
    <2>1. \A f \in {"id", "e2e", "source", "dest", "sourceAcct", "acct", "amount"} :
            f \in DOMAIN p /\ f \notin Iso!Texts /\ Iso!Padded(f, p[f]) = p[f]
      BY <1>2 DEF Iso!Padded, Iso!Texts
    <2>2. \A f \in {"id", "e2e", "source", "dest", "sourceAcct", "acct", "amount"} :
            m[f] = p[f] /\ row[f] = p[f]
      BY <2>1, PlainColumn
    <2> QED BY <2>2
  <1>13. AccountLookup(m.sourceAcct) = m.source
    BY <1>2, <1>12, AccountOfParticipant
  <1>14. \A f \in {"e2e", "dest", "acct", "amount", "rmt"} : m[f] = d[f]
    <2>1. /\ m["e2e"] = d["e2e"] /\ m["dest"] = d["dest"] /\ m["acct"] = d["acct"]
          /\ m["amount"] = d["amount"] /\ m["rmt"] = d["rmt"]
      BY <1>1, <1>2, <1>5, <1>8, <1>12
    <2> QED BY <2>1
  <1>15. \A f \in {"uetr", "instr"} : m[f] # "" /\ (d[f] # "" => m[f] = d[f])
    <2>1. /\ m["uetr"] # "" /\ (d["uetr"] # "" => m["uetr"] = d["uetr"])
          /\ m["instr"] # "" /\ (d["instr"] # "" => m["instr"] = d["instr"])
      BY <1>5, <1>8
    <2> QED BY <2>1
  <1>16. /\ m.ccy = Char3[d.ccy] /\ m.bearer = Char4[Iso!Or(d.bearer, "SLEV")]
         /\ m.purp = IF d.purp = "" THEN "" ELSE Char4[d.purp]
         /\ m.date = IF Understood(shape, d.date) THEN Iso!DateOf(d.date) ELSE "today"
         /\ m.source = Participants[who].bic
    <2>1. m.ccy = Char3[d.ccy] /\ m.bearer = Char4[Iso!Or(d.bearer, "SLEV")]
      BY <1>1, <1>2, <1>5, <1>9, <1>11
    <2>2. m.purp = IF d.purp = "" THEN "" ELSE Char4[d.purp]
      BY <1>5, <1>10
    <2>3. m.date = DateKept(shape, d.date)
      BY <1>1, <1>2, <1>8
    <2>4. m.source = Participants[who].bic
      BY <1>2, <1>12
    <2> QED BY <2>1, <2>2, <2>3, <2>4 DEF DateKept
  <1>17. /\ p.source = Participants[who].bic /\ p.e2e = d.e2e
         /\ row.id = r /\ row.source = Participants[who].bic /\ row.e2e = d.e2e
         /\ row.amount = d.amount /\ row.dest = d.dest
    BY <1>1, <1>2, <1>12
  <1> QED BY <1>13, <1>14, <1>15, <1>16, <1>17, Zenon DEF Kept

---------------------------------------------------------------------------
(***************************************************************************)
(* The initial state, and what a step leaves alone.                        *)
(***************************************************************************)

\* The order of the steps.
LEMMA StepOrder ==
  /\ After("validate") = "lookup" /\ After("lookup") = "route" /\ After("route") = "quote"
  /\ After("quote") = "screen" /\ After("screen") = "bank" /\ After("bank") = "recon"
  /\ After("recon") = "notify" /\ After("notify") = "done"
  <1>1. ASSUME NEW i \in 1..8 PROVE After(sagaSteps[i]) = sagaSteps[i + 1]
    <2>1. Len(sagaSteps) = 9 /\ i \in 1..Len(sagaSteps)
      BY DEF sagaSteps
    <2>2. \A j \in 1..Len(sagaSteps) : sagaSteps[j] = sagaSteps[i] => j = i
      BY <2>1 DEF sagaSteps
    <2>3. (CHOOSE j \in 1..Len(sagaSteps) : sagaSteps[j] = sagaSteps[i]) = i
      BY <2>1, <2>2
    <2> QED BY <2>3 DEF After
  <1>2. /\ sagaSteps[1] = "validate" /\ sagaSteps[2] = "lookup" /\ sagaSteps[3] = "route"
        /\ sagaSteps[4] = "quote" /\ sagaSteps[5] = "screen" /\ sagaSteps[6] = "bank"
        /\ sagaSteps[7] = "recon" /\ sagaSteps[8] = "notify" /\ sagaSteps[9] = "done"
    BY DEF sagaSteps
  <1>3. /\ After(sagaSteps[1]) = sagaSteps[2] /\ After(sagaSteps[2]) = sagaSteps[3]
        /\ After(sagaSteps[3]) = sagaSteps[4] /\ After(sagaSteps[4]) = sagaSteps[5]
        /\ After(sagaSteps[5]) = sagaSteps[6] /\ After(sagaSteps[6]) = sagaSteps[7]
        /\ After(sagaSteps[7]) = sagaSteps[8] /\ After(sagaSteps[8]) = sagaSteps[9]
    BY <1>1
  <1> QED BY <1>2, <1>3

\* The numbers among the constants.
LEMMA Bounds ==
  /\ CacheTTL \in Nat /\ QuoteTTL \in Nat /\ SagaTimeout \in Nat /\ NewFee \in Nat
  /\ MaxTime \in Nat /\ MaxEvents \in Nat
  BY IntakeAssumption, Zenon

\* Nothing has been asked for yet.
LEMMA InitInv == Init => IInv
  <1> SUFFICES ASSUME Init PROVE IInv
    OBVIOUS
  <1> USE Bounds
  <1>1. HasRow = {} /\ pc = [r \in Requests |-> "new"]
        /\ answer = [r \in Requests |-> "none"] /\ payment = [r \in Requests |-> NoRow]
        /\ now = 0 /\ createdAt = [r \in Requests |-> 0] /\ start = [r \in Requests |-> 0]
        /\ got = [r \in Requests |-> 0]
    BY DEF Init, HasRow
  <1>2. ClockInv
    <2>1. now = 0 /\ faults = 0 /\ admin = 0 /\ named = {}
      BY Zenon DEF Init
    <2> QED BY <2>1 DEF ClockInv
  <1>3. ControlInv
    <2>1. sent = [r \in Requests |-> NoRow]
      BY Zenon DEF Init
    <2> QED BY <1>1, <2>1 DEF ControlInv, Running, Ended
  <1>4. RowInv
    <2>1. DOMAIN names = Requests
      BY DEF Init
    <2>2. IsFiniteSet(HasRow)
      BY <1>1, FS_EmptySet
    <2> QED BY <1>1, <2>1, <2>2 DEF RowInv
  <1>5. RetryIsSafe
    BY <1>1 DEF RetryIsSafe
  <1>6. RowKeepsRequest
    BY <1>1 DEF RowKeepsRequest
  <1>7. ColumnInv
    BY DEF Init, ColumnInv
  <1>8. LookupInv
    <2>1. registry \in Seq(0..MaxTime) /\ Len(registry) = 1 /\ registry[1] = 0
      <3>1. registry = <<0>>
        BY Zenon DEF Init, Lookup!LookupInit
      <3> QED BY <3>1
    <2>2. cache \in [ver : Nat, exp : Nat] /\ cache.ver = 0 /\ cache.exp = 0
      BY DEF Init, Lookup!LookupInit, Lookup!NoEntry
    <2> QED BY <1>1, <2>1, <2>2 DEF LookupInv
  <1>9. RouteInv
    BY IntakeAssumption, Zenon DEF Init, RouteInv, Routing!RoutingInit
  <1>10. QuoteInv
    BY DEF Init, QuoteInv, Quoting!QuotingInit
  <1>11. OutcomeInv
    BY <1>1 DEF Init, OutcomeInv, Recon!ReconciliationInit
  <1> QED BY <1>2, <1>3, <1>4, <1>5, <1>6, <1>7, <1>8, <1>9, <1>10, <1>11 DEF IInv, BaseInv

\* A fault more, or none.
LEMMA FaultKeeps ==
  ASSUME ClockInv, NoFault \/ Fault
  PROVE  faults' \in Nat /\ faults' + admin <= MaxEvents /\ (faults' = 0 => faults = 0)
  BY Bounds DEF ClockInv, NoFault, Fault

\* Rows and answers that nothing touches stay true.
LEMMA RowsKept ==
  ASSUME RowInv, RetryIsSafe, RowKeepsRequest, UNCHANGED <<clientVars, rowVars>>
  PROVE  RowInv' /\ RetryIsSafe' /\ RowKeepsRequest' /\ HasRow' = HasRow
  <1>1. UNCHANGED <<answer, sent, payment, createdAt, names>> /\ HasRow' = HasRow
    BY DEF clientVars, rowVars, HasRow
  <1>2. RowInv'
    <2>1. IsFiniteSet(HasRow')
      BY <1>1 DEF RowInv
    <2> QED BY <1>1, <2>1 DEF RowInv
  <1>3. RetryIsSafe'
    BY <1>1 DEF RetryIsSafe
  <1>4. RowKeepsRequest'
    <2>1. \A r : GetPayment(r).row' = GetPayment(r).row
      BY <1>1 DEF GetPayment
    <2> QED BY <1>1, <2>1 DEF RowKeepsRequest
  <1> QED BY <1>1, <1>2, <1>3, <1>4

\* A step of a saga, or a crash, that leaves clients and rows alone.
LEMMA BaseKept ==
  ASSUME BaseInv, UNCHANGED <<now, clientVars, rowVars, start, adminVars>>, NoFault \/ Fault,
         pc' \in [Requests -> {"new", "answered"} \cup Running \cup Ended],
         \A r \in Requests : pc'[r] = pc[r] \/ (pc[r] \in Running /\ pc'[r] \in Running \cup Ended)
  PROVE  BaseInv' /\ HasRow' = HasRow
  <1> USE DEF BaseInv
  <1>1. RowInv' /\ RetryIsSafe' /\ RowKeepsRequest' /\ HasRow' = HasRow
    BY RowsKept
  <1>2. ClockInv'
    BY FaultKeeps DEF ClockInv, adminVars
  <1>3. ControlInv'
    <2>1. UNCHANGED <<answer, sent>>
      BY DEF clientVars
    <2>2. \A r \in Requests : pc'[r] = "new" => pc[r] = "new"
      BY DEF Running, Ended
    <2> QED BY <1>1, <2>1, <2>2 DEF ControlInv
  <1> QED BY <1>1, <1>2, <1>3

\* The lookup service is left alone, and no lookup has just read it.
LEMMA LookupKept ==
  ASSUME LookupInv, UNCHANGED <<registry, cache, now>>, got' \in [Requests -> Nat],
         \A r \in Requests : got'[r] \in {0, got[r]},
         \A r \in Requests : pc'[r] = "fill" =>
           pc[r] = "fill" /\ start'[r] = start[r] /\ got'[r] = got[r]
  PROVE  LookupInv'
  <1>1. \A r \in Requests : got'[r] <= Len(registry)
    BY LenProperties DEF LookupInv
  <1> QED BY <1>1 DEF LookupInv

\* So are the routes,
LEMMA RoutesKept == RouteInv /\ UNCHANGED routes => RouteInv'
  BY DEF RouteInv

\* the quotes,
LEMMA QuotesKept ==
  ASSUME QuoteInv, UNCHANGED quotes,
         \A r \in HasRow : r \in HasRow' /\ payment'[r] = payment[r]
  PROVE  QuoteInv'
  BY DEF QuoteInv

\* and, before the last two steps of a saga, the records and notices.
LEMMA OutcomeKept ==
  ASSUME OutcomeInv, UNCHANGED <<records, notices>>, faults' = 0 => faults = 0,
         \A r \in Requests : records[r] # Recon!NoRecord => payment'[r].amount = payment[r].amount,
         \A r \in Requests :
           \/ pc'[r] = pc[r] /\ status'[r] = status[r]
           \/ /\ pc[r] \in {"new"} \cup (Running \ {"recon", "notify"})
              /\ pc'[r] \in {"answered", "failed", "dead"} \cup (Running \ {"notify"})
              /\ pc'[r] = "recon" => status'[r] = Final
           \/ pc[r] \in Running /\ pc'[r] \in {"failed", "dead"} /\ status'[r] = status[r]
  PROVE  OutcomeInv'
  <1> SUFFICES ASSUME NEW r \in Requests
               PROVE  /\ pc'[r] \in {"recon", "notify", "done"} => status'[r] = Final
                      /\ records[r] # Recon!NoRecord =>
                           /\ pc'[r] \in {"notify", "done", "failed", "dead"} /\ status'[r] = Final
                           /\ records[r].amount = payment'[r].amount
                      /\ \A side \in {"source", "dest"} : <<r, side>> \in notices => pc'[r] = "done"
                      /\ pc'[r] \in {"notify", "done"} /\ faults' = 0 => records[r] # Recon!NoRecord
                      /\ pc'[r] = "done" /\ faults' = 0 =>
                           {<<r, "source">>, <<r, "dest">>} \subseteq notices
    BY DEF OutcomeInv
  <1>1. CASE pc'[r] = pc[r] /\ status'[r] = status[r]
    BY <1>1 DEF OutcomeInv
  <1>2. CASE /\ pc[r] \in {"new"} \cup (Running \ {"recon", "notify"})
             /\ pc'[r] \in {"answered", "failed", "dead"} \cup (Running \ {"notify"})
             /\ pc'[r] = "recon" => status'[r] = Final
    <2>1. records[r] = Recon!NoRecord /\ \A side \in {"source", "dest"} : <<r, side>> \notin notices
      BY <1>2 DEF OutcomeInv, Running
    <2>2. pc'[r] # "notify" /\ pc'[r] # "done"
      BY <1>2 DEF Running
    <2> QED BY <1>2, <2>1, <2>2
  <1>3. CASE pc[r] \in Running /\ pc'[r] \in {"failed", "dead"} /\ status'[r] = status[r]
    BY <1>3 DEF OutcomeInv, Running
  <1> QED BY <1>1, <1>2, <1>3

---------------------------------------------------------------------------
(***************************************************************************)
(* The gateway.                                                            *)
(***************************************************************************)

\* A request that is refused changes its answer and nothing else. It is told
\* 409 only when another request has made the payment.
LEMMA RefusedKeeps ==
  ASSUME IInv, NEW r \in Requests, pc[r] = "new", NEW who, NEW shape, NEW d,
         sent' = sent \/ sent' = [sent EXCEPT ![r] = [who |-> who, shape |-> shape, data |-> d]],
         NEW a \in {"400", "401", "409", "500"}, Refused(r, a), NoFault \/ Fault,
         a = "409" => /\ sent'[r] = [who |-> who, shape |-> shape, data |-> d]
                      /\ \E q \in HasRow : payment[q].source = Participants[who].bic
                                           /\ payment[q].e2e = d.e2e,
         UNCHANGED <<now, reason, fee, got, notices, serviceVars, adminVars>>
  PROVE  IInv'
  <1> USE DEF IInv, BaseInv
  <1>1. /\ answer' = [answer EXCEPT ![r] = a] /\ pc' = [pc EXCEPT ![r] = "answered"]
        /\ UNCHANGED <<payment, createdAt, names, status, start>> /\ HasRow' = HasRow
        /\ UNCHANGED <<registry, cache, routes, quotes, records>>
    BY DEF Refused, Told, rowVars, serviceVars, HasRow
  <1>2. faults' \in Nat /\ faults' + admin <= MaxEvents /\ (faults' = 0 => faults = 0)
    BY FaultKeeps
  <1>3. r \notin HasRow /\ answer[r] = "none"
    BY DEF ControlInv
  <1>4. ClockInv'
    BY <1>2 DEF ClockInv, adminVars
  <1>5. ControlInv'
    BY <1>1, <1>3 DEF ControlInv, Running, Ended
  <1>6. RowInv'
    <2>1. IsFiniteSet(HasRow')
      BY <1>1 DEF RowInv
    <2>2. \A q \in HasRow : q \in Requests /\ sent'[q] = sent[q]
      BY <1>3 DEF ControlInv, HasRow
    <2> QED BY <1>1, <2>1, <2>2 DEF RowInv
  <1>7. \A q \in Requests : q # r => sent'[q] = sent[q] /\ answer'[q] = answer[q] /\ pc'[q] = pc[q]
    BY <1>1 DEF ControlInv
  <1>8. answer'[r] = a /\ (a = "409" => sent'[r].who = who /\ sent'[r].data = d)
    BY <1>1 DEF ControlInv
  <1>9. HasRow \subseteq Requests
    BY DEF HasRow
  <1>10. RetryIsSafe'
    <2>1. ASSUME NEW q \in Requests
          PROVE  /\ answer'[q] = "202" => q \in HasRow
                 /\ answer'[q] \in {"400", "401", "409"} => q \notin HasRow
                 /\ answer'[q] = "409" => \E x \in HasRow \ {q} :
                      /\ payment[x].source = Participants[sent'[q].who].bic
                      /\ payment[x].e2e = sent'[q].data.e2e
      <3>1. CASE q # r
        BY <1>7, <3>1 DEF RetryIsSafe
      <3>2. CASE q = r
        BY <1>3, <1>8, <3>2
      <3> QED BY <3>1, <3>2
    <2> QED BY <1>1, <2>1 DEF RetryIsSafe
  <1>11. RowKeepsRequest'
    <2>1. ASSUME NEW q \in HasRow PROVE q # r /\ sent'[q] = sent[q]
      BY <1>3, <1>7, <1>9
    <2>2. \A q : GetPayment(q).row' = GetPayment(q).row
      BY <1>1 DEF GetPayment
    <2> QED BY <1>1, <2>1, <2>2 DEF RowKeepsRequest
  <1>12. ColumnInv'
    BY <1>1 DEF ColumnInv
  <1>13. pc'[r] = "answered"
    BY <1>1 DEF ControlInv
  <1>14. LookupInv'
    <2>1. got' \in [Requests -> Nat] /\ \A q \in Requests : got'[q] \in {0, got[q]}
      BY DEF LookupInv
    <2>2. \A q \in Requests : pc'[q] = "fill" => pc[q] = "fill" /\ start'[q] = start[q]
      BY <1>1, <1>7, <1>13
    <2> QED BY <1>1, <2>1, <2>2, LookupKept
  <1>15. RouteInv' /\ QuoteInv'
    BY <1>1, RoutesKept, QuotesKept
  <1>16. OutcomeInv'
    BY <1>1, <1>2, <1>7, <1>13, OutcomeKept
  <1> QED BY <1>4, <1>5, <1>6, <1>10, <1>11, <1>12, <1>14, <1>15, <1>16

\* A new row joins the others.
LEMMA CreatedRow ==
  ASSUME RowInv, now \in 0..MaxTime, NEW r \in Requests, r \notin HasRow, NEW p, Created(r, p),
         NEW row, row = Iso!CreatePaymentParams(p), row.id = r, row.amount \in Int,
         row.source \in STRING, row.dest \in STRING, sent'[r].data.ccy \in STRING,
         \A q \in Requests : q # r => sent'[q] = sent[q]
  PROVE  /\ HasRow' = HasRow \cup {r} /\ payment'[r] = row
         /\ \A q \in Requests : q # r => payment'[q] = payment[q]
         /\ RowInv'
  <1>1. payment' = [payment EXCEPT ![r] = row] /\ DOMAIN names' = Requests
    BY DEF Created, RowInv
  <1>2. payment'[r] = row /\ (\A q \in Requests : q # r => payment'[q] = payment[q])
        /\ DOMAIN payment' = Requests
    BY <1>1 DEF RowInv
  <1>3. row # NoRow
    <2>1. r # "none" /\ NoRow.id = "none"
      BY IntakeAssumption DEF NoRow
    <2> QED BY <2>1
  <1>4. HasRow' = HasRow \cup {r}
    BY <1>2, <1>3 DEF HasRow
  <1>5. IsFiniteSet(HasRow')
    BY <1>4, FS_AddElement DEF RowInv
  <1>6. createdAt' \in [Requests -> 0..MaxTime]
    <2>1. PICK at \in 0..now : createdAt' = [createdAt EXCEPT ![r] = at]
      BY DEF Created
    <2>2. at \in 0..MaxTime
      BY Bounds
    <2> QED BY <2>1, <2>2 DEF RowInv
  <1>7. ASSUME NEW q \in HasRow'
        PROVE  /\ payment'[q].id = q /\ payment'[q].amount \in Int
               /\ payment'[q].source \in STRING /\ payment'[q].dest \in STRING
               /\ sent'[q].data.ccy \in STRING
    <2>1. CASE q = r
      BY <1>2, <2>1
    <2>2. CASE q # r
      BY <1>2, <1>4, <2>2 DEF RowInv, HasRow
    <2> QED BY <2>1, <2>2
  <1>8. RowInv'
    BY <1>1, <1>2, <1>5, <1>6, <1>7, Zenon DEF RowInv
  <1> QED BY <1>2, <1>4, <1>8

\* A request that is not refused becomes the only row of its sender under its
\* end-to-end id.
LEMMA CreatedKeeps ==
  ASSUME IInv, NEW r \in Requests, pc[r] = "new",
         NEW who \in DOMAIN Participants, NEW d \in PaymentData, NEW shape \in Shapes,
         sent' = [sent EXCEPT ![r] = [who |-> who, shape |-> shape, data |-> d]],
         NEW e \in Iso!Imprecision,
         NEW p, p = Iso!buildPayment(Parsed(shape, d, e), r, Participants[who].bic,
                                     Participants[who].account),
         Iso!Fits(p), ~ Duplicate(p), Created(r, p), Accepted(r) \/ Orphaned(r),
         UNCHANGED <<now, reason, fee, got, notices, serviceVars, adminVars>>
  PROVE  IInv'
  <1> USE DEF IInv, BaseInv
  <1> DEFINE row == Iso!CreatePaymentParams(p)
  <1>1. /\ p.source = Participants[who].bic /\ p.e2e = d.e2e
        /\ row.id = r /\ row.source = Participants[who].bic /\ row.e2e = d.e2e
        /\ row.amount = d.amount /\ row.dest = d.dest
        /\ Kept(Iso!mapFromSQLC(row), who, shape, d)
    BY BuiltRow
  <1>2. row.source \in STRING /\ row.dest \in STRING /\ row.amount \in Int
    <2>1. Participants[who].bic \in STRING
      BY IntakeAssumption
    <2> QED BY <1>1, <2>1 DEF PaymentData
  <1>3. r \notin HasRow /\ answer[r] = "none" /\ now \in 0..MaxTime
    BY DEF ControlInv, ClockInv
  <1>4. PICK x : x = row
    OBVIOUS
  <1>9. /\ DOMAIN sent' = Requests /\ sent'[r].who = who /\ sent'[r].shape = shape /\ sent'[r].data = d
        /\ \A q \in Requests : q # r => sent'[q] = sent[q]
    BY DEF ControlInv
  <1>5. /\ HasRow' = HasRow \cup {r} /\ payment'[r] = x
        /\ \A q \in Requests : q # r => payment'[q] = payment[q]
        /\ RowInv'
    <2>1. sent'[r].data.ccy \in STRING
      BY <1>9 DEF PaymentData
    <2> QED BY <1>1, <1>2, <1>3, <1>4, <1>9, <2>1, CreatedRow
  <1>6. NoFault \/ Fault
    BY DEF Accepted, Orphaned
  <1>7. faults' \in Nat /\ faults' + admin <= MaxEvents /\ (faults' = 0 => faults = 0)
    BY <1>6, FaultKeeps
  <1>8. /\ pc' \in [Requests -> {"new", "answered"} \cup Running \cup Ended]
        /\ pc'[r] \in {"validate", "dead"}
        /\ start' \in [Requests -> 0..MaxTime] /\ start'[r] <= now
        /\ answer' \in [Requests -> {"none", "202", "400", "401", "409", "500", "lost"}]
        /\ answer'[r] \in {"202", "500", "lost"}
        /\ \A q \in Requests : q # r =>
             pc'[q] = pc[q] /\ start'[q] = start[q] /\ answer'[q] = answer[q]
    <2>1. CASE Accepted(r)
      BY <1>3, <2>1 DEF Accepted, Told, ControlInv, Running, Ended
    <2>2. CASE Orphaned(r)
      BY <1>3, <2>2 DEF Orphaned, Told, ControlInv, Running, Ended
    <2> QED BY <2>1, <2>2
  <1>10. HasRow \subseteq Requests
    BY DEF HasRow
  <1>11. ClockInv'
    BY <1>7 DEF ClockInv, adminVars
  <1>12. ControlInv'
    <2>1. ASSUME NEW q \in Requests
          PROVE  /\ start'[q] <= now
                 /\ pc'[q] \in Running \cup Ended => q \in HasRow'
                 /\ pc'[q] = "new" => q \notin HasRow' /\ answer'[q] = "none"
      BY <1>5, <1>8 DEF ControlInv
    <2> QED BY <1>8, <1>9, <2>1 DEF ControlInv
  <1>13. RetryIsSafe'
    <2>1. ASSUME NEW q \in HasRow
          PROVE  q # r /\ (payment[q].source # x.source \/ payment[q].e2e # x.e2e)
      BY <1>1, <1>3, <1>4, <2>1 DEF Duplicate
    <2>2. ASSUME NEW y \in HasRow', NEW q \in HasRow', payment'[y].source = payment'[q].source,
                 payment'[y].e2e = payment'[q].e2e
          PROVE  y = q
      BY <1>5, <1>10, <2>1, <2>2 DEF RetryIsSafe
    <2>3. ASSUME NEW q \in Requests
          PROVE  /\ answer'[q] = "202" => q \in HasRow'
                 /\ answer'[q] \in {"400", "401", "409"} => q \notin HasRow'
                 /\ answer'[q] = "409" => \E y \in HasRow' \ {q} :
                      /\ payment'[y].source = Participants[sent'[q].who].bic
                      /\ payment'[y].e2e = sent'[q].data.e2e
      <3>1. CASE q = r
        BY <1>5, <1>8, <3>1
      <3>2. CASE q # r
        <4>1. answer'[q] = answer[q] /\ sent'[q] = sent[q] /\ (q \in HasRow' <=> q \in HasRow)
          BY <1>5, <1>8, <1>9, <3>2
        <4>2. \A y \in HasRow : y \in HasRow' /\ payment'[y] = payment[y]
          BY <1>5, <1>10, <2>1
        <4> QED BY <4>1, <4>2 DEF RetryIsSafe
      <3> QED BY <3>1, <3>2
    <2> QED BY <2>2, <2>3 DEF RetryIsSafe
  <1>14. RowKeepsRequest'
    <2>1. ASSUME NEW q \in HasRow' PROVE Kept(GetPayment(q).row, sent[q].who, sent[q].shape, sent[q].data)'
      <3>1. CASE q = r
        <4>1. GetPayment(r).row' = Iso!mapFromSQLC(x)
          BY <1>5 DEF GetPayment
        <4> QED BY <1>1, <1>4, <1>9, <3>1, <4>1
      <3>2. CASE q # r
        <4>1. q \in HasRow /\ payment'[q] = payment[q] /\ sent'[q] = sent[q]
          BY <1>5, <1>9, <1>10, <3>2
        <4>2. GetPayment(q).row' = GetPayment(q).row
          BY <4>1 DEF GetPayment
        <4> QED BY <4>1, <4>2 DEF RowKeepsRequest
      <3> QED BY <3>1, <3>2
    <2> QED BY <2>1 DEF RowKeepsRequest
  <1>15. ColumnInv'
    BY DEF ColumnInv, Created
  <1>16. UNCHANGED <<registry, cache, routes, quotes, records, notices, got, now>>
    BY DEF serviceVars
  <1>17. LookupInv'
    <2>1. got' \in [Requests -> Nat] /\ \A q \in Requests : got'[q] \in {0, got[q]}
      BY DEF LookupInv
    <2>2. \A q \in Requests : pc'[q] = "fill" => pc[q] = "fill" /\ start'[q] = start[q]
      BY <1>8
    <2> QED BY <1>16, <2>1, <2>2, LookupKept
  <1>18. RouteInv' /\ QuoteInv'
    <2>1. \A q \in HasRow : q \in HasRow' /\ payment'[q] = payment[q]
      BY <1>3, <1>5, <1>10
    <2> QED BY <1>16, <2>1, RoutesKept, QuotesKept
  <1>19. OutcomeInv'
    <2>1. records[r] = Recon!NoRecord
      BY DEF OutcomeInv
    <2>2. \A q \in Requests : q # r => status'[q] = status[q]
      BY DEF Created, ColumnInv
    <2>3. pc'[r] \in {"answered", "failed", "dead"} \cup (Running \ {"notify"}) /\ pc'[r] # "recon"
      BY <1>8 DEF Running
    <2>4. \A q \in Requests : records[q] # Recon!NoRecord => payment'[q].amount = payment[q].amount
      BY <1>5, <2>1
    <2> QED BY <1>7, <1>8, <1>16, <2>2, <2>3, <2>4, OutcomeKept
  <1> QED BY <1>5, <1>11, <1>12, <1>13, <1>14, <1>15, <1>17, <1>18, <1>19

\* SubmitPayment answers from an existing row or creates one.
LEMMA SubmitKeeps ==
  ASSUME IInv, NEW r \in Requests, SubmitPayment(r)
  PROVE  IInv'
  <1>1. pc[r] = "new" /\ UNCHANGED <<now, reason, fee, got, notices, serviceVars, adminVars>>
    BY DEF SubmitPayment
  <1>2. PICK cn \in Senders[r], body \in Bodies[r] : LET who == tlsAuthMiddleware(cn) IN
          \/ who \notin DOMAIN Participants /\ Refused(r, "401") /\ NoFault /\ UNCHANGED sent
          \/ /\ who \in DOMAIN Participants
             /\ \/ Refused(r, "400") /\ NoFault /\ UNCHANGED sent
                \/ Refused(r, "500") /\ Fault /\ UNCHANGED sent
                \/ \E e \in Iso!Imprecision :
                     LET bank == GetBankForParticipant(who)
                         p    == Iso!buildPayment(Parsed(body.shape, body.data, e), r, bank.bic, bank.account)
                     IN  /\ sent' = [sent EXCEPT ![r] = [who |-> who, shape |-> body.shape, data |-> body.data]]
                         /\ Insert(r, p)
    BY Zenon DEF SubmitPayment
  <1>3. PICK who, d, shape : who = tlsAuthMiddleware(cn) /\ d = body.data /\ shape = body.shape
    OBVIOUS
  <1>4. d \in PaymentData /\ shape \in Shapes
    BY <1>3, IntakeAssumption
  <1>5. CASE \E a \in {"400", "401", "500"} : Refused(r, a) /\ (NoFault \/ Fault) /\ UNCHANGED sent
    BY <1>1, <1>5, RefusedKeeps
  <1>6. CASE /\ who \in DOMAIN Participants
             /\ \E e \in Iso!Imprecision :
                  LET p == Iso!buildPayment(Parsed(shape, d, e), r, Participants[who].bic,
                                            Participants[who].account)
                  IN  /\ sent' = [sent EXCEPT ![r] = [who |-> who, shape |-> shape, data |-> d]]
                      /\ Insert(r, p)
    <2>1. PICK e \in Iso!Imprecision :
            LET p == Iso!buildPayment(Parsed(shape, d, e), r, Participants[who].bic,
                                      Participants[who].account)
            IN  /\ sent' = [sent EXCEPT ![r] = [who |-> who, shape |-> shape, data |-> d]]
                /\ Insert(r, p)
      BY <1>6
    <2>2. PICK p : p = Iso!buildPayment(Parsed(shape, d, e), r, Participants[who].bic,
                                        Participants[who].account)
      OBVIOUS
    <2>3. Insert(r, p) /\ sent' = [sent EXCEPT ![r] = [who |-> who, shape |-> shape, data |-> d]]
      BY <2>1, <2>2
    <2>4. CASE Iso!Fits(p) /\ Duplicate(p) /\ Refused(r, "409") /\ NoFault
      <3>1. p.source = Participants[who].bic /\ p.e2e = d.e2e
        BY <1>4, <1>6, <2>2, <2>4, BuiltRow
      <3>2. \E q \in HasRow : payment[q].source = Participants[who].bic /\ payment[q].e2e = d.e2e
        BY <2>4, <3>1 DEF Duplicate
      <3>3. sent'[r] = [who |-> who, shape |-> shape, data |-> d]
        BY <2>3 DEF IInv, BaseInv, ControlInv
      <3> QED BY <1>1, <2>3, <2>4, <3>2, <3>3, RefusedKeeps
    <2>5. CASE Refused(r, "500") /\ NoFault
      BY <1>1, <2>3, <2>5, RefusedKeeps
    <2>6. CASE Iso!Fits(p) /\ ~ Duplicate(p) /\ Created(r, p) /\ (Accepted(r) \/ Orphaned(r))
      BY <1>1, <1>4, <1>6, <2>2, <2>3, <2>6, CreatedKeeps
    <2> QED BY <2>3, <2>4, <2>5, <2>6, Zenon DEF Insert
  <1> QED BY <1>2, <1>3, <1>5, <1>6, Zenon DEF GetBankForParticipant

---------------------------------------------------------------------------
(***************************************************************************)
(* The saga.                                                               *)
(***************************************************************************)

\* One saga moves on.
LEMMA MoveKeeps ==
  ASSUME IInv, NEW r \in Requests, pc[r] \in Running, NEW l \in Running \cup Ended, Move(r, l),
         UNCHANGED <<now, clientVars, rowVars, start, adminVars>>, NoFault \/ Fault
  PROVE  /\ BaseInv' /\ HasRow' = HasRow /\ payment' = payment /\ (faults' = 0 => faults = 0)
         /\ pc'[r] = l /\ \A q \in Requests : q # r => pc'[q] = pc[q]
  <1> USE DEF IInv, BaseInv
  <1>1. /\ pc' \in [Requests -> {"new", "answered"} \cup Running \cup Ended]
        /\ pc'[r] = l /\ \A q \in Requests : q # r => pc'[q] = pc[q]
    BY DEF Move, ControlInv
  <1>2. \A q \in Requests : pc'[q] = pc[q] \/ (pc[q] \in Running /\ pc'[q] \in Running \cup Ended)
    BY <1>1
  <1> HIDE DEF BaseInv
  <1>3. BaseInv' /\ HasRow' = HasRow
    BY <1>1, <1>2, BaseKept
  <1>4. faults' = 0 => faults = 0
    BY FaultKeeps DEF BaseInv
  <1> QED BY <1>1, <1>3, <1>4 DEF rowVars

\* The lookup service, when one saga moves to any step but fill.
LEMMA MoveKeepsLookup ==
  ASSUME LookupInv, NEW r \in Requests, pc'[r] # "fill",
         \A q \in Requests : q # r => pc'[q] = pc[q],
         UNCHANGED <<registry, cache, got, now, start>>
  PROVE  LookupInv'
  <1>1. got' \in [Requests -> Nat] /\ \A q \in Requests : got'[q] \in {0, got[q]}
    BY DEF LookupInv
  <1>2. \A q \in Requests : pc'[q] = "fill" => pc[q] = "fill" /\ start'[q] = start[q]
    OBVIOUS
  <1> QED BY <1>1, <1>2, LookupKept

\* A step of the saga before the last two succeeds and its status is recorded.
LEMMA PassedKeeps ==
  ASSUME IInv, NEW r \in Requests,
         NEW step \in {"validate", "lookup", "route", "quote", "screen", "bank"},
         pc[r] = step \/ (step = "lookup" /\ pc[r] = "fill"),
         Move(r, After(step)), Records(r, step), NoFault \/ Fault,
         UNCHANGED <<now, clientVars, rowVars, start, adminVars, notices, records>>
  PROVE  /\ BaseInv' /\ HasRow' = HasRow /\ payment' = payment /\ OutcomeInv'
         /\ pc'[r] # "fill" /\ (\A q \in Requests : q # r => pc'[q] = pc[q])
         /\ (fee' \in [Requests -> Nat] => ColumnInv')
  <1>1. pc[r] \in Running \ {"recon", "notify"}
    BY DEF Running
  <1>2. PICK l : l = After(step)
    OBVIOUS
  <1>3. l \in Running \ {"notify"} /\ l # "fill" /\ (l = "recon" => step = "bank")
    BY <1>2, StepOrder DEF Running
  <1>4. /\ BaseInv' /\ HasRow' = HasRow /\ payment' = payment /\ (faults' = 0 => faults = 0)
        /\ pc'[r] = l /\ \A q \in Requests : q # r => pc'[q] = pc[q]
    BY <1>1, <1>2, <1>3, MoveKeeps
  <1>5. /\ status' = [status EXCEPT ![r] = StatusAfter(step)] /\ UNCHANGED reason
    BY DEF Records
  <1>6. /\ StatusAfter(step) \in {"VALIDATED", "LOOKED_UP", "ROUTED", "QUOTED", "SCREENED", Final}
        /\ StatusAfter("bank") = Final
    BY DEF StatusAfter
  <1>7. fee' \in [Requests -> Nat] => ColumnInv'
    BY <1>5, <1>6 DEF IInv, ColumnInv
  <1>8. OutcomeInv'
    <2>1. \A q \in Requests : q # r => status'[q] = status[q]
      BY <1>5 DEF IInv, ColumnInv
    <2>2. pc'[r] = "recon" => status'[r] = Final
      BY <1>3, <1>4, <1>5, <1>6 DEF IInv, ColumnInv
    <2> QED BY <1>1, <1>3, <1>4, <2>1, <2>2, OutcomeKept DEF IInv
  <1> QED BY <1>3, <1>4, <1>7, <1>8

\* Steps that touch no service.
LEMMA PlainStepKeeps ==
  ASSUME IInv, NEW r \in Requests,
         NEW step \in {"validate", "lookup", "screen", "bank"}, pc[r] = step, Passed(r, step),
         UNCHANGED <<now, clientVars, rowVars, fee, start, got, notices, serviceVars, adminVars>>
  PROVE  IInv'
  <1>1. Move(r, After(step)) /\ Records(r, step) /\ NoFault
    BY DEF Passed
  <1>2. UNCHANGED <<registry, cache, routes, quotes, records>>
    BY DEF serviceVars
  <1>3. /\ BaseInv' /\ HasRow' = HasRow /\ payment' = payment /\ OutcomeInv'
        /\ pc'[r] # "fill" /\ (\A q \in Requests : q # r => pc'[q] = pc[q])
        /\ (fee' \in [Requests -> Nat] => ColumnInv')
    BY <1>1, <1>2, PassedKeeps
  <1>4. ColumnInv'
    BY <1>3 DEF IInv, ColumnInv
  <1>5. LookupInv'
    BY <1>2, <1>3, MoveKeepsLookup DEF IInv
  <1>6. RouteInv' /\ QuoteInv'
    BY <1>2, <1>3, RoutesKept, QuotesKept DEF IInv
  <1> QED BY <1>3, <1>4, <1>5, <1>6 DEF IInv

\* ValidateStep records VALIDATED and touches nothing else.
LEMMA ValidateKeeps ==
  ASSUME IInv, NEW r \in Requests, Validate(r)
  PROVE  IInv'
  BY PlainStepKeeps DEF Validate, At

\* ScreenStep records SCREENED and touches nothing else.
LEMMA ScreenKeeps ==
  ASSUME IInv, NEW r \in Requests, Screen(r)
  PROVE  IInv'
  BY PlainStepKeeps DEF Screen, At

\* The steps at the banks and at settlement end in the final status.
LEMMA BankKeeps ==
  ASSUME IInv, NEW r \in Requests, Bank(r)
  PROVE  IInv'
  BY PlainStepKeeps DEF Bank, At

\* A lookup is answered from the cache, or has read the newest version.
LEMMA LookupBICKeeps ==
  ASSUME IInv, NEW r \in Requests, LookupBIC(r)
  PROVE  IInv'
  <1>1. /\ pc[r] = "lookup"
        /\ UNCHANGED <<now, clientVars, rowVars, fee, start, notices, serviceVars, adminVars>>
    BY DEF LookupBIC, At
  <1>2. CASE Passed(r, "lookup") /\ UNCHANGED got
    BY <1>1, <1>2, PlainStepKeeps
  <1>3. CASE /\ Move(r, "fill") /\ got' = [got EXCEPT ![r] = Lookup!Current]
             /\ NoFault /\ UNCHANGED <<status, reason>>
    <2>1. UNCHANGED <<registry, cache, routes, quotes, records>>
      BY <1>1 DEF serviceVars
    <2>2. /\ BaseInv' /\ HasRow' = HasRow /\ payment' = payment /\ (faults' = 0 => faults = 0)
          /\ pc'[r] = "fill" /\ \A q \in Requests : q # r => pc'[q] = pc[q]
      <3>1. pc[r] \in Running /\ "fill" \in Running \cup Ended
        BY <1>1 DEF Running
      <3> QED BY <1>1, <1>3, <3>1, MoveKeeps
    <2>3. ColumnInv'
      BY <1>1, <1>3 DEF IInv, ColumnInv
    <2>4. LookupInv'
      <3>1. Len(registry) \in Nat
        BY LenProperties DEF IInv, LookupInv
      <3>2. /\ got' \in [Requests -> Nat] /\ got'[r] = Len(registry)
            /\ \A q \in Requests : q # r => got'[q] = got[q]
        BY <1>3, <3>1 DEF IInv, LookupInv, Lookup!Current
      <3>3. \A q \in Requests : got'[q] <= Len(registry)
        BY <3>1, <3>2 DEF IInv, LookupInv
      <3>4. \A q \in Requests : pc'[q] = "fill" /\ got'[q] < Len(registry) =>
              start[q] <= registry[got'[q] + 1]
        <4>1. TAKE q \in Requests
        <4>2. CASE q = r
          BY <3>1, <3>2, <4>2
        <4>3. CASE q # r
          BY <2>2, <3>2, <4>3 DEF IInv, LookupInv
        <4> QED BY <4>2, <4>3
      <3> QED BY <1>1, <2>1, <3>2, <3>3, <3>4 DEF IInv, LookupInv
    <2>5. RouteInv' /\ QuoteInv'
      BY <2>1, <2>2, RoutesKept, QuotesKept DEF IInv
    <2>6. OutcomeInv'
      <3>1. pc[r] \in Running \ {"recon", "notify"} /\ pc'[r] \in Running \ {"notify"}
            /\ pc'[r] # "recon"
        BY <1>1, <2>2 DEF Running
      <3> QED BY <1>1, <1>3, <2>1, <2>2, <3>1, OutcomeKept DEF IInv
    <2> QED BY <2>2, <2>3, <2>4, <2>5, <2>6 DEF IInv
  <1> QED BY <1>2, <1>3 DEF LookupBIC

\* What goes into the cache was read since the saga started and goes there
\* before its deadline.
LEMMA FillCacheKeeps ==
  ASSUME IInv, NEW r \in Requests, FillCache(r)
  PROVE  IInv'
  <1>1. /\ pc[r] = "fill" /\ now <= start[r] + SagaTimeout
        /\ got' = [got EXCEPT ![r] = 0]
        /\ UNCHANGED <<now, clientVars, rowVars, fee, start, notices, routes, quotes, records, adminVars>>
    BY DEF FillCache, CanSet, At, Alive
  <1>2. Move(r, After("lookup")) /\ Records(r, "lookup") /\ (NoFault \/ Fault)
    BY DEF FillCache, Passed
  <1>3. /\ BaseInv' /\ HasRow' = HasRow /\ payment' = payment /\ OutcomeInv'
        /\ pc'[r] # "fill" /\ (\A q \in Requests : q # r => pc'[q] = pc[q])
        /\ (fee' \in [Requests -> Nat] => ColumnInv')
    BY <1>1, <1>2, PassedKeeps
  <1>4. ColumnInv'
    BY <1>1, <1>3 DEF IInv, ColumnInv
  <1>5. RouteInv' /\ QuoteInv'
    BY <1>1, <1>3, RoutesKept, QuotesKept DEF IInv
  <1>6. /\ got' \in [Requests -> Nat] /\ got'[r] = 0
        /\ \A q \in Requests : q # r => got'[q] = got[q]
    BY <1>1 DEF IInv, LookupInv
  <1>7. LookupInv'
    <2>1. CASE UNCHANGED <<registry, cache>>
      <3>1. \A q \in Requests : got'[q] \in {0, got[q]}
        BY <1>6
      <3>2. \A q \in Requests : pc'[q] = "fill" =>
              pc[q] = "fill" /\ start'[q] = start[q] /\ got'[q] = got[q]
        BY <1>1, <1>3, <1>6
      <3> QED BY <1>1, <1>6, <2>1, <3>1, <3>2, LookupKept DEF IInv
    <2>2. CASE Lookup!Set(got[r], now)
      <3> DEFINE n == now
                 g == got[r]
      <3>1. /\ n \in Nat /\ g \in Nat /\ start[r] \in Nat /\ Len(registry) \in Nat
            /\ \A v \in 1..Len(registry) : registry[v] \in Nat
        BY Bounds, LenProperties DEF IInv, BaseInv, ClockInv, ControlInv, LookupInv
      <3>2. cache' = [ver |-> g, exp |-> n + CacheTTL] /\ UNCHANGED registry
        BY <2>2 DEF Lookup!Set
      <3>3. /\ cache' \in [ver : Nat, exp : Nat] /\ cache'.ver = g /\ cache'.exp = n + CacheTTL
        BY <3>1, <3>2, Bounds
      <3>4. g <= Len(registry) /\ (g < Len(registry) => start[r] <= registry[g + 1])
        BY <1>1 DEF IInv, LookupInv
      <3>5. g < Len(registry) => n + CacheTTL <= registry[g + 1] + SagaTimeout + CacheTTL
        <4>1. ASSUME g < Len(registry)
              PROVE  n + CacheTTL <= registry[g + 1] + SagaTimeout + CacheTTL
          <5>1. g + 1 \in 1..Len(registry)
            BY <3>1, <4>1
          <5>2. PICK a \in Nat : a = registry[g + 1]
            BY <3>1, <5>1
          <5>3. n <= a + SagaTimeout
            BY <1>1, <3>1, <3>4, <4>1, <5>2, Bounds
          <5> QED BY <3>1, <5>2, <5>3, Bounds
        <4> QED BY <4>1
      <3>6. ASSUME NEW q \in Requests
            PROVE  /\ got'[q] <= Len(registry)
                   /\ pc'[q] = "fill" /\ got'[q] < Len(registry) => start[q] <= registry[got'[q] + 1]
        BY <1>3, <1>6, <3>1 DEF IInv, LookupInv
      <3>7. registry \in Seq(0..MaxTime) /\ Len(registry) >= 1
        BY DEF IInv, LookupInv
      <3> HIDE DEF n, g
      <3>8. /\ cache'.ver <= Len(registry) /\ cache'.exp <= n + CacheTTL
            /\ cache'.ver < Len(registry) => cache'.exp <= registry[cache'.ver + 1] + SagaTimeout + CacheTTL
        BY <3>1, <3>3, <3>4, <3>5, Bounds
      <3> QED BY <1>1, <1>6, <3>2, <3>3, <3>6, <3>7, <3>8 DEF LookupInv, n
    <2> QED BY <2>1, <2>2 DEF FillCache
  <1> QED BY <1>3, <1>4, <1>5, <1>7 DEF IInv

\* The first route for a key, when there is one.
LEMMA FirstRoute ==
  ASSUME RouteInv, NEW key, Routing!HasRoute(key)
  PROVE  Routing!First(key) \in 1..Len(routes) /\ routes[Routing!First(key)].key = key
  <1>1. PICK i \in 1..Len(routes) : routes[i].key = key
    BY DEF Routing!HasRoute, Routing!Matches
  <1>2. Routing!Matches(key) = {i}
    BY <1>1 DEF Routing!Matches, RouteInv
  <1>3. i <= i
    BY <1>1
  <1>4. Routing!First(key) = i
    BY <1>2, <1>3 DEF Routing!First
  <1> QED BY <1>1, <1>4

\* RouteStep copies the route it found into the row.
LEMMA RouteKeeps ==
  ASSUME IInv, NEW r \in Requests, Route(r)
  PROVE  IInv'
  <1> DEFINE key == RouteKey(r)
  <1>1. /\ pc[r] = "route" /\ Routing!HasRoute(key)
        /\ fee' = [fee EXCEPT ![r] = Routing!LookupRoute(key)]
        /\ Move(r, After("route")) /\ Records(r, "route") /\ NoFault
        /\ UNCHANGED <<now, clientVars, rowVars, start, got, notices, serviceVars, adminVars>>
    BY DEF Route, At, Passed
  <1>2. UNCHANGED <<registry, cache, routes, quotes, records>>
    BY <1>1 DEF serviceVars
  <1>3. /\ BaseInv' /\ HasRow' = HasRow /\ payment' = payment /\ OutcomeInv'
        /\ pc'[r] # "fill" /\ (\A q \in Requests : q # r => pc'[q] = pc[q])
        /\ (fee' \in [Requests -> Nat] => ColumnInv')
    BY <1>1, <1>2, PassedKeeps
  <1>4. Routing!LookupRoute(key) \in Nat
    <2> HIDE DEF key
    <2>1. Routing!First(key) \in 1..Len(routes)
      BY <1>1, FirstRoute DEF IInv
    <2>2. routes[Routing!First(key)] \in RouteData
      BY <2>1 DEF IInv, RouteInv
    <2> QED BY <2>2 DEF Routing!LookupRoute, RouteData
  <1>5. ColumnInv'
    BY <1>1, <1>3, <1>4 DEF IInv, ColumnInv
  <1>6. LookupInv'
    BY <1>1, <1>2, <1>3, MoveKeepsLookup DEF IInv
  <1>7. RouteInv' /\ QuoteInv'
    BY <1>2, <1>3, RoutesKept, QuotesKept DEF IInv
  <1> QED BY <1>3, <1>5, <1>6, <1>7 DEF IInv

\* QuoteStep stores a quote of the payment's own data.
LEMMA QuoteKeeps ==
  ASSUME IInv, NEW r \in Requests, Quote(r)
  PROVE  IInv'
  <1>1. /\ pc[r] = "quote" /\ Quoting!getQuote(r, payment[r], now)
        /\ Move(r, After("quote")) /\ Records(r, "quote") /\ NoFault
        /\ UNCHANGED <<now, clientVars, rowVars, fee, start, got, notices,
                       registry, cache, routes, records, adminVars>>
    BY DEF Quote, At, Passed
  <1>2. /\ BaseInv' /\ HasRow' = HasRow /\ payment' = payment /\ OutcomeInv'
        /\ pc'[r] # "fill" /\ (\A q \in Requests : q # r => pc'[q] = pc[q])
        /\ (fee' \in [Requests -> Nat] => ColumnInv')
    BY <1>1, PassedKeeps
  <1>3. ColumnInv'
    BY <1>1, <1>2 DEF IInv, ColumnInv
  <1>4. LookupInv'
    BY <1>1, <1>2, MoveKeepsLookup DEF IInv
  <1>5. RouteInv'
    BY <1>1, RoutesKept DEF IInv
  <1>6. QuoteInv'
    <2>1. r \in HasRow
      BY <1>1 DEF IInv, BaseInv, ControlInv, Running
    <2>2. payment[r].amount \in Int /\ now \in Nat
      BY <2>1, Bounds DEF IInv, BaseInv, RowInv, ClockInv
    <2>3. PICK a \in Int : a = payment[r].amount
      BY <2>2
    <2>4. PICK f : f = Quoting!baseFee + a \div 10000
      OBVIOUS
    <2>5. f \in Int /\ a + f \in Int /\ now + QuoteTTL \in Nat /\ a + f = f + a
      BY <2>2, <2>3, <2>4, Bounds DEF Quoting!baseFee
    <2>6. quotes' = [quotes EXCEPT ![r] =
                       [fee |-> f, total |-> a + f, exp |-> now + QuoteTTL, accepted |-> FALSE]]
      BY <1>1, <2>3, <2>4 DEF Quoting!getQuote
    <2>7. /\ quotes'[r] \in [fee : Int, total : Int, exp : Nat, accepted : BOOLEAN]
          /\ quotes'[r].total = quotes'[r].fee + a
          /\ \A q \in Requests : q # r => quotes'[q] = quotes[q]
          /\ DOMAIN quotes' = Requests
      BY <2>5, <2>6 DEF IInv, QuoteInv
    <2>8. quotes' \in [Requests -> {Quoting!NoQuote} \cup
                                   [fee : Int, total : Int, exp : Nat, accepted : BOOLEAN]]
      BY <2>6, <2>7 DEF IInv, QuoteInv
    <2>9. ASSUME NEW q \in Requests, quotes'[q] # Quoting!NoQuote
          PROVE  q \in HasRow /\ quotes'[q].total = quotes'[q].fee + payment[q].amount
      BY <2>1, <2>3, <2>7, <2>9 DEF IInv, QuoteInv
    <2> QED BY <1>2, <2>8, <2>9 DEF QuoteInv
  <1> QED BY <1>2, <1>3, <1>4, <1>5, <1>6 DEF IInv

\* A saga that gives up changes its row, or nothing when its time is over.
LEMMA GiveUpKeeps ==
  ASSUME IInv, NEW r \in Requests, Move(r, "failed"), NoFault \/ Fault,
         \/ pc[r] \in Running \ {"recon", "notify"}
            /\ \E x \in {status[r], "ABORTED"} : status' = [status EXCEPT ![r] = x]
         \/ pc[r] \in Running /\ UNCHANGED status,
         reason' \in [Requests -> {""} \cup Running],
         UNCHANGED <<now, clientVars, rowVars, fee, start, got, notices, serviceVars, adminVars>>
  PROVE  IInv'
  <1>1. UNCHANGED <<registry, cache, routes, quotes, records>>
    BY DEF serviceVars
  <1>2. /\ BaseInv' /\ HasRow' = HasRow /\ payment' = payment /\ (faults' = 0 => faults = 0)
        /\ pc'[r] = "failed" /\ \A q \in Requests : q # r => pc'[q] = pc[q]
    <2>1. pc[r] \in Running /\ "failed" \in Running \cup Ended
      BY DEF Ended
    <2> QED BY <2>1, MoveKeeps
  <1>3. ColumnInv' /\ \A q \in Requests : q # r => status'[q] = status[q]
    BY DEF IInv, ColumnInv
  <1>4. LookupInv'
    BY <1>1, <1>2, MoveKeepsLookup DEF IInv
  <1>5. RouteInv' /\ QuoteInv'
    BY <1>1, <1>2, RoutesKept, QuotesKept DEF IInv
  <1>6. OutcomeInv'
    BY <1>1, <1>2, <1>3, OutcomeKept DEF IInv
  <1> QED BY <1>2, <1>3, <1>4, <1>5, <1>6 DEF IInv

\* A rolled back saga leaves ABORTED and a reason, or RECEIVED.
LEMMA RollBackKeeps ==
  ASSUME IInv, NEW r \in Requests, RollBack(r)
  PROVE  IInv'
  <1>1. /\ pc[r] \in Running \ {"recon", "notify"} /\ Move(r, "failed")
        /\ reason' = [reason EXCEPT ![r] = pc[r]]
        /\ UNCHANGED <<now, clientVars, rowVars, fee, start, got, notices, serviceVars, adminVars>>
    BY DEF RollBack
  <1>2. reason' \in [Requests -> {""} \cup Running]
    BY <1>1 DEF IInv, ColumnInv
  <1>3. NoFault \/ Fault
    BY DEF RollBack
  <1>4. (\E x \in {status[r], "ABORTED"} : status' = [status EXCEPT ![r] = x]) \/ UNCHANGED status
    BY DEF RollBack
  <1> QED BY <1>1, <1>2, <1>3, <1>4, GiveUpKeeps

\* A saga whose context has expired ends and writes nothing.
LEMMA ExpireKeeps ==
  ASSUME IInv, NEW r \in Requests, Expire(r)
  PROVE  IInv'
  <1>1. /\ pc[r] \in Running /\ Move(r, "failed") /\ NoFault /\ UNCHANGED status
        /\ UNCHANGED <<now, clientVars, rowVars, fee, start, got, notices, serviceVars, adminVars>>
        /\ UNCHANGED reason
    BY DEF Expire, columnVars
  <1>2. reason' \in [Requests -> {""} \cup Running]
    BY <1>1 DEF IInv, ColumnInv
  <1> QED BY <1>1, <1>2, GiveUpKeeps

\* A record is made of a payment in its final status.
LEMMA RecordKeeps ==
  ASSUME IInv, NEW r \in Requests, RecordReconciliation(r)
  PROVE  IInv'
  <1>1. /\ pc[r] = "recon" /\ Move(r, "notify") /\ (NoFault \/ Fault)
        /\ UNCHANGED <<now, clientVars, rowVars, columnVars, start, got, notices,
                       registry, cache, routes, quotes, adminVars>>
    BY StepOrder DEF RecordReconciliation, At
  <1>2. /\ BaseInv' /\ HasRow' = HasRow /\ payment' = payment /\ (faults' = 0 => faults = 0)
        /\ pc'[r] = "notify" /\ \A q \in Requests : q # r => pc'[q] = pc[q]
    <2>1. pc[r] \in Running /\ "notify" \in Running \cup Ended
      BY <1>1 DEF Running
    <2> QED BY <1>1, <2>1, MoveKeeps
  <1>3. ColumnInv'
    BY <1>1 DEF IInv, ColumnInv, columnVars
  <1>4. LookupInv'
    BY <1>1, <1>2, MoveKeepsLookup DEF IInv
  <1>5. RouteInv' /\ QuoteInv'
    BY <1>1, <1>2, RoutesKept, QuotesKept DEF IInv
  <1>6. status[r] = Final /\ status' = status /\ payment[r].amount \in Int
    <2>1. r \in HasRow
      BY <1>1 DEF IInv, BaseInv, ControlInv, Running
    <2> QED BY <1>1, <2>1 DEF IInv, OutcomeInv, columnVars, BaseInv, RowInv
  <1>7. \A side \in {"source", "dest"} : <<r, side>> \notin notices
    BY <1>1 DEF IInv, OutcomeInv
  <1> DEFINE Rec == [status : {Final}, amount : Int, matched : BOOLEAN, discrepancy : BOOLEAN]
  <1>8. /\ records' \in [Requests -> {Recon!NoRecord} \cup Rec]
        /\ \A q \in Requests : q # r => records'[q] = records[q]
        /\ records'[r] # Recon!NoRecord => records'[r].amount = payment[r].amount
        /\ faults' = 0 => records'[r] # Recon!NoRecord
    <2>1. CASE NoFault /\ Recon!Insert(r, payment[r].amount, status[r])
      <3> DEFINE rec == [status |-> Final, amount |-> payment[r].amount, matched |-> FALSE,
                         discrepancy |-> FALSE]
      <3>1. rec \in Rec /\ rec.amount = payment[r].amount /\ rec.status = Final
        BY <1>6
      <3>2. rec # Recon!NoRecord
        BY <3>1 DEF Recon!NoRecord, Final
      <3>3. records' = [records EXCEPT ![r] = rec]
        BY <1>6, <2>1 DEF Recon!Insert
      <3> HIDE DEF rec, Rec
      <3> QED BY <3>1, <3>2, <3>3 DEF IInv, OutcomeInv, Rec
    <2>2. CASE Fault /\ UNCHANGED records
      <3>1. records[r] = Recon!NoRecord
        BY <1>1 DEF IInv, OutcomeInv
      <3>2. faults' # 0
        BY <2>2, Bounds DEF Fault, IInv, BaseInv, ClockInv
      <3> QED BY <2>2, <3>1, <3>2 DEF IInv, OutcomeInv
    <2> QED BY <2>1, <2>2 DEF RecordReconciliation
  <1>9. OutcomeInv'
    <2>1. ASSUME NEW q \in Requests
          PROVE  /\ pc'[q] \in {"recon", "notify", "done"} => status'[q] = Final
                 /\ records'[q] # Recon!NoRecord =>
                      /\ pc'[q] \in {"notify", "done", "failed", "dead"} /\ status'[q] = Final
                      /\ records'[q].amount = payment'[q].amount
                 /\ \A side \in {"source", "dest"} : <<q, side>> \in notices => pc'[q] = "done"
                 /\ pc'[q] \in {"notify", "done"} /\ faults' = 0 => records'[q] # Recon!NoRecord
                 /\ pc'[q] = "done" /\ faults' = 0 =>
                      {<<q, "source">>, <<q, "dest">>} \subseteq notices
      <3>1. CASE q = r
        BY <1>2, <1>6, <1>7, <1>8, <3>1
      <3>2. CASE q # r
        BY <1>2, <1>6, <1>8, <3>2 DEF IInv, OutcomeInv
      <3> QED BY <3>1, <3>2
    <2>2. notices' = notices /\ notices \subseteq (Requests \X {"source", "dest"})
      BY <1>1 DEF IInv, OutcomeInv
    <2> QED BY <1>8, <2>1, <2>2 DEF OutcomeInv
  <1> QED BY <1>2, <1>3, <1>4, <1>5, <1>9 DEF IInv

\* The banks are told when everything else is done.
LEMMA NotifyKeeps ==
  ASSUME IInv, NEW r \in Requests, Notify(r)
  PROVE  IInv'
  <1>1. /\ pc[r] = "notify" /\ Move(r, "done") /\ (NoFault \/ Fault)
        /\ UNCHANGED <<now, clientVars, rowVars, columnVars, start, got, serviceVars, adminVars>>
        /\ UNCHANGED <<registry, cache, routes, quotes, records>>
    BY StepOrder DEF Notify, At, serviceVars
  <1>2. /\ BaseInv' /\ HasRow' = HasRow /\ payment' = payment /\ (faults' = 0 => faults = 0)
        /\ pc'[r] = "done" /\ \A q \in Requests : q # r => pc'[q] = pc[q]
    <2>1. pc[r] \in Running /\ "done" \in Running \cup Ended
      BY <1>1 DEF Running, Ended
    <2> QED BY <1>1, <2>1, MoveKeeps
  <1>3. ColumnInv' /\ status' = status
    BY <1>1 DEF IInv, ColumnInv, columnVars
  <1>4. LookupInv'
    BY <1>1, <1>2, MoveKeepsLookup DEF IInv
  <1>5. RouteInv' /\ QuoteInv'
    BY <1>1, <1>2, RoutesKept, QuotesKept DEF IInv
  <1>6. /\ notices' \subseteq notices \cup {<<r, "source">>, <<r, "dest">>}
        /\ notices \subseteq notices'
        /\ faults' = 0 => {<<r, "source">>, <<r, "dest">>} \subseteq notices'
    <2>1. Fault => faults' # 0
      BY Bounds DEF Fault, IInv, BaseInv, ClockInv
    <2> QED BY <2>1 DEF Notify
  <1>7. OutcomeInv'
    <2>1. \A q \in Requests : q # r =>
            \A side \in {"source", "dest"} : <<q, side>> \in notices' <=> <<q, side>> \in notices
      BY <1>6
    <2>2. ASSUME NEW q \in Requests
          PROVE  /\ pc'[q] \in {"recon", "notify", "done"} => status[q] = Final
                 /\ records[q] # Recon!NoRecord =>
                      /\ pc'[q] \in {"notify", "done", "failed", "dead"} /\ status[q] = Final
                      /\ records[q].amount = payment[q].amount
                 /\ \A side \in {"source", "dest"} : <<q, side>> \in notices' => pc'[q] = "done"
                 /\ pc'[q] \in {"notify", "done"} /\ faults' = 0 => records[q] # Recon!NoRecord
                 /\ pc'[q] = "done" /\ faults' = 0 =>
                      {<<q, "source">>, <<q, "dest">>} \subseteq notices'
      <3>1. CASE q = r
        BY <1>1, <1>2, <1>6, <3>1 DEF IInv, OutcomeInv
      <3>2. CASE q # r
        BY <1>2, <1>6, <2>1, <3>2 DEF IInv, OutcomeInv
      <3> QED BY <3>1, <3>2
    <2>3. notices' \subseteq (Requests \X {"source", "dest"})
      BY <1>6 DEF IInv, OutcomeInv
    <2>4. records' = records /\ records \in [Requests -> {Recon!NoRecord} \cup
                   [status : {Final}, amount : Int, matched : BOOLEAN, discrepancy : BOOLEAN]]
      BY <1>1 DEF IInv, OutcomeInv
    <2> QED BY <1>2, <1>3, <2>2, <2>3, <2>4 DEF OutcomeInv
  <1> QED BY <1>2, <1>3, <1>4, <1>5, <1>7 DEF IInv

\* A crash of the gateway ends its sagas and leaves the rows.
LEMMA CrashKeeps ==
  ASSUME IInv, Crash
  PROVE  IInv'
  <1>1. /\ Fault /\ pc' = [r \in Requests |-> IF pc[r] \in Running THEN "dead" ELSE pc[r]]
        /\ UNCHANGED <<now, clientVars, rowVars, columnVars, start, got, notices, serviceVars, adminVars>>
        /\ UNCHANGED <<status, reason, fee, registry, cache, routes, quotes, records>>
    BY DEF Crash, serviceVars, columnVars
  <1>2. BaseInv' /\ HasRow' = HasRow
    <2>1. pc' \in [Requests -> {"new", "answered"} \cup Running \cup Ended]
      BY <1>1 DEF IInv, BaseInv, ControlInv, Ended
    <2>2. \A r \in Requests : pc'[r] = pc[r] \/ (pc[r] \in Running /\ pc'[r] \in Running \cup Ended)
      BY <1>1 DEF Ended
    <2> QED BY <1>1, <2>1, <2>2, BaseKept DEF IInv
  <1>3. payment' = payment /\ (faults' = 0 => faults = 0)
    BY <1>1, FaultKeeps DEF rowVars, IInv, BaseInv
  <1>4. ColumnInv'
    BY <1>1 DEF IInv, ColumnInv
  <1>5. LookupInv'
    <2>1. got' \in [Requests -> Nat] /\ \A q \in Requests : got'[q] \in {0, got[q]}
      BY <1>1 DEF IInv, LookupInv
    <2>2. \A q \in Requests : pc'[q] = "fill" => pc[q] = "fill" /\ start'[q] = start[q]
      BY <1>1
    <2> QED BY <1>1, <2>1, <2>2, LookupKept DEF IInv
  <1>6. RouteInv' /\ QuoteInv'
    BY <1>1, <1>2, <1>3, RoutesKept, QuotesKept DEF IInv
  <1>7. OutcomeInv'
    BY <1>1, <1>3, OutcomeKept DEF IInv
  <1> QED BY <1>2, <1>4, <1>5, <1>6, <1>7 DEF IInv

---------------------------------------------------------------------------
(***************************************************************************)
(* Administrative calls, restarts of the services, the clock.              *)
(***************************************************************************)

\* Requests, rows and sagas are left alone.
LEMMA QuietKeeps ==
  ASSUME IInv, UNCHANGED <<clientVars, rowVars, columnVars, pc, start, got, notices>>,
         NoFault \/ Fault, ClockInv', now <= now'
  PROVE  /\ BaseInv' /\ ColumnInv' /\ HasRow' = HasRow /\ payment' = payment /\ status' = status
         /\ (faults' = 0 => faults = 0)
  <1> USE DEF IInv, BaseInv
  <1>1. RowInv' /\ RetryIsSafe' /\ RowKeepsRequest' /\ HasRow' = HasRow
    BY RowsKept
  <1>2. faults' = 0 => faults = 0
    BY FaultKeeps
  <1>4. ControlInv'
    <2>1. UNCHANGED <<answer, sent, pc, start>>
      BY DEF clientVars
    <2>2. \A r \in Requests : start[r] <= now'
      BY Bounds DEF ControlInv, ClockInv
    <2> QED BY <1>1, <2>1, <2>2 DEF ControlInv
  <1>5. ColumnInv' /\ payment' = payment /\ status' = status
    BY DEF ColumnInv, columnVars, rowVars
  <1> QED BY <1>1, <1>2, <1>4, <1>5

\* Nothing has happened at the reconciliation service.
LEMMA QuietOutcome ==
  ASSUME OutcomeInv, UNCHANGED <<pc, status, payment, records, notices>>, faults' = 0 => faults = 0
  PROVE  OutcomeInv'
  BY OutcomeKept

\* Nothing has happened at the lookup service but that time has passed.
LEMMA QuietLookup ==
  ASSUME LookupInv, ClockInv, UNCHANGED <<registry, cache, got, pc, start>>,
         now' \in 0..MaxTime, now <= now'
  PROVE  LookupInv'
  <1>1. cache.exp <= now' + CacheTTL
    BY Bounds DEF LookupInv, ClockInv
  <1> QED BY <1>1 DEF LookupInv

\* A new version is registered now: whoever has read the last one read it before.
LEMMA RegisterKeeps ==
  ASSUME LookupInv, ClockInv, ControlInv, Lookup!Register(now), UNCHANGED <<got, pc, start, now>>
  PROVE  LookupInv'
  <1> DEFINE m == Len(registry)
             n == now
  <1>1. n \in 0..MaxTime /\ m \in Nat /\ registry \in Seq(0..MaxTime)
    BY LenProperties DEF LookupInv, ClockInv
  <1>2. registry' = Append(registry, n) /\ cache' = cache
    BY DEF Lookup!Register
  <1>3. /\ registry' \in Seq(0..MaxTime) /\ Len(registry') = m + 1 /\ registry'[m + 1] = n
        /\ \A i \in 1..m : registry'[i] = registry[i]
    BY <1>1, <1>2, AppendProperties
  <1>4. cache.ver \in Nat /\ cache.exp \in Nat /\ cache.ver <= m /\ n \in Nat
    BY <1>1, Bounds DEF LookupInv
  <1>5. cache.exp <= registry'[cache.ver + 1] + SagaTimeout + CacheTTL
    <2>1. CASE cache.ver = m
      BY <1>3, <1>4, <2>1, Bounds DEF LookupInv
    <2>2. CASE cache.ver < m
      <3>1. cache.ver + 1 \in 1..m
        BY <1>1, <1>4, <2>2
      <3> QED BY <1>3, <2>2, <3>1 DEF LookupInv
    <2> QED BY <1>1, <1>4, <2>1, <2>2
  <1>6. ASSUME NEW r \in Requests, pc[r] = "fill"
        PROVE  start[r] <= registry'[got[r] + 1]
    <2>1. got[r] \in Nat /\ got[r] <= m
      BY DEF LookupInv
    <2>2. CASE got[r] = m
      BY <1>3, <2>2 DEF ControlInv
    <2>3. CASE got[r] < m
      <3>1. got[r] + 1 \in 1..m
        BY <1>1, <2>1, <2>3
      <3> QED BY <1>3, <1>6, <2>3, <3>1 DEF LookupInv
    <2> QED BY <1>1, <2>1, <2>2, <2>3
  <1>7. \A r \in Requests : got[r] <= m + 1
    BY <1>1 DEF LookupInv
  <1>8. m + 1 >= 1 /\ cache.ver <= m + 1
    BY <1>1, <1>4
  <1> QED BY <1>2, <1>3, <1>5, <1>6, <1>7, <1>8 DEF LookupInv

\* AddRoute replaces the route or adds one where there was none.
LEMMA AddRouteKeeps ==
  ASSUME RouteInv, NEW key \in STRING \X STRING \X STRING, Routing!AddRoute(key, NewFee)
  PROVE  RouteInv'
  <1>1. CASE Routing!HasRoute(key)
    <2> DEFINE k == Routing!First(key)
    <2>1. k \in 1..Len(routes) /\ routes[k].key = key
      BY <1>1, FirstRoute
    <2>2. routes' = [routes EXCEPT ![k].fee = NewFee]
      BY <1>1 DEF Routing!AddRoute
    <2> HIDE DEF k
    <2>3. \A i \in 1..Len(routes) : routes[i] \in RouteData
      BY DEF RouteInv
    <2>4. DOMAIN routes = 1..Len(routes) /\ Len(routes) \in Nat
      BY LenProperties DEF RouteInv
    <2>5. DOMAIN routes' = 1..Len(routes)
      BY <2>2, <2>4
    <2>6. \A i \in 1..Len(routes) : routes'[i].key = routes[i].key /\ routes'[i] \in RouteData
      BY <2>1, <2>2, <2>3, <2>4, Bounds DEF RouteData
    <2>7. routes' = [i \in 1..Len(routes) |-> routes'[i]]
      BY <2>2, <2>4, <2>5
    <2>8. routes' \in [1..Len(routes) -> RouteData]
      BY <2>6, <2>7
    <2>9. routes' \in Seq(RouteData)
      BY <2>4, <2>8, SeqDef
    <2>10. Len(routes') = Len(routes)
      BY <2>4, <2>5, <2>9, LenProperties
    <2> QED BY <2>6, <2>9, <2>10 DEF RouteInv
  <1>2. CASE ~ Routing!HasRoute(key)
    <2> DEFINE new == [key |-> key, fee |-> NewFee]
    <2>1. new \in RouteData /\ new.key = key
      BY Bounds DEF RouteData
    <2>2. routes' = Append(routes, new)
      BY <1>2 DEF Routing!AddRoute
    <2> HIDE DEF new
    <2>3. /\ routes' \in Seq(RouteData) /\ Len(routes') = Len(routes) + 1 /\ Len(routes) \in Nat
          /\ routes'[Len(routes) + 1] = new
          /\ \A i \in 1..Len(routes) : routes'[i] = routes[i]
      BY <2>1, <2>2, AppendProperties, LenProperties DEF RouteInv
    <2>4. \A i \in 1..Len(routes) : routes[i].key # key
      BY <1>2 DEF Routing!HasRoute, Routing!Matches
    <2>5. \A i \in 1..Len(routes') : i \in 1..Len(routes) \/ i = Len(routes) + 1
      BY <2>3
    <2>6. \A i, j \in 1..Len(routes') : routes'[i].key = routes'[j].key => i = j
      BY <2>1, <2>3, <2>4, <2>5 DEF RouteInv
    <2> QED BY <2>3, <2>6 DEF RouteInv
  <1> QED BY <1>1, <1>2

\* A quote is accepted as it stands.
LEMMA AcceptKeeps ==
  ASSUME QuoteInv, NEW r \in Requests, Quoting!AcceptQuote(r, now), HasRow' = HasRow,
         payment' = payment
  PROVE  QuoteInv'
  <1> DEFINE Q == [fee : Int, total : Int, exp : Nat, accepted : BOOLEAN]
  <1>1. quotes' = [quotes EXCEPT ![r].accepted = TRUE] /\ quotes[r] # Quoting!NoQuote
    BY DEF Quoting!AcceptQuote, Quoting!CanAccept
  <1>2. quotes[r] \in Q
    BY <1>1 DEF QuoteInv
  <1>3. /\ quotes'[r] \in Q /\ quotes'[r].total = quotes[r].total /\ quotes'[r].fee = quotes[r].fee
        /\ \A q \in Requests : q # r => quotes'[q] = quotes[q]
    BY <1>1, <1>2 DEF QuoteInv
  <1>4. quotes' \in [Requests -> {Quoting!NoQuote} \cup Q]
    BY <1>1, <1>3 DEF QuoteInv
  <1>5. ASSUME NEW q \in Requests, quotes'[q] # Quoting!NoQuote
        PROVE  q \in HasRow /\ quotes'[q].total = quotes'[q].fee + payment[q].amount
    BY <1>1, <1>3, <1>5 DEF QuoteInv
  <1> QED BY <1>4, <1>5 DEF QuoteInv

\* Match marks a record and leaves its status and its amount.
LEMMA MatchKeeps ==
  ASSUME OutcomeInv, NEW r \in Requests, NEW s, Recon!Match(r, s),
         UNCHANGED <<pc, status, payment, notices>>, faults' = 0 => faults = 0
  PROVE  OutcomeInv'
  <1> DEFINE Rec == [status : {Final}, amount : Int, matched : BOOLEAN, discrepancy : BOOLEAN]
  <1>1. /\ records[r] # Recon!NoRecord
        /\ \/ records' = [records EXCEPT ![r].matched = TRUE]
           \/ records' = [records EXCEPT ![r].discrepancy = TRUE]
    BY DEF Recon!Match
  <1>2. records[r] \in Rec
    BY <1>1 DEF OutcomeInv
  <1>3. /\ records'[r] \in Rec /\ records'[r].amount = records[r].amount
        /\ \A q \in Requests : q # r => records'[q] = records[q]
        /\ DOMAIN records' = Requests
    <2>1. DOMAIN records = Requests
      BY DEF OutcomeInv
    <2>2. CASE records' = [records EXCEPT ![r].matched = TRUE]
      BY <1>2, <2>1, <2>2
    <2>3. CASE records' = [records EXCEPT ![r].discrepancy = TRUE]
      BY <1>2, <2>1, <2>3
    <2> QED BY <1>1, <2>2, <2>3
  <1>4. records' \in [Requests -> {Recon!NoRecord} \cup Rec]
    BY <1>1, <1>3 DEF OutcomeInv
  <1>5. \A x \in Rec : x # Recon!NoRecord
    <2>1. \A x \in Rec : x.status = Final
      OBVIOUS
    <2>2. Recon!NoRecord.status # Final
      BY DEF Recon!NoRecord, Final
    <2> HIDE DEF Rec
    <2> QED BY <2>1, <2>2
  <1>6. \A q \in Requests : records'[q] # Recon!NoRecord <=> records[q] # Recon!NoRecord
    BY <1>1, <1>3, <1>5
  <1>7. \A q \in Requests : records'[q].amount = records[q].amount \/ records[q] = Recon!NoRecord
    BY <1>3
  <1> QED BY <1>4, <1>6, <1>7 DEF OutcomeInv

\* Administrative calls change the registry and the routes, never a row.
LEMMA AdministerKeeps ==
  ASSUME IInv, Administer
  PROVE  IInv'
  <1> USE DEF IInv
  <1>1. /\ NoFault /\ UNCHANGED <<now, clientVars, rowVars, columnVars, pc, start, got, notices>>
        /\ faults + admin < MaxEvents /\ admin' = admin + 1 /\ named' \subseteq DOMAIN Names
    BY DEF Administer, CreateBank, BaseInv, ClockInv
  <1>2. ClockInv' /\ now' \in 0..MaxTime /\ now <= now'
    BY <1>1, Bounds DEF BaseInv, ClockInv, NoFault
  <1>3. /\ BaseInv' /\ ColumnInv' /\ HasRow' = HasRow /\ payment' = payment /\ status' = status
        /\ (faults' = 0 => faults = 0)
    <2> HIDE DEF IInv
    <2> QED BY <1>1, <1>2, QuietKeeps
  <1>4. UNCHANGED <<registry, cache>> => LookupInv'
    BY <1>1, <1>2, QuietLookup DEF BaseInv
  <1>5. UNCHANGED routes => RouteInv'
    BY RoutesKept
  <1>6. UNCHANGED quotes => QuoteInv'
    BY <1>3, QuotesKept
  <1>7. UNCHANGED records => OutcomeInv'
    BY <1>1, <1>3, QuietOutcome
  <1>8. CASE Lookup!Register(now) /\ UNCHANGED <<routes, quotes, records>>
    <2>1. LookupInv'
      BY <1>1, <1>8, RegisterKeeps DEF BaseInv
    <2> QED BY <1>3, <1>5, <1>6, <1>7, <1>8, <2>1
  <1>9. CASE /\ \E r \in HasRow : Routing!AddRoute(RouteKey(r), NewFee)
             /\ UNCHANGED <<registry, cache, quotes, records>>
    <2>1. PICK r \in HasRow : Routing!AddRoute(RouteKey(r), NewFee)
      BY <1>9
    <2>2. RouteKey(r) \in STRING \X STRING \X STRING
      BY DEF BaseInv, RowInv, RouteKey, Currency
    <2>3. RouteInv'
      BY <2>1, <2>2, AddRouteKeeps
    <2> QED BY <1>3, <1>4, <1>6, <1>7, <1>9, <2>3
  <1>10. CASE /\ \E r \in Requests : Quoting!AcceptQuote(r, now)
              /\ UNCHANGED <<registry, cache, routes, records>>
    BY <1>3, <1>4, <1>5, <1>7, <1>10, AcceptKeeps
  <1>11. CASE /\ \E r \in Requests, s \in {Final, "ABORTED"} : Recon!Match(r, s)
              /\ UNCHANGED <<registry, cache, routes, quotes>>
    <2>1. OutcomeInv'
      BY <1>1, <1>3, <1>11, MatchKeeps
    <2> QED BY <1>3, <1>4, <1>5, <1>6, <1>11, <2>1
  <1>12. CASE UNCHANGED serviceVars
    BY <1>3, <1>4, <1>5, <1>6, <1>7, <1>12 DEF serviceVars
  <1> QED BY <1>8, <1>9, <1>10, <1>11, <1>12 DEF Administer

\* A service that restarts loses its maps, never a row.
LEMMA RestartServiceKeeps ==
  ASSUME IInv, RestartService
  PROVE  IInv'
  <1> USE DEF IInv
  <1>1. /\ Fault /\ UNCHANGED <<now, clientVars, rowVars, columnVars, pc, start, got, notices>>
        /\ UNCHANGED <<registry, cache, named, admin>>
    BY DEF RestartService, adminVars
  <1>2. ClockInv' /\ now' \in 0..MaxTime /\ now <= now' /\ faults' # 0
    BY <1>1, Bounds DEF BaseInv, ClockInv, Fault
  <1>3. /\ BaseInv' /\ ColumnInv' /\ HasRow' = HasRow /\ payment' = payment /\ status' = status
        /\ (faults' = 0 => faults = 0)
    <2> HIDE DEF IInv
    <2> QED BY <1>1, <1>2, QuietKeeps
  <1>4. LookupInv'
    BY <1>1, <1>2, QuietLookup DEF BaseInv
  <1>5. RouteInv'
    <2>1. CASE UNCHANGED routes
      BY <2>1, RoutesKept
    <2>2. CASE Routing!Restart
      BY <2>2, IntakeAssumption, Zenon DEF Routing!Restart, RouteInv
    <2> QED BY <2>1, <2>2 DEF RestartService
  <1>6. QuoteInv'
    <2>1. CASE UNCHANGED quotes
      BY <1>3, <2>1, QuotesKept
    <2>2. CASE Quoting!Restart(Requests)
      BY <2>2 DEF Quoting!Restart, QuoteInv
    <2> QED BY <2>1, <2>2 DEF RestartService
  <1>7. OutcomeInv'
    <2>1. CASE UNCHANGED records
      BY <1>1, <1>3, <2>1, QuietOutcome
    <2>2. CASE Recon!Restart(Requests)
      BY <1>1, <1>2, <1>3, <2>2 DEF Recon!Restart, OutcomeInv
    <2> QED BY <2>1, <2>2 DEF RestartService
  <1> QED BY <1>3, <1>4, <1>5, <1>6, <1>7

\* A step that changes nothing but, perhaps, the time.
LEMMA TickKeeps ==
  ASSUME IInv, Tick \/ UNCHANGED vars
  PROVE  IInv'
  <1> USE DEF IInv
  <1>1. /\ UNCHANGED <<clientVars, rowVars, columnVars, pc, start, got, notices, serviceVars, adminVars>>
        /\ UNCHANGED <<registry, cache, routes, quotes, records, faults>>
        /\ now' = now \/ (now < MaxTime /\ now' = now + 1)
    BY DEF Tick, vars, serviceVars, NoFault
  <1>2. ClockInv' /\ now' \in 0..MaxTime /\ now <= now'
    BY <1>1, Bounds DEF BaseInv, ClockInv, adminVars
  <1>3. /\ BaseInv' /\ ColumnInv' /\ HasRow' = HasRow /\ payment' = payment /\ status' = status
        /\ (faults' = 0 => faults = 0)
    <2>1. NoFault
      BY <1>1 DEF NoFault
    <2> HIDE DEF IInv
    <2> QED BY <1>1, <1>2, <2>1, QuietKeeps
  <1>4. LookupInv'
    BY <1>1, <1>2, QuietLookup DEF BaseInv
  <1>5. RouteInv' /\ QuoteInv'
    BY <1>1, <1>3, RoutesKept, QuotesKept
  <1>6. OutcomeInv'
    BY <1>1, <1>3, QuietOutcome
  <1> QED BY <1>3, <1>4, <1>5, <1>6

\* Every step keeps the invariant.
LEMMA StepInv == IInv /\ [Next]_vars => IInv'
  <1> SUFFICES ASSUME IInv, [Next]_vars PROVE IInv'
    OBVIOUS
  <1>1. CASE \E r \in Requests : SubmitPayment(r) \/ SagaStep(r)
    BY <1>1, SubmitKeeps, ValidateKeeps, LookupBICKeeps, FillCacheKeeps, RouteKeeps, QuoteKeeps,
       ScreenKeeps, BankKeeps, RecordKeeps, NotifyKeeps, RollBackKeeps, ExpireKeeps DEF SagaStep
  <1>2. CASE Crash
    BY <1>2, CrashKeeps
  <1>3. CASE Administer
    BY <1>3, AdministerKeeps
  <1>4. CASE RestartService
    BY <1>4, RestartServiceKeeps
  <1>5. CASE Tick \/ UNCHANGED vars
    BY <1>5, TickKeeps
  <1> QED BY <1>1, <1>2, <1>3, <1>4, <1>5 DEF Next

---------------------------------------------------------------------------
(***************************************************************************)
(* The theorems.                                                           *)
(***************************************************************************)

\* The invariant holds in every state the switch reaches.
THEOREM Invariance == Spec => []IInv
  BY InitInv, StepInv, PTL DEF Spec

\* The tables, the sagas and the services have their types: every saga has its
\* row, there is one route for a source and a
\* destination, and quotes and records have the amount of their payment.
THEOREM TypeCorrect == Spec => []TypeOK
  <1>1. IInv => TypeOK
    <2> SUFFICES ASSUME IInv PROVE TypeOK
      OBVIOUS
    <2> USE DEF IInv, BaseInv
    <2>1. /\ now \in 0..MaxTime /\ named \subseteq DOMAIN Names
          /\ faults \in Nat /\ admin \in Nat /\ faults + admin <= MaxEvents
      BY DEF ClockInv
    <2>2. /\ answer \in [Requests -> {"none", "202", "400", "401", "409", "500", "lost"}]
          /\ pc \in [Requests -> {"new", "answered"} \cup Running \cup Ended]
          /\ \A r \in Requests : pc[r] \in Running \cup Ended => r \in HasRow
          /\ start \in [Requests -> 0..MaxTime]
      BY DEF ControlInv
    <2>3. (\A r \in HasRow : payment[r].id = r) /\ createdAt \in [Requests -> 0..MaxTime]
      BY DEF RowInv
    <2>4. /\ status \in [Requests -> {"", "RECEIVED", "VALIDATED", "LOOKED_UP", "ROUTED", "QUOTED",
                                      "SCREENED", Final, "ABORTED"}]
          /\ reason \in [Requests -> {""} \cup Running]
          /\ fee \in [Requests -> Nat]
      BY DEF ColumnInv
    <2>5. /\ got \in [Requests -> 0..Lookup!Current]
          /\ \A v \in 1..Len(registry) : registry[v] \in 0..MaxTime
          /\ cache.ver \in 0..Lookup!Current
      <3>1. Len(registry) \in Nat /\ registry \in Seq(0..MaxTime)
        BY LenProperties DEF LookupInv
      <3>2. \A v \in 1..Len(registry) : registry[v] \in 0..MaxTime
        BY <3>1, Bounds
      <3>3. cache.ver \in 0..Len(registry)
        BY <3>1 DEF LookupInv
      <3>4. got \in [Requests -> 0..Len(registry)]
        BY <3>1 DEF LookupInv
      <3> QED BY <3>2, <3>3, <3>4 DEF Lookup!Current
    <2>6. \A i, j \in 1..Len(routes) : routes[i].key = routes[j].key => i = j
      BY DEF RouteInv
    <2>7. \A r \in Requests : quotes[r] # Quoting!NoQuote =>
            quotes[r].total = quotes[r].fee + payment[r].amount
      BY DEF QuoteInv
    <2>8. /\ \A r \in Requests : records[r] # Recon!NoRecord => records[r].amount = payment[r].amount
          /\ notices \subseteq (Requests \X {"source", "dest"})
      BY DEF OutcomeInv
    <2> QED BY <2>1, <2>2, <2>3, <2>4, <2>5, <2>6, <2>7, <2>8, Zenon DEF TypeOK
  <1> QED BY <1>1, Invariance, PTL

\* A payment that is sent again is made once, and the answers are true.
THEOREM RetriesAreSafe == Spec => []RetryIsSafe
  <1>1. IInv => RetryIsSafe
    BY DEF IInv, BaseInv
  <1> QED BY <1>1, Invariance, PTL

\* Every row reads back as the payment that was asked for, in all formats: what
\* was given is kept, up to the padding of the codes and for a date the gateway
\* understands, and what was not has its default.
THEOREM RowsAreFaithful == Spec => []RowKeepsRequest
  <1>1. IInv => RowKeepsRequest
    BY DEF IInv, BaseInv
  <1> QED BY <1>1, Invariance, PTL

\* What the lookup cache answers is no older than its TTL plus a saga's limit.
THEOREM StalenessBound == Spec => []LookupStalenessBounded
  <1>1. IInv => LookupStalenessBounded
    <2> SUFFICES ASSUME IInv, now < cache.exp, cache.ver # Len(registry)
                 PROVE  now < registry[cache.ver + 1] + SagaTimeout + CacheTTL
      BY DEF LookupStalenessBounded, Lookup!Cached, Lookup!Current
    <2>1. /\ cache.ver \in Nat /\ cache.exp \in Nat /\ Len(registry) \in Nat /\ now \in Nat
          /\ cache.ver <= Len(registry)
      BY LenProperties, Bounds DEF IInv, LookupInv, BaseInv, ClockInv
    <2>2. cache.ver < Len(registry) /\ cache.ver + 1 \in 1..Len(registry)
      BY <2>1
    <2>3. PICK a \in Nat : a = registry[cache.ver + 1]
      BY <2>2, Bounds DEF IInv, LookupInv
    <2>4. cache.exp <= a + SagaTimeout + CacheTTL
      BY <2>2, <2>3 DEF IInv, LookupInv
    <2> QED BY <2>1, <2>3, <2>4, Bounds
  <1> QED BY <1>1, Invariance, PTL

\* Records and notices agree with the rows for ever, and without faults none
\* is missing in the end.
THEOREM OutcomesReported == Spec => []OutcomeReported
  <1> DEFINE Code == IF SettlementEnabled THEN "ACSC" ELSE "ACCP"
  <1>1. IInv => OutcomeReported
    <2> SUFFICES ASSUME IInv, NEW r \in Requests
                 PROVE  /\ records[r] # Recon!NoRecord \/ (\E side \in {"source", "dest"} : <<r, side>> \in notices)
                             => status[r] = Final /\ GetPayment(r).report.txSts = Code
                        /\ records[r] # Recon!NoRecord => records[r].status = status[r]
                        /\ pc[r] = "done" /\ faults = 0 =>
                             records[r] # Recon!NoRecord /\ {<<r, "source">>, <<r, "dest">>} \subseteq notices
      BY DEF OutcomeReported
    <2>1. status[r] = Final => GetPayment(r).report.txSts = Code
      BY DEF GetPayment, Iso!ToPacs002, Iso!DomainStatusToISO, Final
    <2>2. records[r] # Recon!NoRecord \/ (\E side \in {"source", "dest"} : <<r, side>> \in notices)
            => status[r] = Final
      BY DEF IInv, OutcomeInv
    <2>3. records[r] # Recon!NoRecord => records[r].status = Final
      BY DEF IInv, OutcomeInv
    <2>4. pc[r] = "done" /\ faults = 0 =>
            records[r] # Recon!NoRecord /\ {<<r, "source">>, <<r, "dest">>} \subseteq notices
      BY DEF IInv, OutcomeInv
    <2> QED BY <2>1, <2>2, <2>3, <2>4
  <1> QED BY <1>1, Invariance, PTL

\* No step takes a row away or changes what the list is sorted by.
LEMMA StepKeepsRows ==
  ASSUME IInv, [Next]_vars
  PROVE  /\ RowInv'
         /\ \A q \in HasRow : q \in HasRow' /\ payment'[q] = payment[q] /\ createdAt'[q] = createdAt[q]
  <1>1. RowInv'
    BY StepInv DEF IInv, BaseInv
  <1>2. CASE UNCHANGED rowVars
    BY <1>1, <1>2 DEF rowVars, HasRow
  <1>3. CASE \E r \in Requests : \E p : pc[r] = "new" /\ Created(r, p)
    <2>0. PICK r \in Requests : \E p : pc[r] = "new" /\ Created(r, p)
      BY <1>3
    <2>1. PICK p : pc[r] = "new" /\ Created(r, p)
      BY <2>0
    <2>2. \A q \in HasRow : q \in Requests /\ q # r
      BY <2>1 DEF IInv, BaseInv, ControlInv, HasRow
    <2>3. \A q \in HasRow : payment'[q] = payment[q]
      BY <2>1, <2>2 DEF Created, IInv, BaseInv, RowInv
    <2>4. \A q \in HasRow : q \in HasRow'
      BY <2>2, <2>3 DEF HasRow
    <2>5. PICK at : createdAt' = [createdAt EXCEPT ![r] = at]
      BY <2>1 DEF Created
    <2>6. \A q \in HasRow : createdAt'[q] = createdAt[q]
      BY <2>2, <2>5 DEF IInv, BaseInv, RowInv
    <2> QED BY <1>1, <2>3, <2>4, <2>6
  <1>4. ASSUME NEW r \in Requests, SubmitPayment(r)
        PROVE  UNCHANGED rowVars \/ \E p : pc[r] = "new" /\ Created(r, p)
    BY <1>4 DEF SubmitPayment, Insert, Refused
  <1>5. ASSUME NEW r \in Requests, SagaStep(r)
        PROVE  UNCHANGED rowVars
    BY <1>5 DEF SagaStep, Validate, LookupBIC, FillCache, Route, Quote, Screen, Bank,
                RecordReconciliation, Notify, RollBack, Expire
  <1>6. Crash \/ Administer \/ RestartService \/ Tick \/ UNCHANGED vars => UNCHANGED rowVars
    BY DEF Crash, Administer, RestartService, Tick, vars
  <1> QED BY <1>2, <1>3, <1>4, <1>5, <1>6 DEF Next

\* The portal counts as everyone does.
LEMMA PortalCardinality == \A S : Portal!Cardinality(S) = Cardinality(S)
  BY DEF Portal!Cardinality, Cardinality

\* More rows before a row do not bring it to an earlier page.
LEMMA QuotientGrows ==
  ASSUME NEW a \in Nat, NEW c \in Nat, a <= c, NEW n \in Nat \ {0}
  PROVE  a \div n <= c \div n
  OBVIOUS

\* U is T with more rows, none of which has moved in time or changed its banks.
Extends(T, U) ==
  /\ IsFiniteSet(DOMAIN U) /\ DOMAIN T \subseteq DOMAIN U
  /\ \A i \in DOMAIN T : /\ T[i].at \in Nat /\ U[i].at = T[i].at
                         /\ U[i].source = T[i].source /\ U[i].dest = T[i].dest

\* Whatever is listed stays listed, with its day, and counts.
LEMMA ListGrows ==
  ASSUME NEW T, NEW U, Extends(T, U), NEW b, NEW n
  PROVE  /\ Portal!Rows(T, b) \subseteq Portal!Rows(U, b) /\ IsFiniteSet(Portal!Rows(U, b))
         /\ DOMAIN Portal!ListSettlementWindows(T, b) \subseteq DOMAIN Portal!ListSettlementWindows(U, b)
         /\ Portal!ListTransactions(T, U, b, 1, n).total <= Cardinality(Portal!Rows(U, b))
  <1>1. Portal!Rows(T, b) \subseteq Portal!Rows(U, b) /\ Portal!Rows(U, b) \subseteq DOMAIN U
        /\ Portal!Rows(T, b) \subseteq DOMAIN T
    BY DEF Extends, Portal!Rows
  <1>2. IsFiniteSet(Portal!Rows(U, b))
    BY <1>1, FS_Subset DEF Extends
  <1>3. \A i \in Portal!Rows(T, b) : Portal!Day(U, i) = Portal!Day(T, i)
    BY <1>1 DEF Extends, Portal!Day, Portal!Period
  <1>4. /\ DOMAIN Portal!ListSettlementWindows(T, b) = { Portal!Day(T, i) : i \in Portal!Rows(T, b) }
        /\ DOMAIN Portal!ListSettlementWindows(U, b) = { Portal!Day(U, i) : i \in Portal!Rows(U, b) }
    BY DEF Portal!ListSettlementWindows
  <1>5. DOMAIN Portal!ListSettlementWindows(T, b) \subseteq DOMAIN Portal!ListSettlementWindows(U, b)
    BY <1>1, <1>3, <1>4
  <1>6. Cardinality(Portal!Rows(T, b)) <= Cardinality(Portal!Rows(U, b))
    BY <1>1, <1>2, FS_Subset
  <1>7. Portal!ListTransactions(T, U, b, 1, n).total = Cardinality(Portal!Rows(T, b))
    BY PortalCardinality DEF Portal!ListTransactions
  <1> QED BY <1>1, <1>2, <1>5, <1>6, <1>7

\* The rows before a row stay before it.
LEMMA PagesGrow ==
  ASSUME NEW T, NEW U, Extends(T, U), NEW b, NEW r \in Portal!Rows(T, b), NEW n \in Nat \ {0}
  PROVE  Portal!FirstPage(U, b, r, n) >= Portal!FirstPage(T, b, r, n)
  <1> DEFINE S == { j \in Portal!Rows(T, b) : Portal!Before(T, j, r) }
             V == { j \in Portal!Rows(U, b) : Portal!Before(U, j, r) }
  <1>1. Portal!Rows(T, b) \subseteq Portal!Rows(U, b) /\ IsFiniteSet(Portal!Rows(U, b))
    BY ListGrows
  <1>2. Portal!Rows(T, b) \subseteq DOMAIN T
    BY DEF Portal!Rows
  <1>3. S \subseteq V
    BY <1>1, <1>2 DEF Extends, Portal!Before
  <1>4. V \subseteq Portal!Rows(U, b)
    OBVIOUS
  <1>5. /\ Portal!FirstPage(T, b, r, n) = 1 + Cardinality(S) \div n
        /\ Portal!FirstPage(U, b, r, n) = 1 + Cardinality(V) \div n
    BY PortalCardinality DEF Portal!FirstPage
  <1> HIDE DEF S, V
  <1>6. IsFiniteSet(V)
    BY <1>1, <1>4, FS_Subset
  <1>7. IsFiniteSet(S) /\ Cardinality(S) <= Cardinality(V)
    BY <1>3, <1>6, FS_Subset
  <1>8. Cardinality(S) \in Nat /\ Cardinality(V) \in Nat
    BY <1>6, <1>7, FS_CardinalityType
  <1>9. Cardinality(S) \div n <= Cardinality(V) \div n
    BY <1>7, <1>8, QuotientGrows
  <1>10. Cardinality(S) \div n \in Int /\ Cardinality(V) \div n \in Int
    BY <1>8
  <1> QED BY <1>5, <1>9, <1>10

\* A row that shares its created_at with no other is on one page for certain.
LEMMA UntiedPage ==
  ASSUME NEW T, IsFiniteSet(DOMAIN T), \A i \in DOMAIN T : T[i].at \in Nat,
         NEW b, NEW r \in Portal!Rows(T, b), NEW n, Untied(T, b, r)
  PROVE  Portal!LastPage(T, b, r, n) = Portal!FirstPage(T, b, r, n)
  <1> DEFINE S == { j \in Portal!Rows(T, b) : Portal!Before(T, j, r) }
             V == { j \in Portal!Rows(T, b) : ~ Portal!Before(T, r, j) }
  <1>1. Portal!Rows(T, b) \subseteq DOMAIN T
    BY DEF Portal!Rows
  <1>2. V = S \cup {r} /\ r \notin S /\ S \subseteq DOMAIN T
    BY <1>1 DEF Portal!Before, Untied
  <1>3. /\ Portal!FirstPage(T, b, r, n) = 1 + Cardinality(S) \div n
        /\ Portal!LastPage(T, b, r, n) = 1 + (Cardinality(V) - 1) \div n
    BY PortalCardinality DEF Portal!FirstPage, Portal!LastPage
  <1> HIDE DEF S, V
  <1>4. IsFiniteSet(S)
    BY <1>2, FS_Subset
  <1>5. Cardinality(V) = Cardinality(S) + 1 /\ Cardinality(S) \in Nat
    BY <1>2, <1>4, FS_AddElement, FS_CardinalityType
  <1>6. Cardinality(V) - 1 = Cardinality(S)
    BY <1>5
  <1> QED BY <1>3, <1>6

\* A step makes a table that extends the one before.
LEMMA TableExtends ==
  ASSUME IInv, [Next]_vars, NEW T, T = Table, NEW U, U = Table'
  PROVE  Extends(T, U) /\ IsFiniteSet(DOMAIN T)
  <1>1. /\ RowInv /\ RowInv'
        /\ \A q \in HasRow : q \in HasRow' /\ payment'[q] = payment[q] /\ createdAt'[q] = createdAt[q]
    BY StepKeepsRows DEF IInv, BaseInv
  <1>2. /\ DOMAIN T = HasRow /\ DOMAIN U = HasRow'
        /\ \A q \in HasRow : T[q].source = payment[q].source /\ T[q].dest = payment[q].dest
                             /\ T[q].at = createdAt[q]
        /\ \A q \in HasRow' : U[q].source = payment'[q].source /\ U[q].dest = payment'[q].dest
                              /\ U[q].at = createdAt'[q]
    BY DEF Table
  <1>3. IsFiniteSet(HasRow) /\ IsFiniteSet(HasRow')
    BY <1>1 DEF RowInv
  <1>4. \A q \in HasRow : createdAt[q] \in Nat
    BY <1>1, Bounds DEF RowInv, HasRow
  <1> QED BY <1>1, <1>2, <1>3, <1>4 DEF Extends

\* The step of the two theorems below.
LEMMA StepMovesNoRowBack ==
  ASSUME IInv, [Next]_vars, NEW T, T = Table, NEW U, U = Table', NEW n \in Nat \ {0}
  PROVE  NoRowMovesBack(T, U, n)
  <1>1. Extends(T, U) /\ IsFiniteSet(DOMAIN T)
    BY TableExtends
  <1> SUFFICES ASSUME NEW b \in BICs
               PROVE  /\ DOMAIN Portal!ListSettlementWindows(T, b) \subseteq
                           DOMAIN Portal!ListSettlementWindows(U, b)
                      /\ Portal!ListTransactions(T, U, b, 1, n).total <= Cardinality(Portal!Rows(U, b))
                      /\ \A r \in Portal!Rows(T, b) :
                           /\ r \in Portal!Rows(U, b)
                           /\ Portal!FirstPage(U, b, r, n) >= Portal!FirstPage(T, b, r, n)
                           /\ Untied(T, b, r) =>
                                Portal!FirstPage(U, b, r, n) >= Portal!LastPage(T, b, r, n)
    BY Zenon DEF NoRowMovesBack
  <1>2. /\ Portal!Rows(T, b) \subseteq Portal!Rows(U, b)
        /\ DOMAIN Portal!ListSettlementWindows(T, b) \subseteq DOMAIN Portal!ListSettlementWindows(U, b)
        /\ Portal!ListTransactions(T, U, b, 1, n).total <= Cardinality(Portal!Rows(U, b))
    BY <1>1, ListGrows
  <1>3. ASSUME NEW r \in Portal!Rows(T, b)
        PROVE  /\ r \in Portal!Rows(U, b)
               /\ Portal!FirstPage(U, b, r, n) >= Portal!FirstPage(T, b, r, n)
               /\ Untied(T, b, r) => Portal!FirstPage(U, b, r, n) >= Portal!LastPage(T, b, r, n)
    <2>1. Portal!FirstPage(U, b, r, n) >= Portal!FirstPage(T, b, r, n)
      BY <1>1, PagesGrow
    <2>2. \A i \in DOMAIN T : T[i].at \in Nat
      BY <1>1 DEF Extends
    <2>3. Untied(T, b, r) => Portal!LastPage(T, b, r, n) = Portal!FirstPage(T, b, r, n)
      BY <1>1, <2>2, UntiedPage
    <2> QED BY <1>2, <2>1, <2>3
  <1> QED BY <1>2, <1>3

\* Someone who turns the pages of the transaction list misses no payment that
\* shares its created_at with no other, and no row moves to a page before all
\* those on which it could be.
THEOREM NothingMissed == Spec => WalkMissesNothing
  <1>1. IInv /\ [Next]_vars =>
          [\A T \in {Table}, U \in {Table'} : NoRowMovesBack(T, U, 1)]_<<rowVars, columnVars>>
    <2> SUFFICES ASSUME IInv, [Next]_vars, NEW T \in {Table}, NEW U \in {Table'}
                 PROVE  NoRowMovesBack(T, U, 1)
      OBVIOUS
    <2>1. T = Table /\ U = Table' /\ 1 \in Nat \ {0}
      OBVIOUS
    <2> QED BY <2>1, StepMovesNoRowBack
  <1> QED BY <1>1, Invariance, PTL DEF Spec, WalkMissesNothing

\* The same for pages of every length: ListTransactions takes the page size
\* from the request.
THEOREM NothingMissedOnAnyPage ==
  ASSUME NEW n \in Nat \ {0}
  PROVE  Spec => [][\A T \in {Table}, U \in {Table'} : NoRowMovesBack(T, U, n)]_<<rowVars, columnVars>>
  <1>1. IInv /\ [Next]_vars =>
          [\A T \in {Table}, U \in {Table'} : NoRowMovesBack(T, U, n)]_<<rowVars, columnVars>>
    <2> SUFFICES ASSUME IInv, [Next]_vars, NEW T \in {Table}, NEW U \in {Table'}
                 PROVE  NoRowMovesBack(T, U, n)
      OBVIOUS
    <2>1. T = Table /\ U = Table'
      OBVIOUS
    <2> QED BY <2>1, StepMovesNoRowBack
  <1> QED BY <1>1, Invariance, PTL DEF Spec

===========================================================================
