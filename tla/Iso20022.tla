------------------------------ MODULE Iso20022 ------------------------------
(***************************************************************************)
(* The conversion between the switch's payment data and pacs.008 / pacs.002*)
(* documents, the payment the gateway builds from a request, and the row   *)
(* the repository makes of it. An absent text is "". An amount in a        *)
(* document is a binary floating-point number next to the decimal one: it  *)
(* is modelled in thousandths of a minor unit, off by e \in Imprecision.   *)
(***************************************************************************)
EXTENDS Integers

CONSTANTS
  Dates,   \* the texts that are a date, 2006-01-02, and "today"
  Stamps,  \* the texts that are a date with a time -> their date
  Char3,   \* the texts that fit into CHAR(3) -> what the column pads them to
  Char4    \* the same for CHAR(4)

Imprecision == -1..1

minorUnitsToAmount(v, e) == 1000 * v + e

\* Mutant: the fraction is cut off.
amountToMinorUnits_Truncates(x) == x \div 1000

\* math.Round; no amount here is near a half.
amountToMinorUnits(x) == (x + 500) \div 1000

Or(a, b) == IF a # "" THEN a ELSE b

accountBICFromAgent(doc) == Or(doc.bicfi, doc.agtOthr)
accountIDValue(doc)      == Or(doc.iban, doc.acctOthr)

\* time.Parse, in the layouts of a document; "" is the zero time, and so are a
\* text in neither layout and one that names the zero time.
DateOf(t) == IF t \in Dates THEN t ELSE IF t \in DOMAIN Stamps THEN Stamps[t] ELSE ""

\* The first transaction of a document counts. Its settlement date is that of
\* the group header: a date of the transaction itself (txDate) is not read. Its
\* purpose is Purp before CtgyPurp.
FromPacs008(doc) ==
  [ e2e |-> doc.e2e, dest |-> accountBICFromAgent(doc), acct |-> accountIDValue(doc),
    amount |-> amountToMinorUnits(doc.amt), ccy |-> doc.ccy, uetr |-> doc.uetr,
    instr |-> doc.instr, bearer |-> doc.bearer, date |-> DateOf(doc.grpDate),
    purp |-> Or(doc.purp, doc.ctgy), rmt |-> doc.rmt ]

\* Header and transaction have the date of the payment, or the time it was made.
ToPacs008(d, e) ==
  LET date == Or(DateOf(d.date), "today") IN
  [ e2e |-> d.e2e, bicfi |-> "", agtOthr |-> d.dest, iban |-> "", acctOthr |-> d.acct,
    amt |-> minorUnitsToAmount(d.amount, e), ccy |-> d.ccy, uetr |-> d.uetr, instr |-> d.instr,
    bearer |-> Or(d.bearer, "SLEV"), grpDate |-> date, txDate |-> date,
    purp |-> d.purp, ctgy |-> "", rmt |-> d.rmt ]

\* The same payment as another bank's software writes it: BICFI, IBAN, the
\* purpose as a category, the bearer left out; the date, in whatever form, in
\* the header or in the transaction.
OtherPacs008(d, e, inHeader) ==
  [ ToPacs008(d, e) EXCEPT !.bicfi = d.dest, !.agtOthr = "", !.iban = d.acct, !.acctOthr = "",
                           !.purp = "", !.ctgy = d.purp, !.bearer = d.bearer,
                           !.grpDate = IF inHeader THEN d.date ELSE "",
                           !.txDate  = IF inHeader THEN "" ELSE d.date ]

DomainStatusToISO(status) ==
  CASE status = "RECEIVED" -> "RCVD"
    [] status \in {"RESERVED", "COMMITTED"} -> "ACCP"
    [] status = "SETTLED" -> "ACSC"
    [] status = "ABORTED" -> "RJCT"
    [] OTHER -> "PDNG"

\* A status report: GetPayment and the acknowledgement of a submitted pacs.008.
ToPacs002(p, status) ==
  [ instr |-> p.instr, e2e |-> p.e2e, txID |-> p.id, txSts |-> DomainStatusToISO(status),
    reason |-> IF status = "ABORTED" THEN "NARR" ELSE "" ]

\* The source comes from the participant registry, never from the message. A
\* settlement date that does not parse, in the one layout of JSON, is replaced
\* without a word by today's.
buildPayment(d, id, bic, account) ==
  [ id |-> id, e2e |-> d.e2e, source |-> bic, dest |-> d.dest, sourceAcct |-> account,
    acct |-> d.acct, amount |-> d.amount, ccy |-> d.ccy, uetr |-> Or(d.uetr, "new"),
    instr |-> Or(d.instr, id), bearer |-> Or(d.bearer, "SLEV"),
    date |-> IF d.date \in Dates THEN d.date ELSE "today", purp |-> d.purp, rmt |-> d.rmt ]

---------------------------------------------------------------------------
(***************************************************************************)
(* The payment as the repository stores it and reads it back. The optional *)
(* texts are NULL for "". The currency, the bearer and the purpose have    *)
(* columns of a fixed width: a short text is padded, and read back padded; *)
(* a long one does not fit, and the insert fails.                          *)
(***************************************************************************)
Texts == {"uetr", "instr", "bearer", "date", "purp", "rmt"}

Fits(p) ==
  /\ p.ccy \in DOMAIN Char3
  /\ \A f \in {"bearer", "purp"} : p[f] = "" \/ p[f] \in DOMAIN Char4

Padded(f, t) == IF f = "ccy" THEN Char3[t] ELSE IF f \in {"bearer", "purp"} THEN Char4[t] ELSE t

CreatePaymentParams(p) ==
  [f \in DOMAIN p |-> IF f \in Texts /\ p[f] = "" THEN "NULL" ELSE Padded(f, p[f])]

mapFromSQLC(row) ==
  [f \in DOMAIN row |-> IF f \in Texts /\ row[f] = "NULL" THEN "" ELSE row[f]]

===========================================================================
