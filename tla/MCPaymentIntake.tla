-------------------------- MODULE MCPaymentIntake --------------------------
(* Two requests. The first, without a certificate, is a payment in JSON with *)
(* a date that does not parse, or a pacs.008 without a currency, which       *)
(* validate refuses, its date in the header or in the transaction, or one    *)
(* whose uetr or purpose the database refuses. The second has the same       *)
(* end-to-end id, every field and a date with a time: bank-a sends its       *)
(* payment again, or bank-b or a stranger uses that id.                      *)
EXTENDS PaymentIntake, TLC

MCParticipants == "bank-a" :> [bic |-> "A", account |-> "ACC-A"]
               @@ "bank-b" :> [bic |-> "B", account |-> "ACC-B"]

MCStamps == "d1T09:00:00Z" :> "d1"
MCChar3  == "" :> "   " @@ "KES" :> "KES"
MCChar4  == "SLEV" :> "SLEV" @@ "SHAR" :> "SHAR" @@ "P2P" :> "P2P "
MCNames  == "A" :> "Bank A" @@ "B" :> "Bank B"

Bare == [ e2e |-> "e", dest |-> "B", acct |-> "ACC-B", amount |-> 7, ccy |-> "KES", uetr |-> "",
          instr |-> "", bearer |-> "", date |-> "tomorrow", purp |-> "", rmt |-> "" ]
Full == [ Bare EXCEPT !.amount = 10001, !.uetr = "u", !.instr = "i", !.bearer = "SHAR",
                      !.date = "d1T09:00:00Z", !.purp = "P2P", !.rmt = "r" ]
Void == [ Bare EXCEPT !.ccy = "", !.date = "d1" ]
Odd  == [ Bare EXCEPT !.uetr = "not-a-uuid" ]
Long == [ Bare EXCEPT !.purp = "SALARY" ]

Body(shape, d) == [shape |-> shape, data |-> d]

MCSenders == "r1" :> {""} @@ "r2" :> {"bank-a", "bank-b", "stranger"}
MCBodies  == "r1" :> { Body("json", Bare), Body("pacs008", Void), Body("txDate", Void),
                       Body("json", Odd), Body("pacs008", Long) }
          @@ "r2" :> { Body("groupDate", Full) }
MCCallers == { <<"A", "B">>, <<"all", "all">>, <<"all", "B">> }
MCSeedRoutes == << [key |-> <<"A", "B", "KES">>, fee |-> 150] >>
===========================================================================
