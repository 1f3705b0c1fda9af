----------------------- MODULE BankOnboardingProofs -----------------------
(***************************************************************************)
(* Theorems about BankOnboarding for every set of users, replicas, banks,  *)
(* certificates and requests, and every number of faults.                  *)
(***************************************************************************)
EXTENDS BankOnboarding, SequenceTheorems, TLAPS

---------------------------------------------------------------------------
(***************************************************************************)
(* The inductive invariant.                                                *)
(***************************************************************************)

\* A replica restarts no more often than things go wrong.
SessionInv == SessionTypeOK /\ \A n \in Replicas : boots[n] <= faults

\* The rows. A certificate is of a bank that is there.
RowInv ==
  /\ status \in [Banks -> Status \cup {"NONE"}] /\ onboardedAt \in [Banks -> 0..MaxTime]
  /\ config \in [Banks -> [api : Requests \cup {NoRequest}, callback : Requests \cup {NoRequest}]]
  /\ lock \in [Banks -> Requests \cup {NoRequest}]
  /\ certStatus \in [Certs -> {"NONE", "ACTIVE", "REVOKED"}]
  /\ certBank \in [Certs -> Banks \cup {NoBank}]
  /\ \A c \in Certs : certStatus[c] # "NONE" => certBank[c] \in Banks /\ status[certBank[c]] # "NONE"

\* A request of any step is a request of one of the routes.
RequestInv ==
  /\ pc \in [Requests -> {"new"} \cup InHandler \cup Finished]
  /\ \A r \in Requests : req[r] \in IF pc[r] \in InHandler THEN Request ELSE {Idle}
  /\ DOMAIN req = Requests
  /\ seen \in [Requests -> 0..MaxTime]
  /\ answer \in [Requests -> {"none", "ok", "declined", "failed"}]

\* The request that holds the lock of a row is the one between the SELECT and
\* the UPDATE, and what it has read is still what the row says.
LockInv ==
  /\ \A b \in Banks, r \in Requests : lock[b] = r => pc[r] = "locked" /\ req[r].bank = b
  /\ \A r \in Requests : pc[r] = "locked" =>
       /\ req[r].op = "updateBankStatus"
       /\ lock[req[r].bank] = r
       /\ status[req[r].bank] \in Status
       /\ req[r].obj \in validTransitions[status[req[r].bank]]
       /\ seen[r] = onboardedAt[req[r].bank]

\* Where a request is tells whether it has changed something.
ChangeInv ==
  /\ \A c \in changed : c.by \in Requests /\ c.op \in Operations /\ c.bank \in Banks
  /\ \A r \in Requests :
       /\ pc[r] \in {"new", "admitted", "locked"} => r \notin Changers
       /\ pc[r] \in {"reread", "audit"} => r \in Changers
       /\ answer[r] # "none" => pc[r] = "done"
       /\ answer[r] = "ok" => r \in Changers
       /\ answer[r] = "declined" => r \notin Changers

\* An entry of the log is of a request that has ended, and there is no other.
AuditInv ==
  /\ audit \in Seq(Requests)
  /\ \A i \in 1..Len(audit) : pc[audit[i]] = "done" /\ audit[i] \in Changers
  /\ \A i, j \in 1..Len(audit) : audit[i] = audit[j] => i = j
  /\ \A r \in Changers : pc[r] \in Finished /\ faults = 0 => \E i \in 1..Len(audit) : audit[i] = r

\* What a change has left behind and nothing takes back.
WinnerInv ==
  \A c \in changed :
    /\ c.op = "createBank" => status[c.bank] # "NONE"
    /\ c.op = "createCertificate" => c.obj \in Certs /\ certStatus[c.obj] # "NONE"
    /\ c.op = "revokeCertificate" => c.obj \in Certs /\ certStatus[c.obj] = "REVOKED"

IInv == SessionInv /\ RowInv /\ RequestInv /\ LockInv /\ ChangeInv /\ AuditInv /\ WinnerInv /\ OneWinner

---------------------------------------------------------------------------
(***************************************************************************)
(* The constants of the model.                                             *)
(***************************************************************************)

\* The states of a bank, and that a transition leads to one of them.
LEMMA Statuses ==
  /\ Status = {"APPLICATION", "SANDBOX", "CERTIFICATION", "PRODUCTION_ACTIVE", "SUSPENDED",
               "DECOMMISSIONED"}
  /\ "NONE" \notin Status
  /\ \A s \in Status : validTransitions[s] \subseteq Status
  BY DEF Status, validTransitions

\* The routes.
LEMMA Routes ==
  Operations = {"createBank", "updateBankStatus", "updateBankAPI", "updateBankCallback",
                "createCertificate", "revokeCertificate"}
  BY DEF Operations, RequireRoles

\* What a request says.
LEMMA RequestParts ==
  ASSUME NEW q \in Request
  PROVE  /\ q.op \in Operations /\ q.bank \in Banks /\ q.rep \in Replicas
         /\ q.op = "updateBankStatus" => q.obj \in Status
         /\ q.op \in {"createCertificate", "revokeCertificate"} => q.obj \in Certs
  <1>1. PICK o \in Operations : q \in [op : {o}, bank : Banks, obj : Objects(o), rep : Replicas]
    BY DEF Request
  <1> QED BY <1>1 DEF Objects

\* Someone who turns the pages of the log finds every entry of it.
LEMMA AuditedIsLog ==
  ASSUME audit \in Seq(Requests)
  PROVE  Audited = { audit[i] : i \in 1..Len(audit) }
  <1>1. Len(audit) \in Nat
    BY LenProperties
  <1>2. \A i \in 1..Len(audit) : 1 + (Len(audit) - i) \div 1 \in 1..Len(audit)
    BY <1>1
  <1>3. \A page : ListAuditLog(page, 1) \subseteq { audit[i] : i \in 1..Len(audit) }
    BY DEF ListAuditLog
  <1>4. \A i \in 1..Len(audit) : audit[i] \in ListAuditLog(1 + (Len(audit) - i) \div 1, 1)
    BY DEF ListAuditLog
  <1> QED BY <1>2, <1>3, <1>4 DEF Audited

---------------------------------------------------------------------------
(***************************************************************************)
(* The steps.                                                              *)
(***************************************************************************)

\* The portal starts with nothing under way.
LEMMA InitInv == Init => IInv
  <1> SUFFICES ASSUME Init PROVE IInv
    OBVIOUS
  <1>1. changed = {} /\ audit = << >> /\ pc = [r \in Requests |-> "new"] /\ Changers = {}
    BY DEF Init, Changers
  <1>2. SessionInv
    BY SessionAssumption DEF Init, SessionInit, SessionInv, SessionTypeOK, NoToken
  <1>3. RowInv
    <2>1. status \in [Banks -> Status \cup {"NONE"}]
      BY OnboardingAssumption, Statuses DEF Init
    <2>2. onboardedAt \in [Banks -> 0..MaxTime]
      BY SessionAssumption DEF Init
    <2>3. config \in [Banks -> [api : Requests \cup {NoRequest}, callback : Requests \cup {NoRequest}]]
      BY DEF Init
    <2>4. lock \in [Banks -> Requests \cup {NoRequest}]
      BY DEF Init
    <2>5. certBank \in [Certs -> Banks \cup {NoBank}]
      BY OnboardingAssumption DEF Init
    <2>6. certStatus \in [Certs -> {"NONE", "ACTIVE", "REVOKED"}]
      BY DEF Init
    <2>7. ASSUME NEW c \in Certs, certStatus[c] # "NONE"
          PROVE  certBank[c] \in Banks /\ status[certBank[c]] # "NONE"
      BY <2>7 DEF Init
    <2> QED BY <2>1, <2>2, <2>3, <2>4, <2>5, <2>6, <2>7 DEF RowInv
  <1>4. RequestInv
    BY SessionAssumption DEF Init, RequestInv, InHandler, Idle
  <1>5. LockInv
    BY <1>1, OnboardingAssumption DEF Init, LockInv
  <1>6. ChangeInv
    BY <1>1 DEF Init, ChangeInv
  <1>7. AuditInv
    <2>1. audit \in Seq(Requests) /\ Len(audit) = 0
      BY <1>1, EmptySeq
    <2> QED BY <1>1, <2>1 DEF AuditInv
  <1>8. WinnerInv /\ OneWinner
    BY <1>1 DEF WinnerInv, OneWinner
  <1> QED BY <1>2, <1>3, <1>4, <1>5, <1>6, <1>7, <1>8 DEF IInv

\* A fault more or none: the sessions keep their type.
LEMMA FaultKeeps ==
  ASSUME SessionInv, UNCHANGED sessionVars, NoFault \/ Fault
  PROVE  SessionInv' /\ (faults' = faults \/ faults' = faults + 1) /\ faults \in Nat
  BY SessionAssumption DEF SessionInv, SessionTypeOK, sessionVars, NoFault, Fault

\* Rows that nothing changes stay as they are.
LEMMA RowsKept == RowInv /\ UNCHANGED rowVars => RowInv'
  BY DEF RowInv, rowVars

\* A request that ends without a change, declined or failed.
LEMMA AnswerKeeps ==
  ASSUME IInv, NEW r \in Requests, pc[r] \in {"new", "admitted"},
         NEW a \in {"declined", "failed"}, Answer(r, a), NoFault \/ Fault,
         UNCHANGED <<sessionVars, rowVars, audit, seen, changed>>
  PROVE  IInv'
  <1> USE DEF IInv
  <1>1. /\ pc' = [pc EXCEPT ![r] = "done"] /\ req' = [req EXCEPT ![r] = Idle]
        /\ answer' = [answer EXCEPT ![r] = a]
        /\ UNCHANGED <<audit, seen, changed>> /\ Changers' = Changers
    BY DEF Answer, Changers
  <1>2. SessionInv' /\ (faults' = faults \/ faults' = faults + 1) /\ faults \in Nat
    BY FaultKeeps
  <1>3. RowInv'
    BY RowsKept
  <1>4. RequestInv'
    BY <1>1 DEF RequestInv, InHandler, Finished
  <1>5. LockInv'
    BY <1>1 DEF LockInv, RequestInv, rowVars
  <1>6. ChangeInv'
    BY <1>1 DEF ChangeInv, RequestInv
  <1>7. AuditInv'
    BY <1>1, <1>2 DEF AuditInv, ChangeInv, RequestInv, Finished
  <1>8. WinnerInv' /\ OneWinner'
    BY <1>1 DEF WinnerInv, OneWinner, rowVars
  <1> HIDE DEF IInv
  <1> QED BY <1>2, <1>3, <1>4, <1>5, <1>6, <1>7, <1>8 DEF IInv

\* A request that has changed something goes on, or is told of an error: what
\* this does to the requests, the history and the log.
LEMMA ChangedKeeps ==
  ASSUME IInv, NEW r \in Requests, pc[r] \in {"admitted", "locked"},
         NEW next \in {"reread", "audit"}, Changed(r, next), UNCHANGED <<sessionVars, audit>>,
         seen' \in [Requests -> 0..MaxTime]
  PROVE  /\ SessionInv' /\ RequestInv' /\ ChangeInv' /\ AuditInv'
         /\ pc'[r] # "locked"
         /\ \A q \in Requests \ {r} : pc'[q] = pc[q] /\ req'[q] = req[q]
  <1> USE DEF IInv
  <1> DEFINE ch == [by |-> r, op |-> req[r].op, bank |-> req[r].bank, obj |-> req[r].obj]
  <1>1. /\ changed' = changed \cup {ch}
        /\ \/ NoFault /\ Goto(r, next)
           \/ Fault /\ Answer(r, "failed")
    BY DEF Changed, Changes
  <1>2. Changers' = Changers \cup {r} /\ r \notin Changers
    <2>1. ch.by = r
      OBVIOUS
    <2> HIDE DEF ch
    <2>2. Changers' = Changers \cup {r}
      BY <1>1, <2>1 DEF Changers
    <2> QED BY <2>2 DEF ChangeInv
  <1>3. req[r] \in Request
    BY DEF RequestInv, InHandler
  <1>4. SessionInv' /\ (faults' = faults \/ faults' = faults + 1) /\ faults \in Nat
    BY <1>1, FaultKeeps
  <1>5. /\ pc' \in [Requests -> {"new"} \cup InHandler \cup Finished]
        /\ pc'[r] \in {"reread", "audit", "done"}
        /\ \A q \in Requests \ {r} : pc'[q] = pc[q] /\ req'[q] = req[q] /\ answer'[q] = answer[q]
        /\ answer' \in [Requests -> {"none", "ok", "declined", "failed"}]
        /\ answer'[r] \in {answer[r], "failed"}
        /\ answer'[r] = "failed" => pc'[r] = "done"
        /\ pc'[r] = "done" => faults' # 0
    <2>1. CASE NoFault /\ Goto(r, next)
      <3>1. answer[r] = "none"
        BY DEF ChangeInv
      <3> QED BY <2>1, <3>1 DEF Goto, RequestInv, InHandler, Finished
    <2>2. CASE Fault /\ Answer(r, "failed")
      BY <1>4, <2>2 DEF Answer, Fault, RequestInv, InHandler, Finished
    <2> QED BY <1>1, <2>1, <2>2
  <1>6. RequestInv'
    <2>1. CASE NoFault /\ Goto(r, next)
      BY <1>3, <1>5, <2>1 DEF Goto, RequestInv, InHandler
    <2>2. CASE Fault /\ Answer(r, "failed")
      BY <1>5, <2>2 DEF Answer, RequestInv, InHandler
    <2> QED BY <1>1, <2>1, <2>2
  <1>7. ChangeInv'
    <2>1. \A c \in changed' : c.by \in Requests /\ c.op \in Operations /\ c.bank \in Banks
      BY <1>1, <1>3, RequestParts DEF ChangeInv
    <2>2. answer[r] = "none"
      BY DEF ChangeInv
    <2> QED BY <1>2, <1>5, <2>1, <2>2 DEF ChangeInv
  <1>8. AuditInv'
    <2>1. \A i \in 1..Len(audit) : audit[i] # r
      BY DEF AuditInv
    <2>2. \A i \in 1..Len(audit) : audit[i] \in Requests
      BY DEF AuditInv
    <2>3. Changers \subseteq Requests
      BY DEF Changers, ChangeInv
    <2>4. \A i \in 1..Len(audit) : pc'[audit[i]] = "done" /\ audit[i] \in Changers'
      BY <1>2, <1>5, <2>1, <2>2 DEF AuditInv
    <2>5. ASSUME NEW q \in Changers', pc'[q] \in Finished, faults' = 0
          PROVE  \E i \in 1..Len(audit) : audit[i] = q
      <3>1. q # r /\ q \in Changers /\ pc[q] \in Finished
        BY <1>2, <1>5, <2>3, <2>5 DEF Finished
      <3>2. faults = 0
        BY <1>4, <2>5
      <3> QED BY <3>1, <3>2 DEF AuditInv
    <2> QED BY <2>4, <2>5 DEF AuditInv
  <1> QED BY <1>4, <1>5, <1>6, <1>7, <1>8

\* Locks outlive a change of another request that leaves locks and dates alone
\* and the status of every bank that is there.
LEMMA LocksKept ==
  ASSUME RequestInv, RowInv, LockInv, NEW r \in Requests, pc[r] # "locked", pc'[r] # "locked",
         \A q \in Requests \ {r} : pc'[q] = pc[q] /\ req'[q] = req[q],
         \A b \in Banks : status[b] # "NONE" => status'[b] = status[b],
         UNCHANGED <<lock, onboardedAt, seen>>
  PROVE  LockInv'
  <1>1. ASSUME NEW b \in Banks, NEW q \in Requests, lock'[b] = q
        PROVE  pc'[q] = "locked" /\ req'[q].bank = b
    BY <1>1 DEF LockInv
  <1>2. ASSUME NEW q \in Requests, pc'[q] = "locked"
        PROVE  /\ req'[q].op = "updateBankStatus"
               /\ lock'[req'[q].bank] = q
               /\ status'[req'[q].bank] \in Status
               /\ req'[q].obj \in validTransitions[status'[req'[q].bank]]
               /\ seen'[q] = onboardedAt'[req'[q].bank]
    <2>1. q # r /\ pc[q] = "locked" /\ req'[q] = req[q] /\ req[q].bank \in Banks
      BY <1>2, RequestParts DEF RequestInv, InHandler
    <2> QED BY <2>1, Statuses DEF LockInv
  <1> QED BY <1>1, <1>2 DEF LockInv

\* A change that finds its row untouched and leaves its mark there is the only
\* one of its kind.
LEMMA WinnersKept ==
  ASSUME IInv, NEW r \in Requests, req[r] \in Request, Changes(r),
         \A b \in Banks : status[b] # "NONE" => status'[b] # "NONE",
         \A c \in Certs : /\ certStatus[c] # "NONE" => certStatus'[c] # "NONE"
                          /\ certStatus[c] = "REVOKED" => certStatus'[c] = "REVOKED",
         req[r].op = "createBank" =>
           status[req[r].bank] = "NONE" /\ status'[req[r].bank] # "NONE",
         req[r].op = "createCertificate" =>
           certStatus[req[r].obj] = "NONE" /\ certStatus'[req[r].obj] # "NONE",
         req[r].op = "revokeCertificate" =>
           certStatus[req[r].obj] # "REVOKED" /\ certStatus'[req[r].obj] = "REVOKED"
  PROVE  WinnerInv' /\ OneWinner'
  <1> USE DEF IInv
  <1> DEFINE ch == [by |-> r, op |-> req[r].op, bank |-> req[r].bank, obj |-> req[r].obj]
  <1>1. changed' = changed \cup {ch}
    BY DEF Changes
  <1>2. ch.by = r /\ ch.op = req[r].op /\ ch.bank = req[r].bank /\ ch.obj = req[r].obj
    OBVIOUS
  <1> HIDE DEF ch
  <1>3. \A c \in changed : c.bank \in Banks
    BY DEF ChangeInv
  <1>4. /\ ch.op = "createBank" => status'[ch.bank] # "NONE"
        /\ ch.op = "createCertificate" => ch.obj \in Certs /\ certStatus'[ch.obj] # "NONE"
        /\ ch.op = "revokeCertificate" => ch.obj \in Certs /\ certStatus'[ch.obj] = "REVOKED"
    BY <1>2, RequestParts
  <1>5. WinnerInv'
    BY <1>1, <1>3, <1>4 DEF WinnerInv
  <1>6. ASSUME NEW c \in changed, c.op = ch.op
        PROVE  /\ c.op = "createBank" => c.bank # ch.bank
               /\ c.op \in {"createCertificate", "revokeCertificate"} => c.obj # ch.obj
    BY <1>2, <1>6 DEF WinnerInv
  <1>7. OneWinner'
    BY <1>1, <1>6 DEF OneWinner
  <1> QED BY <1>5, <1>7

\* A request at its handler is one of a route, of a bank, and has changed nothing.
LEMMA AtHandler ==
  ASSUME IInv, NEW r \in Requests, NEW o, At(r, o)
  PROVE  pc[r] = "admitted" /\ req[r].op = o /\ req[r] \in Request /\ req[r].bank \in Banks
  BY RequestParts DEF IInv, At, RequestInv, InHandler

\* A request that changes nothing on a row ends, declined or failed.
LEMMA DeclinedKeeps ==
  ASSUME IInv, NEW r \in Requests, pc[r] = "admitted",
         Declined(r, "declined") \/ Declined(r, "failed") \/ StatementFails(r),
         UNCHANGED <<sessionVars, audit, seen>>
  PROVE  IInv'
  <1>1. PICK a \in {"declined", "failed"} :
          Answer(r, a) /\ (NoFault \/ Fault) /\ UNCHANGED <<rowVars, changed>>
    BY DEF Declined, StatementFails
  <1> QED BY <1>1, AnswerKeeps

\* A request passes the middlewares and gets to its handler, or it is declined.
LEMMA ArriveKeeps ==
  ASSUME IInv, NEW r \in Requests, Arrive(r)
  PROVE  IInv'
  <1>1. CASE Answer(r, "declined")
    BY <1>1, AnswerKeeps DEF Arrive, NoFault
  <1>2. CASE \E q \in Request : /\ req' = [req EXCEPT ![r] = q] /\ pc' = [pc EXCEPT ![r] = "admitted"]
                                /\ UNCHANGED answer
    <2> USE DEF IInv
    <2>1. PICK q \in Request : /\ req' = [req EXCEPT ![r] = q]
                               /\ pc' = [pc EXCEPT ![r] = "admitted"]
                               /\ UNCHANGED answer
      BY <1>2
    <2>2. pc[r] = "new" /\ UNCHANGED <<sessionVars, rowVars, audit, seen, changed, faults>>
          /\ Changers' = Changers
      BY DEF Arrive, Changers
    <2>3. SessionInv'
      BY <2>2, FaultKeeps DEF NoFault
    <2>4. RowInv'
      BY <2>2, RowsKept
    <2>5. RequestInv'
      BY <2>1, <2>2 DEF RequestInv, InHandler
    <2>6. LockInv'
      <3>1. \A p \in Requests \ {r} : pc'[p] = pc[p] /\ req'[p] = req[p]
        BY <2>1 DEF RequestInv
      <3>2. pc[r] # "locked" /\ pc'[r] # "locked"
        BY <2>1, <2>2 DEF RequestInv
      <3>3. status' = status /\ UNCHANGED <<lock, onboardedAt, seen>>
        BY <2>2 DEF rowVars
      <3> QED BY <3>1, <3>2, <3>3, LocksKept
    <2>7. ChangeInv'
      BY <2>1, <2>2 DEF ChangeInv, RequestInv
    <2>8. AuditInv'
      <3>1. \A p \in Requests : p # r => pc'[p] = pc[p]
        BY <2>1 DEF RequestInv
      <3>2. r \notin Changers /\ Changers \subseteq Requests
        BY <2>2 DEF ChangeInv, Changers
      <3> QED BY <2>2, <3>1, <3>2 DEF AuditInv
    <2>9. WinnerInv' /\ OneWinner'
      BY <2>2 DEF WinnerInv, OneWinner, rowVars
    <2> HIDE DEF IInv
    <2> QED BY <2>3, <2>4, <2>5, <2>6, <2>7, <2>8, <2>9 DEF IInv
  <1> QED BY <1>1, <1>2 DEF Arrive

\* A change to the rows other than that of UpdateBankStatus.
LEMMA RowChangeKeeps ==
  ASSUME IInv, NEW r \in Requests, pc[r] = "admitted", req[r] \in Request,
         Changed(r, "audit"), UNCHANGED <<sessionVars, audit, seen, lock, onboardedAt>>,
         RowInv',
         \A b \in Banks : status[b] # "NONE" => status'[b] = status[b],
         \A c \in Certs : /\ certStatus[c] # "NONE" => certStatus'[c] # "NONE"
                          /\ certStatus[c] = "REVOKED" => certStatus'[c] = "REVOKED",
         req[r].op = "createBank" =>
           status[req[r].bank] = "NONE" /\ status'[req[r].bank] # "NONE",
         req[r].op = "createCertificate" =>
           certStatus[req[r].obj] = "NONE" /\ certStatus'[req[r].obj] # "NONE",
         req[r].op = "revokeCertificate" =>
           certStatus[req[r].obj] # "REVOKED" /\ certStatus'[req[r].obj] = "REVOKED"
  PROVE  IInv'
  <1>1. /\ SessionInv' /\ RequestInv' /\ ChangeInv' /\ AuditInv'
        /\ pc'[r] # "locked"
        /\ \A q \in Requests \ {r} : pc'[q] = pc[q] /\ req'[q] = req[q]
    <2>1. seen' \in [Requests -> 0..MaxTime]
      BY DEF IInv, RequestInv
    <2> QED BY <2>1, ChangedKeeps
  <1>2. LockInv'
    BY <1>1, LocksKept DEF IInv
  <1>3. WinnerInv' /\ OneWinner'
    <2>1. Changes(r)
      BY DEF Changed
    <2> QED BY <2>1, WinnersKept
  <1> QED BY <1>1, <1>2, <1>3 DEF IInv

\* createBank inserts a bank whose BIC is free, in its first status.
LEMMA CreateBankKeeps ==
  ASSUME IInv, NEW r \in Requests, createBank(r)
  PROVE  IInv'
  <1> DEFINE b == req[r].bank
  <1>1. /\ pc[r] = "admitted" /\ req[r].op = "createBank" /\ req[r] \in Request /\ b \in Banks
        /\ UNCHANGED <<sessionVars, audit, seen>>
    BY AtHandler DEF createBank
  <1>2. CASE /\ CanInsert(b) /\ Changed(r, "audit")
             /\ status' = [status EXCEPT ![b] = "APPLICATION"]
             /\ UNCHANGED <<onboardedAt, config, lock, certStatus, certBank>>
    <2>1. RowInv'
      BY <1>1, <1>2, Statuses DEF IInv, RowInv
    <2>2. /\ status[b] = "NONE" /\ status'[b] # "NONE"
          /\ \A x \in Banks : status[x] # "NONE" => status'[x] = status[x]
      BY <1>1, <1>2 DEF IInv, RowInv, CanInsert
    <2> QED BY <1>1, <1>2, <2>1, <2>2, RowChangeKeeps
  <1> QED BY <1>1, <1>2, DeclinedKeeps DEF createBank

\* SELECT ... FOR UPDATE: the transaction takes the row lock, which is free.
LEMMA SelectForUpdateKeeps ==
  ASSUME IInv, NEW r \in Requests, SelectForUpdate(r)
  PROVE  IInv'
  <1> DEFINE b == req[r].bank
             allowed == IF status[b] = "NONE" THEN {} ELSE validTransitions[status[b]]
  <1>1. /\ pc[r] = "admitted" /\ req[r].op = "updateBankStatus" /\ req[r] \in Request /\ b \in Banks
        /\ UNCHANGED <<sessionVars, audit>> /\ lock[b] = NoRequest
    BY AtHandler DEF SelectForUpdate, RowFree
  <1>2. CASE /\ req[r].obj \in allowed
             /\ NoFault /\ Goto(r, "locked")
             /\ lock' = [lock EXCEPT ![b] = r]
             /\ seen' = [seen EXCEPT ![r] = onboardedAt[b]]
             /\ UNCHANGED <<status, onboardedAt, config, certStatus, certBank, changed>>
    <2> USE DEF IInv
    <2>1. /\ pc' = [pc EXCEPT ![r] = "locked"] /\ UNCHANGED <<req, answer>>
          /\ Changers' = Changers /\ faults' = faults
      BY <1>2 DEF Goto, Changers, NoFault
    <2>2. status[b] \in Status /\ req[r].obj \in validTransitions[status[b]]
      BY <1>1, <1>2 DEF RowInv
    <2>3. SessionInv'
      BY <1>1, <1>2, FaultKeeps
    <2>4. RowInv'
      BY <1>1, <1>2 DEF RowInv
    <2>5. RequestInv'
      BY <1>1, <1>2, <2>1 DEF RequestInv, RowInv, InHandler
    <2>6. LockInv'
      <3>1. ASSUME NEW x \in Banks, NEW q \in Requests, lock'[x] = q
            PROVE  pc'[q] = "locked" /\ req'[q].bank = x
        BY <1>1, <1>2, <2>1, <3>1 DEF LockInv, RequestInv, RowInv
      <3>2. ASSUME NEW q \in Requests, pc'[q] = "locked"
            PROVE  /\ req'[q].op = "updateBankStatus"
                   /\ lock'[req'[q].bank] = q
                   /\ status'[req'[q].bank] \in Status
                   /\ req'[q].obj \in validTransitions[status'[req'[q].bank]]
                   /\ seen'[q] = onboardedAt'[req'[q].bank]
        <4>1. CASE q = r
          BY <1>1, <1>2, <2>1, <2>2, <4>1 DEF RequestInv, RowInv
        <4>2. CASE q # r
          <5>1. pc[q] = "locked" /\ req[q] \in Request
            BY <2>1, <3>2, <4>2 DEF RequestInv, InHandler
          <5>2. lock[req[q].bank] = q /\ req[q].bank \in Banks /\ req[q].bank # b
            BY <1>1, <5>1, RequestParts, OnboardingAssumption DEF LockInv
          <5> QED BY <1>2, <2>1, <4>2, <5>1, <5>2 DEF LockInv, RequestInv, RowInv
        <4> QED BY <4>1, <4>2
      <3> QED BY <3>1, <3>2 DEF LockInv
    <2>7. ChangeInv'
      BY <1>1, <1>2, <2>1 DEF ChangeInv, RequestInv
    <2>8. AuditInv'
      <3>1. \A p \in Requests : p # r => pc'[p] = pc[p]
        BY <2>1 DEF RequestInv
      <3>2. r \notin Changers /\ Changers \subseteq Requests
        BY <1>1 DEF ChangeInv, Changers
      <3> QED BY <1>1, <2>1, <3>1, <3>2 DEF AuditInv
    <2>9. WinnerInv' /\ OneWinner'
      BY <1>2 DEF WinnerInv, OneWinner
    <2> HIDE DEF IInv
    <2> QED BY <2>3, <2>4, <2>5, <2>6, <2>7, <2>8, <2>9 DEF IInv
  <1> QED BY <1>1, <1>2, DeclinedKeeps DEF SelectForUpdate

\* UpdateBankStatus replaces the status that its transaction read under the lock.
LEMMA UpdateBankStatusKeeps ==
  ASSUME IInv, NEW r \in Requests, UpdateBankStatus(r)
  PROVE  IInv'
  <1> USE DEF IInv
  <1> DEFINE b == req[r].bank
  <1>1. /\ pc[r] = "locked" /\ req[r] \in Request /\ b \in Banks
        /\ lock' = [lock EXCEPT ![b] = NoRequest] /\ seen' = [seen EXCEPT ![r] = 0]
        /\ UNCHANGED <<sessionVars, config, certStatus, certBank, audit>>
        /\ lock[b] = r /\ req[r].op = "updateBankStatus"
        /\ status[b] \in Status /\ req[r].obj \in validTransitions[status[b]]
    BY RequestParts DEF UpdateBankStatus, RequestInv, LockInv, InHandler
  <1>2. seen' \in [Requests -> 0..MaxTime]
    BY <1>1, SessionAssumption DEF RequestInv
  <1>3. req[r].obj \in Status /\ req[r].obj # "NONE"
    BY <1>1, Statuses
  \* Whoever else holds a lock holds that of another bank.
  <1>4. ASSUME NEW q \in Requests, q # r, pc[q] = "locked"
        PROVE  req[q].bank \in Banks \ {b} /\ lock[req[q].bank] = q
    <2>1. req[q] \in Request
      BY <1>4 DEF RequestInv, InHandler
    <2> QED BY <1>1, <1>4, <2>1, RequestParts DEF LockInv
  <1>5. ASSUME pc'[r] # "locked",
               \A q \in Requests \ {r} : pc'[q] = pc[q] /\ req'[q] = req[q],
               \A x \in Banks \ {b} : status'[x] = status[x] /\ onboardedAt'[x] = onboardedAt[x]
        PROVE  LockInv'
    <2>1. ASSUME NEW x \in Banks, NEW q \in Requests, lock'[x] = q
          PROVE  pc'[q] = "locked" /\ req'[q].bank = x
      BY <1>1, <1>5, <2>1, OnboardingAssumption DEF LockInv, RowInv
    <2>2. ASSUME NEW q \in Requests, pc'[q] = "locked"
          PROVE  /\ req'[q].op = "updateBankStatus"
                 /\ lock'[req'[q].bank] = q
                 /\ status'[req'[q].bank] \in Status
                 /\ req'[q].obj \in validTransitions[status'[req'[q].bank]]
                 /\ seen'[q] = onboardedAt'[req'[q].bank]
      <3>1. q # r /\ pc[q] = "locked" /\ req'[q] = req[q]
        BY <1>5, <2>2
      <3>2. req[q].bank \in Banks \ {b} /\ lock[req[q].bank] = q
        BY <1>4, <3>1
      <3>3. seen'[q] = seen[q] /\ lock'[req[q].bank] = q
        BY <1>1, <3>1, <3>2 DEF RequestInv, RowInv
      <3> QED BY <1>5, <3>1, <3>2, <3>3 DEF LockInv
    <2> QED BY <2>1, <2>2 DEF LockInv
  <1>6. CASE /\ Changed(r, "reread")
             /\ status' = [status EXCEPT ![b] = req[r].obj]
             /\ onboardedAt' = IF req[r].obj = "PRODUCTION_ACTIVE" /\ seen[r] = 0
                               THEN [onboardedAt EXCEPT ![b] = now] ELSE onboardedAt
    <2>1. /\ SessionInv' /\ RequestInv' /\ ChangeInv' /\ AuditInv'
          /\ pc'[r] # "locked"
          /\ \A q \in Requests \ {r} : pc'[q] = pc[q] /\ req'[q] = req[q]
      <3> HIDE DEF IInv
      <3> QED BY <1>1, <1>2, <1>6, ChangedKeeps
    <2>2. RowInv'
      <3>1. now \in 0..MaxTime
        BY SessionAssumption DEF SessionInv, SessionTypeOK
      <3>2. onboardedAt' \in [Banks -> 0..MaxTime]
        BY <1>1, <1>6, <3>1 DEF RowInv
      <3> QED BY <1>1, <1>3, <1>6, <3>2 DEF RowInv
    <2>3. \A x \in Banks \ {b} : status'[x] = status[x] /\ onboardedAt'[x] = onboardedAt[x]
      BY <1>6 DEF RowInv
    <2>4. LockInv'
      BY <1>5, <2>1, <2>3
    <2>5. WinnerInv' /\ OneWinner'
      <3>1. Changes(r)
        BY <1>6 DEF Changed
      <3>2. \A x \in Banks : status[x] # "NONE" => status'[x] # "NONE"
        BY <1>3, <1>6 DEF RowInv
      <3> HIDE DEF IInv
      <3> QED BY <1>1, <3>1, <3>2, WinnersKept
    <2> QED BY <2>1, <2>2, <2>4, <2>5
  <1>7. CASE Fault /\ Answer(r, "failed") /\ UNCHANGED <<status, onboardedAt, changed>>
    <2>1. /\ pc' = [pc EXCEPT ![r] = "done"] /\ req' = [req EXCEPT ![r] = Idle]
          /\ answer' = [answer EXCEPT ![r] = "failed"] /\ Changers' = Changers
      BY <1>7 DEF Answer, Changers
    <2>2. SessionInv' /\ (faults' = faults \/ faults' = faults + 1) /\ faults \in Nat
      BY <1>1, <1>7, FaultKeeps
    <2>3. RowInv'
      BY <1>1, <1>7 DEF RowInv
    <2>4. RequestInv'
      BY <1>2, <2>1 DEF RequestInv, InHandler, Finished
    <2>5. LockInv'
      <3>1. pc'[r] # "locked" /\ \A q \in Requests \ {r} : pc'[q] = pc[q] /\ req'[q] = req[q]
        BY <2>1 DEF RequestInv
      <3> QED BY <1>5, <1>7, <3>1
    <2>6. ChangeInv'
      BY <1>1, <1>7, <2>1 DEF ChangeInv, RequestInv
    <2>7. AuditInv'
      <3>1. \A p \in Requests : p # r => pc'[p] = pc[p]
        BY <2>1 DEF RequestInv
      <3>2. r \notin Changers /\ Changers \subseteq Requests
        BY <1>1 DEF ChangeInv, Changers
      <3> QED BY <1>1, <2>1, <2>2, <3>1, <3>2 DEF AuditInv
    <2>8. WinnerInv' /\ OneWinner'
      BY <1>1, <1>7 DEF WinnerInv, OneWinner
    <2> QED BY <2>2, <2>3, <2>4, <2>5, <2>6, <2>7, <2>8
  <1> QED BY <1>6, <1>7 DEF UpdateBankStatus

\* A request past its change moves on: nothing but where it is, its answer and
\* the log may change, and what they say stays true.
LEMMA AfterChangeKeeps ==
  ASSUME IInv, NEW r \in Requests, pc[r] \in {"reread", "audit"},
         UNCHANGED <<sessionVars, rowVars, seen, changed>>, NoFault \/ Fault,
         \/ Goto(r, "audit") /\ UNCHANGED audit
         \/ Answer(r, "failed") /\ Fault /\ UNCHANGED audit
         \/ Answer(r, "ok") /\ Fault /\ UNCHANGED audit
         \/ Answer(r, "ok") /\ audit' = Append(audit, r)
  PROVE  IInv'
  <1> USE DEF IInv
  <1>1. SessionInv' /\ (faults' = faults \/ faults' = faults + 1) /\ faults \in Nat
    BY FaultKeeps
  <1>2. RowInv'
    BY RowsKept
  <1>3. /\ \A q \in Requests \ {r} : pc'[q] = pc[q] /\ req'[q] = req[q] /\ answer'[q] = answer[q]
        /\ pc'[r] \in {"audit", "done"} /\ answer'[r] \in {"none", "failed", "ok"}
        /\ answer'[r] # "none" => pc'[r] = "done"
        /\ pc' \in [Requests -> {"new"} \cup InHandler \cup Finished]
        /\ answer' \in [Requests -> {"none", "ok", "declined", "failed"}]
        /\ DOMAIN req' = Requests
        /\ req'[r] \in IF pc'[r] \in InHandler THEN Request ELSE {Idle}
    <2>1. answer[r] = "none" /\ req[r] \in Request
      BY DEF ChangeInv, RequestInv, InHandler
    <2> QED BY <2>1 DEF Goto, Answer, RequestInv, InHandler, Finished
  <1>4. RequestInv'
    BY <1>3 DEF RequestInv
  <1>5. LockInv'
    <2>1. pc[r] # "locked" /\ pc'[r] # "locked"
      BY <1>3
    <2>2. status' = status /\ UNCHANGED <<lock, onboardedAt, seen>>
      BY DEF rowVars
    <2> QED BY <1>3, <2>1, <2>2, LocksKept
  <1>6. r \in Changers /\ Changers' = Changers /\ Changers \subseteq Requests /\ changed' = changed
    BY DEF ChangeInv, Changers
  <1>7. ChangeInv'
    <2>1. ASSUME NEW q \in Requests
          PROVE  /\ pc'[q] \in {"new", "admitted", "locked"} => q \notin Changers
                 /\ pc'[q] \in {"reread", "audit"} => q \in Changers
                 /\ answer'[q] # "none" => pc'[q] = "done"
                 /\ answer'[q] = "ok" => q \in Changers
                 /\ answer'[q] = "declined" => q \notin Changers
      BY <1>3, <1>6 DEF ChangeInv
    <2> QED BY <1>6, <2>1 DEF ChangeInv
  <1>8. \A i \in 1..Len(audit) : audit[i] \in Requests /\ audit[i] # r
    BY DEF AuditInv
  <1>9. AuditInv'
    <2>1. CASE UNCHANGED audit
      <3>1. pc'[r] = "done" => faults' # 0
        <4>1. CASE Goto(r, "audit")
          BY <4>1 DEF Goto, RequestInv
        <4>2. CASE Fault
          BY <1>1, <4>2 DEF Fault
        <4>3. CASE audit' = Append(audit, r)
          BY <2>1, <4>3, LenProperties DEF AuditInv
        <4> QED BY <4>1, <4>2, <4>3
      <3>2. \A i \in 1..Len(audit) : pc'[audit[i]] = "done" /\ audit[i] \in Changers
        BY <1>3, <1>8 DEF AuditInv
      <3>3. ASSUME NEW q \in Changers, pc'[q] \in Finished, faults' = 0
            PROVE  \E i \in 1..Len(audit) : audit[i] = q
        <4>1. q # r /\ pc[q] \in Finished /\ faults = 0
          BY <1>1, <1>3, <1>6, <3>1, <3>3 DEF Finished
        <4> QED BY <4>1 DEF AuditInv
      <3> QED BY <1>6, <2>1, <3>2, <3>3 DEF AuditInv
    <2>2. CASE audit' = Append(audit, r) /\ Answer(r, "ok")
      <3>1. /\ audit' \in Seq(Requests) /\ Len(audit') = Len(audit) + 1 /\ Len(audit) \in Nat
            /\ audit'[Len(audit) + 1] = r
            /\ \A i \in 1..Len(audit) : audit'[i] = audit[i]
        BY <2>2, AppendProperties, LenProperties DEF AuditInv
      <3>2. \A i \in 1..Len(audit') : i \in 1..Len(audit) \/ i = Len(audit) + 1
        BY <3>1
      <3>3. pc'[r] = "done"
        BY <2>2 DEF Answer, RequestInv
      <3>4. \A i \in 1..Len(audit') : pc'[audit'[i]] = "done" /\ audit'[i] \in Changers
        <4>1. TAKE i \in 1..Len(audit')
        <4>2. CASE i = Len(audit) + 1
          BY <1>6, <3>1, <3>3, <4>2
        <4>3. CASE i \in 1..Len(audit)
          BY <1>3, <1>8, <3>1, <4>3 DEF AuditInv
        <4> QED BY <3>2, <4>2, <4>3
      <3>5. \A i, j \in 1..Len(audit') : audit'[i] = audit'[j] => i = j
        BY <1>8, <3>1, <3>2 DEF AuditInv
      <3>6. ASSUME NEW q \in Changers, pc'[q] \in Finished, faults' = 0
            PROVE  \E i \in 1..Len(audit') : audit'[i] = q
        <4>1. CASE q = r
          <5>1. Len(audit) + 1 \in 1..Len(audit')
            BY <3>1
          <5> QED BY <3>1, <4>1, <5>1
        <4>2. CASE q # r
          <5>1. pc[q] \in Finished /\ faults = 0
            BY <1>1, <1>3, <1>6, <3>6, <4>2
          <5>2. PICK i \in 1..Len(audit) : audit[i] = q
            BY <5>1 DEF AuditInv
          <5>3. i \in 1..Len(audit')
            BY <3>1, <5>2
          <5> QED BY <3>1, <5>2, <5>3
        <4> QED BY <4>1, <4>2
      <3> QED BY <1>6, <3>1, <3>4, <3>5, <3>6 DEF AuditInv
    <2> QED BY <2>1, <2>2
  <1>10. WinnerInv' /\ OneWinner'
    BY <1>6 DEF WinnerInv, OneWinner, rowVars
  <1> HIDE DEF IInv
  <1> QED BY <1>1, <1>2, <1>4, <1>5, <1>7, <1>9, <1>10 DEF IInv

\* GetBank after the commit: its failure hides a change from the audit log.
LEMMA ReReadKeeps ==
  ASSUME IInv, NEW r \in Requests, ReRead(r)
  PROVE  IInv'
  BY AfterChangeKeeps DEF ReRead

\* The entry is about a change that is made; its insert may fail.
LEMMA InsertAuditLogKeeps ==
  ASSUME IInv, NEW r \in Requests, InsertAuditLog(r)
  PROVE  IInv'
  BY AfterChangeKeeps DEF InsertAuditLog

\* updateBankAPI and updateBankCallback write columns other than the status.
LEMMA UpdateColumnsKeeps ==
  ASSUME IInv, NEW r \in Requests, NEW group \in {"api", "callback"}, NEW o,
         o \in {"updateBankAPI", "updateBankCallback"}, At(r, o), UpdateColumns(r, group)
  PROVE  IInv'
  <1> DEFINE b == req[r].bank
  <1>1. /\ pc[r] = "admitted" /\ req[r].op = o /\ req[r] \in Request /\ b \in Banks
        /\ UNCHANGED <<sessionVars, audit, seen>>
    BY AtHandler DEF UpdateColumns
  <1>2. CASE /\ status[b] # "NONE" /\ Changed(r, "audit")
             /\ config' = [config EXCEPT ![b][group] = r]
             /\ UNCHANGED <<status, onboardedAt, lock, certStatus, certBank>>
    <2>1. config' \in [Banks -> [api : Requests \cup {NoRequest}, callback : Requests \cup {NoRequest}]]
      BY <1>1, <1>2 DEF IInv, RowInv
    <2>2. RowInv'
      BY <1>2, <2>1 DEF IInv, RowInv
    <2> QED BY <1>1, <1>2, <2>2, RowChangeKeeps
  <1> QED BY <1>1, <1>2, DeclinedKeeps DEF UpdateColumns

\* createCertificate leaves the bank's row alone.
LEMMA CreateCertificateKeeps ==
  ASSUME IInv, NEW r \in Requests, createCertificate(r)
  PROVE  IInv'
  <1> DEFINE b == req[r].bank
             c == req[r].obj
  <1>1. /\ pc[r] = "admitted" /\ req[r].op = "createCertificate" /\ req[r] \in Request
        /\ b \in Banks /\ c \in Certs /\ UNCHANGED <<sessionVars, audit, seen>>
    BY AtHandler, RequestParts DEF createCertificate
  <1>2. CASE /\ CanRegister(c, b) /\ RowFree(b) /\ Changed(r, "audit")
             /\ certStatus' = [certStatus EXCEPT ![c] = "ACTIVE"]
             /\ certBank' = [certBank EXCEPT ![c] = b]
             /\ UNCHANGED <<status, onboardedAt, config, lock>>
    <2>1. RowInv'
      BY <1>1, <1>2 DEF IInv, RowInv, CanRegister
    <2>2. /\ certStatus[c] = "NONE" /\ certStatus'[c] # "NONE"
          /\ \A x \in Certs : /\ certStatus[x] # "NONE" => certStatus'[x] # "NONE"
                              /\ certStatus[x] = "REVOKED" => certStatus'[x] = "REVOKED"
      BY <1>1, <1>2 DEF IInv, RowInv, CanRegister
    <2> QED BY <1>1, <1>2, <2>1, <2>2, RowChangeKeeps
  <1> QED BY <1>1, <1>2, DeclinedKeeps DEF createCertificate

\* revokeCertificate: one of two requests to revoke finds the certificate active.
LEMMA RevokeCertificateKeeps ==
  ASSUME IInv, NEW r \in Requests, revokeCertificate(r)
  PROVE  IInv'
  <1> DEFINE b == req[r].bank
             c == req[r].obj
  <1>1. /\ pc[r] = "admitted" /\ req[r].op = "revokeCertificate" /\ req[r] \in Request
        /\ b \in Banks /\ c \in Certs /\ UNCHANGED <<sessionVars, audit, seen>>
    BY AtHandler, RequestParts DEF revokeCertificate
  <1>2. CASE /\ CanRevoke(c, b) /\ Changed(r, "audit")
             /\ certStatus' = [certStatus EXCEPT ![c] = "REVOKED"]
             /\ UNCHANGED <<status, onboardedAt, config, lock, certBank>>
    <2>1. RowInv'
      BY <1>1, <1>2 DEF IInv, RowInv, CanRevoke
    <2>2. /\ certStatus[c] # "REVOKED" /\ certStatus'[c] = "REVOKED"
          /\ \A x \in Certs : /\ certStatus[x] # "NONE" => certStatus'[x] # "NONE"
                              /\ certStatus[x] = "REVOKED" => certStatus'[x] = "REVOKED"
      BY <1>1, <1>2 DEF IInv, RowInv, CanRevoke
    <2> QED BY <1>1, <1>2, <2>1, <2>2, RowChangeKeeps
  <1> QED BY <1>1, <1>2, DeclinedKeeps DEF revokeCertificate

\* A replica takes its requests and their locks with it.
LEMMA RestartReplicaKeeps ==
  ASSUME IInv, NEW n \in Replicas, RestartReplica(n)
  PROVE  IInv'
  <1> USE DEF IInv
  <1>1. /\ faults' = faults + 1 /\ faults < MaxFaults /\ faults \in Nat
        /\ boots' = [boots EXCEPT ![n] = @ + 1] /\ tokens' = Drop(HeldBy(n))
        /\ UNCHANGED <<now, sessions>>
    BY SessionAssumption DEF RestartReplica, RestartStore, Fault, SessionInv, SessionTypeOK
  <1>2. SessionInv'
    <2>1. tokens' \in [Users -> Token \cup {NoToken}]
      BY <1>1 DEF Drop, SessionInv, SessionTypeOK
    <2>2. /\ boots' \in [Replicas -> 0..MaxFaults]
          /\ \A m \in Replicas : boots'[m] <= faults'
      BY <1>1, SessionAssumption DEF SessionInv, SessionTypeOK
    <2>3. faults' \in 0..MaxFaults
      BY <1>1, SessionAssumption
    <2> QED BY <1>1, <2>1, <2>2, <2>3 DEF SessionInv, SessionTypeOK
  <1>3. /\ pc' = [r \in Requests |-> IF r \in Killed(n) THEN "lost" ELSE pc[r]]
        /\ req' = [r \in Requests |-> IF r \in Killed(n) THEN Idle ELSE req[r]]
        /\ seen' = [r \in Requests |-> IF r \in Killed(n) THEN 0 ELSE seen[r]]
        /\ lock' = [b \in Banks |-> IF lock[b] \in Killed(n) THEN NoRequest ELSE lock[b]]
        /\ UNCHANGED <<status, onboardedAt, config, certStatus, certBank, audit, answer, changed>>
        /\ Changers' = Changers
    BY DEF RestartReplica, Changers
  <1>4. \A r \in Killed(n) : pc[r] \in InHandler
    BY DEF Killed
  <1>5. RowInv'
    BY <1>3 DEF RowInv
  <1>6. RequestInv'
    <2>1. pc' \in [Requests -> {"new"} \cup InHandler \cup Finished]
      BY <1>3 DEF RequestInv, Finished
    <2>2. \A r \in Requests : req'[r] \in IF pc'[r] \in InHandler THEN Request ELSE {Idle}
      BY <1>3 DEF RequestInv, InHandler
    <2>3. seen' \in [Requests -> 0..MaxTime]
      BY <1>3, SessionAssumption DEF RequestInv
    <2>4. DOMAIN req' = Requests
      BY <1>3
    <2> QED BY <1>3, <2>1, <2>2, <2>3, <2>4 DEF RequestInv
  <1>7. LockInv'
    <2>1. ASSUME NEW x \in Banks, NEW q \in Requests, lock'[x] = q
          PROVE  pc'[q] = "locked" /\ req'[q].bank = x
      <3>1. lock[x] = q /\ q \notin Killed(n)
        BY <1>3, <2>1, OnboardingAssumption
      <3> QED BY <1>3, <3>1 DEF LockInv
    <2>2. ASSUME NEW q \in Requests, pc'[q] = "locked"
          PROVE  /\ req'[q].op = "updateBankStatus"
                 /\ lock'[req'[q].bank] = q
                 /\ status'[req'[q].bank] \in Status
                 /\ req'[q].obj \in validTransitions[status'[req'[q].bank]]
                 /\ seen'[q] = onboardedAt'[req'[q].bank]
      <3>1. q \notin Killed(n) /\ pc[q] = "locked" /\ req'[q] = req[q] /\ seen'[q] = seen[q]
        BY <1>3, <2>2
      <3>2. req[q].bank \in Banks
        BY <3>1, RequestParts DEF RequestInv, InHandler
      <3>3. lock'[req[q].bank] = q
        BY <1>3, <3>1, <3>2 DEF LockInv
      <3> QED BY <1>3, <3>1, <3>3 DEF LockInv
    <2> QED BY <2>1, <2>2 DEF LockInv
  <1>8. ChangeInv'
    BY <1>3, <1>4 DEF ChangeInv, InHandler
  <1>9. AuditInv'
    <2>1. \A i \in 1..Len(audit) : audit[i] \in Requests /\ audit[i] \notin Killed(n)
      BY <1>4 DEF AuditInv, InHandler
    <2> QED BY <1>1, <1>3, <2>1 DEF AuditInv
  <1>10. WinnerInv' /\ OneWinner'
    BY <1>3 DEF WinnerInv, OneWinner
  <1> HIDE DEF IInv
  <1> QED BY <1>2, <1>5, <1>6, <1>7, <1>8, <1>9, <1>10 DEF IInv

\* Logins, tokens and the clock touch no row and no request.
LEMMA SessionNextKeeps ==
  ASSUME IInv, SessionNext, UNCHANGED <<rowVars, audit, pc, req, seen, answer, changed>>
  PROVE  IInv'
  <1> USE DEF IInv
  <1>1. SessionInv' /\ (faults' = faults \/ faults' = faults + 1) /\ faults \in Nat
    <2> USE SessionAssumption DEF SessionInv, SessionTypeOK
    <2>1. CASE \E u \in Users : handleLogin(u) \/ handleLogout(u)
      BY <2>1 DEF handleLogin, handleLogout, NoFault
    <2>2. CASE \E u \in Users, n \in Replicas : Generate(n, u)
      <3>1. PICK u \in Users, n \in Replicas : Generate(n, u)
        BY <2>2
      <3>2. tokens' \in [Users -> Token \cup {NoToken}]
        BY <3>1 DEF Generate, Token
      <3> QED BY <3>1, <3>2 DEF Generate, NoFault
    <2>3. CASE \E n \in Replicas : Cleanup(n)
      <3>1. PICK n \in Replicas : Cleanup(n)
        BY <2>3
      <3>2. tokens' \in [Users -> Token \cup {NoToken}]
        BY <3>1 DEF Cleanup, Drop
      <3> QED BY <3>1, <3>2 DEF Cleanup, NoFault
    <2>4. CASE RestartAuth
      BY <2>4 DEF RestartAuth, Fault
    <2>5. CASE Tick
      BY <2>5 DEF Tick, NoFault
    <2> QED BY <2>1, <2>2, <2>3, <2>4, <2>5 DEF SessionNext
  <1>2. RowInv'
    BY RowsKept
  <1>3. RequestInv'
    BY DEF RequestInv
  <1>4. LockInv'
    BY DEF LockInv, rowVars
  <1>5. Changers' = Changers
    BY DEF Changers
  <1>6. ChangeInv'
    BY <1>5 DEF ChangeInv
  <1>7. AuditInv'
    BY <1>1, <1>5 DEF AuditInv
  <1>8. WinnerInv' /\ OneWinner'
    BY DEF WinnerInv, OneWinner, rowVars
  <1> HIDE DEF IInv
  <1> QED BY <1>1, <1>2, <1>3, <1>4, <1>6, <1>7, <1>8 DEF IInv

\* A step that changes nothing.
LEMMA StutterKeeps == IInv /\ UNCHANGED vars => IInv'
  <1> SUFFICES ASSUME IInv, UNCHANGED vars PROVE IInv'
    OBVIOUS
  <1> USE DEF IInv, vars
  <1>1. SessionInv'
    BY FaultKeeps DEF NoFault
  <1>2. RowInv'
    BY RowsKept
  <1>3. Changers' = Changers
    BY DEF Changers
  <1>4. RequestInv' /\ LockInv'
    BY DEF RequestInv, LockInv, rowVars
  <1>5. ChangeInv' /\ AuditInv'
    BY <1>3 DEF ChangeInv, AuditInv
  <1>6. WinnerInv' /\ OneWinner'
    BY DEF WinnerInv, OneWinner, rowVars
  <1> QED BY <1>1, <1>2, <1>4, <1>5, <1>6

\* Every step keeps the invariant.
LEMMA StepInv == IInv /\ [Next]_vars => IInv'
  <1> SUFFICES ASSUME IInv, [Next]_vars PROVE IInv'
    OBVIOUS
  <1>1. CASE \E r \in Requests : Arrive(r) \/ Handle(r)
    <2>1. PICK r \in Requests : Arrive(r) \/ Handle(r)
      BY <1>1
    <2>2. CASE updateBankAPI(r)
      BY <2>2, UpdateColumnsKeeps DEF updateBankAPI
    <2>3. CASE updateBankCallback(r)
      BY <2>3, UpdateColumnsKeeps DEF updateBankCallback
    <2> QED BY <2>1, <2>2, <2>3, ArriveKeeps, CreateBankKeeps, SelectForUpdateKeeps,
               UpdateBankStatusKeeps, ReReadKeeps, CreateCertificateKeeps,
               RevokeCertificateKeeps, InsertAuditLogKeeps DEF Handle
  <1>2. CASE \E n \in Replicas : RestartReplica(n)
    BY <1>2, RestartReplicaKeeps
  <1>3. CASE SessionNext /\ UNCHANGED <<rowVars, audit, pc, req, seen, answer, changed>>
    BY <1>3, SessionNextKeeps
  <1>4. CASE UNCHANGED vars
    BY <1>4, StutterKeeps
  <1> QED BY <1>1, <1>2, <1>3, <1>4 DEF Next

---------------------------------------------------------------------------
(***************************************************************************)
(* The theorems.                                                           *)
(***************************************************************************)

\* The invariant holds in every state the portal reaches.
THEOREM Invariance == Spec => []IInv
  BY InitInv, StepInv, PTL DEF Spec

\* The tables and the requests have their types; a row is locked by the request
\* that is between SELECT ... FOR UPDATE and its commit and by no other, also
\* after a replica has died, and a certificate is of a bank that is there.
THEOREM TypeCorrect == Spec => []TypeOK
  <1>1. IInv => TypeOK
    BY DEF IInv, SessionInv, RowInv, RequestInv, LockInv, ChangeInv, AuditInv, TypeOK
  <1> QED BY <1>1, Invariance, PTL

\* The audit log and the answers agree with what is in the database.
THEOREM AuditIsTrue == Spec => []AuditMatchesChanges
  <1>1. IInv => AuditMatchesChanges
    <2> SUFFICES ASSUME IInv PROVE AuditMatchesChanges
      OBVIOUS
    <2> USE DEF IInv
    <2>1. Audited = { audit[i] : i \in 1..Len(audit) }
      BY AuditedIsLog DEF AuditInv
    <2>2. Changers \subseteq Requests
      BY DEF Changers, ChangeInv
    <2>3. faults \in Nat
      BY SessionAssumption DEF SessionInv, SessionTypeOK
    <2>4. \A r \in Changers \ Audited : pc[r] \in Finished => faults > 0
      BY <2>1, <2>3 DEF AuditInv
    <2>5. Audited \subseteq Changers
      BY <2>1 DEF AuditInv
    <2> QED BY <2>4, <2>5 DEF AuditMatchesChanges, AuditInv, ChangeInv
  <1> QED BY <1>1, Invariance, PTL

\* Of the requests that create one bank, register one certificate or revoke
\* one, at most one succeeds.
THEOREM RacesHaveOneWinner == Spec => []OneWinner
  <1>1. IInv => OneWinner
    BY DEF IInv
  <1> QED BY <1>1, Invariance, PTL

\* A step of the portal is a step of the abstract life cycle of one bank, or
\* leaves the banks alone.
LEMMA StepImplements ==
  ASSUME IInv, [Next]_vars
  PROVE  [Lifecycle!Next]_<<status, onboardedAt>>
  <1>1. CASE \E r \in Requests : createBank(r)
    <2>1. PICK r \in Requests : createBank(r)
      BY <1>1
    <2>2. req[r].bank \in Banks
      BY <2>1, AtHandler DEF createBank
    <2>3. Lifecycle!Create(req[r].bank) \/ UNCHANGED <<status, onboardedAt>>
      BY <2>1 DEF createBank, CanInsert, Declined, StatementFails, rowVars, Lifecycle!Create
    <2> QED BY <2>2, <2>3 DEF Lifecycle!Next
  <1>2. CASE \E r \in Requests : UpdateBankStatus(r)
    <2>1. PICK r \in Requests : UpdateBankStatus(r)
      BY <1>2
    <2> DEFINE b == req[r].bank
               s == req[r].obj
    <2>2. /\ b \in Banks /\ status[b] \in Status /\ s \in validTransitions[status[b]]
          /\ seen[r] = onboardedAt[b]
      BY <2>1, RequestParts DEF UpdateBankStatus, IInv, RequestInv, LockInv, InHandler
    <2>3. s \in Status
      BY <2>2, Statuses
    <2>4. Lifecycle!validTransitions = validTransitions /\ Lifecycle!Status = Status
      BY DEF validTransitions, Lifecycle!validTransitions, Status, Lifecycle!Status
    <2>5. Lifecycle!Move(b, s) \/ UNCHANGED <<status, onboardedAt>>
      BY <2>1, <2>2, <2>4 DEF UpdateBankStatus, Lifecycle!Move
    <2> QED BY <2>2, <2>3, <2>4, <2>5 DEF Lifecycle!Next
  <1>3. CASE ~(\E r \in Requests : createBank(r) \/ UpdateBankStatus(r))
    <2>1. UNCHANGED <<status, onboardedAt>>
      BY <1>3 DEF Next, vars, rowVars, Arrive, Handle, SelectForUpdate, ReRead, UpdateColumns,
                  updateBankAPI, updateBankCallback, createCertificate, revokeCertificate,
                  InsertAuditLog, RestartReplica, Declined, StatementFails
    <2> QED BY <2>1
  <1> QED BY <1>1, <1>2, <1>3

\* However operators race and replicas die, a bank is created once, moves along
\* the onboarding path one allowed transition at a time, and keeps the date of
\* its first activation.
THEOREM Refinement == Spec => ImplementsBankLifecycle
  <1>1. Init => Lifecycle!Init
    <2> SUFFICES ASSUME Init PROVE Lifecycle!Init
      OBVIOUS
    <2>1. Lifecycle!Status = Status
      BY DEF Status, validTransitions, Lifecycle!Status, Lifecycle!validTransitions
    <2>2. status \in [Banks -> Status \cup {"NONE"}] /\ onboardedAt \in [Banks -> Nat]
      BY InitInv, SessionAssumption DEF IInv, RowInv
    <2>3. \A b \in Banks : onboardedAt[b] # 0 <=> status[b] \in Lifecycle!Onboarded
      BY DEF Init, Lifecycle!Onboarded
    <2> QED BY <2>1, <2>2, <2>3 DEF Lifecycle!Init
  <1> QED BY <1>1, StepImplements, Invariance, PTL DEF Spec, ImplementsBankLifecycle, Lifecycle!Spec

\* No step but the restart of its replica takes a token away that has not
\* expired.
LEMMA StepKeepsTokens ==
  ASSUME SessionInv, [Next]_vars
  PROVE  [\A u \in Users : LET t == tokens[u] IN
            t # NoToken /\ now' < t.exp => tokens'[u] # NoToken \/ boots'[t.rep] # boots[t.rep]
         ]_sessionVars
  <1> USE SessionAssumption DEF SessionInv, SessionTypeOK
  <1> SUFFICES ASSUME NEW u \in Users, tokens[u] # NoToken, now' < tokens[u].exp,
                      ~UNCHANGED sessionVars
               PROVE  tokens'[u] # NoToken \/ boots'[tokens[u].rep] # boots[tokens[u].rep]
    OBVIOUS
  <1>1. tokens[u] \in Token /\ tokens[u].rep \in Replicas /\ tokens[u].exp \in Nat
    BY DEF Token
  <1>2. CASE \E n \in Replicas : RestartStore(n)
    <2>1. PICK n \in Replicas : RestartStore(n)
      BY <1>2
    <2>2. CASE u \in HeldBy(n)
      BY <1>1, <2>1, <2>2 DEF RestartStore, HeldBy
    <2>3. CASE u \notin HeldBy(n)
      BY <2>1, <2>3 DEF RestartStore, Drop
    <2> QED BY <2>2, <2>3
  <1>3. CASE \E v \in Users, n \in Replicas : Generate(n, v)
    <2>1. PICK v \in Users, n \in Replicas : Generate(n, v)
      BY <1>3
    <2>2. [rep |-> n, exp |-> now + TokenTTL].exp # NoToken.exp
      BY DEF NoToken
    <2> QED BY <2>1, <2>2 DEF Generate
  <1>4. CASE \E n \in Replicas : Cleanup(n)
    BY <1>1, <1>4 DEF Cleanup, Drop
  <1>5. CASE UNCHANGED tokens
    BY <1>5
  <1> QED BY <1>2, <1>3, <1>4, <1>5
          DEF Next, vars, SessionNext, Arrive, Handle, createBank, SelectForUpdate,
              UpdateBankStatus, ReRead, UpdateColumns, updateBankAPI, updateBankCallback,
              createCertificate, revokeCertificate, InsertAuditLog, RestartReplica,
              sessionVars, handleLogin, handleLogout, RestartAuth, Tick

\* The token a page holds is good at its replica until it expires or the
\* replica restarts.
THEOREM TokensLive == Spec => TokenLivesUntilExpiry
  <1>1. IInv /\ [Next]_vars =>
          [\A u \in Users : LET t == tokens[u] IN
             t # NoToken /\ now' < t.exp => tokens'[u] # NoToken \/ boots'[t.rep] # boots[t.rep]
          ]_sessionVars
    BY StepKeepsTokens DEF IInv
  <1> QED BY <1>1, Invariance, PTL DEF Spec, TokenLivesUntilExpiry

===========================================================================
