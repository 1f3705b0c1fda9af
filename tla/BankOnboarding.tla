-------------------------- MODULE BankOnboarding ---------------------------
(***************************************************************************)
(* The writing half of the portal: operators create banks, move them along *)
(* the onboarding path, configure them and manage their certificates. A    *)
(* request passes the reverse proxy and the middleware, changes a row, and *)
(* then, in a statement of its own whose error is dropped, writes the      *)
(* audit log. Requests run concurrently on the replicas of the portal API, *)
(* a statement may fail, and a replica may restart in the middle.          *)
(*                                                                         *)
(* A bank is named by its BIC and a certificate by its fingerprint, which  *)
(* are UNIQUE columns.                                                     *)
(***************************************************************************)
EXTENDS PortalSessions, Sequences

CONSTANTS
  Banks, Certs, Requests,
  NoBank, NoRequest,
  Role,           \* the role of a user
  ParticipantID,  \* the BIC a user of a bank belongs to
  InitialStatus,  \* what may be in the table at the start
  Registered      \* the bank of a certificate that may be there at the start, or NoBank

ASSUME OnboardingAssumption ==
  /\ NoBank \notin Banks /\ NoRequest \notin Requests
  /\ Role \in [Users -> {"SWITCH_ADMIN", "SWITCH_OPS", "BANK_ADMIN", "BANK_OPERATOR", "BANK_VIEWER"}]
  /\ ParticipantID \in [Users -> Banks \cup {NoBank}]
  /\ InitialStatus \subseteq {"NONE", "APPLICATION", "SANDBOX", "CERTIFICATION",
                          "PRODUCTION_ACTIVE", "SUSPENDED", "DECOMMISSIONED"}
  /\ Registered \in [Certs -> Banks \cup {NoBank}]

VARIABLES
  \* table bank
  status,       \* "NONE" while there is no row
  onboardedAt,  \* 0 for NULL
  config,       \* the requests that set the row's API columns and its callback_url
  lock,         \* the request that holds the row's lock
  \* table bank_certificate
  certStatus, certBank,
  \* table audit_log, oldest first
  audit,
  \* the requests
  pc,
  req,          \* what a request in the handlers asks for, and at which replica
  seen,         \* onboarded_at as SELECT ... FOR UPDATE has read it
  answer,       \* "declined" is 400, 401, 403 or 404, "failed" is 409 or 500
  \* history
  changed       \* the changes in the database: request, operation and its object

rowVars == <<status, onboardedAt, config, lock, certStatus, certBank>>
vars    == <<sessionVars, faults, rowVars, audit, pc, req, seen, answer, changed>>

validTransitions ==
  [ APPLICATION       |-> {"SANDBOX"},
    SANDBOX           |-> {"CERTIFICATION"},
    CERTIFICATION     |-> {"PRODUCTION_ACTIVE"},
    PRODUCTION_ACTIVE |-> {"SUSPENDED"},
    SUSPENDED         |-> {"PRODUCTION_ACTIVE", "DECOMMISSIONED"},
    DECOMMISSIONED    |-> {} ]

Status == DOMAIN validTransitions

\* The requests that change something, and the roles their routes ask for.
RequireRoles ==
  [ createBank         |-> {"SWITCH_ADMIN"},
    updateBankStatus   |-> {"SWITCH_ADMIN"},
    updateBankAPI      |-> {"SWITCH_ADMIN"},
    updateBankCallback |-> {"SWITCH_ADMIN", "BANK_ADMIN"},
    createCertificate  |-> {"SWITCH_ADMIN", "BANK_ADMIN"},
    revokeCertificate  |-> {"SWITCH_ADMIN", "BANK_ADMIN"} ]

Operations == DOMAIN RequireRoles
IsBankRole(u) == Role[u] \in {"BANK_ADMIN", "BANK_OPERATOR", "BANK_VIEWER"}

\* The object of a request: the new status of its bank, its certificate, or
\* nothing but its bank.
Objects(o) == CASE o = "updateBankStatus" -> Status
                [] o \in {"createCertificate", "revokeCertificate"} -> Certs
                [] OTHER -> {NoRequest}

Request    == UNION { [op : {o}, bank : Banks, obj : Objects(o), rep : Replicas] : o \in Operations }
Idle       == [op |-> "none"]
Finished   == {"done", "lost"}
InHandler  == {"admitted", "locked", "reread", "audit"}

TypeOK ==
  /\ SessionTypeOK
  /\ status \in [Banks -> Status \cup {"NONE"}] /\ onboardedAt \in [Banks -> 0..MaxTime]
  /\ config \in [Banks -> [api : Requests \cup {NoRequest}, callback : Requests \cup {NoRequest}]]
  /\ lock \in [Banks -> Requests \cup {NoRequest}]
  /\ \A b \in Banks, r \in Requests : lock[b] = r => pc[r] = "locked" /\ req[r].bank = b
  /\ certStatus \in [Certs -> {"NONE", "ACTIVE", "REVOKED"}]
  /\ certBank \in [Certs -> Banks \cup {NoBank}]
  /\ \A c \in Certs : certStatus[c] # "NONE" => certBank[c] \in Banks /\ status[certBank[c]] # "NONE"
  /\ audit \in Seq(Requests)
  /\ pc \in [Requests -> {"new"} \cup InHandler \cup Finished]
  /\ \A r \in Requests : req[r] \in IF pc[r] \in InHandler THEN Request ELSE {Idle}
  /\ seen \in [Requests -> 0..MaxTime]
  /\ answer \in [Requests -> {"none", "ok", "declined", "failed"}]
  /\ \A c \in changed : c.by \in Requests /\ c.op \in Operations /\ c.bank \in Banks

\* The portal starts over a database that earlier requests have filled.
Init ==
  /\ SessionInit
  /\ status \in [Banks -> InitialStatus]
  /\ onboardedAt = [b \in Banks |->
       IF status[b] \in {"PRODUCTION_ACTIVE", "SUSPENDED", "DECOMMISSIONED"} THEN 1 ELSE 0]
  /\ config = [b \in Banks |-> [api |-> NoRequest, callback |-> NoRequest]]
  /\ lock = [b \in Banks |-> NoRequest]
  /\ certBank = [c \in Certs |-> IF \E b \in Banks : b = Registered[c] /\ status[b] # "NONE"
                                 THEN Registered[c] ELSE NoBank]
  /\ certStatus = [c \in Certs |-> IF certBank[c] = NoBank THEN "NONE" ELSE "ACTIVE"]
  /\ audit = << >>
  /\ pc = [r \in Requests |-> "new"] /\ req = [r \in Requests |-> Idle]
  /\ seen = [r \in Requests |-> 0] /\ answer = [r \in Requests |-> "none"]
  /\ changed = {}

---------------------------------------------------------------------------
Goto(r, l) == pc' = [pc EXCEPT ![r] = l] /\ UNCHANGED <<req, answer>>

Answer(r, a) ==
  /\ pc' = [pc EXCEPT ![r] = "done"] /\ req' = [req EXCEPT ![r] = Idle]
  /\ answer' = [answer EXCEPT ![r] = a]

Changes(r) == changed' = changed \cup
  {[by |-> r, op |-> req[r].op, bank |-> req[r].bank, obj |-> req[r].obj]}

\* The change is made. It goes on the audit log next, unless the answer of the
\* database gets lost: then the operator is told of an error.
Changed(r, next) ==
  /\ Changes(r)
  /\ \/ NoFault /\ Goto(r, next)
     \/ Fault /\ Answer(r, "failed")

\* The statement finds no row to change, or fails on a constraint.
Declined(r, a) == NoFault /\ Answer(r, a) /\ UNCHANGED <<rowVars, changed>>

\* The statement fails before it has changed anything.
StatementFails(r) == Fault /\ Answer(r, "failed") /\ UNCHANGED <<rowVars, changed>>

(***************************************************************************)
(* A request passes the reverse proxy, which asks the auth service (401    *)
(* without a live session), and AuthMiddleware, CSRFMiddleware,            *)
(* bankScopeMiddleware and RequireRoles of a replica.                      *)
(***************************************************************************)
Scoped(u, q) == IsBankRole(u) /\ q.op # "createBank"

InScope(u, q) == Scoped(u, q) => status[q.bank] # "NONE" /\ q.bank = ParticipantID[u]

Admitted(u, q) ==
  /\ handleAuth(u) /\ Valid(q.rep, u)
  /\ InScope(u, q) /\ Role[u] \in RequireRoles[q.op]

\* The request of a user whose session is live gets to its handler, or it is
\* declined: 401, 403, 404 for a bank that is not there, or 400 for a body
\* that does not decode.
Arrive(r) ==
  /\ pc[r] = "new"
  /\ \/ \E u \in Users, q \in Request :
          /\ Admitted(u, q)
          /\ req' = [req EXCEPT ![r] = q] /\ pc' = [pc EXCEPT ![r] = "admitted"]
          /\ UNCHANGED answer
     \/ Answer(r, "declined")
  /\ UNCHANGED <<sessionVars, rowVars, audit, seen, changed, faults>>

At(r, o) == pc[r] = "admitted" /\ req[r].op = o

\* UNIQUE (bic).
CanInsert(b) == status[b] = "NONE"

createBank(r) ==
  LET b == req[r].bank IN
  /\ At(r, "createBank")
  /\ \/ /\ CanInsert(b) /\ Changed(r, "audit")
        /\ status' = [status EXCEPT ![b] = "APPLICATION"]
        /\ UNCHANGED <<onboardedAt, config, lock, certStatus, certBank>>
     \/ ~ CanInsert(b) /\ Declined(r, "failed")
     \/ StatementFails(r)
  /\ UNCHANGED <<sessionVars, audit, seen>>

\* Mutant: the row is read without FOR UPDATE.
RowFree_NoLock(b) == TRUE

\* A statement that writes the row, reads it FOR UPDATE or refers to it waits
\* for the transaction that has it locked.
RowFree(b) == lock[b] = NoRequest

\* UpdateBankStatus up to the check of the transition.
SelectForUpdate(r) ==
  LET b == req[r].bank
      allowed == IF status[b] = "NONE" THEN {} ELSE validTransitions[status[b]]
  IN
  /\ At(r, "updateBankStatus") /\ RowFree(b)
  /\ \/ /\ req[r].obj \in allowed
        /\ NoFault /\ Goto(r, "locked")
        /\ lock' = [lock EXCEPT ![b] = r]
        /\ seen' = [seen EXCEPT ![r] = onboardedAt[b]]
        /\ UNCHANGED <<status, onboardedAt, config, certStatus, certBank, changed>>
     \/ status[b] = "NONE" /\ Declined(r, "declined") /\ UNCHANGED seen
     \/ status[b] # "NONE" /\ req[r].obj \notin allowed /\ Declined(r, "failed") /\ UNCHANGED seen
     \/ StatementFails(r) /\ UNCHANGED seen
  /\ UNCHANGED <<sessionVars, audit>>

\* The UPDATE and the commit, or the rollback; both give up the lock.
UpdateBankStatus(r) ==
  LET b == req[r].bank IN
  /\ pc[r] = "locked"
  /\ lock' = [lock EXCEPT ![b] = NoRequest]
  /\ seen' = [seen EXCEPT ![r] = 0]
  /\ \/ /\ Changed(r, "reread")
        /\ status' = [status EXCEPT ![b] = req[r].obj]
        /\ onboardedAt' = IF req[r].obj = "PRODUCTION_ACTIVE" /\ seen[r] = 0
                          THEN [onboardedAt EXCEPT ![b] = now] ELSE onboardedAt
     \/ Fault /\ Answer(r, "failed") /\ UNCHANGED <<status, onboardedAt, changed>>
  /\ UNCHANGED <<sessionVars, config, certStatus, certBank, audit>>

\* GetBank after the commit: when it fails, the change is in the database,
\* the operator is told 409 and the audit log nothing.
ReRead(r) ==
  /\ pc[r] = "reread"
  /\ \/ NoFault /\ Goto(r, "audit")
     \/ Fault /\ Answer(r, "failed")
  /\ UNCHANGED <<sessionVars, rowVars, audit, seen, changed>>

\* One UPDATE of all columns of the group, those the body leaves out too.
UpdateColumns(r, group) ==
  LET b == req[r].bank IN
  /\ RowFree(b)
  /\ \/ /\ status[b] # "NONE" /\ Changed(r, "audit")
        /\ config' = [config EXCEPT ![b][group] = r]
        /\ UNCHANGED <<status, onboardedAt, lock, certStatus, certBank>>
     \/ status[b] = "NONE" /\ Declined(r, "declined")
     \/ StatementFails(r)
  /\ UNCHANGED <<sessionVars, audit, seen>>

updateBankAPI(r)      == At(r, "updateBankAPI") /\ UpdateColumns(r, "api")
updateBankCallback(r) == At(r, "updateBankCallback") /\ UpdateColumns(r, "callback")

\* The fingerprint is UNIQUE over all banks and the bank must exist.
CanRegister(c, b) == certStatus[c] = "NONE" /\ status[b] # "NONE"

createCertificate(r) ==
  LET b == req[r].bank  c == req[r].obj IN
  /\ At(r, "createCertificate")
  /\ \/ /\ CanRegister(c, b) /\ RowFree(b)
        /\ Changed(r, "audit")
        /\ certStatus' = [certStatus EXCEPT ![c] = "ACTIVE"]
        /\ certBank' = [certBank EXCEPT ![c] = b]
        /\ UNCHANGED <<status, onboardedAt, config, lock>>
     \/ ~ CanRegister(c, b) /\ Declined(r, "failed")
     \/ StatementFails(r)
  /\ UNCHANGED <<sessionVars, audit, seen>>

\* Mutant: a certificate that is revoked already is revoked again.
CanRevoke_Twice(c, b) == certBank[c] = b

CanRevoke(c, b) == certBank[c] = b /\ certStatus[c] = "ACTIVE"

revokeCertificate(r) ==
  LET b == req[r].bank  c == req[r].obj IN
  /\ At(r, "revokeCertificate")
  /\ \/ /\ CanRevoke(c, b) /\ Changed(r, "audit")
        /\ certStatus' = [certStatus EXCEPT ![c] = "REVOKED"]
        /\ UNCHANGED <<status, onboardedAt, config, lock, certBank>>
     \/ ~ CanRevoke(c, b) /\ Declined(r, "declined")
     \/ StatementFails(r)
  /\ UNCHANGED <<sessionVars, audit, seen>>

\* Mutant: the entry is not written.
InsertAuditLog_Skipped(r) ==
  /\ pc[r] = "audit"
  /\ UNCHANGED audit /\ NoFault /\ Answer(r, "ok")
  /\ UNCHANGED <<sessionVars, rowVars, seen, changed>>

\* The error of the insert is dropped: the operator is answered either way.
InsertAuditLog(r) ==
  /\ pc[r] = "audit"
  /\ \/ audit' = Append(audit, r) /\ NoFault
     \/ UNCHANGED audit /\ Fault
  /\ Answer(r, "ok")
  /\ UNCHANGED <<sessionVars, rowVars, seen, changed>>

\* A page of the log, newest first.
ListAuditLog(page, pageSize) ==
  { audit[i] : i \in { i \in 1..Len(audit) : 1 + (Len(audit) - i) \div pageSize = page } }

Killed(n) == { r \in Requests : pc[r] \in InHandler /\ req[r].rep = n }

\* Mutant: the transactions of a dead replica stay open.
RestartReplica_KeepsLocks(n) ==
  /\ RestartStore(n)
  /\ pc' = [r \in Requests |-> IF r \in Killed(n) THEN "lost" ELSE pc[r]]
  /\ req' = [r \in Requests |-> IF r \in Killed(n) THEN Idle ELSE req[r]]
  /\ UNCHANGED <<status, onboardedAt, config, lock, certStatus, certBank, audit, seen, answer,
                 changed>>

\* A replica restarts: its requests die where they are, and Postgres rolls
\* their transactions back.
RestartReplica(n) ==
  /\ RestartStore(n)
  /\ pc' = [r \in Requests |-> IF r \in Killed(n) THEN "lost" ELSE pc[r]]
  /\ req' = [r \in Requests |-> IF r \in Killed(n) THEN Idle ELSE req[r]]
  /\ seen' = [r \in Requests |-> IF r \in Killed(n) THEN 0 ELSE seen[r]]
  /\ lock' = [b \in Banks |-> IF lock[b] \in Killed(n) THEN NoRequest ELSE lock[b]]
  /\ UNCHANGED <<status, onboardedAt, config, certStatus, certBank, audit, answer, changed>>

Handle(r) ==
  \/ createBank(r) \/ SelectForUpdate(r) \/ UpdateBankStatus(r) \/ ReRead(r)
  \/ updateBankAPI(r) \/ updateBankCallback(r) \/ createCertificate(r) \/ revokeCertificate(r)
  \/ InsertAuditLog(r)

Next ==
  \/ \E r \in Requests : Arrive(r) \/ Handle(r)
  \/ \E n \in Replicas : RestartReplica(n)
  \/ /\ SessionNext
     /\ UNCHANGED <<rowVars, audit, pc, req, seen, answer, changed>>

\* The Go runtime runs every handler on, and Postgres grants a row lock to
\* one of those who wait for it.
Spec == Init /\ [][Next]_vars /\ \A r \in Requests : WF_vars(Handle(r))

---------------------------------------------------------------------------
(***************************************************************************)
(* Properties.                                                             *)
(***************************************************************************)
Lifecycle == INSTANCE BankLifecycle

\* Concurrent operators move a bank only along the onboarding path, and the
\* date of its first activation is never lost or replaced: the lock taken by
\* SELECT ... FOR UPDATE makes the check of UpdateBankStatus good until its
\* commit. This is the abstract specification BankLifecycle.
ImplementsBankLifecycle == Lifecycle!Spec

\* What someone finds who turns the pages of the log.
Audited  == UNION { ListAuditLog(page, 1) : page \in 1..Len(audit) }
Changers == { c.by : c \in changed }

\* The audit log and the answers tell no tales: an entry is of a change that
\* is in the database and stands there once, an operator who was told "ok"
\* made a change, one whose request was declined made none, and a
\* change is missing from the log only after a failed statement or a restart.
AuditMatchesChanges ==
  /\ Audited \subseteq Changers
  /\ \A i, j \in 1..Len(audit) : audit[i] = audit[j] => i = j
  /\ \A r \in Requests : answer[r] = "ok" => r \in Changers
  /\ \A r \in Requests : answer[r] = "declined" => r \notin Changers
  /\ \A r \in Changers \ Audited : pc[r] \in Finished => faults > 0

\* Of the requests that create one bank, register one certificate or revoke
\* one, at most one succeeds however they race on the replicas.
OneWinner ==
  \A c, d \in changed :
    c.by # d.by /\ c.op = d.op =>
      /\ c.op = "createBank" => c.bank # d.bank
      /\ c.op \in {"createCertificate", "revokeCertificate"} => c.obj # d.obj

\* Every request that is admitted is answered or dies with its replica: no
\* operator waits for ever for the row another one has locked.
RequestEnds == \A r \in Requests : pc[r] = "admitted" ~> pc[r] \in Finished

===========================================================================
