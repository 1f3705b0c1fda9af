--------------------------- MODULE BankLifecycle ---------------------------
(***************************************************************************)
(* What the portal promises about a participant bank: it is created once,  *)
(* moves along the onboarding path one allowed transition at a time, and   *)
(* the moment it first went into production stays on record.               *)
(***************************************************************************)
EXTENDS Naturals

CONSTANT Banks

VARIABLES status, onboardedAt, now

validTransitions ==
  [ APPLICATION       |-> {"SANDBOX"},
    SANDBOX           |-> {"CERTIFICATION"},
    CERTIFICATION     |-> {"PRODUCTION_ACTIVE"},
    PRODUCTION_ACTIVE |-> {"SUSPENDED"},
    SUSPENDED         |-> {"PRODUCTION_ACTIVE", "DECOMMISSIONED"},
    DECOMMISSIONED    |-> {} ]

Status    == DOMAIN validTransitions
Onboarded == {"PRODUCTION_ACTIVE", "SUSPENDED", "DECOMMISSIONED"}

\* A bank has been in production exactly when it has an onboarding date.
Init ==
  /\ status \in [Banks -> Status \cup {"NONE"}]
  /\ onboardedAt \in [Banks -> Nat]
  /\ \A b \in Banks : onboardedAt[b] # 0 <=> status[b] \in Onboarded

Create(b) ==
  /\ status[b] = "NONE"
  /\ status' = [status EXCEPT ![b] = "APPLICATION"]
  /\ UNCHANGED onboardedAt

Move(b, s) ==
  /\ status[b] \in Status /\ s \in validTransitions[status[b]]
  /\ status' = [status EXCEPT ![b] = s]
  /\ IF s = "PRODUCTION_ACTIVE" /\ onboardedAt[b] = 0
     THEN onboardedAt' = [onboardedAt EXCEPT ![b] = now]
     ELSE UNCHANGED onboardedAt

Next == \E b \in Banks : Create(b) \/ \E s \in Status : Move(b, s)

Spec == Init /\ [][Next]_<<status, onboardedAt>>
===========================================================================
