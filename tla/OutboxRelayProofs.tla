------------------------- MODULE OutboxRelayProofs ------------------------
(***************************************************************************)
(* Theorems about OutboxRelay for every set of events, every set of relays,*)
(* every batch limit and every number of faults.                           *)
(***************************************************************************)
EXTENDS OutboxRelay, FoldTheorems, SequenceTheorems

---------------------------------------------------------------------------
(***************************************************************************)
(* The inductive invariant.                                                *)
(***************************************************************************)

\* What a relay holds is PENDING until its transaction ends, a row is either
\* to be published or published, and no two relays hold the same row.
LockInv ==
  /\ \A r \in Relays : todo[r] \cap ids[r] = {} /\ \A e \in Holds(r) : row[e] = "PENDING"
  /\ \A r, q \in Relays : r # q => Holds(r) \cap Holds(q) = {}

\* Rows some relay has published in a transaction that is still open.
Unmarked == UNION { ids[r] : r \in Relays }

\* What is marked, or about to be, is in the log.
PublishInv == \A e \in Events : row[e] = "PUBLISHED" \/ e \in Unmarked => Occurrences(e) >= 1

\* Each fault explains one message; the last publication explains one more.
DupInv ==
  \A e \in Events :
    /\ row[e] \in {"none", "open", "gone"} => Occurrences(e) = 0
    /\ row[e] = "PENDING" /\ e \notin Unmarked => Occurrences(e) <= faults
    /\ Occurrences(e) <= 1 + faults

\* Only committed rows are in the log and in the audit log.
CommittedRows == { e \in Events : row[e] \in {"PENDING", "PUBLISHED"} }

LogInv ==
  /\ \A i \in 1..Len(log) : log[i] \in CommittedRows
  /\ handled \subseteq CommittedRows

\* What the consumer has passed is handled.
PassedInv == \A i \in 1..(position - 1) : log[i] \in handled

IInv == TypeOK /\ LockInv /\ PublishInv /\ DupInv /\ LogInv /\ PassedInv

---------------------------------------------------------------------------
(***************************************************************************)
(* Facts about the operators.                                              *)
(***************************************************************************)

\* The number of messages of an event is a number.
LEMMA OccurrencesType ==
  ASSUME log \in Seq(Events), NEW e
  PROVE  Occurrences(e) \in Nat
  <1> DEFINE P == { i \in DOMAIN log : log[i] = e }
  <1>1. DOMAIN log = 1..Len(log) /\ Len(log) \in Nat
    BY LenProperties
  <1>2. IsFiniteSet(1..Len(log))
    BY <1>1, FS_Interval
  <1>3. IsFiniteSet(P)
    BY <1>1, <1>2, FS_Subset
  <1> QED BY <1>3, FS_CardinalityType DEF Occurrences

\* A message more of one event is no message more of another.
LEMMA OccurrencesOfAppend ==
  ASSUME log \in Seq(Events), NEW d \in Events, log' = Append(log, d)
  PROVE  /\ Occurrences(d)' = Occurrences(d) + 1
         /\ \A e \in Events : e # d => Occurrences(e)' = Occurrences(e)
  <1> DEFINE P(e) == { i \in DOMAIN log : log[i] = e }
             Q(e) == { i \in DOMAIN log' : log'[i] = e }
             n == Len(log)
  <1>1. DOMAIN log = 1..n /\ n \in Nat
    BY LenProperties
  <1>2. DOMAIN log' = 1..(n + 1) /\ log'[n + 1] = d /\ \A i \in 1..n : log'[i] = log[i]
    BY <1>1, AppendProperties, LenProperties
  <1>3. IsFiniteSet(P(d)) /\ n + 1 \notin P(d)
    <2>1. IsFiniteSet(1..n)
      BY <1>1, FS_Interval
    <2>2. P(d) \subseteq 1..n
      BY <1>1
    <2>3. n + 1 \notin 1..n
      BY <1>1
    <2> QED BY <2>1, <2>2, <2>3, FS_Subset
  <1>4. Q(d) = P(d) \cup {n + 1}
    BY <1>1, <1>2
  <1>5. Cardinality(Q(d)) = Cardinality(P(d)) + 1
    BY <1>3, <1>4, FS_AddElement
  <1>6. ASSUME NEW e \in Events, e # d PROVE Q(e) = P(e)
    BY <1>1, <1>2, <1>6
  <1> QED BY <1>5, <1>6 DEF Occurrences

\* An empty log holds no message.
LEMMA OccurrencesOfEmpty ==
  ASSUME log = <<>>, NEW e
  PROVE  Occurrences(e) = 0
  <1>1. { i \in DOMAIN log : log[i] = e } = {}
    OBVIOUS
  <1> QED BY <1>1, FS_EmptySet DEF Occurrences

---------------------------------------------------------------------------
(***************************************************************************)
(* Every action keeps the invariant.                                       *)
(***************************************************************************)
LEMMA InitInv == Init => IInv
  <1> SUFFICES ASSUME Init PROVE IInv
    OBVIOUS
  <1> USE OutboxAssumption DEF Init
  <1>1. TypeOK
    BY DEF TypeOK
  <1>2. LockInv
    BY DEF LockInv, Holds
  <1>3. \A e \in Events : Occurrences(e) = 0
    BY OccurrencesOfEmpty
  <1>4. PublishInv
    BY DEF PublishInv, Unmarked
  <1>5. DupInv
    BY <1>3 DEF DupInv
  <1>6. LogInv
    BY DEF LogInv
  <1>7. PassedInv
    BY DEF PassedInv
  <1> QED BY <1>1, <1>2, <1>4, <1>5, <1>6, <1>7 DEF IInv

\* A status transaction touches one row that nobody holds and no message is of.
LEMMA WriteKeeps ==
  ASSUME IInv, NEW e \in Events, Write(e) \/ CommitWrite(e) \/ RollbackWrite(e)
  PROVE  IInv'
  <1> USE OutboxAssumption DEF IInv, TypeOK, Write, CommitWrite, RollbackWrite, relayVars, consumerVars
  <1>1. PICK s \in {"open", "PENDING", "gone"} :
           /\ row' = [row EXCEPT ![e] = s] /\ row[e] \in {"none", "open"}
    OBVIOUS
  <1>2. UNCHANGED <<todo, ids, log, consuming, position, committed, handled, faults>>
    OBVIOUS
  <1>3. TypeOK'
    BY <1>1, <1>2
  <1>4. LockInv'
    BY <1>1, <1>2 DEF LockInv, Holds
  <1>5. \A d \in Events : Occurrences(d)' = Occurrences(d) /\ Occurrences(d) \in Nat
    BY <1>2, OccurrencesType DEF Occurrences
  <1>6. Unmarked' = Unmarked
    BY <1>2 DEF Unmarked
  <1>7. PublishInv'
    BY <1>1, <1>5, <1>6 DEF PublishInv
  <1>8. DupInv'
    BY <1>1, <1>2, <1>5, <1>6 DEF DupInv
  <1>9. CommittedRows \subseteq CommittedRows'
    BY <1>1 DEF CommittedRows
  <1>10. LogInv'
    BY <1>2, <1>9 DEF LogInv
  <1>11. PassedInv'
    BY <1>2 DEF PassedInv
  <1> QED BY <1>3, <1>4, <1>7, <1>8, <1>10, <1>11

\* The query locks rows that are PENDING and that no other relay holds.
LEMMA SelectKeeps ==
  ASSUME IInv, NEW r \in Relays, Select(r)
  PROVE  IInv'
  <1> USE OutboxAssumption DEF IInv, TypeOK, Select, consumerVars
  <1>1. PICK B \in SUBSET Available : todo' = [todo EXCEPT ![r] = B]
    OBVIOUS
  <1>2. UNCHANGED <<row, ids, log, consuming, position, committed, handled, faults>>
    OBVIOUS
  <1>3. B \subseteq Events /\ \A e \in B : row[e] = "PENDING" /\ \A q \in Relays : e \notin Holds(q)
    BY <1>1 DEF Available, Locked
  <1>4. TypeOK'
    BY <1>1, <1>2, <1>3
  <1>5. Holds(r)' = B /\ todo'[r] = B /\ ids'[r] = {}
    BY <1>1, <1>2, <1>3 DEF Holds
  <1>6. ASSUME NEW q \in Relays, q # r
        PROVE  Holds(q)' = Holds(q) /\ todo'[q] = todo[q] /\ ids'[q] = ids[q]
    BY <1>1, <1>2, <1>6 DEF Holds
  <1>7. LockInv'
    <2>1. ASSUME NEW q \in Relays
          PROVE  todo'[q] \cap ids'[q] = {} /\ \A e \in Holds(q)' : row'[e] = "PENDING"
      <3>1. CASE q = r
        BY <1>2, <1>3, <1>5, <3>1
      <3>2. CASE q # r
        BY <1>2, <1>6, <3>2 DEF LockInv
      <3> QED BY <3>1, <3>2
    <2>2. \A q \in Relays : q # r => B \cap Holds(q) = {}
      BY <1>3
    <2>3. ASSUME NEW q \in Relays, NEW p \in Relays, q # p
          PROVE  (Holds(q) \cap Holds(p) = {})'
      BY <1>5, <1>6, <2>2, <2>3 DEF LockInv
    <2> QED BY <2>1, <2>3 DEF LockInv
  <1>8. PublishInv' /\ DupInv'
    BY <1>2 DEF PublishInv, DupInv, Unmarked, Occurrences
  <1>9. LogInv' /\ PassedInv'
    BY <1>2 DEF LogInv, PassedInv, CommittedRows
  <1> QED BY <1>4, <1>7, <1>8, <1>9

\* A relay that abandons its batch only gives up rows.
LEMMA AbandonFacts ==
  ASSUME TypeOK, LockInv, NEW r \in Relays, Abandon(r)
  PROVE  /\ todo' \in [Relays -> SUBSET Events] /\ ids' \in [Relays -> SUBSET Events]
         /\ Holds(r)' = {} /\ ids'[r] = {} /\ todo'[r] = {}
         /\ \A q \in Relays : q # r => /\ Holds(q)' = Holds(q)
                                       /\ todo'[q] = todo[q] /\ ids'[q] = ids[q]
         /\ Unmarked' = Unmarked \ ids[r]
  <1> USE DEF TypeOK, Abandon
  <1>1. todo' \in [Relays -> SUBSET Events] /\ ids' \in [Relays -> SUBSET Events]
    OBVIOUS
  <1>2. Holds(r)' = {} /\ ids'[r] = {} /\ todo'[r] = {}
    BY DEF Holds
  <1>3. \A q \in Relays : q # r => /\ Holds(q)' = Holds(q)
                                   /\ todo'[q] = todo[q] /\ ids'[q] = ids[q]
    BY DEF Holds
  <1>4. \A q \in Relays : q # r => ids[q] \cap ids[r] = {}
    BY DEF LockInv, Holds
  <1>5. Unmarked' = Unmarked \ ids[r]
    BY <1>2, <1>3, <1>4 DEF Unmarked
  <1> QED BY <1>1, <1>2, <1>3, <1>5

\* The broker takes the next row's message.
LEMMA PublishOneKeeps ==
  ASSUME IInv, NEW r \in Relays, todo[r] # {}, UNCHANGED <<row, consumerVars, faults>>,
         log' = Append(log, Min(todo[r])),
         todo' = [todo EXCEPT ![r] = @ \ {Min(@)}],
         ids' = [ids EXCEPT ![r] = @ \cup {Min(todo[r])}]
  PROVE  IInv'
  <1> USE OutboxAssumption DEF IInv, TypeOK, consumerVars
  <1>1. PICK m \in Events : m = Min(todo[r]) /\ m \in todo[r]
    BY MinIn
  <1>2. /\ log' = Append(log, m)
        /\ todo' = [todo EXCEPT ![r] = todo[r] \ {m}] /\ ids' = [ids EXCEPT ![r] = ids[r] \cup {m}]
    BY <1>1
  <1>3. row[m] = "PENDING" /\ m \notin ids[r]
    BY <1>1 DEF LockInv, Holds
  <1>4. m \notin Unmarked
    <2>1. \A q \in Relays : q # r => m \notin ids[q]
      BY <1>1 DEF LockInv, Holds
    <2> QED BY <2>1, <1>3 DEF Unmarked
  <1>5. /\ log' \in Seq(Events) /\ Len(log') = Len(log) + 1 /\ log'[Len(log) + 1] = m
        /\ \A i \in 1..Len(log) : log'[i] = log[i]
    BY <1>1, <1>2, AppendProperties
  <1>6. Len(log) \in Nat
    BY LenProperties
  <1>7. TypeOK'
    BY <1>1, <1>2, <1>5, <1>6
  <1>8. LockInv'
    <2>1. /\ todo'[r] = todo[r] \ {m} /\ ids'[r] = ids[r] \cup {m}
          /\ \A q \in Relays : q # r => todo'[q] = todo[q] /\ ids'[q] = ids[q]
      BY <1>2
    <2>2. \A q \in Relays : Holds(q)' = Holds(q)
      BY <1>1, <2>1 DEF Holds
    <2>3. \A q \in Relays : todo'[q] \cap ids'[q] = {}
      BY <2>1 DEF LockInv
    <2> QED BY <2>2, <2>3 DEF LockInv
  <1>9. Unmarked' = Unmarked \cup {m}
    BY <1>2 DEF Unmarked
  <1>10. /\ Occurrences(m)' = Occurrences(m) + 1
         /\ \A e \in Events : e # m => Occurrences(e)' = Occurrences(e)
    BY <1>1, <1>2, OccurrencesOfAppend
  <1>11. \A e \in Events : Occurrences(e) \in Nat
    BY OccurrencesType
  <1>12. PublishInv'
    BY <1>9, <1>10, <1>11 DEF PublishInv
  <1>13. DupInv'
    BY <1>3, <1>4, <1>9, <1>10, <1>11 DEF DupInv
  <1>14. LogInv'
    BY <1>1, <1>3, <1>5, <1>6 DEF LogInv, CommittedRows
  <1>15. PassedInv'
    BY <1>5, <1>6 DEF PassedInv
  <1> QED BY <1>7, <1>8, <1>12, <1>13, <1>14, <1>15

\* Publish fails, with or without the message at the broker, and the batch is
\* rolled back: a fault pays for each message that is left unmarked.
LEMMA PublishFailsKeeps ==
  ASSUME IInv, NEW r \in Relays, todo[r] # {}, UNCHANGED <<row, consumerVars>>,
         Fault, Abandon(r), log' \in {log, Append(log, Min(todo[r]))}
  PROVE  IInv'
  <1> USE OutboxAssumption DEF IInv, TypeOK, consumerVars, Fault
  <1>1. PICK m \in Events : m = Min(todo[r]) /\ m \in todo[r]
    BY MinIn
  <1>2. log' = log \/ log' = Append(log, m)
    BY <1>1
  <1>3. row[m] = "PENDING" /\ m \notin Unmarked
    <2>1. \A q \in Relays : m \notin ids[q]
      BY <1>1 DEF LockInv, Holds
    <2>2. row[m] = "PENDING"
      BY <1>1 DEF LockInv, Holds
    <2> QED BY <2>1, <2>2 DEF Unmarked
  <1>4. /\ log' \in Seq(Events) /\ Len(log') \in {Len(log), Len(log) + 1} /\ Len(log) \in Nat
        /\ \A i \in 1..Len(log) : log'[i] = log[i]
        /\ Len(log') = Len(log) + 1 => log'[Len(log) + 1] = m
    <2>1. Len(log) \in Nat
      BY LenProperties
    <2>2. CASE log' = log
      BY <2>1, <2>2
    <2>3. CASE log' = Append(log, m)
      BY <1>1, <2>1, <2>3, AppendProperties
    <2> QED BY <1>2, <2>1, <2>2, <2>3
  <1>5. TypeOK'
    BY <1>4, AbandonFacts
  <1>6. LockInv'
    BY AbandonFacts DEF LockInv
  <1>7. \A e \in Events : Occurrences(e) \in Nat
    BY OccurrencesType
  <1>8. \A e \in Events : /\ e # m => Occurrences(e)' = Occurrences(e)
                          /\ Occurrences(e)' \in {Occurrences(e), Occurrences(e) + 1}
    <2>1. CASE log' = log
      BY <2>1 DEF Occurrences
    <2>2. CASE log' = Append(log, m)
      BY <1>1, <2>2, OccurrencesOfAppend
    <2> QED BY <1>2, <2>1, <2>2
  <1>9. Unmarked' = Unmarked \ ids[r] /\ \A e \in ids[r] : row[e] = "PENDING"
    BY AbandonFacts DEF LockInv, Holds
  <1>10. PublishInv'
    BY <1>7, <1>8, <1>9 DEF PublishInv
  <1>11. DupInv'
    BY <1>3, <1>7, <1>8, <1>9 DEF DupInv
  <1>12. LogInv'
    <2>1. CommittedRows' = CommittedRows /\ handled' = handled /\ m \in CommittedRows
      BY <1>1, <1>3 DEF CommittedRows
    <2>2. \A i \in 1..Len(log') : i \in 1..Len(log) \/ (i = Len(log) + 1 /\ Len(log') = i)
      BY <1>4
    <2> QED BY <1>4, <2>1, <2>2 DEF LogInv
  <1>13. PassedInv'
    BY <1>4 DEF PassedInv
  <1> QED BY <1>5, <1>6, <1>10, <1>11, <1>12, <1>13

\* One Publish of a relay: the event is in the log, or an error ends the batch.
LEMMA PublishKeeps ==
  ASSUME IInv, NEW r \in Relays, Publish(r)
  PROVE  IInv'
  BY PublishOneKeeps, PublishFailsKeeps DEF Publish, consumerVars

\* The batch is marked and committed, or it is rolled back at the price of a
\* fault.
LEMMA MarkKeeps ==
  ASSUME IInv, NEW r \in Relays, MarkPublished(r)
  PROVE  IInv'
  <1> DEFINE marked == [e \in Events |-> IF e \in ids[r] THEN "PUBLISHED" ELSE row[e]]
  <1> USE OutboxAssumption DEF IInv, TypeOK, MarkPublished, consumerVars, Fault
  <1>1. UNCHANGED <<log, consuming, position, committed, handled>>
    OBVIOUS
  <1>2. \/ row' = marked /\ faults' \in {faults, faults + 1}
        \/ row' = row /\ faults' = faults + 1
    OBVIOUS
  <1>3. \A e \in ids[r] : row[e] = "PENDING" /\ e \in Unmarked
    BY DEF LockInv, Holds, Unmarked
  <1>4. /\ row' \in [Events -> {"none", "open", "gone", "PENDING", "PUBLISHED"}]
        /\ \A e \in Events : e \notin ids[r] => row'[e] = row[e]
        /\ \A e \in ids[r] : row'[e] = "PUBLISHED" \/ (row'[e] = "PENDING" /\ faults' = faults + 1)
    <2>1. CASE row' = marked
      BY <2>1
    <2>2. CASE row' = row /\ faults' = faults + 1
      BY <1>3, <2>2
    <2> QED BY <1>2, <2>1, <2>2
  <1>5. TypeOK'
    BY <1>1, <1>4, AbandonFacts
  <1>6. LockInv'
    <2>1. \A q \in Relays : q # r => Holds(q) \cap ids[r] = {} /\ Holds(q) \subseteq Events
      BY DEF LockInv, Holds
    <2>2. ASSUME NEW q \in Relays PROVE \A e \in Holds(q)' : row'[e] = "PENDING"
      <3>1. CASE q = r
        BY <3>1, AbandonFacts
      <3>2. CASE q # r
        <4>1. Holds(q)' = Holds(q)
          BY <3>2, AbandonFacts
        <4> QED BY <1>4, <2>1, <3>2, <4>1 DEF LockInv
      <3> QED BY <3>1, <3>2
    <2> QED BY <2>2, AbandonFacts DEF LockInv
  <1>7. \A e \in Events : Occurrences(e)' = Occurrences(e) /\ Occurrences(e) \in Nat
    BY <1>1, OccurrencesType DEF Occurrences
  <1>8. Unmarked' = Unmarked \ ids[r]
    BY AbandonFacts
  <1>9. PublishInv'
    BY <1>3, <1>4, <1>7, <1>8 DEF PublishInv
  <1>10. DupInv'
    BY <1>2, <1>3, <1>4, <1>7, <1>8 DEF DupInv
  <1>11. CommittedRows' = CommittedRows
    BY <1>3, <1>4 DEF CommittedRows
  <1>12. LogInv' /\ PassedInv'
    BY <1>1, <1>11 DEF LogInv, PassedInv
  <1> QED BY <1>5, <1>6, <1>9, <1>10, <1>12

\* Postgres rolls back the transaction of a gateway that died.
LEMMA CrashKeeps ==
  ASSUME IInv, NEW r \in Relays, RelayCrash(r)
  PROVE  IInv'
  <1> USE OutboxAssumption DEF IInv, TypeOK, RelayCrash, consumerVars, Fault
  <1>1. UNCHANGED <<row, log, consuming, position, committed, handled>> /\ faults' = faults + 1
    OBVIOUS
  <1>2. TypeOK'
    BY <1>1, AbandonFacts
  <1>3. LockInv'
    BY <1>1, AbandonFacts DEF LockInv
  <1>4. \A e \in Events : Occurrences(e)' = Occurrences(e) /\ Occurrences(e) \in Nat
    BY <1>1, OccurrencesType DEF Occurrences
  <1>5. Unmarked' = Unmarked \ ids[r]
    BY AbandonFacts
  <1>6. PublishInv' /\ DupInv'
    BY <1>1, <1>4, <1>5 DEF PublishInv, DupInv
  <1>7. LogInv' /\ PassedInv'
    BY <1>1 DEF LogInv, PassedInv, CommittedRows
  <1> QED BY <1>2, <1>3, <1>6, <1>7

\* The consumer moves on only past what it has handled, and back no further
\* than what it has committed.
LEMMA ConsumerKeeps ==
  ASSUME IInv, Handle \/ CommitMessages \/ ConsumerRestart
  PROVE  IInv'
  <1> USE OutboxAssumption DEF IInv, TypeOK, relayVars
  <1>1. UNCHANGED <<row, todo, ids, log>>
    BY DEF Handle, CommitMessages, ConsumerRestart
  <1>2. faults' \in {faults, faults + 1} /\ faults' \in 0..MaxFaults
    BY DEF Handle, CommitMessages, ConsumerRestart, Fault
  <1>3. Len(log) \in Nat /\ \A i \in 1..Len(log) : log[i] \in Events
    BY LenProperties, ElementOfSeq
  <1>4. Handle => /\ position <= Len(log) /\ committed = position - 1
                  /\ committed' = committed
                  /\ \/ position' = position + 1 /\ handled' = handled \cup {log[position]}
                     \/ position' = position /\ handled' = handled
    BY Zenon DEF Handle
  <1>5. CommitMessages => /\ committed' \in {committed, position - 1}
                          /\ UNCHANGED <<position, handled>>
    BY Zenon DEF CommitMessages
  <1>6. ConsumerRestart => UNCHANGED <<committed, handled>> /\ position' = committed + 1
    BY Zenon DEF ConsumerRestart
  <1>7. handled' = handled \/ \E i \in 1..Len(log) : handled' = handled \cup {log[i]}
    <2>1. CASE Handle
      <3>1. position <= Len(log) => position \in 1..Len(log)
        BY <1>3
      <3> QED BY <1>4, <2>1, <3>1
    <2> QED BY <1>5, <1>6, <2>1
  <1>8. TypeOK'
    <2>1. consuming' \in BOOLEAN
      BY DEF Handle, CommitMessages, ConsumerRestart
    <2>2. position' \in 1..(Len(log) + 1) /\ committed' \in 0..(position' - 1)
      BY <1>3, <1>4, <1>5, <1>6
    <2>3. handled' \subseteq Events
      <3>1. \A i \in 1..Len(log) : handled \cup {log[i]} \subseteq Events
        BY <1>3
      <3> QED BY <1>7, <3>1, Zenon
    <2> QED BY <1>1, <1>2, <2>1, <2>2, <2>3
  <1>9. LockInv'
    BY <1>1 DEF LockInv, Holds
  <1>10. \A e \in Events : Occurrences(e)' = Occurrences(e) /\ Occurrences(e) \in Nat
    BY <1>1, OccurrencesType DEF Occurrences
  <1>11. Unmarked' = Unmarked
    BY <1>1 DEF Unmarked
  <1>12. PublishInv' /\ DupInv'
    BY <1>1, <1>2, <1>10, <1>11 DEF PublishInv, DupInv
  <1>13. LogInv'
    <2>1. handled' \subseteq CommittedRows
      <3>1. handled \subseteq CommittedRows
        BY DEF LogInv
      <3>2. \A i \in 1..Len(log) : handled \cup {log[i]} \subseteq CommittedRows
        BY <3>1, Zenon DEF LogInv
      <3> QED BY <1>7, <3>1, <3>2, Zenon
    <2> QED BY <1>1, <2>1 DEF LogInv, CommittedRows
  <1>14. PassedInv'
    BY <1>1, <1>3, <1>4, <1>5, <1>6 DEF PassedInv
  <1> QED BY <1>8, <1>9, <1>12, <1>13, <1>14

\* Every step of relays, bus and consumers keeps the invariant.
LEMMA StepInv == IInv /\ [Next]_vars => IInv'
  <1> SUFFICES ASSUME IInv, [Next]_vars PROVE IInv'
    OBVIOUS
  <1>1. CASE UNCHANGED vars
    BY <1>1 DEF IInv, TypeOK, LockInv, PublishInv, DupInv, LogInv, PassedInv, Holds, Unmarked,
                CommittedRows, Occurrences, vars, relayVars, consumerVars
  <1>2. CASE Next
    BY <1>2, WriteKeeps, SelectKeeps, PublishKeeps, MarkKeeps, CrashKeeps, ConsumerKeeps
       DEF Next, RelayStep
  <1> QED BY <1>1, <1>2

\* The invariant holds of every behaviour.
THEOREM Invariance == Spec => []IInv
  <1> QED BY InitInv, StepInv, PTL DEF Spec

---------------------------------------------------------------------------
(***************************************************************************)
(* What the runs check on a small instance.                                *)
(***************************************************************************)

\* The state of outbox, relays, partition and consumer stays in its types: no
\* offset passes the end of the log or what the consumer has fetched.
THEOREM TypeCorrect == Spec => []TypeOK
  <1> QED BY Invariance, PTL DEF IInv

\* flushBatch marks a row PUBLISHED only when the broker has its message,
\* whatever errors, lost acknowledgements and crashes come between.
THEOREM NoEventLost == Spec => []PublishedIsInLog
  <1>1. IInv => PublishedIsInLog
    BY DEF IInv, PublishInv, PublishedIsInLog
  <1> QED BY <1>1, Invariance, PTL

\* FOR UPDATE SKIP LOCKED keeps any number of relays apart: a message is
\* repeated at most once for each fault.
THEOREM DuplicatesBounded == Spec => []DuplicatesNeedFaults
  <1>1. IInv => DuplicatesNeedFaults
    BY DEF IInv, DupInv, DuplicatesNeedFaults
  <1> QED BY <1>1, Invariance, PTL

\* Consume commits an offset only after the handler has run, so a restart of
\* audit-service skips nothing.
THEOREM CommittedHandled == Spec => []CommittedIsHandled
  <1>1. IInv => CommittedIsHandled
    BY DEF IInv, TypeOK, PassedInv, CommittedIsHandled
  <1> QED BY <1>1, Invariance, PTL

\* Every step of outbox, relays and consumer is a step of EventDelivery or
\* leaves what it speaks of alone.
LEMMA StepImplements ==
  IInv /\ [Next]_vars => [Delivery!Next]_<<CommittedRows, handled>>
  <1> SUFFICES ASSUME IInv, [Next]_vars
               PROVE  [Delivery!Next]_<<CommittedRows, handled>>
    OBVIOUS
  <1> USE DEF IInv, TypeOK
  <1>1. ASSUME NEW e \in Events, CommitWrite(e)
        PROVE  Delivery!Write(e)
    <2>1. CommittedRows' = CommittedRows \cup {e} /\ e \notin CommittedRows
      BY <1>1 DEF CommitWrite, CommittedRows
    <2>2. handled' = handled
      BY <1>1 DEF CommitWrite, consumerVars
    <2> QED BY <2>1, <2>2 DEF Delivery!Write, CommittedRows
  <1>2. ASSUME NEW e \in Events, Write(e) \/ RollbackWrite(e)
        PROVE  UNCHANGED <<CommittedRows, handled>>
    BY <1>2 DEF Write, RollbackWrite, CommittedRows, consumerVars
  <1>3. ASSUME NEW r \in Relays, Select(r) \/ Publish(r) \/ RelayCrash(r)
        PROVE  UNCHANGED <<CommittedRows, handled>>
    BY <1>3 DEF Select, Publish, RelayCrash, CommittedRows, consumerVars
  <1>4. ASSUME NEW r \in Relays, MarkPublished(r)
        PROVE  UNCHANGED <<CommittedRows, handled>>
    <2>1. \A e \in ids[r] : row[e] = "PENDING"
      BY DEF LockInv, Holds
    <2>2. handled' = handled
      BY <1>4 DEF MarkPublished, consumerVars
    <2>3. \A e \in Events : \/ row'[e] = row[e]
                            \/ e \in ids[r] /\ row'[e] = "PUBLISHED"
      BY <1>4 DEF MarkPublished
    <2> QED BY <2>1, <2>2, <2>3 DEF CommittedRows
  <1>5. CASE Handle
    <2>1. PICK e \in CommittedRows : UNCHANGED handled \/ handled' = handled \cup {e}
      <3>1. position \in Int /\ 1 <= position /\ Len(log) \in Nat
        BY LenProperties
      <3>2. position <= Len(log) /\ handled' \in {handled, handled \cup {log[position]}}
        BY <1>5, Zenon DEF Handle
      <3>3. log[position] \in CommittedRows
        BY <3>1, <3>2 DEF LogInv
      <3> QED BY <3>2, <3>3
    <2>2. CommittedRows' = CommittedRows
      BY <1>5 DEF Handle, CommittedRows
    <2> QED BY <2>1, <2>2 DEF Delivery!Next, Delivery!Deliver, CommittedRows
  <1>6. CASE CommitMessages \/ ConsumerRestart \/ UNCHANGED vars
    BY <1>6 DEF CommitMessages, ConsumerRestart, vars, CommittedRows, consumerVars
  <1> QED BY <1>1, <1>2, <1>3, <1>4, <1>5, <1>6 DEF Next, RelayStep, Delivery!Next

\* Outbox, relays and consumer implement EventDelivery: the audit log holds an
\* event only once its transaction has committed, and never gives one up.
THEOREM Refinement == Spec => ImplementsDelivery
  <1>1. Init => Delivery!Init
    BY DEF Init, Delivery!Init
  <1> QED BY <1>1, StepImplements, Invariance, PTL
          DEF Spec, ImplementsDelivery, Delivery!Spec, CommittedRows
===========================================================================
