--------------------------- MODULE OutboxRelay ----------------------------
(***************************************************************************)
(* The way of an event from a status transaction to the audit log: the     *)
(* outbox table, one relay per gateway replica that publishes what is      *)
(* PENDING and marks it PUBLISHED, a Kafka partition, and the consumer of  *)
(* audit-service. A relay works inside ONE transaction per batch whose row *)
(* locks (FOR UPDATE SKIP LOCKED) keep the other relays off its rows; what *)
(* it has published stays published when the transaction rolls back.       *)
(* The events are those of one topic that audit-service consumes, in one   *)
(* partition; it consumes received, validated, reserved, committed and     *)
(* aborted, each in a goroutine of its own.                                *)
(***************************************************************************)
EXTENDS Integers, Sequences, FiniteSetsExt

CONSTANTS
  Events,      \* outbox rows that may be written, named by their id
  Relays,      \* the gateway replicas
  BatchLimit,  \* LIMIT of the query, 500 in the code
  MaxFaults    \* bound: errors and crashes

ASSUME OutboxAssumption ==
  Events \subseteq Nat /\ BatchLimit \in Nat \ {0} /\ MaxFaults \in Nat

VARIABLES
  row,        \* outbox.status, or "none", "open" (not committed), "gone" (rolled back)
  todo,       \* rows a relay has locked and not yet published
  ids,        \* rows it has published in this transaction
  log,        \* the Kafka partition
  consuming,  \* the consumer's goroutine runs
  position,   \* next message the consumer fetches
  committed,  \* messages the consumer group has committed
  handled,    \* events HandlePaymentEvent has logged
  faults

relayVars    == <<todo, ids>>
consumerVars == <<consuming, position, committed, handled>>
vars         == <<row, relayVars, log, consumerVars, faults>>

TypeOK ==
  /\ row \in [Events -> {"none", "open", "gone", "PENDING", "PUBLISHED"}]
  /\ todo \in [Relays -> SUBSET Events] /\ ids \in [Relays -> SUBSET Events]
  /\ log \in Seq(Events)
  /\ consuming \in BOOLEAN
  /\ position \in 1..(Len(log) + 1)
  /\ committed \in 0..(position - 1)
  /\ handled \subseteq Events
  /\ faults \in 0..MaxFaults

Init ==
  /\ row = [e \in Events |-> "none"]
  /\ todo = [r \in Relays |-> {}]
  /\ ids = [r \in Relays |-> {}]
  /\ log = <<>>
  /\ consuming = TRUE /\ position = 1 /\ committed = 0
  /\ handled = {} /\ faults = 0

Fault == faults < MaxFaults /\ faults' = faults + 1

---------------------------------------------------------------------------
(***************************************************************************)
(* The status transaction: outbox.Write takes the next id inside it, and   *)
(* transactions may commit in another order than their ids.                *)
(***************************************************************************)
Write(e) ==
  /\ row[e] = "none"
  /\ \A d \in Events : d < e => row[d] # "none"
  /\ row' = [row EXCEPT ![e] = "open"]
  /\ UNCHANGED <<relayVars, log, consumerVars, faults>>

CommitWrite(e) ==
  /\ row[e] = "open"
  /\ row' = [row EXCEPT ![e] = "PENDING"]
  /\ UNCHANGED <<relayVars, log, consumerVars, faults>>

\* The row is gone, its id is used up.
RollbackWrite(e) ==
  /\ row[e] = "open"
  /\ row' = [row EXCEPT ![e] = "gone"]
  /\ UNCHANGED <<relayVars, log, consumerVars, faults>>

---------------------------------------------------------------------------
(***************************************************************************)
(* flushBatch                                                              *)
(***************************************************************************)
Holds(r) == todo[r] \cup ids[r]
Locked   == UNION { Holds(r) : r \in Relays }

\* Mutant: the query has no FOR UPDATE.
Available_NoLocks == { e \in Events : row[e] = "PENDING" }

\* Mutant: the query reads rows of open transactions.
Available_Dirty == { e \in Events : row[e] \in {"open", "PENDING"} } \ Locked

Available == { e \in Events : row[e] = "PENDING" } \ Locked

\* ORDER BY id: how many rows come before e in the query's result.
Rank(e) == Cardinality({ d \in Available : d < e })

\* Mutant: the batch starts at the second row.
Select_SkipsFirst(r) ==
  /\ Holds(r) = {} /\ Available # {}
  /\ todo' = [todo EXCEPT ![r] = { e \in Available : Rank(e) \in 1..(BatchLimit - 1) }]
  /\ UNCHANGED <<row, ids, log, consumerVars, faults>>

\* Begin and Query: the first rows by id that nobody has locked.
Select(r) ==
  /\ Holds(r) = {} /\ Available # {}
  /\ todo' = [todo EXCEPT ![r] = { e \in Available : Rank(e) < BatchLimit }]
  /\ UNCHANGED <<row, ids, log, consumerVars, faults>>

\* The deferred Rollback: the locks are gone, the rows are still PENDING.
Abandon(r) ==
  /\ todo' = [todo EXCEPT ![r] = {}]
  /\ ids' = [ids EXCEPT ![r] = {}]

\* Mutant: a failed Publish does not keep the row from being marked.
Publish_IgnoresError(r) ==
  /\ todo[r] # {}
  /\ todo' = [todo EXCEPT ![r] = @ \ {Min(@)}]
  /\ ids' = [ids EXCEPT ![r] = @ \cup {Min(todo[r])}]
  /\ \/ log' = Append(log, Min(todo[r])) /\ UNCHANGED faults
     \/ Fault /\ UNCHANGED log
  /\ UNCHANGED <<row, consumerVars>>

\* Publish of the next row; an error, also one after the broker has taken the
\* message, ends the batch.
Publish(r) ==
  /\ todo[r] # {}
  /\ \/ /\ log' = Append(log, Min(todo[r]))
        /\ todo' = [todo EXCEPT ![r] = @ \ {Min(@)}]
        /\ ids' = [ids EXCEPT ![r] = @ \cup {Min(todo[r])}]
        /\ UNCHANGED faults
     \/ /\ Fault /\ Abandon(r)
        /\ log' \in {log, Append(log, Min(todo[r]))}
  /\ UNCHANGED <<row, consumerVars>>

\* UPDATE and Commit; the commit may fail, or succeed and seem to fail.
MarkPublished(r) ==
  /\ todo[r] = {} /\ ids[r] # {}
  /\ Abandon(r)
  /\ LET marked == [e \in Events |-> IF e \in ids[r] THEN "PUBLISHED" ELSE row[e]]
     IN  \/ row' = marked /\ UNCHANGED faults
         \/ Fault /\ row' \in {row, marked}
  /\ UNCHANGED <<log, consumerVars>>

\* The gateway dies: Postgres rolls its transaction back.
RelayCrash(r) ==
  /\ Holds(r) # {} /\ Fault
  /\ Abandon(r)
  /\ UNCHANGED <<row, log, consumerVars>>

RelayStep(r) == Select(r) \/ Publish(r) \/ MarkPublished(r)

---------------------------------------------------------------------------
(***************************************************************************)
(* eventbus.Consume with HandlePaymentEvent, which fails only on a payload *)
(* that is not JSON and so never on an outbox row.                         *)
(***************************************************************************)
\* Mutant: the consumer commits a message before it handles it.
Handle_CommitFirst ==
  /\ consuming /\ position <= Len(log) /\ committed = position - 1
  /\ committed' = position
  /\ position' = position + 1
  /\ UNCHANGED <<row, relayVars, log, consuming, handled, faults>>

\* FetchMessage and the handler; an error of FetchMessage ends Consume.
Handle ==
  /\ consuming /\ position <= Len(log) /\ committed = position - 1
  /\ \/ /\ handled' = handled \cup {log[position]}
        /\ position' = position + 1
        /\ UNCHANGED <<consuming, faults>>
     \/ Fault /\ consuming' = FALSE /\ UNCHANGED <<position, handled>>
  /\ UNCHANGED <<row, relayVars, log, committed>>

\* Mutant: the committed offset is one past the message.
CommitMessages_OffByOne ==
  /\ consuming /\ committed < position - 1
  /\ committed' = position
  /\ UNCHANGED <<row, relayVars, log, consuming, position, handled, faults>>

\* CommitMessages; an error ends Consume, and nothing in the process starts it
\* again.
CommitMessages ==
  /\ consuming /\ committed < position - 1
  /\ \/ committed' = position - 1 /\ UNCHANGED <<consuming, faults>>
     \/ Fault /\ consuming' = FALSE /\ committed' \in {committed, position - 1}
  /\ UNCHANGED <<row, relayVars, log, position, handled>>

\* Mutant: a restarted consumer goes on at the end of the log.
ConsumerRestart_AtEnd ==
  /\ Fault
  /\ consuming' = TRUE
  /\ position' = Len(log) + 1
  /\ UNCHANGED <<row, relayVars, log, committed, handled>>

\* audit-service dies and is restarted: it goes on after the last message
\* committed.
ConsumerRestart ==
  /\ Fault
  /\ consuming' = TRUE
  /\ position' = committed + 1
  /\ UNCHANGED <<row, relayVars, log, committed, handled>>

Next ==
  \/ \E e \in Events : Write(e) \/ CommitWrite(e) \/ RollbackWrite(e)
  \/ \E r \in Relays : RelayStep(r) \/ RelayCrash(r)
  \/ Handle \/ CommitMessages \/ ConsumerRestart

Spec == Init /\ [][Next]_vars

\* The relays' tickers keep firing and the consumer keeps polling; writing an
\* event is left free.
FairSpec ==
  /\ Spec
  /\ \A r \in Relays : WF_vars(RelayStep(r))
  /\ WF_vars(Handle) /\ WF_vars(CommitMessages)

---------------------------------------------------------------------------
Delivery == INSTANCE EventDelivery
              WITH written <- { e \in Events : row[e] \in {"PENDING", "PUBLISHED"} },
                   delivered <- handled

\* The audit log never holds an event whose transaction rolled back or has not
\* committed yet, although relays publish before they commit.
ImplementsDelivery == Delivery!Spec

Occurrences(e) == Cardinality({ i \in DOMAIN log : log[i] = e })

\* A row is marked PUBLISHED only if the broker has its message: no error,
\* rollback, lost acknowledgement or crash of a relay loses an event.
PublishedIsInLog == \A e \in Events : row[e] = "PUBLISHED" => Occurrences(e) >= 1

\* The row locks keep the relays of all replicas apart: a message is repeated
\* only by a fault, at most once for each.
DuplicatesNeedFaults == \A e \in Events : Occurrences(e) <= 1 + faults

\* No committed message of the consumer group is unhandled, so none is lost
\* when audit-service restarts from the committed offset.
CommittedIsHandled == \A i \in 1..committed : log[i] \in handled

\* Every committed event is published in the end, whatever finite number of
\* errors and crashes strikes the relays.
EventPublished == \A e \in Events : row[e] = "PENDING" ~> row[e] = "PUBLISHED"

\* ... and reaches the audit log, unless the consumer's goroutine has ended.
EventHandled == \A e \in Events : row[e] = "PENDING" ~> e \in handled \/ ~consuming
===========================================================================
