------------------------------- MODULE Outbox -------------------------------
(***************************************************************************)
(* One outbox channel: the outbox_events table of a service, its relay,    *)
(* the topic the relay publishes to and one consumer group of that topic.  *)
(* Saga uses the channel as a bag of events with bounded duplicates; this  *)
(* module is why it may (ChannelSafe, DuplicatesPaid).                     *)
(*                                                                         *)
(* wal is the primary's history of committed changes to the table, an      *)
(* insert or a sent mark per entry.  The relay runs its query outside of   *)
(* any transaction, which the read-write splitting of order-service sends  *)
(* to the replica: a prefix of wal (Replicated).  The other services have  *)
(* no replica.  The topic has one partition, and offsets count from 1.     *)
(***************************************************************************)
EXTENDS Integers, Sequences, FiniteSets

CONSTANTS Events,      \* the events that transactions write, each once
          Replicated,  \* whether the relay's query reads a replica
          BatchLimit,  \* rows per query, 100 in the code
          MaxFault,    \* bound on failed sends and marks, crashes, rebalances
          MaxStale     \* bound on queries that return rows already sent

ASSUME EventsAssumption == IsFiniteSet(Events)
ASSUME LimitAssumption  == BatchLimit \in Nat \ {0}
ASSUME SplitAssumption  == Replicated \in BOOLEAN
ASSUME FaultsAssumption == MaxFault \in Nat /\ MaxStale \in Nat

VARIABLES
  clock,      \* the clock of the service, ticking with each row created
  created,    \* created_at of each event, 0 if no transaction has created it
  wal,        \* committed changes of the primary
  applied,    \* how many of them the replica has
  batch,      \* rows of the relay's present batch, still to be published
  marking,    \* the one of them that is published and not yet marked, if any
  log,        \* the partition
  position,   \* messages the consumer has handled and marked
  committed,  \* messages up to its last committed offset
  handled,    \* history: offsets handled at least once
  faults, stale  \* how much of the two budgets is used

vars == <<clock, created, wal, applied, batch, marking, log, position, committed,
          handled, faults, stale>>

dbVars       == <<clock, created, wal, applied>>
relayVars    == <<batch, marking>>
consumerVars == <<position, committed, handled>>

Fault == faults < MaxFault /\ faults' = faults + 1
Fine  == UNCHANGED faults

Elements(s) == {s[i] : i \in DOMAIN s}

\* The rows of a database that has applied the changes w: all, and the sent ones.
Inserted(w) == {e \in Events : <<"insert", e>> \in Elements(w)}
Sent(w)     == {e \in Events : <<"sent", e>> \in Elements(w)}

-----------------------------------------------------------------------------
(* Transactions of the service *)

\* WriteEvent: created_at is taken when the row is created,
WriteEvent(e) ==
  /\ created[e] = 0
  /\ clock' = clock + 1
  /\ created' = [created EXCEPT ![e] = clock']
  /\ UNCHANGED <<wal, applied, relayVars, log, consumerVars, stale>> /\ Fine

\* ... and the row exists when the transaction commits,
Commit(e) ==
  /\ created[e] > 0 /\ e \notin Inserted(wal)
  /\ wal' = Append(wal, <<"insert", e>>)
  /\ UNCHANGED <<clock, created, applied, relayVars, log, consumerVars, stale>>
  /\ Fine

\* ... if it does: a transaction that fails leaves no row.
Rollback(e) ==
  /\ created[e] > 0 /\ e \notin Inserted(wal)
  /\ created' = [created EXCEPT ![e] = 0]
  /\ UNCHANGED <<clock, wal, applied, relayVars, log, consumerVars, stale>>
  /\ Fault

\* Streaming replication.
Replicate ==
  /\ applied < Len(wal)
  /\ applied' = applied + 1
  /\ UNCHANGED <<clock, created, wal, relayVars, log, consumerVars, stale>>
  /\ Fine

-----------------------------------------------------------------------------
(* The relay *)

\* What the query sees, and the unsent rows of it.
View == IF Replicated THEN SubSeq(wal, 1, applied) ELSE wal
Unsent(w) == Inserted(w) \ Sent(w)

\* The oldest rows of a set, BatchLimit of them if it has that many.
IsBatch(B, rows) ==
  /\ B \subseteq rows
  /\ Cardinality(B) <= BatchLimit
  /\ B = rows \/ Cardinality(B) = BatchLimit
  /\ \A e \in B, f \in rows \ B : created[e] < created[f]

\* A tick of the relay, between two batches, reads the next batch.
Query ==
  /\ batch = {} /\ Unsent(View) # {}
  /\ batch' \in SUBSET Unsent(View) /\ IsBatch(batch', Unsent(View))
  /\ IF batch' \intersect Sent(wal) = {} THEN UNCHANGED stale
     ELSE stale < MaxStale /\ stale' = stale + 1
  /\ UNCHANGED <<dbVars, marking, log, consumerVars>> /\ Fine

\* Mutant of IsNext: the batch is not ordered.
IsAny(e) == e \in batch /\ marking = {}

\* The rows of a batch are published in the order of created_at.
IsNext(e) == /\ e \in batch /\ marking = {}
             /\ \A f \in batch : created[e] <= created[f]

\* SendMessageToTopic succeeds.  The producer is not idempotent: when it retries
\* a send whose acknowledgement was lost, the message is there twice.
Publish(e) ==
  /\ IsNext(e)
  /\ marking' = {e}
  /\ \/ log' = Append(log, e) /\ Fine
     \/ log' = Append(Append(log, e), e) /\ Fault
  /\ UNCHANGED <<dbVars, batch, consumerVars, stale>>

\* Mutant of PublishFails: the row is marked all the same.
PublishFailsMarked(e) ==
  /\ IsNext(e)
  /\ marking' = {e}
  /\ UNCHANGED <<dbVars, batch, log, consumerVars, stale>> /\ Fault

\* ... or fails, perhaps after the broker has appended the message: the relay
\* goes on with the next row of the batch.
PublishFails(e) ==
  /\ IsNext(e)
  /\ batch' = batch \ {e}
  /\ log' \in {log, Append(log, e)}
  /\ UNCHANGED <<dbVars, marking, consumerVars, stale>> /\ Fault

\* Mutant of Mark: the update is missing.
MarkNothing(e) ==
  /\ e \in marking
  /\ marking' = {} /\ batch' = batch \ {e}
  /\ UNCHANGED <<dbVars, log, consumerVars, stale>> /\ Fine

\* The row is marked sent,
Mark(e) ==
  /\ e \in marking
  /\ marking' = {} /\ batch' = batch \ {e}
  /\ wal' = Append(wal, <<"sent", e>>)
  /\ UNCHANGED <<clock, created, applied, log, consumerVars, stale>> /\ Fine

\* ... or the update fails, which is only logged.
MarkFails(e) ==
  /\ e \in marking
  /\ marking' = {} /\ batch' = batch \ {e}
  /\ UNCHANGED <<dbVars, log, consumerVars, stale>> /\ Fault

\* The service dies: the relay starts again with a query.
RelayDies ==
  /\ batch # {}
  /\ batch' = {} /\ marking' = {}
  /\ UNCHANGED <<dbVars, log, consumerVars, stale>> /\ Fault

-----------------------------------------------------------------------------
(* The consumer group *)

\* The handler is called with the next message, which is then marked whatever
\* the handler answers.
Handle ==
  /\ position < Len(log)
  /\ position' = position + 1
  /\ handled' = handled \union {position + 1}
  /\ UNCHANGED <<dbVars, relayVars, log, committed, stale>> /\ Fine

\* The marked offset is committed now and then.
CommitOffset ==
  /\ committed < position
  /\ committed' = position
  /\ UNCHANGED <<dbVars, relayVars, log, position, handled, stale>> /\ Fine

\* Mutant of Reassign: a new session starts at the end of the partition.
ReassignNewest ==
  /\ position < Len(log)
  /\ position' = Len(log)
  /\ UNCHANGED <<dbVars, relayVars, log, committed, handled, stale>> /\ Fault

\* The consumer dies or loses its claim: a new session starts at the committed
\* offset, or at the oldest message if there is none.
Reassign ==
  /\ committed < position
  /\ position' = committed
  /\ UNCHANGED <<dbVars, relayVars, log, committed, handled, stale>> /\ Fault

-----------------------------------------------------------------------------
Init ==
  /\ clock = 0 /\ created = [e \in Events |-> 0]
  /\ wal = <<>> /\ applied = 0
  /\ batch = {} /\ marking = {}
  /\ log = <<>>
  /\ position = 0 /\ committed = 0 /\ handled = {}
  /\ faults = 0 /\ stale = 0

Relay == Query \/ \E e \in Events : Publish(e) \/ Mark(e)

Next == \/ \E e \in Events : WriteEvent(e) \/ Commit(e) \/ Rollback(e)
        \/ Replicate
        \/ Relay \/ RelayDies
        \/ \E e \in Events : PublishFails(e) \/ MarkFails(e)
        \/ Handle \/ CommitOffset \/ Reassign

Spec == Init /\ [][Next]_vars

\* The relay ticks for ever, the replica keeps applying, the group keeps
\* consuming.  Transactions need not commit and offsets need not be committed.
FairSpec == Spec /\ WF_vars(Relay) /\ WF_vars(Replicate) /\ WF_vars(Handle)

-----------------------------------------------------------------------------
(* Properties *)

TypeOK ==
  /\ clock \in Nat
  /\ created \in [Events -> Nat]
  /\ wal \in Seq({"insert", "sent"} \X Events)
  /\ applied \in 0..Len(wal)
  /\ batch \in SUBSET Events
  /\ marking \in SUBSET batch
  /\ log \in Seq(Events)
  /\ position \in 0..Len(log)
  /\ committed \in 0..position
  /\ handled \subseteq 1..Len(log)
  /\ faults \in 0..MaxFault
  /\ stale \in 0..MaxStale

\* The reason for an outbox: a message exists only for a transaction that has
\* committed, and a row is marked sent only when its message is in the log.
\* Neither a crash nor a failed send can come between.
SentIsPublished == /\ Elements(log) \subseteq Inserted(wal)
                   /\ Sent(wal) \subseteq Elements(log)

\* How often an event is in a partition behind offset p.
Count(l, p, e) == Cardinality({i \in (p + 1)..Len(l) : l[i] = e})

\* Every further copy of an event is paid for: by a fault, or by a query that read
\* a replica which had not seen the mark.
DuplicatesPaid == \A e \in Events : Count(log, 0, e) <= 1 + faults + stale

\* The relay, the partition and the group are a bag of events, whatever is crashed,
\* retried, lagging or read again: nothing is published before its commit, and
\* nothing is passed over without being given to the handler.
Bag == INSTANCE Channel WITH
         outbox    <- Inserted(wal) \ Elements(log),
         topic     <- [e \in Events |-> Count(log, position, e)],
         delivered <- {log[i] : i \in handled}

ChannelSafe == Bag!Spec

\* e is in the log only behind d.
Behind(d, e) ==
  \A n \in DOMAIN log : log[n] = e => \E m \in 1..n : log[m] = d

\* Messages are in the log in the order of created_at: the first of each is
\* behind those of the older rows.
InOrder == \A d, e \in Inserted(wal) : created[d] < created[e] => Behind(d, e)

\* The transactions have committed in the order of created_at.
CommittedInOrder ==
  \A m, n \in DOMAIN wal :
     wal[m][1] = "insert" /\ wal[n][1] = "insert" /\ m < n
        => created[wal[m][2]] < created[wal[n][2]]

\* The relay publishes in the order of created_at as long as nothing fails and
\* transactions commit in that order; batches and stale queries keep it.
InOrderUnlessFault == faults = 0 /\ CommittedInOrder => InOrder

\* At least once, end to end: the event of a committed transaction reaches the
\* handler, whatever fails or dies on the way.
AtLeastOnce ==
  \A e \in Events : e \in Inserted(wal) ~> \E i \in handled : log[i] = e

=============================================================================
