------------------------------ MODULE Channel ------------------------------
(***************************************************************************)
(* What the services rely on of an outbox table with its relay, topic and  *)
(* consumer group, whatever fails below: a bag of events.  An event is on  *)
(* its way only after the transaction that wrote it has committed; nothing *)
(* leaves the bag but by being given to the handler; and what has been     *)
(* published once may come again at any time.                              *)
(*                                                                         *)
(* Saga keeps a copy back when it sends or delivers an event, if the event *)
(* is to come again; here the copy appears when it comes.  No handler can  *)
(* tell the two apart.  Outbox implements this module (ChannelSafe).       *)
(***************************************************************************)
EXTENDS Naturals

CONSTANTS Events

VARIABLES
  outbox,    \* events of committed transactions, still to be published
  topic,     \* copies of each event that the handler has not been given
  delivered  \* events that it has been given

vars == <<outbox, topic, delivered>>

\* What has been published is waiting or has been delivered.
Published == delivered \union {e \in Events : topic[e] > 0}

\* A transaction commits with its event.
Write(e) ==
  /\ e \notin outbox \union Published
  /\ outbox' = outbox \union {e}
  /\ UNCHANGED <<topic, delivered>>

\* The event is published, once or, by a producer that retries, twice.
Send(e) ==
  /\ e \in outbox
  /\ outbox' = outbox \ {e}
  /\ \E copies \in {1, 2} : topic' = [topic EXCEPT ![e] = @ + copies]
  /\ UNCHANGED delivered

\* The handler is given a copy of the event.
Deliver(e) ==
  /\ topic[e] > 0
  /\ topic' = [topic EXCEPT ![e] = @ - 1]
  /\ delivered' = delivered \union {e}
  /\ UNCHANGED outbox

\* Published events come again.
Again ==
  /\ topic' \in [Events -> Nat]
  /\ \A e \in Events : /\ topic'[e] >= topic[e]
                       /\ topic'[e] > topic[e] => e \in Published
  /\ UNCHANGED <<outbox, delivered>>

Init ==
  /\ outbox = {}
  /\ topic = [e \in Events |-> 0]
  /\ delivered = {}

Next == (\E e \in Events : Write(e) \/ Send(e) \/ Deliver(e)) \/ Again

Spec == Init /\ [][Next]_vars

=============================================================================
