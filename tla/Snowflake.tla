----------------------------- MODULE Snowflake -----------------------------
(***************************************************************************)
(* Order numbers: Node.Generate of pkg/snowflake in several processes, each *)
(* with a node id and a wall clock of its own.                             *)
(*                                                                         *)
(* Generate runs under the node's mutex, so a call is one step, except when *)
(* the sequence of a millisecond is used up: then it holds the mutex and   *)
(* reads the clock again and again until the next millisecond.  The clock  *)
(* stalls and jumps ahead as it likes; setting it back is an action, and   *)
(* stepped remembers whose clock it happened to.  A process that restarts  *)
(* forgets its timestamp and sequence.                                     *)
(***************************************************************************)
EXTENDS Integers, Sequences

CONSTANTS Processes,
          NodeId,     \* snowflake.node_id of each process
          NodeCount,  \* 2^nodeBits
          SeqCount,   \* 2^sequenceBits, ids of a node in a millisecond
          MaxClock,   \* bound on the clocks
          MaxIssued   \* bound on the ids generated

ASSUME WidthAssumption == NodeCount \in Nat \ {0} /\ SeqCount \in Nat \ {0}
\* NewNode refuses other node ids; that they differ is up to the deployment.
ASSUME NodeAssumption  == /\ NodeId \in [Processes -> 0..NodeCount - 1]
                          /\ \A p, q \in Processes : NodeId[p] = NodeId[q] => p = q
ASSUME BoundAssumption == MaxClock \in Nat /\ MaxIssued \in Nat

VARIABLES
  clock,      \* the wall clock of each process, in milliseconds since epoch
  timestamp,  \* n.timestamp: the millisecond of the last id
  sequence,   \* n.sequence
  spinning,   \* whether a call waits for the next millisecond
  issued,     \* history: the ids returned, in order
  stepped     \* history: processes whose clock has been set back

node == <<timestamp, sequence, spinning>>
vars == <<clock, node, issued, stepped>>

\* now<<timestampShift | n.node<<nodeShift | n.sequence, whose parts do not
\* overlap.
Packed(now, n, s) == (now * NodeCount + n) * SeqCount + s

\* Mutant of Number: the shifts of timestamp and sequence are swapped.
NumberSwapped(id) == Packed(id.seq, NodeId[id.by], id.at)

\* The order number of an id: by process, at time, with sequence number.
Number(id) == Packed(id.at, NodeId[id.by], id.seq)

Ids == [by : Processes, at : Nat, seq : 0..SeqCount - 1]

\* Generate returns.
Issue(p, now, s) ==
  /\ Len(issued) < MaxIssued
  /\ issued' = Append(issued, [by |-> p, at |-> now, seq |-> s])
  /\ timestamp' = [timestamp EXCEPT ![p] = now]
  /\ sequence' = [sequence EXCEPT ![p] = s]
  /\ UNCHANGED <<clock, stepped>>

-----------------------------------------------------------------------------
\* The clock still shows the last id's millisecond and the sequence has room,
SameMilli(p) ==
  /\ ~spinning[p] /\ clock[p] = timestamp[p] /\ sequence[p] + 1 < SeqCount
  /\ Issue(p, clock[p], sequence[p] + 1)
  /\ UNCHANGED spinning

\* ... or it has not: it wraps to 0 and the call starts to spin,
Overflow(p) ==
  /\ ~spinning[p] /\ clock[p] = timestamp[p] /\ sequence[p] + 1 = SeqCount
  /\ sequence' = [sequence EXCEPT ![p] = 0]
  /\ spinning' = [spinning EXCEPT ![p] = TRUE]
  /\ UNCHANGED <<clock, timestamp, issued, stepped>>

\* ... or the clock shows another millisecond, be it later or earlier.
NewMilli(p) ==
  /\ ~spinning[p] /\ clock[p] # timestamp[p]
  /\ Issue(p, clock[p], 0)
  /\ UNCHANGED spinning

\* Mutant of NextMilli: for now < n.timestamp, one too few.
NextMilliEarly(p) ==
  /\ spinning[p] /\ clock[p] >= timestamp[p]
  /\ Issue(p, clock[p], 0)
  /\ spinning' = [spinning EXCEPT ![p] = FALSE]

\* for now <= n.timestamp has come to its end.
NextMilli(p) ==
  /\ spinning[p] /\ clock[p] > timestamp[p]
  /\ Issue(p, clock[p], 0)
  /\ spinning' = [spinning EXCEPT ![p] = FALSE]

\* NewNode in a process that starts again, which takes a millisecond at least.
Restart(p) ==
  /\ \E t \in clock[p] + 1 .. MaxClock : clock' = [clock EXCEPT ![p] = t]
  /\ timestamp' = [timestamp EXCEPT ![p] = 0]
  /\ sequence' = [sequence EXCEPT ![p] = 0]
  /\ spinning' = [spinning EXCEPT ![p] = FALSE]
  /\ UNCHANGED <<issued, stepped>>

\* Time passes.
Tick(p) ==
  /\ \E t \in clock[p] + 1 .. MaxClock : clock' = [clock EXCEPT ![p] = t]
  /\ UNCHANGED <<node, issued, stepped>>

\* The clock is set back, once for each process.
StepBack(p) ==
  /\ p \notin stepped
  /\ \E t \in 1 .. clock[p] - 1 : clock' = [clock EXCEPT ![p] = t]
  /\ stepped' = stepped \union {p}
  /\ UNCHANGED <<node, issued>>

-----------------------------------------------------------------------------
Init ==
  /\ clock = [p \in Processes |-> 1]
  /\ timestamp = [p \in Processes |-> 0]
  /\ sequence = [p \in Processes |-> 0]
  /\ spinning = [p \in Processes |-> FALSE]
  /\ issued = <<>>
  /\ stepped = {}

Generate(p) == SameMilli(p) \/ Overflow(p) \/ NewMilli(p) \/ NextMilli(p)

Next == \E p \in Processes : Generate(p) \/ Restart(p) \/ Tick(p) \/ StepBack(p)

Spec == Init /\ [][Next]_vars

-----------------------------------------------------------------------------
(* Properties *)

TypeOK ==
  /\ clock \in [Processes -> Nat]
  /\ timestamp \in [Processes -> Nat]
  /\ sequence \in [Processes -> 0..SeqCount - 1]
  /\ spinning \in [Processes -> BOOLEAN]
  /\ issued \in Seq(Ids)
  /\ stepped \in SUBSET Processes

\* No order number is given out twice, whatever the interleaving, the load of a
\* millisecond, restarts and stalls of the clock: only a process whose clock is
\* set back can repeat a number, and only one of its own.
UniqueUnlessSetBack ==
  \A i, j \in DOMAIN issued :
    /\ i # j
    /\ issued[i].by = issued[j].by => issued[i].by \notin stepped
    => Number(issued[i]) # Number(issued[j])

\* The numbers of a process grow, restarts included, until its clock is set
\* back.
IncreasingUnlessSetBack ==
  \A i, j \in DOMAIN issued :
    i < j /\ issued[i].by = issued[j].by /\ issued[i].by \notin stepped
    => Number(issued[i]) < Number(issued[j])
=============================================================================
