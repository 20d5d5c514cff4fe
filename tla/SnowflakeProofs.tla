-------------------------- MODULE SnowflakeProofs --------------------------
(***************************************************************************)
(* Theorems about Snowflake: order numbers are unique and growing for any   *)
(* set of processes with different node ids, any widths of node id and     *)
(* sequence and any bounds, as long as clocks are not set back.            *)
(*                                                                         *)
(* What makes it so is Covered: whatever a node has given out lies before  *)
(* what its timestamp and sequence, or the clock alone after a restart,    *)
(* say.  The numbers themselves are compared as two-digit numerals (Digits)*)
(***************************************************************************)
EXTENDS Snowflake, TLAPS

\* Ids in the order of time and sequence.
Earlier(a, b) == a.at < b.at \/ (a.at = b.at /\ a.seq < b.seq)

\* The clock of p has never shown less than it has used.
Clocked(p) == timestamp[p] <= clock[p]

\* An id of p is from before the clock, or the node remembers having used it.
Covered(p) == \A i \in DOMAIN issued : issued[i].by = p =>
  \/ issued[i].at < clock[p]
  \/ /\ issued[i].at = timestamp[p]
     /\ issued[i].seq <= sequence[p] \/ spinning[p]

\* The ids of p grow.
Growing(p) == \A i, j \in DOMAIN issued :
  i < j /\ issued[i].by = p /\ issued[j].by = p => Earlier(issued[i], issued[j])

NodeInv == \A p \in Processes \ stepped : Clocked(p) /\ Covered(p) /\ Growing(p)

SnowflakeInv == TypeOK /\ NodeInv

-----------------------------------------------------------------------------
(* Numerals *)

\* The higher digit decides: the packing of the parts of an id keeps their order.
LEMMA Digits ==
  ASSUME NEW w \in Nat \ {0}, NEW x \in Nat, NEW y \in Nat, x < y,
         NEW r \in 0..w - 1, NEW s \in 0..w - 1
  PROVE  x * w + r < y * w + s
<1> DEFINE d == y - x - 1
<1>1. d \in Nat /\ y = x + 1 + d
  OBVIOUS
<1>2. y * w = x * w + w + d * w
  BY <1>1
<1>3. d * w \in Nat /\ x * w \in Nat /\ y * w \in Nat
  BY <1>1
<1> HIDE DEF d
<1>4. QED
  BY <1>2, <1>3

\* Numbers of one node grow with its ids.
LEMMA NumberGrows ==
  ASSUME NEW a \in Ids, NEW b \in Ids, a.by = b.by, Earlier(a, b)
  PROVE  Number(a) < Number(b)
<1> DEFINE n == NodeId[a.by]
<1>1. n \in 0..NodeCount - 1 /\ NodeId[b.by] = n
  BY NodeAssumption DEF Ids
<1>2. /\ a.at \in Nat /\ a.seq \in 0..SeqCount - 1
      /\ b.at \in Nat /\ b.seq \in 0..SeqCount - 1
  BY DEF Ids
<1>3. a.at * NodeCount \in Nat /\ b.at * NodeCount \in Nat
  BY <1>2, WidthAssumption
<1> HIDE DEF n
<1>4. CASE a.at < b.at
  <2>1. a.at * NodeCount + n < b.at * NodeCount + n
    BY <1>1, <1>2, <1>4, WidthAssumption, Digits
  <2>2. a.at * NodeCount + n \in Nat /\ b.at * NodeCount + n \in Nat
    BY <1>1, <1>3, WidthAssumption
  <2>3. (a.at * NodeCount + n) * SeqCount + a.seq
          < (b.at * NodeCount + n) * SeqCount + b.seq
    BY <2>1, <2>2, <1>2, WidthAssumption, Digits
  <2>4. QED
    BY <2>3, <1>1 DEF Number, Packed, n
<1>5. CASE a.at = b.at /\ a.seq < b.seq
  <2>1. (a.at * NodeCount + n) * SeqCount \in Nat
    BY <1>1, <1>3, WidthAssumption
  <2>2. QED
    BY <2>1, <1>5, <1>2, <1>1 DEF Number, Packed, n
<1>6. QED
  BY <1>4, <1>5 DEF Earlier

\* Numbers of two nodes differ, whatever their times and sequences.
LEMMA NodesDiffer ==
  ASSUME NEW a \in Ids, NEW b \in Ids, a.by # b.by
  PROVE  Number(a) # Number(b)
<1> DEFINE n == NodeId[a.by]
           m == NodeId[b.by]
           x == a.at * NodeCount + n
           y == b.at * NodeCount + m
<1>1. n \in 0..NodeCount - 1 /\ m \in 0..NodeCount - 1 /\ n # m
  BY NodeAssumption DEF Ids
<1>2. /\ a.at \in Nat /\ a.seq \in 0..SeqCount - 1
      /\ b.at \in Nat /\ b.seq \in 0..SeqCount - 1
  BY DEF Ids
<1>3. a.at * NodeCount \in Nat /\ b.at * NodeCount \in Nat
  BY <1>2, WidthAssumption
<1> HIDE DEF n, m
<1>4. x \in Nat /\ y \in Nat
  BY <1>1, <1>3, WidthAssumption
<1>5. x # y
  <2>1. CASE a.at < b.at
    <3>1. x < y
      BY <1>1, <1>2, <2>1, WidthAssumption, Digits
    <3>2. QED
      BY <3>1, <1>4
  <2>2. CASE b.at < a.at
    <3>1. y < x
      BY <1>1, <1>2, <2>2, WidthAssumption, Digits
    <3>2. QED
      BY <3>1, <1>4
  <2>3. CASE a.at = b.at
    BY <2>3, <1>1, <1>3
  <2>4. QED
    BY <2>1, <2>2, <2>3, <1>2
<1>6. Number(a) = x * SeqCount + a.seq /\ Number(b) = y * SeqCount + b.seq
  BY DEF Number, Packed, n, m
<1> HIDE DEF x, y
<1>7. x * SeqCount \in Nat /\ y * SeqCount \in Nat
  BY <1>4, WidthAssumption
<1>8. CASE x < y
  <2>1. x * SeqCount + a.seq < y * SeqCount + b.seq
    BY <1>8, <1>4, <1>2, WidthAssumption, Digits
  <2>2. QED
    BY <2>1, <1>6, <1>7, <1>2
<1>9. CASE y < x
  <2>1. y * SeqCount + b.seq < x * SeqCount + a.seq
    BY <1>9, <1>4, <1>2, WidthAssumption, Digits
  <2>2. QED
    BY <2>1, <1>6, <1>7, <1>2
<1>10. QED
  BY <1>4, <1>5, <1>8, <1>9

-----------------------------------------------------------------------------
(* Type correctness *)

\* Generate returns with the clock and a sequence number of the right width.
LEMMA IssueType ==
  ASSUME TypeOK, NEW p \in Processes, NEW s \in 0..SeqCount - 1, Issue(p, clock[p], s),
         spinning' \in [Processes -> BOOLEAN]
  PROVE  TypeOK'
<1> DEFINE id == [by |-> p, at |-> clock[p], seq |-> s]
<1>1. id \in Ids
  BY DEF TypeOK, Ids
<1>2. issued' \in Seq(Ids)
  BY <1>1 DEF Issue, TypeOK
<1>3. QED
  BY <1>2 DEF Issue, TypeOK

LEMMA TypeStep == TypeOK /\ [Next]_vars => TypeOK'
<1> SUFFICES ASSUME TypeOK, [Next]_vars PROVE TypeOK'
  OBVIOUS
<1> USE WidthAssumption, BoundAssumption
<1>1. ASSUME NEW p \in Processes, SameMilli(p) PROVE TypeOK'
  <2>1. sequence[p] + 1 \in 0..SeqCount - 1
    BY <1>1 DEF SameMilli, TypeOK
  <2>2. QED
    BY <1>1, <2>1, IssueType DEF SameMilli, TypeOK
<1>2. ASSUME NEW p \in Processes, NewMilli(p) PROVE TypeOK'
  BY <1>2, IssueType DEF NewMilli, TypeOK
<1>3. ASSUME NEW p \in Processes, NextMilli(p) PROVE TypeOK'
  <2>1. spinning' \in [Processes -> BOOLEAN]
    BY <1>3 DEF NextMilli, TypeOK
  <2>2. QED
    BY <1>3, <2>1, IssueType DEF NextMilli
<1>4. ASSUME NEW p \in Processes, Overflow(p) PROVE TypeOK'
  BY <1>4 DEF Overflow, TypeOK
<1>5. ASSUME NEW p \in Processes, Restart(p) PROVE TypeOK'
  BY <1>5 DEF Restart, TypeOK
<1>6. ASSUME NEW p \in Processes, Tick(p) PROVE TypeOK'
  BY <1>6 DEF Tick, node, TypeOK
<1>7. ASSUME NEW p \in Processes, StepBack(p) PROVE TypeOK'
  BY <1>7 DEF StepBack, node, TypeOK
<1>8. CASE UNCHANGED vars
  BY <1>8 DEF vars, node, TypeOK
<1>9. QED
  BY <1>1, <1>2, <1>3, <1>4, <1>5, <1>6, <1>7, <1>8 DEF Next, Generate

LEMMA TypeInit == Init => TypeOK
BY WidthAssumption DEF Init, TypeOK

\* The variables keep their types, the sequence its width.
THEOREM SnowflakeTypeCorrect == Spec => []TypeOK
BY TypeInit, TypeStep, PTL DEF Spec

-----------------------------------------------------------------------------
(* The invariant *)

\* An id later than all of its node keeps the invariant of every node.
LEMMA IssueKeeps ==
  ASSUME TypeOK, NodeInv, NEW p \in Processes, NEW s \in 0..SeqCount - 1,
         Issue(p, clock[p], s), \A q \in Processes \ {p} : spinning'[q] = spinning[q],
         p \notin stepped => \A i \in DOMAIN issued : issued[i].by = p =>
           Earlier(issued[i], [by |-> p, at |-> clock[p], seq |-> s])
  PROVE  NodeInv'
<1> DEFINE id == [by |-> p, at |-> clock[p], seq |-> s]
           n  == Len(issued)
<1>1. id \in Ids /\ issued \in Seq(Ids) /\ n \in Nat
  BY DEF TypeOK, Ids
<1>2. /\ DOMAIN issued' = 1..n + 1 /\ DOMAIN issued = 1..n
      /\ \A i \in 1..n : issued'[i] = issued[i]
      /\ issued'[n + 1] = id
  BY <1>1 DEF Issue
<1>3. \A i \in 1..n : issued[i] \in Ids
  BY <1>1
<1> SUFFICES ASSUME NEW q \in Processes \ stepped
             PROVE  Clocked(q)' /\ Covered(q)' /\ Growing(q)'
  BY DEF NodeInv, Issue
<1> Clocked(q) /\ Covered(q) /\ Growing(q)
  BY DEF NodeInv
<1> HIDE DEF n
<1>4. CASE q = p
  <2>1. \A i \in 1..n : issued[i].by = p => Earlier(issued[i], id)
    BY <1>2, <1>4
  <2>2. /\ timestamp'[p] = clock[p] /\ clock'[p] = clock[p]
        /\ sequence'[p] = s /\ clock[p] \in Nat
    BY DEF Issue, TypeOK
  <2>3. Clocked(q)'
    BY <2>2, <1>4 DEF Clocked
  <2>4. Covered(q)'
    <3> SUFFICES ASSUME NEW i \in 1..n + 1, issued'[i].by = p
                 PROVE  \/ issued'[i].at < clock'[p]
                        \/ /\ issued'[i].at = timestamp'[p]
                           /\ issued'[i].seq <= sequence'[p] \/ spinning'[p]
      BY <1>2, <1>4 DEF Covered
    <3>1. CASE i = n + 1
      BY <3>1, <1>2, <2>2
    <3>2. CASE i \in 1..n
      <4>1. Earlier(issued[i], id) /\ issued[i] \in Ids
        BY <3>2, <2>1, <1>2, <1>3
      <4>2. QED
        BY <4>1, <3>2, <1>2, <2>2 DEF Earlier, Ids
    <3>3. QED
      BY <3>1, <3>2, <1>1
  <2>5. Growing(q)'
    <3> SUFFICES ASSUME NEW i \in 1..n + 1, NEW j \in 1..n + 1, i < j,
                        issued'[i].by = p, issued'[j].by = p
                 PROVE  Earlier(issued'[i], issued'[j])
      BY <1>2, <1>4 DEF Growing, Earlier
    <3>1. i \in 1..n
      BY <1>1
    <3>2. CASE j = n + 1
      BY <3>1, <3>2, <2>1, <1>2
    <3>3. CASE j \in 1..n
      BY <3>1, <3>3, <1>2, <1>4 DEF Growing
    <3>4. QED
      BY <3>2, <3>3, <1>1
  <2>6. QED
    BY <2>3, <2>4, <2>5
<1>5. CASE q # p
  <2>1. /\ clock' = clock /\ timestamp'[q] = timestamp[q]
        /\ sequence'[q] = sequence[q] /\ spinning'[q] = spinning[q]
    BY <1>5 DEF Issue, TypeOK
  <2>2. \A i \in 1..n + 1 : issued'[i].by = q => i \in 1..n
    BY <1>5, <1>2, <1>1
  <2>3. Clocked(q)'
    BY <2>1 DEF Clocked
  <2>4. Covered(q)'
    BY <2>1, <2>2, <1>2 DEF Covered
  <2>5. Growing(q)'
    BY <2>2, <1>2 DEF Growing, Earlier
  <2>6. QED
    BY <2>3, <2>4, <2>5
<1>6. QED
  BY <1>4, <1>5

LEMMA InvStep == TypeOK /\ NodeInv /\ [Next]_vars => NodeInv'
<1> SUFFICES ASSUME TypeOK, NodeInv, [Next]_vars PROVE NodeInv'
  OBVIOUS
<1> USE WidthAssumption, BoundAssumption
<1>0. \A i \in DOMAIN issued : issued[i] \in Ids
  BY DEF TypeOK
<1>1. ASSUME NEW p \in Processes, SameMilli(p) PROVE NodeInv'
  <2>1. /\ sequence[p] + 1 \in 0..SeqCount - 1 /\ sequence[p] \in Nat
        /\ ~spinning[p] /\ clock[p] = timestamp[p]
    BY <1>1 DEF SameMilli, TypeOK
  <2>2. ASSUME p \notin stepped, NEW i \in DOMAIN issued, issued[i].by = p
        PROVE  Earlier(issued[i], [by |-> p, at |-> clock[p], seq |-> sequence[p] + 1])
    <3>1. \/ issued[i].at < clock[p]
          \/ issued[i].at = clock[p] /\ issued[i].seq <= sequence[p]
      BY <2>1, <2>2 DEF NodeInv, Covered
    <3>2. issued[i].seq \in Nat
      BY <1>0 DEF Ids
    <3>3. QED
      BY <3>1, <3>2, <2>1 DEF Earlier
  <2>3. p \notin stepped => \A i \in DOMAIN issued : issued[i].by = p =>
          Earlier(issued[i], [by |-> p, at |-> clock[p], seq |-> sequence[p] + 1])
    BY <2>2
  <2>4. QED
    BY <1>1, <2>1, <2>3, IssueKeeps DEF SameMilli
<1>2. ASSUME NEW p \in Processes, NewMilli(p) PROVE NodeInv'
  <2>1. ASSUME p \notin stepped, NEW i \in DOMAIN issued, issued[i].by = p
        PROVE  Earlier(issued[i], [by |-> p, at |-> clock[p], seq |-> 0])
    <3>1. timestamp[p] < clock[p]
      BY <1>2, <2>1 DEF NodeInv, Clocked, NewMilli, TypeOK
    <3>2. issued[i].at < clock[p] \/ issued[i].at = timestamp[p]
      BY <2>1 DEF NodeInv, Covered
    <3>3. QED
      BY <3>1, <3>2 DEF Earlier
  <2>2. p \notin stepped => \A i \in DOMAIN issued : issued[i].by = p =>
          Earlier(issued[i], [by |-> p, at |-> clock[p], seq |-> 0])
    BY <2>1
  <2>3. QED
    BY <1>2, <2>2, IssueKeeps DEF NewMilli
<1>3. ASSUME NEW p \in Processes, NextMilli(p) PROVE NodeInv'
  <2>1. ASSUME p \notin stepped, NEW i \in DOMAIN issued, issued[i].by = p
        PROVE  Earlier(issued[i], [by |-> p, at |-> clock[p], seq |-> 0])
    <3>1. timestamp[p] < clock[p]
      BY <1>3 DEF NextMilli, TypeOK
    <3>2. issued[i].at < clock[p] \/ issued[i].at = timestamp[p]
      BY <2>1 DEF NodeInv, Covered
    <3>3. QED
      BY <3>1, <3>2 DEF Earlier
  <2>2. p \notin stepped => \A i \in DOMAIN issued : issued[i].by = p =>
          Earlier(issued[i], [by |-> p, at |-> clock[p], seq |-> 0])
    BY <2>1
  <2>3. \A q \in Processes \ {p} : spinning'[q] = spinning[q]
    BY <1>3 DEF NextMilli, TypeOK
  <2>4. Issue(p, clock[p], 0) /\ 0 \in 0..SeqCount - 1
    BY <1>3 DEF NextMilli
  <2>5. QED
    BY <2>2, <2>3, <2>4, IssueKeeps
<1>4. ASSUME NEW p \in Processes, Overflow(p) PROVE NodeInv'
  <2> SUFFICES ASSUME NEW q \in Processes \ stepped
               PROVE  Clocked(q)' /\ Covered(q)' /\ Growing(q)'
    BY <1>4 DEF NodeInv, Overflow
  <2>1. Clocked(q) /\ Covered(q) /\ Growing(q)
    BY DEF NodeInv
  <2>2. clock' = clock /\ timestamp' = timestamp /\ issued' = issued
    BY <1>4 DEF Overflow
  <2>3. CASE q = p
    <3>1. spinning'[q]
      BY <1>4, <2>3 DEF Overflow, TypeOK
    <3>2. \A i \in DOMAIN issued : issued[i].by = q =>
            issued[i].at < clock[q] \/ issued[i].at = timestamp[q]
      BY <2>1 DEF Covered
    <3>3. QED
      BY <2>1, <2>2, <3>1, <3>2 DEF Clocked, Covered, Growing, Earlier
  <2>4. CASE q # p
    <3>1. sequence'[q] = sequence[q] /\ spinning'[q] = spinning[q]
      BY <1>4, <2>4 DEF Overflow, TypeOK
    <3>2. QED
      BY <2>1, <2>2, <3>1 DEF Clocked, Covered, Growing, Earlier
  <2>5. QED
    BY <2>3, <2>4
<1>5. ASSUME NEW p \in Processes, Restart(p) PROVE NodeInv'
  <2> SUFFICES ASSUME NEW q \in Processes \ stepped
               PROVE  Clocked(q)' /\ Covered(q)' /\ Growing(q)'
    BY <1>5 DEF NodeInv, Restart
  <2>1. Clocked(q) /\ Covered(q) /\ Growing(q)
    BY DEF NodeInv
  <2>2. issued' = issued
    BY <1>5 DEF Restart
  <2>3. CASE q = p
    <3>1. /\ clock'[q] > clock[q] /\ clock'[q] \in Nat /\ clock[q] \in Nat
          /\ timestamp'[q] = 0 /\ timestamp[q] \in Nat
      BY <1>5, <2>3 DEF Restart, TypeOK
    <3>2. \A i \in DOMAIN issued : issued[i].by = q =>
            issued[i].at < clock[q] \/ issued[i].at = timestamp[q]
      BY <2>1 DEF Covered
    <3>3. \A i \in DOMAIN issued : issued[i].by = q => issued[i].at < clock'[q]
      BY <2>1, <3>1, <3>2, <1>0 DEF Clocked, Ids
    <3>4. QED
      BY <2>1, <2>2, <3>1, <3>3 DEF Clocked, Covered, Growing, Earlier
  <2>4. CASE q # p
    <3>1. /\ clock'[q] = clock[q] /\ timestamp'[q] = timestamp[q]
          /\ sequence'[q] = sequence[q] /\ spinning'[q] = spinning[q]
      BY <1>5, <2>4 DEF Restart, TypeOK
    <3>2. QED
      BY <2>1, <2>2, <3>1 DEF Clocked, Covered, Growing, Earlier
  <2>5. QED
    BY <2>3, <2>4
<1>6. ASSUME NEW p \in Processes, Tick(p) PROVE NodeInv'
  <2> SUFFICES ASSUME NEW q \in Processes \ stepped
               PROVE  Clocked(q)' /\ Covered(q)' /\ Growing(q)'
    BY <1>6 DEF NodeInv, Tick
  <2>1. Clocked(q) /\ Covered(q) /\ Growing(q)
    BY DEF NodeInv
  <2>2. /\ UNCHANGED <<timestamp, sequence, spinning, issued>>
        /\ clock'[q] >= clock[q] /\ clock'[q] \in Nat
        /\ clock[q] \in Nat /\ timestamp[q] \in Nat
    BY <1>6 DEF Tick, node, TypeOK
  <2>3. QED
    BY <2>1, <2>2, <1>0 DEF Clocked, Covered, Growing, Earlier, Ids
<1>7. ASSUME NEW p \in Processes, StepBack(p) PROVE NodeInv'
  <2> SUFFICES ASSUME NEW q \in Processes \ stepped, q # p
               PROVE  Clocked(q)' /\ Covered(q)' /\ Growing(q)'
    BY <1>7 DEF NodeInv, StepBack
  <2>1. Clocked(q) /\ Covered(q) /\ Growing(q)
    BY DEF NodeInv
  <2>2. UNCHANGED <<timestamp, sequence, spinning, issued>> /\ clock'[q] = clock[q]
    BY <1>7 DEF StepBack, node, TypeOK
  <2>3. QED
    BY <2>1, <2>2 DEF Clocked, Covered, Growing, Earlier
<1>8. CASE UNCHANGED vars
  BY <1>8 DEF vars, node, NodeInv, Clocked, Covered, Growing, Earlier
<1>9. QED
  BY <1>1, <1>2, <1>3, <1>4, <1>5, <1>6, <1>7, <1>8 DEF Next, Generate

\* The node remembers, or the clock shows, that the ids given out are used up.
THEOREM SnowflakeInvariant == Spec => []SnowflakeInv
<1>1. Init => SnowflakeInv
  BY TypeInit DEF Init, SnowflakeInv, NodeInv, Clocked, Covered, Growing
<1>2. SnowflakeInv /\ [Next]_vars => SnowflakeInv'
  BY TypeStep, InvStep DEF SnowflakeInv
<1>3. QED
  BY <1>1, <1>2, PTL DEF Spec

-----------------------------------------------------------------------------
(* What follows *)

LEMMA InvIncreasing == SnowflakeInv => IncreasingUnlessSetBack
<1> SUFFICES ASSUME SnowflakeInv, NEW i \in DOMAIN issued, NEW j \in DOMAIN issued,
                    i < j, issued[i].by = issued[j].by, issued[i].by \notin stepped
             PROVE  Number(issued[i]) < Number(issued[j])
  BY DEF IncreasingUnlessSetBack
<1>1. issued[i] \in Ids /\ issued[j] \in Ids
  BY DEF SnowflakeInv, TypeOK
<1>2. Growing(issued[i].by)
  BY <1>1 DEF SnowflakeInv, NodeInv, Ids
<1>3. Earlier(issued[i], issued[j])
  BY <1>2 DEF Growing
<1>4. QED
  BY <1>1, <1>3, NumberGrows

\* The order numbers of a process grow until its clock is set back (Generate).
THEOREM NumbersGrow == Spec => []IncreasingUnlessSetBack
BY InvIncreasing, SnowflakeInvariant, PTL

\* Order numbers are unique: a number can only be repeated by a process whose
\* clock was set back, and only one of its own (Generate, NewNode).
THEOREM NumbersUnique == Spec => []UniqueUnlessSetBack
<1>1. SnowflakeInv => UniqueUnlessSetBack
  <2> SUFFICES ASSUME SnowflakeInv, NEW i \in DOMAIN issued, NEW j \in DOMAIN issued,
                      i # j, issued[i].by = issued[j].by => issued[i].by \notin stepped
               PROVE  Number(issued[i]) # Number(issued[j])
    BY DEF UniqueUnlessSetBack
  <2>1. /\ issued[i] \in Ids /\ issued[j] \in Ids
        /\ Number(issued[i]) \in Int /\ Number(issued[j]) \in Int
    <3>1. issued[i] \in Ids /\ issued[j] \in Ids
      BY DEF SnowflakeInv, TypeOK
    <3>2. \A id \in Ids : Number(id) \in Int
      BY WidthAssumption, NodeAssumption DEF Number, Packed, Ids
    <3>3. QED
      BY <3>1, <3>2
  <2>2. CASE issued[i].by # issued[j].by
    BY <2>1, <2>2, NodesDiffer
  <2>3. CASE issued[i].by = issued[j].by
    <3>1. IncreasingUnlessSetBack
      BY InvIncreasing
    <3>2. i \in Int /\ j \in Int
      BY DEF SnowflakeInv, TypeOK
    <3>3. CASE i < j
      BY <3>1, <3>3, <2>1, <2>3 DEF IncreasingUnlessSetBack
    <3>4. CASE j < i
      BY <3>1, <3>4, <2>1, <2>3 DEF IncreasingUnlessSetBack
    <3>5. QED
      BY <3>2, <3>3, <3>4
  <2>4. QED
    BY <2>2, <2>3
<1>2. QED
  BY <1>1, SnowflakeInvariant, PTL
=============================================================================
