---------------------------- MODULE OutboxProofs ----------------------------
(***************************************************************************)
(* Theorems about Outbox, for every set of events, every batch limit and   *)
(* every number of faults, with and without a replica.                     *)
(***************************************************************************)
EXTENDS Outbox, FiniteSetTheorems, TLAPS

-----------------------------------------------------------------------------
(* The changes of the primary and the messages of the partition *)

\* Appending adds one element.
LEMMA ElementsAppend ==
  ASSUME NEW S, NEW s \in Seq(S), NEW x \in S
  PROVE  Elements(Append(s, x)) = Elements(s) \union {x}
<1> DEFINE t == Append(s, x)
<1>1. /\ DOMAIN s = 1..Len(s) /\ Len(s) \in Nat
      /\ DOMAIN t = 1..Len(s) + 1
      /\ \A i \in 1..Len(s) : t[i] = s[i]
      /\ t[Len(s) + 1] = x
  OBVIOUS
<1>2. ASSUME NEW y \in Elements(t) PROVE y \in Elements(s) \union {x}
  <2>1. PICK i \in 1..Len(s) + 1 : y = t[i]
    BY <1>1, <1>2 DEF Elements
  <2>2. i \in 1..Len(s) \/ i = Len(s) + 1
    BY <1>1
  <2> QED BY <1>1, <2>1, <2>2 DEF Elements
<1>3. ASSUME NEW y \in Elements(s) PROVE y \in Elements(t)
  <2>1. PICK i \in 1..Len(s) : y = s[i]
    BY <1>1, <1>3 DEF Elements
  <2>2. i \in DOMAIN t /\ y = t[i]
    BY <1>1, <2>1
  <2> QED BY <2>2 DEF Elements
<1>4. x \in Elements(t)
  <2>1. Len(s) + 1 \in DOMAIN t
    BY <1>1
  <2> QED BY <1>1, <2>1 DEF Elements
<1> QED BY <1>2, <1>3, <1>4

\* A view of the primary has no rows, and no marks, that the primary has not.
LEMMA ViewIsPrefix ==
  ASSUME TypeOK
  PROVE  /\ Inserted(View) \subseteq Inserted(wal)
         /\ Elements(View) \subseteq Elements(wal)
<1>1. CASE ~Replicated
  BY <1>1 DEF View
<1>2. CASE Replicated
  <2> DEFINE T == {"insert", "sent"} \X Events
  <2>1. wal \in Seq(T) /\ applied \in 0..Len(wal)
    BY DEF TypeOK
  <2> HIDE DEF T
  <2>2. /\ DOMAIN SubSeq(wal, 1, applied) = 1..applied
        /\ \A i \in 1..applied : SubSeq(wal, 1, applied)[i] = wal[i]
        /\ 1..applied \subseteq DOMAIN wal
    BY <2>1
  <2>3. Elements(View) \subseteq Elements(wal)
    BY <1>2, <2>2 DEF View, Elements
  <2> QED BY <2>3 DEF Inserted
<1> QED BY <1>1, <1>2, SplitAssumption

\* Committing a transaction or marking a row adds an insert or a mark, and takes
\* nothing away.
LEMMA ChangeStep ==
  ASSUME TypeOK, NEW e \in Events, NEW kind \in {"insert", "sent"},
         wal' = Append(wal, <<kind, e>>)
  PROVE  /\ wal' \in Seq({"insert", "sent"} \X Events)
         /\ Len(wal') = Len(wal) + 1
         /\ Inserted(wal)' = IF kind = "insert" THEN Inserted(wal) \union {e}
                                                ELSE Inserted(wal)
         /\ Sent(wal)' = IF kind = "sent" THEN Sent(wal) \union {e}
                                          ELSE Sent(wal)
<1> DEFINE T == {"insert", "sent"} \X Events
<1>1. wal \in Seq(T) /\ <<kind, e>> \in T
  BY DEF TypeOK
<1>2. wal' \in Seq(T) /\ Len(wal') = Len(wal) + 1
  <2> HIDE DEF T
  <2> QED BY <1>1
<1>3. Elements(wal') = Elements(wal) \union {<<kind, e>>}
  <2> HIDE DEF T
  <2> QED BY <1>1, ElementsAppend
<1>4. \A f \in Events, k \in {"insert", "sent"} :
        <<k, f>> \in Elements(wal') <=> <<k, f>> \in Elements(wal) \/ (k = kind /\ f = e)
  BY <1>3
<1> QED BY <1>2, <1>4 DEF Inserted, Sent

\* A message is appended: the partition has it and all it had.
LEMMA AppendMessage ==
  ASSUME NEW l \in Seq(Events), NEW e \in Events
  PROVE  /\ Append(l, e) \in Seq(Events)
         /\ Len(l) \in Nat
         /\ Len(Append(l, e)) = Len(l) + 1
         /\ Elements(Append(l, e)) = Elements(l) \union {e}
BY ElementsAppend

-----------------------------------------------------------------------------
(* Counting the copies of an event behind an offset *)

LEMMA CountType ==
  ASSUME NEW l \in Seq(Events), NEW p \in Nat, NEW e
  PROVE  /\ IsFiniteSet({i \in (p + 1)..Len(l) : l[i] = e})
         /\ Count(l, p, e) \in Nat
<1>1. Len(l) \in Nat
  OBVIOUS
<1>2. IsFiniteSet((p + 1)..Len(l))
  BY <1>1, FS_Interval
<1>3. {i \in (p + 1)..Len(l) : l[i] = e} \subseteq (p + 1)..Len(l)
  OBVIOUS
<1> QED BY <1>2, <1>3, FS_Subset, FS_CardinalityType DEF Count

\* There is one if the event lies there.
LEMMA CountPositive ==
  ASSUME NEW l \in Seq(Events), NEW p \in Nat, NEW e
  PROVE  Count(l, p, e) > 0 <=> \E i \in (p + 1)..Len(l) : l[i] = e
<1> DEFINE S == {i \in (p + 1)..Len(l) : l[i] = e}
<1>1. IsFiniteSet(S) /\ Count(l, p, e) = Cardinality(S) /\ Cardinality(S) \in Nat
  BY CountType DEF Count
<1>2. Cardinality(S) = 0 <=> S = {}
  BY <1>1, FS_EmptySet
<1>3. S # {} <=> \E i \in (p + 1)..Len(l) : l[i] = e
  OBVIOUS
<1> QED BY <1>1, <1>2, <1>3

\* One copy more, or none.
LEMMA CountOne ==
  ASSUME NEW S, NEW T, NEW i, IsFiniteSet(S), NEW here \in BOOLEAN,
         i \notin S, T = IF here THEN S \union {i} ELSE S
  PROVE  Cardinality(T) = Cardinality(S) + IF here THEN 1 ELSE 0
<1>1. Cardinality(S) \in Nat
  BY FS_CardinalityType
<1>2. CASE here
  BY <1>2, FS_AddElement
<1>3. CASE ~here
  BY <1>1, <1>3
<1> QED BY <1>2, <1>3

\* A message that is appended is one copy more of its event,
LEMMA CountAppend ==
  ASSUME NEW l \in Seq(Events), NEW p \in 0..Len(l), NEW e \in Events, NEW x
  PROVE  Count(Append(l, e), p, x) = Count(l, p, x) + IF x = e THEN 1 ELSE 0
<1> DEFINE t == Append(l, e)
           S == {i \in (p + 1)..Len(l) : l[i] = x}
           T == {i \in (p + 1)..Len(t) : t[i] = x}
<1>1. /\ Len(l) \in Nat /\ Len(t) = Len(l) + 1 /\ t[Len(l) + 1] = e
      /\ \A i \in 1..Len(l) : t[i] = l[i]
      /\ p \in Nat
  OBVIOUS
<1>2. IsFiniteSet(S)
  BY <1>1, CountType
<1>3. Count(l, p, x) = Cardinality(S) /\ Count(t, p, x) = Cardinality(T)
  BY DEF Count
<1>4. Len(l) + 1 \notin S /\ T = IF x = e THEN S \union {Len(l) + 1} ELSE S
  BY <1>1
<1> HIDE DEF S, T
<1>5. Cardinality(T) = Cardinality(S) + IF x = e THEN 1 ELSE 0
  BY <1>2, <1>4, CountOne
<1> QED BY <1>3, <1>5

\* ... a message that is passed is one less,
LEMMA CountNext ==
  ASSUME NEW l \in Seq(Events), NEW p \in Nat, p < Len(l), NEW x
  PROVE  Count(l, p, x) = Count(l, p + 1, x) + IF x = l[p + 1] THEN 1 ELSE 0
<1> DEFINE S == {i \in (p + 1 + 1)..Len(l) : l[i] = x}
           T == {i \in (p + 1)..Len(l) : l[i] = x}
<1>1. Len(l) \in Nat /\ p + 1 \in Nat
  OBVIOUS
<1>2. IsFiniteSet(S)
  BY <1>1, CountType
<1>3. Count(l, p + 1, x) = Cardinality(S) /\ Count(l, p, x) = Cardinality(T)
  BY DEF Count
<1>4. (p + 1)..Len(l) = ((p + 1 + 1)..Len(l)) \union {p + 1}
  BY <1>1
<1>5. p + 1 \notin S /\ T = IF x = l[p + 1] THEN S \union {p + 1} ELSE S
  BY <1>1, <1>4
<1> HIDE DEF S, T
<1>6. Cardinality(T) = Cardinality(S) + IF x = l[p + 1] THEN 1 ELSE 0
  BY <1>2, <1>5, CountOne
<1> QED BY <1>3, <1>6

\* ... and an offset that goes back has as many copies behind it or, for the events
\* it goes back over, more.
LEMMA CountBack ==
  ASSUME NEW l \in Seq(Events), NEW p \in Nat, NEW q \in 0..p, NEW x
  PROVE  /\ Count(l, q, x) >= Count(l, p, x)
         /\ Count(l, q, x) > Count(l, p, x) => \E i \in (q + 1)..p : l[i] = x
<1> DEFINE S == {i \in (p + 1)..Len(l) : l[i] = x}
           T == {i \in (q + 1)..Len(l) : l[i] = x}
<1>1. q \in Nat /\ Len(l) \in Nat
  OBVIOUS
<1>2. IsFiniteSet(T) /\ IsFiniteSet(S)
  BY <1>1, CountType
<1>3. Count(l, q, x) = Cardinality(T) /\ Count(l, p, x) = Cardinality(S)
  BY DEF Count
<1>4. S \subseteq T
  BY <1>1
<1>5. ASSUME ~ \E i \in (q + 1)..p : l[i] = x PROVE S = T
  BY <1>1, <1>5
<1> HIDE DEF S, T
<1>6. /\ Cardinality(S) <= Cardinality(T)
      /\ Cardinality(S) \in Nat /\ Cardinality(T) \in Nat
  BY <1>2, <1>4, FS_Subset, FS_CardinalityType
<1> QED BY <1>3, <1>5, <1>6

-----------------------------------------------------------------------------
(* The inductive invariant: what the relay is about to publish has been     *)
(* committed, and what it is about to mark has been published.              *)

\* No crash or rebalance makes the group skip a message: whatever it will not
\* read again has been given to the handler.
NothingSkipped == 1..position \subseteq handled

RelayInv == /\ batch \subseteq Inserted(wal)
            /\ marking \subseteq Elements(log)

OutboxInv == TypeOK /\ RelayInv /\ SentIsPublished /\ NothingSkipped

\* A step that only appends messages of committed rows to the partition, if any,
\* leaves what is said of the partition and the consumer true.
LEMMA PublishStep ==
  ASSUME OutboxInv, NEW e \in batch,
         log' \in {log, Append(log, e), Append(Append(log, e), e)},
         UNCHANGED <<dbVars, consumerVars>>
  PROVE  /\ log' \in Seq(Events)
         /\ position' \in 0..Len(log') /\ committed' \in 0..position'
         /\ handled' \subseteq 1..Len(log')
         /\ applied' \in 0..Len(wal')
         /\ SentIsPublished' /\ NothingSkipped'
         /\ Elements(log) \subseteq Elements(log)'
         /\ log' # log => e \in Elements(log)'
<1>1. /\ e \in Events /\ e \in Inserted(wal) /\ log \in Seq(Events)
      /\ Len(log) \in Nat
  BY DEF OutboxInv, RelayInv, TypeOK
<1>2. /\ log' \in Seq(Events) /\ Len(log') \in Nat /\ Len(log') >= Len(log)
      /\ Elements(log)' \in {Elements(log), Elements(log) \union {e}}
      /\ log' # log => Elements(log)' = Elements(log) \union {e}
  <2> DEFINE once == Append(log, e)
  <2>1. /\ once \in Seq(Events) /\ Len(once) = Len(log) + 1
        /\ Elements(once) = Elements(log) \union {e}
    BY <1>1, AppendMessage
  <2> HIDE DEF once
  <2>2. /\ Append(once, e) \in Seq(Events)
        /\ Len(Append(once, e)) = Len(once) + 1
        /\ Elements(Append(once, e)) = Elements(once) \union {e}
    BY <1>1, <2>1, AppendMessage
  <2>3. log' \in {log, once, Append(once, e)}
    BY DEF once
  <2>4. Elements(log)' = Elements(log')
    BY DEF Elements
  <2>5. CASE log' = log
    BY <1>1, <2>4, <2>5
  <2>6. CASE log' = once
    BY <1>1, <2>1, <2>4, <2>6
  <2>7. CASE log' = Append(once, e)
    BY <1>1, <2>1, <2>2, <2>4, <2>7
  <2> QED BY <2>3, <2>5, <2>6, <2>7
<1>3. /\ position \in 0..Len(log) /\ committed \in 0..position
      /\ handled \subseteq 1..Len(log) /\ applied \in 0..Len(wal)
      /\ UNCHANGED <<wal, applied, position, committed, handled>>
  BY DEF OutboxInv, TypeOK, dbVars, consumerVars
<1>4. /\ position' \in 0..Len(log') /\ committed' \in 0..position'
      /\ handled' \subseteq 1..Len(log') /\ applied' \in 0..Len(wal')
  BY <1>1, <1>2, <1>3
<1>5. Inserted(wal)' = Inserted(wal) /\ Sent(wal)' = Sent(wal)
  BY <1>3 DEF Inserted, Sent, Elements
<1>6. SentIsPublished'
  BY <1>1, <1>2, <1>5 DEF OutboxInv, SentIsPublished
<1>7. NothingSkipped'
  BY <1>3 DEF OutboxInv, NothingSkipped
<1> QED BY <1>2, <1>4, <1>6, <1>7

\* A step that changes neither the partition nor the consumer and commits or
\* marks at most one row keeps the invariant, if it marks a published row and
\* leaves the relay with committed rows.
LEMMA DatabaseStep ==
  ASSUME OutboxInv, UNCHANGED <<log, consumerVars>>,
         wal' \in Seq({"insert", "sent"} \X Events),
         Inserted(wal) \subseteq Inserted(wal)',
         Sent(wal)' \subseteq Elements(log),
         batch' \subseteq Inserted(wal)', marking' \subseteq Elements(log)
  PROVE  RelayInv' /\ SentIsPublished' /\ NothingSkipped'
<1>1. Elements(log)' = Elements(log) /\ UNCHANGED <<log, position, handled>>
  BY DEF Elements, consumerVars
<1> QED BY <1>1 DEF OutboxInv, RelayInv, SentIsPublished, NothingSkipped

\* Every step of the service, the relay, the replica and the consumer keeps the
\* invariant.
LEMMA OutboxStep == OutboxInv /\ [Next]_vars => OutboxInv'
<1> SUFFICES ASSUME OutboxInv, [Next]_vars PROVE OutboxInv'
  OBVIOUS
<1> USE FaultsAssumption
<1>0. TypeOK
  BY DEF OutboxInv
<1>a. /\ wal \in Seq({"insert", "sent"} \X Events) /\ log \in Seq(Events)
      /\ Len(wal) \in Nat /\ Len(log) \in Nat
  BY <1>0 DEF TypeOK
<1>b. ASSUME UNCHANGED wal
      PROVE  Inserted(wal)' = Inserted(wal) /\ Sent(wal)' = Sent(wal)
  BY <1>b DEF Inserted, Sent, Elements
<1>c. /\ batch \subseteq Inserted(wal) /\ marking \subseteq Elements(log)
      /\ Sent(wal) \subseteq Elements(log)
  BY DEF OutboxInv, RelayInv, SentIsPublished
<1>d. ASSUME TypeOK', UNCHANGED <<wal, log, consumerVars>>,
             batch' \subseteq Inserted(wal), marking' \subseteq marking
      PROVE  OutboxInv'
  <2>1. RelayInv' /\ SentIsPublished' /\ NothingSkipped'
    BY <1>a, <1>b, <1>c, <1>d, DatabaseStep
  <2> QED BY <1>d, <2>1 DEF OutboxInv
<1>1. CASE UNCHANGED vars
  <2>1. TypeOK'
    BY <1>0, <1>1 DEF TypeOK, vars
  <2> QED BY <1>1, <1>c, <1>d, <2>1 DEF vars, consumerVars
<1>2. ASSUME NEW e \in Events, WriteEvent(e) \/ Rollback(e) PROVE OutboxInv'
  <2>1. UNCHANGED <<wal, applied, relayVars, log, consumerVars, stale>>
    BY <1>2 DEF WriteEvent, Rollback
  <2>2. TypeOK'
    <3>1. clock' \in Nat /\ created' \in [Events -> Nat] /\ faults' \in 0..MaxFault
      <4>1. CASE WriteEvent(e)
        BY <1>0, <4>1 DEF TypeOK, WriteEvent, Fine
      <4>2. CASE Rollback(e)
        BY <1>0, <4>2 DEF TypeOK, Rollback, Fault
      <4> QED BY <1>2, <4>1, <4>2
    <3> QED BY <1>0, <2>1, <3>1 DEF TypeOK, relayVars, consumerVars
  <2> QED BY <1>c, <1>d, <2>1, <2>2 DEF relayVars
<1>3. ASSUME NEW e \in Events, Commit(e) PROVE OutboxInv'
  <2>1. /\ wal' \in Seq({"insert", "sent"} \X Events) /\ Len(wal') = Len(wal) + 1
        /\ Inserted(wal)' = Inserted(wal) \union {e} /\ Sent(wal)' = Sent(wal)
    BY <1>0, <1>3, ChangeStep DEF Commit
  <2>2. TypeOK'
    BY <1>0, <1>3, <1>a, <2>1 DEF TypeOK, Commit, Fine, relayVars, consumerVars
  <2>3. UNCHANGED <<batch, marking, log, consumerVars>>
    BY <1>3 DEF Commit, relayVars
  <2>4. RelayInv' /\ SentIsPublished' /\ NothingSkipped'
    BY <1>c, <2>1, <2>3, DatabaseStep
  <2> QED BY <2>2, <2>4 DEF OutboxInv
<1>4. CASE Replicate
  <2>1. TypeOK'
    BY <1>0, <1>4, <1>a DEF TypeOK, Replicate, Fine, relayVars, consumerVars
  <2> QED BY <1>4, <1>c, <1>d, <2>1 DEF Replicate, relayVars
<1>5. CASE Query
  <2>1. batch' \subseteq Inserted(wal)
    BY <1>0, <1>5, ViewIsPrefix DEF Query, Unsent
  <2>2. Inserted(wal) \subseteq Events
    BY DEF Inserted
  <2>3. marking = {}
    BY <1>0, <1>5 DEF TypeOK, Query
  <2>4. TypeOK'
    BY <1>0, <1>5, <2>1, <2>2, <2>3 DEF TypeOK, Query, Fine, dbVars, consumerVars
  <2> QED BY <1>5, <1>d, <2>1, <2>4 DEF Query, dbVars
<1>6. ASSUME NEW e \in Events, Publish(e) \/ PublishFails(e) PROVE OutboxInv'
  <2>1. /\ e \in batch /\ marking = {}
        /\ log' \in {log, Append(log, e), Append(Append(log, e), e)}
        /\ UNCHANGED <<dbVars, consumerVars, stale>>
        /\ batch' \subseteq batch
        /\ marking' \subseteq batch' /\ marking' \subseteq {e}
        /\ marking' # {} => log' # log
    <3>1. log # Append(log, e) /\ log # Append(Append(log, e), e)
      BY <1>a
    <3>2. CASE Publish(e)
      BY <3>1, <3>2 DEF Publish, IsNext
    <3>3. CASE PublishFails(e)
      BY <3>3 DEF PublishFails, IsNext
    <3> QED BY <1>6, <3>2, <3>3
  <2>2. /\ log' \in Seq(Events)
        /\ position' \in 0..Len(log') /\ committed' \in 0..position'
        /\ handled' \subseteq 1..Len(log')
        /\ applied' \in 0..Len(wal')
        /\ SentIsPublished' /\ NothingSkipped'
        /\ Elements(log) \subseteq Elements(log)'
        /\ log' # log => e \in Elements(log)'
    BY <2>1, PublishStep
  <2>3. faults' \in 0..MaxFault
    BY <1>0, <1>6 DEF TypeOK, Publish, PublishFails, Fine, Fault
  <2>4. TypeOK'
    BY <1>0, <2>1, <2>2, <2>3 DEF TypeOK, dbVars
  <2>5. Inserted(wal)' = Inserted(wal)
    BY <1>b, <2>1 DEF dbVars
  <2>6. RelayInv'
    BY <1>c, <2>1, <2>2, <2>5 DEF RelayInv
  <2> QED BY <2>2, <2>4, <2>6 DEF OutboxInv
<1>7. ASSUME NEW e \in Events, Mark(e) PROVE OutboxInv'
  <2>1. /\ wal' \in Seq({"insert", "sent"} \X Events) /\ Len(wal') = Len(wal) + 1
        /\ Inserted(wal)' = Inserted(wal) /\ Sent(wal)' = Sent(wal) \union {e}
    BY <1>0, <1>7, ChangeStep DEF Mark
  <2>2. /\ batch' \subseteq batch /\ marking' = {} /\ e \in Elements(log)
        /\ UNCHANGED <<log, consumerVars>>
    BY <1>7, <1>c DEF Mark
  <2>3. TypeOK'
    BY <1>0, <1>7, <1>a, <2>1, <2>2 DEF TypeOK, Mark, Fine, consumerVars
  <2>4. RelayInv' /\ SentIsPublished' /\ NothingSkipped'
    BY <1>c, <2>1, <2>2, DatabaseStep
  <2> QED BY <2>3, <2>4 DEF OutboxInv
<1>8. ASSUME NEW e \in Events, MarkFails(e) PROVE OutboxInv'
  <2>1. TypeOK'
    BY <1>0, <1>8 DEF TypeOK, MarkFails, Fault, dbVars, consumerVars
  <2> QED BY <1>8, <1>c, <1>d, <2>1 DEF MarkFails, dbVars
<1>9. CASE RelayDies
  <2>1. TypeOK'
    BY <1>0, <1>9 DEF TypeOK, RelayDies, Fault, dbVars, consumerVars
  <2> QED BY <1>9, <1>d, <2>1 DEF RelayDies, dbVars
<1>10. ASSUME Handle \/ CommitOffset \/ Reassign PROVE OutboxInv'
  <2>1. UNCHANGED <<clock, created, wal, applied, batch, marking, log, stale>>
    BY <1>10 DEF Handle, CommitOffset, Reassign, dbVars, relayVars
  <2>2. /\ position' \in 0..Len(log) /\ committed' \in 0..position'
        /\ handled' \subseteq 1..Len(log) /\ 1..position' \subseteq handled'
    <3>1. /\ position \in 0..Len(log) /\ committed \in 0..position
          /\ handled \subseteq 1..Len(log) /\ 1..position \subseteq handled
      BY <1>0 DEF OutboxInv, TypeOK, NothingSkipped
    <3>2. CASE Handle
      BY <1>a, <3>1, <3>2 DEF Handle
    <3>3. CASE CommitOffset
      BY <1>a, <3>1, <3>3 DEF CommitOffset
    <3>4. CASE Reassign
      BY <1>a, <3>1, <3>4 DEF Reassign
    <3> QED BY <1>10, <3>2, <3>3, <3>4
  <2>3. faults' \in 0..MaxFault
    BY <1>0, <1>10 DEF TypeOK, Handle, CommitOffset, Reassign, Fine, Fault
  <2>4. TypeOK'
    BY <1>0, <2>1, <2>2, <2>3 DEF TypeOK
  <2>5. Elements(log)' = Elements(log)
    BY <2>1 DEF Elements
  <2>6. RelayInv' /\ SentIsPublished' /\ NothingSkipped'
    BY <1>b, <2>1, <2>2, <2>5 DEF OutboxInv, RelayInv, SentIsPublished, NothingSkipped
  <2> QED BY <2>4, <2>6 DEF OutboxInv
<1> QED BY <1>1, <1>2, <1>3, <1>4, <1>5, <1>6, <1>7, <1>8, <1>9, <1>10
       DEF Next, Relay

\* Nothing is written, published or handled at the start.
LEMMA OutboxStart == Init => OutboxInv
<1> SUFFICES ASSUME Init PROVE OutboxInv
  OBVIOUS
<1>1. /\ wal = <<>> /\ log = <<>> /\ position = 0 /\ committed = 0 /\ handled = {}
      /\ batch = {} /\ marking = {} /\ Len(wal) = 0 /\ Len(log) = 0
  BY DEF Init
<1>2. TypeOK
  BY <1>1, FaultsAssumption DEF Init, TypeOK
<1>3. Elements(log) = {} /\ Elements(wal) = {}
  BY <1>1 DEF Elements
<1> QED BY <1>1, <1>2, <1>3
       DEF OutboxInv, RelayInv, SentIsPublished, NothingSkipped, Inserted, Sent

-----------------------------------------------------------------------------
(* Published once, and in order                                             *)

\* A row is created before it is committed, and the relay marks one at a time.
Created == \A e \in Inserted(wal) : created[e] > 0
MarksOne == \A d, e \in marking : d = e

\* An event that is neither marked nor about to be, and one that the relay is about
\* to publish, have one copy less than is paid for.
Again(e) == e \notin Sent(wal) \union marking \/ e \in batch \ marking

Paid ==
  \A e \in Events : /\ Count(log, 0, e) <= 1 + faults + stale
                    /\ Again(e) => Count(log, 0, e) <= faults + stale

\* Every row older than one of the batch is in the batch or published.
OldestFirst ==
  \A e \in batch, d \in Inserted(wal) \ batch :
    created[d] < created[e] => d \in Elements(log)

PublishedInOrder == faults = 0 /\ CommittedInOrder => InOrder /\ OldestFirst

DeliveryInv == Created /\ MarksOne /\ Paid /\ PublishedInOrder

\* What Publish does when nothing fails.
PublishFine(e) ==
  /\ IsNext(e)
  /\ marking' = {e} /\ log' = Append(log, e)
  /\ UNCHANGED <<dbVars, batch, consumerVars, stale>>

\* The steps at which nothing fails.
LEMMA FineSteps ==
  ASSUME TypeOK, Next, faults' = 0
  PROVE  /\ faults = 0
         /\ \/ \E e \in Events : WriteEvent(e) \/ Commit(e) \/ PublishFine(e) \/ Mark(e)
            \/ Query \/ Replicate \/ Handle \/ CommitOffset
<1>1. faults \in Nat
  BY FaultsAssumption DEF TypeOK
<1>2. ~Fault /\ (Fine => faults = 0)
  BY <1>1 DEF Fault, Fine
<1>3. /\ \A e \in Events : ~Rollback(e) /\ ~PublishFails(e) /\ ~MarkFails(e)
      /\ ~RelayDies /\ ~Reassign
  BY <1>2 DEF Rollback, PublishFails, MarkFails, RelayDies, Reassign
<1>4. \A e \in Events : Publish(e) => Fine /\ PublishFine(e)
  BY <1>2 DEF Publish, PublishFine
<1>5. ASSUME NEW e \in Events, WriteEvent(e) \/ Commit(e) \/ Publish(e) \/ Mark(e)
      PROVE  faults = 0
  BY <1>2, <1>4, <1>5 DEF WriteEvent, Commit, Mark
<1>6. Query \/ Replicate \/ Handle \/ CommitOffset => faults = 0
  BY <1>2 DEF Query, Replicate, Handle, CommitOffset
<1> QED BY <1>3, <1>4, <1>5, <1>6 DEF Next, Relay

\* What Commit, Mark and the others do to the rows, as sets.
LEMMA RowsStep ==
  ASSUME TypeOK, NEW e \in Events
  PROVE  /\ Commit(e) => /\ Inserted(wal)' = Inserted(wal) \union {e}
                         /\ Sent(wal)' = Sent(wal) /\ Elements(log)' = Elements(log)
         /\ Mark(e) => /\ Inserted(wal)' = Inserted(wal)
                       /\ Sent(wal)' = Sent(wal) \union {e}
                       /\ Elements(log)' = Elements(log)
         /\ UNCHANGED wal => /\ Inserted(wal)' = Inserted(wal)
                             /\ Sent(wal)' = Sent(wal)
         /\ UNCHANGED log => Elements(log)' = Elements(log)
         /\ PublishFine(e) => Elements(log)' = Elements(log) \union {e}
<1>1. Commit(e) => /\ Inserted(wal)' = Inserted(wal) \union {e}
                   /\ Sent(wal)' = Sent(wal) /\ UNCHANGED log
  BY ChangeStep DEF Commit
<1>2. Mark(e) => /\ Inserted(wal)' = Inserted(wal)
                 /\ Sent(wal)' = Sent(wal) \union {e} /\ UNCHANGED log
  BY ChangeStep DEF Mark
<1>3. UNCHANGED wal => Inserted(wal)' = Inserted(wal) /\ Sent(wal)' = Sent(wal)
  BY DEF Inserted, Sent, Elements
<1>4. UNCHANGED log => Elements(log)' = Elements(log)
  BY DEF Elements
<1>5. PublishFine(e) => Elements(log)' = Elements(log) \union {e}
  <2>1. Elements(Append(log, e)) = Elements(log) \union {e}
    BY AppendMessage DEF TypeOK
  <2>2. Elements(log)' = Elements(log')
    BY DEF Elements
  <2> QED BY <2>1, <2>2 DEF PublishFine
<1> QED BY <1>1, <1>2, <1>3, <1>4, <1>5

LEMMA CreatedStep ==
  ASSUME TypeOK, Created, MarksOne, [Next]_vars
  PROVE  Created' /\ MarksOne'
<1>a. created \in [Events -> Nat] /\ clock \in Nat
  BY DEF TypeOK
<1>b. Inserted(wal) \subseteq Events
  BY DEF Inserted
<1>1. MarksOne'
  BY DEF MarksOne, Next, Relay, vars, WriteEvent, Commit, Rollback, Replicate, Query,
         RelayDies, Publish, Mark, PublishFails, MarkFails, Handle, CommitOffset,
         Reassign, relayVars
<1>2. ASSUME NEW e \in Events, WriteEvent(e) \/ Rollback(e) PROVE Created'
  <2>1. UNCHANGED wal /\ e \notin Inserted(wal)
    BY <1>2, <1>a DEF WriteEvent, Rollback, Created
  <2>2. \A d \in Events \ {e} : created'[d] = created[d]
    BY <1>2, <1>a DEF WriteEvent, Rollback
  <2>3. Inserted(wal)' = Inserted(wal)
    BY <2>1 DEF Inserted, Elements
  <2> QED BY <1>b, <2>1, <2>2, <2>3 DEF Created
<1>3. ASSUME NEW e \in Events, Commit(e) PROVE Created'
  BY <1>3, RowsStep DEF Commit, Created
<1>4. ASSUME NEW e \in Events, Mark(e) PROVE Created'
  BY <1>4, RowsStep DEF Mark, Created
<1>5. ASSUME UNCHANGED <<created, wal>> PROVE Created'
  BY <1>5 DEF Created, Inserted, Elements
<1>6. ASSUME \/ UNCHANGED vars \/ Replicate \/ Query \/ RelayDies \/ Handle
             \/ CommitOffset \/ Reassign
             \/ \E e \in Events : Publish(e) \/ PublishFails(e) \/ MarkFails(e)
      PROVE  UNCHANGED <<created, wal>>
  BY <1>6 DEF vars, Replicate, Query, RelayDies, Handle, CommitOffset, Reassign,
              Publish, PublishFails, MarkFails, dbVars
<1> QED BY <1>1, <1>2, <1>3, <1>4, <1>5, <1>6 DEF Next, Relay

\* A copy more is paid for when it is published, or beforehand by the fault or the
\* stale query that makes the relay publish again.
LEMMA PaidStep ==
  ASSUME TypeOK, MarksOne, Paid, [Next]_vars, NEW x \in Events
  PROVE  /\ Count(log, 0, x)' <= 1 + faults' + stale'
         /\ Again(x)' => Count(log, 0, x)' <= faults' + stale'
<1> DEFINE n == Count(log, 0, x)
           Goal == /\ n' <= 1 + faults' + stale'
                   /\ Again(x)' => n' <= faults' + stale'
<1> SUFFICES Goal
  OBVIOUS
<1>a. /\ log \in Seq(Events) /\ marking \subseteq batch
      /\ faults \in Nat /\ stale \in Nat /\ 0 \in 0..Len(log)
  BY FaultsAssumption DEF TypeOK
<1>b. /\ n \in Nat /\ n <= 1 + faults + stale
      /\ Again(x) => n <= faults + stale
  BY <1>a, CountType DEF Paid
<1>c. UNCHANGED wal => Sent(wal)' = Sent(wal)
  BY DEF Sent, Elements
<1>d. UNCHANGED log => n' = n
  BY DEF Count
<1>e. ASSUME NEW e \in Events, log' = Append(log, e)
      PROVE  n' = n + IF x = e THEN 1 ELSE 0
  <2>1. Count(Append(log, e), 0, x) = n + IF x = e THEN 1 ELSE 0
    BY <1>a, CountAppend
  <2> QED BY <1>e, <2>1 DEF Count
<1>f. ASSUME NEW e \in Events, log' = Append(Append(log, e), e)
      PROVE  n' = n + IF x = e THEN 2 ELSE 0
  <2> DEFINE once == Append(log, e)
  <2>1. once \in Seq(Events) /\ 0 \in 0..Len(once)
    BY <1>a, AppendMessage
  <2>2. Count(once, 0, x) = n + IF x = e THEN 1 ELSE 0
    BY <1>a, CountAppend
  <2> HIDE DEF once
  <2>3. Count(Append(once, e), 0, x) = Count(once, 0, x) + IF x = e THEN 1 ELSE 0
    BY <2>1, CountAppend
  <2>4. n' = Count(Append(once, e), 0, x)
    BY <1>f DEF once, Count
  <2> QED BY <1>b, <2>2, <2>3, <2>4
<1> HIDE DEF n
<1>1. ASSUME UNCHANGED <<log, faults, stale>>, Again(x)' => Again(x) PROVE Goal
  BY <1>1, <1>b, <1>d
<1>2. ASSUME UNCHANGED <<log, stale>>, faults' = faults + 1 PROVE Goal
  BY <1>2, <1>a, <1>b, <1>d
<1>3. CASE \/ UNCHANGED vars \/ Replicate \/ Handle \/ CommitOffset
           \/ \E e \in Events : WriteEvent(e) \/ Commit(e)
  <2>1. /\ UNCHANGED <<log, batch, marking, faults, stale>>
    BY <1>3 DEF vars, Replicate, Handle, CommitOffset, WriteEvent, Commit, relayVars, Fine
  <2>2. Sent(wal)' = Sent(wal)
    <3>1. ASSUME NEW e \in Events, Commit(e) PROVE Sent(wal)' = Sent(wal)
      BY <3>1, RowsStep
    <3>2. CASE UNCHANGED wal
      BY <1>c, <3>2
    <3> QED BY <1>3, <3>1, <3>2
            DEF vars, Replicate, Handle, CommitOffset, WriteEvent, dbVars
  <2> QED BY <1>1, <2>1, <2>2 DEF Again
<1>4. CASE \/ RelayDies \/ Reassign
           \/ \E e \in Events : Rollback(e) \/ MarkFails(e)
  BY <1>2, <1>4 DEF RelayDies, Reassign, Rollback, MarkFails, Fault
<1>5. CASE Query
  <2>1. /\ UNCHANGED <<log, wal, faults>> /\ marking = {} /\ marking' = {}
        /\ \/ batch' \intersect Sent(wal) = {} /\ stale' = stale
           \/ stale' = stale + 1
    BY <1>5, <1>a DEF Query, dbVars, Fine
  <2>2. CASE batch' \intersect Sent(wal) = {} /\ stale' = stale
    <3>1. Again(x)' => Again(x)
      BY <1>c, <2>1, <2>2 DEF Again
    <3> QED BY <1>1, <2>1, <2>2, <3>1
  <2>3. CASE stale' = stale + 1
    BY <1>a, <1>b, <1>d, <2>1, <2>3
  <2> QED BY <2>1, <2>2, <2>3
<1>6. ASSUME NEW e \in Events, Publish(e) PROVE Goal
  <2>1. /\ e \in batch /\ marking = {} /\ marking' = {e} /\ UNCHANGED <<wal, batch, stale>>
        /\ \/ log' = Append(log, e) /\ faults' = faults
           \/ log' = Append(Append(log, e), e) /\ faults' = faults + 1
    BY <1>6 DEF Publish, IsNext, Fine, Fault, dbVars
  <2>2. CASE x = e
    <3>1. Again(x) /\ ~Again(x)'
      BY <2>1, <2>2 DEF Again
    <3>2. \/ n' = n + 1 /\ faults' = faults
          \/ n' = n + 2 /\ faults' = faults + 1
      BY <1>e, <1>f, <2>1, <2>2
    <3> QED BY <1>a, <1>b, <2>1, <3>1, <3>2
  <2>3. CASE x # e
    <3>1. Again(x)' => Again(x)
      BY <1>c, <2>1, <2>3 DEF Again
    <3>2. n' = n
      BY <1>b, <1>e, <1>f, <2>1, <2>3
    <3> QED BY <1>a, <1>b, <2>1, <3>1, <3>2
  <2> QED BY <2>2, <2>3
<1>7. ASSUME NEW e \in Events, PublishFails(e) PROVE Goal
  <2>1. /\ e \in batch /\ marking = {} /\ UNCHANGED stale
        /\ log' = log \/ log' = Append(log, e)
        /\ faults' = faults + 1
    BY <1>7 DEF PublishFails, IsNext, Fault
  <2>2. CASE x = e
    <3>1. Again(x)
      BY <2>1, <2>2 DEF Again
    <3>2. n' <= n + 1 /\ n' \in Nat
      BY <1>b, <1>d, <1>e, <2>1, <2>2
    <3> QED BY <1>a, <1>b, <2>1, <3>1, <3>2
  <2>3. CASE x # e
    <3>1. n' = n
      BY <1>b, <1>d, <1>e, <2>1, <2>3
    <3> QED BY <1>a, <1>b, <2>1, <3>1
  <2> QED BY <2>2, <2>3
<1>8. ASSUME NEW e \in Events, Mark(e) PROVE Goal
  <2>1. /\ marking = {e} /\ marking' = {} /\ batch' = batch \ {e}
        /\ UNCHANGED <<log, faults, stale>>
    BY <1>8 DEF Mark, MarksOne, Fine
  <2>2. Sent(wal)' = Sent(wal) \union {e}
    BY <1>8, RowsStep
  <2>3. Again(x)' => Again(x)
    BY <2>1, <2>2 DEF Again
  <2> QED BY <1>1, <2>1, <2>3
<1> QED BY <1>3, <1>4, <1>5, <1>6, <1>7, <1>8 DEF Next, Relay

\* Where a row has been committed.
LEMMA InsertedAt ==
  ASSUME TypeOK
  PROVE  /\ \A e \in Inserted(wal) : \E n \in DOMAIN wal : wal[n] = <<"insert", e>>
         /\ \A n \in DOMAIN wal : wal[n][1] = "insert" =>
              wal[n][2] \in Inserted(wal) /\ wal[n] = <<"insert", wal[n][2]>>
<1> DEFINE T == {"insert", "sent"} \X Events
<1>1. wal \in Seq(T)
  BY DEF TypeOK
<1>2. ASSUME NEW n \in DOMAIN wal PROVE wal[n] \in T
  <2> HIDE DEF T
  <2> QED BY <1>1
<1>3. \A n \in DOMAIN wal : wal[n] \in Elements(wal)
  BY DEF Elements
<1>4. ASSUME NEW n \in DOMAIN wal, wal[n][1] = "insert"
      PROVE  wal[n][2] \in Inserted(wal) /\ wal[n] = <<"insert", wal[n][2]>>
  <2>1. wal[n] = <<"insert", wal[n][2]>> /\ wal[n][2] \in Events
    BY <1>2, <1>4
  <2> QED BY <1>3, <2>1 DEF Inserted
<1>5. ASSUME NEW e \in Inserted(wal)
      PROVE  \E n \in DOMAIN wal : wal[n] = <<"insert", e>>
  BY DEF Inserted, Elements
<1> QED BY <1>4, <1>5

\* Transactions that have committed in order so far had done so before.
LEMMA InOrderBefore ==
  ASSUME TypeOK, NEW x \in {"insert", "sent"} \X Events,
         wal' \in {wal, Append(wal, x)},
         \A d \in Inserted(wal) : created'[d] = created[d],
         CommittedInOrder'
  PROVE  CommittedInOrder
<1>1. /\ Len(wal) \in Nat /\ DOMAIN wal = 1..Len(wal)
      /\ DOMAIN wal \subseteq DOMAIN wal'
      /\ \A n \in DOMAIN wal : wal'[n] = wal[n]
  <2> DEFINE T == {"insert", "sent"} \X Events
  <2>1. wal \in Seq(T) /\ x \in T
    BY DEF TypeOK
  <2> HIDE DEF T
  <2> QED BY <2>1
<1> SUFFICES ASSUME NEW m \in DOMAIN wal, NEW n \in DOMAIN wal,
                    wal[m][1] = "insert", wal[n][1] = "insert", m < n
             PROVE  created[wal[m][2]] < created[wal[n][2]]
  BY DEF CommittedInOrder
<1>2. wal[m][2] \in Inserted(wal) /\ wal[n][2] \in Inserted(wal)
  BY InsertedAt
<1>3. created'[wal[m][2]] < created'[wal[n][2]]
  BY <1>1 DEF CommittedInOrder
<1> QED BY <1>2, <1>3

\* A transaction that commits in order is the youngest.
LEMMA CommitsYoungest ==
  ASSUME TypeOK, NEW e \in Events, Commit(e), CommittedInOrder', NEW d \in Inserted(wal)
  PROVE  created[d] < created[e]
<1> DEFINE T == {"insert", "sent"} \X Events
           x == <<"insert", e>>
           k == Len(wal) + 1
<1>1. wal \in Seq(T) /\ x \in T /\ wal' = Append(wal, x) /\ created' = created
  BY DEF TypeOK, Commit
<1>2. PICK m \in DOMAIN wal : wal[m] = <<"insert", d>>
  BY InsertedAt
<1>3. /\ m \in DOMAIN wal' /\ wal'[m] = wal[m]
      /\ k \in DOMAIN wal' /\ wal'[k] = x /\ m < k
  <2> HIDE DEF T, x
  <2> QED BY <1>1
<1>4. wal'[m][1] = "insert" /\ wal'[k][1] = "insert" /\ wal'[m][2] = d /\ wal'[k][2] = e
  BY <1>2, <1>3
<1> QED BY <1>1, <1>3, <1>4 DEF CommittedInOrder

\* A row that the relay's view does not have yet is younger than those it has.
LEMMA ViewHasOldest ==
  ASSUME TypeOK, CommittedInOrder, NEW e \in Inserted(View),
         NEW d \in Inserted(wal) \ Inserted(View)
  PROVE  created[e] < created[d]
<1>1. CASE ~Replicated
  BY <1>1 DEF View
<1>2. CASE Replicated
  <2> DEFINE T == {"insert", "sent"} \X Events
  <2>1. wal \in Seq(T) /\ applied \in 0..Len(wal)
    BY DEF TypeOK
  <2> HIDE DEF T
  <2>2. /\ DOMAIN View = 1..applied
        /\ \A i \in 1..applied : View[i] = wal[i]
        /\ 1..applied \subseteq DOMAIN wal /\ DOMAIN wal = 1..Len(wal)
        /\ Len(wal) \in Nat /\ applied \in Nat
    BY <1>2, <2>1 DEF View
  <2>3. PICK m \in 1..applied : wal[m] = <<"insert", e>>
    BY <2>2 DEF Inserted, Elements
  <2>4. PICK n \in DOMAIN wal : wal[n] = <<"insert", d>>
    BY InsertedAt
  <2>5. n \notin 1..applied
    <3>1. d \in Events /\ <<"insert", d>> \notin Elements(View)
      BY DEF Inserted
    <3> QED BY <2>2, <2>4, <3>1 DEF Elements
  <2>6. m \in DOMAIN wal /\ m < n
    BY <2>2, <2>5
  <2> QED BY <2>3, <2>4, <2>6 DEF CommittedInOrder
<1> QED BY <1>1, <1>2, SplitAssumption

\* A message that is appended behind all it has to follow keeps the order.
LEMMA BehindAppend ==
  ASSUME TypeOK, NEW e \in Events, PublishFine(e), NEW d, NEW f,
         Behind(d, f), f = e => d \in Elements(log)
  PROVE  Behind(d, f)'
<1>1. /\ DOMAIN log = 1..Len(log) /\ Len(log) \in Nat
      /\ DOMAIN log' = 1..Len(log) + 1 /\ log'[Len(log) + 1] = e
      /\ \A k \in 1..Len(log) : log'[k] = log[k]
  BY DEF TypeOK, PublishFine
<1> SUFFICES ASSUME NEW n \in DOMAIN log', log'[n] = f
             PROVE  \E m \in 1..n : log'[m] = d
  BY DEF Behind
<1>2. CASE n \in 1..Len(log)
  <2>1. PICK m \in 1..n : log[m] = d
    BY <1>1, <1>2 DEF Behind
  <2> QED BY <1>1, <1>2, <2>1
<1>3. CASE n = Len(log) + 1
  <2>1. PICK m \in 1..Len(log) : log[m] = d
    BY <1>1, <1>3 DEF Elements
  <2> QED BY <1>1, <1>3, <2>1
<1> QED BY <1>1, <1>2, <1>3

\* A row that is not in the log is behind every other.
LEMMA BehindAbsent ==
  ASSUME NEW d, NEW e, e \notin Elements(log)
  PROVE  Behind(d, e)
BY DEF Behind, Elements

\* As long as nothing fails and transactions commit in order, the relay publishes
\* in order: it always publishes the oldest row that is not in the log.
LEMMA OrderStep ==
  ASSUME OutboxInv, Created, PublishedInOrder, Next
  PROVE  PublishedInOrder'
<1> SUFFICES ASSUME faults' = 0, CommittedInOrder'
             PROVE  InOrder' /\ OldestFirst'
  BY DEF PublishedInOrder
<1>a. TypeOK /\ faults = 0
  BY FineSteps DEF OutboxInv
<1>b. /\ batch \subseteq Inserted(wal) /\ Elements(log) \subseteq Inserted(wal)
      /\ Sent(wal) \subseteq Elements(log) /\ Inserted(wal) \subseteq Events
      /\ created \in [Events -> Nat]
  BY <1>a DEF OutboxInv, RelayInv, SentIsPublished, Inserted, TypeOK
<1>c. CommittedInOrder => InOrder /\ OldestFirst
  BY <1>a DEF PublishedInOrder
<1>1. ASSUME UNCHANGED <<wal, batch, log>>,
             \A d \in Inserted(wal) : created'[d] = created[d]
      PROVE  InOrder' /\ OldestFirst'
  <2>1. CommittedInOrder
    BY <1>1, <1>a, InsertedAt DEF CommittedInOrder
  <2>2. Inserted(wal)' = Inserted(wal) /\ Elements(log)' = Elements(log)
        /\ \A d, e : Behind(d, e)' = Behind(d, e)
    BY <1>1 DEF Inserted, Elements, Behind
  <2> QED BY <1>1, <1>b, <1>c, <2>1, <2>2 DEF InOrder, OldestFirst
<1>2. ASSUME NEW e \in Events, WriteEvent(e) PROVE InOrder' /\ OldestFirst'
  <2>1. e \notin Inserted(wal)
    BY <1>2 DEF WriteEvent, Created
  <2>2. \A d \in Inserted(wal) : created'[d] = created[d]
    BY <1>2, <1>b, <2>1 DEF WriteEvent
  <2> QED BY <1>1, <1>2, <2>2 DEF WriteEvent, relayVars
<1>3. ASSUME Replicate \/ Handle \/ CommitOffset PROVE InOrder' /\ OldestFirst'
  <2>1. UNCHANGED <<wal, batch, log, created>>
    BY <1>3 DEF Replicate, Handle, CommitOffset, relayVars, dbVars
  <2> QED BY <1>1, <2>1
<1>4. ASSUME NEW e \in Events, Commit(e) PROVE InOrder' /\ OldestFirst'
  <2>1. /\ e \notin Inserted(wal) /\ wal' = Append(wal, <<"insert", e>>)
        /\ UNCHANGED <<created, batch, log>>
    BY <1>4 DEF Commit, relayVars
  <2>2. Inserted(wal)' = Inserted(wal) \union {e} /\ Elements(log)' = Elements(log)
        /\ \A d, f : Behind(d, f)' = Behind(d, f)
    BY <1>4, <1>a, <2>1, RowsStep DEF Behind
  <2>3. InOrder /\ OldestFirst
    BY <1>a, <1>c, <2>1, InOrderBefore
  <2>4. \A d \in Inserted(wal) : created[d] < created[e]
    BY <1>4, <1>a, CommitsYoungest
  <2>5. \A d : Behind(d, e)
    BY <1>b, <2>1, BehindAbsent
  <2>6. \A d \in Inserted(wal) : ~(created[e] < created[d])
    BY <1>b, <1>4, <2>4
  <2>7. InOrder'
    <3> SUFFICES ASSUME NEW d \in Inserted(wal)', NEW f \in Inserted(wal)',
                        created'[d] < created'[f]
                 PROVE  Behind(d, f)'
      BY DEF InOrder
    <3>1. CASE f = e
      BY <2>2, <2>5, <3>1
    <3>2. CASE f # e
      <4>1. f \in Inserted(wal) /\ d \in Inserted(wal)
        BY <1>b, <2>1, <2>2, <2>6, <3>2
      <4> QED BY <2>1, <2>2, <2>3, <4>1 DEF InOrder
    <3> QED BY <3>1, <3>2
  <2>8. OldestFirst'
    BY <1>b, <2>1, <2>2, <2>3, <2>6 DEF OldestFirst
  <2> QED BY <2>7, <2>8
<1>5. ASSUME NEW e \in Events, PublishFine(e) PROVE InOrder' /\ OldestFirst'
  <2>1. /\ e \in batch /\ \A f \in batch : created[e] <= created[f]
        /\ UNCHANGED <<created, wal, batch>>
    BY <1>5 DEF PublishFine, IsNext, dbVars
  <2>2. /\ Inserted(wal)' = Inserted(wal) /\ Elements(log)' = Elements(log) \union {e}
    BY <1>5, <1>a, <2>1, RowsStep
  <2>3. CommittedInOrder
    BY <2>1 DEF CommittedInOrder
  <2>4. InOrder'
    <3> SUFFICES ASSUME NEW d \in Inserted(wal), NEW f \in Inserted(wal),
                        created[d] < created[f]
                 PROVE  Behind(d, f)'
      BY <2>1, <2>2 DEF InOrder
    <3>1. Behind(d, f)
      BY <1>c, <2>3 DEF InOrder
    <3>2. f = e => d \in Elements(log)
      <4>1. f = e => d \notin batch
        BY <1>b, <2>1
      <4> QED BY <1>c, <2>1, <2>3, <4>1 DEF OldestFirst
    <3> QED BY <1>5, <1>a, <3>1, <3>2, BehindAppend
  <2>5. OldestFirst'
    BY <1>c, <2>1, <2>2, <2>3 DEF OldestFirst
  <2> QED BY <2>4, <2>5
<1>6. ASSUME NEW e \in Events, Mark(e) PROVE InOrder' /\ OldestFirst'
  <2>1. /\ wal' = Append(wal, <<"sent", e>>) /\ UNCHANGED <<created, log>>
        /\ batch' = batch \ {e} /\ e \in Elements(log)
    BY <1>6 DEF Mark, OutboxInv, RelayInv
  <2>2. Inserted(wal)' = Inserted(wal) /\ Elements(log)' = Elements(log)
        /\ \A d, f : Behind(d, f)' = Behind(d, f)
    BY <1>6, <1>a, <2>1, RowsStep DEF Behind
  <2>3. InOrder /\ OldestFirst
    BY <1>a, <1>c, <2>1, InOrderBefore
  <2> QED BY <2>1, <2>2, <2>3 DEF InOrder, OldestFirst
<1>7. ASSUME Query PROVE InOrder' /\ OldestFirst'
  <2>1. /\ batch' \subseteq Unsent(View) /\ IsBatch(batch', Unsent(View))
        /\ UNCHANGED <<created, wal, log>>
    BY <1>7 DEF Query, dbVars
  <2>2. /\ Inserted(wal)' = Inserted(wal) /\ Elements(log)' = Elements(log)
        /\ \A d, f : Behind(d, f)' = Behind(d, f)
    BY <2>1 DEF Inserted, Elements, Behind
  <2>3. CommittedInOrder
    BY <2>1 DEF CommittedInOrder
  <2>4. Sent(View) \subseteq Sent(wal)
    BY <1>a, ViewIsPrefix DEF Sent
  <2>5. OldestFirst'
    <3> SUFFICES ASSUME NEW e \in batch', NEW d \in Inserted(wal) \ batch',
                        created[d] < created[e]
                 PROVE  d \in Elements(log)
      BY <2>1, <2>2 DEF OldestFirst
    <3>1. e \in Inserted(View) /\ e \in Events /\ d \in Events
      BY <2>1 DEF Unsent, Inserted
    <3>2. d \in Inserted(View)
      <4>1. ~(created[e] < created[d])
        BY <1>b, <3>1
      <4> QED BY <1>a, <2>3, <3>1, <4>1, ViewHasOldest
    <3>3. d \notin Unsent(View)
      <4>1. d \in Unsent(View) => created[e] < created[d]
        BY <2>1 DEF IsBatch
      <4> QED BY <1>b, <3>1, <4>1
    <3> QED BY <1>b, <2>4, <3>2, <3>3 DEF Unsent
  <2> QED BY <1>c, <2>1, <2>2, <2>3, <2>5 DEF InOrder
<1> QED BY <1>a, <1>2, <1>3, <1>4, <1>5, <1>6, <1>7, FineSteps

LEMMA DeliveryStart == Init => DeliveryInv
<1> SUFFICES ASSUME Init PROVE DeliveryInv
  OBVIOUS
<1>1. wal = <<>> /\ log = <<>> /\ batch = {} /\ marking = {} /\ faults = 0 /\ stale = 0
  BY DEF Init
<1>2. Elements(log) = {} /\ Elements(wal) = {} /\ DOMAIN log = {}
  BY <1>1 DEF Elements
<1>3. ASSUME NEW e PROVE Count(log, 0, e) = 0
  <2>1. Count(log, 0, e) = Cardinality({})
    BY <1>1 DEF Count
  <2> QED BY <2>1, FS_EmptySet
<1>4. Paid
  BY <1>1, <1>3 DEF Paid
<1> QED BY <1>1, <1>2, <1>4
        DEF DeliveryInv, Created, MarksOne, PublishedInOrder, InOrder, OldestFirst,
            Inserted

LEMMA DeliveryStep == OutboxInv /\ DeliveryInv /\ [Next]_vars => DeliveryInv'
<1> SUFFICES ASSUME OutboxInv, DeliveryInv, [Next]_vars PROVE DeliveryInv'
  OBVIOUS
<1>1. Created' /\ MarksOne'
  BY CreatedStep DEF OutboxInv, DeliveryInv
<1>2. Paid'
  BY PaidStep DEF OutboxInv, DeliveryInv, Paid
<1>3. PublishedInOrder'
  <2>1. CASE Next
    BY <2>1, OrderStep DEF DeliveryInv
  <2>2. CASE UNCHANGED vars
    BY <2>2 DEF vars, DeliveryInv, PublishedInOrder, CommittedInOrder, InOrder, Behind,
                OldestFirst, Elements, Inserted
  <2> QED BY <2>1, <2>2
<1> QED BY <1>1, <1>2, <1>3 DEF DeliveryInv

-----------------------------------------------------------------------------
(* The channel is a bag of events                                           *)

\* Offset by offset, what the log holds waits for the handler or was given to it.
LEMMA BagPublished ==
  ASSUME OutboxInv
  PROVE  Bag!Published = Elements(log)
<1>1. /\ log \in Seq(Events) /\ Len(log) \in Nat /\ position \in 0..Len(log)
      /\ handled \subseteq 1..Len(log) /\ 1..position \subseteq handled
      /\ DOMAIN log = 1..Len(log) /\ position \in Nat
  BY DEF OutboxInv, TypeOK, NothingSkipped
<1>2. \A x : Count(log, position, x) > 0
               <=> \E i \in (position + 1)..Len(log) : log[i] = x
  BY <1>1, CountPositive
<1>3. Bag!Published = {log[i] : i \in handled}
                        \union {x \in Events : Count(log, position, x) > 0}
  BY DEF Bag!Published
<1>4. ASSUME NEW i \in DOMAIN log PROVE log[i] \in Bag!Published
  <2>1. log[i] \in Events
    BY <1>1
  <2>2. CASE i \in 1..position
    BY <1>1, <1>3, <2>2
  <2>3. CASE i \in (position + 1)..Len(log)
    BY <1>2, <1>3, <2>1, <2>3
  <2> QED BY <1>1, <2>2, <2>3
<1>5. ASSUME NEW x \in Bag!Published PROVE \E i \in DOMAIN log : x = log[i]
  BY <1>1, <1>2, <1>3
<1> QED BY <1>4, <1>5 DEF Elements

LEMMA BagStart == Init => Bag!Init
<1> SUFFICES ASSUME Init PROVE Bag!Init
  OBVIOUS
<1>1. wal = <<>> /\ log = <<>> /\ handled = {}
  BY DEF Init
<1>2. Inserted(wal) \ Elements(log) = {}
  BY <1>1 DEF Inserted, Elements
<1>3. ASSUME NEW e \in Events PROVE Count(log, position, e) = 0
  <2>1. Count(log, position, e) = Cardinality({})
    BY <1>1 DEF Init, Count
  <2> QED BY <2>1, FS_EmptySet
<1>4. {log[i] : i \in handled} = {}
  BY <1>1
<1> QED BY <1>2, <1>3, <1>4 DEF Bag!Init

\* The copies of each event that wait for the handler.
waiting == [e \in Events |-> Count(log, position, e)]

LEMMA WaitingFunction ==
  /\ waiting = [e \in Events |-> waiting[e]] /\ waiting' = [e \in Events |-> waiting'[e]]
  /\ \A e \in Events : waiting[e] = Count(log, position, e)
                     /\ waiting'[e] = Count(log, position, e)'
BY DEF waiting

\* Publishing is sending when it is done first, and coming again when it is not.
LEMMA BagPublish ==
  ASSUME OutboxInv, NEW e \in batch, UNCHANGED <<wal, position, handled>>,
         \/ log' = Append(log, e)
         \/ log' = Append(Append(log, e), e)
  PROVE  Bag!Send(e) \/ Bag!Again
<1> DEFINE more == IF log' = Append(log, e) THEN 1 ELSE 2
<1>1. /\ log \in Seq(Events) /\ Len(log) \in Nat /\ position \in 0..Len(log)
      /\ handled \subseteq 1..Len(log) /\ e \in Events /\ e \in Inserted(wal)
  BY DEF OutboxInv, RelayInv, TypeOK
<1>2. /\ Append(log, e) \in Seq(Events) /\ Len(Append(log, e)) = Len(log) + 1
      /\ Elements(Append(log, e)) = Elements(log) \union {e}
  BY <1>1, AppendMessage
<1>3. /\ Elements(log)' = Elements(log) \union {e}
      /\ \A i \in 1..Len(log) : log'[i] = log[i]
  <2> DEFINE once == Append(log, e)
  <2>1. Elements(Append(once, e)) = Elements(once) \union {e}
    <3> HIDE DEF once
    <3> QED BY <1>1, <1>2, AppendMessage DEF once
  <2>2. Elements(log)' = Elements(log')
    BY DEF Elements
  <2>3. \A i \in 1..Len(log) : Append(once, e)[i] = log[i] /\ once[i] = log[i]
    BY <1>1
  <2> QED BY <1>2, <2>1, <2>2, <2>3
<1>4. Inserted(wal)' = Inserted(wal)
  BY DEF Inserted, Elements
<1>5. {log[i] : i \in handled}' = {log[i] : i \in handled}
  BY <1>1, <1>3
<1>6. ASSUME NEW x \in Events
      PROVE  /\ Count(log, position, x) \in Nat
             /\ Count(log, position, x)'
                  = Count(log, position, x) + IF x = e THEN more ELSE 0
  <2> DEFINE once == Append(log, e)
             n == Count(log, position, x)
  <2>0. n \in Nat
    <3>1. position \in Nat
      BY <1>1
    <3> QED BY <1>1, <3>1, CountType
  <2>1. Count(log, position, x)' = Count(log', position, x)
    BY DEF Count
  <2>2. Count(once, position, x) = n + IF x = e THEN 1 ELSE 0
    BY <1>1, CountAppend
  <2>3. Count(Append(once, e), position, x)
          = Count(once, position, x) + IF x = e THEN 1 ELSE 0
    <3>1. once \in Seq(Events) /\ position \in 0..Len(once)
      BY <1>1, <1>2
    <3> HIDE DEF once
    <3> QED BY <1>1, <3>1, CountAppend
  <2> HIDE DEF n
  <2>4. CASE log' = once
    BY <2>0, <2>1, <2>2, <2>4 DEF n
  <2>5. CASE log' # once
    <3>1. more = 2 /\ log' = Append(once, e)
      BY <2>5
    <3> HIDE DEF more, once
    <3> QED BY <2>0, <2>1, <2>2, <2>3, <3>1 DEF n
  <2> QED BY <2>4, <2>5
<1>7. more \in {1, 2}
  OBVIOUS
<1> HIDE DEF more
<1>8. CASE e \in Elements(log)
  <2>1. (Inserted(wal) \ Elements(log))' = Inserted(wal) \ Elements(log)
    BY <1>3, <1>4, <1>8
  <2>2. e \in Bag!Published
    BY <1>8, BagPublished
  <2>3. [x \in Events |-> Count(log, position, x)]' \in [Events -> Nat]
    BY <1>6, <1>7
  <2>4. \A x \in Events :
          /\ Count(log, position, x)' >= Count(log, position, x)
          /\ Count(log, position, x)' > Count(log, position, x) => x = e
    BY <1>6, <1>7
  <2>5. Bag!Again
    BY <1>5, <2>1, <2>2, <2>3, <2>4 DEF Bag!Again
  <2> QED BY <2>5
<1>9. CASE e \notin Elements(log)
  <2>1. /\ e \in Inserted(wal) \ Elements(log)
        /\ (Inserted(wal) \ Elements(log))' = (Inserted(wal) \ Elements(log)) \ {e}
    BY <1>1, <1>3, <1>4, <1>9
  <2>2. waiting' = [waiting EXCEPT ![e] = waiting[e] + more]
    BY <1>1, <1>6, WaitingFunction
  <2>3. Bag!Send(e)
    BY <1>5, <1>7, <2>1, <2>2 DEF Bag!Send, waiting
  <2> QED BY <2>3
<1> QED BY <1>8, <1>9

\* The consumer takes the next message out of the bag, or goes back to messages that
\* it has been given.
LEMMA BagConsume ==
  ASSUME OutboxInv
  PROVE  /\ Handle => \E e \in Events : Bag!Deliver(e)
         /\ Reassign => Bag!Again
<1>1. /\ log \in Seq(Events) /\ Len(log) \in Nat /\ position \in 0..Len(log)
      /\ position \in Nat /\ committed \in 0..position
      /\ handled \subseteq 1..Len(log) /\ 1..position \subseteq handled
  BY DEF OutboxInv, TypeOK, NothingSkipped
<1>2. Handle \/ Reassign => (Inserted(wal) \ Elements(log))' = Inserted(wal) \ Elements(log)
  BY DEF Handle, Reassign, dbVars, Inserted, Elements
<1>3. ASSUME NEW p \in 0..Len(log), NEW x
      PROVE  /\ Count(log, p, x) \in Nat
             /\ UNCHANGED log /\ position' = p =>
                  Count(log, position, x)' = Count(log, p, x)
  <2>0. p \in Nat
    BY <1>1
  <2>1. Count(log, p, x) \in Nat
    BY <1>1, <2>0, CountType
  <2>2. UNCHANGED log /\ position' = p => Count(log, position, x)' = Count(log, p, x)
    BY DEF Count
  <2> QED BY <2>1, <2>2
<1>4. ASSUME Handle PROVE \E e \in Events : Bag!Deliver(e)
  <2>0. PICK e : e = log[position + 1]
    OBVIOUS
  <2>1. /\ position < Len(log) /\ position' = position + 1 /\ UNCHANGED log
        /\ handled' = handled \union {position + 1}
    BY <1>4 DEF Handle
  <2>2. e \in Events
    BY <1>1, <2>0, <2>1
  <2>3. ASSUME NEW x \in Events
        PROVE  Count(log, position, x)
                 = Count(log, position, x)' + IF x = e THEN 1 ELSE 0
    BY <1>1, <1>3, <2>0, <2>1, CountNext
  <2>4. \A x \in Events : Count(log, position, x) \in Nat /\ Count(log, position, x)' \in Nat
    <3>1. position' \in 0..Len(log)
      BY <1>1, <2>1
    <3> QED BY <1>1, <1>3, <2>1, <3>1
  <2>5. {log[i] : i \in handled}' = {log[i] : i \in handled} \union {e}
    BY <2>0, <2>1
  <2>6. /\ Count(log, position, e) > 0
        /\ Count(log, position, e)' = Count(log, position, e) - 1
        /\ \A x \in Events \ {e} : Count(log, position, x)' = Count(log, position, x)
    BY <2>2, <2>3, <2>4
  <2>7. waiting' = [waiting EXCEPT ![e] = waiting[e] - 1] /\ waiting[e] > 0
    BY <2>2, <2>6, WaitingFunction
  <2>8. Bag!Deliver(e)
    BY <1>2, <1>4, <2>5, <2>7 DEF Bag!Deliver, waiting
  <2> QED BY <2>2, <2>8
<1>5. ASSUME Reassign PROVE Bag!Again
  <2>1. position' = committed /\ UNCHANGED <<log, handled>>
    BY <1>5 DEF Reassign
  <2>2. ASSUME NEW x \in Events
        PROVE  /\ Count(log, position, x)' \in Nat
               /\ Count(log, position, x)' >= Count(log, position, x)
               /\ Count(log, position, x)' > Count(log, position, x) =>
                    x \in {log[i] : i \in handled}
    <3>1. committed \in 0..Len(log) /\ 1..position \subseteq handled
      BY <1>1
    <3>2. /\ Count(log, committed, x) \in Nat
          /\ Count(log, position, x)' = Count(log, committed, x)
      BY <1>3, <2>1, <3>1
    <3>3. /\ Count(log, committed, x) >= Count(log, position, x)
          /\ Count(log, committed, x) > Count(log, position, x) =>
               \E i \in (committed + 1)..position : log[i] = x
      BY <1>1, CountBack
    <3>4. (committed + 1)..position \subseteq handled
      BY <1>1
    <3> QED BY <3>2, <3>3, <3>4
  <2>3. [x \in Events |-> Count(log, position, x)]' \in [Events -> Nat]
    BY <2>2
  <2>4. {log[i] : i \in handled}' = {log[i] : i \in handled}
    BY <2>1
  <2>5. {log[i] : i \in handled} \subseteq Bag!Published
    BY DEF Bag!Published
  <2> QED BY <1>2, <1>5, <2>2, <2>3, <2>4, <2>5 DEF Bag!Again
<1> QED BY <1>4, <1>5

\* Every step of the detailed channel is one of the bag, or none.
LEMMA BagStep == OutboxInv /\ [Next]_vars => [Bag!Next]_Bag!vars
<1> SUFFICES ASSUME OutboxInv, [Next]_vars PROVE [Bag!Next]_Bag!vars
  OBVIOUS
<1>0. TypeOK
  BY DEF OutboxInv
<1>1. ASSUME UNCHANGED <<log, position, handled>>, Inserted(wal)' = Inserted(wal)
      PROVE  UNCHANGED Bag!vars
  BY <1>1 DEF Bag!vars, Elements, Count
<1>2. ASSUME UNCHANGED <<wal, log, position, handled>>
      PROVE  UNCHANGED Bag!vars
  BY <1>1, <1>2 DEF Inserted, Elements
<1>3. CASE \/ UNCHANGED vars \/ Replicate \/ Query \/ RelayDies \/ CommitOffset
           \/ \E e \in Events : WriteEvent(e) \/ Rollback(e) \/ MarkFails(e)
  BY <1>2, <1>3 DEF vars, Replicate, Query, RelayDies, CommitOffset, WriteEvent, Rollback,
                    MarkFails, dbVars, consumerVars
<1>4. ASSUME NEW e \in Events, Mark(e) PROVE UNCHANGED Bag!vars
  BY <1>0, <1>1, <1>4, RowsStep DEF Mark, consumerVars
<1>5. ASSUME NEW e \in Events, Commit(e) PROVE Bag!Write(e)
  <2>1. /\ e \notin Inserted(wal) /\ Inserted(wal)' = Inserted(wal) \union {e}
        /\ Elements(log)' = Elements(log) /\ UNCHANGED <<log, position, handled>>
    BY <1>0, <1>5, RowsStep DEF Commit, consumerVars
  <2>2. e \notin Bag!Published /\ e \notin Elements(log)
    BY <2>1, BagPublished DEF OutboxInv, SentIsPublished
  <2>3. (Inserted(wal) \ Elements(log))' = (Inserted(wal) \ Elements(log)) \union {e}
    BY <2>1, <2>2
  <2>4. [x \in Events |-> Count(log, position, x)]' = [x \in Events |-> Count(log, position, x)]
    BY <2>1 DEF Count
  <2> QED BY <2>1, <2>2, <2>3, <2>4 DEF Bag!Write
<1>6. ASSUME NEW e \in Events, Publish(e) \/ PublishFails(e)
      PROVE  Bag!Send(e) \/ Bag!Again \/ UNCHANGED Bag!vars
  <2>1. /\ e \in batch /\ UNCHANGED <<wal, position, handled>>
        /\ \/ log' = log
           \/ log' = Append(log, e)
           \/ log' = Append(Append(log, e), e)
    BY <1>6 DEF Publish, PublishFails, IsNext, dbVars, consumerVars
  <2> QED BY <1>2, <2>1, BagPublish
<1>7. Handle \/ Reassign => Bag!Next
  BY BagConsume DEF Bag!Next
<1> QED BY <1>3, <1>4, <1>5, <1>6, <1>7 DEF Next, Relay, Bag!Next

-----------------------------------------------------------------------------
(* Theorems *)

\* The outbox invariant holds in every behavior of one channel, whatever fails.
THEOREM OutboxInvariant == Spec => []OutboxInv
<1>1. OutboxInv /\ [Next]_vars => OutboxInv'
  BY OutboxStep
<1> QED BY OutboxStart, <1>1, PTL DEF Spec

\* The variables of the channel keep their types; in particular the consumer's
\* committed offset never passes its position, nor its position the log.
THEOREM OutboxTypeCorrect == Spec => []TypeOK
BY OutboxInvariant, PTL DEF OutboxInv

\* A message exists only for a committed transaction, and a row is marked sent
\* only when its message is in the log, whatever fails or dies.
THEOREM MarkedRowsArePublished == Spec => []SentIsPublished
BY OutboxInvariant, PTL DEF OutboxInv

\* The consumer group never passes over a message that no handler was given.
THEOREM ConsumerSkipsNothing == Spec => []NothingSkipped
BY OutboxInvariant, PTL DEF OutboxInv

\* What is published, marked and still to be published fit together, when nothing
\* fails.
THEOREM DeliveryInvariant == Spec => []DeliveryInv
<1>1. OutboxInv /\ DeliveryInv /\ [Next]_vars => DeliveryInv'
  BY DeliveryStep
<1> QED BY DeliveryStart, <1>1, OutboxInvariant, PTL DEF Spec

\* The relay publishes an event once, and once more for each fault or stale query at
\* most.
THEOREM DuplicatesArePaid == Spec => []DuplicatesPaid
<1>1. DeliveryInv => DuplicatesPaid
  BY DEF DeliveryInv, Paid, DuplicatesPaid
<1> QED BY <1>1, DeliveryInvariant, PTL

\* Batches, stale queries and the lag of the replica keep the order of created_at,
\* as long as nothing fails and transactions commit in it.
THEOREM PublishesInOrder == Spec => []InOrderUnlessFault
<1>1. DeliveryInv => InOrderUnlessFault
  BY DEF DeliveryInv, PublishedInOrder, InOrderUnlessFault
<1> QED BY <1>1, DeliveryInvariant, PTL

\* The outbox table, the relay, the partition and the consumer group implement the bag
\* of events that the saga relies on.
THEOREM OutboxImplementsChannel == Spec => ChannelSafe
<1>1. Init => Bag!Init
  BY BagStart
<1>2. OutboxInv /\ [Next]_vars => [Bag!Next]_Bag!vars
  BY BagStep
<1> QED BY <1>1, <1>2, OutboxInvariant, PTL DEF Spec, Bag!Spec, ChannelSafe
=============================================================================
