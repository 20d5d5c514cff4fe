--------------------------- MODULE GatewayProofs ---------------------------
(***************************************************************************)
(* Theorems about Gateway, for any instances, requests and faults: the types*)
(* of its variables, and that the pool is Nacos' list once the gateway has  *)
(* been told of the latest change.                                         *)
(*                                                                         *)
(* What the two writers of the pool hold is tied to Nacos' list: the newest *)
(* of the pushed lists is the present one, and so is a polled one that no   *)
(* change has overtaken.                                                    *)
(***************************************************************************)
EXTENDS Gateway, TLAPS

\* Nobody is pushed to before the subscription, which is the last step of main.
Watching == /\ watched => gate = "serving"
            /\ ~watched => pushes = <<>>

\* An answer is Nacos' list until that changes.
PollCurrent == poll # Idle => (poll.old \/ poll.list = entry)

\* The latest change is in the pool or the last of the pushed lists.
ToldCurrent == told => IF pushes = <<>> THEN pool = Usable ELSE pushes[Len(pushes)] = entry

PoolInv == Watching /\ PollCurrent /\ ToldCurrent

GatewayInv == TypeOK /\ PoolInv

-----------------------------------------------------------------------------
(* Type correctness *)

LEMMA TypeInit == Init => TypeOK
<1> SUFFICES ASSUME Init PROVE TypeOK
  OBVIOUS
<1>1. /\ proc \in [Instances -> {"down", "booted", "serving"}]
      /\ registered \in [Instances -> BOOLEAN]
      /\ entry \in Lists
  BY DEF Init, Lists
<1>2. pushes \in Seq(Lists) /\ pool \subseteq Instances
  BY DEF Init
<1>3. req \in [Requests -> Instances \union {Idle, "entered"}] /\ faults \in 0..MaxFaults
  BY BoundAssumption DEF Init
<1>4. QED
  BY <1>1, <1>2, <1>3 DEF Init, TypeOK

LEMMA FaultsType ==
  ASSUME TypeOK, NoFault \/ Fault
  PROVE  faults' \in 0..MaxFaults
BY BoundAssumption DEF NoFault, Fault, Faults, TypeOK

LEMMA ChangeType ==
  ASSUME TypeOK, NEW i \in Instances, NEW state \in {"absent", "usable", "unusable"},
         NEW n \in Nat, Change(i, state, n),
         proc' \in [Instances -> {"down", "booted", "serving"}],
         registered' \in [Instances -> BOOLEAN]
  PROVE  TypeOK'
<1>1. entry' \in Lists
  BY DEF Change, TypeOK, Lists
<1>2. poll' = Idle \/ poll' \in [list : Lists, old : BOOLEAN]
  <2>1. CASE poll = Idle
    BY <2>1 DEF Change
  <2>2. CASE poll # Idle
    <3>1. poll \in [list : Lists, old : BOOLEAN] /\ poll' = [poll EXCEPT !.old = TRUE]
      BY <2>2 DEF Change, TypeOK
    <3>2. QED
      BY <3>1
  <2>3. QED
    BY <2>1, <2>2
<1>3. pushes' \in Seq(Lists) /\ told' \in BOOLEAN
  <2>1. pushes' = Append(pushes, entry') \/ pushes' = pushes
    BY DEF Change
  <2>2. pushes' \in Seq(Lists)
    BY <1>1, <2>1 DEF TypeOK
  <2>3. QED
    BY <2>2 DEF Change
<1>4. faults' \in 0..MaxFaults
  BY BoundAssumption DEF Change, Faults, TypeOK
<1>5. QED
  BY <1>1, <1>2, <1>3, <1>4 DEF Change, requests, TypeOK

LEMMA ServiceType ==
  ASSUME TypeOK, NEW i \in Instances, Service(i) \/ Nacos(i)
  PROVE  TypeOK'
<1> USE BoundAssumption
<1>1. CASE Register(i)
  <2>1. /\ proc' \in [Instances -> {"down", "booted", "serving"}]
        /\ registered' \in [Instances -> BOOLEAN]
    BY <1>1 DEF Register, Boot, TypeOK
  <2>2. QED
    BY <1>1, <2>1, ChangeType DEF Register
<1>2. CASE RegisterAgain(i)
  BY <1>2 DEF RegisterAgain, Boot, requests, TypeOK
<1>3. CASE RegisterFails(i)
  BY <1>3 DEF RegisterFails, Boot, Fault, Faults, requests, TypeOK
<1>4. CASE Run(i)
  BY <1>4 DEF Run, requests, TypeOK
<1>5. CASE Stop(i)
  BY <1>5 DEF Stop, Fault, Faults, requests, TypeOK
<1>6. CASE Expire(i)
  BY <1>6, ChangeType DEF Expire, TypeOK
<1>7. CASE Flap(i)
  BY <1>7, ChangeType DEF Flap, TypeOK
<1>8. QED
  BY <1>1, <1>2, <1>3, <1>4, <1>5, <1>6, <1>7 DEF Service, Nacos

LEMMA HealthyType == ASSUME NEW list PROVE Healthy(list) \subseteq Instances
BY DEF Healthy

LEMMA PoolType ==
  ASSUME TypeOK, Main \/ Callback \/ PollLoop
  PROVE  TypeOK'
<1>1. CASE Bootstrap
  <2>1. NoFault \/ Fault
    BY <1>1 DEF Bootstrap
  <2>2. QED
    BY <1>1, <2>1, FaultsType DEF Bootstrap, registry, requests, TypeOK
<1>2. CASE PrimePool
  <2>1. NoFault \/ Fault
    BY <1>2 DEF PrimePool
  <2>2. pool' \subseteq Instances /\ told' \in BOOLEAN
    BY <1>2, HealthyType DEF PrimePool, TypeOK
  <2>3. QED
    BY <1>2, <2>1, <2>2, FaultsType DEF PrimePool, registry, requests, TypeOK
<1>3. CASE Subscribe
  <2>1. NoFault \/ Fault
    BY <1>3 DEF Subscribe
  <2>2. QED
    BY <1>3, <2>1, FaultsType DEF Subscribe, registry, requests, TypeOK
<1>4. CASE Callback
  <2>1. pool' \subseteq Instances /\ told' \in BOOLEAN
    BY <1>4, HealthyType DEF Callback, TypeOK
  <2>2. pushes' \in Seq(Lists)
    BY <1>4 DEF Callback, TypeOK
  <2>3. QED
    BY <1>4, <2>1, <2>2 DEF Callback, registry, requests, TypeOK
<1>5. CASE PollAsks
  <2>1. poll' \in [list : Lists, old : BOOLEAN]
    BY <1>5 DEF PollAsks, TypeOK
  <2>2. QED
    BY <1>5, <2>1 DEF PollAsks, registry, requests, TypeOK
<1>6. CASE PollSets
  <2>1. told' \in BOOLEAN
    BY <1>6 DEF PollSets, TypeOK
  <2>2. pool' \subseteq Instances
    BY <1>6, HealthyType DEF PollSets
  <2>3. QED
    BY <1>6, <2>1, <2>2 DEF PollSets, registry, requests, TypeOK
<1>7. CASE PollFails
  <2>1. NoFault \/ Fault
    BY <1>7 DEF PollFails
  <2>2. QED
    BY <1>7, <2>1, FaultsType DEF PollFails, registry, requests, TypeOK
<1>8. QED
  BY <1>1, <1>2, <1>3, <1>4, <1>5, <1>6, <1>7 DEF Main, PollLoop

LEMMA RequestType ==
  ASSUME TypeOK, NEW r \in Requests, Entry(r) \/ HandleProxy(r)
  PROVE  TypeOK'
<1>1. CASE Entry(r)
  BY <1>1 DEF Entry, registry, TypeOK
<1>2. ASSUME NEW error \in BOOLEAN, Exit(r, error) PROVE TypeOK'
  BY <1>2 DEF Exit, registry, TypeOK
<1>3. CASE Pick(r)
  BY <1>3 DEF Pick, registry, TypeOK
<1>4. QED
  BY <1>1, <1>2, <1>3 DEF HandleProxy, NoInstance, Finish

LEMMA TypeStep == TypeOK /\ [Next]_vars => TypeOK'
<1> SUFFICES ASSUME TypeOK, [Next]_vars PROVE TypeOK'
  OBVIOUS
<1>1. CASE UNCHANGED vars
  BY <1>1 DEF vars, registry, requests, TypeOK
<1>2. QED
  BY <1>1, ServiceType, PoolType, RequestType DEF Next

\* Every variable keeps its type; in particular the pool holds instances of the
\* service only and a breaker has one of its three states.
THEOREM GatewayTypeCorrect == Spec => []TypeOK
BY TypeInit, TypeStep, PTL DEF Spec

-----------------------------------------------------------------------------
(* The pool *)

\* A change is pushed to the end of the pushed lists or makes told false.
LEMMA ChangeKeeps ==
  ASSUME TypeOK, PoolInv, NEW i \in Instances, NEW state, NEW n, Change(i, state, n)
  PROVE  PoolInv'
<1>1. Watching'
  BY DEF PoolInv, Watching, Change
<1>2. PollCurrent'
  BY DEF PollCurrent, Change, TypeOK
<1>3. ToldCurrent'
  <2>1. CASE pushes' = Append(pushes, entry')
    <3>1. pushes' # <<>> /\ pushes'[Len(pushes')] = entry'
      BY <2>1 DEF TypeOK
    <3>2. QED
      BY <3>1 DEF ToldCurrent
  <2>2. CASE told' = FALSE
    BY <2>2 DEF ToldCurrent
  <2>3. QED
    BY <2>1, <2>2 DEF Change
<1>4. QED
  BY <1>1, <1>2, <1>3 DEF PoolInv

\* The callback takes the lists in order: the newest is the last.
LEMMA CallbackKeeps ==
  ASSUME TypeOK, PoolInv, Callback
  PROVE  ToldCurrent'
<1>1. pushes \in Seq(Lists) /\ pushes # <<>> /\ pushes' = Tail(pushes) /\ entry' = entry
  BY DEF Callback, registry, TypeOK
<1>2. CASE pushes' = <<>>
  <2>1. Head(pushes) = pushes[Len(pushes)]
    <3>1. Len(pushes) = 1
      <4>1. Len(Tail(pushes)) = Len(pushes) - 1 /\ Len(pushes) \in Nat
        BY <1>1
      <4>2. Tail(pushes) = <<>>
        BY <1>1, <1>2
      <4>3. Len(<<>>) = 0
        OBVIOUS
      <4>4. Len(Tail(pushes)) = 0
        BY <4>2, <4>3
      <4>5. QED
        BY <4>1, <4>4
    <3>2. QED
      BY <1>1, <3>1
  <2>2. told' => told /\ pool' = Healthy(Head(pushes))
    BY <1>2 DEF Callback
  <2>3. told' => pool' = Usable'
    BY <1>1, <2>1, <2>2 DEF PoolInv, ToldCurrent, Healthy, Usable
  <2>4. QED
    BY <1>2, <2>3 DEF ToldCurrent
<1>3. CASE pushes' # <<>>
  <2>1. pushes'[Len(pushes')] = pushes[Len(pushes)]
    BY <1>1, <1>3
  <2>2. told' => told
    BY DEF Callback
  <2>3. QED
    BY <1>1, <1>3, <2>1, <2>2 DEF PoolInv, ToldCurrent
<1>4. QED
  BY <1>2, <1>3

LEMMA PollSetsKeeps ==
  ASSUME TypeOK, PoolInv, PollSets
  PROVE  ToldCurrent'
<1>1. entry' = entry /\ pushes' = pushes
  BY DEF PollSets, registry
<1>2. CASE pushes = <<>>
  <2>1. told' => poll.list = entry
    BY <1>2 DEF PollSets, PoolInv, PollCurrent
  <2>2. told' => pool' = Usable'
    BY <1>1, <2>1 DEF PollSets, Healthy, Usable
  <2>3. QED
    BY <1>1, <1>2, <2>2 DEF ToldCurrent
<1>3. CASE pushes # <<>>
  BY <1>1, <1>3 DEF PollSets, PoolInv, ToldCurrent
<1>4. QED
  BY <1>2, <1>3

LEMMA InvStep == TypeOK /\ PoolInv /\ [Next]_vars => PoolInv'
<1> SUFFICES ASSUME TypeOK, PoolInv, [Next]_vars PROVE PoolInv'
  OBVIOUS
<1> DEFINE view == <<entry, gate, watched, pool, poll, pushes, told>>
<1>0. ASSUME UNCHANGED view PROVE PoolInv'
  BY <1>0 DEF PoolInv, Watching, PollCurrent, ToldCurrent, Usable
<1>1. ASSUME NEW i \in Instances, NEW state, NEW n, Change(i, state, n) PROVE PoolInv'
  BY <1>1, ChangeKeeps
<1>2. ASSUME NEW i \in Instances, RegisterAgain(i) \/ RegisterFails(i) \/ Run(i) \/ Stop(i)
      PROVE  PoolInv'
  BY <1>2, <1>0 DEF RegisterAgain, RegisterFails, Run, Stop
<1>3. CASE Bootstrap
  BY <1>3 DEF Bootstrap, registry, PoolInv, Watching, PollCurrent, ToldCurrent, Usable
<1>4. CASE PrimePool
  <2>1. ~watched /\ pushes = <<>>
    BY <1>4 DEF PrimePool, PoolInv, Watching
  <2>2. ToldCurrent'
    BY <1>4, <2>1 DEF PrimePool, registry, PoolInv, ToldCurrent, Usable, Healthy
  <2>3. QED
    BY <1>4, <2>1, <2>2 DEF PrimePool, registry, PoolInv, Watching, PollCurrent
<1>5. CASE Subscribe
  BY <1>5 DEF Subscribe, registry, PoolInv, Watching, PollCurrent, ToldCurrent, Usable
<1>6. CASE Callback
  BY <1>6, CallbackKeeps DEF Callback, registry, PoolInv, Watching, PollCurrent
<1>7. CASE PollAsks
  BY <1>7 DEF PollAsks, registry, PoolInv, Watching, PollCurrent, ToldCurrent, Usable
<1>8. CASE PollSets
  BY <1>8, PollSetsKeeps DEF PollSets, registry, PoolInv, Watching, PollCurrent
<1>9. CASE PollFails
  BY <1>9 DEF PollFails, registry, PoolInv, Watching, PollCurrent, ToldCurrent, Usable
<1>10. ASSUME NEW r \in Requests, Entry(r) \/ HandleProxy(r) PROVE PoolInv'
  <2>1. UNCHANGED view
    BY <1>10 DEF Entry, HandleProxy, NoInstance, Pick, Finish, Exit, registry
  <2>2. QED
    BY <2>1, <1>0
<1>11. CASE UNCHANGED vars
  BY <1>11, <1>0 DEF vars, registry
<1>12. QED
  BY <1>1, <1>2, <1>3, <1>4, <1>5, <1>6, <1>7, <1>8, <1>9, <1>10, <1>11
     DEF Next, Service, Nacos, Main, PollLoop, Register, Expire, Flap

\* The inductive invariant: what callback and poll loop hold is tied to Nacos' list.
THEOREM GatewayInvariant == Spec => []GatewayInv
<1>1. Init => GatewayInv
  BY TypeInit DEF Init, GatewayInv, PoolInv, Watching, PollCurrent, ToldCurrent
<1>2. GatewayInv /\ [Next]_vars => GatewayInv'
  BY TypeStep, InvStep DEF GatewayInv
<1>3. QED
  BY <1>1, <1>2, PTL DEF Spec

\* Callback and poll loop cannot leave the pool wrong, once the latest change has
\* been pushed or polled and what was pushed has been taken (pool.set).
THEOREM PoolFreshOnceTold == Spec => []FreshOnceTold
<1>1. GatewayInv => FreshOnceTold
  BY DEF GatewayInv, PoolInv, ToldCurrent, FreshOnceTold
<1>2. QED
  BY <1>1, GatewayInvariant, PTL
=============================================================================
