----------------------------- MODULE SagaProofs -----------------------------
(***************************************************************************)
(* Theorems about Saga, for every set of orders, every quantity and stock, *)
(* and every value of the budgets unless a theorem says otherwise: types   *)
(* and conservation, what holds per order, the refinement of OrderFlow,    *)
(* and the stock accounting of the whole.                                  *)
(***************************************************************************)
EXTENDS Saga, FiniteSetTheorems, TLAPS

-----------------------------------------------------------------------------
(* Type correctness *)

\* An outbox row that a transaction writes leaves the outbox well typed.
LEMMA WriteEventType ==
  ASSUME NEW o \in Orders, NEW t \in EventTypes, WriteEvent(o, t),
         outbox \in [Events -> Nat]
  PROVE  outbox' \in [Events -> Nat]
BY DEF WriteEvent, Events

\* Consuming an event leaves the topic and the duplicate budget well typed.
LEMMA ConsumeType ==
  ASSUME NEW o \in Orders, NEW t \in EventTypes, Consume(o, t),
         topic \in [Events -> Nat], dups \in 0..MaxDup
  PROVE  topic' \in [Events -> Nat] /\ dups' \in 0..MaxDup
BY BoundsAssumption DEF Consume, Deliver, DeliverAgain, Events

\* A write of the poll key leaves the poll keys well typed.
LEMMA SetResultType ==
  ASSUME NEW o \in Orders, NEW v \in Results, SetResult(o, v),
         result \in [Orders -> Results]
  PROVE  result' \in [Orders -> Results]
BY DEF SetResult

\* Every step of every service keeps the databases, the channel and Redis
\* well typed; in particular available and locked never go negative.
LEMMA TypeStep == TypeOK /\ [Next]_vars => TypeOK'
<1> SUFFICES ASSUME TypeOK, [Next]_vars PROVE TypeOK'
  OBVIOUS
<1> USE QuantityAssumption, TotalAssumption, BoundsAssumption
<1>1. CASE UNCHANGED vars
  BY <1>1 DEF TypeOK, vars
<1>2. CASE Next
  <2> PICK o \in Orders : \/ PlaceOrder(o) \/ AnswerPending(o)
                          \/ PendingExpires(o)
                          \/ RelayOrder(o) \/ Handle(o) \/ Lose(o)
    BY <1>2 DEF Next
  <2> USE DEF TypeOK, rowVars, historyVars, budgetVars
  <2>1. CASE PlaceOrder(o)
    BY <2>1, WriteEventType DEF PlaceOrder, Statuses, EventTypes
  <2>2. CASE AnswerPending(o)
    BY <2>2, SetResultType DEF AnswerPending, Results
  <2>3. CASE PendingExpires(o)
    BY <2>3 DEF PendingExpires, Results
  <2>4. CASE RelayOrder(o)
    <3> PICK t \in EventTypes : Relay(o, t)
      BY <2>4 DEF RelayOrder
    <3>1. CASE SendAndMark(o, t)
      BY <3>1 DEF SendAndMark, Events
    <3>2. CASE SendMarkFails(o, t)
      BY <3>2 DEF SendMarkFails, Events
    <3> QED BY <3>1, <3>2 DEF Relay
  <2>5. CASE Lose(o)
    BY <2>5 DEF Lose, LoseEvent, Events
  <2>6. CASE Handle(o)
    <3>1. CASE DeductStock(o)
      BY <3>1, WriteEventType, ConsumeType DEF DeductStock, EventTypes
    <3>2. CASE StockInsufficient(o)
      BY <3>2, WriteEventType, ConsumeType
         DEF StockInsufficient, RefuseStock, EventTypes
    <3>3. CASE RetriesExhausted(o)
      BY <3>3, WriteEventType, ConsumeType
         DEF RetriesExhausted, RefuseStock, EventTypes
    <3>4. CASE ConfirmDeduction(o)
      BY <3>4, ConsumeType DEF ConfirmDeduction, EventTypes
    <3>5. CASE ReturnStock(o)
      BY <3>5, ConsumeType DEF ReturnStock, EventTypes
    <3>6. CASE \E r \in Outcomes : Pay(o, r)
      <4> PICK r \in Outcomes : Pay(o, r)
        BY <3>6
      <4>1. payments' \in [Orders -> [Outcomes -> Nat]]
        BY DEF Pay
      <4>2. outbox' \in [Events -> Nat]
        BY WriteEventType DEF Pay, EventTypes
      <4> QED BY <4>1, <4>2, ConsumeType DEF Pay, EventTypes
    <3>7. CASE StockDeducted(o)
      BY <3>7, WriteEventType, ConsumeType
         DEF StockDeducted, AdvanceOrder, EventTypes, Statuses
    <3>8. CASE StockDeductFailed(o)
      BY <3>8, WriteEventType, ConsumeType, SetResultType
         DEF StockDeductFailed, AdvanceOrder, EventTypes, Statuses, Results
    <3>9. CASE PaymentSuccess(o)
      BY <3>9, WriteEventType, ConsumeType, SetResultType
         DEF PaymentSuccess, AdvanceOrder, EventTypes, Statuses, Results
    <3>10. CASE PaymentFailed(o)
      BY <3>10, WriteEventType, ConsumeType, SetResultType
         DEF PaymentFailed, AdvanceOrder, EventTypes, Statuses, Results
    <3> QED BY <2>6, <3>1, <3>2, <3>3, <3>4, <3>5, <3>6, <3>7, <3>8, <3>9,
               <3>10 DEF Handle
  <2> QED BY <2>1, <2>2, <2>3, <2>4, <2>5, <2>6
<1> QED BY <1>1, <1>2

\* The services keep their state well typed, whatever is duplicated or lost:
\* the guards of the inventory updates keep available and locked natural.
THEOREM TypeCorrect == Spec => []TypeOK
<1>1. Init => TypeOK
  BY TotalAssumption, BoundsAssumption
     DEF Init, TypeOK, Statuses, Results, Outcomes, Events
<1> QED BY <1>1, TypeStep, PTL DEF Spec

-----------------------------------------------------------------------------
(* The inventory row *)

\* No update of the inventory row creates or destroys a unit, even when an
\* event is delivered twice or a compensation returns the units of another
\* order: StockConserved needs no more than the guards of the updates.
THEOREM StockConservation == Spec => []StockConserved
<1>1. Init => StockConserved
  BY TotalAssumption DEF Init, StockConserved
<1>2. TypeOK /\ StockConserved /\ [Next]_vars => StockConserved'
  <2> SUFFICES ASSUME TypeOK, StockConserved, [Next]_vars
               PROVE  StockConserved'
    OBVIOUS
  <2>0. /\ available \in Nat /\ locked \in Nat /\ sold \in Nat
        /\ \A o \in Orders : Quantity[o] \in Nat
    BY QuantityAssumption DEF TypeOK
  <2> HIDE DEF TypeOK
  <2> USE <2>0, TotalAssumption DEF StockConserved
  <2>1. CASE UNCHANGED <<available, locked, sold>>
    BY <2>1
  <2>2. ASSUME NEW o \in Orders, DeductStock(o) PROVE StockConserved'
    BY <2>2 DEF DeductStock
  <2>3. ASSUME NEW o \in Orders, ConfirmDeduction(o) PROVE StockConserved'
    BY <2>3 DEF ConfirmDeduction
  <2>4. ASSUME NEW o \in Orders, ReturnStock(o) PROVE StockConserved'
    BY <2>4 DEF ReturnStock
  <2>5. CASE ~ \E o \in Orders : DeductStock(o) \/ ConfirmDeduction(o)
                                                \/ ReturnStock(o)
    <3>1. UNCHANGED <<available, locked, sold>>
      BY <2>5 DEF Next, vars, rowVars, historyVars, PlaceOrder, AnswerPending,
         PendingExpires, RelayOrder, Relay, SendAndMark, SendMarkFails, Handle,
         StockInsufficient, RetriesExhausted, RefuseStock, Pay, StockDeducted,
         StockDeductFailed, PaymentSuccess, PaymentFailed, AdvanceOrder, Lose,
         LoseEvent
    <3> QED BY <3>1, <2>1
  <2> QED BY <2>2, <2>3, <2>4, <2>5
<1> QED BY <1>1, <1>2, TypeCorrect, PTL DEF Spec

-----------------------------------------------------------------------------
(* One event per order, when nothing is duplicated *)

\* Each event belongs to a phase of its own.
LEMMA PhaseWithInjective ==
  ASSUME NEW t \in EventTypes, NEW u \in EventTypes, PhaseWith[t] = PhaseWith[u]
  PROVE  t = u
BY DEF EventTypes, PhaseWith

\* Counts of copies in flight are natural numbers.
LEMMA InFlightType ==
  ASSUME TypeOK, NEW o \in Orders, NEW t \in EventTypes
  PROVE  /\ outbox[<<o, t>>] \in Nat
         /\ topic[<<o, t>>] \in Nat
         /\ InFlight(o, t) \in Nat
BY DEF TypeOK, InFlight, Events

\* Without duplicates, consuming an event removes it.
LEMMA ConsumeDelivers ==
  ASSUME MaxDup = 0, TypeOK, NEW o \in Orders, NEW t \in EventTypes, Consume(o, t)
  PROVE  Deliver(o, t)
BY DEF Consume, DeliverAgain, TypeOK

\* An event being consumed is the only one of its order, in its phase.
LEMMA OnlyEvent ==
  ASSUME TypeOK, NEW o \in Orders, OneEvent(o), NEW t \in EventTypes,
         topic[<<o, t>>] > 0
  PROVE  /\ InFlight(o, t) = 1
         /\ PhaseOf(o) = PhaseWith[t]
         /\ \A u \in EventTypes \ {t} : InFlight(o, u) = 0
<1>1. InFlight(o, t) > 0
  BY InFlightType DEF InFlight
<1>2. InFlight(o, t) = 1 /\ PhaseOf(o) = PhaseWith[t]
  BY <1>1, InFlightType DEF OneEvent
<1>3. ASSUME NEW u \in EventTypes \ {t} PROVE InFlight(o, u) = 0
  <2>1. PhaseWith[u] # PhaseWith[t]
    BY PhaseWithInjective
  <2>2. ~ InFlight(o, u) > 0
    BY <2>1, <1>2 DEF OneEvent
  <2>3. InFlight(o, u) \in Nat
    BY InFlightType
  <2> QED BY <2>2, <2>3
<1> QED BY <1>2, <1>3

\* Consuming the only event of an order and writing the next one leaves the
\* next one as the only event; other orders' events stay.
LEMMA HandOver ==
  ASSUME TypeOK, NEW o \in Orders, OneEvent(o),
         NEW t \in EventTypes, NEW u \in EventTypes,
         Deliver(o, t), WriteEvent(o, u)
  PROVE  /\ \A v \in EventTypes : InFlight(o, v)' = IF v = u THEN 1 ELSE 0
         /\ \A p \in Orders \ {o} : \A v \in EventTypes :
                                    InFlight(p, v)' = InFlight(p, v)
<1>1. /\ outbox' = [outbox EXCEPT ![<<o, u>>] = @ + 1]
      /\ topic' = [topic EXCEPT ![<<o, t>>] = @ - 1]
      /\ topic[<<o, t>>] > 0
  BY DEF Deliver, WriteEvent
<1>2. ASSUME NEW p \in Orders, NEW v \in EventTypes
      PROVE  /\ outbox'[<<p, v>>] = IF p = o /\ v = u THEN outbox[<<p, v>>] + 1
                                                    ELSE outbox[<<p, v>>]
             /\ topic'[<<p, v>>] = IF p = o /\ v = t THEN topic[<<p, v>>] - 1
                                                   ELSE topic[<<p, v>>]
  BY <1>1 DEF TypeOK, Events
<1>3. ASSUME NEW v \in EventTypes
      PROVE  outbox[<<o, v>>] + topic[<<o, v>>] = IF v = t THEN 1 ELSE 0
  BY <1>1, OnlyEvent DEF InFlight
<1>4. ASSUME NEW v \in EventTypes
      PROVE  InFlight(o, v)' = IF v = u THEN 1 ELSE 0
  BY <1>2, <1>3, InFlightType DEF InFlight
<1>5. ASSUME NEW p \in Orders \ {o}, NEW v \in EventTypes
      PROVE  InFlight(p, v)' = InFlight(p, v)
  BY <1>2 DEF InFlight
<1> QED BY <1>4, <1>5

\* Consuming the only event of an order without writing another leaves none.
LEMMA HandleLast ==
  ASSUME TypeOK, NEW o \in Orders, OneEvent(o), NEW t \in EventTypes,
         topic[<<o, t>>] > 0, topic' = [topic EXCEPT ![<<o, t>>] = @ - 1],
         outbox' = outbox
  PROVE  /\ \A v \in EventTypes : InFlight(o, v)' = 0
         /\ \A p \in Orders \ {o} : \A v \in EventTypes :
                                    InFlight(p, v)' = InFlight(p, v)
<1>1. ASSUME NEW p \in Orders, NEW v \in EventTypes
      PROVE  topic'[<<p, v>>] = IF p = o /\ v = t THEN topic[<<p, v>>] - 1
                                                  ELSE topic[<<p, v>>]
  BY DEF TypeOK, Events
<1>2. ASSUME NEW v \in EventTypes
      PROVE  outbox[<<o, v>>] + topic[<<o, v>>] = IF v = t THEN 1 ELSE 0
  BY OnlyEvent DEF InFlight
<1>3. ASSUME NEW v \in EventTypes PROVE InFlight(o, v)' = 0
  BY <1>1, <1>2, InFlightType DEF InFlight
<1>4. ASSUME NEW p \in Orders \ {o}, NEW v \in EventTypes
      PROVE  InFlight(p, v)' = InFlight(p, v)
  BY <1>1 DEF InFlight
<1> QED BY <1>3, <1>4

\* A handler handles an event, and touches the events of its own order only.
LEMMA HandlesEvent ==
  ASSUME NEW o \in Orders, Handle(o)
  PROVE  /\ \E t \in EventTypes :
              topic[<<o, t>>] > 0 /\ topic' \in {topic, [topic EXCEPT ![<<o, t>>] = @ - 1]}
         /\ \E t \in EventTypes :
              outbox' \in {outbox, [outbox EXCEPT ![<<o, t>>] = @ + 1]}
         /\ \E s \in Statuses : orders' \in {orders, [orders EXCEPT ![o] = s]}
         /\ rejected \subseteq rejected'
<1>1. PICK t \in EventTypes : Consume(o, t)
  BY DEF Handle, DeductStock, StockInsufficient, RetriesExhausted, ConfirmDeduction,
     ReturnStock, Pay, StockDeducted, StockDeductFailed, PaymentSuccess, PaymentFailed,
     AdvanceOrder, EventTypes
<1>2. topic[<<o, t>>] > 0 /\ topic' \in {topic, [topic EXCEPT ![<<o, t>>] = @ - 1]}
  BY <1>1 DEF Consume, Deliver, DeliverAgain
<1>3. \E u \in EventTypes : outbox' \in {outbox, [outbox EXCEPT ![<<o, u>>] = @ + 1]}
  BY DEF Handle, DeductStock, StockInsufficient, RetriesExhausted, RefuseStock,
     ConfirmDeduction, ReturnStock, Pay, StockDeducted, StockDeductFailed,
     PaymentSuccess, PaymentFailed, AdvanceOrder, WriteEvent, EventTypes
<1>4. /\ \E s \in Statuses : orders' \in {orders, [orders EXCEPT ![o] = s]}
      /\ rejected \subseteq rejected'
  BY DEF Handle, DeductStock, StockInsufficient, RetriesExhausted, RefuseStock,
     ConfirmDeduction, ReturnStock, Pay, StockDeducted, StockDeductFailed,
     PaymentSuccess, PaymentFailed, AdvanceOrder, Statuses, rowVars, historyVars
<1> QED BY <1>2, <1>3, <1>4

-----------------------------------------------------------------------------
(* Charges and copies of events, whatever is duplicated                      *)

\* The events that end in a charge, the rows that are charges, and their sum: a
\* handler replaces one by the other, a duplicate adds one and says so.
BeforeCharge == {"ORDER_CREATED", "STOCK_DEDUCTED", "PAYMENT_REQUESTED"}

ToCharge(o) == InFlight(o, "ORDER_CREATED") + InFlight(o, "STOCK_DEDUCTED")
                 + InFlight(o, "PAYMENT_REQUESTED")

Charges(o) == payments[o]["success"] + payments[o]["failed"]

\* An order without a row has no event and no charge.
Unplaced(o) == Charges(o) = 0 /\ \A t \in EventTypes : InFlight(o, t) = 0

ChargeInv ==
  \A o \in Orders : /\ Charges(o) + ToCharge(o) <= 1 + dups
                    /\ orders[o] = "none" => Unplaced(o)

\* Charges are counted in natural numbers.
LEMMA ChargesType ==
  ASSUME TypeOK, NEW o \in Orders
  PROVE  Charges(o) \in Nat /\ ToCharge(o) \in Nat /\ dups \in Nat
<1>1. payments[o]["success"] \in Nat /\ payments[o]["failed"] \in Nat
  BY DEF TypeOK, Outcomes
<1>2. /\ InFlight(o, "ORDER_CREATED") \in Nat /\ InFlight(o, "STOCK_DEDUCTED") \in Nat
      /\ InFlight(o, "PAYMENT_REQUESTED") \in Nat
  BY InFlightType DEF EventTypes
<1>3. dups \in Nat
  BY BoundsAssumption DEF TypeOK
<1> QED BY <1>1, <1>2, <1>3 DEF Charges, ToCharge

\* A step that touches no charge and no event of order p, and forgets no
\* duplicate, keeps the count of p.
LEMMA ChargeSame ==
  ASSUME TypeOK, TypeOK', ChargeInv, NEW p \in Orders,
         payments'[p] = payments[p], orders'[p] = orders[p], dups' >= dups,
         \A t \in EventTypes : InFlight(p, t)' = InFlight(p, t)
  PROVE  /\ Charges(p)' + ToCharge(p)' <= 1 + dups'
         /\ orders'[p] = "none" => Unplaced(p)'
<1>1. Charges(p)' = Charges(p) /\ ToCharge(p)' = ToCharge(p)
  BY DEF Charges, ToCharge, EventTypes
<1>2. Charges(p) \in Nat /\ ToCharge(p) \in Nat /\ dups \in Nat /\ dups' \in Nat
  BY ChargesType, BoundsAssumption DEF TypeOK
<1>3. /\ Charges(p) + ToCharge(p) <= 1 + dups
      /\ orders[p] = "none" => Unplaced(p)
  BY DEF ChargeInv
<1>4. orders'[p] = "none" => Unplaced(p)'
  BY <1>1, <1>3 DEF Unplaced
<1> QED BY <1>1, <1>2, <1>3, <1>4

\* A handler that consumes event t and writes event u, or nothing.
LEMMA ChargeHandler ==
  ASSUME TypeOK, TypeOK', ChargeInv,
         NEW o \in Orders, NEW t \in EventTypes, NEW u \in EventTypes,
         Consume(o, t), outbox' = outbox \/ WriteEvent(o, u),
         u \in BeforeCharge => t \in BeforeCharge,
         \A p \in Orders \ {o} : payments'[p] = payments[p] /\ orders'[p] = orders[p],
         orders'[o] \in {orders[o]} \union (Statuses \ {"none"}),
         \/ Charges(o)' = Charges(o)
         \/ Charges(o)' = Charges(o) + 1 /\ t \in BeforeCharge /\ u \notin BeforeCharge
  PROVE  ChargeInv'
<1>1. /\ topic[<<o, t>>] > 0
      /\ \/ dups' = dups /\ topic' = [topic EXCEPT ![<<o, t>>] = @ - 1]
         \/ dups' = dups + 1 /\ topic' = topic
  BY DEF Consume, Deliver, DeliverAgain
<1>2. /\ dups \in Nat /\ dups' \in Nat /\ dups' >= dups
      /\ \A p \in Orders, v \in EventTypes :
            outbox[<<p, v>>] \in Nat /\ topic[<<p, v>>] \in Nat
  BY <1>1, InFlightType, BoundsAssumption DEF TypeOK
<1>3. ASSUME NEW p \in Orders \ {o}, NEW v \in EventTypes
      PROVE  InFlight(p, v)' = InFlight(p, v)
  BY <1>1 DEF InFlight, WriteEvent, TypeOK, Events
<1> DEFINE wrote(v) == IF v = u THEN 1 ELSE 0
           took(v) == IF v = t /\ dups' = dups THEN 1 ELSE 0
<1>4. ASSUME NEW v \in EventTypes
      PROVE  InFlight(o, v)' <= InFlight(o, v) + wrote(v) - took(v)
  <2>0. topic \in [Events -> Nat] /\ outbox \in [Events -> Nat] /\ <<o, v>> \in Events
    BY DEF TypeOK, Events
  <2>1. topic'[<<o, v>>] = topic[<<o, v>>] - took(v)
    <3>1. CASE dups' = dups
      BY <1>1, <1>2, <2>0, <3>1
    <3>2. CASE dups' = dups + 1 /\ topic' = topic
      BY <1>2, <3>2
    <3> QED BY <1>1, <3>1, <3>2
  <2>2. outbox'[<<o, v>>] <= outbox[<<o, v>>] + wrote(v)
    <3>1. outbox' = outbox \/ outbox' = [outbox EXCEPT ![<<o, u>>] = @ + 1]
      BY DEF WriteEvent
    <3> QED BY <1>2, <2>0, <3>1
  <2>3. outbox'[<<o, v>>] \in Nat
    BY <2>0 DEF TypeOK
  <2> QED BY <1>2, <2>1, <2>2, <2>3 DEF InFlight
<1>5. orders'[o] # "none"
  <2>1. InFlight(o, t) # 0
    BY <1>1, <1>2 DEF InFlight
  <2>2. orders[o] # "none"
    BY <2>1 DEF ChargeInv, Unplaced
  <2> QED BY <2>2
<1>6. Charges(o)' + ToCharge(o)' <= 1 + dups'
  <2> DEFINE a(v) == InFlight(o, v)
             b(v) == InFlight(o, v)'
  <2>1. \A v \in EventTypes : a(v) \in Nat /\ b(v) \in Nat /\ b(v) <= a(v) + wrote(v) - took(v)
    <3>1. \A v \in EventTypes : a(v) \in Nat
      BY InFlightType
    <3>2. \A v \in EventTypes : b(v) \in Nat
      BY DEF TypeOK, InFlight, Events
    <3> QED BY <1>4, <3>1, <3>2
  <2>2. /\ ToCharge(o) = a("ORDER_CREATED") + a("STOCK_DEDUCTED") + a("PAYMENT_REQUESTED")
        /\ ToCharge(o)' = b("ORDER_CREATED") + b("STOCK_DEDUCTED") + b("PAYMENT_REQUESTED")
    BY DEF ToCharge
  <2>5. /\ Charges(o) \in Nat /\ ToCharge(o) \in Nat
        /\ Charges(o)' \in Nat /\ ToCharge(o)' \in Nat
    <3>1. Charges(o) \in Nat /\ ToCharge(o) \in Nat
      BY ChargesType
    <3>2. Charges(o)' \in Nat
      BY <3>1
    <3>3. ToCharge(o)' \in Nat
      BY <2>1, <2>2 DEF EventTypes
    <3> QED BY <3>1, <3>2, <3>3
  <2> HIDE DEF a, b
  <2>3. ToCharge(o)' <= ToCharge(o) + (IF u \in BeforeCharge THEN 1 ELSE 0)
                          - (IF t \in BeforeCharge /\ dups' = dups THEN 1 ELSE 0)
    BY <2>1, <2>2 DEF BeforeCharge, EventTypes
  <2>4. Charges(o) + ToCharge(o) <= 1 + dups
    BY DEF ChargeInv
  <2>6. dups' = dups \/ dups' = dups + 1
    BY <1>1
  <2> HIDE DEF wrote, took
  <2> QED BY <1>2, <2>3, <2>4, <2>5, <2>6
<1>7. ASSUME NEW p \in Orders \ {o}
      PROVE  /\ Charges(p)' + ToCharge(p)' <= 1 + dups'
             /\ orders'[p] = "none" => Unplaced(p)'
  BY <1>2, <1>3, ChargeSame
<1> QED BY <1>5, <1>6, <1>7 DEF ChargeInv

\* Placing an order brings the first event.
LEMMA ChargePlaced ==
  ASSUME TypeOK, TypeOK', ChargeInv, NEW o \in Orders, PlaceOrder(o)
  PROVE  ChargeInv'
<1>1. /\ orders[o] = "none" /\ orders' = [orders EXCEPT ![o] = "pending"]
      /\ outbox' = [outbox EXCEPT ![<<o, "ORDER_CREATED">>] = @ + 1]
      /\ topic' = topic /\ dups' = dups /\ payments' = payments
  BY DEF PlaceOrder, WriteEvent, budgetVars
<1>2. Unplaced(o)
  BY <1>1 DEF ChargeInv
<1>3. ASSUME NEW p \in Orders, NEW v \in EventTypes
      PROVE  InFlight(p, v)' = IF p = o /\ v = "ORDER_CREATED" THEN InFlight(p, v) + 1
                                                             ELSE InFlight(p, v)
  <2>1. outbox[<<p, v>>] \in Nat /\ topic[<<p, v>>] \in Nat
    BY InFlightType
  <2>2. outbox'[<<p, v>>] = IF p = o /\ v = "ORDER_CREATED" THEN outbox[<<p, v>>] + 1
                                                          ELSE outbox[<<p, v>>]
    BY <1>1 DEF TypeOK, Events
  <2> QED BY <1>1, <2>1, <2>2 DEF InFlight
<1>4. Charges(o)' = 0 /\ ToCharge(o)' = 1
  BY <1>1, <1>2, <1>3 DEF Unplaced, Charges, ToCharge, EventTypes
<1>5. dups' \in Nat /\ dups' >= dups
  BY <1>1, ChargesType
<1>6. orders'[o] = "pending"
  BY <1>1 DEF TypeOK
<1>7. ASSUME NEW p \in Orders \ {o}
      PROVE  /\ Charges(p)' + ToCharge(p)' <= 1 + dups'
             /\ orders'[p] = "none" => Unplaced(p)'
  BY <1>1, <1>3, <1>5, ChargeSame DEF TypeOK
<1> QED BY <1>4, <1>5, <1>6, <1>7 DEF ChargeInv

\* The relay and a failing handler write and charge nothing: there is an event
\* more only for a duplicate.
LEMMA ChargeMoved ==
  ASSUME TypeOK, TypeOK', ChargeInv, NEW o \in Orders, RelayOrder(o) \/ Lose(o)
  PROVE  ChargeInv'
<1>1. PICK t \in EventTypes : SendAndMark(o, t) \/ SendMarkFails(o, t) \/ LoseEvent(o, t)
  BY DEF RelayOrder, Relay, Lose
<1>2. /\ orders' = orders /\ payments' = payments
      /\ outbox[<<o, t>>] \in Nat /\ topic[<<o, t>>] \in Nat /\ dups \in Nat
  BY <1>1, InFlightType, ChargesType
     DEF SendAndMark, SendMarkFails, LoseEvent, rowVars, historyVars
<1>3. dups' >= dups /\ dups' \in {dups, dups + 1}
  BY <1>1, <1>2 DEF SendAndMark, SendMarkFails, LoseEvent, budgetVars
<1>4. ASSUME NEW p \in Orders, NEW v \in EventTypes
      PROVE  /\ p # o \/ v # t => InFlight(p, v)' = InFlight(p, v)
             /\ InFlight(o, t)' <= InFlight(o, t) + dups' - dups
             /\ InFlight(p, v) \in Nat /\ InFlight(p, v)' \in Nat
  <2>0. /\ outbox \in [Events -> Nat] /\ topic \in [Events -> Nat]
        /\ outbox' \in [Events -> Nat] /\ topic' \in [Events -> Nat]
        /\ <<p, v>> \in Events /\ <<o, t>> \in Events
    BY DEF TypeOK, Events
  <2>1. p # o \/ v # t => /\ outbox'[<<p, v>>] = outbox[<<p, v>>]
                          /\ topic'[<<p, v>>] = topic[<<p, v>>]
    BY <1>1, <2>0 DEF SendAndMark, SendMarkFails, LoseEvent
  <2>2. outbox'[<<o, t>>] + topic'[<<o, t>>] <= outbox[<<o, t>>] + topic[<<o, t>>] + dups' - dups
    <3>1. CASE SendAndMark(o, t)
      BY <1>2, <2>0, <3>1 DEF SendAndMark, budgetVars
    <3>2. CASE SendMarkFails(o, t)
      BY <1>2, <2>0, <3>2 DEF SendMarkFails
    <3>3. CASE LoseEvent(o, t)
      BY <1>2, <2>0, <3>3 DEF LoseEvent
    <3> QED BY <1>1, <3>1, <3>2, <3>3
  <2> QED BY <2>0, <2>1, <2>2 DEF InFlight
<1>5. ASSUME NEW p \in Orders \ {o}
      PROVE  /\ Charges(p)' + ToCharge(p)' <= 1 + dups'
             /\ orders'[p] = "none" => Unplaced(p)'
  BY <1>2, <1>3, <1>4, <1>5, ChargeSame
<1>6. InFlight(o, t) # 0
  BY <1>1, <1>2 DEF SendAndMark, SendMarkFails, LoseEvent, InFlight
<1>7. orders'[o] # "none"
  BY <1>2, <1>6 DEF ChargeInv, Unplaced
<1>8. Charges(o)' + ToCharge(o)' <= 1 + dups'
  <2>1. Charges(o)' = Charges(o) /\ Charges(o) \in Nat /\ Charges(o) + ToCharge(o) <= 1 + dups
    BY <1>2, ChargesType DEF ChargeInv, Charges
  <2>2. ToCharge(o)' <= ToCharge(o) + dups' - dups /\ ToCharge(o) \in Nat /\ ToCharge(o)' \in Nat
    <3> DEFINE a(v) == InFlight(o, v)
               b(v) == InFlight(o, v)'
    <3>1. /\ \A v \in EventTypes : a(v) \in Nat /\ b(v) \in Nat
          /\ \A v \in EventTypes \ {t} : b(v) = a(v)
          /\ b(t) <= a(t) + dups' - dups
      BY <1>4
    <3>2. /\ ToCharge(o) = a("ORDER_CREATED") + a("STOCK_DEDUCTED") + a("PAYMENT_REQUESTED")
          /\ ToCharge(o)' = b("ORDER_CREATED") + b("STOCK_DEDUCTED") + b("PAYMENT_REQUESTED")
      BY DEF ToCharge
    <3> HIDE DEF a, b
    <3> QED BY <1>2, <1>3, <3>1, <3>2 DEF EventTypes
  <2> QED BY <1>2, <1>3, <2>1, <2>2
<1> QED BY <1>5, <1>7, <1>8 DEF ChargeInv

\* Every step of every service keeps the count.
LEMMA ChargeStep == TypeOK /\ ChargeInv /\ [Next]_vars => ChargeInv'
<1> SUFFICES ASSUME TypeOK, ChargeInv, [Next]_vars PROVE ChargeInv'
  OBVIOUS
<1>t. TypeOK'
  BY TypeStep
<1>1. ASSUME UNCHANGED <<orders, payments, outbox, topic, dups>> PROVE ChargeInv'
  BY <1>1 DEF ChargeInv, Unplaced, Charges, ToCharge, InFlight
<1>2. CASE UNCHANGED vars
  BY <1>1, <1>2 DEF vars
<1>3. CASE Next
  <2> PICK o \in Orders : \/ PlaceOrder(o) \/ AnswerPending(o)
                          \/ PendingExpires(o)
                          \/ RelayOrder(o) \/ Handle(o) \/ Lose(o)
    BY <1>3 DEF Next
  <2>1. CASE AnswerPending(o) \/ PendingExpires(o)
    BY <1>1, <2>1 DEF AnswerPending, PendingExpires, rowVars, budgetVars
  <2>2. CASE PlaceOrder(o)
    BY <1>t, <2>2, ChargePlaced
  <2>3. CASE RelayOrder(o) \/ Lose(o)
    BY <1>t, <2>3, ChargeMoved
  <2>4. CASE \E r \in Outcomes : Pay(o, r)
    <3> PICK r \in Outcomes : Pay(o, r)
      BY <2>4
    <3> DEFINE u == IF r = "success" THEN "PAYMENT_SUCCESS" ELSE "PAYMENT_FAILED"
    <3>1. /\ Consume(o, "PAYMENT_REQUESTED") /\ WriteEvent(o, u) /\ orders' = orders
          /\ payments' = [payments EXCEPT ![o][r] = @ + 1]
      BY DEF Pay
    <3>2. /\ "PAYMENT_REQUESTED" \in EventTypes /\ u \in EventTypes
          /\ "PAYMENT_REQUESTED" \in BeforeCharge /\ u \notin BeforeCharge
      BY DEF EventTypes, BeforeCharge
    <3>3. /\ payments'[o]["success"] + payments'[o]["failed"]
               = payments[o]["success"] + payments[o]["failed"] + 1
          /\ \A p \in Orders \ {o} : payments'[p] = payments[p]
      BY <3>1 DEF TypeOK, Outcomes
    <3>4. Charges(o)' = Charges(o) + 1
      BY <3>3 DEF Charges
    <3> HIDE DEF u
    <3> QED BY <1>t, <3>1, <3>2, <3>3, <3>4, ChargeHandler
  <2>5. CASE Handle(o) /\ ~ \E r \in Outcomes : Pay(o, r)
    <3>1. PICK t \in EventTypes, u \in EventTypes, s \in Statuses \ {"none"} :
             /\ Consume(o, t) /\ (outbox' = outbox \/ WriteEvent(o, u))
             /\ u \in BeforeCharge => t \in BeforeCharge
             /\ payments' = payments
             /\ orders' = orders \/ orders' = [orders EXCEPT ![o] = s]
      <4>1. CASE \/ DeductStock(o) \/ StockInsufficient(o) \/ RetriesExhausted(o)
        BY <4>1 DEF DeductStock, StockInsufficient, RetriesExhausted, RefuseStock,
           EventTypes, BeforeCharge, Statuses, rowVars
      <4>2. CASE ConfirmDeduction(o) \/ ReturnStock(o)
        BY <4>2 DEF ConfirmDeduction, ReturnStock, EventTypes, BeforeCharge, Statuses
      <4>3. CASE \/ StockDeducted(o) \/ StockDeductFailed(o)
                 \/ PaymentSuccess(o) \/ PaymentFailed(o)
        BY <4>3 DEF StockDeducted, StockDeductFailed, PaymentSuccess, PaymentFailed,
           AdvanceOrder, EventTypes, BeforeCharge, Statuses
      <4> QED BY <2>5, <4>1, <4>2, <4>3 DEF Handle
    <3>2. Charges(o)' = Charges(o)
      BY <3>1 DEF Charges
    <3>3. /\ \A p \in Orders \ {o} : payments'[p] = payments[p] /\ orders'[p] = orders[p]
          /\ orders'[o] \in {orders[o]} \union (Statuses \ {"none"})
      BY <3>1 DEF TypeOK
    <3> QED BY <1>t, <3>1, <3>2, <3>3, ChargeHandler
  <2> QED BY <2>1, <2>2, <2>3, <2>4, <2>5
<1> QED BY <1>2, <1>3

\* payment-service charges an order once and, for each event that is sent or
\* delivered twice, once more at most: it keeps no record of its own.
THEOREM ChargesArePaid == Spec => []ChargedPerCopy
<1>1. Init => ChargeInv
  BY DEF Init, ChargeInv, Unplaced, Charges, ToCharge, InFlight, Events, EventTypes,
     Outcomes
<1>2. TypeOK /\ ChargeInv => ChargedPerCopy
  <2> SUFFICES ASSUME TypeOK, ChargeInv, NEW o \in Orders
               PROVE  Charges(o) <= 1 + dups
    BY DEF ChargedPerCopy, Charges
  <2>1. Charges(o) + ToCharge(o) <= 1 + dups
    BY DEF ChargeInv
  <2> QED BY <2>1, ChargesType
<1> QED BY <1>1, <1>2, ChargeStep, TypeCorrect, PTL DEF Spec

\* A success is on its way or has been heard of only if it was charged.
Receipts ==
  \A o \in Orders :
    orders[o] = "paid" \/ InFlight(o, "PAYMENT_SUCCESS") > 0 => payments[o]["success"] > 0

\* No step forgets a charge or makes a success of nothing.
LEMMA ReceiptsStep == TypeOK /\ Receipts /\ [Next]_vars => Receipts'
<1> SUFFICES ASSUME TypeOK, Receipts, [Next]_vars,
                    NEW p \in Orders,
                    orders'[p] = "paid" \/ InFlight(p, "PAYMENT_SUCCESS")' > 0
             PROVE  payments'[p]["success"] > 0
  BY DEF Receipts
<1> DEFINE e == <<p, "PAYMENT_SUCCESS">>
<1>1. /\ outbox \in [Events -> Nat] /\ topic \in [Events -> Nat] /\ e \in Events
      /\ outbox[e] \in Nat /\ topic[e] \in Nat
      /\ payments \in [Orders -> [Outcomes -> Nat]] /\ payments[p]["success"] \in Nat
      /\ orders \in [Orders -> Statuses]
  BY DEF TypeOK, Events, EventTypes, Outcomes
<1>n. outbox'[e] \in Nat /\ topic'[e] \in Nat
  BY <1>1, TypeStep DEF TypeOK
<1>2. (orders[p] = "paid" \/ outbox[e] + topic[e] > 0) => payments[p]["success"] > 0
  BY DEF Receipts, InFlight
<1>3. orders'[p] = "paid" \/ outbox'[e] + topic'[e] > 0
  BY DEF InFlight
<1> HIDE DEF e
<1>h. ASSUME NEW o \in Orders, Handle(o) PROVE topic'[e] <= topic[e]
  <2> PICK t \in EventTypes : topic' \in {topic, [topic EXCEPT ![<<o, t>>] = @ - 1]}
    BY <1>h, HandlesEvent
  <2>1. topic'[e] = topic[e] \/ topic'[e] = topic[e] - 1
    BY <1>1
  <2> QED BY <2>1, <1>1
<1> USE <1>1, <1>n, <1>2, <1>3
<1>4. CASE UNCHANGED vars
  BY <1>4 DEF vars
<1>5. CASE Next
  <2> PICK o \in Orders : \/ PlaceOrder(o) \/ AnswerPending(o)
                          \/ PendingExpires(o)
                          \/ RelayOrder(o) \/ Handle(o) \/ Lose(o)
    BY <1>5 DEF Next
  <2>1. CASE AnswerPending(o) \/ PendingExpires(o)
    BY <2>1 DEF AnswerPending, PendingExpires, rowVars
  <2>2. CASE PlaceOrder(o)
    BY <2>2 DEF PlaceOrder, WriteEvent, e
  <2>3. CASE RelayOrder(o) \/ Lose(o)
    <3> PICK t \in EventTypes : SendAndMark(o, t) \/ SendMarkFails(o, t) \/ LoseEvent(o, t)
      BY <2>3 DEF RelayOrder, Relay, Lose
    <3>1. orders' = orders /\ payments' = payments
      BY DEF SendAndMark, SendMarkFails, LoseEvent, rowVars
    <3>2. outbox'[e] + topic'[e] > 0 => outbox[e] + topic[e] > 0
      <4> DEFINE d == <<o, t>>
      <4>1. d \in Events
        BY DEF Events
      <4> HIDE DEF d
      <4>2. CASE outbox[d] > 0 /\ outbox' \in {outbox, [outbox EXCEPT ![d] = @ - 1]}
                              /\ topic' = [topic EXCEPT ![d] = @ + 1]
        BY <4>1, <4>2
      <4>3. CASE outbox' = outbox /\ topic' = [topic EXCEPT ![d] = @ - 1]
        BY <4>1, <4>3
      <4> QED BY <4>2, <4>3 DEF SendAndMark, SendMarkFails, LoseEvent, d
    <3> QED BY <3>1, <3>2
  <2>4. CASE \E r \in Outcomes : Pay(o, r)
    <3> PICK r \in Outcomes : Pay(o, r)
      BY <2>4
    <3>1. orders' = orders /\ payments' = [payments EXCEPT ![o][r] = @ + 1]
      BY DEF Pay
    <3>t. topic'[e] <= topic[e]
      BY <2>4, <1>h DEF Handle
    <3>2. payments'[p]["success"] >= payments[p]["success"]
      BY <3>1 DEF Outcomes
    <3>3. CASE p = o /\ r = "success"
      BY <3>1, <3>3 DEF Outcomes
    <3>4. CASE p # o \/ r # "success"
      <4>1. outbox'[e] = outbox[e]
        BY <3>4 DEF Pay, WriteEvent, e
      <4> QED BY <3>1, <3>t, <3>2, <4>1
    <3> QED BY <3>3, <3>4
  <2>5. CASE Handle(o) /\ ~ \E r \in Outcomes : Pay(o, r)
    <3>1. payments' = payments /\ outbox'[e] = outbox[e]
      BY <2>5 DEF Handle, DeductStock, StockInsufficient, RetriesExhausted, RefuseStock,
         ConfirmDeduction, ReturnStock, StockDeducted, StockDeductFailed, PaymentSuccess,
         PaymentFailed, AdvanceOrder, WriteEvent, rowVars, e
    <3>2. topic'[e] <= topic[e]
      BY <2>5, <1>h
    <3>3. orders'[p] = "paid" => orders[p] = "paid" \/ (p = o /\ PaymentSuccess(o))
      BY <2>5 DEF Handle, DeductStock, StockInsufficient, RetriesExhausted, RefuseStock,
         ConfirmDeduction, ReturnStock, StockDeducted, StockDeductFailed, PaymentSuccess,
         PaymentFailed, AdvanceOrder, rowVars
    <3>4. p = o /\ PaymentSuccess(o) => topic[e] > 0
      BY DEF PaymentSuccess, AdvanceOrder, Consume, Deliver, DeliverAgain, e
    <3> QED BY <3>1, <3>2, <3>3, <3>4
  <2> QED BY <2>1, <2>2, <2>3, <2>4, <2>5
<1> QED BY <1>4, <1>5

\* An order that order-service calls paid was charged by payment-service, whatever
\* is duplicated, reordered or lost.
THEOREM PaidWasCharged ==
  Spec => [](\A o \in Orders : orders[o] = "paid" => payments[o]["success"] > 0)
<1>1. Init => Receipts
  BY DEF Init, Receipts, InFlight, Events, EventTypes
<1>2. Receipts => \A o \in Orders : orders[o] = "paid" => payments[o]["success"] > 0
  BY DEF Receipts
<1> QED BY <1>1, <1>2, ReceiptsStep, TypeCorrect, PTL DEF Spec

-----------------------------------------------------------------------------
(* The invariant of one order *)

\* A step that leaves everything of order p as it was.
Same(p) == /\ orders'[p] = orders[p]
           /\ payments'[p] = payments[p]
           /\ result'[p] = result[p]
           /\ p \in held' <=> p \in held
           /\ p \in rejected' <=> p \in rejected
           /\ \A v \in EventTypes : InFlight(p, v)' = InFlight(p, v)

\* An order that a step does not touch keeps its invariant.
LEMMA SameOrder ==
  ASSUME NEW p \in Orders, OrderOK(p), Same(p)
  PROVE  OrderOK(p)'
<1>1. PhaseOf(p)' = PhaseOf(p)
  BY DEF Same, PhaseOf
<1>2. OneEvent(p)'
  BY <1>1 DEF OrderOK, Same, OneEvent
<1>3. Charged(p)'
  BY DEF OrderOK, Same, Charged
<1>4. Stocked(p)'
  BY DEF OrderOK, Same, Stocked, EventTypes
<1>5. Told(p)'
  BY DEF OrderOK, Same, Told
<1> QED BY <1>2, <1>3, <1>4, <1>5 DEF OrderOK

\* After a handler has replaced event t of order o by event u, the order keeps
\* its invariant if u fits the new phase.
LEMMA NewEvent ==
  ASSUME NEW o \in Orders, NEW u \in EventTypes, PhaseOf(o)' = PhaseWith[u],
         \A v \in EventTypes : InFlight(o, v)' = IF v = u THEN 1 ELSE 0
  PROVE  OneEvent(o)'
BY DEF OneEvent

\* An order without events in flight trivially fits its phase.
LEMMA NoEvent ==
  ASSUME NEW o \in Orders, \A v \in EventTypes : InFlight(o, v)' = 0
  PROVE  OneEvent(o)'
BY DEF OneEvent

\* The seckill transaction starts an order with its one event.
LEMMA PlaceOrderStep ==
  ASSUME TypeOK, OrderInv, NEW o \in Orders, PlaceOrder(o)
  PROVE  OrderInv'
<1>1. \A v \in EventTypes : InFlight(o, v) = 0
  <2> TAKE v \in EventTypes
  <2>1. PhaseOf(o) = "none"
    BY DEF PlaceOrder, PhaseOf
  <2>2. PhaseWith[v] # "none"
    BY DEF PhaseWith, EventTypes
  <2>3. ~ InFlight(o, v) > 0
    BY <2>1, <2>2 DEF OrderInv, OrderOK, OneEvent
  <2>4. InFlight(o, v) \in Nat
    BY InFlightType
  <2> QED BY <2>3, <2>4
<1>2. ASSUME NEW p \in Orders, NEW v \in EventTypes
      PROVE  outbox'[<<p, v>>] = IF p = o /\ v = "ORDER_CREATED"
                                   THEN outbox[<<p, v>>] + 1
                                   ELSE outbox[<<p, v>>]
  BY DEF PlaceOrder, WriteEvent, TypeOK, Events
<1>3. \A v \in EventTypes : InFlight(o, v)' = IF v = "ORDER_CREATED" THEN 1 ELSE 0
  <2> TAKE v \in EventTypes
  <2>1. topic' = topic
    BY DEF PlaceOrder
  <2> QED BY <1>1, <1>2, <2>1, InFlightType DEF InFlight
<1>4. OrderOK(o)'
  <2>1. orders[o] = "none" /\ orders'[o] = "pending"
    BY DEF PlaceOrder, TypeOK
  <2>2. o \notin held' /\ o \notin rejected'
    BY <2>1 DEF PlaceOrder, historyVars, OrderInv, OrderOK, Stocked
  <2>3. PhaseOf(o)' = "accepted"
    BY <2>1, <2>2 DEF PhaseOf
  <2>4. OneEvent(o)'
    BY <2>3, <1>3, NewEvent DEF PhaseWith, EventTypes
  <2>5. Charged(o)'
    BY <2>1 DEF OrderInv, OrderOK, Charged, PlaceOrder
  <2>6. Stocked(o)'
    BY <2>1, <2>2, <1>3 DEF Stocked, EventTypes
  <2>7. Told(o)'
    BY <2>1 DEF OrderInv, OrderOK, Told, PlaceOrder
  <2> QED BY <2>4, <2>5, <2>6, <2>7 DEF OrderOK
<1>5. ASSUME NEW p \in Orders \ {o} PROVE OrderOK(p)'
  <2>1. \A v \in EventTypes : InFlight(p, v)' = InFlight(p, v)
    BY <1>2 DEF PlaceOrder, InFlight
  <2>2. Same(p)
    BY <2>1 DEF Same, PlaceOrder, TypeOK, historyVars
  <2> QED BY <2>2, SameOrder DEF OrderInv
<1> QED BY <1>4, <1>5 DEF OrderInv

\* The late SET PENDING and the expiry of the key announce no end.
LEMMA ResultStep ==
  ASSUME TypeOK, OrderInv, NEW o \in Orders, AnswerPending(o) \/ PendingExpires(o)
  PROVE  OrderInv'
<1> SUFFICES ASSUME NEW p \in Orders PROVE OrderOK(p)'
  BY DEF OrderInv
<1> USE DEF AnswerPending, PendingExpires, rowVars, historyVars
<1>1. /\ UNCHANGED <<orders, payments, held, rejected, outbox, topic>>
      /\ result'[p] = result[p] \/ result'[p] \in {"none", "PENDING"}
  BY DEF SetResult, TypeOK
<1>2. \A v \in EventTypes : InFlight(p, v)' = InFlight(p, v)
  BY <1>1 DEF InFlight
<1>3. PhaseOf(p)' = PhaseOf(p)
  BY <1>1 DEF PhaseOf
<1>4. OneEvent(p)'
  BY <1>2, <1>3 DEF OneEvent, OrderInv, OrderOK
<1>5. Charged(p)'
  BY <1>1 DEF Charged, OrderInv, OrderOK
<1>6. Stocked(p)'
  BY <1>1, <1>2 DEF Stocked, OrderInv, OrderOK, EventTypes
<1>7. Told(p)'
  BY <1>1 DEF Told, OrderInv, OrderOK
<1> QED BY <1>4, <1>5, <1>6, <1>7 DEF OrderOK

\* The relay moves an event from the outbox to Kafka.
LEMMA RelayStep ==
  ASSUME MaxDup = 0, TypeOK, OrderInv, NEW o \in Orders, RelayOrder(o)
  PROVE  OrderInv'
<1> PICK t \in EventTypes : SendAndMark(o, t)
  BY DEF RelayOrder, Relay, SendMarkFails, TypeOK
<1> SUFFICES ASSUME NEW p \in Orders PROVE Same(p)
  BY SameOrder DEF OrderInv
<1>1. ASSUME NEW v \in EventTypes PROVE InFlight(p, v)' = InFlight(p, v)
  <2>1. /\ outbox'[<<p, v>>] = IF p = o /\ v = t THEN outbox[<<p, v>>] - 1
                                                  ELSE outbox[<<p, v>>]
        /\ topic'[<<p, v>>] = IF p = o /\ v = t THEN topic[<<p, v>>] + 1
                                                 ELSE topic[<<p, v>>]
    BY DEF SendAndMark, TypeOK, Events
  <2> QED BY <2>1, InFlightType DEF InFlight
<1> QED BY <1>1 DEF SendAndMark, Same, rowVars, historyVars

\* A lost event leaves its order without any.
LEMMA LoseStep ==
  ASSUME TypeOK, OrderInv, NEW o \in Orders, Lose(o)
  PROVE  OrderInv'
<1> PICK t \in EventTypes : LoseEvent(o, t)
  BY DEF Lose
<1>0. OneEvent(o)
  BY DEF OrderInv, OrderOK
<1>1. /\ \A v \in EventTypes : InFlight(o, v)' = 0
      /\ \A p \in Orders \ {o} : \A v \in EventTypes : InFlight(p, v)' = InFlight(p, v)
  BY <1>0, HandleLast DEF LoseEvent
<1>2. UNCHANGED <<orders, payments, held, rejected, result>>
  BY DEF LoseEvent, rowVars, historyVars
<1>3. OrderOK(o)'
  <2>1. OneEvent(o)'
    BY <1>1, NoEvent
  <2>2. Charged(o)' /\ Told(o)'
    BY <1>2 DEF Charged, Told, OrderInv, OrderOK
  <2>3. Stocked(o)'
    BY <1>1, <1>2 DEF Stocked, OrderInv, OrderOK, EventTypes
  <2> QED BY <2>1, <2>2, <2>3 DEF OrderOK
<1>4. ASSUME NEW p \in Orders \ {o} PROVE OrderOK(p)'
  <2>1. Same(p)
    BY <1>1, <1>2 DEF Same
  <2> QED BY <2>1, SameOrder DEF OrderInv
<1> QED BY <1>3, <1>4 DEF OrderInv

\* inventory-service answers ORDER_CREATED, with success or with a refusal.
LEMMA OrderCreatedStep ==
  ASSUME MaxDup = 0, TypeOK, OrderInv, NEW o \in Orders,
         DeductStock(o) \/ StockInsufficient(o) \/ RetriesExhausted(o)
  PROVE  OrderInv'
<1> DEFINE t == "ORDER_CREATED"
<1>0. t \in EventTypes /\ OneEvent(o)
  BY DEF EventTypes, OrderInv, OrderOK
<1>1. PICK u \in {"STOCK_DEDUCTED", "STOCK_DEDUCT_FAILED"} :
         /\ Deliver(o, t) /\ WriteEvent(o, u)
         /\ UNCHANGED <<orders, payments, result>>
         /\ u = "STOCK_DEDUCTED" => held' = held \union {o} /\ rejected' = rejected
         /\ u = "STOCK_DEDUCT_FAILED" => rejected' = rejected \union {o} /\ held' = held
  <2>1. Consume(o, t)
    BY DEF DeductStock, StockInsufficient, RetriesExhausted
  <2>2. Deliver(o, t)
    BY <2>1, <1>0, ConsumeDelivers
  <2>3. CASE DeductStock(o)
    <3> WITNESS "STOCK_DEDUCTED" \in {"STOCK_DEDUCTED", "STOCK_DEDUCT_FAILED"}
    <3> QED BY <2>2, <2>3 DEF DeductStock
  <2>4. CASE StockInsufficient(o) \/ RetriesExhausted(o)
    <3> WITNESS "STOCK_DEDUCT_FAILED" \in {"STOCK_DEDUCTED", "STOCK_DEDUCT_FAILED"}
    <3> QED BY <2>2, <2>4 DEF StockInsufficient, RetriesExhausted, RefuseStock, rowVars
  <2> QED BY <2>3, <2>4
<1>u. u \in EventTypes
  BY DEF EventTypes
<1>2. topic[<<o, t>>] > 0
  BY <1>1 DEF Deliver
<1>3. PhaseOf(o) = "accepted" /\ InFlight(o, "ORDER_CREATED") = 1
  BY <1>0, <1>2, OnlyEvent DEF PhaseWith
<1>4. orders[o] = "pending" /\ o \notin held /\ o \notin rejected
  BY <1>3 DEF PhaseOf, TypeOK, Statuses
<1>5. /\ \A v \in EventTypes : InFlight(o, v)' = IF v = u THEN 1 ELSE 0
      /\ \A p \in Orders \ {o} : \A v \in EventTypes : InFlight(p, v)' = InFlight(p, v)
  BY <1>0, <1>1, <1>u, HandOver
<1>6. PhaseOf(o)' = PhaseWith[u]
  BY <1>1, <1>4 DEF PhaseOf, PhaseWith
<1>7. OrderOK(o)'
  <2>1. OneEvent(o)'
    BY <1>u, <1>5, <1>6, NewEvent
  <2>2. Charged(o)' /\ Told(o)'
    BY <1>1 DEF Charged, Told, OrderInv, OrderOK
  <2>3. Stocked(o)'
    <3>1. InFlight(o, "ORDER_COMPLETED")' = 0 /\ InFlight(o, "ORDER_CANCELLED")' = 0
      BY <1>5 DEF EventTypes
    <3> QED BY <3>1, <1>1, <1>4 DEF Stocked
  <2> QED BY <2>1, <2>2, <2>3 DEF OrderOK
<1>8. ASSUME NEW p \in Orders \ {o} PROVE OrderOK(p)'
  <2>1. Same(p)
    BY <1>1, <1>5 DEF Same
  <2> QED BY <2>1, SameOrder DEF OrderInv
<1> QED BY <1>7, <1>8 DEF OrderInv

\* inventory-service settles a completed or a cancelled order, the last step of
\* the saga.
LEMMA SettleStep ==
  ASSUME MaxDup = 0, TypeOK, OrderInv, NEW o \in Orders,
         ConfirmDeduction(o) \/ ReturnStock(o)
  PROVE  OrderInv'
<1>0. OneEvent(o)
  BY DEF OrderInv, OrderOK
<1>1. PICK t \in {"ORDER_COMPLETED", "ORDER_CANCELLED"} :
         /\ Deliver(o, t)
         /\ UNCHANGED <<orders, payments, result, rejected, outbox>>
         /\ held' \in {held, held \ {o}}
  <2>1. CASE ConfirmDeduction(o)
    <3> WITNESS "ORDER_COMPLETED" \in {"ORDER_COMPLETED", "ORDER_CANCELLED"}
    <3>1. Deliver(o, "ORDER_COMPLETED")
      BY <2>1, ConsumeDelivers DEF ConfirmDeduction, EventTypes
    <3> QED BY <2>1, <3>1 DEF ConfirmDeduction
  <2>2. CASE ReturnStock(o)
    <3> WITNESS "ORDER_CANCELLED" \in {"ORDER_COMPLETED", "ORDER_CANCELLED"}
    <3>1. Deliver(o, "ORDER_CANCELLED")
      BY <2>2, ConsumeDelivers DEF ReturnStock, EventTypes
    <3> QED BY <2>2, <3>1 DEF ReturnStock
  <2> QED BY <2>1, <2>2
<1>2. t \in EventTypes
  BY DEF EventTypes
<1>3. /\ \A v \in EventTypes : InFlight(o, v)' = 0
      /\ \A p \in Orders \ {o} : \A v \in EventTypes : InFlight(p, v)' = InFlight(p, v)
  BY <1>0, <1>1, <1>2, HandleLast DEF Deliver
<1>4. PhaseOf(o) \in {"paid", "cancelled"}
  BY <1>0, <1>1, <1>2, OnlyEvent DEF Deliver, PhaseWith
<1>5. orders[o] \in {"paid", "cancelled"}
  BY <1>4 DEF PhaseOf, TypeOK, Statuses
<1>6. OrderOK(o)'
  <2>1. OneEvent(o)'
    BY <1>3, NoEvent
  <2>2. Charged(o)' /\ Told(o)'
    BY <1>1 DEF Charged, Told, OrderInv, OrderOK
  <2>3. Stocked(o)'
    BY <1>1, <1>3, <1>5 DEF Stocked, OrderInv, OrderOK, EventTypes
  <2> QED BY <2>1, <2>2, <2>3 DEF OrderOK
<1>7. ASSUME NEW p \in Orders \ {o} PROVE OrderOK(p)'
  <2>1. Same(p)
    BY <1>1, <1>3 DEF Same
  <2> QED BY <2>1, SameOrder DEF OrderInv
<1> QED BY <1>6, <1>7 DEF OrderInv

\* payment-service charges an order once.
LEMMA PayStep ==
  ASSUME MaxDup = 0, TypeOK, OrderInv, NEW o \in Orders,
         NEW r \in Outcomes, Pay(o, r)
  PROVE  OrderInv'
<1> DEFINE t == "PAYMENT_REQUESTED"
           u == IF r = "success" THEN "PAYMENT_SUCCESS" ELSE "PAYMENT_FAILED"
<1>0. t \in EventTypes /\ u \in EventTypes /\ OneEvent(o)
  BY DEF EventTypes, OrderInv, OrderOK
<1>1. /\ Deliver(o, t) /\ WriteEvent(o, u)
      /\ UNCHANGED <<orders, result, held, rejected>>
      /\ payments' = [payments EXCEPT ![o][r] = @ + 1]
  BY <1>0, ConsumeDelivers DEF Pay, historyVars
<1>2. PhaseOf(o) = "payable"
  BY <1>0, <1>1, OnlyEvent DEF Deliver, PhaseWith
<1>3. /\ orders[o] = "awaiting"
      /\ payments[o]["success"] = 0 /\ payments[o]["failed"] = 0
  BY <1>2 DEF PhaseOf, TypeOK, Statuses, Outcomes
<1>4. /\ payments'[o]["success"] = IF r = "success" THEN 1 ELSE 0
      /\ payments'[o]["failed"] = IF r = "failed" THEN 1 ELSE 0
      /\ \A p \in Orders \ {o} : payments'[p] = payments[p]
  BY <1>1, <1>3 DEF TypeOK, Outcomes
<1>5. /\ \A v \in EventTypes : InFlight(o, v)' = IF v = u THEN 1 ELSE 0
      /\ \A p \in Orders \ {o} : \A v \in EventTypes : InFlight(p, v)' = InFlight(p, v)
  BY <1>0, <1>1, HandOver
<1>6. PhaseOf(o)' = PhaseWith[u]
  BY <1>1, <1>3, <1>4 DEF PhaseOf, PhaseWith, Outcomes
<1>7. OrderOK(o)'
  <2>1. OneEvent(o)'
    BY <1>0, <1>5, <1>6, NewEvent
  <2>2. Charged(o)'
    BY <1>1, <1>3, <1>4 DEF Charged, Outcomes
  <2>3. Told(o)'
    BY <1>1 DEF Told, OrderInv, OrderOK
  <2>4. Stocked(o)'
    BY <1>1, <1>5 DEF Stocked, OrderInv, OrderOK, EventTypes
  <2> QED BY <2>1, <2>2, <2>3, <2>4 DEF OrderOK
<1>8. ASSUME NEW p \in Orders \ {o} PROVE OrderOK(p)'
  <2>1. Same(p)
    BY <1>1, <1>4, <1>5 DEF Same
  <2> QED BY <2>1, SameOrder DEF OrderInv
<1> QED BY <1>7, <1>8 DEF OrderInv

\* What every handler of order-service has in common: it meets the order in the
\* phase of the event it consumes.
LEMMA AdvanceOrderStep ==
  ASSUME MaxDup = 0, TypeOK, OrderInv, NEW o \in Orders,
         NEW t \in EventTypes, NEW s \in Statuses, NEW u \in EventTypes,
         AdvanceOrder(o, t, s, u)
  PROVE  /\ PhaseOf(o) = PhaseWith[t]
         /\ InFlight(o, t) > 0
         /\ \A v \in EventTypes : InFlight(o, v)' = IF v = u THEN 1 ELSE 0
         /\ \A p \in Orders \ {o} : \A v \in EventTypes : InFlight(p, v)' = InFlight(p, v)
         /\ orders'[o] = s
         /\ \A p \in Orders \ {o} : orders'[p] = orders[p]
         /\ UNCHANGED <<payments, held, rejected>>
<1>0. OneEvent(o)
  BY DEF OrderInv, OrderOK
<1>1. Deliver(o, t) /\ WriteEvent(o, u)
  BY ConsumeDelivers DEF AdvanceOrder
<1>2. topic[<<o, t>>] > 0
  BY <1>1 DEF Deliver
<1>3. PhaseOf(o) = PhaseWith[t] /\ InFlight(o, t) > 0
  BY <1>0, <1>2, OnlyEvent
<1>4. /\ \A v \in EventTypes : InFlight(o, v)' = IF v = u THEN 1 ELSE 0
      /\ \A p \in Orders \ {o} : \A v \in EventTypes : InFlight(p, v)' = InFlight(p, v)
  BY <1>0, <1>1, HandOver
<1>5. /\ orders'[o] = s
      /\ \A p \in Orders \ {o} : orders'[p] = orders[p]
      /\ UNCHANGED <<payments, held, rejected>>
  BY DEF AdvanceOrder, TypeOK, historyVars
<1> QED BY <1>3, <1>4, <1>5

\* The write of the poll key touches one order.
LEMMA SetResultOne ==
  ASSUME TypeOK, NEW o \in Orders, NEW v \in Results, SetResult(o, v)
  PROVE  /\ result'[o] \in {result[o], v}
         /\ \A p \in Orders \ {o} : result'[p] = result[p]
BY DEF SetResult, TypeOK

\* The four handlers of order-service, each with the status and the poll key it
\* writes.
LEMMA OrderHandlerStep ==
  ASSUME MaxDup = 0, TypeOK, OrderInv, NEW o \in Orders,
         StockDeducted(o) \/ StockDeductFailed(o) \/ PaymentSuccess(o)
           \/ PaymentFailed(o)
  PROVE  OrderInv'
<1>a. \A p \in Orders : OrderOK(p)
  BY DEF OrderInv
<1>1. CASE StockDeducted(o)
  <2>1. /\ AdvanceOrder(o, "STOCK_DEDUCTED", "awaiting", "PAYMENT_REQUESTED")
        /\ result' = result
    BY <1>1 DEF StockDeducted
  <2>2. /\ PhaseOf(o) = "reserved"
        /\ \A v \in EventTypes : InFlight(o, v)' = IF v = "PAYMENT_REQUESTED" THEN 1 ELSE 0
        /\ \A p \in Orders \ {o} : \A v \in EventTypes : InFlight(p, v)' = InFlight(p, v)
        /\ orders'[o] = "awaiting"
        /\ \A p \in Orders \ {o} : orders'[p] = orders[p]
        /\ UNCHANGED <<payments, held, rejected>>
    BY <2>1, AdvanceOrderStep DEF EventTypes, Statuses, PhaseWith
  <2>3. orders[o] = "pending" /\ o \in held /\ o \notin rejected
    BY <2>2 DEF PhaseOf, TypeOK, Statuses
  <2>4. payments[o]["success"] = 0 /\ payments[o]["failed"] = 0
    BY <1>a, <2>3 DEF OrderOK, Charged
  <2>5. PhaseOf(o)' = "payable"
    BY <2>2, <2>4 DEF PhaseOf
  <2>6. OneEvent(o)'
    BY <2>2, <2>5, NewEvent DEF PhaseWith, EventTypes
  <2>7. Charged(o)'
    BY <2>2, <2>4 DEF Charged
  <2>8. Stocked(o)'
    BY <2>2, <2>3 DEF Stocked, EventTypes
  <2>9. Told(o)'
    BY <1>a, <2>1, <2>2, <2>3 DEF OrderOK, Told
  <2>10. ASSUME NEW p \in Orders \ {o} PROVE Same(p)
    BY <2>1, <2>2 DEF Same
  <2> QED BY <1>a, <2>6, <2>7, <2>8, <2>9, <2>10, SameOrder DEF OrderInv, OrderOK
<1>2. CASE StockDeductFailed(o)
  <2>1. /\ AdvanceOrder(o, "STOCK_DEDUCT_FAILED", "cancelled", "ORDER_CANCELLED")
        /\ SetResult(o, "FAILED")
    BY <1>2 DEF StockDeductFailed
  <2>2. /\ PhaseOf(o) = "refused"
        /\ \A v \in EventTypes : InFlight(o, v)' = IF v = "ORDER_CANCELLED" THEN 1 ELSE 0
        /\ \A p \in Orders \ {o} : \A v \in EventTypes : InFlight(p, v)' = InFlight(p, v)
        /\ orders'[o] = "cancelled"
        /\ \A p \in Orders \ {o} : orders'[p] = orders[p]
        /\ UNCHANGED <<payments, held, rejected>>
    BY <2>1, AdvanceOrderStep DEF EventTypes, Statuses, PhaseWith
  <2>r. /\ result'[o] \in {result[o], "FAILED"}
        /\ \A p \in Orders \ {o} : result'[p] = result[p]
    BY <2>1, SetResultOne DEF Results
  <2>3. orders[o] = "pending" /\ o \in rejected
    BY <2>2 DEF PhaseOf, TypeOK, Statuses
  <2>4. payments[o]["success"] = 0 /\ payments[o]["failed"] = 0
    BY <1>a, <2>3 DEF OrderOK, Charged
  <2>5. PhaseOf(o)' = "cancelled"
    BY <2>2 DEF PhaseOf
  <2>6. OneEvent(o)'
    BY <2>2, <2>5, NewEvent DEF PhaseWith, EventTypes
  <2>7. Charged(o)'
    BY <2>2, <2>4 DEF Charged
  <2>8. Stocked(o)'
    BY <1>a, <2>2, <2>3 DEF OrderOK, Stocked, EventTypes
  <2>9. Told(o)'
    BY <1>a, <2>r, <2>2, <2>3 DEF OrderOK, Told
  <2>10. ASSUME NEW p \in Orders \ {o} PROVE Same(p)
    BY <2>r, <2>2 DEF Same
  <2> QED BY <1>a, <2>6, <2>7, <2>8, <2>9, <2>10, SameOrder DEF OrderInv, OrderOK
<1>3. CASE PaymentSuccess(o)
  <2>1. /\ AdvanceOrder(o, "PAYMENT_SUCCESS", "paid", "ORDER_COMPLETED")
        /\ SetResult(o, "SUCCESS")
    BY <1>3 DEF PaymentSuccess
  <2>2. /\ PhaseOf(o) = "charged"
        /\ \A v \in EventTypes : InFlight(o, v)' = IF v = "ORDER_COMPLETED" THEN 1 ELSE 0
        /\ \A p \in Orders \ {o} : \A v \in EventTypes : InFlight(p, v)' = InFlight(p, v)
        /\ orders'[o] = "paid"
        /\ \A p \in Orders \ {o} : orders'[p] = orders[p]
        /\ UNCHANGED <<payments, held, rejected>>
    BY <2>1, AdvanceOrderStep DEF EventTypes, Statuses, PhaseWith
  <2>r. /\ result'[o] \in {result[o], "SUCCESS"}
        /\ \A p \in Orders \ {o} : result'[p] = result[p]
    BY <2>1, SetResultOne DEF Results
  <2>3. orders[o] = "awaiting" /\ payments[o]["success"] > 0
    BY <2>2 DEF PhaseOf, TypeOK, Statuses
  <2>4. /\ payments[o]["success"] = 1 /\ payments[o]["failed"] = 0
        /\ o \in held /\ o \notin rejected
    <3>1. payments[o]["success"] + payments[o]["failed"] <= 1
      BY <1>a, <2>3 DEF OrderOK, Charged
    <3>2. payments[o]["success"] \in Nat /\ payments[o]["failed"] \in Nat
      BY DEF TypeOK, Outcomes
    <3>3. payments[o]["success"] = 1 /\ payments[o]["failed"] = 0
      BY <2>3, <3>1, <3>2
    <3>4. o \in held /\ o \notin rejected
      BY <1>a, <2>3 DEF OrderOK, Stocked
    <3> QED BY <3>3, <3>4
  <2>5. PhaseOf(o)' = "paid"
    BY <2>2 DEF PhaseOf
  <2>6. OneEvent(o)'
    BY <2>2, <2>5, NewEvent DEF PhaseWith, EventTypes
  <2>7. Charged(o)'
    BY <2>2, <2>4 DEF Charged
  <2>8. Stocked(o)'
    BY <2>2, <2>4 DEF Stocked, EventTypes
  <2>9. Told(o)'
    BY <1>a, <2>r, <2>2, <2>3 DEF OrderOK, Told
  <2>10. ASSUME NEW p \in Orders \ {o} PROVE Same(p)
    BY <2>r, <2>2 DEF Same
  <2> QED BY <1>a, <2>6, <2>7, <2>8, <2>9, <2>10, SameOrder DEF OrderInv, OrderOK
<1>4. CASE PaymentFailed(o)
  <2>1. /\ AdvanceOrder(o, "PAYMENT_FAILED", "cancelled", "ORDER_CANCELLED")
        /\ SetResult(o, "FAILED")
    BY <1>4 DEF PaymentFailed
  <2>2. /\ PhaseOf(o) = "declined"
        /\ \A v \in EventTypes : InFlight(o, v)' = IF v = "ORDER_CANCELLED" THEN 1 ELSE 0
        /\ \A p \in Orders \ {o} : \A v \in EventTypes : InFlight(p, v)' = InFlight(p, v)
        /\ orders'[o] = "cancelled"
        /\ \A p \in Orders \ {o} : orders'[p] = orders[p]
        /\ UNCHANGED <<payments, held, rejected>>
    BY <2>1, AdvanceOrderStep DEF EventTypes, Statuses, PhaseWith
  <2>r. /\ result'[o] \in {result[o], "FAILED"}
        /\ \A p \in Orders \ {o} : result'[p] = result[p]
    BY <2>1, SetResultOne DEF Results
  <2>3. /\ orders[o] = "awaiting"
        /\ ~ payments[o]["success"] > 0 /\ payments[o]["failed"] > 0
    BY <2>2 DEF PhaseOf, TypeOK, Statuses
  <2>4. /\ payments[o]["success"] = 0 /\ payments[o]["failed"] <= 1
        /\ o \in held /\ o \notin rejected
    BY <1>a, <2>3 DEF OrderOK, Charged, Stocked, TypeOK, Outcomes
  <2>5. PhaseOf(o)' = "cancelled"
    BY <2>2 DEF PhaseOf
  <2>6. OneEvent(o)'
    BY <2>2, <2>5, NewEvent DEF PhaseWith, EventTypes
  <2>7. Charged(o)'
    BY <2>2, <2>4 DEF Charged
  <2>8. Stocked(o)'
    BY <2>2, <2>4 DEF Stocked, EventTypes
  <2>9. Told(o)'
    BY <1>a, <2>r, <2>2, <2>3 DEF OrderOK, Told
  <2>10. ASSUME NEW p \in Orders \ {o} PROVE Same(p)
    BY <2>r, <2>2 DEF Same
  <2> QED BY <1>a, <2>6, <2>7, <2>8, <2>9, <2>10, SameOrder DEF OrderInv, OrderOK
<1> QED BY <1>1, <1>2, <1>3, <1>4

\* Every step keeps every order's invariant.
LEMMA OrderStep ==
  ASSUME MaxDup = 0, TypeOK, OrderInv, [Next]_vars
  PROVE  OrderInv'
<1>1. CASE UNCHANGED vars
  <2>1. \A p \in Orders : Same(p)
    BY <1>1 DEF Same, InFlight, vars
  <2> QED BY <2>1, SameOrder DEF OrderInv
<1>2. CASE Next
  BY <1>2, PlaceOrderStep, ResultStep, RelayStep, LoseStep, OrderCreatedStep,
     SettleStep, PayStep, OrderHandlerStep DEF Next, Handle
<1> QED BY <1>1, <1>2

\* With no order placed and no event written, every order satisfies its part.
LEMMA OrderInit == Init => OrderInv
<1> SUFFICES ASSUME Init, NEW o \in Orders PROVE OrderOK(o)
  BY DEF OrderInv
<1>1. \A v \in EventTypes : InFlight(o, v) = 0
  BY DEF Init, InFlight, Events
<1>2. /\ orders[o] = "none" /\ result[o] = "none" /\ held = {} /\ rejected = {}
      /\ payments[o]["success"] = 0 /\ payments[o]["failed"] = 0
  BY DEF Init, Outcomes
<1> QED BY <1>1, <1>2 DEF OrderOK, OneEvent, Charged, Stocked, Told, EventTypes

\* Without duplicates every order has at most one event in flight, and that
\* event fits the order's phase, its charges, its stock and its poll key: the
\* handlers may overwrite the status blindly.
THEOREM OrderInvariant ==
  ASSUME MaxDup = 0
  PROVE  Spec => []OrderInv
<1>1. TypeOK /\ OrderInv /\ [Next]_vars => OrderInv'
  BY OrderStep
<1> QED BY <1>1, OrderInit, TypeCorrect, PTL DEF Spec

-----------------------------------------------------------------------------
(* What the invariant gives *)

\* order-service and payment-service agree on who paid.
THEOREM PaidMeansCharged ==
  ASSUME MaxDup = 0
  PROVE  Spec => []PaidIsCharged
<1>1. OrderInv => PaidIsCharged
  BY DEF OrderInv, OrderOK, Charged, PaidIsCharged
<1> QED BY <1>1, OrderInvariant, PTL

\* The poll endpoint never announces an end the order row has not reached.
THEOREM ResultIsSound ==
  ASSUME MaxDup = 0
  PROVE  Spec => []ResultSound
<1>1. TypeOK /\ OrderInv => ResultSound
  BY DEF OrderInv, OrderOK, Told, ResultSound, GetSeckillResult, TypeOK, Results
<1> QED BY <1>1, TypeCorrect, OrderInvariant, PTL

\* The handlers, which never test the status they overwrite, still move it only
\* along the order state machine.
THEOREM StatusFollowsStateMachine ==
  ASSUME MaxDup = 0
  PROVE  Spec => StateMachine
<1> DEFINE Legal == \A o \in Orders : orders'[o] # orders[o]
                       => <<orders[o], orders'[o]>> \in Transitions
<1>1. ASSUME TypeOK, OrderInv, [Next]_vars PROVE [Legal]_orders
  <2> SUFFICES ASSUME NEW p \in Orders, orders'[p] # orders[p]
               PROVE  <<orders[p], orders'[p]>> \in Transitions
    OBVIOUS
  <2>1. PICK o \in Orders : \/ PlaceOrder(o) \/ StockDeducted(o)
                           \/ StockDeductFailed(o) \/ PaymentSuccess(o)
                           \/ PaymentFailed(o)
    BY <1>1 DEF Next, vars, rowVars, AnswerPending, PendingExpires, RelayOrder,
       Relay, SendAndMark, SendMarkFails, Handle, DeductStock, StockInsufficient,
       RetriesExhausted, RefuseStock, ConfirmDeduction, ReturnStock, Pay, Lose,
       LoseEvent
  <2>2. p = o
    BY <1>1, <2>1 DEF PlaceOrder, StockDeducted, StockDeductFailed, PaymentSuccess,
       PaymentFailed, AdvanceOrder, TypeOK
  <2> USE <1>1, <2>2 DEF Transitions
  <2>3. CASE PlaceOrder(o)
    BY <2>3 DEF PlaceOrder, TypeOK
  <2>4. CASE StockDeducted(o)
    <3>1. PhaseOf(o) = "reserved" /\ orders'[o] = "awaiting"
      BY <2>4, AdvanceOrderStep DEF StockDeducted, EventTypes, Statuses, PhaseWith
    <3> QED BY <3>1 DEF PhaseOf, TypeOK, Statuses
  <2>5. CASE StockDeductFailed(o)
    <3>1. PhaseOf(o) = "refused" /\ orders'[o] = "cancelled"
      BY <2>5, AdvanceOrderStep DEF StockDeductFailed, EventTypes, Statuses, PhaseWith
    <3> QED BY <3>1 DEF PhaseOf, TypeOK, Statuses
  <2>6. CASE PaymentSuccess(o)
    <3>1. PhaseOf(o) = "charged" /\ orders'[o] = "paid"
      BY <2>6, AdvanceOrderStep DEF PaymentSuccess, EventTypes, Statuses, PhaseWith
    <3> QED BY <3>1 DEF PhaseOf, TypeOK, Statuses
  <2>7. CASE PaymentFailed(o)
    <3>1. PhaseOf(o) = "declined" /\ orders'[o] = "cancelled"
      BY <2>7, AdvanceOrderStep DEF PaymentFailed, EventTypes, Statuses, PhaseWith
    <3> QED BY <3>1 DEF PhaseOf, TypeOK, Statuses
  <2> QED BY <2>1, <2>3, <2>4, <2>5, <2>6, <2>7
<1> QED BY <1>1, TypeCorrect, OrderInvariant, PTL DEF Spec, StateMachine

-----------------------------------------------------------------------------
(* The saga implements the sequential order flow *)

\* A step of the saga advances the phase of one order, or none.
LEMMA PhaseStep ==
  ASSUME MaxDup = 0, TypeOK, OrderInv, Next
  PROVE  \E o \in Orders :
           /\ \A p \in Orders \ {o} : PhaseOf(p)' = PhaseOf(p)
           /\ \/ PhaseOf(o)' = PhaseOf(o)
              \/ <<PhaseOf(o), PhaseOf(o)'>> \in Flow!Steps
<1> PICK o \in Orders : \/ PlaceOrder(o) \/ AnswerPending(o)
                       \/ PendingExpires(o)
                       \/ RelayOrder(o) \/ Handle(o) \/ Lose(o)
  BY DEF Next
<1> WITNESS o \in Orders
<1>o. OneEvent(o) /\ Charged(o)
  BY DEF OrderInv, OrderOK
<1>1. CASE UNCHANGED <<orders, payments, held, rejected>>
  BY <1>1 DEF PhaseOf
<1>2. CASE PlaceOrder(o)
  <2>1. /\ orders[o] = "none" /\ orders'[o] = "pending"
        /\ \A p \in Orders \ {o} : orders'[p] = orders[p]
        /\ UNCHANGED <<payments, held, rejected>>
    BY <1>2 DEF PlaceOrder, TypeOK, historyVars
  <2>2. o \notin held /\ o \notin rejected
    BY <2>1 DEF OrderInv, OrderOK, Stocked
  <2>3. PhaseOf(o) = "none" /\ PhaseOf(o)' = "accepted"
    BY <2>1, <2>2 DEF PhaseOf
  <2> QED BY <2>1, <2>3 DEF PhaseOf, Flow!Steps
<1>3. CASE DeductStock(o) \/ StockInsufficient(o) \/ RetriesExhausted(o)
  <2>1. topic[<<o, "ORDER_CREATED">>] > 0
    BY <1>3, ConsumeDelivers DEF DeductStock, StockInsufficient,
       RetriesExhausted, Consume, Deliver, DeliverAgain
  <2>2. PhaseOf(o) = "accepted"
    BY <2>1, <1>o, OnlyEvent DEF EventTypes, PhaseWith
  <2>3. orders[o] = "pending" /\ o \notin held /\ o \notin rejected
    BY <2>2 DEF PhaseOf, TypeOK, Statuses
  <2>4. /\ UNCHANGED <<orders, payments>>
        /\ \/ held' = held \union {o} /\ rejected' = rejected
           \/ rejected' = rejected \union {o} /\ held' = held
    BY <1>3 DEF DeductStock, StockInsufficient, RetriesExhausted, RefuseStock, rowVars
  <2>5. PhaseOf(o)' \in {"reserved", "refused"}
    BY <2>3, <2>4 DEF PhaseOf
  <2> QED BY <2>2, <2>4, <2>5 DEF PhaseOf, Flow!Steps
<1>4. CASE ConfirmDeduction(o) \/ ReturnStock(o)
  <2>1. \E t \in {"ORDER_COMPLETED", "ORDER_CANCELLED"} : topic[<<o, t>>] > 0
    BY <1>4 DEF ConfirmDeduction, ReturnStock, Consume, Deliver, DeliverAgain
  <2>2. PhaseOf(o) \in {"paid", "cancelled"}
    BY <2>1, <1>o, OnlyEvent DEF EventTypes, PhaseWith
  <2>3. orders[o] \in {"paid", "cancelled"}
    BY <2>2 DEF PhaseOf, TypeOK, Statuses
  <2>4. /\ UNCHANGED <<orders, payments, rejected>>
        /\ held' \in {held, held \ {o}}
    BY <1>4 DEF ConfirmDeduction, ReturnStock
  <2> QED BY <2>3, <2>4 DEF PhaseOf
<1>5. CASE \E r \in Outcomes : Pay(o, r)
  <2> PICK r \in Outcomes : Pay(o, r)
    BY <1>5
  <2>1. topic[<<o, "PAYMENT_REQUESTED">>] > 0
    BY DEF Pay, Consume, Deliver, DeliverAgain
  <2>2. PhaseOf(o) = "payable"
    BY <2>1, <1>o, OnlyEvent DEF EventTypes, PhaseWith
  <2>3. /\ orders[o] = "awaiting"
        /\ payments[o]["success"] = 0 /\ payments[o]["failed"] = 0
    BY <2>2 DEF PhaseOf, TypeOK, Statuses, Outcomes
  <2>4. /\ UNCHANGED <<orders, held, rejected>>
        /\ payments' = [payments EXCEPT ![o][r] = @ + 1]
    BY DEF Pay, historyVars
  <2>5. /\ payments'[o]["success"] = IF r = "success" THEN 1 ELSE 0
        /\ payments'[o]["failed"] = IF r = "failed" THEN 1 ELSE 0
        /\ \A p \in Orders \ {o} : payments'[p] = payments[p]
    BY <2>3, <2>4 DEF TypeOK, Outcomes
  <2>6. PhaseOf(o)' \in {"charged", "declined"}
    BY <2>3, <2>4, <2>5 DEF PhaseOf, Outcomes
  <2> QED BY <2>2, <2>4, <2>5, <2>6 DEF PhaseOf, Flow!Steps
<1>6. CASE StockDeducted(o)
  <2>1. /\ PhaseOf(o) = "reserved" /\ orders'[o] = "awaiting"
        /\ \A p \in Orders \ {o} : orders'[p] = orders[p]
        /\ UNCHANGED <<payments, held, rejected>>
    BY <1>6, AdvanceOrderStep DEF StockDeducted, EventTypes, Statuses, PhaseWith
  <2>2. payments[o]["success"] = 0 /\ payments[o]["failed"] = 0
    BY <2>1, <1>o DEF PhaseOf, Charged, TypeOK, Statuses
  <2>3. PhaseOf(o)' = "payable"
    BY <2>1, <2>2 DEF PhaseOf
  <2> QED BY <2>1, <2>3 DEF PhaseOf, Flow!Steps
<1>7. CASE StockDeductFailed(o)
  <2>1. /\ PhaseOf(o) = "refused" /\ orders'[o] = "cancelled"
        /\ \A p \in Orders \ {o} : orders'[p] = orders[p]
        /\ UNCHANGED <<payments, held, rejected>>
    BY <1>7, AdvanceOrderStep DEF StockDeductFailed, EventTypes, Statuses, PhaseWith
  <2> QED BY <2>1 DEF PhaseOf, Flow!Steps
<1>8. CASE PaymentSuccess(o)
  <2>1. /\ PhaseOf(o) = "charged" /\ orders'[o] = "paid"
        /\ \A p \in Orders \ {o} : orders'[p] = orders[p]
        /\ UNCHANGED <<payments, held, rejected>>
    BY <1>8, AdvanceOrderStep DEF PaymentSuccess, EventTypes, Statuses, PhaseWith
  <2> QED BY <2>1 DEF PhaseOf, Flow!Steps
<1>9. CASE PaymentFailed(o)
  <2>1. /\ PhaseOf(o) = "declined" /\ orders'[o] = "cancelled"
        /\ \A p \in Orders \ {o} : orders'[p] = orders[p]
        /\ UNCHANGED <<payments, held, rejected>>
    BY <1>9, AdvanceOrderStep DEF PaymentFailed, EventTypes, Statuses, PhaseWith
  <2> QED BY <2>1 DEF PhaseOf, Flow!Steps
<1>10. CASE AnswerPending(o) \/ PendingExpires(o) \/ RelayOrder(o) \/ Lose(o)
  <2>1. UNCHANGED <<orders, payments, held, rejected>>
    BY <1>10 DEF AnswerPending, PendingExpires, RelayOrder, Relay, SendAndMark,
       SendMarkFails, Lose, LoseEvent, rowVars, historyVars
  <2> QED BY <2>1, <1>1
<1> QED BY <1>2, <1>3, <1>4, <1>5, <1>6, <1>7, <1>8, <1>9, <1>10 DEF Handle

\* Three services, three databases, an outbox each and Kafka between them behave
\* as one sequential process per order, even if events are lost.
THEOREM SagaImplementsOrderFlow ==
  ASSUME MaxDup = 0
  PROVE  Spec => FlowSafe
<1> DEFINE phase == [o \in Orders |-> PhaseOf(o)]
<1>1. Init => Flow!Init
  <2> SUFFICES ASSUME Init, NEW o \in Orders PROVE PhaseOf(o) = "none"
    BY DEF Flow!Init
  <2> QED BY DEF Init, PhaseOf
<1>2. ASSUME TypeOK, OrderInv, [Next]_vars PROVE [Flow!Next]_phase
  <2>1. CASE UNCHANGED vars
    <3>1. phase' = phase
      BY <2>1 DEF vars, PhaseOf
    <3> QED BY <3>1
  <2>2. CASE Next
    <3> PICK o \in Orders :
           /\ \A p \in Orders \ {o} : PhaseOf(p)' = PhaseOf(p)
           /\ \/ PhaseOf(o)' = PhaseOf(o)
              \/ <<PhaseOf(o), PhaseOf(o)'>> \in Flow!Steps
      BY <1>2, <2>2, PhaseStep
    <3>1. CASE PhaseOf(o)' = PhaseOf(o)
      <4>1. phase' = phase
        BY <3>1
      <4> QED BY <4>1
    <3>2. CASE <<PhaseOf(o), PhaseOf(o)'>> \in Flow!Steps
      <4>1. phase' = [phase EXCEPT ![o] = PhaseOf(o)']
        OBVIOUS
      <4>2. PhaseOf(o)' \in Flow!Phases
        BY <3>2 DEF Flow!Steps, Flow!Phases
      <4>3. Flow!Move(o, PhaseOf(o)')
        BY <3>2, <4>1 DEF Flow!Move
      <4>4. Flow!Accept(o) \/ Flow!Advance(o)
        BY <4>2, <4>3 DEF Flow!Accept, Flow!Advance
      <4> QED BY <4>4 DEF Flow!Next
    <3> QED BY <3>1, <3>2
  <2> QED BY <1>2, <2>1, <2>2
<1> QED BY <1>1, <1>2, TypeCorrect, OrderInvariant, PTL
        DEF Spec, FlowSafe, Flow!Spec

-----------------------------------------------------------------------------
(* The stock accounting: but for what refused orders return, the inventory   *)
(* row counts the units of the orders, and the paid orders fit in the stock. *)
(* Sums of quantities are cardinalities of sets of units, so that the        *)
(* library's theorems on finite sets apply.                                  *)

\* The units of one order are as many as its quantity.
LEMMA UnitsOfOne ==
  ASSUME NEW o \in Orders
  PROVE  /\ IsFiniteSet({o} \X (1..Quantity[o]))
         /\ Cardinality({o} \X (1..Quantity[o])) = Quantity[o]
         /\ Quantity[o] \in Nat
<1>1. Quantity[o] \in Nat /\ Quantity[o] >= 1
  BY QuantityAssumption
<1>2. /\ IsFiniteSet(1..Quantity[o])
      /\ Cardinality(1..Quantity[o]) = Quantity[o]
  BY <1>1, FS_Interval
<1>3. IsFiniteSet({o}) /\ Cardinality({o}) = 1
  BY FS_Singleton
<1>4. /\ IsFiniteSet({o} \X (1..Quantity[o]))
      /\ Cardinality({o} \X (1..Quantity[o])) = 1 * Quantity[o]
  BY <1>2, <1>3, FS_Product
<1> QED BY <1>1, <1>4

\* A set of orders has finitely many units.
LEMMA UnitsFinite ==
  ASSUME NEW S \in SUBSET Orders
  PROVE  IsFiniteSet(Units(S)) /\ Cardinality(Units(S)) \in Nat
<1> DEFINE T == {{o} \X (1..Quantity[o]) : o \in S}
           f == [o \in S |-> {o} \X (1..Quantity[o])]
<1>1. IsFiniteSet(S)
  BY OrdersAssumption, FS_Subset
<1>2. f \in Surjection(S, T)
  BY DEF Surjection
<1>3. IsFiniteSet(T)
  BY <1>1, <1>2, FS_Surjection
<1>4. \A t \in T : IsFiniteSet(t)
  BY UnitsOfOne
<1>5. IsFiniteSet(UNION T)
  BY <1>3, <1>4, FS_UNION
<1>6. Units(S) = UNION T
  BY DEF Units
<1>7. IsFiniteSet(Units(S))
  BY <1>5, <1>6
<1> QED BY <1>7, FS_CardinalityType

\* Units of disjoint sets of orders add up.
LEMMA UnitsDisjoint ==
  ASSUME NEW S \in SUBSET Orders, NEW T \in SUBSET Orders, S \cap T = {}
  PROVE  Cardinality(Units(S \union T)) = Cardinality(Units(S)) + Cardinality(Units(T))
<1>1. Units(S \union T) = Units(S) \union Units(T)
  BY DEF Units
<1>2. Units(S) \cap Units(T) = {}
  BY DEF Units
<1>3. /\ IsFiniteSet(Units(S)) /\ IsFiniteSet(Units(T))
      /\ Cardinality(Units(S)) \in Nat /\ Cardinality(Units(T)) \in Nat
  BY UnitsFinite
<1>4. Cardinality(Units(S) \cap Units(T)) = 0
  BY <1>2, FS_EmptySet
<1>5. Cardinality(Units(S) \union Units(T))
        = Cardinality(Units(S)) + Cardinality(Units(T)) - Cardinality(Units(S) \cap Units(T))
  BY <1>3, FS_Union
<1>6. Cardinality(Units(S) \union Units(T))
        = Cardinality(Units(S)) + Cardinality(Units(T))
  <2> DEFINE a == Cardinality(Units(S))  b == Cardinality(Units(T))
             c == Cardinality(Units(S) \cap Units(T))
             d == Cardinality(Units(S) \union Units(T))
  <2>1. a \in Nat /\ b \in Nat /\ c = 0 /\ d = a + b - c
    BY <1>3, <1>4, <1>5
  <2> HIDE DEF a, b, c, d
  <2>2. d = a + b
    BY <2>1
  <2> QED BY <2>2 DEF a, b, d
<1> QED BY <1>1, <1>6

\* Fewer orders have no more units.
LEMMA UnitsMonotone ==
  ASSUME NEW S \in SUBSET Orders, NEW T \in SUBSET S
  PROVE  Cardinality(Units(T)) <= Cardinality(Units(S))
<1>1. Units(T) \subseteq Units(S)
  BY DEF Units
<1>2. IsFiniteSet(Units(S))
  BY UnitsFinite
<1>3. Units(T) \in SUBSET Units(S)
  BY <1>1
<1> QED BY <1>2, <1>3, FS_Subset

\* One more order brings its quantity.
LEMMA UnitsAdd ==
  ASSUME NEW S \in SUBSET Orders, NEW o \in Orders, o \notin S
  PROVE  Cardinality(Units(S \union {o})) = Cardinality(Units(S)) + Quantity[o]
<1>1. Units({o}) = {o} \X (1..Quantity[o])
  BY DEF Units
<1>2. Cardinality(Units({o})) = Quantity[o]
  BY <1>1, UnitsOfOne
<1>3. Cardinality(Units(S \union {o})) = Cardinality(Units(S)) + Cardinality(Units({o}))
  BY UnitsDisjoint
<1> QED BY <1>2, <1>3

\* One order less takes its quantity away.
LEMMA UnitsRemove ==
  ASSUME NEW S \in SUBSET Orders, NEW o \in S
  PROVE  /\ Cardinality(Units(S)) = Cardinality(Units(S \ {o})) + Quantity[o]
         /\ Cardinality(Units(S \ {o})) \in Nat
<1>1. S = (S \ {o}) \union {o} /\ o \notin S \ {o}
  OBVIOUS
<1>2. Cardinality(Units(S)) = Cardinality(Units(S \ {o})) + Quantity[o]
  BY <1>1, UnitsAdd
<1> QED BY <1>2, UnitsFinite

-----------------------------------------------------------------------------
(* The accounting invariant *)

\* A cancelled order without an event in flight stays so.
LEMMA ReturnedGrows ==
  ASSUME TypeOK, OrderInv, [Next]_vars
  PROVE  Returned \subseteq Returned'
<1> SUFFICES ASSUME NEW p \in Returned PROVE p \in Returned'
  OBVIOUS
<1>1. p \in Orders /\ p \in rejected /\ orders[p] = "cancelled"
  BY DEF Returned, TypeOK
<1>2. \A t \in EventTypes : topic[<<p, t>>] = 0 /\ outbox[<<p, t>>] = 0
  <2> TAKE t \in EventTypes
  <2>1. InFlight(p, t) \in Nat /\ topic[<<p, t>>] \in Nat /\ outbox[<<p, t>>] \in Nat
    BY <1>1, InFlightType
  <2>2. InFlight(p, t) > 0 => t = "ORDER_CANCELLED"
    BY <1>1 DEF OrderInv, OrderOK, OneEvent, PhaseOf, PhaseWith, EventTypes
  <2>3. InFlight(p, t) = 0
    BY <2>1, <2>2 DEF Returned
  <2> QED BY <2>1, <2>3 DEF InFlight
<1> SUFFICES /\ rejected \subseteq rejected' /\ orders'[p] = orders[p]
             /\ \A t \in EventTypes : topic'[<<p, t>>] = 0 /\ outbox'[<<p, t>>] = 0
  BY <1>1, <1>2 DEF Returned, InFlight, EventTypes
<1>3. CASE UNCHANGED vars
  BY <1>2, <1>3 DEF vars
<1>4. CASE Next
  <2> PICK o \in Orders : \/ PlaceOrder(o) \/ AnswerPending(o)
                          \/ PendingExpires(o)
                          \/ RelayOrder(o) \/ Handle(o) \/ Lose(o)
    BY <1>4 DEF Next
  <2>1. CASE AnswerPending(o) \/ PendingExpires(o)
    BY <1>2, <2>1 DEF AnswerPending, PendingExpires, rowVars, historyVars
  <2>2. CASE PlaceOrder(o)
    <3>1. p # o
      BY <1>1, <2>2 DEF PlaceOrder
    <3> QED BY <1>1, <1>2, <2>2, <3>1
            DEF PlaceOrder, WriteEvent, historyVars, TypeOK, Events
  <2>3. CASE RelayOrder(o)
    <3> PICK t \in EventTypes : Relay(o, t)
      BY <2>3 DEF RelayOrder
    <3>1. outbox[<<o, t>>] > 0
      BY DEF Relay, SendAndMark, SendMarkFails
    <3>2. p # o
      BY <1>2, <3>1
    <3>3. CASE SendAndMark(o, t)
      BY <1>1, <1>2, <3>2, <3>3 DEF SendAndMark, rowVars, historyVars, TypeOK, Events
    <3>4. CASE SendMarkFails(o, t)
      BY <1>1, <1>2, <3>2, <3>4 DEF SendMarkFails, rowVars, historyVars, TypeOK, Events
    <3> QED BY <3>3, <3>4 DEF Relay
  <2>4. CASE Lose(o)
    <3> PICK t \in EventTypes : LoseEvent(o, t)
      BY <2>4 DEF Lose
    <3>1. p # o
      BY <1>2 DEF LoseEvent
    <3> QED BY <1>1, <1>2, <3>1 DEF LoseEvent, rowVars, historyVars, TypeOK, Events
  <2>5. CASE Handle(o)
    <3>1. PICK t \in EventTypes, u \in EventTypes, s \in Statuses :
             /\ topic[<<o, t>>] > 0
             /\ topic' \in {topic, [topic EXCEPT ![<<o, t>>] = @ - 1]}
             /\ outbox' \in {outbox, [outbox EXCEPT ![<<o, u>>] = @ + 1]}
             /\ orders' \in {orders, [orders EXCEPT ![o] = s]}
             /\ rejected \subseteq rejected'
      BY <2>5, HandlesEvent
    <3>2. p # o
      BY <1>2, <3>1
    <3>3. \A v \in EventTypes : topic'[<<p, v>>] = 0
      BY <1>1, <1>2, <3>1, <3>2 DEF TypeOK, Events
    <3>4. \A v \in EventTypes : outbox'[<<p, v>>] = 0
      BY <1>1, <1>2, <3>1, <3>2 DEF TypeOK, Events
    <3>5. orders'[p] = orders[p]
      BY <1>1, <3>1, <3>2 DEF TypeOK
    <3> QED BY <3>1, <3>3, <3>4, <3>5
  <2> QED BY <2>1, <2>2, <2>3, <2>4, <2>5
<1> QED BY <1>3, <1>4

\* A step that leaves the row and its holders alone keeps the accounting.
LEMMA StockSame ==
  ASSUME TypeOK, TypeOK', StockInv, Returned \subseteq Returned',
         UNCHANGED <<locked, sold, held>>,
         Confirmed' = Confirmed
  PROVE  StockInv'
<1>1. Returned \in SUBSET Orders /\ Returned' \in SUBSET Orders /\ held \in SUBSET Orders
  BY DEF TypeOK, Returned
<1>2. /\ Cardinality(Units(Returned)) <= Cardinality(Units(Returned'))
      /\ Cardinality(Units(Returned)) \in Nat /\ Cardinality(Units(Returned')) \in Nat
      /\ Cardinality(Units(held)) \in Nat /\ locked \in Nat
  BY <1>1, UnitsMonotone, UnitsFinite DEF TypeOK
<1>3. /\ locked <= Cardinality(Units(held))
      /\ Cardinality(Units(held)) <= locked + Cardinality(Units(Returned))
      /\ sold = Cardinality(Units(Confirmed))
  BY DEF StockInv, HeldIsCovered
<1>4. Cardinality(Units(held)) <= locked + Cardinality(Units(Returned'))
  BY <1>2, <1>3
<1>5. locked' = locked /\ held' = held /\ sold' = sold
  OBVIOUS
<1> QED BY <1>3, <1>4, <1>5 DEF StockInv, HeldIsCovered

\* The row and its holders after a step that changes both.
LEMMA StockMoves ==
  ASSUME TypeOK, TypeOK', StockInv, Returned \subseteq Returned', NEW o \in Orders,
         \/ /\ locked' = locked + Quantity[o]
            /\ o \notin held /\ held' = held \union {o}
         \/ /\ locked' = locked - Quantity[o]
            /\ o \in held /\ held' = held \ {o}
         \/ /\ locked' = locked - Quantity[o]
            /\ held' = held /\ o \in Returned' \ Returned
  PROVE  HeldIsCovered'
<1> DEFINE h == Cardinality(Units(held))
           k == Cardinality(Units(held'))
           r == Cardinality(Units(Returned))
           s == Cardinality(Units(Returned'))
<1>1. /\ Returned \in SUBSET Orders /\ Returned' \in SUBSET Orders
      /\ held \in SUBSET Orders /\ held' \in SUBSET Orders
  BY DEF TypeOK, Returned
<1>2. h \in Nat /\ k \in Nat /\ r \in Nat /\ s \in Nat
  BY <1>1, UnitsFinite
<1>3. locked \in Nat /\ locked' \in Nat /\ Quantity[o] \in Nat
  BY UnitsOfOne DEF TypeOK
<1>4. r <= s
  BY <1>1, UnitsMonotone
<1>5. locked <= h /\ h <= locked + r
  BY DEF StockInv, HeldIsCovered
<1>6. ASSUME o \notin held, held' = held \union {o} PROVE k = h + Quantity[o]
  BY <1>1, <1>6, UnitsAdd
<1>7. ASSUME o \in held, held' = held \ {o} PROVE h = k + Quantity[o]
  BY <1>1, <1>7, UnitsRemove
<1>8. ASSUME o \in Returned' \ Returned PROVE r + Quantity[o] <= s
  <2> DEFINE T == Returned \union {o}
             t == Cardinality(Units(T))
  <2>1. T \in SUBSET Returned'
    BY <1>8
  <2>2. t = r + Quantity[o]
    BY <1>1, <1>8, UnitsAdd
  <2>3. t <= s
    BY <1>1, <2>1, UnitsMonotone
  <2> HIDE DEF t, r, s
  <2> QED BY <2>2, <2>3
<1>9. held' = held => k = h
  OBVIOUS
<1> DEFINE q == Quantity[o]
           l == locked
           m == locked'
<1>10. /\ l \in Nat /\ m \in Nat /\ q \in Nat
       /\ \/ m = l + q /\ k = h + q
          \/ m = l - q /\ h = k + q
          \/ m = l - q /\ k = h /\ r + q <= s
  BY <1>3, <1>6, <1>7, <1>8, <1>9
<1> HIDE DEF h, k, r, s, q, l, m
<1>11. l <= h /\ h <= l + r
  BY <1>5 DEF l
<1>12. m <= k /\ k <= m + s
  BY <1>2, <1>4, <1>10, <1>11
<1> QED BY <1>12 DEF HeldIsCovered, k, s, m

\* The step of one order keeps the accounting.
LEMMA StockStep ==
  ASSUME MaxDup = 0, TypeOK, OrderInv, StockInv, [Next]_vars
  PROVE  StockInv'
<1>t. held \in SUBSET Orders /\ rejected \in SUBSET Orders /\ Confirmed \in SUBSET Orders
      /\ locked \in Nat /\ sold \in Nat
  BY DEF TypeOK, Confirmed
<1>p. TypeOK' /\ Returned \subseteq Returned'
  BY TypeStep, ReturnedGrows
<1>1. CASE UNCHANGED <<orders, held, locked, sold>>
  BY <1>1, <1>p, StockSame DEF Confirmed
<1>2. CASE Next
  <2> PICK o \in Orders : \/ PlaceOrder(o) \/ AnswerPending(o)
                          \/ PendingExpires(o)
                          \/ RelayOrder(o) \/ Handle(o) \/ Lose(o)
    BY <1>2 DEF Next
  <2>o. OneEvent(o) /\ Stocked(o)
    BY DEF OrderInv, OrderOK
  <2>1. CASE AnswerPending(o) \/ PendingExpires(o) \/ RelayOrder(o) \/ Lose(o)
             \/ \E r \in Outcomes : Pay(o, r)
    <3>1. UNCHANGED <<orders, held, locked, sold>>
      BY <2>1 DEF AnswerPending, PendingExpires, RelayOrder, Relay, SendAndMark,
         SendMarkFails, Lose, LoseEvent, Pay, rowVars, historyVars
    <3> QED BY <3>1, <1>1
  <2>2. CASE StockInsufficient(o) \/ RetriesExhausted(o)
    <3>1. UNCHANGED <<orders, held, locked, sold>>
      BY <2>2 DEF StockInsufficient, RetriesExhausted, RefuseStock, rowVars
    <3> QED BY <3>1, <1>1
  <2>3. CASE PlaceOrder(o)
    <3>1. orders[o] = "none" /\ orders' = [orders EXCEPT ![o] = "pending"]
          /\ UNCHANGED <<held, locked, sold>>
      BY <2>3 DEF PlaceOrder, historyVars
    <3>2. Confirmed' = Confirmed
      BY <3>1 DEF Confirmed, TypeOK
    <3> QED BY <1>p, <3>1, <3>2, StockSame
  <2>4. CASE StockDeducted(o) \/ StockDeductFailed(o) \/ PaymentFailed(o)
    <3>1. PICK s \in {"awaiting", "cancelled"} : orders' = [orders EXCEPT ![o] = s]
      BY <2>4 DEF StockDeducted, StockDeductFailed, PaymentFailed, AdvanceOrder
    <3>2. UNCHANGED <<held, locked, sold>>
      BY <2>4 DEF StockDeducted, StockDeductFailed, PaymentFailed, AdvanceOrder,
         historyVars
    <3>3. PhaseOf(o) \in {"reserved", "refused", "declined"}
      BY <2>4, AdvanceOrderStep DEF StockDeducted, StockDeductFailed, PaymentFailed,
         EventTypes, Statuses, PhaseWith
    <3>4. orders[o] # "paid"
      BY <3>3 DEF PhaseOf, TypeOK, Statuses
    <3>5. Confirmed' = Confirmed
      BY <3>1, <3>2, <3>4 DEF Confirmed, TypeOK
    <3> QED BY <1>p, <3>2, <3>5, StockSame
  <2>5. CASE PaymentSuccess(o)
    <3>1. orders' = [orders EXCEPT ![o] = "paid"]
          /\ UNCHANGED <<held, locked, sold>>
      BY <2>5 DEF PaymentSuccess, AdvanceOrder, historyVars
    <3>2. PhaseOf(o) = "charged"
      BY <2>5, AdvanceOrderStep DEF PaymentSuccess, EventTypes, Statuses, PhaseWith
    <3>3. orders[o] = "awaiting"
      BY <3>2 DEF PhaseOf, TypeOK, Statuses
    <3>4. o \in held
      BY <3>3, <2>o DEF Stocked
    <3>5. Confirmed' = Confirmed
      BY <3>1, <3>4 DEF Confirmed, TypeOK
    <3> QED BY <1>p, <3>1, <3>5, StockSame
  <2>6. CASE DeductStock(o)
    <3>1. locked' = locked + Quantity[o] /\ held' = held \union {o}
          /\ UNCHANGED <<orders, sold>>
      BY <2>6 DEF DeductStock
    <3>2. topic[<<o, "ORDER_CREATED">>] > 0
      BY <2>6 DEF DeductStock, Consume, Deliver, DeliverAgain
    <3>3. PhaseOf(o) = "accepted"
      BY <3>2, <2>o, OnlyEvent DEF EventTypes, PhaseWith
    <3>4. orders[o] = "pending" /\ o \notin held
      BY <3>3 DEF PhaseOf, TypeOK, Statuses
    <3>5. Confirmed' = Confirmed
      BY <3>1, <3>4 DEF Confirmed
    <3>6. HeldIsCovered'
      BY <1>p, <3>1, <3>4, StockMoves
    <3> QED BY <3>1, <3>5, <3>6 DEF StockInv
  <2>7. CASE ConfirmDeduction(o)
    <3>1. topic[<<o, "ORDER_COMPLETED">>] > 0
      BY <2>7 DEF ConfirmDeduction, Consume, Deliver, DeliverAgain
    <3>2. /\ PhaseOf(o) = "paid"
          /\ InFlight(o, "ORDER_COMPLETED") = 1
      BY <3>1, <2>o, OnlyEvent DEF EventTypes, PhaseWith
    <3>3. orders[o] = "paid" /\ o \in held
      BY <3>2, <2>o DEF PhaseOf, TypeOK, Statuses, Stocked
    <3>4. CASE ~(locked >= Quantity[o])
      <4>1. UNCHANGED <<orders, held, locked, sold>>
        BY <2>7, <3>4 DEF ConfirmDeduction
      <4> QED BY <4>1, <1>1
    <3>5. CASE locked >= Quantity[o]
      <4>1. /\ locked' = locked - Quantity[o] /\ sold' = sold + Quantity[o]
            /\ held' = held \ {o} /\ UNCHANGED orders
        BY <2>7, <3>5 DEF ConfirmDeduction
      <4>2. HeldIsCovered'
        BY <1>p, <3>3, <4>1, StockMoves
      <4>3. Confirmed' = Confirmed \union {o} /\ o \notin Confirmed
        BY <3>3, <4>1 DEF Confirmed
      <4>4. sold' = Cardinality(Units(Confirmed'))
        BY <4>1, <4>3, <1>t, UnitsAdd DEF StockInv
      <4> QED BY <4>2, <4>4 DEF StockInv
    <3> QED BY <3>4, <3>5
  <2>8. CASE ReturnStock(o)
    <3>1. topic[<<o, "ORDER_CANCELLED">>] > 0
      BY <2>8 DEF ReturnStock, Consume, Deliver, DeliverAgain
    <3>2. /\ PhaseOf(o) = "cancelled"
          /\ InFlight(o, "ORDER_CANCELLED") = 1
      BY <3>1, <2>o, OnlyEvent DEF EventTypes, PhaseWith
    <3>3. orders[o] = "cancelled" /\ (o \in held \/ o \in rejected)
      BY <3>2, <2>o DEF PhaseOf, TypeOK, Statuses, Stocked
    <3>4. CASE ~(locked >= Quantity[o])
      <4>1. UNCHANGED <<orders, held, locked, sold>>
        BY <2>8, <3>4 DEF ReturnStock
      <4> QED BY <4>1, <1>1
    <3>5. CASE locked >= Quantity[o]
      <4>1. /\ locked' = locked - Quantity[o] /\ sold' = sold
            /\ held' = held \ {o} /\ UNCHANGED <<orders, outbox, rejected>>
        BY <2>8, <3>5 DEF ReturnStock
      <4>2. Confirmed' = Confirmed
        BY <3>3, <4>1 DEF Confirmed
      <4>3. CASE o \in held
        BY <1>p, <4>1, <4>2, <4>3, StockMoves DEF StockInv
      <4>4. CASE o \notin held
        <5>1. Deliver(o, "ORDER_CANCELLED")
          BY <2>8, ConsumeDelivers DEF ReturnStock, EventTypes
        <5>2. InFlight(o, "ORDER_CANCELLED")' = 0
          BY <2>o, <4>1, <5>1, HandleLast DEF Deliver, EventTypes
        <5>3. o \in Returned' \ Returned /\ held' = held
          BY <3>2, <3>3, <4>1, <4>4, <5>2 DEF Returned
        <5> QED BY <1>p, <4>1, <4>2, <5>3, StockMoves DEF StockInv
      <4> QED BY <4>3, <4>4
    <3> QED BY <3>4, <3>5
  <2> QED BY <2>1, <2>2, <2>3, <2>4, <2>5, <2>6, <2>7, <2>8 DEF Handle
<1> QED BY <1>1, <1>2 DEF vars

\* The whole inductive invariant holds in every state, for any orders,
\* quantities, stock, and number of lost events and refused deductions.
THEOREM SagaInvariant ==
  ASSUME MaxDup = 0
  PROVE  Spec => []SagaInv
<1>1. Init => StockInv
  <2> SUFFICES ASSUME Init PROVE StockInv
    OBVIOUS
  <2>1. held = {} /\ Confirmed = {} /\ Returned = {} /\ locked = 0 /\ sold = 0
    BY DEF Init, Confirmed, Returned
  <2>2. Units({}) = {}
    BY DEF Units
  <2> QED BY <2>1, <2>2, FS_EmptySet DEF StockInv, HeldIsCovered
<1>2. TypeOK /\ OrderInv /\ StockInv /\ [Next]_vars => StockInv'
  BY StockStep
<1>3. Spec => []StockInv
  BY <1>1, <1>2, TypeCorrect, OrderInvariant, PTL DEF Spec
<1> QED BY <1>3, TypeCorrect, OrderInvariant, PTL DEF SagaInv

\* DeductWithLock, ReturnStock and ConfirmDeduction keep in locked what the orders
\* in flight hold, short of the units that refused orders have returned.
THEOREM HeldStockIsCovered ==
  ASSUME MaxDup = 0
  PROVE  Spec => []HeldIsCovered
<1>1. SagaInv => HeldIsCovered
  BY DEF SagaInv, StockInv
<1> QED BY <1>1, SagaInvariant, PTL

\* What is paid beyond the stock has been returned by refused orders, even when
\* confirmations and compensations are lost.
THEOREM OversellIsCovered ==
  ASSUME MaxDup = 0
  PROVE  Spec => []OversellCovered
<1>1. SagaInv /\ StockConserved => OversellCovered
  <2> SUFFICES ASSUME SagaInv, StockConserved PROVE OversellCovered
    OBVIOUS
  <2> DEFINE Paid == {o \in Orders : orders[o] = "paid"}
             h == Cardinality(Units(held))
             c == Cardinality(Units(Confirmed))
             b == Cardinality(Units(held \union Confirmed))
             r == Cardinality(Units(Returned))
             p == Cardinality(Units(Paid))
  <2>1. /\ held \in SUBSET Orders /\ Confirmed \in SUBSET Orders
        /\ Returned \in SUBSET Orders /\ Paid \in SUBSET Orders
        /\ available \in Nat /\ locked \in Nat /\ sold \in Nat
    BY DEF SagaInv, TypeOK, Confirmed, Returned
  <2>2. h \in Nat /\ c \in Nat /\ b \in Nat /\ r \in Nat /\ p \in Nat
    BY <2>1, UnitsFinite
  <2>3. held \cap Confirmed = {} /\ Paid \in SUBSET (held \union Confirmed)
    BY DEF Confirmed
  <2>4. p <= b
    BY <2>1, <2>3, UnitsMonotone
  <2>5. b = h + c
    BY <2>1, <2>3, UnitsDisjoint
  <2>6. h <= locked + r /\ sold = c /\ available + locked + sold = Total
    BY DEF SagaInv, StockInv, HeldIsCovered, StockConserved
  <2>7. OversellCovered <=> p <= Total + r
    BY DEF OversellCovered, PaidUnits
  <2> HIDE DEF h, c, b, r, p
  <2> QED BY <2>1, <2>2, <2>4, <2>5, <2>6, <2>7, TotalAssumption
<1> QED BY <1>1, SagaInvariant, StockConservation, PTL
=============================================================================
