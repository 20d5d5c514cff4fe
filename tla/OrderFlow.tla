----------------------------- MODULE OrderFlow -----------------------------
(***************************************************************************)
(* What the order saga promises, with no outbox, no Kafka and no services: *)
(* every order is a single sequential process.  It is accepted, its stock  *)
(* is reserved or refused, a reserved order is charged once, successfully  *)
(* or not, and the order then ends paid or cancelled.  The steps are those *)
(* of the status comment in internal/order/model.go, refined by the two    *)
(* facts the other services own: the reservation (inventory) and the       *)
(* charge (payment).  Saga is shown to implement this module.              *)
(***************************************************************************)
CONSTANT Orders

VARIABLE phase

Phases == {"none", "accepted", "reserved", "refused", "payable",
           "charged", "declined", "paid", "cancelled"}

\* The only steps an order may take.
Steps == {<<"none",     "accepted">>,
          <<"accepted", "reserved">>, <<"accepted", "refused">>,
          <<"refused",  "cancelled">>,
          <<"reserved", "payable">>,
          <<"payable",  "charged">>,  <<"payable",  "declined">>,
          <<"charged",  "paid">>,     <<"declined", "cancelled">>}

Init == phase = [o \in Orders |-> "none"]

Move(o, p) == /\ <<phase[o], p>> \in Steps
              /\ phase' = [phase EXCEPT ![o] = p]

Accept(o) == Move(o, "accepted")

Advance(o) == \E p \in Phases \ {"accepted"} : Move(o, p)

Next == \E o \in Orders : Accept(o) \/ Advance(o)

Spec == Init /\ [][Next]_phase
=============================================================================
