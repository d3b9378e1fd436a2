------------------------- MODULE RevenueProjection --------------------------
(***************************************************************************)
(* The revenue projection (services/orders/internal/reporting/postgres.go) *)
(* as the one transaction Apply runs for an envelope: the dedup row in     *)
(* processed_events and the change of revenue_by_day and recognised_orders *)
(* commit together.  Currency is left out: it is part of every key, so the *)
(* rows of one currency never meet those of another.                       *)
(***************************************************************************)
EXTENDS Naturals

CONSTANTS Days,       \* the days that revenue_by_day has rows for
          DayLength   \* clock units in a day

ASSUME DaysAssumption == DayLength \in Nat \ {0} /\ Days \subseteq Nat

VARIABLES processed,    \* processed_events: the ids applied
          revenue,      \* revenue_by_day; an absent row is a row of zeros
          recognised    \* recognised_orders

projectionVars == <<processed, revenue, recognised>>

DayTotals == [placed : Nat, paid : Nat, recognised : Nat, refunded : Nat]

ProjectionInit ==
    /\ processed = {}
    /\ revenue = [d \in Days |-> [placed |-> 0, paid |-> 0, recognised |-> 0, refunded |-> 0]]
    /\ recognised = {}

(* An event belongs to the UTC day it occurred on. *)
Day(at) == at \div DayLength

(* order.created *)
CountPlaced(env) ==
    /\ revenue' = [revenue EXCEPT ![Day(env.at)].placed = @ + 1]
    /\ UNCHANGED recognised

(* status_changed to paid: recognised on the day of the payment, which      *)
(* recognised_orders remembers unless the order is there already.           *)
Recognise(env) ==
    /\ revenue' = [revenue EXCEPT ![Day(env.at)].paid = @ + 1,
                                  ![Day(env.at)].recognised = @ + env.total]
    /\ recognised' =
         IF \E x \in recognised : x.order = env.order THEN recognised
         ELSE recognised \cup {[order |-> env.order, day |-> Day(env.at), amount |-> env.total]}

(* A refund booked on the day of the refund. *)
ReverseOnItsOwnDay(env) ==
    /\ \E x \in recognised : x.order = env.order
    /\ recognised' = {x \in recognised : x.order # env.order}
    /\ revenue' = [revenue EXCEPT ![Day(env.at)].refunded = @ + env.total]

(* A refund subtracted from what the day of the refund recognised. *)
ReverseBySubtracting(env) ==
    /\ \E x \in recognised : x.order = env.order
    /\ recognised' = {x \in recognised : x.order # env.order}
    /\ revenue' = [revenue EXCEPT ![Day(env.at)].recognised = @ - env.total]

(* A refund that leaves the recognised_orders row in place. *)
ReverseKeepsRow(env) ==
    \E x \in recognised :
      /\ x.order = env.order
      /\ revenue' = [revenue EXCEPT ![x.day].refunded = @ + x.amount]
      /\ UNCHANGED recognised

(* status_changed to refunded: the day of the payment is credited with what *)
(* was recognised; if nothing was, there is nothing to undo.                *)
Reverse(env) ==
    IF \A x \in recognised : x.order # env.order
    THEN UNCHANGED <<revenue, recognised>>
    ELSE \E x \in recognised :
           /\ x.order = env.order
           /\ revenue' = [revenue EXCEPT ![x.day].refunded = @ + x.amount]
           /\ recognised' = recognised \ {x}

(* project: what an envelope changes.  Every other status changes nothing,  *)
(* cancelled included.                                                      *)
Project(env) ==
    \/ env.type = "order.created" /\ CountPlaced(env)
    \/ env.type = "order.status_changed" /\ env.to = "paid" /\ Recognise(env)
    \/ env.type = "order.status_changed" /\ env.to = "refunded" /\ Reverse(env)
    \/ /\ env.type = "order.status_changed" /\ env.to \notin {"paid", "refunded"}
       /\ UNCHANGED <<revenue, recognised>>

(* Apply without the processed_events row. *)
ApplyUnguarded(env) ==
    /\ processed' = processed \cup {env.id}
    /\ Project(env)

(* Apply: a redelivery conflicts on processed_events and changes nothing. *)
ApplyEnvelope(env) ==
    IF env.id \in processed
    THEN UNCHANGED projectionVars
    ELSE processed' = processed \cup {env.id} /\ Project(env)
=============================================================================
