-------------------------- MODULE RevenuePipeline ---------------------------
(***************************************************************************)
(* From an order's transaction to the revenue figures: the Orders service, *)
(* the outbox publisher, the JetStream stream and the projector together   *)
(* (services/orders/cmd/worker/main.go runs the publisher and the          *)
(* projector in one process).                                              *)
(***************************************************************************)
EXTENDS OrderLog, Publisher, Projector, Sums

pipelineVars == <<logVars, brokerVars, faults, publisherVars, projectionVars, projectorVars>>

ASSUME PipelineAssumption == \A t \in 0..MaxTime : Day(t) \in Days

PipelineTypeOK ==
    /\ LogTypeOK
    /\ BrokerTypeOK
    /\ PublisherTypeOK
    /\ ProjectorTypeOK
    /\ processed \subseteq Nat
    /\ revenue \in [Days -> DayTotals]
    /\ recognised \subseteq [order : Orders, day : Days, amount : Nat]

Init ==
    /\ LogInit
    /\ BrokerInit
    /\ PublisherInit
    /\ ProjectionInit
    /\ ProjectorInit

RowIds == {x.id : x \in outbox}

OrderStep ==
    /\ LogNext
    /\ UNCHANGED <<brokerVars, faults, publisherVars, projectionVars, projectorVars>>

(* The publisher and the broker's side of it. *)
PublishStep ==
    /\ \/ \E w \in Workers : PublisherStep(w, RowIds)
       \/ \E m \in wire : ArriveLate(m)
    /\ UNCHANGED <<logVars, projectionVars, projectorVars>>

ProjectStep ==
    /\ \E w \in Workers : ProjectorStep(w, outbox)
    /\ UNCHANGED <<logVars, publisherVars>>

(* A worker process dies and is started again. *)
Restart(w) ==
    /\ Fault
    /\ PublisherDies(w)
    /\ ProjectorDies(w)
    /\ UNCHANGED <<logVars, brokerVars, projectionVars>>

Next ==
    \/ OrderStep
    \/ PublishStep
    \/ ProjectStep
    \/ \E w \in Workers : Restart(w)

Spec == Init /\ [][Next]_pipelineVars

(* The worker's two loops keep running and the broker keeps sending what is *)
(* not acknowledged.  Requests, faults and expiries owe nothing.            *)
WorkerProgress(w) ==
    /\ Drain(w, RowIds) \/ Publish(w) \/ MarkPublished(w)
    /\ UNCHANGED <<logVars, projectionVars, projectorVars>>

ProjectorProgress(w) ==
    /\ Skip(w, outbox) \/ Apply(w, outbox) \/ Answer(w)
    /\ UNCHANGED <<logVars, publisherVars>>

DeliveryProgress(w) ==
    /\ Deliver(w)
    /\ UNCHANGED <<logVars, publisherVars>>

FairSpec ==
    /\ Spec
    /\ \A w \in Workers :
         /\ WF_pipelineVars(WorkerProgress(w))
         /\ WF_pipelineVars(ProjectorProgress(w))
         /\ WF_pipelineVars(DeliveryProgress(w))
-----------------------------------------------------------------------------
(* No committed event is lost between the outbox and the projection: a row  *)
(* is marked published only when the broker has stored it, and a message is *)
(* acknowledged only when it was applied or can never be.                   *)
NoEventLost ==
    /\ published \subseteq Stored
    /\ \A p \in acked : \A x \in outbox :
         x.id = stream[p] => x.id \in processed \/ ~Handles(x)

(* The projection is never ahead of itself: when an event has been applied, *)
(* so has every earlier event of its order that this build can apply.  This *)
(* is natsx.go's "keeps paid from being applied after refunded".            *)
AppliedInOrder ==
    \A x, y \in outbox :
      /\ x.order = y.order
      /\ x.nth < y.nth
      /\ y.id \in processed
      /\ Handles(x)
      => x.id \in processed

AppliedTo(s) == {x \in outbox : x.id \in processed /\ x.to = s}

OrdersOf(S) == {x.order : x \in S}

SumOf(S) == Sum([x \in S |-> x.total], S)

(* The money of a day is exactly that of the distinct payments applied for  *)
(* it, and what was refunded is exactly the part of it whose refund has     *)
(* been applied: neither redelivery nor reordering nor a crash shows.       *)
RevenueIsExact ==
    \A d \in Days :
      LET paid == {x \in AppliedTo("paid") : Day(x.at) = d} IN
      /\ revenue[d].placed = Cardinality({x \in AppliedTo("pending") : Day(x.at) = d})
      /\ revenue[d].paid = Cardinality(paid)
      /\ revenue[d].recognised = SumOf(paid)
      /\ revenue[d].refunded =
           SumOf({x \in paid : x.order \in OrdersOf(AppliedTo("refunded"))})

(* A refunded order's revenue does not stay recognised, and recognised      *)
(* orders account for what each day has not refunded.                       *)
NothingRecognisedAfterRefund ==
    /\ \A x \in AppliedTo("refunded") : \A z \in recognised : z.order # x.order
    /\ \A d \in Days :
         LET left == {z \in recognised : z.day = d} IN
         revenue[d].recognised - revenue[d].refunded = Sum([z \in left |-> z.amount], left)

(* Every committed event this build implements is applied in the end.       *)
EveryEventApplied ==
    \A i \in 1..MaxRows :
      (\E x \in outbox : x.id = i /\ Handles(x)) ~> i \in processed

(* The pipeline implements the ledger. *)
AppliedCount(o) == Cardinality({x \in outbox : x.order = o /\ x.id \in processed})

Ledger == INSTANCE RevenueLedger WITH
            history <- events,
            posted <- [o \in Orders |-> AppliedCount(o)],
            figures <- revenue,
            DayOf <- Day

LedgerSpec == Ledger!Spec

(* customer/queries.go says that of a cancelled order, as of a refunded     *)
(* one, the "money went back": once everything is applied, the net revenue  *)
(* is that of the orders the customers' lifetime values count.              *)
ValuedStatuses == {"paid", "packed", "shipped", "delivered"}

NetRevenueIsLifetimeValue ==
    (\A x \in outbox : x.id \in processed) =>
      Sum([d \in Days |-> revenue[d].recognised], Days)
        - Sum([d \in Days |-> revenue[d].refunded], Days)
      = Sum(TotalMinor, {o \in Orders : StatusAfter(events[o]) \in ValuedStatuses})
=============================================================================
