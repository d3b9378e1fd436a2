------------------------------ MODULE OrderLog ------------------------------
(***************************************************************************)
(* What the write side of the Orders service promises to the rest: each    *)
(* committed change of an order appends one event to its log and one row   *)
(* to the outbox, in the same instant.  Row ids need not grow from one     *)
(* order's commit to another's, because the sequence hands them out before *)
(* the commit; among the rows of one order they do.  Orders.tla is the     *)
(* transaction protocol that implements this.                              *)
(***************************************************************************)
EXTENDS OrderLifecycle, FiniteSets

CONSTANTS Orders,     \* the orders that may be created
          TotalMinor, \* each order's total, fixed when its lines are resolved
          Targets,    \* the statuses that requests ask for
          Versions,   \* envelope versions of the API builds that run
          MaxTime,    \* bound: the clock stops there
          MaxRows     \* bound: the last outbox id

ASSUME OrderLogAssumption ==
    /\ None \notin Orders
    /\ TotalMinor \in [Orders -> Nat]
    /\ Targets \subseteq Status
    /\ Versions \subseteq Nat
    /\ MaxTime \in Nat
    /\ MaxRows \in Nat

VARIABLES events,   \* order_events of each order, in commit order
          outbox    \* the committed outbox rows

logVars == <<events, outbox>>

Event == [from : Status \cup {None}, to : Status, at : 0..MaxTime]

(* nth is a history field: the place of the row's event in its order's log. *)
Row == [id : Nat, order : Orders, type : {"order.created", "order.status_changed"},
        to : Status, at : 0..MaxTime, version : Versions, total : Nat, nth : Nat]

LogTypeOK ==
    /\ events \in [Orders -> Seq(Event)]
    /\ outbox \subseteq Row

LogInit ==
    /\ events = [o \in Orders |-> <<>>]
    /\ outbox = {}

StatusAfter(log) == IF log = <<>> THEN None ELSE log[Len(log)].to

(* outbox.New, once for a creation and once for a transition. *)
Envelope(o, id, from, to, at, v) ==
    [id |-> id, order |-> o,
     type |-> IF from = None THEN "order.created" ELSE "order.status_changed",
     to |-> to, at |-> at, version |-> v, total |-> TotalMinor[o],
     nth |-> Len(events[o]) + 1]

Record(o, id, from, to, at, v) ==
    /\ events' = [events EXCEPT ![o] = Append(@, [from |-> from, to |-> to, at |-> at])]
    /\ outbox' = outbox \cup {Envelope(o, id, from, to, at, v)}

(* Any id: the rows of one order are no longer in the order of its events. *)
UnusedId(o, id) == \A x \in outbox : x.id # id

(* An id nobody has, above those of the same order. *)
FreshId(o, id) == \A x \in outbox : x.id # id /\ (x.order = o => x.id < id)

LogEvent(o, to, at, v, id) ==
    LET from == StatusAfter(events[o]) IN
    /\ IF from = None THEN to = "pending" ELSE CanTransition(from, to)
    /\ FreshId(o, id)
    /\ Record(o, id, from, to, at, v)

LogNext ==
    \E o \in Orders, to \in Targets \cup {"pending"}, at \in 0..MaxTime,
       v \in Versions, id \in 1..MaxRows : LogEvent(o, to, at, v, id)

LogSpec == LogInit /\ [][LogNext]_logVars
-----------------------------------------------------------------------------
WalkStep(log, i) ==
    IF i = 1 THEN log[i].from = None /\ log[i].to = "pending"
             ELSE log[i].from = log[i-1].to /\ CanTransition(log[i].from, log[i].to)

(* Every order's event log is a walk through the transition table that      *)
(* starts with its creation.                                                *)
LogIsLifecycle == \A o \in Orders : \A i \in 1..Len(events[o]) : WalkStep(events[o], i)

(* The outbox holds exactly one row for each logged event, and among the    *)
(* rows of one order ids increase with the order of the events.  This is    *)
(* what draining by id relies on: ids are drawn under the order's row lock. *)
OutboxFollowsLog ==
    /\ \A x \in outbox : x.nth \in 1..Len(events[x.order])
                           /\ events[x.order][x.nth].to = x.to
    /\ \A x, y \in outbox : x.order = y.order => (x.id < y.id <=> x.nth < y.nth)
    /\ \A o \in Orders : \A i \in 1..Len(events[o]) :
         \E x \in outbox : x.order = o /\ x.nth = i

(* A refunded order was paid before: the refund endpoint checks only the    *)
(* current status and relies on the table for this.                         *)
RefundFollowsPayment ==
    \A o \in Orders : \A i \in 1..Len(events[o]) :
      events[o][i].to = "refunded" => \E j \in 1..(i-1) : events[o][j].to = "paid"
=============================================================================
