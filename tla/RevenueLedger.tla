--------------------------- MODULE RevenueLedger ----------------------------
(***************************************************************************)
(* What the outbox, the broker and the projector promise together: the     *)
(* events of each order reach the revenue figures one at a time, in the    *)
(* order they were logged, each exactly once.  The figures are therefore a *)
(* function of how far each order has been posted, and of nothing else.    *)
(***************************************************************************)
EXTENDS Naturals, Sequences, Sums

CONSTANTS Orders, TotalMinor, Days, DayOf(_)

VARIABLES history,   \* each order's logged events: records with fields to, at
          posted,    \* how many of them the figures include
          figures    \* per day: placed, paid, recognised and refunded

ledgerVars == <<history, posted, figures>>

(* The posted events of an order that moved it to a status. *)
PostedTo(h, n, o, s) == {i \in 1..n[o] : h[o][i].to = s}

(* The day an order's posted payment is booked on. *)
PaidOn(h, n, o, d) == \E i \in PostedTo(h, n, o, "paid") : DayOf(h[o][i].at) = d

Money(S) == Sum(TotalMinor, S)

(* A refund is booked on the day of the payment it returns. *)
Figures(h, n) ==
    [d \in Days |->
       [placed     |-> Cardinality({o \in Orders :
                          \E i \in PostedTo(h, n, o, "pending") : DayOf(h[o][i].at) = d}),
        paid       |-> Cardinality({o \in Orders : PaidOn(h, n, o, d)}),
        recognised |-> Money({o \in Orders : PaidOn(h, n, o, d)}),
        refunded   |-> Money({o \in Orders : PaidOn(h, n, o, d)
                                /\ PostedTo(h, n, o, "refunded") # {}})]]

Init ==
    /\ history = [o \in Orders |-> <<>>]
    /\ posted = [o \in Orders |-> 0]
    /\ figures = Figures(history, posted)

(* A transaction of the Orders service logs an event. *)
Log(o) ==
    /\ Len(history'[o]) = Len(history[o]) + 1
    /\ SubSeq(history'[o], 1, Len(history[o])) = history[o]
    /\ history' = [history EXCEPT ![o] = history'[o]]
    /\ UNCHANGED <<posted, figures>>

(* The oldest event of an order that is not posted yet is posted. *)
Post(o) ==
    /\ posted[o] < Len(history[o])
    /\ posted' = [posted EXCEPT ![o] = @ + 1]
    /\ figures' = Figures(history, posted')
    /\ UNCHANGED history

Next == \E o \in Orders : Log(o) \/ Post(o)

Spec == Init /\ [][Next]_ledgerVars /\ \A o \in Orders : WF_ledgerVars(Post(o))
=============================================================================
