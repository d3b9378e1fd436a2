--------------------------- MODULE OrderLifecycle ---------------------------
(***************************************************************************)
(* The status vocabulary and the transition table of the Orders service    *)
(* (services/orders/internal/order/lifecycle.go), and the way each of the  *)
(* three lifecycle endpoints narrows it (service.go).  Pure: no state.     *)
(***************************************************************************)
EXTENDS Naturals, Sequences

Status == {"pending", "paid", "packed", "shipped", "delivered",
           "cancelled", "refunded"}

(* An order row that does not exist, and the NULL from_status of the event  *)
(* that records its creation.                                               *)
None == "none"

(* The table: each status with the statuses it may move to. *)
transitions ==
    [pending   |-> {"paid", "cancelled"},
     paid      |-> {"packed", "cancelled", "refunded"},
     packed    |-> {"shipped", "cancelled", "refunded"},
     shipped   |-> {"delivered", "refunded"},
     delivered |-> {"refunded"},
     cancelled |-> {},
     refunded  |-> {}]

(* A table that also lets an unpaid order be refunded. *)
RefundUnpaid(from, to) ==
    from \in Status /\ (to \in transitions[from] \/ (from = "pending" /\ to = "refunded"))

(* A table in which a cancelled order can still be refunded. *)
RefundCancelled(from, to) ==
    from \in Status /\ (to \in transitions[from] \/ (from = "cancelled" /\ to = "refunded"))

CanTransition(from, to) == from \in Status /\ to \in transitions[from]

Terminal == {s \in Status : transitions[s] = {}}

(* What each endpoint may ask for: the generic one refuses the two statuses *)
(* that Cancel and Refund exist for.                                        *)
SetStatusTargets == Status \ {"cancelled", "refunded"}
CancelTargets == {"cancelled"}
RefundTargets == {"refunded"}
=============================================================================
