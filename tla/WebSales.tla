------------------------------- MODULE WebSales -------------------------------
(***************************************************************************)
(* The screens of one order, of a new order and of the customers           *)
(* (apps/web/src/routes/OrderDetail.tsx, OrderCreate.tsx, Customers.tsx)   *)
(* and the mirror of the service's transition table that decides which     *)
(* buttons an order has (api/orders.ts).                                   *)
(***************************************************************************)
EXTENDS WebScreen, SequencesExt, Selections

CONSTANTS Currency,     \* the currency of each product's price
          Quantities,   \* what a person types for a quantity, in half pieces
          MaxQuantity

L == INSTANCE OrderLifecycle

ASSUME SalesAssumption ==
    Currency \in [Products -> STRING] /\ Quantities \subseteq Nat /\ MaxQuantity \in Nat
-----------------------------------------------------------------------------
(* The mirror.                                                              *)

forward == [pending |-> "paid", paid |-> "packed", packed |-> "shipped", shipped |-> "delivered",
            delivered |-> None, cancelled |-> None, refunded |-> None]
nextStatus(status) == forward[status]
(* Mutant: a shipped order has a button to cancel it.                       *)
CanCancelShipped(status) == status \in {"pending", "paid", "packed", "shipped"}
canCancel(status) == status \in {"pending", "paid", "packed"}
canRefund(status) == status \in {"paid", "packed", "shipped", "delivered"}
MovesOffered(status) == ({nextStatus(status)} \ {None})
                        \cup (IF canCancel(status) THEN {"cancelled"} ELSE {})
                        \cup (IF canRefund(status) THEN {"refunded"} ELSE {})
-----------------------------------------------------------------------------
(* One order.                                                               *)

Nothing == [kind |-> None, seen |-> NotSeen]
OrderScreen == [asking |-> Nothing, busy |-> FALSE, failure |-> FALSE]
OrderVerbs == {"advance", "cancel", "refund"}

OrderReady == At("order") /\ Ready

Ask(kind) ==
    /\ OrderReady /\ ui.asking = Nothing
    /\ \/ kind = "refund" /\ canRefund(Current.status)
       \/ kind = "cancel" /\ canCancel(Current.status)
    /\ Edit([ui EXCEPT !.asking = [kind |-> kind, seen |-> Seen]])

Back ==
    /\ OrderReady /\ ui.asking # Nothing
    /\ Edit([ui EXCEPT !.asking = Nothing])

RunOrder(verb, status, seen) ==
    /\ ~ui.busy
    /\ ui' = [ui EXCEPT !.busy = TRUE, !.failure = FALSE, !.asking = Nothing]
    /\ Submit(verb, route.id, [status |-> status], seen)

Advance ==
    /\ OrderReady /\ ui.asking = Nothing
    /\ nextStatus(Current.status) # None
    /\ RunOrder("advance", nextStatus(Current.status), Seen)

Confirm ==
    /\ OrderReady /\ ui.asking # Nothing
    /\ RunOrder(ui.asking.kind,
                IF ui.asking.kind = "refund" THEN "refunded" ELSE "cancelled", ui.asking.seen)

OrderServed(c) ==
    /\ c.verb \in OrderVerbs
    /\ Served(c, L!CanTransition(rec[c.target].status, c.body.status), c.target, c.body.status,
              rec[c.target])

(* Mutant: the history is not loaded again.                                 *)
OrderAnsweredKeepsHistory(c) ==
    /\ c.verb \in OrderVerbs
    /\ Take(c)
    /\ IF Mounted(c)
       THEN /\ ui' = [ui EXCEPT !.busy = FALSE, !.failure = c.state # "ok"]
            /\ IF c.state = "ok" THEN Told(c) /\ shown' = NotLoaded
               ELSE UNCHANGED <<acked, late, shown>>
            /\ UNCHANGED <<route, mount, side, once>>
       ELSE NothingHappens
(* Mutant: the buttons come back only after a success.                      *)
OrderAnsweredWithoutFinally(c) ==
    /\ c.verb \in OrderVerbs
    /\ Take(c)
    /\ IF Mounted(c)
       THEN /\ ui' = [ui EXCEPT !.busy = c.state # "ok", !.failure = c.state # "ok"]
            /\ IF c.state = "ok" THEN Told(c) /\ shown' = NotLoaded /\ side' = NotLoaded
               ELSE UNCHANGED <<acked, late, shown, side>>
            /\ UNCHANGED <<route, mount, once>>
       ELSE NothingHappens
(* run: what was asked for is done or an alert says why not; the order and  *)
(* its history are loaded again after a success.                            *)
OrderAnswered(c) ==
    /\ c.verb \in OrderVerbs
    /\ Take(c)
    /\ IF Mounted(c)
       THEN /\ ui' = [ui EXCEPT !.busy = FALSE, !.failure = c.state # "ok"]
            /\ IF c.state = "ok" THEN Told(c) /\ shown' = NotLoaded /\ side' = NotLoaded
               ELSE UNCHANGED <<acked, late, shown, side>>
            /\ UNCHANGED <<route, mount, once>>
       ELSE NothingHappens
-----------------------------------------------------------------------------
(* A new order.                                                             *)

(* The field for a quantity takes a fraction, so that they are counted in    *)
(* halves.                                                                  *)
OnePiece == 2

NewOrder == [customer |-> None, lines |-> << >>, placing |-> FALSE,
             failure |-> FALSE]

(* The catalog's search, for active products only.                          *)
SearchCatalog ==
    /\ At("newOrder") /\ side.state # "loading"
    /\ side' = NotLoaded
    /\ UNCHANGED <<tourVars, rec, route, mount, ui, shown, acked, late, once, calls, countVars>>

LineOf(p) == {i \in DOMAIN ui.lines : ui.lines[i].product = p}
WithQuantity(p, quantity) ==
    [i \in DOMAIN ui.lines |-> IF i \in LineOf(p)
                               THEN [ui.lines[i] EXCEPT !.quantity = quantity[i]]
                               ELSE ui.lines[i]]

(* Mutant: a product that is there already gets a second line.              *)
AppendedTo(p) == Append(ui.lines, [product |-> p, quantity |-> OnePiece])
LinesWith(p) ==
    IF LineOf(p) = {} THEN Append(ui.lines, [product |-> p, quantity |-> OnePiece])
    ELSE WithQuantity(p, [i \in LineOf(p) |-> ui.lines[i].quantity + OnePiece])

AddLine(p) ==
    /\ At("newOrder") /\ side.state = "ready" /\ p \in DOMAIN side.copy
    /\ \A i \in LineOf(p) : ui.lines[i].quantity + OnePiece <= MaxQuantity
    /\ Edit([ui EXCEPT !.lines = LinesWith(p)])

(* What is typed is at least one piece, or becomes one.                     *)
SetQuantity(p, typed) ==
    /\ At("newOrder") /\ LineOf(p) # {}
    /\ Edit([ui EXCEPT !.lines =
                 WithQuantity(p, [i \in LineOf(p) |-> IF typed < OnePiece THEN OnePiece
                                                      ELSE typed])])

RemoveLine(p) ==
    /\ At("newOrder") /\ LineOf(p) # {}
    /\ Edit([ui EXCEPT !.lines = Kept(@, {@[i] : i \in DOMAIN @ \ LineOf(p)})])

mixedCurrency == \E i \in DOMAIN ui.lines :
                     Currency[ui.lines[i].product] # Currency[ui.lines[1].product]

(* An address is typed and looked up.  Nothing keeps a second lookup from   *)
(* being sent before the first is answered.                                 *)
FindCustomer(email) ==
    /\ At("newOrder")
    /\ visits < MaxVisits
    /\ visits' = visits + 1
    /\ Send("lookup", email, << >>, NotSeen)
    /\ UNCHANGED <<tourVars, rec, screenVars, submits, others, faults>>

LookupServed(c) ==
    /\ c.verb = "lookup" /\ c.state = "sent"
    /\ calls' = (calls \ {c}) \cup
          {[c EXCEPT !.state = IF rec[c.target].status = None THEN "refused" ELSE "ok"]}
    /\ UNCHANGED <<tourVars, rec, screenVars, countVars>>

LookupAnswered(c) ==
    /\ c.verb = "lookup"
    /\ Take(c)
    /\ ui' = IF Mounted(c) THEN [ui EXCEPT !.customer = IF c.state = "ok" THEN c.target ELSE None]
             ELSE ui
    /\ UNCHANGED <<route, mount, shown, side, acked, late, once>>

(* Mutant: the button stays enabled.                                        *)
PlaceAgain ==
    /\ At("newOrder")
    /\ ui.lines # << >> /\ ui.customer # None /\ ~mixedCurrency
    /\ ui' = [ui EXCEPT !.placing = TRUE, !.failure = FALSE]
    /\ Submit("place", None, [customer |-> ui.customer, lines |-> ui.lines], NotSeen)
Place ==
    /\ At("newOrder")
    /\ ui.lines # << >> /\ ui.customer # None /\ ~mixedCurrency /\ ~ui.placing
    /\ ui' = [ui EXCEPT !.placing = TRUE, !.failure = FALSE]
    /\ Submit("place", None, [customer |-> ui.customer, lines |-> ui.lines], NotSeen)

(* The service cannot read a fraction; it resolves the products and takes   *)
(* only active ones.                                                        *)
PlaceServed(c) ==
    /\ c.verb = "place"
    /\ \E o \in Orders :
          /\ rec[o].status = None
          /\ Served(c, \A i \in DOMAIN c.body.lines :
                           /\ c.body.lines[i].quantity % OnePiece = 0
                           /\ rec[c.body.lines[i].product].status = "active",
                    o, "pending", rec[o])

PlaceAnswered(c) ==
    /\ c.verb = "place"
    /\ Take(c)
    /\ CASE c.state = "ok" -> ShowResult(c, [screen |-> "order", id |-> c.target], OrderScreen)
         [] c.state # "ok" /\ Mounted(c) ->
               /\ ui' = [ui EXCEPT !.placing = FALSE, !.failure = TRUE]
               /\ UNCHANGED <<route, mount, shown, side, acked, late, once>>
         [] OTHER -> NothingHappens
-----------------------------------------------------------------------------
(* The customers: their list, and the dialog that adds one.                 *)

CustomersScreen == [adding |-> FALSE, email |-> None, emailError |-> FALSE, failure |-> FALSE,
                    saving |-> FALSE]

OpenAdding == At("customers") /\ ~ui.adding /\ Edit([ui EXCEPT !.adding = TRUE])
CloseAdding == At("customers") /\ ui.adding /\ Edit([ui EXCEPT !.adding = FALSE])
TypeNewCustomer(email) ==
    At("customers") /\ ui.adding /\ Edit([ui EXCEPT !.email = email])

AddCustomer ==
    /\ At("customers") /\ ui.adding /\ ui.email # None /\ ~ui.saving
    /\ ui' = [ui EXCEPT !.saving = TRUE, !.emailError = FALSE, !.failure = FALSE]
    /\ Submit("addCustomer", ui.email, << >>, NotSeen)

CustomerServed(c) ==
    /\ c.verb = "addCustomer"
    /\ Served(c, rec[c.target].status = None, c.target, "known", rec[c.target])

CustomerAnswered(c) ==
    /\ c.verb = "addCustomer"
    /\ Take(c)
    /\ IF Mounted(c)
       THEN /\ IF c.state = "ok"
               THEN /\ ui' = [ui EXCEPT !.saving = FALSE, !.adding = FALSE, !.email = None]
                    /\ Told(c) /\ shown' = NotLoaded
               ELSE /\ ui' = [ui EXCEPT !.saving = FALSE,
                                        !.emailError = c.state = "refused" /\ May(c.verb),
                                        !.failure = c.state = "lost" \/ ~May(c.verb)]
                    /\ UNCHANGED <<acked, late, shown>>
            /\ UNCHANGED <<route, mount, side, once>>
       ELSE NothingHappens
-----------------------------------------------------------------------------
SalesControls ==
    \/ \E kind \in {"cancel", "refund"} : Ask(kind)
    \/ Back \/ Advance \/ Confirm
    \/ SearchCatalog \/ Place
    \/ \E p \in Products : \/ AddLine(p) \/ RemoveLine(p)
                           \/ \E typed \in Quantities : SetQuantity(p, typed)
    \/ \E email \in Customers : FindCustomer(email) \/ TypeNewCustomer(email)
    \/ OpenAdding \/ CloseAdding \/ AddCustomer

SalesAnswers(c) ==
    \/ OrderServed(c) \/ OrderAnswered(c)
    \/ LookupServed(c) \/ LookupAnswered(c)
    \/ PlaceServed(c) \/ PlaceAnswered(c)
    \/ CustomerServed(c) \/ CustomerAnswered(c)
=============================================================================
