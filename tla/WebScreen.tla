------------------------------ MODULE WebScreen ------------------------------
(***************************************************************************)
(* What the screens of the staff console that change one record share      *)
(* (apps/web/src/routes over useResource, Button, Dialog and the router):  *)
(* the mounted screen and its state, the records it has loaded, and the    *)
(* changes it has asked the services for, which are answered in any order, *)
(* whether or not the screen that asked is still there.                    *)
(*                                                                         *)
(* A resource is read in one step: useResource takes only the answer to    *)
(* its own last request (WebList), and what is on the screen grows old     *)
(* just as an answer on its way would.                                     *)
(***************************************************************************)
EXTENDS Integers, Sequences, FiniteSets

CONSTANTS Orders, Products, Members, Roles, Customers,
          Images,      \* the images that may ever be uploaded
          Tours,       \* routes that a person moves between, what they may change, and the
                       \* records' first statuses
          MaxVisits, MaxSubmits, MaxInFlight, MaxOthers, MaxFaults

None == "none"      \* no such record yet
Ids == Orders \cup Products \cup Members \cup Roles \cup Customers
Details == {"order", "product", "staff"}
Lists == {"customers", "staffList", "roles"}

Permissions == {"edit_orders", "edit_products"}

(* The address of a record's screen names a record of its kind, there or    *)
(* not.                                                                     *)
Routes ==
    [screen : {"order"}, id : Orders] \cup [screen : {"product", "editProduct"}, id : Products]
    \cup [screen : {"staff"}, id : Members]
    \cup [screen : Lists \cup {"newOrder", "newProduct", "elsewhere"}, id : {None}]

ASSUME ScreenAssumption ==
    /\ None \notin Ids
    /\ Orders \cap (Products \cup Members \cup Roles \cup Customers) = {}
    /\ Products \cap (Members \cup Roles \cup Customers) = {}
    /\ \A tour \in Tours : /\ tour.menu \subseteq Routes /\ tour.rights \subseteq Permissions
                            /\ tour.begins \in [Ids -> STRING]
    /\ {MaxVisits, MaxSubmits, MaxInFlight, MaxOthers, MaxFaults} \subseteq Nat

VARIABLES menu,     \* the routes this person moves between
          rights,   \* what this person's role allows them to change
          rec,      \* the services' records
          route,    \* the route shown
          mount,    \* how many components the router has mounted
          ui,       \* the mounted component's own state
          shown,    \* the resource the screen is about
          side,     \* its second resource: an order's events, a product's images
          calls,    \* the requests for changes on their way
          acked,    \* the version of each record that the person was told they made
          late,     \* whether a form was answered on the record's page, open already
          once,     \* records made by this form, and its answers that were lost
          visits,   \* how often this person has gone to another screen or looked up a customer
          submits,  \* how many changes this person has asked for
          others,   \* how many changes colleagues have made
          faults    \* how many requests or answers were lost

tourVars == <<menu, rights>>
screenVars == <<route, mount, ui, shown, side, acked, late, once>>
countVars == <<visits, submits, others, faults>>
vars == <<tourVars, rec, screenVars, calls, countVars>>

At(screen) == route.screen = screen
-----------------------------------------------------------------------------
(* Resources.                                                               *)

NotLoaded == [state |-> "loading", copy |-> << >>]
NotAsked == [state |-> "idle", copy |-> << >>]
Ready == shown.state = "ready"
Current == shown.copy[route.id]
(* What the person reads: the record, and beside it its history or images.  *)
DetailsShown == IF Ready THEN shown.copy ELSE << >>
ListShown == IF side.state = "ready" THEN side.copy ELSE << >>
Copies(ids) == [id \in {i \in ids : rec[i].status \notin {None, "deleted"}} |-> rec[id]]

ShownIds == CASE route.screen = "customers" -> Customers
              [] route.screen = "staffList" -> Members
              [] route.screen = "roles" -> Roles
              [] OTHER -> {route.id}
SideIds == IF At("newOrder") THEN {p \in Products : rec[p].status = "active"} ELSE {route.id}

HasShown(screen) == screen \in Details \cup Lists \cup {"editProduct"}
HasSide(screen) == screen \in {"order", "product"}

(* A list without rows is a list; a record that is not there is an error.   *)
Answered(copy, isList, failed) ==
    IF failed \/ (~isList /\ copy = << >>) THEN [state |-> "error", copy |-> << >>]
    ELSE [state |-> "ready", copy |-> copy]

(* What the component does when its resource has arrived: the fields of a   *)
(* form for an existing product are filled from it.                         *)
LoadShown(filled) ==
    /\ HasShown(route.screen) /\ shown.state = "loading"
    /\ \E failed \in BOOLEAN :
          /\ failed => faults < MaxFaults
          /\ faults' = IF failed THEN faults + 1 ELSE faults
          /\ shown' = Answered(Copies(ShownIds), At("customers") \/ At("staffList") \/ At("roles"),
                               failed)
    /\ ui' = IF shown'.state = "ready" THEN filled ELSE ui
    /\ UNCHANGED <<tourVars, rec, route, mount, side, acked, late, once, calls, visits, submits,
                   others>>

LoadSide ==
    /\ side.state = "loading"
    /\ \E failed \in BOOLEAN :
          /\ failed => faults < MaxFaults
          /\ faults' = IF failed THEN faults + 1 ELSE faults
          /\ side' = Answered(Copies(SideIds), At("newOrder"), failed)
    /\ UNCHANGED <<tourVars, rec, route, mount, ui, shown, acked, late, once, calls, visits,
                   submits, others>>

TryAgain ==
    /\ \/ shown.state = "error" /\ shown' = NotLoaded /\ UNCHANGED side
       \/ side.state = "error" /\ side' = NotLoaded /\ UNCHANGED shown
    /\ UNCHANGED <<tourVars, rec, route, mount, ui, acked, late, once, calls, countVars>>
-----------------------------------------------------------------------------
(* The router.  The same screen for another record is the same component:   *)
(* what it holds stays, except that a form is keyed by its record.          *)

(* Mutant: whatever has a record in its address counts as the same screen.  *)
SameKind(r) == r.screen \in Details
SameComponent(r) == r.screen = route.screen /\ r.screen \in Details

(* A resource is read again when its key changes: going to the address      *)
(* that is shown already changes nothing on the screen.                     *)
Show(r, fresh) ==
    /\ route' = r
    /\ IF r = route THEN UNCHANGED <<shown, side>>
       ELSE /\ shown' = NotLoaded
            /\ side' = IF HasSide(r.screen) THEN NotLoaded ELSE NotAsked
    /\ IF SameComponent(r) THEN UNCHANGED <<mount, ui, once>>
       ELSE /\ mount' = mount + 1
            /\ ui' = fresh
            /\ once' = [made |-> 0, lost |-> 0]

KnownAt(r) == IF SameComponent(r) THEN acked ELSE [id \in Ids |-> 0]

(* A link, the menu, or the browser's own buttons, dialog or no dialog.     *)
Visit(r, fresh) ==
    /\ r \in menu /\ r # route
    /\ visits < MaxVisits
    /\ visits' = visits + 1
    /\ Show(r, fresh)
    /\ acked' = KnownAt(r) /\ late' = FALSE
    /\ UNCHANGED <<tourVars, rec, calls, submits, others, faults>>
-----------------------------------------------------------------------------
(* Requests for changes.                                                    *)

Seen == [id |-> route.id, version |-> Current.version]
NotSeen == [id |-> None, version |-> 0]

(* A click's state change is rendered before the next click.                *)
Send(verb, target, body, seen) ==
    /\ Cardinality(calls) < MaxInFlight
    /\ LET n == CHOOSE k \in 1..MaxInFlight : \A c \in calls : c.n # k IN
       calls' = calls \cup
          {[n |-> n, from |-> mount, verb |-> verb, target |-> target, body |-> body,
            seen |-> seen, state |-> "sent", at |-> 0]}
Submit(verb, target, body, seen) ==
    /\ submits < MaxSubmits
    /\ submits' = submits + 1
    /\ Send(verb, target, body, seen)
    /\ UNCHANGED <<tourVars, rec, route, mount, shown, side, acked, late, once, visits, others,
                   faults>>

(* Only the component's own state changes.                                  *)
Edit(next) ==
    /\ ui' = next
    /\ UNCHANGED <<tourVars, rec, route, mount, shown, side, acked, late, once, calls, countVars>>

(* The services ask for a permission before anything else.  The screens of  *)
(* colleagues and roles are for those who have theirs.                      *)
May(verb) ==
    /\ verb \in {"advance", "cancel", "refund", "place", "addCustomer"} => "edit_orders" \in rights
    /\ verb \in {"activate", "archive", "upload", "removeImage", "createProduct", "updateProduct"}
          => "edit_products" \in rights

Moved(record, status) == [record EXCEPT !.status = status, !.version = @ + 1]
Creates == {"place", "createProduct"}

(* A service makes the change or refuses it, and its answer may be lost.    *)
Served(c, legal, target, status, changes) ==
    LET accepted == May(c.verb) /\ legal IN
    /\ c.state = "sent"
    /\ rec' = IF accepted
              THEN [rec EXCEPT ![target] = Moved(changes, status)]
              ELSE rec
    /\ \E lost \in BOOLEAN :
          /\ lost => faults < MaxFaults
          /\ faults' = IF lost THEN faults + 1 ELSE faults
          /\ calls' = (calls \ {c}) \cup
                {[c EXCEPT !.target = target, !.at = rec'[target].version,
                           !.state = IF lost THEN "lost" ELSE IF accepted THEN "ok" ELSE "refused"]}
          /\ once' = IF c.verb \in Creates /\ c.from = mount
                     THEN [made |-> once.made + (IF accepted THEN 1 ELSE 0),
                           lost |-> once.lost + (IF lost THEN 1 ELSE 0)]
                     ELSE once
    /\ UNCHANGED <<tourVars, route, mount, ui, shown, side, acked, late, visits, submits, others>>

(* Or the request never arrives.                                            *)
Lost(c) ==
    /\ c.state = "sent"
    /\ faults < MaxFaults
    /\ faults' = faults + 1
    /\ calls' = (calls \ {c}) \cup {[c EXCEPT !.state = "lost"]}
    /\ UNCHANGED <<tourVars, rec, screenVars, visits, submits, others>>

(* The answer reaches the browser.                                          *)
Take(c) ==
    /\ c.state # "sent"
    /\ calls' = calls \ {c}
    /\ UNCHANGED <<tourVars, rec, countVars>>
Mounted(c) == c.from = mount
Raised(known, c) == [known EXCEPT ![c.target] = IF c.at > @ THEN c.at ELSE @]

(* The change was made; the screen reads its resources again.               *)
Told(c) == acked' = Raised(acked, c) /\ late' = FALSE

(* A form says so on the record's own page, by navigate, which works for a  *)
(* form that is gone as well.                                               *)
ShowResult(c, r, fresh) ==
    /\ Show(r, fresh)
    /\ acked' = Raised(KnownAt(r), c)
    /\ late' = (r = route)
NothingHappens == UNCHANGED screenVars
=============================================================================
