------------------------------ MODULE WebScreens ------------------------------
(***************************************************************************)
(* The screens of the staff console that change one record, composed: one  *)
(* person, one tab, one screen at a time, requests that outlive the screen *)
(* they were sent from, and colleagues who change the same records.        *)
(***************************************************************************)
EXTENDS WebSales, WebCatalog, WebStaff

ProductStatuses == {"draft", "active", "archived"}
ASSUME ScreensAssumption ==
    \A tour \in Tours :
        /\ \A o \in Orders : tour.begins[o] \in L!Status \cup {None}
        /\ \A p \in Products : tour.begins[p] \in ProductStatuses \cup {None}

Fresh(screen) ==
    CASE screen = "order" -> OrderScreen
      [] screen = "newOrder" -> NewOrder
      [] screen = "customers" -> CustomersScreen
      [] screen = "product" -> ProductScreen
      [] screen \in {"newProduct", "editProduct"} -> EmptyForm
      [] screen = "staffList" -> StaffScreen
      [] screen = "staff" -> MemberScreen
      [] screen = "roles" -> RolesScreen
      [] OTHER -> << >>

Init ==
    /\ \E tour \in Tours :
          /\ menu = tour.menu /\ rights = tour.rights
          /\ rec = [id \in Ids |-> [status |-> tour.begins[id], version |-> 0, price |-> 5,
                                    images |-> {}, used |-> {}]]
    /\ route \in menu
    /\ mount = 0
    /\ ui = Fresh(route.screen)
    /\ shown = NotLoaded
    /\ side = IF HasSide(route.screen) THEN NotLoaded ELSE NotAsked
    /\ calls = {}
    /\ acked = [id \in Ids |-> 0] /\ late = FALSE
    /\ once = [made |-> 0, lost |-> 0]
    /\ visits = 0 /\ submits = 0 /\ others = 0 /\ faults = 0

Load == LoadShown(IF At("editProduct") THEN FilledFrom(shown'.copy[route.id]) ELSE ui)

(* Colleagues advance and cancel orders, change products and accounts.      *)
Moves(id) ==
    LET status == rec[id].status IN
    CASE id \in Orders /\ status # None -> L!transitions[status]
      [] id \in Products /\ status = "draft" -> {"draft", "active"}
      [] id \in Products /\ status = "active" -> {"archived"}
      [] id \in Members /\ status = "active" -> {"inactive"}
      [] id \in Members /\ status = "inactive" -> {"active"}
      [] id \in Roles /\ status = "known" -> {"deleted"}
      [] OTHER -> {}
OthersChange(id) ==
    /\ others < MaxOthers
    /\ others' = others + 1
    /\ \E to \in Moves(id) :
          rec' = [rec EXCEPT ![id] = Moved(rec[id], to)]
    /\ UNCHANGED <<tourVars, screenVars, calls, visits, submits, faults>>

Next ==
    \/ Load \/ LoadSide \/ TryAgain
    \/ \E r \in menu : Visit(r, Fresh(r.screen))
    \/ SalesControls \/ CatalogControls \/ StaffControls
    \/ \E c \in calls : Lost(c) \/ SalesAnswers(c) \/ CatalogAnswers(c) \/ StaffAnswers(c)
    \/ \E id \in Ids : OthersChange(id)

Spec == Init /\ [][Next]_vars
-----------------------------------------------------------------------------
(* The variables have their types; the statuses a screen shows are those    *)
(* the services know.                                                       *)
ScreensTypeOK ==
    /\ \E tour \in Tours : menu = tour.menu /\ rights = tour.rights
    /\ late \in BOOLEAN
    /\ \A o \in Orders : rec[o].status \in L!Status \cup {None}
    /\ \A p \in Products : /\ rec[p].status \in ProductStatuses \cup {None}
                           /\ rec[p].images \subseteq rec[p].used /\ rec[p].used \subseteq Images
    /\ route \in Routes
    /\ ui = << >> \/ DOMAIN ui = DOMAIN Fresh(route.screen)
    /\ shown.state \in {"loading", "ready", "error"}
    /\ side.state \in {"idle", "loading", "ready", "error"}
    /\ \A c \in calls : c.from \in 0..mount /\ c.state \in {"sent", "ok", "refused", "lost"}

(* The screens of an order and of a product show their buttons to everybody *)
(* who may look.  To somebody who may also change the record, a change of   *)
(* status is refused only if the record has changed since the person saw    *)
(* the button (orders.ts mirrors the service's table), or if the question   *)
(* was asked about one record and answered on the page of the next, which   *)
(* only a dialog allows.                                                    *)
RefusedOnlyWhenOutdated ==
    \A c \in calls :
        /\ c.verb \in OrderVerbs \cup {"activate", "archive"} /\ c.state = "refused"
        /\ May(c.verb)
        => \/ c.seen.version # c.at
           \/ c.seen.id # c.target /\ c.verb \in {"cancel", "refund", "archive"}

(* The mirror hides nothing either: an order that is shown has a button for *)
(* every move that the service's table has from the status shown.           *)
EveryMoveHasAButton ==
    OrderReady => MovesOffered(Current.status) = L!transitions[Current.status]

(* Once the person has been told that a change was made, by the screen that *)
(* is shown or by the form that led to it, neither the record nor the       *)
(* second list on it (history, images) is shown as it was before.  The      *)
(* exception is a form whose answer finds the record's own page open: its   *)
(* address is the one shown, so that nothing is read again, until the page  *)
(* is left or told of another change.                                       *)
ShowsItsChanges ==
    \A copy \in {DetailsShown, ListShown} :
        \A id \in DOMAIN copy : late \/ copy[id].version >= acked[id]

(* The flag behind each spinning button, and the requests it stands for.    *)
Spinners ==
    CASE At("order") -> {<<ui.busy, OrderVerbs>>}
      [] At("newOrder") -> {<<ui.placing, {"place"}>>}
      [] At("customers") -> {<<ui.saving, {"addCustomer"}>>}
      [] At("product") -> {<<ui.busy, ProductVerbs>>}
      [] At("newProduct") -> {<<ui.saving, {"createProduct"}>>}
      [] At("editProduct") -> {<<ui.saving, {"updateProduct"}>>}
      [] At("staffList") -> {<<ui.submitting, {"createStaff"}>>}
      [] At("staff") -> {<<ui.saving, {"updateStaff"}>>, <<ui.deactivating, {"deactivate"}>>}
      [] At("roles") -> {<<ui.saving, {"createRole", "updateRole"}>>,
                         <<ui.deleting, {"deleteRole"}>>}
      [] OTHER -> {}

(* A button spins exactly while one request of it is on its way: no request *)
(* is sent twice by a second click, and no answer, whatever happened in     *)
(* between (another record, a dialog closed and opened), leaves a button    *)
(* disabled for ever.                                                       *)
OneRequestPerButton ==
    \A spinner \in Spinners :
        Cardinality({c \in calls : c.from = mount /\ c.verb \in spinner[2]})
            = IF spinner[1] THEN 1 ELSE 0

(* One form makes one order or one product; a second one only after an      *)
(* answer was lost (no key tells the service that a request is a retry).    *)
CreatesOnce == once.made <= 1 + once.lost

(* What is sent as a new order has lines, one per product, each of at least *)
(* one piece, all in one currency.  The service demands the last two and    *)
(* would take a product twice; it also demands whole pieces, which nothing  *)
(* here sees to.                                                            *)
OrdersAreWellFormed ==
    \A c \in calls :
        c.verb = "place" =>
            /\ c.body.lines # << >>
            /\ \A i, j \in DOMAIN c.body.lines :
                  /\ c.body.lines[i].quantity >= OnePiece
                  /\ Currency[c.body.lines[i].product] = Currency[c.body.lines[j].product]
                  /\ c.body.lines[i].product = c.body.lines[j].product => i = j

(* Opening a product's form shows the price the product's own page shows,   *)
(* and saving it untouched sends the price it was opened with, to the last  *)
(* minor unit and for currencies of any number of decimals.                 *)
UntouchedPriceSurvives ==
    (At("editProduct") /\ Ready /\ ~ui.touched) =>
        /\ ui.price = PriceShown
        /\ parseMoney(ui.price, FormDigits) = ui.from

(* Staff.tsx says that the generated password cannot be shown again and     *)
(* keeps it out of the dialog for that reason: until the person says that   *)
(* it is saved, the screen shows it, and next to it the account it is for.  *)
PasswordShownUntilAcknowledged ==
    At("staffList") /\ ui.owed # None =>
        ui.step = "password" /\ ui.password = ui.owed /\ ui.email = ui.owed
=============================================================================
