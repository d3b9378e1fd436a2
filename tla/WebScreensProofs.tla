--------------------------- MODULE WebScreensProofs ---------------------------
(***************************************************************************)
(* What holds of the screens that change one record for any number of      *)
(* records, requests, visits and lost answers: first ScreensInv, which     *)
(* relates a screen, its requests and the records, and the theorems that   *)
(* follow from it, then PricesInv, which follows a price through a form.   *)
(***************************************************************************)
EXTENDS WebScreens, SelectionsProofs, FiniteSetTheorems, TLAPS

(* What never changes is a tuple only to be short where nothing happens.    *)
USE DEF tourVars

(* A record has all its fields; nothing is said of its status and price. *)
RecordShaped(r) ==
    /\ r \in [status : {r.status}, version : Nat, price : {r.price}, images : SUBSET Images,
              used : SUBSET Images]
    /\ r.images \subseteq r.used

RecordsInv ==
    /\ rec \in [Ids -> {rec[id] : id \in Ids}]
    /\ \A id \in Ids : RecordShaped(rec[id])
    /\ \A o \in Orders : rec[o].status \in L!Status \cup {None}
    /\ \A p \in Products : rec[p].status \in ProductStatuses \cup {None}

FrameInv ==
    /\ \E tour \in Tours : menu = tour.menu /\ rights = tour.rights
    /\ route \in Routes
    /\ mount \in Nat
    /\ late \in BOOLEAN
    /\ shown.state \in {"loading", "ready", "error"}
    /\ side.state \in {"idle", "loading", "ready", "error"}
    /\ side.state # "idle" => HasSide(route.screen) \/ At("newOrder")
    /\ side.state = "idle" => side.copy = << >>

(* Copies that were true when they were made: as old as their version says, *)
(* and no older than what the person was told, unless that came late.       *)
CopySound(copy) ==
    \A id \in DOMAIN copy :
        /\ id \in Ids
        /\ copy[id].version \in 0..rec[id].version
        /\ late \/ copy[id].version >= acked[id]
        /\ copy[id].version = rec[id].version => copy[id] = rec[id]
        /\ id \in Orders => copy[id].status \in L!Status
        /\ id \in Products => copy[id].status \in ProductStatuses
LoadedInv ==
    /\ acked \in [Ids -> Nat]
    /\ \A id \in Ids : acked[id] <= rec[id].version
    /\ CopySound(shown.copy) /\ CopySound(side.copy)
    /\ Ready /\ route.screen \in Details \cup {"editProduct"} => route.id \in DOMAIN shown.copy

(* What was read of a record, and the statuses it may have had then. *)
Refs == [id : Ids \cup {None}, version : Nat]
Read(seen, statuses) ==
    /\ seen \in [id : Ids, version : Nat]
    /\ seen.version <= rec[seen.id].version
    /\ seen.version = rec[seen.id].version => rec[seen.id].status \in statuses

Quantity == {n \in Nat : n >= OnePiece}
Line == [product : Products, quantity : Quantity]
LinesSound(lines) ==
    /\ lines \in Seq(Line)
    /\ \A i, j \in DOMAIN lines : lines[i].product = lines[j].product => i = j
OrderSound(lines) ==
    /\ LinesSound(lines) /\ lines # << >>
    /\ \A i, j \in DOMAIN lines : Currency[lines[i].product] = Currency[lines[j].product]
-----------------------------------------------------------------------------
(* What each screen holds. *)
Cancellable == {"pending", "paid", "packed"}
Refundable == {"paid", "packed", "shipped", "delivered"}
OrderUi(u) ==
    /\ u \in [asking : [kind : {None, "cancel", "refund"}, seen : Refs], busy : BOOLEAN,
              failure : BOOLEAN]
    /\ u.asking.kind = None => u.asking = Nothing
    /\ u.asking.kind = "cancel" => Read(u.asking.seen, Cancellable)
    /\ u.asking.kind = "refund" => Read(u.asking.seen, Refundable)
NewOrderUi(u) ==
    /\ u \in [customer : Customers \cup {None}, lines : Seq(Line), placing : BOOLEAN,
              failure : BOOLEAN]
    /\ LinesSound(u.lines)
CustomersUi(u) ==
    u \in [adding : BOOLEAN, email : Customers \cup {None}, emailError : BOOLEAN,
           failure : BOOLEAN, saving : BOOLEAN]
ProductUi(u) ==
    /\ u \in [confirm : [open : BOOLEAN, seen : Refs], busy : BOOLEAN, failure : BOOLEAN,
              retried : SUBSET Images]
    /\ u.confirm.open => Read(u.confirm.seen, {"active"})
FormUi(u) ==
    u \in [price : {u.price}, touched : BOOLEAN, complete : BOOLEAN, from : {u.from},
           saving : BOOLEAN, failure : BOOLEAN]
StaffUi(u) ==
    u \in [open : BOOLEAN, step : {"form", "password"}, email : Members \cup {None},
           submitting : BOOLEAN, error : BOOLEAN, password : {u.password},
           acknowledged : BOOLEAN, owed : {u.owed}]
MemberUi(u) ==
    u \in [editing : BOOLEAN, active : {u.active}, saving : BOOLEAN, formError : BOOLEAN,
           asking : BOOLEAN, deactivating : BOOLEAN, deactivateError : BOOLEAN]
RolesUi(u) ==
    u \in [editing : Roles \cup {None, New}, named : BOOLEAN, saving : BOOLEAN,
           formError : BOOLEAN, target : Roles \cup {None}, deleting : BOOLEAN,
           deleteError : BOOLEAN]
UiSound(u) ==
    /\ At("order") => OrderUi(u)
    /\ At("newOrder") => NewOrderUi(u)
    /\ At("customers") => CustomersUi(u)
    /\ At("product") => ProductUi(u)
    /\ route.screen \in {"newProduct", "editProduct"} => FormUi(u)
    /\ At("staffList") => StaffUi(u)
    /\ At("staff") => MemberUi(u)
    /\ At("roles") => RolesUi(u)
    /\ At("elsewhere") => u = << >>
-----------------------------------------------------------------------------
(* The requests of each screen, by the button that sends them. *)
Group(verb) ==
    CASE verb \in OrderVerbs -> OrderVerbs
      [] verb \in ProductVerbs -> ProductVerbs
      [] verb \in {"createRole", "updateRole"} -> {"createRole", "updateRole"}
      [] OTHER -> {verb}
VerbsOf(screen) ==
    CASE screen = "order" -> OrderVerbs
      [] screen = "newOrder" -> {"place"}
      [] screen = "customers" -> {"addCustomer"}
      [] screen = "product" -> ProductVerbs
      [] screen = "newProduct" -> {"createProduct"}
      [] screen = "editProduct" -> {"updateProduct"}
      [] screen = "staffList" -> {"createStaff"}
      [] screen = "staff" -> {"updateStaff", "deactivate"}
      [] screen = "roles" -> {"createRole", "updateRole", "deleteRole"}
      [] OTHER -> {}
Spinning(u, verb) ==
    \/ verb \in OrderVerbs \cup ProductVerbs /\ u.busy = TRUE
    \/ verb = "place" /\ u.placing = TRUE
    \/ verb \in {"addCustomer", "createProduct", "updateProduct", "updateStaff", "createRole",
                 "updateRole"} /\ u.saving = TRUE
    \/ verb = "createStaff" /\ u.submitting = TRUE
    \/ verb = "deactivate" /\ u.deactivating = TRUE
    \/ verb = "deleteRole" /\ u.deleting = TRUE

Of(verb) == {c \in calls : c.from = mount /\ c.verb \in Group(verb)}
ButtonsInv ==
    \A verb \in VerbsOf(route.screen) :
        IF Spinning(ui, verb) THEN \E c \in calls : Of(verb) = {c} ELSE Of(verb) = {}

(* A form that is not filled yet cannot be saved. *)
FormInv == At("editProduct") /\ ~Ready => ~Spinning(ui, "updateProduct")

(* A request, what it is about and what was read when it was sent. *)
AllVerbs == OrderVerbs \cup ProductVerbs \cup
    {"place", "lookup", "addCustomer", "createProduct", "updateProduct", "createStaff",
     "updateStaff", "deactivate", "createRole", "updateRole", "deleteRole"}
CallShaped(c) ==
    c \in [n : {c.n}, from : 0..mount, verb : AllVerbs, target : {c.target}, body : {c.body},
           seen : Refs, state : {"sent", "ok", "refused", "lost"}, at : Nat]
TargetOf(verb) ==
    CASE verb \in OrderVerbs \cup {"place"} -> Orders
      [] verb \in ProductVerbs \cup {"createProduct", "updateProduct"} -> Products
      [] verb \in {"addCustomer", "lookup"} -> Customers
      [] verb \in {"createStaff", "updateStaff", "deactivate"} -> Members
      [] OTHER -> Roles
Accepts(c) ==
    IF c.verb \in OrderVerbs THEN {s \in L!Status : c.body.status \in L!transitions[s]}
    ELSE {"draft", "active"}
StatusVerbs == OrderVerbs \cup {"activate", "archive"}
CallSound(c) ==
    /\ CallShaped(c)
    /\ c.from = mount => c.verb \in VerbsOf(route.screen) \cup {"lookup"}
    /\ c.from = mount /\ c.verb = "lookup" => At("newOrder")
    /\ c.target \in TargetOf(c.verb) \/ (c.verb \in {"place", "createProduct", "createRole"}
                                         /\ c.state # "ok")
    /\ c.state = "ok" /\ c.verb # "lookup" => c.at <= rec[c.target].version
    /\ c.verb \in OrderVerbs => c.body.status \in L!Status
    /\ c.verb \in {"activate", "archive"} => c.body.status \in ProductStatuses
    /\ c.verb = "place" => OrderSound(c.body.lines)
    /\ c.verb \in StatusVerbs /\ c.state \in {"sent", "lost"} => Read(c.seen, Accepts(c))
    /\ c.verb \in {"advance", "activate"} => c.seen.id = c.target
    /\ c.verb \in StatusVerbs /\ c.state = "refused" /\ May(c.verb) =>
          c.seen.id # c.target \/ c.seen.version # c.at
CallsInv == \A c \in calls : CallSound(c)

Made == \E c \in calls : c.from = mount /\ c.verb \in Creates /\ c.state = "ok"
OnceInv ==
    /\ once \in [made : Nat, lost : Nat]
    /\ once.made <= once.lost \/ (once.made = once.lost + 1 /\ Made)

ScreensInv ==
    /\ RecordsInv /\ FrameInv /\ LoadedInv /\ UiSound(ui) /\ ButtonsInv /\ FormInv
    /\ CallsInv /\ OnceInv
-----------------------------------------------------------------------------
(* Verbs, buttons and screens. *)
LEMMA VerbFacts ==
    /\ \A verb \in AllVerbs : verb \in Group(verb) /\ Group(verb) \subseteq AllVerbs
    /\ \A v, w \in AllVerbs : w \in Group(v) => Group(w) = Group(v)
    /\ \A v, w \in AllVerbs : \A u : w \in Group(v) => (Spinning(u, v) <=> Spinning(u, w))
    /\ \A screen : \A v \in VerbsOf(screen) :
          v \in AllVerbs \ {"lookup"} /\ Group(v) \subseteq VerbsOf(screen)
BY DEF AllVerbs, OrderVerbs, ProductVerbs, Group, VerbsOf, Spinning

LEMMA RouteFacts ==
    ASSUME route \in Routes
    PROVE  /\ At("order") => route.id \in Orders
           /\ At("product") \/ At("editProduct") => route.id \in Products
           /\ At("staff") => route.id \in Members
           /\ route.screen \in {"order", "product", "editProduct", "staff", "customers",
                                "staffList", "roles", "newOrder", "newProduct", "elsewhere"}
           /\ route = [screen |-> route.screen, id |-> route.id]
BY DEF Routes, At, Lists

(* Records only grow, and what was read of them stays true of its version. *)
Grown == /\ RecordsInv'
         /\ \A id \in Ids : rec'[id] = rec[id] \/ rec'[id].version > rec[id].version
LEMMA GrownFacts ==
    ASSUME RecordsInv, Grown
    PROVE  \A id \in Ids : /\ rec[id].version \in Nat /\ rec'[id].version \in Nat
                           /\ rec[id].version <= rec'[id].version
                           /\ rec'[id].version = rec[id].version => rec'[id] = rec[id]
<1>1. \A id \in Ids : rec[id].version \in Nat /\ rec'[id].version \in Nat
  BY DEF RecordsInv, Grown, RecordShaped
<1> QED BY <1>1 DEF Grown

LEMMA ReadStays ==
    ASSUME RecordsInv, Grown, NEW seen, NEW statuses, Read(seen, statuses)
    PROVE  Read(seen, statuses)'
<1>1. seen.id \in Ids /\ seen.version \in Nat
  BY DEF Read
<1> QED BY <1>1, GrownFacts DEF Read

LEMMA UnchangedGrows == RecordsInv /\ rec' = rec => Grown
BY DEF RecordsInv, Grown, RecordShaped

LEMMA UiStays ==
    ASSUME RecordsInv, Grown, UNCHANGED route, NEW u, UiSound(u)
    PROVE  UiSound(u)'
<1>1. OrderUi(u) => OrderUi(u)'
  BY ReadStays DEF OrderUi
<1>2. ProductUi(u) => ProductUi(u)'
  BY ReadStays DEF ProductUi
<1>3. \A s : At(s)' <=> At(s)
  BY DEF At
<1> QED BY <1>1, <1>2, <1>3 DEF UiSound, NewOrderUi, CustomersUi, FormUi, StaffUi, MemberUi, RolesUi

LEMMA MayStays ==
    ASSUME UNCHANGED rights
    PROVE  \A verb : May(verb)' <=> May(verb)
BY DEF May

LEMMA CopyStays ==
    ASSUME RecordsInv, Grown, UNCHANGED <<acked, late>>,
           NEW copy, CopySound(copy)
    PROVE  CopySound(copy)'
<1> SUFFICES ASSUME NEW id \in DOMAIN copy
             PROVE  /\ id \in Ids
                    /\ copy[id].version \in 0..rec'[id].version
                    /\ late \/ copy[id].version >= acked[id]
                    /\ copy[id].version = rec'[id].version => copy[id] = rec'[id]
                    /\ id \in Orders => copy[id].status \in L!Status
                    /\ id \in Products => copy[id].status \in ProductStatuses
  BY DEF CopySound
<1>1. /\ id \in Ids
      /\ copy[id].version \in 0..rec[id].version
      /\ late \/ copy[id].version >= acked[id]
      /\ copy[id].version = rec[id].version => copy[id] = rec[id]
      /\ id \in Orders => copy[id].status \in L!Status
      /\ id \in Products => copy[id].status \in ProductStatuses
  BY DEF CopySound
<1>2. /\ rec[id].version \in Nat /\ rec'[id].version \in Nat
      /\ rec[id].version <= rec'[id].version
      /\ rec'[id].version = rec[id].version => rec'[id] = rec[id]
  BY <1>1, GrownFacts
<1> QED BY <1>1, <1>2
-----------------------------------------------------------------------------
(* Steps by their shape.  First those that leave the records, the requests  *)
(* and the route alone: only the component's state and what it has loaded   *)
(* change.                                                                  *)
Reloaded ==
    /\ shown' = shown \/ (shown' = NotLoaded /\ ~(At("editProduct") /\ Ready))
    /\ side' = side \/ (side' = NotLoaded /\ (HasSide(route.screen) \/ At("newOrder")))

LEMMA NothingLoaded == DOMAIN NotLoaded.copy = {} /\ DOMAIN NotAsked.copy = {}
BY DEF NotLoaded, NotAsked

LEMMA ReloadedKeeps ==
    ASSUME ScreensInv, Reloaded, Grown, UNCHANGED <<menu, rights, route, mount, acked, late>>
    PROVE  FrameInv' /\ LoadedInv'
<1>1. CopySound(shown.copy)' /\ CopySound(side.copy)'
  BY CopyStays, NothingLoaded DEF Reloaded, ScreensInv, LoadedInv, CopySound
<1>2. /\ shown'.state \in {"loading", "ready", "error"}
      /\ side'.state \in {"idle", "loading", "ready", "error"}
  BY DEF Reloaded, ScreensInv, FrameInv, NotLoaded
<1>3. FrameInv'
  BY <1>2 DEF Reloaded, ScreensInv, FrameInv, NotLoaded, At
<1>4. \A id \in Ids : acked'[id] <= rec'[id].version
  <2> SUFFICES ASSUME NEW id \in Ids PROVE acked[id] <= rec'[id].version
    OBVIOUS
  <2>1. acked[id] \in Nat /\ acked[id] <= rec[id].version
    BY DEF ScreensInv, LoadedInv
  <2>2. rec[id].version \in Nat /\ rec'[id].version \in Nat /\ rec[id].version <= rec'[id].version
    BY GrownFacts DEF ScreensInv
  <2> QED BY <2>1, <2>2
<1>5. (Ready /\ route.screen \in Details \cup {"editProduct"} => route.id \in DOMAIN shown.copy)'
  BY DEF Reloaded, ScreensInv, LoadedInv, Ready, NotLoaded
<1> QED BY <1>1, <1>3, <1>4, <1>5 DEF ScreensInv, LoadedInv

LEMMA SpinnersKeep ==
    ASSUME ButtonsInv, UNCHANGED <<calls, route, mount>>,
           \A verb \in VerbsOf(route.screen) : Spinning(ui', verb) <=> Spinning(ui, verb)
    PROVE  ButtonsInv'
<1>1. \A verb : Of(verb)' = Of(verb)
  BY DEF Of
<1> QED BY <1>1 DEF ButtonsInv

LEMMA CallStays ==
    ASSUME RecordsInv, Grown, NEW c, CallSound(c), mount \in Nat,
           UNCHANGED <<rights, mount, route>>
    PROVE  CallSound(c)'
<1>1. CallShaped(c) /\ CallShaped(c)'
  BY DEF CallSound, CallShaped
<1>2. c.at \in Nat /\ c.verb \in AllVerbs
  BY <1>1 DEF CallShaped
<1>3. ASSUME c.state = "ok", c.verb # "lookup"
      PROVE  c.at <= rec'[c.target].version
  <2>1. c.target \in Ids /\ c.at <= rec[c.target].version
    BY <1>3 DEF CallSound, TargetOf, Ids
  <2>2. /\ rec[c.target].version \in Nat /\ rec'[c.target].version \in Nat
        /\ rec[c.target].version <= rec'[c.target].version
    BY <2>1, GrownFacts
  <2> QED BY <1>2, <2>1, <2>2
<1>4. Read(c.seen, Accepts(c)) => Read(c.seen, Accepts(c))'
  BY ReadStays DEF Accepts
<1> QED BY <1>1, <1>3, <1>4, MayStays DEF CallSound, OrderSound, LinesSound, At

LEMMA CallsStay ==
    ASSUME ScreensInv, Grown, UNCHANGED <<rights, calls, mount, route, once>>
    PROVE  CallsInv' /\ OnceInv'
BY CallStays DEF ScreensInv, FrameInv, CallsInv, OnceInv, Made

(* The component edits its own state, or asks for its resources again. *)
LEMMA EditStep ==
    ASSUME ScreensInv, Reloaded,
           UNCHANGED <<menu, rights, rec, route, mount, acked, late, once, calls>>,
           UiSound(ui'),
           \A verb \in VerbsOf(route.screen) : Spinning(ui', verb) <=> Spinning(ui, verb)
    PROVE  ScreensInv'
<1>1. Grown
  BY UnchangedGrows DEF ScreensInv
<1>2. FrameInv' /\ LoadedInv'
  BY <1>1, ReloadedKeeps
<1>3. UiSound(ui)'
  BY <1>1, UiStays DEF ScreensInv
<1>4. ButtonsInv'
  BY SpinnersKeep DEF ScreensInv
<1>5. CallsInv' /\ OnceInv'
  BY <1>1, CallsStay
<1>6. FormInv'
  <2>1. At("editProduct") => "updateProduct" \in VerbsOf(route.screen)
    BY DEF At, VerbsOf
  <2> QED BY <2>1 DEF Reloaded, ScreensInv, FormInv, At, Ready
<1> QED BY <1>1, <1>2, <1>3, <1>4, <1>5, <1>6 DEF ScreensInv, Grown
-----------------------------------------------------------------------------
(* A request is sent: its button was still and turns. *)
NewCall(verb, target, body, seen) ==
    [n |-> CHOOSE k \in 1..MaxInFlight : \A c \in calls : c.n # k, from |-> mount,
     verb |-> verb, target |-> target, body |-> body, seen |-> seen, state |-> "sent", at |-> 0]

LEMMA SubmitStep ==
    ASSUME ScreensInv, NEW verb, NEW target, NEW body, NEW seen,
           Submit(verb, target, body, seen),
           verb \in VerbsOf(route.screen), verb = "updateProduct" => Ready,
           CallSound(NewCall(verb, target, body, seen)),
           UiSound(ui'), ~Spinning(ui, verb), Spinning(ui', verb),
           \A w \in VerbsOf(route.screen) \ Group(verb) : Spinning(ui', w) <=> Spinning(ui, w)
    PROVE  ScreensInv'
<1> DEFINE new == NewCall(verb, target, body, seen)
<1>1. /\ UNCHANGED <<menu, rights, rec, route, mount, shown, side, acked, late, once>>
      /\ calls' = calls \cup {new}
  BY DEF Submit, Send, NewCall
<1>2. Grown
  BY <1>1, UnchangedGrows DEF ScreensInv
<1>3. FrameInv' /\ LoadedInv'
  BY <1>1, <1>2, ReloadedKeeps DEF Reloaded
<1>4. UiSound(ui)'
  BY <1>1, <1>2, UiStays DEF ScreensInv
<1>5. new.from = mount /\ new.verb = verb /\ new.state = "sent"
  BY DEF NewCall
<1>6. CallsInv'
  <2>1. \A c \in calls \cup {new} : CallSound(c)
    BY DEF ScreensInv, CallsInv
  <2> HIDE DEF new
  <2> QED BY <1>1, <1>2, <2>1, CallStays DEF ScreensInv, FrameInv, CallsInv
<1> HIDE DEF new
<1>7. OnceInv'
  BY <1>1, <1>5 DEF ScreensInv, OnceInv, Made
<1>8. ASSUME NEW w \in VerbsOf(route.screen)
      PROVE  IF Spinning(ui', w) THEN \E c \in calls' : Of(w)' = {c} ELSE Of(w)' = {}
  <2>1. /\ w \in AllVerbs /\ verb \in AllVerbs
        /\ IF Spinning(ui, w) THEN \E c \in calls : Of(w) = {c} ELSE Of(w) = {}
    BY VerbFacts DEF ScreensInv, ButtonsInv
  <2>2. CASE w \in Group(verb)
    <3>1. verb \in Group(w) /\ ~Spinning(ui, w) /\ Spinning(ui', w)
      BY <2>1, <2>2, VerbFacts
    <3>2. Of(w)' = {new}
      BY <1>1, <1>5, <2>1, <3>1 DEF Of
    <3> QED BY <1>1, <3>1, <3>2
  <2>3. CASE w \notin Group(verb)
    <3>1. verb \notin Group(w) /\ (Spinning(ui', w) <=> Spinning(ui, w))
      BY <2>1, <2>3, VerbFacts
    <3>2. Of(w)' = Of(w)
      BY <1>1, <1>5, <3>1 DEF Of
    <3> QED BY <1>1, <2>1, <3>1, <3>2
  <2> QED BY <2>2, <2>3
<1>9. ButtonsInv'
  BY <1>1, <1>8 DEF ButtonsInv
<1>10. FormInv'
  <2>1. At("editProduct") => "updateProduct" \in VerbsOf(route.screen)
    BY DEF At, VerbsOf
  <2>2. "updateProduct" \in Group(verb) => verb = "updateProduct"
    BY DEF Group, OrderVerbs, ProductVerbs
  <2> QED BY <1>1, <2>1, <2>2 DEF ScreensInv, FormInv, At, Ready
<1> QED BY <1>2, <1>3, <1>4, <1>6, <1>7, <1>9, <1>10 DEF ScreensInv, Grown
-----------------------------------------------------------------------------
(* A request changes on its way: its button goes on turning. *)
LEMMA ReplaceKeepsButtons ==
    ASSUME ButtonsInv, UNCHANGED <<ui, route, mount>>, NEW c \in calls, NEW d,
           calls' = (calls \ {c}) \cup {d}, d.from = c.from, d.verb = c.verb
    PROVE  ButtonsInv'
<1> SUFFICES ASSUME NEW w \in VerbsOf(route.screen)
             PROVE  IF Spinning(ui, w) THEN \E e \in calls' : Of(w)' = {e} ELSE Of(w)' = {}
  BY DEF ButtonsInv
<1>1. IF Spinning(ui, w) THEN \E e \in calls : Of(w) = {e} ELSE Of(w) = {}
  BY DEF ButtonsInv
<1>2. CASE c \in Of(w)
  <2>1. Of(w) = {c} /\ Spinning(ui, w)
    BY <1>1, <1>2
  <2>2. Of(w)' = {d}
    BY <1>2, <2>1 DEF Of
  <2> QED BY <2>1, <2>2
<1>3. CASE c \notin Of(w)
  <2>1. Of(w)' = Of(w)
    BY <1>3 DEF Of
  <2> QED BY <1>1, <1>3, <2>1 DEF Of
<1> QED BY <1>2, <1>3

LEMMA ReplaceStep ==
    ASSUME ScreensInv, Grown, NEW c \in calls, NEW d,
           UNCHANGED <<menu, rights, route, mount, ui, shown, side, acked, late>>,
           calls' = (calls \ {c}) \cup {d}, d.from = c.from, d.verb = c.verb,
           CallSound(d)', OnceInv'
    PROVE  ScreensInv'
<1>1. FrameInv' /\ LoadedInv'
  BY ReloadedKeeps DEF Reloaded
<1>2. UiSound(ui)'
  BY UiStays DEF ScreensInv
<1>3. ButtonsInv'
  BY ReplaceKeepsButtons DEF ScreensInv
<1>4. CallsInv'
  BY CallStays DEF ScreensInv, FrameInv, CallsInv
<1>5. FormInv'
  BY DEF ScreensInv, FormInv, At, Ready
<1> QED BY <1>1, <1>2, <1>3, <1>4, <1>5 DEF ScreensInv, Grown

(* A form has one request on its way, so none of it was accepted before.    *)
LEMMA OneCreation ==
    ASSUME ScreensInv, NEW c \in calls, c.from = mount, c.verb \in Creates
    PROVE  \A e \in calls : e.from = mount /\ e.verb \in Creates => e = c
<1> SUFFICES ASSUME NEW e \in calls, e.from = mount, e.verb \in Creates
             PROVE  e = c
  OBVIOUS
<1>1. c.verb \in VerbsOf(route.screen) /\ e.verb \in VerbsOf(route.screen)
  BY DEF ScreensInv, CallsInv, CallSound, Creates
<1>2. e.verb = c.verb
  BY <1>1 DEF VerbsOf, Creates, OrderVerbs, ProductVerbs
<1>3. c \in Of(c.verb) /\ e \in Of(c.verb)
  BY <1>1, <1>2, VerbFacts DEF Of
<1> QED BY <1>1, <1>3 DEF ScreensInv, ButtonsInv

LEMMA LostStep ==
    ASSUME ScreensInv, NEW c \in calls, Lost(c)
    PROVE  ScreensInv'
<1> DEFINE d == [c EXCEPT !.state = "lost"]
<1>1. /\ c.state = "sent" /\ calls' = (calls \ {c}) \cup {d}
      /\ UNCHANGED <<menu, rights, rec, route, mount, ui, shown, side, acked, late, once>>
  BY DEF Lost, screenVars
<1>2. CallSound(c) /\ CallShaped(c)
  BY DEF ScreensInv, CallsInv, CallSound
<1>3. /\ d.from = c.from /\ d.verb = c.verb /\ d.state = "lost" /\ d.target = c.target
      /\ d.body = c.body /\ d.seen = c.seen
      /\ CallShaped(d)
  BY <1>2 DEF CallShaped
<1>4. Grown
  BY <1>1, UnchangedGrows DEF ScreensInv
<1> HIDE DEF d
<1>5. CallSound(d)
  BY <1>1, <1>2, <1>3 DEF CallSound, Accepts
<1>6. CallSound(d)'
  BY <1>1, <1>4, <1>5, CallStays DEF ScreensInv, FrameInv
<1>7. OnceInv'
  BY <1>1, <1>3 DEF ScreensInv, OnceInv, Made
<1> QED BY <1>1, <1>3, <1>4, <1>6, <1>7, ReplaceStep
-----------------------------------------------------------------------------
(* A change of status is a version of its own. *)
LEMMA NextVersion ==
    ASSUME NEW p, RecordShaped(p), NEW status
    PROVE  LET r == Moved(p, status) IN
           RecordShaped(r) /\ r.version > p.version /\ r.status = status
<1> DEFINE v == p.version + 1
<1>1. p.version \in Nat /\ v \in Nat /\ v > p.version
  BY DEF RecordShaped
<1>2. Moved(p, status) = [p EXCEPT !.status = status, !.version = v]
  BY DEF RecordShaped, Moved
<1> HIDE DEF v
<1>3. LET r == [p EXCEPT !.status = status, !.version = v] IN
      RecordShaped(r) /\ r.version = v /\ r.status = status
  BY <1>1 DEF RecordShaped
<1> QED BY <1>1, <1>2, <1>3

(* A service answers: the record is as it was or a version further, and     *)
(* what it refuses was not what the person saw.                             *)
LEMMA ServedStep ==
    ASSUME ScreensInv, NEW c \in calls, NEW legal \in BOOLEAN, NEW target, NEW status,
           NEW changes,
           Served(c, legal, target, status, changes),
           target \in TargetOf(c.verb), c.verb # "lookup",
           c.verb \in StatusVerbs => target = c.target,
           legal => LET r == Moved(changes, status) IN
                    /\ RecordShaped(r)
                    /\ r = rec[target] \/ r.version > rec[target].version
                    /\ target \in Orders => status \in L!Status \cup {None}
                    /\ target \in Products => status \in ProductStatuses \cup {None},
           c.verb \in StatusVerbs /\ ~legal =>
               c.seen.id # target \/ c.seen.version # rec[target].version
    PROVE  ScreensInv'
<1> DEFINE r == Moved(changes, status)
           accepted == May(c.verb) /\ legal
<1>1. /\ c.state = "sent"
      /\ rec' = IF accepted THEN [rec EXCEPT ![target] = r] ELSE rec
      /\ UNCHANGED <<menu, rights, route, mount, ui, shown, side, acked, late>>
  BY DEF Served
<1>0. PICK lost \in BOOLEAN :
          /\ calls' = (calls \ {c}) \cup
                {[c EXCEPT !.target = target, !.at = rec'[target].version,
                           !.state = IF lost THEN "lost" ELSE IF accepted THEN "ok" ELSE "refused"]}
          /\ once' = IF c.verb \in Creates /\ c.from = mount
                     THEN [made |-> once.made + (IF accepted THEN 1 ELSE 0),
                           lost |-> once.lost + (IF lost THEN 1 ELSE 0)]
                     ELSE once
  BY DEF Served
<1>2. PICK d :
          /\ d = [c EXCEPT !.target = target, !.at = rec'[target].version,
                          !.state = IF lost THEN "lost" ELSE IF accepted THEN "ok" ELSE "refused"]
          /\ calls' = (calls \ {c}) \cup {d}
          /\ once' = IF c.verb \in Creates /\ c.from = mount
                     THEN [made |-> once.made + (IF accepted THEN 1 ELSE 0),
                           lost |-> once.lost + (IF lost THEN 1 ELSE 0)]
                     ELSE once
  BY <1>0
<1>3. target \in Ids
  BY DEF TargetOf, Ids
<1>4. accepted => /\ RecordShaped(r) /\ r.status = status
                  /\ r = rec[target] \/ r.version > rec[target].version
  <2>1. accepted => RecordShaped(r)
    OBVIOUS
  <2>2. RecordShaped(r) => r.status = status
    BY DEF RecordShaped, Moved
  <2> QED BY <2>1, <2>2
<1>a. accepted \in BOOLEAN /\ (May(c.verb) /\ ~accepted => ~legal)
  OBVIOUS
<1>5. accepted => /\ target \in Orders => status \in L!Status \cup {None}
                  /\ target \in Products => status \in ProductStatuses \cup {None}
  OBVIOUS
<1> HIDE DEF r, accepted
<1>6. Grown
  <2>1. CASE ~accepted
    BY <1>1, <2>1, UnchangedGrows DEF ScreensInv
  <2>2. CASE accepted
    <3>1. rec' = [rec EXCEPT ![target] = r]
      BY <1>1, <2>2
    <3>2. rec = [id \in Ids |-> rec[id]]
      BY DEF ScreensInv, RecordsInv
    <3>3. rec' = [id \in Ids |-> IF id = target THEN r ELSE rec[id]]
      BY <3>1, <3>2
    <3>4. \A id \in Ids : rec'[id] = IF id = target THEN r ELSE rec[id]
      BY <3>3
    <3>5. \A id \in Ids : RecordShaped(rec'[id])
      BY <1>4, <2>2, <3>4 DEF ScreensInv, RecordsInv
    <3>6. /\ \A o \in Orders : rec'[o].status \in L!Status \cup {None}
          /\ \A p \in Products : rec'[p].status \in ProductStatuses \cup {None}
      BY <1>4, <1>5, <2>2, <3>4 DEF ScreensInv, RecordsInv, Ids
    <3>7. rec' \in [Ids -> {rec'[id] : id \in Ids}]
      BY <3>3
    <3>8. RecordsInv'
      BY <3>5, <3>6, <3>7 DEF RecordsInv, RecordShaped
    <3> QED BY <1>4, <2>2, <3>4, <3>8 DEF Grown
  <2> QED BY <2>1, <2>2
<1>7. CallSound(c) /\ CallShaped(c)
  BY DEF ScreensInv, CallsInv, CallSound
<1>8. rec'[target].version \in Nat
  BY <1>3, <1>6, GrownFacts DEF ScreensInv
<1>9. /\ d.from = c.from /\ d.verb = c.verb /\ d.target = target /\ d.body = c.body
      /\ d.seen = c.seen /\ d.at = rec'[target].version
      /\ d.state = IF lost THEN "lost" ELSE IF accepted THEN "ok" ELSE "refused"
      /\ CallShaped(d)
  BY <1>2, <1>7, <1>8 DEF CallShaped
<1>10. calls' = (calls \ {c}) \cup {d}
  BY <1>2
<1>11. CallSound(d)'
  <2>1. CallShaped(d)'
    BY <1>1, <1>9 DEF CallShaped
  <2>2. c.verb \in StatusVerbs => Read(c.seen, Accepts(c))'
    <3> SUFFICES ASSUME c.verb \in StatusVerbs PROVE Read(c.seen, Accepts(c))'
      OBVIOUS
    <3>1. Read(c.seen, Accepts(c))
      BY <1>1, <1>7 DEF CallSound
    <3> QED BY <1>6, <3>1, ReadStays DEF ScreensInv, Accepts
  <2>3. Accepts(d) = Accepts(c)
    BY <1>9 DEF Accepts
  <2>4. c.verb \in StatusVerbs /\ ~accepted /\ May(c.verb) =>
            d.seen.id # d.target \/ d.seen.version # d.at
    BY <1>a, <1>1, <1>9
  <2>5. d.at <= rec'[d.target].version
    BY <1>8, <1>9
  <2>6. c.from = mount => c.verb \in VerbsOf(route.screen) \cup {"lookup"}
    BY <1>7 DEF CallSound
  <2>7. /\ c.verb \in OrderVerbs => c.body.status \in L!Status
        /\ c.verb \in {"activate", "archive"} => c.body.status \in ProductStatuses
        /\ c.verb = "place" => OrderSound(c.body.lines)
        /\ c.verb \in {"advance", "activate"} => d.seen.id = d.target
    BY <1>7, <1>9 DEF CallSound, StatusVerbs, OrderVerbs
  <2> QED BY <1>1, <1>9, MayStays, <2>1, <2>2, <2>3, <2>4, <2>5, <2>6, <2>7
          DEF CallSound, OrderSound, LinesSound, Accepts
<1>12. OnceInv'
  <2>1. once.made \in Nat /\ once.lost \in Nat
    BY DEF ScreensInv, OnceInv
  <2>2. CASE c.verb \in Creates /\ c.from = mount
    <3>1. ~Made
      BY <1>1, <2>2, OneCreation DEF Made
    <3>2. once.made <= once.lost
      BY <3>1 DEF ScreensInv, OnceInv
    <3>3. once' = [made |-> once.made + (IF accepted THEN 1 ELSE 0),
                   lost |-> once.lost + (IF lost THEN 1 ELSE 0)]
      BY <1>2, <2>2
    <3>4. accepted /\ ~lost => Made'
      BY <1>1, <1>9, <1>10, <2>2 DEF Made
    <3>5. once'.made = once.made + (IF accepted THEN 1 ELSE 0)
          /\ once'.lost = once.lost + (IF lost THEN 1 ELSE 0)
      BY <3>3
    <3>6. /\ once'.made <= once'.lost \/ (once'.made = once'.lost + 1 /\ accepted /\ ~lost)
          /\ once'.made \in Nat /\ once'.lost \in Nat
      BY <2>1, <3>2, <3>5
    <3>7. once' \in [made : Nat, lost : Nat]
      BY <2>1, <3>3
    <3> QED BY <3>4, <3>6, <3>7 DEF OnceInv
  <2>3. CASE ~(c.verb \in Creates /\ c.from = mount)
    <3>1. once' = once
      BY <1>2, <2>3
    <3>2. Made => Made'
      BY <1>1, <1>10, <2>3 DEF Made
    <3> QED BY <3>1, <3>2 DEF ScreensInv, OnceInv
  <2> QED BY <2>2, <2>3
<1> QED BY <1>1, <1>6, <1>9, <1>10, <1>11, <1>12, ReplaceStep
-----------------------------------------------------------------------------
(* An answer is taken.  One that no button waits for any more changes       *)
(* nothing but what was looked up.                                          *)
LEMMA IgnoredStep ==
    ASSUME ScreensInv, NEW c \in calls, calls' = calls \ {c},
           UNCHANGED <<menu, rights, rec, route, mount, shown, side, acked, late, once>>,
           c.from # mount \/ c.verb = "lookup",
           UiSound(ui'),
           \A verb \in VerbsOf(route.screen) : Spinning(ui', verb) <=> Spinning(ui, verb)
    PROVE  ScreensInv'
<1>1. Grown
  BY UnchangedGrows DEF ScreensInv
<1>2. FrameInv' /\ LoadedInv'
  BY <1>1, ReloadedKeeps DEF Reloaded
<1>3. UiSound(ui)'
  BY <1>1, UiStays DEF ScreensInv
<1>4. \A w \in VerbsOf(route.screen) : Of(w)' = Of(w)
  <2> SUFFICES ASSUME NEW w \in VerbsOf(route.screen) PROVE c \notin Of(w)
    BY DEF Of
  <2>1. "lookup" \notin Group(w)
    BY VerbFacts
  <2> QED BY <2>1 DEF Of
<1>5. ButtonsInv'
  <2> SUFFICES ASSUME NEW w \in VerbsOf(route.screen)
               PROVE  IF Spinning(ui', w) THEN \E e \in calls' : Of(w)' = {e} ELSE Of(w)' = {}
    BY DEF ButtonsInv
  <2>1. IF Spinning(ui, w) THEN \E e \in calls : Of(w) = {e} ELSE Of(w) = {}
    BY DEF ScreensInv, ButtonsInv
  <2>2. Of(w)' = Of(w) /\ Of(w)' \subseteq calls'
    BY <1>4 DEF Of
  <2> QED BY <2>1, <2>2
<1>6. CallsInv'
  BY <1>1, CallStays DEF ScreensInv, FrameInv, CallsInv
<1>7. OnceInv'
  <2>1. Made => Made'
    BY DEF Made, Creates
  <2> QED BY <2>1 DEF ScreensInv, OnceInv
<1>8. FormInv'
  <2>1. At("editProduct") => "updateProduct" \in VerbsOf(route.screen)
    BY DEF At, VerbsOf
  <2> QED BY <2>1 DEF ScreensInv, FormInv, At, Ready
<1> QED BY <1>1, <1>2, <1>3, <1>5, <1>6, <1>7, <1>8 DEF ScreensInv, Grown

(* One that a button waits for stops it; after a success the screen has     *)
(* been told of the change and shows nothing until it has loaded again.     *)
Shielded(c) ==
    \/ UNCHANGED <<shown, side, acked, late>>
    \/ /\ c.state = "ok" /\ Told(c)
       /\ shown' = NotLoaded /\ ~At("editProduct")
       /\ IF HasSide(route.screen) THEN side' = NotLoaded ELSE ~At("newOrder") /\ side' = side

LEMMA RaisedFacts ==
    ASSUME NEW known \in [Ids -> Nat], NEW c, c.target \in Ids, c.at \in Nat,
           c.at <= rec[c.target].version, \A id \in Ids : known[id] <= rec[id].version
    PROVE  /\ Raised(known, c) \in [Ids -> Nat]
           /\ \A id \in Ids : Raised(known, c)[id] <= rec[id].version
<1>1. Raised(known, c) = [known EXCEPT ![c.target] = IF c.at > known[c.target] THEN c.at
                                                     ELSE known[c.target]]
  BY DEF Raised
<1> QED BY <1>1

LEMMA ToldKeeps ==
    ASSUME ScreensInv, NEW c \in calls, c.from = mount, c.verb # "lookup",
           UNCHANGED <<menu, rights, rec, route, mount>>, Shielded(c)
    PROVE  FrameInv' /\ LoadedInv'
<1>1. Grown
  BY UnchangedGrows DEF ScreensInv
<1>2. CASE UNCHANGED <<shown, side, acked, late>>
  BY <1>1, <1>2, ReloadedKeeps DEF Reloaded
<1>3. CASE /\ c.state = "ok" /\ Told(c)
           /\ shown' = NotLoaded /\ ~At("editProduct")
           /\ IF HasSide(route.screen) THEN side' = NotLoaded ELSE ~At("newOrder") /\ side' = side
  <2>1. FrameInv'
    <3>1. shown'.state = "loading" /\ late' = FALSE
      BY <1>3 DEF NotLoaded, Told
    <3>2. \/ side' = side
          \/ side'.state = "loading" /\ HasSide(route.screen)
      BY <1>3 DEF NotLoaded
    <3> QED BY <3>1, <3>2 DEF ScreensInv, FrameInv, At
  <2>2. DOMAIN shown'.copy = {} /\ DOMAIN side'.copy = {}
    <3>1. CASE HasSide(route.screen)
      BY <1>3, <3>1, NothingLoaded
    <3>2. CASE ~HasSide(route.screen)
      <4>1. side' = side /\ side.copy = << >>
        BY <1>3, <3>2 DEF ScreensInv, FrameInv
      <4> QED BY <1>3, <4>1, NothingLoaded
    <3> QED BY <3>1, <3>2
  <2>3. CopySound(shown.copy)' /\ CopySound(side.copy)'
    BY <2>2 DEF CopySound
  <2>4. CallSound(c) /\ CallShaped(c)
    BY DEF ScreensInv, CallsInv, CallSound
  <2>5. c.target \in Ids /\ c.at \in Nat /\ c.at <= rec[c.target].version
    BY <1>3, <2>4 DEF CallSound, CallShaped, TargetOf, Ids
  <2>6. acked \in [Ids -> Nat] /\ \A id \in Ids : acked[id] <= rec[id].version
    BY DEF ScreensInv, LoadedInv
  <2>7. acked' \in [Ids -> Nat] /\ \A id \in Ids : acked'[id] <= rec[id].version
    BY <1>3, <2>5, <2>6, RaisedFacts DEF Told
  <2> QED BY <1>3, <2>1, <2>3, <2>7 DEF LoadedInv, Ready, NotLoaded
<1> QED BY <1>2, <1>3 DEF Shielded

LEMMA AnsweredStep ==
    ASSUME ScreensInv, NEW c \in calls, calls' = calls \ {c},
           UNCHANGED <<menu, rights, rec, route, mount, once>>,
           c.from = mount, c.verb # "lookup", c.verb \in Creates => c.state # "ok",
           Shielded(c),
           UiSound(ui'), ~Spinning(ui', c.verb),
           \A w \in VerbsOf(route.screen) \ Group(c.verb) : Spinning(ui', w) <=> Spinning(ui, w)
    PROVE  ScreensInv'
<1>1. Grown
  BY UnchangedGrows DEF ScreensInv
<1>2. FrameInv' /\ LoadedInv'
  BY ToldKeeps
<1>3. UiSound(ui)'
  BY <1>1, UiStays DEF ScreensInv
<1>4. c.verb \in VerbsOf(route.screen)
  BY DEF ScreensInv, CallsInv, CallSound
<1>5. ASSUME NEW w \in VerbsOf(route.screen)
      PROVE  IF Spinning(ui', w) THEN \E e \in calls' : Of(w)' = {e} ELSE Of(w)' = {}
  <2>1. /\ w \in AllVerbs /\ c.verb \in AllVerbs
        /\ IF Spinning(ui, w) THEN \E e \in calls : Of(w) = {e} ELSE Of(w) = {}
    BY <1>4, VerbFacts DEF ScreensInv, ButtonsInv
  <2>2. CASE w \in Group(c.verb)
    <3>1. c.verb \in Group(w) /\ ~Spinning(ui', w)
      BY <2>1, <2>2, VerbFacts
    <3>2. c \in Of(w) /\ Of(w)' = Of(w) \ {c}
      BY <3>1 DEF Of
    <3> QED BY <2>1, <3>1, <3>2
  <2>3. CASE w \notin Group(c.verb)
    <3>1. c.verb \notin Group(w) /\ (Spinning(ui', w) <=> Spinning(ui, w))
      BY <2>1, <2>3, VerbFacts
    <3>2. Of(w)' = Of(w) /\ Of(w)' \subseteq calls'
      BY <3>1 DEF Of
    <3> QED BY <2>1, <3>1, <3>2
  <2> QED BY <2>2, <2>3
<1>6. ButtonsInv'
  BY <1>5 DEF ButtonsInv
<1>7. CallsInv'
  BY <1>1, CallStays DEF ScreensInv, FrameInv, CallsInv
<1>8. OnceInv'
  <2>1. Made => Made'
    BY OneCreation DEF Made
  <2> QED BY <2>1 DEF ScreensInv, OnceInv
<1>9. FormInv'
  <2>1. CASE c.verb = "updateProduct"
    BY <2>1 DEF FormInv
  <2>2. CASE c.verb # "updateProduct"
    <3>1. /\ "updateProduct" \notin Group(c.verb)
          /\ At("editProduct") => "updateProduct" \in VerbsOf(route.screen)
      BY <2>2 DEF Group, OrderVerbs, ProductVerbs, At, VerbsOf
    <3>2. At("editProduct") => (Spinning(ui', "updateProduct") <=> Spinning(ui, "updateProduct"))
      BY <3>1
    <3> QED BY <3>2 DEF ScreensInv, FormInv, Shielded, At, Ready
  <2> QED BY <2>1, <2>2
<1> QED BY <1>1, <1>2, <1>3, <1>6, <1>7, <1>8, <1>9 DEF ScreensInv, Grown
-----------------------------------------------------------------------------
(* Another screen is shown, or the same one for another record.             *)
FreshSound == /\ UiSound(Fresh(route.screen))
              /\ \A verb \in VerbsOf(route.screen) : ~Spinning(Fresh(route.screen), verb)
LEMMA FreshScreens == route \in Routes => FreshSound
<1> SUFFICES ASSUME route \in Routes PROVE FreshSound
  OBVIOUS
<1> DEFINE s == route.screen
<1>1. s \in {"order", "product", "editProduct", "staff", "customers", "staffList", "roles",
             "newOrder", "newProduct", "elsewhere"}
  BY DEF Routes, Lists
<1>2. Nothing \in [kind : {None}, seen : Refs] /\ NoQuestion \in [open : {FALSE}, seen : Refs]
  BY DEF Nothing, NoQuestion, NotSeen, Refs
<1> HIDE DEF s
<1>3. CASE s = "order"
  <2>1. OrderUi(OrderScreen)
    <3>1. OrderScreen \in [asking : [kind : {None, "cancel", "refund"}, seen : Refs],
                           busy : BOOLEAN, failure : BOOLEAN]
      BY <1>2 DEF OrderScreen
    <3> QED BY <3>1 DEF OrderScreen, OrderUi, Nothing, None, Refs
  <2> QED BY <1>3, <2>1 DEF s, FreshSound, UiSound, Fresh, At, VerbsOf, Spinning,
            OrderScreen, OrderVerbs, ProductVerbs
<1>4. CASE s = "newOrder"
  <2>1. NewOrderUi(NewOrder)
    BY DEF NewOrder, NewOrderUi, LinesSound
  <2> QED BY <1>4, <2>1 DEF s, FreshSound, UiSound, Fresh, At, VerbsOf, Spinning,
            NewOrder, OrderVerbs, ProductVerbs
<1>5. CASE s = "product"
  <2>1. ProductUi(ProductScreen)
    BY <1>2 DEF ProductScreen, ProductUi, NoQuestion
  <2> QED BY <1>5, <2>1 DEF s, FreshSound, UiSound, Fresh, At, VerbsOf, Spinning,
            ProductScreen, OrderVerbs, ProductVerbs
<1>6. CASE s = "customers"
  <2>1. CustomersUi(CustomersScreen)
    BY DEF CustomersScreen, CustomersUi
  <2> QED BY <1>6, <2>1 DEF s, FreshSound, UiSound, Fresh, At, VerbsOf, Spinning,
            CustomersScreen, OrderVerbs, ProductVerbs
<1>7. CASE s \in {"newProduct", "editProduct"}
  <2>1. FormUi(EmptyForm)
    BY DEF EmptyForm, FormUi
  <2> QED BY <1>7, <2>1 DEF s, FreshSound, UiSound, Fresh, At, VerbsOf, Spinning,
            EmptyForm, OrderVerbs, ProductVerbs
<1>8. CASE s = "staffList"
  <2>1. StaffUi(StaffScreen)
    BY DEF StaffScreen, StaffUi
  <2> QED BY <1>8, <2>1 DEF s, FreshSound, UiSound, Fresh, At, VerbsOf, Spinning,
            StaffScreen, OrderVerbs, ProductVerbs
<1>9. CASE s = "staff"
  <2>1. MemberUi(MemberScreen)
    BY DEF MemberScreen, MemberUi
  <2> QED BY <1>9, <2>1 DEF s, FreshSound, UiSound, Fresh, At, VerbsOf, Spinning,
            MemberScreen, OrderVerbs, ProductVerbs
<1>10. CASE s = "roles"
  <2>1. RolesUi(RolesScreen)
    BY DEF RolesScreen, RolesUi
  <2> QED BY <1>10, <2>1 DEF s, FreshSound, UiSound, Fresh, At, VerbsOf, Spinning,
            RolesScreen, OrderVerbs, ProductVerbs
<1>11. CASE s = "elsewhere"
  BY <1>11 DEF s, FreshSound, UiSound, Fresh, At, VerbsOf
<1> QED BY <1>1, <1>3, <1>4, <1>5, <1>6, <1>7, <1>8, <1>9, <1>10, <1>11

LEMMA FreshIsSound ==
    ASSUME route' \in Routes
    PROVE  UiSound(Fresh(route.screen))' /\ \A verb \in VerbsOf(route'.screen) :
                                                ~Spinning(Fresh(route'.screen), verb)
<1>1. (route \in Routes => FreshSound)'
  BY FreshScreens, PTL
<1> QED BY <1>1 DEF FreshSound

LEMMA ShowStep ==
    ASSUME ScreensInv, NEW r \in Routes, Show(r, Fresh(r.screen)),
           UNCHANGED <<menu, rights, rec>>, calls' \subseteq calls,
           acked' \in [Ids -> Nat], \A id \in Ids : acked'[id] <= rec[id].version,
           late' \in BOOLEAN, r = route => late' = TRUE,
           SameComponent(r) => \A c \in calls \ calls' : c.from # mount
    PROVE  ScreensInv'
<1>1. /\ route' = r
      /\ r = route => UNCHANGED <<shown, side>>
      /\ r # route => /\ shown' = NotLoaded
                      /\ side' = IF HasSide(r.screen) THEN NotLoaded ELSE NotAsked
  BY DEF Show
<1>2. Grown
  BY UnchangedGrows DEF ScreensInv
<1>3. mount \in Nat
  BY DEF ScreensInv, FrameInv
<1>4. CopySound(shown.copy)' /\ CopySound(side.copy)'
  <2>1. CASE r = route
    <3>1. UNCHANGED <<shown, side, rec>> /\ late' = TRUE
      BY <1>1, <2>1
    <3>2. CopySound(shown.copy) /\ CopySound(side.copy)
      BY DEF ScreensInv, LoadedInv
    <3> QED BY <3>1, <3>2 DEF CopySound
  <2>2. CASE r # route
    BY <1>1, <2>2, NothingLoaded DEF CopySound
  <2> QED BY <2>1, <2>2
<1>5. (Ready /\ route.screen \in Details \cup {"editProduct"} => route.id \in DOMAIN shown.copy)'
  BY <1>1 DEF Ready, NotLoaded, ScreensInv, LoadedInv
<1>6. /\ shown'.state \in {"loading", "ready", "error"}
      /\ side'.state \in {"idle", "loading", "ready", "error"}
      /\ side'.state # "idle" => HasSide(route'.screen) \/ route'.screen = "newOrder"
      /\ side'.state = "idle" => side'.copy = << >>
  BY <1>1 DEF NotLoaded, NotAsked, ScreensInv, FrameInv, At
<1>7. CASE SameComponent(r)
  <2>1. /\ UNCHANGED <<mount, ui, once>> /\ r.screen = route.screen
        /\ r.screen \in Details
    BY <1>7 DEF Show, SameComponent
  <2>2. FrameInv' /\ LoadedInv'
    <3>1. FrameInv'
      BY <1>1, <1>6, <2>1 DEF ScreensInv, FrameInv, At
    <3>2. LoadedInv'
      BY <1>4, <1>5 DEF LoadedInv
    <3> QED BY <3>1, <3>2
  <2>3. \A s : At(s)' <=> At(s)
    BY <1>1, <2>1 DEF At
  <2>4. UiSound(ui)'
    <3>1. OrderUi(ui) => OrderUi(ui)'
      BY <1>2, <2>1, ReadStays DEF OrderUi, ScreensInv
    <3>2. ProductUi(ui) => ProductUi(ui)'
      BY <1>2, <2>1, ReadStays DEF ProductUi, ScreensInv
    <3>3. UiSound(ui)
      BY DEF ScreensInv
    <3> QED BY <1>1, <2>1, <2>3, <3>1, <3>2, <3>3
            DEF UiSound, NewOrderUi, CustomersUi, FormUi, StaffUi, MemberUi, RolesUi
  <2>5. \A verb : Of(verb)' = Of(verb)
    BY <1>7, <2>1 DEF Of
  <2>6. ButtonsInv'
    <3> SUFFICES ASSUME NEW w \in VerbsOf(route.screen)
                 PROVE  IF Spinning(ui, w) THEN \E e \in calls' : Of(w)' = {e} ELSE Of(w)' = {}
      BY <1>1, <2>1 DEF ButtonsInv
    <3>1. IF Spinning(ui, w) THEN \E e \in calls : Of(w) = {e} ELSE Of(w) = {}
      BY DEF ScreensInv, ButtonsInv
    <3>2. Of(w)' = Of(w) /\ Of(w)' \subseteq calls'
      BY <2>5 DEF Of
    <3> QED BY <3>1, <3>2
  <2>7. \A c \in calls : CallSound(c)'
    <3> SUFFICES ASSUME NEW c \in calls PROVE CallSound(c)'
      OBVIOUS
    <3>1. CallSound(c) /\ CallShaped(c)
      BY DEF ScreensInv, CallsInv, CallSound
    <3> QED BY <1>1, <2>1, <3>1, MayStays
            DEF CallSound, CallShaped, OrderSound, LinesSound, Accepts, Read, At
  <2>8. OnceInv'
    <3>1. Made => Made'
      BY <1>7, <2>1 DEF Made
    <3> QED BY <2>1, <3>1 DEF ScreensInv, OnceInv
  <2>9. FormInv'
    BY <1>1, <2>1, <2>3 DEF FormInv, At, Details
  <2> QED BY <1>2, <2>2, <2>4, <2>6, <2>7, <2>8, <2>9 DEF ScreensInv, Grown, CallsInv
<1>8. CASE ~SameComponent(r)
  <2>1. /\ mount' = mount + 1 /\ ui' = Fresh(r.screen)
        /\ once' = [made |-> 0, lost |-> 0]
    BY <1>8 DEF Show
  <2>2. FrameInv'
    BY <1>1, <1>3, <1>6, <2>1 DEF ScreensInv, FrameInv, At
  <2>4. LoadedInv'
    BY <1>4, <1>5 DEF LoadedInv
  <2>5. UiSound(ui)'
    BY <1>1, <2>1, FreshIsSound
  <2>6. \A c \in calls : CallShaped(c) /\ c.from \in 0..mount /\ c.from # mount'
    BY <1>3, <2>1 DEF ScreensInv, CallsInv, CallSound, CallShaped
  <2>7. \A verb : Of(verb)' = {}
    BY <2>6 DEF Of
  <2>8. ButtonsInv'
    <3>1. \A verb \in VerbsOf(route'.screen) : ~Spinning(ui', verb)
      BY <1>1, <2>1, FreshIsSound
    <3> QED BY <2>7, <3>1 DEF ButtonsInv
  <2>9. CallsInv'
    <3> SUFFICES ASSUME NEW c \in calls PROVE CallSound(c)'
      BY DEF CallsInv
    <3>1. CallSound(c) /\ CallShaped(c)
      BY DEF ScreensInv, CallsInv, CallSound
    <3>2. CallShaped(c)'
      <4>1. 0..mount \subseteq 0..mount'
        BY <1>3, <2>1
      <4> QED BY <3>1, <4>1 DEF CallShaped
    <3> QED BY <2>6, <3>1, <3>2, MayStays DEF CallSound, OrderSound, LinesSound, Accepts, Read
  <2>10. OnceInv'
    BY <2>1 DEF OnceInv
  <2>11. FormInv'
    <3>1. \A verb \in VerbsOf(route'.screen) : ~Spinning(ui', verb)
      BY <1>1, <2>1, FreshIsSound
    <3> QED BY <3>1 DEF FormInv, At, VerbsOf
  <2> QED BY <1>2, <2>2, <2>4, <2>5, <2>8, <2>9, <2>10, <2>11 DEF ScreensInv, Grown
<1> QED BY <1>7, <1>8
-----------------------------------------------------------------------------
(* Resources arrive, routes change, colleagues make changes. *)
LEMMA CopiesFacts ==
    ASSUME ScreensInv, NEW ids \in SUBSET Ids
    PROVE  /\ CopySound(Copies(ids))
           /\ DOMAIN Copies(ids) \subseteq ids
           /\ Copies(ids) # << >> => DOMAIN Copies(ids) # {}
<1> DEFINE S == {i \in ids : rec[i].status \notin {None, "deleted"}}
<1>1. Copies(ids) = [id \in S |-> rec[id]]
  BY DEF Copies
<1>2. \A id \in S : /\ id \in Ids /\ rec[id].status \notin {None, "deleted"}
                    /\ acked[id] \in Nat /\ rec[id].version \in Nat /\ acked[id] <= rec[id].version
  BY DEF ScreensInv, LoadedInv, RecordsInv, RecordShaped
<1>7. \A id \in S : /\ id \in Orders => rec[id].status \in L!Status
                    /\ id \in Products => rec[id].status \in ProductStatuses
  BY DEF ScreensInv, RecordsInv
<1>3. DOMAIN Copies(ids) = S /\ \A id \in S : Copies(ids)[id] = rec[id]
  BY <1>1
<1>4. S = {} => Copies(ids) = << >>
  BY <1>1
<1> HIDE DEF S
<1>5. CopySound(Copies(ids))
  BY <1>2, <1>3, <1>7 DEF CopySound
<1>6. S \subseteq ids
  BY DEF S
<1> QED BY <1>3, <1>4, <1>5, <1>6

LEMMA AnsweredFacts ==
    ASSUME ScreensInv, NEW ids \in SUBSET Ids, NEW isList \in BOOLEAN, NEW failed \in BOOLEAN
    PROVE  LET a == Answered(Copies(ids), isList, failed) IN
           /\ a.state \in {"ready", "error"} /\ CopySound(a.copy)
           /\ a.state = "ready" /\ ~isList => \E id \in ids : id \in DOMAIN a.copy
<1>1. /\ CopySound(Copies(ids)) /\ DOMAIN Copies(ids) \subseteq ids
      /\ Copies(ids) # << >> => DOMAIN Copies(ids) # {}
  BY CopiesFacts
<1>2. CopySound(<< >>)
  BY DEF CopySound
<1> QED BY <1>1, <1>2 DEF Answered

LEMMA LoadStep ==
    ASSUME ScreensInv, Load
    PROVE  ScreensInv'
<1> DEFINE filled == IF At("editProduct") THEN FilledFrom(shown'.copy[route.id]) ELSE ui
           isList == At("customers") \/ At("staffList") \/ At("roles")
<1>1. /\ HasShown(route.screen) /\ shown.state = "loading"
      /\ \E failed \in BOOLEAN : shown' = Answered(Copies(ShownIds), isList, failed)
      /\ ui' = IF shown'.state = "ready" THEN filled ELSE ui
      /\ UNCHANGED <<menu, rights, rec, route, mount, side, acked, late, once, calls>>
  BY DEF Load, LoadShown
<1>2. Grown
  BY <1>1, UnchangedGrows DEF ScreensInv
<1>3. ShownIds \in SUBSET Ids /\ (~isList => ShownIds = {route.id})
  BY <1>1, RouteFacts DEF ScreensInv, FrameInv, ShownIds, Ids, HasShown, Details, Lists, At
<1>4. /\ shown'.state \in {"ready", "error"} /\ CopySound(shown'.copy)
      /\ shown'.state = "ready" /\ ~isList => route.id \in DOMAIN shown'.copy
  <2>1. PICK failed \in BOOLEAN : shown' = Answered(Copies(ShownIds), isList, failed)
    BY <1>1
  <2>2. isList \in BOOLEAN
    OBVIOUS
  <2> HIDE DEF isList
  <2> QED BY <1>3, <2>1, <2>2, AnsweredFacts
<1>5. FrameInv'
  BY <1>1, <1>4 DEF ScreensInv, FrameInv, At
<1>6. LoadedInv'
  <2>1. CopySound(shown.copy)' /\ CopySound(side.copy)'
    BY <1>1, <1>2, <1>4, CopyStays DEF ScreensInv, LoadedInv, CopySound
  <2>2. (Ready /\ route.screen \in Details \cup {"editProduct"} => route.id \in DOMAIN shown.copy)'
    BY <1>1, <1>4 DEF Ready, Details, At
  <2> QED BY <1>1, <2>1, <2>2 DEF ScreensInv, LoadedInv
<1>7. CASE At("editProduct") /\ shown'.state = "ready"
  <2> DEFINE p == shown'.copy[route.id]
             u == FilledFrom(p)
  <2>1. ui' = u
    BY <1>1, <1>7
  <2>2. FormUi(u) /\ u.saving = FALSE
    BY DEF FilledFrom, EmptyForm, FormUi
  <2>3. ~Spinning(ui, "updateProduct")
    BY <1>1, <1>7 DEF ScreensInv, FormInv, Ready
  <2> HIDE DEF u
  <2>4. FormUi(ui')
    BY <2>1, <2>2
  <2>5. UiSound(ui)'
    BY <1>1, <1>7, <2>4 DEF UiSound, At, FormUi
  <2>6. ~Spinning(ui', "updateProduct")
    BY <2>1, <2>2 DEF Spinning, OrderVerbs, ProductVerbs
  <2>7. ButtonsInv'
    <3>1. VerbsOf(route.screen) = {"updateProduct"}
      BY <1>7 DEF VerbsOf, At
    <3>2. \A verb : Of(verb)' = Of(verb)
      BY <1>1 DEF Of
    <3> QED BY <1>1, <2>3, <2>6, <3>1, <3>2 DEF ScreensInv, ButtonsInv
  <2>8. FormInv'
    BY <2>6 DEF FormInv
  <2> QED BY <1>1, <1>2, <1>5, <1>6, <2>5, <2>7, <2>8, CallsStay DEF ScreensInv, Grown
<1>8. CASE ~(At("editProduct") /\ shown'.state = "ready")
  <2>1. ui' = ui
    BY <1>1, <1>8
  <2>2. UiSound(ui)' /\ ButtonsInv'
    BY <1>1, <1>2, <2>1, UiStays, SpinnersKeep DEF ScreensInv
  <2>3. FormInv'
    BY <1>1, <2>1 DEF ScreensInv, FormInv, Ready, At
  <2> QED BY <1>1, <1>2, <1>5, <1>6, <2>2, <2>3, CallsStay DEF ScreensInv, Grown
<1> QED BY <1>7, <1>8

LEMMA LoadSideStep ==
    ASSUME ScreensInv, LoadSide
    PROVE  ScreensInv'
<1>1. /\ side.state = "loading"
      /\ \E failed \in BOOLEAN : side' = Answered(Copies(SideIds), At("newOrder"), failed)
      /\ UNCHANGED <<menu, rights, rec, route, mount, ui, shown, acked, late, once, calls>>
  BY DEF LoadSide
<1>2. Grown
  BY <1>1, UnchangedGrows DEF ScreensInv
<1>3. HasSide(route.screen) \/ At("newOrder")
  BY <1>1 DEF ScreensInv, FrameInv
<1>4. SideIds \in SUBSET Ids
  BY <1>3, RouteFacts DEF ScreensInv, FrameInv, SideIds, Ids, HasSide, At
<1>5. side'.state \in {"ready", "error"} /\ CopySound(side'.copy)
  BY <1>1, <1>4, AnsweredFacts DEF At
<1>6. FrameInv'
  BY <1>1, <1>3, <1>5 DEF ScreensInv, FrameInv, At
<1>7. LoadedInv'
  <2>1. CopySound(shown.copy)' /\ CopySound(side.copy)'
    BY <1>1, <1>2, <1>5, CopyStays DEF ScreensInv, LoadedInv, CopySound
  <2> QED BY <1>1, <2>1 DEF ScreensInv, LoadedInv, Ready
<1>8. UiSound(ui)' /\ ButtonsInv' /\ FormInv'
  BY <1>1, <1>2, UiStays, SpinnersKeep DEF ScreensInv, FormInv, At, Ready
<1> QED BY <1>1, <1>2, <1>6, <1>7, <1>8, CallsStay DEF ScreensInv, Grown

LEMMA TryAgainStep ==
    ASSUME ScreensInv, TryAgain
    PROVE  ScreensInv'
<1>1. /\ \/ shown.state = "error" /\ shown' = NotLoaded /\ UNCHANGED side
         \/ side.state = "error" /\ side' = NotLoaded /\ UNCHANGED shown
      /\ UNCHANGED <<menu, rights, rec, route, mount, ui, acked, late, once, calls>>
  BY DEF TryAgain
<1>2. Reloaded
  BY <1>1 DEF Reloaded, ScreensInv, FrameInv, Ready
<1>3. UiSound(ui') /\ \A verb \in VerbsOf(route.screen) : Spinning(ui', verb) <=> Spinning(ui, verb)
  BY <1>1 DEF ScreensInv
<1> QED BY <1>1, <1>2, <1>3, EditStep

LEMMA KnownFacts ==
    ASSUME ScreensInv, NEW r
    PROVE  KnownAt(r) \in [Ids -> Nat] /\ \A id \in Ids : KnownAt(r)[id] <= rec[id].version
<1>1. /\ acked \in [Ids -> Nat]
      /\ \A id \in Ids : rec[id].version \in Nat /\ acked[id] <= rec[id].version
  BY DEF ScreensInv, RecordsInv, RecordShaped, LoadedInv
<1> QED BY <1>1 DEF KnownAt

LEMMA VisitStep ==
    ASSUME ScreensInv, NEW r \in menu, Visit(r, Fresh(r.screen))
    PROVE  ScreensInv'
<1>1. r \in Routes
  BY ScreenAssumption DEF ScreensInv, FrameInv
<1>2. KnownAt(r) \in [Ids -> Nat] /\ \A id \in Ids : KnownAt(r)[id] <= rec[id].version
  BY KnownFacts
<1> QED BY <1>1, <1>2, ShowStep DEF Visit

LEMMA OthersStep ==
    ASSUME ScreensInv, NEW id \in Ids, OthersChange(id)
    PROVE  ScreensInv'
<1>1. PICK to \in Moves(id) :
          rec' = [rec EXCEPT ![id] = Moved(rec[id], to)]
  BY DEF OthersChange
<1>2. UNCHANGED <<menu, rights, route, mount, ui, shown, side, acked, late, once, calls>>
  BY DEF OthersChange, screenVars
<1> DEFINE r == Moved(rec[id], to)
<1>3. RecordShaped(rec[id]) /\ rec[id].version \in Nat
  BY DEF ScreensInv, RecordsInv, RecordShaped
<1>4. RecordShaped(r) /\ r.version > rec[id].version /\ r.status = to
  BY <1>3, NextVersion
<1>5. /\ id \in Orders => to \in L!Status \cup {None}
      /\ id \in Products => to \in ProductStatuses \cup {None}
  <2>1. CASE id \in Orders
    <3>1. id \notin Products /\ id \notin Members /\ id \notin Roles
      BY <2>1, ScreenAssumption
    <3>2. rec[id].status \in L!Status \cup {None}
      BY <2>1 DEF ScreensInv, RecordsInv
    <3>3. rec[id].status # None /\ to \in L!transitions[rec[id].status]
      BY <2>1, <3>1 DEF Moves
    <3> QED BY <3>1, <3>2, <3>3 DEF L!Status, L!transitions
  <2>2. CASE id \in Products
    <3>1. id \notin Orders /\ id \notin Members /\ id \notin Roles
      BY <2>2, ScreenAssumption
    <3> QED BY <2>2, <3>1 DEF Moves, ProductStatuses
  <2> QED BY <2>1, <2>2
<1>6. rec' = [rec EXCEPT ![id] = r]
  BY <1>1
<1> HIDE DEF r
<1>7. Grown
  <2>1. rec = [i \in Ids |-> rec[i]]
    BY DEF ScreensInv, RecordsInv
  <2>2. rec' = [i \in Ids |-> IF i = id THEN r ELSE rec[i]]
    BY <1>6, <2>1
  <2>3. \A i \in Ids : rec'[i] = IF i = id THEN r ELSE rec[i]
    BY <2>2
  <2>4. \A i \in Ids : RecordShaped(rec'[i])
    BY <1>4, <2>3 DEF ScreensInv, RecordsInv
  <2>5. /\ \A o \in Orders : rec'[o].status \in L!Status \cup {None}
        /\ \A p \in Products : rec'[p].status \in ProductStatuses \cup {None}
    BY <1>4, <1>5, <2>3 DEF ScreensInv, RecordsInv, Ids
  <2>6. rec' \in [Ids -> {rec'[i] : i \in Ids}]
    BY <2>2
  <2>7. RecordsInv'
    BY <2>4, <2>5, <2>6 DEF RecordsInv, RecordShaped
  <2> QED BY <1>4, <2>3, <2>7 DEF Grown
<1>8. FrameInv' /\ LoadedInv'
  BY <1>2, <1>7, ReloadedKeeps DEF Reloaded
<1>9. UiSound(ui)' /\ ButtonsInv' /\ FormInv'
  BY <1>2, <1>7, UiStays, SpinnersKeep DEF ScreensInv, FormInv, At, Ready
<1> QED BY <1>2, <1>7, <1>8, <1>9, CallsStay DEF ScreensInv, Grown
-----------------------------------------------------------------------------
(* What holds on each screen. *)
LEMMA OnScreen ==
    /\ At("order") => /\ VerbsOf(route.screen) = OrderVerbs
                      /\ \A u : UiSound(u) <=> OrderUi(u)
    /\ At("newOrder") => /\ VerbsOf(route.screen) = {"place"}
                         /\ \A u : UiSound(u) <=> NewOrderUi(u)
    /\ At("customers") => /\ VerbsOf(route.screen) = {"addCustomer"}
                          /\ \A u : UiSound(u) <=> CustomersUi(u)
    /\ At("product") => /\ VerbsOf(route.screen) = ProductVerbs
                        /\ \A u : UiSound(u) <=> ProductUi(u)
    /\ At("newProduct") => /\ VerbsOf(route.screen) = {"createProduct"}
                           /\ \A u : UiSound(u) <=> FormUi(u)
    /\ At("editProduct") => /\ VerbsOf(route.screen) = {"updateProduct"}
                            /\ \A u : UiSound(u) <=> FormUi(u)
    /\ At("staffList") => /\ VerbsOf(route.screen) = {"createStaff"}
                          /\ \A u : UiSound(u) <=> StaffUi(u)
    /\ At("staff") => /\ VerbsOf(route.screen) = {"updateStaff", "deactivate"}
                      /\ \A u : UiSound(u) <=> MemberUi(u)
    /\ At("roles") => /\ VerbsOf(route.screen) = {"createRole", "updateRole", "deleteRole"}
                      /\ \A u : UiSound(u) <=> RolesUi(u)
BY DEF At, VerbsOf, UiSound

(* An edit that leaves the buttons alone. *)
LEMMA EditKeeps ==
    ASSUME ScreensInv, NEW u, Edit(u), UiSound(u),
           \A verb \in VerbsOf(route.screen) : Spinning(u, verb) <=> Spinning(ui, verb)
    PROVE  ScreensInv'
<1>1. /\ ui' = u
      /\ UNCHANGED <<menu, rights, rec, route, mount, shown, side, acked, late, once, calls>>
  BY DEF Edit
<1> QED BY <1>1, EditStep DEF Reloaded

(* What is on a record's own screen was true of the version it has.         *)
LEMMA CurrentFacts ==
    ASSUME ScreensInv, Ready, At("order") \/ At("product")
    PROVE  /\ route.id \in Ids
           /\ At("order") => route.id \in Orders /\ Current.status \in L!Status
           /\ At("product") => route.id \in Products /\ Current.status \in ProductStatuses
           /\ Seen \in [id : Ids, version : Nat] /\ Seen \in Refs /\ Seen.id = route.id
           /\ \A statuses : Current.status \in statuses => Read(Seen, statuses)
<1>1. /\ At("order") => route.id \in Orders
      /\ At("product") => route.id \in Products
      /\ route.id \in Ids
  BY RouteFacts DEF ScreensInv, FrameInv, Ids
<1>2. route.id \in DOMAIN shown.copy
  BY DEF ScreensInv, LoadedInv, At, Details
<1>3. /\ Current.version \in 0..rec[route.id].version
      /\ Current.version = rec[route.id].version => Current = rec[route.id]
      /\ route.id \in Orders => Current.status \in L!Status
      /\ route.id \in Products => Current.status \in ProductStatuses
  BY <1>2 DEF ScreensInv, LoadedInv, CopySound, Current
<1>4. rec[route.id].version \in Nat
  BY <1>1 DEF ScreensInv, RecordsInv, RecordShaped
<1>5. Current.version \in Nat /\ Current.version <= rec[route.id].version
  BY <1>3, <1>4
<1>6. Seen \in [id : Ids, version : Nat] /\ Seen.id = route.id /\ Seen.version = Current.version
  BY <1>1, <1>5 DEF Seen
<1>7. Seen \in Refs
  BY <1>6 DEF Refs
<1>8. \A statuses : Current.status \in statuses => Read(Seen, statuses)
  BY <1>3, <1>5, <1>6 DEF Read
<1> QED BY <1>1, <1>3, <1>6, <1>7, <1>8
-----------------------------------------------------------------------------
(* One order. *)
LEMMA AskStep ==
    ASSUME ScreensInv, NEW kind \in {"cancel", "refund"}, Ask(kind)
    PROVE  ScreensInv'
<1> DEFINE asking == [kind |-> kind, seen |-> Seen]
           u == [ui EXCEPT !.asking = asking]
<1>1. OrderReady /\ Edit(u)
  BY DEF Ask
<1>2. At("order") /\ Ready
  BY <1>1 DEF OrderReady
<1>3. OrderUi(ui)
  BY <1>2, OnScreen DEF ScreensInv
<1>4. /\ kind = "cancel" => Current.status \in Cancellable
      /\ kind = "refund" => Current.status \in Refundable
  BY DEF Ask, canCancel, canRefund, Cancellable, Refundable
<1>5. /\ asking \in [kind : {None, "cancel", "refund"}, seen : Refs]
      /\ asking.kind = kind /\ asking.seen = Seen /\ kind # None
  BY <1>2, CurrentFacts DEF None
<1>6. /\ kind = "cancel" => Read(Seen, Cancellable)
      /\ kind = "refund" => Read(Seen, Refundable)
  BY <1>2, <1>4, CurrentFacts
<1> HIDE DEF asking
<1>7. u.asking = asking /\ u.busy = ui.busy
  BY <1>3 DEF OrderUi
<1>8. u \in [asking : [kind : {None, "cancel", "refund"}, seen : Refs], busy : BOOLEAN,
             failure : BOOLEAN]
  BY <1>3, <1>5 DEF OrderUi
<1> HIDE DEF u
<1>9. OrderUi(u)
  BY <1>5, <1>6, <1>7, <1>8 DEF OrderUi
<1>10. \A verb \in OrderVerbs : Spinning(u, verb) <=> Spinning(ui, verb)
  BY <1>7 DEF Spinning, OrderVerbs, ProductVerbs
<1> QED BY <1>1, <1>2, <1>9, <1>10, OnScreen, EditKeeps

LEMMA NothingIsSound ==
    Nothing \in [kind : {None}, seen : Refs] /\ Nothing.kind = None
BY DEF Nothing, NotSeen, Refs

LEMMA BackStep ==
    ASSUME ScreensInv, Back
    PROVE  ScreensInv'
<1> DEFINE u == [ui EXCEPT !.asking = Nothing]
<1>1. At("order") /\ Edit(u)
  BY DEF Back, OrderReady
<1>2. OrderUi(ui)
  BY <1>1, OnScreen DEF ScreensInv
<1>3. u.asking = Nothing /\ u.busy = ui.busy
  BY <1>2 DEF OrderUi
<1>4. u \in [asking : [kind : {None, "cancel", "refund"}, seen : Refs], busy : BOOLEAN,
             failure : BOOLEAN]
  BY <1>2, NothingIsSound DEF OrderUi
<1> HIDE DEF u
<1>5. OrderUi(u)
  BY <1>3, <1>4, NothingIsSound DEF OrderUi, None
<1>6. \A verb \in OrderVerbs : Spinning(u, verb) <=> Spinning(ui, verb)
  BY <1>3 DEF Spinning, OrderVerbs, ProductVerbs
<1> QED BY <1>1, <1>5, <1>6, OnScreen, EditKeeps

LEMMA RunOrderStep ==
    ASSUME ScreensInv, At("order"), NEW verb \in OrderVerbs, NEW status \in L!Status, NEW seen,
           RunOrder(verb, status, seen),
           Read(seen, {s \in L!Status : status \in L!transitions[s]}),
           verb = "advance" => seen.id = route.id
    PROVE  ScreensInv'
<1> DEFINE u == [ui EXCEPT !.busy = TRUE, !.failure = FALSE, !.asking = Nothing]
           body == [status |-> status]
           new == NewCall(verb, route.id, body, seen)
<1>1. ~ui.busy /\ ui' = u /\ Submit(verb, route.id, body, seen)
  BY DEF RunOrder
<1>2. OrderUi(ui)
  BY OnScreen DEF ScreensInv
<1>3. u.asking = Nothing /\ u.busy = TRUE
  BY <1>2 DEF OrderUi
<1>4. u \in [asking : [kind : {None, "cancel", "refund"}, seen : Refs], busy : BOOLEAN,
             failure : BOOLEAN]
  BY <1>2, NothingIsSound DEF OrderUi
<1> HIDE DEF u
<1>5. OrderUi(u)
  BY <1>3, <1>4, NothingIsSound DEF OrderUi, None
<1>6. ~Spinning(ui, verb) /\ Spinning(u, verb) /\ Group(verb) = OrderVerbs
  BY <1>1, <1>3 DEF Spinning, OrderVerbs, ProductVerbs, Group
<1>7. seen \in Refs /\ route.id \in Orders /\ mount \in Nat
  BY RouteFacts DEF Read, Refs, ScreensInv, FrameInv
<1>8. /\ new.from = mount /\ new.verb = verb /\ new.target = route.id /\ new.body.status = status
      /\ new.seen = seen /\ new.state = "sent"
  BY DEF NewCall
<1>9. CallShaped(new)
  BY <1>7 DEF NewCall, CallShaped, AllVerbs
<1> HIDE DEF new
<1>10. Accepts(new) = {s \in L!Status : status \in L!transitions[s]}
  BY <1>8 DEF Accepts
<1>11. CallSound(new)
  BY <1>7, <1>8, <1>9, <1>10, OnScreen
     DEF CallSound, TargetOf, OrderVerbs, ProductVerbs, StatusVerbs
<1>12. verb # "updateProduct"
  BY DEF OrderVerbs
<1> QED BY <1>1, <1>5, <1>6, <1>11, <1>12, OnScreen, SubmitStep DEF new

LEMMA AdvanceStep ==
    ASSUME ScreensInv, Advance
    PROVE  ScreensInv'
<1> DEFINE status == nextStatus(Current.status)
<1>1. At("order") /\ Ready /\ status # None /\ RunOrder("advance", status, Seen)
  BY DEF Advance, OrderReady
<1>2. Current.status \in L!Status
  BY <1>1, CurrentFacts
<1>3. status \in L!Status /\ status \in L!transitions[Current.status]
  BY <1>1, <1>2 DEF nextStatus, forward, None, L!Status, L!transitions
<1>4. Read(Seen, {s \in L!Status : status \in L!transitions[s]})
  BY <1>1, <1>2, <1>3, CurrentFacts
<1> HIDE DEF status
<1> QED BY <1>1, <1>3, <1>4, CurrentFacts, RunOrderStep DEF OrderVerbs

LEMMA ReadMore ==
    ASSUME NEW seen, NEW S, NEW T, Read(seen, S), S \subseteq T
    PROVE  Read(seen, T)
BY DEF Read

LEMMA ConfirmStep ==
    ASSUME ScreensInv, Confirm
    PROVE  ScreensInv'
<1> DEFINE kind == ui.asking.kind
           status == IF kind = "refund" THEN "refunded" ELSE "cancelled"
<1>1. At("order") /\ ui.asking # Nothing /\ RunOrder(kind, status, ui.asking.seen)
  BY DEF Confirm, OrderReady
<1>2. OrderUi(ui)
  BY <1>1, OnScreen DEF ScreensInv
<1>3. /\ kind \in {"cancel", "refund"}
      /\ kind = "cancel" => Read(ui.asking.seen, Cancellable)
      /\ kind = "refund" => Read(ui.asking.seen, Refundable)
  BY <1>1, <1>2 DEF OrderUi
<1> HIDE DEF kind
<1>4. /\ Cancellable \subseteq {s \in L!Status : "cancelled" \in L!transitions[s]}
      /\ Refundable \subseteq {s \in L!Status : "refunded" \in L!transitions[s]}
  BY DEF Cancellable, Refundable, L!Status, L!transitions
<1>5. Read(ui.asking.seen, {s \in L!Status : status \in L!transitions[s]})
  BY <1>3, <1>4, ReadMore
<1>6. status \in L!Status /\ kind \in OrderVerbs
  BY <1>3 DEF L!Status, OrderVerbs
<1> QED BY <1>1, <1>3, <1>5, <1>6, RunOrderStep

LEMMA OrderServedStep ==
    ASSUME ScreensInv, NEW c \in calls, OrderServed(c)
    PROVE  ScreensInv'
<1> DEFINE accepted == L!CanTransition(rec[c.target].status, c.body.status)
<1>1. /\ c.verb \in OrderVerbs /\ c.state = "sent"
      /\ Served(c, accepted, c.target, c.body.status, rec[c.target])
  BY DEF OrderServed, Served
<1>2. CallSound(c)
  BY DEF ScreensInv, CallsInv
<1>3. /\ c.target \in Orders /\ TargetOf(c.verb) = Orders /\ c.body.status \in L!Status
      /\ Read(c.seen, Accepts(c)) /\ c.verb # "lookup"
  <2>1. c.verb \notin {"place", "createProduct", "createRole", "lookup"} /\ c.verb \in StatusVerbs
    BY <1>1 DEF OrderVerbs, StatusVerbs
  <2>2. TargetOf(c.verb) = Orders
    BY <1>1 DEF TargetOf, OrderVerbs, ProductVerbs
  <2> QED BY <1>1, <1>2, <2>1, <2>2 DEF CallSound
<1>4. accepted \in BOOLEAN
  BY DEF L!CanTransition
<1>5. c.target \notin Products /\ c.target \in Ids
  BY <1>3, ScreenAssumption DEF Ids
<1>6. RecordShaped(rec[c.target])
  BY <1>5 DEF ScreensInv, RecordsInv
<1>7. LET r == Moved(rec[c.target], c.body.status) IN
      RecordShaped(r) /\ r.version > rec[c.target].version
  BY <1>6, NextVersion
<1>8. ~accepted => c.seen.id # c.target \/ c.seen.version # rec[c.target].version
  <2> SUFFICES ASSUME c.seen.id = c.target, c.seen.version = rec[c.target].version
               PROVE  accepted
    OBVIOUS
  <2>1. rec[c.target].status \in Accepts(c)
    BY <1>3 DEF Read
  <2> QED BY <1>1, <2>1 DEF Accepts, L!CanTransition
<1> HIDE DEF accepted
<1> QED BY <1>1, <1>3, <1>4, <1>5, <1>7, <1>8, ServedStep

(* The component is gone, and its answer with it. *)
LEMMA GoneStep ==
    ASSUME ScreensInv, NEW c \in calls, Take(c), ~Mounted(c), NothingHappens
    PROVE  ScreensInv'
BY IgnoredStep DEF Take, Mounted, NothingHappens, screenVars, ScreensInv

LEMMA OrderAnsweredStep ==
    ASSUME ScreensInv, NEW c \in calls, OrderAnswered(c)
    PROVE  ScreensInv'
<1>1. c.verb \in OrderVerbs /\ Take(c)
  BY DEF OrderAnswered
<1>2. CASE ~Mounted(c)
  BY <1>1, <1>2, GoneStep DEF OrderAnswered
<1>3. CASE Mounted(c)
  <2> DEFINE u == [ui EXCEPT !.busy = FALSE, !.failure = c.state # "ok"]
  <2>1. /\ ui' = u
        /\ IF c.state = "ok" THEN Told(c) /\ shown' = NotLoaded /\ side' = NotLoaded
           ELSE UNCHANGED <<acked, late, shown, side>>
        /\ UNCHANGED <<menu, rights, rec, route, mount, once>> /\ calls' = calls \ {c}
    BY <1>1, <1>3 DEF OrderAnswered, Take
  <2>2. At("order")
    BY <1>1, <1>3 DEF ScreensInv, CallsInv, CallSound, Mounted, VerbsOf, OrderVerbs, ProductVerbs, At
  <2>3. OrderUi(ui)
    BY <2>2, OnScreen DEF ScreensInv
  <2>4. u.asking = ui.asking /\ u.busy = FALSE
        /\ u \in [asking : [kind : {None, "cancel", "refund"}, seen : Refs], busy : BOOLEAN,
                  failure : BOOLEAN]
    BY <2>3 DEF OrderUi
  <2> HIDE DEF u
  <2>5. OrderUi(u)
    BY <2>3, <2>4 DEF OrderUi
  <2>6. ~Spinning(u, c.verb) /\ Group(c.verb) = OrderVerbs
    BY <1>1, <2>4 DEF Spinning, OrderVerbs, ProductVerbs, Group
  <2>7. Shielded(c)
    BY <2>1, <2>2 DEF Shielded, HasSide, At
  <2>8. c.verb # "lookup" /\ c.verb \notin Creates
    BY <1>1 DEF OrderVerbs, Creates
  <2> QED BY <1>3, <2>1, <2>2, <2>5, <2>6, <2>7, <2>8, OnScreen, AnsweredStep DEF Mounted
<1> QED BY <1>2, <1>3
-----------------------------------------------------------------------------
(* What every request that is not a change of status has in common, and the *)
(* screen an answer belongs to.                                             *)
LEMMA PlainCall ==
    ASSUME ScreensInv, NEW verb \in AllVerbs, verb \notin StatusVerbs,
           verb \in VerbsOf(route.screen) \/ (verb = "lookup" /\ At("newOrder")),
           NEW target, target \in TargetOf(verb) \/ verb \in {"place", "createProduct", "createRole"},
           NEW body, verb = "place" => OrderSound(body.lines), NEW seen \in Refs
    PROVE  CallSound(NewCall(verb, target, body, seen))
<1> DEFINE new == NewCall(verb, target, body, seen)
<1>1. /\ new.from = mount /\ new.verb = verb /\ new.target = target /\ new.body = body
      /\ new.seen = seen /\ new.state = "sent"
  BY DEF NewCall
<1>2. CallShaped(new)
  BY DEF NewCall, CallShaped, ScreensInv, FrameInv
<1> HIDE DEF new
<1>3. verb \notin OrderVerbs /\ verb \notin {"activate", "archive"}
  BY DEF StatusVerbs
<1>4. /\ new.verb \in VerbsOf(route.screen) \cup {"lookup"}
      /\ new.verb = "lookup" => At("newOrder")
  <2>1. "lookup" \notin VerbsOf(route.screen)
    BY VerbFacts
  <2> QED BY <1>1, <2>1
<1>5. new.target \in TargetOf(new.verb) \/ new.verb \in {"place", "createProduct", "createRole"}
  BY <1>1
<1>6. new.verb \notin StatusVerbs /\ new.verb \notin OrderVerbs /\ new.state = "sent"
  BY <1>1, <1>3
<1>7. new.verb \notin {"activate", "archive", "advance"}
  BY <1>6 DEF StatusVerbs, OrderVerbs
<1>8. /\ new.verb = "place" => OrderSound(new.body.lines)
      /\ new.verb = "lookup" => At("newOrder")
  BY <1>1, <1>4
<1>9. CallSound(new)
  BY <1>2, <1>4, <1>5, <1>6, <1>7, <1>8 DEF CallSound
<1> QED BY <1>9 DEF new

LEMMA NotSeenIsRef == NotSeen \in Refs
BY DEF NotSeen, Refs

LEMMA SenderScreen ==
    ASSUME ScreensInv, NEW c \in calls, Mounted(c)
    PROVE  /\ c.verb \in OrderVerbs => At("order")
           /\ c.verb \in {"lookup", "place"} => At("newOrder")
           /\ c.verb = "addCustomer" => At("customers")
           /\ c.verb \in ProductVerbs => At("product")
           /\ c.verb = "createProduct" => At("newProduct")
           /\ c.verb = "updateProduct" => At("editProduct")
           /\ c.verb = "createStaff" => At("staffList")
           /\ c.verb \in {"updateStaff", "deactivate"} => At("staff")
           /\ c.verb \in {"createRole", "updateRole", "deleteRole"} => At("roles")
<1>1. c.verb \in VerbsOf(route.screen) \/ (c.verb = "lookup" /\ At("newOrder"))
  BY DEF ScreensInv, CallsInv, CallSound, Mounted
<1> QED BY <1>1 DEF VerbsOf, OrderVerbs, ProductVerbs, At

(* The record a request is for, when it has one. *)
LEMMA TargetFacts ==
    ASSUME ScreensInv, NEW c \in calls, c.verb \notin {"place", "createProduct", "createRole"}
    PROVE  /\ c.target \in TargetOf(c.verb) /\ c.target \in Ids
           /\ RecordShaped(rec[c.target])
<1>1. c.target \in TargetOf(c.verb)
  BY DEF ScreensInv, CallsInv, CallSound
<1>2. c.target \in Ids
  BY <1>1 DEF TargetOf, Ids
<1> QED BY <1>1, <1>2 DEF ScreensInv, RecordsInv

(* A record of which neither status nor images matter gets a new version. *)
LEMMA PlainServedStep ==
    ASSUME ScreensInv, NEW c \in calls, NEW accepted \in BOOLEAN, NEW target, NEW status,
           Served(c, accepted, target, status, rec[target]),
           target \in TargetOf(c.verb),
           c.verb \in {"addCustomer", "createStaff", "updateStaff", "deactivate", "createRole",
                       "updateRole", "deleteRole"}
    PROVE  ScreensInv'
<1>1. target \in Customers \cup Members \cup Roles
  BY DEF TargetOf, OrderVerbs, ProductVerbs
<1>2. target \notin Orders /\ target \notin Products /\ target \in Ids
  BY <1>1, ScreenAssumption DEF Ids
<1>3. RecordShaped(rec[target])
  BY <1>2 DEF ScreensInv, RecordsInv
<1>4. LET r == Moved(rec[target], status) IN
      RecordShaped(r) /\ r.version > rec[target].version
  BY <1>3, NextVersion
<1>5. c.verb # "lookup" /\ c.verb \notin StatusVerbs
  BY DEF StatusVerbs, OrderVerbs
<1> QED BY <1>2, <1>4, <1>5, ServedStep
-----------------------------------------------------------------------------
(* A new order. *)
LEMMA SearchCatalogStep ==
    ASSUME ScreensInv, SearchCatalog
    PROVE  ScreensInv'
<1>1. /\ At("newOrder") /\ side' = NotLoaded
      /\ UNCHANGED <<menu, rights, rec, route, mount, ui, shown, acked, late, once, calls>>
  BY DEF SearchCatalog
<1>2. UiSound(ui') /\ \A verb \in VerbsOf(route.screen) : Spinning(ui', verb) <=> Spinning(ui, verb)
  BY <1>1 DEF ScreensInv
<1> QED BY <1>1, <1>2, EditStep DEF Reloaded

(* The lines of the order change and nothing else. *)
LEMMA LinesStep ==
    ASSUME ScreensInv, At("newOrder"), NEW lines, LinesSound(lines),
           Edit([ui EXCEPT !.lines = lines])
    PROVE  ScreensInv'
<1> DEFINE u == [ui EXCEPT !.lines = lines]
<1>1. NewOrderUi(ui)
  BY OnScreen DEF ScreensInv
<1>2. u.placing = ui.placing /\ u.lines = lines
  BY <1>1 DEF NewOrderUi
<1>3. u \in [customer : Customers \cup {None}, lines : Seq(Line), placing : BOOLEAN,
             failure : BOOLEAN]
  BY <1>1 DEF NewOrderUi, LinesSound
<1>4. Edit(u)
  OBVIOUS
<1> HIDE DEF u
<1>5. NewOrderUi(u)
  BY <1>2, <1>3 DEF NewOrderUi
<1>6. \A verb \in {"place"} : Spinning(u, verb) <=> Spinning(ui, verb)
  BY <1>2 DEF Spinning, OrderVerbs, ProductVerbs
<1> QED BY <1>4, <1>5, <1>6, OnScreen, EditKeeps

LEMMA LinesTyped ==
    ASSUME LinesSound(ui.lines)
    PROVE  /\ Len(ui.lines) \in Nat /\ DOMAIN ui.lines = 1..Len(ui.lines)
           /\ \A i \in DOMAIN ui.lines : /\ ui.lines[i] \in Line
                                         /\ ui.lines[i].quantity \in Quantity
<1>1. ui.lines \in Seq(Line)
  BY DEF LinesSound
<1>2. \A i \in DOMAIN ui.lines : ui.lines[i] \in Line
  BY <1>1
<1> QED BY <1>1, <1>2 DEF Line

LEMMA WithQuantitySound ==
    ASSUME LinesSound(ui.lines), NEW p \in Products, NEW quantity,
           \A i \in LineOf(p) : quantity[i] \in Quantity
    PROVE  LinesSound(WithQuantity(p, quantity))
<1> DEFINE n == Len(ui.lines)
           e(i) == IF i \in LineOf(p) THEN [ui.lines[i] EXCEPT !.quantity = quantity[i]]
                   ELSE ui.lines[i]
           new == WithQuantity(p, quantity)
<1>1. n \in Nat /\ DOMAIN ui.lines = 1..n /\ \A i \in 1..n : ui.lines[i] \in Line
  BY LinesTyped
<1>2. new = [i \in 1..n |-> e(i)]
  BY <1>1 DEF WithQuantity
<1>3. \A i \in 1..n : e(i) \in Line /\ e(i).product = ui.lines[i].product
  <2> SUFFICES ASSUME NEW i \in 1..n PROVE e(i) \in Line /\ e(i).product = ui.lines[i].product
    OBVIOUS
  <2>1. ui.lines[i] \in Line
    BY <1>1
  <2>2. CASE i \in LineOf(p)
    <3>1. e(i) = [ui.lines[i] EXCEPT !.quantity = quantity[i]] /\ quantity[i] \in Quantity
      BY <2>2
    <3> HIDE DEF e
    <3> QED BY <2>1, <3>1 DEF Line
  <2>3. CASE i \notin LineOf(p)
    BY <2>1, <2>3
  <2> QED BY <2>2, <2>3
<1> HIDE DEF e, n, new
<1>4. new \in Seq(Line)
  BY <1>1, <1>2, <1>3
<1>5. DOMAIN new = DOMAIN ui.lines
      /\ \A i \in DOMAIN ui.lines : new[i].product = ui.lines[i].product
  BY <1>1, <1>2, <1>3
<1>6. LinesSound(new)
  BY <1>4, <1>5 DEF LinesSound
<1> QED BY <1>6 DEF new

LEMMA AddLineStep ==
    ASSUME ScreensInv, NEW p \in Products, AddLine(p)
    PROVE  ScreensInv'
<1>1. At("newOrder") /\ Edit([ui EXCEPT !.lines = LinesWith(p)])
  BY DEF AddLine
<1>2. LinesSound(ui.lines)
  BY <1>1, OnScreen DEF ScreensInv, NewOrderUi
<1>3. LinesSound(LinesWith(p))
  <2>1. CASE LineOf(p) = {}
    <3> DEFINE line == [product |-> p, quantity |-> OnePiece]
               new == Append(ui.lines, line)
    <3>1. line \in Line /\ line.product = p
      BY DEF Line, Quantity, OnePiece
    <3>2. \A i \in DOMAIN ui.lines : ui.lines[i].product # p
      BY <2>1 DEF LineOf
    <3>3. ui.lines \in Seq(Line)
      BY <1>2 DEF LinesSound
    <3> HIDE DEF line
    <3>4. /\ new \in Seq(Line) /\ DOMAIN new = 1..(Len(ui.lines) + 1)
          /\ \A i \in DOMAIN new :
                (i \in DOMAIN ui.lines /\ new[i] = ui.lines[i])
                \/ (i = Len(ui.lines) + 1 /\ new[i] = line)
      BY <3>1, <3>3
    <3> HIDE DEF new
    <3>5. LinesSound(new)
      BY <1>2, <3>1, <3>2, <3>4 DEF LinesSound
    <3> QED BY <2>1, <3>5 DEF LinesWith, new, line
  <2>2. CASE LineOf(p) # {}
    <3> DEFINE quantity == [i \in LineOf(p) |-> ui.lines[i].quantity + OnePiece]
    <3>1. \A i \in LineOf(p) : quantity[i] \in Quantity
      <4>1. \A i \in LineOf(p) : ui.lines[i].quantity \in Nat
        BY <1>2, LinesTyped DEF LineOf, Quantity
      <4> QED BY <4>1 DEF Quantity, OnePiece
    <3> HIDE DEF quantity
    <3>2. LinesSound(WithQuantity(p, quantity))
      BY <1>2, <3>1, WithQuantitySound
    <3> QED BY <2>2, <3>2 DEF LinesWith, quantity
  <2> QED BY <2>1, <2>2
<1> QED BY <1>1, <1>3, LinesStep

LEMMA SetQuantityStep ==
    ASSUME ScreensInv, NEW p \in Products, NEW typed \in Quantities, SetQuantity(p, typed)
    PROVE  ScreensInv'
<1> DEFINE quantity == [i \in LineOf(p) |-> IF typed < OnePiece THEN OnePiece ELSE typed]
<1>1. At("newOrder") /\ Edit([ui EXCEPT !.lines = WithQuantity(p, quantity)])
  BY DEF SetQuantity
<1>2. LinesSound(ui.lines)
  BY <1>1, OnScreen DEF ScreensInv, NewOrderUi
<1>3. \A i \in LineOf(p) : quantity[i] \in Quantity
  <2>1. typed \in Nat
    BY SalesAssumption
  <2>2. (IF typed < OnePiece THEN OnePiece ELSE typed) \in Quantity
    BY <2>1 DEF Quantity, OnePiece
  <2> QED BY <2>2
<1> HIDE DEF quantity
<1>4. LinesSound(WithQuantity(p, quantity))
  BY <1>2, <1>3, WithQuantitySound
<1> QED BY <1>1, <1>4, LinesStep

LEMMA KeptLines ==
    ASSUME NEW lines, LinesSound(lines), NEW left
    PROVE  LinesSound(Kept(lines, left))
<1> DEFINE new == Kept(lines, left)
<1>1. lines \in Seq(Line)
  BY DEF LinesSound
<1> HIDE DEF new
<1>2. /\ new \in Seq(Line)
      /\ \A k, l \in DOMAIN new :
            k # l => \E i, j \in DOMAIN lines : i # j /\ new[k] = lines[i] /\ new[l] = lines[j]
  <2>1. new = Kept(lines, left)
    BY DEF new
  <2> QED BY <1>1, <2>1, KeptFacts
<1>3. LinesSound(new)
  BY <1>2 DEF LinesSound
<1> QED BY <1>3 DEF new

LEMMA RemoveLineStep ==
    ASSUME ScreensInv, NEW p \in Products, RemoveLine(p)
    PROVE  ScreensInv'
<1> DEFINE left == {ui.lines[i] : i \in DOMAIN ui.lines \ LineOf(p)}
           new == Kept(ui.lines, left)
<1>1. At("newOrder") /\ Edit([ui EXCEPT !.lines = new])
  BY DEF RemoveLine
<1>2. LinesSound(ui.lines)
  BY <1>1, OnScreen DEF ScreensInv, NewOrderUi
<1> HIDE DEF left
<1>3. LinesSound(new)
  BY <1>2, KeptLines
<1> HIDE DEF new
<1> QED BY <1>1, <1>3, LinesStep

(* Lookups stand for no button. *)
LEMMA FindCustomerStep ==
    ASSUME ScreensInv, NEW email \in Customers, FindCustomer(email)
    PROVE  ScreensInv'
<1>1. PICK new : /\ new = NewCall("lookup", email, << >>, NotSeen)
                 /\ calls' = calls \cup {new} /\ At("newOrder")
                 /\ UNCHANGED <<menu, rights, rec, route, mount, ui, shown, side, acked, late,
                               once>>
  BY DEF FindCustomer, Send, NewCall, screenVars
<1>2. CallSound(new) /\ new.verb = "lookup"
  <2>1. email \in TargetOf("lookup") /\ "lookup" \in AllVerbs /\ "lookup" \notin StatusVerbs
    BY DEF TargetOf, AllVerbs, OrderVerbs, ProductVerbs, StatusVerbs
  <2>2. CallSound(NewCall("lookup", email, << >>, NotSeen))
    BY <1>1, <2>1, PlainCall, NotSeenIsRef
  <2> QED BY <1>1, <2>2 DEF NewCall
<1>3. Grown
  BY <1>1, UnchangedGrows DEF ScreensInv
<1>4. FrameInv' /\ LoadedInv' /\ UiSound(ui)'
  BY <1>1, <1>3, ReloadedKeeps, UiStays DEF ScreensInv, Reloaded
<1>5. ButtonsInv'
  <2> SUFFICES ASSUME NEW w \in VerbsOf(route.screen)
               PROVE  IF Spinning(ui, w) THEN \E e \in calls' : Of(w)' = {e} ELSE Of(w)' = {}
    BY <1>1 DEF ButtonsInv
  <2>1. "lookup" \notin Group(w)
    BY VerbFacts
  <2>2. Of(w)' = Of(w)
    BY <1>1, <1>2, <2>1 DEF Of
  <2> QED BY <1>1, <2>2 DEF ScreensInv, ButtonsInv
<1>6. \A c \in calls : CallSound(c)'
  BY <1>1, <1>3, CallStays DEF ScreensInv, FrameInv, CallsInv
<1>7. CallSound(new)'
  BY <1>1, <1>2, <1>3, CallStays DEF ScreensInv, FrameInv
<1>8. OnceInv' /\ FormInv'
  BY <1>1 DEF ScreensInv, OnceInv, Made, FormInv, At, Ready
<1> QED BY <1>1, <1>3, <1>4, <1>5, <1>6, <1>7, <1>8 DEF ScreensInv, Grown, CallsInv

LEMMA LookupServedStep ==
    ASSUME ScreensInv, NEW c \in calls, LookupServed(c)
    PROVE  ScreensInv'
<1>0. PICK state \in {"ok", "refused"} :
      /\ c.verb = "lookup" /\ c.state = "sent"
      /\ calls' = (calls \ {c}) \cup {[c EXCEPT !.state = state]}
      /\ UNCHANGED <<menu, rights, rec, route, mount, ui, shown, side, acked, late, once>>
  <2> DEFINE state == IF rec[c.target].status = None THEN "refused" ELSE "ok"
  <2>1. state \in {"ok", "refused"}
    OBVIOUS
  <2> QED BY <2>1 DEF LookupServed, screenVars
<1>1. PICK d :
      /\ d = [c EXCEPT !.state = state]
      /\ c.verb = "lookup" /\ c.state = "sent" /\ calls' = (calls \ {c}) \cup {d}
      /\ UNCHANGED <<menu, rights, rec, route, mount, ui, shown, side, acked, late, once>>
  BY <1>0
<1>2. CallSound(c) /\ CallShaped(c)
  BY DEF ScreensInv, CallsInv, CallSound
<1>4. /\ d.from = c.from /\ d.verb = c.verb /\ d.state = state /\ d.target = c.target
      /\ CallShaped(d)
  BY <1>1, <1>2 DEF CallShaped
<1>5. Grown
  BY <1>1, UnchangedGrows DEF ScreensInv
<1>6. CallSound(d)
  BY <1>1, <1>2, <1>4 DEF CallSound, OrderVerbs, StatusVerbs
<1>7. CallSound(d)'
  BY <1>1, <1>5, <1>6, CallStays DEF ScreensInv, FrameInv
<1>8. OnceInv'
  BY <1>1, <1>4 DEF ScreensInv, OnceInv, Made, Creates
<1> QED BY <1>1, <1>4, <1>5, <1>7, <1>8, ReplaceStep

LEMMA LookupAnsweredStep ==
    ASSUME ScreensInv, NEW c \in calls, LookupAnswered(c)
    PROVE  ScreensInv'
<1> DEFINE found == IF c.state = "ok" THEN c.target ELSE None
           u == [ui EXCEPT !.customer = found]
<1>1. /\ c.verb = "lookup" /\ calls' = calls \ {c}
      /\ ui' = IF Mounted(c) THEN u ELSE ui
      /\ UNCHANGED <<menu, rights, rec, route, mount, shown, side, acked, late, once>>
  BY DEF LookupAnswered, Take
<1>2. CASE ~Mounted(c)
  BY <1>1, <1>2, IgnoredStep DEF ScreensInv
<1>3. CASE Mounted(c) /\ At("newOrder")
  <2>1. NewOrderUi(ui)
    BY <1>3, OnScreen DEF ScreensInv
  <2>2. found \in Customers \cup {None}
    BY <1>1, TargetFacts DEF TargetOf, OrderVerbs, ProductVerbs
  <2> HIDE DEF found
  <2>3. u.lines = ui.lines /\ u.placing = ui.placing
        /\ u \in [customer : Customers \cup {None}, lines : Seq(Line), placing : BOOLEAN,
                  failure : BOOLEAN]
    BY <2>1, <2>2 DEF NewOrderUi
  <2> HIDE DEF u
  <2>4. NewOrderUi(u)
    BY <2>1, <2>3 DEF NewOrderUi
  <2>5. \A verb \in {"place"} : Spinning(u, verb) <=> Spinning(ui, verb)
    BY <2>3 DEF Spinning, OrderVerbs, ProductVerbs
  <2> QED BY <1>1, <1>3, <2>4, <2>5, OnScreen, IgnoredStep
<1> QED BY <1>1, <1>2, <1>3, SenderScreen

LEMMA PlaceStep ==
    ASSUME ScreensInv, Place
    PROVE  ScreensInv'
<1> DEFINE u == [ui EXCEPT !.placing = TRUE, !.failure = FALSE]
           body == [customer |-> ui.customer, lines |-> ui.lines]
<1>1. At("newOrder") /\ ~ui.placing /\ ui' = u /\ Submit("place", None, body, NotSeen)
  BY DEF Place
<1>2. NewOrderUi(ui)
  BY <1>1, OnScreen DEF ScreensInv
<1>3. u.lines = ui.lines /\ u.placing = TRUE
      /\ u \in [customer : Customers \cup {None}, lines : Seq(Line), placing : BOOLEAN,
                failure : BOOLEAN]
  BY <1>2 DEF NewOrderUi
<1> HIDE DEF u
<1>4. NewOrderUi(u)
  BY <1>2, <1>3 DEF NewOrderUi
<1>5. ~Spinning(ui, "place") /\ Spinning(u, "place") /\ Group("place") = {"place"}
  BY <1>1, <1>3 DEF Spinning, OrderVerbs, ProductVerbs, Group
<1>6. OrderSound(ui.lines)
  <2>1. \A i \in DOMAIN ui.lines : Currency[ui.lines[i].product] = Currency[ui.lines[1].product]
    BY DEF Place, mixedCurrency
  <2> QED BY <1>2, <2>1 DEF Place, NewOrderUi, OrderSound
<1>7. OrderSound(body.lines)
  BY <1>6
<1> HIDE DEF body
<1>8. CallSound(NewCall("place", None, body, NotSeen))
  BY <1>1, <1>7, PlainCall, OnScreen, NotSeenIsRef DEF AllVerbs, StatusVerbs, OrderVerbs
<1> QED BY <1>1, <1>4, <1>5, <1>8, OnScreen, SubmitStep

LEMMA PlaceServedStep ==
    ASSUME ScreensInv, NEW c \in calls, PlaceServed(c)
    PROVE  ScreensInv'
<1>1. PICK o \in Orders, accepted \in BOOLEAN :
          Served(c, accepted, o, "pending", rec[o])
  BY DEF PlaceServed
<1>2. c.verb = "place"
  BY DEF PlaceServed
<1>3. o \in TargetOf(c.verb) /\ c.verb # "lookup" /\ c.verb \notin StatusVerbs
  BY <1>2 DEF TargetOf, StatusVerbs, OrderVerbs, ProductVerbs
<1>4. o \notin Products /\ o \in Ids
  BY ScreenAssumption DEF Ids
<1>5. RecordShaped(rec[o])
  BY <1>4 DEF ScreensInv, RecordsInv
<1>6. LET r == Moved(rec[o], "pending") IN RecordShaped(r) /\ r.version > rec[o].version
  BY <1>5, NextVersion
<1>7. "pending" \in L!Status \cup {None}
  BY DEF L!Status
<1> QED BY <1>1, <1>3, <1>4, <1>6, <1>7, ServedStep

(* A form is told on the record's page; one that is open stays as it is.     *)
LEMMA ShowResultStep ==
    ASSUME ScreensInv, NEW c \in calls, c.state = "ok", c.verb # "lookup", calls' = calls \ {c},
           NEW r \in Routes, ShowResult(c, r, Fresh(r.screen)), UNCHANGED <<menu, rights, rec>>,
           SameComponent(r) => c.from # mount
    PROVE  ScreensInv'
<1>1. CallSound(c) /\ CallShaped(c)
  BY DEF ScreensInv, CallsInv, CallSound
<1>2. c.target \in Ids /\ c.at \in Nat /\ c.at <= rec[c.target].version
  BY <1>1 DEF CallSound, CallShaped, TargetOf, Ids
<1>3. acked' \in [Ids -> Nat] /\ \A id \in Ids : acked'[id] <= rec[id].version
  BY <1>2, KnownFacts, RaisedFacts DEF ShowResult
<1>4. Show(r, Fresh(r.screen)) /\ late' \in BOOLEAN /\ (r = route => late' = TRUE)
  BY DEF ShowResult
<1> QED BY <1>3, <1>4, ShowStep

LEMMA PlaceAnsweredStep ==
    ASSUME ScreensInv, NEW c \in calls, PlaceAnswered(c)
    PROVE  ScreensInv'
<1>1. c.verb = "place" /\ Take(c) /\ calls' = calls \ {c} /\ UNCHANGED <<menu, rights, rec>>
  BY DEF PlaceAnswered, Take
<1>2. CASE c.state = "ok"
  <2> DEFINE r == [screen |-> "order", id |-> c.target]
  <2>1. ShowResult(c, r, Fresh(r.screen))
    BY <1>2 DEF PlaceAnswered, Fresh
  <2>2. c.target \in Orders
    BY <1>1, <1>2 DEF ScreensInv, CallsInv, CallSound, TargetOf, OrderVerbs, ProductVerbs
  <2>3. r \in Routes
    BY <2>2 DEF Routes
  <2>4. SameComponent(r) => ~Mounted(c)
    BY <1>1, SenderScreen DEF SameComponent, At
  <2>5. r \in Routes /\ c.verb # "lookup"
    BY <1>1, <2>3
  <2> HIDE DEF r
  <2> QED BY <1>1, <1>2, <2>1, <2>4, <2>5, ShowResultStep DEF Mounted
<1>3. CASE c.state # "ok" /\ Mounted(c)
  <2> DEFINE u == [ui EXCEPT !.placing = FALSE, !.failure = TRUE]
  <2>1. ui' = u /\ UNCHANGED <<route, mount, shown, side, acked, late, once>>
    BY <1>3 DEF PlaceAnswered
  <2>2. At("newOrder")
    BY <1>1, <1>3, SenderScreen
  <2>3. NewOrderUi(ui)
    BY <2>2, OnScreen DEF ScreensInv
  <2>4. u.lines = ui.lines /\ u.placing = FALSE
        /\ u \in [customer : Customers \cup {None}, lines : Seq(Line), placing : BOOLEAN,
                  failure : BOOLEAN]
    BY <2>3 DEF NewOrderUi
  <2> HIDE DEF u
  <2>5. NewOrderUi(u) /\ ~Spinning(u, "place") /\ Group("place") = {"place"}
    BY <2>3, <2>4 DEF NewOrderUi, Spinning, OrderVerbs, ProductVerbs, Group
  <2>6. Shielded(c)
    BY <2>1 DEF Shielded
  <2> QED BY <1>1, <1>3, <2>1, <2>2, <2>5, <2>6, OnScreen, AnsweredStep DEF Mounted
<1>4. CASE c.state # "ok" /\ ~Mounted(c)
  BY <1>1, <1>4, GoneStep DEF PlaceAnswered
<1> QED BY <1>2, <1>3, <1>4
-----------------------------------------------------------------------------
(* The customers. *)
LEMMA CustomersEdits ==
    ASSUME ScreensInv,
           OpenAdding \/ CloseAdding \/ \E email \in Customers : TypeNewCustomer(email)
    PROVE  ScreensInv'
<1>1. /\ At("customers")
      /\ \/ Edit([ui EXCEPT !.adding = TRUE])
         \/ Edit([ui EXCEPT !.adding = FALSE])
         \/ \E email \in Customers : Edit([ui EXCEPT !.email = email])
  BY DEF OpenAdding, CloseAdding, TypeNewCustomer
<1>2. CustomersUi(ui)
  BY <1>1, OnScreen DEF ScreensInv
<1>3. PICK u : Edit(u) /\ CustomersUi(u) /\ u.saving = ui.saving
  <2>1. /\ \A on \in BOOLEAN : LET v == [ui EXCEPT !.adding = on] IN
                               CustomersUi(v) /\ v.saving = ui.saving
        /\ \A email \in Customers : LET v == [ui EXCEPT !.email = email] IN
                                    CustomersUi(v) /\ v.saving = ui.saving
    BY <1>2 DEF CustomersUi
  <2> QED BY <1>1, <2>1
<1>4. \A verb \in {"addCustomer"} : Spinning(u, verb) <=> Spinning(ui, verb)
  BY <1>3 DEF Spinning, OrderVerbs, ProductVerbs
<1> QED BY <1>1, <1>3, <1>4, OnScreen, EditKeeps

LEMMA AddCustomerStep ==
    ASSUME ScreensInv, AddCustomer
    PROVE  ScreensInv'
<1> DEFINE u == [ui EXCEPT !.saving = TRUE, !.emailError = FALSE, !.failure = FALSE]
<1>1. /\ At("customers") /\ ui.email # None /\ ~ui.saving /\ ui' = u
      /\ Submit("addCustomer", ui.email, << >>, NotSeen)
  BY DEF AddCustomer
<1>2. CustomersUi(ui)
  BY <1>1, OnScreen DEF ScreensInv
<1>3. u.saving = TRUE /\ CustomersUi(u)
  BY <1>2 DEF CustomersUi
<1> HIDE DEF u
<1>4. /\ ~Spinning(ui, "addCustomer") /\ Spinning(u, "addCustomer")
      /\ Group("addCustomer") = {"addCustomer"}
  BY <1>1, <1>3 DEF Spinning, OrderVerbs, ProductVerbs, Group
<1>5. ui.email \in TargetOf("addCustomer")
  BY <1>1, <1>2 DEF CustomersUi, TargetOf, OrderVerbs, ProductVerbs
<1>6. CallSound(NewCall("addCustomer", ui.email, << >>, NotSeen))
  <2>1. "addCustomer" \in AllVerbs /\ "addCustomer" \notin StatusVerbs
    BY DEF AllVerbs, StatusVerbs, OrderVerbs
  <2> QED BY <1>1, <1>5, <2>1, PlainCall, OnScreen, NotSeenIsRef
<1> QED BY <1>1, <1>3, <1>4, <1>6, OnScreen, SubmitStep

LEMMA CustomerServedStep ==
    ASSUME ScreensInv, NEW c \in calls, CustomerServed(c)
    PROVE  ScreensInv'
<1>1. PICK accepted \in BOOLEAN : Served(c, accepted, c.target, "known", rec[c.target])
  BY DEF CustomerServed
<1>2. c.verb = "addCustomer"
  BY DEF CustomerServed
<1> QED BY <1>1, <1>2, TargetFacts, PlainServedStep

LEMMA CustomerAnsweredStep ==
    ASSUME ScreensInv, NEW c \in calls, CustomerAnswered(c)
    PROVE  ScreensInv'
<1>1. c.verb = "addCustomer" /\ Take(c) /\ calls' = calls \ {c} /\ UNCHANGED <<menu, rights, rec>>
  BY DEF CustomerAnswered, Take
<1>2. CASE ~Mounted(c)
  BY <1>1, <1>2, GoneStep DEF CustomerAnswered
<1>3. CASE Mounted(c)
  <2>1. At("customers")
    BY <1>1, <1>3, SenderScreen
  <2>2. CustomersUi(ui)
    BY <2>1, OnScreen DEF ScreensInv
  <2>3. PICK u : ui' = u /\ CustomersUi(u) /\ u.saving = FALSE
    BY <1>3, <2>2 DEF CustomerAnswered, CustomersUi
  <2>4. Shielded(c) /\ UNCHANGED <<route, mount, once>>
    BY <1>3, <2>1 DEF CustomerAnswered, Shielded, HasSide, At
  <2>5. ~Spinning(u, "addCustomer") /\ Group("addCustomer") = {"addCustomer"}
    BY <2>3 DEF Spinning, OrderVerbs, ProductVerbs, Group
  <2>6. c.verb \notin Creates
    BY <1>1 DEF Creates
  <2> QED BY <1>1, <1>3, <2>1, <2>3, <2>4, <2>5, <2>6, OnScreen, AnsweredStep DEF Mounted
<1> QED BY <1>2, <1>3
-----------------------------------------------------------------------------
LEMMA SalesKeep ==
    ASSUME ScreensInv, SalesControls \/ \E c \in calls : SalesAnswers(c)
    PROVE  ScreensInv'
<1>1. CASE SalesControls
  BY <1>1, AskStep, BackStep, AdvanceStep, ConfirmStep, SearchCatalogStep, PlaceStep, AddLineStep,
     RemoveLineStep, SetQuantityStep, FindCustomerStep, CustomersEdits, AddCustomerStep
     DEF SalesControls
<1>2. ASSUME NEW c \in calls, SalesAnswers(c) PROVE ScreensInv'
  BY <1>2, OrderServedStep, OrderAnsweredStep, LookupServedStep, LookupAnsweredStep,
     PlaceServedStep, PlaceAnsweredStep, CustomerServedStep, CustomerAnsweredStep
     DEF SalesAnswers
<1> QED BY <1>1, <1>2
-----------------------------------------------------------------------------
(* One product. *)
ProductType == [confirm : [open : BOOLEAN, seen : Refs], busy : BOOLEAN, failure : BOOLEAN,
                retried : SUBSET Images]

LEMMA NoQuestionIsSound ==
    NoQuestion \in [open : BOOLEAN, seen : Refs] /\ NoQuestion.open = FALSE
BY NotSeenIsRef DEF NoQuestion

LEMMA RunProductStep ==
    ASSUME ScreensInv, At("product"), NEW verb \in ProductVerbs, NEW body, NEW seen \in Refs,
           RunProduct(verb, body, seen),
           verb \in {"activate", "archive"} =>
               body.status \in ProductStatuses /\ Read(seen, {"draft", "active"}),
           verb = "activate" => seen.id = route.id
    PROVE  ScreensInv'
<1> DEFINE u == [ui EXCEPT !.busy = TRUE, !.failure = FALSE, !.confirm = NoQuestion]
<1>1. ~ui.busy /\ ui' = u /\ Submit(verb, route.id, body, seen)
  BY DEF RunProduct
<1>2. ProductUi(ui)
  BY OnScreen DEF ScreensInv
<1>3. u.confirm = NoQuestion /\ u.busy = TRUE /\ u \in ProductType
  BY <1>2, NoQuestionIsSound DEF ProductUi, ProductType
<1> HIDE DEF u
<1>4. ProductUi(u)
  BY <1>3, NoQuestionIsSound DEF ProductUi, ProductType
<1>5. ~Spinning(ui, verb) /\ Spinning(u, verb) /\ Group(verb) = ProductVerbs
  BY <1>1, <1>3 DEF Spinning, OrderVerbs, ProductVerbs, Group
<1>6. /\ route.id \in Products /\ verb \in VerbsOf(route.screen) /\ verb \in AllVerbs
      /\ TargetOf(verb) = Products /\ verb # "updateProduct" /\ verb # "place"
  BY RouteFacts, OnScreen DEF ScreensInv, FrameInv, AllVerbs, TargetOf, OrderVerbs, ProductVerbs
<1>7. CASE verb \notin {"activate", "archive"}
  <2>1. verb \notin StatusVerbs
    BY <1>7 DEF StatusVerbs, OrderVerbs, ProductVerbs
  <2>2. CallSound(NewCall(verb, route.id, body, seen))
    BY <1>6, <2>1, PlainCall
  <2> QED BY <1>1, <1>4, <1>5, <1>6, <2>2, OnScreen, SubmitStep
<1>8. CASE verb \in {"activate", "archive"}
  <2> DEFINE new == NewCall(verb, route.id, body, seen)
  <2>1. /\ new.from = mount /\ new.verb = verb /\ new.target = route.id /\ new.body = body
        /\ new.seen = seen /\ new.state = "sent"
    BY DEF NewCall
  <2>2. CallShaped(new)
    BY <1>6 DEF NewCall, CallShaped, ScreensInv, FrameInv
  <2> HIDE DEF new
  <2>3. verb \notin OrderVerbs /\ verb \in StatusVerbs
    BY <1>8 DEF OrderVerbs, StatusVerbs
  <2>4. Accepts(new) = {"draft", "active"}
    BY <2>1, <2>3 DEF Accepts
  <2>5. CallSound(new)
    BY <1>6, <1>8, <2>1, <2>2, <2>3, <2>4 DEF CallSound
  <2> QED BY <1>1, <1>4, <1>5, <1>6, <2>5, OnScreen, SubmitStep DEF new
<1> QED BY <1>7, <1>8

LEMMA ProductButtonsStep ==
    ASSUME ScreensInv,
           Activate \/ ConfirmArchive \/ Upload \/ \E i \in Images : RemoveImage(i)
    PROVE  ScreensInv'
<1>1. At("product") /\ Ready
  BY DEF Activate, ConfirmArchive, Upload, RemoveImage, ProductReady
<1>2. /\ Seen \in Refs /\ Seen.id = route.id
      /\ \A statuses : Current.status \in statuses => Read(Seen, statuses)
  BY <1>1, CurrentFacts
<1>3. CASE Activate
  <2> DEFINE body == [status |-> "active"]
  <2>1. Current.status = "draft" /\ RunProduct("activate", body, Seen)
    BY <1>3 DEF Activate
  <2>2. Read(Seen, {"draft", "active"}) /\ body.status \in ProductStatuses
    BY <1>2, <2>1 DEF ProductStatuses
  <2> HIDE DEF body
  <2> QED BY <1>1, <1>2, <2>1, <2>2, RunProductStep DEF ProductVerbs
<1>4. CASE ConfirmArchive
  <2> DEFINE body == [status |-> "archived"]
             seen == ui.confirm.seen
  <2>1. ui.confirm.open /\ RunProduct("archive", body, seen)
    BY <1>4 DEF ConfirmArchive
  <2>2. ProductUi(ui)
    BY <1>1, OnScreen DEF ScreensInv
  <2>3. seen \in Refs /\ Read(seen, {"active"})
    BY <2>1, <2>2 DEF ProductUi
  <2>4. Read(seen, {"draft", "active"}) /\ body.status \in ProductStatuses
    BY <2>3, ReadMore DEF ProductStatuses
  <2> HIDE DEF body, seen
  <2> QED BY <1>1, <2>1, <2>3, <2>4, RunProductStep DEF ProductVerbs
<1>5. CASE Upload \/ \E i \in Images : RemoveImage(i)
  <2>1. PICK verb, body : verb \in {"upload", "removeImage"} /\ RunProduct(verb, body, Seen)
    <3>1. CASE Upload
      BY <3>1 DEF Upload
    <3>2. CASE \E i \in Images : RemoveImage(i)
      <4>1. PICK i : RunProduct("removeImage", [image |-> i], Seen)
        BY <3>2 DEF RemoveImage
      <4> QED BY <4>1
    <3> QED BY <1>5, <3>1, <3>2
  <2> QED BY <1>1, <1>2, <2>1, RunProductStep DEF ProductVerbs
<1> QED BY <1>3, <1>4, <1>5

LEMMA ProductEdits ==
    ASSUME ScreensInv, AskArchive \/ CancelArchive
    PROVE  ScreensInv'
<1>1. At("product") /\ Ready
  BY DEF AskArchive, CancelArchive, ProductReady
<1>2. ProductUi(ui)
  BY <1>1, OnScreen DEF ScreensInv
<1>3. PICK confirm \in [open : BOOLEAN, seen : Refs] :
          /\ Edit([ui EXCEPT !.confirm = confirm])
          /\ confirm.open => Read(confirm.seen, {"active"})
  <2>1. CASE AskArchive
    <3> DEFINE confirm == [open |-> TRUE, seen |-> Seen]
    <3>1. Edit([ui EXCEPT !.confirm = confirm]) /\ Current.status = "active"
      BY <2>1 DEF AskArchive
    <3>2. confirm \in [open : BOOLEAN, seen : Refs] /\ confirm.seen = Seen
      BY <1>1, CurrentFacts
    <3>3. Read(Seen, {"active"})
      BY <1>1, <3>1, CurrentFacts
    <3> HIDE DEF confirm
    <3> QED BY <3>1, <3>2, <3>3
  <2>2. CASE CancelArchive
    <3>1. Edit([ui EXCEPT !.confirm = NoQuestion])
      BY <2>2 DEF CancelArchive
    <3> QED BY <3>1, NoQuestionIsSound
  <2> QED BY <2>1, <2>2
<1> DEFINE u == [ui EXCEPT !.confirm = confirm]
<1>4. u.confirm = confirm /\ u.busy = ui.busy /\ u \in ProductType
  BY <1>2 DEF ProductUi, ProductType
<1>5. Edit(u)
  BY <1>3
<1> HIDE DEF u
<1>6. ProductUi(u)
  BY <1>3, <1>4 DEF ProductUi, ProductType
<1>7. \A verb \in ProductVerbs : Spinning(u, verb) <=> Spinning(ui, verb)
  BY <1>4 DEF Spinning, OrderVerbs, ProductVerbs
<1> QED BY <1>1, <1>5, <1>6, <1>7, OnScreen, EditKeeps

LEMMA ImageBreaksStep ==
    ASSUME ScreensInv, NEW i \in Images, ImageBreaks(i)
    PROVE  ScreensInv'
<1> DEFINE u == [ui EXCEPT !.retried = ui.retried \cup {i}]
<1>1. /\ At("product") /\ ui' = u /\ side' = NotLoaded
      /\ UNCHANGED <<menu, rights, rec, route, mount, shown, acked, late, once, calls>>
  BY DEF ImageBreaks, ProductReady
<1>2. ProductUi(ui)
  BY <1>1, OnScreen DEF ScreensInv
<1>3. u.confirm = ui.confirm /\ u.busy = ui.busy /\ u \in ProductType
  BY <1>2 DEF ProductUi, ProductType
<1> HIDE DEF u
<1>4. ProductUi(u)
  BY <1>2, <1>3 DEF ProductUi, ProductType
<1>5. \A verb \in ProductVerbs : Spinning(u, verb) <=> Spinning(ui, verb)
  BY <1>3 DEF Spinning, OrderVerbs, ProductVerbs
<1>6. Reloaded
  BY <1>1 DEF Reloaded, HasSide, At
<1> QED BY <1>1, <1>4, <1>5, <1>6, OnScreen, EditStep

LEMMA StatusServedStep ==
    ASSUME ScreensInv, NEW c \in calls, StatusServed(c)
    PROVE  ScreensInv'
<1> DEFINE p == rec[c.target]
           status == c.body.status
           changes == IF p.status = status THEN [p EXCEPT !.version = p.version - 1] ELSE p
           accepted == c.verb = "activate" \/ p.status # "archived"
<1>1. c.verb \in {"activate", "archive"} /\ Served(c, accepted, c.target, status, changes)
  BY DEF StatusServed
<1>2. c.state = "sent" /\ CallSound(c)
  BY <1>1 DEF Served, ScreensInv, CallsInv
<1>3. c.verb \notin OrderVerbs /\ c.verb \in StatusVerbs /\ TargetOf(c.verb) = Products
      /\ c.verb \notin {"place", "createProduct", "createRole", "lookup"}
  BY <1>1 DEF OrderVerbs, StatusVerbs, TargetOf, ProductVerbs
<1>4. c.target \in Products /\ RecordShaped(p) /\ c.target \in Ids
  BY <1>3, TargetFacts
<1>5. status \in ProductStatuses /\ Read(c.seen, {"draft", "active"})
  BY <1>1, <1>2, <1>3 DEF CallSound, Accepts
<1>6. c.target \notin Orders
  BY <1>4, ScreenAssumption
<1>7. LET r == Moved(changes, status) IN
      RecordShaped(r) /\ (r = p \/ r.version > p.version)
  <2>1. CASE p.status = status
    <3>1. p.version \in Nat /\ p.version - 1 + 1 = p.version
      BY <1>4 DEF RecordShaped
    <3>2. changes = [p EXCEPT !.version = p.version - 1]
      BY <2>1
    <3>3. Moved(changes, status) = [p EXCEPT !.status = status, !.version = p.version - 1 + 1]
      BY <1>4, <3>2 DEF Moved, RecordShaped
    <3>4. [p EXCEPT !.status = status, !.version = p.version] = p
      BY <1>4, <2>1 DEF RecordShaped
    <3>5. Moved(changes, status) = p
      BY <3>1, <3>3, <3>4
    <3> QED BY <1>4, <3>5
  <2>2. CASE p.status # status
    <3>1. changes = p
      BY <2>2
    <3> QED BY <1>4, <3>1, NextVersion
  <2> QED BY <2>1, <2>2
<1>8. ~accepted => c.seen.id # c.target \/ c.seen.version # p.version
  BY <1>5 DEF Read
<1>9. accepted \in BOOLEAN
  OBVIOUS
<1> HIDE DEF changes, accepted
<1> QED BY <1>1, <1>3, <1>4, <1>5, <1>6, <1>7, <1>8, <1>9, ServedStep

(* Images and prices change with the version, statuses do not. *)
LEMMA ProductServedStep ==
    ASSUME ScreensInv, NEW c \in calls, NEW accepted \in BOOLEAN, NEW p \in Products, NEW status,
           NEW changes,
           Served(c, accepted, p, status, changes),
           c.verb \in {"upload", "removeImage", "createProduct", "updateProduct"},
           status = rec[p].status \/ status = "draft",
           RecordShaped(changes), changes.version = rec[p].version
    PROVE  ScreensInv'
<1>1. /\ p \in TargetOf(c.verb) /\ c.verb # "lookup" /\ c.verb \notin StatusVerbs
  BY DEF TargetOf, StatusVerbs, OrderVerbs, ProductVerbs
<1>2. p \notin Orders /\ p \in Ids
  BY ScreenAssumption DEF Ids
<1>3. status \in ProductStatuses \cup {None}
  BY DEF ScreensInv, RecordsInv, ProductStatuses
<1>4. LET r == Moved(changes, status) IN RecordShaped(r) /\ r.version > rec[p].version
  BY NextVersion
<1> QED BY <1>1, <1>2, <1>3, <1>4, ServedStep

LEMMA ImagesServedStep ==
    ASSUME ScreensInv, NEW c \in calls, UploadServed(c) \/ RemoveServed(c)
    PROVE  ScreensInv'
<1>1. c.verb \in {"upload", "removeImage"}
  BY DEF UploadServed, RemoveServed
<1>2. c.target \in Products /\ RecordShaped(rec[c.target])
  BY <1>1, TargetFacts DEF TargetOf, OrderVerbs, ProductVerbs
<1>3. PICK accepted \in BOOLEAN, images \in SUBSET Images, used \in SUBSET Images :
          /\ images \subseteq used
          /\ Served(c, accepted, c.target, rec[c.target].status,
                    [rec[c.target] EXCEPT !.images = images, !.used = used])
  <2> DEFINE p == rec[c.target]
  <2>1. p.images \in SUBSET Images /\ p.used \in SUBSET Images /\ p.images \subseteq p.used
    BY <1>2 DEF RecordShaped
  <2>2. CASE UploadServed(c)
    <3>1. PICK i \in Images, good \in BOOLEAN :
              Served(c, good, c.target, p.status,
                     [p EXCEPT !.images = p.images \cup {i}, !.used = p.used \cup {i}])
      BY <2>2 DEF UploadServed
    <3> QED BY <2>1, <3>1
  <2>3. CASE RemoveServed(c)
    <3>0. Served(c, c.body.image \in p.images, c.target, p.status,
                 [p EXCEPT !.images = p.images \ {c.body.image}])
      BY <2>3 DEF RemoveServed
    <3> DEFINE there == c.body.image \in p.images
               i == c.body.image
    <3>1. Served(c, there, c.target, p.status, [p EXCEPT !.images = p.images \ {i}])
          /\ there \in BOOLEAN
      BY <3>0
    <3> HIDE DEF there
    <3>2. [p EXCEPT !.images = p.images \ {i}]
              = [p EXCEPT !.images = p.images \ {i}, !.used = p.used]
      BY <1>2 DEF RecordShaped
    <3>3. Served(c, there, c.target, p.status,
                 [p EXCEPT !.images = p.images \ {i}, !.used = p.used])
      BY <3>1, <3>2
    <3>4. /\ p.images \ {i} \in SUBSET Images /\ p.images \ {i} \subseteq p.used
          /\ p.used \in SUBSET Images
      BY <2>1
    <3> QED BY <3>1, <3>3, <3>4
  <2> QED BY <2>2, <2>3
<1> DEFINE changes == [rec[c.target] EXCEPT !.images = images, !.used = used]
<1>4. RecordShaped(changes) /\ changes.version = rec[c.target].version
  BY <1>2, <1>3 DEF RecordShaped
<1> HIDE DEF changes
<1>5. Served(c, accepted, c.target, rec[c.target].status, changes)
  BY <1>3 DEF changes
<1> QED BY <1>1, <1>2, <1>4, <1>5, ProductServedStep

LEMMA ProductAnsweredStep ==
    ASSUME ScreensInv, NEW c \in calls, ProductAnswered(c)
    PROVE  ScreensInv'
<1>1. c.verb \in ProductVerbs /\ Take(c)
  BY DEF ProductAnswered
<1>2. CASE ~Mounted(c)
  BY <1>1, <1>2, GoneStep DEF ProductAnswered
<1>3. CASE Mounted(c)
  <2> DEFINE u == [ui EXCEPT !.busy = FALSE, !.failure = c.state # "ok"]
  <2>1. /\ ui' = u
        /\ IF c.state = "ok" THEN Told(c) /\ shown' = NotLoaded /\ side' = NotLoaded
           ELSE UNCHANGED <<acked, late, shown, side>>
        /\ UNCHANGED <<menu, rights, rec, route, mount, once>> /\ calls' = calls \ {c}
    BY <1>1, <1>3 DEF ProductAnswered, Take
  <2>2. At("product")
    BY <1>1, <1>3, SenderScreen
  <2>3. ProductUi(ui)
    BY <2>2, OnScreen DEF ScreensInv
  <2>4. u.confirm = ui.confirm /\ u.busy = FALSE /\ u \in ProductType
    BY <2>3 DEF ProductUi, ProductType
  <2> HIDE DEF u
  <2>5. ProductUi(u)
    BY <2>3, <2>4 DEF ProductUi, ProductType
  <2>6. ~Spinning(u, c.verb) /\ Group(c.verb) = ProductVerbs
    BY <1>1, <2>4 DEF Spinning, OrderVerbs, ProductVerbs, Group
  <2>7. Shielded(c)
    BY <2>1, <2>2 DEF Shielded, HasSide, At
  <2>8. c.verb # "lookup" /\ c.verb \notin Creates
    BY <1>1 DEF ProductVerbs, Creates
  <2> QED BY <1>3, <2>1, <2>2, <2>5, <2>6, <2>7, <2>8, OnScreen, AnsweredStep DEF Mounted
<1> QED BY <1>2, <1>3
-----------------------------------------------------------------------------
(* The form of a product. *)
LEMMA FormEdits ==
    ASSUME ScreensInv, FillIn \/ \E text \in Typed : TypePrice(text)
    PROVE  ScreensInv'
<1>1. At("newProduct") \/ At("editProduct")
  BY DEF FillIn, TypePrice, FormShown
<1>2. FormUi(ui)
  BY <1>1, OnScreen DEF ScreensInv
<1>3. PICK u : Edit(u) /\ FormUi(u) /\ u.saving = ui.saving
  <2>1. CASE FillIn
    <3> DEFINE v == [ui EXCEPT !.complete = ~ui.complete]
    <3>1. Edit(v)
      BY <2>1 DEF FillIn
    <3>2. FormUi(v) /\ v.saving = ui.saving
      BY <1>2 DEF FormUi
    <3> QED BY <3>1, <3>2
  <2>2. CASE \E text \in Typed : TypePrice(text)
    <3>1. PICK text : Edit([ui EXCEPT !.price = text, !.touched = TRUE])
      BY <2>2 DEF TypePrice
    <3>2. LET v == [ui EXCEPT !.price = text, !.touched = TRUE] IN
          FormUi(v) /\ v.saving = ui.saving
      BY <1>2 DEF FormUi
    <3> QED BY <3>1, <3>2
  <2> QED BY <2>1, <2>2
<1>4. \A verb \in {"createProduct", "updateProduct"} : Spinning(u, verb) <=> Spinning(ui, verb)
  BY <1>3 DEF Spinning, OrderVerbs, ProductVerbs
<1> QED BY <1>1, <1>3, <1>4, OnScreen, EditKeeps

LEMMA SaveStep ==
    ASSUME ScreensInv, Save
    PROVE  ScreensInv'
<1> DEFINE u == [ui EXCEPT !.saving = TRUE, !.failure = FALSE]
           body == [price |-> parseMoney(ui.price, FormDigits)]
           verb == IF At("newProduct") THEN "createProduct" ELSE "updateProduct"
<1>1. FormShown /\ ~ui.saving /\ ui' = u /\ Submit(verb, route.id, body, NotSeen)
  BY DEF Save
<1>2. \/ At("newProduct") /\ verb = "createProduct"
      \/ At("editProduct") /\ verb = "updateProduct" /\ Ready
  <2>1. CASE At("newProduct")
    BY <2>1
  <2>2. CASE ~At("newProduct")
    <3>1. At("editProduct") /\ Ready
      BY <1>1, <2>2 DEF FormShown
    <3> QED BY <2>2, <3>1
  <2> QED BY <2>1, <2>2
<1>3. FormUi(ui)
  BY <1>2, OnScreen DEF ScreensInv
<1>4. u.saving = TRUE /\ FormUi(u)
  BY <1>3 DEF FormUi
<1> HIDE DEF u, verb, body
<1>5. ~Spinning(ui, verb) /\ Spinning(u, verb) /\ Group(verb) = {verb}
  BY <1>1, <1>2, <1>4 DEF Spinning, OrderVerbs, ProductVerbs, Group
<1>6. verb = "updateProduct" => route.id \in TargetOf(verb)
  BY <1>2, RouteFacts DEF ScreensInv, FrameInv, At, TargetOf, OrderVerbs, ProductVerbs
<1>7. /\ VerbsOf(route.screen) = {verb} /\ UiSound(u)
      /\ verb \in AllVerbs /\ verb \notin StatusVerbs /\ verb # "place"
  BY <1>2, <1>4, OnScreen DEF AllVerbs, StatusVerbs, OrderVerbs
<1>8. CallSound(NewCall(verb, route.id, body, NotSeen))
  BY <1>2, <1>6, <1>7, PlainCall, NotSeenIsRef
<1> QED BY <1>1, <1>2, <1>5, <1>7, <1>8, SubmitStep

LEMMA PricedFacts ==
    ASSUME NEW p, RecordShaped(p), NEW price
    PROVE  RecordShaped(Priced(p, price)) /\ Priced(p, price).version = p.version
BY DEF Priced, RecordShaped

LEMMA FormServedStep ==
    ASSUME ScreensInv, NEW c \in calls, CreateServed(c) \/ UpdateServed(c)
    PROVE  ScreensInv'
<1>1. PICK p, accepted, status, price :
          /\ p \in Products /\ accepted \in BOOLEAN
          /\ c.verb \in {"createProduct", "updateProduct"}
          /\ status = rec[p].status \/ status = "draft"
          /\ Served(c, accepted, p, status, Priced(rec[p], price))
  <2>1. CASE CreateServed(c)
    <3>1. PICK p \in Products, free \in BOOLEAN :
              Served(c, free, p, "draft", Priced(rec[p], c.body.price))
      BY <2>1 DEF CreateServed
    <3>2. c.verb = "createProduct"
      BY <2>1 DEF CreateServed
    <3> QED BY <3>1, <3>2
  <2>2. CASE UpdateServed(c)
    <3> DEFINE open == rec[c.target].status # "archived"
    <3>1. /\ c.verb = "updateProduct" /\ open \in BOOLEAN
          /\ Served(c, open, c.target, rec[c.target].status,
                    Priced(rec[c.target], c.body.price))
      BY <2>2 DEF UpdateServed
    <3>2. c.target \in Products
      BY <3>1, TargetFacts DEF TargetOf, OrderVerbs, ProductVerbs
    <3> HIDE DEF open
    <3> QED BY <3>1, <3>2
  <2> QED BY <2>1, <2>2
<1>2. RecordShaped(rec[p]) /\ p \in Ids
  BY <1>1 DEF ScreensInv, RecordsInv, Ids
<1>3. PICK changes : /\ changes = Priced(rec[p], price)
                     /\ RecordShaped(changes) /\ changes.version = rec[p].version
  BY <1>2, PricedFacts
<1>4. Served(c, accepted, p, status, changes)
  BY <1>1, <1>3
<1> QED BY <1>1, <1>3, <1>4, ProductServedStep

LEMMA FormAnsweredStep ==
    ASSUME ScreensInv, NEW c \in calls, FormAnswered(c)
    PROVE  ScreensInv'
<1>1. /\ c.verb \in {"createProduct", "updateProduct"} /\ Take(c) /\ calls' = calls \ {c}
      /\ UNCHANGED <<menu, rights, rec>>
  BY DEF FormAnswered, Take
<1>2. CASE c.state = "ok"
  <2> DEFINE r == [screen |-> "product", id |-> c.target]
  <2>1. ShowResult(c, r, Fresh(r.screen))
    BY <1>2 DEF FormAnswered, Fresh
  <2>2. c.target \in Products
    BY <1>1, <1>2 DEF ScreensInv, CallsInv, CallSound, TargetOf, OrderVerbs, ProductVerbs
  <2>3. r \in Routes
    BY <2>2 DEF Routes
  <2>4. SameComponent(r) => ~Mounted(c)
    BY <1>1, SenderScreen DEF SameComponent, At
  <2>5. r \in Routes /\ c.verb # "lookup"
    BY <1>1, <2>3
  <2> HIDE DEF r
  <2> QED BY <1>1, <1>2, <2>1, <2>4, <2>5, ShowResultStep DEF Mounted
<1>3. CASE c.state # "ok" /\ Mounted(c)
  <2> DEFINE u == [ui EXCEPT !.saving = FALSE, !.failure = TRUE]
  <2>1. ui' = u /\ UNCHANGED <<route, mount, shown, side, acked, late, once>>
    BY <1>3 DEF FormAnswered
  <2>2. \/ c.verb = "createProduct" /\ At("newProduct")
        \/ c.verb = "updateProduct" /\ At("editProduct")
    BY <1>1, <1>3, SenderScreen
  <2>3. FormUi(ui)
    BY <2>2, OnScreen DEF ScreensInv
  <2>4. FormUi(u) /\ u.saving = FALSE
    BY <2>3 DEF FormUi
  <2> HIDE DEF u
  <2>5. ~Spinning(u, c.verb) /\ Group(c.verb) = {c.verb}
    BY <1>1, <2>4 DEF Spinning, OrderVerbs, ProductVerbs, Group
  <2>6. Shielded(c) /\ UiSound(u) /\ VerbsOf(route.screen) = {c.verb}
    BY <2>1, <2>2, <2>4, OnScreen DEF Shielded
  <2> QED BY <1>1, <1>3, <2>1, <2>5, <2>6, AnsweredStep DEF Mounted
<1>4. CASE c.state # "ok" /\ ~Mounted(c)
  BY <1>1, <1>4, GoneStep DEF FormAnswered
<1> QED BY <1>2, <1>3, <1>4

LEMMA CatalogKeeps ==
    ASSUME ScreensInv, CatalogControls \/ \E c \in calls : CatalogAnswers(c)
    PROVE  ScreensInv'
<1>1. CASE CatalogControls
  BY <1>1, ProductButtonsStep, ProductEdits, ImageBreaksStep, FormEdits, SaveStep
     DEF CatalogControls
<1>2. ASSUME NEW c \in calls, CatalogAnswers(c) PROVE ScreensInv'
  BY <1>2, StatusServedStep, ImagesServedStep, ProductAnsweredStep, FormServedStep,
     FormAnsweredStep DEF CatalogAnswers
<1> QED BY <1>1, <1>2
-----------------------------------------------------------------------------
(* The staff list. *)
LEMMA StaffListEdits ==
    ASSUME ScreensInv,
           \/ openDialog \/ closeDialog \/ Acknowledge
           \/ \E email \in Members : TypeEmail(email)
           \/ CreateAccount /\ ui.email = None
    PROVE  ScreensInv'
<1>1. At("staffList")
  BY DEF openDialog, closeDialog, Acknowledge, TypeEmail, CreateAccount, DialogShown
<1>2. StaffUi(ui)
  BY <1>1, OnScreen DEF ScreensInv
<1>3. PICK u : Edit(u) /\ StaffUi(u) /\ u.submitting = ui.submitting
  <2>1. CASE openDialog
    <3> DEFINE v == [ui EXCEPT !.email = None, !.error = FALSE, !.acknowledged = FALSE,
                               !.step = "form", !.open = TRUE]
    <3>1. Edit(v) /\ StaffUi(v) /\ v.submitting = ui.submitting
      BY <1>2, <2>1 DEF openDialog, StaffUi
    <3> QED BY <3>1
  <2>2. CASE closeDialog
    <3> DEFINE v == [ui EXCEPT !.open = FALSE]
    <3>1. Edit(v) /\ StaffUi(v) /\ v.submitting = ui.submitting
      BY <1>2, <2>2 DEF closeDialog, StaffUi
    <3> QED BY <3>1
  <2>3. CASE Acknowledge
    <3> DEFINE owed == IF ui.acknowledged THEN ui.owed ELSE None
               v == [ui EXCEPT !.acknowledged = ~ui.acknowledged, !.owed = owed]
    <3>1. Edit(v)
      BY <2>3 DEF Acknowledge
    <3> HIDE DEF owed
    <3>2. StaffUi(v) /\ v.submitting = ui.submitting
      BY <1>2 DEF StaffUi
    <3> QED BY <3>1, <3>2
  <2>4. CASE \E email \in Members : TypeEmail(email)
    <3>1. PICK email \in Members : Edit([ui EXCEPT !.email = email])
      BY <2>4 DEF TypeEmail
    <3>2. LET v == [ui EXCEPT !.email = email] IN StaffUi(v) /\ v.submitting = ui.submitting
      BY <1>2 DEF StaffUi
    <3> QED BY <3>1, <3>2
  <2>5. CASE CreateAccount /\ ui.email = None
    <3> DEFINE v == [ui EXCEPT !.error = TRUE]
    <3>1. Edit(v) /\ StaffUi(v) /\ v.submitting = ui.submitting
      BY <1>2, <2>5 DEF CreateAccount, StaffUi
    <3> QED BY <3>1
  <2> QED BY <2>1, <2>2, <2>3, <2>4, <2>5
<1>4. \A verb \in {"createStaff"} : Spinning(u, verb) <=> Spinning(ui, verb)
  BY <1>3 DEF Spinning, OrderVerbs, ProductVerbs
<1> QED BY <1>1, <1>3, <1>4, OnScreen, EditKeeps

LEMMA DismissStep ==
    ASSUME ScreensInv, dismissPasswordReveal
    PROVE  ScreensInv'
<1> DEFINE u == [ui EXCEPT !.step = "form"]
<1>1. /\ At("staffList") /\ ui' = u /\ shown' = NotLoaded
      /\ UNCHANGED <<menu, rights, rec, route, mount, side, acked, late, once, calls>>
  BY DEF dismissPasswordReveal
<1>2. StaffUi(ui)
  BY <1>1, OnScreen DEF ScreensInv
<1>3. StaffUi(u) /\ u.submitting = ui.submitting
  BY <1>2 DEF StaffUi
<1> HIDE DEF u
<1>4. \A verb \in {"createStaff"} : Spinning(u, verb) <=> Spinning(ui, verb)
  BY <1>3 DEF Spinning, OrderVerbs, ProductVerbs
<1>5. Reloaded
  BY <1>1 DEF Reloaded, At
<1> QED BY <1>1, <1>3, <1>4, <1>5, OnScreen, EditStep

LEMMA CreateAccountStep ==
    ASSUME ScreensInv, CreateAccount, ui.email # None
    PROVE  ScreensInv'
<1> DEFINE u == [ui EXCEPT !.error = FALSE, !.submitting = TRUE]
<1>1. /\ At("staffList") /\ ~ui.submitting /\ ui' = u
      /\ Submit("createStaff", ui.email, << >>, NotSeen)
  BY DEF CreateAccount, DialogShown
<1>2. StaffUi(ui)
  BY <1>1, OnScreen DEF ScreensInv
<1>3. u.submitting = TRUE /\ StaffUi(u)
  BY <1>2 DEF StaffUi
<1> HIDE DEF u
<1>4. /\ ~Spinning(ui, "createStaff") /\ Spinning(u, "createStaff")
      /\ Group("createStaff") = {"createStaff"}
  BY <1>1, <1>3 DEF Spinning, OrderVerbs, ProductVerbs, Group
<1>5. ui.email \in TargetOf("createStaff")
  BY <1>2 DEF StaffUi, TargetOf, OrderVerbs, ProductVerbs
<1>6. CallSound(NewCall("createStaff", ui.email, << >>, NotSeen))
  <2>1. "createStaff" \in AllVerbs /\ "createStaff" \notin StatusVerbs
    BY DEF AllVerbs, StatusVerbs, OrderVerbs
  <2> QED BY <1>1, <1>5, <2>1, PlainCall, OnScreen, NotSeenIsRef
<1> QED BY <1>1, <1>3, <1>4, <1>6, OnScreen, SubmitStep

LEMMA AccountServedStep ==
    ASSUME ScreensInv, NEW c \in calls, AccountServed(c)
    PROVE  ScreensInv'
<1>1. PICK accepted \in BOOLEAN : Served(c, accepted, c.target, "active", rec[c.target])
  BY DEF AccountServed
<1>2. c.verb = "createStaff"
  BY DEF AccountServed
<1> QED BY <1>1, <1>2, TargetFacts, PlainServedStep

LEMMA AccountAnsweredStep ==
    ASSUME ScreensInv, NEW c \in calls, AccountAnswered(c)
    PROVE  ScreensInv'
<1>1. c.verb = "createStaff" /\ Take(c) /\ calls' = calls \ {c} /\ UNCHANGED <<menu, rights, rec>>
  BY DEF AccountAnswered, Take
<1>2. CASE ~Mounted(c)
  BY <1>1, <1>2, GoneStep DEF AccountAnswered
<1>3. CASE Mounted(c)
  <2>1. At("staffList")
    BY <1>1, <1>3, SenderScreen
  <2>2. StaffUi(ui)
    BY <2>1, OnScreen DEF ScreensInv
  <2>3. PICK u : ui' = u /\ StaffUi(u) /\ u.submitting = FALSE
    BY <1>3, <2>2 DEF AccountAnswered, StaffUi
  <2>4. Shielded(c) /\ UNCHANGED <<route, mount, once>>
    BY <1>3 DEF AccountAnswered, Shielded
  <2>5. ~Spinning(u, "createStaff") /\ Group("createStaff") = {"createStaff"}
    BY <2>3 DEF Spinning, OrderVerbs, ProductVerbs, Group
  <2>6. c.verb \notin Creates
    BY <1>1 DEF Creates
  <2> QED BY <1>1, <1>3, <2>1, <2>3, <2>4, <2>5, <2>6, OnScreen, AnsweredStep DEF Mounted
<1> QED BY <1>2, <1>3
-----------------------------------------------------------------------------
(* One colleague. *)
MemberButtons(u) == u.saving = ui.saving /\ u.deactivating = ui.deactivating

LEMMA MemberEdits ==
    ASSUME ScreensInv,
           openEdit \/ closeEdit \/ ToggleActive \/ AskDeactivate \/ closeDeactivate
    PROVE  ScreensInv'
<1>1. At("staff")
  BY DEF openEdit, closeEdit, ToggleActive, AskDeactivate, closeDeactivate, MemberReady
<1>2. MemberUi(ui)
  BY <1>1, OnScreen DEF ScreensInv
<1>3. PICK u : Edit(u) /\ MemberUi(u) /\ MemberButtons(u)
  <2>1. CASE openEdit
    <3> DEFINE active == Current.status
               v == [ui EXCEPT !.active = active, !.formError = FALSE, !.editing = TRUE]
    <3>1. Edit(v)
      BY <2>1 DEF openEdit
    <3> HIDE DEF active
    <3>2. MemberUi(v) /\ MemberButtons(v)
      BY <1>2 DEF MemberUi, MemberButtons
    <3> QED BY <3>1, <3>2
  <2>2. CASE closeEdit
    <3> DEFINE v == [ui EXCEPT !.editing = FALSE]
    <3>1. Edit(v) /\ MemberUi(v) /\ MemberButtons(v)
      BY <1>2, <2>2 DEF closeEdit, MemberUi, MemberButtons
    <3> QED BY <3>1
  <2>3. CASE ToggleActive
    <3> DEFINE active == IF ui.active = "active" THEN "inactive" ELSE "active"
               v == [ui EXCEPT !.active = active]
    <3>1. Edit(v)
      BY <2>3 DEF ToggleActive
    <3> HIDE DEF active
    <3>2. MemberUi(v) /\ MemberButtons(v)
      BY <1>2 DEF MemberUi, MemberButtons
    <3> QED BY <3>1, <3>2
  <2>4. CASE AskDeactivate
    <3> DEFINE v == [ui EXCEPT !.asking = TRUE, !.deactivateError = FALSE]
    <3>1. Edit(v) /\ MemberUi(v) /\ MemberButtons(v)
      BY <1>2, <2>4 DEF AskDeactivate, MemberUi, MemberButtons
    <3> QED BY <3>1
  <2>5. CASE closeDeactivate
    <3> DEFINE v == [ui EXCEPT !.asking = FALSE]
    <3>1. Edit(v) /\ MemberUi(v) /\ MemberButtons(v)
      BY <1>2, <2>5 DEF closeDeactivate, MemberUi, MemberButtons
    <3> QED BY <3>1
  <2> QED BY <2>1, <2>2, <2>3, <2>4, <2>5
<1>4. \A verb \in {"updateStaff", "deactivate"} : Spinning(u, verb) <=> Spinning(ui, verb)
  BY <1>3 DEF Spinning, OrderVerbs, ProductVerbs, MemberButtons
<1> QED BY <1>1, <1>3, <1>4, OnScreen, EditKeeps

(* The two buttons turn and stop each for itself. *)
MemberMoved(u, verb, turning) ==
    \/ verb = "updateStaff" /\ u.saving = turning /\ u.deactivating = ui.deactivating
    \/ verb = "deactivate" /\ u.deactivating = turning /\ u.saving = ui.saving

LEMMA MemberMovedFacts ==
    ASSUME NEW u, NEW verb, NEW turning \in BOOLEAN, MemberMoved(u, verb, turning)
    PROVE  /\ Spinning(u, verb) <=> turning
           /\ Group(verb) = {verb}
           /\ \A w \in {"updateStaff", "deactivate"} \ {verb} : Spinning(u, w) <=> Spinning(ui, w)
BY DEF MemberMoved, Spinning, OrderVerbs, ProductVerbs, Group

LEMMA MemberButtonsStep ==
    ASSUME ScreensInv, SaveMember \/ Deactivate
    PROVE  ScreensInv'
<1>1. At("staff")
  BY DEF SaveMember, Deactivate, MemberReady
<1>2. MemberUi(ui) /\ route.id \in Members
  BY <1>1, OnScreen, RouteFacts DEF ScreensInv, FrameInv
<1>6. PICK verb \in {"updateStaff", "deactivate"} : \E body, u :
          /\ Submit(verb, route.id, body, NotSeen) /\ ui' = u /\ MemberUi(u)
          /\ ~Spinning(ui, verb) /\ MemberMoved(u, verb, TRUE)
  <2>1. CASE SaveMember
    <3> DEFINE v == [ui EXCEPT !.saving = TRUE, !.formError = FALSE]
    <3>1. ui' = v /\ ~ui.saving
          /\ \E body : Submit("updateStaff", route.id, body, NotSeen)
      BY <2>1 DEF SaveMember
    <3>2. MemberUi(v) /\ MemberMoved(v, "updateStaff", TRUE)
      BY <1>2 DEF MemberUi, MemberMoved
    <3>3. ~Spinning(ui, "updateStaff")
      BY <3>1 DEF Spinning, OrderVerbs, ProductVerbs
    <3>4. PICK body : Submit("updateStaff", route.id, body, NotSeen)
      BY <3>1
    <3> HIDE DEF v
    <3> QED BY <3>1, <3>2, <3>3, <3>4
  <2>2. CASE Deactivate
    <3> DEFINE v == [ui EXCEPT !.deactivating = TRUE]
    <3>1. ui' = v /\ ~ui.deactivating
          /\ \E body : Submit("deactivate", route.id, body, NotSeen)
      BY <2>2 DEF Deactivate
    <3>2. MemberUi(v) /\ MemberMoved(v, "deactivate", TRUE)
      BY <1>2 DEF MemberUi, MemberMoved
    <3>3. ~Spinning(ui, "deactivate")
      BY <3>1 DEF Spinning, OrderVerbs, ProductVerbs
    <3>4. PICK body : Submit("deactivate", route.id, body, NotSeen)
      BY <3>1
    <3> HIDE DEF v
    <3> QED BY <3>1, <3>2, <3>3, <3>4
  <2> QED BY <2>1, <2>2
<1>3. PICK body, u :
          /\ Submit(verb, route.id, body, NotSeen) /\ ui' = u /\ MemberUi(u)
          /\ ~Spinning(ui, verb) /\ MemberMoved(u, verb, TRUE)
  BY <1>6
<1>4. /\ Spinning(u, verb) /\ Group(verb) = {verb}
      /\ \A w \in {"updateStaff", "deactivate"} \ {verb} : Spinning(u, w) <=> Spinning(ui, w)
  BY <1>3, MemberMovedFacts
<1>5. CallSound(NewCall(verb, route.id, body, NotSeen))
  <2>1. /\ verb \in AllVerbs /\ verb \notin StatusVerbs /\ route.id \in TargetOf(verb)
        /\ verb # "place"
    BY <1>2, <1>3 DEF AllVerbs, StatusVerbs, OrderVerbs, ProductVerbs, TargetOf
  <2> QED BY <1>1, <1>3, <2>1, OnScreen, NotSeenIsRef, PlainCall
<1> QED BY <1>1, <1>3, <1>4, <1>5, OnScreen, SubmitStep

LEMMA MemberServedStep ==
    ASSUME ScreensInv, NEW c \in calls, MemberServed(c)
    PROVE  ScreensInv'
<1>1. PICK accepted, status :
          accepted \in BOOLEAN /\ Served(c, accepted, c.target, status, rec[c.target])
  BY DEF MemberServed
<1>2. c.verb \in {"updateStaff", "deactivate"}
  BY DEF MemberServed
<1> QED BY <1>1, <1>2, TargetFacts, PlainServedStep

LEMMA MemberAnsweredStep ==
    ASSUME ScreensInv, NEW c \in calls, MemberSaved(c) \/ MemberDeactivated(c)
    PROVE  ScreensInv'
<1>1. c.verb \in {"updateStaff", "deactivate"} /\ Take(c) /\ calls' = calls \ {c}
      /\ UNCHANGED <<menu, rights, rec>>
  BY DEF MemberSaved, MemberDeactivated, Take
<1>2. CASE ~Mounted(c)
  BY <1>1, <1>2, GoneStep DEF MemberSaved, MemberDeactivated
<1>3. CASE Mounted(c)
  <2>1. At("staff")
    BY <1>1, <1>3, SenderScreen
  <2>2. MemberUi(ui)
    BY <2>1, OnScreen DEF ScreensInv
  <2>3. PICK u : ui' = u /\ MemberUi(u) /\ MemberMoved(u, c.verb, FALSE)
    <3>1. CASE MemberSaved(c)
      <4> DEFINE editing == ui.editing /\ c.state # "ok"
                 formError == ui.formError \/ c.state # "ok"
                 v == [ui EXCEPT !.saving = FALSE, !.editing = editing, !.formError = formError]
      <4>1. ui' = v /\ c.verb = "updateStaff"
        BY <1>3, <3>1 DEF MemberSaved
      <4>2. editing \in BOOLEAN /\ formError \in BOOLEAN
        OBVIOUS
      <4> HIDE DEF editing, formError
      <4>3. MemberUi(v) /\ MemberMoved(v, "updateStaff", FALSE)
        BY <2>2, <4>2 DEF MemberUi, MemberMoved
      <4> HIDE DEF v
      <4> QED BY <4>1, <4>3
    <3>2. CASE MemberDeactivated(c)
      <4> DEFINE error == ui.deactivateError \/ c.state # "ok"
                 v == [ui EXCEPT !.deactivating = FALSE, !.asking = FALSE,
                                 !.deactivateError = error]
      <4>1. ui' = v /\ c.verb = "deactivate"
        BY <1>3, <3>2 DEF MemberDeactivated
      <4>2. error \in BOOLEAN
        OBVIOUS
      <4> HIDE DEF error
      <4>3. MemberUi(v) /\ MemberMoved(v, "deactivate", FALSE)
        BY <2>2, <4>2 DEF MemberUi, MemberMoved
      <4> HIDE DEF v
      <4> QED BY <4>1, <4>3
    <3> QED BY <3>1, <3>2
  <2>4. Shielded(c) /\ UNCHANGED <<route, mount, once>>
    BY <1>3, <2>1 DEF MemberSaved, MemberDeactivated, Shielded, HasSide, At
  <2>5. /\ ~Spinning(u, c.verb) /\ Group(c.verb) = {c.verb}
        /\ \A w \in {"updateStaff", "deactivate"} \ {c.verb} : Spinning(u, w) <=> Spinning(ui, w)
    BY <2>3, MemberMovedFacts
  <2>6. c.verb \notin Creates /\ c.verb # "lookup"
    BY <1>1 DEF Creates
  <2> QED BY <1>1, <1>3, <2>1, <2>3, <2>4, <2>5, <2>6, OnScreen, AnsweredStep DEF Mounted
<1> QED BY <1>2, <1>3
-----------------------------------------------------------------------------
(* The roles. *)
RoleVerbs == {"createRole", "updateRole", "deleteRole"}
RoleButtons(u) == u.saving = ui.saving /\ u.deleting = ui.deleting
RoleMoved(u, verb, turning) ==
    \/ verb \in {"createRole", "updateRole"} /\ u.saving = turning /\ u.deleting = ui.deleting
    \/ verb = "deleteRole" /\ u.deleting = turning /\ u.saving = ui.saving

LEMMA RoleMovedFacts ==
    ASSUME NEW u, NEW verb, NEW turning \in BOOLEAN, RoleMoved(u, verb, turning)
    PROVE  /\ Spinning(u, verb) <=> turning
           /\ \A w \in RoleVerbs \ Group(verb) : Spinning(u, w) <=> Spinning(ui, w)
BY DEF RoleMoved, RoleVerbs, Spinning, OrderVerbs, ProductVerbs, Group

LEMMA RoleEdits ==
    ASSUME ScreensInv,
           \/ openCreate \/ closeRole \/ NameRole \/ closeDelete
           \/ \E r \in Roles : openEditRole(r) \/ AskDelete(r)
           \/ SaveRole /\ ~ui.named
    PROVE  ScreensInv'
<1>1. At("roles")
  BY DEF openCreate, closeRole, NameRole, closeDelete, openEditRole, AskDelete, SaveRole
<1>2. RolesUi(ui)
  BY <1>1, OnScreen DEF ScreensInv
<1>3. PICK u : Edit(u) /\ RolesUi(u) /\ RoleButtons(u)
  <2>1. CASE openCreate
    <3> DEFINE v == [ui EXCEPT !.editing = New, !.named = FALSE, !.formError = FALSE]
    <3>1. Edit(v) /\ RolesUi(v) /\ RoleButtons(v)
      BY <1>2, <2>1 DEF openCreate, RolesUi, RoleButtons
    <3> QED BY <3>1
  <2>2. CASE closeRole
    <3> DEFINE v == [ui EXCEPT !.editing = None]
    <3>1. Edit(v) /\ RolesUi(v) /\ RoleButtons(v)
      BY <1>2, <2>2 DEF closeRole, RolesUi, RoleButtons
    <3> QED BY <3>1
  <2>3. CASE NameRole
    <3> DEFINE named == ~ui.named
               v == [ui EXCEPT !.named = named]
    <3>1. Edit(v) /\ named \in BOOLEAN
      BY <2>3 DEF NameRole
    <3> HIDE DEF named
    <3>2. RolesUi(v) /\ RoleButtons(v)
      BY <1>2, <3>1 DEF RolesUi, RoleButtons
    <3> QED BY <3>1, <3>2
  <2>4. CASE closeDelete
    <3> DEFINE v == [ui EXCEPT !.target = None]
    <3>1. Edit(v) /\ RolesUi(v) /\ RoleButtons(v)
      BY <1>2, <2>4 DEF closeDelete, RolesUi, RoleButtons
    <3> QED BY <3>1
  <2>5. CASE \E r \in Roles : openEditRole(r)
    <3>1. PICK r \in Roles : Edit([ui EXCEPT !.editing = r, !.named = TRUE, !.formError = FALSE])
      BY <2>5 DEF openEditRole
    <3>2. LET v == [ui EXCEPT !.editing = r, !.named = TRUE, !.formError = FALSE] IN
          RolesUi(v) /\ RoleButtons(v)
      BY <1>2 DEF RolesUi, RoleButtons
    <3> QED BY <3>1, <3>2
  <2>6. CASE \E r \in Roles : AskDelete(r)
    <3>1. PICK r \in Roles : Edit([ui EXCEPT !.target = r, !.deleteError = FALSE])
      BY <2>6 DEF AskDelete
    <3>2. LET v == [ui EXCEPT !.target = r, !.deleteError = FALSE] IN
          RolesUi(v) /\ RoleButtons(v)
      BY <1>2 DEF RolesUi, RoleButtons
    <3> QED BY <3>1, <3>2
  <2>7. CASE SaveRole /\ ~ui.named
    <3> DEFINE v == [ui EXCEPT !.formError = TRUE]
    <3>1. Edit(v) /\ RolesUi(v) /\ RoleButtons(v)
      BY <1>2, <2>7 DEF SaveRole, RolesUi, RoleButtons
    <3> QED BY <3>1
  <2> QED BY <2>1, <2>2, <2>3, <2>4, <2>5, <2>6, <2>7
<1>4. \A verb \in RoleVerbs : Spinning(u, verb) <=> Spinning(ui, verb)
  BY <1>3 DEF RoleVerbs, Spinning, OrderVerbs, ProductVerbs, RoleButtons
<1> QED BY <1>1, <1>3, <1>4, OnScreen, EditKeeps DEF RoleVerbs

LEMMA RoleButtonsStep ==
    ASSUME ScreensInv, (SaveRole /\ ui.named) \/ DeleteRole
    PROVE  ScreensInv'
<1>1. At("roles")
  BY DEF SaveRole, DeleteRole
<1>2. RolesUi(ui)
  BY <1>1, OnScreen DEF ScreensInv
<1>3. PICK verb, target, u :
          /\ verb \in RoleVerbs
          /\ Submit(verb, target, << >>, NotSeen) /\ ui' = u /\ RolesUi(u)
          /\ target \in Roles \/ verb = "createRole"
          /\ ~Spinning(ui, verb) /\ RoleMoved(u, verb, TRUE)
  <2>1. CASE SaveRole /\ ui.named
    <3> DEFINE v == [ui EXCEPT !.saving = TRUE, !.formError = FALSE]
               verb == IF ui.editing = New THEN "createRole" ELSE "updateRole"
    <3>1. ui' = v /\ ~ui.saving /\ Submit(verb, ui.editing, << >>, NotSeen) /\ ui.editing # None
      BY <2>1 DEF SaveRole
    <3>2. /\ verb \in {"createRole", "updateRole"}
          /\ ui.editing \in Roles \/ verb = "createRole"
      BY <1>2, <3>1 DEF RolesUi
    <3> HIDE DEF verb
    <3>3. RolesUi(v) /\ RoleMoved(v, verb, TRUE)
      BY <1>2, <3>2 DEF RolesUi, RoleMoved
    <3>4. ~Spinning(ui, verb) /\ verb \in RoleVerbs
      BY <3>1, <3>2 DEF Spinning, OrderVerbs, ProductVerbs, RoleVerbs
    <3> HIDE DEF v
    <3> QED BY <3>1, <3>2, <3>3, <3>4
  <2>2. CASE DeleteRole
    <3> DEFINE v == [ui EXCEPT !.deleting = TRUE]
    <3>1. ui' = v /\ ~ui.deleting /\ Submit("deleteRole", ui.target, << >>, NotSeen)
          /\ ui.target \in Roles
      BY <1>2, <2>2 DEF DeleteRole, RolesUi
    <3>2. RolesUi(v) /\ RoleMoved(v, "deleteRole", TRUE)
      BY <1>2 DEF RolesUi, RoleMoved
    <3>3. ~Spinning(ui, "deleteRole") /\ "deleteRole" \in RoleVerbs
      BY <3>1 DEF Spinning, OrderVerbs, ProductVerbs, RoleVerbs
    <3> HIDE DEF v
    <3> QED BY <3>1, <3>2, <3>3
  <2> QED BY <2>1, <2>2
<1>4. /\ Spinning(u, verb)
      /\ \A w \in RoleVerbs \ Group(verb) : Spinning(u, w) <=> Spinning(ui, w)
  BY <1>3, RoleMovedFacts
<1>5. VerbsOf(route.screen) = RoleVerbs
  BY <1>1, OnScreen DEF RoleVerbs
<1>6. CallSound(NewCall(verb, target, << >>, NotSeen))
  <2>1. /\ verb \in AllVerbs /\ verb \notin StatusVerbs /\ TargetOf(verb) = Roles
        /\ verb # "place"
    BY <1>3 DEF RoleVerbs, AllVerbs, StatusVerbs, OrderVerbs, ProductVerbs, TargetOf
  <2> QED BY <1>3, <1>5, <2>1, NotSeenIsRef, PlainCall
<1>7. verb # "updateProduct"
  BY <1>3 DEF RoleVerbs
<1> QED BY <1>1, <1>3, <1>4, <1>5, <1>6, <1>7, OnScreen, SubmitStep

LEMMA RoleServedStep ==
    ASSUME ScreensInv, NEW c \in calls, RoleServed(c)
    PROVE  ScreensInv'
<1>1. PICK accepted, target, status :
          /\ accepted \in BOOLEAN
          /\ Served(c, accepted, target, status, rec[target])
          /\ target \in Roles /\ c.verb \in RoleVerbs
  <2>1. CASE c.verb = "createRole"
    <3>1. PICK r \in Roles, accepted \in BOOLEAN : Served(c, accepted, r, "known", rec[r])
      BY <2>1 DEF RoleServed
    <3> QED BY <2>1, <3>1 DEF RoleVerbs
  <2>2. CASE c.verb \in {"updateRole", "deleteRole"}
    <3>1. PICK accepted, status :
              /\ accepted \in BOOLEAN
              /\ Served(c, accepted, c.target, status, rec[c.target])
      <4> DEFINE kept == IF c.verb = "deleteRole" THEN "deleted" ELSE "known"
      <4>1. PICK accepted \in {FALSE, rec[c.target].status = "known"} :
                Served(c, accepted, c.target, kept, rec[c.target])
        BY <2>2 DEF RoleServed
      <4>2. accepted \in BOOLEAN
        BY <4>1
      <4> HIDE DEF kept
      <4> QED BY <4>1, <4>2
    <3>2. c.target \in Roles
      BY <2>2, TargetFacts DEF TargetOf, OrderVerbs, ProductVerbs
    <3> QED BY <2>2, <3>1, <3>2 DEF RoleVerbs
  <2> QED BY <2>1, <2>2 DEF RoleServed
<1>2. target \in TargetOf(c.verb)
  BY <1>1 DEF RoleVerbs, TargetOf, OrderVerbs, ProductVerbs
<1> QED BY <1>1, <1>2, PlainServedStep DEF RoleVerbs

LEMMA RoleAnsweredStep ==
    ASSUME ScreensInv, NEW c \in calls, RoleSaved(c) \/ RoleDeleted(c)
    PROVE  ScreensInv'
<1>1. c.verb \in RoleVerbs /\ Take(c) /\ calls' = calls \ {c} /\ UNCHANGED <<menu, rights, rec>>
  BY DEF RoleSaved, RoleDeleted, Take, RoleVerbs
<1>2. CASE ~Mounted(c)
  BY <1>1, <1>2, GoneStep DEF RoleSaved, RoleDeleted
<1>3. CASE Mounted(c)
  <2>1. At("roles")
    BY <1>1, <1>3, SenderScreen DEF RoleVerbs
  <2>2. RolesUi(ui)
    BY <2>1, OnScreen DEF ScreensInv
  <2>3. PICK u : ui' = u /\ RolesUi(u) /\ RoleMoved(u, c.verb, FALSE)
    <3>1. CASE RoleSaved(c)
      <4> DEFINE editing == IF c.state = "ok" THEN None ELSE ui.editing
                 error == ui.formError \/ c.state # "ok"
                 v == [ui EXCEPT !.saving = FALSE, !.editing = editing, !.formError = error]
      <4>1. ui' = v /\ c.verb \in {"createRole", "updateRole"}
        BY <1>3, <3>1 DEF RoleSaved
      <4>2. editing \in Roles \cup {None, New} /\ error \in BOOLEAN
        BY <2>2 DEF RolesUi
      <4> HIDE DEF editing, error
      <4>3. RolesUi(v) /\ RoleMoved(v, c.verb, FALSE)
        BY <2>2, <4>1, <4>2 DEF RolesUi, RoleMoved
      <4> HIDE DEF v
      <4> QED BY <4>1, <4>3
    <3>2. CASE RoleDeleted(c)
      <4> DEFINE error == ui.deleteError \/ c.state # "ok"
                 v == [ui EXCEPT !.deleting = FALSE, !.target = None, !.deleteError = error]
      <4>1. ui' = v /\ c.verb = "deleteRole"
        BY <1>3, <3>2 DEF RoleDeleted
      <4>2. error \in BOOLEAN
        OBVIOUS
      <4> HIDE DEF error
      <4>3. RolesUi(v) /\ RoleMoved(v, "deleteRole", FALSE)
        BY <2>2, <4>2 DEF RolesUi, RoleMoved
      <4> HIDE DEF v
      <4> QED BY <4>1, <4>3
    <3> QED BY <3>1, <3>2
  <2>4. Shielded(c) /\ UNCHANGED <<route, mount, once>>
    BY <1>3, <2>1 DEF RoleSaved, RoleDeleted, Shielded, HasSide, At
  <2>5. /\ ~Spinning(u, c.verb)
        /\ \A w \in RoleVerbs \ Group(c.verb) : Spinning(u, w) <=> Spinning(ui, w)
    BY <2>3, RoleMovedFacts
  <2>6. c.verb \notin Creates /\ c.verb # "lookup"
    BY <1>1 DEF Creates, RoleVerbs
  <2>7. VerbsOf(route.screen) = RoleVerbs
    BY <2>1, OnScreen DEF RoleVerbs
  <2> QED BY <1>1, <1>3, <2>1, <2>3, <2>4, <2>5, <2>6, <2>7, OnScreen, AnsweredStep DEF Mounted
<1> QED BY <1>2, <1>3

LEMMA StaffKeeps ==
    ASSUME ScreensInv, StaffControls \/ \E c \in calls : StaffAnswers(c)
    PROVE  ScreensInv'
<1>1. CASE StaffControls
  BY <1>1, StaffListEdits, DismissStep, CreateAccountStep, MemberEdits, MemberButtonsStep,
     RoleEdits, RoleButtonsStep DEF StaffControls
<1>2. ASSUME NEW c \in calls, StaffAnswers(c) PROVE ScreensInv'
  BY <1>2, AccountServedStep, AccountAnsweredStep, MemberServedStep, MemberAnsweredStep,
     RoleServedStep, RoleAnsweredStep DEF StaffAnswers
<1> QED BY <1>1, <1>2
-----------------------------------------------------------------------------
LEMMA InitInv == Init => ScreensInv
<1> SUFFICES ASSUME Init PROVE ScreensInv
  OBVIOUS
<1>1. PICK tour \in Tours :
          /\ menu = tour.menu /\ rights = tour.rights
          /\ rec = [id \in Ids |-> [status |-> tour.begins[id], version |-> 0, price |-> 5,
                                    images |-> {}, used |-> {}]]
  BY DEF Init
<1>2. /\ route \in menu /\ mount = 0 /\ ui = Fresh(route.screen)
      /\ shown = NotLoaded /\ side = IF HasSide(route.screen) THEN NotLoaded ELSE NotAsked
      /\ calls = {} /\ acked = [id \in Ids |-> 0] /\ late = FALSE /\ once = [made |-> 0, lost |-> 0]
  BY DEF Init
<1>3. route \in Routes
  BY <1>1, <1>2, ScreenAssumption
<1>4. \A id \in Ids : /\ RecordShaped(rec[id]) /\ rec[id].version = 0
                      /\ rec[id].status = tour.begins[id]
  BY <1>1 DEF RecordShaped
<1>5. RecordsInv
  <2>1. /\ \A o \in Orders : tour.begins[o] \in L!Status \cup {None}
        /\ \A p \in Products : tour.begins[p] \in ProductStatuses \cup {None}
    BY ScreensAssumption
  <2>2. rec \in [Ids -> {rec[id] : id \in Ids}]
    BY <1>1
  <2> QED BY <1>4, <2>1, <2>2 DEF RecordsInv, Ids
<1>6. FrameInv
  BY <1>1, <1>2, <1>3 DEF FrameInv, NotLoaded, NotAsked
<1>7. LoadedInv
  BY <1>2, <1>4, NothingLoaded DEF LoadedInv, CopySound, NotLoaded, Ready
<1>8. UiSound(ui) /\ \A verb \in VerbsOf(route.screen) : ~Spinning(ui, verb)
  BY <1>2, <1>3, FreshScreens DEF FreshSound
<1>9. ButtonsInv
  BY <1>2, <1>8 DEF ButtonsInv, Of
<1>10. FormInv
  BY <1>8 DEF FormInv, At, VerbsOf
<1>11. CallsInv /\ OnceInv
  BY <1>2 DEF CallsInv, OnceInv, Made
<1> QED BY <1>5, <1>6, <1>7, <1>8, <1>9, <1>10, <1>11 DEF ScreensInv

LEMMA NextKeepsInv == ScreensInv /\ [Next]_vars => ScreensInv'
<1> SUFFICES ASSUME ScreensInv, [Next]_vars PROVE ScreensInv'
  OBVIOUS
<1>1. CASE UNCHANGED vars
  BY <1>1, EditStep DEF vars, screenVars, Reloaded, ScreensInv
<1>2. CASE Next
  <2>1. CASE Load \/ LoadSide \/ TryAgain
    BY <2>1, LoadStep, LoadSideStep, TryAgainStep
  <2>2. CASE \E r \in menu : Visit(r, Fresh(r.screen))
    BY <2>2, VisitStep
  <2>3. CASE SalesControls \/ \E c \in calls : SalesAnswers(c)
    BY <2>3, SalesKeep
  <2>4. CASE CatalogControls \/ \E c \in calls : CatalogAnswers(c)
    BY <2>4, CatalogKeeps
  <2>5. CASE StaffControls \/ \E c \in calls : StaffAnswers(c)
    BY <2>5, StaffKeeps
  <2>6. CASE \E c \in calls : Lost(c)
    BY <2>6, LostStep
  <2>7. CASE \E id \in Ids : OthersChange(id)
    BY <2>7, OthersStep
  <2> QED BY <1>2, <2>1, <2>2, <2>3, <2>4, <2>5, <2>6, <2>7 DEF Next
<1> QED BY <1>1, <1>2

(* The invariant, for any records, requests, visits and lost answers.       *)
THEOREM ScreensInvariant == Spec => []ScreensInv
BY InitInv, NextKeepsInv, PTL DEF Spec

(* Every state is the state of its own screen, and no service ever holds a  *)
(* status that the screens' tables do not know.                             *)
THEOREM ScreensAreTyped == Spec => []ScreensTypeOK
<1>1. ASSUME ScreensInv PROVE ScreensTypeOK
  <2>1. \A p \in Products : /\ rec[p].images \subseteq rec[p].used
                            /\ rec[p].used \subseteq Images
    <3>1. \A p \in Products : RecordShaped(rec[p])
      BY <1>1 DEF ScreensInv, RecordsInv, Ids
    <3> QED BY <3>1 DEF RecordShaped
  <2>2. ui = << >> \/ DOMAIN ui = DOMAIN Fresh(route.screen)
    <3>1. UiSound(ui) /\ route \in Routes
      BY <1>1 DEF ScreensInv, FrameInv
    <3>2. At("order") => DOMAIN ui = {"asking", "busy", "failure"}
      BY <3>1 DEF UiSound, OrderUi
    <3>3. At("newOrder") => DOMAIN ui = {"customer", "lines", "placing", "failure"}
      BY <3>1 DEF UiSound, NewOrderUi
    <3>4. At("customers") => DOMAIN ui = {"adding", "email", "emailError", "failure", "saving"}
      BY <3>1 DEF UiSound, CustomersUi
    <3>5. At("product") => DOMAIN ui = {"confirm", "busy", "failure", "retried"}
      BY <3>1 DEF UiSound, ProductUi
    <3>6. At("newProduct") \/ At("editProduct") =>
              DOMAIN ui = {"price", "touched", "complete", "from", "saving", "failure"}
      BY <3>1 DEF UiSound, FormUi, At
    <3>7. At("staffList") => DOMAIN ui = {"open", "step", "email", "submitting", "error",
                                          "password", "acknowledged", "owed"}
      BY <3>1 DEF UiSound, StaffUi
    <3>8. At("staff") => DOMAIN ui = {"editing", "active", "saving", "formError", "asking",
                                      "deactivating", "deactivateError"}
      BY <3>1 DEF UiSound, MemberUi
    <3>9. At("roles") => DOMAIN ui = {"editing", "named", "saving", "formError", "target",
                                      "deleting", "deleteError"}
      BY <3>1 DEF UiSound, RolesUi
    <3>10. At("elsewhere") => ui = << >>
      BY <3>1 DEF UiSound
    <3> QED BY <3>1, <3>2, <3>3, <3>4, <3>5, <3>6, <3>7, <3>8, <3>9, <3>10, RouteFacts
            DEF Fresh, At, OrderScreen, NewOrder, CustomersScreen, ProductScreen, EmptyForm,
                StaffScreen, MemberScreen, RolesScreen
  <2>3. \A c \in calls : c.from \in 0..mount /\ c.state \in {"sent", "ok", "refused", "lost"}
    BY <1>1 DEF ScreensInv, CallsInv, CallSound, CallShaped
  <2> QED BY <1>1, <2>1, <2>2, <2>3 DEF ScreensInv, RecordsInv, FrameInv, ScreensTypeOK
<1> QED BY <1>1, ScreensInvariant, PTL

(* orders.ts, ProductDetail.tsx: to a person with the permission a button   *)
(* is offered only for a move the service's own table accepts, so a refusal *)
(* means that somebody was faster, or that a dialog outlived its record.    *)
THEOREM RefusalsAreOutdated == Spec => []RefusedOnlyWhenOutdated
<1>1. ScreensInv => RefusedOnlyWhenOutdated
  <2> SUFFICES ASSUME ScreensInv, NEW c \in calls, c.state = "refused", May(c.verb),
                      c.verb \in OrderVerbs \cup {"activate", "archive"},
                      c.seen.version = c.at
               PROVE  c.seen.id # c.target /\ c.verb \in {"cancel", "refund", "archive"}
    BY DEF RefusedOnlyWhenOutdated
  <2>1. CallSound(c)
    BY DEF ScreensInv, CallsInv
  <2>2. c.seen.id # c.target
    BY <2>1 DEF CallSound, StatusVerbs
  <2>3. c.verb \notin {"advance", "activate"}
    BY <2>1, <2>2 DEF CallSound
  <2> QED BY <2>2, <2>3 DEF OrderVerbs
<1> QED BY <1>1, ScreensInvariant, PTL

(* orders.ts and order/lifecycle.go: the mirrored table has a button for    *)
(* every move of the service's, so that none waits for somebody else.       *)
THEOREM NoMoveIsHidden == Spec => []EveryMoveHasAButton
<1>1. ASSUME ScreensInv PROVE EveryMoveHasAButton
  <2> SUFFICES ASSUME OrderReady
               PROVE  MovesOffered(Current.status) = L!transitions[Current.status]
    BY DEF EveryMoveHasAButton
  <2>1. Current.status \in L!Status
    BY <1>1, CurrentFacts DEF OrderReady
  <2> QED BY <2>1 DEF MovesOffered, nextStatus, forward, canCancel, canRefund, None,
                      L!Status, L!transitions
<1> QED BY <1>1, ScreensInvariant, PTL

(* The pages of a record and the lists read again what they are told to     *)
(* have changed, history and images included, before they show it; a page   *)
(* that was open when a form's answer came does not, until it is left.      *)
THEOREM ScreensShowTheirChanges == Spec => []ShowsItsChanges
<1>1. ASSUME ScreensInv PROVE ShowsItsChanges
  <2> SUFFICES ASSUME NEW copy \in {DetailsShown, ListShown}, NEW id \in DOMAIN copy
               PROVE  late \/ copy[id].version >= acked[id]
    BY DEF ShowsItsChanges
  <2>1. copy = shown.copy \/ copy = side.copy \/ copy = << >>
    BY DEF DetailsShown, ListShown
  <2> QED BY <1>1, <2>1 DEF ScreensInv, LoadedInv, CopySound
<1> QED BY <1>1, ScreensInvariant, PTL

(* Button.tsx and the `finally` of every handler: a button turns exactly    *)
(* while one request of its own is on its way.                              *)
THEOREM ButtonsTurnForOneRequest == Spec => []OneRequestPerButton
<1>1. ASSUME ScreensInv, NEW spinner \in Spinners
      PROVE  \E verb \in VerbsOf(route.screen) :
                 /\ spinner[2] = Group(verb) /\ spinner[1] \in BOOLEAN
                 /\ Spinning(ui, verb) <=> spinner[1]
  <2>1. UiSound(ui) /\ route \in Routes
    BY <1>1 DEF ScreensInv, FrameInv
  <2>2. CASE At("order")
    <3>1. spinner = <<ui.busy, OrderVerbs>> /\ "advance" \in VerbsOf(route.screen)
      BY <1>1, <2>2, OnScreen DEF Spinners, OrderVerbs
    <3>2. ui.busy \in BOOLEAN
      BY <2>1, <2>2 DEF UiSound, OrderUi
    <3>3. Group("advance") = OrderVerbs /\ (Spinning(ui, "advance") <=> ui.busy)
      BY <3>2 DEF Group, Spinning, OrderVerbs, ProductVerbs
    <3> QED BY <3>1, <3>2, <3>3
  <2>3. CASE At("newOrder")
    <3>1. spinner = <<ui.placing, {"place"}>> /\ "place" \in VerbsOf(route.screen)
      BY <1>1, <2>3, OnScreen DEF Spinners, At
    <3>2. ui.placing \in BOOLEAN
      BY <2>1, <2>3 DEF UiSound, NewOrderUi
    <3>3. Group("place") = {"place"} /\ (Spinning(ui, "place") <=> ui.placing)
      BY <3>2 DEF Group, Spinning, OrderVerbs, ProductVerbs
    <3> QED BY <3>1, <3>2, <3>3
  <2>4. CASE At("customers")
    <3>1. spinner = <<ui.saving, {"addCustomer"}>> /\ "addCustomer" \in VerbsOf(route.screen)
      BY <1>1, <2>4, OnScreen DEF Spinners, At
    <3>2. ui.saving \in BOOLEAN
      BY <2>1, <2>4 DEF UiSound, CustomersUi
    <3>3. Group("addCustomer") = {"addCustomer"} /\ (Spinning(ui, "addCustomer") <=> ui.saving)
      BY <3>2 DEF Group, Spinning, OrderVerbs, ProductVerbs
    <3> QED BY <3>1, <3>2, <3>3
  <2>5. CASE At("product")
    <3>1. spinner = <<ui.busy, ProductVerbs>> /\ "upload" \in VerbsOf(route.screen)
      BY <1>1, <2>5, OnScreen DEF Spinners, At, ProductVerbs
    <3>2. ui.busy \in BOOLEAN
      BY <2>1, <2>5 DEF UiSound, ProductUi
    <3>3. Group("upload") = ProductVerbs /\ (Spinning(ui, "upload") <=> ui.busy)
      BY <3>2 DEF Group, Spinning, OrderVerbs, ProductVerbs
    <3> QED BY <3>1, <3>2, <3>3
  <2>6. CASE At("newProduct") \/ At("editProduct")
    <3>1. PICK verb \in {"createProduct", "updateProduct"} :
              spinner = <<ui.saving, {verb}>> /\ verb \in VerbsOf(route.screen)
      BY <1>1, <2>6, OnScreen DEF Spinners, At
    <3>2. ui.saving \in BOOLEAN
      BY <2>1, <2>6 DEF UiSound, FormUi, At
    <3>3. Group(verb) = {verb} /\ (Spinning(ui, verb) <=> ui.saving)
      BY <3>2 DEF Group, Spinning, OrderVerbs, ProductVerbs
    <3> QED BY <3>1, <3>2, <3>3
  <2>7. CASE At("staffList")
    <3>1. spinner = <<ui.submitting, {"createStaff"}>> /\ "createStaff" \in VerbsOf(route.screen)
      BY <1>1, <2>7, OnScreen DEF Spinners, At
    <3>2. ui.submitting \in BOOLEAN
      BY <2>1, <2>7 DEF UiSound, StaffUi
    <3>3. Group("createStaff") = {"createStaff"} /\ (Spinning(ui, "createStaff") <=> ui.submitting)
      BY <3>2 DEF Group, Spinning, OrderVerbs, ProductVerbs
    <3> QED BY <3>1, <3>2, <3>3
  <2>8. CASE At("staff")
    <3>1. spinner \in {<<ui.saving, {"updateStaff"}>>, <<ui.deactivating, {"deactivate"}>>}
          /\ VerbsOf(route.screen) = {"updateStaff", "deactivate"}
      BY <1>1, <2>8, OnScreen DEF Spinners, At
    <3>2. ui.saving \in BOOLEAN /\ ui.deactivating \in BOOLEAN
      BY <2>1, <2>8 DEF UiSound, MemberUi
    <3>3. /\ Group("updateStaff") = {"updateStaff"} /\ (Spinning(ui, "updateStaff") <=> ui.saving)
          /\ Group("deactivate") = {"deactivate"}
          /\ (Spinning(ui, "deactivate") <=> ui.deactivating)
      BY <3>2 DEF Group, Spinning, OrderVerbs, ProductVerbs
    <3> QED BY <3>1, <3>2, <3>3
  <2>9. CASE At("roles")
    <3>1. spinner \in {<<ui.saving, {"createRole", "updateRole"}>>,
                       <<ui.deleting, {"deleteRole"}>>}
          /\ VerbsOf(route.screen) = RoleVerbs
      BY <1>1, <2>9, OnScreen DEF Spinners, At, RoleVerbs
    <3>2. ui.saving \in BOOLEAN /\ ui.deleting \in BOOLEAN
      BY <2>1, <2>9 DEF UiSound, RolesUi
    <3>3. /\ Group("createRole") = {"createRole", "updateRole"}
          /\ (Spinning(ui, "createRole") <=> ui.saving)
          /\ Group("deleteRole") = {"deleteRole"} /\ (Spinning(ui, "deleteRole") <=> ui.deleting)
      BY <3>2 DEF Group, Spinning, OrderVerbs, ProductVerbs
    <3> QED BY <3>1, <3>2, <3>3 DEF RoleVerbs
  <2>10. CASE At("elsewhere")
    BY <1>1, <2>10 DEF Spinners, At
  <2> QED BY <2>1, <2>2, <2>3, <2>4, <2>5, <2>6, <2>7, <2>8, <2>9, <2>10, RouteFacts DEF At
<1>2. ASSUME ScreensInv PROVE OneRequestPerButton
  <2> SUFFICES ASSUME NEW spinner \in Spinners
               PROVE  Cardinality({c \in calls : c.from = mount /\ c.verb \in spinner[2]})
                          = IF spinner[1] THEN 1 ELSE 0
    BY DEF OneRequestPerButton
  <2>1. PICK verb \in VerbsOf(route.screen) :
            /\ spinner[2] = Group(verb) /\ spinner[1] \in BOOLEAN
            /\ Spinning(ui, verb) <=> spinner[1]
    BY <1>1, <1>2
  <2>2. {c \in calls : c.from = mount /\ c.verb \in spinner[2]} = Of(verb)
    BY <2>1 DEF Of
  <2>3. IF spinner[1] THEN \E c \in calls : Of(verb) = {c} ELSE Of(verb) = {}
    BY <1>2, <2>1 DEF ScreensInv, ButtonsInv
  <2> QED BY <2>2, <2>3, FS_EmptySet, FS_Singleton
<1> QED BY <1>2, ScreensInvariant, PTL

(* OrderCreate.tsx, ProductForm.tsx: a form that nobody fills again makes   *)
(* one record, or as many more as answers it lost.                          *)
THEOREM FormsCreateOnce == Spec => []CreatesOnce
<1>1. ScreensInv => CreatesOnce
  BY DEF ScreensInv, OnceInv, CreatesOnce
<1> QED BY <1>1, ScreensInvariant, PTL

(* OrderCreate.tsx: whatever is added, typed and removed, the lines of an   *)
(* order that is sent are of distinct products, of one currency and of at   *)
(* least one piece each.                                                    *)
THEOREM OrdersSentAreWellFormed == Spec => []OrdersAreWellFormed
<1>1. ASSUME ScreensInv PROVE OrdersAreWellFormed
  <2> SUFFICES ASSUME NEW c \in calls, c.verb = "place"
               PROVE  /\ c.body.lines # << >>
                      /\ \A i, j \in DOMAIN c.body.lines :
                            /\ c.body.lines[i].quantity >= OnePiece
                            /\ Currency[c.body.lines[i].product]
                                   = Currency[c.body.lines[j].product]
                            /\ c.body.lines[i].product = c.body.lines[j].product => i = j
    BY DEF OrdersAreWellFormed
  <2>1. OrderSound(c.body.lines)
    BY <1>1 DEF ScreensInv, CallsInv, CallSound
  <2>2. \A i \in DOMAIN c.body.lines : c.body.lines[i] \in Line
    BY <2>1 DEF OrderSound, LinesSound
  <2>3. \A i \in DOMAIN c.body.lines : c.body.lines[i].quantity >= OnePiece
    BY <2>2 DEF Line, Quantity
  <2> QED BY <2>1, <2>3 DEF OrderSound, LinesSound
<1> QED BY <1>1, ScreensInvariant, PTL
-----------------------------------------------------------------------------
(* Prices.  What is typed or filled in can be read, and is then no amount   *)
(* or a natural number of minor units.                                      *)
Legible(text) == text \in {Blank, Unreadable} \/ text \in Readable

NumberOf(f, digits) ==
    f = [i \in 0..Len(digits) |-> IF i = 0 THEN 0 ELSE 10 * f[i - 1] + digits[i]]

(* The number that digits make, read digit by digit. *)
LEMMA NumberExists ==
    ASSUME NEW s \in Seq(Nat)
    PROVE  \E f : NumberOf(f, s) /\ Number(s) = f[Len(s)] /\ f \in [0..Len(s) -> Nat]
<1> DEFINE Step(f, i) == IF i = 0 THEN 0 ELSE 10 * f[i - 1] + s[i]
           Upto(f, m) == f \in [0..m -> Nat] /\ \A i \in 0..m : f[i] = Step(f, i)
           B == {m \in Nat : m =< Len(s) /\ ~\E f : Upto(f, m)}
<1>1. Len(s) \in Nat /\ \A i \in 1..Len(s) : s[i] \in Nat
  OBVIOUS
<1>2. ASSUME B # {} PROVE FALSE
  <2>1. PICK m \in B : \A n \in B : m =< n
    <3>1. B \subseteq Nat
      OBVIOUS
    <3> HIDE DEF B
    <3> QED BY <1>2, <3>1, LeastNatural
  <2>2. m \in Nat /\ m =< Len(s) /\ ~\E f : Upto(f, m)
    BY <2>1
  <2>3. CASE m = 0
    <3>1. Upto([i \in 0..0 |-> 0], 0)
      OBVIOUS
    <3> QED BY <2>2, <2>3, <3>1
  <2>4. CASE m # 0
    <3>1. m - 1 \in Nat /\ ~(m =< m - 1) /\ m - 1 =< Len(s) /\ m \in 1..Len(s)
      BY <1>1, <2>2, <2>4
    <3>0. m - 1 \notin B
      <4> HIDE DEF B
      <4> QED BY <2>1, <3>1
    <3>2. PICK f : Upto(f, m - 1)
      BY <3>0, <3>1
    <3> DEFINE g == [i \in 0..m |-> IF i = m THEN Step(f, m) ELSE f[i]]
    <3>3. m - 1 \in 0..(m - 1) /\ f[m - 1] \in Nat /\ Step(f, m) \in Nat
      BY <1>1, <2>2, <2>4, <3>1, <3>2
    <3>4. \A i \in 0..m : i = m \/ i \in 0..(m - 1)
      BY <2>2
    <3>5. g \in [0..m -> Nat]
      BY <3>2, <3>3, <3>4
    <3>6. \A i \in 0..m : i # 0 => i - 1 \in 0..m /\ i - 1 # m
      BY <2>2
    <3>7. \A i \in 0..m : g[i] = Step(g, i)
      <4> SUFFICES ASSUME NEW i \in 0..m PROVE g[i] = Step(g, i)
        OBVIOUS
      <4>1. i # 0 => g[i - 1] = f[i - 1]
        BY <3>6
      <4>2. Step(g, i) = Step(f, i)
        BY <4>1
      <4>3. i # m => f[i] = Step(f, i)
        BY <3>2, <3>4
      <4> HIDE DEF Step
      <4> QED BY <4>2, <4>3
    <3> QED BY <2>2, <3>5, <3>7
  <2> QED BY <2>3, <2>4
<1>3. PICK f : Upto(f, Len(s))
  <2>1. Len(s) \notin B
    <3> HIDE DEF B
    <3> QED BY <1>2
  <2>2. Len(s) =< Len(s)
    BY <1>1
  <2> HIDE DEF Upto
  <2> QED BY <1>1, <2>1, <2>2
<1>4. NumberOf(f, s)
  BY <1>3 DEF NumberOf
<1> DEFINE h == CHOOSE number : NumberOf(number, s)
<1>5. NumberOf(h, s)
  BY <1>4
<1>6. Number(s) = h[Len(s)]
  BY DEF Number, NumberOf
<1> HIDE DEF h, B
<1>7. h \in [0..Len(s) -> Nat]
  <2> DEFINE C == {m \in Nat : m =< Len(s) /\ h[m] \notin Nat}
  <2>1. ASSUME C # {} PROVE FALSE
    <3>1. PICK m \in C : \A n \in C : m =< n
      <4>1. C \subseteq Nat
        OBVIOUS
      <4> HIDE DEF C
      <4> QED BY <2>1, <4>1, LeastNatural
    <3>2. m \in 0..Len(s) /\ h[m] \notin Nat
      BY <1>1, <3>1
    <3>3. h[m] = Step(h, m)
      BY <1>5, <3>2 DEF NumberOf
    <3>4. m # 0 => m - 1 \in Nat /\ m - 1 \notin C /\ m - 1 =< Len(s) /\ s[m] \in Nat
      BY <1>1, <3>1, <3>2
    <3>5. m # 0 => h[m - 1] \in Nat
      BY <3>4
    <3> QED BY <3>2, <3>3, <3>4, <3>5
  <2>2. \A i \in 0..Len(s) : h[i] \in Nat
    BY <1>1, <2>1
  <2> QED BY <1>5, <2>2 DEF NumberOf
<1> QED BY <1>5, <1>6, <1>7

LEMMA NumberSteps ==
    ASSUME NEW s \in Seq(Nat)
    PROVE  /\ Number(s) \in Nat
           /\ Len(s) = 0 => Number(s) = 0
           /\ Len(s) = 1 => Number(s) = s[1]
           /\ Len(s) = 2 => Number(s) = 10 * s[1] + s[2]
           /\ Len(s) = 3 => Number(s) = 10 * (10 * s[1] + s[2]) + s[3]
           /\ Len(s) = 4 => Number(s) = 10 * (10 * (10 * s[1] + s[2]) + s[3]) + s[4]
<1>1. PICK f : NumberOf(f, s) /\ Number(s) = f[Len(s)] /\ f \in [0..Len(s) -> Nat]
  BY NumberExists
<1>2. Len(s) \in Nat /\ \A i \in 1..Len(s) : s[i] \in Nat
  OBVIOUS
<1>3. \A i \in 0..Len(s) : f[i] = IF i = 0 THEN 0 ELSE 10 * f[i - 1] + s[i]
  BY <1>1 DEF NumberOf
<1>4. f[0] = 0 /\ Number(s) \in Nat
  <2>1. 0 \in 0..Len(s) /\ Len(s) \in 0..Len(s)
    BY <1>2
  <2> QED BY <1>1, <1>3, <2>1
<1>5. Len(s) >= 1 => f[1] = s[1] /\ s[1] \in Nat
  BY <1>2, <1>3, <1>4
<1>6. Len(s) >= 2 => f[2] = 10 * f[1] + s[2]
  BY <1>2, <1>3
<1>7. Len(s) >= 3 => f[3] = 10 * f[2] + s[3]
  BY <1>2, <1>3
<1>8. Len(s) >= 4 => f[4] = 10 * f[3] + s[4]
  BY <1>2, <1>3
<1>9. Len(s) = 0 => Number(s) = 0
  BY <1>1, <1>4
<1>10. Len(s) = 1 => Number(s) = s[1]
  BY <1>1, <1>5
<1>11. Len(s) = 2 => Number(s) = 10 * s[1] + s[2]
  BY <1>1, <1>5, <1>6
<1>12. Len(s) = 3 => Number(s) = 10 * (10 * s[1] + s[2]) + s[3]
  BY <1>1, <1>5, <1>6, <1>7
<1>13. Len(s) = 4 => Number(s) = 10 * (10 * (10 * s[1] + s[2]) + s[3]) + s[4]
  BY <1>1, <1>5, <1>6, <1>7, <1>8
<1> QED BY <1>4, <1>9, <1>10, <1>11, <1>12, <1>13

(* Ten to the number of a currency's decimals. *)
Scale(digits) == 10^digits
LEMMA Scales ==
    /\ Scale(0) = 1 /\ Scale(1) = 10 /\ Scale(2) = 100 /\ Scale(3) = 1000 /\ Scale(4) = 10000
    /\ \A digits \in 0..4 : Scale(digits) \in {1, 10, 100, 1000, 10000}
    /\ \A k, digits \in 0..4 : k =< digits => Scale(k) =< Scale(digits)
<1>1. /\ Scale(0) = 1 /\ Scale(1) = 10 /\ Scale(2) = 100 /\ Scale(3) = 1000
      /\ Scale(4) = 10000
  BY DEF Scale
<1>2. \A digits \in 0..4 : digits = 0 \/ digits = 1 \/ digits = 2 \/ digits = 3 \/ digits = 4
  OBVIOUS
<1> QED BY <1>1, <1>2

LEMMA ParsedIsNatural ==
    ASSUME NEW text, Legible(text), NEW digits \in 0..4
    PROVE  parseMoney(text, digits) \in Nat \cup {NoPrice}
<1>1. CASE text \in {Blank, Unreadable}
  BY <1>1 DEF parseMoney
<1>2. CASE text \notin {Blank, Unreadable}
  <2>1. text.whole \in Nat /\ text.fraction \in Seq(0..9)
    BY <1>2 DEF Legible, Readable
  <2> DEFINE pad == padEnd(text.fraction, digits)
  <2>2. pad \in Seq(Nat)
    <3>1. \A i \in 1..digits : pad[i] \in Nat
      BY <2>1 DEF padEnd
    <3>2. pad = [i \in 1..digits |-> pad[i]] /\ digits \in Nat
      BY DEF padEnd
    <3> HIDE DEF pad
    <3> QED BY <3>1, <3>2
  <2>3. Number(pad) \in Nat
    BY <2>2, NumberSteps
  <2>4. Scale(digits) \in Nat
    <3>1. Scale(digits) \in {1, 10, 100, 1000, 10000}
      BY Scales
    <3> QED BY ONLY <3>1
  <2> HIDE DEF pad
  <2>5. text.whole * Scale(digits) + Number(pad) \in Nat
    BY <2>1, <2>3, <2>4
  <2> QED BY <2>5 DEF parseMoney, pad, Scale
<1> QED BY <1>1, <1>2

(* A form shows the amount as the pages do, and reads the same back.        *)
LEMMA MoneySurvives ==
    ASSUME NEW minor \in Nat, NEW digits \in 0..4
    PROVE  /\ formatMoney(minor, digits) = moneyInputValue(minor, digits)
           /\ parseMoney(moneyInputValue(minor, digits), digits) = minor
           /\ Legible(moneyInputValue(minor, digits))
<1> DEFINE text == moneyInputValue(minor, digits)
           s == text.fraction
<1>0. digits = 0 \/ digits = 1 \/ digits = 2 \/ digits = 3 \/ digits = 4
  OBVIOUS
<1>1. /\ text.whole = minor \div Scale(digits)
      /\ s = [i \in 1..digits |-> (minor \div Scale(digits - i)) % 10]
  BY DEF moneyInputValue, Scale
<1>2. minor \div Scale(digits) \in Nat
  <2>1. minor \in Nat /\ Scale(digits) \in {1, 10, 100, 1000, 10000}
    BY Scales
  <2> QED BY ONLY <2>1
<1>3. \A i \in 1..digits : (minor \div Scale(digits - i)) % 10 \in 0..9
  <2> SUFFICES ASSUME NEW i \in 1..digits PROVE (minor \div Scale(digits - i)) % 10 \in 0..9
    OBVIOUS
  <2>1. digits - i \in 0..4
    OBVIOUS
  <2>2. minor \in Nat /\ Scale(digits - i) \in {1, 10, 100, 1000, 10000}
    BY <2>1, Scales
  <2> QED BY ONLY <2>2
<1>4. s \in Seq(0..9) /\ s \in Seq(Nat) /\ Len(s) = digits
  <2> HIDE DEF s
  <2> QED BY <1>1, <1>3
<1>5. text \in Readable
  BY <1>1, <1>2, <1>4 DEF moneyInputValue, Readable
<1>6. text \notin {Blank, Unreadable}
  BY <1>1, <1>2 DEF Blank, Unreadable
<1>7. padEnd(s, digits) = s
  <2> HIDE DEF s
  <2>1. s = [i \in 1..digits |-> s[i]]
    BY <1>1
  <2> QED BY <1>4, <2>1 DEF padEnd
<1>8. parseMoney(text, digits) = text.whole * Scale(digits) + Number(s)
  BY <1>4, <1>6, <1>7 DEF parseMoney, Scale
<1>9. (minor \div Scale(digits)) * Scale(digits) + Number(s) = minor
  <2> HIDE DEF s, text
  <2>1. CASE digits = 0
    <3>1. Number(s) = 0
      BY <1>4, <2>1, NumberSteps
    <3>2. Scale(digits) = 1
      BY <2>1, Scales
    <3> QED BY ONLY <3>1, <3>2, minor \in Nat
  <2>2. CASE digits = 1
    <3>1. s[1] = (minor % 10)
      BY <1>1, <2>2, Scales
    <3>2. Number(s) = s[1]
      BY <1>4, <2>2, NumberSteps
    <3>3. Scale(digits) = 10
      BY <2>2, Scales
    <3> QED BY ONLY <3>1, <3>2, <3>3, minor \in Nat
  <2>3. CASE digits = 2
    <3>1. s[1] = (minor \div 10) % 10 /\ s[2] = minor % 10
      BY <1>1, <2>3, Scales
    <3>2. Number(s) = 10 * s[1] + s[2]
      BY <1>4, <2>3, NumberSteps
    <3>3. Scale(digits) = 100
      BY <2>3, Scales
    <3> QED BY ONLY <3>1, <3>2, <3>3, minor \in Nat
  <2>4. CASE digits = 3
    <3>1. s[1] = (minor \div 100) % 10 /\ s[2] = (minor \div 10) % 10 /\ s[3] = minor % 10
      BY <1>1, <2>4, Scales
    <3>2. Number(s) = 10 * (10 * s[1] + s[2]) + s[3]
      BY <1>4, <2>4, NumberSteps
    <3>3. Scale(digits) = 1000
      BY <2>4, Scales
    <3> QED BY ONLY <3>1, <3>2, <3>3, minor \in Nat
  <2>5. CASE digits = 4
    <3>1. /\ s[1] = (minor \div 1000) % 10 /\ s[2] = (minor \div 100) % 10
          /\ s[3] = (minor \div 10) % 10 /\ s[4] = minor % 10
      BY <1>1, <2>5, Scales
    <3>2. Number(s) = 10 * (10 * (10 * s[1] + s[2]) + s[3]) + s[4]
      BY <1>4, <2>5, NumberSteps
    <3>3. Scale(digits) = 10000
      BY <2>5, Scales
    <3> QED BY ONLY <3>1, <3>2, <3>3, minor \in Nat
  <2> QED BY <1>0, <2>1, <2>2, <2>3, <2>4, <2>5
<1>10. formatMoney(minor, digits) = text
  <2>1. (minor - (minor % Scale(digits))) \div Scale(digits) = minor \div Scale(digits)
    <3>1. minor \in Nat /\ Scale(digits) \in {1, 10, 100, 1000, 10000}
      BY Scales
    <3> QED BY ONLY <3>1
  <2>2. \A i \in 1..digits : ((minor % Scale(digits)) % Scale(digits - i + 1)) \div Scale(digits - i)
                             = (minor \div Scale(digits - i)) % 10
    <3> SUFFICES ASSUME NEW i \in 1..digits
                 PROVE  ((minor % Scale(digits)) % Scale(digits - i + 1)) \div Scale(digits - i)
                        = (minor \div Scale(digits - i)) % 10
      OBVIOUS
    <3>1. digits - i \in 0..3 /\ i \in 1..4
      OBVIOUS
    <3>2. \/ Scale(digits - i) = 1 /\ Scale(digits - i + 1) = 10
          \/ Scale(digits - i) = 10 /\ Scale(digits - i + 1) = 100
          \/ Scale(digits - i) = 100 /\ Scale(digits - i + 1) = 1000
          \/ Scale(digits - i) = 1000 /\ Scale(digits - i + 1) = 10000
      <4> DEFINE k == digits - i
      <4>1. k \in 0..3
        BY <3>1
      <4> HIDE DEF k
      <4>2. \/ k = 0 /\ k + 1 = 1
            \/ k = 1 /\ k + 1 = 2
            \/ k = 2 /\ k + 1 = 3
            \/ k = 3 /\ k + 1 = 4
        BY <4>1
      <4>3. \/ Scale(k) = 1 /\ Scale(k + 1) = 10
            \/ Scale(k) = 10 /\ Scale(k + 1) = 100
            \/ Scale(k) = 100 /\ Scale(k + 1) = 1000
            \/ Scale(k) = 1000 /\ Scale(k + 1) = 10000
        BY <4>2, Scales
      <4> QED BY <4>3 DEF k
    <3>3. digits - i + 1 \in 1..digits
      OBVIOUS
    <3>4. minor \in Nat /\ Scale(digits) \in {1, 10, 100, 1000, 10000}
      BY Scales
    <3>5. Scale(digits) \in {10, 100, 1000, 10000}
      BY Scales
    <3>6. Scale(digits - i + 1) =< Scale(digits)
      BY <3>1, <3>3, Scales
    <3> QED BY ONLY <3>2, <3>4, <3>5, <3>6
  <2> QED BY <2>1, <2>2 DEF formatMoney, moneyInputValue, Scale
<1> QED BY <1>1, <1>5, <1>8, <1>9, <1>10 DEF Legible
-----------------------------------------------------------------------------
(* What the requests of a form carry, what is on it, and what it was filled *)
(* from.                                                                    *)
FormVerbs == {"createProduct", "updateProduct"}
AtForm == At("newProduct") \/ At("editProduct")
RecordsPriced == \A id \in Ids : rec[id].price \in Nat
CallsPriced == \A c \in calls : c.verb \in FormVerbs => c.body.price \in Nat \cup {NoPrice}
FormFilled ==
    /\ AtForm => Legible(ui.price)
    /\ At("editProduct") /\ Ready =>
          /\ ui.from = Current.price /\ ui.from \in Nat
          /\ ~ui.touched => ui.price = moneyInputValue(ui.from, Digits[route.id])
PricesInv == RecordsPriced /\ CallsPriced /\ FormFilled

(* The requests are those of before, answered or not, and others that no    *)
(* form has sent.                                                           *)
CallsKept ==
    \A d \in calls' : d.verb \in FormVerbs => \E c \in calls : d.verb = c.verb /\ d.body = c.body

LEMMA KeptCallsArePriced == ASSUME CallsPriced, CallsKept PROVE CallsPriced'
BY DEF CallsPriced, CallsKept

LEMMA FewerCalls == ASSUME calls' \subseteq calls PROVE CallsKept
BY DEF CallsKept

LEMMA SentCalls ==
    ASSUME NEW verb, NEW target, NEW body, NEW seen, Send(verb, target, body, seen)
    PROVE  /\ verb \notin FormVerbs => CallsKept
           /\ CallsPriced /\ body.price \in Nat \cup {NoPrice} => CallsPriced'
<1>1. PICK new : calls' = calls \cup {new} /\ new.verb = verb /\ new.body = body
  <2> DEFINE c == [n |-> CHOOSE k \in 1..MaxInFlight : \A d \in calls : d.n # k, from |-> mount,
                   verb |-> verb, target |-> target, body |-> body, seen |-> seen,
                   state |-> "sent", at |-> 0]
  <2>1. calls' = calls \cup {c}
    BY DEF Send
  <2>2. c.verb = verb /\ c.body = body
    OBVIOUS
  <2> HIDE DEF c
  <2> QED BY <2>1, <2>2
<1> QED BY <1>1 DEF CallsKept, CallsPriced

LEMMA ChangedCall ==
    ASSUME NEW c \in calls, NEW d, d.verb = c.verb, d.body = c.body, calls' = (calls \ {c}) \cup {d}
    PROVE  CallsKept
BY DEF CallsKept

LEMMA ServedCalls ==
    ASSUME ScreensInv, NEW c \in calls, NEW accepted, NEW target, NEW status, NEW changes,
           Served(c, accepted, target, status, changes)
    PROVE  CallsKept /\ UNCHANGED <<route, ui, shown>>
<1>1. PICK lost \in BOOLEAN :
          calls' = (calls \ {c}) \cup
                {[c EXCEPT !.target = target, !.at = rec'[target].version,
                           !.state = IF lost THEN "lost"
                                     ELSE IF May(c.verb) /\ accepted THEN "ok" ELSE "refused"]}
  BY DEF Served
<1> DEFINE d == [c EXCEPT !.target = target, !.at = rec'[target].version,
                      !.state = IF lost THEN "lost"
                                ELSE IF May(c.verb) /\ accepted THEN "ok" ELSE "refused"]
<1>2. d.verb = c.verb /\ d.body = c.body
  BY DEF ScreensInv, CallsInv, CallSound, CallShaped
<1>3. calls' = (calls \ {c}) \cup {d}
  BY <1>1
<1> HIDE DEF d
<1> QED BY <1>2, <1>3, ChangedCall DEF Served

(* A service that gives a record no other price than a natural number.      *)
LEMMA ServedPrices ==
    ASSUME ScreensInv, RecordsPriced, NEW c \in calls, NEW accepted, NEW target, NEW status,
           NEW changes, Served(c, accepted, target, status, changes),
           target \in Ids => Moved(changes, status).price \in Nat
    PROVE  RecordsPriced'
<1>1. rec \in [Ids -> {rec[id] : id \in Ids}]
  BY DEF ScreensInv, RecordsInv
<1>2. rec' = rec \/ rec' = [rec EXCEPT ![target] = Moved(changes, status)]
  BY DEF Served
<1> QED BY <1>1, <1>2 DEF RecordsPriced

LEMMA SamePrices == ASSUME RecordsPriced, UNCHANGED rec PROVE RecordsPriced'
BY DEF RecordsPriced

(* What is on a form stays, and it does not become ready by itself.         *)
LEMMA FormKept ==
    ASSUME FormFilled, UNCHANGED route, shown' = shown \/ shown' = NotLoaded,
           AtForm => ui'.price = ui.price /\ ui'.touched = ui.touched /\ ui'.from = ui.from
    PROVE  FormFilled'
<1>1. AtForm' <=> AtForm
  BY DEF AtForm, At
<1>2. AtForm => Legible(ui'.price)
  BY DEF FormFilled
<1>3. ASSUME At("editProduct"), shown'.state = "ready"
      PROVE  /\ ui'.from = shown'.copy[route.id].price /\ ui'.from \in Nat
             /\ ~ui'.touched => ui'.price = moneyInputValue(ui'.from, Digits[route.id])
  <2>1. shown' = shown
    BY <1>3 DEF NotLoaded
  <2> QED BY <1>3, <2>1 DEF FormFilled, AtForm, Ready, Current
<1> QED BY <1>1, <1>2, <1>3 DEF FormFilled, AtForm, At, Ready, Current, Legible

LEMMA NoFormKept ==
    ASSUME FormFilled, UNCHANGED route, ~AtForm
    PROVE  FormFilled'
BY DEF FormFilled, AtForm, At

(* The form that the router mounts is empty.                                *)
LEMMA FormShownIsEmpty ==
    ASSUME NEW r, Show(r, Fresh(r.screen)),
           r = route => ~(r.screen \in {"newProduct", "editProduct"})
    PROVE  FormFilled'
<1>1. route' = r /\ (r # route => shown' = NotLoaded /\ ~Ready')
  BY DEF Show, NotLoaded, Ready
<1>2. ASSUME r.screen \in {"newProduct", "editProduct"} PROVE Legible(ui'.price)
  <2>1. ~SameComponent(r)
    BY <1>2 DEF SameComponent, Details
  <2>2. ui' = Fresh(r.screen)
    BY <2>1 DEF Show
  <2>3. Fresh(r.screen).price = Blank
    BY <1>2 DEF Fresh, EmptyForm
  <2> QED BY <2>2, <2>3 DEF Legible
<1> QED BY <1>1, <1>2 DEF FormFilled, AtForm, At, Legible
-----------------------------------------------------------------------------
(* The controls of other screens. *)
LEMMA ControlPrices ==
    ASSUME PricesInv, UNCHANGED <<rec, route>>, ~AtForm, CallsKept
    PROVE  PricesInv'
BY SamePrices, KeptCallsArePriced, NoFormKept DEF PricesInv

LEMMA EditPrices ==
    ASSUME PricesInv, NEW u, Edit(u), ~AtForm
    PROVE  PricesInv'
<1>1. calls' = calls /\ UNCHANGED <<rec, route>>
  BY DEF Edit
<1> QED BY <1>1, FewerCalls, ControlPrices

LEMMA SubmitPrices ==
    ASSUME PricesInv, NEW verb, NEW target, NEW body, NEW seen, Submit(verb, target, body, seen),
           verb \notin FormVerbs, ~AtForm
    PROVE  PricesInv'
<1>1. CallsKept
  BY SentCalls DEF Submit
<1> QED BY <1>1, ControlPrices DEF Submit

LEMMA SalesControlPrices ==
    ASSUME ScreensInv, PricesInv, SalesControls
    PROVE  PricesInv'
<1>1. At("order") \/ At("newOrder") \/ At("customers") => ~AtForm
  BY DEF AtForm, At
<1>2. CASE \E kind \in {"cancel", "refund"} : Ask(kind)
  BY <1>1, <1>2, EditPrices DEF Ask, OrderReady
<1>3. CASE Back
  BY <1>1, <1>3, EditPrices DEF Back, OrderReady
<1>4. CASE Advance
  BY <1>1, <1>4, SubmitPrices DEF Advance, OrderReady, RunOrder, FormVerbs
<1>5. CASE Confirm
  <2>1. OrderUi(ui) /\ At("order") /\ ui.asking # Nothing
    BY <1>5, OnScreen DEF Confirm, OrderReady, ScreensInv
  <2>2. ui.asking.kind \in {None, "cancel", "refund"}
    BY <2>1 DEF OrderUi
  <2>3. ui.asking.kind \notin FormVerbs
    BY <2>2 DEF FormVerbs, None
  <2> QED BY <1>1, <1>5, <2>1, <2>3, SubmitPrices DEF Confirm, RunOrder
<1>6. CASE SearchCatalog
  <2>1. calls' = calls /\ UNCHANGED <<rec, route>> /\ At("newOrder")
    BY <1>6 DEF SearchCatalog
  <2> QED BY <1>1, <2>1, FewerCalls, ControlPrices
<1>7. CASE Place
  BY <1>1, <1>7, SubmitPrices DEF Place, FormVerbs
<1>8. CASE \E p \in Products : \/ AddLine(p) \/ RemoveLine(p)
                               \/ \E typed \in Quantities : SetQuantity(p, typed)
  BY <1>1, <1>8, EditPrices DEF AddLine, RemoveLine, SetQuantity
<1>9. CASE \E email \in Customers : FindCustomer(email)
  <2>1. PICK email \in Customers : FindCustomer(email)
    BY <1>9
  <2>2. CallsKept
    BY <2>1, SentCalls DEF FindCustomer, FormVerbs
  <2> QED BY <1>1, <2>1, <2>2, ControlPrices DEF FindCustomer, screenVars
<1>10. CASE \E email \in Customers : TypeNewCustomer(email)
  BY <1>1, <1>10, EditPrices DEF TypeNewCustomer
<1>11. CASE OpenAdding \/ CloseAdding
  BY <1>1, <1>11, EditPrices DEF OpenAdding, CloseAdding
<1>12. CASE AddCustomer
  BY <1>1, <1>12, SubmitPrices DEF AddCustomer, FormVerbs
<1> QED BY <1>2, <1>3, <1>4, <1>5, <1>6, <1>7, <1>8, <1>9, <1>10, <1>11, <1>12 DEF SalesControls

LEMMA ProductControlPrices ==
    ASSUME ScreensInv, PricesInv,
           \/ Activate \/ AskArchive \/ CancelArchive \/ ConfirmArchive \/ Upload
           \/ \E i \in Images : RemoveImage(i) \/ ImageBreaks(i)
    PROVE  PricesInv'
<1>1. At("product") => ~AtForm
  BY DEF AtForm, At
<1>2. CASE AskArchive \/ CancelArchive
  BY <1>1, <1>2, EditPrices DEF AskArchive, CancelArchive, ProductReady
<1>3. CASE Activate \/ ConfirmArchive \/ Upload \/ \E i \in Images : RemoveImage(i)
  BY <1>1, <1>3, SubmitPrices
     DEF Activate, ConfirmArchive, Upload, RemoveImage, ProductReady, RunProduct, FormVerbs
<1>4. CASE \E i \in Images : ImageBreaks(i)
  <2>1. calls' = calls /\ UNCHANGED <<rec, route>> /\ At("product")
    BY <1>4 DEF ImageBreaks, ProductReady
  <2> QED BY <1>1, <2>1, FewerCalls, ControlPrices
<1> QED BY <1>2, <1>3, <1>4

LEMMA StaffControlPrices ==
    ASSUME ScreensInv, PricesInv, StaffControls
    PROVE  PricesInv'
<1>1. At("staffList") \/ At("staff") \/ At("roles") => ~AtForm
  BY DEF AtForm, At
<1>2. CASE openDialog \/ closeDialog \/ Acknowledge \/ \E email \in Members : TypeEmail(email)
  BY <1>1, <1>2, EditPrices DEF openDialog, closeDialog, Acknowledge, TypeEmail, DialogShown
<1>3. CASE CreateAccount
  BY <1>1, <1>3, EditPrices, SubmitPrices DEF CreateAccount, DialogShown, FormVerbs
<1>4. CASE dismissPasswordReveal
  <2>1. calls' = calls /\ UNCHANGED <<rec, route>> /\ At("staffList")
    BY <1>4 DEF dismissPasswordReveal
  <2> QED BY <1>1, <2>1, FewerCalls, ControlPrices
<1>5. CASE openEdit \/ closeEdit \/ ToggleActive \/ AskDeactivate \/ closeDeactivate
  BY <1>1, <1>5, EditPrices
     DEF openEdit, closeEdit, ToggleActive, AskDeactivate, closeDeactivate, MemberReady
<1>6. CASE SaveMember \/ Deactivate
  BY <1>1, <1>6, SubmitPrices DEF SaveMember, Deactivate, MemberReady, FormVerbs
<1>7. CASE \/ openCreate \/ closeRole \/ NameRole \/ closeDelete
           \/ \E r \in Roles : openEditRole(r) \/ AskDelete(r)
  BY <1>1, <1>7, EditPrices DEF openCreate, closeRole, NameRole, closeDelete, openEditRole, AskDelete
<1>8. CASE SaveRole \/ DeleteRole
  BY <1>1, <1>8, EditPrices, SubmitPrices DEF SaveRole, DeleteRole, FormVerbs
<1> QED BY <1>2, <1>3, <1>4, <1>5, <1>6, <1>7, <1>8 DEF StaffControls
-----------------------------------------------------------------------------
(* The services, and what becomes of their answers. *)
LEMMA ServedKeepsPrices ==
    ASSUME ScreensInv, PricesInv, NEW c \in calls, NEW accepted, NEW target, NEW status,
           NEW changes, Served(c, accepted, target, status, changes),
           target \in Ids => Moved(changes, status).price \in Nat
    PROVE  PricesInv'
<1>1. CallsKept /\ UNCHANGED <<route, ui, shown>>
  BY ServedCalls
<1>2. FormFilled'
  BY <1>1, FormKept DEF PricesInv
<1>3. RecordsPriced'
  BY ServedPrices DEF PricesInv
<1> QED BY <1>1, <1>2, <1>3, KeptCallsArePriced DEF PricesInv

(* Most services change no price. *)
LEMMA PlainServedPrices ==
    ASSUME ScreensInv, PricesInv, NEW c \in calls, NEW accepted, NEW target, NEW status,
           Served(c, accepted, target, status, rec[target])
    PROVE  PricesInv'
<1>1. target \in Ids => Moved(rec[target], status).price \in Nat
  BY DEF ScreensInv, RecordsInv, RecordShaped, PricesInv, RecordsPriced, Moved
<1> QED BY <1>1, ServedKeepsPrices

LEMMA ServicesKeepPrices ==
    ASSUME ScreensInv, PricesInv, NEW c \in calls,
           \/ OrderServed(c) \/ PlaceServed(c) \/ CustomerServed(c)
           \/ AccountServed(c) \/ MemberServed(c) \/ RoleServed(c)
    PROVE  PricesInv'
BY PlainServedPrices
   DEF OrderServed, PlaceServed, CustomerServed, AccountServed, MemberServed, RoleServed

LEMMA ProductServicesKeepPrices ==
    ASSUME ScreensInv, PricesInv, NEW c \in calls,
           StatusServed(c) \/ UploadServed(c) \/ RemoveServed(c)
    PROVE  PricesInv'
<1>1. c.target \in Ids /\ RecordShaped(rec[c.target]) /\ rec[c.target].price \in Nat
  <2>1. c.verb \notin {"place", "createProduct", "createRole"}
    BY DEF StatusServed, UploadServed, RemoveServed
  <2> QED BY <2>1, TargetFacts DEF PricesInv, RecordsPriced
<1>2. CASE StatusServed(c)
  <2>1. PICK accepted, status, changes :
            /\ Served(c, accepted, c.target, status, changes)
            /\ changes = rec[c.target] \/ changes = [rec[c.target] EXCEPT !.version = @ - 1]
    BY <1>2 DEF StatusServed
  <2>2. Moved(changes, status).price \in Nat
    BY <1>1, <2>1 DEF Moved, RecordShaped
  <2> QED BY <2>1, <2>2, ServedKeepsPrices
<1>3. CASE UploadServed(c)
  <2>1. PICK i \in Images, good \in BOOLEAN :
            Served(c, good, c.target, rec[c.target].status,
                   [rec[c.target] EXCEPT !.images = @ \cup {i}, !.used = @ \cup {i}])
    BY <1>3 DEF UploadServed
  <2>2. Moved([rec[c.target] EXCEPT !.images = @ \cup {i}, !.used = @ \cup {i}],
              rec[c.target].status).price \in Nat
    BY <1>1 DEF Moved, RecordShaped
  <2> QED BY <2>1, <2>2, ServedKeepsPrices
<1>4. CASE RemoveServed(c)
  <2>1. Served(c, c.body.image \in rec[c.target].images, c.target, rec[c.target].status,
               [rec[c.target] EXCEPT !.images = @ \ {c.body.image}])
    BY <1>4 DEF RemoveServed
  <2>2. Moved([rec[c.target] EXCEPT !.images = @ \ {c.body.image}],
              rec[c.target].status).price \in Nat
    BY <1>1 DEF Moved, RecordShaped
  <2> QED BY <2>1, <2>2, ServedKeepsPrices
<1> QED BY <1>2, <1>3, <1>4

(* A price that was sent is one that was read from a form. *)
LEMMA PricedIsPriced ==
    ASSUME NEW p, RecordShaped(p), p.price \in Nat, NEW price \in Nat \cup {NoPrice}, NEW status
    PROVE  Moved(Priced(p, price), status).price \in Nat
<1>1. Priced(p, price).price \in Nat /\ RecordShaped(Priced(p, price))
  BY DEF Priced, RecordShaped
<1>2. Moved(Priced(p, price), status).price = Priced(p, price).price
  BY <1>1 DEF Moved, RecordShaped
<1> QED BY <1>1, <1>2

LEMMA FormServicesPrice ==
    ASSUME ScreensInv, PricesInv, NEW c \in calls, CreateServed(c) \/ UpdateServed(c)
    PROVE  PricesInv'
<1>1. c.body.price \in Nat \cup {NoPrice}
  BY DEF CreateServed, UpdateServed, PricesInv, CallsPriced, FormVerbs
<1>2. \A id \in Ids : RecordShaped(rec[id]) /\ rec[id].price \in Nat
  BY DEF ScreensInv, RecordsInv, PricesInv, RecordsPriced
<1>3. PICK accepted, target, status :
          Served(c, accepted, target, status, Priced(rec[target], c.body.price))
  BY DEF CreateServed, UpdateServed
<1>4. target \in Ids => Moved(Priced(rec[target], c.body.price), status).price \in Nat
  BY <1>1, <1>2, PricedIsPriced
<1> QED BY <1>3, <1>4, ServedKeepsPrices

LEMMA TakenKeepsPrices ==
    ASSUME PricesInv, NEW c \in calls, Take(c), FormFilled'
    PROVE  PricesInv'
<1>1. calls' \subseteq calls /\ UNCHANGED rec
  BY DEF Take
<1> QED BY <1>1, FewerCalls, KeptCallsArePriced, SamePrices DEF PricesInv

LEMMA IgnoredKeepsForm ==
    ASSUME FormFilled, NothingHappens
    PROVE  FormFilled'
BY FormKept DEF NothingHappens, screenVars

(* An answer to another screen finds no form. *)
LEMMA OtherAnswersKeepPrices ==
    ASSUME ScreensInv, PricesInv, NEW c \in calls,
           \/ OrderAnswered(c) \/ LookupAnswered(c) \/ CustomerAnswered(c) \/ ProductAnswered(c)
           \/ AccountAnswered(c) \/ MemberSaved(c) \/ MemberDeactivated(c)
           \/ RoleSaved(c) \/ RoleDeleted(c)
    PROVE  PricesInv'
<1>1. /\ Take(c) /\ c.verb \notin FormVerbs /\ c.verb # "place"
      /\ (~Mounted(c) => UNCHANGED <<route, ui, shown>>) /\ UNCHANGED route
  BY DEF OrderAnswered, LookupAnswered, CustomerAnswered, ProductAnswered, AccountAnswered,
         MemberSaved, MemberDeactivated, RoleSaved, RoleDeleted, NothingHappens, screenVars,
         FormVerbs, OrderVerbs, ProductVerbs
<1>2. Mounted(c) => ~AtForm
  <2>1. c.verb \in AllVerbs \ (FormVerbs \cup {"place"})
    BY <1>1 DEF ScreensInv, CallsInv, CallSound, CallShaped
  <2> QED BY <2>1, SenderScreen DEF AllVerbs, FormVerbs, AtForm, At
<1>3. FormFilled'
  BY <1>1, <1>2, FormKept, NoFormKept DEF PricesInv
<1> QED BY <1>1, <1>3, TakenKeepsPrices

LEMMA PlaceAnsweredKeepsPrices ==
    ASSUME ScreensInv, PricesInv, NEW c \in calls, PlaceAnswered(c)
    PROVE  PricesInv'
<1>1. Take(c) /\ c.verb = "place"
  BY DEF PlaceAnswered
<1>2. CASE c.state = "ok"
  <2> DEFINE r == [screen |-> "order", id |-> c.target]
  <2>1. ShowResult(c, r, Fresh(r.screen)) /\ ~(r.screen \in {"newProduct", "editProduct"})
    BY <1>2 DEF PlaceAnswered, Fresh
  <2> HIDE DEF r
  <2> QED BY <1>1, <2>1, FormShownIsEmpty, TakenKeepsPrices DEF ShowResult
<1>3. CASE c.state # "ok" /\ Mounted(c)
  <2>1. UNCHANGED route /\ ~AtForm
    BY <1>1, <1>3, SenderScreen DEF PlaceAnswered, AtForm, At
  <2> QED BY <1>1, <2>1, NoFormKept, TakenKeepsPrices DEF PricesInv
<1>4. CASE c.state # "ok" /\ ~Mounted(c)
  <2>1. NothingHappens
    BY <1>4 DEF PlaceAnswered
  <2> QED BY <1>1, <2>1, IgnoredKeepsForm, TakenKeepsPrices DEF PricesInv
<1> QED BY <1>2, <1>3, <1>4

LEMMA FormAnsweredKeepsPrices ==
    ASSUME ScreensInv, PricesInv, NEW c \in calls, FormAnswered(c)
    PROVE  PricesInv'
<1>1. Take(c) /\ c.verb \in FormVerbs
  BY DEF FormAnswered, FormVerbs
<1>2. CASE c.state = "ok"
  <2> DEFINE r == [screen |-> "product", id |-> c.target]
  <2>1. ShowResult(c, r, Fresh(r.screen)) /\ ~(r.screen \in {"newProduct", "editProduct"})
    BY <1>2 DEF FormAnswered, Fresh
  <2> HIDE DEF r
  <2> QED BY <1>1, <2>1, FormShownIsEmpty, TakenKeepsPrices DEF ShowResult
<1>3. CASE c.state # "ok" /\ Mounted(c)
  <2>1. UNCHANGED <<route, shown>> /\ ui' = [ui EXCEPT !.saving = FALSE, !.failure = TRUE]
    BY <1>3 DEF FormAnswered
  <2>2. AtForm => FormUi(ui)
    BY OnScreen DEF ScreensInv, AtForm
  <2>3. AtForm => ui'.price = ui.price /\ ui'.touched = ui.touched /\ ui'.from = ui.from
    BY <2>1, <2>2 DEF FormUi
  <2> QED BY <1>1, <2>1, <2>3, FormKept, TakenKeepsPrices DEF PricesInv
<1>4. CASE c.state # "ok" /\ ~Mounted(c)
  <2>1. NothingHappens
    BY <1>4 DEF FormAnswered
  <2> QED BY <1>1, <2>1, IgnoredKeepsForm, TakenKeepsPrices DEF PricesInv
<1> QED BY <1>2, <1>3, <1>4
-----------------------------------------------------------------------------
(* The form itself. *)
LEMMA DigitsFacts ==
    ASSUME ScreensInv
    PROVE  /\ AtForm => FormDigits \in 0..4 /\ FormUi(ui)
           /\ At("editProduct") => Digits[route.id] \in 0..4 /\ FormDigits = Digits[route.id]
<1>1. At("editProduct") => route.id \in Products /\ ~At("newProduct")
  BY RouteFacts DEF ScreensInv, FrameInv, At
<1>2. AtForm => FormUi(ui)
  BY OnScreen DEF ScreensInv, AtForm
<1> QED BY <1>1, <1>2, CatalogAssumption DEF AtForm, FormDigits

LEMMA FormEditsKeepPrices ==
    ASSUME ScreensInv, PricesInv, FillIn \/ \E text \in Typed : TypePrice(text)
    PROVE  PricesInv'
<1>1. AtForm /\ UNCHANGED <<rec, route, shown, calls>>
  BY DEF FillIn, TypePrice, FormShown, Edit, AtForm
<1>2. FormUi(ui)
  BY <1>1, DigitsFacts
<1>3. RecordsPriced' /\ CallsPriced'
  BY <1>1, FewerCalls, KeptCallsArePriced, SamePrices DEF PricesInv
<1>4. CASE FillIn
  <2>1. ui' = [ui EXCEPT !.complete = ~@]
    BY <1>4 DEF FillIn, Edit
  <2>2. ui'.price = ui.price /\ ui'.touched = ui.touched /\ ui'.from = ui.from
    BY <1>2, <2>1 DEF FormUi
  <2> QED BY <1>1, <1>3, <2>2, FormKept DEF PricesInv
<1>5. CASE \E text \in Typed : TypePrice(text)
  <2>1. PICK text \in Typed : ui' = [ui EXCEPT !.price = text, !.touched = TRUE]
    BY <1>5 DEF TypePrice, Edit
  <2>2. ui'.price = text /\ ui'.touched = TRUE /\ ui'.from = ui.from
    BY <1>2, <2>1 DEF FormUi
  <2>3. Legible(text)
    BY CatalogAssumption DEF Legible
  <2>4. FormFilled'
    BY <1>1, <2>2, <2>3 DEF FormFilled, PricesInv, AtForm, At, Ready, Current, Legible
  <2> QED BY <1>3, <2>4 DEF PricesInv
<1> QED BY <1>4, <1>5

LEMMA SaveKeepsPrices ==
    ASSUME ScreensInv, PricesInv, Save
    PROVE  PricesInv'
<1> DEFINE verb == IF At("newProduct") THEN "createProduct" ELSE "updateProduct"
           body == [price |-> parseMoney(ui.price, FormDigits)]
<1>1. /\ FormShown /\ Submit(verb, route.id, body, NotSeen)
      /\ ui' = [ui EXCEPT !.saving = TRUE, !.failure = FALSE]
  BY DEF Save
<1>2. AtForm /\ FormDigits \in 0..4 /\ FormUi(ui) /\ Legible(ui.price)
  BY <1>1, DigitsFacts DEF FormShown, AtForm, PricesInv, FormFilled
<1>3. body.price \in Nat \cup {NoPrice}
  BY <1>2, ParsedIsNatural
<1> HIDE DEF body, verb
<1>4. CallsPriced'
  BY <1>1, <1>3, SentCalls DEF Submit, PricesInv
<1>5. ui'.price = ui.price /\ ui'.touched = ui.touched /\ ui'.from = ui.from
  BY <1>1, <1>2 DEF FormUi
<1>6. UNCHANGED <<rec, route, shown>>
  BY <1>1 DEF Submit
<1> QED BY <1>4, <1>5, <1>6, SamePrices, FormKept DEF PricesInv

LEMMA LoadPrices ==
    ASSUME ScreensInv, PricesInv, Load
    PROVE  PricesInv'
<1>1. /\ UNCHANGED <<rec, route, calls>> /\ shown.state = "loading"
      /\ ui' = IF shown'.state = "ready"
               THEN (IF At("editProduct") THEN FilledFrom(shown'.copy[route.id]) ELSE ui)
               ELSE ui
  BY DEF Load, LoadShown
<1>2. RecordsPriced' /\ CallsPriced'
  BY <1>1, FewerCalls, KeptCallsArePriced, SamePrices DEF PricesInv
<1>3. CASE ~AtForm
  BY <1>1, <1>2, <1>3, NoFormKept DEF PricesInv
<1>4. CASE AtForm /\ ~(At("editProduct") /\ shown'.state = "ready")
  <2>1. ui' = ui
    BY <1>1, <1>4
  <2> QED BY <1>1, <1>2, <1>4, <2>1 DEF PricesInv, FormFilled, AtForm, At, Ready, Legible
<1>5. CASE At("editProduct") /\ shown'.state = "ready"
  <2> DEFINE p == shown'.copy[route.id]
  <2>1. p = rec[route.id] /\ route.id \in Ids
    <3>1. PICK failed \in BOOLEAN : shown' = Answered(Copies(ShownIds),
              At("customers") \/ At("staffList") \/ At("roles"), failed)
      BY DEF Load, LoadShown
    <3>2. ShownIds = {route.id} /\ ~(At("customers") \/ At("staffList") \/ At("roles"))
      BY <1>5 DEF ShownIds, At
    <3>3. shown'.copy = Copies({route.id}) /\ shown'.copy # << >>
      BY <1>5, <3>1, <3>2 DEF Answered
    <3>4. route.id \in Ids
      BY <1>5, RouteFacts DEF ScreensInv, FrameInv, Ids
    <3>5. route.id \in {i \in {route.id} : rec[i].status \notin {None, "deleted"}}
      <4> SUFFICES ASSUME rec[route.id].status \in {None, "deleted"} PROVE FALSE
        OBVIOUS
      <4>1. {i \in {route.id} : rec[i].status \notin {None, "deleted"}} = {}
        OBVIOUS
      <4>2. Copies({route.id}) = << >>
        BY <4>1 DEF Copies
      <4> QED BY <3>3, <4>2
    <3> QED BY <3>3, <3>4, <3>5 DEF Copies
  <2>2. p.price \in Nat
    BY <2>1 DEF PricesInv, RecordsPriced
  <2> HIDE DEF p
  <2>3. ui' = FilledFrom(p)
    BY <1>1, <1>5 DEF p
  <2>4. ui'.price = moneyInputValue(p.price, Digits[route.id]) /\ ui'.from = p.price
    BY <2>3 DEF FilledFrom, EmptyForm
  <2>5. Legible(ui'.price)
    BY <1>5, <2>2, <2>4, DigitsFacts, MoneySurvives
  <2>6. FormFilled'
    BY <1>1, <2>2, <2>4, <2>5 DEF p, FormFilled, Current, Legible
  <2> QED BY <1>2, <2>6 DEF PricesInv
<1> QED BY <1>3, <1>4, <1>5
-----------------------------------------------------------------------------
(* The steps that leave every form, or show an empty one. *)
LEMMA QuietKeepsPrices ==
    ASSUME PricesInv, UNCHANGED <<ui, route, rec>>, shown' = shown \/ shown' = NotLoaded, CallsKept
    PROVE  PricesInv'
BY SamePrices, KeptCallsArePriced, FormKept DEF PricesInv

LEMMA ResourcesKeepPrices ==
    ASSUME PricesInv, LoadSide \/ TryAgain \/ UNCHANGED vars
    PROVE  PricesInv'
<1>1. /\ UNCHANGED <<ui, route, rec>> /\ calls' = calls
      /\ shown' = shown \/ shown' = NotLoaded
  BY DEF LoadSide, TryAgain, vars, screenVars
<1> QED BY <1>1, FewerCalls, QuietKeepsPrices

LEMMA VisitKeepsPrices ==
    ASSUME PricesInv, NEW r, Visit(r, Fresh(r.screen))
    PROVE  PricesInv'
<1>1. UNCHANGED rec /\ calls' = calls /\ Show(r, Fresh(r.screen)) /\ r # route
  BY DEF Visit
<1> QED BY <1>1, FewerCalls, KeptCallsArePriced, SamePrices, FormShownIsEmpty DEF PricesInv

LEMMA CallsOnTheirWayKeepPrices ==
    ASSUME ScreensInv, PricesInv, NEW c \in calls, Lost(c) \/ LookupServed(c)
    PROVE  PricesInv'
<1>1. UNCHANGED <<ui, route, rec, shown>>
  BY DEF Lost, LookupServed, screenVars
<1>2. PICK state : calls' = (calls \ {c}) \cup {[c EXCEPT !.state = state]}
  BY DEF Lost, LookupServed
<1>3. [c EXCEPT !.state = state].verb = c.verb /\ [c EXCEPT !.state = state].body = c.body
  BY DEF ScreensInv, CallsInv, CallSound, CallShaped
<1>4. CallsKept
  BY <1>2, <1>3, ChangedCall
<1> QED BY <1>1, <1>4, QuietKeepsPrices

LEMMA OthersKeepPrices ==
    ASSUME ScreensInv, PricesInv, NEW id \in Ids, OthersChange(id)
    PROVE  PricesInv'
<1>1. PICK to : rec' = [rec EXCEPT ![id] = Moved(rec[id], to)]
  BY DEF OthersChange
<1>2. UNCHANGED <<ui, route, shown>> /\ calls' = calls
  BY DEF OthersChange, screenVars
<1>3. rec \in [Ids -> {rec[i] : i \in Ids}] /\ RecordShaped(rec[id])
  BY DEF ScreensInv, RecordsInv
<1>4. Moved(rec[id], to).price = rec[id].price
  BY <1>3 DEF Moved, RecordShaped
<1>5. RecordsPriced'
  BY <1>1, <1>3, <1>4 DEF PricesInv, RecordsPriced
<1> QED BY <1>2, <1>5, FewerCalls, KeptCallsArePriced, FormKept DEF PricesInv

LEMMA SalesKeepPrices ==
    ASSUME ScreensInv, PricesInv, SalesControls \/ \E c \in calls : SalesAnswers(c)
    PROVE  PricesInv'
BY SalesControlPrices, ServicesKeepPrices, CallsOnTheirWayKeepPrices, OtherAnswersKeepPrices,
   PlaceAnsweredKeepsPrices
   DEF SalesAnswers

LEMMA CatalogKeepsPrices ==
    ASSUME ScreensInv, PricesInv, CatalogControls \/ \E c \in calls : CatalogAnswers(c)
    PROVE  PricesInv'
<1>1. CASE CatalogControls
  BY <1>1, ProductControlPrices, FormEditsKeepPrices, SaveKeepsPrices DEF CatalogControls
<1>2. CASE \E c \in calls : CatalogAnswers(c)
  BY <1>2, ProductServicesKeepPrices, FormServicesPrice, OtherAnswersKeepPrices,
     FormAnsweredKeepsPrices
     DEF CatalogAnswers
<1> QED BY <1>1, <1>2

LEMMA StaffKeepsPrices ==
    ASSUME ScreensInv, PricesInv, StaffControls \/ \E c \in calls : StaffAnswers(c)
    PROVE  PricesInv'
BY StaffControlPrices, ServicesKeepPrices, OtherAnswersKeepPrices DEF StaffAnswers

LEMMA PricesInit == Init => PricesInv
<1> SUFFICES ASSUME Init PROVE PricesInv
  OBVIOUS
<1>1. RecordsPriced
  BY DEF Init, RecordsPriced
<1>2. CallsPriced
  BY DEF Init, CallsPriced
<1>3. ui = Fresh(route.screen) /\ ~Ready
  BY DEF Init, Ready, NotLoaded
<1>4. AtForm => ui.price = Blank
  BY <1>3 DEF AtForm, At, Fresh, EmptyForm
<1> QED BY <1>1, <1>2, <1>3, <1>4 DEF PricesInv, FormFilled, Legible

LEMMA PricesStep == ScreensInv /\ PricesInv /\ [Next]_vars => PricesInv'
<1> SUFFICES ASSUME ScreensInv, PricesInv, [Next]_vars PROVE PricesInv'
  OBVIOUS
<1>1. CASE LoadSide \/ TryAgain \/ UNCHANGED vars
  BY <1>1, ResourcesKeepPrices
<1>2. CASE Load
  BY <1>2, LoadPrices
<1>3. CASE \E r \in menu : Visit(r, Fresh(r.screen))
  BY <1>3, VisitKeepsPrices
<1>4. CASE SalesControls \/ \E c \in calls : SalesAnswers(c)
  BY <1>4, SalesKeepPrices
<1>5. CASE CatalogControls \/ \E c \in calls : CatalogAnswers(c)
  BY <1>5, CatalogKeepsPrices
<1>6. CASE StaffControls \/ \E c \in calls : StaffAnswers(c)
  BY <1>6, StaffKeepsPrices
<1>7. CASE \E c \in calls : Lost(c)
  BY <1>7, CallsOnTheirWayKeepPrices
<1>8. CASE \E id \in Ids : OthersChange(id)
  BY <1>8, OthersKeepPrices
<1> QED BY <1>1, <1>2, <1>3, <1>4, <1>5, <1>6, <1>7, <1>8 DEF Next

(* ProductForm.tsx, money.ts: a form opens with the price that the          *)
(* product's page shows, and saving it untouched sends that very price, for *)
(* every price and every currency of up to four decimals.                   *)
THEOREM PricesSurvive == Spec => []UntouchedPriceSurvives
<1>1. ASSUME ScreensInv, PricesInv PROVE UntouchedPriceSurvives
  <2> SUFFICES ASSUME At("editProduct"), Ready, ~ui.touched
               PROVE  ui.price = PriceShown /\ parseMoney(ui.price, FormDigits) = ui.from
    BY DEF UntouchedPriceSurvives
  <2>1. /\ ui.from = Current.price /\ ui.from \in Nat
        /\ ui.price = moneyInputValue(ui.from, Digits[route.id])
    BY <1>1 DEF PricesInv, FormFilled
  <2>2. Digits[route.id] \in 0..4 /\ FormDigits = Digits[route.id]
    BY <1>1, DigitsFacts
  <2> QED BY <2>1, <2>2, MoneySurvives DEF PriceShown
<1>2. Spec => []PricesInv
  BY ScreensInvariant, PricesInit, PricesStep, PTL DEF Spec
<1> QED BY <1>1, <1>2, ScreensInvariant, PTL
=============================================================================
