-------------------------- MODULE WebOverviewProofs --------------------------
(***************************************************************************)
(* The figures of the console, for any customers, orders and amounts, and  *)
(* any number of visits, moves and lost answers: badge and dashboard agree *)
(* while they share a report (ReportsInv), and a customer's page tells     *)
(* about one customer what was so when each part was served (PartsInv).    *)
(*                                                                         *)
(* The chart is above a table that was served in order (TablesInv); what   *)
(* it draws of that table is a matter of pure functions.                   *)
(***************************************************************************)
EXTENDS WebOverview, SelectionsProofs, FiniteSetTheorems, TLAPS

ReportShaped(r) ==
    /\ r \in [n : Nat, state : {"sent", "counted", "ready", "error"}, report : {r.report},
              askers : SUBSET {"badge", "dashboard"}]
    /\ r.report \in [counts : {r.report.counts}, revenue : {r.report.revenue}]
ResourceShaped(resource) ==
    resource \in [state : {"loading", "ready", "error"}, report : {resource.report},
                  withTheApp : BOOLEAN]

(* As long as the dashboard has the report the app was opened with, the     *)
(* sidebar waits for every answer it waits for, and has the same one.       *)
Together(asker, other) == \A r \in reports : asker \in r.askers <=> other \in r.askers
ReportsInv ==
    /\ asked \in Nat
    /\ \A r \in reports : ReportShaped(r)
    /\ inflight # 0 => \E r \in reports : r.n = inflight
    /\ ResourceShaped(badge) /\ ResourceShaped(dash)
    /\ dash.withTheApp =>
          /\ page = "dashboard"
          /\ badge.state = dash.state /\ badge.report = dash.report
          /\ Together("badge", "dashboard")
    /\ page = "closed" => reports = {}

(* What the lifetime value of these orders is. *)
Counted(history) == {o \in DOMAIN history : IsValue(history[o])}
ValueOf(history) ==
    LET currencies == {Currency[o] : o \in Counted(history)} IN
    IF Cardinality(currencies) > 1 THEN [code |-> "mixed_currency_history"]
    ELSE [code |-> "ok",
          currency |-> IF currencies = {} THEN NoCurrency ELSE CHOOSE k \in currencies : TRUE,
          minor |-> Sum(Total, Counted(history))]

(* A part that was read since the last move says what the service would say *)
(* now; so do two parts that were read between the same moves.              *)
Shaped(resource) ==
    resource \in [key : {resource.key}, state : {"loading", "sent", "listed", "ready", "error"},
                  version : Nat, said : {resource.said}, total : {resource.total}]

(* Rows are of these orders, and say of them what was so.                   *)
RowsOf(rows, all) == DOMAIN rows \subseteq DOMAIN all /\ \A o \in DOMAIN rows : rows[o] = all[o]
History(c) == [o \in Placed(c) |-> status[o]]

(* The orders a lifetime value was added up of, when the rows listed were   *)
(* read between the same moves: what is counted afterwards counts them all. *)
AddedUp(all) ==
    /\ part["lifetime"].said = ValueOf(all) /\ DOMAIN all \subseteq Orders
    /\ RowsOf(part["history"].said, all)
    /\ part["history"].state = "listed" => DOMAIN all \subseteq Placed(page)
    /\ part["history"].state = "ready" => Cardinality(DOMAIN all) =< part["history"].total
Listed == part["history"].state \in {"listed", "ready"}
PartsInv ==
    /\ status \in [Orders -> Statuses] /\ moves \in Nat /\ range \in Ranges
    /\ page \in Pages \cup {"closed"}
    /\ part \in [Parts -> {part[p] : p \in Parts}]
    /\ \A p \in Parts : Shaped(part[p]) /\ part[p].version <= moves
    /\ page \notin Customers => \A p \in Parts : part[p].state = "loading"
    /\ page \in Customers => \A p \in Parts : part[p].key = page
    /\ part["name"].state = "ready" => part["name"].said = page
    /\ Listed => \A o \in DOMAIN part["history"].said : o \in Orders /\ Owner[o] = page
    /\ part["lifetime"].state = "ready" /\ part["lifetime"].version = moves =>
          part["lifetime"].said = ValueOf(History(page))
    /\ Listed /\ part["history"].version = moves =>
          /\ RowsOf(part["history"].said, History(page))
          /\ part["history"].state = "ready" => part["history"].total = Cardinality(Placed(page))
    /\ Listed /\ part["lifetime"].state = "ready"
       /\ part["history"].version = part["lifetime"].version => \E all : AddedUp(all)

OverviewInv == ReportsInv /\ PartsInv
-----------------------------------------------------------------------------
LEMMA LongestRange == Longest \in Ranges
BY OverviewAssumption DEF Longest

LEMMA InitInv == Init => OverviewInv
<1> SUFFICES ASSUME Init PROVE OverviewInv
  OBVIOUS
<1>1. ReportsInv
  BY DEF Init, ReportsInv, Asking, ResourceShaped
<1>2. "closed" \notin Customers /\ status \in [Orders -> Statuses]
  BY OverviewAssumption DEF Init
<1>3. \A p \in Parts : part[p] = NotAsked
  BY DEF Init
<1>4. Shaped(NotAsked) /\ NotAsked.version = 0 /\ NotAsked.state = "loading"
  BY DEF Shaped, NotAsked
<1>5. {"name", "history", "lifetime"} = Parts
  BY DEF Parts
<1>6. part \in [Parts -> {part[p] : p \in Parts}]
  BY DEF Init
<1>7. page = "closed" /\ moves = 0 /\ range \in Ranges
  BY LongestRange DEF Init
<1> QED BY <1>1, <1>2, <1>3, <1>4, <1>5, <1>6, <1>7 DEF OverviewInv, PartsInv, Listed
-----------------------------------------------------------------------------
(* Asking for a report: a request more, or an asker more of the one that is *)
(* shared.                                                                  *)
LEMMA AskStep ==
    ASSUME ReportsInv, NEW askers \in SUBSET {"badge", "dashboard"}, getDashboard(askers)
    PROVE  /\ asked' \in Nat
           /\ \A r \in reports' : ReportShaped(r)
           /\ inflight' # 0 => \E r \in reports' : r.n = inflight'
           /\ reports = {} => \A r \in reports' : r.askers = askers
<1>1. CASE inflight = 0
  <2> DEFINE new == Request(asked + 1, askers)
  <2>1. /\ inflight' = asked + 1 /\ asked' = asked + 1
        /\ reports' = reports \cup {new}
    BY <1>1 DEF getDashboard
  <2>2. new.n = asked + 1 /\ new.askers = askers /\ ReportShaped(new)
    BY DEF Request, ReportShaped, ReportsInv, Empty
  <2> HIDE DEF new
  <2>3. \A r \in reports' : r \in reports \/ r = new
    BY <2>1
  <2>4. new \in reports' /\ asked' \in Nat
    BY <2>1 DEF ReportsInv
  <2> QED BY <2>1, <2>2, <2>3, <2>4 DEF ReportsInv
<1>2. CASE inflight # 0
  <2> DEFINE With(r) == IF r.n = inflight THEN [r EXCEPT !.askers = @ \cup askers] ELSE r
  <2>1. inflight' = inflight /\ asked' = asked /\ reports' = {With(r) : r \in reports}
    BY <1>2 DEF getDashboard
  <2>2. \A r \in reports : With(r).n = r.n /\ ReportShaped(With(r))
    <3> SUFFICES ASSUME NEW r \in reports
                 PROVE  With(r).n = r.n /\ ReportShaped(With(r))
      OBVIOUS
    <3>1. ReportShaped(r)
      BY DEF ReportsInv
    <3> QED BY <3>1 DEF ReportShaped
  <2>3. PICK r \in reports : r.n = inflight
    BY <1>2 DEF ReportsInv
  <2> HIDE DEF With
  <2>4. With(r) \in reports'
    BY <2>1
  <2>5. \A q \in reports' : ReportShaped(q)
    BY <2>1, <2>2
  <2> QED BY <1>2, <2>1, <2>2, <2>3, <2>4, <2>5 DEF ReportsInv
<1> QED BY <1>1, <1>2

(* A request that got its answer, or lost it, still has its askers. *)
LEMMA ServeStep ==
    ASSUME ReportsInv, NEW r \in reports, CountOrders(r) \/ ServeReport(r) \/ LoseReport(r)
    PROVE  ReportsInv'
<1>1. PICK q : /\ reports' = (reports \ {r}) \cup {q}
               /\ q.n = r.n /\ q.askers = r.askers /\ ReportShaped(q)
  <2>1. ReportShaped(r)
    BY DEF ReportsInv
  <2>0. CASE CountOrders(r)
    <3> DEFINE q == [r EXCEPT !.state = "counted", !.report = [@ EXCEPT !.counts = StatusCounts]]
    <3>1. q.n = r.n /\ q.askers = r.askers /\ ReportShaped(q)
      BY <2>1 DEF ReportShaped
    <3> QED BY <2>0, <3>1 DEF CountOrders
  <2>2. CASE ServeReport(r)
    <3> DEFINE q == [r EXCEPT !.state = "ready", !.report = [@ EXCEPT !.revenue = Revenue]]
    <3>1. q.n = r.n /\ q.askers = r.askers /\ ReportShaped(q)
      BY <2>1 DEF ReportShaped
    <3> QED BY <2>2, <3>1 DEF ServeReport
  <2>3. CASE LoseReport(r)
    <3> DEFINE q == [r EXCEPT !.state = "error"]
    <3>1. q.n = r.n /\ q.askers = r.askers /\ ReportShaped(q)
      BY <2>1 DEF ReportShaped
    <3> QED BY <2>3, <3>1 DEF LoseReport
  <2> QED BY <2>0, <2>2, <2>3
<1>2. UNCHANGED <<page, inflight, asked, badge, dash>>
  BY DEF CountOrders, ServeReport, LoseReport
<1>3. \A o \in reports' : o = q \/ o \in reports
  BY <1>1
<1>4. Together("badge", "dashboard") => Together("badge", "dashboard")'
  BY <1>1, <1>3 DEF Together
<1>5. inflight' # 0 => \E o \in reports' : o.n = inflight'
  BY <1>1, <1>2 DEF ReportsInv
<1>6. \A o \in reports' : ReportShaped(o)
  BY <1>1, <1>3 DEF ReportsInv
<1> QED BY <1>2, <1>4, <1>5, <1>6 DEF ReportsInv

(* An answer reaches whoever asked.  If the screens asked together it is    *)
(* both or neither, so that they go on showing the same.                    *)
LEMMA AnswerStep ==
    ASSUME ReportsInv, NEW r \in reports, ReportAnswered(r)
    PROVE  ReportsInv'
<1>1. /\ r.state \notin {"sent", "counted"} /\ reports' = reports \ {r}
      /\ inflight' = IF r.n = inflight THEN 0 ELSE inflight
      /\ badge' = IF "badge" \in r.askers THEN Settled(badge, r) ELSE badge
      /\ dash' = IF "dashboard" \in r.askers THEN Settled(dash, r) ELSE dash
      /\ UNCHANGED <<page, asked>>
  BY DEF ReportAnswered, OnItsWay
<1>2. ReportShaped(r) /\ ResourceShaped(badge) /\ ResourceShaped(dash)
  BY DEF ReportsInv
<1>3. \A d : ResourceShaped(d) =>
          /\ ResourceShaped(Settled(d, r)) /\ Settled(d, r).withTheApp = d.withTheApp
          /\ Settled(d, r).state = r.state /\ Settled(d, r).report = r.report
  BY <1>1, <1>2 DEF Settled, ResourceShaped, ReportShaped
<1>4. ResourceShaped(badge') /\ ResourceShaped(dash') /\ dash'.withTheApp = dash.withTheApp
  BY <1>1, <1>2, <1>3
<1>5. dash.withTheApp => badge'.state = dash'.state /\ badge'.report = dash'.report
  BY <1>1, <1>2, <1>3 DEF ReportsInv, Together
<1>6. inflight' # 0 => \E o \in reports' : o.n = inflight'
  BY <1>1 DEF ReportsInv
<1>7. \A o \in reports' : ReportShaped(o)
  BY <1>1 DEF ReportsInv
<1>8. Together("badge", "dashboard") => Together("badge", "dashboard")'
  BY <1>1 DEF Together
<1> QED BY <1>1, <1>4, <1>5, <1>6, <1>7, <1>8 DEF ReportsInv, ResourceShaped

LEMMA OpenStep ==
    ASSUME ReportsInv, NEW to \in Pages, OpenApp(to)
    PROVE  ReportsInv'
<1> DEFINE askers == IF to = "dashboard" THEN {"badge", "dashboard"} ELSE {"badge"}
<1>1. /\ page = "closed" /\ page' = to /\ badge' = Asking
      /\ dash' = IF to = "dashboard" THEN [Asking EXCEPT !.withTheApp = TRUE] ELSE dash
      /\ getDashboard(askers)
  BY DEF OpenApp, Shows
<1>2. page' # "closed"
  BY <1>1, OverviewAssumption DEF Pages
<1>3. askers \in SUBSET {"badge", "dashboard"} /\ (to = "dashboard" => askers = {"badge", "dashboard"})
  OBVIOUS
<1> HIDE DEF askers
<1>4. /\ asked' \in Nat
      /\ \A r \in reports' : ReportShaped(r)
      /\ inflight' # 0 => \E r \in reports' : r.n = inflight'
      /\ \A r \in reports' : r.askers = askers
  BY <1>1, <1>3, AskStep DEF ReportsInv
<1>5. ResourceShaped(badge') /\ ResourceShaped(dash')
  BY <1>1 DEF Asking, ResourceShaped, ReportsInv
<1>6. ASSUME dash'.withTheApp
      PROVE  /\ page' = "dashboard" /\ Together("badge", "dashboard")'
             /\ badge'.state = dash'.state /\ badge'.report = dash'.report
  <2>1. to = "dashboard"
    BY <1>1, <1>6 DEF ReportsInv
  <2>2. badge'.state = dash'.state /\ badge'.report = dash'.report
    BY <1>1, <2>1 DEF Asking
  <2> QED BY <1>1, <1>3, <1>4, <2>1, <2>2 DEF Together
<1> QED BY <1>2, <1>4, <1>5, <1>6 DEF ReportsInv, ResourceShaped

(* Leaving, or asking again, ends what the dashboard had in common with the *)
(* sidebar.                                                                 *)
LEMMA AskAgainStep ==
    ASSUME ReportsInv, dash' = Asking, badge' = badge, page' # "closed",
           \/ getDashboard({"dashboard"})
           \/ (Forgets("dashboard") \/ UNCHANGED reports) /\ UNCHANGED <<asked, inflight>>
    PROVE  ReportsInv'
<1>1. ResourceShaped(badge') /\ ResourceShaped(dash') /\ ~dash'.withTheApp
  BY DEF Asking, ResourceShaped, ReportsInv
<1>2. /\ asked' \in Nat
      /\ \A r \in reports' : ReportShaped(r)
      /\ inflight' # 0 => \E r \in reports' : r.n = inflight'
  <2>1. CASE getDashboard({"dashboard"})
    BY <2>1, AskStep
  <2>2. CASE UNCHANGED <<reports, asked, inflight>>
    BY <2>2 DEF ReportsInv
  <2>3. CASE Forgets("dashboard") /\ UNCHANGED <<asked, inflight>>
    <3> DEFINE Left(r) == [r EXCEPT !.askers = @ \ {"dashboard"}]
    <3>1. reports' = {Left(r) : r \in reports}
      BY <2>3 DEF Forgets
    <3>2. \A r \in reports : ReportShaped(Left(r)) /\ Left(r).n = r.n
      BY DEF ReportShaped, ReportsInv
    <3> HIDE DEF Left
    <3>3. \A r \in reports' : ReportShaped(r)
      BY <3>1, <3>2
    <3>4. inflight # 0 => \E r \in reports' : r.n = inflight
      BY <3>1, <3>2 DEF ReportsInv
    <3> QED BY <2>3, <3>3, <3>4 DEF ReportsInv
  <2> QED BY <2>1, <2>2, <2>3
<1> QED BY <1>1, <1>2 DEF ReportsInv, ResourceShaped

LEMMA VisitReportStep ==
    ASSUME ReportsInv, NEW to \in Pages, Visit(to)
    PROVE  ReportsInv'
<1>1. page' = to /\ dash' = Asking /\ badge' = badge
  BY DEF Visit, Shows
<1>2. page' # "closed"
  BY <1>1, OverviewAssumption DEF Pages
<1>3. \/ getDashboard({"dashboard"})
      \/ (Forgets("dashboard") \/ UNCHANGED reports) /\ UNCHANGED <<asked, inflight>>
  BY DEF Visit
<1> QED BY <1>1, <1>2, <1>3, AskAgainStep

LEMMA ReportsStep == ReportsInv /\ [Next]_vars => ReportsInv'
<1> SUFFICES ASSUME ReportsInv, [Next]_vars PROVE ReportsInv'
  OBVIOUS
<1>1. CASE UNCHANGED <<page, reportVars>>
  BY <1>1 DEF reportVars, ReportsInv, Together, ReportShaped, ResourceShaped
<1>2. CASE \E to \in Pages : OpenApp(to)
  BY <1>2, OpenStep
<1>3. CASE \E to \in Pages : Visit(to)
  BY <1>3, VisitReportStep
<1>4. CASE \E r \in reports : CountOrders(r) \/ ServeReport(r) \/ LoseReport(r)
  BY <1>4, ServeStep
<1>5. CASE \E r \in reports : ReportAnswered(r)
  BY <1>5, AnswerStep
<1>6. CASE ReloadReport
  <2>1. dash' = Asking /\ badge' = badge /\ page' # "closed" /\ getDashboard({"dashboard"})
    BY <1>6 DEF ReloadReport
  <2> QED BY <2>1, AskAgainStep
<1>7. CASE NameAnswered \/ LifetimeAnswered \/ ListHistory \/ HistoryAnswered
  BY <1>1, <1>7 DEF NameAnswered, LifetimeAnswered, ListHistory, HistoryAnswered
<1>11. CASE \E p \in Parts : LosePart(p) \/ ReloadPart(p)
  BY <1>1, <1>11 DEF LosePart, ReloadPart
<1>8. CASE \E r \in Ranges : SetRange(r)
  BY <1>1, <1>8 DEF SetRange
<1>9. CASE \E o \in Orders : MoveOrder(o) \/ Project(o)
  BY <1>1, <1>9 DEF MoveOrder, Project
<1>10. CASE UNCHANGED vars
  BY <1>1, <1>10 DEF vars
<1> QED BY <1>2, <1>3, <1>4, <1>5, <1>6, <1>7, <1>8, <1>9, <1>10, <1>11 DEF Next
-----------------------------------------------------------------------------
(* The service's lifetime value is that of all the customer's orders.       *)
LEMMA ValueOfTheHistory ==
    ASSUME NEW c PROVE LifetimeValue(c) = ValueOf(History(c))
<1>1. Counted(History(c)) = {o \in Placed(c) : IsValue(status[o])}
  BY DEF Counted, History
<1> QED BY <1>1 DEF ValueOf, LifetimeValue

LEMMA PlacedFacts ==
    ASSUME NEW c
    PROVE  /\ Placed(c) \subseteq Orders /\ DOMAIN History(c) = Placed(c)
           /\ \A o \in Placed(c) : Owner[o] = c
BY DEF Placed, History

LEMMA SameParts ==
    ASSUME PartsInv, UNCHANGED <<status, moves, page, part>>, range' \in Ranges
    PROVE  PartsInv'
BY DEF PartsInv, Shaped, Placed, History, Listed, AddedUp, RowsOf

(* A move leaves every part behind, and no order is taken back. *)
LEMMA MoveStep ==
    ASSUME PartsInv, NEW o \in Orders, MoveOrder(o)
    PROVE  PartsInv'
<1>1. moves' = moves + 1 /\ UNCHANGED <<page, part, range>>
  BY DEF MoveOrder
<1>2. PICK to \in L!Status : status' = [status EXCEPT ![o] = to]
  <2>1. \A s \in L!Status : L!transitions[s] \subseteq L!Status
    BY DEF L!Status, L!transitions
  <2>2. status[o] \in L!Status \cup {"unplaced"} /\ "pending" \in L!Status
    BY DEF PartsInv, Statuses, L!Status
  <2> QED BY <2>1, <2>2 DEF MoveOrder
<1>3. status' \in [Orders -> Statuses] /\ moves' \in Nat
  BY <1>1, <1>2 DEF PartsInv, Statuses
<1>4. \A p \in Parts : Shaped(part[p]) /\ part[p].version <= moves' /\ part[p].version # moves'
  BY <1>1 DEF PartsInv, Shaped
<1>5. Placed(page) \subseteq Placed(page)'
  <2>1. "unplaced" \notin L!Status
    BY DEF L!Status
  <2> QED BY <1>1, <1>2, <2>1 DEF Placed, PartsInv
<1>6. \A all : AddedUp(all) => AddedUp(all)'
  BY <1>1, <1>5 DEF AddedUp, RowsOf
<1>7. part'["history"].version # moves' /\ part'["lifetime"].version # moves'
  BY <1>1, <1>4 DEF Parts
<1> QED BY <1>1, <1>3, <1>4, <1>6, <1>7 DEF PartsInv, Listed

(* A part that is lost, or asked for again, says nothing.                   *)
LEMMA NothingSaidStep ==
    ASSUME PartsInv, NEW p \in Parts, NEW new, Shaped(new), new.key = part[p].key,
           new.version <= moves, new.state \in {"sent", "error"}, part[p].state # "loading",
           part' = [part EXCEPT ![p] = new], UNCHANGED <<status, moves, page, range>>
    PROVE  PartsInv'
<1>1. /\ part'[p] = new /\ \A q \in Parts \ {p} : part'[q] = part[q]
      /\ part' \in [Parts -> {part'[q] : q \in Parts}]
  BY DEF PartsInv
<1>2. \A q \in Parts : /\ Shaped(part'[q]) /\ part'[q].version <= moves
                       /\ page \in Customers => part'[q].key = page
                       /\ part'[q].state \in {"ready", "listed"} => part'[q] = part[q]
  BY <1>1 DEF PartsInv
<1>3. \A q \in {"name", "history", "lifetime"} :
          part'[q].state \in {"ready", "listed"} => part'[q] = part[q]
  BY <1>2 DEF Parts
<1>4. Listed' => Listed /\ part'["history"] = part["history"]
  BY <1>3 DEF Listed
<1>5. page \in Customers
  BY DEF PartsInv
<1>6. \A c : Placed(c)' = Placed(c) /\ History(c)' = History(c)
  BY DEF Placed, History
<1>7. Listed' /\ part'["lifetime"].state = "ready" => \A all : AddedUp(all) => AddedUp(all)'
  BY <1>3, <1>4, <1>6 DEF AddedUp, RowsOf
<1> QED BY <1>1, <1>2, <1>3, <1>4, <1>5, <1>6, <1>7 DEF PartsInv, RowsOf

LEMMA LosePartStep ==
    ASSUME PartsInv, NEW p \in Parts, LosePart(p)
    PROVE  PartsInv'
<1> DEFINE new == [part[p] EXCEPT !.state = "error"]
<1>1. /\ part' = [part EXCEPT ![p] = new]
      /\ UNCHANGED <<status, moves, page, range>> /\ part[p].state # "loading"
  BY DEF LosePart, servedVars
<1>2. /\ new.state = "error" /\ new.key = part[p].key /\ new.version = part[p].version
      /\ Shaped(new) /\ new.version <= moves
  BY DEF PartsInv, Shaped
<1> HIDE DEF new
<1> QED BY <1>1, <1>2, NothingSaidStep

LEMMA ReloadPartStep ==
    ASSUME PartsInv, NEW p \in Parts, ReloadPart(p)
    PROVE  PartsInv'
<1> DEFINE new == Ask(part[p].key)
<1>1. /\ part' = [part EXCEPT ![p] = new]
      /\ UNCHANGED <<status, moves, page, range>> /\ part[p].state # "loading"
  BY DEF ReloadPart, servedVars
<1>2. new.state = "sent" /\ new.key = part[p].key /\ new.version = 0 /\ Shaped(new)
  BY DEF Ask, NotAsked, Shaped
<1>3. new.version <= moves
  BY <1>2 DEF PartsInv
<1> HIDE DEF new
<1> QED BY <1>1, <1>2, <1>3, NothingSaidStep

LEMMA NameAnsweredStep == ASSUME PartsInv, NameAnswered PROVE PartsInv'
<1> DEFINE new == [part["name"] EXCEPT !.state = "ready", !.version = moves, !.said = page]
<1>1. /\ part' = [part EXCEPT !["name"] = new] /\ page \in Customers
      /\ UNCHANGED <<status, moves, page, range>>
  BY DEF NameAnswered, Received, servedVars
<1>2. "name" \in Parts /\ "history" \in Parts /\ "lifetime" \in Parts
  BY DEF Parts
<1>3. Shaped(new) /\ new.key = page /\ new.version = moves /\ new.said = page
  BY <1>1, <1>2 DEF PartsInv, Shaped
<1> HIDE DEF new
<1>4. /\ part'["name"] = new /\ UNCHANGED <<part["history"], part["lifetime"]>>
      /\ part' \in [Parts -> {part'[q] : q \in Parts}]
      /\ \A q \in Parts : q # "name" => part'[q] = part[q]
  BY <1>1, <1>2 DEF PartsInv
<1>5. \A q \in Parts : Shaped(part'[q]) /\ part'[q].version <= moves /\ part'[q].key = page
  BY <1>1, <1>3, <1>4 DEF PartsInv
<1>6. \A c : Placed(c)' = Placed(c) /\ History(c)' = History(c)
  BY <1>1 DEF Placed, History
<1>7. \A all : AddedUp(all)' = AddedUp(all)
  BY <1>1, <1>4, <1>6 DEF AddedUp, RowsOf
<1> QED BY <1>1, <1>3, <1>4, <1>5, <1>6, <1>7 DEF PartsInv, Listed, RowsOf

(* The value is of all the orders there are now: of those that were listed  *)
(* since the last move, and of those that are being counted.                *)
LEMMA LifetimeAnsweredStep == ASSUME PartsInv, LifetimeAnswered PROVE PartsInv'
<1> DEFINE new == [part["lifetime"] EXCEPT !.state = "ready", !.version = moves,
                                           !.said = LifetimeValue(page)]
<1>0. PICK all : all = History(page)
  OBVIOUS
<1>1. /\ part' = [part EXCEPT !["lifetime"] = new] /\ page \in Customers
      /\ UNCHANGED <<status, moves, page, range>>
  BY DEF LifetimeAnswered, Received, servedVars
<1>2. "name" \in Parts /\ "history" \in Parts /\ "lifetime" \in Parts
  BY DEF Parts
<1>3. Shaped(new) /\ new.key = page /\ new.version = moves /\ new.said = ValueOf(all)
  BY <1>0, <1>1, <1>2, ValueOfTheHistory DEF PartsInv, Shaped
<1> HIDE DEF new
<1>4. /\ part'["lifetime"] = new /\ UNCHANGED <<part["history"], part["name"]>>
      /\ part' \in [Parts -> {part'[q] : q \in Parts}]
      /\ \A q \in Parts : q # "lifetime" => part'[q] = part[q]
  BY <1>1, <1>2 DEF PartsInv
<1>5. \A q \in Parts : Shaped(part'[q]) /\ part'[q].version <= moves /\ part'[q].key = page
  BY <1>1, <1>3, <1>4 DEF PartsInv
<1>6. \A c : Placed(c)' = Placed(c) /\ History(c)' = History(c)
  BY <1>1 DEF Placed, History
<1>7. DOMAIN all = Placed(page) /\ Placed(page) \subseteq Orders
  BY <1>0, PlacedFacts
<1>8. ASSUME Listed, part["history"].version = moves PROVE AddedUp(all)'
  <2>1. /\ RowsOf(part["history"].said, all)
        /\ part["history"].state = "ready" => part["history"].total = Cardinality(Placed(page))
    BY <1>0, <1>8 DEF PartsInv
  <2>2. Cardinality(Placed(page)) =< Cardinality(Placed(page))
    BY <1>7, OverviewAssumption, FS_Subset, FS_CardinalityType
  <2> QED BY <1>1, <1>3, <1>4, <1>6, <1>7, <2>1, <2>2 DEF AddedUp, RowsOf
<1> QED BY <1>0, <1>1, <1>3, <1>4, <1>5, <1>6, <1>8 DEF PartsInv, Listed, RowsOf

(* The rows are of orders there are now, and say of them what is so.        *)
LEMMA ListHistoryStep == ASSUME PartsInv, ListHistory PROVE PartsInv'
<1>0. PICK all : all = History(page)
  OBVIOUS
<1>1. PICK rows \in FirstPages(page) :
          part' = [part EXCEPT !["history"] = [@ EXCEPT !.state = "listed", !.version = moves,
                                                       !.said = [o \in rows |-> status[o]]]]
  BY DEF ListHistory
<1> DEFINE new == [part["history"] EXCEPT !.state = "listed", !.version = moves,
                                          !.said = [o \in rows |-> status[o]]]
<1>2. /\ part' = [part EXCEPT !["history"] = new] /\ page \in Customers
      /\ UNCHANGED <<status, moves, page, range>>
  BY <1>1 DEF ListHistory, Received, servedVars
<1>3. "name" \in Parts /\ "history" \in Parts /\ "lifetime" \in Parts
  BY DEF Parts
<1>4. /\ Shaped(new) /\ new.key = page /\ new.version = moves /\ new.state = "listed"
      /\ new.said = [o \in rows |-> status[o]]
  BY <1>2, <1>3 DEF PartsInv, Shaped
<1> HIDE DEF new
<1>5. /\ part'["history"] = new /\ UNCHANGED <<part["lifetime"], part["name"]>>
      /\ part' \in [Parts -> {part'[q] : q \in Parts}]
      /\ \A q \in Parts : q # "history" => part'[q] = part[q]
  BY <1>2, <1>3 DEF PartsInv
<1>6. \A q \in Parts : Shaped(part'[q]) /\ part'[q].version <= moves /\ part'[q].key = page
  BY <1>2, <1>4, <1>5 DEF PartsInv
<1>7. \A c : Placed(c)' = Placed(c) /\ History(c)' = History(c)
  BY <1>2 DEF Placed, History
<1>8. RowsOf(new.said, all) /\ \A o \in DOMAIN new.said : o \in Orders /\ Owner[o] = page
  <2>1. rows \subseteq Placed(page)
    BY DEF FirstPages
  <2>2. \A o \in Placed(page) : all[o] = status[o]
    BY <1>0 DEF History
  <2> QED BY <1>0, <1>4, <2>1, <2>2, PlacedFacts DEF RowsOf
<1>9. DOMAIN all = Placed(page) /\ Placed(page) \subseteq Orders
  BY <1>0, PlacedFacts
<1>10. ASSUME part["lifetime"].state = "ready", part["lifetime"].version = moves
       PROVE  AddedUp(all)'
  <2>1. part["lifetime"].said = ValueOf(all)
    BY <1>0, <1>10 DEF PartsInv
  <2> QED BY <1>2, <1>4, <1>5, <1>7, <1>8, <1>9, <2>1 DEF AddedUp, RowsOf
<1> QED BY <1>0, <1>2, <1>4, <1>5, <1>6, <1>7, <1>8, <1>10 DEF PartsInv, Listed, RowsOf

(* There are no fewer orders than when the value was added up.              *)
LEMMA HistoryAnsweredStep == ASSUME PartsInv, HistoryAnswered PROVE PartsInv'
<1> DEFINE new == [part["history"] EXCEPT !.state = "ready", !.total = Cardinality(Placed(page))]
<1>1. /\ part' = [part EXCEPT !["history"] = new] /\ page \in Customers
      /\ part["history"].state = "listed" /\ UNCHANGED <<status, moves, page, range>>
  BY DEF HistoryAnswered, Received, servedVars
<1>2. "name" \in Parts /\ "history" \in Parts /\ "lifetime" \in Parts
  BY DEF Parts
<1>3. /\ Shaped(new) /\ new.key = page /\ new.version = part["history"].version
      /\ new.said = part["history"].said /\ new.total = Cardinality(Placed(page))
      /\ new.state = "ready"
  BY <1>1, <1>2 DEF PartsInv, Shaped
<1> HIDE DEF new
<1>4. /\ part'["history"] = new /\ UNCHANGED <<part["lifetime"], part["name"]>>
      /\ part' \in [Parts -> {part'[q] : q \in Parts}]
      /\ \A q \in Parts : q # "history" => part'[q] = part[q]
  BY <1>1, <1>2 DEF PartsInv
<1>5. \A q \in Parts : Shaped(part'[q]) /\ part'[q].version <= moves /\ part'[q].key = page
  BY <1>1, <1>2, <1>3, <1>4 DEF PartsInv
<1>6. \A c : Placed(c)' = Placed(c) /\ History(c)' = History(c)
  BY <1>1 DEF Placed, History
<1>7. ASSUME NEW all, AddedUp(all) PROVE AddedUp(all)'
  <2>1. DOMAIN all \subseteq Placed(page)
    BY <1>1, <1>7 DEF AddedUp
  <2>2. Cardinality(DOMAIN all) =< Cardinality(Placed(page))
    BY <2>1, PlacedFacts, OverviewAssumption, FS_Subset
  <2> QED BY <1>1, <1>3, <1>4, <1>7, <2>2 DEF AddedUp, RowsOf
<1> QED BY <1>1, <1>3, <1>4, <1>5, <1>6, <1>7 DEF PartsInv, Listed, RowsOf

(* Another page has nothing of the one that was left. *)
LEMMA ShowsStep ==
    ASSUME PartsInv, NEW to \in Pages, to # page, Shows(to), UNCHANGED <<status, moves>>
    PROVE  PartsInv'
<1>1. /\ page' = to /\ range' = Longest
      /\ part' = [p \in Parts |->
                     IF to \notin Customers THEN NotAsked
                     ELSE IF page \in Customers /\ part[p].key = KeyOf(p, to) THEN part[p]
                     ELSE Ask(KeyOf(p, to))]
  BY DEF Shows
<1>2. \A p \in Parts : part'[p] = IF to \in Customers THEN Ask(to) ELSE NotAsked
  BY <1>1 DEF PartsInv, KeyOf
<1>3. /\ Shaped(NotAsked) /\ NotAsked.state = "loading" /\ NotAsked.version = 0
      /\ \A k : Shaped(Ask(k)) /\ Ask(k).state = "sent" /\ Ask(k).version = 0 /\ Ask(k).key = k
  BY DEF Ask, NotAsked, Shaped
<1>4. part' \in [Parts -> {part'[p] : p \in Parts}]
  BY <1>1
<1>5. \A p \in Parts : /\ Shaped(part'[p]) /\ part'[p].version = 0 /\ part'[p].state \in {"sent", "loading"}
                       /\ IF to \in Customers THEN part'[p].key = to ELSE part'[p].state = "loading"
  BY <1>2, <1>3
<1> QED BY <1>1, <1>4, <1>5, LongestRange DEF PartsInv, Parts, Listed

LEMMA PartsStep == PartsInv /\ [Next]_vars => PartsInv'
<1> SUFFICES ASSUME PartsInv, [Next]_vars PROVE PartsInv'
  OBVIOUS
<1>1. range \in Ranges
  BY DEF PartsInv
<1>2. CASE \E to \in Pages : OpenApp(to) \/ Visit(to)
  <2>1. PICK to \in Pages : OpenApp(to) \/ Visit(to)
    BY <1>2
  <2>2. to # page /\ Shows(to) /\ UNCHANGED <<status, moves>>
    BY <2>1, OverviewAssumption DEF OpenApp, Visit, servedVars, Pages
  <2> QED BY <2>2, ShowsStep
<1>3. CASE \E r \in reports :
             CountOrders(r) \/ ServeReport(r) \/ LoseReport(r) \/ ReportAnswered(r)
  BY <1>1, <1>3, SameParts DEF CountOrders, ServeReport, LoseReport, ReportAnswered, servedVars
<1>4. CASE ReloadReport
  BY <1>1, <1>4, SameParts DEF ReloadReport, servedVars
<1>5. CASE \E p \in Parts : LosePart(p) \/ ReloadPart(p)
  BY <1>5, LosePartStep, ReloadPartStep
<1>10. CASE NameAnswered \/ LifetimeAnswered \/ ListHistory \/ HistoryAnswered
  BY <1>10, NameAnsweredStep, LifetimeAnsweredStep, ListHistoryStep, HistoryAnsweredStep
<1>6. CASE \E r \in Ranges : SetRange(r)
  BY <1>6, SameParts DEF SetRange, servedVars
<1>7. CASE \E o \in Orders : MoveOrder(o)
  BY <1>7, MoveStep
<1>8. CASE \E o \in Orders : Project(o)
  BY <1>1, <1>8, SameParts DEF Project
<1>9. CASE UNCHANGED vars
  BY <1>1, <1>9, SameParts DEF vars, servedVars
<1> QED BY <1>2, <1>3, <1>4, <1>5, <1>6, <1>7, <1>8, <1>9, <1>10 DEF Next
-----------------------------------------------------------------------------
(* In every state the screens show what OverviewInv says.                   *)
THEOREM OverviewInvariant == Spec => []OverviewInv
<1>1. OverviewInv /\ [Next]_vars => OverviewInv'
  BY ReportsStep, PartsStep DEF OverviewInv
<1> QED BY <1>1, InitInv, PTL DEF Spec

(* The resources of the sidebar, the dashboard and a customer's page.       *)
THEOREM OverviewIsTyped == Spec => []OverviewTypeOK
<1>1. OverviewInv => OverviewTypeOK
  BY DEF OverviewInv, ReportsInv, PartsInv, OverviewTypeOK, ReportShaped, ResourceShaped, Shaped
<1> QED BY <1>1, OverviewInvariant, PTL

(* reports.ts: two screens that ask together share the request, so that the *)
(* badge and the dashboard count the same orders.                           *)
THEOREM BadgeAgrees == Spec => []BadgeIsTheDashboardsTotal
<1>1. OverviewInv => BadgeIsTheDashboardsTotal
  BY DEF OverviewInv, ReportsInv, BadgeIsTheDashboardsTotal, WAITING, WAITING_STATUSES
<1> QED BY <1>1, OverviewInvariant, PTL

(* CustomerDetail.tsx: the three parts are about the customer of the page.  *)
(* When nothing moved between the reads, the value is that of orders among  *)
(* which the ones shown are, and of those shown alone if they are as many   *)
(* as the page says there are.                                              *)
LEMMA TheSumOfThePage ==
    ASSUME NEW all, NEW rows, RowsOf(rows, all), DOMAIN all \subseteq Orders, NEW answer,
           answer = ValueOf(all)
    PROVE  LET currencies == {Currency[o] : o \in Counted(rows)}
               whole == DOMAIN rows = DOMAIN all
           IN /\ answer.code # "mixed_currency_history" /\ answer.currency = NoCurrency =>
                     currencies = {}
              /\ Cardinality(currencies) > 1 => answer.code = "mixed_currency_history"
              /\ whole /\ currencies = {} =>
                     answer.code = "ok" /\ answer.currency = NoCurrency
              /\ whole /\ Cardinality(currencies) = 1 =>
                     /\ answer.code = "ok" /\ answer.currency # NoCurrency
                     /\ answer.minor = Sum(Total, Counted(rows))
<1> DEFINE those == {Currency[o] : o \in Counted(all)}
           currencies == {Currency[o] : o \in Counted(rows)}
           n == Cardinality(those)
           first == CHOOSE k \in those : TRUE
<1>1. Counted(all) \subseteq Orders /\ Counted(rows) \subseteq Counted(all)
  BY DEF Counted, RowsOf
<1>2. those \subseteq Nat \ {NoCurrency} /\ currencies \subseteq those
  BY <1>1, OverviewAssumption
<1>3. IsFiniteSet(those)
  <2> DEFINE f == [o \in Counted(all) |-> Currency[o]]
  <2>1. f \in Surjection(Counted(all), those)
    BY DEF Surjection
  <2>2. IsFiniteSet(Counted(all))
    BY <1>1, OverviewAssumption, FS_Subset
  <2> HIDE DEF f, those
  <2> QED BY <2>1, <2>2, FS_Surjection
<1>4. answer = IF n > 1 THEN [code |-> "mixed_currency_history"]
               ELSE [code |-> "ok",
                     currency |-> IF those = {} THEN NoCurrency ELSE first,
                     minor |-> Sum(Total, Counted(all))]
  BY DEF ValueOf
<1>5. DOMAIN rows = DOMAIN all => Counted(rows) = Counted(all)
  BY DEF Counted, RowsOf
<1> HIDE DEF those
<1>6. those # {} => first \in those
  OBVIOUS
<1> HIDE DEF first
<1>7. n \in Nat /\ (those = {} => n = 0) /\ Cardinality(currencies) =< n
  BY <1>2, <1>3, FS_EmptySet, FS_CardinalityType, FS_Subset
<1>8. Cardinality(currencies) \in Nat /\ (Cardinality(currencies) = 1 => currencies # {})
  <2>1. IsFiniteSet(currencies)
    BY <1>2, <1>3, FS_Subset
  <2> HIDE DEF currencies
  <2>2. Cardinality(currencies) \in Nat
    BY <2>1, FS_CardinalityType
  <2>3. currencies = {} => Cardinality(currencies) = 0
    BY FS_EmptySet
  <2> QED BY <2>2, <2>3
<1>9. ASSUME answer.code # "mixed_currency_history", answer.currency = NoCurrency
      PROVE  currencies = {}
  <2>1. answer.currency = IF those = {} THEN NoCurrency ELSE first
    BY <1>4, <1>9
  <2>2. those = {}
    BY <1>2, <1>6, <1>9, <2>1
  <2> QED BY <1>2, <2>2
<1>10. ASSUME Cardinality(currencies) > 1 PROVE answer.code = "mixed_currency_history"
  <2>1. n > 1
    <3> HIDE DEF n, currencies
    <3> QED BY <1>7, <1>8, <1>10
  <2> QED BY <1>4, <2>1
<1>11. ASSUME DOMAIN rows = DOMAIN all PROVE currencies = those /\ Counted(rows) = Counted(all)
  BY <1>5, <1>11 DEF those
<1>12. ASSUME DOMAIN rows = DOMAIN all, currencies = {}
       PROVE  answer.code = "ok" /\ answer.currency = NoCurrency
  <2>1. those = {} /\ n = 0
    BY <1>7, <1>11, <1>12
  <2>2. answer = [code |-> "ok", currency |-> NoCurrency, minor |-> Sum(Total, Counted(all))]
    <3>1. ~(n > 1)
      BY ONLY <2>1
    <3> HIDE DEF n
    <3> QED BY <1>4, <2>1, <3>1
  <2> QED BY <2>2
<1>13. ASSUME DOMAIN rows = DOMAIN all, Cardinality(currencies) = 1
       PROVE  /\ answer.code = "ok" /\ answer.currency # NoCurrency
              /\ answer.minor = Sum(Total, Counted(rows))
  <2>1. n = 1 /\ those # {}
    BY <1>8, <1>11, <1>13
  <2>2. answer = [code |-> "ok", currency |-> first, minor |-> Sum(Total, Counted(all))]
    <3>1. ~(n > 1)
      BY ONLY <2>1
    <3> HIDE DEF n
    <3> QED BY <1>4, <2>1, <3>1
  <2>3. first # NoCurrency
    BY <1>2, <1>6, <2>1
  <2> QED BY <1>11, <1>13, <2>2, <2>3
<1> QED BY <1>9, <1>10, <1>12, <1>13

THEOREM LifetimeIsOfTheOrders == Spec => []LifetimeMatchesTheOrders
<1> DEFINE history == part["history"].said
           counted == {o \in DOMAIN history : IsValue(history[o])}
           currencies == {Currency[o] : o \in counted}
           answer == part["lifetime"].said
           whole == Cardinality(DOMAIN history) = part["history"].total
<1>1. ASSUME OverviewInv, HistoryShown
      PROVE  part["name"].said = page /\ \A o \in DOMAIN history : o \in Orders /\ Owner[o] = page
  BY <1>1 DEF OverviewInv, PartsInv, HistoryShown, NameShown, Listed
<1>2. ASSUME OverviewInv, HistoryShown,
             part["lifetime"].state = "ready", part["lifetime"].version = part["history"].version
      PROVE  /\ currencies # {} => LifetimeShown.text # "no orders yet"
             /\ Cardinality(currencies) > 1 => LifetimeShown = Says("more than one currency")
             /\ whole /\ currencies = {} => LifetimeShown = Says("no orders yet")
             /\ whole /\ Cardinality(currencies) = 1 =>
                   LifetimeShown = Amount(Sum(Total, counted))
  <2>1. part["history"].state = "ready"
    BY <1>2 DEF HistoryShown
  <2>2. PICK all : AddedUp(all)
    BY <1>2, <2>1 DEF OverviewInv, PartsInv, Listed
  <2>3. /\ answer = ValueOf(all) /\ DOMAIN all \subseteq Orders /\ RowsOf(history, all)
        /\ Cardinality(DOMAIN all) =< part["history"].total
    BY <2>1, <2>2 DEF AddedUp
  <2>4. whole => DOMAIN history = DOMAIN all
    <3>1. DOMAIN history \subseteq DOMAIN all /\ IsFiniteSet(DOMAIN all)
      BY <2>3, OverviewAssumption, FS_Subset DEF RowsOf
    <3>2. /\ Cardinality(DOMAIN history) =< Cardinality(DOMAIN all)
          /\ Cardinality(DOMAIN history) \in Nat /\ Cardinality(DOMAIN all) \in Nat
          /\ Cardinality(DOMAIN history) = Cardinality(DOMAIN all) => DOMAIN history = DOMAIN all
      BY <3>1, FS_Subset, FS_CardinalityType
    <3> QED BY <2>3, <3>2
  <2>5. Counted(history) = counted
    BY DEF Counted
  <2>6. LifetimeShown = IF answer.code = "mixed_currency_history"
                        THEN Says("more than one currency")
                        ELSE IF answer.currency = NoCurrency THEN Says("no orders yet")
                        ELSE Amount(answer.minor)
    BY <1>2 DEF LifetimeShown
  <2>7. /\ Says("more than one currency").text # "no orders yet"
        /\ \A minor : Amount(minor).text # "no orders yet"
    BY DEF Says, Amount
  <2> HIDE DEF history, answer, counted, whole
  <2>8. /\ answer.code # "mixed_currency_history" /\ answer.currency = NoCurrency =>
               currencies = {}
        /\ Cardinality(currencies) > 1 => answer.code = "mixed_currency_history"
        /\ whole /\ currencies = {} => answer.code = "ok" /\ answer.currency = NoCurrency
        /\ whole /\ Cardinality(currencies) = 1 =>
               /\ answer.code = "ok" /\ answer.currency # NoCurrency
               /\ answer.minor = Sum(Total, counted)
    BY <2>3, <2>4, <2>5, TheSumOfThePage
  <2> HIDE DEF currencies
  <2> QED BY <2>6, <2>7, <2>8
<1>3. OverviewInv => LifetimeMatchesTheOrders
  BY <1>1, <1>2 DEF LifetimeMatchesTheOrders
<1> QED BY <1>3, OverviewInvariant, PTL
-----------------------------------------------------------------------------
(* A table of revenue: the newest day first, and of a day the currencies in *)
(* the order of the alphabet.                                               *)
Row == [day : Nat, currency : Nat \ {NoCurrency}]
TableSound(table) ==
    /\ table \in Seq(Row)
    /\ \A i, j \in DOMAIN table : i < j => IsAbove(table[i], table[j])
TablesInv ==
    /\ revenue \subseteq Row /\ IsFiniteSet(revenue)
    /\ \A r \in reports : TableSound(r.report.revenue)
    /\ TableSound(dash.report.revenue)

LEMMA AnEmptyTable == TableSound(<< >>)
BY DEF TableSound

LEMMA RevenueIsSound ==
    ASSUME revenue \subseteq Row, IsFiniteSet(revenue)
    PROVE  TableSound(Revenue)
<1> DEFINE order == {pair \in revenue \X revenue : IsAbove(pair[1], pair[2])}
<1>1. \A x, y \in revenue : <<x, y>> \in order <=> IsAbove(x, y)
  OBVIOUS
<1>2. \A x \in revenue : x.day \in Nat /\ x.currency \in Nat
  BY DEF Row
<1>3. \A x, y \in revenue : x.day = y.day /\ x.currency = y.currency => x = y
  BY DEF Row
<1>4. Revenue = Ranked(revenue, order)
  BY DEF Revenue
<1> HIDE DEF order
<1>5. \A x \in revenue : <<x, x>> \notin order
  BY <1>1, <1>2 DEF IsAbove
<1>6. \A x, y \in revenue : x # y => <<x, y>> \in order \/ <<y, x>> \in order
  BY <1>1, <1>2, <1>3 DEF IsAbove
<1>7. \A x, y, z \in revenue : <<x, y>> \in order /\ <<y, z>> \in order => <<x, z>> \in order
  <2>1. \A x, y, z \in revenue : IsAbove(x, y) /\ IsAbove(y, z) => IsAbove(x, z)
    BY <1>2 DEF IsAbove
  <2> QED BY <1>1, <2>1
<1>8. /\ Revenue \in Seq(revenue)
      /\ \A i, j \in DOMAIN Revenue : i < j => <<Revenue[i], Revenue[j]>> \in order
  BY <1>4, <1>5, <1>6, <1>7, RankedFacts
<1>9. \A i \in DOMAIN Revenue : Revenue[i] \in revenue
  BY <1>8
<1>10. Revenue \in Seq(Row)
  BY <1>8
<1> QED BY <1>1, <1>8, <1>9, <1>10 DEF TableSound

LEMMA TablesInit == Init => TablesInv
<1> SUFFICES ASSUME Init PROVE TablesInv
  OBVIOUS
<1>1. revenue \subseteq Row /\ IsFiniteSet(revenue)
  <2>1. revenue \subseteq [day : 1..Days, currency : Currencies] /\ IsFiniteSet(revenue)
    BY OverviewAssumption DEF Init
  <2>2. Currencies \subseteq Nat \ {NoCurrency} /\ 1..Days \subseteq Nat
    BY OverviewAssumption DEF Currencies, Range
  <2> QED BY <2>1, <2>2 DEF Row
<1>2. reports = {} /\ dash.report.revenue = << >>
  BY DEF Init, Asking, Empty
<1> QED BY <1>1, <1>2, AnEmptyTable DEF TablesInv

(* Only an answer of the service brings a table; whatever else happens to   *)
(* the requests, those of before keep theirs and a new one has none.        *)
LEMMA KeptTables ==
    ASSUME TablesInv, UNCHANGED revenue,
           \A q \in reports' : q.report = Empty \/ \E r \in reports : q.report = r.report,
           dash'.report = Empty \/ dash'.report = dash.report
    PROVE  TablesInv'
<1>1. TableSound(Empty.revenue)
  BY AnEmptyTable DEF Empty
<1> QED BY <1>1 DEF TablesInv

LEMMA AskTables ==
    ASSUME ReportsInv, NEW askers, getDashboard(askers)
    PROVE  \A q \in reports' : q.report = Empty \/ \E r \in reports : q.report = r.report
<1>1. CASE inflight = 0
  <2> DEFINE new == Request(asked + 1, askers)
  <2>1. reports' = reports \cup {new} /\ new.report = Empty
    BY <1>1 DEF getDashboard, Request
  <2> HIDE DEF new
  <2> QED BY <2>1
<1>2. CASE inflight # 0
  <2> DEFINE With(r) == IF r.n = inflight THEN [r EXCEPT !.askers = @ \cup askers] ELSE r
  <2>1. reports' = {With(r) : r \in reports}
    BY <1>2 DEF getDashboard
  <2>2. \A r \in reports : With(r).report = r.report
    BY DEF ReportsInv, ReportShaped
  <2> HIDE DEF With
  <2> QED BY <2>1, <2>2
<1> QED BY <1>1, <1>2

LEMMA TablesStep == ReportsInv /\ TablesInv /\ [Next]_vars => TablesInv'
<1> SUFFICES ASSUME ReportsInv, TablesInv, [Next]_vars PROVE TablesInv'
  OBVIOUS
<1> DEFINE AllKept == \A q \in reports' : q.report = Empty \/ \E r \in reports : q.report = r.report
<1>0. Asking.report = Empty /\ [Asking EXCEPT !.withTheApp = TRUE].report = Empty
  BY DEF Asking
<1>1. CASE UNCHANGED <<revenue, reports, dash>>
  BY <1>1 DEF TablesInv
<1>2. CASE \E to \in Pages : OpenApp(to)
  <2>1. PICK to \in Pages : OpenApp(to)
    BY <1>2
  <2>2. AllKept /\ UNCHANGED revenue /\ (dash'.report = Empty \/ dash' = dash)
    BY <1>0, <2>1, AskTables DEF OpenApp, servedVars
  <2> QED BY <2>2, KeptTables
<1>3. CASE \E to \in Pages : Visit(to)
  <2>1. PICK to \in Pages : Visit(to)
    BY <1>3
  <2>2. dash' = Asking /\ UNCHANGED revenue
    BY <2>1 DEF Visit, servedVars
  <2>3. CASE getDashboard({"dashboard"})
    BY <1>0, <2>2, <2>3, AskTables, KeptTables
  <2>4. CASE Forgets("dashboard")
    <3>1. reports' = {[r EXCEPT !.askers = @ \ {"dashboard"}] : r \in reports}
      BY <2>4 DEF Forgets
    <3>2. \A r \in reports : [r EXCEPT !.askers = @ \ {"dashboard"}].report = r.report
      BY DEF ReportsInv, ReportShaped
    <3>3. AllKept
      BY <3>1, <3>2
    <3> QED BY <1>0, <2>2, <3>3, KeptTables
  <2>5. CASE UNCHANGED reports
    BY <1>0, <2>2, <2>5, KeptTables
  <2> QED BY <2>1, <2>3, <2>4, <2>5 DEF Visit
<1>13. CASE \E r \in reports : CountOrders(r)
  <2>1. PICK r \in reports : CountOrders(r)
    BY <1>13
  <2> DEFINE q == [r EXCEPT !.state = "counted", !.report = [@ EXCEPT !.counts = StatusCounts]]
  <2>2. reports' = (reports \ {r}) \cup {q} /\ UNCHANGED <<revenue, dash>>
    BY <2>1 DEF CountOrders, servedVars
  <2>3. q.report.revenue = r.report.revenue
    BY DEF ReportsInv, ReportShaped
  <2> HIDE DEF q
  <2> QED BY <2>2, <2>3 DEF TablesInv
<1>4. CASE \E r \in reports : ServeReport(r)
  <2>1. PICK r \in reports : ServeReport(r)
    BY <1>4
  <2> DEFINE q == [r EXCEPT !.state = "ready", !.report = [@ EXCEPT !.revenue = Revenue]]
  <2>2. reports' = (reports \ {r}) \cup {q} /\ UNCHANGED <<revenue, dash>>
    BY <2>1 DEF ServeReport, servedVars
  <2>3. q.report.revenue = Revenue
    BY DEF ReportsInv, ReportShaped
  <2>4. TableSound(Revenue)
    BY RevenueIsSound DEF TablesInv
  <2> HIDE DEF q
  <2> QED BY <2>2, <2>3, <2>4 DEF TablesInv
<1>5. CASE \E r \in reports : LoseReport(r)
  <2>1. PICK r \in reports : LoseReport(r)
    BY <1>5
  <2> DEFINE q == [r EXCEPT !.state = "error"]
  <2>2. reports' = (reports \ {r}) \cup {q} /\ UNCHANGED <<revenue, dash>>
    BY <2>1 DEF LoseReport, servedVars
  <2>3. q.report = r.report
    BY DEF ReportsInv, ReportShaped
  <2> HIDE DEF q
  <2> QED BY <2>2, <2>3 DEF TablesInv
<1>6. CASE \E r \in reports : ReportAnswered(r)
  <2>1. PICK r \in reports : ReportAnswered(r)
    BY <1>6
  <2>2. /\ reports' \subseteq reports /\ UNCHANGED revenue
        /\ dash' = Settled(dash, r) \/ dash' = dash
    BY <2>1 DEF ReportAnswered, servedVars
  <2>3. Settled(dash, r).report = r.report
    BY DEF Settled, ReportsInv, ResourceShaped
  <2> QED BY <2>2, <2>3 DEF TablesInv
<1>7. CASE ReloadReport
  <2>1. dash' = Asking /\ getDashboard({"dashboard"}) /\ UNCHANGED revenue
    BY <1>7 DEF ReloadReport, servedVars
  <2> QED BY <1>0, <2>1, AskTables, KeptTables
<1>8. CASE \/ NameAnswered \/ LifetimeAnswered \/ ListHistory \/ HistoryAnswered
           \/ \E p \in Parts : LosePart(p) \/ ReloadPart(p)
  BY <1>1, <1>8 DEF NameAnswered, LifetimeAnswered, ListHistory, HistoryAnswered, LosePart,
     ReloadPart, servedVars, reportVars
<1>9. CASE \E r \in Ranges : SetRange(r)
  BY <1>1, <1>9 DEF SetRange, servedVars, reportVars
<1>10. CASE \E o \in Orders : MoveOrder(o)
  BY <1>1, <1>10 DEF MoveOrder, reportVars
<1>11. CASE \E o \in Orders : Project(o)
  <2>1. PICK o \in Orders : Project(o)
    BY <1>11
  <2> DEFINE row == [day |-> Days, currency |-> Currency[o]]
  <2>2. revenue' = revenue \cup {row} /\ UNCHANGED <<reports, dash>>
    BY <2>1 DEF Project, reportVars
  <2>3. row \in Row
    BY OverviewAssumption DEF Row
  <2> HIDE DEF row
  <2>4. IsFiniteSet(revenue')
    BY <2>2, FS_AddElement DEF TablesInv
  <2> QED BY <2>2, <2>3, <2>4 DEF TablesInv
<1>12. CASE UNCHANGED vars
  BY <1>1, <1>12 DEF vars, servedVars, reportVars
<1> QED BY <1>2, <1>3, <1>4, <1>5, <1>6, <1>7, <1>8, <1>9, <1>10, <1>11, <1>12,
   <1>13 DEF Next

LEMMA TablesInvariant == Spec => []TablesInv
<1>1. Spec => []ReportsInv
  BY OverviewInvariant, PTL DEF OverviewInv
<1> QED BY <1>1, TablesInit, TablesStep, PTL DEF Spec
-----------------------------------------------------------------------------
(* The chart: the best currency so far is chosen row by row.                *)
Improved(f, n) ==
    IF n = 0 THEN NoCurrency
    ELSE IF Beats(Table[n].currency, f[n - 1]) THEN Table[n].currency
    ELSE f[n - 1]
BestSoFar(f, m) == f = [n \in 0..m |-> Improved(f, n)]

LEMMA BestExists ==
    ASSUME NEW k \in Nat
    PROVE  \E f : BestSoFar(f, k)
<1> DEFINE B == {m \in Nat : ~\E f : BestSoFar(f, m)}
<1> SUFFICES ASSUME B # {} PROVE FALSE
  OBVIOUS
<1>1. PICK m \in B : \A n \in B : m =< n
  <2>1. B \subseteq Nat
    OBVIOUS
  <2> HIDE DEF B
  <2> QED BY <2>1, LeastNatural
<1>2. m \in Nat /\ ~\E f : BestSoFar(f, m)
  BY <1>1
<1>3. CASE m = 0
  <2> DEFINE g == [n \in 0..0 |-> NoCurrency]
  <2>1. BestSoFar(g, 0)
    BY DEF BestSoFar, Improved
  <2> QED BY <1>2, <1>3, <2>1
<1>4. CASE m # 0
  <2>1. m - 1 \in Nat /\ m - 1 \notin B
    BY <1>1, <1>2, <1>4
  <2>2. PICK f : BestSoFar(f, m - 1)
    BY <2>1
  <2> DEFINE g == [n \in 0..m |-> IF n = m THEN Improved(f, m) ELSE f[n]]
  <2>3. \A n \in 0..m : g[n] = Improved(g, n)
    <3> SUFFICES ASSUME NEW n \in 0..m PROVE g[n] = Improved(g, n)
      OBVIOUS
    <3>1. n \in Nat /\ (n = 0 \/ n - 1 \in 0..m) /\ n - 1 # m
      BY <1>2
    <3>2. n # 0 => g[n - 1] = f[n - 1]
      BY <3>1
    <3>3. Improved(g, n) = Improved(f, n)
      BY <3>2 DEF Improved
    <3>4. CASE n = m
      BY <3>3, <3>4
    <3>5. CASE n # m
      <4>1. n \in 0..(m - 1)
        BY <1>2, <3>5
      <4>2. f[n] = Improved(f, n)
        BY <2>2, <4>1 DEF BestSoFar
      <4> QED BY <3>3, <3>5, <4>2
    <3> QED BY <3>4, <3>5
  <2>4. g = [n \in 0..m |-> g[n]]
    OBVIOUS
  <2> HIDE DEF g
  <2>5. BestSoFar(g, m)
    BY <2>3, <2>4 DEF BestSoFar
  <2> QED BY <1>2, <2>5
<1> QED BY <1>3, <1>4

LEMMA DominantIsTheLast ==
    Len(Table) \in Nat =>
        \E f : BestSoFar(f, Len(Table)) /\ dominantCurrency = f[Len(Table)]
<1> SUFFICES ASSUME Len(Table) \in Nat
             PROVE \E f : BestSoFar(f, Len(Table)) /\ dominantCurrency = f[Len(Table)]
  OBVIOUS
<1> DEFINE best == CHOOSE f : BestSoFar(f, Len(Table))
<1>1. BestSoFar(best, Len(Table))
  BY BestExists
<1>2. dominantCurrency = best[Len(Table)]
  BY DEF dominantCurrency, BestSoFar, Improved
<1> QED BY <1>1, <1>2

(* What is chosen is a currency of the table, and is ahead of all of them.  *)
Ahead(best, c) ==
    LET more == Len(DaysOf(c)) - Len(DaysOf(best)) IN more < 0 \/ (more = 0 /\ best <= c)
Chosen(best, n) ==
    /\ best = NoCurrency <=> n = 0
    /\ n # 0 => \E j \in 1..n : best = Table[j].currency
    /\ \A i \in 1..n : Ahead(best, Table[i].currency)

LEMMA DaysAreCounted ==
    ASSUME TableSound(Table)
    PROVE  /\ Len(Table) \in Nat /\ DOMAIN Table = 1..Len(Table)
           /\ \A i \in 1..Len(Table) : Table[i].currency \in Nat \ {NoCurrency} /\ Table[i].day \in Nat
           /\ \A c : Len(DaysOf(c)) \in Nat
<1>1. Table \in Seq(Row)
  BY DEF TableSound
<1>2. \A c : DaysOf(c) \in Seq(Row)
  BY <1>1, KeptFacts DEF DaysOf
<1>3. \A c : Len(DaysOf(c)) \in Nat
  BY <1>2
<1>4. \A row \in Row : row.currency \in Nat \ {NoCurrency} /\ row.day \in Nat
  BY DEF Row
<1>5. Len(Table) \in Nat /\ DOMAIN Table = 1..Len(Table) /\ \A i \in 1..Len(Table) : Table[i] \in Row
  <2> HIDE DEF Table
  <2> QED BY <1>1
<1> QED BY <1>3, <1>4, <1>5

LEMMA TheChosenIsAhead ==
    ASSUME TableSound(Table), NEW f, BestSoFar(f, Len(Table)), NEW k \in 0..Len(Table)
    PROVE  Chosen(f[k], k)
<1> DEFINE N == Len(Table)
           B == {m \in 0..N : ~Chosen(f[m], m)}
<1> SUFFICES ASSUME B # {} PROVE FALSE
  OBVIOUS
<1>0. N \in Nat
  BY DaysAreCounted
<1>1. PICK m \in B : \A n \in B : m =< n
  <2>1. B \subseteq Nat
    BY <1>0
  <2> HIDE DEF B
  <2> QED BY <2>1, LeastNatural
<1>2. m \in 0..N /\ ~Chosen(f[m], m)
  BY <1>1
<1>3. f[m] = Improved(f, m)
  BY <1>2 DEF BestSoFar
<1>4. CASE m = 0
  <2>1. f[m] = NoCurrency /\ 1..m = {}
    BY <1>3, <1>4 DEF Improved
  <2> QED BY <1>2, <1>4, <2>1 DEF Chosen
<1>5. CASE m # 0
  <2> DEFINE old == f[m - 1]
             new == Table[m].currency
             Count(c) == Len(DaysOf(c))
  <2>1. m - 1 \in 0..N /\ m \in 1..N /\ ~(m =< m - 1) /\ m \in Nat /\ m - 1 \in Nat
    BY <1>0, <1>2, <1>5
  <2>2. Chosen(old, m - 1)
    BY <1>1, <2>1
  <2>3. f[m] = IF Beats(new, old) THEN new ELSE old
    BY <1>3, <1>5 DEF Improved
  <2>4. new \in Nat \ {NoCurrency} /\ \A c : Count(c) \in Nat
    BY <2>1, DaysAreCounted
  <2>5. \A i \in 1..m : i = m \/ i \in 1..(m - 1)
    BY <2>1
  <2>6. m \in 1..m /\ \A j \in 1..(m - 1) : j \in 1..m
    BY <2>1
  <2>7. \A i \in 1..m : Table[i].currency \in Nat
    <3>1. \A i \in 1..m : i \in 1..N
      BY <1>0, <2>1
    <3> QED BY <3>1, DaysAreCounted
  <2>8. old = NoCurrency => m = 1
    BY <2>1, <2>2 DEF Chosen
  <2>9. old # NoCurrency => old \in Nat
    <3>1. old # NoCurrency => \E j \in 1..(m - 1) : old = Table[j].currency
      BY <2>1, <2>2 DEF Chosen
    <3> QED BY <2>6, <2>7, <3>1
  <2>10. \A i \in 1..(m - 1) : Ahead(old, Table[i].currency)
    BY <2>2 DEF Chosen
  <2> HIDE DEF old, new
  <2>11. CASE Beats(new, old)
    <3>1. f[m] = new
      BY <2>3, <2>11
    <3>2. old # NoCurrency => Count(new) > Count(old) \/ (Count(new) = Count(old) /\ new < old)
      BY <2>11 DEF Beats
    <3>3. ASSUME NEW i \in 1..(m - 1) PROVE Ahead(new, Table[i].currency)
      <4>1. old # NoCurrency
        BY <2>1, <2>8, <3>3
      <4>2. Ahead(old, Table[i].currency) /\ Table[i].currency \in Nat
        BY <2>6, <2>7, <2>10
      <4> QED BY <2>4, <2>9, <3>2, <4>1, <4>2 DEF Ahead
    <3>4. Ahead(new, new)
      BY <2>4 DEF Ahead
    <3>5. \A i \in 1..m : Ahead(new, Table[i].currency)
      BY <2>5, <3>3, <3>4 DEF new
    <3>6. \E j \in 1..m : new = Table[j].currency
      BY <2>6 DEF new
    <3> QED BY <1>2, <1>5, <2>4, <3>1, <3>5, <3>6 DEF Chosen
  <2>12. CASE ~Beats(new, old)
    <3>1. f[m] = old
      BY <2>3, <2>12
    <3>2. old # NoCurrency
      BY <2>4, <2>12 DEF Beats
    <3>3. ~(Count(new) > Count(old) \/ (Count(new) = Count(old) /\ new < old))
      BY <2>12, <3>2 DEF Beats
    <3>4. Ahead(old, new)
      <4>1. new \in Nat /\ old \in Nat /\ Count(new) \in Nat /\ Count(old) \in Nat
        BY <2>4, <2>9, <3>2
      <4> QED BY <3>3, <4>1 DEF Ahead
    <3>5. \A i \in 1..m : Ahead(old, Table[i].currency)
      BY <2>5, <2>10, <3>4 DEF new
    <3>6. \E j \in 1..m : old = Table[j].currency
      BY <2>1, <2>2, <2>6, <3>2 DEF Chosen
    <3> QED BY <1>2, <1>5, <3>1, <3>2, <3>5, <3>6 DEF Chosen
  <2> QED BY <2>11, <2>12
<1> QED BY <1>4, <1>5

(* What the chart keeps of a currency's days: the newest ones, oldest first.*)
LEMMA LastDaysFacts ==
    ASSUME NEW S, NEW s \in Seq(S), NEW n \in Nat \ {0}
    PROVE  LET q == IF n < Len(s) THEN n ELSE Len(s) IN
           /\ LastDays(Reverse(s), n) = [i \in 1..q |-> s[q - i + 1]]
           /\ Len(LastDays(Reverse(s), n)) = q
<1> DEFINE k == Len(s)
           q == IF n < k THEN n ELSE k
           from == IF n < k THEN k - n + 1 ELSE 1
           t == Reverse(s)
<1>1. k \in Nat /\ DOMAIN s = 1..k /\ \A i \in 1..k : s[i] \in S
  OBVIOUS
<1>2. t = [i \in 1..k |-> s[k - i + 1]]
  BY DEF Reverse
<1>3. \A i \in 1..k : k - i + 1 \in 1..k
  BY <1>1
<1>4. t \in Seq(S) /\ Len(t) = k
  <2> HIDE DEF k, t
  <2> QED BY <1>1, <1>2, <1>3
<1>5. LastDays(t, n) = SubSeq(t, from, k)
  BY <1>4 DEF LastDays
<1>6. from \in Nat /\ k - from + 1 = q /\ q \in Nat /\ \A i \in 1..q : from + i - 1 \in 1..k
  BY <1>1
<1>7. \A i \in 1..q : k - (from + i - 1) + 1 = q - i + 1
  BY <1>1
<1> HIDE DEF k, t, from, q
<1>8. SubSeq(t, from, k) = [i \in 1..q |-> t[from + i - 1]]
  BY <1>1, <1>4, <1>6
<1>9. \A i \in 1..q : t[from + i - 1] = s[q - i + 1]
  BY <1>2, <1>6, <1>7
<1>10. LastDays(t, n) = [i \in 1..q |-> s[q - i + 1]]
  BY <1>5, <1>8, <1>9
<1>11. Len(LastDays(t, n)) = q
  BY <1>6, <1>10
<1> QED BY <1>10, <1>11 DEF k, t, q

(* One currency's rows stand in the table from the newest day on.           *)
LEMMA DaysDescend ==
    ASSUME TableSound(Table), NEW c
    PROVE  /\ DaysOf(c) \in Seq(Row)
           /\ Len(DaysOf(c)) =< Len(Table)
           /\ \A i \in DOMAIN Table : Table[i].currency = c => Len(DaysOf(c)) # 0
           /\ \A k, l \in DOMAIN DaysOf(c) : k < l => DaysOf(c)[l].day < DaysOf(c)[k].day
<1> DEFINE P == {row \in Range(Table) : row.currency = c}
           D == DaysOf(c)
<1>1. Table \in Seq(Row) /\ \A i, j \in DOMAIN Table : i < j => IsAbove(Table[i], Table[j])
  BY DEF TableSound
<1>2. \A i \in DOMAIN Table : Table[i] \in P <=> Table[i].currency = c
  BY DEF Range
<1>3. D = Kept(Table, P)
  BY DEF DaysOf
<1> HIDE DEF D, P
<1>4. /\ D \in Seq(Row) /\ Len(D) =< Len(Table)
      /\ \A k \in DOMAIN D : \E i \in DOMAIN Table : D[k] = Table[i] /\ Table[i] \in P
  BY <1>1, <1>3, KeptFacts
<1>5. /\ \A i \in DOMAIN Table : Table[i] \in P => \E k \in DOMAIN D : D[k] = Table[i]
      /\ \A k, l \in DOMAIN D :
            k < l => \E i, j \in DOMAIN Table : i < j /\ D[k] = Table[i] /\ D[l] = Table[j]
  BY <1>1, <1>3, KeptInOrder
<1>6. \A k \in DOMAIN D : D[k].currency = c /\ D[k].currency \in Nat /\ D[k].day \in Nat
  <2>1. \A row \in Row : row.day \in Nat /\ row.currency \in Nat
    BY DEF Row
  <2>2. \A k \in DOMAIN D : D[k] \in Row
    BY <1>4
  <2> QED BY <1>2, <1>4, <2>1, <2>2
<1>7. ASSUME NEW i \in DOMAIN Table, Table[i].currency = c PROVE Len(D) # 0
  <2>1. PICK k \in DOMAIN D : D[k] = Table[i]
    BY <1>2, <1>5, <1>7
  <2>2. k \in 1..Len(D) /\ Len(D) \in Nat
    BY <1>4, <2>1
  <2> QED BY <2>2
<1>8. ASSUME NEW k \in DOMAIN D, NEW l \in DOMAIN D, k < l PROVE D[l].day < D[k].day
  <2>1. PICK i \in DOMAIN Table, j \in DOMAIN Table : i < j /\ D[k] = Table[i] /\ D[l] = Table[j]
    BY <1>5, <1>8
  <2>2. IsAbove(D[k], D[l])
    BY <1>1, <2>1
  <2>3. D[k].day > D[l].day \/ D[k].currency < D[l].currency
    BY <2>2 DEF IsAbove
  <2>4. ~(D[k].currency < D[l].currency) /\ D[k].day \in Nat /\ D[l].day \in Nat
    BY <1>6
  <2> QED BY <2>3, <2>4
<1> QED BY <1>4, <1>7, <1>8 DEF D

LEMMA TheChartTellsTheTable ==
    ASSUME TablesInv, PartsInv
    PROVE  ChartTellsTheTable
<1> SUFFICES ASSUME page = "dashboard", dash.state = "ready" PROVE ChartTellsTheTable
  BY DEF ChartTellsTheTable
<1> DEFINE dom == dominantCurrency
           D == DaysOf(dom)
           N == Len(Table)
           q == IF range < Len(D) THEN range ELSE Len(D)
<1>1. TableSound(Table)
  BY DEF TablesInv, Table
<1>2. range \in Nat \ {0}
  BY OverviewAssumption DEF PartsInv
<1>3. N \in Nat /\ DOMAIN Table = 1..N /\ Table \in Seq(Row)
  BY <1>1, DaysAreCounted DEF TableSound
<1>4. PICK f : BestSoFar(f, N) /\ dom = f[N]
  BY <1>3, DominantIsTheLast
<1>5. Chosen(dom, N)
  <2>1. N \in 0..N
    BY <1>3
  <2> QED BY <1>1, <1>4, <2>1, TheChosenIsAhead
<1>6. /\ D \in Seq(Row) /\ Len(D) =< N
      /\ \A i \in DOMAIN Table : Table[i].currency = dom => Len(D) # 0
      /\ \A k, l \in DOMAIN D : k < l => D[l].day < D[k].day
  BY <1>1, DaysDescend
<1>7. Len(D) \in Nat /\ DOMAIN D = 1..Len(D)
  BY <1>6
<1>8. Series = [i \in 1..q |-> D[q - i + 1]] /\ Len(Series) = q
  BY <1>2, <1>6, LastDaysFacts DEF Series
<1> HIDE DEF D
<1>9. q \in Nat /\ q =< Len(D) /\ DOMAIN Series = 1..q
  BY <1>2, <1>7, <1>8
<1>10. (Chart = "no revenue yet") <=> Table = << >>
  <2>1. (Chart = "no revenue yet") <=> Len(Series) = 0
    BY DEF Chart
  <2>2. q = 0 <=> Len(D) = 0
    BY <1>2, <1>7
  <2>3. Len(D) = 0 <=> N = 0
    <3>1. N # 0 => \E j \in 1..N : dom = Table[j].currency
      BY <1>5 DEF Chosen
    <3>2. N # 0 => Len(D) # 0
      BY <1>3, <1>6, <3>1
    <3> HIDE DEF N
    <3> QED BY <1>3, <1>6, <1>7, <3>2
  <2>4. N = 0 <=> Table = << >>
    <3> HIDE DEF Table
    <3> QED BY <1>3
  <2> QED BY <1>8, <2>1, <2>2, <2>3, <2>4
<1>11. \A c \in InTable : Ahead(dom, c)
  BY <1>3, <1>5 DEF Chosen, InTable
<1> HIDE DEF dom, N
<1>12. ASSUME NEW i \in DOMAIN Series, NEW j \in DOMAIN Series, i < j
       PROVE  Series[i].day < Series[j].day
  <2>1. Series[i] = D[q - i + 1] /\ Series[j] = D[q - j + 1]
    BY <1>8, <1>9
  <2>2. q - i + 1 \in DOMAIN D /\ q - j + 1 \in DOMAIN D /\ q - j + 1 < q - i + 1
    BY <1>7, <1>9, <1>12
  <2> QED BY <1>6, <2>1, <2>2
<1>13. ASSUME NEW row \in Range(D) \ Range(Series)
       PROVE  Len(Series) = range /\ \A i \in DOMAIN Series : row.day < Series[i].day
  <2>1. PICK k \in DOMAIN D : row = D[k]
    BY <1>13 DEF Range
  <2>2. q < k
    <3> SUFFICES ASSUME ~(q < k) PROVE FALSE
      OBVIOUS
    <3>1. q - k + 1 \in 1..q /\ q - (q - k + 1) + 1 = k
      BY <1>7, <1>9, <2>1
    <3>2. Series[q - k + 1] = row
      BY <1>8, <2>1, <3>1
    <3> QED BY <1>9, <1>13, <3>1, <3>2 DEF Range
  <2>3. q = range
    BY <1>7, <2>1, <2>2
  <2>4. ASSUME NEW i \in DOMAIN Series PROVE row.day < Series[i].day
    <3>1. Series[i] = D[q - i + 1]
      BY <1>8, <1>9
    <3>2. q - i + 1 \in DOMAIN D /\ q - i + 1 < k
      BY <1>7, <1>9, <2>1, <2>2
    <3> QED BY <1>6, <2>1, <3>1, <3>2
  <2> QED BY <1>8, <2>3, <2>4
<1> QED BY <1>10, <1>11, <1>12, <1>13 DEF ChartTellsTheTable, Ahead, D, dom

(* The chart draws the newest days of the currency with the most, above the *)
(* table of the report the dashboard has (ChartTellsTheTable).              *)
THEOREM ChartIsOfTheTable == Spec => []ChartTellsTheTable
<1>1. Spec => []PartsInv
  BY OverviewInvariant, PTL DEF OverviewInv
<1> QED BY <1>1, TablesInvariant, TheChartTellsTheTable, PTL
=============================================================================
