----------------------------- MODULE WebOverview -----------------------------
(***************************************************************************)
(* The figures of the staff console: the badge of the sidebar, the         *)
(* dashboard with its revenue chart, and a customer's page                 *)
(* (apps/web/src/app/AppSidebar.tsx, routes/Dashboard.tsx,                 *)
(* components/RevenueChart.tsx, routes/CustomerDetail.tsx).                *)
(*                                                                         *)
(* Each screen puts together several answers that the services gave at     *)
(* different moments.  The badge and the dashboard ask for one report and  *)
(* share the request while it is in flight; the three parts of a           *)
(* customer's page are asked for, answered and repeated on their own,      *)
(* while orders are placed, paid and cancelled.                            *)
(***************************************************************************)
EXTENDS Integers, Sequences, FiniteSets, SequencesExt, Sums, Selections

CONSTANTS Customers, Orders,
          Owner,        \* whose order it is
          Currency,     \* an order's currency: its place in the alphabet
          Total,        \* an order's amount
          Days,         \* the days of the revenue table, the last one today
          Ranges,       \* how many days the chart may show
          PageSize,     \* the orders the service lists of a customer at once
          Begins,       \* the statuses orders begin with
          Tables,       \* the rows the revenue table begins with
          MaxVisits, MaxAsks, MaxMoves, MaxFaults

None == "none"
NoCurrency == 0
Currencies == Range(Currency)
L == INSTANCE OrderLifecycle
Statuses == L!Status \cup {"unplaced"}
Pages == {"dashboard", "elsewhere"} \cup Customers
Parts == {"name", "history", "lifetime"}

ASSUME OverviewAssumption ==
    /\ IsFiniteSet(Orders)
    /\ Owner \in [Orders -> Customers]
    /\ Currency \in [Orders -> Nat \ {NoCurrency}] /\ Total \in [Orders -> Nat \ {0}]
    /\ Days \in Nat /\ Ranges \subseteq Nat \ {0} /\ PageSize \in Nat \ {0}
    /\ \E r \in Ranges : \A other \in Ranges : other <= r
    /\ Begins \subseteq [Orders -> Statuses]
    /\ Tables \subseteq SUBSET [day : 1..Days, currency : Currencies]
    /\ \A table \in Tables : IsFiniteSet(table)
    /\ Customers \cap {"closed", "dashboard", "elsewhere", None} = {}
    /\ {MaxVisits, MaxAsks, MaxMoves, MaxFaults} \subseteq Nat

VARIABLES status,     \* the orders' statuses
          revenue,    \* the days and currencies the revenue projection has a row of
          moves,      \* how often the orders changed
          page,       \* the screen shown
          reports,    \* the requests for a report on their way
          inflight,   \* the number of the request that is shared, or 0
          asked,      \* reports asked for so far
          badge,      \* the sidebar's report
          dash,       \* the dashboard's report
          range,      \* the days the chart shows
          part,       \* the three resources of a customer's page
          visits, faults

servedVars == <<status, revenue, moves>>
reportVars == <<reports, inflight, asked, badge, dash>>
vars == <<servedVars, page, reportVars, range, part, visits, faults>>
-----------------------------------------------------------------------------
(* What the services answer.                                                *)

(* The dashboard and the sidebar each have a list of the statuses that wait.*)
WAITING(counts) == counts["pending"] + counts["paid"] + counts["packed"]
WAITING_STATUSES(counts) == counts["pending"] + counts["paid"] + counts["packed"]

(* The newest day first, as the table shows it.                             *)
IsAbove(a, b) == a.day > b.day \/ (a.day = b.day /\ a.currency < b.currency)
Revenue == Ranked(revenue, {pair \in revenue \X revenue : IsAbove(pair[1], pair[2])})
StatusCounts == [s \in Statuses |-> Cardinality({o \in Orders : status[o] = s})]
Empty == [counts |-> [s \in Statuses |-> 0], revenue |-> <<>>]

Placed(c) == {o \in Orders : Owner[o] = c /\ status[o] # "unplaced"}
IsValue(s) == s \in {"paid", "packed", "shipped", "delivered"}

(* A sum in each currency; more than one is refused, none has no currency.  *)
LifetimeValue(c) ==
    LET counted == {o \in Placed(c) : IsValue(status[o])}
        currencies == {Currency[o] : o \in counted}
    IN IF Cardinality(currencies) > 1 THEN [code |-> "mixed_currency_history"]
       ELSE [code |-> "ok",
             currency |-> IF currencies = {} THEN NoCurrency ELSE CHOOSE k \in currencies : TRUE,
             minor |-> Sum(Total, counted)]

(* The first page of a customer's orders.  It has the newest ones; nothing  *)
(* here tells them apart from as many others.                               *)
FirstPages(c) ==
    {rows \in SUBSET Placed(c) :
        Cardinality(rows) = IF Cardinality(Placed(c)) < PageSize THEN Cardinality(Placed(c))
                            ELSE PageSize}
-----------------------------------------------------------------------------
(* getDashboard: whoever asks while a request is in flight waits for that   *)
(* one.                                                                     *)

Asking == [state |-> "loading", report |-> Empty, withTheApp |-> FALSE]
Request(n, askers) == [n |-> n, state |-> "sent", report |-> Empty, askers |-> askers]

(* Mutant: every caller sends a request of its own.                         *)
AskForOneEach(askers) ==
    /\ asked < MaxAsks
    /\ asked' = asked + 1
    /\ reports' = reports \cup {Request(asked + 1, {a}) : a \in askers}
    /\ UNCHANGED inflight
getDashboard(askers) ==
    IF inflight = 0
    THEN /\ asked < MaxAsks
         /\ asked' = asked + 1 /\ inflight' = asked + 1
         /\ reports' = reports \cup {Request(asked + 1, askers)}
    ELSE /\ reports' = {IF r.n = inflight THEN [r EXCEPT !.askers = @ \cup askers] ELSE r :
                           r \in reports}
         /\ UNCHANGED <<asked, inflight>>

(* A screen that is left takes no answer.                                   *)
Forgets(asker) == reports' = {[r EXCEPT !.askers = @ \ {asker}] : r \in reports}

(* The service reads the counts and then the revenue, and orders move in    *)
(* between.                                                                 *)
CountOrders(r) ==
    /\ r.state = "sent"
    /\ reports' = (reports \ {r}) \cup
          {[r EXCEPT !.state = "counted", !.report = [@ EXCEPT !.counts = StatusCounts]]}
    /\ UNCHANGED <<servedVars, page, inflight, asked, badge, dash, range, part, visits, faults>>
ServeReport(r) ==
    /\ r.state = "counted"
    /\ reports' = (reports \ {r}) \cup
          {[r EXCEPT !.state = "ready", !.report = [@ EXCEPT !.revenue = Revenue]]}
    /\ UNCHANGED <<servedVars, page, inflight, asked, badge, dash, range, part, visits, faults>>

OnItsWay(r) == r.state \in {"sent", "counted"}
LoseReport(r) ==
    /\ OnItsWay(r) /\ faults < MaxFaults
    /\ faults' = faults + 1
    /\ reports' = (reports \ {r}) \cup {[r EXCEPT !.state = "error"]}
    /\ UNCHANGED <<servedVars, page, inflight, asked, badge, dash, range, part, visits>>

Settled(resource, r) == [resource EXCEPT !.state = r.state, !.report = r.report]
(* Mutant: the promise is kept when it has settled.                         *)
ReportAnsweredAndKept(r) ==
    /\ ~OnItsWay(r)
    /\ reports' = reports \ {r}
    /\ badge' = IF "badge" \in r.askers THEN Settled(badge, r) ELSE badge
    /\ dash' = IF "dashboard" \in r.askers THEN Settled(dash, r) ELSE dash
    /\ UNCHANGED <<servedVars, page, asked, inflight, range, part, visits, faults>>
ReportAnswered(r) ==
    /\ ~OnItsWay(r)
    /\ reports' = reports \ {r}
    /\ inflight' = IF r.n = inflight THEN 0 ELSE inflight
    /\ badge' = IF "badge" \in r.askers THEN Settled(badge, r) ELSE badge
    /\ dash' = IF "dashboard" \in r.askers THEN Settled(dash, r) ELSE dash
    /\ UNCHANGED <<servedVars, page, asked, range, part, visits, faults>>

(* Try again, under either of the dashboard's tables.                       *)
ReloadReport ==
    /\ page = "dashboard" /\ dash.state = "error"
    /\ dash' = Asking
    /\ getDashboard({"dashboard"})
    /\ UNCHANGED <<servedVars, page, badge, range, part, visits, faults>>
-----------------------------------------------------------------------------
(* A customer's page: each part is kept under a key with the customer's id. *)
(* What a part will show is fixed when it is served; that the answer is     *)
(* read a moment later shows nothing else.                                  *)

(* Mutant: the key of the history is not the customer's.                    *)
KeyOfTheScreen(p, c) == IF p = "history" THEN "customer" ELSE c
KeyOf(p, c) == c
NotAsked == [key |-> None, state |-> "loading", version |-> 0, said |-> None, total |-> 0]
Ask(k) == [NotAsked EXCEPT !.key = k, !.state = "sent"]
Received(p, k) == page \in Customers /\ part[p].state = k

NameAnswered ==
    /\ Received("name", "sent")
    /\ part' = [part EXCEPT !["name"] = [@ EXCEPT !.state = "ready", !.version = moves,
                                                  !.said = page]]
    /\ UNCHANGED <<servedVars, page, reportVars, range, visits, faults>>

LifetimeAnswered ==
    /\ Received("lifetime", "sent")
    /\ part' = [part EXCEPT !["lifetime"] = [@ EXCEPT !.state = "ready", !.version = moves,
                                                      !.said = LifetimeValue(page)]]
    /\ UNCHANGED <<servedVars, page, reportVars, range, visits, faults>>

(* The service reads a page of the orders and then how many there are.      *)
ListHistory ==
    /\ Received("history", "sent")
    /\ \E rows \in FirstPages(page) :
          part' = [part EXCEPT !["history"] = [@ EXCEPT !.state = "listed", !.version = moves,
                                                       !.said = [o \in rows |-> status[o]]]]
    /\ UNCHANGED <<servedVars, page, reportVars, range, visits, faults>>
HistoryAnswered ==
    /\ Received("history", "listed")
    /\ part' = [part EXCEPT !["history"] = [@ EXCEPT !.state = "ready",
                                                     !.total = Cardinality(Placed(page))]]
    /\ UNCHANGED <<servedVars, page, reportVars, range, visits, faults>>

LosePart(p) ==
    /\ part[p].state \in {"sent", "listed"} /\ faults < MaxFaults
    /\ faults' = faults + 1
    /\ part' = [part EXCEPT ![p].state = "error"]
    /\ UNCHANGED <<servedVars, page, reportVars, range, visits>>

(* Try again is offered for the name and for the orders, never for the      *)
(* lifetime value.                                                          *)
ReloadPart(p) ==
    /\ p \in {"name", "history"} /\ part[p].state = "error"
    /\ p = "history" => part["name"].state = "ready"
    /\ part' = [part EXCEPT ![p] = Ask(@.key)]
    /\ UNCHANGED <<servedVars, page, reportVars, range, visits, faults>>

NameShown == page \in Customers /\ part["name"].state = "ready"
HistoryShown == NameShown /\ part["history"].state = "ready"

Says(text) == [text |-> text, minor |-> 0]
Amount(minor) == [text |-> "an amount", minor |-> minor]
LifetimeShown ==
    LET answer == part["lifetime"].said IN
    IF part["lifetime"].state \in {"loading", "sent"} THEN Says("not yet")
    ELSE IF part["lifetime"].state = "error" THEN Says("unavailable")
    ELSE IF answer.code = "mixed_currency_history" THEN Says("more than one currency")
    ELSE IF answer.currency = NoCurrency THEN Says("no orders yet")
    ELSE Amount(answer.minor)
-----------------------------------------------------------------------------
(* The revenue chart.                                                       *)

Table == IF page = "dashboard" /\ dash.state = "ready" THEN dash.report.revenue ELSE <<>>
DaysOf(currency) == Kept(Table, {row \in Range(Table) : row.currency = currency})
InTable == {Table[i].currency : i \in DOMAIN Table}

(* The currency with the most days; ties break alphabetically.  Row by row: *)
(* a currency that comes again beats nobody it did not beat before.         *)
Beats(currency, best) ==
    LET count == Len(DaysOf(currency))
        bestCount == IF best = NoCurrency THEN -1 ELSE Len(DaysOf(best))
    IN count > bestCount \/ (count = bestCount /\ currency < best)
dominantCurrency ==
    LET best[n \in 0..Len(Table)] ==
            IF n = 0 THEN NoCurrency
            ELSE IF Beats(Table[n].currency, best[n - 1]) THEN Table[n].currency
            ELSE best[n - 1]
    IN best[Len(Table)]

(* Mutant: keeps the oldest days.                                           *)
OldestDays(days, n) == SubSeq(days, 1, IF n < Len(days) THEN n ELSE Len(days))
LastDays(days, n) == SubSeq(days, IF n < Len(days) THEN Len(days) - n + 1 ELSE 1, Len(days))
Series == LastDays(Reverse(DaysOf(dominantCurrency)), range)

Chart == IF dash.state # "ready" THEN dash.state
         ELSE IF Len(Series) = 0 THEN "no revenue yet"
         ELSE IF Len(Series) = 1 THEN "one day so far"
         ELSE "a curve"

Longest == CHOOSE r \in Ranges : \A other \in Ranges : other <= r
SetRange(r) ==
    /\ page = "dashboard" /\ r # range
    /\ range' = r
    /\ UNCHANGED <<servedVars, page, reportVars, part, visits, faults>>
-----------------------------------------------------------------------------
(* Opening the app mounts the sidebar once; a screen's own resources are    *)
(* asked for whenever it is shown.                                          *)

Shows(to) ==
    /\ page' = to
    /\ range' = Longest
    /\ part' = [p \in Parts |->
                   IF to \notin Customers THEN NotAsked
                   ELSE IF page \in Customers /\ part[p].key = KeyOf(p, to) THEN part[p]
                   ELSE Ask(KeyOf(p, to))]

OpenApp(to) ==
    /\ page = "closed"
    /\ Shows(to)
    /\ badge' = Asking
    /\ dash' = IF to = "dashboard" THEN [Asking EXCEPT !.withTheApp = TRUE] ELSE dash
    /\ getDashboard(IF to = "dashboard" THEN {"badge", "dashboard"} ELSE {"badge"})
    /\ UNCHANGED <<servedVars, visits, faults>>

Visit(to) ==
    /\ page \notin {"closed", to}
    /\ visits < MaxVisits
    /\ visits' = visits + 1
    /\ Shows(to)
    /\ IF to = "dashboard" THEN dash' = Asking /\ getDashboard({"dashboard"})
       ELSE /\ IF page = "dashboard" THEN Forgets("dashboard") ELSE UNCHANGED reports
            /\ dash' = Asking
            /\ UNCHANGED <<asked, inflight>>
    /\ UNCHANGED <<servedVars, badge, faults>>

(* Somebody places an order or moves it on, here or elsewhere.              *)
MoveOrder(o) ==
    /\ moves < MaxMoves
    /\ moves' = moves + 1
    /\ \E to \in IF status[o] = "unplaced" THEN {"pending"} ELSE L!transitions[status[o]] :
          status' = [status EXCEPT ![o] = to]
    /\ UNCHANGED <<revenue, page, reportVars, range, part, visits, faults>>

(* The projection writes the row of the day when an order is placed.        *)
Project(o) ==
    /\ status[o] # "unplaced"
    /\ LET row == [day |-> Days, currency |-> Currency[o]] IN
       row \notin revenue /\ revenue' = revenue \cup {row}
    /\ UNCHANGED <<status, moves, page, reportVars, range, part, visits, faults>>

Init ==
    /\ status \in Begins
    /\ revenue \in Tables
    /\ moves = 0
    /\ page = "closed"
    /\ reports = {} /\ inflight = 0 /\ asked = 0
    /\ badge = Asking /\ dash = Asking
    /\ range = Longest
    /\ part = [p \in Parts |-> NotAsked]
    /\ visits = 0 /\ faults = 0

Next ==
    \/ \E to \in Pages : OpenApp(to) \/ Visit(to)
    \/ \E r \in reports : CountOrders(r) \/ ServeReport(r) \/ LoseReport(r) \/ ReportAnswered(r)
    \/ ReloadReport
    \/ NameAnswered \/ LifetimeAnswered \/ ListHistory \/ HistoryAnswered
    \/ \E p \in Parts : LosePart(p) \/ ReloadPart(p)
    \/ \E r \in Ranges : SetRange(r)
    \/ \E o \in Orders : MoveOrder(o) \/ Project(o)

Spec == Init /\ [][Next]_vars
-----------------------------------------------------------------------------
(* The variables have the types the screens declare, and a request that is  *)
(* shared is one that is on its way.                                        *)
OverviewTypeOK ==
    /\ status \in [Orders -> Statuses] /\ page \in Pages \cup {"closed"}
    /\ inflight # 0 => \E r \in reports : r.n = inflight
    /\ \A r \in reports : r.askers \subseteq {"badge", "dashboard"}
    /\ {badge.state, dash.state} \subseteq {"loading", "ready", "error"}
    /\ range \in Ranges
    /\ \A p \in Parts : part[p].state \in {"loading", "sent", "listed", "ready", "error"}

(* The badge of the sidebar is the same total the dashboard shows as        *)
(* "Orders to handle" when both came up together, whatever moved while      *)
(* their answers were on the way.                                           *)
BadgeIsTheDashboardsTotal ==
    page = "dashboard" /\ dash.withTheApp /\ dash.state = "ready" /\ badge.state = "ready" =>
        WAITING_STATUSES(badge.report.counts) = WAITING(dash.report.counts)

(* The chart draws the newest days of one currency of the table below it:   *)
(* no other currency has more days, of two with as many the first in the    *)
(* alphabet is drawn, the days ascend, and a day is left out only for newer *)
(* ones; it says that there is no revenue only above an empty table.        *)
ChartTellsTheTable ==
    page = "dashboard" /\ dash.state = "ready" =>
        /\ Chart = "no revenue yet" <=> Table = <<>>
        /\ \A c \in InTable : LET more == Len(DaysOf(c)) - Len(DaysOf(dominantCurrency)) IN
              more < 0 \/ (more = 0 /\ dominantCurrency <= c)
        /\ \A i, j \in DOMAIN Series : i < j => Series[i].day < Series[j].day
        /\ \A row \in Range(DaysOf(dominantCurrency)) \ Range(Series) :
              Len(Series) = range /\ \A i \in DOMAIN Series : row.day < Series[i].day

(* What a customer's page puts together is about one customer, the one      *)
(* named on it.  When the lifetime value and the orders were read without a *)
(* move between them, the value never passes over an order shown that       *)
(* counts and never adds up two currencies that are shown; and when the     *)
(* page lists as many orders as it says there are, the value is the sum of  *)
(* those that count.                                                        *)
LifetimeMatchesTheOrders ==
    HistoryShown =>
        LET history == part["history"].said
            counted == {o \in DOMAIN history : IsValue(history[o])}
            currencies == {Currency[o] : o \in counted}
            whole == Cardinality(DOMAIN history) = part["history"].total
        IN /\ part["name"].said = page /\ \A o \in DOMAIN history : Owner[o] = page
           /\ /\ part["lifetime"].state = "ready"
              /\ part["lifetime"].version = part["history"].version
              => /\ currencies # {} => LifetimeShown.text # "no orders yet"
                 /\ Cardinality(currencies) > 1 => LifetimeShown = Says("more than one currency")
                 /\ whole /\ currencies = {} => LifetimeShown = Says("no orders yet")
                 /\ whole /\ Cardinality(currencies) = 1 =>
                       LifetimeShown = Amount(Sum(Total, counted))
=============================================================================
