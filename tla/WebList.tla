------------------------------- MODULE WebList -------------------------------
(***************************************************************************)
(* The lists of the staff console: orders, products, staff, customers and  *)
(* roles (apps/web/src/routes/Orders.tsx, Products.tsx, Staff.tsx,         *)
(* Customers.tsx and Roles.tsx over ListPage, DataTable, BulkBar,          *)
(* Pagination and useResource).                                            *)
(*                                                                         *)
(* The URL is the list's state: every control writes a new URL, the URL is *)
(* parsed into a query, and a request for it is sent when its key or the   *)
(* number of reloads changes.  Answers arrive in any order.  Rows are      *)
(* ticked on one page and acted on one after another by a loop that goes   *)
(* on while the person moves to other pages or leaves the screen, and      *)
(* other staff change the same rows meanwhile.                             *)
(***************************************************************************)
EXTENDS Integers, Sequences, FiniteSets, SequencesExt, Selections

CONSTANTS Listing,        \* the rows, in the service's default order
          Found,          \* the rows the one search term finds
          Initially,      \* the statuses rows begin with, per screen
          Filters,        \* the status filters a person picks, per screen
          Links,          \* URLs that links and the back button lead to
          DefaultSize,    \* the service's page size
          Sizes,          \* the page sizes a person picks
          MaxNavigations, MaxReloads, MaxInFlight, MaxOthers, MaxBulks, MaxFaults

None == "none"
Ids == Range(Listing)
Screens == {"orders", "products", "staff", "customers", "roles"}
StatusesOf == [orders |-> {"pending", "paid", "packed", "cancelled"},
               products |-> {"draft", "active", "archived"},
               staff |-> {"employed", "deactivated"},
               customers |-> {"known"}, roles |-> {"known"}]
Junk == -1     \* a page or a page size that is not a positive number

Picked == UNION {Filters[s] : s \in Screens}
URL == [status : Picked \cup {None, "junk"},
        sort : {None, "asc", "desc", "junk"},
        q : {None, "term"},
        page : 0..Len(Listing) \cup {1, Junk},
        size : Sizes \cup {0, Junk}]
Home == [status |-> None, sort |-> None, q |-> None, page |-> 0, size |-> 0]

ASSUME ListAssumption ==
    /\ Filters \in [Screens -> SUBSET {"paid", "packed", "active", "archived"}]
    /\ \A s \in Screens : Initially[s] \subseteq StatusesOf[s]
    /\ Listing \in Seq(Ids) /\ IsInjective(Listing)
    /\ DefaultSize \in Nat \ {0} /\ Sizes \subseteq 1..DefaultSize
    /\ Links \subseteq URL /\ Home \in Links
    /\ Found \subseteq Ids
    /\ {MaxNavigations, MaxReloads, MaxInFlight, MaxOthers, MaxBulks, MaxFaults} \subseteq Nat

VARIABLES screen,     \* which of the five lists this is
          row,        \* the service's rows: status, and how often it changed
          url,        \* the search parameters
          attempt,    \* useResource's count of reloads
          settled,    \* useResource's last answer, with the URL it answers
          pending,    \* list requests in flight
          selected,   \* the ticked rows
          tickedAt,   \* the URL the ticked rows were ticked under
          bulk,       \* the bulk action started here, and one left running behind
          acked,      \* the version of each row that this screen was told it made
          navigations, others, bulks, faults

listVars == <<url, attempt, settled, pending, navigations>>
bulkVars == <<bulk, acked, bulks>>
vars == <<screen, row, listVars, selected, tickedAt, bulkVars, others, faults>>
-----------------------------------------------------------------------------
(* From the URL to a query, and back (listQuery.ts and the two screens'     *)
(* query and apply).                                                        *)

oneOf(value, allowed) == IF value \in allowed THEN value ELSE None
positiveInt(value) == IF value = Junk THEN 0 ELSE value

(* Staff, customers and roles are only paged.                               *)
Tabulated == screen \in {"orders", "products"}
Query(u) ==
    LET q == IF screen = "products" THEN u.q ELSE None IN
    [status |-> IF Tabulated THEN oneOf(u.status, StatusesOf[screen]) ELSE None,
     q |-> q,
     sort |-> IF Tabulated /\ q = None THEN oneOf(u.sort, {"asc", "desc"}) ELSE None,
     page |-> IF positiveInt(u.page) = 0 THEN 1 ELSE positiveInt(u.page),
     size |-> positiveInt(u.size)]

(* A default is left out: the first page has one URL.                       *)
toSearchParams(next) ==
    [next EXCEPT !.page = IF @ = 1 THEN 0 ELSE @,
                 !.sort = IF next.q # None THEN None ELSE @]

(* What a list is asked for again by: the parameters as they were written,  *)
(* or the page and the size they were read as.                              *)
Key(u) == IF Tabulated THEN u ELSE [Home EXCEPT !.page = Query(u).page, !.size = Query(u).size]

FirstPage == [status |-> None, q |-> None, sort |-> None, page |-> 1, size |-> 0]
Filtered(query) == query.q # None \/ query.status # None

(* The page the service answers with.                                       *)
Matches(query, id) ==
    /\ IF query.status # None THEN row[id].status = query.status
       ELSE screen = "products" => row[id].status # "archived"
    /\ query.q # None => id \in Found

PageOf(u) ==
    LET query == Query(u)
        order == IF query.sort = "asc" THEN Reverse(Listing) ELSE Listing
        matching == Kept(order, {id \in Ids : Matches(query, id)})
        size == IF query.size = 0 THEN DefaultSize ELSE query.size
        first == (query.page - 1) * size + 1
        last == IF first + size - 1 < Len(matching) THEN first + size - 1 ELSE Len(matching)
        shown == SubSeq(matching, first, last)
    IN [of |-> query,
        items |-> [i \in DOMAIN shown |-> [id |-> shown[i], at |-> row[shown[i]]]],
        page |-> query.page, size |-> size, total |-> Len(matching)]

NoPage == [of |-> FirstPage, items |-> <<>>, page |-> 1, size |-> DefaultSize, total |-> 0]
-----------------------------------------------------------------------------
(* useResource: one request per key and reload, and only the answer to the  *)
(* current one is shown.                                                    *)

Unsettled == [url |-> Home, attempt |-> -1, state |-> "loading", page |-> NoPage]
Sent(u, n) == [url |-> Key(u), attempt |-> n, active |-> TRUE, state |-> "sent", page |-> NoPage]
Abandoned(ps) == {[p EXCEPT !.active = FALSE, !.page = NoPage] : p \in ps}

(* Mutant: forgets the key.                                                 *)
IsOfThisAttempt(s) == s.attempt = attempt
IsCurrent(s) == s.url = Key(url) /\ s.attempt = attempt
ListStatus == IF IsCurrent(settled) THEN settled.state ELSE "loading"
Page == IF IsCurrent(settled) THEN settled.page ELSE NoPage
Items == IF ListStatus = "ready" THEN Range(Page.items) ELSE {}
PageIds == {item.id : item \in Items}
SelectedRows == Kept(Page.items, {item \in Range(Page.items) : item.id \in selected})

(* The effect of a changed key: the request in flight is abandoned, and     *)
(* what it will say is of no interest.                                      *)
Refetch(u, n) == pending' = Abandoned(pending) \cup {Sent(u, n)}
Reload ==
    IF attempt < MaxReloads THEN attempt' = attempt + 1 /\ Refetch(url, attempt + 1)
    ELSE UNCHANGED <<attempt, pending>>

ServeList(p) ==
    /\ p.state = "sent"
    /\ pending' = (pending \ {p}) \cup
                   {[p EXCEPT !.state = "ready", !.page = IF p.active THEN PageOf(p.url) ELSE @]}
    /\ UNCHANGED <<screen, row, url, attempt, settled, navigations, selected, tickedAt, bulkVars,
                   others, faults>>

LoseList(p) ==
    /\ p.state = "sent"
    /\ faults < MaxFaults
    /\ faults' = faults + 1
    /\ pending' = (pending \ {p}) \cup {[p EXCEPT !.state = "error"]}
    /\ UNCHANGED <<screen, row, url, attempt, settled, navigations, selected, tickedAt, bulkVars,
                   others>>

(* Mutant: takes the answer of an abandoned request.                        *)
SettlesAlways(p) == TRUE
Settles(p) == p.active

AnswerList(p) ==
    /\ p.state # "sent"
    /\ pending' = pending \ {p}
    /\ settled' = IF Settles(p) THEN [url |-> p.url, attempt |-> p.attempt, state |-> p.state,
                                      page |-> p.page]
                  ELSE settled
    /\ UNCHANGED <<screen, row, url, attempt, navigations, selected, tickedAt, bulkVars, others,
                   faults>>

Retry ==
    /\ ListStatus = "error"
    /\ attempt < MaxReloads
    /\ Reload
    /\ UNCHANGED <<screen, row, url, settled, navigations, selected, tickedAt, bulkVars, others,
                   faults>>
-----------------------------------------------------------------------------
(* A run of a bulk action: the rows it was given and how far it has come.   *)
Run(verb, rows) == [verb |-> verb, rows |-> rows, at |-> 1, state |-> "sent", made |-> {},
                    ok |-> {}, failed |-> {}]
NoRun == Run(None, <<>>)
Running(slot) == bulk[slot].verb # None
Busy == Running("here")
-----------------------------------------------------------------------------
(* The controls that write the URL.                                         *)

(* Mutant: the selection survives.                                          *)
KeepSelection(u) == selected
(* The selection belongs to one page: the effect of a new key empties it.   *)
SelectionAfter(u) == IF Key(u) = Key(url) THEN selected ELSE {}

GoTo(u) ==
    /\ navigations < MaxNavigations
    /\ Key(u) = Key(url) \/ Cardinality(pending) < MaxInFlight
    /\ navigations' = navigations + 1
    /\ url' = u
    /\ selected' = SelectionAfter(u)
    /\ tickedAt' = IF SelectionAfter(u) = {} THEN Key(u) ELSE tickedAt
    /\ IF Key(u) = Key(url) THEN UNCHANGED pending ELSE Refetch(u, attempt)
    /\ UNCHANGED <<screen, row, attempt, settled, bulkVars, others, faults>>

Apply(next) == GoTo(toSearchParams(next))

(* The tabs of Orders keep the status alone; the select of Products keeps   *)
(* the rest of the query.                                                   *)
FilterBy(status) ==
    /\ status # Query(url).status
    /\ IF screen = "orders" THEN Apply([FirstPage EXCEPT !.status = status])
       ELSE Apply([Query(url) EXCEPT !.status = status, !.page = 1])

Search(q) ==
    Apply([Query(url) EXCEPT !.q = q, !.page = 1])

(* Ascending, then descending, then the default order again.  A search is   *)
(* ranked, not sorted.                                                      *)
Cycle(sort) == CASE sort = "asc" -> "desc" [] sort = "desc" -> None [] OTHER -> "asc"
SortBy ==
    /\ Query(url).q = None
    /\ Apply([Query(url) EXCEPT !.sort = Cycle(@), !.page = 1])

(* First, Previous, Next and Last, as the last answer's total allows.       *)
(* Mutant: one page too many when the last one is full.                     *)
PageCountOffByOne(p) == p.total \div p.size + 1
PageCount(p) == IF p.total = 0 THEN 1 ELSE (p.total + p.size - 1) \div p.size
Paged(p, next) ==
    /\ p.total > 0
    /\ \/ p.page > 1 /\ next \in {1, p.page - 1}
       \/ p.page < PageCount(p) /\ next \in {p.page + 1, PageCount(p)}
TurnTo(next) ==
    /\ ListStatus = "ready"
    /\ Paged(Page, next)
    /\ Apply([Query(url) EXCEPT !.page = next])

Resize(size) ==
    /\ ListStatus = "ready" /\ Page.total > 0 /\ size # Page.size
    /\ Apply([Query(url) EXCEPT !.size = size, !.page = 1])

ClearFilters ==
    /\ ListStatus = "ready" /\ Items = {} /\ Filtered(Query(url))
    /\ Apply(FirstPage)

(* A link, the back button or a typed address, within this screen.          *)
Follow(u) == u # url /\ GoTo(u)

(* Another screen and back by the menu: a fresh component.  The requests it *)
(* had sent change nothing any more, but a bulk action goes on to its end.  *)
LeaveAndReturn ==
    /\ navigations < MaxNavigations
    /\ Cardinality(pending) < MaxInFlight
    /\ ~Running("left")
    /\ navigations' = navigations + 1
    /\ url' = Home /\ attempt' = 0 /\ settled' = Unsettled
    /\ selected' = {} /\ tickedAt' = Key(Home)
    /\ Refetch(Home, 0)
    /\ bulk' = [here |-> NoRun, left |-> bulk["here"]]
    /\ acked' = [id \in Ids |-> 0]
    /\ UNCHANGED <<screen, row, bulks, others, faults>>
-----------------------------------------------------------------------------
(* Ticking rows and acting on them.                                         *)

(* The bulk actions of each list, what they are offered for, and what the   *)
(* service accepts them from.  Customers and roles are not ticked.          *)
Verbs == [orders |-> {"packed"}, products |-> {"active", "archived"}, staff |-> {"deactivated"},
          customers |-> {}, roles |-> {}]
OfferedFrom == [packed |-> {"paid"}, active |-> {"draft"}, archived |-> {"draft", "active"},
                deactivated |-> {"employed"}]
AcceptedFrom == [packed |-> {"paid"}, active |-> {"draft", "archived"},
                 archived |-> {"draft", "active"}, deactivated |-> {"employed", "deactivated"}]

Select(ids) ==
    /\ Verbs[screen] # {}
    /\ selected' = ids
    /\ tickedAt' = Key(url)
    /\ UNCHANGED <<screen, row, listVars, bulkVars, others, faults>>

ToggleRow(id) ==
    /\ id \in PageIds
    /\ Select(IF id \in selected THEN selected \ {id} ELSE selected \cup {id})

ToggleAllOnPage ==
    /\ PageIds # {}
    /\ Select(IF PageIds \subseteq selected THEN selected \ PageIds ELSE selected \cup PageIds)

ClearSelection ==
    /\ SelectedRows # <<>> /\ ~Busy
    /\ Select({})

StartBulk(verb) ==
    /\ verb \in Verbs[screen] /\ ~Busy /\ bulks < MaxBulks
    /\ SelectedRows # <<>>
    /\ \A i \in DOMAIN SelectedRows : SelectedRows[i].at.status \in OfferedFrom[verb]
    /\ bulk' = [bulk EXCEPT !["here"] =
                    Run(verb, [i \in DOMAIN SelectedRows |-> SelectedRows[i].id])]
    /\ bulks' = bulks + 1
    /\ UNCHANGED <<screen, row, listVars, selected, tickedAt, acked, others, faults>>

(* The request for one row is served, and its answer may be lost.  The      *)
(* guard of the last administrator may refuse a deactivation.               *)
BulkServed(slot) ==
    LET b == bulk[slot]
        id == b.rows[b.at]
    IN
    /\ Running(slot) /\ b.state = "sent"
    /\ \E accepted \in IF b.verb = "deactivated" THEN BOOLEAN
                       ELSE {row[id].status \in AcceptedFrom[b.verb]} :
        /\ accepted => row[id].status \in AcceptedFrom[b.verb]
        /\ row' = IF accepted
                  THEN [row EXCEPT ![id] = [status |-> b.verb, version |-> @.version + 1]]
                  ELSE row
        /\ \E lost \in BOOLEAN :
              /\ lost => faults < MaxFaults
              /\ faults' = IF lost THEN faults + 1 ELSE faults
              /\ bulk' = [bulk EXCEPT ![slot] =
                    [b EXCEPT !.state = IF accepted /\ ~lost THEN "ok" ELSE "failed",
                              !.made = IF accepted THEN @ \cup {id} ELSE @]]
              /\ acked' = IF accepted /\ ~lost /\ slot = "here"
                          THEN [acked EXCEPT ![id] = row[id].version + 1] ELSE acked
        /\ UNCHANGED <<screen, listVars, selected, tickedAt, bulks, others>>

(* Mutant: a refused or lost row counts as done.                            *)
CountedAsDone(b) == [b EXCEPT !.ok = @ \cup {b.rows[b.at]}]
(* runBulk counts the row, then sends the next one; after the last the      *)
(* outcome is reported, the selection emptied and the list reloaded.        *)
Counted(b) ==
    LET id == b.rows[b.at] IN
    IF b.state = "ok" THEN [b EXCEPT !.ok = @ \cup {id}] ELSE [b EXCEPT !.failed = @ \cup {id}]

(* Mutant: the list is not reloaded.                                        *)
BulkEndsWithoutReload(slot, b) ==
    /\ bulk' = [bulk EXCEPT ![slot] = NoRun]
    /\ selected' = IF slot = "here" THEN {} ELSE selected
    /\ UNCHANGED <<attempt, pending>>
BulkEnds(slot, b) ==
    /\ bulk' = [bulk EXCEPT ![slot] = NoRun]
    /\ IF slot = "here"
       THEN /\ attempt < MaxReloads
            /\ Reload
            /\ selected' = {}
       ELSE UNCHANGED <<attempt, pending, selected>>

BulkAnswered(slot) ==
    /\ Running(slot) /\ bulk[slot].state \in {"ok", "failed"}
    /\ LET b == Counted(bulk[slot]) IN
       IF b.at < Len(b.rows)
       THEN /\ bulk' = [bulk EXCEPT ![slot] = [b EXCEPT !.at = @ + 1, !.state = "sent"]]
            /\ UNCHANGED <<attempt, pending, selected>>
       ELSE BulkEnds(slot, b)
    /\ UNCHANGED <<screen, row, url, settled, navigations, tickedAt, acked, bulks, others, faults>>

(* Other staff work on the same rows.                                       *)
OthersMoves == [pending |-> {"paid", "cancelled"}, paid |-> {"packed", "cancelled"},
                packed |-> {"cancelled"}, cancelled |-> {},
                draft |-> {"active", "archived"}, active |-> {"archived"},
                archived |-> {"active"},
                employed |-> {"deactivated"}, deactivated |-> {"employed"}, known |-> {"known"}]
OthersChange(id) ==
    /\ others < MaxOthers
    /\ others' = others + 1
    /\ \E to \in OthersMoves[row[id].status] :
          row' = [row EXCEPT ![id] = [status |-> to, version |-> @.version + 1]]
    /\ UNCHANGED <<screen, listVars, selected, tickedAt, bulkVars, faults>>
-----------------------------------------------------------------------------
Init ==
    /\ screen \in Screens
    /\ row \in [Ids -> [status : Initially[screen], version : {0}]]
    /\ url \in Links
    /\ attempt = 0
    /\ settled = Unsettled
    /\ pending = {Sent(url, 0)}
    /\ selected = {} /\ tickedAt = Key(url)
    /\ bulk = [slot \in {"here", "left"} |-> NoRun]
    /\ acked = [id \in Ids |-> 0]
    /\ navigations = 0 /\ others = 0 /\ bulks = 0 /\ faults = 0

Answers == \E p \in pending : ServeList(p) \/ LoseList(p) \/ AnswerList(p)
OrdersControls ==
    /\ screen = "orders"
    /\ SortBy \/ ClearFilters \/ \E status \in Filters[screen] \cup {None} : FilterBy(status)
ProductsControls ==
    /\ screen = "products"
    /\ \/ SortBy \/ ClearFilters
       \/ \E status \in Filters[screen] \cup {None} : FilterBy(status)
       \/ \E q \in {None, "term"} : Search(q)
PagedControls ==
    \/ \E next \in 1..(Len(Listing) + 1) : TurnTo(next)
    \/ \E size \in Sizes : Resize(size)
    \/ Retry
Controls ==
    \/ OrdersControls \/ ProductsControls \/ PagedControls
    \/ \E u \in Links : Follow(u)
    \/ LeaveAndReturn
Rows ==
    \/ \E id \in Ids : ToggleRow(id)
    \/ ToggleAllOnPage
    \/ ClearSelection
Bulk ==
    \/ \E verb \in Verbs[screen] : StartBulk(verb)
    \/ \E slot \in {"here", "left"} : BulkServed(slot) \/ BulkAnswered(slot)

Next == Answers \/ Controls \/ Rows \/ Bulk \/ \E id \in Ids : OthersChange(id)

Spec == Init /\ [][Next]_vars
-----------------------------------------------------------------------------
(* The variables have the types the screens declare; in particular no       *)
(* control leads to a page the service has not counted.                     *)
ListTypeOK ==
    /\ screen \in Screens
    /\ row \in [Ids -> [status : StatusesOf[screen], version : 0..(MaxOthers + MaxBulks)]]
    /\ url \in URL
    /\ attempt \in 0..MaxReloads
    /\ settled.url \in URL /\ settled.state \in {"loading", "ready", "error"}
    /\ \A p \in pending : p.url \in URL /\ p.attempt \in 0..MaxReloads
    /\ selected \subseteq Ids /\ tickedAt \in URL
    /\ acked \in [Ids -> Nat]

(* A list that says it is loading is waiting for a request that it will     *)
(* take the answer of: no answer to an earlier URL or reload can push the   *)
(* current one out and leave the skeleton for ever.                         *)
LoadingIsAwaited ==
    ListStatus = "loading" =>
        \E p \in pending : p.active /\ p.url = Key(url) /\ p.attempt = attempt

(* The rows on the screen answer the query of the URL, whatever the order   *)
(* of the answers: the person never reads, or ticks, rows of another        *)
(* filter, page or search than the controls show.                           *)
RowsAnswerTheURL == ListStatus = "ready" => Page.of = Query(url)

(* The rows a bulk action would be started on were ticked under the URL     *)
(* that is shown: a tick never survives to another page, filter or search,  *)
(* not even by going there and back before the list has loaded.             *)
TicksBelongToThePage == selected \cap PageIds # {} => tickedAt = Key(url)

(* The toast of a bulk action counts every row it was started on once, and  *)
(* counts as done only what the service did: a refusal and a lost answer    *)
(* are never folded into the success.                                       *)
ReportIsTrue ==
    \A slot \in DOMAIN bulk :
        LET b == Counted(bulk[slot]) IN
        Running(slot) /\ bulk[slot].state # "sent" /\ b.at = Len(b.rows) =>
            /\ b.ok \cup b.failed = Range(b.rows) /\ b.ok \cap b.failed = {}
            /\ b.ok \subseteq b.made

(* After a bulk action has ended, the list shows no row as it was before    *)
(* the change the screen itself was told of.                                *)
ReadsItsWrites ==
    ~Busy => \A item \in Items : item.at.version >= acked[item.id]
=============================================================================
