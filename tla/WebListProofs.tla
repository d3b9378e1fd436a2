---------------------------- MODULE WebListProofs -----------------------------
(***************************************************************************)
(* For lists of any length, any URLs, any number of requests in flight and *)
(* of bulk actions: what a list shows answers its URL, what it waits for   *)
(* will come, and no tick outlives its page (ListInv); no control leads to *)
(* a page that was not counted, and what a bulk action reports is what the *)
(* service did (TypesInv); and a list never shows a row as it was before a *)
(* change the screen was told of (ReadInv).                                *)
(***************************************************************************)
EXTENDS WebList, SelectionsProofs, FiniteSetTheorems, SequenceTheorems,
        WellFoundedInduction, TLAPS

(* A request has all its fields; nothing is said of the URL in it. *)
Shaped(p) ==
    p \in [url : {p.url}, attempt : {p.attempt}, active : BOOLEAN,
           state : {"sent", "ready", "error"}, page : {p.page}]

(* A request whose answer will be taken is the one for what is shown now.   *)
RequestSound(p) ==
    /\ Shaped(p)
    /\ p.active => p.url = Key(url) /\ p.attempt = attempt
    /\ p.active /\ p.state = "ready" => p.page.of = Query(p.url)

Awaited == \E p \in pending : p.active

SettledSound ==
    /\ settled.state = "loading" => settled.attempt = -1
    /\ settled.state = "ready" => settled.page.of = Query(settled.url)
    /\ IsCurrent(settled) \/ Awaited

ListInv ==
    /\ attempt \in Nat
    /\ \A p \in pending : RequestSound(p)
    /\ SettledSound
    /\ selected # {} => tickedAt = Key(url)
-----------------------------------------------------------------------------
(* The key of a list asks for the same as the URL. *)
LEMMA KeyKeepsQuery == \A u : Query(Key(u)) = Query(u)
<1> TAKE u
<1>1. CASE Tabulated
  BY <1>1 DEF Key
<1>2. CASE ~Tabulated
  <2> DEFINE k == Key(u)
  <2>1. k.page = Query(u).page /\ k.size = Query(u).size
    BY <1>2 DEF Key, Home
  <2>2. positiveInt(k.page) = k.page /\ positiveInt(k.size) = k.size /\ k.page # 0
    BY <2>1 DEF Query, positiveInt, Junk
  <2>3. screen # "products"
    BY <1>2 DEF Tabulated
  <2> HIDE DEF k
  <2>4. Query(k) = Query(u)
    BY <1>2, <2>1, <2>2, <2>3 DEF Query
  <2> QED BY <2>4 DEF k
<1> QED BY <1>1, <1>2

(* A new request in place of the others. *)
LEMMA RefetchStep ==
    ASSUME ListInv, NEW u, NEW n, Refetch(u, n), Key(url)' = Key(u), attempt' = n,
           screen' = screen
    PROVE  (\A p \in pending : RequestSound(p))' /\ Awaited'
<1>1. /\ pending' = Abandoned(pending) \cup {Sent(u, n)}
      /\ Sent(u, n) = [url |-> Key(u), attempt |-> n, active |-> TRUE, state |-> "sent",
                       page |-> NoPage]
  BY DEF Refetch, Sent
<1>2. Awaited'
  BY <1>1 DEF Awaited
<1>3. ASSUME NEW p \in Abandoned(pending) PROVE Shaped(p) /\ ~p.active
  <2>1. PICK o \in pending : p = [o EXCEPT !.active = FALSE, !.page = NoPage]
    BY DEF Abandoned
  <2>2. o \in [url : {o.url}, attempt : {o.attempt}, active : BOOLEAN,
               state : {"sent", "ready", "error"}, page : {o.page}]
    BY DEF ListInv, RequestSound, Shaped
  <2> QED BY <2>1, <2>2 DEF Shaped
<1>4. ASSUME NEW p \in pending' PROVE RequestSound(p)'
  <2>1. CASE p \in Abandoned(pending)
    BY <1>3, <2>1 DEF RequestSound, Shaped
  <2>2. CASE p = [url |-> Key(u), attempt |-> n, active |-> TRUE, state |-> "sent",
                  page |-> NoPage]
    BY <2>2 DEF RequestSound, Shaped
  <2> QED BY <1>1, <2>1, <2>2
<1> QED BY <1>2, <1>4

(* A step that leaves the list and the ticks alone. *)
LEMMA FrameStep ==
    ASSUME ListInv, UNCHANGED <<screen, listVars, selected, tickedAt>>
    PROVE  ListInv'
BY DEF ListInv, listVars, RequestSound, Shaped, SettledSound, IsCurrent, Awaited, Key, Query,
       Tabulated

(* The query of a URL depends on the screen alone. *)
LEMMA SameScreen ==
    ASSUME screen' = screen
    PROVE  \A u : Query(u)' = Query(u) /\ Key(u)' = Key(u)
BY DEF Query, Key, Tabulated

LEMMA InitInv == Init => ListInv
<1> SUFFICES ASSUME Init PROVE ListInv
  OBVIOUS
<1>1. pending = {Sent(url, 0)} /\ attempt = 0 /\ selected = {} /\ settled = Unsettled
  BY DEF Init
<1>2. \A p \in pending : RequestSound(p)
  <2> DEFINE p == [url |-> Key(url), attempt |-> 0, active |-> TRUE, state |-> "sent",
                   page |-> NoPage]
  <2>1. pending = {p}
    BY <1>1 DEF Sent
  <2>2. Shaped(p)
    BY DEF Shaped
  <2>3. p.active /\ p.state = "sent" /\ p.url = Key(url) /\ p.attempt = attempt
    BY <1>1
  <2> HIDE DEF p
  <2> QED BY <2>1, <2>2, <2>3 DEF RequestSound
<1>3. Awaited
  BY <1>1 DEF Awaited, Sent
<1>4. SettledSound
  BY <1>1, <1>3 DEF SettledSound, Unsettled
<1> QED BY <1>1, <1>2, <1>4 DEF ListInv
-----------------------------------------------------------------------------
(* Every control that writes the URL. *)
LEMMA GoToStep ==
    ASSUME ListInv, NEW u, GoTo(u)
    PROVE  ListInv'
<1>1. /\ url' = u /\ attempt' = attempt /\ settled' = settled /\ screen' = screen
      /\ selected' = SelectionAfter(u)
      /\ tickedAt' = IF SelectionAfter(u) = {} THEN Key(u) ELSE tickedAt
  BY DEF GoTo
<1>2. \A v : Query(v)' = Query(v) /\ Key(v)' = Key(v)
  BY <1>1, SameScreen
<1>3. Key(url)' = Key(u)
  BY <1>1, <1>2 DEF Key, Query, Tabulated
<1>4. selected' # {} => tickedAt' = Key(url)'
  BY <1>1, <1>3 DEF SelectionAfter, ListInv
<1>5. (\A p \in pending : RequestSound(p))' /\ (IsCurrent(settled) \/ Awaited)'
  <2>1. CASE Key(u) = Key(url)
    <3>1. pending' = pending
      BY <2>1 DEF GoTo
    <3> QED BY <1>1, <1>2, <1>3, <2>1, <3>1
            DEF ListInv, SettledSound, RequestSound, Shaped, IsCurrent, Awaited
  <2>2. CASE Key(u) # Key(url)
    <3>1. Refetch(u, attempt)
      BY <2>2 DEF GoTo
    <3> QED BY <1>1, <1>3, <3>1, RefetchStep
  <2> QED BY <2>1, <2>2
<1>6. SettledSound'
  BY <1>1, <1>2, <1>5 DEF ListInv, SettledSound
<1> QED BY <1>1, <1>4, <1>5, <1>6 DEF ListInv
-----------------------------------------------------------------------------
(* Answers, in any order. *)
LEMMA AnswersStep ==
    ASSUME ListInv, Answers
    PROVE  ListInv'
<1>1. PICK p \in pending : ServeList(p) \/ LoseList(p) \/ AnswerList(p)
  BY DEF Answers
<1>2. /\ screen' = screen /\ url' = url /\ attempt' = attempt
      /\ selected' = selected /\ tickedAt' = tickedAt
  BY <1>1 DEF ServeList, LoseList, AnswerList
<1>3. /\ \A v : Query(v)' = Query(v) /\ Key(v)' = Key(v)
      /\ Query(url)' = Query(url) /\ Key(url)' = Key(url)
  BY <1>2, SameScreen DEF Query, Key, Tabulated
<1>4. /\ RequestSound(p)
      /\ p \in [url : {p.url}, attempt : {p.attempt}, active : BOOLEAN,
                state : {"sent", "ready", "error"}, page : {p.page}]
  BY DEF ListInv, RequestSound, Shaped
<1>5. ASSUME NEW r, pending' = (pending \ {p}) \cup {r}, settled' = settled,
             Shaped(r), r.active = p.active, r.url = p.url, r.attempt = p.attempt,
             r.active /\ r.state = "ready" => r.page.of = Query(r.url)
      PROVE  ListInv'
  <2>1. ASSUME NEW q \in pending' PROVE RequestSound(q)'
    <3>1. CASE q = r
      BY <1>2, <1>3, <1>4, <1>5, <3>1 DEF RequestSound, Shaped
    <3>2. CASE q \in pending
      BY <1>2, <1>3, <3>2 DEF ListInv, RequestSound, Shaped
    <3> QED BY <1>5, <3>1, <3>2
  <2>2. Awaited => Awaited'
    BY <1>5 DEF Awaited
  <2>3. SettledSound'
    BY <1>2, <1>3, <1>5, <2>2 DEF ListInv, SettledSound, IsCurrent
  <2> QED BY <1>2, <1>3, <2>1, <2>3 DEF ListInv
<1>6. CASE ServeList(p)
  <2> DEFINE content == IF p.active THEN PageOf(p.url) ELSE p.page
             r == [p EXCEPT !.state = "ready", !.page = content]
  <2>1. pending' = (pending \ {p}) \cup {r} /\ settled' = settled
    BY <1>6 DEF ServeList
  <2>2. p.active => content.of = Query(p.url)
    BY DEF PageOf
  <2> HIDE DEF content
  <2>3. /\ Shaped(r) /\ r.active = p.active /\ r.url = p.url /\ r.attempt = p.attempt
        /\ r.page = content
    BY <1>4 DEF Shaped
  <2> HIDE DEF r
  <2> QED BY <1>5, <2>1, <2>2, <2>3
<1>7. CASE LoseList(p)
  <2> DEFINE r == [p EXCEPT !.state = "error"]
  <2>1. pending' = (pending \ {p}) \cup {r} /\ settled' = settled
    BY <1>7 DEF LoseList
  <2>2. /\ Shaped(r) /\ r.active = p.active /\ r.url = p.url /\ r.attempt = p.attempt
        /\ r.state = "error"
    BY <1>4 DEF Shaped
  <2> HIDE DEF r
  <2> QED BY <1>5, <2>1, <2>2
<1>8. CASE AnswerList(p)
  <2>1. /\ p.state \in {"ready", "error"} /\ pending' = pending \ {p}
        /\ settled' = IF p.active THEN [url |-> p.url, attempt |-> p.attempt, state |-> p.state,
                                        page |-> p.page]
                      ELSE settled
    BY <1>4, <1>8 DEF AnswerList, Settles
  <2>2. ASSUME NEW q \in pending' PROVE RequestSound(q)'
    BY <1>2, <1>3, <2>1 DEF ListInv, RequestSound, Shaped
  <2>3. CASE p.active
    <3>1. /\ settled'.url = p.url /\ settled'.attempt = p.attempt
          /\ settled'.state = p.state /\ settled'.page = p.page
      BY <2>1, <2>3
    <3>2. SettledSound'
      BY <1>2, <1>3, <1>4, <2>1, <2>3, <3>1 DEF RequestSound, SettledSound, IsCurrent
    <3> QED BY <1>2, <1>3, <2>2, <3>2 DEF ListInv
  <2>4. CASE ~p.active
    <3>1. Awaited => Awaited'
      BY <2>1, <2>4 DEF Awaited
    <3>2. SettledSound'
      BY <1>2, <1>3, <2>1, <2>4, <3>1 DEF ListInv, SettledSound, IsCurrent
    <3> QED BY <1>2, <1>3, <2>2, <3>2 DEF ListInv
  <2> QED BY <2>3, <2>4
<1> QED BY <1>1, <1>6, <1>7, <1>8
-----------------------------------------------------------------------------
(* A reload by hand, after an error, or by a bulk action that has ended. *)
LEMMA ReloadStep ==
    ASSUME ListInv, Reload, UNCHANGED <<screen, url, settled, tickedAt>>,
           selected' \in {selected, {}}
    PROVE  ListInv'
<1>1. /\ \A v : Query(v)' = Query(v) /\ Key(v)' = Key(v)
      /\ Query(url)' = Query(url) /\ Key(url)' = Key(url)
  BY SameScreen DEF Query, Key, Tabulated
<1>2. CASE UNCHANGED <<attempt, pending>>
  BY <1>1, <1>2 DEF ListInv, RequestSound, Shaped, SettledSound, IsCurrent, Awaited
<1>3. CASE attempt' = attempt + 1 /\ Refetch(url, attempt + 1)
  <2>1. (\A p \in pending : RequestSound(p))' /\ Awaited'
    BY <1>1, <1>3, RefetchStep
  <2>2. SettledSound'
    BY <1>1, <2>1 DEF ListInv, SettledSound
  <2> QED BY <1>1, <1>3, <2>1, <2>2 DEF ListInv
<1> QED BY <1>2, <1>3 DEF Reload

LEMMA LeaveStep ==
    ASSUME ListInv, LeaveAndReturn
    PROVE  ListInv'
<1>1. /\ screen' = screen /\ url' = Home /\ attempt' = 0 /\ settled' = Unsettled
      /\ selected' = {} /\ Refetch(Home, 0)
  BY DEF LeaveAndReturn
<1>2. Key(url)' = Key(Home)
  BY <1>1 DEF Key, Query, Tabulated
<1>3. (\A p \in pending : RequestSound(p))' /\ Awaited'
  BY <1>1, <1>2, RefetchStep
<1>4. SettledSound'
  BY <1>1, <1>3 DEF SettledSound, Unsettled
<1> QED BY <1>1, <1>3, <1>4 DEF ListInv

LEMMA ControlsStep ==
    ASSUME ListInv, Controls
    PROVE  ListInv'
<1>1. CASE \E u : GoTo(u)
  BY <1>1, GoToStep
<1>2. CASE Retry
  BY <1>2, ReloadStep DEF Retry
<1>3. CASE LeaveAndReturn
  BY <1>3, LeaveStep
<1>4. OrdersControls \/ ProductsControls => \E u : GoTo(u)
  BY DEF OrdersControls, ProductsControls, SortBy, ClearFilters, FilterBy, Search, Apply
<1>5. PagedControls => Retry \/ \E u : GoTo(u)
  BY DEF PagedControls, TurnTo, Resize, Apply
<1> QED BY <1>1, <1>2, <1>3, <1>4, <1>5 DEF Controls, Follow

(* Ticking, and what a bulk action does. *)
LEMMA RowsStep ==
    ASSUME ListInv, Rows
    PROVE  ListInv'
<1>1. PICK ids : Select(ids)
  BY DEF Rows, ToggleRow, ToggleAllOnPage, ClearSelection
<1>2. /\ UNCHANGED <<screen, url, attempt, settled, pending>> /\ tickedAt' = Key(url)
  BY <1>1 DEF Select, listVars
<1>3. /\ \A v : Query(v)' = Query(v) /\ Key(v)' = Key(v)
      /\ Query(url)' = Query(url) /\ Key(url)' = Key(url)
  BY <1>2, SameScreen DEF Query, Key, Tabulated
<1> QED BY <1>2, <1>3 DEF ListInv, RequestSound, Shaped, SettledSound, IsCurrent, Awaited

LEMMA BulkStep ==
    ASSUME ListInv, Bulk
    PROVE  ListInv'
<1>1. CASE \E verb \in Verbs[screen] : StartBulk(verb)
  BY <1>1, FrameStep DEF StartBulk
<1>2. CASE \E slot \in {"here", "left"} : BulkServed(slot)
  BY <1>2, FrameStep DEF BulkServed
<1>3. ASSUME NEW slot, BulkAnswered(slot)
      PROVE  ListInv'
  <2>1. UNCHANGED <<screen, url, settled, navigations, tickedAt>>
    BY <1>3 DEF BulkAnswered
  <2>2. CASE UNCHANGED <<attempt, pending, selected>>
    BY <2>1, <2>2, FrameStep DEF listVars
  <2>3. CASE Reload /\ selected' = {}
    BY <2>1, <2>3, ReloadStep
  <2> QED BY <1>3, <2>2, <2>3 DEF BulkAnswered, BulkEnds
<1> QED BY <1>1, <1>2, <1>3 DEF Bulk

LEMMA NextKeepsInv == ListInv /\ [Next]_vars => ListInv'
<1> SUFFICES ASSUME ListInv, [Next]_vars PROVE ListInv'
  OBVIOUS
<1>1. CASE UNCHANGED vars
  BY <1>1, FrameStep DEF vars
<1>2. CASE \E id \in Ids : OthersChange(id)
  BY <1>2, FrameStep DEF OthersChange
<1> QED BY <1>1, <1>2, AnswersStep, ControlsStep, RowsStep, BulkStep DEF Next

THEOREM ListInvariant == Spec => []ListInv
BY InitInv, NextKeepsInv, PTL DEF Spec

(* useResource.ts: whatever the order of the answers, the rows on the       *)
(* screen answer the query of the URL.                                      *)
THEOREM RowsAnswer == Spec => []RowsAnswerTheURL
<1>1. ListInv => RowsAnswerTheURL
  BY KeyKeepsQuery DEF ListInv, SettledSound, RowsAnswerTheURL, ListStatus, Page, IsCurrent
<1> QED BY <1>1, ListInvariant, PTL

(* useResource.ts: a list that says it is loading will take an answer.      *)
THEOREM LoadingEnds == Spec => []LoadingIsAwaited
<1>1. ASSUME ListInv PROVE LoadingIsAwaited
  <2>1. SUFFICES ASSUME ListStatus = "loading"
                 PROVE  \E p \in pending : p.active /\ p.url = Key(url) /\ p.attempt = attempt
    BY DEF LoadingIsAwaited
  <2>2. ~IsCurrent(settled)
    BY <1>1, <2>1 DEF ListInv, SettledSound, ListStatus, IsCurrent
  <2> QED BY <1>1, <2>2 DEF ListInv, SettledSound, Awaited, RequestSound
<1> QED BY <1>1, ListInvariant, PTL

(* DataTable.tsx: a selection belongs to one page.                          *)
THEOREM TicksStay == Spec => []TicksBelongToThePage
<1>1. ListInv => TicksBelongToThePage
  BY DEF ListInv, TicksBelongToThePage
<1> QED BY <1>1, ListInvariant, PTL
-----------------------------------------------------------------------------
(* A page that the service may have answered with.                          *)
Slots == {"here", "left"}
Status == UNION {StatusesOf[s] : s \in Screens}
Version == [status : Status, version : Nat]
Item == [id : Ids, at : Version]
PageSound(p) ==
    /\ p.items \in Seq(Item)
    /\ \A i, j \in DOMAIN p.items : i # j => p.items[i].id # p.items[j].id
    /\ p.page \in 1..Len(Listing) \cup {1}
    /\ p.size \in 1..DefaultSize
    /\ p.total \in 0..Len(Listing)

(* A run that is still going has each of its rows once, has counted those   *)
(* before the one it is at, and calls done only what the service did.       *)
RunType == [verb : {None, "packed", "active", "archived", "deactivated"},
            rows : Seq(Ids), at : Nat, state : {"sent", "ok", "failed"},
            made : SUBSET Ids, ok : SUBSET Ids, failed : SUBSET Ids]
CountedSound(b, n) ==
    /\ b.ok \cup b.failed = {b.rows[i] : i \in 1..n}
    /\ b.ok \cap b.failed = {}
    /\ b.ok \subseteq b.made
RunSound(b) ==
    b.verb # None =>
        /\ b.verb \in Verbs[screen]
        /\ b.at \in 1..Len(b.rows)
        /\ \A i, j \in 1..Len(b.rows) : i # j => b.rows[i] # b.rows[j]
        /\ CountedSound(b, b.at - 1)
        /\ b.state = "ok" => b.rows[b.at] \in b.made

(* The change a run has yet to make to a row.                               *)
Due(b, id) ==
    /\ b.verb # None
    /\ \E i \in b.at..Len(b.rows) : b.rows[i] = id /\ (i = b.at => b.state = "sent")
DueChanges(id) ==
    (IF Due(bulk["here"], id) THEN 1 ELSE 0) + (IF Due(bulk["left"], id) THEN 1 ELSE 0)

(* Where the list is.                                                       *)
PlaceInv ==
    /\ screen \in Screens
    /\ row \in [Ids -> [status : StatusesOf[screen], version : Nat]]
    /\ url \in URL
    /\ attempt \in 0..MaxReloads
    /\ settled.url \in URL /\ settled.state \in {"loading", "ready", "error"}
    /\ PageSound(settled.page)
    /\ \A p \in pending : p.url \in URL /\ p.attempt \in 0..MaxReloads /\ PageSound(p.page)
    /\ selected \subseteq Ids /\ tickedAt \in URL

RunsInv ==
    /\ bulk \in [Slots -> RunType]
    /\ \A slot \in Slots : RunSound(bulk[slot])
    /\ others \in 0..MaxOthers /\ bulks \in 0..MaxBulks
    /\ acked \in [Ids -> Nat]
    /\ \A id \in Ids : row[id].version + DueChanges(id) =< others + bulks
-----------------------------------------------------------------------------
(* What the service answers a list with.                                    *)
LEMMA Constants ==
    /\ Listing \in Seq(Ids) /\ Len(Listing) \in Nat
    /\ \A i, j \in DOMAIN Listing : i # j => Listing[i] # Listing[j]
    /\ DefaultSize \in Nat \ {0} /\ Sizes \subseteq 1..DefaultSize
    /\ MaxReloads \in Nat /\ MaxOthers \in Nat /\ MaxBulks \in Nat
    /\ Links \subseteq URL /\ Home \in URL
<1>1. Listing \in Seq(Ids) /\ Len(Listing) \in Nat
  BY ListAssumption
<1>2. \A i, j \in DOMAIN Listing : i # j => Listing[i] # Listing[j]
  BY ListAssumption DEF IsInjective
<1>3. MaxReloads \in Nat /\ MaxOthers \in Nat /\ MaxBulks \in Nat
  BY ListAssumption
<1>4. DefaultSize \in Nat \ {0} /\ Sizes \subseteq 1..DefaultSize
  BY ListAssumption
<1>5. Links \subseteq URL /\ Home \in URL
  BY ListAssumption
<1> QED BY <1>1, <1>2, <1>3, <1>4, <1>5

(* A row is listed once, in either order. *)
LEMMA ReverseFacts ==
    /\ Reverse(Listing) \in Seq(Ids) /\ Len(Reverse(Listing)) = Len(Listing)
    /\ \A i, j \in DOMAIN Reverse(Listing) : i # j => Reverse(Listing)[i] # Reverse(Listing)[j]
<1> DEFINE n == Len(Listing)
           r == [i \in 1..n |-> Listing[(n - i) + 1]]
<1>1. n \in Nat /\ DOMAIN Listing = 1..n /\ \A i \in 1..n : Listing[i] \in Ids
  BY Constants
<1>2. Reverse(Listing) = r
  BY DEF Reverse
<1> HIDE DEF n
<1>3. \A i \in 1..n : (n - i) + 1 \in 1..n
  BY <1>1
<1>4. \A i, j \in 1..n : i # j => (n - i) + 1 # (n - j) + 1
  BY <1>1
<1>5. \A i \in 1..n : r[i] \in Ids
  BY <1>1, <1>3
<1>6. r \in Seq(Ids) /\ Len(r) = n /\ DOMAIN r = 1..n
  BY <1>1, <1>5
<1>7. ASSUME NEW i \in 1..n, NEW j \in 1..n, i # j PROVE r[i] # r[j]
  BY <1>1, <1>3, <1>4, <1>7, Constants
<1> QED BY <1>2, <1>6, <1>7 DEF n

(* The parameters of a query are in range whatever the URL says. *)
LEMMA QueryFacts ==
    ASSUME NEW u \in URL
    PROVE  /\ Query(u).page \in 1..Len(Listing) \cup {1}
           /\ Query(u).size \in 0..DefaultSize
<1>1. /\ u.page \in 0..Len(Listing) \cup {1, Junk} /\ u.size \in Sizes \cup {0, Junk}
      /\ DefaultSize \in Nat \ {0} /\ Sizes \subseteq 1..DefaultSize
  BY Constants DEF URL
<1>2. /\ positiveInt(u.page) \in 0..Len(Listing) \cup {1}
      /\ positiveInt(u.size) \in 0..DefaultSize
  <2>2. positiveInt(u.page) = IF u.page = Junk THEN 0 ELSE u.page
    BY DEF positiveInt
  <2>3. positiveInt(u.size) = IF u.size = Junk THEN 0 ELSE u.size
    BY DEF positiveInt
  <2>4. 0 \in 0..Len(Listing) /\ 0 \in 0..DefaultSize
    BY Constants
  <2>5. Sizes \subseteq 0..DefaultSize
    BY <1>1
  <2> QED BY <1>1, <2>2, <2>3, <2>4, <2>5
<1>3. 0..Len(Listing) \ {0} \subseteq 1..Len(Listing)
  BY Constants
<1> QED BY <1>2, <1>3 DEF Query

LEMMA PageOfIsSound ==
    ASSUME NEW u \in URL, row \in [Ids -> Version]
    PROVE  /\ PageSound(PageOf(u))
           /\ \A i \in DOMAIN PageOf(u).items : PageOf(u).items[i].at = row[PageOf(u).items[i].id]
<1> DEFINE query == Query(u)
           order == IF query.sort = "asc" THEN Reverse(Listing) ELSE Listing
           matching == Kept(order, {id \in Ids : Matches(query, id)})
           size == IF query.size = 0 THEN DefaultSize ELSE query.size
           first == (query.page - 1) * size + 1
           last == IF first + size - 1 < Len(matching) THEN first + size - 1 ELSE Len(matching)
           shown == SubSeq(matching, first, last)
           items == [i \in DOMAIN shown |-> [id |-> shown[i], at |-> row[shown[i]]]]
<1>1. PageOf(u) = [of |-> query, items |-> items, page |-> query.page, size |-> size,
                   total |-> Len(matching)]
  BY DEF PageOf
<1>2. query.page \in 1..Len(Listing) \cup {1} /\ size \in 1..DefaultSize
  BY QueryFacts, Constants
<1>3. order \in Seq(Ids) /\ Len(order) = Len(Listing)
      /\ \A i, j \in DOMAIN order : i # j => order[i] # order[j]
  BY ReverseFacts, Constants
<1> HIDE DEF query, order
<1>4. /\ matching \in Seq(Ids) /\ Len(matching) \in 0..Len(Listing)
      /\ \A i, j \in DOMAIN matching : i # j => matching[i] # matching[j]
  <2> DEFINE P == {id \in Ids : Matches(query, id)}
  <2> HIDE DEF P
  <2>1. /\ matching \in Seq(Ids) /\ Len(matching) =< Len(order)
        /\ \A i, j \in DOMAIN matching :
              i # j => \E k, l \in DOMAIN order :
                           k # l /\ matching[i] = order[k] /\ matching[j] = order[l]
    <3>1. matching = Kept(order, P)
      BY DEF P
    <3> HIDE DEF matching
    <3> QED BY <1>3, <3>1, KeptFacts
  <2> HIDE DEF matching
  <2>2. Len(matching) \in Nat
    BY <2>1
  <2> QED BY <1>3, <2>1, <2>2
<1>5. first \in Nat \ {0}
  <2>1. \A a, b \in Nat : a * b + 1 \in Nat \ {0}
    OBVIOUS
  <2>2. query.page - 1 \in Nat /\ size \in Nat
    BY <1>2, Constants
  <2> HIDE DEF size
  <2> QED BY <2>1, <2>2
<1> HIDE DEF size, matching, first
<1>6. last \in Int /\ last =< Len(matching)
  BY <1>2, <1>4, <1>5, Constants
<1> HIDE DEF last
<1>7. /\ shown \in Seq(Ids)
      /\ \A i \in DOMAIN shown : i \in 1..(last - first + 1) /\ shown[i] = matching[first + i - 1]
  <2>1. \A i \in first..last : matching[i] \in Ids
    BY <1>4, <1>5, <1>6
  <2>2. /\ shown \in Seq(Ids)
        /\ Len(shown) = IF first =< last THEN last - first + 1 ELSE 0
        /\ \A i \in 1..(last - first + 1) : shown[i] = matching[first + i - 1]
    BY <1>5, <1>6, <2>1, SubSeqProperties
  <2> HIDE DEF shown
  <2> QED BY <1>5, <1>6, <2>2
<1>8. \A i, j \in DOMAIN shown : i # j => shown[i] # shown[j]
  <2> SUFFICES ASSUME NEW i \in DOMAIN shown, NEW j \in DOMAIN shown, i # j
               PROVE  shown[i] # shown[j]
    OBVIOUS
  <2>1. /\ first + i - 1 \in 1..Len(matching) /\ first + j - 1 \in 1..Len(matching)
        /\ first + i - 1 # first + j - 1
    BY <1>4, <1>5, <1>6, <1>7
  <2>2. DOMAIN matching = 1..Len(matching)
    BY <1>4
  <2> QED BY <1>4, <1>7, <2>1, <2>2
<1> HIDE DEF shown
<1>9. /\ items \in Seq(Item) /\ DOMAIN items = DOMAIN shown
      /\ \A i \in DOMAIN items : items[i].id = shown[i] /\ items[i].at = row[shown[i]]
  <2>1. \A i \in DOMAIN shown : [id |-> shown[i], at |-> row[shown[i]]] \in Item
    BY <1>7 DEF Item
  <2> QED BY <1>7, <2>1
<1> HIDE DEF items
<1>10. PageSound(PageOf(u))
  BY <1>1, <1>2, <1>4, <1>8, <1>9 DEF PageSound
<1> QED BY <1>1, <1>9, <1>10

LEMMA NoPageIsSound == PageSound(NoPage)
BY Constants DEF PageSound, NoPage

(* There are never more pages than rows. *)
LEMMA PagesAreCounted ==
    ASSUME NEW p, PageSound(p), p.total > 0
    PROVE  PageCount(p) \in 1..Len(Listing)
<1> DEFINE t == p.total
           z == p.size
           n == (t + z - 1) \div z
<1>1. t \in Nat \ {0} /\ z \in Nat \ {0} /\ t =< Len(Listing) /\ Len(Listing) \in Nat
  BY Constants DEF PageSound
<1>2. PageCount(p) = n
  BY <1>1 DEF PageCount
<1> HIDE DEF t, z
<1>3. n \in Int /\ n * z =< t + z - 1 /\ t + z - 1 < (n + 1) * z
  BY <1>1
<1>4. n >= 1
  BY <1>1, <1>3
<1>5. n =< t
  BY <1>1, <1>3
<1> QED BY <1>1, <1>2, <1>3, <1>4, <1>5
-----------------------------------------------------------------------------
(* Every control leads to a URL of the list. *)
LEMMA QueryIsURL ==
    ASSUME NEW u \in URL
    PROVE  Query(u) \in URL
<1> DEFINE Sts == Picked \cup {None, "junk"}
           Pages == 0..Len(Listing) \cup {1, Junk}
           Szs == Sizes \cup {0, Junk}
<1>1. URL = [status : Sts, sort : {None, "asc", "desc", "junk"}, q : {None, "term"},
             page : Pages, size : Szs]
  BY DEF URL
<1>2. None \in Sts /\ 0 \in Szs
  OBVIOUS
<1>3. Query(u).page \in Pages
  BY QueryFacts, Constants
<1> HIDE DEF Sts, Pages, Szs
<1>4. /\ u.status \in Sts /\ u.sort \in {None, "asc", "desc", "junk"}
      /\ u.q \in {None, "term"} /\ u.size \in Szs
  BY <1>1
<1>5. /\ Query(u).status \in Sts /\ Query(u).sort \in {None, "asc", "desc", "junk"}
      /\ Query(u).q \in {None, "term"}
  BY <1>2, <1>4 DEF Query, oneOf
<1>6. Query(u).size \in Szs
  BY <1>2, <1>4 DEF Query, positiveInt
<1>7. Query(u) = [status |-> Query(u).status, q |-> Query(u).q, sort |-> Query(u).sort,
                  page |-> Query(u).page, size |-> Query(u).size]
  BY DEF Query
<1> QED BY <1>1, <1>3, <1>5, <1>6, <1>7

LEMMA KeyIsURL ==
    ASSUME NEW u \in URL
    PROVE  Key(u) \in URL
<1>1. Query(u) \in URL /\ Home \in URL
  BY QueryIsURL, Constants
<1>2. [Home EXCEPT !.page = Query(u).page, !.size = Query(u).size] \in URL
  BY <1>1 DEF URL
<1> QED BY <1>2 DEF Key

LEMMA SearchParamsAreURL ==
    ASSUME NEW next \in URL
    PROVE  toSearchParams(next) \in URL
<1> DEFINE page == IF next.page = 1 THEN 0 ELSE next.page
           sort == IF next.q # None THEN None ELSE next.sort
<1>1. toSearchParams(next) = [next EXCEPT !.page = page, !.sort = sort]
  BY DEF toSearchParams
<1>2. page \in 0..Len(Listing) \cup {1, Junk}
  <2>1. next.page \in 0..Len(Listing) \cup {1, Junk} /\ 0 \in 0..Len(Listing)
    BY Constants DEF URL
  <2> QED BY <2>1
<1>3. sort \in {None, "asc", "desc", "junk"}
  BY DEF URL
<1> HIDE DEF page, sort
<1> QED BY <1>1, <1>2, <1>3 DEF URL

LEMMA ChangesOfURL ==
    ASSUME NEW u \in URL
    PROVE  /\ [u EXCEPT !.page = 1] \in URL
           /\ \A next \in 1..Len(Listing) : [u EXCEPT !.page = next] \in URL
           /\ \A q \in {None, "term"} : [u EXCEPT !.q = q, !.page = 1] \in URL
           /\ \A sort \in {None, "asc", "desc"} : [u EXCEPT !.sort = sort, !.page = 1] \in URL
           /\ \A size \in Sizes : [u EXCEPT !.size = size, !.page = 1] \in URL
           /\ \A s \in Screens : \A status \in Filters[s] \cup {None} :
                 [u EXCEPT !.status = status, !.page = 1] \in URL
<1> DEFINE Sts == Picked \cup {None, "junk"}
           Pages == 0..Len(Listing) \cup {1, Junk}
           Szs == Sizes \cup {0, Junk}
<1>1. URL = [status : Sts, sort : {None, "asc", "desc", "junk"}, q : {None, "term"},
             page : Pages, size : Szs]
  BY DEF URL
<1>4. \A s \in Screens : Filters[s] \subseteq Picked
  BY DEF Picked
<1>2. /\ 1 \in Pages /\ Sizes \subseteq Szs
      /\ \A s \in Screens : Filters[s] \cup {None} \subseteq Sts
  BY <1>4
<1>3. \A next \in 1..Len(Listing) : next \in Pages
  BY Constants
<1> HIDE DEF Sts, Pages, Szs
<1> QED BY <1>1, <1>2, <1>3

LEMMA FirstPageIsURL ==
    /\ FirstPage \in URL
    /\ \A s \in Screens : \A status \in Filters[s] \cup {None} :
          [FirstPage EXCEPT !.status = status] \in URL
<1>1. FirstPage = [Home EXCEPT !.page = 1]
  BY DEF FirstPage, Home
<1>2. FirstPage \in URL
  BY <1>1, ChangesOfURL, Constants
<1>3. ASSUME NEW s \in Screens, NEW status \in Filters[s] \cup {None}
      PROVE  [FirstPage EXCEPT !.status = status] \in URL
  <2>1. [FirstPage EXCEPT !.status = status, !.page = 1] \in URL
    BY <1>2, ChangesOfURL
  <2>2. /\ FirstPage.page = 1
        /\ FirstPage \in [{"status", "q", "sort", "page", "size"} ->
                 {FirstPage[f] : f \in {"status", "q", "sort", "page", "size"}}]
    BY DEF FirstPage
  <2>3. [FirstPage EXCEPT !.status = status] = [FirstPage EXCEPT !.status = status, !.page = 1]
    BY <2>2
  <2> QED BY <2>1, <2>2
<1> QED BY <1>2, <1>3

(* The page that is shown is one the service answered with. *)
LEMMA PageIsSound ==
    ASSUME PlaceInv
    PROVE  PageSound(Page) /\ PageIds \subseteq Ids
<1>1. PageSound(Page)
  BY NoPageIsSound DEF Page, PlaceInv
<1>2. \A i \in DOMAIN Page.items : Page.items[i].id \in Ids
  <2> DEFINE items == Page.items
  <2>1. items \in Seq(Item)
    BY <1>1 DEF PageSound
  <2> HIDE DEF items
  <2>2. \A i \in DOMAIN items : items[i] \in Item
    BY <2>1
  <2> QED BY <2>2 DEF items, Item
<1>3. \A item \in Items : item.id \in Ids
  BY <1>2 DEF Items, Range
<1> QED BY <1>1, <1>3 DEF PageIds

LEMMA ControlsLeadToURLs ==
    ASSUME PlaceInv
    PROVE  /\ OrdersControls \/ ProductsControls => \E u \in URL : GoTo(u)
           /\ PagedControls => Retry \/ \E u \in URL : GoTo(u)
<1>1. ASSUME NEW next \in URL, Apply(next) PROVE \E u \in URL : GoTo(u)
  BY <1>1, SearchParamsAreURL DEF Apply
<1>2. Query(url) \in URL /\ screen \in Screens
  BY QueryIsURL DEF PlaceInv
<1>3. SortBy => \E u \in URL : GoTo(u)
  <2>1. Cycle(Query(url).sort) \in {None, "asc", "desc"}
    BY DEF Cycle
  <2>2. [Query(url) EXCEPT !.sort = Cycle(@), !.page = 1]
        = [Query(url) EXCEPT !.sort = Cycle(Query(url).sort), !.page = 1]
    BY <1>2 DEF URL
  <2>3. [Query(url) EXCEPT !.sort = Cycle(Query(url).sort), !.page = 1] \in URL
    BY <1>2, <2>1, ChangesOfURL
  <2> QED BY <1>1, <2>2, <2>3 DEF SortBy
<1>4. ClearFilters => \E u \in URL : GoTo(u)
  BY <1>1, FirstPageIsURL DEF ClearFilters
<1>5. ASSUME NEW status \in Filters[screen] \cup {None}, FilterBy(status)
      PROVE  \E u \in URL : GoTo(u)
  <2>1. /\ [FirstPage EXCEPT !.status = status] \in URL
        /\ [Query(url) EXCEPT !.status = status, !.page = 1] \in URL
    BY <1>2, ChangesOfURL, FirstPageIsURL
  <2> QED BY <1>1, <1>5, <2>1 DEF FilterBy
<1>6. ASSUME NEW q \in {None, "term"}, Search(q) PROVE \E u \in URL : GoTo(u)
  <2>1. [Query(url) EXCEPT !.q = q, !.page = 1] \in URL
    BY <1>2, ChangesOfURL
  <2> QED BY <1>1, <1>6, <2>1 DEF Search
<1>7. ASSUME NEW next \in 1..(Len(Listing) + 1), TurnTo(next)
      PROVE  \E u \in URL : GoTo(u)
  <2>1. next \in 1..Len(Listing)
    <3>1. PageSound(Page) /\ Page.total > 0
      BY <1>7, PageIsSound DEF TurnTo, Paged
    <3>2. PageCount(Page) \in 1..Len(Listing)
      BY <3>1, PagesAreCounted
    <3>3. Page.page \in 1..Len(Listing) \cup {1} /\ Len(Listing) \in Nat
      BY <3>1, Constants DEF PageSound
    <3> QED BY <1>7, <3>2, <3>3 DEF TurnTo, Paged
  <2>2. [Query(url) EXCEPT !.page = next] \in URL
    BY <1>2, <2>1, ChangesOfURL
  <2> QED BY <1>1, <1>7, <2>2 DEF TurnTo
<1>8. ASSUME NEW size \in Sizes, Resize(size) PROVE \E u \in URL : GoTo(u)
  <2>1. [Query(url) EXCEPT !.size = size, !.page = 1] \in URL
    BY <1>2, ChangesOfURL
  <2> QED BY <1>1, <1>8, <2>1 DEF Resize
<1> QED BY <1>3, <1>4, <1>5, <1>6, <1>7, <1>8 DEF OrdersControls, ProductsControls, PagedControls
-----------------------------------------------------------------------------
(* What the steps do to the place of the list. *)
PendingPlaced == \A p \in pending : p.url \in URL /\ p.attempt \in 0..MaxReloads /\ PageSound(p.page)

LEMMA PlaceFrame ==
    ASSUME PlaceInv, UNCHANGED <<screen, row, listVars, selected, tickedAt>>
    PROVE  PlaceInv'
BY DEF PlaceInv, listVars

LEMMA PlaceInit ==
    ASSUME Init
    PROVE  PlaceInv
<1>1. /\ screen \in Screens /\ url \in URL /\ attempt = 0 /\ settled = Unsettled
      /\ pending = {Sent(url, 0)} /\ selected = {} /\ tickedAt = Key(url)
      /\ row \in [Ids -> [status : Initially[screen], version : {0}]]
  BY Constants DEF Init
<1>2. row \in [Ids -> [status : StatusesOf[screen], version : Nat]]
  <2>1. Initially[screen] \subseteq StatusesOf[screen]
    BY <1>1, ListAssumption
  <2>2. [status : Initially[screen], version : {0}]
            \subseteq [status : StatusesOf[screen], version : Nat]
    BY <2>1
  <2> QED BY <1>1, <2>2
<1>3. Key(url) \in URL /\ tickedAt \in URL
  BY <1>1, KeyIsURL
<1>4. /\ settled.url \in URL /\ settled.state \in {"loading", "ready", "error"}
      /\ PageSound(settled.page)
  BY <1>1, Constants, NoPageIsSound DEF Unsettled
<1>5. PendingPlaced
  BY <1>1, <1>3, Constants, NoPageIsSound DEF PendingPlaced, Sent
<1>6. attempt \in 0..MaxReloads
  BY <1>1, Constants
<1> QED BY <1>1, <1>2, <1>3, <1>4, <1>5, <1>6 DEF PlaceInv, PendingPlaced

LEMMA RefetchPlaced ==
    ASSUME ListInv, PlaceInv, NEW u \in URL, NEW n \in 0..MaxReloads, Refetch(u, n)
    PROVE  PendingPlaced'
<1>1. pending' = Abandoned(pending) \cup {Sent(u, n)}
  BY DEF Refetch
<1>2. ASSUME NEW p \in Abandoned(pending)
      PROVE  p.url \in URL /\ p.attempt \in 0..MaxReloads /\ PageSound(p.page)
  <2>1. PICK o \in pending : p = [o EXCEPT !.active = FALSE, !.page = NoPage]
    BY DEF Abandoned
  <2>2. o \in [url : {o.url}, attempt : {o.attempt}, active : BOOLEAN,
               state : {"sent", "ready", "error"}, page : {o.page}]
    BY DEF ListInv, RequestSound, Shaped
  <2>3. p.url = o.url /\ p.attempt = o.attempt /\ p.page = NoPage
    BY <2>1, <2>2
  <2> QED BY <2>3, NoPageIsSound DEF PlaceInv
<1>3. /\ Sent(u, n).url \in URL /\ Sent(u, n).attempt \in 0..MaxReloads
      /\ PageSound(Sent(u, n).page)
  BY KeyIsURL, NoPageIsSound DEF Sent
<1> QED BY <1>1, <1>2, <1>3 DEF PendingPlaced

LEMMA GoToPlaced ==
    ASSUME ListInv, PlaceInv, NEW u \in URL, GoTo(u)
    PROVE  PlaceInv'
<1>1. /\ url' = u /\ UNCHANGED <<screen, row, attempt, settled>>
      /\ selected' = SelectionAfter(u)
      /\ tickedAt' = IF SelectionAfter(u) = {} THEN Key(u) ELSE tickedAt
  BY DEF GoTo
<1>2. selected' \subseteq Ids /\ tickedAt' \in URL
  BY <1>1, KeyIsURL DEF SelectionAfter, PlaceInv
<1>3. PendingPlaced'
  <2>1. CASE pending' = pending
    BY <2>1 DEF PendingPlaced, PlaceInv
  <2>2. CASE Refetch(u, attempt)
    BY <2>2, RefetchPlaced DEF PlaceInv
  <2> QED BY <2>1, <2>2 DEF GoTo
<1> QED BY <1>1, <1>2, <1>3 DEF PlaceInv, PendingPlaced

LEMMA ReloadPlaced ==
    ASSUME ListInv, PlaceInv, Reload, UNCHANGED <<screen, row, url, settled, tickedAt>>,
           selected' \in {selected, {}}
    PROVE  PlaceInv'
<1>1. attempt' \in 0..MaxReloads /\ PendingPlaced'
  <2>1. CASE UNCHANGED <<attempt, pending>>
    BY <2>1 DEF PlaceInv, PendingPlaced
  <2>2. CASE attempt < MaxReloads /\ attempt' = attempt + 1 /\ Refetch(url, attempt + 1)
    <3>1. attempt + 1 \in 0..MaxReloads
      BY <2>2, Constants DEF PlaceInv
    <3> QED BY <2>2, <3>1, RefetchPlaced DEF PlaceInv
  <2> QED BY <2>1, <2>2 DEF Reload
<1> QED BY <1>1 DEF PlaceInv, PendingPlaced

LEMMA LeavePlaced ==
    ASSUME ListInv, PlaceInv, LeaveAndReturn
    PROVE  PlaceInv'
<1>1. /\ screen' = screen /\ row' = row /\ url' = Home /\ attempt' = 0 /\ settled' = Unsettled
      /\ selected' = {} /\ tickedAt' = Key(Home) /\ Refetch(Home, 0)
  BY DEF LeaveAndReturn
<1>2. Home \in URL /\ Key(Home) \in URL /\ 0 \in 0..MaxReloads
  BY Constants, KeyIsURL
<1>3. PendingPlaced'
  BY <1>1, <1>2, RefetchPlaced
<1>4. Unsettled.url = Home /\ Unsettled.state = "loading" /\ PageSound(Unsettled.page)
  BY NoPageIsSound DEF Unsettled
<1> QED BY <1>1, <1>2, <1>3, <1>4 DEF PlaceInv, PendingPlaced

LEMMA RowIsTyped ==
    ASSUME PlaceInv
    PROVE  row \in [Ids -> Version]
<1>1. screen \in Screens /\ row \in [Ids -> [status : StatusesOf[screen], version : Nat]]
  BY DEF PlaceInv
<1>2. StatusesOf[screen] \subseteq Status
  BY <1>1 DEF Status
<1>3. [status : StatusesOf[screen], version : Nat] \subseteq Version
  BY <1>2 DEF Version
<1> QED BY <1>1, <1>3

LEMMA AnswersPlaced ==
    ASSUME ListInv, PlaceInv, Answers
    PROVE  PlaceInv'
<1>1. PICK p \in pending : ServeList(p) \/ LoseList(p) \/ AnswerList(p)
  BY DEF Answers
<1>2. UNCHANGED <<screen, row, url, attempt, selected, tickedAt>>
  BY <1>1 DEF ServeList, LoseList, AnswerList
<1>3. /\ p \in [url : {p.url}, attempt : {p.attempt}, active : BOOLEAN,
                state : {"sent", "ready", "error"}, page : {p.page}]
      /\ p.url \in URL /\ p.attempt \in 0..MaxReloads /\ PageSound(p.page)
  BY DEF ListInv, RequestSound, Shaped, PlaceInv
<1>4. ASSUME NEW r, pending' = (pending \ {p}) \cup {r}, settled' = settled,
             r.url = p.url, r.attempt = p.attempt, PageSound(r.page)
      PROVE  PlaceInv'
  BY <1>2, <1>3, <1>4 DEF PlaceInv
<1>5. CASE ServeList(p)
  <2> DEFINE content == IF p.active THEN PageOf(p.url) ELSE p.page
             r == [p EXCEPT !.state = "ready", !.page = content]
  <2>1. pending' = (pending \ {p}) \cup {r} /\ settled' = settled
    BY <1>5 DEF ServeList
  <2>2. PageSound(content)
    BY <1>3, RowIsTyped, PageOfIsSound
  <2> HIDE DEF content
  <2>3. r.url = p.url /\ r.attempt = p.attempt /\ r.page = content
    BY <1>3
  <2> HIDE DEF r
  <2> QED BY <1>4, <2>1, <2>2, <2>3
<1>6. CASE LoseList(p)
  <2> DEFINE r == [p EXCEPT !.state = "error"]
  <2>1. pending' = (pending \ {p}) \cup {r} /\ settled' = settled
    BY <1>6 DEF LoseList
  <2>2. r.url = p.url /\ r.attempt = p.attempt /\ r.page = p.page
    BY <1>3
  <2> HIDE DEF r
  <2> QED BY <1>3, <1>4, <2>1, <2>2
<1>7. CASE AnswerList(p)
  <2>1. /\ p.state \in {"ready", "error"} /\ pending' = pending \ {p}
        /\ settled' = IF p.active THEN [url |-> p.url, attempt |-> p.attempt, state |-> p.state,
                                        page |-> p.page]
                      ELSE settled
    BY <1>3, <1>7 DEF AnswerList, Settles
  <2>2. /\ settled'.url \in URL /\ settled'.state \in {"loading", "ready", "error"}
        /\ PageSound(settled'.page)
    BY <1>3, <2>1 DEF PlaceInv
  <2> QED BY <1>2, <2>1, <2>2 DEF PlaceInv
<1> QED BY <1>1, <1>5, <1>6, <1>7

LEMMA ControlsPlaced ==
    ASSUME ListInv, PlaceInv, Controls
    PROVE  PlaceInv'
<1>1. CASE \E u \in URL : GoTo(u)
  BY <1>1, GoToPlaced
<1>2. CASE Retry
  BY <1>2, ReloadPlaced DEF Retry
<1>3. CASE LeaveAndReturn
  BY <1>3, LeavePlaced
<1>4. (\E u \in Links : Follow(u)) => \E u \in URL : GoTo(u)
  BY Constants DEF Follow
<1> QED BY <1>1, <1>2, <1>3, <1>4, ControlsLeadToURLs DEF Controls

LEMMA RowsPlaced ==
    ASSUME PlaceInv, Rows
    PROVE  PlaceInv'
<1>1. PageIds \subseteq Ids /\ selected \subseteq Ids /\ Key(url) \in URL
  BY PageIsSound, KeyIsURL DEF PlaceInv
<1>2. PICK ids \in SUBSET Ids : Select(ids)
  <2>1. CASE \E id \in Ids : ToggleRow(id)
    <3>1. PICK id \in Ids : ToggleRow(id)
      BY <2>1
    <3>2. selected \ {id} \subseteq Ids /\ selected \cup {id} \subseteq Ids
      BY <1>1
    <3> QED BY <3>1, <3>2 DEF ToggleRow
  <2>2. CASE ToggleAllOnPage
    <3>1. selected \ PageIds \subseteq Ids /\ selected \cup PageIds \subseteq Ids
      BY <1>1
    <3> QED BY <2>2, <3>1 DEF ToggleAllOnPage
  <2>3. CASE ClearSelection
    BY <2>3 DEF ClearSelection
  <2> QED BY <2>1, <2>2, <2>3 DEF Rows
<1>3. UNCHANGED <<screen, row, listVars>> /\ selected' = ids /\ tickedAt' = Key(url)
  BY <1>2 DEF Select
<1> QED BY <1>1, <1>3 DEF PlaceInv, listVars
-----------------------------------------------------------------------------
(* What the steps do to the runs and to the rows. *)
LEMMA VerbFacts ==
    /\ \A s \in Screens : Verbs[s] \subseteq StatusesOf[s]
    /\ \A s \in Screens : Verbs[s] \subseteq {"packed", "active", "archived", "deactivated"}
    /\ \A s \in Screens : \A x \in StatusesOf[s] : OthersMoves[x] \subseteq StatusesOf[s]
<1>1. \A s \in Screens : Verbs[s] \subseteq StatusesOf[s]
  BY DEF Screens, Verbs, StatusesOf
<1>2. \A s \in Screens : Verbs[s] \subseteq {"packed", "active", "archived", "deactivated"}
  BY DEF Screens, Verbs
<1>3. ASSUME NEW s \in Screens, NEW x \in StatusesOf[s]
      PROVE  OthersMoves[x] \subseteq StatusesOf[s]
  <2>1. CASE s = "orders"
    BY <2>1 DEF StatusesOf, OthersMoves
  <2>2. CASE s = "products"
    BY <2>2 DEF StatusesOf, OthersMoves
  <2>3. CASE s = "staff"
    BY <2>3 DEF StatusesOf, OthersMoves
  <2>4. CASE s \in {"customers", "roles"}
    BY <2>4 DEF StatusesOf, OthersMoves
  <2> QED BY <2>1, <2>2, <2>3, <2>4 DEF Screens
<1> QED BY <1>1, <1>2, <1>3

LEMMA NoRunFacts ==
    /\ NoRun \in RunType /\ NoRun.verb = None
    /\ RunSound(NoRun) /\ \A id : ~Due(NoRun, id)
<1>1. NoRun = [verb |-> None, rows |-> <<>>, at |-> 1, state |-> "sent", made |-> {},
               ok |-> {}, failed |-> {}]
  BY DEF NoRun, Run
<1>2. NoRun \in RunType /\ NoRun.verb = None
  BY <1>1 DEF RunType
<1> QED BY <1>2 DEF RunSound, Due

LEMMA RunsInit ==
    ASSUME Init
    PROVE  RunsInv
<1>1. /\ bulk = [slot \in Slots |-> NoRun] /\ acked = [id \in Ids |-> 0]
      /\ others = 0 /\ bulks = 0 /\ \A id \in Ids : row[id].version = 0
  BY DEF Init, Slots
<1>2. bulk \in [Slots -> RunType] /\ \A slot \in Slots : bulk[slot] = NoRun
  BY <1>1, NoRunFacts
<1>3. \A slot \in Slots : RunSound(bulk[slot])
  BY <1>2, NoRunFacts
<1>4. \A id \in Ids : DueChanges(id) = 0
  BY <1>2, NoRunFacts DEF DueChanges, Slots
<1> QED BY <1>1, <1>2, <1>3, <1>4, Constants DEF RunsInv

LEMMA RunsFrame ==
    ASSUME RunsInv, UNCHANGED <<screen, row, bulkVars, others>>
    PROVE  RunsInv'
<1>1. \A b : RunSound(b)' = RunSound(b)
  BY DEF RunSound, CountedSound
<1>2. \A id : DueChanges(id)' = DueChanges(id)
  BY DEF DueChanges, Due, bulkVars
<1> QED BY <1>1, <1>2 DEF RunsInv, bulkVars

(* How many changes are due never rises but by what starts or changes.      *)
LEMMA DueRange ==
    ASSUME NEW id
    PROVE  DueChanges(id) \in Nat
BY DEF DueChanges

(* A screen left behind keeps its run. *)
LEMMA LeaveRuns ==
    ASSUME RunsInv, LeaveAndReturn
    PROVE  RunsInv'
<1>1. /\ UNCHANGED <<screen, row, others, bulks>>
      /\ bulk' = [here |-> NoRun, left |-> bulk["here"]]
      /\ acked' = [id \in Ids |-> 0] /\ bulk["left"].verb = None
  BY DEF LeaveAndReturn, Running
<1>2. bulk' \in [Slots -> RunType] /\ bulk'["here"] = NoRun /\ bulk'["left"] = bulk["here"]
  BY <1>1, NoRunFacts DEF RunsInv, Slots
<1>3. \A slot \in Slots : RunSound(bulk[slot])'
  BY <1>1, <1>2, NoRunFacts DEF RunsInv, Slots, RunSound, CountedSound
<1>4. ASSUME NEW id \in Ids PROVE DueChanges(id)' = DueChanges(id)
  <2>1. ~Due(bulk["left"], id)
    BY <1>1 DEF Due
  <2>2. ~Due(bulk'["here"], id) /\ (Due(bulk'["left"], id) <=> Due(bulk["here"], id))
    BY <1>2, NoRunFacts
  <2> QED BY <2>1, <2>2 DEF DueChanges
<1> QED BY <1>1, <1>2, <1>3, <1>4 DEF RunsInv

(* Other staff change one row once. *)
LEMMA OthersKeep ==
    ASSUME PlaceInv, RunsInv, NEW id \in Ids, OthersChange(id)
    PROVE  PlaceInv' /\ RunsInv'
<1>1. PICK to \in OthersMoves[row[id].status] :
         row' = [row EXCEPT ![id] = [status |-> to, version |-> row[id].version + 1]]
  BY DEF OthersChange
<1>2. /\ UNCHANGED <<screen, listVars, selected, tickedAt, bulkVars>>
      /\ others < MaxOthers /\ others' = others + 1
  BY DEF OthersChange
<1>3. screen \in Screens /\ row \in [Ids -> [status : StatusesOf[screen], version : Nat]]
  BY DEF PlaceInv
<1>4. [status |-> to, version |-> row[id].version + 1] \in [status : StatusesOf[screen], version : Nat]
  <2>1. row[id] \in [status : StatusesOf[screen], version : Nat]
    BY <1>3
  <2>2. row[id].status \in StatusesOf[screen] /\ row[id].version \in Nat
    BY <2>1
  <2> QED BY <1>1, <1>3, <2>2, VerbFacts
<1>5. PlaceInv'
  BY <1>1, <1>2, <1>3, <1>4 DEF PlaceInv, listVars
<1>6. \A slot \in Slots : RunSound(bulk[slot])'
  BY <1>2 DEF RunsInv, RunSound, CountedSound, bulkVars
<1>7. \A x \in Ids : row'[x].version =< row[x].version + 1 /\ row'[x].version \in Nat
  <2> SUFFICES ASSUME NEW x \in Ids
               PROVE  row'[x].version =< row[x].version + 1 /\ row'[x].version \in Nat
    OBVIOUS
  <2>1. row[x].version \in Nat /\ row[id].version \in Nat
    BY <1>3
  <2> QED BY <1>1, <1>3, <2>1
<1>8. \A x \in Ids : row'[x].version + DueChanges(x)' =< others' + bulks'
  <2> SUFFICES ASSUME NEW x \in Ids
               PROVE  row'[x].version + DueChanges(x)' =< others' + bulks'
    OBVIOUS
  <2>1. DueChanges(x)' = DueChanges(x) /\ DueChanges(x) \in Nat
    BY <1>2, DueRange DEF DueChanges, bulkVars
  <2>2. row[x].version + DueChanges(x) =< others + bulks /\ row[x].version \in Nat
    BY <1>3 DEF RunsInv
  <2> QED BY <1>2, <1>7, <2>1, <2>2 DEF RunsInv, bulkVars
<1>9. others' \in 0..MaxOthers /\ UNCHANGED <<bulk, acked, bulks>>
  BY <1>2, Constants DEF RunsInv, bulkVars
<1> QED BY <1>5, <1>6, <1>8, <1>9 DEF RunsInv
-----------------------------------------------------------------------------
(* The rows a run is started on: each once. *)
LEMMA SelectedFacts ==
    ASSUME PlaceInv
    PROVE  /\ SelectedRows \in Seq(Item)
           /\ \A i, j \in DOMAIN SelectedRows : i # j => SelectedRows[i].id # SelectedRows[j].id
<1> DEFINE items == Page.items
           P == {item \in Range(items) : item.id \in selected}
<1>1. SelectedRows = Kept(items, P)
  BY DEF SelectedRows
<1>2. items \in Seq(Item) /\ \A i, j \in DOMAIN items : i # j => items[i].id # items[j].id
  BY PageIsSound DEF PageSound
<1> HIDE DEF items, P
<1> DEFINE rows == SelectedRows
<1>3. rows = Kept(items, P)
  BY <1>1
<1> HIDE DEF rows
<1>4. /\ rows \in Seq(Item)
      /\ \A k, l \in DOMAIN rows :
            k # l => \E i, j \in DOMAIN items : i # j /\ rows[k] = items[i] /\ rows[l] = items[j]
  BY <1>2, <1>3, KeptFacts
<1>5. ASSUME NEW k \in DOMAIN rows, NEW l \in DOMAIN rows, k # l
      PROVE  rows[k].id # rows[l].id
  <2>1. PICK i \in DOMAIN items, j \in DOMAIN items :
            i # j /\ rows[k] = items[i] /\ rows[l] = items[j]
    BY <1>4, <1>5
  <2> QED BY <1>2, <2>1
<1> QED BY <1>4, <1>5 DEF rows

LEMMA StartKeeps ==
    ASSUME PlaceInv, RunsInv, NEW verb \in Verbs[screen], StartBulk(verb)
    PROVE  PlaceInv' /\ RunsInv'
<1> DEFINE sel == SelectedRows
           rows == [i \in DOMAIN sel |-> sel[i].id]
           b == Run(verb, rows)
<1>1. /\ bulk' = [bulk EXCEPT !["here"] = b] /\ bulks < MaxBulks /\ bulks' = bulks + 1
      /\ UNCHANGED <<screen, row, listVars, selected, tickedAt, acked, others>>
      /\ sel # <<>> /\ bulk["here"].verb = None
  BY DEF StartBulk, Busy, Running
<1>2. /\ sel \in Seq(Item)
      /\ \A i, j \in DOMAIN sel : i # j => sel[i].id # sel[j].id
  BY SelectedFacts
<1> HIDE DEF sel
<1>3. /\ rows \in Seq(Ids) /\ Len(rows) \in Nat \ {0} /\ DOMAIN rows = 1..Len(rows)
      /\ \A i, j \in 1..Len(rows) : i # j => rows[i] # rows[j]
  <2>1. Len(sel) \in Nat \ {0} /\ DOMAIN sel = 1..Len(sel)
    BY <1>1, <1>2
  <2>2. \A i \in 1..Len(sel) : sel[i].id \in Ids
    <3>1. \A i \in 1..Len(sel) : sel[i] \in Item
      BY <1>2, <2>1
    <3> QED BY <3>1 DEF Item
  <2>3. rows \in Seq(Ids) /\ Len(rows) = Len(sel) /\ DOMAIN rows = 1..Len(sel)
    BY <2>1, <2>2
  <2> QED BY <1>2, <2>1, <2>3
<1> HIDE DEF rows
<1>4. b = [verb |-> verb, rows |-> rows, at |-> 1, state |-> "sent", made |-> {},
           ok |-> {}, failed |-> {}]
  BY DEF Run
<1>5. b \in RunType
  <2>1. verb \in {"packed", "active", "archived", "deactivated"}
    BY VerbFacts DEF PlaceInv
  <2> QED BY <1>3, <1>4, <2>1 DEF RunType
<1>6. RunSound(b)
  <2>1. 1 \in 1..Len(rows) /\ {rows[i] : i \in 1..0} = {} /\ 1 - 1 = 0
    BY <1>3
  <2> QED BY <1>3, <1>4, <2>1 DEF RunSound, CountedSound
<1> HIDE DEF b
<1>7. bulk' \in [Slots -> RunType] /\ bulk'["here"] = b /\ bulk'["left"] = bulk["left"]
  BY <1>1, <1>5 DEF RunsInv, Slots
<1>8. \A slot \in Slots : RunSound(bulk[slot])'
  <2>1. \A c : RunSound(c)' = RunSound(c)
    BY <1>1 DEF RunSound, CountedSound
  <2> QED BY <1>6, <1>7, <2>1 DEF RunsInv, Slots
<1>9. ASSUME NEW x \in Ids PROVE row'[x].version + DueChanges(x)' =< others' + bulks'
  <2>1. ~Due(bulk["here"], x) /\ (Due(bulk'["left"], x) <=> Due(bulk["left"], x))
    BY <1>1, <1>7 DEF Due
  <2>2. DueChanges(x)' =< DueChanges(x) + 1 /\ DueChanges(x) \in Nat /\ DueChanges(x)' \in Nat
    BY <2>1 DEF DueChanges
  <2>3. row[x].version + DueChanges(x) =< others + bulks /\ row[x].version \in Nat
    BY DEF RunsInv, PlaceInv
  <2> QED BY <1>1, <2>2, <2>3 DEF RunsInv
<1>10. bulks' \in 0..MaxBulks
  BY <1>1, Constants DEF RunsInv
<1>11. PlaceInv'
  BY <1>1, PlaceFrame
<1> QED BY <1>1, <1>7, <1>8, <1>9, <1>10, <1>11 DEF RunsInv
-----------------------------------------------------------------------------
(* The service serves the request for one row: the change that was due is   *)
(* made, or not, and is due no more.                                        *)
LEMMA ServedKeeps ==
    ASSUME PlaceInv, RunsInv, NEW slot \in Slots, BulkServed(slot)
    PROVE  PlaceInv' /\ RunsInv'
<1> DEFINE b == bulk[slot]
           id == b.rows[b.at]
<1>1. PICK accepted \in BOOLEAN, lost \in BOOLEAN :
        /\ row' = IF accepted
                  THEN [row EXCEPT ![id] = [status |-> b.verb, version |-> row[id].version + 1]]
                  ELSE row
        /\ bulk' = [bulk EXCEPT ![slot] =
                       [b EXCEPT !.state = IF accepted /\ ~lost THEN "ok" ELSE "failed",
                                 !.made = IF accepted THEN b.made \cup {id} ELSE b.made]]
        /\ acked' = IF accepted /\ ~lost /\ slot = "here"
                    THEN [acked EXCEPT ![id] = row[id].version + 1] ELSE acked
  BY DEF BulkServed
<1>2. /\ UNCHANGED <<screen, listVars, selected, tickedAt, bulks, others>>
      /\ b.verb # None /\ b.state = "sent"
  BY DEF BulkServed, Running
<1> DEFINE state == IF accepted /\ ~lost THEN "ok" ELSE "failed"
           made == IF accepted THEN b.made \cup {id} ELSE b.made
           c == [b EXCEPT !.state = state, !.made = made]
<1>3. /\ b \in RunType /\ b.verb \in Verbs[screen] /\ b.at \in 1..Len(b.rows)
      /\ \A i, j \in 1..Len(b.rows) : i # j => b.rows[i] # b.rows[j]
      /\ CountedSound(b, b.at - 1)
  BY <1>2 DEF RunsInv, RunSound
<1>4. id \in Ids
  <2>1. b.rows \in Seq(Ids)
    BY <1>3 DEF RunType
  <2> QED BY <1>3, <2>1
<1>5. state \in {"ok", "failed"} /\ made \subseteq Ids /\ b.made \subseteq made
      /\ (state = "ok" => id \in made)
  BY <1>3, <1>4 DEF RunType
<1>6. bulk' = [bulk EXCEPT ![slot] = c]
  BY <1>1
<1> HIDE DEF b, state, made
<1>7. /\ c \in RunType /\ c.state = state /\ c.made = made
      /\ c.verb = b.verb /\ c.rows = b.rows /\ c.at = b.at /\ c.ok = b.ok /\ c.failed = b.failed
  BY <1>3, <1>5 DEF RunType
<1> HIDE DEF c
<1>8. RunSound(c)
  BY <1>3, <1>5, <1>7 DEF RunSound, CountedSound
<1>9. /\ bulk' \in [Slots -> RunType] /\ bulk'[slot] = c
      /\ \A other \in Slots \ {slot} : bulk'[other] = bulk[other]
  BY <1>6, <1>7 DEF RunsInv
<1>10. \A s \in Slots : RunSound(bulk[s])'
  <2>1. \A x : RunSound(x)' = RunSound(x)
    BY <1>2 DEF RunSound, CountedSound
  <2> QED BY <1>8, <1>9, <2>1 DEF RunsInv
<1>11. row \in [Ids -> [status : StatusesOf[screen], version : Nat]] /\ screen \in Screens
  BY DEF PlaceInv
<1>12. [status |-> b.verb, version |-> row[id].version + 1]
           \in [status : StatusesOf[screen], version : Nat]
  <2>1. row[id] \in [status : StatusesOf[screen], version : Nat]
    BY <1>4, <1>11
  <2>2. row[id].version + 1 \in Nat
    BY <2>1
  <2>3. b.verb \in StatusesOf[screen]
    BY <1>3, <1>11, VerbFacts
  <2> QED BY <2>2, <2>3
<1> HIDE DEF id
<1>13. PlaceInv'
  <2>1. row' \in [Ids -> [status : StatusesOf[screen], version : Nat]]
    BY <1>1, <1>11, <1>12
  <2> QED BY <1>2, <2>1 DEF PlaceInv, listVars
<1>14. acked' \in [Ids -> Nat]
  <2>1. row[id].version + 1 \in Nat
    BY <1>12
  <2> QED BY <1>1, <2>1 DEF RunsInv
<1>15. /\ ~Due(c, id)
       /\ \A x : Due(c, x) => Due(b, x)
       /\ Due(b, id)
  <2>1. c.state # "sent" /\ b.state = "sent" /\ b.rows[b.at] = id
    BY <1>2, <1>5, <1>7 DEF id, b
  <2>2. ASSUME NEW i \in c.at..Len(c.rows), c.rows[i] = id, i = c.at => c.state = "sent"
        PROVE  FALSE
    <3>1. i # b.at /\ i \in 1..Len(b.rows)
      BY <1>3, <1>7, <2>1, <2>2
    <3> QED BY <1>3, <1>7, <2>1, <2>2, <3>1
  <2>3. b.at \in b.at..Len(b.rows)
    BY <1>3
  <2> QED BY <1>2, <1>7, <2>1, <2>2, <2>3 DEF Due, b
<1>16. ASSUME NEW x \in Ids PROVE row'[x].version + DueChanges(x)' =< others' + bulks'
  <2>1. row[x].version + DueChanges(x) =< others + bulks /\ row[x].version \in Nat
    BY <1>11 DEF RunsInv
  <2>2. DueChanges(x) \in Nat /\ DueChanges(x)' \in Nat
    BY DEF DueChanges
  <2>3. slot = "here" \/ slot = "left"
    BY DEF Slots
  <2>4. DueChanges(x)' =< DueChanges(x)
    BY <1>9, <1>15, <2>3 DEF DueChanges, Slots, b
  <2>5. CASE x # id \/ ~accepted
    <3>1. row'[x] = row[x]
      BY <1>1, <1>11, <2>5
    <3> QED BY <1>2, <2>1, <2>2, <2>4, <3>1 DEF RunsInv
  <2>6. CASE x = id /\ accepted
    <3>1. row'[x].version = row[x].version + 1
      BY <1>1, <1>11, <2>6
    <3>2. DueChanges(x)' + 1 =< DueChanges(x)
      BY <1>9, <1>15, <2>3, <2>6 DEF DueChanges, Slots, b
    <3> QED BY <1>2, <2>1, <2>2, <3>1, <3>2 DEF RunsInv
  <2> QED BY <2>5, <2>6
<1> QED BY <1>2, <1>9, <1>10, <1>13, <1>14, <1>16 DEF RunsInv
-----------------------------------------------------------------------------
(* Counting the row a run is at keeps its books.                            *)
LEMMA CountingIsSound ==
    ASSUME NEW b \in RunType, RunSound(b), b.verb # None, b.state # "sent"
    PROVE  /\ Counted(b) \in RunType /\ CountedSound(Counted(b), b.at)
           /\ Counted(b).verb = b.verb /\ Counted(b).rows = b.rows /\ Counted(b).at = b.at
           /\ Counted(b).state = b.state /\ Counted(b).made = b.made
<1> DEFINE id == b.rows[b.at]
           ok == IF b.state = "ok" THEN b.ok \cup {id} ELSE b.ok
           failed == IF b.state = "ok" THEN b.failed ELSE b.failed \cup {id}
           before == {b.rows[i] : i \in 1..(b.at - 1)}
           upto == {b.rows[i] : i \in 1..b.at}
<1>1. Counted(b) = [b EXCEPT !.ok = ok, !.failed = failed]
  BY DEF Counted, RunType
<1>2. /\ b.at \in 1..Len(b.rows) /\ b.rows \in Seq(Ids) /\ Len(b.rows) \in Nat
      /\ \A i, j \in 1..Len(b.rows) : i # j => b.rows[i] # b.rows[j]
      /\ b.ok \cup b.failed = before /\ b.ok \cap b.failed = {} /\ b.ok \subseteq b.made
      /\ b.state = "ok" => id \in b.made
  BY DEF RunSound, CountedSound, RunType
<1>3. id \in Ids
  BY <1>2
<1>4. ok \subseteq Ids /\ failed \subseteq Ids
  BY <1>3 DEF RunType
<1>5. upto = before \cup {id}
  <2>1. \A i : i \in 1..b.at <=> i \in 1..(b.at - 1) \/ i = b.at
    BY <1>2
  <2> QED BY <2>1, Zenon
<1>6. id \notin before
  <2> SUFFICES ASSUME NEW i \in 1..(b.at - 1), b.rows[i] = id PROVE FALSE
    OBVIOUS
  <2>1. i \in 1..Len(b.rows) /\ i # b.at
    BY <1>2
  <2> QED BY <1>2, <2>1
<1> HIDE DEF id, before, upto
<1>7. ok \cup failed = upto /\ ok \cap failed = {} /\ ok \subseteq b.made
  BY <1>2, <1>5, <1>6
<1> HIDE DEF ok, failed
<1>8. /\ Counted(b) \in RunType /\ Counted(b).ok = ok /\ Counted(b).failed = failed
      /\ Counted(b).verb = b.verb /\ Counted(b).rows = b.rows /\ Counted(b).at = b.at
      /\ Counted(b).state = b.state /\ Counted(b).made = b.made
  BY <1>1, <1>4 DEF RunType
<1> QED BY <1>7, <1>8 DEF CountedSound, upto

(* A run goes on to its next row, or ends.                                  *)
LEMMA AnsweredKeeps ==
    ASSUME ListInv, PlaceInv, RunsInv, NEW slot \in Slots, BulkAnswered(slot)
    PROVE  PlaceInv' /\ RunsInv'
<1> DEFINE b == bulk[slot]
           n == Counted(b)
           next == [n EXCEPT !.at = n.at + 1, !.state = "sent"]
<1>1. /\ UNCHANGED <<screen, row, url, settled, navigations, tickedAt, acked, bulks, others>>
      /\ b.verb # None /\ b.state # "sent"
      /\ IF n.at < Len(n.rows)
         THEN /\ bulk' = [bulk EXCEPT ![slot] = next]
              /\ UNCHANGED <<attempt, pending, selected>>
         ELSE BulkEnds(slot, n)
  BY DEF BulkAnswered, Running
<1>2. b \in RunType /\ RunSound(b)
  BY DEF RunsInv
<1> HIDE DEF b
<1>3. /\ n \in RunType /\ CountedSound(n, b.at)
      /\ n.verb = b.verb /\ n.rows = b.rows /\ n.at = b.at /\ n.made = b.made
  BY <1>1, <1>2, CountingIsSound
<1>4. /\ b.at \in 1..Len(b.rows) /\ b.verb \in Verbs[screen]
      /\ \A i, j \in 1..Len(b.rows) : i # j => b.rows[i] # b.rows[j]
  BY <1>1, <1>2 DEF RunSound
<1> HIDE DEF n
<1>5. PICK c \in RunType : /\ bulk' = [bulk EXCEPT ![slot] = c] /\ RunSound(c)
                           /\ \A x : Due(c, x) => Due(b, x)
  <2>1. CASE n.at < Len(n.rows)
    <3>1. /\ next \in RunType /\ next.verb = b.verb /\ next.rows = b.rows
          /\ next.at = b.at + 1 /\ next.state = "sent"
          /\ next.ok = n.ok /\ next.failed = n.failed /\ next.made = b.made
      <4>1. n.at + 1 \in Nat
        BY <1>3 DEF RunType
      <4> QED BY <1>3, <4>1 DEF RunType
    <3> HIDE DEF next
    <3>2. next.at \in 1..Len(next.rows) /\ next.at - 1 = b.at
      BY <1>3, <1>4, <2>1, <3>1
    <3>3. CountedSound(next, next.at - 1)
      <4>1. CountedSound(next, b.at)
        BY <1>3, <3>1 DEF CountedSound
      <4> QED BY <3>2, <4>1
    <3>4. RunSound(next)
      BY <1>4, <3>1, <3>2, <3>3 DEF RunSound
    <3>5. ASSUME NEW x, Due(next, x) PROVE Due(b, x)
      <4>1. PICK i \in (b.at + 1)..Len(b.rows) : b.rows[i] = x
        BY <3>1, <3>5 DEF Due
      <4>2. i \in b.at..Len(b.rows) /\ i # b.at
        BY <1>4
      <4> QED BY <1>1, <4>1, <4>2 DEF Due
    <3> QED BY <1>1, <2>1, <3>1, <3>4, <3>5
  <2>2. CASE ~(n.at < Len(n.rows))
    BY <1>1, <2>2, NoRunFacts DEF BulkEnds
  <2> QED BY <2>1, <2>2
<1>6. /\ bulk' \in [Slots -> RunType] /\ bulk'[slot] = c
      /\ \A other \in Slots \ {slot} : bulk'[other] = bulk[other]
  BY <1>5 DEF RunsInv
<1>7. \A s \in Slots : RunSound(bulk[s])'
  <2>1. \A x : RunSound(x)' = RunSound(x)
    BY <1>1 DEF RunSound, CountedSound
  <2> QED BY <1>5, <1>6, <2>1 DEF RunsInv
<1>8. ASSUME NEW x \in Ids PROVE row'[x].version + DueChanges(x)' =< others' + bulks'
  <2>1. slot = "here" \/ slot = "left"
    BY DEF Slots
  <2>2. DueChanges(x)' =< DueChanges(x) /\ DueChanges(x) \in Nat /\ DueChanges(x)' \in Nat
    BY <1>5, <1>6, <2>1 DEF DueChanges, Slots, b
  <2>3. row[x].version + DueChanges(x) =< others + bulks /\ row[x].version \in Nat
    BY DEF RunsInv, PlaceInv
  <2> QED BY <1>1, <2>2, <2>3 DEF RunsInv
<1>9. PlaceInv'
  <2>1. CASE UNCHANGED <<attempt, pending, selected>>
    BY <1>1, <2>1, PlaceFrame DEF listVars
  <2>2. CASE Reload /\ selected' = {}
    BY <1>1, <2>2, ReloadPlaced
  <2> QED BY <1>1, <2>1, <2>2 DEF BulkEnds
<1> QED BY <1>1, <1>6, <1>7, <1>8, <1>9 DEF RunsInv
-----------------------------------------------------------------------------
(* The lists' inductive invariant, in full.                                 *)
TypesInv == ListInv /\ PlaceInv /\ RunsInv

LEMMA NextKeepsTypes == TypesInv /\ [Next]_vars => TypesInv'
<1> SUFFICES ASSUME ListInv, PlaceInv, RunsInv, [Next]_vars
             PROVE  ListInv' /\ PlaceInv' /\ RunsInv'
  BY DEF TypesInv
<1>1. CASE UNCHANGED vars
  BY <1>1, PlaceFrame, RunsFrame, NextKeepsInv DEF vars
<1>2. CASE Answers
  <2>1. UNCHANGED <<screen, row, bulkVars, others>>
    BY <1>2 DEF Answers, ServeList, LoseList, AnswerList
  <2> QED BY <1>2, <2>1, AnswersPlaced, RunsFrame, NextKeepsInv
<1>3. CASE Controls
  <2>1. CASE LeaveAndReturn
    BY <2>1, <1>3, ControlsPlaced, LeaveRuns, NextKeepsInv
  <2>2. CASE ~LeaveAndReturn
    <3>1. \A u : GoTo(u) => UNCHANGED <<screen, row, bulkVars, others>>
      BY DEF GoTo
    <3>2. Retry => UNCHANGED <<screen, row, bulkVars, others>>
      BY DEF Retry
    <3>3. UNCHANGED <<screen, row, bulkVars, others>>
      BY <1>3, <2>2, <3>1, <3>2, ControlsLeadToURLs DEF Controls, Follow
    <3> QED BY <1>3, <3>3, ControlsPlaced, RunsFrame, NextKeepsInv
  <2> QED BY <2>1, <2>2
<1>4. CASE Rows
  <2>1. UNCHANGED <<screen, row, bulkVars, others>>
    BY <1>4 DEF Rows, ToggleRow, ToggleAllOnPage, ClearSelection, Select
  <2> QED BY <1>4, <2>1, RowsPlaced, RunsFrame, NextKeepsInv
<1>5. CASE Bulk
  BY <1>5, StartKeeps, ServedKeeps, AnsweredKeeps, NextKeepsInv DEF Bulk, Slots
<1>6. CASE \E id \in Ids : OthersChange(id)
  BY <1>6, OthersKeep, NextKeepsInv
<1> QED BY <1>1, <1>2, <1>3, <1>4, <1>5, <1>6 DEF Next

THEOREM TypesInvariant == Spec => []TypesInv
<1>1. Init => TypesInv
  BY InitInv, PlaceInit, RunsInit DEF TypesInv
<1> QED BY <1>1, NextKeepsTypes, PTL DEF Spec

(* listQuery.ts, Pagination.tsx: whatever the screen, no control leads to a *)
(* URL the service has no page for, and a row is changed no more often than *)
(* other staff and the runs started here say.                               *)
THEOREM ListIsTyped == Spec => []ListTypeOK
<1>1. ASSUME TypesInv PROVE ListTypeOK
  <2>1. PlaceInv /\ RunsInv
    BY <1>1 DEF TypesInv
  <2>2. ASSUME NEW id \in Ids
        PROVE  row[id] \in [status : StatusesOf[screen], version : 0..(MaxOthers + MaxBulks)]
    <3>1. row[id] \in [status : StatusesOf[screen], version : Nat]
      BY <2>1 DEF PlaceInv
    <3>2. /\ row[id].version + DueChanges(id) =< others + bulks
          /\ others \in 0..MaxOthers /\ bulks \in 0..MaxBulks
      BY <2>1 DEF RunsInv
    <3>3. row[id].version \in 0..(MaxOthers + MaxBulks)
      BY <3>1, <3>2, DueRange, Constants
    <3> QED BY <3>1, <3>3
  <2>3. row \in [Ids -> [status : StatusesOf[screen], version : 0..(MaxOthers + MaxBulks)]]
    BY <2>1, <2>2 DEF PlaceInv
  <2> QED BY <2>1, <2>3 DEF ListTypeOK, PlaceInv, RunsInv
<1> QED BY <1>1, TypesInvariant, PTL

(* runBulk (ListPage.tsx): the outcome counts every row once, and as done   *)
(* only what the service did.                                               *)
THEOREM TheReportIsTrue == Spec => []ReportIsTrue
<1>1. ASSUME TypesInv PROVE ReportIsTrue
  <2>1. bulk \in [Slots -> RunType] /\ \A slot \in Slots : RunSound(bulk[slot])
    BY <1>1 DEF TypesInv, RunsInv
  <2>2. ASSUME NEW slot \in Slots, Running(slot), bulk[slot].state # "sent",
               Counted(bulk[slot]).at = Len(Counted(bulk[slot]).rows)
        PROVE  LET b == Counted(bulk[slot]) IN
               /\ b.ok \cup b.failed = Range(b.rows) /\ b.ok \cap b.failed = {}
               /\ b.ok \subseteq b.made
    <3> DEFINE b == Counted(bulk[slot])
    <3>1. b \in RunType /\ CountedSound(b, bulk[slot].at) /\ b.at = bulk[slot].at
      BY <2>1, <2>2, CountingIsSound DEF Running
    <3> HIDE DEF b
    <3>2. DOMAIN b.rows = 1..Len(b.rows)
      BY <3>1 DEF RunType
    <3>3. Range(b.rows) = {b.rows[i] : i \in 1..b.at}
      BY <2>2, <3>2 DEF Range, b
    <3> QED BY <3>1, <3>3 DEF CountedSound, b
  <2> QED BY <2>1, <2>2 DEF ReportIsTrue
<1> QED BY <1>1, TypesInvariant, PTL
-----------------------------------------------------------------------------
(* What this screen was told it changed, no later answer takes back: while  *)
(* no run is going on here, a page that is shown, or will be, was read      *)
(* after the changes that were acknowledged.                                *)
ReadPage(p) == \A i \in DOMAIN p.items : p.items[i].at.version >= acked[p.items[i].id]
ReadPages ==
    /\ \A p \in pending : p.active /\ p.state = "ready" => ReadPage(p.page)
    /\ settled.attempt = attempt /\ settled.state = "ready" => ReadPage(settled.page)
ReadInv ==
    /\ \A id \in Ids : acked[id] =< row[id].version
    /\ settled.attempt \in Int /\ settled.attempt =< attempt
    /\ ~Busy => ReadPages

LEMMA ReadInit ==
    ASSUME Init
    PROVE  ReadInv
<1>1. /\ \A id \in Ids : acked[id] = 0 /\ row[id].version = 0
      /\ attempt = 0 /\ settled = Unsettled /\ pending = {Sent(url, 0)}
  BY DEF Init
<1>2. settled.attempt = -1 /\ settled.state = "loading"
  BY <1>1 DEF Unsettled
<1>3. \A p \in pending : p.state = "sent"
  BY <1>1 DEF Sent
<1> QED BY <1>1, <1>2, <1>3 DEF ReadInv, ReadPages

(* No abandoned request and none just sent has an answer that counts. *)
LEMMA RefetchReads ==
    ASSUME ListInv, NEW u, NEW n, Refetch(u, n)
    PROVE  \A p \in pending' : ~(p.active /\ p.state = "ready")
<1>1. pending' = Abandoned(pending) \cup {Sent(u, n)}
  BY DEF Refetch
<1>2. ASSUME NEW p \in Abandoned(pending) PROVE ~p.active
  <2>1. PICK o \in pending : p = [o EXCEPT !.active = FALSE, !.page = NoPage]
    BY DEF Abandoned
  <2>2. o \in [url : {o.url}, attempt : {o.attempt}, active : BOOLEAN,
               state : {"sent", "ready", "error"}, page : {o.page}]
    BY DEF ListInv, RequestSound, Shaped
  <2> QED BY <2>1, <2>2
<1>3. Sent(u, n).state = "sent"
  BY DEF Sent
<1> QED BY <1>1, <1>2, <1>3

LEMMA ReadFrame ==
    ASSUME ReadInv, UNCHANGED <<row, attempt, settled, pending, bulkVars>>
    PROVE  ReadInv'
BY DEF ReadInv, ReadPages, ReadPage, Busy, Running, bulkVars

LEMMA GoToReads ==
    ASSUME ListInv, ReadInv, NEW u, GoTo(u)
    PROVE  ReadInv'
<1>1. UNCHANGED <<row, attempt, settled, bulkVars>>
  BY DEF GoTo
<1>2. CASE pending' = pending
  BY <1>1, <1>2, ReadFrame
<1>3. CASE Refetch(u, attempt)
  <2>1. \A p \in pending' : ~(p.active /\ p.state = "ready")
    BY <1>3, RefetchReads
  <2> QED BY <1>1, <2>1 DEF ReadInv, ReadPages, ReadPage, Busy, Running, bulkVars
<1> QED BY <1>2, <1>3 DEF GoTo

LEMMA ReloadReads ==
    ASSUME TypesInv, ReadInv, attempt < MaxReloads, Reload, UNCHANGED <<row, settled, acked>>
    PROVE  ReadInv'
<1>1. attempt' = attempt + 1 /\ Refetch(url, attempt + 1) /\ attempt \in Int
  BY Constants DEF Reload, TypesInv, PlaceInv
<1>2. \A p \in pending' : ~(p.active /\ p.state = "ready")
  BY <1>1, RefetchReads DEF TypesInv
<1>3. settled'.attempt # attempt' /\ settled'.attempt \in Int /\ settled'.attempt =< attempt'
  BY <1>1 DEF ReadInv
<1>4. ReadPages'
  BY <1>2, <1>3 DEF ReadPages
<1> QED BY <1>3, <1>4 DEF ReadInv

LEMMA LeaveReads ==
    ASSUME TypesInv, ReadInv, LeaveAndReturn
    PROVE  ReadInv'
<1>1. /\ row' = row /\ attempt' = 0 /\ settled' = Unsettled /\ Refetch(Home, 0)
      /\ \A id \in Ids : acked'[id] = 0
  BY DEF LeaveAndReturn
<1>2. settled'.attempt = -1 /\ settled'.state = "loading"
  BY <1>1 DEF Unsettled
<1>3. \A p \in pending' : ~(p.active /\ p.state = "ready")
  BY <1>1, RefetchReads DEF TypesInv
<1>4. \A id \in Ids : row[id].version \in Nat
  BY DEF TypesInv, PlaceInv
<1> QED BY <1>1, <1>2, <1>3, <1>4 DEF ReadInv, ReadPages

LEMMA AnswersRead ==
    ASSUME TypesInv, ReadInv, Answers
    PROVE  ReadInv'
<1>1. PICK p \in pending : ServeList(p) \/ LoseList(p) \/ AnswerList(p)
  BY DEF Answers
<1>2. UNCHANGED <<row, attempt, bulkVars>>
  BY <1>1 DEF ServeList, LoseList, AnswerList
<1>3. /\ p \in [url : {p.url}, attempt : {p.attempt}, active : BOOLEAN,
                state : {"sent", "ready", "error"}, page : {p.page}]
      /\ p.active => p.attempt = attempt
      /\ p.url \in URL /\ attempt \in Int
  BY Constants DEF TypesInv, ListInv, RequestSound, Shaped, PlaceInv
<1>4. \A q : ReadPage(q)' = ReadPage(q)
  BY <1>2 DEF ReadPage, bulkVars
<1>5. Busy' = Busy
  BY <1>2 DEF Busy, Running, bulkVars
<1>6. ASSUME NEW r, pending' = (pending \ {p}) \cup {r}, settled' = settled,
             r.active /\ r.state = "ready" => ReadPage(r.page)
      PROVE  ReadInv'
  BY <1>2, <1>4, <1>5, <1>6 DEF ReadInv, ReadPages, bulkVars
<1>7. CASE ServeList(p)
  <2> DEFINE content == IF p.active THEN PageOf(p.url) ELSE p.page
             r == [p EXCEPT !.state = "ready", !.page = content]
  <2>1. pending' = (pending \ {p}) \cup {r} /\ settled' = settled
    BY <1>7 DEF ServeList
  <2>2. p.active => ReadPage(content)
    <3> SUFFICES ASSUME p.active PROVE ReadPage(PageOf(p.url))
      OBVIOUS
    <3>1. /\ PageSound(PageOf(p.url))
          /\ \A i \in DOMAIN PageOf(p.url).items :
                PageOf(p.url).items[i].at = row[PageOf(p.url).items[i].id]
      BY <1>3, RowIsTyped, PageOfIsSound DEF TypesInv
    <3> DEFINE items == PageOf(p.url).items
    <3>2. items \in Seq(Item) /\ \A i \in DOMAIN items : items[i].at = row[items[i].id]
      BY <3>1 DEF PageSound
    <3> HIDE DEF items
    <3>3. \A i \in DOMAIN items : items[i] \in Item
      BY <3>2
    <3>4. \A i \in DOMAIN items : items[i].id \in Ids
      BY <3>3 DEF Item
    <3>5. \A id \in Ids : row[id].version >= acked[id]
      <4>1. \A id \in Ids : row[id].version \in Nat /\ acked[id] \in Nat
        BY DEF TypesInv, PlaceInv, RunsInv
      <4> QED BY <4>1 DEF ReadInv
    <3> QED BY <3>2, <3>4, <3>5 DEF ReadPage, items
  <2> HIDE DEF content
  <2>3. r.active = p.active /\ r.page = content
    BY <1>3
  <2> HIDE DEF r
  <2> QED BY <1>6, <2>1, <2>2, <2>3
<1>8. CASE LoseList(p)
  <2> DEFINE r == [p EXCEPT !.state = "error"]
  <2>1. pending' = (pending \ {p}) \cup {r} /\ settled' = settled
    BY <1>8 DEF LoseList
  <2>2. r.state = "error"
    BY <1>3
  <2> HIDE DEF r
  <2> QED BY <1>6, <2>1, <2>2
<1>9. CASE AnswerList(p)
  <2>1. /\ pending' = pending \ {p}
        /\ settled' = IF p.active THEN [url |-> p.url, attempt |-> p.attempt, state |-> p.state,
                                        page |-> p.page]
                      ELSE settled
    BY <1>9 DEF AnswerList, Settles
  <2>2. CASE p.active
    <3>1. settled'.attempt = attempt /\ settled'.state = p.state /\ settled'.page = p.page
      BY <1>3, <2>1, <2>2
    <3> QED BY <1>2, <1>3, <1>4, <1>5, <2>1, <2>2, <3>1 DEF ReadInv, ReadPages, bulkVars
  <2>3. CASE ~p.active
    BY <1>2, <1>4, <1>5, <2>1, <2>3 DEF ReadInv, ReadPages, bulkVars
  <2> QED BY <2>2, <2>3
<1> QED BY <1>1, <1>7, <1>8, <1>9

LEMMA OthersRead ==
    ASSUME TypesInv, ReadInv, NEW id \in Ids, OthersChange(id)
    PROVE  ReadInv'
<1>1. PICK to : row' = [row EXCEPT ![id] = [status |-> to, version |-> row[id].version + 1]]
  BY DEF OthersChange
<1>2. UNCHANGED <<attempt, settled, pending, bulkVars>>
  BY DEF OthersChange, listVars
<1>3. \A x \in Ids : acked'[x] =< row'[x].version
  <2> SUFFICES ASSUME NEW x \in Ids PROVE acked'[x] =< row'[x].version
    OBVIOUS
  <2>1. /\ row[x].version \in Nat /\ acked[x] \in Nat /\ acked[x] =< row[x].version
        /\ DOMAIN row = Ids /\ acked' = acked
    BY <1>2 DEF TypesInv, PlaceInv, RunsInv, ReadInv, bulkVars
  <2> QED BY <1>1, <2>1
<1> QED BY <1>2, <1>3 DEF ReadInv, ReadPages, ReadPage, Busy, Running, bulkVars

LEMMA StartReads ==
    ASSUME TypesInv, ReadInv, NEW verb \in Verbs[screen], StartBulk(verb)
    PROVE  ReadInv'
<1>1. /\ UNCHANGED <<row, attempt, settled, acked>> /\ screen \in Screens
      /\ bulk'["here"].verb = verb
  BY DEF StartBulk, TypesInv, PlaceInv, RunsInv, Slots, Run, listVars
<1>2. verb # None
  BY <1>1, VerbFacts DEF None
<1> QED BY <1>1, <1>2 DEF ReadInv, Busy, Running

LEMMA ServedReads ==
    ASSUME TypesInv, ReadInv, NEW slot \in Slots, BulkServed(slot)
    PROVE  ReadInv'
<1> DEFINE b == bulk[slot]
           id == b.rows[b.at]
<1>1. PICK accepted \in BOOLEAN, lost \in BOOLEAN :
        /\ row' = IF accepted
                  THEN [row EXCEPT ![id] = [status |-> b.verb, version |-> row[id].version + 1]]
                  ELSE row
        /\ bulk' = [bulk EXCEPT ![slot] =
                       [b EXCEPT !.state = IF accepted /\ ~lost THEN "ok" ELSE "failed",
                                 !.made = IF accepted THEN b.made \cup {id} ELSE b.made]]
        /\ acked' = IF accepted /\ ~lost /\ slot = "here"
                    THEN [acked EXCEPT ![id] = row[id].version + 1] ELSE acked
  BY DEF BulkServed
<1>2. UNCHANGED <<attempt, settled, pending>> /\ b.verb # None
  BY DEF BulkServed, Running, listVars
<1>3. b \in RunType /\ bulk \in [Slots -> RunType]
  BY DEF TypesInv, RunsInv
<1>4. \A s \in Slots : bulk'[s].verb = bulk[s].verb
  BY <1>1, <1>3 DEF RunType
<1> HIDE DEF b, id
<1>5. \A x \in Ids : acked'[x] =< row'[x].version
  <2> SUFFICES ASSUME NEW x \in Ids PROVE acked'[x] =< row'[x].version
    OBVIOUS
  <2>1. /\ row[x].version \in Nat /\ acked[x] \in Nat /\ acked[x] =< row[x].version
        /\ DOMAIN row = Ids /\ DOMAIN acked = Ids
    BY DEF TypesInv, PlaceInv, RunsInv, ReadInv
  <2> QED BY <1>1, <2>1
<1>6. CASE slot = "here"
  <2>1. Busy'
    BY <1>2, <1>4, <1>6 DEF Busy, Running, Slots, b
  <2> QED BY <1>2, <1>5, <2>1 DEF ReadInv
<1>7. CASE slot # "here"
  <2>1. acked' = acked /\ Busy' = Busy
    BY <1>1, <1>4, <1>7 DEF Busy, Running, Slots
  <2> QED BY <1>2, <1>5, <2>1 DEF ReadInv, ReadPages, ReadPage
<1> QED BY <1>6, <1>7

LEMMA AnsweredReads ==
    ASSUME TypesInv, ReadInv, NEW slot \in Slots, BulkAnswered(slot)
    PROVE  ReadInv'
<1> DEFINE b == bulk[slot]
           n == Counted(b)
           next == [n EXCEPT !.at = n.at + 1, !.state = "sent"]
<1>1. /\ UNCHANGED <<row, settled, acked>>
      /\ b.verb # None /\ b.state # "sent"
      /\ IF n.at < Len(n.rows)
         THEN /\ bulk' = [bulk EXCEPT ![slot] = next]
              /\ UNCHANGED <<attempt, pending, selected>>
         ELSE BulkEnds(slot, n)
  BY DEF BulkAnswered, Running
<1>2. bulk \in [Slots -> RunType] /\ n \in RunType /\ n.verb = b.verb
  BY <1>1, CountingIsSound DEF TypesInv, RunsInv
<1>3. CASE slot = "here" /\ n.at < Len(n.rows)
  <2>1. next.verb = n.verb
    BY <1>2 DEF RunType
  <2>2. Busy'
    BY <1>1, <1>2, <1>3, <2>1 DEF Busy, Running, Slots
  <2> QED BY <1>1, <1>3, <2>2 DEF ReadInv
<1>4. CASE slot = "here" /\ ~(n.at < Len(n.rows))
  <2>1. attempt < MaxReloads /\ Reload
    BY <1>1, <1>4 DEF BulkEnds
  <2> QED BY <1>1, <2>1, ReloadReads
<1>5. CASE slot # "here"
  <2>1. UNCHANGED <<attempt, pending>>
    BY <1>1, <1>5 DEF BulkEnds
  <2>2. bulk'["here"] = bulk["here"]
    BY <1>1, <1>2, <1>5 DEF BulkEnds, Slots
  <2> QED BY <1>1, <2>1, <2>2 DEF ReadInv, ReadPages, ReadPage, Busy, Running
<1> QED BY <1>3, <1>4, <1>5

LEMMA NextKeepsReads == TypesInv /\ ReadInv /\ [Next]_vars => ReadInv'
<1> SUFFICES ASSUME TypesInv, ReadInv, [Next]_vars PROVE ReadInv'
  OBVIOUS
<1>1. ListInv /\ PlaceInv
  BY DEF TypesInv
<1>2. CASE UNCHANGED vars
  BY <1>2, ReadFrame DEF vars, listVars
<1>3. CASE Controls
  <2>1. CASE \E u : GoTo(u)
    BY <1>1, <2>1, GoToReads
  <2>2. CASE Retry
    BY <2>2, ReloadReads DEF Retry, bulkVars
  <2> QED BY <1>1, <1>3, <2>1, <2>2, LeaveReads, ControlsLeadToURLs DEF Controls, Follow
<1>4. CASE Rows
  <2>1. UNCHANGED <<row, attempt, settled, pending, bulkVars>>
    BY <1>4 DEF Rows, ToggleRow, ToggleAllOnPage, ClearSelection, Select, listVars
  <2> QED BY <2>1, ReadFrame
<1>5. CASE Bulk
  BY <1>5, StartReads, ServedReads, AnsweredReads DEF Bulk, Slots
<1> QED BY <1>2, <1>3, <1>4, <1>5, AnswersRead, OthersRead DEF Next

(* runBulk and useResource.ts: once a bulk action has ended, the list shows *)
(* no row as it was before the change the screen was told of.               *)
THEOREM TheListReadsItsWrites == Spec => []ReadsItsWrites
<1>1. Init => TypesInv /\ ReadInv
  BY InitInv, PlaceInit, RunsInit, ReadInit DEF TypesInv
<1>2. TypesInv /\ ReadInv /\ [Next]_vars => (TypesInv /\ ReadInv)'
  BY NextKeepsTypes, NextKeepsReads
<1>3. ASSUME TypesInv, ReadInv PROVE ReadsItsWrites
  <2> SUFFICES ASSUME ~Busy, NEW item \in Items
               PROVE  item.at.version >= acked[item.id]
    BY DEF ReadsItsWrites
  <2>1. settled.attempt = attempt /\ settled.state = "ready" /\ item \in Range(settled.page.items)
    BY DEF Items, ListStatus, Page, IsCurrent
  <2> QED BY <1>3, <2>1 DEF ReadInv, ReadPages, ReadPage, Range
<1> QED BY <1>1, <1>2, <1>3, PTL DEF Spec
=============================================================================
