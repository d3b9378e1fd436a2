# Formal model of go-admin

TLA+ specifications, TLC runs and machine-checked proofs for go-admin, the staff
back-office of a small shop: a gateway in front of three Go services (Identity,
Catalog, Orders), each with its own PostgreSQL database, a worker that publishes
order events to NATS JetStream and projects them into revenue figures, and a web
application.

All paths below are relative to the repository root.

## 1. The system

| Component | State it keeps | Operations | Talks to |
|---|---|---|---|
| Orders API (`services/orders/internal/order`) | `orders`, `order_items`, `order_events`, `outbox` | create, set status, cancel, refund, read | Catalog over HTTP (resolve lines), PostgreSQL |
| Outbox publisher (`services/orders/internal/outbox`) | `outbox.published_at`, the batch in memory | drain, publish, mark | PostgreSQL, JetStream |
| Broker (`services/orders/internal/natsx` configures it; external) | stream `ORDERS`, durable consumer `orders-reporting` | store with duplicate window, deliver, redeliver | publisher, projector |
| Revenue projection (`services/orders/internal/reporting`) | `processed_events`, `revenue_by_day`, `recognised_orders` | apply an envelope, ack or nak | JetStream, PostgreSQL |
| Dashboard, customers (`reporting/service.go`, `customer`) | `customers` | reports, lifetime value | PostgreSQL |
| Identity: staff and roles (`services/identity/internal/staff`, `role`) | `staff`, `roles`, `role_permissions` | create, update, deactivate, delete role, with two last-admin guards | PostgreSQL |
| Identity: sessions (`services/identity/internal/session`) | `sessions` | login, validate, revoke | PostgreSQL, gateway |
| Gateway (`services/gateway/internal`) | session cache, token buckets | resolve a cookie into a signed principal, rate limit, route | every service |
| Catalog (`services/catalog/internal`) | `products`, `product_images`, object store | create, update, activate, archive, upload and delete images, resolve | PostgreSQL, S3 |
| Web: session (`apps/web/src/api/auth.tsx`, `http.ts`) | signed-in user, status, cookie | sign in, sign out, change password, bootstrap; two listeners on every answer | gateway |
| Web: lists (`ui/DataTable.tsx`, `BulkBar.tsx`, `api/useResource.ts`, five routes) | the URL, the last answer, ticks | filter, sort, search, page, bulk actions | gateway |
| Web: records (`routes/OrderDetail.tsx`, `OrderCreate.tsx`, `ProductDetail.tsx`, `ProductForm.tsx`, `Staff*.tsx`, `Roles.tsx`, `Customers.tsx`) | dialogs, forms, spinners, loaded copies | every change of one record | gateway |
| Web: figures (`routes/Dashboard.tsx`, `CustomerDetail.tsx`, `components/RevenueChart.tsx`) | a shared request, three resources | read and put together | gateway |
| Web: frame (`app/*`, `ui/ColumnVisibility.tsx`, `ui/shadcn/sidebar.tsx`) | local storage, a cookie, layout | columns, theme, rail, drawer | nothing |

What is hard in it, and what each component must therefore keep:

- **Orders.** Requests race for one order. The status column, the event log and
  the outbox must never disagree; a terminal order must not move; a refund must
  imply a payment.
- **Outbox, broker, projection.** The envelope of a committed change travels
  through a table, a broker that may lose acknowledgements, duplicate and delay
  messages, and a consumer that may crash between committing and acknowledging.
  No event may be lost; an order's events must be applied in order; the money of
  a day must be exact.
- **Staff and roles.** Two guards in two packages, serialised by an advisory
  lock, must leave an active holder of `edit_staff` behind.
- **Sessions and gateway cache.** A revoked session must stop being accepted
  within a bounded time, and a change of a forced password must be seen in spite
  of the cache.
- **Web: session.** Answers arrive after the cookie changed. The screen must show
  whose session the browser holds, except where it cannot know.
- **Web: lists.** The URL changes faster than answers arrive, and a bulk action
  outlives the page it was started on. Rows, ticks and reports must belong to
  what the controls show.
- **Web: records.** A component outlives the record it was opened for, a request
  outlives its component. No button may send twice or stay disabled; what was
  changed must be shown; money must survive its conversion to text and back.
- **Web: figures.** Numbers side by side come from different moments. Those that
  are said to be the same must be.
- **Web: frame.** Tabs share stored preferences without hearing of each other.
- **Catalog images.** A row and an object are written one after the other; a
  failure between the two must not leave a row without its object.

`PROJECT.json` lists every component, also those without a model, and under
`hazards` each place where this goes wrong in a way tests hardly reach.

## 2. The modules

```
OrderLifecycle            the transition table (pure)
  OrderLog                abstract: each order's log and the outbox
    Orders                the transactions that implement OrderLog
      MCOrders
Broker                    stream, duplicate window, durable consumer (external)
  Publisher               the outbox publisher
  Projector               the consumer    EXTENDS RevenueProjection (the SQL)
RevenueLedger             abstract: events posted to figures, one by one
RevenuePipeline           OrderLog + Publisher + Projector, implements RevenueLedger
  MCRevenuePipeline
Identity                  staff, roles, sessions; the two last-admin guards
  MCIdentity
WebSession                the console's session, the gateway's cache, Identity's sessions
  MCWebSession
Sums, Selections          sums, filtering and ordering in a form a proof can use (see section 5)
WebList                   the five lists: URL, requests, ticks, bulk actions
  MCWebList
WebScreen                 what the screens of one record share: router, resources, requests
  WebSales                orders, new orders, customers    (INSTANCE OrderLifecycle)
  WebCatalog              products, their images and form, prices
  WebStaff                colleagues and roles
    WebScreens            the three composed, with colleagues at work
      MCWebScreens
WebOverview               badge, dashboard, chart, customer page (INSTANCE OrderLifecycle)
  MCWebOverview
WebShell                  columns, theme, sidebar, in several tabs
  MCWebShell
PipelineProofs (OrderLog, Orders, RevenuePipeline), IdentityProofs, WebSessionProofs,
SelectionsProofs, WebListProofs, WebScreensProofs, WebOverviewProofs, WebShellProofs
                          theorems
```

The `MC` modules only give the constants values. Everything else is split by
component; a module that an implementation refines (`OrderLog`, `RevenueLedger`)
knows nothing of the implementation. An operator whose comment describes a
slip of the code (`NoRowLock`, `ReverseBySubtracting`, `PlaceAgain`, ...) is the
wrong variant of the definition that follows it. No specification uses it: it is
there to check that a property would notice the slip.

## 3. How the modules correspond to the code

**OrderLifecycle** is `order/lifecycle.go`: the map `transitions`, `CanTransition`,
and which statuses each endpoint may ask for (`SetStatus` leaves refunds to
`Refund`).

**OrderLog** is what the tables promise. `events[o]` is `order_events` of one order
in insertion order; `outbox` is the set of committed outbox rows with the fields
of their envelopes that matter (id, order, place in the order's log, status,
version, time, total). Its one action appends an event and its row together. Ids
come from a sequence, so a new row need not have the greatest id of all, only one
above the rows of the same order.

**Orders** is the transactions behind it, `order/service.go` and `order/postgres.go`.

| Action | Code |
|---|---|
| `Create`, `SetStatus`, `Cancel`, `Refund` | a handler's request enters `RunInTx`; `now()` is fixed here |
| `GetStatusForUpdate` | `SELECT ... FOR UPDATE` with the wait for the row, then the `CanTransition` test |
| `Write` | the status update (which compares the status again), the event and the outbox row; the id is drawn here. The wait of the UPDATE for its own row is left out, so that the lock of `GetStatusForUpdate` alone must keep requests apart |
| `Commit`, `Rollback` | as they are; a rollback loses the drawn id |
| `Tick` | time passes between requests |

**Broker** is external: the stream and consumer that `natsx/natsx.go` configures. A
message is the outbox id it carries. Storing a known id again depends on the
duplicate window, hence on time: both outcomes are allowed always. The consumer is
sent any unacknowledged message with fewer than `MaxAckPending` (1) unacknowledged
ones before it, any number of times.

**Publisher** is `outbox/publisher.go`: `Drain` reads up to `BatchSize` unpublished
rows by id, `Publish` sends the lowest, `MarkPublished` writes `published_at`.
`PublishFails` covers a message that never left, one that was stored without its
acknowledgement, and one still on its way (`wire`, delivered by `ArriveLate`).

**RevenueProjection** is the SQL of `reporting/postgres.go`: `CountPlaced`, `Recognise`
and `Reverse` on `revenue_by_day` and `recognised_orders`, behind the dedup row of
`processed_events`. **Projector** is the callback around it: version check, apply,
then the answer. The transaction commits before the answer is sent, and each may
fail.

**RevenuePipeline** composes `OrderLog`, `Publisher` and `Projector`. It takes the
abstract log rather than `Orders`, because `Orders` is proved to implement it.
**RevenueLedger** is its specification: every order's events are posted to the daily
figures one at a time and in order, and the figures are a function of what is posted.

**Identity** is `staff`, `role` and `session` of the Identity service. PostgreSQL runs
READ COMMITTED, so each SQL statement is a step that sees what is committed when it
starts. `txn[q]` is a request's transaction: what it is about, how far its guard is,
the rows it has locked, what it will write when it commits. A request about an account
has a caller whom the gateway trusts with `edit_staff`, or did when it last asked
(`trusted`: its cache may be behind). The PATCH of one's own account carries neither a
role nor the active flag (`staff/handler.go:107-113`), so that only somebody else can
give an account another role.

| Phase | Statement |
|---|---|
| `reading` | `GetByID` of the staff guard; an inactive account passes |
| `checking` | `HasEditStaffPermission` of the account's role, or of the role to change |
| `weighing` | `HasEditStaffPermission` of the new role; a change that loses nothing passes |
| `locking` | `pg_advisory_xact_lock(4_812_001)` |
| `counting`, `waiting` | the snapshot of the locking query, then its row locks with PostgreSQL's recheck of each row |
| `writing`, `written` | the update, and for a deactivation `RevokeSessions` |
| `ready` | commit |

FOR UPDATE rechecks only the locked row: the account's columns are read anew, the
joined `role_permissions` are those of the snapshot. Foreign keys are modelled where
they make one statement wait for another or fail: deleting a role against writing
an account that gets it, inserting a session against a guard's locks on the account.

**WebSession** follows one request of each kind (`boot`, `login`, `logout`, `change`,
`poll`, and the pages' loads) from the browser through the gateway to the answer.

| Phase or action | Code |
|---|---|
| `sent` | `fetch` with the cookie of that moment (`http.ts`) |
| `Validate`, then `validated` | the gateway misses its cache and Identity has answered `Validate`; the request is not passed on yet (`auth.go`, `session/service.go`) |
| `Admit` | `Cache.Set`, in the step that passes the request on |
| `Serve...` | the handler behind the gateway, one transaction each |
| `ValidationFails` | `Resolve` returns an error, so the request goes on as nobody's |
| `NotServed`, `AnswerLost` | a 429, a network failure before or after the service acted |
| `...Answered` | `request` tells the two listeners first, then its caller; then React redirects (`Show`) |

`excuse` is history: it records what happened since the last undisturbed answer that
the screen does not tell from a dead session: an answer to a request under an earlier
cookie, a failed validation, a sign-out whose answer was lost, and the 401 that answers
a wrong current password. The first three no client could tell, and nothing is claimed
of the screen after them. The last one it could, by its code or by asking `request` to
suppress it, as the sign-in does; the code does not (section 6, item 6).
`ScreenTellsTheSession` therefore allows, after a wrong password, that a live session is
shown as signed out, and nothing else: whoever is shown as signed in still owns the cookie.

**WebList** keeps the URL as the list's state. `Query` and `toSearchParams` are
`listQuery.ts`; `Key` is the key given to `useResource`; `pending` are its requests,
of which only the last is `active`. A bulk run is `runBulk`'s loop, one row at a time;
when the screen is left it moves to the slot `left`, where its end changes nothing.
`row[id].version` counts changes, `acked` what this screen was told.

**WebScreen** is the part common to the screens of one record. `rec` is what the
services hold, `shown` and `side` are the two resources of a screen, `ui` its own
state, a record that each screen defines. `SameComponent` is React's: a route to
another order keeps the component and its state; the form is keyed by its product.
A request remembers the component that sent it (`from`); an answer to a component
that is gone sets nothing but may still navigate. `Show` loads a resource again only
under another address, as `useResource` does for another key: a form whose answer finds
the record's page open leaves what it shows, which `late` records. `rights` are the
permissions of the person; the services ask for one before anything else (`May`, from the
two `router.go`), while the buttons of an order and a product do not. **WebSales**, **WebCatalog** and
**WebStaff** have one action per button and dialog, one for what the service does
(`...Served`) and one for the answer (`...Answered`). The services' side is as
abstract as these screens see it: accepted, refused, lost. An order's moves are
judged by `OrderLifecycle`, the table of the Orders service itself, not by the mirror
in `api/orders.ts`. The quantities of a new order are counted in half pieces, since its field
takes fractions, which the service cannot read.

Prices are digits: `moneyInputValue`, `formatMoney` and `parseMoney` are the three
conversions, with `padEnd` and the pattern's limit on decimals.

**WebOverview** has the shared promise of `reports.ts` as `inflight`, the two screens
that wait for it as `askers`, and the three resources of a customer's page under keys.
The report is read in two steps (`CountOrders`, `ServeReport`), and a customer's orders too:
one page of rows, then how many there are (`ListHistory`, `HistoryAnswered`). Which rows
are on the page is left open but for their number; the newest come first in the code,
and no property depends on it. The report's recent orders are left out.
**WebShell** has the stored preferences, the tabs, and between a render and its effects
a state of its own (`settled`), in which the system may change its scheme. The rail's
cookie is written on a toggle, for seven days, and by nothing else; `CookieLapses` may
remove it at any time after that.

Resources are read in one step in `WebScreen`, and in `WebOverview` what a part says
is fixed when it is served: that requests overlap, and late answers are dropped, is
what `WebList` models and `WebListProofs` proves of `useResource`.

## 4. What the runs show

| Run | Instance | Question |
|---|---|---|
| `orders` | 2 orders, 2 requests, all statuses, 4 outbox rows, times 0..1 | Status, events and outbox never disagree; ids of one order follow its log; refunded implies paid; terminal orders stay; the transactions implement `OrderLog` |
| `pipeline` | 2 orders, 1 worker, 2 days, 3 rows, batches of 2, 2 deliveries waiting, 1 fault, fair | Nothing is lost, nothing overtakes within an order, the money of each day is exact, the pipeline implements `RevenueLedger`, every event is applied in the end |
| `rollout` | 1 order, 2 workers, envelope versions 1 and 2, 1 fault | Order and money keep when two builds overlap and some envelopes are not implemented |
| `lifetime_value` | 2 orders, no fault | *Violated*: net revenue keeps the money of paid orders that were cancelled |
| `identity` | 2 accounts, 2 roles, 2 requests, 1 login, grants alone | The last active holder of `edit_staff` is never removed |
| `identity_overlap` | 2 accounts, 2 roles, 2 requests, overlapping grants | *Violated*: an admin moves a colleague to a role that is losing `edit_staff`, and nobody holds it any more |
| `session` | 2 accounts (1 with a temporary password), 2 tokens, 2 requests at a time, TTL 1, polls of 2, times 0..2, 1 fault | The screen tells the session; the poll outlasts the cache; revocation takes at most the TTL |
| `lists` | 2 rows, pages of 1 or 2, 2 navigations, 2 reloads, 2 requests at a time, 1 bulk action, 1 change by others, 1 fault | Rows, ticks and report belong to the URL, whatever the order of the answers |
| `screens` | 2 records of each kind, 2 visits, 2 changes, 2 requests at a time, 1 change by others, 1 fault | Buttons, dialogs and forms of every screen that changes a record |
| `password` | the same | *Violated*: the one-time password is hidden, or shown beside another address, before it is acknowledged |
| `overview` | 2 customers, 3 orders of one of them in 2 currencies, pages of 2 orders, 2 days, 2 visits, 3 reports, 1 move, 1 fault | Figures side by side agree where they are said to |
| `shell` | 2 tabs, 2 tables (one in a section of the menu), 2 columns, 6 changes | The theme is the one asked for; a reload brings back what a tab set, but for a rail whose cookie lapsed |

The properties each run checks, by the names they have in the modules:

| Run | Config | Properties |
|---|---|---|
| `orders` | `Orders.cfg` | `TypeOK`, `EventLogExplainsStatus`, `OutboxFollowsLog`, `RefundFollowsPayment`, `LogSpec`, `TerminalIsFinal` |
| `pipeline` | `RevenuePipeline.cfg` | `PipelineTypeOK`, `NoEventLost`, `AppliedInOrder`, `RevenueIsExact`, `NothingRecognisedAfterRefund`, `LedgerSpec`, `EveryEventApplied` |
| `rollout` | `RevenueRollout.cfg` | `AppliedInOrder`, `RevenueIsExact` |
| `lifetime_value` | `LifetimeValue.cfg` | `NetRevenueIsLifetimeValue` |
| `identity` | `Identity.cfg` | `IdentityTypeOK`, `AdminRemains` |
| `identity_overlap` | `IdentityOverlap.cfg` | `AdminRemains` |
| `session` | `WebSession.cfg` | `SessionTypeOK`, `ScreenTellsTheSession`, `PollOutlastsCache`, `RevokedWithinTTL` |
| `lists` | `WebList.cfg` | `ListTypeOK`, `LoadingIsAwaited`, `RowsAnswerTheURL`, `TicksBelongToThePage`, `ReportIsTrue`, `ReadsItsWrites` |
| `screens` | `WebScreens.cfg` | `ScreensTypeOK`, `RefusedOnlyWhenOutdated`, `ShowsItsChanges`, `OneRequestPerButton`, `CreatesOnce`, `OrdersAreWellFormed`, `UntouchedPriceSurvives` |
| `password` | `WebPassword.cfg` | `PasswordShownUntilAcknowledged` |
| `overview` | `WebOverview.cfg` | `OverviewTypeOK`, `BadgeIsTheDashboardsTotal`, `ChartTellsTheTable`, `LifetimeMatchesTheOrders` |
| `shell` | `WebShell.cfg` | `ThemeIsApplied`, `PreferencesSurviveReload` |

Bounds. Four rows let one order be placed, paid and refunded beside another, which is
the shortest history on which an overtaking refund or a doubled payment shows; three
rows do for one order, and the second order's row may be the one in between. Both
orders have different totals, so money credited to the wrong one shows. `MaxTime`
with days of length 1 puts payment and refund on different days. One fault of any
kind in any place already produces redelivery, a duplicate and a late arrival; the
theorems lift this bound, for the sums too. Two requests are the smallest
race; the role and the staff guard can race with two accounts and two roles, one
account held by each.

For the console: two requests in flight are the smallest overtaking; two tokens are
a session before and one after a sign-in, two accounts let one be taken for the other.
A TTL of 1 and polls of 2 keep the relation of the deployed values (12 s in `auth.tsx`
against the 10 s of `deploy/compose`); `TTL < PollFor` is an assumption that the gateway's
configuration does not enforce. Two rows are two pages of one row, one full page, and
an empty filter. Two visits lead away and back, which is what a component that is
kept, or one that is gone, needs; two changes and one colleague are a change refused
because another one came first. The currencies have two and three decimals, prices
trailing zeros; the quantities typed are none and one and a half pieces (`Quantities`).
`screens` starts on each of the tours of `MCTours`: two or three routes
at a time, since a component never sees more than the route before it and the next.
On three of them the person may only look. The tour of a product, its form and the form
of a new one has an answer that finds the product's page open. Three orders on pages of
two (`PageSize`, 20 in the code) are the fewest of which one is not shown.

`Days`, `MaxRows`, `MaxTime`, `MaxFaults`, `MaxInbox`, `MaxNavigations`, `MaxReloads`,
`MaxInFlight`, `MaxOthers`, `MaxBulks`, `MaxVisits`, `MaxSubmits`, `MaxAsks`, `MaxMoves`,
`MaxChanges`, `MaxQuantity` cut behaviours, and only bound their length. `Slow` is
FALSE: a validation, a change and a poll end within the tick they began in, so a tick
is longer than any of them. Without it `RevokedWithinTTL` is false, by as much as a
validation lasts.

Deadlock is checked for the runs of Orders and Identity, where some request can
always begin or time can pass. The others do not check it: when the bounds are used
up, every message is acknowledged or every answer has arrived, nothing is left to do,
and that is the wanted end.

Symmetry is used where only invariants are checked over identical requests, workers or
tabs, and in `orders`, whose properties do not distinguish orders either.

Fairness (`FairSpec`, used in `pipeline` for `EveryEventApplied` and the ledger's
progress): weak fairness of the publisher's loop (drain, publish, mark), of the
projector's (apply or skip, answer) and of the broker's redelivery. The code justifies
the first with the ticker of `outbox/publisher.go`, which drains again whatever
happened before, the second with the consumer's callback loop, the third with `AckWait`
and no `MaxDeliver`. Nothing is assumed of requests, of faults or of late messages.
What is assumed and not guaranteed: that both loops of the worker go on. If one
returns, the process lives on with the other (`cmd/worker/main.go:93`). The console has
no fairness: nothing makes a network answer. What would be a liveness property there
is stated as safety: a list that loads has a request whose answer it will take
(`LoadingIsAwaited`), a button that spins has one too (`OneRequestPerButton`).

## 5. What is proved

All theorems hold for any sets of orders, workers, accounts, roles, requests, tokens,
rows, tabs, columns and currencies and for any bounds. Assumptions are the named `ASSUME`s of the modules (totals are
natural numbers, times fall on days of `Days`, `None` is no order, a tour of the
console visits screens with a record of their kind, one of the chart's ranges is the
longest, and so on).

**PipelineProofs**, on the log: `Lifecycle`: every log walks the transition table from `pending`
on. `RefundsArePaidFor`: the transition table alone implies that a refunded order was
paid. The invariant strengthens it to "every status from `packed` on has a `paid`
before it", since the refund may come several steps after the payment.
`StatusesAscend`: along a log the statuses have ascending ranks, so none is repeated,
which is why counting events is counting orders.
`OutboxIsLog`: rows and events correspond one to one, and ids ascend along a log.

On the transactions: `OrdersInv` adds to the types: an order that has a transaction in
`locked` or `written` has no other one there (the row lock), what such a transaction
read is still the status, and drawn ids are pairwise different and above the committed
rows of their order. The last part is what makes ids follow the log although they are
drawn before the commit: they are drawn under the lock. From it follow
`StatusIsExplained`, `OrdersImplementLog` (the refinement) and `TerminalStays`.

On the pipeline: `AppliedInOrder` is not inductive: it depends on how messages got
into the stream. `PipelineInv` adds `StreamOrdered` (when a message is first stored,
its predecessors of the same order are), `SendOrdered` (the same for what is in a
batch or on the wire, which is where ending a batch at the first error matters) and
`SettledInOrder` (every message before a deliverable one is acknowledged, hence
applied or not implemented, which is where `MaxAckPending` 1 matters). From it
`EventsInOrder` and `NothingIsLost`, for any number of workers and faults.

The money comes on top (`RevenueInv`): what `recognised_orders` holds is exactly what was
paid and not refunded among the events applied (`RecognisedIsOpen`), each with the
amount and the day of its payment. An application then changes each figure by the one
row it is about: since the payment of an order is applied before its refund
(`EventsInOrder`) and each status at most once (`StatusesAscend`), the row that a refund
looks up is there and is that order's. From it `FiguresAreExact` and
`RefundsLeaveNothing`. `PipelineImplementsLedger` adds that what is applied of an order
is a prefix of its log (`AppliedPrefix`), which is true when every envelope is of the
version this build implements (the assumption of the theorem; a build that skips some
events posts no prefix). The refinement mapping counts the events applied per order.

Sums are proved about without induction theorems: `Sums` gives the summands as a
function, and that a sum grows by what one member adds is shown of all subsets of a
finite set at once, by well-founded induction on the subset relation used as a minimal
counterexample.

**IdentityProofs.** `GuardsKeepAnAdmin`, under `GrantsAlone`: nothing overlaps a change
that may give `edit_staff`. The invariant says of every transaction why its commit is
harmless. One that passed without the lock had a reason that still holds: the account
is no admin, or loses nothing, or is being moved to a role that is gone, so that its
update will fail (`PassedWithReason`). One that counted has somebody else in its row
locks who is an admin (`SomebodyElse`); nobody else's commit can change that, because
the row is locked, the role cannot be deleted while the account has it, and a role
that loses the permission needs the advisory lock. `SnapshotHolds` covers the time
between the snapshot and the row locks. `identity_overlap` shows that the assumption
is needed. The guard is therefore sound against demotions racing each other, which is
what the advisory lock was written for, and not against a promotion in between. Who the
callers are and how far behind the gateway is with them plays no part in the proof; it
does in the run, whose trace is two requests that their callers may send.

**WebSessionProofs.** `SessionInv` adds to the types, for each request, that one which
is `validated` has a token that was drawn and, unless `Slow`, a session that was live
within this tick (`RequestSound`); and for each token, that its entry lapses at most a
TTL from now, and a TTL after the end of a session that ended (`TokenSound`). The
bound is not inductive without the request under way: an answer of Identity's that was
true may be cached after the revocation. `RevocationLatency` follows under `~Slow`. One
lemma (`StepKeepsInv`) says what a step may do to sessions, cache and requests; each
action is shown to do no more.

`TheScreenTellsTheSession` needs to know what an answer under way is worth
(`ScreenInv`). It says what was so when it was made (`AnswerSound`), and a "not
authenticated" that belongs to the cookie of now means an ended session unless `excuse`
says otherwise (`invalid_credentials`, the other 401, says nothing of the session and leaves an
excuse); the token of a login's answer is drawn for it and in nobody else's hands
(`LoginIsFresh`), so that taking it over cannot make an older answer true. Alerts belong
to the form of the password (`AlertIsTheForms`). `ThePollOutlastsTheCache`, under `~Slow`,
is an argument about time (`PollInv`): while the form polls, the change was made
`PollFor` before the deadline, so that what says otherwise, be it the cache's entry, a
validation under way or an answer to a poll, is older than that, and an entry older than
the change lapses a TTL after it. `TTL < PollFor` then closes the gap.

**WebListProofs.** `ListInv` says that a request whose answer will be taken (`active`)
has the key and the count of reloads of the moment; that there is such a request
unless the last answer is the current one; that every answer is about the query of
its key; and that ticks, if any, were made under the current key. From it
`RowsAnswer`, `LoadingEnds` and `TicksStay`. `KeyKeepsQuery` is the lemma that makes the
keys of the five screens enough: a URL and its key ask for the same.

`TypesInv` adds where the list is (`PlaceInv`) and what the bulk actions are doing
(`RunsInv`). `ListIsTyped` needs that a page the service answers with is sound
(`PageOfIsSound`): its total is at most the number of rows, hence there are no more
pages than rows (`PagesAreCounted`) and no control of the pagination leads past them; and
it lists each row once. `TheReportIsTrue` needs the latter: the rows a run was started on
are different, so that counting one does not disturb those counted before
(`CountingIsSound`). That the versions of a row are bounded is not inductive by itself,
because a run makes its changes one by one: `RunsInv` counts the change a run has yet to
make to a row (`DueChanges`) as made already. `TheListReadsItsWrites` follows from
`ReadInv`: no version that was acknowledged is above the row's, and while no bulk action
runs here, every answer that may still be shown was read after the acknowledgements,
because the end of a run abandons the requests sent before and raises the count of
reloads above that of the last answer.

**SelectionsProofs.** `Selections` defines what filtering leaves of a sequence, and a set
put in an order, by counting instead of by recursion. `KeptFacts` and `KeptInOrder` say
that every element of what is kept comes from a place of its own, that all that qualifies
is kept and that it stays in order, which the library's `SelectSeq` says too but not to a
prover. `RankedFacts`: in a strict total order every member of a finite set has one place,
the places are counted without a gap, and who is before whom is as the order says.

**WebScreensProofs.** `ScreensInv` covers the nine screens of one record at once. Four
ideas carry it.

- *What was read of a version stays true of it.* A record changes only together with
  its version (`Grown`), so a copy on the screen equals the record as long as its
  version is the record's, and is no older than the last change the screen was told
  of (`CopySound`). The same goes for what a dialog was opened on and what a request
  was sent for (`Read`): while the version is the record's, its status is one the button
  is offered for. A refusal then means that the person may not edit (`May`) or that the
  version moved, unless a dialog was opened on another record (`RefusalsAreOutdated`); a
  request without a dialog is about the record it was seen on. This is where the console's
  copy of the transition table meets the service's; that it hides no move either is
  `NoMoveIsHidden`. A page that was open when a form was answered (`late`) is the one that
  may show less than was told (`ScreensShowTheirChanges`).
- *A button has a request.* The requests of the mounted component that belong to one
  button (`Group`) are none when it does not turn and one when it does (`ButtonsInv`). An
  answer is taken by the component that asked only, so that a request of an earlier
  mount neither holds nor frees a button of this one. `ButtonsTurnForOneRequest` says it
  with `Cardinality`.
- *A form has one creation.* A component has at most one request under way that creates
  a record (`OneCreation`), and leaves the form when it succeeds: the records made are no
  more than the answers lost, or one more while the answer that tells of it is on its
  way (`OnceInv`). `FormsCreateOnce` follows.
- *A basket stays sound.* Lines have positive quantities and distinct products through
  every addition, change and removal (`LinesSound`); that they are of one currency is
  tested when the order is sent and kept by the request (`OrderSound`).
  `OrdersSentAreWellFormed` follows.

`FormInv` (a product's form cannot be saved before it was filled) is needed for the
second: a reload would otherwise overwrite a form whose request is under way. The proof
has one lemma per action and a few about what all screens share: a request is sent
(`SubmitStep`), served (`PlainServedStep`), answered, or the component is replaced.

`UntouchedPriceSurvives` has an invariant of its own beside it, `PricesInv`: every record
has a price that is a natural number of minor units, every request of a form carries one or
none, what is on a form can be read, and the form of an existing product, until somebody
types in its price, shows what `moneyInputValue` makes of the price that was loaded. The
second part is needed because what a form sent, answered or not, comes back in the record
the next form is filled from. What is left is arithmetic (`MoneySurvives`): for a
price of any size, page and field show the same and the field reads back as that price. A
currency has at most four decimals (`CatalogAssumption`; ISO 4217 has no more), so each
number of decimals is a case, and `NumberSteps` unfolds the recursive function that reads the
digits that often; that the function exists, and has natural values, is by a least
counterexample (`NumberExists`). Prices are unbounded here: that a price beyond 2^53 minor
units is no longer exact as a JavaScript number is outside the model.

**WebOverviewProofs.** `OverviewInv` has a part for the report and one for a customer's page.

- `ReportsInv`: while the dashboard has the report the app opened with, every request on
  its way is for the badge and the dashboard or for neither, and once the request is
  answered both hold the same answer. That is why sharing the request matters: with a
  request for each, one answer may be older than the other. `BadgeAgrees` follows.
- `PartsInv`: a part of the page that was read since the last move says what the service
  would say now; a part is kept under a key that holds its customer. The rows shown are a
  part of the customer's orders at some time, and the total is how many there were when it
  was counted; when the value was read between the same moves, it was the value of those
  same orders (`AddedUp`). `LifetimeIsOfTheOrders` then compares the service's value with
  the rows: as many rows as orders are all of them (`TheSumOfThePage`), and fewer still
  have no currency and no counting order that all of them lack.

`TablesInv` says that every table that was served has its rows in strictly falling order of
day and then currency (`TableSound`), because the query orders by both and the projection
has one row of each (`RevenueIsSound`, from `RankedFacts`). The rest of `ChartIsOfTheTable`
is about pure functions. The currency drawn is chosen row by row; the recursive function
exists (`BestExists`), and what it has chosen after n rows is ahead of the currencies of
those rows (`TheChosenIsAhead`), both by a least counterexample. The days of one currency
fall strictly (`DaysDescend`), so the last ones of their reverse are the newest, ascending
(`LastDaysFacts`).

**WebShellProofs.** `ShellInv` relates each open tab to what is stored: what a tab shows
under its own name is stored; a tab whose effects have run is painted as its theme
says and listens exactly if that is "system" (which is what makes a later change of
the scheme harmless); no stored or shown set of hidden columns is all of them, which
`OneStays` carries over a change by counting. From it `TablesKeepAColumn`, `ThemeFollows`
and `ReloadsRestore`, which says of the rail only what is left of its cookie: the last
toggle, or nothing.

Only model-checked: the progress part of `LedgerSpec` and `EveryEventApplied`, which are
liveness and need fairness and ENABLED, out of this prover's reach. Every safety invariant
of a passing run is also a theorem.

## 6. Where code and documentation differ

Shown by a run:

1. `customer/queries.go:34` treats cancelled orders like refunded ones; the projection
   reverses refunds only, so net revenue and lifetime value drift apart
   (`lifetime_value`).
2. `staff/postgres.go:47` says the guard's read cannot be interleaved with another
   caller's write. The reads before the advisory lock can: a colleague is moved to a role
   that is losing `edit_staff`, and each guard relies on what the other takes away
   (`identity_overlap`).
3. `routes/Staff.tsx:151` says the banner protects a password that cannot be shown
   again. It names the account by a field that can still be edited, and "Add
   colleague" hides it unacknowledged (`password`).

Read in the code while modelling, without a run of their own:

4. `services/orders/openapi/orders.yaml:208` promises the events "oldest first". They are
   sorted by `at`, the start of the transaction, while the row lock decides their order.
5. `outbox/queries.go:3` says ids are in commit order. They are drawn before the commit.
   What the projection needs, the order within one order, is proved.
6. `api/http.ts:44` knows that a 401 may be about credentials: "that is not a dead session".
   It says so of the sign-in; a wrong current password is a 401 too (`staff/service.go:130-132`,
   `httperr.go:41-42`), and `changeMyPassword` (`api/identity.ts:36-38`) does not suppress the
   listener. Whoever mistypes it is shown as signed out, with a live session. In the model
   that is `ServeChange`, `ListenedStatus`, and the excuse `"password"`; without the excuse TLC
   finds the violation in seven states.
7. `api/orders.ts:22` mirrors the transition table "so a screen can offer only the moves
   that will be accepted". The screen of an order offers them to people without `edit_orders`
   as well, and that of a product to people without `edit_products` (`OrderDetail.tsx:110-131`,
   `ProductDetail.tsx:96-108`); the services refuse them. `RefusedOnlyWhenOutdated` is about
   those who may (`May`); without that TLC finds the refusal in four states.
8. `services/identity/openapi/identity.yaml:171` says a deactivation revokes the live
   sessions. A login under way can add one afterwards. Validation refuses it while the
   account is inactive, and accepts it after a reactivation.
9. `routes/CustomerDetail.tsx:120` says "No orders yet" when no order counts as value, also
   above a pending order in the table below it.
10. `components/RevenueChart.tsx` calls its window "Last 7 days"; it takes the last seven rows
    of one currency. "A day appears here once an order placed that day is paid" (line
    102), but the projection writes the day's row when the order is placed.
11. `routes/ProductDetail.tsx:202` says of an archived product "There is no way to bring it
    back". The Catalog service accepts its activation; only the button is missing.
12. A bulk action that ends after the page was changed also empties the ticks made there
    (`routes/Orders.tsx:115`). `TicksBelongToThePage` allows it: no tick survives, though some
    are lost.
13. `api/auth.tsx:29` polls "past" `SESSION_CACHE_TTL` for a constant 12 s, while the gateway
    takes any positive TTL (`config_test.go:91` sets 60 s): with one of more than 12 s the
    form reports a failure for a change that was made. `PollOutlastsCache` holds under the
    assumption `TTL < PollFor` only.
14. `routes/Staff.tsx:80` offers a bulk deactivation that may include the person's own
    account, which the detail page's edit form otherwise guards against.
15. A form that is answered after the person went from it to the record's own page navigates
    to the address shown: nothing is read again, and "Changes saved" stands over the old
    price (`ProductForm.tsx:46-47`, `useResource.ts:47`). `ShowsItsChanges` names the case
    (`late`).
16. A dialog stays open when the browser's buttons lead from one order to another, and acts on
    the order shown then (`OrderDetail.tsx:212`). `RefusedOnlyWhenOutdated` excepts a refusal
    of that kind.
17. A quantity of one and a half pieces passes the form (`OrderCreate.tsx:211`) and cannot be
    decoded by the service. A product that is there twice would be taken; only the form
    prevents it.
18. A customer's page shows the first 20 orders without a way to the others, under the number
    of all of them and the value of all of them (`CustomerDetail.tsx:46`,
    `customer/postgres.go:162`): the value is that of the orders shown only when they are all.
    The rows and their number are two queries, between which an order may be placed.
19. The rail's cookie lapses seven days after the last toggle and is not renewed
    (`sidebar.tsx:29,86`): a reload then opens a rail that was left closed.

## 7. Not modelled, and why

- **Gateway rate limiter.** Each client has a bucket of its own under one mutex. What
  others see of it, a 429 at any time, is an answer in `WebSession`.
- **Catalog's database and object store.** Products and images appear as what the
  service answers to the console. The order of row and object in `image/service.go`, and
  positions of concurrent uploads, are read in the code and listed as hazards; a model
  of them would have one property, which the comment in `Delete` and its code settle in
  opposite ways.
- **ChangePassword's hash** and other bcrypt comparisons: a model value would only
  restate the comparison.
- **The service side of an order's lines** (the snapshot of prices, the HTTP client): one
  request, one answer, one insert.
- **Previews.** The drawer of `Orders.tsx` and `Products.tsx` shows a row of the page or
  nothing; it is derived from the page and one id.
- **Principal header, routing, fault injection, configuration, schema checks, health
  endpoints, logging, tracing, metrics**: pure functions of bytes or start-up
  validation without later state.
- **Generated types, widgets and pages that only render** (`api/generated`, `ui/shadcn`
  but the sidebar, `Kit`, `Settings`, `Permissions`, `Problem`). `listAllRoles` asks for
  a hundred roles and shows no more (`api/identity.ts:75`); no state is involved.
- **Liveness of the console**: see the end of section 4.
- Liveness is out of the proof system's reach here, and so is induction with an operator
  for a parameter; section 5 says how sums and selections are proved about without it,
  and what stays with the runs.
