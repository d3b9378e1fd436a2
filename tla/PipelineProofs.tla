--------------------------- MODULE PipelineProofs ---------------------------
(***************************************************************************)
(* The orders' log, the transactions that write it, and the pipeline that  *)
(* turns it into revenue figures: for every number of orders, requests and *)
(* worker processes, batch size, bound and mix of API builds and envelope  *)
(* versions.                                                               *)
(*                                                                         *)
(* First the log by itself (OrderLog): it walks the transition table, the  *)
(* outbox follows it, its statuses ascend.  Then the transactions (Orders) *)
(* implement it: whoever writes an order's row holds its lock from reading *)
(* the status on (OrdersInv).                                              *)
(*                                                                         *)
(* Then the rows on their way (RevenuePipeline).  An order's earlier rows  *)
(* are in the stream before a later one (StreamOrdered), because a drain   *)
(* takes the lowest unpublished ids and gives up at the first failure      *)
(* (SendOrdered).  The consumer is sent a message when all before it are   *)
(* acknowledged, and a message is acknowledged once its event is settled   *)
(* (SettledInOrder).                                                       *)
(*                                                                         *)
(* Last the money.  Sums over finite sets come first, by induction over    *)
(* the subsets of a set.  What recognised_orders holds is what was paid    *)
(* and not refunded (RecognisedIsOpen); as an order's payment is applied   *)
(* before its refund and each at most once, a step changes each figure by  *)
(* exactly the row it applies; and the pipeline implements RevenueLedger.  *)
(***************************************************************************)
EXTENDS RevenuePipeline, Orders, FiniteSetTheorems, TLAPS

(* The table knows only statuses, so a transition's two ends are statuses.  *)
LEMMA TransitionsAreStatuses ==
    ASSUME NEW from, NEW to, CanTransition(from, to)
    PROVE  from \in Status /\ to \in Status
BY DEF CanTransition, transitions, Status

(* A log's last status is a status, or None if the log is empty. *)
LEMMA StatusAfterType ==
    ASSUME NEW log \in Seq(Event)
    PROVE  StatusAfter(log) \in Status \cup {None}
<1>1. CASE log = <<>>
  BY <1>1 DEF StatusAfter
<1>2. CASE log # <<>>
  <2>1. Len(log) \in 1..Len(log)
    BY <1>2
  <2>2. log[Len(log)] \in Event
    BY <2>1
  <2> QED BY <1>2, <2>2 DEF StatusAfter, Event
<1> QED BY <1>1, <1>2

(* The type of the committed state survives every commit. *)
LEMMA LogTypeStep ==
    ASSUME LogTypeOK, [LogNext]_logVars
    PROVE  LogTypeOK'
<1>1. CASE LogNext
  <2>1. PICK o \in Orders, to \in Targets \cup {"pending"}, at \in 0..MaxTime,
             v \in Versions, id \in 1..MaxRows : LogEvent(o, to, at, v, id)
    BY <1>1 DEF LogNext
  <2> DEFINE from == StatusAfter(events[o])
  <2>2. to \in Status
    BY OrderLogAssumption DEF Status
  <2>3. from \in Status \cup {None}
    BY StatusAfterType DEF LogTypeOK
  <2>4. Envelope(o, id, from, to, at, v) \in Row
    <3>1. Len(events[o]) + 1 \in Nat
      BY DEF LogTypeOK
    <3>2. TotalMinor[o] \in Nat /\ id \in Nat
      BY OrderLogAssumption
    <3> QED BY <2>2, <3>1, <3>2 DEF Envelope, Row
  <2>5. [from |-> from, to |-> to, at |-> at] \in Event
    BY <2>2, <2>3, OrderLogAssumption DEF Event
  <2>6. events' \in [Orders -> Seq(Event)]
    BY <2>1, <2>5 DEF LogEvent, Record, LogTypeOK
  <2> QED BY <2>1, <2>4, <2>6 DEF LogEvent, Record, LogTypeOK
<1>2. CASE UNCHANGED logVars
  BY <1>2 DEF logVars, LogTypeOK
<1> QED BY <1>1, <1>2

(* The committed log and outbox have their types. *)
THEOREM LogType == LogSpec => []LogTypeOK
<1>1. LogInit => LogTypeOK
  BY DEF LogInit, LogTypeOK
<1> QED BY <1>1, LogTypeStep, PTL DEF LogSpec
-----------------------------------------------------------------------------
(* What a commit does to the logs: one of them is longer by one event.      *)
LEMMA LogGrowth ==
    ASSUME LogTypeOK, NEW o \in Orders, NEW to, NEW at, NEW v, NEW id,
           LogEvent(o, to, at, v, id)
    PROVE  /\ \A q \in Orders \ {o} : events'[q] = events[q]
           /\ Len(events'[o]) = Len(events[o]) + 1
           /\ Len(events[o]) \in Nat
           /\ \A i \in 1..Len(events[o]) : events'[o][i] = events[o][i]
           /\ events'[o][Len(events[o]) + 1]
                = [from |-> StatusAfter(events[o]), to |-> to, at |-> at]
           /\ events'[o][Len(events[o]) + 1].to = to
BY DEF LogTypeOK, LogEvent, Record

(* The logs stay walks through the table. *)
LEMMA LifecycleStep ==
    ASSUME LogTypeOK, LogIsLifecycle, [LogNext]_logVars
    PROVE  LogIsLifecycle'
<1>1. CASE LogNext
  <2>1. PICK o \in Orders, to \in Targets \cup {"pending"}, at \in 0..MaxTime,
             v \in Versions, id \in 1..MaxRows : LogEvent(o, to, at, v, id)
    BY <1>1 DEF LogNext
  <2> DEFINE n == Len(events[o])
  <2>2. /\ \A q \in Orders \ {o} : events'[q] = events[q]
        /\ Len(events'[o]) = n + 1 /\ n \in Nat
        /\ \A i \in 1..n : events'[o][i] = events[o][i]
        /\ events'[o][n + 1] = [from |-> StatusAfter(events[o]), to |-> to, at |-> at]
    BY <2>1, LogGrowth
  <2>3. ASSUME NEW i \in 1..n PROVE WalkStep(events'[o], i)
    <3>1. i # 1 => i - 1 \in 1..n
      BY <2>2
    <3>2. WalkStep(events[o], i)
      BY DEF LogIsLifecycle
    <3> QED BY <2>2, <3>1, <3>2 DEF WalkStep
  <2>4. WalkStep(events'[o], n + 1)
    <3>1. CASE events[o] = <<>>
      <4>1. n = 0
        BY <3>1
      <4> QED BY <2>1, <2>2, <3>1, <4>1 DEF LogEvent, StatusAfter, WalkStep
    <3>2. CASE events[o] # <<>>
      <4>1. n \in 1..n /\ events[o] \in Seq(Event)
        BY <3>2 DEF LogTypeOK
      <4>2. StatusAfter(events[o]) = events[o][n].to
        BY <3>2 DEF StatusAfter
      <4>3. events[o][n] \in Event
        BY <4>1
      <4>4. StatusAfter(events[o]) # None
        BY <4>2, <4>3 DEF Event, None, Status
      <4>5. CanTransition(StatusAfter(events[o]), to)
        BY <2>1, <4>4 DEF LogEvent
      <4>6. events'[o][n] = events[o][n] /\ n + 1 # 1 /\ (n + 1) - 1 = n
        BY <2>2, <4>1
      <4> HIDE DEF n
      <4> QED BY <2>2, <4>2, <4>5, <4>6 DEF WalkStep
    <3> QED BY <3>1, <3>2
  <2>5. ASSUME NEW q \in Orders, NEW i \in 1..Len(events'[q]) PROVE WalkStep(events'[q], i)
    <3>1. CASE q = o
      <4>1. i \in 1..n \/ i = n + 1
        BY <2>2, <3>1
      <4> QED BY <2>3, <2>4, <3>1, <4>1
    <3>2. CASE q # o
      BY <2>2, <3>2 DEF LogIsLifecycle
    <3> QED BY <3>1, <3>2
  <2> QED BY <2>5 DEF LogIsLifecycle
<1>2. CASE UNCHANGED logVars
  BY <1>2 DEF logVars, LogIsLifecycle
<1> QED BY <1>1, <1>2

(* Every log is a walk through the transition table: whatever is read from  *)
(* a log's past is there because the table allowed it.                      *)
THEOREM Lifecycle == LogSpec => []LogIsLifecycle
<1>1. LogInit => LogTypeOK /\ LogIsLifecycle
  BY DEF LogInit, LogTypeOK, LogIsLifecycle
<1>2. LogTypeOK /\ LogIsLifecycle /\ [LogNext]_logVars => (LogTypeOK /\ LogIsLifecycle)'
  BY LogTypeStep, LifecycleStep
<1> QED BY <1>1, <1>2, PTL DEF LogSpec
-----------------------------------------------------------------------------
(* The outbox stays an image of the logs: the new row's id is above those   *)
(* of its order, and so is its place in the log.                            *)
LEMMA OutboxStep ==
    ASSUME LogTypeOK, OutboxFollowsLog, [LogNext]_logVars
    PROVE  OutboxFollowsLog'
<1>1. CASE LogNext
  <2>1. PICK o \in Orders, to \in Targets \cup {"pending"}, at \in 0..MaxTime,
             v \in Versions, id \in 1..MaxRows : LogEvent(o, to, at, v, id)
    BY <1>1 DEF LogNext
  <2> DEFINE n == Len(events[o])
             row == Envelope(o, id, StatusAfter(events[o]), to, at, v)
  <2>2. /\ \A q \in Orders \ {o} : events'[q] = events[q]
        /\ Len(events'[o]) = n + 1 /\ n \in Nat
        /\ \A i \in 1..n : events'[o][i] = events[o][i]
        /\ events'[o][n + 1].to = to
    BY <2>1, LogGrowth
  <2>3. /\ outbox' = outbox \cup {row}
        /\ row.id = id /\ row.order = o /\ row.to = to /\ row.nth = n + 1
    BY <2>1 DEF LogEvent, Record, Envelope
  <2>4. \A x \in outbox : x.order \in Orders /\ x.id \in Nat /\ x.nth \in Nat
    BY DEF LogTypeOK, Row
  <2>5. \A x \in outbox : x.order = o => x.id < id /\ x.nth < n + 1
    BY <2>1, <2>2 DEF LogEvent, FreshId, OutboxFollowsLog
  <2> HIDE DEF n, row
  <2>6. \A x \in outbox' : x.nth \in 1..Len(events'[x.order]) /\ events'[x.order][x.nth].to = x.to
    <3>1. ASSUME NEW x \in outbox
          PROVE  x.nth \in 1..Len(events'[x.order]) /\ events'[x.order][x.nth].to = x.to
      <4>1. x.nth \in 1..Len(events[x.order]) /\ events[x.order][x.nth].to = x.to
        BY DEF OutboxFollowsLog
      <4>2. CASE x.order = o
        BY <2>2, <4>1, <4>2 DEF n
      <4>3. CASE x.order # o
        BY <2>2, <2>4, <4>1, <4>3
      <4> QED BY <4>2, <4>3
    <3>2. row.nth \in 1..Len(events'[row.order]) /\ events'[row.order][row.nth].to = row.to
      BY <2>2, <2>3
    <3> QED BY <2>3, <3>1, <3>2
  <2>7. \A x, y \in outbox' : x.order = y.order => (x.id < y.id <=> x.nth < y.nth)
    <3>1. \A x, y \in outbox : x.order = y.order => (x.id < y.id <=> x.nth < y.nth)
      BY DEF OutboxFollowsLog
    <3>2. \A x \in outbox : x.order = row.order =>
            /\ x.id < row.id /\ ~(row.id < x.id)
            /\ x.nth < row.nth /\ ~(row.nth < x.nth)
      BY <2>2, <2>3, <2>4, <2>5
    <3>3. ~(row.id < row.id) /\ ~(row.nth < row.nth)
      BY <2>2, <2>3
    <3> QED BY <2>3, <3>1, <3>2, <3>3
  <2>8. \A q \in Orders : \A i \in 1..Len(events'[q]) :
          \E x \in outbox' : x.order = q /\ x.nth = i
    <3> SUFFICES ASSUME NEW q \in Orders, NEW i \in 1..Len(events'[q])
                 PROVE  \E x \in outbox' : x.order = q /\ x.nth = i
      OBVIOUS
    <3>1. CASE q = o /\ i = n + 1
      BY <2>3, <3>1
    <3>2. CASE i \in 1..Len(events[q])
      BY <2>3, <3>2 DEF OutboxFollowsLog
    <3>3. (q = o /\ i = n + 1) \/ i \in 1..Len(events[q])
      BY <2>2 DEF n
    <3> QED BY <3>1, <3>2, <3>3
  <2> QED BY <2>6, <2>7, <2>8 DEF OutboxFollowsLog
<1>2. CASE UNCHANGED logVars
  BY <1>2 DEF logVars, OutboxFollowsLog
<1> QED BY <1>1, <1>2

(* Each logged event has its outbox row, and draining the rows of an order  *)
(* by id follows its log: what the publisher's ORDER BY id relies on.       *)
THEOREM OutboxIsLog == LogSpec => []OutboxFollowsLog
<1>1. LogInit => LogTypeOK /\ OutboxFollowsLog
  BY DEF LogInit, LogTypeOK, OutboxFollowsLog
<1>2. LogTypeOK /\ OutboxFollowsLog /\ [LogNext]_logVars => (LogTypeOK /\ OutboxFollowsLog)'
  BY LogTypeStep, OutboxStep
<1> QED BY <1>1, <1>2, PTL DEF LogSpec
-----------------------------------------------------------------------------
(* The strengthening of RefundFollowsPayment that the table preserves: an   *)
(* order that got to paid or beyond it (cancelled apart) was paid.          *)
Funded == {"paid", "packed", "shipped", "delivered", "refunded"}

FundedWasPaid ==
    \A o \in Orders : \A i \in 1..Len(events[o]) :
      events[o][i].to \in Funded => \E j \in 1..i : events[o][j].to = "paid"

LEMMA FundedStep ==
    ASSUME LogTypeOK, FundedWasPaid, [LogNext]_logVars
    PROVE  FundedWasPaid'
<1>1. CASE LogNext
  <2>1. PICK o \in Orders, to \in Targets \cup {"pending"}, at \in 0..MaxTime,
             v \in Versions, id \in 1..MaxRows : LogEvent(o, to, at, v, id)
    BY <1>1 DEF LogNext
  <2> DEFINE n == Len(events[o])
  <2>2. /\ \A q \in Orders \ {o} : events'[q] = events[q]
        /\ Len(events'[o]) = n + 1 /\ n \in Nat
        /\ \A i \in 1..n : events'[o][i] = events[o][i]
        /\ events'[o][n + 1].to = to
    BY <2>1, LogGrowth
  <2> SUFFICES ASSUME NEW q \in Orders, NEW i \in 1..Len(events'[q]),
                      events'[q][i].to \in Funded
               PROVE  \E j \in 1..i : events'[q][j].to = "paid"
    BY DEF FundedWasPaid
  <2>3. CASE q # o
    BY <2>2, <2>3 DEF FundedWasPaid
  <2>4. CASE q = o /\ i \in 1..n
    <3>1. PICK j \in 1..i : events[o][j].to = "paid"
      BY <2>2, <2>4 DEF FundedWasPaid
    <3> QED BY <2>2, <2>4, <3>1
  <2>5. CASE q = o /\ i = n + 1 /\ to = "paid"
    BY <2>2, <2>5
  <2>6. CASE q = o /\ i = n + 1 /\ to # "paid"
    <3>1. to \in Funded
      BY <2>2, <2>6
    <3>2. CanTransition(StatusAfter(events[o]), to)
      BY <2>1, <3>1 DEF LogEvent, Funded
    <3>3. StatusAfter(events[o]) \in Funded
      BY <2>6, <3>1, <3>2 DEF CanTransition, transitions, Status, Funded
    <3>4. events[o] # <<>> /\ StatusAfter(events[o]) = events[o][n].to
      BY <3>3 DEF StatusAfter, Funded, None
    <3>5. n \in 1..n
      BY <3>4 DEF LogTypeOK
    <3>6. PICK j \in 1..n : events[o][j].to = "paid"
      BY <3>3, <3>4, <3>5 DEF FundedWasPaid
    <3> QED BY <2>2, <2>6, <3>6
  <2>7. q = o => i \in 1..n \/ i = n + 1
    BY <2>2
  <2> QED BY <2>3, <2>4, <2>5, <2>6, <2>7
<1>2. CASE UNCHANGED logVars
  BY <1>2 DEF logVars, FundedWasPaid
<1> QED BY <1>1, <1>2

(* No order is refunded that was not paid, although the refund endpoint     *)
(* looks at the current status only.                                        *)
THEOREM RefundsArePaidFor == LogSpec => []RefundFollowsPayment
<1>1. LogInit => LogTypeOK /\ FundedWasPaid
  BY DEF LogInit, LogTypeOK, FundedWasPaid
<1>2. LogTypeOK /\ FundedWasPaid /\ [LogNext]_logVars => (LogTypeOK /\ FundedWasPaid)'
  BY LogTypeStep, FundedStep
<1>3. LogTypeOK /\ FundedWasPaid => RefundFollowsPayment
  <2> SUFFICES ASSUME LogTypeOK, FundedWasPaid, NEW o \in Orders,
                      NEW i \in 1..Len(events[o]), events[o][i].to = "refunded"
               PROVE  \E j \in 1..(i-1) : events[o][j].to = "paid"
    BY DEF RefundFollowsPayment
  <2>1. PICK j \in 1..i : events[o][j].to = "paid"
    BY DEF FundedWasPaid, Funded
  <2> QED BY <2>1
<1> QED BY <1>1, <1>2, <1>3, PTL DEF LogSpec
-----------------------------------------------------------------------------
(* Along a log the statuses only go up, so that an order is created, paid   *)
(* and refunded at most once each.                                          *)
Rank == [pending |-> 0, paid |-> 1, packed |-> 2, shipped |-> 3, delivered |-> 4,
         cancelled |-> 5, refunded |-> 5]

LogAscends ==
    \A o \in Orders : \A i, j \in 1..Len(events[o]) :
      i < j => Rank[events[o][i].to] < Rank[events[o][j].to]

(* The table has no way back. *)
LEMMA TransitionAscends ==
    ASSUME NEW from, NEW to, CanTransition(from, to)
    PROVE  Rank[from] < Rank[to]
BY DEF CanTransition, transitions, Status, Rank

LEMMA AscendsStep ==
    ASSUME LogTypeOK, LogAscends, [LogNext]_logVars
    PROVE  LogAscends'
<1>1. CASE LogNext
  <2>1. PICK o \in Orders, to \in Targets \cup {"pending"}, at \in 0..MaxTime,
             v \in Versions, id \in 1..MaxRows : LogEvent(o, to, at, v, id)
    BY <1>1 DEF LogNext
  <2> DEFINE n == Len(events[o])
  <2>2. /\ \A q \in Orders \ {o} : events'[q] = events[q]
        /\ Len(events'[o]) = n + 1 /\ n \in Nat
        /\ \A i \in 1..n : events'[o][i] = events[o][i]
        /\ events'[o][n + 1].to = to
    BY <2>1, LogGrowth
  <2>3. ASSUME NEW i \in 1..n PROVE Rank[events[o][i].to] < Rank[to]
    <3>1. events[o] # <<>> /\ n \in 1..n
      BY <2>2, <2>3
    <3>2. events[o][n] \in Event /\ events[o][i] \in Event
      BY <3>1 DEF LogTypeOK
    <3>3. StatusAfter(events[o]) = events[o][n].to
      BY <3>1 DEF StatusAfter
    <3>4. events[o][n].to # None
      BY <3>2 DEF Event, Status, None
    <3>5. Rank[events[o][n].to] < Rank[to]
      BY <2>1, <3>3, <3>4, TransitionAscends DEF LogEvent
    <3>6. i = n \/ Rank[events[o][i].to] < Rank[events[o][n].to]
      BY <2>2, <3>1 DEF LogAscends
    <3>7. \A s \in Status : Rank[s] \in Nat
      BY DEF Rank, Status
    <3>8. to \in Status
      BY OrderLogAssumption DEF Status
    <3>9. Rank[events[o][n].to] \in Nat /\ Rank[events[o][i].to] \in Nat /\ Rank[to] \in Nat
      BY <3>2, <3>7, <3>8 DEF Event
    <3> QED BY <3>5, <3>6, <3>9
  <2> SUFFICES ASSUME NEW q \in Orders, NEW i \in 1..Len(events'[q]), NEW j \in 1..Len(events'[q]),
                      i < j
               PROVE  Rank[events'[q][i].to] < Rank[events'[q][j].to]
    BY DEF LogAscends
  <2>4. CASE q = o /\ j = n + 1
    <3>1. i \in 1..n
      BY <2>2, <2>4
    <3>2. events'[q][i] = events[o][i] /\ events'[q][j].to = to
      BY <2>2, <2>4, <3>1
    <3> QED BY <2>3, <3>1, <3>2
  <2>5. CASE q = o /\ j # n + 1
    <3>1. i \in 1..n /\ j \in 1..n
      BY <2>2, <2>5
    <3> QED BY <2>2, <2>5, <3>1 DEF LogAscends
  <2>6. CASE q # o
    BY <2>2, <2>6 DEF LogAscends
  <2> QED BY <2>4, <2>5, <2>6
<1>2. CASE UNCHANGED logVars
  BY <1>2 DEF logVars, LogAscends
<1> QED BY <1>1, <1>2

(* No order reaches the same status twice: what the projection counts by    *)
(* event it counts by order.                                                *)
THEOREM StatusesAscend == LogSpec => []LogAscends
<1>1. LogInit => LogTypeOK /\ LogAscends
  BY DEF LogInit, LogTypeOK, LogAscends
<1>2. LogTypeOK /\ LogAscends /\ [LogNext]_logVars => (LogTypeOK /\ LogAscends)'
  BY LogTypeStep, AscendsStep
<1> QED BY <1>1, <1>2, PTL DEF LogSpec

(* What a row says of its event besides the status. *)
RowsTellTheirEvents ==
    \A x \in outbox :
      /\ x.at = events[x.order][x.nth].at
      /\ x.total = TotalMinor[x.order]
      /\ x.type = "order.created" <=> x.to = "pending"

LEMMA RowsTellStep ==
    ASSUME LogTypeOK, OutboxFollowsLog, RowsTellTheirEvents, [LogNext]_logVars
    PROVE  RowsTellTheirEvents'
<1>1. CASE LogNext
  <2>1. PICK o \in Orders, to \in Targets \cup {"pending"}, at \in 0..MaxTime,
             v \in Versions, id \in 1..MaxRows : LogEvent(o, to, at, v, id)
    BY <1>1 DEF LogNext
  <2> DEFINE n == Len(events[o])
             from == StatusAfter(events[o])
             row == Envelope(o, id, from, to, at, v)
  <2>2. /\ \A q \in Orders \ {o} : events'[q] = events[q]
        /\ Len(events'[o]) = n + 1 /\ n \in Nat
        /\ \A i \in 1..n : events'[o][i] = events[o][i]
        /\ events'[o][n + 1] = [from |-> from, to |-> to, at |-> at]
    BY <2>1, LogGrowth
  <2>3. /\ outbox' = outbox \cup {row}
        /\ row.order = o /\ row.to = to /\ row.nth = n + 1 /\ row.at = at
        /\ row.total = TotalMinor[o]
        /\ row.type = IF from = None THEN "order.created" ELSE "order.status_changed"
    BY <2>1 DEF LogEvent, Record, Envelope
  <2>4. from = None <=> to = "pending"
    <3>1. CanTransition(from, to) => to # "pending"
      BY DEF CanTransition, transitions, Status
    <3> QED BY <2>1, <3>1 DEF LogEvent
  <2>5. \A x \in outbox : x.order \in Orders /\ x.nth \in 1..Len(events[x.order])
    BY DEF LogTypeOK, Row, OutboxFollowsLog
  <2> HIDE DEF n, from, row
  <2>6. ASSUME NEW x \in outbox PROVE x.at = events'[x.order][x.nth].at
    BY <2>2, <2>5 DEF RowsTellTheirEvents, n
  <2>7. row.at = events'[row.order][row.nth].at
    BY <2>2, <2>3
  <2>8. row.type = "order.created" <=> row.to = "pending"
    BY <2>3, <2>4
  <2> QED BY <2>3, <2>6, <2>7, <2>8 DEF RowsTellTheirEvents
<1>2. CASE UNCHANGED logVars
  BY <1>2 DEF logVars, RowsTellTheirEvents
<1> QED BY <1>1, <1>2
-----------------------------------------------------------------------------
(* The requests that hold an order: its row lock, or the order's own insert. *)
Holding == {"creating", "locked", "written"}

(* What a transaction in progress knows about its order, and keeps knowing  *)
(* because no other request can hold the same order.                        *)
Checked(r) ==
    LET t == txn[r] IN
    /\ t # NoTxn => t.to \in Targets \cup {"pending"}
    /\ t.phase \in Holding =>
         /\ t.from = status[t.order]
         /\ IF t.from = None THEN t.to = "pending" ELSE CanTransition(t.from, t.to)
    /\ t.phase = "locked" => t.from # None
    /\ t.phase = "creating" => t.from = None

Exclusive ==
    \A q, r \in Requests :
      /\ q # r
      /\ txn[q].phase \in Holding
      /\ txn[r].phase \in Holding
      => txn[q].order # txn[r].order

(* Ids come from the sequence: those in the outbox and those drawn by       *)
(* transactions are below its value, no two are equal, and an order's next  *)
(* row is above its committed ones.                                         *)
Drawn(r) ==
    txn[r].phase = "written" =>
      /\ txn[r].row \in 1..MaxRows
      /\ txn[r].row < nextRow
      /\ FreshId(txn[r].order, txn[r].row)

IdsFromSequence ==
    /\ \A x \in outbox : x.id < nextRow
    /\ \A r \in Requests : Drawn(r)
    /\ \A q, r \in Requests :
         q # r /\ txn[q].phase = "written" /\ txn[r].phase = "written"
           => txn[q].row # txn[r].row

OrdersInv ==
    /\ TypeOK
    /\ EventLogExplainsStatus
    /\ \A r \in Requests : Checked(r)
    /\ Exclusive
    /\ IdsFromSequence

LEMMA OrdersInitInv == OrdersInit => OrdersInv
  BY OrderLogAssumption DEF OrdersInit, LogInit, OrdersInv, TypeOK, LogTypeOK,
     EventLogExplainsStatus, StatusAfter, Checked, Exclusive, IdsFromSequence,
     Drawn, NoTxn, Holding

(* A transaction is open in one of the four phases, or it is not open.      *)
LEMMA TxnFacts ==
    ASSUME TypeOK, NEW r \in Requests
    PROVE  /\ txn[r].phase # "idle" => txn[r] \in OpenTxn
           /\ txn[r] # NoTxn => txn[r] \in OpenTxn
           /\ NoTxn.phase = "idle"
BY DEF TypeOK, NoTxn
-----------------------------------------------------------------------------
(* BEGIN, of a lifecycle request or of a creation. *)
LEMMA BeginStep ==
    ASSUME OrdersInv, NEW r \in Requests, NEW o \in Orders,
           NEW phase \in {"begun", "creating"}, NEW to \in Targets \cup {"pending"},
           Begin(r, phase, o, to),
           phase = "creating" =>
             /\ to = "pending"
             /\ status[o] = None
             /\ \A q \in Requests : txn[q].phase \in {"creating", "written"} => txn[q].order # o
    PROVE  OrdersInv'
<1>1. PICK v \in Versions :
        txn' = [txn EXCEPT ![r] = [NoTxn EXCEPT !.phase = phase, !.order = o,
                                                !.to = to, !.at = clock, !.version = v]]
  BY DEF Begin
<1>2. UNCHANGED <<events, outbox, status, nextRow, clock>>
  BY DEF Begin, logVars
<1>3. /\ txn'[r] = [phase |-> phase, order |-> o, from |-> None, to |-> to,
                   at |-> clock, version |-> v, row |-> 0]
      /\ \A q \in Requests \ {r} : txn'[q] = txn[q]
  BY <1>1 DEF NoTxn, OrdersInv, TypeOK
<1>4. to \in Status
  BY OrderLogAssumption DEF Status
<1>5. TypeOK'
  <2>1. txn'[r] \in OpenTxn
    BY <1>3, <1>4, OrderLogAssumption DEF OpenTxn, OrdersInv, TypeOK
  <2>2. txn' \in [Requests -> OpenTxn \cup {NoTxn}]
    BY <1>1, <2>1 DEF OrdersInv, TypeOK
  <2> QED BY <1>2, <2>2 DEF OrdersInv, TypeOK, LogTypeOK
<1>6. EventLogExplainsStatus'
  BY <1>2 DEF OrdersInv, EventLogExplainsStatus
<1>7. \A q \in Requests : Checked(q)'
  <2>1. Checked(r)'
    BY <1>2, <1>3 DEF Checked, Holding, NoTxn
  <2>2. ASSUME NEW q \in Requests \ {r} PROVE Checked(q)'
    BY <1>2, <1>3 DEF OrdersInv, Checked
  <2> QED BY <2>1, <2>2
<1>8. Exclusive'
  <2>1. ASSUME NEW q \in Requests \ {r}, phase = "creating", txn[q].phase \in Holding
        PROVE  txn[q].order # o
    <3>1. txn[q].phase = "locked" => status[txn[q].order] # None
      BY DEF OrdersInv, Checked, Holding
    <3> QED BY <2>1, <3>1 DEF Holding
  <2> QED BY <1>3, <2>1 DEF OrdersInv, Exclusive, Holding
<1>9. IdsFromSequence'
  <2>1. ASSUME NEW q \in Requests PROVE Drawn(q)'
    BY <1>2, <1>3 DEF OrdersInv, IdsFromSequence, Drawn, FreshId
  <2> QED BY <1>2, <1>3, <2>1 DEF OrdersInv, IdsFromSequence
<1> QED BY <1>5, <1>6, <1>7, <1>8, <1>9 DEF OrdersInv

(* GetStatusForUpdate: nobody else holds the order, creations included,     *)
(* because the status read exists.                                          *)
LEMMA LockStep ==
    ASSUME OrdersInv, NEW r \in Requests, GetStatusForUpdate(r)
    PROVE  OrdersInv'
<1> DEFINE t == txn[r]
<1>1. /\ UNCHANGED <<events, outbox, status, nextRow, clock>>
      /\ t.phase = "begun" /\ t \in OpenTxn /\ t.order \in Orders
      /\ RowFree(r, t.order)
      /\ CanTransition(status[t.order], t.to)
  BY TxnFacts DEF GetStatusForUpdate, logVars, OrdersInv, OpenTxn
<1>2. /\ txn'[r] = [t EXCEPT !.phase = "locked", !.from = status[t.order]]
      /\ \A q \in Requests \ {r} : txn'[q] = txn[q]
      /\ txn' \in [Requests -> OpenTxn \cup {NoTxn}]
  <2>1. txn' = [txn EXCEPT ![r] = [t EXCEPT !.phase = "locked", !.from = status[t.order]]]
    BY <1>1 DEF GetStatusForUpdate, OpenTxn
  <2>2. status[t.order] \in Status \cup {None}
    BY <1>1 DEF OrdersInv, TypeOK
  <2>3. [t EXCEPT !.phase = "locked", !.from = status[t.order]] \in OpenTxn
    BY <1>1, <2>2 DEF OpenTxn
  <2> QED BY <2>1, <2>3 DEF OrdersInv, TypeOK
<1>3. /\ txn'[r].phase = "locked" /\ txn'[r].order = t.order /\ txn'[r].to = t.to
      /\ txn'[r].from = status[t.order] /\ status[t.order] # None
  BY <1>1, <1>2, TransitionsAreStatuses DEF OpenTxn, None, Status
<1>4. TypeOK'
  BY <1>1, <1>2 DEF OrdersInv, TypeOK, LogTypeOK
<1>5. EventLogExplainsStatus'
  BY <1>1 DEF OrdersInv, EventLogExplainsStatus
<1>6. \A q \in Requests : Checked(q)'
  <2>1. Checked(r)'
    BY <1>1, <1>3 DEF OrdersInv, Checked, NoTxn
  <2>2. ASSUME NEW q \in Requests \ {r} PROVE Checked(q)'
    BY <1>1, <1>2 DEF OrdersInv, Checked
  <2> QED BY <2>1, <2>2
<1>7. Exclusive'
  <2>1. ASSUME NEW q \in Requests \ {r}, txn[q].phase \in Holding
        PROVE  txn[q].order # t.order
    <3>1. txn[q].phase = "creating" => status[txn[q].order] = None
      BY DEF OrdersInv, Checked, Holding
    <3> QED BY <1>1, <1>3, <2>1, <3>1 DEF RowFree, Holding
  <2>2. \A q \in Requests \ {r} : txn'[q].phase \in Holding => txn'[q].order # txn'[r].order
    BY <1>2, <1>3, <2>1
  <2>3. ASSUME NEW p \in Requests \ {r}, NEW q \in Requests \ {r}, p # q,
               txn'[p].phase \in Holding, txn'[q].phase \in Holding
        PROVE  txn'[p].order # txn'[q].order
    BY <1>2, <2>3 DEF OrdersInv, Exclusive
  <2> QED BY <2>2, <2>3 DEF Exclusive, Holding
<1>8. IdsFromSequence'
  <2>1. Drawn(r)' /\ txn'[r].phase # "written"
    BY <1>3 DEF Drawn
  <2>2. ASSUME NEW q \in Requests \ {r} PROVE Drawn(q)'
    BY <1>1, <1>2 DEF OrdersInv, IdsFromSequence, Drawn, FreshId
  <2>3. \A q \in Requests : txn'[q].phase = "written" => q # r /\ txn'[q] = txn[q]
    BY <1>2, <2>1
  <2> QED BY <1>1, <2>1, <2>2, <2>3 DEF OrdersInv, IdsFromSequence
<1> QED BY <1>4, <1>5, <1>6, <1>7, <1>8 DEF OrdersInv

(* The writes: the row's id is the sequence's, so above every other. *)
LEMMA WriteStep ==
    ASSUME OrdersInv, NEW r \in Requests, Write(r)
    PROVE  OrdersInv'
<1> DEFINE t == txn[r]
<1>1. /\ UNCHANGED <<events, outbox, status, clock>>
      /\ nextRow' = nextRow + 1 /\ nextRow \in 1..MaxRows
      /\ t.phase \in {"locked", "creating"} /\ t \in OpenTxn /\ t.order \in Orders
  BY TxnFacts, OrderLogAssumption DEF Write, logVars, OrdersInv, TypeOK, OpenTxn
<1>2. /\ txn'[r] = [t EXCEPT !.phase = "written", !.row = nextRow]
      /\ \A q \in Requests \ {r} : txn'[q] = txn[q]
      /\ txn' \in [Requests -> OpenTxn \cup {NoTxn}]
  <2>1. txn' = [txn EXCEPT ![r] = [t EXCEPT !.phase = "written", !.row = nextRow]]
    BY <1>1 DEF Write, OpenTxn
  <2>2. [t EXCEPT !.phase = "written", !.row = nextRow] \in OpenTxn
    <3>1. nextRow \in 0..MaxRows
      BY <1>1, OrderLogAssumption
    <3> QED BY <1>1, <3>1 DEF OpenTxn
  <2> QED BY <2>1, <2>2 DEF OrdersInv, TypeOK
<1>3. /\ txn'[r].phase = "written" /\ txn'[r].order = t.order /\ txn'[r].to = t.to
      /\ txn'[r].from = t.from /\ txn'[r].row = nextRow
  BY <1>1, <1>2 DEF OpenTxn
<1>4. TypeOK'
  BY <1>1, <1>2, OrderLogAssumption DEF OrdersInv, TypeOK, LogTypeOK
<1>5. EventLogExplainsStatus'
  BY <1>1 DEF OrdersInv, EventLogExplainsStatus
<1>6. \A q \in Requests : Checked(q)'
  <2>1. Checked(r)'
    BY <1>1, <1>3 DEF OrdersInv, Checked, Holding, NoTxn
  <2>2. ASSUME NEW q \in Requests \ {r} PROVE Checked(q)'
    BY <1>1, <1>2 DEF OrdersInv, Checked
  <2> QED BY <2>1, <2>2
<1>7. Exclusive'
  <2>1. t.phase \in Holding /\ txn'[r].phase \in Holding
    BY <1>1, <1>3 DEF Holding
  <2>2. \A q \in Requests : txn'[q].order = txn[q].order
                              /\ (txn'[q].phase \in Holding <=> txn[q].phase \in Holding)
    BY <1>2, <1>3, <2>1
  <2> QED BY <2>2 DEF OrdersInv, Exclusive
<1>8. IdsFromSequence'
  <2>1. \A x \in outbox : x.id \in Nat /\ x.id < nextRow
    BY DEF OrdersInv, IdsFromSequence, TypeOK, LogTypeOK, Row
  <2>3. \A x \in outbox' : x.id < nextRow'
    BY <1>1, <2>1
  <2>4. Drawn(r)'
    BY <1>1, <1>3, <2>1 DEF Drawn, FreshId
  <2>5. ASSUME NEW q \in Requests \ {r} PROVE Drawn(q)'
    BY <1>1, <1>2 DEF OrdersInv, IdsFromSequence, Drawn, FreshId
  <2>6. \A q \in Requests \ {r} : txn'[q].phase = "written" => txn'[q].row # txn'[r].row
    BY <1>1, <1>2, <1>3 DEF OrdersInv, IdsFromSequence, Drawn
  <2> QED BY <1>2, <2>3, <2>4, <2>5, <2>6 DEF OrdersInv, IdsFromSequence
<1> QED BY <1>4, <1>5, <1>6, <1>7, <1>8 DEF OrdersInv

(* A rollback takes nothing with it but its own transaction. *)
LEMMA RollbackStep ==
    ASSUME OrdersInv, NEW r \in Requests, Rollback(r)
    PROVE  OrdersInv'
<1>1. /\ UNCHANGED <<events, outbox, status, nextRow, clock>>
      /\ txn'[r] = NoTxn /\ NoTxn.phase = "idle"
      /\ \A q \in Requests \ {r} : txn'[q] = txn[q]
      /\ txn' \in [Requests -> OpenTxn \cup {NoTxn}]
  BY DEF Rollback, logVars, OrdersInv, TypeOK, NoTxn
<1>2. TypeOK' /\ EventLogExplainsStatus'
  BY <1>1 DEF OrdersInv, TypeOK, LogTypeOK, EventLogExplainsStatus
<1>3. \A q \in Requests : Checked(q)'
  <2>1. ASSUME NEW q \in Requests PROVE Checked(q)'
    BY <1>1 DEF OrdersInv, Checked, Holding
  <2> QED BY <2>1
<1>4. Exclusive'
  BY <1>1 DEF OrdersInv, Exclusive, Holding
<1>5. IdsFromSequence'
  <2>1. ASSUME NEW q \in Requests PROVE Drawn(q)'
    BY <1>1 DEF OrdersInv, IdsFromSequence, Drawn, FreshId
  <2> QED BY <1>1, <2>1 DEF OrdersInv, IdsFromSequence
<1> QED BY <1>2, <1>3, <1>4, <1>5 DEF OrdersInv
-----------------------------------------------------------------------------
(* A commit is one step of the abstract log: the transaction's target, time *)
(* and id are ones LogNext can choose.                                      *)
LEMMA CommitLogs ==
    ASSUME OrdersInv, NEW r \in Requests, Commit(r)
    PROVE  /\ LogNext
           /\ txn[r] \in OpenTxn
           /\ LogEvent(txn[r].order, txn[r].to, txn[r].at, txn[r].version, txn[r].row)
<1> DEFINE t == txn[r]
<1>1. t \in OpenTxn /\ t.phase = "written"
  BY TxnFacts DEF OrdersInv, Commit
<1>2. t.order \in Orders /\ t.at \in 0..MaxTime /\ t.version \in Versions
  BY <1>1 DEF OpenTxn
<1>3. t.to \in Targets \cup {"pending"} /\ t.from = status[t.order]
      /\ IF t.from = None THEN t.to = "pending" ELSE CanTransition(t.from, t.to)
  BY <1>1, TxnFacts DEF OrdersInv, Checked, Holding
<1>4. t.row \in 1..MaxRows /\ FreshId(t.order, t.row)
  BY <1>1 DEF OrdersInv, IdsFromSequence, Drawn
<1>5. StatusAfter(events[t.order]) = t.from
  BY <1>2, <1>3 DEF OrdersInv, EventLogExplainsStatus
<1>6. LogEvent(t.order, t.to, t.at, t.version, t.row)
  BY <1>3, <1>4, <1>5 DEF Commit, LogEvent
<1> QED BY <1>1, <1>2, <1>3, <1>4, <1>6 DEF LogNext

(* COMMIT: the log and the status column move together. *)
LEMMA CommitStep ==
    ASSUME OrdersInv, NEW r \in Requests, Commit(r)
    PROVE  OrdersInv'
<1> DEFINE t == txn[r]
<1>1. /\ t \in OpenTxn /\ t.phase = "written" /\ t.order \in Orders /\ t.to \in Status
      /\ LogNext /\ LogEvent(t.order, t.to, t.at, t.version, t.row)
      /\ UNCHANGED <<nextRow, clock>>
      /\ status' = [status EXCEPT ![t.order] = t.to]
  BY CommitLogs DEF Commit, OpenTxn
<1>2. /\ txn'[r] = NoTxn /\ NoTxn.phase = "idle"
      /\ \A q \in Requests \ {r} : txn'[q] = txn[q]
      /\ txn' \in [Requests -> OpenTxn \cup {NoTxn}]
  BY DEF Commit, OrdersInv, TypeOK, NoTxn
<1>3. TypeOK'
  <2>1. LogTypeOK'
    BY <1>1, LogTypeStep DEF OrdersInv, TypeOK
  <2> QED BY <1>1, <1>2, <2>1 DEF OrdersInv, TypeOK
<1>4. EventLogExplainsStatus'
  <2>1. StatusAfter(events'[t.order]) = t.to
    <3>1. Len(events'[t.order]) = Len(events[t.order]) + 1 /\ Len(events[t.order]) \in Nat
          /\ events'[t.order][Len(events[t.order]) + 1].to = t.to
      BY <1>1, LogGrowth DEF OrdersInv, TypeOK
    <3>2. events'[t.order] # <<>>
      BY <3>1
    <3> QED BY <3>1, <3>2 DEF StatusAfter
  <2>2. \A o \in Orders \ {t.order} : events'[o] = events[o]
    BY <1>1, LogGrowth DEF OrdersInv, TypeOK
  <2>3. status \in [Orders -> Status \cup {None}]
    BY DEF OrdersInv, TypeOK
  <2>4. ASSUME NEW o \in Orders PROVE status'[o] = StatusAfter(events'[o])
    <3>1. CASE o = t.order
      BY <1>1, <2>1, <2>3, <3>1
    <3>2. CASE o # t.order
      BY <1>1, <2>2, <2>3, <3>2 DEF OrdersInv, EventLogExplainsStatus
    <3> QED BY <3>1, <3>2
  <2> QED BY <2>4 DEF EventLogExplainsStatus
<1>5. \A q \in Requests : Checked(q)'
  <2>1. Checked(r)'
    BY <1>2 DEF Checked, Holding
  <2>2. ASSUME NEW q \in Requests \ {r} PROVE Checked(q)'
    <3>1. txn'[q] = txn[q] /\ Checked(q)
      BY <1>2 DEF OrdersInv
    <3>2. CASE txn[q].phase \in Holding
      <4>1. txn[q].order # t.order
        BY <1>1, <3>2 DEF OrdersInv, Exclusive, Holding
      <4>2. txn[q].order \in Orders
        BY <3>2, TxnFacts DEF OrdersInv, Holding, OpenTxn
      <4>3. status'[txn[q].order] = status[txn[q].order]
        BY <1>1, <4>1, <4>2 DEF OrdersInv, TypeOK
      <4> QED BY <3>1, <4>3 DEF Checked
    <3>3. CASE txn[q].phase \notin Holding
      BY <3>1, <3>3 DEF Checked
    <3> QED BY <3>2, <3>3
  <2> QED BY <2>1, <2>2
<1>6. Exclusive'
  BY <1>2 DEF OrdersInv, Exclusive, Holding
<1>7. IdsFromSequence'
  <2> DEFINE row == Envelope(t.order, t.row, StatusAfter(events[t.order]), t.to, t.at, t.version)
  <2>1. outbox' = outbox \cup {row} /\ row.id = t.row /\ row.order = t.order
    BY <1>1 DEF LogEvent, Record, Envelope
  <2>2. t.row \in 1..MaxRows /\ t.row < nextRow /\ nextRow' = nextRow
    BY <1>1 DEF OrdersInv, IdsFromSequence, Drawn
  <2> HIDE DEF row
  <2>3. \A x \in outbox' : x.id < nextRow'
    BY <2>1, <2>2 DEF OrdersInv, IdsFromSequence
  <2>4. Drawn(r)' /\ txn'[r].phase # "written"
    BY <1>2 DEF Drawn
  <2>5. ASSUME NEW q \in Requests \ {r}, txn[q].phase = "written"
        PROVE  /\ txn[q].row \in 1..MaxRows /\ txn[q].row < nextRow'
               /\ FreshId(txn[q].order, txn[q].row)'
    <3>1. /\ txn'[q] = txn[q] /\ txn[q].row # t.row /\ txn[q].order # t.order
          /\ FreshId(txn[q].order, txn[q].row)
          /\ txn[q].row \in 1..MaxRows /\ txn[q].row < nextRow
      BY <1>1, <1>2, <2>5 DEF OrdersInv, IdsFromSequence, Drawn, Exclusive, Holding
    <3> QED BY <2>1, <2>2, <3>1 DEF FreshId
  <2>6. ASSUME NEW q \in Requests PROVE Drawn(q)'
    BY <1>2, <2>4, <2>5 DEF Drawn
  <2>7. \A q \in Requests : txn'[q].phase = "written" => q # r /\ txn'[q] = txn[q]
    BY <1>2, <2>4
  <2> QED BY <2>3, <2>6, <2>7 DEF OrdersInv, IdsFromSequence
<1> QED BY <1>3, <1>4, <1>5, <1>6, <1>7 DEF OrdersInv

(* The clock touches nothing else. *)
LEMMA TickStep ==
    ASSUME OrdersInv, Tick
    PROVE  OrdersInv'
<1>1. UNCHANGED <<events, outbox, status, nextRow, txn>> /\ clock' \in 0..MaxTime
  BY OrderLogAssumption DEF Tick, logVars, OrdersInv, TypeOK
<1>2. TypeOK' /\ EventLogExplainsStatus' /\ Exclusive'
  BY <1>1 DEF OrdersInv, TypeOK, LogTypeOK, EventLogExplainsStatus, Exclusive
<1>3. ASSUME NEW q \in Requests PROVE Checked(q)' /\ Drawn(q)'
  BY <1>1 DEF OrdersInv, IdsFromSequence, Checked, Drawn, FreshId
<1>4. IdsFromSequence'
  BY <1>1, <1>3 DEF OrdersInv, IdsFromSequence
<1> QED BY <1>2, <1>3, <1>4 DEF OrdersInv
-----------------------------------------------------------------------------
LEMMA OrdersStep ==
    ASSUME OrdersInv, [OrdersNext]_orderVars
    PROVE  OrdersInv'
<1>1. ASSUME NEW r \in Requests, NEW o \in Orders, Create(r, o) PROVE OrdersInv'
  BY <1>1, BeginStep DEF Create
<1>2. ASSUME NEW r \in Requests, NEW o \in Orders, NEW to \in Targets,
             SetStatus(r, o, to) \/ Cancel(r, o, to) \/ Refund(r, o, to)
      PROVE  OrdersInv'
  BY <1>2, BeginStep DEF SetStatus, Cancel, Refund
<1>3. ASSUME NEW r \in Requests,
             GetStatusForUpdate(r) \/ Write(r) \/ Commit(r) \/ Rollback(r)
      PROVE  OrdersInv'
  BY <1>3, LockStep, WriteStep, CommitStep, RollbackStep
<1>4. CASE UNCHANGED orderVars
  <2>1. UNCHANGED <<events, outbox, status, nextRow, clock, txn>>
    BY <1>4 DEF orderVars, logVars
  <2>2. TypeOK' /\ EventLogExplainsStatus' /\ Exclusive'
    BY <2>1 DEF OrdersInv, TypeOK, LogTypeOK, EventLogExplainsStatus, Exclusive
  <2>3. ASSUME NEW q \in Requests PROVE Checked(q)' /\ Drawn(q)'
    BY <2>1 DEF OrdersInv, IdsFromSequence, Checked, Drawn, FreshId
  <2>4. IdsFromSequence'
    BY <2>1, <2>3 DEF OrdersInv, IdsFromSequence
  <2> QED BY <2>2, <2>3, <2>4 DEF OrdersInv
<1> QED BY <1>1, <1>2, <1>3, <1>4, TickStep DEF OrdersNext

(* The invariant the rest follows from. *)
THEOREM OrdersInvariance == OrdersSpec => []OrdersInv
BY OrdersInitInv, OrdersStep, PTL DEF OrdersSpec

(* The state has its type: in particular no transaction holds a status that *)
(* is not in the vocabulary.                                                *)
THEOREM OrdersType == OrdersSpec => []TypeOK
<1>1. OrdersInv => TypeOK
  BY DEF OrdersInv
<1> QED BY <1>1, OrdersInvariance, PTL

(* The status column and the event log never disagree, however requests     *)
(* interleave and wherever they are rolled back.                            *)
THEOREM StatusIsExplained == OrdersSpec => []EventLogExplainsStatus
<1>1. OrdersInv => EventLogExplainsStatus
  BY DEF OrdersInv
<1> QED BY <1>1, OrdersInvariance, PTL

(* The transactions implement the log: every step of theirs is one of its   *)
(* steps or none.                                                           *)
THEOREM OrdersImplementLog == OrdersSpec => LogSpec
<1>1. OrdersInit => LogInit
  BY DEF OrdersInit
<1>2. OrdersInv /\ [OrdersNext]_orderVars => [LogNext]_logVars
  <2> SUFFICES ASSUME OrdersInv, [OrdersNext]_orderVars PROVE [LogNext]_logVars
    OBVIOUS
  <2>1. CASE \E r \in Requests : Commit(r)
    BY <2>1, CommitLogs
  <2>2. CASE ~\E r \in Requests : Commit(r)
    BY <2>2 DEF OrdersNext, orderVars, Create, SetStatus, Cancel, Refund, Begin,
                GetStatusForUpdate, Write, Rollback, Tick
  <2> QED BY <2>1, <2>2
<1> QED BY <1>1, <1>2, OrdersInvariance, PTL DEF OrdersSpec, LogSpec

(* Cancelled and refunded are final: whichever of two racing requests       *)
(* commits second decided on the status the first one left.                 *)
THEOREM TerminalStays == OrdersSpec => TerminalIsFinal
<1> DEFINE Final == \A o \in Orders : status[o] \in Terminal => status'[o] = status[o]
<1>1. OrdersInv /\ [OrdersNext]_orderVars => [Final]_orderVars
  <2> SUFFICES ASSUME OrdersInv, OrdersNext PROVE Final
    OBVIOUS
  <2>1. ASSUME NEW r \in Requests, Commit(r) PROVE Final
    <3>1. txn[r].order \in Orders /\ txn[r].from = status[txn[r].order]
          /\ (txn[r].from # None => CanTransition(txn[r].from, txn[r].to))
      BY <2>1, CommitLogs DEF OrdersInv, Checked, Commit, Holding, OpenTxn
    <3>2. status[txn[r].order] \notin Terminal
      BY <3>1 DEF Terminal, CanTransition, None, Status
    <3> QED BY <2>1, <3>2 DEF Commit, OrdersInv, TypeOK
  <2>2. CASE ~\E r \in Requests : Commit(r)
    BY <2>2 DEF OrdersNext, Create, SetStatus, Cancel, Refund, Begin,
                GetStatusForUpdate, Write, Rollback, Tick
  <2> QED BY <2>1, <2>2
<1> QED BY <1>1, OrdersInvariance, PTL DEF OrdersSpec, TerminalIsFinal
-----------------------------------------------------------------------------
(* The pipeline.                                                            *)

UniqueIds == \A x, y \in outbox : x.id = y.id => x = y

(* Row m is that of an earlier event of row n's order. *)
Before(m, n) == \E x, y \in outbox : x.id = m /\ y.id = n /\ x.order = y.order /\ m < n

(* Row m's event has been applied or never can be. *)
Settled(m) == \A x \in outbox : x.id = m => m \in processed \/ ~Handles(x)

(* Every id in flight is that of a committed row, and what is taken to be   *)
(* published has been stored.                                               *)
Known ==
    /\ Stored \subseteq RowIds
    /\ wire \subseteq RowIds
    /\ processed \subseteq RowIds
    /\ \A w \in Workers : batch[w] \subseteq RowIds
    /\ published \subseteq Stored
    /\ \A w \in Workers : confirmed[w] # NoRow => confirmed[w] \in Stored

StreamOrdered ==
    \A p \in DOMAIN stream : \A m \in RowIds :
      Before(m, stream[p]) => \E q \in 1..(p-1) : stream[q] = m

(* What may be sent next, or may still arrive, has its predecessors stored. *)
SendOrdered ==
    /\ \A n \in wire, m \in RowIds : Before(m, n) => m \in Stored
    /\ \A w \in Workers : \A n \in batch[w], m \in RowIds :
         Before(m, n) => m \in batch[w] \cup Stored

(* Every message before this one has been acknowledged. *)
InTurn(p) == p \in DOMAIN stream /\ \A q \in 1..(p-1) : q \in acked

SettledInOrder ==
    /\ \A p \in acked : Settled(stream[p])
    /\ \A w \in Workers : \A i \in DOMAIN inbox[w] : InTurn(inbox[w][i])
    /\ \A w \in Workers : verdict[w] # "none" => inbox[w] # <<>>
    /\ \A w \in Workers : verdict[w] = "ack" => Settled(stream[Head(inbox[w])])

PipelineInv ==
    /\ PipelineTypeOK
    /\ OutboxFollowsLog
    /\ UniqueIds
    /\ Known
    /\ StreamOrdered
    /\ SendOrdered
    /\ SettledInOrder
    /\ AppliedInOrder
-----------------------------------------------------------------------------
LEMMA PipelineInitInv == Init => PipelineInv
<1> SUFFICES ASSUME Init PROVE PipelineInv
  OBVIOUS
<1>1. /\ outbox = {} /\ stream = <<>> /\ acked = {} /\ published = {} /\ wire = {}
      /\ processed = {} /\ recognised = {} /\ faults = 0
      /\ events = [o \in Orders |-> <<>>]
      /\ batch = [w \in Workers |-> {}] /\ confirmed = [w \in Workers |-> NoRow]
      /\ inbox = [w \in Workers |-> <<>>] /\ verdict = [w \in Workers |-> "none"]
      /\ revenue = [d \in Days |-> [placed |-> 0, paid |-> 0, recognised |-> 0, refunded |-> 0]]
  BY DEF Init, LogInit, BrokerInit, PublisherInit, ProjectionInit, ProjectorInit
<1>2. PipelineTypeOK
  BY <1>1, FaultsAssumption DEF PipelineTypeOK, LogTypeOK, BrokerTypeOK, PublisherTypeOK,
     ProjectorTypeOK, DayTotals, Verdicts, NoRow
<1>3. OutboxFollowsLog /\ UniqueIds /\ AppliedInOrder
  BY <1>1 DEF OutboxFollowsLog, UniqueIds, AppliedInOrder
<1>4. Known /\ StreamOrdered /\ SendOrdered /\ SettledInOrder
  BY <1>1 DEF Known, StreamOrdered, SendOrdered, SettledInOrder, Stored, RowIds
<1> QED BY <1>2, <1>3, <1>4 DEF PipelineInv

(* What a commit means to the rest: a new row, above those of its order. *)
LEMMA NewRow ==
    ASSUME LogTypeOK, OrderStep
    PROVE  \E row : /\ outbox' = outbox \cup {row}
                    /\ \A x \in outbox : x.id # row.id
                    /\ \A x \in outbox : x.order = row.order => x.id < row.id
                    /\ row.nth = Len(events[row.order]) + 1
                    /\ row.order \in Orders
<1>1. PICK o \in Orders, to \in Targets \cup {"pending"}, at \in 0..MaxTime,
           v \in Versions, id \in 1..MaxRows : LogEvent(o, to, at, v, id)
  BY DEF OrderStep, LogNext
<1> DEFINE row == Envelope(o, id, StatusAfter(events[o]), to, at, v)
<1>2. outbox' = outbox \cup {row} /\ row.id = id /\ row.order = o /\ row.nth = Len(events[o]) + 1
  BY <1>1 DEF LogEvent, Record, Envelope
<1>3. \A x \in outbox : x.id # id /\ (x.order = o => x.id < id)
  BY <1>1 DEF LogEvent, FreshId
<1> QED BY <1>2, <1>3

(* A commit disturbs nothing that is under way: it gives no row a new       *)
(* predecessor, and its own event is the last of its order.                 *)
LEMMA OrderStepInv ==
    ASSUME PipelineInv, OrderStep
    PROVE  PipelineInv'
<1>1. LogTypeOK /\ OutboxFollowsLog
  BY DEF PipelineInv, PipelineTypeOK
<1>2. LogTypeOK' /\ OutboxFollowsLog'
  BY <1>1, LogTypeStep, OutboxStep DEF OrderStep
<1>3. UNCHANGED <<stream, acked, faults, published, batch, confirmed, wire,
                  processed, revenue, recognised, inbox, verdict>>
  BY DEF OrderStep, brokerVars, publisherVars, projectionVars, projectorVars
<1>4. PipelineTypeOK'
  BY <1>2, <1>3 DEF PipelineInv, PipelineTypeOK, BrokerTypeOK, PublisherTypeOK, ProjectorTypeOK
<1>5. PICK row : /\ outbox' = outbox \cup {row}
                 /\ \A x \in outbox : x.id # row.id
                 /\ \A x \in outbox : x.order = row.order => x.id < row.id
                 /\ row.nth = Len(events[row.order]) + 1
                 /\ row.order \in Orders
  BY <1>1, NewRow
<1>6. RowIds' = RowIds \cup {row.id} /\ Stored' = Stored
  BY <1>3, <1>5 DEF RowIds, Stored
<1>7. UniqueIds'
  BY <1>5 DEF PipelineInv, UniqueIds
<1>8. ASSUME NEW n \in RowIds, NEW m, Before(m, n)' PROVE m \in RowIds /\ Before(m, n)
  <2>1. PICK x \in outbox', y \in outbox' : x.id = m /\ y.id = n /\ x.order = y.order /\ m < n
    BY <1>8 DEF Before
  <2>2. y \in outbox
    BY <1>5, <2>1 DEF RowIds
  <2>3. y.id \in Nat /\ row.id \in Nat
    BY <1>1, <1>2, <1>5, <2>2 DEF LogTypeOK, Row
  <2>4. x # row
    BY <1>5, <2>1, <2>2, <2>3
  <2> QED BY <1>5, <2>1, <2>2, <2>4 DEF Before, RowIds
<1>9. Known'
  BY <1>3, <1>6 DEF PipelineInv, Known
<1>10. StreamOrdered'
  <2> SUFFICES ASSUME NEW p \in DOMAIN stream, NEW m \in RowIds', Before(m, stream[p])'
               PROVE  \E q \in 1..(p-1) : stream[q] = m
    BY <1>3 DEF StreamOrdered
  <2>1. stream[p] \in RowIds
    BY DEF PipelineInv, Known, Stored
  <2>2. m \in RowIds /\ Before(m, stream[p])
    BY <1>3, <1>8, <2>1
  <2> QED BY <2>2 DEF PipelineInv, StreamOrdered
<1>11. SendOrdered'
  <2>1. ASSUME NEW n \in wire, NEW m \in RowIds', Before(m, n)' PROVE m \in Stored
    BY <1>8, <2>1 DEF PipelineInv, Known, SendOrdered
  <2>2. ASSUME NEW w \in Workers, NEW n \in batch[w], NEW m \in RowIds', Before(m, n)'
        PROVE  m \in batch[w] \cup Stored
    BY <1>8, <2>2 DEF PipelineInv, Known, SendOrdered
  <2> QED BY <1>3, <1>6, <2>1, <2>2 DEF SendOrdered
<1>12. SettledInOrder'
  <2>1. ASSUME NEW m \in RowIds, Settled(m) PROVE Settled(m)'
    BY <1>3, <1>5, <2>1 DEF Settled, Handles, RowIds
  <2>2. ASSUME NEW p \in DOMAIN stream, Settled(stream[p]) PROVE Settled(stream[p])'
    BY <1>3, <2>1, <2>2 DEF PipelineInv, Known, Stored
  <2>3. \A p \in acked' : Settled(stream[p])'
    BY <1>3, <2>2 DEF PipelineInv, SettledInOrder, PipelineTypeOK, BrokerTypeOK
  <2>4. ASSUME NEW w \in Workers, verdict[w] = "ack" PROVE Settled(stream[Head(inbox[w])])'
    <3>1. Head(inbox[w]) \in DOMAIN stream
      BY <2>4 DEF PipelineInv, SettledInOrder, InTurn, PipelineTypeOK, ProjectorTypeOK
    <3> QED BY <1>3, <2>2, <2>4, <3>1 DEF PipelineInv, SettledInOrder
  <2> QED BY <1>3, <2>3, <2>4 DEF PipelineInv, SettledInOrder, InTurn
<1>13. AppliedInOrder'
  <2> SUFFICES ASSUME NEW x \in outbox', NEW y \in outbox', x.order = y.order,
                      x.nth < y.nth, y.id \in processed, Handles(x)
               PROVE  x.id \in processed
    BY <1>3 DEF AppliedInOrder, Handles
  <2>1. y \in outbox
    BY <1>5 DEF PipelineInv, Known, RowIds
  <2>2. y.nth \in 1..Len(events[y.order]) /\ Len(events[y.order]) \in Nat
    BY <1>1, <2>1 DEF OutboxFollowsLog, LogTypeOK, Row
  <2>3. x # row
    BY <1>5, <2>2
  <2> QED BY <1>5, <2>1, <2>3 DEF PipelineInv, AppliedInOrder
<1> QED BY <1>2, <1>4, <1>7, <1>9, <1>10, <1>11, <1>12, <1>13 DEF PipelineInv
-----------------------------------------------------------------------------
Grows ==
    /\ stream' \in Seq(Nat)
    /\ DOMAIN stream \subseteq DOMAIN stream'
    /\ \A p \in DOMAIN stream : stream'[p] = stream[p]

(* A message whose predecessors are stored may be stored: after them, once  *)
(* more or for the first time.                                              *)
LEMMA StoreKeepsOrder ==
    ASSUME PipelineInv, NEW m \in RowIds, Store(m), UNCHANGED outbox,
           \A k \in RowIds : Before(k, m) => k \in Stored
    PROVE  Grows /\ StreamOrdered' /\ Stored' = Stored \cup {m}
<1>1. stream \in Seq(Nat) /\ m \in Nat /\ RowIds' = RowIds
  BY DEF PipelineInv, PipelineTypeOK, BrokerTypeOK, LogTypeOK, Row, RowIds
<1>2. \A k, n : Before(k, n)' <=> Before(k, n)
  BY DEF Before
<1>3. CASE UNCHANGED stream /\ m \in Stored
  BY <1>1, <1>2, <1>3 DEF Grows, Stored, PipelineInv, StreamOrdered
<1>4. CASE stream' = Append(stream, m)
  <2> DEFINE n == Len(stream)
  <2>1. /\ n \in Nat /\ DOMAIN stream = 1..n /\ DOMAIN stream' = 1..(n + 1)
        /\ stream' \in Seq(Nat) /\ stream'[n + 1] = m
        /\ \A p \in 1..n : stream'[p] = stream[p]
    BY <1>1, <1>4
  <2>2. Grows
    BY <2>1 DEF Grows
  <2>3. Stored' = Stored \cup {m}
    BY <2>1 DEF Stored
  <2>4. ASSUME NEW p \in 1..(n + 1), NEW k \in RowIds, Before(k, stream'[p])
        PROVE  \E q \in 1..(p-1) : stream'[q] = k
    <3>1. CASE p \in 1..n
      <4>1. PICK q \in 1..(p-1) : stream[q] = k
        BY <2>1, <2>4, <3>1 DEF PipelineInv, StreamOrdered
      <4> QED BY <2>1, <3>1, <4>1
    <3>2. CASE p = n + 1
      <4>1. PICK q \in 1..n : stream[q] = k
        BY <2>1, <2>4, <3>2 DEF Stored
      <4> QED BY <2>1, <3>2, <4>1
    <3> QED BY <2>1, <3>1, <3>2
  <2> QED BY <1>1, <1>2, <2>1, <2>2, <2>3, <2>4 DEF StreamOrdered
<1> QED BY <1>3, <1>4 DEF Store

(* A worker's deliveries are kept as they are, or all dropped by a restart. *)
KeptOrDropped ==
    /\ inbox' \in [Workers -> Seq(Nat)]
    /\ verdict' \in [Workers -> Verdicts]
    /\ \A w \in Workers : \/ inbox'[w] = inbox[w] /\ verdict'[w] = verdict[w]
                          \/ inbox'[w] = <<>> /\ verdict'[w] = "none"

LEMMA UnchangedIsKept ==
    ASSUME PipelineInv, UNCHANGED projectorVars
    PROVE  KeptOrDropped
BY DEF KeptOrDropped, projectorVars, PipelineInv, PipelineTypeOK, ProjectorTypeOK

(* What the publisher does leaves the log and the projector's side alone:   *)
(* a position of the stream keeps its message for ever.                     *)
LEMMA PublisherFrame ==
    ASSUME PipelineInv, Grows, KeptOrDropped, UNCHANGED <<logVars, projectionVars, acked>>
    PROVE  /\ LogTypeOK' /\ OutboxFollowsLog' /\ UniqueIds' /\ AppliedInOrder'
           /\ SettledInOrder' /\ ProjectorTypeOK'
           /\ processed' \subseteq Nat /\ revenue' \in [Days -> DayTotals]
           /\ recognised' \subseteq [order : Orders, day : Days, amount : Nat]
           /\ acked' \subseteq DOMAIN stream'
           /\ RowIds' = RowIds /\ processed' \subseteq RowIds
           /\ \A m, n : Before(m, n)' <=> Before(m, n)
<1>1. UNCHANGED <<events, outbox, processed, revenue, recognised, acked>>
  BY DEF logVars, projectionVars
<1>2. LogTypeOK' /\ OutboxFollowsLog' /\ UniqueIds' /\ AppliedInOrder'
  BY <1>1 DEF PipelineInv, PipelineTypeOK, LogTypeOK, OutboxFollowsLog, UniqueIds,
              AppliedInOrder, Handles
<1>3. RowIds' = RowIds /\ processed' \subseteq RowIds /\ \A m, n : Before(m, n)' <=> Before(m, n)
  BY <1>1 DEF PipelineInv, Known, RowIds, Before
<1>4. acked \subseteq DOMAIN stream
  BY DEF PipelineInv, PipelineTypeOK, BrokerTypeOK
<1>5. SettledInOrder'
  <2>1. ASSUME NEW p \in DOMAIN stream, Settled(stream[p])
        PROVE  \A x \in outbox : x.id = stream'[p] => x.id \in processed \/ ~Handles(x)
    BY <2>1 DEF Grows, Settled
  <2>2. \A p \in acked' : Settled(stream[p])'
    BY <1>1, <1>4, <2>1 DEF PipelineInv, SettledInOrder, Settled, Handles
  <2>3. ASSUME NEW w \in Workers, verdict'[w] = "ack"
        PROVE  Settled(stream[Head(inbox[w])])'
    <3>1. inbox'[w] = inbox[w] /\ verdict[w] = "ack"
      BY <2>3 DEF KeptOrDropped
    <3>2. Head(inbox[w]) \in DOMAIN stream /\ Settled(stream[Head(inbox[w])])
      BY <3>1 DEF PipelineInv, SettledInOrder, InTurn, PipelineTypeOK, ProjectorTypeOK
    <3> QED BY <1>1, <2>1, <3>1, <3>2 DEF Settled, Handles
  <2>4. ASSUME NEW w \in Workers, NEW i \in DOMAIN inbox'[w] PROVE InTurn(inbox[w][i])'
    <3>1. inbox'[w] = inbox[w]
      BY <2>4 DEF KeptOrDropped
    <3>2. InTurn(inbox[w][i])
      BY <2>4, <3>1 DEF PipelineInv, SettledInOrder
    <3> QED BY <1>1, <3>1, <3>2 DEF Grows, InTurn
  <2>5. ASSUME NEW w \in Workers, verdict'[w] # "none" PROVE inbox'[w] # <<>>
    BY <2>5 DEF KeptOrDropped, PipelineInv, SettledInOrder
  <2> QED BY <2>2, <2>3, <2>4, <2>5 DEF SettledInOrder
<1> QED BY <1>1, <1>2, <1>3, <1>4, <1>5
        DEF Grows, KeptOrDropped, PipelineInv, PipelineTypeOK, ProjectorTypeOK

(* The lowest row of a batch has its predecessors stored: they are not in   *)
(* the batch.                                                               *)
LEMMA LowestIsSendable ==
    ASSUME PipelineInv, NEW w \in Workers, NEW m, IsLowest(m, batch[w])
    PROVE  m \in batch[w] /\ m \in RowIds /\ \A k \in RowIds : Before(k, m) => k \in Stored
<1>1. m \in batch[w] /\ m \in RowIds /\ batch[w] \subseteq Nat
  BY DEF IsLowest, PipelineInv, Known, PipelineTypeOK, PublisherTypeOK
<1>2. ASSUME NEW k \in RowIds, Before(k, m) PROVE k \in Stored
  <2>1. k < m
    BY <1>2 DEF Before
  <2>2. k \notin batch[w]
    BY <1>1, <2>1 DEF IsLowest
  <2> QED BY <1>1, <1>2, <2>2 DEF PipelineInv, SendOrdered
<1> QED BY <1>1, <1>2

PublisherFrameVars == <<logVars, projectionVars, projectorVars>>

(* The drain's batch is closed under unpublished predecessors, because it   *)
(* takes the lowest ids.                                                    *)
LEMMA DrainStep ==
    ASSUME PipelineInv, NEW w \in Workers, Drain(w, RowIds), UNCHANGED PublisherFrameVars
    PROVE  PipelineInv'
<1>1. PICK B \in SUBSET (RowIds \ published) :
        /\ \A m \in B, n \in (RowIds \ published) \ B : m < n
        /\ batch' = [batch EXCEPT ![w] = B]
  BY DEF Drain, Unpublished
<1>2. UNCHANGED <<stream, acked, faults, published, confirmed, wire>>
      /\ UNCHANGED <<logVars, projectionVars, projectorVars>>
  BY DEF Drain, brokerVars, PublisherFrameVars
<1>3. Grows /\ Stored' = Stored /\ KeptOrDropped
  BY <1>2, UnchangedIsKept DEF Grows, Stored, PipelineInv, PipelineTypeOK, BrokerTypeOK
<1>4. RowIds \subseteq Nat /\ batch \in [Workers -> SUBSET Nat]
  BY DEF PipelineInv, PipelineTypeOK, LogTypeOK, Row, RowIds, PublisherTypeOK
<1>5. PipelineTypeOK'
  BY <1>1, <1>2, <1>3, <1>4, PublisherFrame
     DEF PipelineInv, PipelineTypeOK, BrokerTypeOK, PublisherTypeOK
<1>6. Known'
  BY <1>1, <1>2, <1>3, <1>4, PublisherFrame DEF PipelineInv, Known
<1>7. StreamOrdered'
  BY <1>2, <1>3, PublisherFrame DEF PipelineInv, StreamOrdered
<1>8. SendOrdered'
  <2>1. ASSUME NEW n \in B, NEW m \in RowIds, Before(m, n) PROVE m \in B \cup Stored
    <3>1. m < n /\ m \in Nat /\ n \in Nat
      BY <1>4, <2>1 DEF Before
    <3>2. m \in published => m \in Stored
      BY DEF PipelineInv, Known
    <3> QED BY <1>1, <3>1, <3>2
  <2>2. ASSUME NEW v \in Workers, NEW n \in batch'[v], NEW m \in RowIds, Before(m, n)
        PROVE  m \in batch'[v] \cup Stored
    BY <1>1, <1>4, <2>1, <2>2 DEF PipelineInv, SendOrdered
  <2> QED BY <1>2, <1>3, <2>2, PublisherFrame DEF PipelineInv, SendOrdered
<1> QED BY <1>2, <1>3, <1>5, <1>6, <1>7, <1>8, PublisherFrame DEF PipelineInv

(* What a step of a publisher preserves when the stream only grows, batches *)
(* lose none but stored rows (or everything), and what is put on the wire   *)
(* or taken for published is sendable or stored.                            *)
LEMMA PublisherStepInv ==
    ASSUME PipelineInv, UNCHANGED <<logVars, projectionVars, acked>>,
           KeptOrDropped, Grows, StreamOrdered', Stored \subseteq Stored', Stored' \subseteq RowIds,
           faults' \in 0..MaxFaults,
           published' \subseteq Stored',
           batch' \in [Workers -> SUBSET Nat],
           \A w \in Workers : batch'[w] \subseteq batch[w],
           \A w \in Workers : batch'[w] = {} \/ batch[w] \subseteq batch'[w] \cup Stored',
           confirmed' \in [Workers -> Nat],
           \A w \in Workers : confirmed'[w] # NoRow => confirmed'[w] \in Stored',
           wire' \subseteq RowIds,
           \A n \in wire' : \A m \in RowIds : Before(m, n) => m \in Stored'
    PROVE  PipelineInv'
<1>1. PublisherTypeOK' /\ BrokerTypeOK'
  <2>1. RowIds \subseteq Nat
    BY DEF PipelineInv, PipelineTypeOK, LogTypeOK, Row, RowIds
  <2> QED BY <2>1, PublisherFrame DEF PublisherTypeOK, BrokerTypeOK, Grows
<1>2. PipelineTypeOK'
  BY <1>1, PublisherFrame DEF PipelineTypeOK
<1>3. Known'
  <2>1. ASSUME NEW w \in Workers PROVE batch'[w] \subseteq RowIds
    <3>1. batch[w] \subseteq RowIds /\ batch'[w] \subseteq batch[w]
      BY DEF PipelineInv, Known
    <3> QED BY <3>1
  <2>2. processed' \subseteq RowIds /\ RowIds' = RowIds
    BY PublisherFrame
  <2> QED BY <2>1, <2>2 DEF Known
<1>4. SendOrdered'
  <2>1. ASSUME NEW w \in Workers, NEW n \in batch'[w], NEW m \in RowIds, Before(m, n)
        PROVE  m \in batch'[w] \cup Stored'
    <3>1. n \in batch[w] /\ batch[w] \subseteq batch'[w] \cup Stored'
      BY <2>1
    <3>2. m \in batch[w] \cup Stored
      BY <2>1, <3>1 DEF PipelineInv, SendOrdered
    <3> QED BY <3>1, <3>2
  <2> QED BY <2>1, PublisherFrame DEF SendOrdered
<1> QED BY <1>2, <1>3, <1>4, PublisherFrame DEF PipelineInv

(* The facts about the publisher's state that its steps need. *)
LEMMA PublisherFacts ==
    ASSUME PipelineInv
    PROVE  /\ Stored \subseteq RowIds /\ wire \subseteq RowIds /\ RowIds \subseteq Nat
           /\ published \subseteq Stored /\ faults \in 0..MaxFaults
           /\ stream \in Seq(Nat) /\ StreamOrdered
           /\ batch \in [Workers -> SUBSET Nat] /\ confirmed \in [Workers -> Nat]
           /\ \A v \in Workers : confirmed[v] # NoRow => confirmed[v] \in Stored
           /\ \A n \in wire, k \in RowIds : Before(k, n) => k \in Stored
BY DEF PipelineInv, PipelineTypeOK, PublisherTypeOK, BrokerTypeOK, LogTypeOK, Row, RowIds,
       Known, SendOrdered

LEMMA FaultCounts == ASSUME PipelineInv, Fault PROVE faults' \in 0..MaxFaults
BY FaultsAssumption DEF Fault, PipelineInv, PipelineTypeOK, BrokerTypeOK

(* An unchanged stream keeps its order. *)
LEMMA SameStream ==
    ASSUME PipelineInv, UNCHANGED <<stream, outbox>>
    PROVE  Grows /\ StreamOrdered' /\ Stored' = Stored
BY PublisherFacts DEF Grows, Stored, StreamOrdered, RowIds, Before

LEMMA PublishStepInv ==
    ASSUME PipelineInv, NEW w \in Workers, Publish(w), UNCHANGED PublisherFrameVars
    PROVE  PipelineInv'
<1>1. PICK m \in batch[w] :
        /\ IsLowest(m, batch[w])
        /\ Store(m)
        /\ confirmed' = [confirmed EXCEPT ![w] = m]
  BY DEF Publish
<1>2. UNCHANGED <<published, batch, wire, faults>> /\ UNCHANGED <<logVars, projectionVars, acked>>
      /\ UNCHANGED outbox /\ UNCHANGED projectorVars
  BY DEF Publish, PublisherFrameVars, logVars
<1>3. m \in RowIds /\ \A k \in RowIds : Before(k, m) => k \in Stored
  BY <1>1, LowestIsSendable
<1>4. Grows /\ StreamOrdered' /\ Stored' = Stored \cup {m}
  BY <1>1, <1>2, <1>3, StoreKeepsOrder
<1>5. confirmed' \in [Workers -> Nat]
      /\ \A v \in Workers : confirmed'[v] # NoRow => confirmed'[v] \in Stored'
  BY <1>1, <1>3, <1>4, PublisherFacts
<1> QED BY <1>2, <1>3, <1>4, <1>5, PublisherFacts, PublisherStepInv, UnchangedIsKept

(* The three ways a publish can fail; whichever it was, what remains to be  *)
(* sent or to arrive is sendable.                                           *)
LEMMA PublishFailsInv ==
    ASSUME PipelineInv, NEW w \in Workers, PublishFails(w), UNCHANGED PublisherFrameVars
    PROVE  PipelineInv'
<1>1. PICK m \in batch[w] :
        /\ IsLowest(m, batch[w])
        /\ \/ UNCHANGED <<stream, wire>>
           \/ Store(m) /\ UNCHANGED wire
           \/ wire' = wire \cup {m} /\ UNCHANGED stream
  BY DEF PublishFails
<1>2. UNCHANGED <<published, confirmed>> /\ UNCHANGED <<logVars, projectionVars, acked>>
      /\ UNCHANGED outbox /\ UNCHANGED projectorVars /\ batch' = [batch EXCEPT ![w] = {}]
  BY DEF PublishFails, PublisherFrameVars, logVars
<1>3. m \in RowIds /\ \A k \in RowIds : Before(k, m) => k \in Stored
  BY <1>1, LowestIsSendable
<1>4. Grows /\ StreamOrdered' /\ Stored \subseteq Stored' /\ Stored' \subseteq RowIds
  BY <1>1, <1>2, <1>3, StoreKeepsOrder, SameStream, PublisherFacts
<1>5. wire' \subseteq RowIds /\ \A n \in wire' : \A k \in RowIds : Before(k, n) => k \in Stored'
  BY <1>1, <1>3, <1>4, PublisherFacts
<1>6. faults' \in 0..MaxFaults
  BY FaultCounts DEF PublishFails
<1>7. /\ batch' \in [Workers -> SUBSET Nat]
      /\ \A v \in Workers : batch'[v] \subseteq batch[v]
      /\ \A v \in Workers : batch'[v] = {} \/ batch[v] \subseteq batch'[v] \cup Stored'
  BY <1>2, PublisherFacts
<1> QED BY <1>2, <1>4, <1>5, <1>6, <1>7, PublisherFacts, PublisherStepInv, UnchangedIsKept

LEMMA ArriveLateInv ==
    ASSUME PipelineInv, NEW m \in wire, ArriveLate(m), UNCHANGED PublisherFrameVars
    PROVE  PipelineInv'
<1>1. /\ UNCHANGED <<published, batch, confirmed, faults>>
      /\ UNCHANGED <<logVars, projectionVars, acked>>
      /\ UNCHANGED outbox /\ UNCHANGED projectorVars
      /\ Store(m) /\ wire' = wire \ {m}
  BY DEF ArriveLate, PublisherFrameVars, logVars
<1>2. m \in RowIds /\ \A k \in RowIds : Before(k, m) => k \in Stored
  BY PublisherFacts
<1>3. Grows /\ StreamOrdered' /\ Stored' = Stored \cup {m}
  BY <1>1, <1>2, StoreKeepsOrder
<1>4. wire' \subseteq RowIds /\ \A n \in wire' : \A k \in RowIds : Before(k, n) => k \in Stored'
  BY <1>1, <1>3, PublisherFacts
<1> QED BY <1>1, <1>2, <1>3, <1>4, PublisherFacts, PublisherStepInv, UnchangedIsKept

(* Only the stored row leaves the batch. *)
LEMMA MarkInv ==
    ASSUME PipelineInv, NEW w \in Workers, MarkPublished(w) \/ MarkFails(w),
           UNCHANGED PublisherFrameVars
    PROVE  PipelineInv'
<1>1. UNCHANGED <<stream, wire>> /\ UNCHANGED <<logVars, projectionVars, acked>>
      /\ UNCHANGED outbox /\ UNCHANGED projectorVars
      /\ confirmed[w] # NoRow
      /\ published' \subseteq published \cup {confirmed[w]}
      /\ confirmed' = [confirmed EXCEPT ![w] = NoRow]
      /\ \/ batch' = [batch EXCEPT ![w] = @ \ {confirmed[w]}]
         \/ batch' = [batch EXCEPT ![w] = {}]
  BY DEF MarkPublished, MarkFails, PublisherFrameVars, logVars, brokerVars
<1>2. Grows /\ StreamOrdered' /\ Stored' = Stored
  BY <1>1, SameStream
<1>3. faults' \in 0..MaxFaults
  BY FaultCounts, PublisherFacts DEF MarkPublished, MarkFails
<1>4. confirmed[w] \in Stored
  BY <1>1, PublisherFacts
<1>5. published' \subseteq Stored' /\ confirmed' \in [Workers -> Nat]
      /\ \A v \in Workers : confirmed'[v] # NoRow => confirmed'[v] \in Stored'
  BY <1>1, <1>2, <1>4, PublisherFacts DEF NoRow
<1>6. /\ batch' \in [Workers -> SUBSET Nat]
      /\ \A v \in Workers : batch'[v] \subseteq batch[v]
      /\ \A v \in Workers : batch'[v] = {} \/ batch[v] \subseteq batch'[v] \cup Stored'
  BY <1>1, <1>2, <1>4, PublisherFacts
<1> QED BY <1>1, <1>2, <1>3, <1>5, <1>6, PublisherFacts, PublisherStepInv, UnchangedIsKept

(* A restart forgets the batch and the deliveries; a message it was sending *)
(* may still arrive.                                                        *)
LEMMA RestartInv ==
    ASSUME PipelineInv, NEW w \in Workers, Restart(w)
    PROVE  PipelineInv'
<1>1. UNCHANGED <<stream, published>> /\ UNCHANGED <<logVars, projectionVars, acked>>
      /\ UNCHANGED outbox
      /\ confirmed' = [confirmed EXCEPT ![w] = NoRow]
      /\ batch' = [batch EXCEPT ![w] = {}]
      /\ inbox' = [inbox EXCEPT ![w] = <<>>]
      /\ verdict' = [verdict EXCEPT ![w] = "none"]
      /\ \/ UNCHANGED wire
         \/ \E m \in batch[w] : IsLowest(m, batch[w]) /\ wire' = wire \cup {m}
  BY DEF Restart, PublisherDies, ProjectorDies, logVars, brokerVars
<1>2. Grows /\ StreamOrdered' /\ Stored' = Stored
  BY <1>1, SameStream
<1>3. faults' \in 0..MaxFaults
  BY FaultCounts DEF Restart
<1>4. KeptOrDropped
  <2>1. inbox \in [Workers -> Seq(Nat)] /\ verdict \in [Workers -> Verdicts]
    BY DEF PipelineInv, PipelineTypeOK, ProjectorTypeOK
  <2> QED BY <1>1, <2>1 DEF KeptOrDropped, Verdicts
<1>5. confirmed' \in [Workers -> Nat]
      /\ \A v \in Workers : confirmed'[v] # NoRow => confirmed'[v] \in Stored'
  BY <1>1, <1>2, PublisherFacts DEF NoRow
<1>6. wire' \subseteq RowIds /\ \A n \in wire' : \A k \in RowIds : Before(k, n) => k \in Stored'
  BY <1>1, <1>2, PublisherFacts, LowestIsSendable
<1>7. /\ batch' \in [Workers -> SUBSET Nat]
      /\ \A v \in Workers : batch'[v] \subseteq batch[v]
      /\ \A v \in Workers : batch'[v] = {} \/ batch[v] \subseteq batch'[v] \cup Stored'
  BY <1>1, PublisherFacts
<1> QED BY <1>1, <1>2, <1>3, <1>4, <1>5, <1>6, <1>7, PublisherFacts, PublisherStepInv
-----------------------------------------------------------------------------
ProjectorFrameVars == <<logVars, publisherVars, stream>>

LEMMA ProjectorFrame ==
    ASSUME PipelineInv, UNCHANGED ProjectorFrameVars
    PROVE  /\ LogTypeOK' /\ OutboxFollowsLog' /\ UniqueIds' /\ StreamOrdered' /\ SendOrdered'
           /\ PublisherTypeOK' /\ stream' = stream /\ outbox' = outbox
           /\ processed' \subseteq RowIds => Known'
<1>1. UNCHANGED <<events, outbox, published, batch, confirmed, wire, stream>>
  BY DEF ProjectorFrameVars, logVars, publisherVars
<1>2. LogTypeOK' /\ OutboxFollowsLog' /\ UniqueIds' /\ PublisherTypeOK'
  BY <1>1 DEF PipelineInv, PipelineTypeOK, LogTypeOK, OutboxFollowsLog, UniqueIds, PublisherTypeOK
<1>3. RowIds' = RowIds /\ Stored' = Stored /\ \A m, n : Before(m, n)' <=> Before(m, n)
  BY <1>1 DEF RowIds, Stored, Before
<1>4. StreamOrdered' /\ SendOrdered'
  BY <1>1, <1>3 DEF PipelineInv, StreamOrdered, SendOrdered
<1> QED BY <1>1, <1>2, <1>3, <1>4 DEF PipelineInv, Known

(* The event's day has a row in the figures. *)
LEMMA RowFacts ==
    ASSUME PipelineInv, NEW env \in outbox
    PROVE  /\ env.id \in RowIds /\ env.order \in Orders /\ env.total \in Nat
           /\ Day(env.at) \in Days
<1>1. env \in Row
  BY DEF PipelineInv, PipelineTypeOK, LogTypeOK
<1> QED BY <1>1, PipelineAssumption DEF Row, RowIds

LEMMA ApplyTypes ==
    ASSUME PipelineInv, NEW env \in outbox, ApplyEnvelope(env)
    PROVE  /\ processed' = processed \cup {env.id}
           /\ processed' \subseteq RowIds
           /\ revenue' \in [Days -> DayTotals]
           /\ recognised' \subseteq [order : Orders, day : Days, amount : Nat]
<1>1. /\ processed \subseteq RowIds /\ revenue \in [Days -> DayTotals]
      /\ recognised \subseteq [order : Orders, day : Days, amount : Nat]
  BY DEF PipelineInv, PipelineTypeOK, Known
<1> DEFINE d == Day(env.at)
<1>2. env.id \in RowIds /\ env.order \in Orders /\ env.total \in Nat /\ d \in Days
  BY RowFacts
<1>3. processed' = processed \cup {env.id}
  BY DEF ApplyEnvelope, projectionVars
<1> HIDE DEF d
<1>4. CASE CountPlaced(env)
  BY <1>1, <1>2, <1>3, <1>4 DEF CountPlaced, DayTotals, d
<1>5. CASE Recognise(env)
  <2>1. revenue' = [revenue EXCEPT ![d].paid = @ + 1, ![d].recognised = @ + env.total]
    BY <1>5 DEF Recognise, d
  <2> DEFINE r == [revenue EXCEPT ![d].paid = @ + 1]
  <2>2. revenue' \in [Days -> DayTotals]
    <3>1. r \in [Days -> DayTotals]
      BY <1>1, <1>2 DEF DayTotals
    <3>2. revenue' = [r EXCEPT ![d].recognised = @ + env.total]
      BY <1>1, <1>2, <2>1 DEF DayTotals
    <3> HIDE DEF r
    <3> QED BY <1>2, <3>1, <3>2 DEF DayTotals
  <2>3. [order |-> env.order, day |-> d, amount |-> env.total]
          \in [order : Orders, day : Days, amount : Nat]
    BY <1>2
  <2> QED BY <1>1, <1>2, <1>3, <1>5, <2>2, <2>3 DEF Recognise, d
<1>6. CASE Reverse(env)
  <2>1. CASE UNCHANGED <<revenue, recognised>>
    BY <1>1, <1>2, <1>3, <2>1
  <2>2. CASE ~UNCHANGED <<revenue, recognised>>
    <3>1. PICK x \in recognised :
            /\ revenue' = [revenue EXCEPT ![x.day].refunded = @ + x.amount]
            /\ recognised' = recognised \ {x}
      BY <1>6, <2>2 DEF Reverse
    <3>2. x.day \in Days /\ x.amount \in Nat
      BY <1>1
    <3>3. revenue' \in [Days -> DayTotals]
      BY <1>1, <3>1, <3>2 DEF DayTotals
    <3> QED BY <1>1, <1>2, <1>3, <3>1, <3>3
  <2> QED BY <2>1, <2>2
<1>7. CASE UNCHANGED <<revenue, recognised>>
  BY <1>1, <1>2, <1>3, <1>7
<1> QED BY <1>4, <1>5, <1>6, <1>7 DEF ApplyEnvelope, Project, projectionVars

(* A worker only handles a message in its turn, so every predecessor of the *)
(* message's row is settled.                                                *)
LEMMA HandledInTurn ==
    ASSUME PipelineInv, NEW w \in Workers, NEW env \in outbox, Handling(w, env)
    PROVE  /\ Head(inbox[w]) \in DOMAIN stream /\ stream[Head(inbox[w])] = env.id
           /\ \A x \in outbox : x.order = env.order /\ x.nth < env.nth
                => x.id \in processed \/ ~Handles(x)
<1> DEFINE p == Head(inbox[w])
<1>1. InTurn(p) /\ stream[p] = env.id
  BY DEF Handling, PipelineInv, SettledInOrder, PipelineTypeOK, ProjectorTypeOK
<1>2. ASSUME NEW x \in outbox, x.order = env.order, x.nth < env.nth
      PROVE  x.id \in processed \/ ~Handles(x)
  <2>1. Before(x.id, env.id) /\ x.id \in RowIds
    BY <1>2 DEF PipelineInv, OutboxFollowsLog, Before, RowIds
  <2>2. PICK q \in 1..(p-1) : stream[q] = x.id
    BY <1>1, <2>1 DEF PipelineInv, StreamOrdered, InTurn
  <2>3. Settled(stream[q])
    BY <1>1 DEF PipelineInv, SettledInOrder, InTurn
  <2> QED BY <2>2, <2>3 DEF Settled
<1> QED BY <1>1, <1>2 DEF InTurn

(* Whatever the projection applied, what was settled stays settled. *)
LEMMA SettledStays ==
    ASSUME PipelineInv, UNCHANGED ProjectorFrameVars, processed \subseteq processed'
    PROVE  \A p \in DOMAIN stream : Settled(stream[p]) => Settled(stream[p])'
BY ProjectorFrame DEF Settled, Handles

(* Handing a message to the projection and deciding on the answer.          *)
LEMMA HandleInv ==
    ASSUME PipelineInv, NEW w \in Workers, UNCHANGED ProjectorFrameVars,
           Skip(w, outbox) \/ Apply(w, outbox) \/ ApplyFails(w, outbox)
    PROVE  PipelineInv'
<1>1. PICK env \in outbox :
        /\ Handling(w, env)
        /\ \/ UNCHANGED projectionVars \/ ApplyEnvelope(env)
        /\ \/ ~Handles(env) /\ verdict' = [verdict EXCEPT ![w] = "ack"]
           \/ ApplyEnvelope(env) /\ verdict' = [verdict EXCEPT ![w] = "ack"]
           \/ verdict' = [verdict EXCEPT ![w] = "nak"]
  BY DEF Skip, Apply, ApplyFails
<1>2. inbox' = inbox /\ acked' = acked /\ faults' \in 0..MaxFaults
      /\ stream' = stream /\ outbox' = outbox
  BY FaultCounts, PublisherFacts, ProjectorFrame DEF Skip, Apply, ApplyFails, brokerVars
<1>3. /\ processed \subseteq processed' /\ processed' \subseteq processed \cup {env.id}
      /\ processed' \subseteq RowIds
      /\ revenue' \in [Days -> DayTotals]
      /\ recognised' \subseteq [order : Orders, day : Days, amount : Nat]
  BY <1>1, ApplyTypes DEF projectionVars, PipelineInv, PipelineTypeOK, Known
<1>4. verdict \in [Workers -> Verdicts] /\ verdict' \in [Workers -> Verdicts]
      /\ inbox \in [Workers -> Seq(Nat)] /\ inbox[w] # <<>>
  BY <1>1 DEF PipelineInv, PipelineTypeOK, ProjectorTypeOK, Verdicts, Handling
<1>5. PipelineTypeOK'
  <2>1. RowIds \subseteq Nat
    BY PublisherFacts
  <2> QED BY <1>2, <1>3, <1>4, <2>1, ProjectorFrame
          DEF PipelineInv, PipelineTypeOK, BrokerTypeOK, ProjectorTypeOK
<1>6. Head(inbox[w]) \in DOMAIN stream /\ stream[Head(inbox[w])] = env.id
  BY <1>1, HandledInTurn
<1>7. SettledInOrder'
  <2>1. \A p \in acked' : Settled(stream[p])'
    BY <1>2, <1>3, SettledStays DEF PipelineInv, SettledInOrder, PipelineTypeOK, BrokerTypeOK
  <2>2. ASSUME NEW v \in Workers, verdict'[v] = "ack"
        PROVE  Settled(stream[Head(inbox[v])])'
    <3>1. CASE v = w
      <4>1. env.id \in processed' \/ ~Handles(env)
        BY <1>1, <1>4, <2>2, <3>1, ApplyTypes
      <4>2. \A x \in outbox : x.id = env.id => x = env
        BY DEF PipelineInv, UniqueIds
      <4> QED BY <1>2, <1>6, <3>1, <4>1, <4>2 DEF Settled, Handles
    <3>2. CASE v # w
      <4>1. verdict[v] = "ack"
        BY <1>1, <1>4, <2>2, <3>2
      <4>2. Head(inbox[v]) \in DOMAIN stream /\ Settled(stream[Head(inbox[v])])
        BY <1>4, <4>1 DEF PipelineInv, SettledInOrder, InTurn
      <4> QED BY <1>2, <1>3, <4>2, SettledStays
    <3> QED BY <3>1, <3>2
  <2>3. \A v \in Workers : verdict'[v] # "none" => inbox'[v] # <<>>
    BY <1>1, <1>2, <1>4 DEF PipelineInv, SettledInOrder
  <2> QED BY <1>2, <2>1, <2>2, <2>3 DEF PipelineInv, SettledInOrder, InTurn
<1>8. AppliedInOrder'
  <2> SUFFICES ASSUME NEW x \in outbox, NEW y \in outbox, x.order = y.order, x.nth < y.nth,
                      y.id \in processed', Handles(x)
               PROVE  x.id \in processed'
    BY <1>2 DEF AppliedInOrder, Handles
  <2>1. CASE y.id \in processed
    BY <1>3, <2>1 DEF PipelineInv, AppliedInOrder
  <2>2. CASE y.id = env.id
    <3>1. y = env
      BY <2>2 DEF PipelineInv, UniqueIds
    <3> QED BY <1>1, <1>3, <3>1, HandledInTurn
  <2> QED BY <1>3, <2>1, <2>2
<1> QED BY <1>3, <1>5, <1>7, <1>8, ProjectorFrame DEF PipelineInv

(* MaxAckPending = 1: a message is deliverable when none before it waits.   *)
LEMMA DeliverableInTurn ==
    ASSUME PipelineInv, NEW p \in Deliverable
    PROVE  InTurn(p) /\ p \in Nat
<1> DEFINE Waiting == {q \in 1..(p-1) : q \notin acked}
<1>1. p \in DOMAIN stream /\ p \in Nat
  BY PublisherFacts DEF Deliverable
<1>2. IsFiniteSet(Waiting)
  <2>1. IsFiniteSet(1..(p-1))
    BY <1>1, FS_Interval
  <2> QED BY <2>1, FS_Subset
<1>3. Cardinality(Waiting) = 0
  BY <1>2, FS_CardinalityType DEF Deliverable, MaxAckPending
<1>4. Waiting = {}
  BY <1>2, <1>3, FS_EmptySet
<1> QED BY <1>1, <1>4 DEF InTurn

LEMMA DeliverInv ==
    ASSUME PipelineInv, NEW w \in Workers, Deliver(w), UNCHANGED ProjectorFrameVars
    PROVE  PipelineInv'
<1>1. PICK p \in Deliverable : inbox' = [inbox EXCEPT ![w] = Append(@, p)]
  BY DEF Deliver
<1>2. UNCHANGED <<verdict, acked, faults, processed, revenue, recognised>>
      /\ stream' = stream /\ outbox' = outbox
  BY ProjectorFrame DEF Deliver, brokerVars, projectionVars
<1>3. InTurn(p) /\ p \in Nat
  BY DeliverableInTurn
<1>4. inbox \in [Workers -> Seq(Nat)]
  BY DEF PipelineInv, PipelineTypeOK, ProjectorTypeOK
<1>5. PipelineTypeOK'
  BY <1>1, <1>2, <1>3, <1>4, ProjectorFrame
     DEF PipelineInv, PipelineTypeOK, BrokerTypeOK, ProjectorTypeOK
<1>6. SettledInOrder'
  <2>1. \A n \in DOMAIN stream : Settled(stream[n]) => Settled(stream[n])'
    BY <1>2, SettledStays
  <2>2. \A n \in acked' : Settled(stream[n])'
    BY <1>2, <2>1 DEF PipelineInv, SettledInOrder, PipelineTypeOK, BrokerTypeOK
  <2>3. ASSUME NEW v \in Workers, NEW i \in DOMAIN inbox'[v] PROVE InTurn(inbox'[v][i])
    <3>1. CASE v = w
      <4>1. inbox'[w] = Append(inbox[w], p)
        BY <1>1, <1>4
      <4>2. \/ i \in DOMAIN inbox[w] /\ inbox'[w][i] = inbox[w][i]
            \/ inbox'[w][i] = p
        BY <1>3, <1>4, <2>3, <3>1, <4>1
      <4> QED BY <1>3, <3>1, <4>2 DEF PipelineInv, SettledInOrder
    <3>2. CASE v # w
      <4>1. inbox'[v] = inbox[v]
        BY <1>1, <1>4, <3>2
      <4> QED BY <2>3, <4>1 DEF PipelineInv, SettledInOrder
    <3> QED BY <3>1, <3>2
  <2>4. ASSUME NEW v \in Workers, verdict[v] # "none"
        PROVE  inbox'[v] # <<>> /\ Head(inbox'[v]) = Head(inbox[v])
               /\ Head(inbox[v]) \in DOMAIN stream
    <3>1. inbox[v] # <<>>
      BY <2>4 DEF PipelineInv, SettledInOrder
    <3>2. Head(inbox[v]) \in DOMAIN stream
      BY <1>4, <3>1 DEF PipelineInv, SettledInOrder, InTurn
    <3>3. inbox'[v] = inbox[v] \/ inbox'[v] = Append(inbox[v], p)
      BY <1>1, <1>4
    <3> QED BY <1>3, <1>4, <3>1, <3>2, <3>3
  <2>5. ASSUME NEW v \in Workers, verdict'[v] = "ack" PROVE Settled(stream[Head(inbox[v])])'
    BY <1>2, <2>1, <2>4, <2>5 DEF PipelineInv, SettledInOrder
  <2> QED BY <1>2, <2>2, <2>3, <2>4, <2>5 DEF SettledInOrder, InTurn
<1>7. AppliedInOrder' /\ processed' \subseteq RowIds
  BY <1>2 DEF PipelineInv, AppliedInOrder, Handles, Known
<1> QED BY <1>5, <1>6, <1>7, ProjectorFrame DEF PipelineInv

(* An acknowledgement is of a settled message; a lost answer is none. *)
LEMMA AnswerInv ==
    ASSUME PipelineInv, NEW w \in Workers, Answer(w) \/ AnswerLost(w),
           UNCHANGED ProjectorFrameVars
    PROVE  PipelineInv'
<1> DEFINE p == Head(inbox[w])
<1>1. /\ verdict[w] # "none"
      /\ acked' = acked \/ (verdict[w] = "ack" /\ acked' = acked \cup {p})
      /\ inbox' = [inbox EXCEPT ![w] = Tail(@)]
      /\ verdict' = [verdict EXCEPT ![w] = "none"]
  BY DEF Answer, AnswerLost, Acknowledge, brokerVars
<1>2. UNCHANGED <<processed, revenue, recognised>> /\ faults' \in 0..MaxFaults
      /\ stream' = stream /\ outbox' = outbox
  BY FaultCounts, PublisherFacts, ProjectorFrame DEF Answer, AnswerLost, projectionVars
<1>3. /\ inbox \in [Workers -> Seq(Nat)] /\ verdict \in [Workers -> Verdicts]
      /\ inbox[w] # <<>> /\ acked \subseteq DOMAIN stream
  BY <1>1 DEF PipelineInv, PipelineTypeOK, ProjectorTypeOK, BrokerTypeOK, SettledInOrder
<1>4. p \in DOMAIN stream /\ (verdict[w] = "ack" => Settled(stream[p]))
  BY <1>3 DEF PipelineInv, SettledInOrder, InTurn
<1>5. inbox' \in [Workers -> Seq(Nat)] /\ Tail(inbox[w]) \in Seq(Nat)
      /\ \A i \in DOMAIN Tail(inbox[w]) :
           i + 1 \in DOMAIN inbox[w] /\ Tail(inbox[w])[i] = inbox[w][i + 1]
  BY <1>1, <1>3
<1>6. PipelineTypeOK'
  BY <1>1, <1>2, <1>3, <1>4, <1>5, ProjectorFrame
     DEF PipelineInv, PipelineTypeOK, BrokerTypeOK, ProjectorTypeOK, Verdicts
<1>7. SettledInOrder'
  <2>1. \A n \in DOMAIN stream : Settled(stream[n]) => Settled(stream[n])'
    BY <1>2, SettledStays
  <2>2. ASSUME NEW n \in acked' PROVE Settled(stream[n])'
    <3>1. n \in DOMAIN stream /\ Settled(stream[n])
      BY <1>1, <1>3, <1>4, <2>2 DEF PipelineInv, SettledInOrder
    <3> QED BY <2>1, <3>1
  <2>3. ASSUME NEW n, InTurn(n) PROVE InTurn(n)'
    BY <1>1, <1>2, <2>3 DEF InTurn
  <2>4. ASSUME NEW v \in Workers, NEW i \in DOMAIN inbox'[v] PROVE InTurn(inbox'[v][i])
    <3>1. CASE v = w
      <4>1. inbox'[v] = Tail(inbox[w])
        BY <1>1, <1>3, <3>1
      <4> QED BY <1>5, <2>4, <4>1 DEF PipelineInv, SettledInOrder
    <3>2. CASE v # w
      <4>1. inbox'[v] = inbox[v]
        BY <1>1, <1>3, <3>2
      <4> QED BY <2>4, <4>1 DEF PipelineInv, SettledInOrder
    <3> QED BY <3>1, <3>2
  <2>5. ASSUME NEW v \in Workers, verdict'[v] # "none"
        PROVE  /\ verdict'[v] = verdict[v] /\ inbox'[v] = inbox[v] /\ inbox[v] # <<>>
               /\ Head(inbox[v]) \in DOMAIN stream
    <3>1. v # w /\ verdict'[v] = verdict[v] /\ inbox'[v] = inbox[v]
      BY <1>1, <1>3, <2>5
    <3>2. inbox[v] # <<>>
      BY <2>5, <3>1 DEF PipelineInv, SettledInOrder
    <3> QED BY <1>3, <3>1, <3>2 DEF PipelineInv, SettledInOrder, InTurn
  <2>6. ASSUME NEW v \in Workers, verdict'[v] = "ack" PROVE Settled(stream[Head(inbox[v])])'
    BY <1>2, <2>1, <2>5, <2>6 DEF PipelineInv, SettledInOrder
  <2> QED BY <1>2, <2>2, <2>3, <2>4, <2>5, <2>6 DEF SettledInOrder, InTurn
<1>8. AppliedInOrder' /\ processed' \subseteq RowIds
  BY <1>2 DEF PipelineInv, AppliedInOrder, Handles, Known
<1> QED BY <1>6, <1>7, <1>8, ProjectorFrame DEF PipelineInv
-----------------------------------------------------------------------------
LEMMA PipelineStep ==
    ASSUME PipelineInv, [Next]_pipelineVars
    PROVE  PipelineInv'
<1>1. CASE OrderStep
  BY <1>1, OrderStepInv
<1>2. CASE PublishStep
  <2>1. UNCHANGED PublisherFrameVars
    BY <1>2 DEF PublishStep, PublisherFrameVars
  <2>2. ASSUME NEW w \in Workers, PublisherStep(w, RowIds) PROVE PipelineInv'
    BY <2>1, <2>2, DrainStep, PublishStepInv, PublishFailsInv, MarkInv DEF PublisherStep
  <2>3. ASSUME NEW m \in wire, ArriveLate(m) PROVE PipelineInv'
    BY <2>1, <2>3, ArriveLateInv
  <2> QED BY <1>2, <2>2, <2>3 DEF PublishStep
<1>3. CASE ProjectStep
  <2>1. PICK w \in Workers : ProjectorStep(w, outbox)
    BY <1>3 DEF ProjectStep
  <2>2. UNCHANGED ProjectorFrameVars
    BY <1>3, <2>1 DEF ProjectStep, ProjectorStep, ProjectorFrameVars, Deliver, Skip, Apply,
                      ApplyFails, Answer, AnswerLost, brokerVars
  <2> QED BY <2>1, <2>2, DeliverInv, HandleInv, AnswerInv DEF ProjectorStep
<1>4. ASSUME NEW w \in Workers, Restart(w) PROVE PipelineInv'
  BY <1>4, RestartInv
<1>5. CASE UNCHANGED pipelineVars
  <2>1. UNCHANGED <<logVars, projectionVars, acked>> /\ UNCHANGED projectorVars
        /\ UNCHANGED <<stream, outbox>>
        /\ UNCHANGED <<faults, published, batch, confirmed, wire>>
    BY <1>5 DEF pipelineVars, brokerVars, logVars, publisherVars
  <2>2. Grows /\ StreamOrdered' /\ Stored' = Stored
    BY <2>1, SameStream
  <2> QED BY <2>1, <2>2, PublisherFacts, PublisherStepInv, UnchangedIsKept
<1> QED BY <1>1, <1>2, <1>3, <1>4, <1>5 DEF Next

(* The invariant of the whole pipeline. *)
THEOREM PipelineInvariance == Spec => []PipelineInv
BY PipelineInitInv, PipelineStep, PTL DEF Spec

(* The state of the pipeline has its type. *)
THEOREM PipelineType == Spec => []PipelineTypeOK
<1>1. PipelineInv => PipelineTypeOK
  BY DEF PipelineInv
<1> QED BY <1>1, PipelineInvariance, PTL

(* No committed event is lost on its way to the projection. *)
THEOREM NothingIsLost == Spec => []NoEventLost
<1>1. PipelineInv => NoEventLost
  BY DEF PipelineInv, NoEventLost, Known, SettledInOrder, Settled
<1> QED BY <1>1, PipelineInvariance, PTL

(* The events of an order are applied in the order they happened. *)
THEOREM EventsInOrder == Spec => []AppliedInOrder
<1>1. PipelineInv => AppliedInOrder
  BY DEF PipelineInv
<1> QED BY <1>1, PipelineInvariance, PTL
-----------------------------------------------------------------------------
(* Induction over the subsets of a finite set: a set of them that is not    *)
(* empty has a member with no strict subset in it.                          *)
LEMMA SmallestSubset ==
    ASSUME NEW S, IsFiniteSet(S), NEW B \in SUBSET (SUBSET S), B # {}
    PROVE  \E s \in B : \A t \in B : t \subseteq s => t = s
<1>1. B \subseteq FiniteSubsetsOf(S)
  BY FS_FiniteSubsetsOfFinite
<1>2. PICK s \in B : \A t \in B : <<t, s>> \notin StrictSubsetOrdering(S)
  <2> DEFINE R == StrictSubsetOrdering(S)
  <2>1. IsWellFoundedOn(R, FiniteSubsetsOf(S))
    BY FS_StrictSubsetOrderingWellFounded
  <2> HIDE DEF R
  <2> QED BY <1>1, <2>1, WFMin DEF R
<1> QED BY <1>2 DEF StrictSubsetOrdering

(* What a sum adds first, and the recursion that defines it. *)
First(s) == CHOOSE x \in s : TRUE
Rest(s) == s \ {First(s)}

SumsTo(g, f, S) ==
    g = [s \in SUBSET S |-> IF s = {} THEN 0 ELSE f[First(s)] + g[Rest(s)]]

(* The rest of a set that is not empty is smaller. *)
LEMMA FirstAndRest ==
    ASSUME NEW s, s # {}
    PROVE  First(s) \in s /\ Rest(s) \subseteq s /\ Rest(s) # s
BY DEF First, Rest

(* A sum is what its recursion computes. *)
LEMMA SumDefinition ==
    ASSUME NEW f, NEW S
    PROVE  Sum(f, S) = (CHOOSE g : SumsTo(g, f, S))[S]
BY DEF Sum, MapThenSumSet, MapThenFoldSet, SumsTo, First, Rest

(* Whatever set it was started from, the recursion computes the same for a  *)
(* subset.                                                                  *)
LEMMA SumsToUnique ==
    ASSUME NEW f, NEW S, NEW T, NEW U, IsFiniteSet(U), U \subseteq S, U \subseteq T,
           NEW g, SumsTo(g, f, S), NEW h, SumsTo(h, f, T)
    PROVE  g[U] = h[U]
<1> DEFINE B == {s \in SUBSET U : g[s] # h[s]}
<1>1. SUFFICES ASSUME B # {} PROVE FALSE
  OBVIOUS
<1>2. PICK s \in B : \A t \in B : t \subseteq s => t = s
  <2>1. B \in SUBSET (SUBSET U)
    OBVIOUS
  <2> HIDE DEF B
  <2> QED BY <1>1, <2>1, SmallestSubset
<1>3. /\ g[s] = IF s = {} THEN 0 ELSE f[First(s)] + g[Rest(s)]
      /\ h[s] = IF s = {} THEN 0 ELSE f[First(s)] + h[Rest(s)]
  <2>1. s \in SUBSET S /\ s \in SUBSET T
    OBVIOUS
  <2>2. /\ g = [t \in SUBSET S |-> IF t = {} THEN 0 ELSE f[First(t)] + g[Rest(t)]]
        /\ h = [t \in SUBSET T |-> IF t = {} THEN 0 ELSE f[First(t)] + h[Rest(t)]]
    BY DEF SumsTo
  <2>3. g[s] = IF s = {} THEN 0 ELSE f[First(s)] + g[Rest(s)]
    BY ONLY <2>1, <2>2
  <2>4. h[s] = IF s = {} THEN 0 ELSE f[First(s)] + h[Rest(s)]
    BY ONLY <2>1, <2>2
  <2> QED BY <2>3, <2>4
<1>4. s # {} => g[Rest(s)] = h[Rest(s)]
  BY <1>2, FirstAndRest
<1> QED BY <1>2, <1>3, <1>4

(* When the recursion defines a function on the subsets of a set and on     *)
(* those of the rest, it also tells the one sum from the other.             *)
LEMMA SumUnfolds ==
    ASSUME NEW f, NEW S, IsFiniteSet(S),
           \E g : SumsTo(g, f, S),
           S # {} => \E g : SumsTo(g, f, Rest(S))
    PROVE  Sum(f, S) = IF S = {} THEN 0 ELSE f[First(S)] + Sum(f, Rest(S))
<1> DEFINE g == CHOOSE g : SumsTo(g, f, S)
           h == CHOOSE h : SumsTo(h, f, Rest(S))
<1>1. SumsTo(g, f, S) /\ Sum(f, S) = g[S]
  BY SumDefinition
<1>2. g[S] = IF S = {} THEN 0 ELSE f[First(S)] + g[Rest(S)]
  <2> HIDE DEF g
  <2>1. g = [t \in SUBSET S |-> IF t = {} THEN 0 ELSE f[First(t)] + g[Rest(t)]]
    BY <1>1 DEF SumsTo
  <2> QED BY <2>1
<1>3. ASSUME S # {} PROVE g[Rest(S)] = Sum(f, Rest(S))
  <2>1. SumsTo(h, f, Rest(S)) /\ Sum(f, Rest(S)) = h[Rest(S)]
    BY <1>3, SumDefinition
  <2>2. IsFiniteSet(Rest(S)) /\ Rest(S) \subseteq S
    BY <1>3, FirstAndRest, FS_Subset
  <2> HIDE DEF g, h
  <2> QED BY <1>1, <2>1, <2>2, SumsToUnique
<1> HIDE DEF g
<1> QED BY <1>1, <1>2, <1>3

(* The recursion defines a function, for every finite set. *)
LEMMA SumsToExists ==
    ASSUME NEW f, NEW S, IsFiniteSet(S)
    PROVE  \E g : SumsTo(g, f, S)
<1> DEFINE B == {s \in SUBSET S : ~ \E g : SumsTo(g, f, s)}
<1>1. SUFFICES ASSUME B # {} PROVE FALSE
  OBVIOUS
<1>2. PICK s \in B : \A t \in B : t \subseteq s => t = s
  <2>1. B \in SUBSET (SUBSET S)
    OBVIOUS
  <2> HIDE DEF B
  <2> QED BY <1>1, <2>1, SmallestSubset
<1>3. ASSUME NEW t \in SUBSET s, t # s
      PROVE  Sum(f, t) = IF t = {} THEN 0 ELSE f[First(t)] + Sum(f, Rest(t))
  <2>1. IsFiniteSet(t) /\ \E g : SumsTo(g, f, t)
    BY <1>2, <1>3, FS_Subset
  <2>2. ASSUME t # {} PROVE \E g : SumsTo(g, f, Rest(t))
    <3>1. Rest(t) \in SUBSET S /\ Rest(t) \subseteq s /\ Rest(t) # s
      BY <1>3, <2>2, FirstAndRest
    <3> QED BY <1>2, <3>1
  <2> QED BY <2>1, <2>2, SumUnfolds
<1> DEFINE h == [t \in SUBSET s |-> IF t = {} THEN 0 ELSE f[First(t)] + Sum(f, Rest(t))]
<1>4. ASSUME NEW t \in SUBSET s, t # {} PROVE h[Rest(t)] = Sum(f, Rest(t))
  <2>1. Rest(t) \in SUBSET s /\ Rest(t) # s
    BY <1>4, FirstAndRest
  <2> QED BY <1>3, <2>1
<1>5. h = [t \in SUBSET s |-> IF t = {} THEN 0 ELSE f[First(t)] + h[Rest(t)]]
  <2>1. \A t \in SUBSET s : h[t] = IF t = {} THEN 0 ELSE f[First(t)] + h[Rest(t)]
    <3> SUFFICES ASSUME NEW t \in SUBSET s
                 PROVE  h[t] = IF t = {} THEN 0 ELSE f[First(t)] + h[Rest(t)]
      OBVIOUS
    <3>1. h[t] = IF t = {} THEN 0 ELSE f[First(t)] + Sum(f, Rest(t))
      OBVIOUS
    <3> HIDE DEF h
    <3> QED BY <1>4, <3>1
  <2>2. h \in [SUBSET s -> {h[t] : t \in SUBSET s}]
    OBVIOUS
  <2> HIDE DEF h
  <2> QED BY <2>1, <2>2
<1> HIDE DEF h
<1>6. SumsTo(h, f, s)
  BY <1>5 DEF SumsTo
<1> QED BY <1>2, <1>6

(* The sum of a finite set, first summand first. *)
LEMMA SumFirst ==
    ASSUME NEW f, NEW S, IsFiniteSet(S)
    PROVE  Sum(f, S) = IF S = {} THEN 0 ELSE f[First(S)] + Sum(f, Rest(S))
<1>1. S # {} => IsFiniteSet(Rest(S))
  BY FirstAndRest, FS_Subset
<1> QED BY <1>1, SumsToExists, SumUnfolds

(* The empty sum. *)
LEMMA SumOfNothing == ASSUME NEW f PROVE Sum(f, {}) = 0
BY SumFirst, FS_EmptySet

(* The sum of natural numbers is one. *)
LEMMA SumType ==
    ASSUME NEW S, IsFiniteSet(S), NEW f, \A x \in S : f[x] \in Nat
    PROVE  Sum(f, S) \in Nat
<1> DEFINE B == {s \in SUBSET S : Sum(f, s) \notin Nat}
<1>1. SUFFICES ASSUME B # {} PROVE FALSE
  OBVIOUS
<1>2. PICK s \in B : \A t \in B : t \subseteq s => t = s
  <2>1. B \in SUBSET (SUBSET S)
    OBVIOUS
  <2> HIDE DEF B
  <2> QED BY <1>1, <2>1, SmallestSubset
<1>3. IsFiniteSet(s)
  BY FS_Subset
<1>4. ASSUME s # {} PROVE f[First(s)] \in Nat /\ Sum(f, Rest(s)) \in Nat
  BY <1>2, <1>4, FirstAndRest
<1>5. Sum(f, s) = IF s = {} THEN 0 ELSE f[First(s)] + Sum(f, Rest(s))
  BY <1>3, SumFirst
<1>6. Sum(f, s) \in Nat
  BY <1>4, <1>5
<1> QED BY <1>6

(* The order of the summands does not matter: any of them may come first. *)
LEMMA SumRemove ==
    ASSUME NEW S, IsFiniteSet(S), NEW f, \A x \in S : f[x] \in Nat, NEW x \in S
    PROVE  Sum(f, S) = f[x] + Sum(f, S \ {x})
<1> DEFINE B == {s \in SUBSET S : \E y \in s : Sum(f, s) # f[y] + Sum(f, s \ {y})}
<1>1. SUFFICES ASSUME B # {} PROVE FALSE
  OBVIOUS
<1>2. PICK s \in B : \A t \in B : t \subseteq s => t = s
  <2>1. B \in SUBSET (SUBSET S)
    OBVIOUS
  <2> HIDE DEF B
  <2> QED BY <1>1, <2>1, SmallestSubset
<1>3. PICK y \in s : Sum(f, s) # f[y] + Sum(f, s \ {y})
  OBVIOUS
<1> DEFINE z == First(s)
           r == (s \ {y}) \ {z}
<1>4. z \in s /\ Rest(s) = s \ {z} /\ r \subseteq S /\ r = (s \ {z}) \ {y}
  BY FirstAndRest DEF Rest
<1>5. Sum(f, s) = f[z] + Sum(f, s \ {z})
  <2>1. IsFiniteSet(s) /\ s # {}
    BY FS_Subset
  <2> QED BY <1>4, <2>1, SumFirst
<1>6. z # y
  BY <1>3, <1>5
<1> HIDE DEF z, r
<1>7. Sum(f, s \ {z}) = f[y] + Sum(f, r)
  <2>1. s \ {z} \in SUBSET S /\ s \ {z} # s /\ y \in s \ {z}
    BY <1>4, <1>6
  <2> QED BY <1>2, <1>4, <2>1
<1>8. Sum(f, s \ {y}) = f[z] + Sum(f, r)
  <2>1. s \ {y} \in SUBSET S /\ s \ {y} # s /\ z \in s \ {y}
    BY <1>4, <1>6
  <2> QED BY <1>2, <2>1 DEF r
<1>9. Sum(f, r) \in Nat /\ f[y] \in Nat /\ f[z] \in Nat
  BY <1>4, SumType, FS_Subset
<1> QED BY <1>3, <1>5, <1>7, <1>8, <1>9

(* One summand more. *)
LEMMA SumAdd ==
    ASSUME NEW S, IsFiniteSet(S), NEW y, y \notin S, NEW f, \A x \in S \cup {y} : f[x] \in Nat
    PROVE  Sum(f, S \cup {y}) = Sum(f, S) + f[y]
<1>1. IsFiniteSet(S \cup {y}) /\ (S \cup {y}) \ {y} = S
  BY FS_AddElement
<1>2. Sum(f, S \cup {y}) = f[y] + Sum(f, S)
  BY <1>1, SumRemove
<1> QED BY <1>2, SumType

(* Summands may be renamed. *)
LEMMA SumRenamed ==
    ASSUME NEW S, IsFiniteSet(S), NEW f, \A x \in S : f[x] \in Nat, NEW b,
           \A x, y \in S : b[x] = b[y] => x = y,
           NEW g, \A x \in S : g[b[x]] = f[x]
    PROVE  Sum(g, {b[x] : x \in S}) = Sum(f, S)
<1> DEFINE Image(s) == {b[x] : x \in s}
           B == {s \in SUBSET S : Sum(g, Image(s)) # Sum(f, s)}
<1>1. SUFFICES ASSUME B # {} PROVE FALSE
  OBVIOUS
<1>2. PICK s \in B : \A t \in B : t \subseteq s => t = s
  <2>1. B \in SUBSET (SUBSET S)
    OBVIOUS
  <2> HIDE DEF B
  <2> QED BY <1>1, <2>1, SmallestSubset
<1>3. s # {}
  <2>1. Image({}) = {}
    OBVIOUS
  <2> QED BY <1>2, <2>1, SumOfNothing
<1>4. PICK y \in s : TRUE
  BY <1>3
<1>5. IsFiniteSet(s) /\ IsFiniteSet(Image(s))
  <2> DEFINE m == [x \in s |-> b[x]]
  <2>1. IsFiniteSet(s)
    BY FS_Subset
  <2>2. m \in Surjection(s, Image(s))
    BY DEF Surjection
  <2> HIDE DEF m, Image
  <2> QED BY <2>1, <2>2, FS_Surjection
<1>6. b[y] \in Image(s) /\ Image(s) \ {b[y]} = Image(s \ {y})
  OBVIOUS
<1>7. \A z \in Image(s) : g[z] \in Nat
  OBVIOUS
<1>8. Sum(g, Image(s \ {y})) = Sum(f, s \ {y})
  BY <1>2
<1> HIDE DEF Image
<1>9. Sum(g, Image(s)) = g[b[y]] + Sum(g, Image(s) \ {b[y]})
  BY <1>5, <1>6, <1>7, SumRemove
<1>10. Sum(f, s) = f[y] + Sum(f, s \ {y})
  BY <1>5, SumRemove
<1> QED BY <1>6, <1>8, <1>9, <1>10

(* Only what the function says of the summands matters. *)
LEMMA SumAgrees ==
    ASSUME NEW S, IsFiniteSet(S), NEW f, NEW g, \A x \in S : f[x] \in Nat /\ g[x] = f[x]
    PROVE  Sum(g, S) = Sum(f, S)
<1> DEFINE b == [x \in S |-> x]
<1>1. S = {b[x] : x \in S}
  OBVIOUS
<1>2. \A x \in S : b[x] = x
  OBVIOUS
<1> HIDE DEF b
<1>3. Sum(g, {b[x] : x \in S}) = Sum(f, S)
  BY <1>2, SumRenamed
<1> QED BY <1>1, <1>3

(* A sum splits into those of a subset and of what the subset leaves. *)
LEMMA SumSplits ==
    ASSUME NEW S, IsFiniteSet(S), NEW f, \A x \in S : f[x] \in Nat, NEW T \in SUBSET S
    PROVE  Sum(f, S) = Sum(f, T) + Sum(f, S \ T)
<1> DEFINE B == {s \in SUBSET S : Sum(f, S) # Sum(f, s) + Sum(f, S \ s)}
<1>1. SUFFICES ASSUME B # {} PROVE FALSE
  OBVIOUS
<1>2. PICK s \in B : \A t \in B : t \subseteq s => t = s
  <2>1. B \in SUBSET (SUBSET S)
    OBVIOUS
  <2> HIDE DEF B
  <2> QED BY <1>1, <2>1, SmallestSubset
<1>3. s # {}
  <2>1. S \ {} = S /\ Sum(f, S) \in Nat
    BY SumType
  <2>2. Sum(f, S) = Sum(f, {}) + Sum(f, S \ {})
    BY <2>1, SumOfNothing
  <2> QED BY <2>2
<1>4. PICK y \in s : TRUE
  BY <1>3
<1>5. Sum(f, S) = Sum(f, s \ {y}) + Sum(f, S \ (s \ {y}))
  BY <1>2
<1>6. IsFiniteSet(s) /\ IsFiniteSet(S \ s) /\ IsFiniteSet(s \ {y})
  BY FS_Subset
<1>7. Sum(f, s) = f[y] + Sum(f, s \ {y})
  BY <1>6, SumRemove
<1>8. Sum(f, S \ (s \ {y})) = Sum(f, S \ s) + f[y]
  <2>1. S \ (s \ {y}) = (S \ s) \cup {y} /\ y \notin S \ s
    OBVIOUS
  <2> QED BY <1>6, <2>1, SumAdd
<1>9. Sum(f, S \ s) \in Nat /\ Sum(f, s \ {y}) \in Nat /\ f[y] \in Nat
  BY <1>6, SumType
<1> QED BY <1>2, <1>5, <1>7, <1>8, <1>9
-----------------------------------------------------------------------------
(* What is recognised is what was paid and not refunded, as far as applied. *)
Open == {x \in AppliedTo("paid") : x.order \notin OrdersOf(AppliedTo("refunded"))}

Entry(x) == [order |-> x.order, day |-> Day(x.at), amount |-> x.total]

RecognisedIsOpen == recognised = {Entry(x) : x \in Open}

(* The projection applies only what this build implements. *)
AppliedAreHandled == \A x \in outbox : x.id \in processed => Handles(x)

(* What holds of the log and the outbox at all times. *)
LogInv ==
    /\ LogTypeOK
    /\ OutboxFollowsLog
    /\ FundedWasPaid
    /\ LogAscends
    /\ RowsTellTheirEvents
    /\ UniqueIds
    /\ IsFiniteSet(outbox)

RevenueInv ==
    /\ PipelineInv
    /\ LogInv
    /\ AppliedAreHandled
    /\ RecognisedIsOpen
    /\ RevenueIsExact

(* An order has one row for each status it reached. *)
LEMMA OneRowEach ==
    ASSUME LogInv, NEW x \in outbox, NEW y \in outbox, x.order = y.order, x.to = y.to
    PROVE  x = y
<1>1. /\ x.nth \in 1..Len(events[x.order]) /\ events[x.order][x.nth].to = x.to
      /\ y.nth \in 1..Len(events[x.order]) /\ events[x.order][y.nth].to = x.to
      /\ x.id < y.id <=> x.nth < y.nth
      /\ y.id < x.id <=> y.nth < x.nth
  BY DEF LogInv, OutboxFollowsLog
<1>2. x.order \in Orders /\ x.to \in Status /\ x.id \in Nat /\ y.id \in Nat
      /\ x.nth \in Nat /\ y.nth \in Nat
  BY DEF LogInv, LogTypeOK, Row
<1>3. Rank[x.to] \in Nat
  BY <1>2 DEF Rank, Status
<1>6. \A i, j \in 1..Len(events[x.order]) :
         i < j => Rank[events[x.order][i].to] < Rank[events[x.order][j].to]
  BY <1>2 DEF LogInv, LogAscends
<1>4. ~(x.nth < y.nth) /\ ~(y.nth < x.nth)
  <2>1. ASSUME x.nth < y.nth PROVE FALSE
    <3>1. Rank[events[x.order][x.nth].to] < Rank[events[x.order][y.nth].to]
      BY <1>1, <1>6, <2>1
    <3> QED BY <1>1, <1>3, <3>1
  <2>2. ASSUME y.nth < x.nth PROVE FALSE
    <3>1. Rank[events[x.order][y.nth].to] < Rank[events[x.order][x.nth].to]
      BY <1>1, <1>6, <2>2
    <3> QED BY <1>1, <1>3, <3>1
  <2> QED BY <2>1, <2>2
<1>5. x.id = y.id
  BY <1>1, <1>2, <1>4
<1> QED BY <1>5 DEF LogInv, UniqueIds

(* A refunded order has the row of its payment, and that one comes first. *)
LEMMA PaymentComesFirst ==
    ASSUME LogInv, NEW r \in outbox, r.to = "refunded"
    PROVE  \E p \in outbox : p.order = r.order /\ p.to = "paid" /\ p.nth < r.nth
<1>1. r.order \in Orders /\ r.nth \in 1..Len(events[r.order]) /\ events[r.order][r.nth].to = "refunded"
  BY DEF LogInv, LogTypeOK, Row, OutboxFollowsLog
<1>2. PICK j \in 1..r.nth : events[r.order][j].to = "paid"
  BY <1>1 DEF LogInv, FundedWasPaid, Funded
<1>3. j < r.nth /\ j \in 1..Len(events[r.order]) /\ Len(events[r.order]) \in Nat
  BY <1>1, <1>2 DEF LogInv, LogTypeOK
<1>4. PICK p \in outbox : p.order = r.order /\ p.nth = j
  BY <1>1, <1>3 DEF LogInv, OutboxFollowsLog
<1>5. p.to = "paid"
  BY <1>1, <1>2, <1>4 DEF LogInv, OutboxFollowsLog
<1> QED BY <1>3, <1>4, <1>5

(* The sets the figures are about are finite, and what a row says is in     *)
(* range.                                                                   *)
LEMMA AppliedFacts ==
    ASSUME LogInv
    PROVE  /\ \A s : IsFiniteSet(AppliedTo(s))
           /\ \A x \in outbox : x.total \in Nat /\ x.order \in Orders /\ Day(x.at) \in Days
<1>1. \A s : AppliedTo(s) \subseteq outbox
  BY DEF AppliedTo
<1>2. \A s : IsFiniteSet(AppliedTo(s))
  BY <1>1, FS_Subset DEF LogInv
<1> QED BY <1>2, PipelineAssumption DEF LogInv, LogTypeOK, Row

(* The sum of a set of rows does not depend on how it is written down. *)
LEMMA SumOfAdds ==
    ASSUME NEW S, IsFiniteSet(S), \A x \in S : x.total \in Nat, NEW y, y \notin S, y.total \in Nat
    PROVE  SumOf(S \cup {y}) = SumOf(S) + y.total
<1> DEFINE f == [x \in S |-> x.total]
           g == [x \in S \cup {y} |-> x.total]
<1>1. \A x \in S : f[x] \in Nat /\ g[x] = f[x]
  OBVIOUS
<1>2. \A x \in S \cup {y} : g[x] \in Nat
  OBVIOUS
<1>3. g[y] = y.total
  OBVIOUS
<1>4. SumOf(S) = Sum(f, S) /\ SumOf(S \cup {y}) = Sum(g, S \cup {y})
  BY DEF SumOf
<1> HIDE DEF f, g
<1>5. Sum(g, S) = Sum(f, S)
  BY <1>1, SumAgrees
<1>6. Sum(g, S \cup {y}) = Sum(g, S) + g[y]
  BY <1>2, SumAdd
<1> QED BY <1>3, <1>4, <1>5, <1>6
-----------------------------------------------------------------------------
LEMMA LogInvStep ==
    ASSUME LogInv, [LogNext]_logVars
    PROVE  LogInv'
<1>1. LogTypeOK' /\ OutboxFollowsLog' /\ FundedWasPaid' /\ LogAscends' /\ RowsTellTheirEvents'
  BY LogTypeStep, OutboxStep, FundedStep, AscendsStep, RowsTellStep DEF LogInv
<1>2. UniqueIds' /\ IsFiniteSet(outbox')
  <2>1. CASE LogNext
    <3>1. PICK o \in Orders, to \in Targets \cup {"pending"}, at \in 0..MaxTime,
               v \in Versions, id \in 1..MaxRows : LogEvent(o, to, at, v, id)
      BY <2>1 DEF LogNext
    <3> DEFINE row == Envelope(o, id, StatusAfter(events[o]), to, at, v)
    <3>2. outbox' = outbox \cup {row} /\ row.id = id /\ \A x \in outbox : x.id # id
      BY <3>1 DEF LogEvent, Record, Envelope, FreshId
    <3> HIDE DEF row
    <3>3. IsFiniteSet(outbox')
      BY <3>2, FS_AddElement DEF LogInv
    <3> QED BY <3>2, <3>3 DEF LogInv, UniqueIds
  <2>2. CASE UNCHANGED logVars
    BY <2>2 DEF logVars, LogInv, UniqueIds
  <2> QED BY <2>1, <2>2
<1> QED BY <1>1, <1>2 DEF LogInv

(* A commit's row is not applied yet, so no set of applied rows changes. *)
LEMMA CommitAppliesNothing ==
    ASSUME PipelineInv, OrderStep
    PROVE  /\ \A s : AppliedTo(s)' = AppliedTo(s)
           /\ \A x \in outbox' : x.id \in processed => x \in outbox
           /\ outbox \subseteq outbox'
           /\ UNCHANGED projectionVars
<1>1. PICK row : outbox' = outbox \cup {row} /\ \A x \in outbox : x.id # row.id
  BY NewRow DEF PipelineInv, PipelineTypeOK
<1>2. row.id \notin processed
  BY <1>1 DEF PipelineInv, Known, RowIds
<1>3. UNCHANGED projectionVars /\ processed' = processed
  BY DEF OrderStep, projectionVars
<1>4. \A s : AppliedTo(s)' = AppliedTo(s)
  BY <1>1, <1>2, <1>3 DEF AppliedTo
<1> QED BY <1>1, <1>2, <1>3, <1>4

(* A step of the pipeline commits an event, applies one in its turn or      *)
(* leaves both the log and the figures as they are.                         *)
AppliesNow(env) ==
    /\ Handles(env)
    /\ env.id \notin processed
    /\ processed' = processed \cup {env.id}
    /\ Project(env)
    /\ \A x \in outbox : x.order = env.order /\ x.nth < env.nth => x.id \in processed \/ ~Handles(x)

LEMMA StepKinds ==
    ASSUME PipelineInv, [Next]_pipelineVars
    PROVE  \/ OrderStep
           \/ UNCHANGED <<logVars, projectionVars>>
           \/ UNCHANGED logVars /\ \E env \in outbox : AppliesNow(env)
<1>1. CASE PublishStep
  BY <1>1 DEF PublishStep
<1>2. CASE ProjectStep
  <2>1. PICK w \in Workers : ProjectorStep(w, outbox)
    BY <1>2 DEF ProjectStep
  <2>2. UNCHANGED logVars
    BY <1>2 DEF ProjectStep
  <2>3. \/ UNCHANGED projectionVars
        \/ \E env \in outbox : Handling(w, env) /\ Handles(env) /\ ApplyEnvelope(env)
    BY <2>1 DEF ProjectorStep, Deliver, Skip, Apply, ApplyFails, Answer, AnswerLost
  <2>4. ASSUME NEW env \in outbox, Handling(w, env), Handles(env), ApplyEnvelope(env)
        PROVE  UNCHANGED projectionVars \/ AppliesNow(env)
    BY <2>4, HandledInTurn DEF ApplyEnvelope, AppliesNow
  <2> QED BY <2>2, <2>3, <2>4
<1>3. ASSUME NEW w \in Workers, Restart(w) PROVE UNCHANGED <<logVars, projectionVars>>
  BY <1>3 DEF Restart
<1>4. CASE UNCHANGED pipelineVars
  BY <1>4 DEF pipelineVars
<1> QED BY <1>1, <1>2, <1>3, <1>4 DEF Next

(* The figures are a matter of which rows have been applied. *)
LEMMA SameFigures ==
    ASSUME RevenueInv, \A s \in {"pending", "paid", "refunded"} : AppliedTo(s)' = AppliedTo(s),
           UNCHANGED <<revenue, recognised>>
    PROVE  RecognisedIsOpen' /\ RevenueIsExact'
<1>1. Open' = Open
  BY DEF Open
<1>2. RecognisedIsOpen'
  BY <1>1 DEF RevenueInv, RecognisedIsOpen
<1>3. RevenueIsExact'
  BY DEF RevenueInv, RevenueIsExact
<1> QED BY <1>2, <1>3

(* Applying an event adds its row to those of its status. *)
LEMMA AppliedGrows ==
    ASSUME LogInv, UNCHANGED outbox, NEW env \in outbox, AppliesNow(env)
    PROVE  /\ \A s : env \notin AppliedTo(s)
           /\ AppliedTo(env.to)' = AppliedTo(env.to) \cup {env}
           /\ \A s : s # env.to => AppliedTo(s)' = AppliedTo(s)
BY DEF AppliesNow, AppliedTo, LogInv, UniqueIds

(* A payment is applied before its refund, so that it finds no row of its   *)
(* order in recognised_orders and no refund among the applied rows.         *)
LEMMA PaymentFindsNothing ==
    ASSUME RevenueInv, NEW env \in outbox, env.to = "paid", env.id \notin processed, Handles(env)
    PROVE  /\ \A z \in recognised : z.order # env.order
           /\ env.order \notin OrdersOf(AppliedTo("refunded"))
<1>1. LogInv
  BY DEF RevenueInv
<1>2. ASSUME NEW x \in AppliedTo("paid") PROVE x.order # env.order
  BY <1>1, OneRowEach DEF AppliedTo
<1>3. ASSUME NEW z \in recognised PROVE z.order # env.order
  <2>1. PICK x \in Open : z = Entry(x)
    BY DEF RevenueInv, RecognisedIsOpen
  <2> QED BY <1>2, <2>1 DEF Open, Entry
<1>4. ASSUME NEW r \in AppliedTo("refunded"), r.order = env.order PROVE FALSE
  <2>1. PICK p \in outbox : p.order = r.order /\ p.to = "paid" /\ p.nth < r.nth
    BY <1>1, PaymentComesFirst DEF AppliedTo
  <2>2. p = env
    BY <1>1, <1>4, <2>1, OneRowEach
  <2> QED BY <1>4, <2>1, <2>2 DEF AppliedTo, RevenueInv, PipelineInv, AppliedInOrder
<1> QED BY <1>3, <1>4 DEF OrdersOf

LEMMA PlacedCounts ==
    ASSUME RevenueInv, UNCHANGED outbox, NEW env \in outbox, AppliesNow(env),
           env.to = "pending", CountPlaced(env)
    PROVE  RecognisedIsOpen' /\ RevenueIsExact'
<1> DEFINE e == Day(env.at)
           Placed(d) == {x \in AppliedTo("pending") : Day(x.at) = d}
<1>1. LogInv /\ revenue \in [Days -> DayTotals]
  BY DEF RevenueInv, PipelineInv, PipelineTypeOK
<1>2. /\ env \notin AppliedTo("pending")
      /\ AppliedTo("pending")' = AppliedTo("pending") \cup {env}
      /\ \A s \in {"paid", "refunded"} : AppliedTo(s)' = AppliedTo(s)
  BY <1>1, AppliedGrows
<1>3. RecognisedIsOpen'
  BY <1>2 DEF RevenueInv, RecognisedIsOpen, CountPlaced, Open
<1>4. ASSUME NEW d \in Days
      PROVE  /\ d # e => revenue'[d] = revenue[d]
             /\ d = e => /\ revenue'[d].placed = revenue[d].placed + 1
                         /\ revenue'[d].paid = revenue[d].paid
                         /\ revenue'[d].recognised = revenue[d].recognised
                         /\ revenue'[d].refunded = revenue[d].refunded
  BY <1>1 DEF CountPlaced, DayTotals
<1>5. ASSUME NEW d \in Days
      PROVE  /\ d # e => Placed(d)' = Placed(d)
             /\ d = e => Cardinality(Placed(d)') = Cardinality(Placed(d)) + 1
  <2>1. d # e => Placed(d)' = Placed(d)
    BY <1>2
  <2>2. d = e => Placed(d)' = Placed(d) \cup {env} /\ env \notin Placed(d)
    BY <1>2
  <2>3. IsFiniteSet(Placed(d))
    BY <1>1, AppliedFacts, FS_Subset
  <2> QED BY <2>1, <2>2, <2>3, FS_AddElement
<1>6. ASSUME NEW d \in Days
      PROVE  revenue'[d].placed = Cardinality(Placed(d)')
  BY <1>4, <1>5 DEF RevenueInv, RevenueIsExact
<1>7. ASSUME NEW d \in Days
      PROVE  /\ revenue'[d].paid = revenue[d].paid
             /\ revenue'[d].recognised = revenue[d].recognised
             /\ revenue'[d].refunded = revenue[d].refunded
  BY <1>4
<1> HIDE DEF e
<1>8. RevenueIsExact'
  BY <1>2, <1>6, <1>7 DEF RevenueInv, RevenueIsExact
<1> QED BY <1>3, <1>8

LEMMA PaidCounts ==
    ASSUME RevenueInv, UNCHANGED outbox, NEW env \in outbox, AppliesNow(env),
           env.to = "paid", Recognise(env)
    PROVE  RecognisedIsOpen' /\ RevenueIsExact'
<1> DEFINE e == Day(env.at)
           Paid(d) == {x \in AppliedTo("paid") : Day(x.at) = d}
           Back(d) == {x \in Paid(d) : x.order \in OrdersOf(AppliedTo("refunded"))}
<1>1. LogInv /\ revenue \in [Days -> DayTotals]
  BY DEF RevenueInv, PipelineInv, PipelineTypeOK
<1>2. /\ env \notin AppliedTo("paid")
      /\ AppliedTo("paid")' = AppliedTo("paid") \cup {env}
      /\ \A s \in {"pending", "refunded"} : AppliedTo(s)' = AppliedTo(s)
  BY <1>1, AppliedGrows
<1>3. /\ \A z \in recognised : z.order # env.order
      /\ env.order \notin OrdersOf(AppliedTo("refunded"))
  BY PaymentFindsNothing DEF AppliesNow
<1>4. RecognisedIsOpen'
  <2>1. recognised' = recognised \cup {Entry(env)}
    BY <1>3 DEF Recognise, Entry
  <2>2. Open' = Open \cup {env}
    BY <1>2, <1>3 DEF Open
  <2> QED BY <2>1, <2>2 DEF RevenueInv, RecognisedIsOpen
<1>5. ASSUME NEW d \in Days
      PROVE  /\ d # e => revenue'[d] = revenue[d]
             /\ d = e => /\ revenue'[d].placed = revenue[d].placed
                         /\ revenue'[d].paid = revenue[d].paid + 1
                         /\ revenue'[d].recognised = revenue[d].recognised + env.total
                         /\ revenue'[d].refunded = revenue[d].refunded
  BY <1>1 DEF Recognise, DayTotals
<1>6. ASSUME NEW d \in Days
      PROVE  /\ d # e => Paid(d)' = Paid(d)
             /\ d = e => /\ Cardinality(Paid(d)') = Cardinality(Paid(d)) + 1
                         /\ SumOf(Paid(d)') = SumOf(Paid(d)) + env.total
             /\ Back(d)' = Back(d)
  <2>1. d # e => Paid(d)' = Paid(d)
    BY <1>2
  <2>2. d = e => Paid(d)' = Paid(d) \cup {env} /\ env \notin Paid(d)
    BY <1>2
  <2>3. IsFiniteSet(Paid(d)) /\ \A x \in Paid(d) \cup {env} : x.total \in Nat
    <3>1. Paid(d) \subseteq AppliedTo("paid") /\ AppliedTo("paid") \subseteq outbox
      BY DEF AppliedTo
    <3> QED BY <1>1, <3>1, AppliedFacts, FS_Subset
  <2>4. Back(d)' = Back(d)
    BY <1>2, <1>3, <2>1, <2>2
  <2> HIDE DEF Paid, Back
  <2> QED BY <2>1, <2>2, <2>3, <2>4, FS_AddElement, SumOfAdds
<1>7. ASSUME NEW d \in Days
      PROVE  /\ revenue[d].placed = Cardinality({x \in AppliedTo("pending") : Day(x.at) = d})
             /\ revenue[d].paid = Cardinality(Paid(d))
             /\ revenue[d].recognised = SumOf(Paid(d))
             /\ revenue[d].refunded = SumOf(Back(d))
  BY DEF RevenueInv, RevenueIsExact
<1>8. ASSUME NEW d \in Days
      PROVE  /\ revenue'[d].placed = revenue[d].placed
             /\ revenue'[d].paid = Cardinality(Paid(d)')
             /\ revenue'[d].recognised = SumOf(Paid(d)')
             /\ revenue'[d].refunded = SumOf(Back(d)')
  <2>1. CASE d # e
    <3>1. Paid(d)' = Paid(d) /\ Back(d)' = Back(d) /\ revenue'[d] = revenue[d]
      BY <1>5, <1>6, <2>1
    <3> HIDE DEF Paid, Back, e
    <3> QED BY <1>7, <3>1
  <2>2. CASE d = e
    <3> HIDE DEF Paid, Back, e
    <3>1. /\ Cardinality(Paid(d)') = Cardinality(Paid(d)) + 1
          /\ SumOf(Paid(d)') = SumOf(Paid(d)) + env.total
          /\ Back(d)' = Back(d)
      BY <1>6, <2>2
    <3>2. /\ revenue'[d].placed = revenue[d].placed
          /\ revenue'[d].paid = revenue[d].paid + 1
          /\ revenue'[d].recognised = revenue[d].recognised + env.total
          /\ revenue'[d].refunded = revenue[d].refunded
      BY <1>5, <2>2
    <3> QED BY <1>7, <3>1, <3>2
  <2> QED BY <2>1, <2>2
<1>9. RevenueIsExact'
  BY <1>2, <1>7, <1>8 DEF RevenueIsExact
<1> QED BY <1>4, <1>9

(* A refund gives back what the payment's day recognised, or finds that     *)
(* this build applied no payment of the order.                              *)
LEMMA RefundCounts ==
    ASSUME RevenueInv, UNCHANGED outbox, NEW env \in outbox, AppliesNow(env),
           env.to = "refunded", Reverse(env)
    PROVE  RecognisedIsOpen' /\ RevenueIsExact'
<1> DEFINE Paid(d) == {x \in AppliedTo("paid") : Day(x.at) = d}
           Back(d) == {x \in Paid(d) : x.order \in OrdersOf(AppliedTo("refunded"))}
<1>1. LogInv /\ revenue \in [Days -> DayTotals]
  BY DEF RevenueInv, PipelineInv, PipelineTypeOK
<1>2. /\ env \notin AppliedTo("refunded")
      /\ AppliedTo("refunded")' = AppliedTo("refunded") \cup {env}
      /\ \A s \in {"pending", "paid"} : AppliedTo(s)' = AppliedTo(s)
  BY <1>1, AppliedGrows
<1>3. OrdersOf(AppliedTo("refunded"))' = OrdersOf(AppliedTo("refunded")) \cup {env.order}
  BY <1>2 DEF OrdersOf
<1>4. env.order \notin OrdersOf(AppliedTo("refunded"))
  <2> SUFFICES ASSUME NEW r \in AppliedTo("refunded"), r.order = env.order PROVE FALSE
    BY DEF OrdersOf
  <2>1. r = env
    BY <1>1, OneRowEach DEF AppliedTo
  <2> QED BY <1>2, <2>1
<1>5. ASSUME NEW d \in Days
      PROVE  /\ revenue[d].placed = Cardinality({x \in AppliedTo("pending") : Day(x.at) = d})
             /\ revenue[d].paid = Cardinality(Paid(d))
             /\ revenue[d].recognised = SumOf(Paid(d))
             /\ revenue[d].refunded = SumOf(Back(d))
  BY DEF RevenueInv, RevenueIsExact
<1>6. CASE \A z \in recognised : z.order # env.order
  <2>1. UNCHANGED <<revenue, recognised>>
    BY <1>6 DEF Reverse
  <2>2. ASSUME NEW x \in AppliedTo("paid"), x.order = env.order PROVE FALSE
    <3>1. x \in Open
      BY <1>4, <2>2 DEF Open
    <3>2. Entry(x) \in recognised /\ Entry(x).order = env.order
      BY <2>2, <3>1 DEF RevenueInv, RecognisedIsOpen, Entry
    <3> QED BY <1>6, <3>2
  <2>3. Open' = Open
    BY <1>2, <1>3, <2>2 DEF Open
  <2>4. RecognisedIsOpen'
    BY <2>1, <2>3 DEF RevenueInv, RecognisedIsOpen
  <2>5. \A d \in Days : Paid(d)' = Paid(d) /\ Back(d)' = Back(d)
    BY <1>2, <1>3, <2>2
  <2>6. RevenueIsExact'
    BY <1>2, <1>5, <2>1, <2>5 DEF RevenueIsExact
  <2> QED BY <2>4, <2>6
<1>7. CASE ~ \A z \in recognised : z.order # env.order
  <2>1. PICK z \in recognised :
          /\ z.order = env.order
          /\ revenue' = [revenue EXCEPT ![z.day].refunded = @ + z.amount]
          /\ recognised' = recognised \ {z}
    BY <1>7 DEF Reverse
  <2>2. PICK p \in Open : z = Entry(p)
    BY DEF RevenueInv, RecognisedIsOpen
  <2>3. /\ p \in AppliedTo("paid") /\ p \in outbox /\ p.order = env.order
        /\ z.day = Day(p.at) /\ z.amount = p.total
    BY <2>1, <2>2 DEF Open, AppliedTo, Entry
  <2>4. ASSUME NEW x \in AppliedTo("paid"), x.order = env.order PROVE x = p
    BY <1>1, <2>3, <2>4, OneRowEach DEF AppliedTo
  <2>5. RecognisedIsOpen'
    <3>1. Open' = Open \ {p}
      BY <1>2, <1>3, <2>3, <2>4 DEF Open
    <3>2. ASSUME NEW x \in Open, Entry(x) = z PROVE x = p
      BY <2>1, <2>4, <3>2 DEF Open, Entry
    <3> QED BY <2>1, <2>2, <3>1, <3>2 DEF RevenueInv, RecognisedIsOpen
  <2>6. ASSUME NEW d \in Days
        PROVE  /\ revenue'[d].placed = revenue[d].placed
               /\ revenue'[d].paid = revenue[d].paid
               /\ revenue'[d].recognised = revenue[d].recognised
               /\ d # Day(p.at) => revenue'[d].refunded = revenue[d].refunded
               /\ d = Day(p.at) => revenue'[d].refunded = revenue[d].refunded + p.total
    BY <1>1, <2>1, <2>3 DEF DayTotals
  <2>7. ASSUME NEW d \in Days
        PROVE  /\ Paid(d)' = Paid(d)
               /\ d # Day(p.at) => Back(d)' = Back(d)
               /\ d = Day(p.at) => SumOf(Back(d)') = SumOf(Back(d)) + p.total
    <3>1. Paid(d)' = Paid(d)
      BY <1>2
    <3>2. d # Day(p.at) => Back(d)' = Back(d)
      BY <1>3, <2>4, <3>1
    <3>3. d = Day(p.at) => Back(d)' = Back(d) \cup {p} /\ p \notin Back(d)
      BY <1>3, <1>4, <2>3, <2>4, <3>1
    <3>4. IsFiniteSet(Back(d)) /\ p.total \in Nat /\ \A x \in Back(d) : x.total \in Nat
      <4>1. Back(d) \subseteq AppliedTo("paid") /\ AppliedTo("paid") \subseteq outbox
        BY DEF AppliedTo
      <4> QED BY <1>1, <2>3, <4>1, AppliedFacts, FS_Subset
    <3> HIDE DEF Paid, Back
    <3> QED BY <3>1, <3>2, <3>3, <3>4, SumOfAdds
  <2>8. ASSUME NEW d \in Days
        PROVE  revenue'[d].refunded = SumOf(Back(d)')
    <3>1. CASE d = Day(p.at)
      <4>1. SumOf(Back(d)') = SumOf(Back(d)) + p.total
        BY <2>7, <3>1
      <4>2. revenue[d].refunded = SumOf(Back(d))
        BY <1>5
      <4> HIDE DEF Back
      <4> QED BY <2>6, <3>1, <4>1, <4>2
    <3>2. CASE d # Day(p.at)
      <4>1. Back(d)' = Back(d)
        BY <2>7, <3>2
      <4>2. revenue[d].refunded = SumOf(Back(d))
        BY <1>5
      <4> HIDE DEF Back
      <4> QED BY <2>6, <3>2, <4>1, <4>2
    <3> QED BY <3>1, <3>2
  <2>9. ASSUME NEW d \in Days
        PROVE  /\ revenue'[d].placed = Cardinality({x \in AppliedTo("pending") : Day(x.at) = d})
               /\ revenue'[d].paid = Cardinality(Paid(d)')
               /\ revenue'[d].recognised = SumOf(Paid(d)')
    <3>1. Paid(d)' = Paid(d)
      BY <2>7
    <3> QED BY <1>5, <2>6, <3>1
  <2>10. RevenueIsExact'
    BY <1>2, <2>8, <2>9 DEF RevenueIsExact
  <2> QED BY <2>5, <2>10
<1> QED BY <1>6, <1>7

LEMMA RevenueStep ==
    ASSUME RevenueInv, [Next]_pipelineVars
    PROVE  RevenueInv'
<1>1. PipelineInv /\ LogInv /\ PipelineInv'
  BY PipelineStep DEF RevenueInv
<1>2. CASE OrderStep
  <2>1. LogInv'
    BY <1>1, <1>2, LogInvStep DEF OrderStep
  <2>2. /\ \A s : AppliedTo(s)' = AppliedTo(s)
        /\ \A x \in outbox' : x.id \in processed => x \in outbox
        /\ UNCHANGED projectionVars
    BY <1>1, <1>2, CommitAppliesNothing
  <2>3. RecognisedIsOpen' /\ RevenueIsExact'
    BY <2>2, SameFigures DEF projectionVars
  <2>4. AppliedAreHandled'
    BY <2>2 DEF projectionVars, RevenueInv, AppliedAreHandled, Handles
  <2> QED BY <1>1, <2>1, <2>3, <2>4 DEF RevenueInv
<1>3. CASE UNCHANGED <<logVars, projectionVars>>
  <2>1. LogInv'
    BY <1>1, <1>3, LogInvStep
  <2>2. UNCHANGED <<outbox, processed, revenue, recognised>>
    BY <1>3 DEF logVars, projectionVars
  <2>3. \A s : AppliedTo(s)' = AppliedTo(s)
    BY <2>2 DEF AppliedTo
  <2>4. RecognisedIsOpen' /\ RevenueIsExact'
    BY <2>2, <2>3, SameFigures
  <2>5. AppliedAreHandled'
    BY <2>2 DEF RevenueInv, AppliedAreHandled, Handles
  <2> QED BY <1>1, <2>1, <2>4, <2>5 DEF RevenueInv
<1>4. ASSUME UNCHANGED logVars, NEW env \in outbox, AppliesNow(env) PROVE RevenueInv'
  <2>1. LogInv'
    BY <1>1, <1>4, LogInvStep
  <2>2. UNCHANGED outbox
    BY <1>4 DEF logVars
  <2>3. AppliedAreHandled'
    BY <1>1, <1>4, <2>2 DEF RevenueInv, AppliedAreHandled, Handles, AppliesNow, LogInv, UniqueIds
  <2>4. env.type = "order.created" <=> env.to = "pending"
    BY <1>1 DEF LogInv, RowsTellTheirEvents
  <2>5. CASE CountPlaced(env) /\ env.to = "pending"
    BY <1>1, <1>4, <2>1, <2>2, <2>3, <2>5, PlacedCounts DEF RevenueInv
  <2>6. CASE Recognise(env) /\ env.to = "paid"
    BY <1>1, <1>4, <2>1, <2>2, <2>3, <2>6, PaidCounts DEF RevenueInv
  <2>7. CASE Reverse(env) /\ env.to = "refunded"
    BY <1>1, <1>4, <2>1, <2>2, <2>3, <2>7, RefundCounts DEF RevenueInv
  <2>8. CASE env.to \notin {"pending", "paid", "refunded"} /\ UNCHANGED <<revenue, recognised>>
    <3>1. \A s \in {"pending", "paid", "refunded"} : AppliedTo(s)' = AppliedTo(s)
      BY <1>1, <1>4, <2>2, <2>8, AppliedGrows
    <3> QED BY <1>1, <2>1, <2>3, <2>8, <3>1, SameFigures DEF RevenueInv
  <2> QED BY <1>4, <2>4, <2>5, <2>6, <2>7, <2>8 DEF AppliesNow, Project
<1> QED BY <1>1, <1>2, <1>3, <1>4, StepKinds

LEMMA RevenueInitInv == Init => RevenueInv
<1> SUFFICES ASSUME Init PROVE RevenueInv
  OBVIOUS
<1>1. /\ outbox = {} /\ processed = {} /\ recognised = {}
      /\ events = [o \in Orders |-> <<>>]
      /\ revenue = [d \in Days |-> [placed |-> 0, paid |-> 0, recognised |-> 0, refunded |-> 0]]
  BY DEF Init, LogInit, ProjectionInit
<1>2. PipelineInv
  BY PipelineInitInv
<1>3. LogInv
  <2>1. \A o \in Orders : 1..Len(events[o]) = {}
    BY <1>1
  <2>2. FundedWasPaid /\ LogAscends
    BY <2>1 DEF FundedWasPaid, LogAscends
  <2> QED BY <1>1, <1>2, <2>2, FS_EmptySet
          DEF PipelineInv, PipelineTypeOK, LogInv, RowsTellTheirEvents
<1>4. AppliedTo("pending") = {} /\ AppliedTo("paid") = {} /\ AppliedTo("refunded") = {}
  BY <1>1 DEF AppliedTo
<1>5. AppliedAreHandled /\ RecognisedIsOpen
  BY <1>1, <1>4 DEF AppliedAreHandled, RecognisedIsOpen, Open
<1>6. RevenueIsExact
  <2>1. SumOf({}) = 0 /\ Cardinality({}) = 0
    BY SumOfNothing, FS_EmptySet DEF SumOf
  <2> SUFFICES ASSUME NEW d \in Days
               PROVE  LET paid == {x \in AppliedTo("paid") : Day(x.at) = d} IN
                      /\ revenue[d].placed = Cardinality({x \in AppliedTo("pending") : Day(x.at) = d})
                      /\ revenue[d].paid = Cardinality(paid)
                      /\ revenue[d].recognised = SumOf(paid)
                      /\ revenue[d].refunded =
                           SumOf({x \in paid : x.order \in OrdersOf(AppliedTo("refunded"))})
    BY DEF RevenueIsExact
  <2>2. /\ {x \in AppliedTo("paid") : Day(x.at) = d} = {}
        /\ {x \in AppliedTo("pending") : Day(x.at) = d} = {}
    BY <1>4
  <2>3. {x \in {} : x.order \in OrdersOf(AppliedTo("refunded"))} = {}
    OBVIOUS
  <2> QED BY <1>1, <2>1, <2>2, <2>3
<1> QED BY <1>2, <1>3, <1>5, <1>6 DEF RevenueInv

(* The figures are those of the distinct events applied, whatever was lost, *)
(* repeated, delayed or restarted on the way.                               *)
THEOREM FiguresAreExact == Spec => []RevenueIsExact
<1>1. RevenueInv => RevenueIsExact
  BY DEF RevenueInv
<1> QED BY <1>1, RevenueInitInv, RevenueStep, PTL DEF Spec
-----------------------------------------------------------------------------
(* The totals of rows may be summed by any function that tells them. *)
LEMMA SumOfAs ==
    ASSUME NEW S, IsFiniteSet(S), NEW f, \A x \in S : x.total \in Nat /\ f[x] = x.total
    PROVE  SumOf(S) = Sum(f, S)
<1> DEFINE g == [x \in S |-> x.total]
<1>1. \A x \in S : f[x] \in Nat /\ g[x] = f[x]
  OBVIOUS
<1>2. SumOf(S) = Sum(g, S)
  BY DEF SumOf
<1> HIDE DEF g
<1> QED BY <1>1, <1>2, SumAgrees

(* The rows that are left in recognised_orders account for what has not     *)
(* been refunded: the paid rows split into the refunded and the open ones.  *)
LEMMA OpenAccounts ==
    ASSUME RevenueInv, NEW d \in Days
    PROVE  LET left == {z \in recognised : z.day = d} IN
           revenue[d].recognised - revenue[d].refunded = Sum([z \in left |-> z.amount], left)
<1> DEFINE Paid == {x \in AppliedTo("paid") : Day(x.at) = d}
           Back == {x \in Paid : x.order \in OrdersOf(AppliedTo("refunded"))}
           Kept == Paid \ Back
           left == {z \in recognised : z.day = d}
           f == [x \in Paid |-> x.total]
           g == [z \in left |-> z.amount]
           b == [x \in Kept |-> Entry(x)]
<1>1. /\ revenue[d].recognised = SumOf(Paid)
      /\ revenue[d].refunded = SumOf(Back)
  BY DEF RevenueInv, RevenueIsExact
<1>2. LogInv /\ AppliedTo("paid") \subseteq outbox
  BY DEF RevenueInv, AppliedTo
<1>3. /\ IsFiniteSet(Paid) /\ IsFiniteSet(Back) /\ IsFiniteSet(Kept)
      /\ \A x \in Paid : x.total \in Nat /\ f[x] = x.total
  BY <1>2, AppliedFacts, FS_Subset
<1>4. /\ \A x, y \in Kept : b[x] = b[y] => x = y
      /\ \A x \in Kept : g[b[x]] = f[x]
      /\ left = {b[x] : x \in Kept}
  <2>1. Kept = {x \in Open : Day(x.at) = d}
    BY DEF Open
  <2>2. \A x \in Kept : b[x] = Entry(x) /\ x \in outbox /\ x.to = "paid" /\ x \in Paid
    BY DEF AppliedTo
  <2>3. left = {b[x] : x \in Kept}
    <3>1. ASSUME NEW z \in left PROVE \E x \in Kept : z = b[x]
      <4>1. PICK x \in Open : z = Entry(x)
        BY DEF RevenueInv, RecognisedIsOpen
      <4>2. x \in Kept
        BY <2>1, <4>1 DEF Entry
      <4> QED BY <2>2, <4>1, <4>2
    <3>2. ASSUME NEW x \in Kept PROVE b[x] \in left
      BY <2>1, <2>2 DEF RevenueInv, RecognisedIsOpen, Entry
    <3> HIDE DEF b, left, Kept
    <3> QED BY <3>1, <3>2
  <2>4. ASSUME NEW x \in Kept, NEW y \in Kept, b[x] = b[y] PROVE x = y
    <3>1. x.order = y.order /\ x \in outbox /\ y \in outbox /\ x.to = y.to
      BY <2>2, <2>4 DEF Entry
    <3> QED BY <1>2, <3>1, OneRowEach
  <2>5. ASSUME NEW x \in Kept PROVE g[b[x]] = f[x]
    <3>1. b[x] \in left /\ b[x].amount = x.total /\ x \in Paid
      BY <2>2, <2>3 DEF Entry
    <3> QED BY <3>1
  <2> QED BY <2>3, <2>4, <2>5
<1>5. SumOf(Paid) = Sum(f, Paid) /\ SumOf(Back) = Sum(f, Back)
  <2>1. \A x \in Back : x \in Paid
    OBVIOUS
  <2> HIDE DEF f, Paid, Back
  <2> QED BY <1>3, <2>1, SumOfAs
<1>6. Sum(f, Paid) = Sum(f, Back) + Sum(f, Kept)
  <2>1. Back \in SUBSET Paid
    OBVIOUS
  <2> HIDE DEF f, Paid, Back
  <2> QED BY <1>3, <2>1, SumSplits
<1>7. Sum(g, left) = Sum(f, Kept)
  <2>1. \A x \in Kept : f[x] \in Nat
    BY <1>3
  <2> HIDE DEF f, g, b, left, Kept
  <2> QED BY <1>3, <1>4, <2>1, SumRenamed
<1>8. Sum(f, Back) \in Nat /\ Sum(f, Kept) \in Nat
  <2>1. Back \subseteq Paid /\ Kept \subseteq Paid
    OBVIOUS
  <2> HIDE DEF f, Paid, Back, Kept
  <2> QED BY <1>3, <2>1, SumType
<1> HIDE DEF f, Paid, Back, Kept
<1> QED BY <1>1, <1>5, <1>6, <1>7, <1>8

(* What is recognised is what was paid and not given back: of a refunded    *)
(* order nothing stays recognised.                                          *)
THEOREM RefundsLeaveNothing == Spec => []NothingRecognisedAfterRefund
<1>1. RevenueInv => NothingRecognisedAfterRefund
  <2> SUFFICES ASSUME RevenueInv PROVE NothingRecognisedAfterRefund
    OBVIOUS
  <2>1. ASSUME NEW x \in AppliedTo("refunded"), NEW z \in recognised PROVE z.order # x.order
    <3>1. PICK p \in Open : z = Entry(p)
      BY DEF RevenueInv, RecognisedIsOpen
    <3> QED BY <3>1 DEF Open, Entry, OrdersOf
  <2> QED BY <2>1, OpenAccounts DEF NothingRecognisedAfterRefund
<1> QED BY <1>1, RevenueInitInv, RevenueStep, PTL DEF Spec
-----------------------------------------------------------------------------
(* When every event is of the version this build implements, what has been  *)
(* applied of an order is a prefix of its log.                              *)
AppliedPrefix ==
    /\ \A x \in outbox : x.id \in processed <=> x.nth <= AppliedCount(x.order)
    /\ \A o \in Orders : AppliedCount(o) \in 0..Len(events[o])

Posted == [o \in Orders |-> AppliedCount(o)]

LedgerInv == RevenueInv /\ AppliedPrefix

(* A set has as many members as a renaming of it. *)
LEMMA CountRenamed ==
    ASSUME NEW S, IsFiniteSet(S), NEW b, \A x, y \in S : b[x] = b[y] => x = y
    PROVE  Cardinality({b[x] : x \in S}) = Cardinality(S)
<1> DEFINE T == {b[x] : x \in S}
<1>1. ExistsBijection(S, T)
  <2> DEFINE m == [x \in S |-> b[x]]
  <2>1. m \in Bijection(S, T)
    BY DEF Bijection, Injection, Surjection, IsInjective
  <2> QED BY <2>1 DEF ExistsBijection
<1> HIDE DEF T
<1>2. Cardinality(T) = Cardinality(S)
  BY <1>1, FS_Bijection
<1> QED BY <1>2 DEF T

(* The ledger counts and sums as the pipeline does. *)
LEMMA LedgerArithmetic ==
    ASSUME NEW S
    PROVE  Ledger!Cardinality(S) = Cardinality(S) /\ Ledger!Money(S) = Sum(TotalMinor, S)
<1>1. Ledger!Cardinality(S) = Cardinality(S)
  BY DEF Ledger!Cardinality, Cardinality
<1>2. Ledger!Sum(TotalMinor, S) = Sum(TotalMinor, S)
  BY DEF Ledger!Sum, Sum, Ledger!MapThenSumSet, MapThenSumSet, Ledger!MapThenFoldSet, MapThenFoldSet
<1> QED BY <1>1, <1>2 DEF Ledger!Money

(* The ledger's posted events of a status are the applied rows of it. *)
LEMMA PostedAreApplied ==
    ASSUME LedgerInv, NEW o \in Orders, NEW s, NEW i
    PROVE  i \in Ledger!PostedTo(events, Posted, o, s)
             <=> \E x \in AppliedTo(s) : x.order = o /\ x.nth = i
<1>1. /\ Posted[o] = AppliedCount(o) /\ AppliedCount(o) \in 0..Len(events[o])
      /\ Len(events[o]) \in Nat /\ LogInv /\ OutboxFollowsLog
  BY DEF Posted, LedgerInv, AppliedPrefix, RevenueInv, LogInv, LogTypeOK
<1>2. ASSUME i \in 1..Posted[o], events[o][i].to = s
      PROVE  \E x \in AppliedTo(s) : x.order = o /\ x.nth = i
  <2>1. i \in 1..Len(events[o]) /\ i <= AppliedCount(o)
    BY <1>1, <1>2
  <2>2. PICK x \in outbox : x.order = o /\ x.nth = i
    BY <1>1, <2>1 DEF OutboxFollowsLog
  <2>3. x.to = s /\ x.id \in processed
    BY <1>1, <1>2, <2>1, <2>2 DEF OutboxFollowsLog, LedgerInv, AppliedPrefix
  <2> QED BY <2>2, <2>3 DEF AppliedTo
<1>3. ASSUME NEW x \in AppliedTo(s), x.order = o, x.nth = i
      PROVE  i \in 1..Posted[o] /\ events[o][i].to = s
  <2>1. x \in outbox /\ x.to = s /\ x.id \in processed
    BY DEF AppliedTo
  <2>2. x.nth \in 1..Len(events[o]) /\ events[o][x.nth].to = s /\ x.nth <= AppliedCount(o)
    BY <1>1, <1>3, <2>1 DEF OutboxFollowsLog, LedgerInv, AppliedPrefix
  <2> QED BY <1>1, <1>3, <2>2
<1> QED BY <1>2, <1>3 DEF Ledger!PostedTo

(* An order counts for a day by the time of its event, a row by its own:    *)
(* they are the same.                                                       *)
LEMMA PostedOnADay ==
    ASSUME LedgerInv, NEW s, NEW d
    PROVE  {o \in Orders : \E i \in Ledger!PostedTo(events, Posted, o, s) : Day(events[o][i].at) = d}
             = {x.order : x \in {y \in AppliedTo(s) : Day(y.at) = d}}
<1>1. \A x \in AppliedTo(s) : x.order \in Orders /\ x.at = events[x.order][x.nth].at
  BY AppliedFacts DEF LedgerInv, RevenueInv, LogInv, RowsTellTheirEvents, AppliedTo
<1>2. ASSUME NEW o \in Orders, NEW i \in Ledger!PostedTo(events, Posted, o, s), Day(events[o][i].at) = d
      PROVE  \E x \in AppliedTo(s) : x.order = o /\ Day(x.at) = d
  BY <1>1, <1>2, PostedAreApplied
<1>3. ASSUME NEW x \in AppliedTo(s), Day(x.at) = d
      PROVE  \E i \in Ledger!PostedTo(events, Posted, x.order, s) : Day(events[x.order][i].at) = d
  BY <1>1, <1>3, PostedAreApplied
<1> QED BY <1>1, <1>2, <1>3

(* The figures of the projection are those of the ledger. *)
LEMMA FiguresAreTheLedgers ==
    ASSUME LedgerInv
    PROVE  revenue = Ledger!Figures(events, Posted)
<1> DEFINE On(s, d) == {x \in AppliedTo(s) : Day(x.at) = d}
           Back(d) == {x \in On("paid", d) : x.order \in OrdersOf(AppliedTo("refunded"))}
           b == [x \in outbox |-> x.order]
<1>1. /\ LogInv /\ OutboxFollowsLog /\ revenue \in [Days -> DayTotals]
      /\ \A s : AppliedTo(s) \subseteq outbox
  BY DEF LedgerInv, RevenueInv, LogInv, PipelineInv, PipelineTypeOK, AppliedTo
<1>2. ASSUME NEW s, NEW S \in SUBSET AppliedTo(s)
      PROVE  /\ IsFiniteSet(S)
             /\ \A x, y \in S : b[x] = b[y] => x = y
             /\ {x.order : x \in S} = {b[x] : x \in S}
             /\ \A x \in S : x.total \in Nat /\ TotalMinor[b[x]] = x.total
  <2>1. IsFiniteSet(S)
    BY <1>1, AppliedFacts, FS_Subset
  <2>2. \A x \in S : x \in outbox /\ b[x] = x.order /\ x.to = s
    BY DEF AppliedTo
  <2>3. \A x \in S : x.total \in Nat /\ TotalMinor[x.order] = x.total
    BY <1>1, <2>2, AppliedFacts DEF LogInv, RowsTellTheirEvents
  <2>4. {x.order : x \in S} = {b[x] : x \in S}
    BY <2>2
  <2> HIDE DEF b
  <2> QED BY <1>1, <2>1, <2>2, <2>3, <2>4, OneRowEach
<1>3. ASSUME NEW s, NEW S \in SUBSET AppliedTo(s)
      PROVE  /\ Cardinality({x.order : x \in S}) = Cardinality(S)
             /\ Ledger!Money({x.order : x \in S}) = SumOf(S)
  <2> DEFINE f == [x \in S |-> x.total]
  <2>1. \A x \in S : f[x] \in Nat /\ TotalMinor[b[x]] = f[x]
    BY <1>2
  <2>2. SumOf(S) = Sum(f, S)
    BY DEF SumOf
  <2> HIDE DEF f, b
  <2>3. Sum(TotalMinor, {b[x] : x \in S}) = Sum(f, S)
    BY <1>2, <2>1, SumRenamed
  <2>4. Cardinality({b[x] : x \in S}) = Cardinality(S)
    <3>1. IsFiniteSet(S) /\ \A x, y \in S : b[x] = b[y] => x = y
      BY <1>2
    <3> QED BY <3>1, CountRenamed
  <2> QED BY <1>2, <2>2, <2>3, <2>4, LedgerArithmetic
<1>4. ASSUME NEW d \in Days
      PROVE  /\ {o \in Orders : \E i \in Ledger!PostedTo(events, Posted, o, "pending") :
                                  Day(events[o][i].at) = d}
                  = {x.order : x \in On("pending", d)}
             /\ {o \in Orders : Ledger!PaidOn(events, Posted, o, d)} = {x.order : x \in On("paid", d)}
  BY PostedOnADay DEF Ledger!PaidOn
<1>5. ASSUME NEW d \in Days
      PROVE  {o \in Orders : Ledger!PaidOn(events, Posted, o, d)
                               /\ Ledger!PostedTo(events, Posted, o, "refunded") # {}}
               = {x.order : x \in Back(d)}
  <2>1. \A o \in Orders : Ledger!PostedTo(events, Posted, o, "refunded") # {}
                            <=> o \in OrdersOf(AppliedTo("refunded"))
    BY PostedAreApplied DEF OrdersOf
  <2>2. \A o \in Orders : Ledger!PaidOn(events, Posted, o, d) <=> o \in {x.order : x \in On("paid", d)}
    BY <1>4
  <2>3. \A x \in On("paid", d) : x.order \in Orders
    BY <1>1, AppliedFacts
  <2> QED BY <2>1, <2>2, <2>3
<1>6. ASSUME NEW d \in Days
      PROVE  revenue[d] = Ledger!Figures(events, Posted)[d]
  <2>1. /\ revenue[d].placed = Cardinality(On("pending", d))
        /\ revenue[d].paid = Cardinality(On("paid", d))
        /\ revenue[d].recognised = SumOf(On("paid", d))
        /\ revenue[d].refunded = SumOf(Back(d))
    BY DEF LedgerInv, RevenueInv, RevenueIsExact
  <2>2. /\ On("pending", d) \in SUBSET AppliedTo("pending")
        /\ On("paid", d) \in SUBSET AppliedTo("paid")
        /\ Back(d) \in SUBSET AppliedTo("paid")
    OBVIOUS
  <2>3. Ledger!Figures(events, Posted)[d]
          = [placed |-> Cardinality({x.order : x \in On("pending", d)}),
             paid |-> Cardinality({x.order : x \in On("paid", d)}),
             recognised |-> Ledger!Money({x.order : x \in On("paid", d)}),
             refunded |-> Ledger!Money({x.order : x \in Back(d)})]
    <3> HIDE DEF On, Back
    <3> QED BY <1>4, <1>5, LedgerArithmetic DEF Ledger!Figures
  <2>4. revenue[d] = [placed |-> revenue[d].placed, paid |-> revenue[d].paid,
                      recognised |-> revenue[d].recognised, refunded |-> revenue[d].refunded]
    BY <1>1 DEF DayTotals
  <2> HIDE DEF On, Back
  <2> QED BY <1>3, <2>1, <2>2, <2>3, <2>4
<1>7. Ledger!Figures(events, Posted) = [d \in Days |-> Ledger!Figures(events, Posted)[d]]
  BY DEF Ledger!Figures
<1> QED BY <1>1, <1>6, <1>7
-----------------------------------------------------------------------------
(* The rows of an order are where the log says, and a prefix of them stays  *)
(* one: the next to be applied is the first that is not.                    *)
AppliedRows(o) == {x \in outbox : x.order = o /\ x.id \in processed}

LEMMA AppliedCountSteps ==
    ASSUME LedgerInv, UNCHANGED logVars, NEW env \in outbox, AppliesNow(env), Versions = {Version}
    PROVE  /\ env.order \in Orders
           /\ env.nth = AppliedCount(env.order) + 1
           /\ env.nth <= Len(events[env.order])
           /\ AppliedCount(env.order)' = AppliedCount(env.order) + 1
           /\ \A o \in Orders : o # env.order => AppliedCount(o)' = AppliedCount(o)
<1>1. /\ LogInv /\ OutboxFollowsLog /\ UniqueIds /\ UNCHANGED <<events, outbox>>
      /\ processed' = processed \cup {env.id} /\ env.id \notin processed
  BY DEF LedgerInv, RevenueInv, LogInv, AppliesNow, logVars
<1>2. \A x \in outbox : Handles(x) /\ x.order \in Orders /\ x.nth \in Nat
  BY <1>1 DEF LogInv, LogTypeOK, Row, Handles
<1> DEFINE o == env.order
           k == AppliedCount(o)
<1>3. k \in 0..Len(events[o]) /\ o \in Orders /\ Len(events[o]) \in Nat
      /\ env.nth \in 1..Len(events[o])
      /\ ~(env.nth <= k)
  BY <1>1, <1>2 DEF LedgerInv, AppliedPrefix, LogInv, LogTypeOK, OutboxFollowsLog
<1>4. env.nth <= k + 1
  <2> SUFFICES ASSUME k + 1 < env.nth PROVE FALSE
    BY <1>3
  <2>1. k + 1 \in 1..Len(events[o])
    BY <1>3
  <2>2. PICK x \in outbox : x.order = o /\ x.nth = k + 1
    BY <1>1, <1>3, <2>1 DEF OutboxFollowsLog
  <2>3. x.id \in processed
    BY <1>2, <2>2 DEF AppliesNow
  <2>4. x.nth <= k
    BY <2>2, <2>3 DEF LedgerInv, AppliedPrefix
  <2> QED BY <1>3, <2>2, <2>4
<1>5. \A q : IsFiniteSet(AppliedRows(q)) /\ AppliedCount(q) = Cardinality(AppliedRows(q))
             /\ AppliedCount(q)' = Cardinality(AppliedRows(q)')
  <2>1. \A q : AppliedRows(q) \subseteq outbox
    BY DEF AppliedRows
  <2>2. \A q : IsFiniteSet(AppliedRows(q))
    BY <1>1, <2>1, FS_Subset DEF LogInv
  <2> QED BY <2>2 DEF AppliedRows, AppliedCount
<1>6. AppliedRows(o)' = AppliedRows(o) \cup {env} /\ env \notin AppliedRows(o)
  BY <1>1 DEF AppliedRows, UniqueIds
<1>7. \A q : q # o => AppliedRows(q)' = AppliedRows(q)
  BY <1>1 DEF AppliedRows, UniqueIds
<1>8. AppliedCount(o)' = k + 1
  BY <1>5, <1>6, FS_AddElement
<1>9. \A q : q # o => AppliedCount(q)' = AppliedCount(q)
  BY <1>5, <1>7
<1> QED BY <1>3, <1>4, <1>8, <1>9

LEMMA SameCounts ==
    ASSUME NEW o, {x \in outbox : x.order = o /\ x.id \in processed}'
                    = {x \in outbox : x.order = o /\ x.id \in processed}
    PROVE  AppliedCount(o)' = AppliedCount(o)
BY DEF AppliedCount

(* A commit lengthens one log and posts nothing. *)
LEMMA CommitIsLedgered ==
    ASSUME LedgerInv, OrderStep
    PROVE  AppliedPrefix' /\ UNCHANGED <<Posted, revenue>> /\ \E o \in Orders : Ledger!Log(o)
<1>1. PICK o \in Orders, to \in Targets \cup {"pending"}, at \in 0..MaxTime,
           v \in Versions, id \in 1..MaxRows : LogEvent(o, to, at, v, id)
  BY DEF OrderStep, LogNext
<1>2. LogInv /\ LogTypeOK /\ OutboxFollowsLog /\ PipelineInv /\ LogTypeOK'
  BY LogInvStep DEF LedgerInv, RevenueInv, LogInv, OrderStep
<1> DEFINE n == Len(events[o])
           row == Envelope(o, id, StatusAfter(events[o]), to, at, v)
           e == [from |-> StatusAfter(events[o]), to |-> to, at |-> at]
<1>3. /\ \A q \in Orders \ {o} : events'[q] = events[q]
      /\ Len(events'[o]) = n + 1 /\ n \in Nat
  BY <1>1, <1>2, LogGrowth
<1>4. /\ events \in [Orders -> Seq(Event)] /\ events' \in [Orders -> Seq(Event)]
      /\ events' = [events EXCEPT ![o] = Append(@, e)]
  BY <1>1, <1>2 DEF LogTypeOK, LogEvent, Record
<1>5. /\ outbox' = outbox \cup {row}
      /\ row.id = id /\ row.order = o /\ row.nth = n + 1
      /\ \A x \in outbox : x.id # id
  BY <1>1 DEF LogEvent, Record, Envelope, FreshId
<1> HIDE DEF row
<1>6. UNCHANGED <<processed, revenue>> /\ id \notin processed
  <2>1. processed \subseteq RowIds
    BY <1>2 DEF PipelineInv, Known
  <2> QED BY <1>5, <2>1 DEF OrderStep, projectionVars, RowIds
<1>7. \A q \in Orders : AppliedCount(q)' = AppliedCount(q)
  <2> SUFFICES ASSUME NEW q \in Orders PROVE AppliedCount(q)' = AppliedCount(q)
    OBVIOUS
  <2>1. {x \in outbox : x.order = q /\ x.id \in processed}'
          = {x \in outbox : x.order = q /\ x.id \in processed}
    BY <1>5, <1>6
  <2> QED BY <2>1, SameCounts
<1>8. UNCHANGED Posted
  BY <1>7 DEF Posted
<1>9. AppliedPrefix'
  <2>1. \A q \in Orders : AppliedCount(q) \in 0..Len(events[q]) /\ Len(events[q]) \in Nat
    BY <1>4 DEF LedgerInv, AppliedPrefix
  <2>2. \A q \in Orders : AppliedCount(q)' \in 0..Len(events'[q])
    BY <1>3, <1>7, <2>1
  <2>3. ASSUME NEW x \in outbox' PROVE x.id \in processed' <=> x.nth <= AppliedCount(x.order)'
    <3>1. CASE x = row
      BY <1>3, <1>5, <1>6, <1>7, <2>1, <3>1
    <3>2. CASE x \in outbox
      <4>1. x.order \in Orders
        BY <1>2, <3>2 DEF LogTypeOK, Row
      <4> QED BY <1>6, <1>7, <3>2, <4>1 DEF LedgerInv, AppliedPrefix
    <3> QED BY <1>5, <3>1, <3>2
  <2> QED BY <2>2, <2>3 DEF AppliedPrefix
<1>10. Ledger!Log(o)
  <2>1. SubSeq(events'[o], 1, Len(events[o])) = events[o]
    <3>1. events[o] \in Seq(Event) /\ e \in Event
      BY <1>4
    <3> QED BY <1>4, <3>1
  <2>2. events' = [events EXCEPT ![o] = events'[o]]
    BY <1>4
  <2> QED BY <1>3, <1>6, <1>8, <2>1, <2>2 DEF Ledger!Log, Posted
<1> QED BY <1>6, <1>8, <1>9, <1>10

(* The figures after a step are the ledger's of the state after it. *)
LEMMA FiguresAfterwards ==
    LedgerInv' => revenue' = Ledger!Figures(events, Posted)'
<1>1. LedgerInv => revenue = Ledger!Figures(events, Posted)
  BY FiguresAreTheLedgers
<1>2. LedgerInv' => (revenue = Ledger!Figures(events, Posted))'
  BY <1>1, PTL
<1> QED BY <1>2

LEMMA LedgerInitInv == Init => LedgerInv /\ Ledger!Init
<1> SUFFICES ASSUME Init PROVE LedgerInv /\ Ledger!Init
  OBVIOUS
<1>1. outbox = {} /\ events = [o \in Orders |-> <<>>]
  BY DEF Init, LogInit
<1>2. \A o \in Orders : AppliedCount(o) = 0
  <2>1. \A o : {x \in outbox : x.order = o /\ x.id \in processed} = {}
    BY <1>1
  <2> QED BY <2>1, FS_EmptySet DEF AppliedCount
<1>3. LedgerInv
  BY <1>1, <1>2, RevenueInitInv DEF LedgerInv, AppliedPrefix
<1>4. Posted = [o \in Orders |-> 0]
  BY <1>2 DEF Posted
<1>5. revenue = Ledger!Figures(events, Posted)
  BY <1>3, FiguresAreTheLedgers
<1> QED BY <1>1, <1>3, <1>4, <1>5 DEF Ledger!Init, Posted

(* Every step of the pipeline logs an event, posts one or is none of the    *)
(* ledger's.                                                                *)
LEMMA LedgerStep ==
    ASSUME Versions = {Version}, LedgerInv, [Next]_pipelineVars
    PROVE  LedgerInv' /\ [Ledger!Next]_(Ledger!ledgerVars)
<1>1. RevenueInv /\ RevenueInv' /\ LogInv
  BY RevenueStep DEF LedgerInv, RevenueInv
<1>2. CASE OrderStep
  <2>1. LedgerInv'
    BY <1>1, <1>2, CommitIsLedgered DEF LedgerInv
  <2> QED BY <1>2, <2>1, CommitIsLedgered DEF Ledger!Next
<1>3. CASE UNCHANGED <<logVars, projectionVars>>
  <2>1. UNCHANGED <<events, outbox, processed, revenue>>
    BY <1>3 DEF logVars, projectionVars
  <2>2. \A o : AppliedCount(o)' = AppliedCount(o)
    <3>1. \A o : {x \in outbox : x.order = o /\ x.id \in processed}'
                   = {x \in outbox : x.order = o /\ x.id \in processed}
      BY <2>1
    <3> QED BY <3>1, SameCounts
  <2>3. AppliedPrefix'
    BY <2>1, <2>2 DEF LedgerInv, AppliedPrefix
  <2>4. UNCHANGED Ledger!ledgerVars
    BY <2>1, <2>2 DEF Ledger!ledgerVars
  <2> QED BY <1>1, <2>3, <2>4 DEF LedgerInv
<1>4. ASSUME UNCHANGED logVars, NEW env \in outbox, AppliesNow(env)
      PROVE  LedgerInv' /\ Ledger!Next
  <2> DEFINE o == env.order
  <2>1. /\ o \in Orders /\ env.nth = AppliedCount(o) + 1 /\ env.nth <= Len(events[o])
        /\ AppliedCount(o)' = AppliedCount(o) + 1
        /\ \A q \in Orders : q # o => AppliedCount(q)' = AppliedCount(q)
        /\ UNCHANGED <<events, outbox>>
    BY <1>4, AppliedCountSteps DEF logVars
  <2>2. /\ \A q \in Orders : AppliedCount(q) \in 0..Len(events[q]) /\ Len(events[q]) \in Nat
        /\ \A x \in outbox : x.order \in Orders /\ x.nth \in Nat
    BY <1>1 DEF LedgerInv, AppliedPrefix, LogInv, LogTypeOK, Row
  <2>3. AppliedPrefix'
    <3>1. ASSUME NEW x \in outbox PROVE x.id \in processed' <=> x.nth <= AppliedCount(x.order)'
      <4>1. x.id \in processed' <=> x.id \in processed \/ x = env
        BY <1>1, <1>4 DEF AppliesNow, LogInv, UniqueIds
      <4>2. x.id \in processed <=> x.nth <= AppliedCount(x.order)
        BY DEF LedgerInv, AppliedPrefix
      <4>3. CASE x.order # o
        BY <2>1, <2>2, <4>1, <4>2, <4>3
      <4>4. CASE x.order = o
        <5>1. x.nth = env.nth => x = env
          BY <1>1, <4>4, OneRowEach DEF LogInv, OutboxFollowsLog
        <5> QED BY <2>1, <2>2, <4>1, <4>2, <4>4, <5>1
      <4> QED BY <4>3, <4>4
    <3>2. \A q \in Orders : AppliedCount(q)' \in 0..Len(events[q])
      <4> SUFFICES ASSUME NEW q \in Orders PROVE AppliedCount(q)' \in 0..Len(events[q])
        OBVIOUS
      <4>1. CASE q = o
        BY <2>1, <2>2, <4>1
      <4>2. CASE q # o
        BY <2>1, <2>2, <4>2
      <4> QED BY <4>1, <4>2
    <3> QED BY <2>1, <3>1, <3>2 DEF AppliedPrefix
  <2>4. LedgerInv'
    BY <1>1, <2>3 DEF LedgerInv
  <2>5. Ledger!Post(o)
    <3>1. Posted' = [Posted EXCEPT ![o] = @ + 1]
      BY <2>1 DEF Posted
    <3>2. Posted[o] < Len(events[o])
      BY <2>1, <2>2 DEF Posted
    <3>3. revenue' = Ledger!Figures(events, Posted')
      BY <2>1, <2>4, FiguresAfterwards DEF Ledger!Figures
    <3> QED BY <2>1, <3>1, <3>2, <3>3 DEF Ledger!Post, Posted
  <2> QED BY <2>1, <2>4, <2>5 DEF Ledger!Next
<1> QED BY <1>1, <1>2, <1>3, <1>4, StepKinds DEF LedgerInv, RevenueInv

(* The pipeline implements the ledger: with one version of the envelope,    *)
(* everything between the log and the figures is invisible but the posting  *)
(* of an order's next event.                                                *)
THEOREM PipelineImplementsLedger ==
    ASSUME Versions = {Version}
    PROVE  Spec => Ledger!Init /\ [][Ledger!Next]_(Ledger!ledgerVars)
<1>1. Init => LedgerInv /\ Ledger!Init
  BY LedgerInitInv
<1>2. LedgerInv /\ [Next]_pipelineVars => LedgerInv' /\ [Ledger!Next]_(Ledger!ledgerVars)
  BY LedgerStep
<1> QED BY <1>1, <1>2, PTL DEF Spec
=============================================================================
