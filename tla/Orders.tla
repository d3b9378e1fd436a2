------------------------------- MODULE Orders -------------------------------
(***************************************************************************)
(* The write side of the Orders service: orders, their event log and the   *)
(* outbox, changed only by PostgreSQL transactions                         *)
(* (services/orders/internal/order/service.go and postgres.go).            *)
(*                                                                         *)
(* A request runs one transaction.  What other transactions can observe of *)
(* it before it commits is its row lock and the outbox id it drew from the *)
(* BIGSERIAL sequence, so a transaction is four steps: BEGIN (which fixes  *)
(* now()), lock-and-check, write, COMMIT.  Any open transaction may roll   *)
(* back: an error, a cancelled context and a crash of the API all do that. *)
(***************************************************************************)
EXTENDS OrderLog

CONSTANT Requests     \* requests in progress at one time, at most

VARIABLES status,     \* orders.status of committed rows; None: no such row
          nextRow,    \* the outbox id sequence
          clock,      \* the database's clock
          txn         \* each request's transaction

orderVars == <<logVars, status, nextRow, clock, txn>>

NoTxn == [phase |-> "idle", order |-> None, from |-> None, to |-> None,
          at |-> 0, version |-> 0, row |-> 0]

OpenTxn == [phase : {"begun", "creating", "locked", "written"}, order : Orders,
            from : Status \cup {None}, to : Status, at : 0..MaxTime,
            version : Versions, row : 0..MaxRows]

TypeOK ==
    /\ LogTypeOK
    /\ status \in [Orders -> Status \cup {None}]
    /\ nextRow \in 1..(MaxRows + 1)
    /\ clock \in 0..MaxTime
    /\ txn \in [Requests -> OpenTxn \cup {NoTxn}]

OrdersInit ==
    /\ LogInit
    /\ status = [o \in Orders |-> None]
    /\ nextRow = 1
    /\ clock = 0
    /\ txn = [r \in Requests |-> NoTxn]
-----------------------------------------------------------------------------
(* BEGIN: now() is from here on the time of this step, whenever the         *)
(* transaction gets its lock or commits.                                    *)
Begin(r, phase, o, to) ==
    /\ txn[r] = NoTxn
    /\ \E v \in Versions :
         txn' = [txn EXCEPT ![r] = [NoTxn EXCEPT !.phase = phase, !.order = o,
                                                 !.to = to, !.at = clock, !.version = v]]
    /\ UNCHANGED <<logVars, status, nextRow, clock>>

(* POST /orders: the lines are already resolved against Catalog. *)
Create(r, o) ==
    /\ status[o] = None
    /\ \A q \in Requests : txn[q].phase \in {"creating", "written"} => txn[q].order # o
    /\ Begin(r, "creating", o, "pending")

(* The three lifecycle endpoints, which differ only in the target.  The     *)
(* order exists: a request for an unknown id changes nothing.               *)
SetStatus(r, o, to) ==
    status[o] # None /\ to \in SetStatusTargets /\ Begin(r, "begun", o, to)
Cancel(r, o, to) ==
    status[o] # None /\ to \in CancelTargets /\ Begin(r, "begun", o, to)
Refund(r, o, to) ==
    status[o] # None /\ to \in RefundTargets /\ Begin(r, "begun", o, to)

(* SELECT without FOR UPDATE. *)
NoRowLock(r, o) == TRUE

(* Nobody else holds the order's row: SELECT ... FOR UPDATE would not wait. *)
RowFree(r, o) ==
    \A q \in Requests \ {r} : txn[q].phase \in {"locked", "written"} => txn[q].order # o

(* GetStatusForUpdate waits for the row lock, then reads the latest         *)
(* committed status; CanTransition is decided on that.                      *)
GetStatusForUpdate(r) ==
    /\ txn[r].phase = "begun"
    /\ RowFree(r, txn[r].order)
    /\ CanTransition(status[txn[r].order], txn[r].to)
    /\ txn' = [txn EXCEPT ![r].phase = "locked", ![r].from = status[txn[r].order]]
    /\ UNCHANGED <<logVars, status, nextRow, clock>>

(* UpdateStatus (a compare-and-set on the status read), InsertEvent and     *)
(* InsertOutbox; for a creation the order's own inserts instead of the      *)
(* update.  The sequence hands out the row's id here, before the commit.    *)
(* The UPDATE would wait for the row as well; that is left out, so that the *)
(* lock of GetStatusForUpdate alone has to keep two requests apart.         *)
Write(r) ==
    /\ nextRow <= MaxRows
    /\ \/ txn[r].phase = "locked" /\ status[txn[r].order] = txn[r].from
       \/ txn[r].phase = "creating"
    /\ txn' = [txn EXCEPT ![r].phase = "written", ![r].row = nextRow]
    /\ nextRow' = nextRow + 1
    /\ UNCHANGED <<logVars, status, clock>>

(* A transaction per statement: the status is stored, its event is not. *)
CommitStatusOnly(r) ==
    /\ txn[r].phase = "written"
    /\ status' = [status EXCEPT ![txn[r].order] = txn[r].to]
    /\ txn' = [txn EXCEPT ![r] = NoTxn]
    /\ UNCHANGED <<logVars, nextRow, clock>>

(* The event and its envelope with the two statuses exchanged. *)
CommitSwapped(r) ==
    LET t == txn[r] IN
    /\ t.phase = "written"
    /\ status' = [status EXCEPT ![t.order] = t.to]
    /\ Record(t.order, t.row, t.to, t.from, t.at, t.version)
    /\ txn' = [txn EXCEPT ![r] = NoTxn]
    /\ UNCHANGED <<nextRow, clock>>

(* COMMIT: status, event and outbox row appear together. *)
Commit(r) ==
    LET t == txn[r] IN
    /\ t.phase = "written"
    /\ status' = [status EXCEPT ![t.order] = t.to]
    /\ Record(t.order, t.row, t.from, t.to, t.at, t.version)
    /\ txn' = [txn EXCEPT ![r] = NoTxn]
    /\ UNCHANGED <<nextRow, clock>>

(* An error return (order not found, transition refused, a statement that   *)
(* fails), a cancelled request or a crash: nothing of it remains, except    *)
(* that the sequence does not go back.                                      *)
Rollback(r) ==
    /\ txn[r] # NoTxn
    /\ txn' = [txn EXCEPT ![r] = NoTxn]
    /\ UNCHANGED <<logVars, status, nextRow, clock>>

Tick ==
    /\ clock < MaxTime
    /\ clock' = clock + 1
    /\ UNCHANGED <<logVars, status, nextRow, txn>>

OrdersNext ==
    \/ \E r \in Requests, o \in Orders :
         \/ Create(r, o)
         \/ \E to \in Targets : SetStatus(r, o, to) \/ Cancel(r, o, to) \/ Refund(r, o, to)
    \/ \E r \in Requests :
         GetStatusForUpdate(r) \/ Write(r) \/ Commit(r) \/ Rollback(r)
    \/ Tick

OrdersSpec == OrdersInit /\ [][OrdersNext]_orderVars
-----------------------------------------------------------------------------
(* The status column is where the event log ends: the two records "that     *)
(* could disagree would be worse than no event log at all".                 *)
EventLogExplainsStatus ==
    \A o \in Orders : status[o] = StatusAfter(events[o])

(* A cancelled or refunded order never moves again, whichever requests race *)
(* for it: of a cancel and a refund that both saw paid, one is refused.     *)
TerminalIsFinal ==
    [][\A o \in Orders : status[o] \in Terminal => status'[o] = status[o]]_orderVars
=============================================================================
