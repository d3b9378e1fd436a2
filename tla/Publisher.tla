----------------------------- MODULE Publisher ------------------------------
(***************************************************************************)
(* The outbox publisher (services/orders/internal/outbox/publisher.go):    *)
(* each tick reads a batch of unpublished rows in id order and, row after  *)
(* row, publishes to the broker, waits for the acknowledgement and writes  *)
(* published_at.  The first failure gives up the batch; the next tick      *)
(* reads the table again.                                                  *)
(*                                                                         *)
(* The worker is meant to run once ("one instance only"), but a rolling    *)
(* restart overlaps two, so the module is about a set of them.             *)
(***************************************************************************)
EXTENDS Broker

CONSTANT BatchSize     \* OUTBOX_BATCH_SIZE

ASSUME PublisherAssumption == BatchSize \in Nat \ {0}

VARIABLES published,   \* ids of the outbox rows whose published_at is set
          batch,       \* the rows each worker's drain still has to publish
          confirmed,   \* the row whose publish each worker saw acknowledged
          wire         \* messages sent whose arrival nobody waits for any more

publisherVars == <<published, batch, confirmed, wire>>

NoRow == 0

PublisherTypeOK ==
    /\ published \subseteq Nat
    /\ batch \in [Workers -> SUBSET Nat]
    /\ confirmed \in [Workers -> Nat]
    /\ wire \subseteq Nat

PublisherInit ==
    /\ published = {}
    /\ batch = [w \in Workers |-> {}]
    /\ confirmed = [w \in Workers |-> NoRow]
    /\ wire = {}

IsLowest(m, S) == m \in S /\ \A n \in S : m <= n

(* A cursor in place of published_at: the rows above the last one sent.     *)
UnpublishedAfterCursor(rows) == {m \in rows : \A n \in published : n < m}

(* unpublishedQuery: WHERE published_at IS NULL. *)
Unpublished(rows) == rows \ published

(* Any BatchSize unpublished rows: the query without its ORDER BY. *)
DrainUnordered(w, rows) ==
    /\ batch[w] = {}
    /\ \E B \in SUBSET Unpublished(rows) :
         /\ Cardinality(B) \in 1..BatchSize
         /\ batch' = [batch EXCEPT ![w] = B]
    /\ UNCHANGED <<published, confirmed, wire, faults, brokerVars>>

(* drain: the BatchSize lowest unpublished ids of the committed rows. *)
Drain(w, rows) ==
    /\ batch[w] = {}
    /\ \E B \in SUBSET Unpublished(rows) :
         /\ Cardinality(B) \in 1..BatchSize
         /\ Cardinality(B) < BatchSize => B = Unpublished(rows)
         /\ \A m \in B, n \in Unpublished(rows) \ B : m < n
         /\ batch' = [batch EXCEPT ![w] = B]
    /\ UNCHANGED <<published, confirmed, wire, faults, brokerVars>>

(* PublishMsg returns with the broker's acknowledgement. *)
Publish(w) ==
    /\ confirmed[w] = NoRow
    /\ \E m \in batch[w] :
         /\ IsLowest(m, batch[w])
         /\ Store(m)
         /\ confirmed' = [confirmed EXCEPT ![w] = m]
    /\ UNCHANGED <<published, batch, wire, faults, acked>>

(* PublishMsg fails and the row is skipped instead of ending the batch. *)
PublishSkips(w) ==
    /\ confirmed[w] = NoRow
    /\ Fault
    /\ \E m \in batch[w] :
         /\ IsLowest(m, batch[w])
         /\ batch' = [batch EXCEPT ![w] = @ \ {m}]
    /\ UNCHANGED <<published, confirmed, wire, brokerVars>>

(* PublishMsg returns an error: the message never left, or it arrived and   *)
(* only the acknowledgement was lost, or it is still on its way.  The rest  *)
(* of the batch is not attempted.                                           *)
PublishFails(w) ==
    /\ confirmed[w] = NoRow
    /\ Fault
    /\ \E m \in batch[w] :
         /\ IsLowest(m, batch[w])
         /\ \/ UNCHANGED <<stream, wire>>
            \/ Store(m) /\ UNCHANGED wire
            \/ wire' = wire \cup {m} /\ UNCHANGED stream
    /\ batch' = [batch EXCEPT ![w] = {}]
    /\ UNCHANGED <<published, confirmed, acked>>

(* A message that was given up arrives after all. *)
ArriveLate(m) ==
    /\ m \in wire
    /\ Store(m)
    /\ wire' = wire \ {m}
    /\ UNCHANGED <<published, batch, confirmed, faults, acked>>

(* published_at is written first, and the publish is not waited for. *)
MarkBeforeConfirmed(w) ==
    /\ \E m \in batch[w] :
         /\ IsLowest(m, batch[w])
         /\ published' = published \cup {m}
         /\ batch' = [batch EXCEPT ![w] = @ \ {m}]
    /\ confirmed' = [confirmed EXCEPT ![w] = NoRow]
    /\ UNCHANGED <<wire, faults, brokerVars>>

(* MarkPublished, and on to the next row of the batch. *)
MarkPublished(w) ==
    /\ confirmed[w] # NoRow
    /\ published' = published \cup {confirmed[w]}
    /\ batch' = [batch EXCEPT ![w] = @ \ {confirmed[w]}]
    /\ confirmed' = [confirmed EXCEPT ![w] = NoRow]
    /\ UNCHANGED <<wire, faults, brokerVars>>

(* MarkPublished fails, though its UPDATE may have committed. *)
MarkFails(w) ==
    /\ confirmed[w] # NoRow
    /\ Fault
    /\ published' \in {published, published \cup {confirmed[w]}}
    /\ batch' = [batch EXCEPT ![w] = {}]
    /\ confirmed' = [confirmed EXCEPT ![w] = NoRow]
    /\ UNCHANGED <<wire, brokerVars>>

(* The process dies, perhaps between sending a message and its answer. *)
PublisherDies(w) ==
    /\ \/ UNCHANGED wire
       \/ /\ confirmed[w] = NoRow
          /\ \E m \in batch[w] : IsLowest(m, batch[w]) /\ wire' = wire \cup {m}
    /\ batch' = [batch EXCEPT ![w] = {}]
    /\ confirmed' = [confirmed EXCEPT ![w] = NoRow]
    /\ UNCHANGED published

PublisherStep(w, rows) ==
    Drain(w, rows) \/ Publish(w) \/ PublishFails(w) \/ MarkPublished(w) \/ MarkFails(w)
=============================================================================
