------------------------------- MODULE Broker -------------------------------
(***************************************************************************)
(* The JetStream stream ORDERS and its one durable consumer, as            *)
(* services/orders/internal/natsx/natsx.go configures them.  The broker    *)
(* itself is external: what is modelled is what the service relies on.     *)
(* A message is the id of the outbox row whose envelope it carries (the    *)
(* envelope's uuid is minted once per row, so either names it).            *)
(***************************************************************************)
EXTENDS Naturals, Sequences, FiniteSets

CONSTANTS Workers,     \* worker processes alive at one time
          MaxFaults    \* bound: faults of network, broker, database and workers

ASSUME FaultsAssumption == MaxFaults \in Nat

VARIABLES stream,   \* the stored messages, never removed (LimitsPolicy)
          acked,    \* stream positions the durable consumer has acknowledged
          faults    \* faults so far

brokerVars == <<stream, acked>>

Stored == {stream[p] : p \in DOMAIN stream}

BrokerTypeOK ==
    /\ stream \in Seq(Nat)
    /\ acked \subseteq DOMAIN stream
    /\ faults \in 0..MaxFaults

BrokerInit ==
    /\ stream = <<>>
    /\ acked = {}
    /\ faults = 0

Fault == faults < MaxFaults /\ faults' = faults + 1

(* A publish that arrives: stored, unless the broker has it already and the *)
(* duplicate window (NATS_DUPLICATE_WINDOW) still remembers its id, which   *)
(* is a matter of time.  The publisher is acknowledged either way.          *)
Store(m) ==
    \/ stream' = Append(stream, m)
    \/ m \in Stored /\ UNCHANGED stream

(* Two messages may be waiting for their acknowledgement at once. *)
TwoAckPending == 2

MaxAckPending == 1

(* What the consumer may be sent: an unacknowledged message with fewer than *)
(* MaxAckPending unacknowledged ones before it.  It is sent again whenever  *)
(* AckWait runs out or it is naked, without limit (MaxDeliver is not set).  *)
Deliverable ==
    {p \in DOMAIN stream :
       /\ p \notin acked
       /\ Cardinality({q \in 1..(p-1) : q \notin acked}) < MaxAckPending}

Acknowledge(p) == acked' = acked \cup {p}
=============================================================================
