----------------------------- MODULE Projector ------------------------------
(***************************************************************************)
(* The projector (services/orders/internal/reporting/projector.go): one    *)
(* callback at a time per worker handles the delivered messages in order,  *)
(* applies each and answers it.  The transaction commits before the answer *)
(* is sent, so a crash or a lost answer brings the message back.           *)
(***************************************************************************)
EXTENDS Broker, RevenueProjection

CONSTANTS Version,     \* the envelope version this build implements
          MaxInbox     \* bound: deliveries waiting in one worker

VARIABLES inbox,       \* stream positions delivered to each worker, in order
          verdict      \* how each worker will answer the message it handled

projectorVars == <<inbox, verdict>>

Verdicts == {"none", "ack", "nak"}

ProjectorTypeOK ==
    /\ inbox \in [Workers -> Seq(Nat)]
    /\ verdict \in [Workers -> Verdicts]

ProjectorInit ==
    /\ inbox = [w \in Workers |-> <<>>]
    /\ verdict = [w \in Workers |-> "none"]

Handles(env) == env.version = Version

(* First delivery, or another after AckWait or a nak: to any worker. *)
Deliver(w) ==
    /\ Len(inbox[w]) < MaxInbox
    /\ \E p \in Deliverable : inbox' = [inbox EXCEPT ![w] = Append(@, p)]
    /\ UNCHANGED <<verdict, brokerVars, projectionVars, faults>>

(* The envelope of the message being handled. *)
Handling(w, env) ==
    /\ inbox[w] # <<>>
    /\ verdict[w] = "none"
    /\ env.id = stream[Head(inbox[w])]

(* A version this build does not implement is acknowledged, not applied. *)
Skip(w, rows) ==
    /\ \E env \in rows : Handling(w, env) /\ ~Handles(env)
    /\ verdict' = [verdict EXCEPT ![w] = "ack"]
    /\ UNCHANGED <<inbox, brokerVars, projectionVars, faults>>

(* Applied now or, by the dedup row, known to be applied already. *)
Apply(w, rows) ==
    /\ \E env \in rows : Handling(w, env) /\ Handles(env) /\ ApplyEnvelope(env)
    /\ verdict' = [verdict EXCEPT ![w] = "ack"]
    /\ UNCHANGED <<inbox, brokerVars, faults>>

(* An apply error acknowledged like a success. *)
ApplyFailsQuietly(w, rows) ==
    /\ Fault
    /\ \E env \in rows : Handling(w, env) /\ Handles(env)
    /\ verdict' = [verdict EXCEPT ![w] = "ack"]
    /\ UNCHANGED <<inbox, brokerVars, projectionVars>>

(* Apply returns an error: the transaction rolled back, or its COMMIT went  *)
(* through and only the answer to it was lost.                              *)
ApplyFails(w, rows) ==
    /\ Fault
    /\ \E env \in rows :
         /\ Handling(w, env)
         /\ Handles(env)
         /\ UNCHANGED projectionVars \/ ApplyEnvelope(env)
    /\ verdict' = [verdict EXCEPT ![w] = "nak"]
    /\ UNCHANGED <<inbox, brokerVars>>

(* The answer reaches the broker, which forgets about an acknowledged       *)
(* message and sends a naked one again.  The next callback may begin.       *)
Answer(w) ==
    /\ verdict[w] # "none"
    /\ IF verdict[w] = "ack" THEN Acknowledge(Head(inbox[w])) ELSE UNCHANGED acked
    /\ inbox' = [inbox EXCEPT ![w] = Tail(@)]
    /\ verdict' = [verdict EXCEPT ![w] = "none"]
    /\ UNCHANGED <<stream, projectionVars, faults>>

(* The answer is lost: msg.Ack's error is ignored and nothing retries it. *)
AnswerLost(w) ==
    /\ verdict[w] # "none"
    /\ Fault
    /\ inbox' = [inbox EXCEPT ![w] = Tail(@)]
    /\ verdict' = [verdict EXCEPT ![w] = "none"]
    /\ UNCHANGED <<brokerVars, projectionVars>>

ProjectorDies(w) ==
    /\ inbox' = [inbox EXCEPT ![w] = <<>>]
    /\ verdict' = [verdict EXCEPT ![w] = "none"]

ProjectorStep(w, rows) ==
    Deliver(w) \/ Skip(w, rows) \/ Apply(w, rows) \/ ApplyFails(w, rows)
      \/ Answer(w) \/ AnswerLost(w)
=============================================================================
