---------------------------- MODULE MCServiceBus ----------------------------
(* Instances of ServiceBus: Service Bus queues have no redelivery backoff. *)
EXTENDS ServiceBus

MCNoBackoff == [d \in 0 .. 0 |-> 0]
\* What decides the future: not the history of messages that left, nor the
\* instants a message without retention was stored and delayed until, nor the
\* renewals that can only be refused.
Live == <<now, nextSeq, rx, job, armAt, due, hands, credit, restarts, lock, cut,
          {<<w.seq, w.lock, w.at>> : w \in {v \in renewals : Current(v)}},
          [s \in DOMAIN messages |->
              <<messages[s].availableAt, messages[s].leased, messages[s].receipt,
                messages[s].expiresAt, messages[s].deliveries, Delayed(messages[s]),
                ledger[s].issued>>]>>
=============================================================================
