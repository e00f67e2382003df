---------------------------- MODULE DurableQueue ----------------------------
(***************************************************************************)
(* What the outbox promises, without relays, locks, batches or failures: a  *)
(* message that a committed transaction queued is delivered, perhaps more   *)
(* than once, until it is settled, and it is settled only after it was      *)
(* delivered.  No delivery of a settled message begins; one that was lost   *)
(* sight of before may still arrive.  Messages may overtake each other, and *)
(* nothing bounds the repetitions.                                          *)
(***************************************************************************)
EXTENDS Naturals, Sequences

CONSTANT Rows

VARIABLES queued,    \* the messages of committed transactions
          topic,     \* the deliveries in their order
          settled,   \* the messages that are marked as delivered
          late       \* late[i]: deliveries of i that began and may still arrive

qvars == <<queued, topic, settled, late>>

Delivered == {topic[k] : k \in DOMAIN topic}

Init == /\ queued = {}
        /\ topic = <<>>
        /\ settled = {}
        /\ late = [i \in Rows |-> 0]

Queue(i) == /\ i \notin queued
            /\ queued' = queued \cup {i}
            /\ UNCHANGED <<topic, settled, late>>

Deliver(i) == /\ i \in queued \ settled
              /\ topic' = Append(topic, i)
              /\ UNCHANGED <<queued, settled, late>>

\* The answer to a delivery is not waited for.
Abandon(i) == /\ i \in queued \ settled
              /\ late' = [late EXCEPT ![i] = @ + 1]
              /\ UNCHANGED <<queued, topic, settled>>

Arrive(i) == /\ late[i] > 0
             /\ topic' = Append(topic, i)
             /\ late' = [late EXCEPT ![i] = @ - 1]
             /\ UNCHANGED <<queued, settled>>

\* One commit settles what one transaction has delivered.
Settle == /\ \E batch \in SUBSET (queued \cap (Delivered \ settled)) :
                /\ batch # {}
                /\ settled' = settled \cup batch
          /\ UNCHANGED <<queued, topic, late>>

Next == Settle \/ \E i \in Rows : Queue(i) \/ Deliver(i) \/ Abandon(i) \/ Arrive(i)

Spec == Init /\ [][Next]_qvars
=============================================================================
