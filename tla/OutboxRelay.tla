----------------------------- MODULE OutboxRelay -----------------------------
(***************************************************************************)
(* The outbox of src/kafka/outbox.py: rows that the engines insert, and one *)
(* relay task per service process that publishes them.  PostgreSQL (row     *)
(* locks, atomic commit) and Kafka (the topic) are external.                *)
(*                                                                          *)
(* The UPDATE that marks a row is invisible to others until the relay's     *)
(* transaction commits, so the send and the mark are one step here: a crash *)
(* between them leaves what a crash after both leaves.  attempts and        *)
(* last_error are written but never read, and are left out.                 *)
(***************************************************************************)
EXTENDS Integers, Sequences, FiniteSets

CONSTANTS Relays,     \* the service processes
          Nobody,     \* holds the row locks nobody holds
          Batch,      \* batch of the constructor
          MaxRows,    \* bound: rows ever inserted
          MaxFaults   \* bound: failed sends, rollbacks and halts

ASSUME OutboxAssumption == /\ Nobody \notin Relays
                           /\ Batch \in Nat \ {0}
                           /\ MaxRows \in Nat
                           /\ MaxFaults \in Nat

VARIABLES row,        \* row[i]: what other transactions see of row i
          oversize,   \* the rows Kafka rejects whenever they are sent
          lock,       \* lock[i]: the relay whose transaction locks row i
          pc,         \* pc[r]: where r's task stands
          connected,  \* connected[r]: self.kafka is set
          todo,       \* todo[r]: the rows of r's batch not yet sent
          marked,     \* marked[r]: the rows r's transaction has marked sent
          topic,      \* the row ids in the order Kafka got them
          adrift,     \* adrift[i]: copies of row i under way that no relay waits for
          faults      \* faults used so far

table == <<row, oversize>>
transaction == <<lock, todo, marked>>
kafka == <<topic, adrift>>
vars == <<table, transaction, pc, connected, kafka, faults>>

Rows == 1 .. MaxRows
Published == {topic[k] : k \in 1 .. Len(topic)}

Pending == {i \in Rows : row[i] = "pending"}

Init == /\ row = [i \in Rows |-> "none"]
        /\ oversize = {}
        /\ lock = [i \in Rows |-> Nobody]
        /\ pc = [r \in Relays |-> "off"]
        /\ connected = [r \in Relays |-> FALSE]
        /\ todo = [r \in Relays |-> {}]
        /\ marked = [r \in Relays |-> {}]
        /\ topic = <<>>
        /\ adrift = [i \in Rows |-> 0]
        /\ faults = 0

Fault == faults < MaxFaults /\ faults' = faults + 1

-----------------------------------------------------------------------------
(* send: an INSERT takes the next id of the sequence; the row exists when   *)
(* the caller's transaction commits, which need not be in the order of ids. *)

Insert(i) == /\ row[i] = "none"
             /\ \A j \in 1 .. i - 1 : row[j] # "none"
             /\ row' = [row EXCEPT ![i] = "open"]
             /\ oversize' \in {oversize, oversize \cup {i}}
             /\ UNCHANGED <<transaction, pc, connected, kafka, faults>>

CommitInsert(i) == /\ row[i] = "open"
                   /\ row' = [row EXCEPT ![i] = "pending"]
                   /\ UNCHANGED <<oversize, transaction, pc, connected, kafka, faults>>

AbortInsert(i) == /\ row[i] = "open"
                  /\ row' = [row EXCEPT ![i] = "aborted"]
                  /\ UNCHANGED <<oversize, transaction, pc, connected, kafka, faults>>

-----------------------------------------------------------------------------
(* _run, _connect, _disconnect and stop. *)

Goto(r, where) == pc' = [pc EXCEPT ![r] = where]

Start(r) == /\ pc[r] = "off"
            /\ Goto(r, "idle")
            /\ UNCHANGED <<table, transaction, connected, kafka, faults>>

\* While Kafka is down _connect returns False and the loop waits.
Connect(r) == /\ pc[r] = "idle"
              /\ ~connected[r]
              /\ connected' = [connected EXCEPT ![r] = TRUE]
              /\ UNCHANGED <<table, transaction, pc, kafka, faults>>

\* The transaction of r ends, whatever it locked.
Release(r) == /\ lock' = [i \in Rows |-> IF lock[i] = r THEN Nobody ELSE lock[i]]
              /\ todo' = [todo EXCEPT ![r] = {}]
              /\ marked' = [marked EXCEPT ![r] = {}]

\* MUTANT of IsNext: ORDER BY id DESC.
IsLast(r, i) == i \in todo[r] /\ \A j \in todo[r] : j <= i

IsNext(r, i) == i \in todo[r] /\ \A j \in todo[r] : i <= j

\* The send that r waits for ends without an answer: its message is lost, or is
\* still in the producer's buffer or on its way to the broker.
LoseSight(r) ==
    \/ UNCHANGED adrift
    \/ \E i \in todo[r] : /\ IsNext(r, i)
                          /\ i \notin oversize
                          /\ adrift' = [adrift EXCEPT ![i] = @ + 1]

\* It reaches Kafka after all: stop() flushes the producer when the cancelled task
\* has already given up its locks, and nothing makes the others wait for that.
Land(i) == /\ adrift[i] > 0
           /\ topic' = Append(topic, i)
           /\ adrift' = [adrift EXCEPT ![i] = @ - 1]
           /\ UNCHANGED <<table, transaction, pc, connected, faults>>

\* A crash, or stop(): the task is cancelled if its batch outlives 10 s.
Halt(r) == /\ Fault
           /\ pc[r] # "off"
           /\ LoseSight(r)
           /\ Release(r)
           /\ connected' = [connected EXCEPT ![r] = FALSE]
           /\ Goto(r, "off")
           /\ UNCHANGED <<table, topic>>

-----------------------------------------------------------------------------
(* _publish_batch. *)

\* MUTANT of Fetch: no FOR UPDATE SKIP LOCKED.
FetchUnlocked(r) ==
    /\ pc[r] = "idle"
    /\ connected[r]
    /\ \E rows \in SUBSET Pending :
          /\ rows # {}
          /\ Cardinality(rows) <= Batch
          /\ rows # Pending => Cardinality(rows) = Batch
          /\ \A i \in rows, j \in Pending \ rows : i < j
          /\ todo' = [todo EXCEPT ![r] = rows]
    /\ Goto(r, "publish")
    /\ UNCHANGED <<table, lock, marked, connected, kafka, faults>>

\* SELECT ... WHERE sent_at IS NULL ORDER BY id LIMIT batch FOR UPDATE SKIP LOCKED
Fetch(r) ==
    LET free == {i \in Pending : lock[i] = Nobody}
    IN  /\ pc[r] = "idle"
        /\ connected[r]
        /\ \E rows \in SUBSET free :
              /\ rows # {}
              /\ Cardinality(rows) <= Batch
              /\ rows # free => Cardinality(rows) = Batch
              /\ \A i \in rows, j \in free \ rows : i < j
              /\ todo' = [todo EXCEPT ![r] = rows]
              /\ lock' = [i \in Rows |-> IF i \in rows THEN r ELSE lock[i]]
        /\ Goto(r, "publish")
        /\ UNCHANGED <<table, marked, connected, kafka, faults>>

\* Nothing to publish: the transaction ends and the loop waits.
FetchNothing(r) == /\ pc[r] = "idle"
                   /\ connected[r]
                   /\ \A i \in Pending : lock[i] # Nobody
                   /\ UNCHANGED vars

\* MUTANT of Send: the UPDATE names the id after the one sent.
SendMarksNext(r) ==
    /\ pc[r] = "publish"
    /\ \E i \in todo[r] : /\ IsNext(r, i)
                          /\ i \notin oversize
                          /\ topic' = Append(topic, i)
                          /\ todo' = [todo EXCEPT ![r] = @ \ {i}]
                          /\ marked' = [marked EXCEPT ![r] = @ \cup {i + 1}]
    /\ UNCHANGED <<table, lock, pc, connected, adrift, faults>>

Send(r) == /\ pc[r] = "publish"
           /\ \E i \in todo[r] : /\ IsNext(r, i)
                                 /\ i \notin oversize
                                 /\ topic' = Append(topic, i)
                                 /\ todo' = [todo EXCEPT ![r] = @ \ {i}]
                                 /\ marked' = [marked EXCEPT ![r] = @ \cup {i}]
           /\ UNCHANGED <<table, lock, pc, connected, adrift, faults>>

\* MUTANT of GiveUp: sent_at is set in a finally clause.
GiveUpMarking(r) ==
    /\ todo' = [todo EXCEPT ![r] = {}]
    /\ marked' = [marked EXCEPT ![r] = @ \cup {i \in todo[r] : IsNext(r, i)}]
    /\ connected' = [connected EXCEPT ![r] = FALSE]
    /\ UNCHANGED <<table, lock, pc>>

\* The send raises: the rest of the batch is left for later, and what was
\* marked so far will be committed.
GiveUp(r) == /\ todo' = [todo EXCEPT ![r] = {}]
             /\ connected' = [connected EXCEPT ![r] = FALSE]
             /\ UNCHANGED <<table, lock, marked, pc>>

\* MUTANT of SendRejected: the exception leaves the transaction block.
SendRejectedRaises(r) == /\ pc[r] = "publish"
                         /\ \E i \in oversize : IsNext(r, i)
                         /\ Release(r)
                         /\ connected' = [connected EXCEPT ![r] = FALSE]
                         /\ Goto(r, "idle")
                         /\ UNCHANGED <<table, kafka, faults>>

SendRejected(r) == /\ pc[r] = "publish"
                   /\ \E i \in oversize : IsNext(r, i)
                   /\ GiveUp(r)
                   /\ UNCHANGED <<kafka, faults>>

\* An outage: Kafka may have, or may still get, the message.
SendError(r) == /\ Fault
                /\ pc[r] = "publish"
                /\ \E i \in todo[r] \ oversize : IsNext(r, i)
                /\ LoseSight(r)
                /\ GiveUp(r)
                /\ UNCHANGED topic

Commit(r) == /\ pc[r] = "publish"
             /\ todo[r] = {}
             /\ row' = [i \in Rows |-> IF i \in marked[r] THEN "sent" ELSE row[i]]
             /\ Release(r)
             /\ Goto(r, "idle")
             /\ UNCHANGED <<oversize, connected, kafka, faults>>

\* A statement or the commit fails, or PostgreSQL ends the transaction while a
\* send is awaited: nothing r marked is kept.
Rollback(r) == /\ Fault
               /\ pc[r] = "publish"
               /\ LoseSight(r)
               /\ Release(r)
               /\ Goto(r, "idle")
               /\ UNCHANGED <<table, connected, topic>>

\* _housekeeping deletes what was sent more than three days ago.
Housekeeping(r) == /\ pc[r] = "idle"
                   /\ \E old \in SUBSET {i \in Rows : row[i] = "sent"} :
                         /\ old # {}
                         /\ row' = [i \in Rows |-> IF i \in old THEN "purged" ELSE row[i]]
                   /\ UNCHANGED <<oversize, transaction, pc, connected, kafka, faults>>

-----------------------------------------------------------------------------
(* The specification. *)

Work(r) == Start(r) \/ Connect(r) \/ Fetch(r) \/ Send(r) \/ SendRejected(r) \/ Commit(r)

Next == \/ \E i \in Rows : Insert(i) \/ CommitInsert(i) \/ AbortInsert(i) \/ Land(i)
        \/ \E r \in Relays : \/ Work(r) \/ FetchNothing(r) \/ Housekeeping(r)
                             \/ SendError(r) \/ Rollback(r) \/ Halt(r)

SafeSpec == Init /\ [][Next]_vars

Spec == SafeSpec /\ \A r \in Relays : WF_vars(Work(r))

-----------------------------------------------------------------------------
(* The properties. *)

\* The type invariant: ids stay within the rows inserted, and what a relay sends
\* or marks are ids of rows of the table.
TypeOK ==
    /\ row \in [Rows -> {"none", "open", "aborted", "pending", "sent", "purged"}]
    /\ oversize \subseteq Rows
    /\ lock \in [Rows -> Relays \cup {Nobody}]
    /\ pc \in [Relays -> {"off", "idle", "publish"}]
    /\ connected \in [Relays -> BOOLEAN]
    /\ todo \in [Relays -> SUBSET Rows]
    /\ marked \in [Relays -> SUBSET Rows]
    /\ topic \in Seq(Rows)
    /\ adrift \in [Rows -> 0 .. MaxFaults]
    /\ faults \in 0 .. MaxFaults

\* A row that is marked sent, or was deleted by _housekeeping, is in Kafka,
\* whichever sends failed and whichever transactions were rolled back: a Kafka
\* outage delays messages instead of dropping them.
NothingLost ==
    \A i \in Rows : row[i] \in {"sent", "purged"} => i \in Published

\* SKIP LOCKED keeps the batches of the replicas apart: the rows a relay is
\* about to send, or has sent in its open transaction, are pending and in no
\* other relay's batch.
BatchesDisjoint ==
    \A r \in Relays :
        /\ todo[r] \cup marked[r] \subseteq Pending
        /\ \A s \in Relays \ {r} :
              (todo[r] \cup marked[r]) \cap (todo[s] \cup marked[s]) = {}

Copies(i) == Cardinality({k \in 1 .. Len(topic) : topic[k] = i})

\* A message is published again only because a send, a transaction or a process
\* failed, and at most once more for each failure, however late the copy that was
\* under way then arrives: two replicas that work as they should never publish a
\* row twice.
DuplicatesNeedFaults == \A i \in Rows : Copies(i) <= 1 + faults

\* A message that is queued is in the end published and marked, if Kafka takes
\* it and every message queued before it.
EventuallySent ==
    \A i \in Rows :
        (row[i] = "pending" /\ oversize \cap 1 .. i = {}) ~> row[i] \in {"sent", "purged"}

\* The table and the topic keep the promise of DurableQueue step by step: what a
\* relay publishes or loses sight of is committed and not yet marked, by this relay
\* or by another, and what is marked was published.  Only a copy lost sight of may
\* arrive after its row was marked.
Queue == INSTANCE DurableQueue
         WITH queued <- {i \in Rows : row[i] \in {"pending", "sent", "purged"}},
              settled <- {i \in Rows : row[i] \in {"sent", "purged"}},
              late <- adrift

KeepsQueue == Queue!Spec

\* "Publishes pending rows in order" (outbox.py:5), of rows that relays have
\* already claimed: no relay publishes a row while an older claimed row is not.
\* (A copy that lands late is not counted: adrift' # adrift.)
PublishedInOrder ==
    [][\A i, j \in Rows :
          /\ topic' = Append(topic, j)
          /\ adrift' = adrift
          /\ i < j
          /\ lock[i] # Nobody
          => i \in Published]_vars
=============================================================================
