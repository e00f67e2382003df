-------------------------- MODULE OutboxRelayProofs --------------------------
(***************************************************************************)
(* Theorems about OutboxRelay, for any relays, batch size and bounds.       *)
(***************************************************************************)
EXTENDS OutboxRelay, FiniteSetTheorems, TLAPS

-----------------------------------------------------------------------------
(* The inductive invariant. *)

\* A row lock is held on a pending row, and a relay's batch is locked by it.
LockSound ==
    /\ \A i \in Rows : lock[i] # Nobody => row[i] = "pending"
    /\ \A r \in Relays : \A i \in todo[r] \cup marked[r] : lock[i] = r

\* Every copy that nobody waits for has a fault of its own.
AdriftSound == \A i \in Rows : adrift[i] <= faults

\* A relay marks what it has sent.
MarkSound == \A r \in Relays : marked[r] \subseteq Published

IInv == /\ TypeOK
        /\ AdriftSound
        /\ LockSound
        /\ MarkSound
        /\ NothingLost

USE OutboxAssumption

-----------------------------------------------------------------------------
(* The topic only grows. *)

LEMMA AppendPublishes ==
  ASSUME NEW i \in Rows, topic \in Seq(Rows), topic' = Append(topic, i)
  PROVE  topic' \in Seq(Rows) /\ Published' = Published \cup {i}
<1>1. /\ Len(topic') = Len(topic) + 1
      /\ topic'[Len(topic) + 1] = i
      /\ \A k \in 1 .. Len(topic) : topic'[k] = topic[k]
      /\ Len(topic) \in Nat
  OBVIOUS
<1>2. 1 .. Len(topic') = 1 .. Len(topic) \cup {Len(topic) + 1}
  BY <1>1
<1> QED BY <1>1, <1>2 DEF Published

LEMMA SamePublished == topic' = topic => Published' = Published
BY DEF Published

\* The fault that loses sight of a message pays for its copy.
LEMMA LoseSightStep ==
  ASSUME IInv, NEW r \in Relays, LoseSight(r), Fault
  PROVE  /\ faults' \in 0 .. MaxFaults /\ faults' = faults + 1
         /\ adrift' \in [Rows -> 0 .. MaxFaults]
         /\ AdriftSound'
         /\ \A i \in Rows : \/ adrift'[i] = adrift[i]
                            \/ i \in todo[r] /\ adrift'[i] = adrift[i] + 1
<1>1. /\ faults \in 0 .. MaxFaults /\ faults < MaxFaults /\ faults' = faults + 1
      /\ adrift \in [Rows -> 0 .. MaxFaults] /\ todo[r] \subseteq Rows
      /\ \A i \in Rows : adrift[i] <= faults
  BY DEF IInv, TypeOK, AdriftSound, Fault
<1>2. CASE UNCHANGED adrift
  BY <1>1, <1>2 DEF AdriftSound
<1>3. CASE \E i \in todo[r] : adrift' = [adrift EXCEPT ![i] = @ + 1]
  <2>1. PICK i \in todo[r] : adrift' = [adrift EXCEPT ![i] = @ + 1]
    BY <1>3
  <2>2. \A k \in Rows : adrift'[k] = IF k = i THEN adrift[k] + 1 ELSE adrift[k]
    BY <1>1, <2>1
  <2>3. \A k \in Rows : adrift'[k] \in 0 .. MaxFaults /\ adrift'[k] <= faults'
    BY <1>1, <2>2
  <2>4. adrift' \in [Rows -> 0 .. MaxFaults]
    BY <1>1, <2>1, <2>3
  <2> QED BY <1>1, <2>1, <2>2, <2>3, <2>4 DEF AdriftSound
<1> QED BY <1>2, <1>3 DEF LoseSight

-----------------------------------------------------------------------------
(* The actions. *)

\* An insertion moves a row that nobody has locked, published or marked.
LEMMA InsertStep ==
  ASSUME IInv, NEW i \in Rows, Insert(i) \/ CommitInsert(i) \/ AbortInsert(i)
  PROVE  IInv'
<1>1. /\ row[i] \in {"none", "open"}
      /\ row' \in [Rows -> {"none", "open", "aborted", "pending", "sent", "purged"}]
      /\ row'[i] \in {"open", "pending", "aborted"}
      /\ \A j \in Rows \ {i} : row'[j] = row[j]
      /\ oversize' \subseteq Rows
  BY DEF IInv, TypeOK, Insert, CommitInsert, AbortInsert
<1>2. /\ lock' = lock /\ todo' = todo /\ marked' = marked /\ pc' = pc
      /\ connected' = connected /\ topic' = topic /\ adrift' = adrift /\ faults' = faults
  BY DEF Insert, CommitInsert, AbortInsert, transaction, kafka
<1>3. Published' = Published /\ Published \subseteq Rows
  BY <1>2, SamePublished DEF IInv, TypeOK, Published
<1>4. TypeOK'
  BY <1>1, <1>2 DEF IInv, TypeOK
<1>5. LockSound'
  BY <1>1, <1>2 DEF IInv, LockSound
<1>6. MarkSound'
  BY <1>2, <1>3 DEF IInv, MarkSound
<1>7. NothingLost'
  BY <1>1, <1>3 DEF IInv, NothingLost
<1>8. AdriftSound'
  BY <1>2 DEF IInv, AdriftSound
<1> QED BY <1>4, <1>5, <1>6, <1>7, <1>8 DEF IInv

\* Steps outside a transaction.
LEMMA IdleStep ==
  ASSUME IInv, NEW r \in Relays, Start(r) \/ Connect(r) \/ UNCHANGED vars
  PROVE  IInv'
<1>1. /\ row' = row /\ oversize' = oversize /\ lock' = lock /\ todo' = todo
      /\ marked' = marked /\ topic' = topic /\ adrift' = adrift /\ faults' = faults
      /\ pc' \in [Relays -> {"off", "idle", "publish"}]
      /\ connected' \in [Relays -> BOOLEAN]
  BY DEF IInv, TypeOK, Start, Connect, Goto, vars, table, transaction, kafka
<1>2. Published' = Published
  BY <1>1, SamePublished
<1>3. TypeOK'
  BY <1>1 DEF IInv, TypeOK
<1> QED BY <1>1, <1>2, <1>3 DEF IInv, AdriftSound, LockSound, MarkSound, NothingLost

LEMMA LandStep ==
  ASSUME IInv, NEW i \in Rows, Land(i)
  PROVE  IInv'
<1>1. /\ topic' = Append(topic, i)
      /\ adrift[i] > 0 /\ adrift' = [adrift EXCEPT ![i] = @ - 1]
      /\ row' = row /\ oversize' = oversize /\ lock' = lock /\ todo' = todo
      /\ marked' = marked /\ pc' = pc /\ connected' = connected /\ faults' = faults
  BY DEF Land, table, transaction
<1>2. topic' \in Seq(Rows) /\ Published' = Published \cup {i}
  BY <1>1, AppendPublishes DEF IInv, TypeOK
<1>3. adrift \in [Rows -> 0 .. MaxFaults] /\ faults \in Nat /\ MaxFaults \in Nat
  BY DEF IInv, TypeOK
<1>4. \A k \in Rows : adrift'[k] \in 0 .. MaxFaults /\ adrift'[k] <= adrift[k]
  BY <1>1, <1>3
<1>5. adrift' \in [Rows -> 0 .. MaxFaults]
  BY <1>1, <1>3, <1>4
<1>6. AdriftSound'
  BY <1>1, <1>3, <1>4 DEF IInv, AdriftSound
<1>7. TypeOK'
  BY <1>1, <1>2, <1>5 DEF IInv, TypeOK
<1> QED BY <1>1, <1>2, <1>6, <1>7 DEF IInv, LockSound, MarkSound, NothingLost

LEMMA FetchStep ==
  ASSUME IInv, NEW r \in Relays, Fetch(r)
  PROVE  IInv'
<1>1. PICK rows \in SUBSET {i \in Pending : lock[i] = Nobody} :
        /\ todo' = [todo EXCEPT ![r] = rows]
        /\ lock' = [i \in Rows |-> IF i \in rows THEN r ELSE lock[i]]
  BY DEF Fetch
<1>2. /\ row' = row /\ oversize' = oversize /\ marked' = marked /\ topic' = topic
      /\ connected' = connected /\ adrift' = adrift /\ faults' = faults
      /\ pc' \in [Relays -> {"off", "idle", "publish"}]
  BY DEF IInv, TypeOK, Fetch, Goto, table, kafka
<1>3. /\ rows \subseteq Rows
      /\ \A i \in rows : row[i] = "pending" /\ lock[i] = Nobody
  BY DEF Pending
<1>4. /\ todo' \in [Relays -> SUBSET Rows]
      /\ lock' \in [Rows -> Relays \cup {Nobody}]
      /\ \A s \in Relays : todo'[s] = IF s = r THEN rows ELSE todo[s]
  BY <1>1, <1>3 DEF IInv, TypeOK
<1>5. TypeOK'
  BY <1>2, <1>4 DEF IInv, TypeOK
<1>6. LockSound'
  <2>1. ASSUME NEW i \in Rows, lock'[i] # Nobody PROVE row'[i] = "pending"
    BY <1>1, <1>2, <1>3, <2>1 DEF IInv, LockSound
  <2>2. ASSUME NEW s \in Relays, NEW i \in todo'[s] \cup marked'[s] PROVE lock'[i] = s
    <3>1. i \in Rows
      BY <1>2, <1>4 DEF IInv, TypeOK
    <3>2. CASE i \in rows
      <4>1. lock[i] = Nobody /\ s \in Relays /\ Nobody \notin Relays
        BY <1>3, <3>2
      <4>2. i \notin todo[s] \cup marked[s]
        BY <4>1 DEF IInv, LockSound
      <4>3. s = r
        BY <1>2, <1>4, <4>2
      <4> QED BY <1>1, <3>1, <3>2, <4>3
    <3>3. CASE i \notin rows
      <4>1. i \in todo[s] \cup marked[s]
        BY <1>2, <1>4, <3>3
      <4> QED BY <1>1, <3>1, <3>3, <4>1 DEF IInv, LockSound
    <3> QED BY <3>2, <3>3
  <2> QED BY <2>1, <2>2 DEF LockSound
<1>7. Published' = Published
  BY <1>2, SamePublished
<1> QED BY <1>2, <1>5, <1>6, <1>7 DEF IInv, AdriftSound, MarkSound, NothingLost

LEMMA SendStep ==
  ASSUME IInv, NEW r \in Relays, Send(r)
  PROVE  IInv'
<1>1. PICK i \in todo[r] : /\ topic' = Append(topic, i)
                           /\ todo' = [todo EXCEPT ![r] = @ \ {i}]
                           /\ marked' = [marked EXCEPT ![r] = @ \cup {i}]
  BY DEF Send
<1>2. /\ row' = row /\ oversize' = oversize /\ lock' = lock /\ pc' = pc
      /\ connected' = connected /\ adrift' = adrift /\ faults' = faults
  BY DEF Send, table
<1>3. i \in Rows /\ lock[i] = r /\ row[i] = "pending"
  BY DEF IInv, TypeOK, LockSound
<1>4. topic' \in Seq(Rows) /\ Published' = Published \cup {i}
  BY <1>1, <1>3, AppendPublishes DEF IInv, TypeOK
<1>5. /\ todo' \in [Relays -> SUBSET Rows] /\ marked' \in [Relays -> SUBSET Rows]
      /\ \A s \in Relays : /\ todo'[s] \subseteq todo[s]
                           /\ marked'[s] = IF s = r THEN marked[s] \cup {i} ELSE marked[s]
  BY <1>1, <1>3 DEF IInv, TypeOK
<1>6. TypeOK'
  BY <1>2, <1>4, <1>5 DEF IInv, TypeOK
<1>7. LockSound'
  BY <1>2, <1>3, <1>5 DEF IInv, LockSound
<1>8. MarkSound'
  BY <1>4, <1>5 DEF IInv, MarkSound
<1>9. NothingLost' /\ AdriftSound'
  BY <1>2, <1>3, <1>4 DEF IInv, NothingLost, AdriftSound
<1> QED BY <1>6, <1>7, <1>8, <1>9 DEF IInv

\* A batch given up: nothing of it is sent or marked.
LEMMA GiveUpStep ==
  ASSUME IInv, NEW r \in Relays, SendRejected(r) \/ SendError(r)
  PROVE  IInv'
<1>1. /\ row' = row /\ oversize' = oversize /\ lock' = lock /\ pc' = pc /\ marked' = marked
      /\ todo' = [todo EXCEPT ![r] = {}] /\ topic' = topic
      /\ connected' = [connected EXCEPT ![r] = FALSE]
  BY DEF SendRejected, SendError, GiveUp, table, kafka
<1>2. /\ faults' \in 0 .. MaxFaults
      /\ adrift' \in [Rows -> 0 .. MaxFaults]
      /\ AdriftSound'
  <2>1. CASE SendRejected(r)
    BY <2>1 DEF SendRejected, kafka, IInv, TypeOK, AdriftSound
  <2>2. CASE SendError(r)
    BY <2>2, LoseSightStep DEF SendError
  <2> QED BY <2>1, <2>2
<1>3. Published' = Published
  BY <1>1, SamePublished
<1>4. TypeOK'
  BY <1>1, <1>2 DEF IInv, TypeOK
<1>5. \A s \in Relays : todo'[s] \subseteq todo[s]
  BY <1>1 DEF IInv, TypeOK
<1>6. LockSound'
  BY <1>1, <1>5 DEF IInv, LockSound
<1> QED BY <1>1, <1>2, <1>3, <1>4, <1>6 DEF IInv, MarkSound, NothingLost

\* The end of a transaction, with the rows it marked sent or as they were.
LEMMA EndStep ==
  ASSUME IInv, NEW r \in Relays, Commit(r) \/ Rollback(r) \/ Halt(r)
  PROVE  IInv'
<1>1. Release(r) /\ topic' = topic /\ oversize' = oversize
  BY DEF Commit, Rollback, Halt, table, kafka
<1>2. \/ row' = row
      \/ row' = [i \in Rows |-> IF i \in marked[r] THEN "sent" ELSE row[i]]
  BY DEF Commit, Rollback, Halt, table
<1>3. /\ pc' \in [Relays -> {"off", "idle", "publish"}]
      /\ connected' \in [Relays -> BOOLEAN]
      /\ faults' \in 0 .. MaxFaults
      /\ adrift' \in [Rows -> 0 .. MaxFaults]
      /\ AdriftSound'
  <2>1. /\ pc' = [pc EXCEPT ![r] = "idle"] \/ pc' = [pc EXCEPT ![r] = "off"]
        /\ connected' = connected \/ connected' = [connected EXCEPT ![r] = FALSE]
    BY DEF Commit, Rollback, Halt, Goto
  <2>2. pc' \in [Relays -> {"off", "idle", "publish"}]
    BY <2>1 DEF IInv, TypeOK
  <2>3. connected' \in [Relays -> BOOLEAN]
    BY <2>1 DEF IInv, TypeOK
  <2>4. faults' \in 0 .. MaxFaults /\ adrift' \in [Rows -> 0 .. MaxFaults] /\ AdriftSound'
    <3>1. CASE Commit(r)
      BY <3>1 DEF Commit, kafka, IInv, TypeOK, AdriftSound
    <3>2. CASE Rollback(r) \/ Halt(r)
      BY <3>2, LoseSightStep DEF Rollback, Halt
    <3> QED BY <3>1, <3>2
  <2> QED BY <2>2, <2>3, <2>4
<1>4. /\ row' \in [Rows -> {"none", "open", "aborted", "pending", "sent", "purged"}]
      /\ \A i \in Rows : \/ row'[i] = row[i]
                         \/ i \in marked[r] /\ row'[i] = "sent"
  BY <1>2 DEF IInv, TypeOK
<1>5. /\ lock' \in [Rows -> Relays \cup {Nobody}]
      /\ todo' \in [Relays -> SUBSET Rows] /\ marked' \in [Relays -> SUBSET Rows]
      /\ \A i \in Rows : lock'[i] = IF lock[i] = r THEN Nobody ELSE lock[i]
      /\ todo'[r] = {} /\ marked'[r] = {}
      /\ \A s \in Relays \ {r} : todo'[s] = todo[s] /\ marked'[s] = marked[s]
  BY <1>1 DEF IInv, TypeOK, Release
<1>6. Published' = Published
  BY <1>1, SamePublished
<1>7. TypeOK'
  BY <1>1, <1>3, <1>4, <1>5 DEF IInv, TypeOK
<1>8. LockSound'
  <2>1. ASSUME NEW i \in Rows, lock'[i] # Nobody PROVE row'[i] = "pending"
    <3>1. lock[i] # r /\ lock[i] # Nobody
      BY <1>5, <2>1
    <3>2. i \notin marked[r] /\ row[i] = "pending"
      BY <3>1 DEF IInv, LockSound
    <3> QED BY <1>4, <3>2
  <2>2. ASSUME NEW s \in Relays, NEW i \in todo'[s] \cup marked'[s] PROVE lock'[i] = s
    <3>1. s # r /\ i \in Rows
      BY <1>5
    <3>2. lock[i] = s
      BY <1>5, <3>1 DEF IInv, LockSound
    <3> QED BY <1>5, <3>1, <3>2
  <2> QED BY <2>1, <2>2 DEF LockSound
<1>9. MarkSound'
  BY <1>5, <1>6 DEF IInv, MarkSound
<1>10. NothingLost'
  BY <1>4, <1>6 DEF IInv, NothingLost, MarkSound
<1> QED BY <1>3, <1>7, <1>8, <1>9, <1>10 DEF IInv

LEMMA HousekeepingStep ==
  ASSUME IInv, NEW r \in Relays, Housekeeping(r)
  PROVE  IInv'
<1>1. PICK old \in SUBSET {i \in Rows : row[i] = "sent"} :
        row' = [i \in Rows |-> IF i \in old THEN "purged" ELSE row[i]]
  BY DEF Housekeeping
<1>2. /\ oversize' = oversize /\ lock' = lock /\ todo' = todo /\ marked' = marked
      /\ pc' = pc /\ connected' = connected /\ topic' = topic /\ adrift' = adrift
      /\ faults' = faults
  BY DEF Housekeeping, transaction, kafka
<1>3. /\ row' \in [Rows -> {"none", "open", "aborted", "pending", "sent", "purged"}]
      /\ \A i \in Rows : \/ row'[i] = row[i]
                         \/ row[i] = "sent" /\ row'[i] = "purged"
  BY <1>1 DEF IInv, TypeOK
<1>4. Published' = Published /\ Published \subseteq Rows
  BY <1>2, SamePublished DEF IInv, TypeOK, Published
<1>5. TypeOK'
  BY <1>2, <1>3 DEF IInv, TypeOK
<1>6. LockSound' /\ MarkSound'
  BY <1>2, <1>3, <1>4 DEF IInv, LockSound, MarkSound
<1>7. NothingLost' /\ AdriftSound'
  BY <1>2, <1>3, <1>4 DEF IInv, NothingLost, AdriftSound
<1> QED BY <1>5, <1>6, <1>7 DEF IInv

-----------------------------------------------------------------------------
(* The theorems. *)

LEMMA InvariantStarts == Init => IInv
<1> SUFFICES ASSUME Init PROVE IInv
  OBVIOUS
<1>1. Published = {}
  BY DEF Init, Published
<1>2. TypeOK
  BY DEF Init, TypeOK
<1> QED BY <1>1, <1>2 DEF Init, IInv, AdriftSound, LockSound, MarkSound, NothingLost

LEMMA InvariantStays == IInv /\ [Next]_vars => IInv'
<1> SUFFICES ASSUME IInv, [Next]_vars PROVE IInv'
  OBVIOUS
<1>1. ASSUME NEW i \in Rows, Insert(i) \/ CommitInsert(i) \/ AbortInsert(i) PROVE IInv'
  BY <1>1, InsertStep
<1>4. ASSUME NEW i \in Rows, Land(i) PROVE IInv'
  BY <1>4, LandStep
<1>2. ASSUME NEW r \in Relays, \/ Work(r) \/ FetchNothing(r) \/ Housekeeping(r)
                               \/ SendError(r) \/ Rollback(r) \/ Halt(r)
      PROVE  IInv'
  <2>1. CASE Start(r) \/ Connect(r) \/ FetchNothing(r)
    BY <2>1, IdleStep DEF FetchNothing
  <2>2. CASE Fetch(r) \/ Send(r) \/ Housekeeping(r)
    BY <2>2, FetchStep, SendStep, HousekeepingStep
  <2>3. CASE SendRejected(r) \/ SendError(r)
    BY <2>3, GiveUpStep
  <2>4. CASE Commit(r) \/ Rollback(r) \/ Halt(r)
    BY <2>4, EndStep
  <2> QED BY <1>2, <2>1, <2>2, <2>3, <2>4 DEF Work
<1>3. CASE UNCHANGED vars
  <2>1. Published' = Published
    BY <1>3, SamePublished DEF vars, kafka
  <2>2. TypeOK'
    BY <1>3 DEF IInv, TypeOK, vars, table, transaction, kafka
  <2> QED BY <1>3, <2>1, <2>2 DEF IInv, AdriftSound, LockSound, MarkSound, NothingLost,
                               vars, table, transaction, kafka
<1> QED BY <1>1, <1>2, <1>3, <1>4 DEF Next

\* The invariant holds in every reachable state.
THEOREM Invariance == SafeSpec => []IInv
<1>1. Init => IInv
  BY InvariantStarts
<1>2. IInv /\ [Next]_vars => IInv'
  BY InvariantStays
<1> QED BY <1>1, <1>2, PTL DEF SafeSpec

\* Type correctness of the relay.
THEOREM TypeCorrect == SafeSpec => []TypeOK
<1>1. IInv => TypeOK
  BY DEF IInv
<1> QED BY <1>1, Invariance, PTL

\* The relay marks or deletes no row that Kafka does not have, for any number
\* of replicas, batch size and failures.
THEOREM NoRowLost == SafeSpec => []NothingLost
<1>1. IInv => NothingLost
  BY DEF IInv
<1> QED BY <1>1, Invariance, PTL

\* FOR UPDATE SKIP LOCKED gives replicas disjoint batches of pending rows.
THEOREM BatchesApart == SafeSpec => []BatchesDisjoint
<1>1. IInv => BatchesDisjoint
  <2> SUFFICES ASSUME IInv, NEW r \in Relays
               PROVE  /\ todo[r] \cup marked[r] \subseteq Pending
                      /\ \A s \in Relays \ {r} :
                            (todo[r] \cup marked[r]) \cap (todo[s] \cup marked[s]) = {}
    BY DEF BatchesDisjoint
  <2>1. \A s \in Relays : \A i \in todo[s] \cup marked[s] :
          i \in Rows /\ lock[i] = s
    BY DEF IInv, TypeOK, LockSound
  <2>2. todo[r] \cup marked[r] \subseteq Pending
    BY <2>1 DEF IInv, LockSound, Pending
  <2> QED BY <2>1, <2>2
<1> QED BY <1>1, Invariance, PTL
-----------------------------------------------------------------------------
(* The outbox implements DurableQueue. *)

\* The rows and the topic as DurableQueue sees them.
Committed == {i \in Rows : row[i] \in {"pending", "sent", "purged"}}
MarkedSent == {i \in Rows : row[i] \in {"sent", "purged"}}

LEMMA PublishedIsDelivered == topic \in Seq(Rows) => Published = Queue!Delivered
BY DEF Queue!Delivered, Published

\* Only a commit makes a row visible to the queue.
LEMMA InsertKeepsQueue ==
  ASSUME IInv, NEW i \in Rows, Insert(i) \/ CommitInsert(i) \/ AbortInsert(i)
  PROVE  [Queue!Next]_<<Committed, topic, MarkedSent, adrift>>
<1>1. topic' = topic /\ adrift' = adrift
  BY DEF Insert, CommitInsert, AbortInsert, kafka
<1>2. MarkedSent' = MarkedSent
  BY DEF IInv, TypeOK, Insert, CommitInsert, AbortInsert, MarkedSent
<1>3. CASE Insert(i) \/ AbortInsert(i)
  <2>1. Committed' = Committed
    BY <1>3 DEF IInv, TypeOK, Insert, AbortInsert, Committed
  <2> QED BY <1>1, <1>2, <2>1
<1>4. CASE CommitInsert(i)
  <2>1. i \notin Committed /\ Committed' = Committed \cup {i}
    BY <1>4 DEF IInv, TypeOK, CommitInsert, Committed
  <2>2. Queue!Queue(i)
    BY <1>1, <1>2, <2>1 DEF Queue!Queue, Committed, MarkedSent
  <2> QED BY <2>2 DEF Queue!Next
<1> QED BY <1>3, <1>4

\* A relay publishes what is in its batch, which LockSound keeps pending.
LEMMA SendKeepsQueue ==
  ASSUME IInv, NEW r \in Relays, Send(r)
  PROVE  [Queue!Next]_<<Committed, topic, MarkedSent, adrift>>
<1>1. row' = row /\ adrift' = adrift
  BY DEF Send, table
<1>2. Committed' = Committed /\ MarkedSent' = MarkedSent
  BY <1>1 DEF Committed, MarkedSent
<1>3. PICK i \in todo[r] : topic' = Append(topic, i)
  BY DEF Send
<1>4. i \in Rows /\ i \in Committed \ MarkedSent
  BY DEF IInv, TypeOK, LockSound, Committed, MarkedSent
<1>5. Queue!Deliver(i)
  BY <1>1, <1>2, <1>3, <1>4 DEF Queue!Deliver, Committed, MarkedSent
<1> QED BY <1>4, <1>5 DEF Queue!Next

\* So is what it loses sight of.
LEMMA LoseSightKeepsQueue ==
  ASSUME IInv, NEW r \in Relays, LoseSight(r), row' = row, topic' = topic
  PROVE  [Queue!Next]_<<Committed, topic, MarkedSent, adrift>>
<1>1. Committed' = Committed /\ MarkedSent' = MarkedSent
  BY DEF Committed, MarkedSent
<1>2. CASE UNCHANGED adrift
  BY <1>1, <1>2
<1>3. CASE \E i \in todo[r] : adrift' = [adrift EXCEPT ![i] = @ + 1]
  <2>1. PICK i \in todo[r] : adrift' = [adrift EXCEPT ![i] = @ + 1]
    BY <1>3
  <2>2. i \in Rows /\ i \in Committed \ MarkedSent
    BY DEF IInv, TypeOK, LockSound, Committed, MarkedSent
  <2>3. Queue!Abandon(i)
    BY <1>1, <2>1, <2>2 DEF Queue!Abandon, Committed, MarkedSent
  <2> QED BY <2>2, <2>3 DEF Queue!Next
<1> QED BY <1>2, <1>3 DEF LoseSight

LEMMA LandKeepsQueue ==
  ASSUME NEW i \in Rows, Land(i)
  PROVE  [Queue!Next]_<<Committed, topic, MarkedSent, adrift>>
<1>1. Committed' = Committed /\ MarkedSent' = MarkedSent
  BY DEF Land, table, Committed, MarkedSent
<1>2. Queue!Arrive(i)
  BY <1>1 DEF Land, Queue!Arrive, Committed, MarkedSent
<1> QED BY <1>2 DEF Queue!Next

\* A commit settles what MarkSound knows to be published.
LEMMA CommitKeepsQueue ==
  ASSUME IInv, NEW r \in Relays, Commit(r)
  PROVE  [Queue!Next]_<<Committed, topic, MarkedSent, adrift>>
<1>1. /\ topic' = topic /\ adrift' = adrift
      /\ row' = [i \in Rows |-> IF i \in marked[r] THEN "sent" ELSE row[i]]
  BY DEF Commit, kafka
<1>2. \A i \in marked[r] : i \in Rows /\ row[i] = "pending"
  BY DEF IInv, TypeOK, LockSound
<1>3. Committed' = Committed
  BY <1>1, <1>2 DEF Committed
<1>4. MarkedSent' = MarkedSent \cup marked[r]
  BY <1>1, <1>2 DEF MarkedSent
<1>5. marked[r] \in SUBSET (Committed \cap (Queue!Delivered \ MarkedSent))
  BY <1>2, PublishedIsDelivered DEF IInv, TypeOK, MarkSound, Committed, MarkedSent
<1>6. CASE marked[r] = {}
  BY <1>1, <1>3, <1>4, <1>6
<1>7. CASE marked[r] # {}
  <2>1. Queue!Settle
    BY <1>1, <1>3, <1>4, <1>5, <1>7 DEF Queue!Settle, Committed, MarkedSent
  <2> QED BY <2>1 DEF Queue!Next
<1> QED BY <1>6, <1>7

LEMMA HousekeepingKeepsQueue ==
  ASSUME IInv, NEW r \in Relays, Housekeeping(r)
  PROVE  UNCHANGED <<Committed, topic, MarkedSent, adrift>>
<1>1. PICK old \in SUBSET {i \in Rows : row[i] = "sent"} :
        row' = [i \in Rows |-> IF i \in old THEN "purged" ELSE row[i]]
  BY DEF Housekeeping
<1>2. topic' = topic /\ adrift' = adrift
  BY DEF Housekeeping, kafka
<1>3. Committed' = Committed /\ MarkedSent' = MarkedSent
  BY <1>1 DEF Committed, MarkedSent
<1> QED BY <1>2, <1>3

LEMMA StepKeepsQueue == IInv /\ [Next]_vars => [Queue!Next]_<<Committed, topic, MarkedSent, adrift>>
<1> SUFFICES ASSUME IInv, [Next]_vars PROVE [Queue!Next]_<<Committed, topic, MarkedSent, adrift>>
  OBVIOUS
<1>1. ASSUME row' = row, topic' = topic, adrift' = adrift PROVE UNCHANGED <<Committed, topic, MarkedSent, adrift>>
  BY <1>1 DEF Committed, MarkedSent
<1>2. ASSUME NEW i \in Rows, Insert(i) \/ CommitInsert(i) \/ AbortInsert(i)
      PROVE  [Queue!Next]_<<Committed, topic, MarkedSent, adrift>>
  BY <1>2, InsertKeepsQueue
<1>3. ASSUME NEW r \in Relays, \/ Work(r) \/ FetchNothing(r) \/ Housekeeping(r)
                               \/ SendError(r) \/ Rollback(r) \/ Halt(r)
      PROVE  [Queue!Next]_<<Committed, topic, MarkedSent, adrift>>
  <2>1. CASE Start(r) \/ Connect(r) \/ Fetch(r) \/ FetchNothing(r) \/ SendRejected(r)
    <3>1. row' = row /\ topic' = topic /\ adrift' = adrift
      BY <2>1 DEF Start, Connect, Fetch, FetchNothing, SendRejected, GiveUp, table, kafka, vars
    <3> QED BY <1>1, <3>1
  <2>2. CASE Send(r)
    BY <2>2, SendKeepsQueue
  <2>5. CASE SendError(r) \/ Rollback(r) \/ Halt(r)
    <3>1. row' = row /\ topic' = topic /\ LoseSight(r)
      BY <2>5 DEF SendError, GiveUp, Rollback, Halt, table
    <3> QED BY <3>1, LoseSightKeepsQueue
  <2>3. CASE Commit(r)
    BY <2>3, CommitKeepsQueue
  <2>4. CASE Housekeeping(r)
    BY <2>4, HousekeepingKeepsQueue
  <2> QED BY <1>3, <2>1, <2>2, <2>3, <2>4, <2>5 DEF Work
<1>4. CASE UNCHANGED vars
  BY <1>1, <1>4 DEF vars, table, kafka
<1> QED BY <1>2, <1>3, <1>4, LandKeepsQueue DEF Next

\* Every step of callers and relays, with rollbacks, crashes and lost
\* acknowledgements, is a step of DurableQueue or invisible to it: a row is
\* published only between its commit and its mark, and marked only when published;
\* what arrives after the mark is a copy some failure lost sight of before it.
THEOREM QueueKept == SafeSpec => KeepsQueue
<1>1. Init => Queue!Init
  BY DEF Init, Queue!Init
<1>2. IInv /\ [Next]_vars => [Queue!Next]_(Queue!qvars)
  BY StepKeepsQueue DEF Queue!qvars, Committed, MarkedSent
<1> QED BY <1>1, <1>2, Invariance, PTL DEF SafeSpec, KeepsQueue, Queue!Spec

-----------------------------------------------------------------------------
(* Duplicates. *)

\* Row i is marked sent, in the table or in an open transaction.
Settling(i) == row[i] \in {"sent", "purged"} \/ \E r \in Relays : i \in marked[r]

\* Its copies in Kafka and on the way there.
Versions(i) == Copies(i) + adrift[i]

\* A row has one more copy than there were faults only if it is being settled,
\* and what is still to be sent is not.
CopiesOK ==
    /\ \A r \in Relays : todo[r] \cap marked[r] = {}
    /\ \A i \in Rows : Versions(i) <= IF Settling(i) THEN 1 + faults ELSE faults

CopiesInv == IInv /\ CopiesOK

LEMMA CopiesNat == ASSUME topic \in Seq(Rows), NEW i \in Rows PROVE Copies(i) \in Nat
<1>1. IsFiniteSet(1 .. Len(topic))
  BY FS_Interval
<1>2. IsFiniteSet({k \in 1 .. Len(topic) : topic[k] = i})
  BY <1>1, FS_Subset
<1> QED BY <1>2, FS_CardinalityType DEF Copies

LEMMA AppendCopies ==
  ASSUME topic \in Seq(Rows), NEW j \in Rows, topic' = Append(topic, j), NEW i \in Rows
  PROVE  Copies(i)' = IF i = j THEN Copies(i) + 1 ELSE Copies(i)
<1> DEFINE At == {k \in 1 .. Len(topic) : topic[k] = i}
           n == Len(topic) + 1
<1>1. Len(topic) \in Nat /\ Len(topic') = n /\ topic'[n] = j
      /\ \A k \in 1 .. Len(topic) : topic'[k] = topic[k]
  OBVIOUS
<1>2. {k \in 1 .. Len(topic') : topic'[k] = i} = IF i = j THEN At \cup {n} ELSE At
  BY <1>1
<1>3. n \notin At
  BY <1>1
<1>4. IsFiniteSet(At)
  <2>1. IsFiniteSet(1 .. Len(topic))
    BY <1>1, FS_Interval
  <2> QED BY <2>1, FS_Subset
<1>5. Cardinality(At \cup {n}) = Cardinality(At) + 1
  BY <1>3, <1>4, FS_AddElement
<1> QED BY <1>2, <1>5 DEF Copies

LEMMA SameCopies == topic' = topic => \A i \in Rows : Copies(i)' = Copies(i)
BY DEF Copies

LEMMA Unsettled ==
  ASSUME CopiesInv, NEW r \in Relays, NEW i \in todo[r]
  PROVE  i \in Rows /\ row[i] = "pending" /\ ~Settling(i)
<1>1. i \in Rows /\ lock[i] = r /\ row[i] = "pending"
  BY DEF CopiesInv, IInv, TypeOK, LockSound
<1>2. \A s \in Relays : i \notin marked[s]
  BY <1>1 DEF CopiesInv, CopiesOK, IInv, LockSound
<1> QED BY <1>1, <1>2 DEF Settling

\* Steps that publish nothing: a row is settled no less and no copy is made, or a
\* fault is spent.
LEMMA QuietCopies ==
  ASSUME CopiesInv, topic' = topic, faults' \in {faults, faults + 1},
         \A r \in Relays : todo'[r] \cap marked'[r] = {},
         \/ faults' = faults + 1
         \/ \A i \in Rows : Settling(i) => Settling(i)',
         \A i \in Rows : \/ adrift'[i] = adrift[i]
                        \/ /\ adrift'[i] = adrift[i] + 1
                           /\ faults' = faults + 1
                           /\ ~Settling(i)
  PROVE  CopiesOK'
<1>1. faults \in Nat /\ \A i \in Rows : /\ Copies(i) \in Nat /\ Copies(i)' = Copies(i)
                                       /\ adrift[i] \in Nat
  BY CopiesNat, SameCopies DEF CopiesInv, IInv, TypeOK
<1>2. \A i \in Rows : Copies(i) + adrift[i] <= IF Settling(i) THEN 1 + faults ELSE faults
  BY DEF CopiesInv, CopiesOK, Versions
<1>3. ASSUME NEW i \in Rows
      PROVE  Copies(i)' + adrift'[i] <= IF Settling(i)' THEN 1 + faults' ELSE faults'
  BY <1>1, <1>2
<1> QED BY <1>3 DEF CopiesOK, Versions

LEMMA OutsideCopies ==
  ASSUME CopiesInv,
         \/ \E i \in Rows : Insert(i) \/ CommitInsert(i) \/ AbortInsert(i)
         \/ \E r \in Relays : Start(r) \/ Connect(r) \/ FetchNothing(r) \/ Housekeeping(r)
         \/ UNCHANGED vars
  PROVE  CopiesOK'
<1>1. /\ todo' = todo /\ marked' = marked /\ topic' = topic /\ faults' = faults
      /\ adrift' = adrift
  BY DEF Insert, CommitInsert, AbortInsert, Start, Connect, FetchNothing, Housekeeping,
         vars, transaction, kafka
<1>2. \A i \in Rows : row[i] \in {"sent", "purged"} => row'[i] \in {"sent", "purged"}
  <2>1. CASE \E i \in Rows : Insert(i) \/ CommitInsert(i) \/ AbortInsert(i)
    BY <2>1 DEF CopiesInv, IInv, TypeOK, Insert, CommitInsert, AbortInsert
  <2>2. CASE \E r \in Relays : Start(r) \/ Connect(r) \/ FetchNothing(r)
    BY <2>2 DEF Start, Connect, FetchNothing, vars, table
  <2>3. CASE \E r \in Relays : Housekeeping(r)
    BY <2>3 DEF Housekeeping
  <2>4. CASE UNCHANGED vars
    BY <2>4 DEF vars, table
  <2> QED BY <2>1, <2>2, <2>3, <2>4
<1>3. \A i \in Rows : Settling(i) => Settling(i)'
  BY <1>1, <1>2 DEF Settling
<1> QED BY <1>1, <1>3, QuietCopies DEF CopiesInv, CopiesOK

\* The rows of a new batch were locked by nobody, and so marked by nobody.
LEMMA FetchCopies == ASSUME CopiesInv, NEW r \in Relays, Fetch(r) PROVE CopiesOK'
<1>1. PICK rows \in SUBSET {i \in Pending : lock[i] = Nobody} : todo' = [todo EXCEPT ![r] = rows]
  BY DEF Fetch
<1>2. /\ row' = row /\ marked' = marked /\ topic' = topic /\ faults' = faults
      /\ adrift' = adrift
  BY DEF Fetch, table, kafka
<1>3. rows \cap marked[r] = {}
  BY DEF CopiesInv, IInv, LockSound
<1>4. \A s \in Relays : todo'[s] \cap marked'[s] = {}
  BY <1>1, <1>2, <1>3 DEF CopiesInv, CopiesOK, IInv, TypeOK
<1>5. \A i \in Rows : Settling(i) => Settling(i)'
  BY <1>2 DEF Settling
<1> QED BY <1>2, <1>4, <1>5, QuietCopies

\* The row that is sent was not being settled, and is now.
LEMMA SendCopies == ASSUME CopiesInv, NEW r \in Relays, Send(r) PROVE CopiesOK'
<1>1. PICK j \in todo[r] : /\ topic' = Append(topic, j)
                           /\ todo' = [todo EXCEPT ![r] = @ \ {j}]
                           /\ marked' = [marked EXCEPT ![r] = @ \cup {j}]
  BY DEF Send
<1>2. row' = row /\ adrift' = adrift /\ faults' = faults /\ faults \in Nat
  BY DEF Send, table, CopiesInv, IInv, TypeOK
<1>3. j \in Rows /\ ~Settling(j)
  BY Unsettled
<1>5. \A s \in Relays : /\ todo'[s] = IF s = r THEN todo[s] \ {j} ELSE todo[s]
                        /\ marked'[s] = IF s = r THEN marked[s] \cup {j} ELSE marked[s]
  BY <1>1 DEF CopiesInv, IInv, TypeOK
<1>6. \A s \in Relays : todo'[s] \cap marked'[s] = {}
  BY <1>5 DEF CopiesInv, CopiesOK
<1>7. Settling(j)' /\ \A i \in Rows : Settling(i) => Settling(i)'
  BY <1>2, <1>5 DEF Settling
<1>8. ASSUME NEW i \in Rows
      PROVE  Copies(i)' + adrift'[i] <= IF Settling(i)' THEN 1 + faults' ELSE faults'
  <2>1. /\ Copies(i)' = IF i = j THEN Copies(i) + 1 ELSE Copies(i)
        /\ Copies(i) \in Nat /\ adrift[i] \in Nat
    BY <1>1, <1>3, AppendCopies, CopiesNat DEF CopiesInv, IInv, TypeOK
  <2>2. Copies(i) + adrift[i] <= IF Settling(i) THEN 1 + faults ELSE faults
    BY DEF CopiesInv, CopiesOK, Versions
  <2> QED BY <1>2, <1>3, <1>7, <2>1, <2>2
<1> QED BY <1>6, <1>8 DEF CopiesOK, Versions

\* A copy that lands was counted when it was lost sight of.
LEMMA LandCopies == ASSUME CopiesInv, NEW j \in Rows, Land(j) PROVE CopiesOK'
<1>1. /\ topic' = Append(topic, j) /\ adrift[j] > 0
      /\ adrift' = [adrift EXCEPT ![j] = @ - 1]
      /\ row' = row /\ todo' = todo /\ marked' = marked /\ faults' = faults
  BY DEF Land, table, transaction
<1>2. \A i \in Rows : Settling(i)' <=> Settling(i)
  BY <1>1 DEF Settling
<1>3. ASSUME NEW i \in Rows PROVE Copies(i)' + adrift'[i] = Copies(i) + adrift[i]
  <2>1. /\ Copies(i)' = IF i = j THEN Copies(i) + 1 ELSE Copies(i)
        /\ Copies(i) \in Nat /\ adrift[i] \in Nat
    BY <1>1, AppendCopies, CopiesNat DEF CopiesInv, IInv, TypeOK
  <2>2. adrift'[i] = IF i = j THEN adrift[i] - 1 ELSE adrift[i]
    BY <1>1 DEF CopiesInv, IInv, TypeOK
  <2> QED BY <2>1, <2>2
<1> QED BY <1>1, <1>2, <1>3 DEF CopiesInv, CopiesOK, Versions

\* A batch given up: the copy that may still arrive has a fault of its own.
LEMMA GiveUpCopies ==
  ASSUME CopiesInv, NEW r \in Relays, SendRejected(r) \/ SendError(r)
  PROVE  CopiesOK'
<1>1. row' = row /\ marked' = marked /\ topic' = topic /\ todo' = [todo EXCEPT ![r] = {}]
  BY DEF SendRejected, SendError, GiveUp, table, kafka
<1>2. \A s \in Relays : todo'[s] \cap marked'[s] = {}
  BY <1>1 DEF CopiesInv, CopiesOK, IInv, TypeOK
<1>3. \A i \in Rows : Settling(i) => Settling(i)'
  BY <1>1 DEF Settling
<1>4. CASE SendRejected(r)
  BY <1>1, <1>2, <1>3, <1>4, QuietCopies DEF SendRejected, kafka
<1>5. CASE SendError(r)
  <2>1. /\ faults' = faults + 1
        /\ \A i \in Rows : \/ adrift'[i] = adrift[i]
                           \/ i \in todo[r] /\ adrift'[i] = adrift[i] + 1
    BY <1>5, LoseSightStep DEF SendError, CopiesInv
  <2> QED BY <1>1, <1>2, <2>1, Unsettled, QuietCopies
<1> QED BY <1>4, <1>5

\* A commit turns marks into sent rows; whoever loses marks, or sight of a copy,
\* has failed.
LEMMA EndCopies ==
  ASSUME CopiesInv, NEW r \in Relays, Commit(r) \/ Rollback(r) \/ Halt(r)
  PROVE  CopiesOK'
<1>1. Release(r) /\ topic' = topic
  BY DEF Commit, Rollback, Halt, kafka
<1>2. \A s \in Relays : /\ todo'[s] = IF s = r THEN {} ELSE todo[s]
                        /\ marked'[s] = IF s = r THEN {} ELSE marked[s]
  BY <1>1 DEF Release, CopiesInv, IInv, TypeOK
<1>3. \A s \in Relays : todo'[s] \cap marked'[s] = {}
  BY <1>2 DEF CopiesInv, CopiesOK
<1>4. CASE Commit(r)
  <2>1. row' = [i \in Rows |-> IF i \in marked[r] THEN "sent" ELSE row[i]]
    BY <1>4 DEF Commit
  <2>2. \A i \in Rows : Settling(i) => Settling(i)'
    BY <1>2, <2>1 DEF Settling
  <2>3. faults' = faults /\ adrift' = adrift
    BY <1>4 DEF Commit, kafka
  <2> QED BY <1>1, <1>3, <2>2, <2>3, QuietCopies
<1>5. CASE Rollback(r) \/ Halt(r)
  <2>1. /\ faults' = faults + 1
        /\ \A i \in Rows : \/ adrift'[i] = adrift[i]
                           \/ i \in todo[r] /\ adrift'[i] = adrift[i] + 1
    BY <1>5, LoseSightStep DEF Rollback, Halt, CopiesInv
  <2> QED BY <1>1, <1>3, <2>1, Unsettled, QuietCopies
<1> QED BY <1>4, <1>5

\* Kafka gets a row once more only for a failed send, a transaction rolled back
\* or a relay that halted, for any number of replicas and batch size, and however
\* late a copy lost sight of arrives.
THEOREM DuplicatesAreFaults == SafeSpec => []DuplicatesNeedFaults
<1>1. Init => CopiesInv
  <2> SUFFICES ASSUME Init PROVE CopiesInv
    OBVIOUS
  <2>1. \A i \in Rows : Copies(i) = 0
    <3>1. Len(topic) = 0
      BY DEF Init
    <3>2. \A i \in Rows : {k \in 1 .. Len(topic) : topic[k] = i} = {}
      BY <3>1
    <3> QED BY <3>2, FS_EmptySet DEF Copies
  <2>2. CopiesOK
    BY <2>1 DEF Init, CopiesOK, Versions
  <2> QED BY <2>2, InvariantStarts DEF CopiesInv
<1>2. ASSUME CopiesInv, [Next]_vars PROVE CopiesInv'
  <2>1. IInv'
    BY <1>2, InvariantStays DEF CopiesInv
  <2>2. CopiesOK'
    BY <1>2, OutsideCopies, FetchCopies, SendCopies, LandCopies, GiveUpCopies, EndCopies
       DEF Next, Work
  <2> QED BY <2>1, <2>2 DEF CopiesInv
<1>3. CopiesInv => DuplicatesNeedFaults
  <2> SUFFICES ASSUME CopiesInv, NEW i \in Rows PROVE Copies(i) <= 1 + faults
    BY DEF DuplicatesNeedFaults
  <2>1. Copies(i) \in Nat /\ adrift[i] \in Nat /\ faults \in Nat
    BY CopiesNat DEF CopiesInv, IInv, TypeOK
  <2>2. Copies(i) + adrift[i] <= 1 + faults
    BY <2>1 DEF CopiesInv, CopiesOK, Versions
  <2> QED BY <2>1, <2>2
<1> QED BY <1>1, <1>2, <1>3, PTL DEF SafeSpec

-----------------------------------------------------------------------------
(* Order. *)

\* While a relay has something to send, the rows it locks are its batch: those
\* to be sent and those it has marked.  Outside a transaction it locks nothing.
LocksAreBatch ==
    \A r \in Relays : \A i \in Rows :
        lock[i] = r => pc[r] = "publish" /\ (todo[r] # {} => i \in todo[r] \cup marked[r])

LEMMA FetchKeepsLocks == ASSUME IInv, LocksAreBatch, NEW r \in Relays, Fetch(r) PROVE LocksAreBatch'
<1>1. PICK rows \in SUBSET {i \in Pending : lock[i] = Nobody} :
        /\ todo' = [todo EXCEPT ![r] = rows]
        /\ lock' = [i \in Rows |-> IF i \in rows THEN r ELSE lock[i]]
  BY DEF Fetch
<1>2. pc[r] = "idle" /\ pc' = [pc EXCEPT ![r] = "publish"] /\ marked' = marked
  BY DEF Fetch, Goto
<1>3. \A i \in Rows : lock[i] # r
  BY <1>2 DEF LocksAreBatch
<1>4. ASSUME NEW s \in Relays, NEW i \in Rows, lock'[i] = s
      PROVE  pc'[s] = "publish" /\ (todo'[s] # {} => i \in todo'[s] \cup marked'[s])
  <2>1. CASE s = r
    <3>1. i \in rows
      BY <1>1, <1>3, <1>4, <2>1
    <3> QED BY <1>1, <1>2, <2>1, <3>1 DEF IInv, TypeOK
  <2>2. CASE s # r
    <3>1. lock[i] = s
      BY <1>1, <1>4, <2>2
    <3> QED BY <1>1, <1>2, <2>2, <3>1 DEF IInv, TypeOK, LocksAreBatch
  <2> QED BY <2>1, <2>2
<1> QED BY <1>4 DEF LocksAreBatch

LEMMA SendKeepsLocks ==
  ASSUME IInv, LocksAreBatch, NEW r \in Relays, Send(r) \/ SendRejected(r) \/ SendError(r)
  PROVE  LocksAreBatch'
<1>1. lock' = lock /\ pc' = pc
  BY DEF Send, SendRejected, SendError, GiveUp
<1>2. \A s \in Relays : todo'[s] # {} =>
         todo[s] # {} /\ todo[s] \cup marked[s] \subseteq todo'[s] \cup marked'[s]
  <2>1. CASE Send(r)
    BY <2>1 DEF Send, IInv, TypeOK
  <2>2. CASE SendRejected(r) \/ SendError(r)
    <3>1. marked' = marked /\ todo' = [todo EXCEPT ![r] = {}]
      BY <2>2 DEF SendRejected, SendError, GiveUp
    <3> QED BY <3>1 DEF IInv, TypeOK
  <2> QED BY <2>1, <2>2
<1> QED BY <1>1, <1>2 DEF LocksAreBatch

LEMMA EndKeepsLocks ==
  ASSUME IInv, LocksAreBatch, NEW r \in Relays, Commit(r) \/ Rollback(r) \/ Halt(r)
  PROVE  LocksAreBatch'
<1>1. Release(r)
  BY DEF Commit, Rollback, Halt
<1>2. \A s \in Relays \ {r} : pc'[s] = pc[s] /\ todo'[s] = todo[s] /\ marked'[s] = marked[s]
  BY <1>1 DEF Release, Commit, Rollback, Halt, Goto, IInv, TypeOK
<1>3. \A i \in Rows : lock'[i] = IF lock[i] = r THEN Nobody ELSE lock[i]
  BY <1>1 DEF Release
<1>4. ASSUME NEW s \in Relays, NEW i \in Rows, lock'[i] = s
      PROVE  s # r /\ lock[i] = s
  BY <1>3, <1>4
<1> QED BY <1>2, <1>4 DEF LocksAreBatch

LEMMA LocksKept == SafeSpec => []LocksAreBatch
<1>1. Init => LocksAreBatch
  BY DEF Init, LocksAreBatch
<1>2. IInv /\ LocksAreBatch /\ [Next]_vars => LocksAreBatch'
  <2> SUFFICES ASSUME IInv, LocksAreBatch, [Next]_vars PROVE LocksAreBatch'
    OBVIOUS
  <2>1. CASE UNCHANGED <<transaction, pc>>
    BY <2>1 DEF transaction, LocksAreBatch
  <2>2. ASSUME NEW r \in Relays, Start(r) PROVE LocksAreBatch'
    <3>1. pc[r] = "off" /\ pc' = [pc EXCEPT ![r] = "idle"] /\ UNCHANGED transaction
      BY <2>2 DEF Start, Goto
    <3> QED BY <3>1 DEF IInv, TypeOK, transaction, LocksAreBatch
  <2>3. ASSUME NEW r \in Relays, Fetch(r) PROVE LocksAreBatch'
    BY <2>3, FetchKeepsLocks
  <2>4. ASSUME NEW r \in Relays, Send(r) \/ SendRejected(r) \/ SendError(r) PROVE LocksAreBatch'
    BY <2>4, SendKeepsLocks
  <2>5. ASSUME NEW r \in Relays, Commit(r) \/ Rollback(r) \/ Halt(r) PROVE LocksAreBatch'
    BY <2>5, EndKeepsLocks
  <2> QED BY <2>1, <2>2, <2>3, <2>4, <2>5
          DEF Next, Work, vars, Insert, CommitInsert, AbortInsert, Land, Connect, FetchNothing,
              Housekeeping
<1> QED BY <1>1, <1>2, Invariance, PTL DEF SafeSpec

\* What a relay publishes is the smallest row that it has still to send.
LEMMA PublishedIsNext ==
  ASSUME IInv, [Next]_vars, NEW j \in Rows, topic' = Append(topic, j), adrift' = adrift
  PROVE  \E r \in Relays : j \in todo[r] /\ IsNext(r, j)
<1>1. topic \in Seq(Rows) /\ Len(topic) \in Nat
  BY DEF IInv, TypeOK
<1>2. topic' # topic /\ topic'[Len(topic) + 1] = j
  BY <1>1
<1>3. PICK r \in Relays : Send(r)
  <2>1. ~ UNCHANGED topic
    BY <1>2
  <2>2. ~ \E i \in Rows : Land(i)
    <3>1. \A i \in Rows : adrift[i] \in Nat
      BY DEF IInv, TypeOK
    <3> QED BY <3>1 DEF Land, IInv, TypeOK
  <2> QED BY <2>1, <2>2 DEF Next, Work, vars, kafka, Insert, CommitInsert, AbortInsert,
                      Start, Connect, Fetch, FetchNothing, SendRejected, SendError, Commit,
                      Rollback, Halt, Housekeeping
<1>4. PICK i \in todo[r] : IsNext(r, i) /\ topic' = Append(topic, i)
  BY <1>3 DEF Send
<1>5. i = j
  <2>1. i \in Rows
    BY DEF IInv, TypeOK
  <2>2. topic'[Len(topic) + 1] = i
    BY <1>1, <1>4, <2>1
  <2> QED BY <1>2, <2>2
<1> QED BY <1>4, <1>5

\* The rows of one relay's transaction reach Kafka in the order of their ids,
\* whichever sends fail: ORDER BY id, and a batch ends at the first failure.
OrderedByRelay ==
    [][\A i, j \in Rows :
          /\ topic' = Append(topic, j)
          /\ adrift' = adrift
          /\ i < j
          /\ lock[i] = lock[j]
          => i \in Published]_vars

LEMMA PublishedInOrderOfLocks ==
  ASSUME IInv, LocksAreBatch, [Next]_vars, NEW i \in Rows, NEW j \in Rows,
         topic' = Append(topic, j), adrift' = adrift, i < j, lock[i] = lock[j]
  PROVE  i \in Published
<1>1. PICK r \in Relays : j \in todo[r] /\ IsNext(r, j)
  BY PublishedIsNext
<1>2. lock[i] = r
  BY <1>1 DEF IInv, LockSound
<1>3. i \in todo[r] \cup marked[r]
  BY <1>1, <1>2 DEF LocksAreBatch
<1>4. i \notin todo[r]
  BY <1>1 DEF IsNext, Rows
<1> QED BY <1>3, <1>4 DEF IInv, MarkSound

\* Order is kept within a batch, for any number of replicas.
THEOREM OrderOfBatch == SafeSpec => OrderedByRelay
<1>1. IInv /\ LocksAreBatch /\ [Next]_vars
        => [\A i, j \in Rows : /\ topic' = Append(topic, j)
                               /\ adrift' = adrift
                               /\ i < j
                               /\ lock[i] = lock[j]
                               => i \in Published]_vars
  BY PublishedInOrderOfLocks
<1> QED BY <1>1, Invariance, LocksKept, PTL DEF SafeSpec, OrderedByRelay

\* "Publishes pending rows in order" (outbox.py:5) is true of a single process:
\* nothing but a second replica publishes a row before an older claimed one.
THEOREM OrderOfOneRelay ==
  ASSUME NEW r, Relays = {r}
  PROVE  SafeSpec => PublishedInOrder
<1>1. ASSUME IInv, LocksAreBatch, [Next]_vars, NEW i \in Rows, NEW j \in Rows,
             topic' = Append(topic, j), adrift' = adrift, i < j, lock[i] # Nobody
      PROVE  i \in Published
  <2>1. PICK s \in Relays : j \in todo[s] /\ IsNext(s, j)
    BY <1>1, PublishedIsNext
  <2>2. lock[j] = s /\ s = r
    BY <1>1, <2>1 DEF IInv, LockSound
  <2>3. lock[i] = r
    BY <1>1 DEF IInv, TypeOK
  <2> QED BY <1>1, <2>2, <2>3, PublishedInOrderOfLocks
<1>2. IInv /\ LocksAreBatch /\ [Next]_vars
        => [\A i, j \in Rows : /\ topic' = Append(topic, j)
                               /\ adrift' = adrift
                               /\ i < j
                               /\ lock[i] # Nobody
                               => i \in Published]_vars
  BY <1>1
<1> QED BY <1>2, Invariance, LocksKept, PTL DEF SafeSpec, PublishedInOrder
=============================================================================
