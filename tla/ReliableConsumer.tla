-------------------------- MODULE ReliableConsumer --------------------------
(***************************************************************************)
(* The Kafka consumer of src/kafka/reliable_consumer.py: one ReliableConsumer *)
(* task per service process, all in one consumer group.  The broker (the    *)
(* partition logs, the group coordinator, the committed offsets) is         *)
(* external and modelled from how the class uses it.                        *)
(*                                                                          *)
(* A record parses or not (_loads returns None), and its dead-letter        *)
(* envelope fits in a message or not; a handler call either returns or      *)
(* raises.  A batch is the interval next[m][p] .. end[m][p]-1 of offsets    *)
(* that getmany returned to m for p and that m has not gone through yet.    *)
(***************************************************************************)
EXTENDS Integers, Sequences

CONSTANTS Members,      \* the service processes
          Partitions,   \* the topic partitions subscribed to
          Routed,       \* those whose topic has a handler
          NoMember,     \* the owner of a partition of an empty group
          Kinds,        \* the kinds of records that producers send
          MaxAttempts,  \* max_attempts of the constructor
          MaxLog,       \* bound: records appended per partition
          MaxFaults     \* bound: crashes, evictions, stops and broker errors

ASSUME ConsumerAssumption == /\ Routed \subseteq Partitions
                             /\ NoMember \notin Members
                             /\ Kinds \subseteq [parses : BOOLEAN, fits : BOOLEAN]
                             /\ MaxAttempts \in Nat \ {0}
                             /\ MaxLog \in Nat
                             /\ MaxFaults \in Nat

VARIABLES log,        \* log[p]: the records of p
          committed,  \* committed[p]: the group's committed offset of p
          group,      \* the members the coordinator counts as alive
          owner,      \* owner[p]: the member p is assigned to
          position,   \* position[p]: the owner's fetch offset, -1 while unknown
          pc,         \* pc[m]: where m's task stands
          stopping,   \* stopping[m]: the _stopping event
          current,    \* current[m]: the partition whose records m goes through
          next, end,  \* the batch intervals
          tries,      \* tries[m]: failed calls of the handler for this record
          outcomes,   \* outcomes[p][o]: what became of offset o, as the counter names it
          faults      \* faults used so far

broker == <<log, committed>>
membership == <<group, owner, position>>
memory == <<current, next, end, tries>>
vars == <<broker, membership, memory, pc, stopping, outcomes, faults>>

Offsets == 0 .. MaxLog - 1
NoOffset == -1
Labels == {"ok", "ignored", "dead_lettered"}
Busy == {"batch", "handle", "park", "commit"}

Settled(p) == {o \in Offsets : outcomes[p][o] # {}}

Init == /\ log = [p \in Partitions |-> <<>>]
        /\ committed = [p \in Partitions |-> 0]
        /\ group = {}
        /\ owner = [p \in Partitions |-> NoMember]
        /\ position = [p \in Partitions |-> NoOffset]
        /\ pc = [m \in Members |-> "off"]
        /\ stopping = [m \in Members |-> FALSE]
        /\ current \in [Members -> Partitions]
        /\ next = [m \in Members |-> [p \in Partitions |-> 0]]
        /\ end = [m \in Members |-> [p \in Partitions |-> 0]]
        /\ tries = [m \in Members |-> 0]
        /\ outcomes = [p \in Partitions |-> [o \in Offsets |-> {}]]
        /\ faults = 0

-----------------------------------------------------------------------------
(* The broker. *)

Produce(p) == /\ Len(log[p]) < MaxLog
              /\ \E kind \in Kinds :
                    log' = [log EXCEPT ![p] = Append(@, kind)]
              /\ UNCHANGED <<committed, membership, memory, pc, stopping, outcomes, faults>>

\* A new generation: every partition gets an owner and loses its position,
\* which the owner reads back from the committed offset.
Rebalance(members) ==
    /\ group' = members
    /\ owner' \in [Partitions -> IF members = {} THEN {NoMember} ELSE members]
    /\ position' = [p \in Partitions |-> NoOffset]

Leave(m) == IF m \in group THEN Rebalance(group \ {m}) ELSE UNCHANGED membership

\* MUTANT of FetchPosition: auto_offset_reset="latest".
FetchLatest(p) ==
    /\ owner[p] # NoMember
    /\ position[p] = NoOffset
    /\ position' = [position EXCEPT
                       ![p] = IF committed[p] = 0 THEN Len(log[p]) ELSE committed[p]]
    /\ UNCHANGED <<broker, group, owner, memory, pc, stopping, outcomes, faults>>

FetchPosition(p) ==
    /\ owner[p] # NoMember
    /\ position[p] = NoOffset
    /\ position' = [position EXCEPT ![p] = committed[p]]
    /\ UNCHANGED <<broker, group, owner, memory, pc, stopping, outcomes, faults>>

Fault == faults < MaxFaults /\ faults' = faults + 1

\* The coordinator gives up on a member that polls or beats too late; the
\* member's task does not notice.
Evict(m) == /\ Fault
            /\ m \in group
            /\ Rebalance(group \ {m})
            /\ UNCHANGED <<broker, memory, pc, stopping, outcomes>>

\* aiokafka rejoins in the background, whatever the task is doing.
Rejoin(m) == /\ m \notin group
             /\ pc[m] \notin {"off", "retry"}
             /\ Rebalance(group \cup {m})
             /\ UNCHANGED <<broker, memory, pc, stopping, outcomes, faults>>

-----------------------------------------------------------------------------
(* start, _run, _close, stop. *)

\* The record in the hands of m, and its outcome.
Record(m) == log[current[m]][next[m][current[m]] + 1]

Count(m, label) ==
    outcomes' = [outcomes EXCEPT ![current[m]][next[m][current[m]]] = @ \cup {label}]

\* An envelope that was sent without an answer is in the DLQ topic or not: the
\* producer that _close stops after the consumer still sends what it has.
EnvelopeMayArrive(m) ==
    \/ UNCHANGED outcomes
    \/ /\ pc[m] = "park"
       /\ Record(m).fits
       /\ Count(m, "dead_lettered")

\* The in-memory batch goes with the AIOKafkaConsumer object.
Drop(m) == /\ next' = [next EXCEPT ![m] = [p \in Partitions |-> 0]]
           /\ end' = [end EXCEPT ![m] = [p \in Partitions |-> 0]]
           /\ tries' = [tries EXCEPT ![m] = 0]
           /\ UNCHANGED current

Goto(m, where) == pc' = [pc EXCEPT ![m] = where]

Close(m, where) == Drop(m) /\ Leave(m) /\ Goto(m, where)

Start(m) == /\ pc[m] = "off"
            /\ Goto(m, "retry")
            /\ stopping' = [stopping EXCEPT ![m] = FALSE]
            /\ UNCHANGED <<broker, membership, memory, outcomes, faults>>

Connect(m) == /\ pc[m] = "retry"
              /\ ~stopping[m]
              /\ Rebalance(group \cup {m})
              /\ Goto(m, "poll")
              /\ UNCHANGED <<broker, memory, stopping, outcomes, faults>>

Stop(m) == /\ Fault
           /\ pc[m] # "off"
           /\ ~stopping[m]
           /\ stopping' = [stopping EXCEPT ![m] = TRUE]
           /\ UNCHANGED <<broker, membership, memory, pc, outcomes>>

\* The loops test _stopping only between polls and between connections ...
Exit(m) == /\ stopping[m]
           /\ pc[m] \in {"retry", "poll"}
           /\ Close(m, "off")
           /\ UNCHANGED <<broker, stopping, outcomes, faults>>

\* ... so a task still in a batch after 15 s is cancelled where it stands.
Cancel(m) == /\ stopping[m]
             /\ pc[m] \in Busy
             /\ EnvelopeMayArrive(m)
             /\ Close(m, "off")
             /\ UNCHANGED <<broker, stopping, faults>>

Crash(m) == /\ Fault
            /\ pc[m] # "off"
            /\ EnvelopeMayArrive(m)
            /\ Close(m, "off")
            /\ UNCHANGED <<broker, stopping>>

-----------------------------------------------------------------------------
(* _loop. *)

\* getmany: records from the position on, of some of the partitions m owns.
Poll(m) ==
    /\ pc[m] = "poll"
    /\ ~stopping[m]
    /\ \E upto \in [Partitions -> 0 .. MaxLog] :
          LET got == {p \in Partitions : /\ owner[p] = m
                                         /\ position[p] # NoOffset
                                         /\ upto[p] > position[p]}
          IN  /\ got # {}
              /\ \A p \in Partitions : IF p \in got THEN upto[p] <= Len(log[p])
                                                    ELSE upto[p] = 0
              /\ next' = [next EXCEPT ![m] =
                            [p \in Partitions |-> IF p \in got THEN position[p] ELSE 0]]
              /\ end' = [end EXCEPT ![m] = upto]
              /\ position' = [p \in Partitions |->
                                IF p \in got THEN upto[p] ELSE position[p]]
    /\ Goto(m, "batch")
    /\ UNCHANGED <<broker, group, owner, current, tries, stopping, outcomes, faults>>

\* getmany times out with nothing; the loop goes round.
PollEmpty(m) == pc[m] = "poll" /\ ~stopping[m] /\ UNCHANGED vars

PollError(m) == /\ Fault
                /\ pc[m] = "poll"
                /\ Close(m, "retry")
                /\ UNCHANGED <<broker, stopping, outcomes>>

PickPartition(m) ==
    /\ pc[m] = "batch"
    /\ \E p \in Partitions : /\ next[m][p] < end[m][p]
                             /\ current' = [current EXCEPT ![m] = p]
    /\ Goto(m, "handle")
    /\ UNCHANGED <<broker, membership, next, end, tries, stopping, outcomes, faults>>

\* MUTANT of Commit: consumer.commit() with no offsets commits every position.
CommitPositions(m) ==
    LET p == current[m]
        rest == {q \in Partitions \ {p} : next[m][q] < end[m][q]}
    IN  /\ pc[m] = "commit"
        /\ owner[p] = m
        /\ committed' = [q \in Partitions |->
                            IF owner[q] = m /\ position[q] # NoOffset
                            THEN position[q] ELSE committed[q]]
        /\ next' = [next EXCEPT ![m][p] = 0]
        /\ end' = [end EXCEPT ![m][p] = 0]
        /\ Goto(m, IF rest = {} THEN "poll" ELSE "batch")
        /\ UNCHANGED <<log, membership, current, tries, stopping, outcomes, faults>>

\* consumer.commit({tp: records[-1].offset + 1}), refused unless m owns tp.
Commit(m) ==
    LET p == current[m]
        rest == {q \in Partitions \ {p} : next[m][q] < end[m][q]}
    IN  /\ pc[m] = "commit"
        /\ owner[p] = m
        /\ committed' = [committed EXCEPT ![p] = end[m][p]]
        /\ next' = [next EXCEPT ![m][p] = 0]
        /\ end' = [end EXCEPT ![m][p] = 0]
        /\ Goto(m, IF rest = {} THEN "poll" ELSE "batch")
        /\ UNCHANGED <<log, membership, current, tries, stopping, outcomes, faults>>

CommitRefused(m) == /\ pc[m] = "commit"
                    /\ owner[current[m]] # m
                    /\ Close(m, "retry")
                    /\ UNCHANGED <<broker, stopping, outcomes, faults>>

\* The broker answers with an error, or its answer is lost.
CommitError(m) == /\ Fault
                  /\ pc[m] = "commit"
                  /\ owner[current[m]] = m
                  /\ \/ UNCHANGED committed
                     \/ committed' = [committed EXCEPT ![current[m]] = end[m][current[m]]]
                  /\ Close(m, "retry")
                  /\ UNCHANGED <<log, stopping, outcomes>>

-----------------------------------------------------------------------------
(* _handle and _dead_letter. *)

\* The record has its outcome: on to the next one, or to the commit.
Settle(m, label) ==
    LET p == current[m]
    IN  /\ Count(m, label)
        /\ next' = [next EXCEPT ![m][p] = @ + 1]
        /\ tries' = [tries EXCEPT ![m] = 0]
        /\ Goto(m, IF next[m][p] + 1 = end[m][p] THEN "commit" ELSE "handle")
        /\ UNCHANGED <<broker, membership, current, end, stopping, faults>>

\* MUTANT of Unparseable: the parse error escapes _handle.
UnparseableRaises(m) == /\ pc[m] = "handle"
                        /\ ~Record(m).parses
                        /\ Close(m, "retry")
                        /\ UNCHANGED <<broker, stopping, outcomes, faults>>

Unparseable(m) == /\ pc[m] = "handle"
                  /\ ~Record(m).parses
                  /\ Goto(m, "park")
                  /\ UNCHANGED <<broker, membership, memory, stopping, outcomes, faults>>

Ignore(m) == /\ pc[m] = "handle"
             /\ Record(m).parses
             /\ current[m] \notin Routed
             /\ Settle(m, "ignored")

HandleOk(m) == /\ pc[m] = "handle"
               /\ Record(m).parses
               /\ current[m] \in Routed
               /\ Settle(m, "ok")

\* MUTANT of HandleError: range(1, max_attempts), one attempt too few.
HandleErrorOnceLess(m) ==
    /\ pc[m] = "handle"
    /\ Record(m).parses
    /\ current[m] \in Routed
    /\ tries' = [tries EXCEPT ![m] = @ + 1]
    /\ Goto(m, IF tries[m] + 2 >= MaxAttempts THEN "park" ELSE "handle")
    /\ UNCHANGED <<broker, membership, current, next, end, stopping, outcomes, faults>>

\* MUTANT of HandleError: one attempt too many.
HandleErrorOnceMore(m) ==
    /\ pc[m] = "handle"
    /\ Record(m).parses
    /\ current[m] \in Routed
    /\ tries' = [tries EXCEPT ![m] = @ + 1]
    /\ Goto(m, IF tries[m] + 1 > MaxAttempts THEN "park" ELSE "handle")
    /\ UNCHANGED <<broker, membership, current, next, end, stopping, outcomes, faults>>

HandleError(m) ==
    /\ pc[m] = "handle"
    /\ Record(m).parses
    /\ current[m] \in Routed
    /\ tries' = [tries EXCEPT ![m] = @ + 1]
    /\ Goto(m, IF tries[m] + 1 = MaxAttempts THEN "park" ELSE "handle")
    /\ UNCHANGED <<broker, membership, current, next, end, stopping, outcomes, faults>>

DeadLetter(m) == /\ pc[m] = "park"
                 /\ Record(m).fits
                 /\ Settle(m, "dead_lettered")

\* The envelope wraps the value in JSON, where a byte may take six: past the
\* maximum size of a message every send is refused, now and after reconnecting.
DeadLetterRejected(m) == /\ pc[m] = "park"
                         /\ ~Record(m).fits
                         /\ Close(m, "retry")
                         /\ UNCHANGED <<broker, stopping, outcomes, faults>>

\* MUTANT of DeadLetterError: the failed send is logged and the loop goes on.
DeadLetterErrorSwallowed(m) ==
    LET p == current[m]
    IN  /\ Fault
        /\ pc[m] = "park"
        /\ next' = [next EXCEPT ![m][p] = @ + 1]
        /\ tries' = [tries EXCEPT ![m] = 0]
        /\ Goto(m, IF next[m][p] + 1 = end[m][p] THEN "commit" ELSE "handle")
        /\ UNCHANGED <<broker, membership, current, end, stopping, outcomes>>

\* send_and_wait raises; the envelope may have reached the DLQ topic or not.
DeadLetterError(m) == /\ Fault
                      /\ pc[m] = "park"
                      /\ EnvelopeMayArrive(m)
                      /\ Close(m, "retry")
                      /\ UNCHANGED <<broker, stopping>>

-----------------------------------------------------------------------------
(* The specification. *)

\* What m's task and its client do without anybody's help or mischief.
Step(m) == \/ Start(m) \/ Connect(m) \/ Exit(m) \/ Cancel(m) \/ Rejoin(m)
           \/ Poll(m) \/ PollEmpty(m) \/ PickPartition(m) \/ Commit(m) \/ CommitRefused(m)
           \/ Unparseable(m) \/ Ignore(m) \/ HandleOk(m) \/ HandleError(m)
           \/ DeadLetter(m) \/ DeadLetterRejected(m)

Trouble(m) == \/ Stop(m) \/ Crash(m) \/ Evict(m) \/ PollError(m)
              \/ CommitError(m) \/ DeadLetterError(m)

Next == \/ \E p \in Partitions : Produce(p) \/ FetchPosition(p)
        \/ \E m \in Members : Step(m) \/ Trouble(m)

Fairness == /\ \A p \in Partitions : WF_vars(FetchPosition(p))
            /\ \A m \in Members : WF_vars(Step(m))

SafeSpec == Init /\ [][Next]_vars

Spec == SafeSpec /\ Fairness
-----------------------------------------------------------------------------
(* The properties. *)

\* Every variable has its type: offsets stay within the log bound, pending
\* batches of _loop are intervals, and retries never pass max_attempts.
TypeOK ==
    /\ log \in [Partitions -> Seq(Kinds)]
    /\ \A p \in Partitions : Len(log[p]) <= MaxLog
    /\ committed \in [Partitions -> 0 .. MaxLog]
    /\ group \subseteq Members
    /\ owner \in [Partitions -> Members \cup {NoMember}]
    /\ position \in [Partitions -> {NoOffset} \cup 0 .. MaxLog]
    /\ pc \in [Members -> {"off", "retry", "poll"} \cup Busy]
    /\ stopping \in [Members -> BOOLEAN]
    /\ current \in [Members -> Partitions]
    /\ next \in [Members -> [Partitions -> 0 .. MaxLog]]
    /\ end \in [Members -> [Partitions -> 0 .. MaxLog]]
    /\ tries \in [Members -> 0 .. MaxAttempts]
    /\ outcomes \in [Partitions -> [Offsets -> SUBSET Labels]]
    /\ faults \in 0 .. MaxFaults

\* Nothing is silently dropped (the comment of _dead_letter): an offset the
\* group has committed past was handled, ignored or parked, whichever members
\* crashed, were evicted in mid-batch or lost an answer of the broker.
CommittedIsSettled ==
    \A p \in Partitions : \A o \in 0 .. committed[p] - 1 : outcomes[p][o] # {}

\* No record of a partition gets its first outcome before an older record of
\* it, although an evicted member goes on with the batch it has in memory
\* while the new owner of the partition reads the same records.
SettledInOrder ==
    \A p \in Partitions : \A o \in Settled(p) : 0 .. o \subseteq Settled(p)

\* A record that parses is parked only when all its attempts are used up, and no
\* attempt of one record counts for another.
TriesBelongToRecord ==
    \A m \in Members :
        /\ tries[m] > 0 =>
              /\ pc[m] \in {"handle", "park"}
              /\ current[m] \in Routed
              /\ Record(m).parses
        /\ pc[m] = "park" =>
              \/ ~Record(m).parses
              \/ current[m] \in Routed /\ tries[m] = MaxAttempts

\* The broker stops refusing commits for a lost partition.  Nothing in _run or
\* _loop makes it: a member that was refused reconnects in the middle of the
\* other member's batch, takes the partition, and the other's commit is refused
\* in its turn, for ever.
RefusalsStop == <>[][\A m \in Members : ~CommitRefused(m)]_vars

\* Every record appended is some time committed past.
Progress == \A p \in Partitions : \A n \in 1 .. MaxLog :
                <>(Len(log[p]) >= n) => <>(committed[p] >= n)

AllFit == \A p \in Partitions : \A i \in 1 .. Len(log[p]) : log[p][i].fits

\* A poison message whose envelope fits does not block its partition: every
\* record appended is some time committed past, whatever the handler makes of it,
\* once the members have stopped taking partitions from each other in mid-batch.
\* The commit need not last: a member that lost the partition and got it back
\* commits the older end of the batch it still had, and nothing moves the offset
\* on until the next record.
EventuallyCommitted == RefusalsStop /\ []AllFit => Progress

\* "A failing handler is retried with backoff; after `max_attempts` the message
\* goes to `<topic>.dlq` with the error, and the partition moves on"
\* (reliable_consumer.py:7) and "Unparseable messages go straight to the DLQ"
\* (reliable_consumer.py:9), whatever the size of the message.
PartitionMovesOn == RefusalsStop => Progress

\* The consumer keeps the promise of AtLeastOnce, commit by commit and outcome
\* by outcome: a redelivered record, a zombie's outcome or a commit that moves
\* back is a step the promise allows or does not see.
Promise == INSTANCE AtLeastOnce
               WITH produced <- [p \in Partitions |-> Len(log[p])],
                    settled <- [p \in Partitions |-> Settled(p)]
KeepsPromise == Promise!SafeSpec
=============================================================================
