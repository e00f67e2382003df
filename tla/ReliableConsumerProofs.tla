----------------------- MODULE ReliableConsumerProofs -----------------------
(***************************************************************************)
(* Theorems about ReliableConsumer, for any members, partitions and bounds. *)
(***************************************************************************)
EXTENDS ReliableConsumer, TLAPS

-----------------------------------------------------------------------------
(* The inductive invariant. *)

\* The records of p before offset n have their outcome.
Below(p, n) == \A o \in 0 .. n - 1 : outcomes[p][o] # {}

Empty(m) == \A p \in Partitions : next[m][p] = end[m][p]

CommittedSound ==
    \A p \in Partitions : committed[p] <= Len(log[p]) /\ Below(p, committed[p])

OutcomesSound ==
    \A p \in Partitions : \A o \in Offsets :
        outcomes[p][o] # {} => o < Len(log[p]) /\ Below(p, o)

\* What m has gone through of a batch is settled, what it has left is in the log.
BatchSound ==
    \A m \in Members : \A p \in Partitions :
        /\ next[m][p] <= end[m][p]
        /\ end[m][p] <= Len(log[p])
        /\ Below(p, next[m][p])

\* A member that is not in a batch has none, and its program counter says how
\* far it is in the records of its current partition.
PcSound ==
    \A m \in Members :
        /\ pc[m] \notin Busy => Empty(m)
        /\ pc[m] \in {"handle", "park"} => next[m][current[m]] < end[m][current[m]]
        /\ pc[m] = "commit" => next[m][current[m]] = end[m][current[m]]
        /\ pc[m] = "handle" => tries[m] < MaxAttempts

\* Only a member of the group owns partitions, and what lies before a fetch
\* position is settled or in the owner's batch.
PositionSound ==
    \A p \in Partitions :
        /\ owner[p] \in group \cup {NoMember}
        /\ position[p] # NoOffset =>
              /\ owner[p] # NoMember
              /\ position[p] <= Len(log[p])
              /\ Below(p, position[p]) \/ position[p] <= end[owner[p]][p]

\* What TriesBelongToRecord says of one member.
TriesOf(m) ==
    /\ tries[m] > 0 =>
          /\ pc[m] \in {"handle", "park"}
          /\ current[m] \in Routed
          /\ Record(m).parses
    /\ pc[m] = "park" =>
          \/ ~Record(m).parses
          \/ current[m] \in Routed /\ tries[m] = MaxAttempts

IInv == /\ TypeOK
        /\ CommittedSound
        /\ OutcomesSound
        /\ BatchSound
        /\ PcSound
        /\ PositionSound
        /\ TriesBelongToRecord

USE ConsumerAssumption DEF Busy, NoOffset, Offsets, broker, membership, memory

-----------------------------------------------------------------------------
(* What an action keeps because it leaves the variables alone. *)

LEMMA KeepRecords ==
  ASSUME CommittedSound, OutcomesSound, UNCHANGED <<log, committed, outcomes>>
  PROVE  CommittedSound' /\ OutcomesSound'
BY DEF CommittedSound, OutcomesSound, Below

LEMMA KeepBatches ==
  ASSUME BatchSound, UNCHANGED <<log, outcomes, next, end>>
  PROVE  BatchSound'
BY DEF BatchSound, Below

LEMMA KeepPositions ==
  ASSUME PositionSound, UNCHANGED <<log, outcomes, membership, end>>
  PROVE  PositionSound'
BY DEF PositionSound, Below

\* A rebalance leaves no fetch position, and its owners are in the group.
LEMMA RebalanceForgets ==
  ASSUME NEW S \in SUBSET Members, Rebalance(S)
  PROVE  /\ PositionSound'
         /\ group' \subseteq Members
         /\ owner' \in [Partitions -> Members \cup {NoMember}]
         /\ position' \in [Partitions -> {NoOffset} \cup 0 .. MaxLog]
<1>1. /\ group' = S
      /\ owner' \in [Partitions -> IF S = {} THEN {NoMember} ELSE S]
      /\ position' = [p \in Partitions |-> NoOffset]
  BY DEF Rebalance
<1>2. \A p \in Partitions : owner'[p] \in S \cup {NoMember}
  BY <1>1
<1>3. \A p \in Partitions : position'[p] = NoOffset
  BY <1>1
<1>4. PositionSound'
  BY <1>1, <1>2, <1>3 DEF PositionSound
<1>5. owner' \in [Partitions -> Members \cup {NoMember}]
  <2>1. CASE S = {}
    BY <1>1, <2>1
  <2>2. CASE S # {}
    BY <1>1, <2>2
  <2> QED BY <2>1, <2>2
<1> QED BY <1>1, <1>4, <1>5

\* What TypeOK says of single values, for the steps that do arithmetic.
Types ==
  /\ \A p \in Partitions :
        /\ Len(log[p]) \in 0 .. MaxLog
        /\ committed[p] \in 0 .. MaxLog
        /\ position[p] \in {NoOffset} \cup 0 .. MaxLog
        /\ owner[p] \in Members \cup {NoMember}
  /\ \A m \in Members :
        /\ current[m] \in Partitions
        /\ tries[m] \in 0 .. MaxAttempts
        /\ pc[m] \in {"off", "retry", "poll"} \cup Busy
  /\ \A m \in Members, p \in Partitions :
        next[m][p] \in 0 .. MaxLog /\ end[m][p] \in 0 .. MaxLog

LEMMA TypesHold == TypeOK => Types
<1> SUFFICES ASSUME TypeOK PROVE Types
  OBVIOUS
<1>1. \A p \in Partitions : Len(log[p]) \in Nat /\ Len(log[p]) <= MaxLog
  BY DEF TypeOK
<1>2. \A p \in Partitions : Len(log[p]) \in 0 .. MaxLog
  BY <1>1
<1> QED BY <1>2 DEF TypeOK, Types

OutcomesGrow ==
    \A p \in Partitions : \A o \in Offsets : outcomes[p][o] \subseteq outcomes'[p][o]

\* A settled prefix stays settled.
LEMMA BelowGrows ==
  ASSUME OutcomesGrow, NEW p \in Partitions, NEW n \in 0 .. MaxLog, Below(p, n)
  PROVE  \A o \in 0 .. n - 1 : outcomes'[p][o] # {}
<1> SUFFICES ASSUME NEW o \in 0 .. n - 1 PROVE outcomes'[p][o] # {}
  OBVIOUS
<1>1. o \in Offsets
  OBVIOUS
<1> QED BY <1>1 DEF OutcomesGrow, Below

\* Closing the client: the batch of m is gone, and m owns nothing that has a
\* fetch position.
Closed(m, where) ==
  /\ next' \in [Members -> [Partitions -> 0 .. MaxLog]]
  /\ end' \in [Members -> [Partitions -> 0 .. MaxLog]]
  /\ tries' \in [Members -> 0 .. MaxAttempts]
  /\ pc' \in [Members -> {"off", "retry", "poll"} \cup Busy]
  /\ current' = current
  /\ group' \subseteq Members
  /\ owner' \in [Partitions -> Members \cup {NoMember}]
  /\ position' \in [Partitions -> {NoOffset} \cup 0 .. MaxLog]
  /\ pc'[m] = where /\ tries'[m] = 0
  /\ \A p \in Partitions : next'[m][p] = 0 /\ end'[m][p] = 0
  /\ \A n \in Members \ {m} :
        /\ pc'[n] = pc[n] /\ tries'[n] = tries[n]
        /\ next'[n] = next[n] /\ end'[n] = end[n]
  /\ \A p \in Partitions :
        /\ owner'[p] \in group' \cup {NoMember}
        /\ position'[p] # NoOffset =>
              /\ position'[p] = position[p]
              /\ owner'[p] = owner[p]
              /\ owner[p] # m

LEMMA CloseForgets ==
  ASSUME IInv, NEW m \in Members, NEW where \in {"off", "retry"}, Close(m, where)
  PROVE  Closed(m, where)
<1>1. Drop(m) /\ Leave(m) /\ Goto(m, where)
  BY DEF Close
<1>2. /\ next' \in [Members -> [Partitions -> 0 .. MaxLog]]
      /\ end' \in [Members -> [Partitions -> 0 .. MaxLog]]
      /\ tries' \in [Members -> 0 .. MaxAttempts]
      /\ current' = current
      /\ tries'[m] = 0
      /\ \A p \in Partitions : next'[m][p] = 0 /\ end'[m][p] = 0
      /\ \A n \in Members \ {m} :
            tries'[n] = tries[n] /\ next'[n] = next[n] /\ end'[n] = end[n]
  BY <1>1 DEF Drop, IInv, TypeOK
<1>3. /\ pc' \in [Members -> {"off", "retry", "poll"} \cup Busy]
      /\ pc'[m] = where
      /\ \A n \in Members \ {m} : pc'[n] = pc[n]
  BY <1>1 DEF Goto, IInv, TypeOK
<1>4. /\ group' \subseteq Members
      /\ owner' \in [Partitions -> Members \cup {NoMember}]
      /\ position' \in [Partitions -> {NoOffset} \cup 0 .. MaxLog]
      /\ \A p \in Partitions :
              /\ owner'[p] \in group' \cup {NoMember}
              /\ position'[p] # NoOffset =>
                    /\ position'[p] = position[p]
                    /\ owner'[p] = owner[p]
                    /\ owner[p] # m
  <2>1. CASE m \in group
    <3>1. group \ {m} \in SUBSET Members
      BY DEF IInv, TypeOK
    <3>2. Rebalance(group \ {m})
      BY <1>1, <2>1 DEF Leave
    <3>3. \A p \in Partitions : position'[p] = NoOffset
      BY <3>2 DEF Rebalance
    <3>4. \A p \in Partitions : owner'[p] \in group' \cup {NoMember}
      BY <3>1, <3>2, RebalanceForgets DEF PositionSound
    <3> QED BY <3>1, <3>2, <3>3, <3>4, RebalanceForgets
  <2>2. CASE m \notin group
    <3>1. UNCHANGED membership
      BY <1>1, <2>2 DEF Leave
    <3>2. \A p \in Partitions :
              /\ owner[p] \in group \cup {NoMember}
              /\ position[p] # NoOffset => owner[p] # NoMember
      BY DEF IInv, PositionSound
    <3> QED BY <2>2, <3>1, <3>2 DEF IInv, TypeOK
  <2> QED BY <2>1, <2>2
<1> QED BY <1>2, <1>3, <1>4 DEF Closed
\* What is settled below an offset, an offset of the log and a batch stay so
\* when m closes its client, whatever became of the record in its hands.
LEMMA CloseStep ==
  ASSUME IInv, NEW m \in Members, NEW where \in {"off", "retry"}, Close(m, where),
         log' = log, stopping' = stopping, faults' \in 0 .. MaxFaults,
         outcomes' \in [Partitions -> [Offsets -> SUBSET Labels]], OutcomesGrow,
         OutcomesSound', committed' \in [Partitions -> 0 .. MaxLog], CommittedSound'
  PROVE  IInv'
<1>c. Closed(m, where)
  BY CloseForgets
<1>t. TypeOK /\ Types
  BY TypesHold DEF IInv
<1>1. TypeOK'
  BY <1>c, <1>t DEF TypeOK, Closed
<1>2. BatchSound'
  <2> SUFFICES ASSUME NEW n \in Members, NEW p \in Partitions
               PROVE  (/\ next[n][p] <= end[n][p]
                       /\ end[n][p] <= Len(log[p])
                       /\ Below(p, next[n][p]))'
    BY DEF BatchSound
  <2>1. CASE n = m
    BY <1>c, <1>t, <2>1 DEF Below, Closed, Types
  <2>2. CASE n # m
    <3>1. /\ next[n][p] <= end[n][p]
          /\ end[n][p] <= Len(log[p])
          /\ Below(p, next[n][p])
      BY DEF IInv, BatchSound
    <3>2. next[n][p] \in 0 .. MaxLog
      BY <1>t DEF Types
    <3>3. \A o \in 0 .. next[n][p] - 1 : outcomes'[p][o] # {}
      BY <3>1, <3>2, BelowGrows
    <3> QED BY <1>c, <2>2, <3>1, <3>3 DEF Below, Closed
  <2> QED BY <2>1, <2>2
<1>3. PcSound'
  <2> SUFFICES ASSUME NEW n \in Members
               PROVE  (/\ pc[n] \notin Busy => Empty(n)
                       /\ pc[n] \in {"handle", "park"} =>
                             next[n][current[n]] < end[n][current[n]]
                       /\ pc[n] = "commit" => next[n][current[n]] = end[n][current[n]]
                       /\ pc[n] = "handle" => tries[n] < MaxAttempts)'
    BY DEF PcSound
  <2>1. CASE n = m
    <3>1. pc'[m] \notin Busy
      BY <1>c DEF Closed
    <3>2. Empty(m)'
      BY <1>c DEF Closed, Empty
    <3> QED BY <2>1, <3>1, <3>2
  <2>2. CASE n # m
    <3>1. /\ pc'[n] = pc[n] /\ tries'[n] = tries[n] /\ current' = current
          /\ next'[n] = next[n] /\ end'[n] = end[n]
      BY <1>c, <2>2 DEF Closed
    <3> QED BY <3>1 DEF IInv, PcSound, Empty
  <2> QED BY <2>1, <2>2
<1>4. PositionSound'
  <2> SUFFICES ASSUME NEW p \in Partitions, position'[p] # NoOffset
               PROVE  (/\ owner[p] # NoMember
                       /\ position[p] <= Len(log[p])
                       /\ Below(p, position[p]) \/ position[p] <= end[owner[p]][p])'
    BY <1>c DEF PositionSound, Closed
  <2>1. /\ position'[p] = position[p]
        /\ owner'[p] = owner[p]
        /\ owner[p] # m
    BY <1>c DEF Closed
  <2>2. /\ owner[p] # NoMember
        /\ position[p] <= Len(log[p])
        /\ Below(p, position[p]) \/ position[p] <= end[owner[p]][p]
    BY <2>1 DEF IInv, PositionSound
  <2>3. position[p] \in 0 .. MaxLog
    BY <1>t, <2>1 DEF Types
  <2>4. Below(p, position[p]) => \A o \in 0 .. position[p] - 1 : outcomes'[p][o] # {}
    BY <2>3, BelowGrows
  <2>5. end'[owner[p]] = end[owner[p]]
    BY <1>c, <1>t, <2>1, <2>2 DEF Closed, Types
  <2> QED BY <2>1, <2>2, <2>4, <2>5 DEF Below
<1>5. TriesBelongToRecord'
  <2> SUFFICES ASSUME NEW n \in Members PROVE TriesOf(n)'
    BY DEF TriesBelongToRecord, TriesOf
  <2>1. CASE n = m
    BY <1>c, <2>1 DEF TriesOf, Closed
  <2>2. CASE n # m
    <3>1. /\ pc'[n] = pc[n] /\ tries'[n] = tries[n] /\ current' = current
          /\ next'[n] = next[n]
      BY <1>c, <2>2 DEF Closed
    <3> QED BY <3>1 DEF IInv, TriesBelongToRecord, TriesOf, Record
  <2> QED BY <2>1, <2>2
<1> QED BY <1>1, <1>2, <1>3, <1>4, <1>5 DEF IInv
LEMMA StutterStep ==
  ASSUME IInv, UNCHANGED vars
  PROVE  IInv'
<1> USE DEF IInv
<1>u. /\ UNCHANGED <<log, committed>>
      /\ UNCHANGED <<group, owner, position>>
      /\ UNCHANGED <<current, next, end, tries>>
      /\ UNCHANGED <<pc, stopping, outcomes, faults>>
  BY DEF vars
<1>1. TypeOK'
  BY <1>u DEF TypeOK
<1>2. CommittedSound' /\ OutcomesSound' /\ BatchSound'
  BY <1>u, KeepRecords, KeepBatches
<1>3. PcSound'
  BY <1>u DEF PcSound, Empty
<1>4. PositionSound'
  BY <1>u, KeepPositions
<1>5. TriesBelongToRecord'
  BY <1>u DEF TriesBelongToRecord, Record
<1> QED BY <1>1, <1>2, <1>3, <1>4, <1>5

\* Actions that move a program counter or raise a flag.
LEMMA StartStep ==
  ASSUME IInv, NEW m \in Members, Start(m)
  PROVE  IInv'
<1>t. TypeOK /\ Types
  BY TypesHold DEF IInv
<1>u. UNCHANGED <<log, committed, outcomes, next, end>>
  BY DEF Start, Goto
<1>1. TypeOK'
  BY <1>t, <1>u DEF TypeOK, Start, Goto
<1>2. CommittedSound' /\ OutcomesSound'
  BY <1>u, KeepRecords DEF IInv
<1>3. BatchSound'
  BY <1>u, KeepBatches DEF IInv
<1>4. PcSound'
  BY <1>t DEF IInv, Types, PcSound, Empty, Start, Goto
<1>5. PositionSound'
  BY KeepPositions DEF IInv, Start, Goto
<1>6. TriesBelongToRecord'
  BY <1>t, <1>u DEF IInv, Types, TriesBelongToRecord, Record, Start, Goto
<1> QED BY <1>1, <1>2, <1>3, <1>4, <1>5, <1>6 DEF IInv

LEMMA StopStep ==
  ASSUME IInv, NEW m \in Members, Stop(m)
  PROVE  IInv'
<1>t. TypeOK /\ Types
  BY TypesHold DEF IInv
<1>u. UNCHANGED <<log, committed, outcomes, next, end>>
  BY DEF Stop, Fault
<1>1. TypeOK'
  BY <1>t, <1>u DEF TypeOK, Stop, Fault
<1>2. CommittedSound' /\ OutcomesSound'
  BY <1>u, KeepRecords DEF IInv
<1>3. BatchSound'
  BY <1>u, KeepBatches DEF IInv
<1>4. PcSound'
  BY <1>t DEF IInv, Types, PcSound, Empty, Stop, Fault
<1>5. PositionSound'
  BY KeepPositions DEF IInv, Stop, Fault
<1>6. TriesBelongToRecord'
  BY <1>t, <1>u DEF IInv, Types, TriesBelongToRecord, Record, Stop, Fault
<1> QED BY <1>1, <1>2, <1>3, <1>4, <1>5, <1>6 DEF IInv

LEMMA UnparseableStep ==
  ASSUME IInv, NEW m \in Members, Unparseable(m)
  PROVE  IInv'
<1>t. TypeOK /\ Types
  BY TypesHold DEF IInv
<1>u. UNCHANGED <<log, committed, outcomes, next, end>>
  BY DEF Unparseable, Goto
<1>1. TypeOK'
  BY <1>t, <1>u DEF TypeOK, Unparseable, Goto
<1>2. CommittedSound' /\ OutcomesSound'
  BY <1>u, KeepRecords DEF IInv
<1>3. BatchSound'
  BY <1>u, KeepBatches DEF IInv
<1>4. PcSound'
  BY <1>t DEF IInv, Types, PcSound, Empty, Unparseable, Goto
<1>5. PositionSound'
  BY KeepPositions DEF IInv, Unparseable, Goto
<1>6. TriesBelongToRecord'
  BY <1>t, <1>u DEF IInv, Types, TriesBelongToRecord, Record, Unparseable, Goto
<1> QED BY <1>1, <1>2, <1>3, <1>4, <1>5, <1>6 DEF IInv

LEMMA PickPartitionStep ==
  ASSUME IInv, NEW m \in Members, PickPartition(m)
  PROVE  IInv'
<1>t. TypeOK /\ Types
  BY TypesHold DEF IInv
<1>u. UNCHANGED <<log, committed, outcomes, next, end>>
  BY DEF PickPartition, Goto
<1>1. TypeOK'
  BY <1>t, <1>u DEF TypeOK, PickPartition, Goto
<1>2. CommittedSound' /\ OutcomesSound'
  BY <1>u, KeepRecords DEF IInv
<1>3. BatchSound'
  BY <1>u, KeepBatches DEF IInv
<1>4. PcSound'
  <2>1. PICK p \in Partitions : /\ next[m][p] < end[m][p]
                                /\ current' = [current EXCEPT ![m] = p]
    BY DEF PickPartition
  <2>2. tries[m] = 0
    <3>1. pc[m] = "batch"
      BY DEF PickPartition
    <3>2. ~(tries[m] > 0)
      BY <3>1 DEF IInv, TriesBelongToRecord
    <3>3. tries[m] \in 0 .. MaxAttempts
      BY <1>t DEF TypeOK
    <3> QED BY <3>2, <3>3, ConsumerAssumption
  <2>3. /\ current'[m] = p /\ pc'[m] = "handle"
        /\ \A n \in Members \ {m} : current'[n] = current[n] /\ pc'[n] = pc[n]
    BY <1>t, <2>1 DEF TypeOK, PickPartition, Goto
  <2>4. UNCHANGED tries
    BY DEF PickPartition
  <2> QED BY <1>u, <2>1, <2>2, <2>3, <2>4 DEF IInv, PcSound, Empty
<1>5. PositionSound'
  BY KeepPositions DEF IInv, PickPartition, Goto
<1>6. TriesBelongToRecord'
  BY <1>t, <1>u DEF IInv, Types, TriesBelongToRecord, Record, PickPartition, Goto
<1> QED BY <1>1, <1>2, <1>3, <1>4, <1>5, <1>6 DEF IInv

\* Actions that rebalance.
LEMMA ConnectStep ==
  ASSUME IInv, NEW m \in Members, Connect(m)
  PROVE  IInv'
<1>t. TypeOK /\ Types
  BY TypesHold DEF IInv
<1>u. UNCHANGED <<log, committed, outcomes, next, end>>
  BY DEF Connect, Goto
<1>r. (group \cup {m}) \in SUBSET Members /\ Rebalance((group \cup {m}))
  BY <1>t DEF TypeOK, Connect, Goto
<1>1. TypeOK'
  BY <1>t, <1>u, <1>r, RebalanceForgets DEF TypeOK, Connect, Goto
<1>2. CommittedSound' /\ OutcomesSound'
  BY <1>u, KeepRecords DEF IInv
<1>3. BatchSound'
  BY <1>u, KeepBatches DEF IInv
<1>4. PcSound'
  BY <1>t DEF IInv, Types, PcSound, Empty, Connect, Goto
<1>5. PositionSound'
  BY <1>r, RebalanceForgets
<1>6. TriesBelongToRecord'
  BY <1>t, <1>u DEF IInv, Types, TriesBelongToRecord, Record, Connect, Goto
<1> QED BY <1>1, <1>2, <1>3, <1>4, <1>5, <1>6 DEF IInv

LEMMA RejoinStep ==
  ASSUME IInv, NEW m \in Members, Rejoin(m)
  PROVE  IInv'
<1>t. TypeOK /\ Types
  BY TypesHold DEF IInv
<1>u. UNCHANGED <<log, committed, outcomes, next, end>>
  BY DEF Rejoin
<1>r. (group \cup {m}) \in SUBSET Members /\ Rebalance((group \cup {m}))
  BY <1>t DEF TypeOK, Rejoin
<1>1. TypeOK'
  BY <1>t, <1>u, <1>r, RebalanceForgets DEF TypeOK, Rejoin
<1>2. CommittedSound' /\ OutcomesSound'
  BY <1>u, KeepRecords DEF IInv
<1>3. BatchSound'
  BY <1>u, KeepBatches DEF IInv
<1>4. PcSound'
  BY <1>t DEF IInv, Types, PcSound, Empty, Rejoin
<1>5. PositionSound'
  BY <1>r, RebalanceForgets
<1>6. TriesBelongToRecord'
  BY <1>t, <1>u DEF IInv, Types, TriesBelongToRecord, Record, Rejoin
<1> QED BY <1>1, <1>2, <1>3, <1>4, <1>5, <1>6 DEF IInv

LEMMA EvictStep ==
  ASSUME IInv, NEW m \in Members, Evict(m)
  PROVE  IInv'
<1>t. TypeOK /\ Types
  BY TypesHold DEF IInv
<1>u. UNCHANGED <<log, committed, outcomes, next, end>>
  BY DEF Evict, Fault
<1>r. (group \ {m}) \in SUBSET Members /\ Rebalance((group \ {m}))
  BY <1>t DEF TypeOK, Evict, Fault
<1>1. TypeOK'
  <2>1. /\ group' \subseteq Members
        /\ owner' \in [Partitions -> Members \cup {NoMember}]
        /\ position' \in [Partitions -> {NoOffset} \cup 0 .. MaxLog]
    BY <1>r, RebalanceForgets
  <2>2. UNCHANGED <<current, tries, pc, stopping>> /\ faults' \in 0 .. MaxFaults
    BY <1>t DEF TypeOK, Evict, Fault
  <2> QED BY <1>t, <1>u, <2>1, <2>2 DEF TypeOK
<1>2. CommittedSound' /\ OutcomesSound'
  BY <1>u, KeepRecords DEF IInv
<1>3. BatchSound'
  BY <1>u, KeepBatches DEF IInv
<1>4. PcSound'
  BY <1>t DEF IInv, Types, PcSound, Empty, Evict, Fault
<1>5. PositionSound'
  BY <1>r, RebalanceForgets
<1>6. TriesBelongToRecord'
  BY <1>t, <1>u DEF IInv, Types, TriesBelongToRecord, Record, Evict, Fault
<1> QED BY <1>1, <1>2, <1>3, <1>4, <1>5, <1>6 DEF IInv

\* A record appended changes no record before it.
LEMMA ProduceStep ==
  ASSUME IInv, NEW p \in Partitions, Produce(p)
  PROVE  IInv'
<1>t. TypeOK /\ Types
  BY TypesHold DEF IInv
<1>u. UNCHANGED <<committed, membership, memory, pc, stopping, outcomes, faults>>
  BY DEF Produce
<1>l. /\ log' \in [Partitions -> Seq(Kinds)]
      /\ \A q \in Partitions : /\ Len(log'[q]) <= MaxLog
                               /\ Len(log[q]) <= Len(log'[q])
                               /\ \A i \in 1 .. Len(log[q]) : log'[q][i] = log[q][i]
  <2>1. PICK kind \in Kinds : log' = [log EXCEPT ![p] = Append(@, kind)]
    BY DEF Produce
  <2>2. Len(log[p]) < MaxLog
    BY DEF Produce
  <2>3. log[p] \in Seq(Kinds)
    BY <1>t DEF TypeOK
  <2>4. /\ Append(log[p], kind) \in Seq(Kinds)
        /\ Len(Append(log[p], kind)) = Len(log[p]) + 1
        /\ \A i \in 1 .. Len(log[p]) : Append(log[p], kind)[i] = log[p][i]
    BY <2>3
  <2>5. /\ log'[p] = Append(log[p], kind)
        /\ \A q \in Partitions \ {p} : log'[q] = log[q]
    BY <1>t, <2>1 DEF TypeOK
  <2>6. \A q \in Partitions : Len(log[q]) \in Nat /\ Len(log[q]) <= MaxLog
    BY <1>t DEF Types
  <2> QED BY <1>t, <2>1, <2>2, <2>4, <2>5, <2>6 DEF TypeOK
<1>n. \A q \in Partitions : Len(log'[q]) \in Nat
  BY <1>l
<1>1. TypeOK'
  BY <1>t, <1>u, <1>l DEF TypeOK
<1>m. ASSUME NEW q \in Partitions, NEW n \in Int, n <= Len(log[q])
      PROVE  n <= Len(log'[q])
  BY <1>t, <1>l, <1>n, <1>m DEF Types
<1>2. CommittedSound'
  <2> SUFFICES ASSUME NEW q \in Partitions
               PROVE  committed[q] <= Len(log'[q]) /\ Below(q, committed[q])
    BY <1>u DEF CommittedSound, Below
  <2>1. committed[q] \in Int /\ committed[q] <= Len(log[q]) /\ Below(q, committed[q])
    BY <1>t DEF IInv, CommittedSound, Types
  <2> QED BY <2>1, <1>m
<1>3. OutcomesSound'
  <2> SUFFICES ASSUME NEW q \in Partitions, NEW o \in Offsets, outcomes[q][o] # {}
               PROVE  o < Len(log'[q]) /\ Below(q, o)
    BY <1>u DEF OutcomesSound, Below
  <2>1. o < Len(log[q]) /\ Below(q, o)
    BY DEF IInv, OutcomesSound
  <2>2. o + 1 \in Int /\ o + 1 <= Len(log[q])
    BY <2>1, <1>t DEF Types
  <2>3. o + 1 <= Len(log'[q])
    BY <2>2, <1>m
  <2> QED BY <2>1, <2>3, <1>n
<1>4. BatchSound'
  <2> SUFFICES ASSUME NEW m \in Members, NEW q \in Partitions
               PROVE  /\ next[m][q] <= end[m][q]
                      /\ end[m][q] <= Len(log'[q])
                      /\ Below(q, next[m][q])
    BY <1>u DEF BatchSound, Below
  <2>1. /\ next[m][q] <= end[m][q]
        /\ end[m][q] <= Len(log[q])
        /\ Below(q, next[m][q])
        /\ end[m][q] \in Int
    BY <1>t DEF IInv, BatchSound, Types
  <2> QED BY <2>1, <1>m
<1>5. PcSound'
  BY <1>u DEF IInv, PcSound, Empty
<1>6. PositionSound'
  <2> SUFFICES ASSUME NEW q \in Partitions, position[q] # NoOffset
               PROVE  /\ owner[q] # NoMember
                      /\ position[q] <= Len(log'[q])
                      /\ Below(q, position[q]) \/ position[q] <= end[owner[q]][q]
    BY <1>u DEF IInv, PositionSound, Below
  <2>1. position[q] \in Int /\ position[q] <= Len(log[q])
    BY <1>t DEF IInv, PositionSound, Types
  <2> QED BY <2>1, <1>m DEF IInv, PositionSound
<1>7. TriesBelongToRecord'
  <2> SUFFICES ASSUME NEW m \in Members PROVE TriesOf(m)'
    BY DEF TriesBelongToRecord, TriesOf
  <2>1. TriesOf(m)
    BY DEF IInv, TriesBelongToRecord, TriesOf
  <2>2. CASE pc[m] \in {"handle", "park"}
    <3>1. next[m][current[m]] + 1 \in 1 .. Len(log[current[m]])
      BY <1>t, <2>2 DEF IInv, PcSound, BatchSound, Types
    <3>2. Record(m)' = Record(m)
      BY <1>t, <1>u, <1>l, <3>1 DEF Record, Types
    <3> QED BY <1>u, <2>1, <3>2 DEF TriesOf
  <2>3. CASE pc[m] \notin {"handle", "park"}
    BY <1>u, <2>1, <2>3 DEF TriesOf
  <2> QED BY <2>2, <2>3
<1> QED BY <1>1, <1>2, <1>3, <1>4, <1>5, <1>6, <1>7 DEF IInv

LEMMA FetchPositionStep ==
  ASSUME IInv, NEW p \in Partitions, FetchPosition(p)
  PROVE  IInv'
<1>t. TypeOK /\ Types
  BY TypesHold DEF IInv
<1>u. UNCHANGED <<log, committed, group, owner, memory, pc, stopping, outcomes, faults>>
  BY DEF FetchPosition
<1>p. /\ position' \in [Partitions -> {NoOffset} \cup 0 .. MaxLog]
      /\ position'[p] = committed[p]
      /\ owner[p] # NoMember
      /\ \A q \in Partitions \ {p} : position'[q] = position[q]
  BY <1>t DEF FetchPosition, TypeOK, Types
<1>1. TypeOK'
  BY <1>t, <1>u, <1>p DEF TypeOK
<1>2. CommittedSound' /\ OutcomesSound'
  BY <1>u, KeepRecords DEF IInv
<1>3. BatchSound'
  BY <1>u, KeepBatches DEF IInv
<1>4. PcSound'
  BY <1>u DEF IInv, PcSound, Empty
<1>5. PositionSound'
  <2> SUFFICES ASSUME NEW q \in Partitions, position'[q] # NoOffset
               PROVE  (/\ owner[q] # NoMember
                       /\ position[q] <= Len(log[q])
                       /\ Below(q, position[q]) \/ position[q] <= end[owner[q]][q])'
    BY <1>u DEF IInv, PositionSound
  <2>1. CASE q = p
    BY <1>u, <1>p, <2>1 DEF IInv, CommittedSound, Below
  <2>2. CASE q # p
    BY <1>u, <1>p, <2>2 DEF IInv, PositionSound, Below
  <2> QED BY <2>1, <2>2
<1>6. TriesBelongToRecord'
  BY <1>u DEF IInv, TriesBelongToRecord, Record
<1> QED BY <1>1, <1>2, <1>3, <1>4, <1>5, <1>6 DEF IInv

\* An outcome for the record in hand: outcomes only grow, and stay in order.
LEMMA CountGrows ==
  ASSUME IInv, NEW m \in Members, pc[m] \in {"handle", "park"},
         NEW label \in Labels, Count(m, label), UNCHANGED <<log, committed>>
  PROVE  /\ outcomes' \in [Partitions -> [Offsets -> SUBSET Labels]]
         /\ OutcomesGrow
         /\ outcomes'[current[m]][next[m][current[m]]] # {}
         /\ CommittedSound' /\ OutcomesSound'
<1> DEFINE c == current[m]
           x == next[m][current[m]]
<1>t. TypeOK /\ Types
  BY TypesHold DEF IInv
<1>x. c \in Partitions /\ x \in Offsets /\ x < Len(log[c]) /\ Below(c, x)
  BY <1>t DEF IInv, Types, PcSound, BatchSound
<1>1. outcomes' \in [Partitions -> [Offsets -> SUBSET Labels]]
  BY <1>t, <1>x DEF TypeOK, Count
<1>2. /\ outcomes'[c][x] = outcomes[c][x] \cup {label}
      /\ \A p \in Partitions, o \in Offsets :
            p # c \/ o # x => outcomes'[p][o] = outcomes[p][o]
  BY <1>t, <1>x DEF TypeOK, Count
<1>3. OutcomesGrow
  BY <1>2 DEF OutcomesGrow
<1>4. CommittedSound'
  <2> SUFFICES ASSUME NEW p \in Partitions
               PROVE  committed[p] <= Len(log[p])
                      /\ \A o \in 0 .. committed[p] - 1 : outcomes'[p][o] # {}
    BY DEF CommittedSound, Below
  <2>1. committed[p] \in 0 .. MaxLog /\ committed[p] <= Len(log[p]) /\ Below(p, committed[p])
    BY <1>t DEF IInv, CommittedSound, Types
  <2> QED BY <1>3, <2>1, BelowGrows
<1>5. OutcomesSound'
  <2> SUFFICES ASSUME NEW p \in Partitions, NEW o \in Offsets, outcomes'[p][o] # {}
               PROVE  o < Len(log[p]) /\ \A i \in 0 .. o - 1 : outcomes'[p][i] # {}
    BY DEF OutcomesSound, Below
  <2>1. o < Len(log[p]) /\ Below(p, o)
    <3>1. CASE p = c /\ o = x
      BY <1>x, <3>1
    <3>2. CASE ~(p = c /\ o = x)
      BY <1>2, <3>2 DEF IInv, OutcomesSound
    <3> QED BY <3>1, <3>2
  <2>2. o \in 0 .. MaxLog
    OBVIOUS
  <2> QED BY <1>3, <2>1, <2>2, BelowGrows
<1> QED BY <1>1, <1>2, <1>3, <1>4, <1>5

\* The commit of a finished batch covers settled records only.
LEMMA CommitCovers ==
  ASSUME IInv, NEW m \in Members, pc[m] = "commit", UNCHANGED <<log, outcomes>>,
         committed' = [committed EXCEPT ![current[m]] = end[m][current[m]]]
  PROVE  /\ committed' \in [Partitions -> 0 .. MaxLog]
         /\ CommittedSound' /\ OutcomesSound'
<1> DEFINE c == current[m]
<1>t. TypeOK /\ Types
  BY TypesHold DEF IInv
<1>1. committed' \in [Partitions -> 0 .. MaxLog]
  BY <1>t DEF TypeOK, Types
<1>2. /\ committed'[c] = end[m][c]
      /\ \A p \in Partitions \ {c} : committed'[p] = committed[p]
  BY <1>t DEF TypeOK, Types
<1>3. end[m][c] <= Len(log[c]) /\ Below(c, end[m][c])
  BY <1>t DEF IInv, PcSound, BatchSound, Types
<1>4. CommittedSound'
  BY <1>2, <1>3 DEF IInv, CommittedSound, Below
<1>5. OutcomesSound'
  BY DEF IInv, OutcomesSound, Below
<1> QED BY <1>1, <1>4, <1>5

\* An envelope on its way is one of the record in hand.
LEMMA EnvelopeCounts ==
  ASSUME NEW m \in Members, EnvelopeMayArrive(m)
  PROVE  UNCHANGED outcomes \/ (pc[m] = "park" /\ Count(m, "dead_lettered"))
BY DEF EnvelopeMayArrive

\* Actions that close the client.
LEMMA ClosingStep ==
  ASSUME IInv, NEW m \in Members,
         \/ Exit(m) \/ Cancel(m) \/ Crash(m) \/ PollError(m) \/ CommitRefused(m)
         \/ CommitError(m) \/ DeadLetterError(m) \/ DeadLetterRejected(m)
  PROVE  IInv'
<1>t. TypeOK /\ Types
  BY TypesHold DEF IInv
<1>w. PICK where \in {"off", "retry"} : Close(m, where)
  BY DEF Exit, Cancel, Crash, PollError, CommitRefused, CommitError, DeadLetterError,
         DeadLetterRejected
<1>f. /\ log' = log /\ stopping' = stopping
      /\ faults' \in 0 .. MaxFaults
  BY <1>t DEF TypeOK, Exit, Cancel, Crash, PollError, CommitRefused, CommitError,
             DeadLetterError, DeadLetterRejected, Fault
<1>1. CASE UNCHANGED <<committed, outcomes>>
  <2>1. CommittedSound' /\ OutcomesSound'
    BY <1>f, <1>1, KeepRecords DEF IInv
  <2>2. OutcomesGrow
    BY <1>1 DEF OutcomesGrow
  <2>3. /\ committed' \in [Partitions -> 0 .. MaxLog]
        /\ outcomes' \in [Partitions -> [Offsets -> SUBSET Labels]]
    BY <1>t, <1>1 DEF TypeOK
  <2> QED BY <1>w, <1>f, <2>1, <2>2, <2>3, CloseStep
<1>2. CASE CommitError(m) /\ ~UNCHANGED <<committed, outcomes>>
  <2>1. /\ pc[m] = "commit" /\ UNCHANGED outcomes
        /\ committed' = [committed EXCEPT ![current[m]] = end[m][current[m]]]
    BY <1>2 DEF CommitError
  <2>2. committed' \in [Partitions -> 0 .. MaxLog] /\ CommittedSound' /\ OutcomesSound'
    BY <1>f, <2>1, CommitCovers
  <2>3. OutcomesGrow
    BY <2>1 DEF OutcomesGrow
  <2>4. outcomes' \in [Partitions -> [Offsets -> SUBSET Labels]]
    BY <1>t, <2>1 DEF TypeOK
  <2> QED BY <1>w, <1>f, <2>2, <2>3, <2>4, CloseStep
<1>3. CASE (Cancel(m) \/ Crash(m) \/ DeadLetterError(m)) /\ ~UNCHANGED <<committed, outcomes>>
  <2>1. pc[m] = "park" /\ UNCHANGED committed /\ Count(m, "dead_lettered")
    BY <1>3, EnvelopeCounts DEF Cancel, Crash, DeadLetterError
  <2>2. /\ outcomes' \in [Partitions -> [Offsets -> SUBSET Labels]] /\ OutcomesGrow
        /\ CommittedSound' /\ OutcomesSound'
    BY <1>f, <2>1, CountGrows DEF Labels
  <2>3. committed' \in [Partitions -> 0 .. MaxLog]
    BY <1>t, <2>1 DEF TypeOK
  <2> QED BY <1>w, <1>f, <2>2, <2>3, CloseStep
<1> QED
  BY <1>1, <1>2, <1>3 DEF Exit, PollError, CommitRefused, DeadLetterRejected

\* The record in hand is done: m moves on to the next one or to the commit.
LEMMA SettleStep ==
  ASSUME IInv, NEW m \in Members, pc[m] \in {"handle", "park"},
         NEW label \in Labels, Settle(m, label)
  PROVE  IInv'
<1> DEFINE c == current[m]
           x == next[m][current[m]]
<1>t. TypeOK /\ Types
  BY TypesHold DEF IInv
<1>u. /\ log' = log /\ committed' = committed /\ group' = group /\ owner' = owner
      /\ position' = position /\ current' = current /\ end' = end
      /\ stopping' = stopping /\ faults' = faults
  BY DEF Settle
<1>c. /\ outcomes' \in [Partitions -> [Offsets -> SUBSET Labels]]
      /\ OutcomesGrow
      /\ outcomes'[c][x] # {}
      /\ CommittedSound' /\ OutcomesSound'
  BY <1>u, CountGrows DEF Settle
<1>x. c \in Partitions /\ x \in 0 .. MaxLog /\ x < end[m][c] /\ end[m][c] \in 0 .. MaxLog
  BY <1>t DEF IInv, Types, PcSound
<1>n. /\ next' \in [Members -> [Partitions -> 0 .. MaxLog]]
      /\ next'[m][c] = x + 1
      /\ \A p \in Partitions \ {c} : next'[m][p] = next[m][p]
      /\ \A n \in Members \ {m} : next'[n] = next[n]
  BY <1>t, <1>x DEF TypeOK, Settle
<1>p. /\ tries' \in [Members -> 0 .. MaxAttempts]
      /\ pc' \in [Members -> {"off", "retry", "poll"} \cup Busy]
      /\ tries'[m] = 0
      /\ pc'[m] = IF x + 1 = end[m][c] THEN "commit" ELSE "handle"
      /\ \A n \in Members \ {m} : tries'[n] = tries[n] /\ pc'[n] = pc[n]
  BY <1>t DEF TypeOK, Settle, Goto
<1>1. TypeOK'
  BY <1>t, <1>u, <1>c, <1>n, <1>p DEF TypeOK
<1>2. BatchSound'
  <2> SUFFICES ASSUME NEW n \in Members, NEW p \in Partitions
               PROVE  /\ next'[n][p] <= end[n][p]
                      /\ end[n][p] <= Len(log[p])
                      /\ \A o \in 0 .. next'[n][p] - 1 : outcomes'[p][o] # {}
    BY <1>u DEF BatchSound, Below
  <2>1. /\ next[n][p] <= end[n][p]
        /\ end[n][p] <= Len(log[p])
        /\ next[n][p] \in 0 .. MaxLog
        /\ Below(p, next[n][p])
    BY <1>t DEF IInv, BatchSound, Types
  <2>2. \A o \in 0 .. next[n][p] - 1 : outcomes'[p][o] # {}
    BY <1>c, <2>1, BelowGrows
  <2>3. CASE n = m /\ p = c
    <3>1. \A o \in 0 .. x : outcomes'[c][o] # {}
      <4> SUFFICES ASSUME NEW o \in 0 .. x PROVE outcomes'[c][o] # {}
        OBVIOUS
      <4>1. o = x \/ o \in 0 .. x - 1
        BY <1>x
      <4> QED BY <1>c, <2>2, <2>3, <4>1
    <3>2. next'[n][p] = x + 1 /\ x + 1 <= end[n][p]
      BY <1>x, <1>n, <2>3
    <3>3. \A o \in 0 .. next'[n][p] - 1 : outcomes'[p][o] # {}
      BY <1>x, <2>3, <3>1, <3>2
    <3> QED BY <2>1, <3>2, <3>3
  <2>4. CASE ~(n = m /\ p = c)
    BY <1>n, <2>1, <2>2, <2>4
  <2> QED BY <2>3, <2>4
<1>3. PcSound'
  <2> SUFFICES ASSUME NEW n \in Members
               PROVE  (/\ pc[n] \notin Busy => Empty(n)
                       /\ pc[n] \in {"handle", "park"} =>
                             next[n][current[n]] < end[n][current[n]]
                       /\ pc[n] = "commit" => next[n][current[n]] = end[n][current[n]]
                       /\ pc[n] = "handle" => tries[n] < MaxAttempts)'
    BY DEF PcSound
  <2>1. CASE n = m
    <3>1. x + 1 = end[m][c] \/ x + 1 < end[m][c]
      BY <1>x
    <3>2. tries'[m] < MaxAttempts /\ pc'[m] \in Busy
      BY <1>p
    <3>3. current'[m] = c /\ end'[m][c] = end[m][c] /\ next'[m][c] = x + 1
      BY <1>u, <1>n
    <3> HIDE DEF c, x
    <3> QED BY <1>p, <2>1, <3>1, <3>2, <3>3
  <2>2. CASE n # m
    <3>1. /\ next'[n] = next[n] /\ end'[n] = end[n] /\ current'[n] = current[n]
          /\ pc'[n] = pc[n] /\ tries'[n] = tries[n]
      BY <1>u, <1>n, <1>p, <2>2
    <3> QED BY <3>1 DEF IInv, PcSound, Empty
  <2> QED BY <2>1, <2>2
<1>4. PositionSound'
  <2> SUFFICES ASSUME NEW p \in Partitions, position[p] # NoOffset
               PROVE  /\ owner[p] # NoMember
                      /\ position[p] <= Len(log[p])
                      /\ \/ \A o \in 0 .. position[p] - 1 : outcomes'[p][o] # {}
                         \/ position[p] <= end[owner[p]][p]
    BY <1>u DEF IInv, PositionSound, Below
  <2>1. /\ owner[p] # NoMember
        /\ position[p] <= Len(log[p])
        /\ Below(p, position[p]) \/ position[p] <= end[owner[p]][p]
    BY DEF IInv, PositionSound
  <2>2. position[p] \in 0 .. MaxLog
    BY <1>t DEF Types
  <2> QED BY <1>c, <2>1, <2>2, BelowGrows
<1>5. TriesBelongToRecord'
  <2> SUFFICES ASSUME NEW n \in Members PROVE TriesOf(n)'
    BY DEF TriesBelongToRecord, TriesOf
  <2>1. CASE n = m
    BY <1>p, <2>1 DEF TriesOf
  <2>2. CASE n # m
    <3>1. /\ next'[n] = next[n] /\ current'[n] = current[n] /\ log' = log
          /\ pc'[n] = pc[n] /\ tries'[n] = tries[n]
      BY <1>u, <1>n, <1>p, <2>2
    <3> QED BY <3>1 DEF IInv, TriesBelongToRecord, TriesOf, Record
  <2> QED BY <2>1, <2>2
<1> QED BY <1>c, <1>1, <1>2, <1>3, <1>4, <1>5 DEF IInv

LEMMA OutcomeStep ==
  ASSUME IInv, NEW m \in Members, Ignore(m) \/ HandleOk(m) \/ DeadLetter(m)
  PROVE  IInv'
<1>1. pc[m] \in {"handle", "park"}
  BY DEF Ignore, HandleOk, DeadLetter
<1>2. PICK label \in Labels : Settle(m, label)
  BY DEF Ignore, HandleOk, DeadLetter, Labels
<1> QED BY <1>1, <1>2, SettleStep

LEMMA HandleErrorStep ==
  ASSUME IInv, NEW m \in Members, HandleError(m)
  PROVE  IInv'
<1>t. TypeOK /\ Types
  BY TypesHold DEF IInv
<1>u. /\ log' = log /\ committed' = committed /\ membership' = membership
      /\ current' = current /\ next' = next /\ end' = end
      /\ stopping' = stopping /\ outcomes' = outcomes /\ faults' = faults
  BY DEF HandleError
<1>h. pc[m] = "handle" /\ current[m] \in Routed /\ Record(m).parses /\ tries[m] < MaxAttempts
  BY DEF HandleError, IInv, PcSound
<1>p. /\ tries' \in [Members -> 0 .. MaxAttempts]
      /\ pc' \in [Members -> {"off", "retry", "poll"} \cup Busy]
      /\ tries'[m] = tries[m] + 1
      /\ pc'[m] = IF tries[m] + 1 = MaxAttempts THEN "park" ELSE "handle"
      /\ \A n \in Members \ {m} : tries'[n] = tries[n] /\ pc'[n] = pc[n]
  BY <1>t, <1>h DEF TypeOK, Types, HandleError, Goto
<1>1. TypeOK'
  BY <1>t, <1>u, <1>p DEF TypeOK
<1>2. CommittedSound' /\ OutcomesSound'
  BY <1>u, KeepRecords DEF IInv
<1>3. BatchSound'
  BY <1>u, KeepBatches DEF IInv
<1>4. PcSound'
  <2> SUFFICES ASSUME NEW n \in Members
               PROVE  (/\ pc[n] \notin Busy => Empty(n)
                       /\ pc[n] \in {"handle", "park"} =>
                             next[n][current[n]] < end[n][current[n]]
                       /\ pc[n] = "commit" => next[n][current[n]] = end[n][current[n]]
                       /\ pc[n] = "handle" => tries[n] < MaxAttempts)'
    BY DEF PcSound
  <2>1. CASE n = m
    BY <1>t, <1>u, <1>h, <1>p, <2>1 DEF IInv, PcSound, Types
  <2>2. CASE n # m
    BY <1>u, <1>p, <2>2 DEF IInv, PcSound, Empty
  <2> QED BY <2>1, <2>2
<1>5. PositionSound'
  BY <1>u, KeepPositions DEF IInv
<1>6. TriesBelongToRecord'
  <2> SUFFICES ASSUME NEW n \in Members PROVE TriesOf(n)'
    BY DEF TriesBelongToRecord, TriesOf
  <2>1. Record(n)' = Record(n)
    BY <1>u DEF Record
  <2>2. CASE n = m
    BY <1>u, <1>h, <1>p, <2>1, <2>2 DEF TriesOf
  <2>3. CASE n # m
    BY <1>u, <1>p, <2>1, <2>3 DEF IInv, TriesBelongToRecord, TriesOf
  <2> QED BY <2>2, <2>3
<1> QED BY <1>1, <1>2, <1>3, <1>4, <1>5, <1>6 DEF IInv

\* A batch starts at the fetch position and moves it to its end.
LEMMA PollStep ==
  ASSUME IInv, NEW m \in Members, Poll(m)
  PROVE  IInv'
<1>t. TypeOK /\ Types
  BY TypesHold DEF IInv
<1>u. /\ log' = log /\ committed' = committed /\ group' = group /\ owner' = owner
      /\ current' = current /\ tries' = tries /\ outcomes' = outcomes
      /\ stopping' = stopping /\ faults' = faults
  BY DEF Poll
<1>0. PICK upto \in [Partitions -> 0 .. MaxLog] :
        LET got == {p \in Partitions : /\ owner[p] = m
                                       /\ position[p] # NoOffset
                                       /\ upto[p] > position[p]}
        IN  /\ got # {}
            /\ \A p \in Partitions : IF p \in got THEN upto[p] <= Len(log[p])
                                                  ELSE upto[p] = 0
            /\ next' = [next EXCEPT ![m] =
                          [p \in Partitions |-> IF p \in got THEN position[p] ELSE 0]]
            /\ end' = [end EXCEPT ![m] = upto]
            /\ position' = [p \in Partitions |->
                              IF p \in got THEN upto[p] ELSE position[p]]
  BY DEF Poll
<1> DEFINE got == {p \in Partitions : /\ owner[p] = m
                                      /\ position[p] # NoOffset
                                      /\ upto[p] > position[p]}
<1>a. Empty(m)
  BY DEF IInv, PcSound, Poll
<1>b. \A p \in Partitions : owner[p] = m /\ position[p] # NoOffset => Below(p, position[p])
  <2> SUFFICES ASSUME NEW p \in Partitions, owner[p] = m, position[p] # NoOffset
               PROVE  Below(p, position[p])
    OBVIOUS
  <2>1. Below(p, position[p]) \/ position[p] <= end[m][p]
    BY DEF IInv, PositionSound
  <2>2. Below(p, end[m][p])
    BY <1>a DEF IInv, BatchSound, Empty
  <2>3. position[p] \in Int /\ end[m][p] \in Int
    BY <1>t DEF Types
  <2> QED BY <2>1, <2>2, <2>3 DEF Below
<1>g. \A p \in Partitions :
        /\ p \in got => /\ owner[p] = m /\ position[p] \in 0 .. MaxLog
                        /\ position[p] < upto[p] /\ upto[p] <= Len(log[p])
        /\ p \notin got => upto[p] = 0
  BY <1>t, <1>0 DEF Types
<1>n. /\ next' \in [Members -> [Partitions -> 0 .. MaxLog]]
      /\ end' \in [Members -> [Partitions -> 0 .. MaxLog]]
      /\ position' \in [Partitions -> {NoOffset} \cup 0 .. MaxLog]
      /\ \A p \in Partitions :
            /\ next'[m][p] = IF p \in got THEN position[p] ELSE 0
            /\ end'[m][p] = upto[p]
            /\ position'[p] = IF p \in got THEN upto[p] ELSE position[p]
      /\ \A n \in Members \ {m} : next'[n] = next[n] /\ end'[n] = end[n]
  <2> HIDE DEF got
  <2>1. [p \in Partitions |-> IF p \in got THEN position[p] ELSE 0]
           \in [Partitions -> 0 .. MaxLog]
    BY <1>g
  <2> QED BY <1>t, <1>0, <1>g, <2>1 DEF TypeOK, Types, got
<1>p. /\ pc' \in [Members -> {"off", "retry", "poll"} \cup Busy]
      /\ pc'[m] = "batch" /\ pc[m] = "poll"
      /\ \A n \in Members \ {m} : pc'[n] = pc[n]
  BY <1>t DEF TypeOK, Poll, Goto
<1> HIDE DEF got
<1>1. TypeOK'
  BY <1>t, <1>u, <1>n, <1>p DEF TypeOK
<1>2. CommittedSound' /\ OutcomesSound'
  BY <1>u, KeepRecords DEF IInv
<1>3. BatchSound'
  <2> SUFFICES ASSUME NEW n \in Members, NEW p \in Partitions
               PROVE  /\ next'[n][p] <= end'[n][p]
                      /\ end'[n][p] <= Len(log[p])
                      /\ \A o \in 0 .. next'[n][p] - 1 : outcomes[p][o] # {}
    BY <1>u DEF BatchSound, Below
  <2>1. CASE n = m /\ p \in got
    <3>1. next'[n][p] = position[p] /\ end'[n][p] = upto[p]
      BY <1>n, <2>1
    <3>2. /\ owner[p] = m /\ position[p] \in 0 .. MaxLog
          /\ position[p] < upto[p] /\ upto[p] <= Len(log[p])
      BY <1>g, <2>1
    <3>3. Below(p, position[p])
      BY <1>b, <3>2
    <3> QED BY <3>1, <3>2, <3>3 DEF Below
  <2>2. CASE n = m /\ p \notin got
    BY <1>t, <1>g, <1>n, <2>2 DEF Types
  <2>3. CASE n # m
    <3>1. next'[n] = next[n] /\ end'[n] = end[n]
      BY <1>n, <2>3
    <3> QED BY <3>1 DEF IInv, BatchSound, Below
  <2> QED BY <2>1, <2>2, <2>3
<1>4. PcSound'
  <2> SUFFICES ASSUME NEW n \in Members
               PROVE  (/\ pc[n] \notin Busy => Empty(n)
                       /\ pc[n] \in {"handle", "park"} =>
                             next[n][current[n]] < end[n][current[n]]
                       /\ pc[n] = "commit" => next[n][current[n]] = end[n][current[n]]
                       /\ pc[n] = "handle" => tries[n] < MaxAttempts)'
    BY DEF PcSound
  <2>1. CASE n = m
    BY <1>p, <2>1
  <2>2. CASE n # m
    <3>1. /\ next'[n] = next[n] /\ end'[n] = end[n] /\ current'[n] = current[n]
          /\ pc'[n] = pc[n] /\ tries'[n] = tries[n]
      BY <1>u, <1>n, <1>p, <2>2
    <3> QED BY <3>1 DEF IInv, PcSound, Empty
  <2> QED BY <2>1, <2>2
<1>5. PositionSound'
  <2> SUFFICES ASSUME NEW p \in Partitions, position'[p] # NoOffset
               PROVE  /\ owner[p] # NoMember
                      /\ position'[p] <= Len(log[p])
                      /\ \/ \A o \in 0 .. position'[p] - 1 : outcomes[p][o] # {}
                         \/ position'[p] <= end'[owner[p]][p]
    BY <1>u DEF IInv, PositionSound, Below
  <2>1. CASE p \in got
    BY <1>t, <1>g, <1>n, <2>1 DEF Types
  <2>2. CASE p \notin got
    <3>1. /\ owner[p] # NoMember
          /\ position[p] <= Len(log[p])
          /\ Below(p, position[p]) \/ position[p] <= end[owner[p]][p]
      BY <1>n, <2>2 DEF IInv, PositionSound
    <3>2. CASE owner[p] = m
      BY <1>b, <1>n, <2>2, <3>1, <3>2 DEF Below
    <3>3. CASE owner[p] # m
      BY <1>t, <1>n, <2>2, <3>1, <3>3 DEF Below, Types
    <3> QED BY <3>2, <3>3
  <2> QED BY <2>1, <2>2
<1>6. TriesBelongToRecord'
  <2>1. tries[m] = 0
    BY <1>t, <1>p DEF IInv, TriesBelongToRecord, Types
  <2> SUFFICES ASSUME NEW n \in Members PROVE TriesOf(n)'
    BY DEF TriesBelongToRecord, TriesOf
  <2>2. CASE n = m
    BY <1>u, <1>p, <2>1, <2>2 DEF TriesOf
  <2>3. CASE n # m
    <3>1. /\ next'[n] = next[n] /\ current'[n] = current[n]
          /\ pc'[n] = pc[n] /\ tries'[n] = tries[n] /\ log' = log
      BY <1>u, <1>n, <1>p, <2>3
    <3>2. TriesOf(n)
      BY DEF IInv, TriesBelongToRecord, TriesOf
    <3> QED BY <3>1, <3>2 DEF TriesOf, Record
  <2> QED BY <2>2, <2>3
<1> QED BY <1>1, <1>2, <1>3, <1>4, <1>5, <1>6 DEF IInv

\* A commit moves the offset to the end of a batch that m went through.
LEMMA CommitStep ==
  ASSUME IInv, NEW m \in Members, Commit(m)
  PROVE  IInv'
<1> DEFINE c == current[m]
<1>t. TypeOK /\ Types
  BY TypesHold DEF IInv
<1>u. /\ log' = log /\ group' = group /\ owner' = owner /\ position' = position
      /\ current' = current /\ tries' = tries /\ outcomes' = outcomes
      /\ stopping' = stopping /\ faults' = faults
      /\ pc[m] = "commit"
  BY DEF Commit
<1>c. committed' \in [Partitions -> 0 .. MaxLog] /\ CommittedSound' /\ OutcomesSound'
  BY <1>u, CommitCovers DEF Commit
<1>x. c \in Partitions /\ next[m][c] = end[m][c] /\ tries[m] = 0
  BY <1>t, <1>u DEF IInv, PcSound, Types, TriesBelongToRecord
<1>n. /\ next' \in [Members -> [Partitions -> 0 .. MaxLog]]
      /\ end' \in [Members -> [Partitions -> 0 .. MaxLog]]
      /\ next'[m][c] = 0 /\ end'[m][c] = 0
      /\ \A p \in Partitions \ {c} : next'[m][p] = next[m][p] /\ end'[m][p] = end[m][p]
      /\ \A n \in Members \ {m} : next'[n] = next[n] /\ end'[n] = end[n]
  <2>1. /\ next' = [next EXCEPT ![m][c] = 0]
        /\ end' = [end EXCEPT ![m][c] = 0]
    BY DEF Commit
  <2>2. 0 \in 0 .. MaxLog
    OBVIOUS
  <2> HIDE DEF c
  <2> QED BY <1>t, <1>x, <2>1, <2>2 DEF TypeOK
<1>p. /\ pc' \in [Members -> {"off", "retry", "poll"} \cup Busy]
      /\ \/ pc'[m] = "batch"
         \/ pc'[m] = "poll" /\ \A q \in Partitions \ {c} : ~(next[m][q] < end[m][q])
      /\ \A n \in Members \ {m} : pc'[n] = pc[n]
  <2> DEFINE rest == {q \in Partitions \ {c} : next[m][q] < end[m][q]}
             to == IF rest = {} THEN "poll" ELSE "batch"
  <2>1. pc' = [pc EXCEPT ![m] = to]
    BY DEF Commit, Goto
  <2>2. \/ to = "batch"
        \/ to = "poll" /\ \A q \in Partitions \ {c} : ~(next[m][q] < end[m][q])
    <3>1. CASE rest = {}
      BY <3>1
    <3>2. CASE rest # {}
      BY <3>2
    <3> QED BY <3>1, <3>2
  <2> HIDE DEF to
  <2> QED BY <1>t, <2>1, <2>2 DEF TypeOK
<1>1. TypeOK'
  BY <1>t, <1>u, <1>c, <1>n, <1>p DEF TypeOK
<1>2. BatchSound'
  <2> SUFFICES ASSUME NEW n \in Members, NEW p \in Partitions
               PROVE  /\ next'[n][p] <= end'[n][p]
                      /\ end'[n][p] <= Len(log[p])
                      /\ \A o \in 0 .. next'[n][p] - 1 : outcomes[p][o] # {}
    BY <1>u DEF BatchSound, Below
  <2>1. CASE n = m /\ p = c
    BY <1>t, <1>n, <2>1 DEF Types
  <2>2. CASE ~(n = m /\ p = c)
    <3>1. next'[n][p] = next[n][p] /\ end'[n][p] = end[n][p]
      BY <1>n, <2>2
    <3> QED BY <3>1 DEF IInv, BatchSound, Below
  <2> QED BY <2>1, <2>2
<1>3. PcSound'
  <2> SUFFICES ASSUME NEW n \in Members
               PROVE  (/\ pc[n] \notin Busy => Empty(n)
                       /\ pc[n] \in {"handle", "park"} =>
                             next[n][current[n]] < end[n][current[n]]
                       /\ pc[n] = "commit" => next[n][current[n]] = end[n][current[n]]
                       /\ pc[n] = "handle" => tries[n] < MaxAttempts)'
    BY DEF PcSound
  <2>1. CASE n = m
    <3>1. pc'[m] \in {"batch", "poll"} /\ (pc'[m] = "batch" \/ Empty(m)')
      <4>1. CASE pc'[m] = "batch"
        BY <4>1
      <4>2. CASE pc'[m] = "poll" /\ \A q \in Partitions \ {c} : ~(next[m][q] < end[m][q])
        <5>1. \A q \in Partitions \ {c} : next'[m][q] = end'[m][q]
          <6> SUFFICES ASSUME NEW q \in Partitions \ {c} PROVE next'[m][q] = end'[m][q]
            OBVIOUS
          <6>1. next[m][q] <= end[m][q] /\ next[m][q] \in Int /\ end[m][q] \in Int
            BY <1>t DEF IInv, BatchSound, Types
          <6>2. next[m][q] = end[m][q]
            BY <4>2, <6>1
          <6> QED BY <1>n, <6>2
        <5> QED BY <1>n, <4>2, <5>1 DEF Empty
      <4> QED BY <1>p, <4>1, <4>2
    <3> QED BY <2>1, <3>1
  <2>2. CASE n # m
    <3>1. /\ next'[n] = next[n] /\ end'[n] = end[n] /\ current'[n] = current[n]
          /\ pc'[n] = pc[n] /\ tries'[n] = tries[n]
      BY <1>u, <1>n, <1>p, <2>2
    <3> QED BY <3>1 DEF IInv, PcSound, Empty
  <2> QED BY <2>1, <2>2
<1>4. PositionSound'
  <2> SUFFICES ASSUME NEW p \in Partitions, position[p] # NoOffset
               PROVE  /\ owner[p] # NoMember
                      /\ position[p] <= Len(log[p])
                      /\ Below(p, position[p]) \/ position[p] <= end'[owner[p]][p]
    BY <1>u DEF IInv, PositionSound, Below
  <2>1. /\ owner[p] # NoMember
        /\ position[p] <= Len(log[p])
        /\ Below(p, position[p]) \/ position[p] <= end[owner[p]][p]
    BY DEF IInv, PositionSound
  <2>2. CASE owner[p] = m /\ p = c
    <3>1. Below(c, end[m][c]) /\ end[m][c] \in 0 .. MaxLog /\ position[p] \in 0 .. MaxLog
      BY <1>t, <1>x DEF IInv, BatchSound, Types
    <3> QED BY <2>1, <2>2, <3>1 DEF Below
  <2>3. CASE ~(owner[p] = m /\ p = c)
    BY <1>t, <1>n, <2>1, <2>3 DEF Types
  <2> QED BY <2>2, <2>3
<1>5. TriesBelongToRecord'
  <2> SUFFICES ASSUME NEW n \in Members PROVE TriesOf(n)'
    BY DEF TriesBelongToRecord, TriesOf
  <2>1. CASE n = m
    BY <1>u, <1>x, <1>p, <2>1 DEF TriesOf
  <2>2. CASE n # m
    <3>1. /\ next'[n] = next[n] /\ current'[n] = current[n] /\ log' = log
          /\ pc'[n] = pc[n] /\ tries'[n] = tries[n]
      BY <1>u, <1>n, <1>p, <2>2
    <3> QED BY <3>1 DEF IInv, TriesBelongToRecord, TriesOf, Record
  <2> QED BY <2>1, <2>2
<1> QED BY <1>c, <1>1, <1>2, <1>3, <1>4, <1>5 DEF IInv

-----------------------------------------------------------------------------
(* The theorems. *)

LEMMA InvariantStarts == Init => IInv
<1> SUFFICES ASSUME Init PROVE IInv
  OBVIOUS
<1>0. /\ \A p \in Partitions : /\ Len(log[p]) = 0 /\ committed[p] = 0
                               /\ owner[p] = NoMember /\ position[p] = NoOffset
                               /\ \A o \in Offsets : outcomes[p][o] = {}
      /\ \A m \in Members : /\ pc[m] = "off" /\ tries[m] = 0
                            /\ \A p \in Partitions : next[m][p] = 0 /\ end[m][p] = 0
  BY DEF Init
<1>1. TypeOK
  <2>1. log \in [Partitions -> Seq(Kinds)]
    BY DEF Init
  <2>2. \A p \in Partitions : Len(log[p]) <= MaxLog
    BY <1>0
  <2>3. outcomes \in [Partitions -> [Offsets -> SUBSET Labels]]
    BY DEF Init
  <2> QED BY <2>1, <2>2, <2>3 DEF Init, TypeOK
<1>2. CommittedSound /\ BatchSound
  BY <1>0 DEF CommittedSound, BatchSound, Below
<1>3. OutcomesSound
  BY <1>0 DEF OutcomesSound
<1>4. PcSound /\ PositionSound /\ TriesBelongToRecord
  BY <1>0 DEF PcSound, PositionSound, TriesBelongToRecord, Empty
<1> QED BY <1>1, <1>2, <1>3, <1>4 DEF IInv

LEMMA InvariantStays == IInv /\ [Next]_vars => IInv'
<1> SUFFICES ASSUME IInv, [Next]_vars PROVE IInv'
  OBVIOUS
<1>1. ASSUME NEW p \in Partitions, Produce(p) \/ FetchPosition(p) PROVE IInv'
  BY <1>1, ProduceStep, FetchPositionStep
<1>2. ASSUME NEW m \in Members, Step(m) PROVE IInv'
  <2>1. CASE Start(m) \/ Connect(m) \/ Rejoin(m) \/ PickPartition(m) \/ Unparseable(m)
    BY <2>1, StartStep, ConnectStep, RejoinStep, PickPartitionStep, UnparseableStep
  <2>2. CASE Exit(m) \/ Cancel(m) \/ CommitRefused(m) \/ DeadLetterRejected(m)
    BY <2>2, ClosingStep
  <2>3. CASE Poll(m) \/ Commit(m) \/ HandleError(m)
    BY <2>3, PollStep, CommitStep, HandleErrorStep
  <2>4. CASE Ignore(m) \/ HandleOk(m) \/ DeadLetter(m)
    BY <2>4, OutcomeStep
  <2>5. CASE PollEmpty(m)
    BY <2>5, StutterStep DEF PollEmpty
  <2> QED BY <1>2, <2>1, <2>2, <2>3, <2>4, <2>5 DEF Step
<1>3. ASSUME NEW m \in Members, Trouble(m) PROVE IInv'
  <2>1. CASE Stop(m) \/ Evict(m)
    BY <2>1, StopStep, EvictStep
  <2>2. CASE Crash(m) \/ PollError(m) \/ CommitError(m) \/ DeadLetterError(m)
    BY <2>2, ClosingStep
  <2> QED BY <1>3, <2>1, <2>2 DEF Trouble
<1>4. CASE UNCHANGED vars
  BY <1>4, StutterStep
<1> QED BY <1>1, <1>2, <1>3, <1>4 DEF Next

\* The invariant holds in every reachable state.
THEOREM Invariance == SafeSpec => []IInv
<1>1. Init => IInv
  BY InvariantStarts
<1>2. IInv /\ [Next]_vars => IInv'
  BY InvariantStays
<1> QED BY <1>1, <1>2, PTL DEF SafeSpec

\* Type correctness of the consumer: the retries of _handle stay within
\* max_attempts and the batches of _loop within the log.
THEOREM TypeCorrect == SafeSpec => []TypeOK
<1>1. IInv => TypeOK
  BY DEF IInv
<1> QED BY <1>1, Invariance, PTL

\* _loop commits no offset past a record that has no outcome, for any number of
\* members, partitions and faults: no record is silently dropped.
THEOREM NothingDropped == SafeSpec => []CommittedIsSettled
<1>1. IInv => CommittedIsSettled
  BY DEF IInv, CommittedSound, Below, CommittedIsSettled
<1> QED BY <1>1, Invariance, PTL

\* First outcomes follow the order of the partition, zombies included.
THEOREM OrderKept == SafeSpec => []SettledInOrder
<1>1. IInv => SettledInOrder
  <2> SUFFICES ASSUME IInv, NEW p \in Partitions, NEW o \in Settled(p)
               PROVE  0 .. o \subseteq Settled(p)
    BY DEF SettledInOrder
  <2>1. o \in Offsets /\ outcomes[p][o] # {} /\ Below(p, o)
    BY DEF IInv, OutcomesSound, Settled
  <2> SUFFICES ASSUME NEW i \in 0 .. o PROVE i \in Settled(p)
    OBVIOUS
  <2>2. i \in Offsets /\ (i = o \/ i \in 0 .. o - 1)
    BY <2>1
  <2> QED BY <2>1, <2>2 DEF Below, Settled
<1> QED BY <1>1, Invariance, PTL

\* Attempts are those of the record in hand, and a record that parses is parked
\* only with all of them used up.
THEOREM TriesInHand == SafeSpec => []TriesBelongToRecord
<1>1. IInv => TriesBelongToRecord
  BY DEF IInv
<1> QED BY <1>1, Invariance, PTL

-----------------------------------------------------------------------------
(* The consumer implements AtLeastOnce. *)

Produced == [p \in Partitions |-> Len(log[p])]
SettledBy == [p \in Partitions |-> Settled(p)]

LEMMA StepKeepsPromise ==
  ASSUME IInv, [Next]_vars
  PROVE  [Promise!Next]_<<Produced, SettledBy, committed>>
<1> USE DEF Produced, SettledBy
<1>t. TypeOK /\ Types
  BY TypesHold DEF IInv
<1>0. CASE UNCHANGED <<log, outcomes, committed>>
  BY <1>0 DEF Settled
<1>1. ASSUME NEW p \in Partitions, Produce(p)
      PROVE  Promise!Produce(p)
  <2>1. Len(log[p]) < MaxLog /\ UNCHANGED <<committed, outcomes>>
    BY <1>1 DEF Produce
  <2>2. PICK kind \in Kinds : log' = [log EXCEPT ![p] = Append(@, kind)]
    BY <1>1 DEF Produce
  <2>3. log[p] \in Seq(Kinds)
    BY <1>t DEF TypeOK
  <2>4. Len(Append(log[p], kind)) = Len(log[p]) + 1
    BY <2>3
  <2>5. \A q \in Partitions : log'[q] = IF q = p THEN Append(log[p], kind) ELSE log[q]
    BY <1>t, <2>2 DEF TypeOK
  <2>6. Produced' = [Produced EXCEPT ![p] = Len(log[p]) + 1]
    BY <2>4, <2>5
  <2>7. SettledBy' = SettledBy
    BY <2>1 DEF Settled
  <2> QED BY <2>1, <2>6, <2>7 DEF Promise!Produce
<1>2. ASSUME NEW m \in Members, NEW label \in Labels, Count(m, label),
             pc[m] \in {"handle", "park"}, UNCHANGED <<log, committed>>
      PROVE  \/ \E p \in Partitions : Promise!Settle(p)
             \/ UNCHANGED <<Produced, SettledBy, committed>>
  <2>0. PICK c \in Partitions, x \in Offsets :
           /\ c = current[m] /\ x = next[m][current[m]]
           /\ x \in 0 .. Len(log[c]) - 1
           /\ Below(c, x)
    BY <1>t, <1>2 DEF IInv, Types, PcSound, BatchSound
  <2>1. x \in 0 .. Len(log[c]) - 1 /\ Below(c, x)
    BY <2>0
  <2>2. /\ outcomes'[c][x] = outcomes[c][x] \cup {label}
        /\ \A p \in Partitions, o \in Offsets :
              p # c \/ o # x => outcomes'[p][o] = outcomes[p][o]
    BY <1>t, <1>2, <2>0 DEF TypeOK, Count
  <2>3. /\ Settled(c)' = Settled(c) \cup {x}
        /\ \A p \in Partitions \ {c} : Settled(p)' = Settled(p)
    BY <2>1, <2>2 DEF Settled
  <2>4. UNCHANGED <<Produced, committed>>
    BY <1>2
  <2>5. CASE x \in Settled(c)
    <3>1. \A p \in Partitions : Settled(p)' = Settled(p)
      BY <2>3, <2>5
    <3>2. SettledBy' = SettledBy
      BY <3>1
    <3> QED BY <2>4, <3>2
  <2>6. CASE x \notin Settled(c)
    <3>1. SettledBy' = [SettledBy EXCEPT ![c] = Settled(c) \cup {x}]
      BY <2>3
    <3>2. 0 .. x - 1 \subseteq Settled(c)
      BY <2>1 DEF Below, Settled
    <3>3. Produced[c] = Len(log[c]) /\ SettledBy[c] = Settled(c)
      BY <2>1
    <3>4. Promise!Settle(c)
      BY <2>1, <2>4, <2>6, <3>1, <3>2, <3>3 DEF Promise!Settle
    <3> QED BY <2>1, <3>4
  <2> QED BY <2>5, <2>6
<1>3. ASSUME NEW m \in Members, pc[m] = "commit", UNCHANGED <<log, outcomes>>,
             committed' = [committed EXCEPT ![current[m]] = end[m][current[m]]]
      PROVE  \E p \in Partitions : Promise!Commit(p)
  <2> DEFINE c == current[m]
             n == end[m][current[m]]
  <2>1. c \in Partitions /\ n \in 0 .. Len(log[c]) /\ Below(c, n) /\ n \in 0 .. MaxLog
    BY <1>t, <1>3 DEF IInv, Types, PcSound, BatchSound
  <2>2. committed' = [committed EXCEPT ![c] = n]
    BY <1>3
  <2>3. UNCHANGED <<Produced, SettledBy>>
    BY <1>3 DEF Settled
  <2> HIDE DEF c, n
  <2>4. 0 .. n - 1 \subseteq Settled(c)
    BY <2>1 DEF Below, Settled
  <2>5. Produced[c] = Len(log[c]) /\ SettledBy[c] = Settled(c)
    BY <2>1
  <2>6. Promise!Commit(c)
    BY <2>1, <2>2, <2>3, <2>4, <2>5 DEF Promise!Commit
  <2> QED BY <2>1, <2>6
<1> HIDE DEF Produced, SettledBy
<1>4. CASE \E p \in Partitions : Produce(p) \/ FetchPosition(p)
  <2>1. ASSUME NEW p \in Partitions, FetchPosition(p)
        PROVE  UNCHANGED <<log, outcomes, committed>>
    BY <2>1 DEF FetchPosition
  <2> QED BY <1>0, <1>1, <1>4, <2>1 DEF Promise!Next
<1>5. ASSUME NEW m \in Members, Step(m) \/ Trouble(m)
      PROVE  [Promise!Next]_<<Produced, SettledBy, committed>>
  <2>1. CASE Ignore(m) \/ HandleOk(m) \/ DeadLetter(m)
    <3>1. pc[m] \in {"handle", "park"}
      BY <2>1 DEF Ignore, HandleOk, DeadLetter
    <3>2. PICK label \in Labels : Settle(m, label)
      BY <2>1 DEF Ignore, HandleOk, DeadLetter, Labels
    <3>3. Count(m, label) /\ UNCHANGED <<log, committed>>
      BY <3>2 DEF Settle
    <3> QED BY <1>2, <3>1, <3>3 DEF Promise!Next
  <2>2. CASE Commit(m)
    <3>1. pc[m] = "commit" /\ UNCHANGED <<log, outcomes>>
          /\ committed' = [committed EXCEPT ![current[m]] = end[m][current[m]]]
      BY <2>2 DEF Commit
    <3> QED BY <1>3, <3>1 DEF Promise!Next
  <2>3. CASE CommitError(m)
    <3>1. pc[m] = "commit" /\ UNCHANGED <<log, outcomes>>
      BY <2>3 DEF CommitError
    <3>2. \/ UNCHANGED committed
          \/ committed' = [committed EXCEPT ![current[m]] = end[m][current[m]]]
      BY <2>3 DEF CommitError
    <3> QED BY <1>0, <1>3, <3>1, <3>2 DEF Promise!Next
  <2>4. CASE Cancel(m) \/ Crash(m) \/ DeadLetterError(m)
    <3>1. /\ UNCHANGED <<log, committed>>
          /\ UNCHANGED outcomes \/ (pc[m] = "park" /\ Count(m, "dead_lettered"))
      BY <2>4, EnvelopeCounts DEF Cancel, Crash, DeadLetterError
    <3> QED BY <1>0, <1>2, <3>1 DEF Promise!Next, Labels
  <2>5. CASE \/ Start(m) \/ Connect(m) \/ Exit(m) \/ Rejoin(m) \/ Poll(m)
             \/ PollEmpty(m) \/ PickPartition(m) \/ CommitRefused(m) \/ Unparseable(m)
             \/ HandleError(m) \/ DeadLetterRejected(m) \/ Stop(m) \/ Evict(m) \/ PollError(m)
    <3>1. UNCHANGED <<log, outcomes, committed>>
      BY <2>5 DEF Start, Connect, Exit, Rejoin, Poll, PollEmpty, PickPartition,
                  CommitRefused, Unparseable, HandleError, DeadLetterRejected, Stop, Evict,
                  PollError, vars
    <3> QED BY <1>0, <3>1
  <2> QED BY <1>5, <2>1, <2>2, <2>3, <2>4, <2>5 DEF Step, Trouble
<1>6. CASE UNCHANGED vars
  <2>1. UNCHANGED <<log, outcomes, committed>>
    BY <1>6 DEF vars
  <2> QED BY <1>0, <2>1
<1> QED BY <1>4, <1>5, <1>6 DEF Next

\* Every step of the group, with zombies, redeliveries, refused and lost
\* commits, is a step of AtLeastOnce or invisible to it.
THEOREM PromiseKept == SafeSpec => KeepsPromise
<1>1. Init => Promise!Init
  <2> SUFFICES ASSUME Init PROVE Promise!Init
    OBVIOUS
  <2>1. \A p \in Partitions : Len(log[p]) = 0 /\ Settled(p) = {}
    BY DEF Init, Settled
  <2>2. committed = [p \in Partitions |-> 0]
    BY DEF Init
  <2> QED BY <2>1, <2>2 DEF Promise!Init
<1>2. IInv /\ [Next]_vars => [Promise!Next]_(Promise!avars)
  BY StepKeepsPromise DEF Promise!avars, Produced, SettledBy
<1> QED BY <1>1, <1>2, Invariance, PTL DEF SafeSpec, KeepsPromise, Promise!SafeSpec

-----------------------------------------------------------------------------
(* A single member, while nothing fails and every envelope fits. *)

LEMMA FitsEarlier ==
  ASSUME IInv, [Next]_vars, AllFit'
  PROVE  AllFit
<1>1. CASE log' = log
  BY <1>1 DEF AllFit
<1>2. ASSUME NEW p \in Partitions, Produce(p)
      PROVE  AllFit
  <2>t. TypeOK /\ Types
    BY TypesHold DEF IInv
  <2>1. PICK kind \in Kinds : log' = [log EXCEPT ![p] = Append(@, kind)]
    BY <1>2 DEF Produce
  <2>2. log[p] \in Seq(Kinds)
    BY <2>t DEF TypeOK
  <2>3. /\ Len(Append(log[p], kind)) = Len(log[p]) + 1
        /\ \A i \in 1 .. Len(log[p]) : Append(log[p], kind)[i] = log[p][i]
    BY <2>2
  <2>4. \A q \in Partitions : log'[q] = IF q = p THEN Append(log[p], kind) ELSE log[q]
    BY <2>t, <2>1 DEF TypeOK
  <2> SUFFICES ASSUME NEW q \in Partitions, NEW i \in 1 .. Len(log[q])
               PROVE  log[q][i].fits
    BY DEF AllFit
  <2>5. i \in 1 .. Len(log'[q]) /\ log'[q][i] = log[q][i]
    <3>1. CASE q = p
      <4>1. Len(log[p]) \in Nat
        BY <2>2
      <4>2. log'[q] = Append(log[p], kind)
        BY <2>4, <3>1
      <4>3. i \in 1 .. Len(log[p])
        BY <3>1
      <4>4. Append(log[p], kind)[i] = log[p][i] /\ i \in 1 .. Len(Append(log[p], kind))
        BY <2>3, <4>1, <4>3
      <4> QED BY <3>1, <4>2, <4>4
    <3>2. CASE q # p
      BY <2>4, <3>2
    <3> QED BY <3>1, <3>2
  <2> QED BY <2>5 DEF AllFit
<1>3. CASE ~\E p \in Partitions : Produce(p)
  BY <1>1, <1>3 DEF Next, vars, FetchPosition, Step, Trouble, Start,
              Connect, Exit, Cancel, Rejoin, Poll, PollEmpty, PickPartition, Commit,
              CommitRefused, Unparseable, Ignore, HandleOk, HandleError, DeadLetter,
              DeadLetterRejected, Settle, Stop, Crash, Evict, PollError, CommitError,
              DeadLetterError
<1> QED BY <1>2, <1>3

\* m has records of p in hand that it has not committed past.
Underway(m, p) == next[m][p] < end[m][p] \/ (pc[m] = "commit" /\ current[m] = p)

\* How far m has got in p.
Reach(m, p) == IF Underway(m, p) THEN next[m][p] ELSE committed[p]

\* What is settled of p is what m went through, and m fetches what follows it.
PartOK(m, p) ==
    /\ \A o \in Offsets : outcomes[p][o] # {} <=> o < Reach(m, p)
    /\ committed[p] <= Reach(m, p)
    /\ Underway(m, p) => position[p] = end[m][p]
    /\ ~Underway(m, p) => position[p] \in {NoOffset, committed[p]}

\* m is the group, or not yet in it, and owns every partition.
GroupOK(m) == /\ ~stopping[m]
              /\ pc[m] \in {"off", "retry"} => group = {}
              /\ pc[m] \notin {"off", "retry"} =>
                    group = {m} /\ \A p \in Partitions : owner[p] = m

Alone(m) == GroupOK(m) /\ \A p \in Partitions : PartOK(m, p)

\* No commit moves back, and no record gets an outcome that has one.
Once == \A p \in Partitions :
           /\ committed'[p] >= committed[p]
           /\ \A o \in Offsets : outcomes'[p][o] # outcomes[p][o] => outcomes[p][o] = {}

\* The same numbers, and records in hand as before.
LEMMA PartKept ==
  ASSUME NEW m \in Members, NEW p \in Partitions, PartOK(m, p),
         Underway(m, p)' <=> Underway(m, p),
         next'[m][p] = next[m][p], end'[m][p] = end[m][p], committed'[p] = committed[p],
         position'[p] = position[p], outcomes'[p] = outcomes[p]
  PROVE  PartOK(m, p)'
<1>1. Reach(m, p)' = Reach(m, p)
  BY DEF Reach
<1> QED BY <1>1 DEF PartOK

\* What moves neither offsets nor outcomes keeps every commit and outcome.
LEMMA SameOnce ==
  ASSUME TypeOK, committed' = committed, outcomes' = outcomes
  PROVE  Once
<1>1. \A p \in Partitions : committed[p] \in Int
  BY DEF TypeOK
<1> QED BY <1>1 DEF Once

\* Steps between records: the batch stays as it is.
LEMMA AloneWaits ==
  ASSUME IInv, NEW m \in Members, Alone(m),
         \/ Start(m) \/ PickPartition(m) \/ Unparseable(m) \/ HandleError(m)
         \/ \E p \in Partitions : Produce(p)
         \/ UNCHANGED vars
  PROVE  Alone(m)' /\ Once
<1>t. TypeOK /\ Types
  BY TypesHold DEF IInv
<1>u. /\ committed' = committed /\ group' = group /\ owner' = owner /\ position' = position
      /\ next' = next /\ end' = end /\ outcomes' = outcomes
  BY DEF Start, PickPartition, Unparseable, HandleError, Produce, vars
<1>1. \/ pc'[m] = pc[m] /\ current' = current
      \/ pc[m] = "off" /\ pc'[m] = "retry"
      \/ pc[m] \in {"batch", "handle"} /\ pc'[m] \in {"handle", "park"}
  BY <1>t DEF Start, PickPartition, Unparseable, HandleError, Produce, vars, Goto, TypeOK
<1>2. ~stopping'[m]
  BY <1>t DEF Start, PickPartition, Unparseable, HandleError, Produce, vars, TypeOK, Alone, GroupOK
<1>3. GroupOK(m)'
  BY <1>u, <1>1, <1>2 DEF Alone, GroupOK
<1>4. ASSUME NEW p \in Partitions PROVE PartOK(m, p)'
  <2>1. Underway(m, p)' <=> Underway(m, p)
    BY <1>u, <1>1 DEF Underway
  <2> QED BY <1>u, <2>1, PartKept DEF Alone
<1> QED BY <1>t, <1>u, <1>3, <1>4, SameOnce DEF Alone

\* The only member gets every partition, and has nothing in hand of any.
LEMMA AloneConnects ==
  ASSUME IInv, NEW m \in Members, Alone(m), Connect(m)
  PROVE  Alone(m)' /\ Once
<1>t. TypeOK /\ Types
  BY TypesHold DEF IInv
<1>u. /\ committed' = committed /\ next' = next /\ end' = end /\ outcomes' = outcomes
      /\ stopping' = stopping /\ current' = current /\ pc[m] = "retry" /\ pc'[m] = "poll"
  BY <1>t DEF Connect, Goto, TypeOK
<1>1. /\ group' = {m} /\ owner' \in [Partitions -> {m}]
      /\ position' = [p \in Partitions |-> NoOffset]
  BY <1>u DEF Connect, Rebalance, Alone, GroupOK
<1>2. GroupOK(m)'
  BY <1>u, <1>1 DEF Alone, GroupOK
<1>3. ASSUME NEW p \in Partitions PROVE PartOK(m, p)'
  <2>1. ~Underway(m, p)
    BY <1>t, <1>u DEF IInv, PcSound, Empty, Underway, Types
  <2>2. ~Underway(m, p)'
    BY <1>u, <2>1 DEF Underway
  <2>3. Reach(m, p)' = Reach(m, p)
    BY <1>u, <2>1, <2>2 DEF Reach
  <2> QED BY <1>u, <1>1, <2>2, <2>3 DEF Alone, PartOK
<1> QED BY <1>t, <1>u, <1>2, <1>3, SameOnce DEF Alone

\* A position is only unknown while nothing of the partition is in hand.
LEMMA AloneFetches ==
  ASSUME IInv, NEW m \in Members, Alone(m), NEW p \in Partitions, FetchPosition(p)
  PROVE  Alone(m)' /\ Once
<1>t. TypeOK /\ Types
  BY TypesHold DEF IInv
<1>u. /\ committed' = committed /\ group' = group /\ owner' = owner /\ next' = next /\ end' = end
      /\ current' = current /\ pc' = pc /\ stopping' = stopping /\ outcomes' = outcomes
  BY DEF FetchPosition
<1>1. /\ position[p] = NoOffset /\ position'[p] = committed[p]
      /\ \A q \in Partitions \ {p} : position'[q] = position[q]
  BY <1>t DEF FetchPosition, TypeOK
<1>2. GroupOK(m)'
  BY <1>u DEF Alone, GroupOK
<1>3. ASSUME NEW q \in Partitions PROVE PartOK(m, q)'
  <2>1. (Underway(m, q)' <=> Underway(m, q)) /\ PartOK(m, q)
    BY <1>u DEF Underway, Alone
  <2>2. CASE q # p
    BY <1>u, <1>1, <2>1, <2>2, PartKept
  <2>3. CASE q = p
    <3>1. ~Underway(m, p)
      BY <1>t, <1>1, <2>1, <2>3 DEF PartOK, Types
    <3>2. Reach(m, p)' = Reach(m, p)
      BY <1>u, <2>1, <2>3 DEF Reach
    <3> QED BY <1>u, <1>1, <2>1, <2>3, <3>1, <3>2 DEF PartOK
  <2> QED BY <2>2, <2>3
<1> QED BY <1>t, <1>u, <1>2, <1>3, SameOnce DEF Alone

\* A poll returns what follows the last commit, and nothing was in hand.
LEMMA AlonePolls ==
  ASSUME IInv, NEW m \in Members, Alone(m), Poll(m)
  PROVE  Alone(m)' /\ Once
<1>t. TypeOK /\ Types
  BY TypesHold DEF IInv
<1>u. /\ committed' = committed /\ group' = group /\ owner' = owner /\ stopping' = stopping
      /\ current' = current /\ outcomes' = outcomes /\ pc[m] = "poll" /\ pc'[m] = "batch"
  BY <1>t DEF Poll, Goto, TypeOK
<1>1. PICK upto \in [Partitions -> 0 .. MaxLog], got \in SUBSET Partitions :
         /\ \A p \in got : position[p] # NoOffset /\ upto[p] > position[p]
         /\ \A p \in Partitions \ got : upto[p] = 0
         /\ next' = [next EXCEPT ![m] =
                       [p \in Partitions |-> IF p \in got THEN position[p] ELSE 0]]
         /\ end' = [end EXCEPT ![m] = upto]
         /\ position' = [p \in Partitions |-> IF p \in got THEN upto[p] ELSE position[p]]
  <2>1. PICK upto \in [Partitions -> 0 .. MaxLog] :
          LET got == {p \in Partitions : /\ owner[p] = m
                                         /\ position[p] # NoOffset
                                         /\ upto[p] > position[p]}
          IN  /\ \A p \in Partitions : p \notin got => upto[p] = 0
              /\ next' = [next EXCEPT ![m] =
                            [p \in Partitions |-> IF p \in got THEN position[p] ELSE 0]]
              /\ end' = [end EXCEPT ![m] = upto]
              /\ position' = [p \in Partitions |->
                                IF p \in got THEN upto[p] ELSE position[p]]
    BY DEF Poll
  <2> DEFINE got == {p \in Partitions : /\ owner[p] = m
                                        /\ position[p] # NoOffset
                                        /\ upto[p] > position[p]}
  <2>2. \A p \in got : position[p] # NoOffset /\ upto[p] > position[p]
    OBVIOUS
  <2>3. \A p \in Partitions \ got : upto[p] = 0
    BY <2>1
  <2>4. got \in SUBSET Partitions
    OBVIOUS
  <2> QED BY <2>1, <2>2, <2>3, <2>4
<1>2. \A p \in Partitions :
         /\ next'[m][p] = IF p \in got THEN position[p] ELSE 0
         /\ end'[m][p] = upto[p]
         /\ position'[p] = IF p \in got THEN upto[p] ELSE position[p]
  BY <1>t, <1>1 DEF TypeOK
<1>3. GroupOK(m)'
  BY <1>u DEF Alone, GroupOK
<1>4. ASSUME NEW p \in Partitions PROVE PartOK(m, p)'
  <2>1. ~Underway(m, p) /\ PartOK(m, p)
    BY <1>t, <1>u DEF IInv, PcSound, Empty, Underway, Alone, Types
  <2>2. Reach(m, p) = committed[p] /\ position[p] \in {NoOffset, committed[p]}
    BY <2>1 DEF Reach, PartOK
  <2>3. CASE p \in got
    <3>1. position[p] = committed[p] /\ upto[p] > committed[p]
      BY <1>1, <2>2, <2>3
    <3>2. Underway(m, p)' /\ Reach(m, p)' = committed[p]
      BY <1>t, <1>2, <2>3, <3>1 DEF Underway, Reach, Types
    <3> QED BY <1>t, <1>u, <1>2, <2>1, <2>2, <2>3, <3>2 DEF PartOK, Types
  <2>4. CASE p \notin got
    <3>1. ~Underway(m, p)'
      BY <1>u, <1>1, <1>2, <2>4 DEF Underway
    <3>2. Reach(m, p)' = committed[p]
      BY <1>u, <3>1 DEF Reach
    <3> QED BY <1>u, <1>2, <2>1, <2>2, <2>4, <3>1, <3>2 DEF PartOK
  <2> QED BY <2>3, <2>4
<1> QED BY <1>t, <1>u, <1>3, <1>4, SameOnce DEF Alone

\* A commit covers exactly what was gone through, which is what was fetched.
LEMMA AloneCommits ==
  ASSUME IInv, NEW m \in Members, Alone(m), Commit(m)
  PROVE  Alone(m)' /\ Once
<1> DEFINE c == current[m]
<1>t. TypeOK /\ Types
  BY TypesHold DEF IInv
<1>u. /\ group' = group /\ owner' = owner /\ position' = position /\ stopping' = stopping
      /\ current' = current /\ outcomes' = outcomes
      /\ pc[m] = "commit" /\ pc'[m] \in {"poll", "batch"}
  BY <1>t DEF Commit, Goto, TypeOK
<1>1. c \in Partitions /\ next[m][c] = end[m][c] /\ end[m][c] \in 0 .. MaxLog
  BY <1>t, <1>u DEF IInv, PcSound, Types
<1>2. /\ committed'[c] = end[m][c] /\ next'[m][c] = 0 /\ end'[m][c] = 0
      /\ \A p \in Partitions \ {c} : /\ committed'[p] = committed[p]
                                     /\ next'[m][p] = next[m][p] /\ end'[m][p] = end[m][p]
  BY <1>t DEF Commit, TypeOK, Types
<1>3. GroupOK(m)'
  BY <1>u DEF Alone, GroupOK
<1>4. Underway(m, c) /\ Reach(m, c) = end[m][c] /\ PartOK(m, c)
  BY <1>u, <1>1 DEF Underway, Reach, Alone
<1>5. ASSUME NEW p \in Partitions PROVE PartOK(m, p)'
  <2>1. CASE p = c
    <3>1. ~Underway(m, c)' /\ Reach(m, c)' = end[m][c]
      BY <1>u, <1>2 DEF Underway, Reach
    <3> QED BY <1>u, <1>1, <1>2, <1>4, <2>1, <3>1 DEF PartOK
  <2>2. CASE p # c
    <3>1. Underway(m, p)' <=> Underway(m, p)
      BY <1>u, <1>2, <2>2 DEF Underway
    <3> QED BY <1>u, <1>2, <2>2, <3>1, PartKept DEF Alone
  <2> QED BY <2>1, <2>2
<1>6. Once
  <2>1. committed'[c] >= committed[c]
    BY <1>2, <1>4 DEF PartOK
  <2>2. \A p \in Partitions : committed[p] \in Int
    BY <1>t DEF Types
  <2> QED BY <1>u, <1>2, <2>1, <2>2 DEF Once
<1> QED BY <1>3, <1>5, <1>6 DEF Alone

\* The record in hand is the first one without an outcome.
LEMMA AloneSettles ==
  ASSUME IInv, NEW m \in Members, Alone(m), pc[m] \in {"handle", "park"},
         NEW label \in Labels, Settle(m, label)
  PROVE  Alone(m)' /\ Once
<1> DEFINE c == current[m]
           x == next[m][current[m]]
<1>t. TypeOK /\ Types
  BY TypesHold DEF IInv
<1>u. /\ committed' = committed /\ group' = group /\ owner' = owner /\ position' = position
      /\ stopping' = stopping /\ current' = current /\ end' = end
  BY DEF Settle
<1>1. c \in Partitions /\ x \in Offsets /\ x < end[m][c] /\ end[m][c] \in 0 .. MaxLog
  BY <1>t DEF IInv, PcSound, Types
<1>2. /\ next'[m][c] = x + 1
      /\ \A p \in Partitions \ {c} : next'[m][p] = next[m][p]
      /\ pc'[m] = IF x + 1 = end[m][c] THEN "commit" ELSE "handle"
  BY <1>t, <1>1 DEF Settle, Goto, TypeOK
<1>3. /\ outcomes'[c][x] = outcomes[c][x] \cup {label}
      /\ \A o \in Offsets \ {x} : outcomes'[c][o] = outcomes[c][o]
      /\ \A p \in Partitions \ {c} : outcomes'[p] = outcomes[p]
  BY <1>t, <1>1 DEF Settle, Count, TypeOK
<1>4. GroupOK(m)'
  BY <1>u, <1>2 DEF Alone, GroupOK
<1>5. Underway(m, c) /\ Reach(m, c) = x /\ PartOK(m, c)
  BY <1>1 DEF Underway, Reach, Alone
<1>6. outcomes[c][x] = {} /\ \A o \in Offsets : outcomes[c][o] # {} <=> o < x
  BY <1>1, <1>5 DEF PartOK
<1>7. ASSUME NEW p \in Partitions PROVE PartOK(m, p)'
  <2>1. CASE p = c
    <3>1. Underway(m, c)' /\ Reach(m, c)' = x + 1
      BY <1>u, <1>1, <1>2 DEF Underway, Reach
    <3>2. ASSUME NEW o \in Offsets PROVE outcomes'[c][o] # {} <=> o < x + 1
      <4>n. o \in Int /\ x \in Int
        BY <1>1 DEF Offsets
      <4> HIDE DEF c, x
      <4>1. CASE o = x
        <5>1. outcomes'[c][o] # {}
          BY <1>3, <4>1
        <5>2. o < x + 1
          BY <4>n, <4>1
        <5> QED BY <5>1, <5>2
      <4>2. CASE o # x
        <5>1. outcomes'[c][o] = outcomes[c][o]
          BY <1>3, <4>2
        <5>2. o < x <=> o < x + 1
          BY <4>n, <4>2
        <5> QED BY <1>6, <5>1, <5>2
      <4> QED BY <4>1, <4>2
    <3>3. committed[c] <= x + 1
      BY <1>t, <1>1, <1>5 DEF PartOK, Types
    <3> QED BY <1>u, <1>5, <2>1, <3>1, <3>2, <3>3 DEF PartOK
  <2>2. CASE p # c
    <3>1. Underway(m, p)' <=> Underway(m, p)
      BY <1>u, <1>2, <2>2 DEF Underway
    <3> QED BY <1>u, <1>2, <1>3, <2>2, <3>1, PartKept DEF Alone
  <2> QED BY <2>1, <2>2
<1>8. Once
  <2>1. \A p \in Partitions : committed[p] \in Int
    BY <1>t DEF Types
  <2> QED BY <1>u, <1>3, <1>6, <2>1 DEF Once
<1> QED BY <1>4, <1>7, <1>8 DEF Alone

\* Without a failure nobody stops, leaves or takes a partition away.
LEMMA AloneStep ==
  ASSUME IInv, NEW m, Members = {m}, Alone(m), [Next]_vars, faults' = 0, AllFit
  PROVE  Alone(m)' /\ Once
<1>1. ~Fault
  BY DEF Fault, IInv, TypeOK
<1>2. ~Trouble(m)
  BY <1>1 DEF Trouble, Stop, Crash, Evict, PollError, CommitError, DeadLetterError
<1>3. ~(Exit(m) \/ Cancel(m) \/ Rejoin(m) \/ CommitRefused(m) \/ DeadLetterRejected(m))
  <2>1. current[m] \in Partitions
    BY DEF IInv, TypeOK
  <2>2. pc[m] = "park" => Record(m).fits
    <3> SUFFICES ASSUME pc[m] = "park" PROVE Record(m).fits
      OBVIOUS
    <3>1. next[m][current[m]] + 1 \in 1 .. Len(log[current[m]])
      BY <2>1, TypesHold DEF IInv, PcSound, BatchSound, Types
    <3> QED BY <2>1, <3>1 DEF AllFit, Record
  <2> QED BY <2>1, <2>2 DEF Exit, Cancel, Rejoin, CommitRefused, DeadLetterRejected, Alone, GroupOK
<1>4. CASE \E p \in Partitions : Produce(p) \/ FetchPosition(p)
  BY <1>4, AloneWaits, AloneFetches
<1>5. CASE Step(m)
  <2>1. CASE Ignore(m) \/ HandleOk(m) \/ DeadLetter(m)
    BY <2>1, AloneSettles DEF Ignore, HandleOk, DeadLetter, Labels
  <2>2. CASE PollEmpty(m)
    BY <2>2, AloneWaits DEF PollEmpty
  <2> QED BY <1>3, <1>5, <2>1, <2>2, AloneWaits, AloneConnects, AlonePolls, AloneCommits DEF Step
<1>6. CASE UNCHANGED vars
  BY <1>6, AloneWaits
<1> QED BY <1>2, <1>4, <1>5, <1>6 DEF Next

\* With one process, until something fails and while every envelope fits, delivery
\* is exactly once: no record is handled to an end twice, and no commit moves the
\* group's offset back.  All repetition is due to failures, to other members or to
\* a record too large to park, whose batch is handled again and again.
THEOREM ExactlyOnceAlone ==
  ASSUME NEW m, Members = {m}
  PROVE  SafeSpec => [][(faults = 0 /\ AllFit)' => Once]_vars
<1> DEFINE Quiet == faults = 0 /\ AllFit
<1>1. Init => (Quiet => Alone(m))
  <2> SUFFICES ASSUME Init PROVE Alone(m)
    OBVIOUS
  <2>1. GroupOK(m)
    BY DEF Init, GroupOK
  <2>2. ASSUME NEW p \in Partitions PROVE PartOK(m, p)
    <3>1. ~Underway(m, p) /\ Reach(m, p) = 0
      BY DEF Init, Underway, Reach
    <3> QED BY <3>1 DEF Init, PartOK
  <2> QED BY <2>1, <2>2 DEF Alone
<1>2. ASSUME IInv, Quiet => Alone(m), [Next]_vars, Quiet'
      PROVE  Alone(m)' /\ Once
  <2>1. faults = 0
    BY <1>2 DEF IInv, TypeOK, Next, vars, Produce, FetchPosition, Step, Trouble, Fault, Start,
                Connect, Exit, Cancel, Rejoin, Poll, PollEmpty, PickPartition, Commit,
                CommitRefused, Unparseable, Ignore, HandleOk, HandleError, DeadLetter,
                DeadLetterRejected, Settle, Stop, Crash, Evict, PollError, CommitError,
                DeadLetterError
  <2>2. AllFit
    BY <1>2, FitsEarlier
  <2> QED BY <1>2, <2>1, <2>2, AloneStep
<1>3. IInv /\ (Quiet => Alone(m)) /\ [Next]_vars => (Quiet => Alone(m))'
  BY <1>2
<1>4. IInv /\ (Quiet => Alone(m)) /\ [Next]_vars => [Quiet' => Once]_vars
  BY <1>2
<1> HIDE DEF Quiet
<1>5. SafeSpec => [][Quiet' => Once]_vars
  BY <1>1, <1>3, <1>4, Invariance, PTL DEF SafeSpec
<1> QED BY <1>5 DEF Quiet
=============================================================================
