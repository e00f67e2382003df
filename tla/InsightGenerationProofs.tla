----------------------- MODULE InsightGenerationProofs -----------------------
(***************************************************************************)
(* Theorems about InsightGeneration, for any jobs, companies and bounds.    *)
(***************************************************************************)
EXTENDS InsightGeneration, FiniteSetTheorems, TLAPS

-----------------------------------------------------------------------------
(* The inductive invariant. *)

Places == {"idle", "refused", "check", "context", "gather", "write",
           "done", "skipped", "failed", "parked", "lost"}
Insights == [facts : SUBSET Slots, context : Slots]
VisibleTo(s) == {c \in Slots : Sees(s, c)}

\* A run was made by a job, of nothing but what the scope of the job sees.
RunsOK == /\ made \in [Runs -> Insights \cup {Unmade}]
          /\ \A r \in Created : made[r] \in Insights
          /\ \A r \in Created : made[r].facts \subseteq VisibleTo(Scope[Maker(r)])

\* The store of a run is under way only while its job waits for it.
WritesOK == /\ pending \subseteq Created \X Writes
            /\ \A r \in Created : <<r, "store">> \in pending =>
                  pc[Maker(r)] = "write" /\ run[Maker(r)] = r

\* A job that has begun its writes has its own run, which is stored or about to be.
JobsOK == /\ pc \in [Jobs -> Places]
          /\ run \in [Jobs -> {NoRun} \cup Runs]
          /\ \A j \in Jobs : pc[j] = "write" =>
                /\ run[j] \in Created
                /\ Maker(run[j]) = j
                /\ <<run[j], "store">> \in pending \/ run[j] \in stored
          /\ \A j \in Jobs : pc[j] = "done" => run[j] \in stored

\* What is under a company's key was made for that key.
SlotsOK == /\ row \in [Slots -> [id : {NoRun} \cup Runs, from : {NoRun} \cup Runs]]
           /\ cached \in [Slots -> {NoRun} \cup Runs]
           /\ \A c \in Slots : \A r \in {row[c].from, cached[c]} \ {NoRun} :
                 r \in Created /\ Slot(Scope[Maker(r)]) = c

IInv == RunsOK /\ WritesOK /\ JobsOK /\ SlotsOK

USE GenerationAssumption

LEMMA Makers == NoRun \notin Runs /\ \A r \in Runs : Maker(r) \in Jobs
BY DEF Runs, NoRun, Maker

LEMMA UnmadeIsNoInsight == Unmade \notin Insights
<1>1. Unmade.context = All
  BY DEF Unmade
<1>2. ASSUME Unmade \in Insights PROVE Unmade.context \in Slots
  BY <1>2 DEF Insights
<1> QED BY <1>1, <1>2

-----------------------------------------------------------------------------
(* The parts of the invariant that a step may leave alone. *)

LEMMA SameMade == made' = made => Created' = Created /\ (RunsOK => RunsOK')
BY DEF Created, RunsOK

LEMMA SameSlots ==
  ASSUME SlotsOK, made' = made, row' = row, cached' = cached
  PROVE  SlotsOK'
BY DEF SlotsOK, Created

\* A job that is not writing goes somewhere without touching runs and writes.
LEMMA MoveStep ==
  ASSUME IInv, NEW j \in Jobs, pc[j] # "write",
         NEW where \in Places \ {"write", "done"},
         pc' = [pc EXCEPT ![j] = where],
         run' = run, made' = made, pending' = pending,
         row' = row, stored' = stored, cached' = cached
  PROVE  IInv'
<1>1. /\ pc' \in [Jobs -> Places] /\ pc'[j] = where
      /\ \A k \in Jobs \ {j} : pc'[k] = pc[k]
      /\ Created' = Created
  BY SameMade DEF IInv, JobsOK
<1>2. RunsOK' /\ SlotsOK'
  BY SameMade, SameSlots DEF IInv
<1>3. JobsOK'
  BY <1>1 DEF IInv, JobsOK
<1>4. WritesOK'
  <2>1. ASSUME NEW r \in Created, <<r, "store">> \in pending
        PROVE  pc'[Maker(r)] = "write" /\ run[Maker(r)] = r
    <3>1. pc[Maker(r)] = "write" /\ run[Maker(r)] = r /\ Maker(r) \in Jobs
      BY <2>1, Makers DEF IInv, WritesOK, Created
    <3>2. Maker(r) # j
      BY <3>1
    <3> QED BY <1>1, <3>1, <3>2
  <2> QED BY <1>1, <2>1 DEF IInv, WritesOK
<1> QED BY <1>2, <1>3, <1>4 DEF IInv

\* The attempt of j ends with an error, at a point where nothing waits for j.
LEMMA FailStep ==
  ASSUME IInv, NEW j \in Jobs, pc[j] # "write", Fail(j), made' = made, pending' = pending,
         row' = row, stored' = stored, cached' = cached
  PROVE  IInv'
<1>1. PICK where \in {"failed", "parked", "check"} : pc' = [pc EXCEPT ![j] = where]
  BY DEF Fail, Goto
<1>2. run' = run /\ where \in Places \ {"write", "done"}
  BY DEF Fail, Places
<1> QED BY <1>1, <1>2, MoveStep

\* The steps of generate_daily_summary before there is an insight.
LEMMA EarlyStep ==
  ASSUME IInv, NEW j \in Jobs,
         \/ Request(j) \/ Refuse(j) \/ Skip(j) \/ Deliver(j) \/ Undatable(j)
         \/ CheckAbsent(j) \/ CheckFound(j) \/ ReadContext(j) \/ Unbuildable(j) \/ ReadError(j)
  PROVE  IInv'
<1>1. CASE CheckFound(j) \/ ReadError(j) \/ Undatable(j) \/ Unbuildable(j)
  BY <1>1, FailStep DEF CheckFound, ReadError, Undatable, Unbuildable, FailByData, database
<1>2. CASE Request(j) \/ Refuse(j) \/ Skip(j) \/ Deliver(j) \/ CheckAbsent(j) \/ ReadContext(j)
  <2>1. /\ pc[j] # "write"
        /\ run' = run /\ made' = made /\ pending' = pending
        /\ row' = row /\ stored' = stored /\ cached' = cached
    BY <1>2 DEF Request, Refuse, Skip, Deliver, CheckAbsent, ReadContext, database
  <2>2. PICK where \in {"check", "refused", "context", "gather", "skipped"} :
           pc' = [pc EXCEPT ![j] = where]
    BY <1>2 DEF Request, Refuse, Skip, Deliver, CheckAbsent, ReadContext, Goto
  <2>3. where \in Places \ {"write", "done"}
    BY DEF Places
  <2> QED BY <2>1, <2>2, <2>3, MoveStep
<1> QED BY <1>1, <1>2

-----------------------------------------------------------------------------
(* A new insight. *)

LEMMA CreatesRun ==
  ASSUME NEW j \in Jobs, NEW facts, Create(j, facts)
  PROVE  \E r \in Runs \ Created :
            /\ Maker(r) = j
            /\ run' = [run EXCEPT ![j] = r]
            /\ made' = [made EXCEPT ![r] = [facts |-> facts, context |-> AccountOwner]]
            /\ \E writes \in {Writes, Writes \ {"notify"}} : pending' = pending \cup ({r} \X writes)
<1>1. PICK n \in 1 .. MaxFaults + 1 :
         /\ <<j, n>> \notin Created
         /\ run' = [run EXCEPT ![j] = <<j, n>>]
         /\ made' = [made EXCEPT ![<<j, n>>] = [facts |-> facts, context |-> AccountOwner]]
         /\ \E writes \in {Writes, Writes \ {"notify"}} : pending' = pending \cup ({<<j, n>>} \X writes)
  BY DEF Create
<1>2. <<j, n>> \in Runs \ Created /\ Maker(<<j, n>>) = j
  BY <1>1 DEF Runs, Maker
<1> QED BY <1>1, <1>2

LEMMA CreateStep ==
  ASSUME IInv, NEW j \in Jobs, pc[j] = "gather", NEW facts \in SUBSET VisibleTo(Scope[j]),
         Create(j, facts), row' = row, stored' = stored, cached' = cached
  PROVE  IInv'
<1>1. PICK r \in Runs \ Created :
         /\ Maker(r) = j
         /\ run' = [run EXCEPT ![j] = r]
         /\ made' = [made EXCEPT ![r] = [facts |-> facts, context |-> AccountOwner]]
         /\ \E writes \in {Writes, Writes \ {"notify"}} : pending' = pending \cup ({r} \X writes)
  BY CreatesRun
<1>2. PICK writes \in {Writes, Writes \ {"notify"}} : pending' = pending \cup ({r} \X writes)
  BY <1>1
<1>3. writes \subseteq Writes /\ "store" \in writes
  BY DEF Writes
<1>4. pc' = [pc EXCEPT ![j] = "write"]
  BY DEF Create, Goto
<1>5. /\ made'[r] = [facts |-> facts, context |-> AccountOwner]
      /\ made'[r] \in Insights
      /\ made' \in [Runs -> Insights \cup {Unmade}]
      /\ \A q \in Runs \ {r} : made'[q] = made[q]
  <2>1. [facts |-> facts, context |-> AccountOwner] \in Insights
    BY DEF Insights, VisibleTo
  <2> QED BY <1>1, <2>1 DEF IInv, RunsOK
<1>6. Created' = Created \cup {r} /\ Created \subseteq Runs /\ Maker(r) = j
  BY <1>1, <1>5, UnmadeIsNoInsight DEF Created
<1>7. /\ pc' \in [Jobs -> Places] /\ pc'[j] = "write"
      /\ run' \in [Jobs -> {NoRun} \cup Runs] /\ run'[j] = r
      /\ \A k \in Jobs \ {j} : pc'[k] = pc[k] /\ run'[k] = run[k]
  BY <1>1, <1>4 DEF IInv, JobsOK, Places
<1>8. RunsOK'
  BY <1>5, <1>6 DEF IInv, RunsOK
<1>9. WritesOK'
  <2>1. ASSUME NEW q \in Created, <<q, "store">> \in pending
        PROVE  pc'[Maker(q)] = "write" /\ run'[Maker(q)] = q
    <3>1. /\ pc[Maker(q)] = "write" /\ run[Maker(q)] = q
          /\ Maker(q) \in Jobs /\ made'[q] = made[q]
      BY <1>5, <1>6, <2>1, Makers DEF IInv, WritesOK, Created
    <3>2. Maker(q) # j
      BY <3>1
    <3> QED BY <1>7, <3>1, <3>2
  <2>2. \A q \in Created' : <<q, "store">> \in pending' =>
           q = r \/ (q \in Created /\ <<q, "store">> \in pending)
    BY <1>2, <1>6
  <2>3. pending' \subseteq Created' \X Writes
    BY <1>2, <1>3, <1>6 DEF IInv, WritesOK
  <2>4. ASSUME NEW q \in Created', <<q, "store">> \in pending'
        PROVE  pc'[Maker(q)] = "write" /\ run'[Maker(q)] = q
    <3>1. CASE q = r
      BY <1>6, <1>7, <3>1
    <3> QED BY <2>1, <2>2, <2>4, <3>1
  <2> QED BY <2>3, <2>4 DEF WritesOK
<1>10. JobsOK'
  <2>1. ASSUME NEW k \in Jobs, pc'[k] = "write"
        PROVE  /\ run'[k] \in Created'
               /\ Maker(run'[k]) = k
               /\ <<run'[k], "store">> \in pending' \/ run'[k] \in stored'
    <3>1. CASE k = j
      BY <1>2, <1>3, <1>5, <1>6, <1>7, <3>1
    <3>2. CASE k # j
      <4>1. /\ pc[k] = "write" /\ run'[k] = run[k] /\ run[k] \in Created
            /\ Maker(run[k]) = k
            /\ <<run[k], "store">> \in pending \/ run[k] \in stored
        BY <1>7, <2>1, <3>2 DEF IInv, JobsOK
      <4> QED BY <1>2, <1>5, <1>6, <4>1
    <3> QED BY <3>1, <3>2
  <2>2. \A k \in Jobs : pc'[k] = "done" => run'[k] \in stored'
    BY <1>7 DEF IInv, JobsOK
  <2> QED BY <1>7, <2>1, <2>2 DEF JobsOK
<1>11. SlotsOK'
  BY <1>5, <1>6 DEF IInv, SlotsOK
<1> QED BY <1>8, <1>9, <1>10, <1>11 DEF IInv

LEMMA GatherStep ==
  ASSUME IInv, NEW j \in Jobs, Gather(j) \/ GatherPartly(j)
  PROVE  IInv'
<1>1. pc[j] = "gather" /\ row' = row /\ stored' = stored /\ cached' = cached
  BY DEF Gather, GatherPartly, database
<1>2. CASE \E facts \in SUBSET VisibleTo(Scope[j]) : Create(j, facts)
  BY <1>1, <1>2, CreateStep
<1>3. CASE Fail(j) /\ UNCHANGED <<unbuilt, made, pending>>
  BY <1>1, <1>3, FailStep
<1> QED BY <1>2, <1>3 DEF Gather, GatherPartly, VisibleTo

-----------------------------------------------------------------------------
(* The writes. *)

\* A write of run r other than its store ends, with or without an effect.
LEMMA SideWriteStep ==
  ASSUME IInv, NEW r \in Runs, NEW w \in Writes \ {"store"}, Begun(r, w),
         pc' = pc, run' = run, made' = made, row' = row, stored' = stored,
         \/ cached' = cached
         \/ cached' = [cached EXCEPT ![Slot(Scope[Maker(r)])] = r]
  PROVE  IInv'
<1>1. /\ pending' = pending \ {<<r, w>>} /\ <<r, w>> \in pending
      /\ Created' = Created
      /\ \A q : <<q, "store">> \in pending' <=> <<q, "store">> \in pending
  BY SameMade DEF Begun
<1>2. r \in Created /\ Maker(r) \in Jobs
  BY <1>1, Makers DEF IInv, WritesOK, Created
<1>3. RunsOK'
  BY SameMade DEF IInv
<1>4. WritesOK'
  BY <1>1 DEF IInv, WritesOK
<1>5. JobsOK'
  BY <1>1 DEF IInv, JobsOK
<1>6. SlotsOK'
  <2>1. CASE cached' = cached
    BY <2>1, SameSlots DEF IInv
  <2>2. CASE cached' = [cached EXCEPT ![Slot(Scope[Maker(r)])] = r]
    BY <1>1, <1>2, <2>2, Makers DEF IInv, SlotsOK
  <2> QED BY <2>1, <2>2
<1> QED BY <1>3, <1>4, <1>5, <1>6 DEF IInv

LEMMA UpsertKeepsSlots ==
  ASSUME IInv, NEW r \in Created, Upsert(r), made' = made, cached' = cached
  PROVE  SlotsOK' /\ stored' = stored \cup {r}
<1> DEFINE c == Slot(Scope[Maker(r)])
<1>1. /\ row' = [row EXCEPT ![c] = [id |-> IF row[c] = NoRow THEN r ELSE row[c].id, from |-> r]]
      /\ stored' = stored \cup {r}
      /\ Created' = Created /\ r \in Runs
  BY SameMade, Makers DEF Upsert, Created
<1>2. row' \in [Slots -> [id : {NoRun} \cup Runs, from : {NoRun} \cup Runs]]
  BY <1>1 DEF IInv, SlotsOK
<1>3. \A d \in Slots : row'[d].from = row[d].from \/ (d = c /\ row'[d].from = r)
  BY <1>1 DEF IInv, SlotsOK
<1> QED BY <1>1, <1>2, <1>3 DEF IInv, SlotsOK

LEMMA StoreStep == ASSUME IInv, NEW r \in Runs, Store(r) PROVE IInv'
<1>1. /\ pending' = pending \ {<<r, "store">>} /\ <<r, "store">> \in pending
      /\ Upsert(r)
      /\ pc' = pc /\ run' = run /\ made' = made /\ cached' = cached
  BY DEF Store, Begun, job
<1>2. r \in Created /\ Created' = Created
  BY <1>1, SameMade DEF IInv, WritesOK
<1>3. SlotsOK' /\ stored' = stored \cup {r}
  BY <1>1, <1>2, UpsertKeepsSlots
<1>4. RunsOK'
  BY <1>1, SameMade DEF IInv
<1>5. WritesOK'
  BY <1>1, <1>2 DEF IInv, WritesOK
<1>6. JobsOK'
  BY <1>1, <1>2, <1>3 DEF IInv, JobsOK
<1> QED BY <1>3, <1>4, <1>5, <1>6 DEF IInv

\* The job of a failed store leaves its run, whether or not there is a row.
LEMMA StoreErrorStep == ASSUME IInv, NEW r \in Runs, StoreError(r) PROVE IInv'
<1> DEFINE j == Maker(r)
<1>1. /\ pending' = pending \ {<<r, "store">>} /\ <<r, "store">> \in pending
      /\ Upsert(r) \/ UNCHANGED <<row, stored>>
      /\ Fail(j)
      /\ made' = made /\ cached' = cached
  BY DEF StoreError, Begun, database
<1>2. r \in Created /\ Created' = Created /\ j \in Jobs
  BY <1>1, SameMade, Makers DEF IInv, WritesOK, Created
<1>3. pc[j] = "write" /\ run[j] = r
  BY <1>1, <1>2 DEF IInv, WritesOK
<1>4. SlotsOK' /\ stored \subseteq stored'
  BY <1>1, <1>2, UpsertKeepsSlots, SameSlots DEF IInv
<1>5. PICK where \in {"failed", "parked", "check"} : pc' = [pc EXCEPT ![j] = where]
  BY <1>1 DEF Fail, Goto
<1>6. /\ pc' \in [Jobs -> Places] /\ pc'[j] \notin {"write", "done"}
      /\ \A k \in Jobs \ {j} : pc'[k] = pc[k]
      /\ run' = run
  BY <1>1, <1>2, <1>5 DEF Fail, IInv, JobsOK, Places
<1>7. RunsOK'
  BY <1>1, SameMade DEF IInv
<1>8. WritesOK'
  <2>1. ASSUME NEW q \in Created, <<q, "store">> \in pending, q # r
        PROVE  pc'[Maker(q)] = "write" /\ run[Maker(q)] = q
    <3>1. pc[Maker(q)] = "write" /\ run[Maker(q)] = q /\ Maker(q) \in Jobs
      BY <2>1, Makers DEF IInv, WritesOK, Created
    <3> QED BY <1>3, <1>6, <2>1, <3>1
  <2> QED BY <1>1, <1>2, <1>6, <2>1 DEF IInv, WritesOK
<1>9. JobsOK'
  <2>1. ASSUME NEW k \in Jobs, pc'[k] = "write"
        PROVE  /\ run[k] \in Created
               /\ Maker(run[k]) = k
               /\ <<run[k], "store">> \in pending' \/ run[k] \in stored'
    <3>1. k # j /\ pc[k] = "write"
      BY <1>6, <2>1
    <3>2. /\ run[k] \in Created /\ Maker(run[k]) = k
          /\ <<run[k], "store">> \in pending \/ run[k] \in stored
      BY <3>1 DEF IInv, JobsOK
    <3>3. run[k] # r
      BY <3>1, <3>2
    <3> QED BY <1>1, <1>4, <3>2, <3>3
  <2>2. \A k \in Jobs : pc'[k] = "done" => run[k] \in stored'
    BY <1>4, <1>6 DEF IInv, JobsOK
  <2> QED BY <1>1, <1>2, <1>6, <2>1, <2>2 DEF IInv, JobsOK
<1> QED BY <1>4, <1>7, <1>8, <1>9 DEF IInv

LEMMA WriteStep ==
  ASSUME IInv, NEW r \in Runs, Write(r) \/ \E w \in Writes : WriteError(r, w)
  PROVE  IInv'
<1>1. CASE Store(r)
  BY <1>1, StoreStep
<1>2. CASE Cache(r)
  <2>1. "cache" \in Writes \ {"store"}
    BY DEF Writes
  <2> QED BY <1>2, <2>1, SideWriteStep DEF Cache, job, database
<1>3. ASSUME NEW w \in Writes, Enqueue(r, w) PROVE IInv'
  <2>1. w \in Writes \ {"store"}
    BY <1>3 DEF Enqueue
  <2> QED BY <1>3, <2>1, SideWriteStep DEF Enqueue, job, database
<1>4. ASSUME NEW w \in Writes, WriteError(r, w) PROVE IInv'
  <2>1. w \in Writes \ {"store"}
    BY <1>4 DEF WriteError
  <2> QED BY <1>4, <2>1, SideWriteStep DEF WriteError, job, database
<1> QED BY <1>1, <1>2, <1>3, <1>4 DEF Write

\* All the writes of a run are over: its store was one of them.
LEMMA FinishStep == ASSUME IInv, NEW j \in Jobs, Finish(j) PROVE IInv'
<1>1. /\ pc[j] = "write" /\ pc' = [pc EXCEPT ![j] = "done"]
      /\ <<run[j], "store">> \notin pending
      /\ run' = run /\ made' = made /\ pending' = pending
      /\ row' = row /\ stored' = stored /\ cached' = cached
  BY DEF Finish, Goto, Writes, database
<1>2. /\ pc' \in [Jobs -> Places] /\ pc'[j] = "done"
      /\ \A k \in Jobs \ {j} : pc'[k] = pc[k]
      /\ Created' = Created
  BY <1>1, SameMade DEF IInv, JobsOK, Places
<1>3. run[j] \in stored
  BY <1>1 DEF IInv, JobsOK
<1>4. RunsOK' /\ SlotsOK'
  BY <1>1, SameMade, SameSlots DEF IInv
<1>5. JobsOK'
  BY <1>1, <1>2, <1>3 DEF IInv, JobsOK
<1>6. WritesOK'
  <2>1. ASSUME NEW q \in Created, <<q, "store">> \in pending
        PROVE  pc'[Maker(q)] = "write" /\ run[Maker(q)] = q
    <3>1. pc[Maker(q)] = "write" /\ run[Maker(q)] = q /\ Maker(q) \in Jobs
      BY <2>1, Makers DEF IInv, WritesOK, Created
    <3>2. Maker(q) # j
      BY <1>1, <2>1, <3>1
    <3> QED BY <1>2, <3>1, <3>2
  <2> QED BY <1>1, <1>2, <2>1 DEF IInv, WritesOK
<1> QED BY <1>4, <1>5, <1>6 DEF IInv

-----------------------------------------------------------------------------
(* Crashes and deletion. *)

\* Jobs end or begin again, and those that go on keep their stores.
LEMMA BackStep ==
  ASSUME IInv, pc' \in [Jobs -> Places],
         \A k \in Jobs : pc'[k] = pc[k] \/ pc'[k] \in {"idle", "lost"},
         pending' \subseteq pending,
         \A q \in Created : <<q, "store">> \in pending' => pc'[Maker(q)] = pc[Maker(q)],
         \A q \in Created : <<q, "store">> \in pending /\ pc'[Maker(q)] = "write" =>
            <<q, "store">> \in pending',
         run' = run, made' = made, row' = row, stored' = stored, cached' = cached
  PROVE  IInv'
<1>1. Created' = Created
  BY SameMade
<1>2. RunsOK' /\ SlotsOK'
  BY SameMade, SameSlots DEF IInv
<1>3. JobsOK'
  <2>1. ASSUME NEW k \in Jobs, pc'[k] = "write"
        PROVE  /\ run[k] \in Created
               /\ Maker(run[k]) = k
               /\ <<run[k], "store">> \in pending' \/ run[k] \in stored
    <3>1. pc[k] = "write"
      BY <2>1
    <3>2. /\ run[k] \in Created /\ Maker(run[k]) = k
          /\ <<run[k], "store">> \in pending \/ run[k] \in stored
      BY <3>1 DEF IInv, JobsOK
    <3> QED BY <2>1, <3>2
  <2>2. \A k \in Jobs : pc'[k] = "done" => run[k] \in stored
    BY DEF IInv, JobsOK
  <2> QED BY <1>1, <2>1, <2>2 DEF IInv, JobsOK
<1>4. WritesOK'
  BY <1>1 DEF IInv, WritesOK
<1> QED BY <1>2, <1>3, <1>4 DEF IInv

LEMMA CrashStep == ASSUME IInv, NEW jobs \in SUBSET Jobs, Crash(jobs) PROVE IInv'
<1>1. /\ pending' = {p \in pending : Maker(p[1]) \notin jobs}
      /\ run' = run /\ made' = made /\ row' = row /\ stored' = stored /\ cached' = cached
  BY DEF Crash, database
<1>2. /\ pc' \in [Jobs -> Places]
      /\ \A k \in Jobs : pc'[k] = pc[k] \/ pc'[k] \in {"idle", "lost"}
      /\ \A k \in Jobs \ jobs : pc'[k] = pc[k]
      /\ \A k \in jobs : pc'[k] # "write"
  <2>1. PICK back \in SUBSET {j \in jobs \cap Triggers : Settled(j)} :
           pc' = [j \in Jobs |->
                     IF j \in back \/ (j \in jobs \cap Triggers /\ Trying(j)) THEN "idle"
                     ELSE IF j \in jobs /\ Trying(j) THEN "lost"
                     ELSE pc[j]]
    BY DEF Crash
  <2>2. /\ \A k \in Jobs : pc'[k] \in {pc[k], "idle", "lost"}
        /\ \A k \in Jobs \ jobs : pc'[k] = pc[k]
        /\ \A k \in jobs : Trying(k) => pc'[k] \in {"idle", "lost"}
    BY <2>1
  <2>3. pc' \in [Jobs -> Places]
    <3>1. \A k \in Jobs : pc'[k] \in Places
      BY <2>2 DEF IInv, JobsOK, Places
    <3> QED BY <2>1, <3>1
  <2> QED BY <2>2, <2>3 DEF Trying
<1>3. \A q \in Created : <<q, "store">> \in pending' <=> <<q, "store">> \in pending /\ Maker(q) \notin jobs
  <2>1. \A q : <<q, "store">>[1] = q
    OBVIOUS
  <2> QED BY <1>1, <2>1
<1>4. \A q \in Created : Maker(q) \in Jobs
  BY Makers DEF Created
<1> QED BY <1>1, <1>2, <1>3, <1>4, BackStep

LEMMA RedeliverStep == ASSUME IInv, NEW jobs \in SUBSET Jobs, Redeliver(jobs) PROVE IInv'
<1>1. /\ pending' = pending
      /\ run' = run /\ made' = made /\ row' = row /\ stored' = stored /\ cached' = cached
  BY DEF Redeliver, database
<1>2. /\ pc' \in [Jobs -> Places]
      /\ \A k \in Jobs : pc'[k] = pc[k] \/ pc'[k] \in {"idle", "lost"}
      /\ \A k \in Jobs : pc[k] = "write" => pc'[k] = pc[k]
  BY DEF Redeliver, Settled, IInv, JobsOK, Places
<1>3. \A q \in Created : <<q, "store">> \in pending => pc[Maker(q)] = "write" /\ Maker(q) \in Jobs
  BY Makers DEF IInv, WritesOK, Created
<1> QED BY <1>1, <1>2, <1>3, BackStep

LEMMA DeleteStep == IInv /\ DeleteInsights => IInv'
<1> SUFFICES ASSUME IInv, DeleteInsights PROVE IInv'
  OBVIOUS
<1>1. /\ row' = [c \in Slots |-> NoRow]
      /\ pc' = pc /\ run' = run /\ made' = made /\ pending' = pending
      /\ stored' = stored /\ cached' = cached
  BY DEF DeleteInsights, job
<1>2. RunsOK' /\ WritesOK' /\ JobsOK'
  BY <1>1, SameMade DEF IInv, WritesOK, JobsOK
<1>3. SlotsOK'
  BY <1>1, SameMade DEF IInv, SlotsOK, NoRow, NoRun
<1> QED BY <1>2, <1>3 DEF IInv

LEMMA StutterStep == IInv /\ UNCHANGED vars => IInv'
<1> SUFFICES ASSUME IInv, UNCHANGED vars PROVE IInv'
  OBVIOUS
<1>1. /\ pc' = pc /\ run' = run /\ made' = made /\ pending' = pending
      /\ row' = row /\ stored' = stored /\ cached' = cached
  BY DEF vars, job, database
<1> QED BY <1>1, SameMade, SameSlots DEF IInv, WritesOK, JobsOK

LEMMA InitStep == Init => IInv
<1> SUFFICES ASSUME Init PROVE IInv
  OBVIOUS
<1>1. Created = {}
  BY DEF Init, Created
<1>2. RunsOK /\ WritesOK
  BY <1>1 DEF Init, RunsOK, WritesOK
<1>3. JobsOK
  BY <1>1 DEF Init, JobsOK, Places
<1>4. SlotsOK
  BY DEF Init, SlotsOK, NoRow, NoRun
<1> QED BY <1>2, <1>3, <1>4 DEF IInv

-----------------------------------------------------------------------------
(* The theorems. *)

LEMMA NextStep == IInv /\ [Next]_vars => IInv'
<1>1. ASSUME IInv, Next PROVE IInv'
  BY <1>1, EarlyStep, GatherStep, FinishStep, CrashStep, RedeliverStep, WriteStep, StoreErrorStep,
     DeleteStep DEF Next, Step, Call
<1> QED BY <1>1, StutterStep

\* Whatever fails and whoever crashes, a run's store is under way only while
\* its job waits for it, and every key holds what was made for it.
THEOREM Invariance == SafeSpec => []IInv
BY InitStep, NextStep, PTL DEF SafeSpec

\* No offset of a trigger is committed, and no task reported as a success,
\* before its insight is in the table.
THEOREM Acknowledged == SafeSpec => []AckedIsStored
<1>1. IInv => AckedIsStored
  BY DEF IInv, JobsOK, AckedIsStored
<1> QED BY <1>1, Invariance, PTL

\* What a company can read was made of its own transactions and alerts, for
\* any number of companies that share an account number.
THEOREM Isolation == SafeSpec => []TenantIsolation
<1>1. IInv => TenantIsolation
  <2> SUFFICES ASSUME IInv, NEW c \in Companies, NEW r \in {row[c].from, cached[c]} \ {NoRun}
               PROVE  made[r].facts \subseteq {c}
    BY DEF TenantIsolation
  <2>1. c \in Slots
    BY DEF Slots
  <2>2. r \in Created /\ Slot(Scope[Maker(r)]) = c
    BY <2>1 DEF IInv, SlotsOK
  <2>3. Scope[Maker(r)] = c
    BY <2>1, <2>2 DEF Slot
  <2>4. made[r].facts \subseteq VisibleTo(c)
    BY <2>2, <2>3 DEF IInv, RunsOK
  <2> QED BY <2>1, <2>4 DEF VisibleTo, Sees
<1> QED BY <1>1, Invariance, PTL
-----------------------------------------------------------------------------
(* Types, and why triggers are parked. *)

\* An insight that j's company can see has been stored.
Reason(j) == \E r \in stored : Sees(Scope[j], Slot(Scope[Maker(r)]))

\* What a row shows was stored, and every attempt that failed had its reason.
RowsStored == \A c \in Slots : row[c] # NoRow => row[c].from \in stored

AttemptsOK == \A j \in Triggers : /\ Trying(j) => attempts[j] < MaxAttempts
                                  /\ pc[j] = "parked" => attempts[j] = MaxAttempts
                                  /\ attempts[j] <= hits[j] + unbuilt[j] \/ Reason(j)

FullInv == IInv /\ TypeOK /\ RowsStored /\ AttemptsOK

\* Failures are not forgotten, and no job is struck more often than there were any.
HitsGrow == /\ faults' \in 0 .. MaxFaults
            /\ hits' \in [Jobs -> 0 .. faults']
            /\ \A k \in Jobs : hits[k] \in Nat /\ hits'[k] \in Nat /\ hits[k] <= hits'[k]

LEMMA Unstruck == TypeOK /\ UNCHANGED failures => HitsGrow
BY DEF TypeOK, failures, HitsGrow

LEMMA StruckGrows ==
  ASSUME TypeOK, NEW jobs, Struck(jobs)
  PROVE  /\ HitsGrow
         /\ \A k \in Jobs \cap jobs : hits'[k] = hits[k] + 1
         /\ \A k \in Jobs \ jobs : hits'[k] = hits[k]
<1>1. /\ faults \in 0 .. MaxFaults /\ faults < MaxFaults /\ faults' = faults + 1
      /\ hits \in [Jobs -> 0 .. faults]
      /\ hits' = [k \in Jobs |-> IF k \in jobs THEN hits[k] + 1 ELSE hits[k]]
  BY DEF Struck, TypeOK
<1>2. faults \in Nat /\ faults' \in 0 .. MaxFaults /\ \A k \in Jobs : hits[k] \in 0 .. faults
  BY <1>1
<1>3. ASSUME NEW k \in Jobs
      PROVE  /\ hits[k] \in Nat /\ hits'[k] \in 0 .. faults'
             /\ k \in jobs => hits'[k] = hits[k] + 1
             /\ k \notin jobs => hits'[k] = hits[k]
  BY <1>1, <1>2
<1>4. hits' \in [Jobs -> 0 .. faults']
  BY <1>1, <1>3
<1> QED BY <1>2, <1>3, <1>4 DEF HitsGrow

\* Who has had a reason keeps it: stores are forever.
LEMMA ReasonStays ==
  ASSUME stored \subseteq stored', NEW j \in Jobs, Reason(j)
  PROVE  Reason(j)'
BY DEF Reason, Sees, Slot

\* An insight that exists for j is its reason.
LEMMA ExistsIsReason ==
  ASSUME IInv, TypeOK, RowsStored, NEW j \in Jobs, Exists(Scope[j])
  PROVE  Reason(j)
<1>1. PICK c \in Slots : Sees(Scope[j], c) /\ row[c] # NoRow
  BY DEF Exists
<1>2. row[c].from \in stored
  BY <1>1 DEF RowsStored
<1>3. row[c].from # NoRun
  BY <1>2, Makers DEF TypeOK, Created
<1>4. Slot(Scope[Maker(row[c].from)]) = c
  BY <1>3 DEF IInv, SlotsOK
<1> QED BY <1>1, <1>2, <1>4 DEF Reason

\* The job's failures grow with its attempts, or it has a reason.
Accounted(j) == \/ hits'[j] + unbuilt'[j] >= hits[j] + unbuilt[j] + 1
                \/ hits'[j] + unbuilt'[j] >= hits[j] + unbuilt[j] /\ Reason(j)

\* The parts about jobs, when j's attempt fails by a failure, by its data or for a reason.
LEMMA FailKeepsJobs ==
  ASSUME TypeOK, AttemptsOK, NEW j \in Jobs, Trying(j), Fail(j), stored \subseteq stored', HitsGrow,
         unbuilt' \in [Jobs -> Nat], \A k \in Jobs \ {j} : unbuilt'[k] = unbuilt[k],
         Accounted(j)
  PROVE  /\ pc' \in [Jobs -> Places]
         /\ attempts' \in [Jobs -> 0 .. MaxAttempts]
         /\ run' = run
         /\ AttemptsOK'
<1>1. \A k \in Jobs : /\ hits[k] \in Nat /\ hits'[k] \in Nat /\ hits[k] <= hits'[k]
                      /\ unbuilt[k] \in Nat /\ unbuilt'[k] \in Nat
  BY DEF TypeOK, HitsGrow
<1>2. \A k \in Jobs : Reason(k) => Reason(k)'
  BY ReasonStays
<1>3. PICK where \in {"failed", "parked", "check"} : pc' = [pc EXCEPT ![j] = where]
  BY DEF Fail, Goto
<1>4. /\ pc' \in [Jobs -> Places] /\ pc'[j] = where
      /\ \A k \in Jobs \ {j} : pc'[k] = pc[k]
  BY <1>3 DEF TypeOK, Places
<1>5. CASE j \in Tasks
  <2>1. attempts' = attempts /\ run' = run /\ j \notin Triggers
    BY <1>5 DEF Fail
  <2>2. attempts' \in [Jobs -> 0 .. MaxAttempts] /\ \A k \in Triggers : attempts[k] \in Nat
    BY <2>1 DEF TypeOK, Jobs
  <2>3. \A k \in Triggers : pc'[k] = pc[k] /\ unbuilt'[k] = unbuilt[k]
    BY <1>4, <2>1 DEF Jobs
  <2>4. \A k \in Triggers : attempts[k] <= hits'[k] + unbuilt'[k] \/ Reason(k)'
    BY <1>1, <1>2, <2>2, <2>3 DEF AttemptsOK, Jobs
  <2>5. AttemptsOK'
    BY <2>1, <2>3, <2>4 DEF AttemptsOK, Trying
  <2> QED BY <1>4, <2>1, <2>2, <2>5
<1>6. CASE j \notin Tasks
  <2>1. /\ j \in Triggers
        /\ attempts' = [attempts EXCEPT ![j] = @ + 1]
        /\ pc'[j] = IF attempts[j] + 1 = MaxAttempts THEN "parked" ELSE "check"
        /\ run' = run
    BY <1>6 DEF Fail, Goto, TypeOK, Jobs
  <2>2. attempts[j] \in Nat /\ attempts[j] < MaxAttempts
    BY <2>1 DEF TypeOK, AttemptsOK
  <2>3. /\ attempts' \in [Jobs -> 0 .. MaxAttempts]
        /\ attempts'[j] = attempts[j] + 1
        /\ \A k \in Jobs \ {j} : attempts'[k] = attempts[k]
    BY <2>1, <2>2 DEF TypeOK
  <2>4. ASSUME NEW k \in Triggers
        PROVE  /\ Trying(k)' => attempts'[k] < MaxAttempts
               /\ pc'[k] = "parked" => attempts'[k] = MaxAttempts
               /\ attempts'[k] <= hits'[k] + unbuilt'[k] \/ Reason(k)'
    <3>1. CASE k = j
      <4>1. attempts[j] <= hits[j] + unbuilt[j] \/ Reason(j)
        BY <2>1 DEF AttemptsOK
      <4>2. attempts[j] + 1 <= hits'[j] + unbuilt'[j] \/ Reason(j)
        BY <1>1, <2>2, <4>1 DEF Accounted
      <4> QED BY <1>2, <2>1, <2>2, <2>3, <3>1, <4>2 DEF Trying, Jobs
    <3>2. CASE k # j
      <4>1. /\ attempts'[k] = attempts[k] /\ pc'[k] = pc[k] /\ attempts[k] \in Nat
            /\ unbuilt'[k] = unbuilt[k] /\ k \in Jobs
        BY <1>4, <2>3, <3>2 DEF TypeOK, Jobs
      <4>2. attempts[k] <= hits'[k] + unbuilt'[k] \/ Reason(k)'
        BY <1>1, <1>2, <4>1 DEF AttemptsOK
      <4> QED BY <4>1, <4>2 DEF AttemptsOK, Trying
    <3> QED BY <3>1, <3>2
  <2> QED BY <1>4, <2>1, <2>3, <2>4 DEF AttemptsOK
<1> QED BY <1>5, <1>6

\* The same when jobs go somewhere without a failed attempt: a delivery begins
\* to count again, and who does not run need not count.
LEMMA MoveKeepsJobs ==
  ASSUME TypeOK, AttemptsOK, stored \subseteq stored', HitsGrow, pc' \in [Jobs -> Places],
         \A k \in Jobs : \/ attempts'[k] = attempts[k] /\ unbuilt'[k] = unbuilt[k]
                         \/ attempts'[k] = 0 /\ unbuilt'[k] = 0,
         \A k \in Triggers : Trying(k)' => (Trying(k) /\ attempts'[k] = attempts[k]) \/ attempts'[k] = 0,
         \A k \in Triggers : pc'[k] = "parked" => pc[k] = "parked" /\ attempts'[k] = attempts[k]
  PROVE  AttemptsOK'
<1>1. \A k \in Triggers : /\ k \in Jobs /\ hits[k] \in Nat /\ hits'[k] \in Nat /\ hits[k] <= hits'[k]
                          /\ unbuilt[k] \in Nat /\ attempts[k] \in Nat
  BY DEF TypeOK, HitsGrow, Jobs
<1>2. \A k \in Jobs : Reason(k) => Reason(k)'
  BY ReasonStays
<1>3. ASSUME NEW k \in Triggers PROVE attempts'[k] <= hits'[k] + unbuilt'[k] \/ Reason(k)'
  <2>1. attempts[k] <= hits[k] + unbuilt[k] \/ Reason(k)
    BY DEF AttemptsOK
  <2> QED BY <1>1, <1>2, <2>1
<1>4. \A k \in Triggers : Trying(k)' => attempts'[k] < MaxAttempts
  BY DEF AttemptsOK
<1>5. \A k \in Triggers : pc'[k] = "parked" => attempts'[k] = MaxAttempts
  BY DEF AttemptsOK
<1> QED BY <1>3, <1>4, <1>5 DEF AttemptsOK

\* Steps that touch no job.
LEMMA SameJobs ==
  ASSUME TypeOK, AttemptsOK, UNCHANGED job, stored \subseteq stored', HitsGrow
  PROVE  AttemptsOK'
BY MoveKeepsJobs DEF TypeOK, job, Places, Trying

\* A job's attempt fails, and no data changes.
LEMMA FailTypes ==
  ASSUME FullInv, message' = message, NEW j \in Jobs,
         \/ CheckFound(j) \/ ReadError(j) \/ Undatable(j) \/ Unbuildable(j)
         \/ GatherPartly(j) /\ Fail(j) /\ UNCHANGED <<unbuilt, made, pending>>
  PROVE  TypeOK' /\ RowsStored' /\ AttemptsOK'
<1> USE DEF FullInv
<1>1. /\ made' = made /\ pending' = pending /\ row' = row /\ stored' = stored
      /\ cached' = cached /\ outbox' = outbox
      /\ Trying(j) /\ Fail(j)
  BY DEF CheckFound, ReadError, Undatable, Unbuildable, FailByData, GatherPartly, database, Trying
<1>2. Created' = Created
  BY <1>1, SameMade
<1>3. \A k \in Jobs : hits[k] \in Nat /\ unbuilt[k] \in Nat
  BY DEF TypeOK
<1>4. /\ HitsGrow /\ Accounted(j)
      /\ unbuilt' \in [Jobs -> Nat] /\ \A k \in Jobs \ {j} : unbuilt'[k] = unbuilt[k]
  <2>1. CASE CheckFound(j)
    <3>1. HitsGrow /\ hits' = hits /\ unbuilt' = unbuilt /\ Reason(j)
      BY <2>1, Unstruck, ExistsIsReason DEF CheckFound, failures
    <3> QED BY <1>3, <3>1 DEF Accounted, TypeOK
  <2>2. CASE ReadError(j) \/ (GatherPartly(j) /\ UNCHANGED unbuilt)
    <3>1. Struck({j}) /\ unbuilt' = unbuilt
      BY <2>2 DEF ReadError, GatherPartly
    <3>2. HitsGrow /\ hits'[j] = hits[j] + 1
      BY <3>1, StruckGrows
    <3> QED BY <1>3, <3>1, <3>2 DEF Accounted, TypeOK
  <2>3. CASE Undatable(j) \/ Unbuildable(j)
    <3>1. unbuilt' = [unbuilt EXCEPT ![j] = @ + 1] /\ UNCHANGED failures
      BY <2>3 DEF Undatable, Unbuildable, FailByData
    <3>2. HitsGrow /\ hits' = hits
      BY <3>1, Unstruck DEF failures
    <3>3. /\ unbuilt'[j] = unbuilt[j] + 1 /\ unbuilt' \in [Jobs -> Nat]
          /\ \A k \in Jobs \ {j} : unbuilt'[k] = unbuilt[k]
      BY <1>3, <3>1 DEF TypeOK
    <3> QED BY <1>3, <3>2, <3>3 DEF Accounted
  <2> QED BY <2>1, <2>2, <2>3
<1>5. /\ pc' \in [Jobs -> Places] /\ attempts' \in [Jobs -> 0 .. MaxAttempts]
      /\ run' = run /\ AttemptsOK'
  BY <1>1, <1>4, FailKeepsJobs
<1>6. RowsStored'
  BY <1>1 DEF RowsStored
<1>7. TypeOK'
  BY <1>1, <1>2, <1>4, <1>5 DEF TypeOK, Places, HitsGrow
<1> QED BY <1>5, <1>6, <1>7

\* A job goes on, and no data changes.
LEMMA EarlyTypes ==
  ASSUME FullInv, message' = message, NEW j \in Jobs,
         \/ Request(j) \/ Refuse(j) \/ Skip(j) \/ Deliver(j) \/ CheckAbsent(j)
         \/ ReadContext(j) \/ Finish(j)
  PROVE  TypeOK' /\ RowsStored' /\ AttemptsOK'
<1> USE DEF FullInv
<1>1. /\ run' = run /\ made' = made /\ pending' = pending /\ row' = row /\ stored' = stored
      /\ cached' = cached /\ outbox' = outbox /\ UNCHANGED failures
  BY DEF Request, Refuse, Skip, Deliver, CheckAbsent, ReadContext, Finish, database
<1>2. Created' = Created /\ HitsGrow
  BY <1>1, SameMade, Unstruck
<1>3. PICK where \in {"check", "refused", "context", "gather", "skipped", "done"} :
         pc' = [pc EXCEPT ![j] = where]
  BY DEF Request, Refuse, Skip, Deliver, CheckAbsent, ReadContext, Finish, Goto
<1>4. /\ pc' \in [Jobs -> Places] /\ pc'[j] = where
      /\ \A k \in Jobs \ {j} : pc'[k] = pc[k]
  BY <1>3 DEF TypeOK, Places
<1>5. \/ /\ attempts' = attempts /\ unbuilt' = unbuilt
         /\ j \in Tasks \/ Trying(j) \/ ~Trying(j)'
      \/ /\ attempts' = [attempts EXCEPT ![j] = 0]
         /\ unbuilt' = [unbuilt EXCEPT ![j] = 0]
  <2>1. CASE Deliver(j)
    BY <2>1 DEF Deliver
  <2>2. CASE Request(j) \/ Refuse(j)
    BY <2>2 DEF Request, Refuse
  <2>3. CASE CheckAbsent(j) \/ ReadContext(j) \/ Finish(j)
    BY <2>3 DEF CheckAbsent, ReadContext, Finish, Trying
  <2>4. CASE Skip(j)
    BY <2>4 DEF Skip, Goto, Trying, TypeOK
  <2> QED BY <2>1, <2>2, <2>3, <2>4
<1>6. /\ attempts' \in [Jobs -> 0 .. MaxAttempts] /\ unbuilt' \in [Jobs -> Nat]
      /\ \A k \in Jobs \ {j} : attempts'[k] = attempts[k] /\ unbuilt'[k] = unbuilt[k]
      /\ \/ attempts'[j] = attempts[j] /\ unbuilt'[j] = unbuilt[j]
         \/ attempts'[j] = 0 /\ unbuilt'[j] = 0
  BY <1>5 DEF TypeOK
<1>7. AttemptsOK'
  <2>1. \A k \in Triggers :
           Trying(k)' => (Trying(k) /\ attempts'[k] = attempts[k]) \/ attempts'[k] = 0
    <3>1. \A k \in Triggers \ {j} : k \in Jobs \ {j} /\ (Trying(k)' <=> Trying(k))
      BY <1>4 DEF Trying, Jobs
    <3>2. j \in Triggers => j \notin Tasks
      OBVIOUS
    <3> QED BY <1>5, <1>6, <3>1, <3>2 DEF TypeOK
  <2>2. \A k \in Triggers : pc'[k] = "parked" => pc[k] = "parked" /\ attempts'[k] = attempts[k]
    BY <1>4, <1>6 DEF Jobs
  <2> QED BY <1>1, <1>2, <1>4, <1>6, <2>1, <2>2, MoveKeepsJobs
<1>8. RowsStored'
  BY <1>1 DEF RowsStored
<1>9. TypeOK'
  BY <1>1, <1>2, <1>4, <1>6 DEF TypeOK, Places, HitsGrow
<1> QED BY <1>7, <1>8, <1>9

LEMMA CreateTypes ==
  ASSUME FullInv, message' = message, NEW j \in Jobs, NEW facts \in SUBSET VisibleTo(Scope[j]), pc[j] = "gather",
         Create(j, facts), UNCHANGED <<database, cached, outbox>>, HitsGrow
  PROVE  TypeOK' /\ RowsStored' /\ AttemptsOK'
<1> USE DEF FullInv
<1>1. PICK r \in Runs \ Created :
         /\ Maker(r) = j
         /\ run' = [run EXCEPT ![j] = r]
         /\ made' = [made EXCEPT ![r] = [facts |-> facts, context |-> AccountOwner]]
         /\ \E writes \in {Writes, Writes \ {"notify"}} : pending' = pending \cup ({r} \X writes)
  BY CreatesRun
<1>2. /\ pc' = [pc EXCEPT ![j] = "write"] /\ attempts' = attempts /\ unbuilt' = unbuilt
      /\ row' = row /\ stored' = stored /\ cached' = cached /\ outbox' = outbox
  BY DEF Create, Goto, database
<1>3. [facts |-> facts, context |-> AccountOwner] \in Insights
  BY DEF Insights, VisibleTo
<1>4. /\ made' \in [Runs -> Insights \cup {Unmade}]
      /\ made'[r] \in Insights
      /\ \A q \in Runs \ {r} : made'[q] = made[q]
  BY <1>1, <1>3 DEF TypeOK, Insights
<1>5. Created' = Created \cup {r}
  BY <1>1, <1>4, UnmadeIsNoInsight DEF Created
<1>6. pc' \in [Jobs -> Places] /\ AttemptsOK'
  <2>1. /\ pc' \in [Jobs -> Places] /\ pc'[j] = "write" /\ Trying(j)
        /\ \A k \in Jobs \ {j} : pc'[k] = pc[k]
    BY <1>2 DEF TypeOK, Places, Trying
  <2>2. \A k \in Triggers : /\ Trying(k)' => Trying(k)
                            /\ pc'[k] = "parked" => pc[k] = "parked"
    BY <2>1 DEF Trying, Jobs
  <2> QED BY <1>2, <2>1, <2>2, MoveKeepsJobs
<1>7. run' \in [Jobs -> {NoRun} \cup Created']
  BY <1>1, <1>5 DEF TypeOK
<1>8. pending' \subseteq Created' \X Writes
  BY <1>1, <1>5 DEF TypeOK, Writes
<1>9. /\ row' \in [Slots -> [id : Created', from : Created'] \cup {NoRow}]
      /\ cached' \in [Slots -> {NoRun} \cup Created']
      /\ stored' \subseteq Created'
      /\ outbox' \subseteq Created' \X {"publish", "notify"}
  BY <1>2, <1>5 DEF TypeOK
<1>10. TypeOK'
  BY <1>2, <1>4, <1>6, <1>7, <1>8, <1>9 DEF TypeOK, Places, Insights, HitsGrow
<1>11. RowsStored'
  BY <1>2 DEF RowsStored
<1> QED BY <1>6, <1>10, <1>11

LEMMA GatherTypes ==
  ASSUME FullInv, message' = message, NEW j \in Jobs, Gather(j) \/ GatherPartly(j)
  PROVE  TypeOK' /\ RowsStored' /\ AttemptsOK'
<1>1. pc[j] = "gather" /\ UNCHANGED <<database, cached, outbox>> /\ HitsGrow
  BY Unstruck, StruckGrows DEF FullInv, Gather, GatherPartly
<1>2. CASE \E facts \in SUBSET VisibleTo(Scope[j]) : Create(j, facts)
  BY <1>1, <1>2, CreateTypes
<1>3. CASE GatherPartly(j) /\ Fail(j) /\ UNCHANGED <<unbuilt, made, pending>>
  BY <1>3, FailTypes
<1> QED BY <1>2, <1>3 DEF Gather, GatherPartly, VisibleTo

LEMMA UpsertTypes ==
  ASSUME FullInv, NEW r \in Created, made' = made, Upsert(r)
  PROVE  /\ row' \in [Slots -> [id : Created', from : Created'] \cup {NoRow}]
         /\ stored' \subseteq Created' /\ stored \subseteq stored'
         /\ RowsStored'
<1> DEFINE c == Slot(Scope[Maker(r)])
<1>1. /\ row' = [row EXCEPT ![c] = [id |-> IF row[c] = NoRow THEN r ELSE row[c].id, from |-> r]]
      /\ stored' = stored \cup {r} /\ Created' = Created
  BY SameMade DEF Upsert
<1> HIDE DEF c
<1>2. row \in [Slots -> [id : Created, from : Created] \cup {NoRow}]
  BY DEF FullInv, TypeOK
<1>3. c \in Slots => [id |-> IF row[c] = NoRow THEN r ELSE row[c].id, from |-> r]
                       \in [id : Created, from : Created]
  BY <1>2
<1>4. row' \in [Slots -> [id : Created, from : Created] \cup {NoRow}]
  BY <1>1, <1>2, <1>3
<1>5. RowsStored'
  BY <1>1, <1>2 DEF FullInv, RowsStored
<1> QED BY <1>1, <1>4, <1>5 DEF FullInv, TypeOK

LEMMA WriteTypes ==
  ASSUME FullInv, message' = message, NEW r \in Runs, Write(r) \/ \E w \in Writes : WriteError(r, w)
  PROVE  TypeOK' /\ RowsStored' /\ AttemptsOK'
<1> USE DEF FullInv
<1>1. UNCHANGED job /\ pending' \subseteq pending /\ Created' = Created /\ HitsGrow
  <2>1. UNCHANGED job /\ pending' \subseteq pending
    BY DEF Write, Store, Cache, Enqueue, WriteError, Begun
  <2>2. Created' = Created
    BY <2>1, SameMade DEF job
  <2>3. HitsGrow
    BY Unstruck, StruckGrows DEF Write, Store, Cache, Enqueue, WriteError
  <2> QED BY <2>1, <2>2, <2>3
<1>2. r \in Created
  BY DEF TypeOK, Write, Store, Cache, Enqueue, WriteError, Begun
<1>3. /\ row' \in [Slots -> [id : Created, from : Created] \cup {NoRow}]
      /\ stored' \subseteq Created /\ stored \subseteq stored'
      /\ RowsStored'
  <2>1. CASE Store(r)
    BY <1>1, <1>2, <2>1, UpsertTypes DEF Store, job
  <2>2. CASE Cache(r) \/ \E w \in Writes : Enqueue(r, w) \/ WriteError(r, w)
    <3>1. row' = row /\ stored' = stored
      BY <2>2 DEF Cache, Enqueue, WriteError, database
    <3> QED BY <3>1 DEF TypeOK, RowsStored
  <2> QED BY <2>1, <2>2 DEF Write
<1>4. cached' \in [Slots -> {NoRun} \cup Created]
  BY <1>2 DEF TypeOK, Write, Store, Cache, Enqueue, WriteError
<1>5. outbox' \subseteq Created \X {"publish", "notify"}
  BY <1>2 DEF TypeOK, Write, Store, Cache, Enqueue, WriteError
<1>6. TypeOK'
  BY <1>1, <1>3, <1>4, <1>5 DEF TypeOK, job, HitsGrow
<1>7. AttemptsOK'
  BY <1>1, <1>3, SameJobs
<1> QED BY <1>3, <1>6, <1>7

LEMMA StoreErrorTypes ==
  ASSUME FullInv, message' = message, NEW r \in Runs, StoreError(r)
  PROVE  TypeOK' /\ RowsStored' /\ AttemptsOK'
<1> USE DEF FullInv
<1> DEFINE j == Maker(r)
<1>1. /\ <<r, "store">> \in pending /\ pending' \subseteq pending
      /\ Upsert(r) \/ UNCHANGED <<row, stored>>
      /\ Fail(j) /\ made' = made /\ cached' = cached /\ outbox' = outbox /\ unbuilt' = unbuilt
      /\ Struck({j})
  BY DEF StoreError, Begun, database
<1>2. r \in Created /\ Created' = Created /\ j \in Jobs
  BY <1>1, SameMade, Makers DEF IInv, WritesOK, Created
<1>3. Trying(j)
  BY <1>1, <1>2 DEF IInv, WritesOK, Trying
<1>4. /\ row' \in [Slots -> [id : Created, from : Created] \cup {NoRow}]
      /\ stored' \subseteq Created /\ stored \subseteq stored'
      /\ RowsStored'
  <2>1. CASE Upsert(r)
    BY <1>1, <1>2, <2>1, UpsertTypes
  <2>2. CASE UNCHANGED <<row, stored>>
    BY <2>2 DEF TypeOK, RowsStored
  <2> QED BY <1>1, <2>1, <2>2
<1>5. HitsGrow /\ Accounted(j)
  <2>1. HitsGrow /\ hits'[j] = hits[j] + 1
    BY <1>1, <1>2, StruckGrows
  <2>2. hits[j] \in Nat /\ unbuilt[j] \in Nat
    BY <1>2 DEF TypeOK
  <2> QED BY <1>1, <2>1, <2>2 DEF Accounted
<1>6. /\ pc' \in [Jobs -> Places] /\ attempts' \in [Jobs -> 0 .. MaxAttempts]
      /\ run' = run /\ AttemptsOK'
  <2>1. unbuilt' \in [Jobs -> Nat]
    BY <1>1 DEF TypeOK
  <2> QED BY <1>1, <1>2, <1>3, <1>4, <1>5, <2>1, FailKeepsJobs
<1>7. TypeOK'
  BY <1>1, <1>2, <1>4, <1>5, <1>6 DEF TypeOK, Places, HitsGrow
<1> QED BY <1>4, <1>6, <1>7

LEMMA BackTypes ==
  ASSUME FullInv, message' = message, NEW jobs \in SUBSET Jobs, Crash(jobs) \/ Redeliver(jobs)
  PROVE  TypeOK' /\ RowsStored' /\ AttemptsOK'
<1> USE DEF FullInv
<1>1. /\ pending' \subseteq pending /\ attempts' = attempts /\ unbuilt' = unbuilt
      /\ run' = run /\ made' = made
      /\ row' = row /\ stored' = stored /\ cached' = cached /\ outbox' = outbox
      /\ Struck(jobs)
  BY DEF Crash, Redeliver, database
<1>2. Created' = Created /\ HitsGrow
  BY <1>1, SameMade, StruckGrows
<1>3. /\ pc' \in [Jobs -> Places]
      /\ \A k \in Jobs : pc'[k] = pc[k] \/ pc'[k] \in {"idle", "lost"}
  BY DEF Crash, Redeliver, TypeOK, Places
<1>4. AttemptsOK'
  <2>1. \A k \in Triggers : /\ Trying(k)' => Trying(k)
                            /\ pc'[k] = "parked" => pc[k] = "parked"
    BY <1>3 DEF Trying, Jobs
  <2> QED BY <1>1, <1>2, <1>3, <2>1, MoveKeepsJobs
<1>5. TypeOK'
  BY <1>1, <1>2, <1>3 DEF TypeOK, Places, HitsGrow
<1>6. RowsStored'
  BY <1>1 DEF RowsStored
<1> QED BY <1>4, <1>5, <1>6

LEMMA DeleteTypes ==
  ASSUME FullInv, message' = message, DeleteInsights \/ UNCHANGED vars
  PROVE  TypeOK' /\ RowsStored' /\ AttemptsOK'
<1> USE DEF FullInv
<1>1. /\ row' = row \/ row' = [c \in Slots |-> NoRow]
      /\ UNCHANGED job /\ pending' = pending /\ stored' = stored /\ cached' = cached
      /\ outbox' = outbox /\ UNCHANGED failures
  BY DEF DeleteInsights, vars, database
<1>2. Created' = Created /\ HitsGrow
  BY <1>1, SameMade, Unstruck DEF job
<1>3. TypeOK'
  BY <1>1, <1>2 DEF TypeOK, job, failures
<1>4. RowsStored'
  BY <1>1 DEF RowsStored
<1>5. AttemptsOK'
  BY <1>1, <1>2, SameJobs
<1> QED BY <1>3, <1>4, <1>5

LEMMA InitTypes == Init => TypeOK /\ RowsStored /\ AttemptsOK
<1> SUFFICES ASSUME Init PROVE TypeOK /\ RowsStored /\ AttemptsOK
  OBVIOUS
<1>1. TypeOK
  BY DEF Init, TypeOK, Places
<1>2. RowsStored
  BY DEF Init, RowsStored
<1>3. AttemptsOK
  BY DEF Init, AttemptsOK, Trying, Jobs
<1> QED BY <1>1, <1>2, <1>3

\* Together with the invariant: types hold, what a row shows was stored, and no
\* trigger has more failed attempts than failures and its data account for,
\* unless it has a reason.
THEOREM FullInvariance == SafeSpec => []FullInv
<1>1. Init => FullInv
  BY InitStep, InitTypes DEF FullInv
<1>2. ASSUME FullInv, [Next]_vars PROVE FullInv'
  <2>1. IInv'
    BY <1>2, NextStep DEF FullInv
  <2>2. TypeOK' /\ RowsStored' /\ AttemptsOK'
    <3>1. message' = message /\ (Step \/ UNCHANGED vars)
      BY <1>2 DEF Next, vars
    <3>2. CASE \E j \in Jobs : Call(j) \/ ReadError(j) \/ GatherPartly(j)
      BY <1>2, <3>1, <3>2, FailTypes, EarlyTypes, GatherTypes DEF Call
    <3>3. CASE \E r \in Runs : Write(r) \/ StoreError(r) \/ \E w \in Writes : WriteError(r, w)
      BY <1>2, <3>1, <3>3, WriteTypes, StoreErrorTypes
    <3>4. CASE \E jobs \in SUBSET Jobs : Crash(jobs) \/ Redeliver(jobs)
      BY <1>2, <3>1, <3>4, BackTypes
    <3> QED BY <1>2, <3>1, <3>2, <3>3, <3>4, DeleteTypes DEF Step
  <2> QED BY <2>1, <2>2 DEF FullInv
<1> QED BY <1>1, <1>2, PTL DEF SafeSpec

\* Jobs stand at steps of the handlers, attempts stay within max_attempts,
\* nothing is written, stored, cached or queued of a run that was not made, and
\* no job is struck by more failures than there were.
THEOREM TypeCorrect == SafeSpec => []TypeOK
<1>1. FullInv => TypeOK
  BY DEF FullInv
<1> QED BY <1>1, FullInvariance, PTL

\* A trigger goes to the dead-letter topic only for a reason, for any number of
\* jobs, attempts and failures: as many failures and attempts at impossible data
\* as attempts, or an insight that its company can see was stored.
THEOREM ParkedRightly == SafeSpec => []ParkedForAReason
<1>1. FullInv => ParkedForAReason
  <2> SUFFICES ASSUME FullInv, NEW j \in Triggers, pc[j] = "parked"
               PROVE  hits[j] + unbuilt[j] >= MaxAttempts \/ Reason(j)
    BY DEF ParkedForAReason, Reason
  <2>1. attempts[j] = MaxAttempts /\ (attempts[j] <= hits[j] + unbuilt[j] \/ Reason(j))
    BY DEF FullInv, AttemptsOK
  <2>2. hits[j] \in Nat /\ unbuilt[j] \in Nat
    BY DEF FullInv, TypeOK, Jobs
  <2> QED BY <2>1, <2>2
<1> QED BY <1>1, FullInvariance, PTL

-----------------------------------------------------------------------------
(* The row and the event of a run. *)

Waited(r) == pc[Maker(r)] = "write" /\ run[Maker(r)] = r

\* One of the two writes ended without its effect.
Missing(r) == \/ <<r, "store">> \notin pending /\ r \notin stored
              \/ <<r, "publish">> \notin pending /\ <<r, "publish">> \notin outbox

\* Its job has given the run up, and its event is still under way.
Orphaned(r) == <<r, "publish">> \in pending /\ ~Waited(r)

\* The runs of j that a failure has been spent on.
Charged(j) == {r \in Created : Maker(r) = j /\ (Missing(r) \/ Orphaned(r))}

ChargedOK == \A j \in Jobs : Cardinality(Charged(j)) <= hits[j]

LEMMA ChargedFinite ==
  ASSUME NEW j \in Jobs
  PROVE  IsFiniteSet(Charged(j)) /\ Cardinality(Charged(j)) \in Nat
<1>1. IsFiniteSet(1 .. MaxFaults + 1)
  BY FS_Interval
<1>2. IsFiniteSet(Runs)
  BY <1>1, FS_Product DEF Runs
<1>3. Charged(j) \subseteq Runs
  BY DEF Charged, Created
<1> QED BY <1>2, <1>3, FS_Subset, FS_CardinalityType

\* A job is charged no run, or a failure strikes it and it is charged one.
LEMMA Charging ==
  ASSUME ChargedOK, HitsGrow, NEW j \in Jobs,
         \/ Charged(j)' \subseteq Charged(j)
         \/ \E r : Charged(j)' \subseteq Charged(j) \cup {r} /\ hits'[j] = hits[j] + 1
  PROVE  (Cardinality(Charged(j)) <= hits[j])'
<1>1. /\ hits[j] \in Nat /\ hits'[j] \in Nat /\ hits[j] <= hits'[j]
      /\ Cardinality(Charged(j)) <= hits[j]
  BY DEF HitsGrow, ChargedOK
<1>2. IsFiniteSet(Charged(j)) /\ Cardinality(Charged(j)) \in Nat
  BY ChargedFinite
<1>3. CASE Charged(j)' \subseteq Charged(j)
  <2>1. Cardinality(Charged(j)') <= Cardinality(Charged(j))
    BY <1>2, <1>3, FS_Subset
  <2>2. Cardinality(Charged(j)') \in Nat
    BY <1>2, <1>3, FS_Subset, FS_CardinalityType
  <2> QED BY <1>1, <1>2, <2>1, <2>2
<1>4. ASSUME NEW r, Charged(j)' \subseteq Charged(j) \cup {r}, hits'[j] = hits[j] + 1
      PROVE  (Cardinality(Charged(j)) <= hits[j])'
  <2>1. /\ IsFiniteSet(Charged(j) \cup {r})
        /\ Cardinality(Charged(j) \cup {r}) \in {Cardinality(Charged(j)), Cardinality(Charged(j)) + 1}
    BY <1>2, FS_AddElement
  <2>2. /\ Cardinality(Charged(j)') <= Cardinality(Charged(j) \cup {r})
        /\ Cardinality(Charged(j)') \in Nat
    BY <1>4, <2>1, FS_Subset, FS_CardinalityType
  <2> QED BY <1>1, <1>2, <1>4, <2>1, <2>2
<1> QED BY <1>3, <1>4

\* Nobody is charged while no write ends and who is waited for stays so.
LEMMA CalmCharges ==
  ASSUME ChargedOK, HitsGrow, made' = made, pending' = pending, stored' = stored, outbox' = outbox,
         \A q \in Created : <<q, "publish">> \in pending /\ Waited(q) => Waited(q)'
  PROVE  ChargedOK'
<1>1. \A j \in Jobs : Charged(j)' \subseteq Charged(j)
  BY SameMade DEF Charged, Missing, Orphaned
<1> QED BY <1>1, Charging DEF ChargedOK

\* A job that is not writing is waited for in no run.
LEMMA EarlyCharges ==
  ASSUME FullInv, ChargedOK, NEW j \in Jobs,
         \/ Request(j) \/ Refuse(j) \/ Skip(j) \/ Deliver(j) \/ Undatable(j)
         \/ CheckAbsent(j) \/ CheckFound(j) \/ ReadContext(j) \/ Unbuildable(j) \/ ReadError(j)
         \/ GatherPartly(j) /\ Fail(j) /\ UNCHANGED <<unbuilt, made, pending>>
  PROVE  ChargedOK'
<1>1. /\ pc[j] # "write" /\ run' = run /\ made' = made /\ pending' = pending
      /\ stored' = stored /\ outbox' = outbox
      /\ UNCHANGED failures \/ Struck({j})
  BY DEF Request, Refuse, Skip, Deliver, Undatable, CheckAbsent, CheckFound, ReadContext,
         Unbuildable, ReadError, FailByData, GatherPartly, Fail, database
<1>2. \E where : pc' = [pc EXCEPT ![j] = where]
  BY DEF Request, Refuse, Skip, Deliver, Undatable, CheckAbsent, CheckFound, ReadContext,
         Unbuildable, ReadError, FailByData, GatherPartly, Fail, Goto
<1>3. \A k \in Jobs \ {j} : pc'[k] = pc[k]
  BY <1>2 DEF FullInv, IInv, JobsOK
<1>4. \A q \in Created : Waited(q) => Waited(q)'
  BY <1>1, <1>3, Makers DEF Waited, Created
<1>5. HitsGrow
  BY <1>1, Unstruck, StruckGrows DEF FullInv
<1> QED BY <1>1, <1>4, <1>5, CalmCharges

LEMMA CreateCharges ==
  ASSUME FullInv, ChargedOK, NEW j \in Jobs, NEW facts \in SUBSET VisibleTo(Scope[j]),
         pc[j] = "gather", Create(j, facts), stored' = stored, outbox' = outbox, HitsGrow
  PROVE  ChargedOK'
<1>1. PICK r \in Runs \ Created :
         /\ Maker(r) = j
         /\ run' = [run EXCEPT ![j] = r]
         /\ made' = [made EXCEPT ![r] = [facts |-> facts, context |-> AccountOwner]]
         /\ \E writes \in {Writes, Writes \ {"notify"}} : pending' = pending \cup ({r} \X writes)
  BY CreatesRun
<1>2. /\ \A q \in Runs \ {r} : made'[q] = made[q]
      /\ pc'[j] = "write" /\ run'[j] = r
      /\ \A k \in Jobs \ {j} : pc'[k] = pc[k] /\ run'[k] = run[k]
  BY <1>1 DEF FullInv, IInv, RunsOK, JobsOK, Create, Goto
<1>3. {<<r, "store">>, <<r, "publish">>} \subseteq pending'
  BY <1>1 DEF Writes
<1>4. ~Missing(r)' /\ ~Orphaned(r)'
  BY <1>1, <1>2, <1>3 DEF Missing, Orphaned, Waited
<1>5. ASSUME NEW k \in Jobs, NEW q \in Charged(k)' PROVE q \in Charged(k)
  <2>1. q # r /\ Maker(q) = k
    BY <1>4, <1>5 DEF Charged
  <2>2. q \in Created
    BY <1>2, <1>5, <2>1 DEF Charged, Created
  <2>3. \A w : <<q, w>> \in pending' <=> <<q, w>> \in pending
    BY <1>1, <2>1
  <2>4. Waited(q) => Waited(q)'
    BY <1>2, <1>5, <2>1 DEF Waited
  <2> QED BY <1>5, <2>1, <2>2, <2>3, <2>4 DEF Charged, Missing, Orphaned
<1> QED BY <1>5, Charging DEF ChargedOK

LEMMA GatherCharges ==
  ASSUME FullInv, ChargedOK, NEW j \in Jobs, Gather(j) \/ GatherPartly(j)
  PROVE  ChargedOK'
<1>1. pc[j] = "gather" /\ stored' = stored /\ outbox' = outbox /\ HitsGrow
  BY Unstruck, StruckGrows DEF FullInv, Gather, GatherPartly, database
<1>2. CASE \E facts \in SUBSET VisibleTo(Scope[j]) : Create(j, facts)
  BY <1>1, <1>2, CreateCharges
<1>3. CASE GatherPartly(j) /\ Fail(j) /\ UNCHANGED <<unbuilt, made, pending>>
  BY <1>3, EarlyCharges
<1> QED BY <1>2, <1>3 DEF Gather, GatherPartly, VisibleTo

\* The run whose writes are all over cannot be an orphan.
LEMMA FinishCharges == ASSUME FullInv, ChargedOK, NEW j \in Jobs, Finish(j) PROVE ChargedOK'
<1>1. /\ pc[j] = "write" /\ pc' = [pc EXCEPT ![j] = "done"] /\ run' = run /\ made' = made
      /\ pending' = pending /\ stored' = stored /\ outbox' = outbox /\ UNCHANGED failures
      /\ <<run[j], "publish">> \notin pending
  BY DEF Finish, Goto, Writes, database
<1>2. \A k \in Jobs \ {j} : pc'[k] = pc[k]
  BY <1>1 DEF FullInv, IInv, JobsOK
<1>3. \A q \in Created : <<q, "publish">> \in pending /\ Waited(q) => Waited(q)'
  BY <1>1, <1>2, Makers DEF Waited, Created
<1> QED BY <1>1, <1>3, CalmCharges, Unstruck DEF FullInv

LEMMA WriteCharges ==
  ASSUME FullInv, ChargedOK, NEW r \in Runs, Write(r) \/ \E w \in Writes : WriteError(r, w)
  PROVE  ChargedOK'
<1>1. pc' = pc /\ run' = run /\ made' = made
  BY DEF Write, Store, Cache, Enqueue, WriteError, job
<1>2. Created' = Created /\ (\A q : Waited(q)' <=> Waited(q)) /\ Maker(r) \in Jobs
  BY <1>1, SameMade, Makers DEF Waited
<1>3. HitsGrow
  BY Unstruck, StruckGrows DEF FullInv, Write, Store, Cache, Enqueue, WriteError
<1>4. CASE Store(r)
  <2>1. pending' = pending \ {<<r, "store">>} /\ stored' = stored \cup {r} /\ outbox' = outbox
    BY <1>4 DEF Store, Begun, Upsert
  <2>2. \A k \in Jobs : Charged(k)' \subseteq Charged(k)
    BY <1>2, <2>1 DEF Charged, Missing, Orphaned
  <2> QED BY <1>3, <2>2, Charging DEF ChargedOK
<1>5. CASE Cache(r)
  <2>1. pending' = pending \ {<<r, "cache">>} /\ stored' = stored /\ outbox' = outbox
    BY <1>5 DEF Cache, Begun, database
  <2>2. \A k \in Jobs : Charged(k)' \subseteq Charged(k)
    BY <1>2, <2>1 DEF Charged, Missing, Orphaned
  <2> QED BY <1>3, <2>2, Charging DEF ChargedOK
<1>6. ASSUME NEW w \in Writes, Enqueue(r, w) PROVE ChargedOK'
  <2>1. /\ pending' = pending \ {<<r, w>>} /\ stored' = stored /\ outbox' = outbox \cup {<<r, w>>}
        /\ w # "store"
    BY <1>6 DEF Enqueue, Begun, database
  <2>2. \A k \in Jobs : Charged(k)' \subseteq Charged(k)
    BY <1>2, <2>1 DEF Charged, Missing, Orphaned
  <2> QED BY <1>3, <2>2, Charging DEF ChargedOK
<1>7. ASSUME NEW w \in Writes, WriteError(r, w) PROVE ChargedOK'
  <2>1. /\ pending' = pending \ {<<r, w>>} /\ stored' = stored /\ outbox' = outbox
        /\ Struck({Maker(r)})
    BY <1>7 DEF WriteError, Begun, database
  <2>2. hits'[Maker(r)] = hits[Maker(r)] + 1
    BY <1>2, <2>1, StruckGrows DEF FullInv
  <2>3. ASSUME NEW k \in Jobs PROVE (Cardinality(Charged(k)) <= hits[k])'
    <3>1. CASE k = Maker(r)
      <4>1. Charged(k)' \subseteq Charged(k) \cup {r}
        BY <1>2, <2>1 DEF Charged, Missing, Orphaned
      <4> QED BY <1>3, <2>2, <3>1, <4>1, Charging
    <3>2. CASE k # Maker(r)
      <4>1. Charged(k)' \subseteq Charged(k)
        BY <1>2, <2>1, <3>2 DEF Charged, Missing, Orphaned
      <4> QED BY <1>3, <4>1, Charging
    <3> QED BY <3>1, <3>2
  <2> QED BY <2>3 DEF ChargedOK
<1> QED BY <1>4, <1>5, <1>6, <1>7 DEF Write

LEMMA StoreErrorCharges ==
  ASSUME FullInv, ChargedOK, NEW r \in Runs, StoreError(r)
  PROVE  ChargedOK'
<1> DEFINE j == Maker(r)
<1>1. /\ pending' = pending \ {<<r, "store">>} /\ <<r, "store">> \in pending
      /\ stored' \in {stored, stored \cup {r}} /\ outbox' = outbox /\ made' = made
      /\ Fail(j) /\ Struck({j})
  BY DEF StoreError, Begun, Upsert, database
<1>2. r \in Created /\ Created' = Created /\ j \in Jobs /\ run[j] = r
  BY <1>1, SameMade, Makers DEF FullInv, IInv, WritesOK, Created
<1>3. run' = run /\ \A k \in Jobs \ {j} : pc'[k] = pc[k]
  BY <1>1, <1>2 DEF Fail, Goto, FullInv, IInv, JobsOK
<1>4. HitsGrow /\ hits'[j] = hits[j] + 1
  BY <1>1, <1>2, StruckGrows DEF FullInv
<1>5. ASSUME NEW k \in Jobs, NEW q \in Charged(k)', q # r PROVE q \in Charged(k)
  <2>1. q \in Created /\ Maker(q) = k
    BY <1>2, <1>5 DEF Charged
  <2>2. Waited(q) => Waited(q)'
    BY <1>2, <1>3, <1>5, <2>1 DEF Waited
  <2> QED BY <1>1, <1>5, <2>1, <2>2 DEF Charged, Missing, Orphaned
<1>6. ASSUME NEW k \in Jobs PROVE (Cardinality(Charged(k)) <= hits[k])'
  <2>1. CASE k = j
    BY <1>4, <1>5, <2>1, Charging
  <2>2. CASE k # j
    <3>1. r \notin Charged(k)'
      BY <2>2 DEF Charged
    <3> QED BY <1>4, <1>5, <3>1, Charging
  <2> QED BY <2>1, <2>2
<1> QED BY <1>6 DEF ChargedOK

\* A crash drops, of each of its jobs, the writes of the run that is waited for;
\* the other runs of the job that have writes were orphans.
LEMMA CrashCharges ==
  ASSUME FullInv, ChargedOK, NEW jobs \in SUBSET Jobs, Crash(jobs)
  PROVE  ChargedOK'
<1>1. /\ pending' = {p \in pending : Maker(p[1]) \notin jobs}
      /\ run' = run /\ made' = made /\ stored' = stored /\ outbox' = outbox
      /\ Struck(jobs)
  BY DEF Crash, database
<1>2. /\ \A k \in Jobs \ jobs : pc'[k] = pc[k]
      /\ Created' = Created
  BY <1>1, SameMade DEF Crash, FullInv, IInv, JobsOK
<1>3. HitsGrow /\ \A k \in jobs : hits'[k] = hits[k] + 1
  BY <1>1, StruckGrows DEF FullInv
<1>4. \A q, w : <<q, w>> \in pending' <=> <<q, w>> \in pending /\ Maker(q) \notin jobs
  <2>1. \A q, w : <<q, w>>[1] = q
    OBVIOUS
  <2> QED BY <1>1, <2>1
<1>5. ASSUME NEW k \in Jobs PROVE (Cardinality(Charged(k)) <= hits[k])'
  <2>1. CASE k \notin jobs
    <3>1. \A q \in Created : Maker(q) = k /\ Waited(q) => Waited(q)'
      BY <1>1, <1>2, <2>1 DEF Waited
    <3>2. Charged(k)' \subseteq Charged(k)
      BY <1>1, <1>2, <1>4, <2>1, <3>1 DEF Charged, Missing, Orphaned
    <3> QED BY <1>3, <3>2, Charging
  <2>2. CASE k \in jobs
    <3>1. ASSUME NEW q \in Charged(k)', q # run[k] PROVE q \in Charged(k)
      <4>1. q \in Created /\ Maker(q) = k /\ ~Waited(q)
        BY <1>2, <3>1 DEF Charged, Waited
      <4>2. <<q, "store">> \notin pending
        BY <4>1 DEF FullInv, IInv, WritesOK, Waited
      <4> QED BY <1>1, <1>4, <2>2, <3>1, <4>1, <4>2 DEF Charged, Missing, Orphaned
    <3>2. Charged(k)' \subseteq Charged(k) \cup {run[k]}
      BY <3>1
    <3> QED BY <1>3, <2>2, <3>2, Charging
  <2> QED BY <2>1, <2>2
<1> QED BY <1>5 DEF ChargedOK

LEMMA CalmStepCharges ==
  ASSUME FullInv, ChargedOK,
         DeleteInsights \/ UNCHANGED vars \/ \E jobs \in SUBSET Jobs : Redeliver(jobs)
  PROVE  ChargedOK'
<1>1. /\ run' = run /\ made' = made /\ pending' = pending
      /\ stored' = stored /\ outbox' = outbox /\ HitsGrow
      /\ \A k \in Jobs : pc[k] = "write" => pc'[k] = "write"
  BY Unstruck, StruckGrows
     DEF DeleteInsights, Redeliver, Settled, vars, job, database, FullInv
<1>2. \A q \in Created : Waited(q) => Waited(q)'
  BY <1>1, Makers DEF Waited, Created
<1> QED BY <1>1, <1>2, CalmCharges

\* Among the runs of a job, the stored row and the queued event differ at most
\* once per failure that struck the job, for any number of jobs, attempts and
\* crashes of any number of jobs at once: the inductive part is that every run
\* which lost a write, or whose job gave it up, has a failure of its own.
THEOREM RowAndEvent == SafeSpec => []StoredIffPublished
<1>1. Init => ChargedOK
  <2>1. Init => \A j \in Jobs : Charged(j) = {} /\ hits[j] = 0
    BY DEF Init, Charged, Created
  <2> QED BY <2>1, FS_EmptySet DEF ChargedOK
<1>2. ASSUME FullInv, ChargedOK, [Next]_vars PROVE ChargedOK'
  BY <1>2, EarlyCharges, GatherCharges, FinishCharges, WriteCharges, StoreErrorCharges,
     CrashCharges, CalmStepCharges DEF Next, Step, Call
<1>3. FullInv /\ ChargedOK => StoredIffPublished
  <2> SUFFICES ASSUME FullInv, ChargedOK, NEW j \in Jobs PROVE Cardinality(Differing(j)) <= hits[j]
    BY DEF StoredIffPublished
  <2>1. Differing(j) \subseteq Charged(j)
    BY DEF Differing, Charged, Missing
  <2>2. Cardinality(Differing(j)) <= Cardinality(Charged(j)) /\ Cardinality(Differing(j)) \in Nat
    BY <2>1, ChargedFinite, FS_Subset, FS_CardinalityType
  <2> QED BY <2>2, ChargedFinite DEF ChargedOK, FullInv, TypeOK
<1> QED BY <1>1, <1>2, <1>3, FullInvariance, PTL DEF SafeSpec

-----------------------------------------------------------------------------
(* How many insights a job can make. *)

\* The job may make an insight without another failure.
Due(j) == pc[j] \in {"idle", "check", "context", "gather"}

Owed(j) == IF Due(j) THEN 1 ELSE 0

\* The first n insights of j are made, and each but one was paid by a failure.
Paid(j, n) == /\ \A m \in 1 .. MaxFaults + 1 : <<j, m>> \in Created <=> m <= n
              /\ n + Owed(j) <= 1 + hits[j]

RunsPaid == \A j \in Jobs : \E n \in Nat : Paid(j, n)

\* A step that makes no insight: it makes a job due only as a failure that strikes it.
LEMMA CalmPays ==
  ASSUME RunsPaid, HitsGrow, made' = made,
         \A j \in Jobs : Due(j)' => Due(j) \/ hits'[j] = hits[j] + 1
  PROVE  RunsPaid'
<1>1. Created' = Created
  BY SameMade
<1>2. ASSUME NEW j \in Jobs PROVE \E n \in Nat : Paid(j, n)'
  <2>1. PICK n \in Nat : Paid(j, n)
    BY DEF RunsPaid
  <2>2. hits[j] \in Nat /\ hits'[j] \in Nat /\ hits[j] <= hits'[j]
    BY DEF HitsGrow
  <2>3. n + Owed(j)' <= 1 + hits'[j]
    BY <2>1, <2>2 DEF Paid, Owed
  <2>4. Paid(j, n)'
    BY <1>1, <2>1, <2>3 DEF Paid
  <2> QED BY <2>4
<1> QED BY <1>2 DEF RunsPaid

\* A job that has made its insight is not due any more.
LEMMA CreatePays ==
  ASSUME FullInv, RunsPaid, NEW j \in Jobs, NEW facts \in SUBSET VisibleTo(Scope[j]),
         pc[j] = "gather", Create(j, facts), HitsGrow
  PROVE  RunsPaid'
<1>1. PICK m \in 1 .. MaxFaults + 1 :
         /\ <<j, m>> \notin Created
         /\ \A k \in 1 .. m - 1 : <<j, k>> \in Created
         /\ made' = [made EXCEPT ![<<j, m>>] = [facts |-> facts, context |-> AccountOwner]]
  BY DEF Create
<1>2. [facts |-> facts, context |-> AccountOwner] \in Insights
  BY DEF Insights, VisibleTo
<1>3. Created' = Created \cup {<<j, m>>}
  BY <1>1, <1>2, UnmadeIsNoInsight DEF Created, FullInv, IInv, RunsOK, Runs
<1>4. pc'[j] = "write" /\ \A k \in Jobs \ {j} : pc'[k] = pc[k]
  BY DEF Create, Goto, FullInv, IInv, JobsOK
<1>5. ASSUME NEW i \in Jobs PROVE \E n \in Nat : Paid(i, n)'
  <2>1. PICK n \in Nat : Paid(i, n)
    BY DEF RunsPaid
  <2>2. hits[i] \in Nat /\ hits'[i] \in Nat /\ hits[i] <= hits'[i]
    BY DEF HitsGrow
  <2>3. CASE i # j
    <3>1. Owed(i)' = Owed(i)
      BY <1>4, <2>3 DEF Owed, Due
    <3>2. \A k \in 1 .. MaxFaults + 1 : <<i, k>> \in Created' <=> <<i, k>> \in Created
      BY <1>3, <2>3
    <3>3. n + Owed(i)' <= 1 + hits'[i]
      BY <2>1, <2>2, <3>1 DEF Paid, Owed
    <3>4. Paid(i, n)'
      BY <2>1, <3>2, <3>3 DEF Paid
    <3> QED BY <3>4
  <2>4. CASE i = j
    <3>1. m = n + 1
      <4>1. m \in Nat /\ m > n
        BY <1>1, <2>1, <2>4 DEF Paid
      <4>2. CASE m > n + 1
        <5>1. n + 1 \in 1 .. m - 1 /\ n + 1 \in 1 .. MaxFaults + 1
          BY <1>1, <4>1, <4>2
        <5>2. <<j, n + 1>> \in Created
          BY <1>1, <5>1
        <5>3. n + 1 <= n
          BY <2>1, <2>4, <5>1, <5>2 DEF Paid
        <5> QED BY <5>3
      <4> QED BY <4>1, <4>2
    <3>2. \A k \in 1 .. MaxFaults + 1 : <<j, k>> \in Created' <=> k <= n + 1
      BY <1>3, <2>1, <2>4, <3>1 DEF Paid
    <3>3. Owed(j) = 1 /\ Owed(j)' = 0
      BY <1>4 DEF Owed, Due
    <3>4. Paid(j, n + 1)'
      BY <2>1, <2>2, <2>4, <3>2, <3>3 DEF Paid
    <3> QED BY <2>4, <3>4
  <2> QED BY <2>3, <2>4
<1> QED BY <1>5 DEF RunsPaid

LEMMA JobPays ==
  ASSUME FullInv, RunsPaid, NEW j \in Jobs,
         \/ Request(j) \/ Refuse(j) \/ Skip(j) \/ Deliver(j) \/ Undatable(j)
         \/ CheckAbsent(j) \/ CheckFound(j) \/ ReadContext(j) \/ Unbuildable(j) \/ ReadError(j)
         \/ Finish(j)
         \/ GatherPartly(j) /\ Fail(j) /\ UNCHANGED <<unbuilt, made, pending>>
  PROVE  RunsPaid'
<1>1. made' = made /\ (UNCHANGED failures \/ Struck({j}))
  BY DEF Request, Refuse, Skip, Deliver, Undatable, CheckAbsent, CheckFound, ReadContext,
         Unbuildable, ReadError, FailByData, GatherPartly, Finish
<1>2. \E where : /\ pc' = [pc EXCEPT ![j] = where]
                 /\ Due(j) \/ where \notin {"idle", "check", "context", "gather"}
  BY DEF Request, Refuse, Skip, Deliver, Undatable, CheckAbsent, CheckFound, ReadContext,
         Unbuildable, ReadError, FailByData, GatherPartly, Finish, Fail, Goto, Due
<1>3. \A k \in Jobs : Due(k)' => Due(k)
  BY <1>2 DEF Due, FullInv, IInv, JobsOK
<1> QED BY <1>1, <1>3, CalmPays, Unstruck, StruckGrows DEF FullInv

LEMMA GatherPays ==
  ASSUME FullInv, RunsPaid, NEW j \in Jobs, Gather(j) \/ GatherPartly(j)
  PROVE  RunsPaid'
<1>1. pc[j] = "gather" /\ HitsGrow
  BY Unstruck, StruckGrows DEF FullInv, Gather, GatherPartly
<1>2. CASE \E facts \in SUBSET VisibleTo(Scope[j]) : Create(j, facts)
  BY <1>1, <1>2, CreatePays
<1>3. CASE GatherPartly(j) /\ Fail(j) /\ UNCHANGED <<unbuilt, made, pending>>
  BY <1>3, JobPays
<1> QED BY <1>2, <1>3 DEF Gather, GatherPartly, VisibleTo

LEMMA RunPays ==
  ASSUME FullInv, RunsPaid, NEW r \in Runs,
         Write(r) \/ StoreError(r) \/ \E w \in Writes : WriteError(r, w)
  PROVE  RunsPaid'
<1>1. CASE Write(r) \/ \E w \in Writes : WriteError(r, w)
  <2>1. pc' = pc /\ made' = made /\ HitsGrow
    BY <1>1, Unstruck, StruckGrows DEF Write, Store, Cache, Enqueue, WriteError, job, FullInv
  <2> QED BY <2>1, CalmPays DEF Due
<1>2. CASE StoreError(r)
  <2> DEFINE j == Maker(r)
  <2>1. Fail(j) /\ made' = made /\ Struck({j}) /\ j \in Jobs
    BY <1>2, Makers DEF StoreError
  <2>2. HitsGrow /\ hits'[j] = hits[j] + 1
    BY <2>1, StruckGrows DEF FullInv
  <2>3. \A k \in Jobs \ {j} : pc'[k] = pc[k]
    BY <2>1 DEF Fail, Goto, FullInv, IInv, JobsOK
  <2> QED BY <2>1, <2>2, <2>3, CalmPays DEF Due
<1> QED BY <1>1, <1>2

LEMMA BackPays ==
  ASSUME FullInv, RunsPaid, NEW jobs \in SUBSET Jobs, Crash(jobs) \/ Redeliver(jobs)
  PROVE  RunsPaid'
<1>1. made' = made /\ Struck(jobs)
  BY DEF Crash, Redeliver
<1>2. HitsGrow /\ \A k \in jobs : hits'[k] = hits[k] + 1
  BY <1>1, StruckGrows DEF FullInv
<1>3. \A k \in Jobs \ jobs : pc'[k] = pc[k]
  BY DEF Crash, Redeliver, FullInv, IInv, JobsOK
<1> QED BY <1>1, <1>2, <1>3, CalmPays DEF Due

LEMMA RunsPaidKept == SafeSpec => [](FullInv /\ RunsPaid)
<1>1. Init => RunsPaid
  <2> SUFFICES ASSUME Init, NEW j \in Jobs PROVE Paid(j, 0)
    BY DEF RunsPaid
  <2>1. Created = {} /\ Owed(j) = 1 /\ hits[j] = 0
    BY DEF Init, Created, Owed, Due
  <2> QED BY <2>1 DEF Paid
<1>2. ASSUME FullInv, RunsPaid, [Next]_vars PROVE RunsPaid'
  <2>1. CASE DeleteInsights \/ UNCHANGED vars
    <3>1. pc' = pc /\ made' = made /\ HitsGrow
      BY <1>2, <2>1, Unstruck DEF DeleteInsights, vars, job, FullInv
    <3> QED BY <1>2, <3>1, CalmPays DEF Due
  <2> QED BY <1>2, <2>1, JobPays, GatherPays, RunPays, BackPays DEF Next, Step, Call
<1> QED BY <1>1, <1>2, FullInvariance, PTL DEF SafeSpec

\* The n-th insight of a job, with its event, its notification and its AI text,
\* is made only when n - 1 failures struck the job: its own queries and writes,
\* the crashes of its process and the refused commits of its batch, each of
\* which may strike many jobs.  Retries and concurrent jobs alone repeat nothing.
THEOREM InsightsPaidFor ==
  SafeSpec => [](\A j \in Jobs, n \in Nat : <<j, n>> \in Created => n <= 1 + hits[j])
<1>1. ASSUME FullInv, RunsPaid, NEW j \in Jobs, NEW n \in Nat, <<j, n>> \in Created
      PROVE  n <= 1 + hits[j]
  <2>1. PICK m \in Nat : Paid(j, m)
    BY <1>1 DEF RunsPaid
  <2>2. n \in 1 .. MaxFaults + 1
    BY <1>1 DEF Created, Runs
  <2>3. hits[j] \in Nat /\ Owed(j) \in Nat
    BY <1>1 DEF FullInv, TypeOK, Owed
  <2> QED BY <1>1, <2>1, <2>2, <2>3 DEF Paid
<1>2. FullInv /\ RunsPaid => \A j \in Jobs, n \in Nat : <<j, n>> \in Created => n <= 1 + hits[j]
  BY <1>1
<1> QED BY <1>2, RunsPaidKept, PTL

\* The bound on runs is none: a job that has gathered its data always finds an id
\* to give out, so that what is checked of the model is not its bound's doing.
THEOREM RoomForInsight ==
  SafeSpec => [](\A j \in Jobs : pc[j] = "gather" =>
                    \E n \in 1 .. MaxFaults + 1 : /\ <<j, n>> \notin Created
                                                  /\ \A k \in 1 .. n - 1 : <<j, k>> \in Created)
<1>1. ASSUME FullInv, RunsPaid, NEW j \in Jobs, pc[j] = "gather"
      PROVE  \E n \in 1 .. MaxFaults + 1 : /\ <<j, n>> \notin Created
                                           /\ \A k \in 1 .. n - 1 : <<j, k>> \in Created
  <2>1. PICK m \in Nat : Paid(j, m)
    BY <1>1 DEF RunsPaid
  <2>2. hits[j] \in 0 .. faults /\ faults \in 0 .. MaxFaults
    BY <1>1 DEF FullInv, TypeOK
  <2>3. m <= hits[j]
    BY <1>1, <2>1, <2>2 DEF Paid, Owed, Due
  <2>4. m + 1 \in 1 .. MaxFaults + 1
    BY <2>2, <2>3
  <2>5. <<j, m + 1>> \notin Created /\ \A k \in 1 .. (m + 1) - 1 : <<j, k>> \in Created
    BY <2>1, <2>4 DEF Paid
  <2> QED BY <2>4, <2>5
<1>2. FullInv /\ RunsPaid =>
         \A j \in Jobs : pc[j] = "gather" =>
            \E n \in 1 .. MaxFaults + 1 : /\ <<j, n>> \notin Created
                                          /\ \A k \in 1 .. n - 1 : <<j, k>> \in Created
  BY <1>1
<1> QED BY <1>2, RunsPaidKept, PTL

-----------------------------------------------------------------------------
(* What happens to a job that no failure strikes. *)

\* The only insight of the job is the one it is writing or has written, and as a
\* request it fails only because an insight is already there.
Orderly(j) == /\ \A r \in Created : Maker(r) = j => pc[j] \in {"write", "done"} /\ run[j] = r
              /\ j \in Tasks /\ pc[j] = "failed" /\ unbuilt[j] = 0 => Reason(j)

OrderlyOK == \A j \in Jobs : hits[j] = 0 => Orderly(j)

\* A job that nothing touches stays so.
LEMMA StillOrderly ==
  ASSUME NEW k \in Jobs, Orderly(k), stored \subseteq stored',
         \A r \in Created' : Maker(r) = k => r \in Created,
         pc'[k] = pc[k], run'[k] = run[k], unbuilt'[k] = unbuilt[k]
  PROVE  Orderly(k)'
<1>1. Reason(k) => Reason(k)'
  BY ReasonStays
<1> QED BY <1>1 DEF Orderly

\* A job that has no insight yet goes on, or fails for a reason or by its data.
LEMMA EarlyOrderly ==
  ASSUME FullInv, NEW j \in Jobs, Orderly(j),
         \/ Request(j) \/ Refuse(j) \/ Skip(j) \/ Deliver(j) \/ Undatable(j)
         \/ CheckAbsent(j) \/ CheckFound(j) \/ ReadContext(j) \/ Unbuildable(j)
  PROVE  Orderly(j)'
<1>1. /\ pc[j] \in {"idle", "check", "context", "gather"}
      /\ made' = made /\ stored' = stored
  BY DEF Request, Refuse, Skip, Deliver, Undatable, CheckAbsent, CheckFound, ReadContext,
         Unbuildable, FailByData, database
<1>2. Created' = Created /\ (Reason(j) => Reason(j)')
  BY <1>1, SameMade, ReasonStays
<1>3. \A r \in Created : Maker(r) # j
  BY <1>1 DEF Orderly
<1>4. pc'[j] = "failed" => Reason(j) \/ unbuilt'[j] # 0
  <2>1. CASE CheckFound(j)
    BY <2>1, ExistsIsReason DEF CheckFound, FullInv
  <2>2. CASE Undatable(j) \/ Unbuildable(j)
    <3>1. unbuilt[j] \in Nat /\ unbuilt'[j] = unbuilt[j] + 1
      BY <2>2 DEF Undatable, Unbuildable, FailByData, FullInv, TypeOK
    <3> QED BY <3>1
  <2>3. CASE Request(j) \/ Refuse(j) \/ Skip(j) \/ Deliver(j) \/ CheckAbsent(j) \/ ReadContext(j)
    BY <2>3 DEF Request, Refuse, Skip, Deliver, CheckAbsent, ReadContext, Goto, FullInv, IInv, JobsOK
  <2> QED BY <2>1, <2>2, <2>3
<1> QED BY <1>2, <1>3, <1>4 DEF Orderly

\* What a step leaves alone when it is one of job j.
LEMMA OthersAlone ==
  ASSUME FullInv, NEW j \in Jobs, NEW k \in Jobs \ {j},
         Call(j) \/ ReadError(j) \/ GatherPartly(j)
  PROVE  /\ stored' = stored
         /\ \A r \in Created' : Maker(r) = k => r \in Created
         /\ pc'[k] = pc[k] /\ run'[k] = run[k] /\ unbuilt'[k] = unbuilt[k]
<1>1. ASSUME NEW facts, Create(j, facts)
      PROVE  /\ \A r \in Created' : Maker(r) = k => r \in Created
             /\ pc'[k] = pc[k] /\ run'[k] = run[k] /\ unbuilt'[k] = unbuilt[k]
  <2>1. PICK r \in Runs \ Created :
           /\ Maker(r) = j
           /\ run' = [run EXCEPT ![j] = r]
           /\ made' = [made EXCEPT ![r] = [facts |-> facts, context |-> AccountOwner]]
    BY <1>1, CreatesRun
  <2>2. pc' = [pc EXCEPT ![j] = "write"] /\ unbuilt' = unbuilt
    BY <1>1 DEF Create, Goto
  <2>3. \A q \in Created' : q = r \/ q \in Created
    BY <2>1 DEF Created, FullInv, IInv, RunsOK
  <2> QED BY <2>1, <2>2, <2>3 DEF FullInv, IInv, JobsOK
<1>2. CASE Gather(j) \/ (GatherPartly(j) /\ ~Fail(j))
  BY <1>1, <1>2 DEF Gather, GatherPartly, database
<1>3. CASE ~Gather(j) /\ (GatherPartly(j) => Fail(j) /\ UNCHANGED <<unbuilt, made>>)
  <2>1. made' = made /\ stored' = stored /\ run' = run /\ \E where : pc' = [pc EXCEPT ![j] = where]
    BY <1>3 DEF Call, Request, Refuse, Skip, Deliver, Undatable, CheckAbsent, CheckFound, ReadContext,
                Unbuildable, FailByData, Finish, ReadError, GatherPartly, Fail, Goto, database
  <2>2. unbuilt' = unbuilt \/ \E n : unbuilt' = [unbuilt EXCEPT ![j] = n]
    BY <1>3 DEF Call, Request, Refuse, Skip, Deliver, Undatable, CheckAbsent, CheckFound, ReadContext,
                Unbuildable, FailByData, Finish, ReadError, GatherPartly
  <2>3. Created' = Created /\ pc'[k] = pc[k] /\ unbuilt'[k] = unbuilt[k]
    BY <2>1, <2>2, SameMade DEF FullInv, IInv, JobsOK, TypeOK
  <2> QED BY <2>1, <2>3
<1>4. GatherPartly(j) /\ Fail(j) => UNCHANGED <<unbuilt, made>>
  BY DEF GatherPartly, Fail, Create, Goto, FullInv, IInv, JobsOK
<1> QED BY <1>2, <1>3, <1>4

LEMMA GatherOrderly ==
  ASSUME FullInv, NEW j \in Jobs, Orderly(j), Gather(j)
  PROVE  Orderly(j)'
<1>1. PICK r \in Runs \ Created :
         /\ Maker(r) = j
         /\ run' = [run EXCEPT ![j] = r]
         /\ made' = [made EXCEPT ![r] = [facts |-> VisibleTo(Scope[j]), context |-> AccountOwner]]
  BY CreatesRun DEF Gather, VisibleTo
<1>2. pc[j] = "gather" /\ pc'[j] = "write" /\ run'[j] = r
  BY <1>1 DEF Gather, Create, Goto, FullInv, IInv, JobsOK
<1>3. \A q \in Created' : q = r \/ q \in Created
  BY <1>1 DEF Created, FullInv, IInv, RunsOK
<1>4. \A q \in Created : Maker(q) # j
  BY <1>2 DEF Orderly
<1> QED BY <1>2, <1>3, <1>4 DEF Orderly

\* A step that strikes nobody keeps every job orderly.
LEMMA CallOrderly ==
  ASSUME FullInv, OrderlyOK, NEW j \in Jobs, Call(j), NEW k \in Jobs, hits'[k] = 0
  PROVE  Orderly(k)'
<1>1. Orderly(k)
  <2>1. UNCHANGED failures
    BY DEF Call, Request, Refuse, Skip, Deliver, Undatable, CheckAbsent, CheckFound, ReadContext,
           Unbuildable, FailByData, Gather, Finish
  <2> QED BY <2>1 DEF failures, OrderlyOK
<1>2. CASE k # j
  BY <1>1, <1>2, OthersAlone, StillOrderly
<1>3. CASE k = j /\ Finish(j)
  <2>1. /\ pc[j] = "write" /\ pc'[j] = "done" /\ run' = run /\ made' = made
    BY <1>3 DEF Finish, Goto, FullInv, IInv, JobsOK
  <2> QED BY <1>1, <1>3, <2>1, SameMade DEF Orderly
<1> QED BY <1>1, <1>2, <1>3, EarlyOrderly, GatherOrderly DEF Call

LEMMA StruckOrderly ==
  ASSUME FullInv, OrderlyOK, NEW k \in Jobs, hits'[k] = 0,
         \/ \E j \in Jobs : ReadError(j) \/ GatherPartly(j)
         \/ \E r \in Runs : StoreError(r) \/ \E w \in Writes : WriteError(r, w)
         \/ \E jobs \in SUBSET Jobs : Crash(jobs) \/ Redeliver(jobs)
  PROVE  Orderly(k)'
<1>1. ASSUME NEW jobs, Struck(jobs) PROVE k \notin jobs /\ Orderly(k)
  <2>1. hits[k] \in Nat
    BY DEF FullInv, TypeOK
  <2>2. k \notin jobs /\ hits'[k] = hits[k]
    BY <1>1, <2>1, StruckGrows DEF FullInv
  <2> QED BY <2>2 DEF OrderlyOK
<1>2. ASSUME NEW j \in Jobs, ReadError(j) \/ GatherPartly(j) PROVE Orderly(k)'
  <2>1. k # j /\ Orderly(k)
    BY <1>1, <1>2 DEF ReadError, GatherPartly
  <2> QED BY <1>2, <2>1, OthersAlone, StillOrderly
<1>3. ASSUME NEW r \in Runs, StoreError(r) \/ \E w \in Writes : WriteError(r, w) PROVE Orderly(k)'
  <2>1. k # Maker(r) /\ Orderly(k)
    BY <1>1, <1>3 DEF StoreError, WriteError
  <2>2. /\ made' = made /\ stored \subseteq stored' /\ run' = run /\ unbuilt' = unbuilt
        /\ pc' = pc \/ \E where : pc' = [pc EXCEPT ![Maker(r)] = where]
    BY <1>3 DEF StoreError, WriteError, Upsert, Fail, Goto, job, database
  <2>3. pc'[k] = pc[k]
    BY <2>1, <2>2 DEF FullInv, IInv, JobsOK
  <2> QED BY <2>1, <2>2, <2>3, SameMade, StillOrderly
<1>4. ASSUME NEW jobs \in SUBSET Jobs, Crash(jobs) \/ Redeliver(jobs) PROVE Orderly(k)'
  <2>1. k \notin jobs /\ Orderly(k)
    BY <1>1, <1>4 DEF Crash, Redeliver
  <2>2. /\ made' = made /\ stored' = stored /\ run' = run /\ unbuilt' = unbuilt
        /\ pc'[k] = pc[k]
    BY <1>4, <2>1 DEF Crash, Redeliver, database, FullInv, IInv, JobsOK
  <2> QED BY <2>1, <2>2, SameMade, StillOrderly
<1> QED BY <1>2, <1>3, <1>4

LEMMA LateOrderly ==
  ASSUME FullInv, OrderlyOK, NEW k \in Jobs, hits'[k] = 0,
         (\E r \in Runs : Write(r)) \/ DeleteInsights \/ UNCHANGED vars
  PROVE  Orderly(k)'
<1>1. /\ UNCHANGED job /\ stored \subseteq stored' /\ UNCHANGED failures
  BY DEF Write, Store, Upsert, Cache, Enqueue, DeleteInsights, vars, database
<1>2. Orderly(k)
  BY <1>1 DEF OrderlyOK, failures
<1> QED BY <1>1, <1>2, SameMade, StillOrderly DEF job

LEMMA OrderlyKept == SafeSpec => [](FullInv /\ OrderlyOK)
<1>1. Init => OrderlyOK
  BY DEF Init, OrderlyOK, Orderly, Created
<1>2. ASSUME FullInv, OrderlyOK, [Next]_vars PROVE OrderlyOK'
  <2> SUFFICES ASSUME NEW k \in Jobs, hits'[k] = 0 PROVE Orderly(k)'
    BY DEF OrderlyOK
  <2> QED BY <1>2, CallOrderly, StruckOrderly, LateOrderly DEF Next, Step
<1> QED BY <1>1, <1>2, FullInvariance, PTL DEF SafeSpec

\* A trigger that no failure struck is not parked once it has stored its insight.
HarmlessUnstruck ==
    \A j \in Triggers : hits[j] = 0 /\ pc[j] = "parked" => \A r \in stored : Maker(r) # j

\* "Handlers are idempotent" (consumer.py:9) does hold for a trigger until a
\* failure strikes it, whatever happens to other jobs: one that stored its insight
\* is parked only if one of its queries or writes failed, its process ended or its
\* batch was delivered again.
THEOREM HarmlessWithoutFailure == SafeSpec => []HarmlessUnstruck
<1>1. ASSUME FullInv, OrderlyOK, NEW j \in Triggers, hits[j] = 0, pc[j] = "parked",
             NEW r \in stored, Maker(r) = j
      PROVE  FALSE
  <2>1. r \in Created /\ j \in Jobs
    BY <1>1 DEF FullInv, TypeOK, Jobs
  <2> QED BY <1>1, <2>1 DEF OrderlyOK, Orderly
<1>2. FullInv /\ OrderlyOK => HarmlessUnstruck
  BY <1>1 DEF HarmlessUnstruck
<1> QED BY <1>2, OrderlyKept, PTL

\* A request that no failure struck fails, forced or not, only because no insight
\* can be made of what it read, or because an insight that its scope can see was
\* stored.
THEOREM FailedForAReason ==
  SafeSpec => [](\A j \in Tasks : pc[j] = "failed" => hits[j] > 0 \/ unbuilt[j] > 0 \/ Reason(j))
<1>1. FullInv /\ OrderlyOK =>
         \A j \in Tasks : pc[j] = "failed" => hits[j] > 0 \/ unbuilt[j] > 0 \/ Reason(j)
  BY DEF OrderlyOK, Orderly, FullInv, TypeOK, Jobs
<1> QED BY <1>1, OrderlyKept, PTL
=============================================================================
