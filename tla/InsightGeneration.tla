-------------------------- MODULE InsightGeneration --------------------------
(***************************************************************************)
(* The generation of the insight of one account and one date, in            *)
(* src/generators/daily_summary.py, by the requests of the API (main.py)    *)
(* and the trigger messages of Kafka (kafka/consumer.py), all of which may   *)
(* run at once in several processes.                                        *)
(*                                                                          *)
(* A run is a DailyInsight object: the model keeps whose data it was made   *)
(* of, and not what the rules made of them.  Every query takes a connection *)
(* of its own, so a query is one step.  A record of Kafka is retried        *)
(* MaxAttempts times and then parked, as ReliableConsumer does.             *)
(***************************************************************************)
EXTENDS Integers, FiniteSets

CONSTANTS Tasks,        \* accepted or refused requests of the API
          Forced,       \* the requests with force=true
          Triggers,     \* messages of insight-requests or daily-summary-trigger
          Contents,     \* what a trigger may say: see Said
          Scope,        \* Scope[j]: the company j works for, or All
          Companies,    \* the companies that have an account of this number
          All,          \* the scope of admins: None in tenant.py
          NoCompany,    \* the company_id "" of rows that belong to no company
          AccountOwner, \* the company of the row of accounts, if there is one
          MaxAttempts,  \* max_attempts of ReliableConsumer
          MaxFaults     \* bound: failed queries, crashes and refused commits

Jobs == Tasks \cup Triggers
Slots == Companies \cup {NoCompany}

\* An account and a date; a date that is no ISO date; one of the two is missing.
Said == {"complete", "undated", "incomplete"}

ASSUME GenerationAssumption == /\ Tasks \cap Triggers = {}
                               /\ Forced \subseteq Tasks
                               /\ Contents \subseteq Said
                               /\ IsFiniteSet(Jobs)
                               /\ All \notin Slots
                               /\ NoCompany \notin Companies
                               /\ AccountOwner \in Slots
                               /\ Scope \in [Jobs -> Slots \cup {All}]
                               /\ \A j \in Triggers : Scope[j] # All
                               /\ MaxAttempts \in Nat \ {0}
                               /\ MaxFaults \in Nat

VARIABLES message,   \* message[j]: what trigger j says
          pc,        \* pc[j]: where job j stands
          attempts,  \* attempts[j]: failed calls of the handler of trigger j
          unbuilt,   \* unbuilt[j]: those of them that no failure explains but j's data
          run,       \* run[j]: the run of j's present attempt
          made,      \* made[r]: from whose data run r was made
          pending,   \* <<r, w>>: the write w of run r is under way
          row,       \* row[c]: the row of daily_insights of company c
          cached,    \* cached[c]: the run under c's key in Redis
          stored,    \* the runs whose upsert was committed
          outbox,    \* <<r, w>>: the message w of run r was queued
          faults,    \* failures so far
          hits       \* hits[j]: those of them that struck job j

job == <<pc, attempts, unbuilt, run, made>>
database == <<row, stored>>
failures == <<faults, hits>>
vars == <<message, job, pending, database, cached, outbox, failures>>

\* <<j, n>> is the n-th insight that j makes.
Runs == Jobs \X (1 .. MaxFaults + 1)
NoRun == <<>>
Maker(r) == r[1]

Writes == {"store", "publish", "notify", "cache"}
NoRow == [id |-> NoRun, from |-> NoRun]
Unmade == [facts |-> {}, context |-> All]

Created == {r \in Runs : made[r] # Unmade}

Init == /\ message \in [Triggers -> Contents]
        /\ pc = [j \in Jobs |-> "idle"]
        /\ attempts = [j \in Jobs |-> 0]
        /\ unbuilt = [j \in Jobs |-> 0]
        /\ run = [j \in Jobs |-> NoRun]
        /\ made = [r \in Runs |-> Unmade]
        /\ pending = {}
        /\ row = [c \in Slots |-> NoRow]
        /\ cached = [c \in Slots |-> NoRun]
        /\ stored = {}
        /\ outbox = {}
        /\ faults = 0
        /\ hits = [j \in Jobs |-> 0]

\* One failure, which strikes several jobs if they share a process or a batch.
Struck(jobs) == /\ faults < MaxFaults
                /\ faults' = faults + 1
                /\ hits' = [j \in Jobs |-> IF j \in jobs THEN hits[j] + 1 ELSE hits[j]]

\* The handler or the background task of j is running.
Trying(j) == pc[j] \in {"check", "context", "gather", "write"}

Goto(j, where) == pc' = [pc EXCEPT ![j] = where]

\* MUTANT of Sees: a query without tenant_ok.
SeesAll(s, c) == TRUE

\* tenant_ok: the connection carries the scope s of whoever acquired it.
Sees(s, c) == s = All \/ s = c

\* tenant.company() or "": an admin's insight belongs to no company.
Slot(s) == IF s = All THEN NoCompany ELSE s

\* MUTANT of Exists: the lookup of _check_existing has no tenant_ok.
ExistsAnywhere(s) == \E c \in Slots : row[c] # NoRow

Exists(s) == \E c \in Slots : Sees(s, c) /\ row[c] # NoRow

-----------------------------------------------------------------------------
(* generate_daily_insight, generate_insight_task and on_trigger. *)

Request(j) == /\ j \in Tasks
              /\ pc[j] = "idle"
              /\ j \in Forced \/ ~Exists(Scope[j])
              /\ Goto(j, "check")
              /\ UNCHANGED <<attempts, unbuilt, run, made, pending, database, cached, outbox, failures>>

\* 409: "Insight already exists".
Refuse(j) == /\ j \in Tasks \ Forced
             /\ pc[j] = "idle"
             /\ Exists(Scope[j])
             /\ Goto(j, "refused")
             /\ UNCHANGED <<attempts, unbuilt, run, made, pending, database, cached, outbox, failures>>

\* "if not (account_id and target_date): return", and the offset is committed.
Skip(j) == /\ j \in Triggers
           /\ message[j] = "incomplete"
           /\ pc[j] = "idle"
           /\ Goto(j, "skipped")
           /\ UNCHANGED <<attempts, unbuilt, run, made, pending, database, cached, outbox, failures>>

Deliver(j) == /\ j \in Triggers
              /\ message[j] # "incomplete"
              /\ pc[j] = "idle"
              /\ Goto(j, "check")
              /\ attempts' = [attempts EXCEPT ![j] = 0]
              /\ unbuilt' = [unbuilt EXCEPT ![j] = 0]
              /\ UNCHANGED <<run, made, pending, database, cached, outbox, failures>>

\* MUTANT of Fail: the attempts are not counted.
FailUncounted(j) == /\ Goto(j, IF j \in Tasks THEN "failed" ELSE "check")
                    /\ UNCHANGED <<attempts, run>>

\* MUTANT of Fail: one attempt too many.
FailOnceMore(j) == IF j \in Tasks
                   THEN Goto(j, "failed") /\ UNCHANGED <<attempts, run>>
                   ELSE /\ attempts' = [attempts EXCEPT ![j] = @ + 1]
                        /\ Goto(j, IF attempts[j] = MaxAttempts THEN "parked" ELSE "check")
                        /\ UNCHANGED run

\* The background task logs the error; the consumer calls the handler again.
Fail(j) == IF j \in Tasks
           THEN Goto(j, "failed") /\ UNCHANGED <<attempts, run>>
           ELSE /\ attempts' = [attempts EXCEPT ![j] = @ + 1]
                /\ Goto(j, IF attempts[j] + 1 = MaxAttempts THEN "parked" ELSE "check")
                /\ UNCHANGED run

\* The attempt fails though nothing else did: so will every other one.
FailByData(j) == /\ Fail(j)
                 /\ unbuilt' = [unbuilt EXCEPT ![j] = @ + 1]
                 /\ UNCHANGED <<made, pending, database, cached, outbox, failures>>

Undated(j) == j \in Triggers /\ message[j] = "undated"

\* date.fromisoformat, evaluated before the call of generate_daily_summary.
Undatable(j) == pc[j] = "check" /\ Undated(j) /\ FailByData(j)

-----------------------------------------------------------------------------
(* generate_daily_summary, as far as the insight. *)

CheckAbsent(j) == /\ pc[j] = "check"
                  /\ ~Undated(j)
                  /\ ~Exists(Scope[j])
                  /\ Goto(j, "context")
                  /\ UNCHANGED <<attempts, unbuilt, run, made, pending, database, cached, outbox, failures>>

\* The row has tags NULL (no INSERT names the column) and DailyInsight(**row)
\* takes no None for a list: the existing insight is never returned.
CheckFound(j) == /\ pc[j] = "check"
                 /\ ~Undated(j)
                 /\ Exists(Scope[j])
                 /\ Fail(j)
                 /\ UNCHANGED <<unbuilt, made, pending, database, cached, outbox, failures>>

ReadContext(j) == /\ pc[j] = "context"
                  /\ Goto(j, "gather")
                  /\ UNCHANGED <<attempts, unbuilt, run, made, pending, database, cached, outbox, failures>>

ReadError(j) == /\ pc[j] \in {"check", "context"}
                /\ ~Undated(j)
                /\ Struck({j})
                /\ Fail(j)
                /\ UNCHANGED <<unbuilt, made, pending, database, cached, outbox>>

\* The insight gets a new id and the four writes of asyncio.gather start.  The
\* row of accounts is looked up by the account number alone.
Create(j, facts) ==
    /\ \E n \in 1 .. MaxFaults + 1 :
          /\ <<j, n>> \notin Created
          /\ \A k \in 1 .. n - 1 : <<j, k>> \in Created
          /\ run' = [run EXCEPT ![j] = <<j, n>>]
          /\ made' = [made EXCEPT ![<<j, n>>] = [facts |-> facts, context |-> AccountOwner]]
          /\ \E writes \in {Writes, Writes \ {"notify"}} :
                pending' = pending \cup ({<<j, n>>} \X writes)
    /\ Goto(j, "write")
    /\ UNCHANGED <<attempts, unbuilt>>

Gather(j) == /\ pc[j] = "gather"
             /\ Create(j, {c \in Slots : Sees(Scope[j], c)})
             /\ UNCHANGED <<database, cached, outbox, failures>>

\* return_exceptions=True: a read that fails leaves its part of the data empty,
\* which is an error only if fewer than MIN_DATA_POINTS are left.
GatherPartly(j) == /\ pc[j] = "gather"
                   /\ Struck({j})
                   /\ \/ \E facts \in SUBSET {c \in Slots : Sees(Scope[j], c)} :
                            Create(j, facts)
                      \/ Fail(j) /\ UNCHANGED <<unbuilt, made, pending>>
                   /\ UNCHANGED <<database, cached, outbox>>

\* What was read cannot be made an insight: a risk or an opportunity has a
\* timeframe that Recommendation rejects, or the AI text is over 500 characters.
Unbuildable(j) == pc[j] = "gather" /\ FailByData(j)

-----------------------------------------------------------------------------
(* The writes: four coroutines, each with a connection of its own.  Only    *)
(* the error of _store_insight is not caught; asyncio.gather raises it at   *)
(* once and does not stop the other three.                                  *)

Begun(r, w) == <<r, w>> \in pending /\ pending' = pending \ {<<r, w>>}

\* INSERT ... ON CONFLICT (company_id, account_id, date) DO UPDATE: a row that
\* exists keeps its id.
Upsert(r) ==
    LET c == Slot(Scope[Maker(r)])
    IN  /\ row' = [row EXCEPT ![c] = [id |-> IF row[c] = NoRow THEN r ELSE row[c].id,
                                      from |-> r]]
        /\ stored' = stored \cup {r}

Store(r) == /\ Begun(r, "store")
            /\ Upsert(r)
            /\ UNCHANGED <<job, cached, outbox, failures>>

\* MUTANT of StoreError: the gather of the writes has return_exceptions=True.
StoreErrorIgnored(r) == /\ Begun(r, "store")
                        /\ Struck({Maker(r)})
                        /\ UNCHANGED <<job, database, cached, outbox>>

\* The statement fails, or its acknowledgement is lost.
StoreError(r) == /\ Begun(r, "store")
                 /\ Struck({Maker(r)})
                 /\ Upsert(r) \/ UNCHANGED database
                 /\ Fail(Maker(r))
                 /\ UNCHANGED <<unbuilt, made, cached, outbox>>

\* _publish_insight and _trigger_notifications insert into the outbox.
Enqueue(r, w) == /\ w \in {"publish", "notify"}
                 /\ Begun(r, w)
                 /\ outbox' = outbox \cup {<<r, w>>}
                 /\ UNCHANGED <<job, database, cached, failures>>

Cache(r) == /\ Begun(r, "cache")
            /\ cached' = [cached EXCEPT ![Slot(Scope[Maker(r)])] = r]
            /\ UNCHANGED <<job, database, outbox, failures>>

\* The error is logged and swallowed.
WriteError(r, w) == /\ w # "store"
                    /\ Begun(r, w)
                    /\ Struck({Maker(r)})
                    /\ UNCHANGED <<job, database, cached, outbox>>

\* MUTANT of Finish: the job waits for the row only and drops the other writes.
FinishOnStore(j) == /\ pc[j] = "write"
                    /\ <<run[j], "store">> \notin pending
                    /\ pending' = {p \in pending : p[1] # run[j]}
                    /\ Goto(j, "done")
                    /\ UNCHANGED <<attempts, unbuilt, run, made, database, cached, outbox, failures>>

Finish(j) == /\ pc[j] = "write"
             /\ \A w \in Writes : <<run[j], w>> \notin pending
             /\ Goto(j, "done")
             /\ UNCHANGED <<attempts, unbuilt, run, made, pending, database, cached, outbox, failures>>

-----------------------------------------------------------------------------
(* Crashes, redelivery and deletion. *)

\* The consumer has gone past j, or is about to.
Settled(j) == pc[j] \in {"done", "skipped", "parked"}

\* Something of j would be lost or repeated if its process ended.
AtStake(j) == \/ Trying(j)
              \/ j \in Triggers /\ Settled(j)
              \/ \E p \in pending : Maker(p[1]) = j

\* The process of these jobs ends (the tasks of the API and the consumer share
\* one), or the consumer's task is cancelled.  Requests are forgotten; triggers
\* come back, those in back because their offsets were not committed yet.
Crash(jobs) ==
    /\ jobs # {} /\ \A j \in jobs : AtStake(j)
    /\ Struck(jobs)
    /\ pending' = {p \in pending : Maker(p[1]) \notin jobs}
    /\ \E back \in SUBSET {j \in jobs \cap Triggers : Settled(j)} :
          pc' = [j \in Jobs |->
                    IF j \in back \/ (j \in jobs \cap Triggers /\ Trying(j)) THEN "idle"
                    ELSE IF j \in jobs /\ Trying(j) THEN "lost"
                    ELSE pc[j]]
    /\ UNCHANGED <<attempts, unbuilt, run, made, database, cached, outbox>>

\* The commit of a batch fails, or is refused after a rebalance.
Redeliver(triggers) ==
    /\ triggers # {} /\ triggers \subseteq {j \in Triggers : Settled(j)}
    /\ Struck(triggers)
    /\ pc' = [j \in Jobs |-> IF j \in triggers THEN "idle" ELSE pc[j]]
    /\ UNCHANGED <<attempts, unbuilt, run, made, pending, database, cached, outbox>>

\* delete_account_insights: of every company, and of the table only.
DeleteInsights == /\ \E c \in Slots : row[c] # NoRow
                  /\ row' = [c \in Slots |-> NoRow]
                  /\ UNCHANGED <<job, pending, stored, cached, outbox, failures>>

-----------------------------------------------------------------------------
(* The specification. *)

Call(j) == \/ Request(j) \/ Refuse(j) \/ Skip(j) \/ Deliver(j) \/ Undatable(j)
           \/ CheckAbsent(j) \/ CheckFound(j) \/ ReadContext(j)
           \/ Gather(j) \/ Unbuildable(j) \/ Finish(j)

Write(r) == \/ Store(r) \/ Cache(r)
            \/ \E w \in Writes : Enqueue(r, w)

Step == \/ \E j \in Jobs : \/ Call(j)
                           \/ ReadError(j) \/ GatherPartly(j)
        \/ \E r \in Runs : \/ Write(r)
                           \/ StoreError(r)
                           \/ \E w \in Writes : WriteError(r, w)
        \/ \E jobs \in SUBSET Jobs : Crash(jobs) \/ Redeliver(jobs)
        \/ DeleteInsights

\* A record of Kafka does not change.
Next == Step /\ UNCHANGED message

SafeSpec == Init /\ [][Next]_vars

Spec == /\ SafeSpec
        /\ \A j \in Jobs : WF_vars(Call(j) /\ UNCHANGED message)
        /\ \A r \in Runs : WF_vars(Write(r) /\ UNCHANGED message)
-----------------------------------------------------------------------------
(* The properties. *)

\* The type invariant: jobs stand at a step of the handlers, and only runs that
\* were made are written, stored, cached or queued.
TypeOK ==
    /\ message \in [Triggers -> Contents]
    /\ pc \in [Jobs -> {"idle", "refused", "check", "context", "gather", "write",
                        "done", "skipped", "failed", "parked", "lost"}]
    /\ attempts \in [Jobs -> 0 .. MaxAttempts]
    /\ unbuilt \in [Jobs -> Nat]
    /\ run \in [Jobs -> {NoRun} \cup Created]
    /\ made \in [Runs -> [facts : SUBSET Slots, context : Slots] \cup {Unmade}]
    /\ pending \subseteq Created \X Writes
    /\ row \in [Slots -> [id : Created, from : Created] \cup {NoRow}]
    /\ cached \in [Slots -> {NoRun} \cup Created]
    /\ stored \subseteq Created
    /\ outbox \subseteq Created \X {"publish", "notify"}
    /\ faults \in 0 .. MaxFaults
    /\ hits \in [Jobs -> 0 .. faults]

\* A trigger that names an account and a date and whose handler returned, so
\* that its offset is committed, has had its insight stored: an error of
\* _store_insight reaches the consumer although three other writes run beside it.
AckedIsStored == \A j \in Jobs : pc[j] = "done" => run[j] \in stored

\* Account numbers are only unique within one institution (tenant.py): the
\* insight a company can read, in the table or in Redis, is made of that
\* company's transactions and alerts, whoever else generates for that account.
TenantIsolation ==
    \A c \in Companies : \A r \in {row[c].from, cached[c]} \ {NoRun} :
        made[r].facts \subseteq {c}

\* The row and the daily_insights event of a run are written by transactions
\* that do not know of each other: among the runs of a job, they differ at most
\* once per failure that struck the job.
Differing(j) == {r \in Created : /\ Maker(r) = j
                                 /\ <<r, "store">> \notin pending
                                 /\ <<r, "publish">> \notin pending
                                 /\ (r \in stored) # (<<r, "publish">> \in outbox)}

StoredIffPublished == \A j \in Jobs : Cardinality(Differing(j)) <= hits[j]

\* A trigger is parked because each of its attempts met a failure or data of
\* which no insight can be made, or because an insight that its company can see
\* had been stored.
ParkedForAReason ==
    \A j \in Triggers : pc[j] = "parked" =>
        \/ hits[j] + unbuilt[j] >= MaxAttempts
        \/ \E r \in stored : Sees(Scope[j], Slot(Scope[Maker(r)]))

\* Every trigger is handled or parked in the end, and stays so, whatever it says.
TriggersSettle == \A j \in Triggers : <>[]Settled(j)

\* "Force regeneration even if exists" (main.py:436): a forced task does not
\* fail unless something fails, or no insight can be made of what it read.
ForceRegenerates == \A j \in Forced : pc[j] = "failed" => hits[j] > 0 \/ unbuilt[j] > 0

\* "Handlers are idempotent ... because delivery is at-least-once"
\* (consumer.py:9): a trigger that was handled is not parked when it is delivered
\* again, unless no insight can be made of what is in the tables by then.
RedeliveryHarmless ==
    \A j \in Triggers : [](pc[j] = "done" => [](pc[j] = "parked" => unbuilt[j] > 0))

\* "Queries filter with tenant_ok(company_id)" (tenant.py:7): the business
\* context an insight of a company was made with is not another company's.
ContextIsolation ==
    \A c \in Companies : row[c] # NoRow => made[row[c].from].context \in {c, NoCompany}
=============================================================================
