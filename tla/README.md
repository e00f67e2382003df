# Verification of the insight engine

TLA+ models of the insight engine of CEO OS (`src/` of the repository): a FastAPI
service that builds one summary ("insight") per account and day out of transactions
and fraud alerts it receives from Kafka, stores it in PostgreSQL, publishes it through
an outbox, and serves it to the companies' users. TLC checks the models on small
instances; TLAPS proves the main invariants for every value of the constants.

Paths below are relative to the repository, so `src/kafka/outbox.py` in the text is
`src/src/kafka/outbox.py` in `PROJECT.json`, which counts from the directory above it.

## 1. Inventory

| Component | State it keeps | Operations | What is hard about it |
|---|---|---|---|
| Reliable consumer, `src/kafka/reliable_consumer.py` | in memory: the batch of the last poll, the attempt, `_stopping`; in Kafka: group membership, positions, committed offsets, dead-letter topics | `start`, `stop`, `_run` (connect, reconnect with a delay), `_loop` (poll, handle, commit per partition), `_handle` (retries), `_dead_letter` | crash between handling and commit; rebalance in mid-batch; lost acknowledgements of commits and of dead-letter writes; poison messages, and those too large to park; shutdown that cancels a batch |
| Outbox relay, `src/kafka/outbox.py` | table `outbox`; one Kafka producer per process; the row locks of the open transaction | `send`, `send_batch`, relay loop, `_publish_batch`, `_housekeeping`, `stop` | crash between the send and the commit; several replicas; a send that fails in mid-batch, or lands after its relay gave up; a row Kafka never takes |
| Insight generation, `src/generators/daily_summary.py` | table `daily_insights` (unique per company, account, date); a key in Redis; outbox rows | `generate_daily_summary`: check, business context, parallel reads, rules, then four concurrent writes | concurrent generations of the same insight; partial failure of `asyncio.gather`; a crash that ends several generations; retries after a lost acknowledgement; generating what exists; data of which no insight can be made |
| Handlers, `src/kafka/consumer.py` | tables `transactions`, `fraud_alerts` | `on_trigger`, `on_transaction`, `on_alert` | redelivery and reordering; messages without a date; triggers that are acknowledged without effect; keys that are unique only per company |
| API, `src/main.py` | none of its own besides the background tasks | generate (409 / force / 202), read endpoints, delete, health | stale 409 check; tasks lost in a crash; deletion during a generation |
| Tenant scoping, `src/utils/tenant.py`, `src/utils/auth.py` | a context variable; a setting on each pooled connection | `use_tenant`, `setting_value`, `scoped`, `tenant_ok` | account numbers shared by companies; connections shared by requests |
| Response cache, `src/utils/cache.py` | one LRU dictionary per endpoint and process | the wrapper of `cache_result` | an `await` between lookup and store; staleness; the bound |
| Gathering, `daily_summary.py` | the rows each of its tasks has read | seven queries of three parallel tasks, whose errors leave a part empty | no snapshot: rows arrive between the queries; one bad row hides others; limits |
| Rules and models, `daily_summary.py`, `src/models/insight.py` | none | metrics, trends, risks, opportunities, recommendations, sentiment, confidence, validation | boundaries of numeric rules; signs and zeros; values that do not survive storing and reading |
| Schema, migration, configuration, logging, packaging | - | idempotent DDL under an advisory lock; settings | not modelled, see section 7 |

How they interact: the consumer calls the handlers and repeats them on an exception;
`on_trigger` and the background task of the API call the generator; the generator
inserts into the outbox, whose relay publishes; the response cache sits in front of
the read endpoints; every query of the generator runs on a pooled connection tagged
with the tenant of its caller. Two or more processes (`--workers 2`, replicas) run all
of this at the same time and share Kafka, PostgreSQL and Redis.

What makes each correct:

* consumer: no record is committed past without an outcome; outcomes of a partition in
  order; a record is parked only with its attempts used up; a poison message does not
  block a partition (it does if it is too large to park: finding 1);
* outbox: a row is marked only when Kafka has it; replicas have disjoint batches;
  duplicates come from failures only; no delivery of a marked row begins; every
  acceptable row is sent in the end;
* generation: an acknowledged trigger that names an account and a date has a stored
  insight; no data crosses companies; row and event do not drift apart without a failure
  of their job; a trigger is parked for a reason of its own; triggers settle;
* local copies: one row per key, made of the first message that had it and never
  changed; nothing acknowledged is lost;
* gathering and rules: the metrics of an insight are those of one moment; its parts
  differ only by what arrived meanwhile; alerts that were there are reported; what is
  stored can be read;
* cache: bounded; keyed by scope; a hit is at most one ttl behind.

## 2. Modules

| Module | Models | Notes |
|---|---|---|
| `AtLeastOnce` | what the consumer promises | abstract: three variables, three actions |
| `ReliableConsumer` | the consumer tasks of a group, with the broker as environment | implements `AtLeastOnce` |
| `DurableQueue` | what the outbox promises | abstract: four variables, five actions |
| `OutboxRelay` | callers of `send` and the relay tasks | implements `DurableQueue`; row locks and commits of PostgreSQL are external |
| `InsightGeneration` | requests, triggers and their generations of the insight of one account and date | retries of the consumer included |
| `FirstWins` | what a local copy of a topic promises | abstract: one variable, one action |
| `LocalCopies` | `on_transaction` and `on_alert` and their two tables | implements `FirstWins`, twice |
| `SummaryRules` | the rules of `daily_summary.py` and the bounds of the models they fill | operators only, no state |
| `DailySummary` | one generation, query by query, while the handlers write | composes `LocalCopies` and `SummaryRules` |
| `StaleReads` | what a cached endpoint promises | abstract: a clock, the answers and the calls |
| `ResponseCache` | concurrent calls of one cached endpoint | implements `StaleReads` |
| `AmountSums` | what `SUM(amount)` of a finite set is | lemmas only, for `DailySummaryProofs` |
| `*Proofs` | the theorems about each | |
| `MC*` | instances for TLC | |

**ReliableConsumer.** `pc[m]` says where the task of process m stands: `off`, `retry`
(in `_run`, not connected), `poll`, `batch` (between partitions), `handle`, `park`
(awaiting the dead-letter write), `commit`. A batch is the interval `next .. end-1` per
partition. Rebalances give partitions to any member at any connect, leave, eviction or
rejoin; a member is not told, its task goes on (aiokafka only refuses its commits).
`FetchPosition` is the only way to learn a position, from the committed offset. Errors
whose effect is unknown (commit, dead-letter write) have both outcomes. A process that
stopped or crashed starts again, as its supervisor makes it do. A record is of one of
`Kinds`: it parses or not, and its dead-letter envelope fits in a message or not.
`_dead_letter` decodes the value with replacements and encodes it again in JSON, where a
byte may take six, so a record that Kafka took may be refused when it is to be parked
(`DeadLetterRejected`), at every delivery. A dead-letter write whose answer was not
awaited may still arrive (`EnvelopeMayArrive`): `_close` stops, and so flushes, the
producer after the consumer. Not in the model: the length of delays, `_report_lag`, and
records a client prefetched before it was evicted (it drops them when it rejoins).

**OutboxRelay.** `row[i]` is what other transactions see of row i (`open` until the
caller commits, in any order), `lock`, `todo` and `marked` are the transaction of each
relay. The send and its UPDATE are one step, because the mark stays invisible until the
commit. `oversize` rows are those Kafka always rejects. `attempts` and `last_error` are
written and never read, so they are left out. When a relay stops waiting for a send (an
outage, a failed transaction, a crash, or `stop`, which cancels the task, lets the
rollback free the locks and only then flushes the producer), its message may be lost, or
be under way (`adrift`) and land at any later time (`LoseSight`, `Land`), also after
another relay has sent and marked the row. `DurableQueue` has such deliveries as `late`
ones. As `DurableQueue` sees it, a row is queued once its caller commits and settled
once its mark does; fetching, rollbacks, crashes, `_housekeeping` and insertions that
abort are invisible.

**InsightGeneration.** A job is a request of the API or a trigger message; a run is a
`DailyInsight` object with the job that made it and the companies whose rows it was made
of. A run is `<<j, n>>`, the n-th insight of job j. A failure strikes a set of jobs
(`Struck`): a query one job, a refused commit any triggers that were done, and a crash
any jobs at work, since the background tasks of the API and the consumer share a process
(`main.py:163`, `main.py:455`). `faults` counts failures, and `hits[j]` those that
struck j. Without a failure an attempt may still fail on its own data, which
`unbuilt[j]` counts: the date is none (`Undatable`, `consumer.py:42`), a recommendation
or a text is rejected by its model (`Unbuildable`; which data this happens to is the
subject of `DailySummary`). `message[j]` is what a trigger says, chosen at the start out
of `Contents` and never changed; one without an account or a date is acknowledged and
forgotten (`Skip`, `consumer.py:39`), which leaves it at `skipped` and not at `done`. If
a member that lost its partition goes on with a record that another member handles too,
that is two triggers of the model. `pending` holds the writes that `asyncio.gather`
started: only the store's error reaches the job, the rest go on by themselves.
`row[c].id` and `row[c].from` differ when an upsert met an existing row: the id is the
first run's, the content the last one's. The existing row never converts back in
`_check_existing`: `tags` is NULL in the schema the service creates (no INSERT names the
column) and the model wants a list; with the schema of `scripts/init_db.sql` the null of
the infinite runway does the same. Each query is one step: it has its connection to
itself.

**LocalCopies.** A message is a record with the fields the handlers take; `Absent` is
None or NULL. `TxRow` and `AlertRow` are the conversions: the missing company becomes
`""`, the missing status COMPLETED, the missing date the day of handling. Any message
may come at any time and any number of times, which is what at-least-once delivery over
several partitions comes to. A moment is its day. An amount is any integer
(`AmountsAssumption`): the queries take its sign from the type (`daily_summary.py:614`),
but no handler and no column asks it to be positive. Properties that need positive
amounts say so (`Unsigned`).

**SummaryRules.** The facts are a record of integers; a quotient of the code is compared
by multiplying it out, so that thresholds in per cent are exact where the code has
floats. Probabilities are in thousandths, so that the two risk tolerances (times 0.7
and 1.3) are exact. A rule is a set that is empty or holds the risk, the opportunity or
the recommendation; the sets are joined in the code's order of the rules, which decides
nothing. `Metrics(f)` brings the two averages to a common denominator. `Readable` is
what the pydantic models accept when `row_to_insight` builds them again.

**DailySummary.** `step[t]` is the query at which task t of `_gather_all_data` stands:
`metrics` makes four (`_get_daily_stats` for two days, burn, balance), `events` two,
`trends` one. Each query is an action of its own and sees the tables of its moment;
`Ingest` runs between them. `Top` is `ORDER BY ... DESC LIMIT`, with NULL first and ties
in any order. `LoseTask` is a failed query, which `return_exceptions=True` turns into an
empty part; `ReadFraud` fails by itself on an alert without an amount or a score
(`float(None)`), `ReadLarge` on a large transaction of a vendor whose name does not fit in
`KeyEvent.impact` (`LongNames`; 200 characters of which the prefix takes eight, while the
column takes 255), `ReadHistory` may fail once it has 14 days (Decimals and floats do not
mix in its data frame). `Build` is one step: from the last query to the insight nothing
is awaited but the texts. `Facts` are the numbers of the rows that were read, and
`insight` the facts the insight was made of. `TooLong` is a text of OpenAI that the
model rejects. `before` is the state of the tables when the generation began; only
properties read it. Other jobs for the same insight are the subject of
`InsightGeneration`, which in turn knows only whose rows an insight is made of.

**ResponseCache.** The event loop makes the wrapper atomic up to the `await` (`Hit`,
`Miss`) and after it (`Put`); `Load` is the moment of the query. The answer to a key is
a history of versions with the time each appeared; generation, deletion and midnight
(for the default date) are all a new version. As `StaleReads` sees it, a miss asks, its
`Put` replies or its error abandons, and a hit asks and is answered in one step; the
store, its keys, the order of use and the loads are invisible.

## 3. Runs

| Run | Instance | Shows |
|---|---|---|
| `consumer` | 2 members, 1 partition, 2 records of three kinds, 2 attempts, 1 fault | `TypeOK`, `SettledInOrder`, `TriesBelongToRecord`, the refinement `KeepsPromise` and, with fairness, `EventuallyCommitted` |
| `consumer_partitions` | 2 members, a routed and an unrouted partition, 1 record each, 2 faults, symmetric members | `CommittedIsSettled` |
| `consumer_poison` | 1 member, 2 records, no faults | *violated*: a record too large to park blocks its partition (finding 1) |
| `outbox` | 2 relays, batch 2, 3 rows, 2 faults | four invariants, the refinement `KeepsQueue` and, with fairness, `EventuallySent` |
| `outbox_order` | the same without faults | *violated*: rows are not published in order (finding 2) |
| `generation` | an admin's request and a company's trigger that is complete, has a bad date or has none, 2 companies, 2 attempts, 1 fault that may strike both | five invariants and, with fairness, `TriggersSettle` |
| `generation_force` | a forced request and a trigger of one company | *violated*: force does not regenerate (finding 3) |
| `generation_redelivery` | one trigger alone, 2 attempts, 1 fault | *violated*: handled, delivered again, parked (finding 4) |
| `generation_context` | two companies, the row of `accounts` belongs to one | *violated*: the other's insight uses it (finding 5) |
| `summary` | a company or an admin; an empty, a small and a two-week history; 2 of 8 messages, 2 days, limits 2 and 1, 1 fault | eleven invariants and the refinement `CopiesFirstWins` |
| `summary_unreadable` | a company, the small history, 2 messages, no faults | *violated*: a stored insight cannot be read (finding 6) |
| `cache` | 2 calls, 2 scopes, 1 entry, ttl 2, clock to 4 | `TypeOK`, `Bounded`, `StaleByTtlAtMost` and the refinement `KeepsReads` |

Bounds. Two members or relays are enough for every pairwise race, and each component
serialises within a process. Two records make a batch with a first and a last record, so
that a commit can cover a record that was not the last one handled, two outcomes can
come in the wrong order and a commit can move back inside a batch. Three rows with
batches of two give a full batch, a rest, and a gap left by an aborted insertion. Two
attempts separate "retried" from "used up". One entry and two keys make every second
store evict. In `summary` the eight messages hold one of each kind that matters: a later
status, the same id of another company, a vendor with a long name, no date, a negative
amount, no account, an alert without an amount, an alert id used twice; two of them,
with redelivery at any time, give every pair. The histories reach what messages cannot
in so few steps: no row at all, a previous day with small numbers, and 14 days of
growing revenue. The limits of 10 and 5 become 2 and 1, and 10000 becomes 50, so that
limits bind and a large amount needs one digit less; the day changes at most once.
Faults (crashes, evictions, refused or unacknowledged writes) are bounded because each
multiplies the states; the theorems hold for any number of them. Jobs and faults bound
the runs by themselves (one admin and one company are the pair whose rows differ in
which of the two sees the other's, and an admin's insight, which belongs to no company,
is what a company's trigger must neither read nor be stopped by; a job makes an insight
more only for a failure, and `RoomForInsight` proves that the bound stops nobody).
`CHECK_DEADLOCK FALSE` is used for the generations only (`generation*`, `summary*`),
which end; the consumer and the relay never stop, their idle poll is a step that changes
nothing.

Fairness. Weak fairness of each task's own steps: an asyncio task that is ready is
scheduled, the supervisor restarts processes, and queries and polls return. Nothing is
assumed of faults, which are finitely many, nor of `Produce`, `Insert` or `Request`.
`EventuallyCommitted` further assumes `RefusalsStop`. That is not given by the code: a
member whose commit is refused reconnects, which moves partitions in the middle of the
other member's batch, and two members can keep refusing each other for ever; the
property says what holds once that ends. It also assumes that every envelope fits
(`AllFit`), since `consumer_poison` shows what happens otherwise, and it says "has been
committed", not "stays committed": a member that lost a partition and regained it
commits the older end of its batch, and the group's offset moves back until the next
record. `TriggersSettle` needs the restart of a process and the redelivery that follows,
which is what weak fairness of `Deliver` comes to. `EventuallySent` speaks of rows with
no oversize row at or before them: one that Kafka always rejects ends every batch at its
place, and nothing takes it out of the way.

## 4. Findings

1. `reliable_consumer.py:8` says that after the last attempt a message goes to the
   dead-letter topic and the partition moves on. The envelope is larger than the record,
   up to six times where it is no text; if it is larger than the producer takes, the write
   is refused at every delivery, and the partition stays at this record for good.
2. `outbox.py:5` says rows are published in order. With `SKIP LOCKED` a second replica
   publishes newer rows while the first one still holds the older ones.
3. `main.py:436` says `force` regenerates. `generate_insight_task` never uses it, and
   the generation fails on the existing row.
4. `consumer.py:9` says handlers are idempotent. A trigger that was handled, and comes
   back because its process ended or its commit was refused before the offset of its
   batch was committed, finds its insight, fails in all its attempts and goes to the
   dead-letter topic. (The same happens in the process itself when the acknowledgement
   of the upsert is lost.)
5. `tenant.py:7` says queries filter with `tenant_ok(company_id)`. The query of the
   business context does not, and its result is kept in the insight's metadata.
6. `insight.py:138` says a value can be negative, and `main.py:294` that stored rows are
   tolerated. A profit that turns into a larger loss falls by more than the 100 per cent
   the model takes, and a small number may grow by more than 1000: the insight is stored
   unvalidated, and every request whose answer holds it gets an error.

Besides, invariants that hold record behaviour that no document contradicts but that a
reader may not expect:

* the burn is negated before it is asked to be positive, so that spending never leads to
  a warning of a short runway; only a debit that came with a negative amount can
  (`CashRiskNeedsNegativeDebit`);
* rows that show a revenue growing by more than 5 per cent get no insight, because the
  recommendation they lead to has a timeframe that its model rejects, unless the
  computation of the trends fails, which hides the growth (`GrowthNeverReported`);
* an account without any row has enough data, a margin of 0 and so an urgent insight
  with a confidence of 70 per cent or more every day (`InsufficientNeedsFault`,
  `QuietDayIsUrgent`);
* one alarming alert without an amount or a score, or one large transaction of a vendor
  with too long a name, hides all other events (`EventsMissingForAReason`);
* the alert of a second company under an id that is in use is dropped: `AckedIsKept`
  promises a row of its own company for transactions only;
* a trigger without an account or a date leaves no trace, while one with a bad date is
  tried `max_attempts` times and parked (`AckedIsStored`, `ParkedForAReason`);
* the sentiment is clamped at 0, so the labels of negative sentiment are never given,
  and with a low risk tolerance a probability may be 1.04 (theorems
  `SentimentNeverNegative`, `ProbabilityBound`).

## 5. Proofs

No theorem assumes anything but the named `ASSUME`s of its module (finite or non-empty
parameters, positive attempts, distinct special values, integer amounts); the two that
also have a hypothesis on a constant, `OrderOfOneRelay` and `ExactlyOnceAlone`, say so.
Every safety property that a passing run checks is also a theorem. In each module of
proofs the theorem `Invariance` proves an inductive invariant `IInv` with one lemma per
action.

* `ReliableConsumerProofs`: the invariants alone are not inductive, since a commit is
  only right if the batch began within what was settled. `IInv` adds that each batch is
  an interval of the log, that everything below its `next` is settled, and that
  positions and committed offsets are within the settled prefix plus the batches in
  hand; `TriesOf` says what the attempts of each place are worth. From it:
  `TypeCorrect`, `NothingDropped`, `OrderKept`, `TriesInHand`, and `PromiseKept`, the
  refinement of `AtLeastOnce` (initial states map to initial states, each step to a step
  or a stutter). `ExactlyOnceAlone` says what repetition is due to: with one member,
  until something fails and while every envelope fits, no record is handled to an end
  twice and no commit moves back. It rests on `Alone`: what is settled of a partition is
  exactly what the member has gone through, and its position is the end of its batch or
  the committed offset. One failure is enough to lose it, also with one member.
* `OutboxRelayProofs`: `IInv` adds that a locked row is pending, that a relay's batch is
  locked by it, and that marked rows are in Kafka (`MarkSound`), without which a commit
  could mark an unsent row. From it: `TypeCorrect`, `NoRowLost`, `BatchesApart`, and
  `QueueKept`, the refinement of `DurableQueue`. `DuplicatesAreFaults` needs a count: the
  copies in Kafka and those adrift (`Versions`) of a row that nobody has marked are at most
  as many as there were faults (`CopiesOK`), a send marks what it publishes, and a copy that
  lands was counted when it was lost sight of. Two theorems say how much order is left of
  finding 2: `OrderOfBatch` (within one transaction of a relay rows
  reach Kafka in the order of ids) and, from it, `OrderOfOneRelay` (with a single relay
  `PublishedInOrder` holds). Both rest on `LocksAreBatch`: while a relay has something
  to send, the rows it has locked are those to be sent and those it has marked.
* `InsightGenerationProofs`: `IInv` adds that a store is under way only while its job
  waits for that very run (so an acknowledged job's run is stored, and a job that
  failed leaves no store behind), and that what is under a company's key was made by a
  job of that company. From it: `Acknowledged` and `Isolation`. `FullInv` adds types,
  that rows show stored runs, and that a trigger has no more failed attempts than failures
  struck it and its data account for, unless its company can see a stored insight
  (`AttemptsOK`): `TypeCorrect` and `ParkedRightly`. The others count job by job, so that a
  crash of any number of jobs is one step that adds one to each. `RowAndEvent`: a run that
  lost a write, or whose job gave it up with its event still under way, has a failure of
  its own among those that struck its job (`Charged`); a crash can cost only the one run
  its job waits for, since the others were charged before. `InsightsPaidFor`: the insights
  of a job and the one it may still make without another failure (`Due`) are at most one
  more than its failures (`RunsPaid`); with numbers given out without gaps this also gives
  `RoomForInsight`. `HarmlessWithoutFailure` and `FailedForAReason` say what is left of
  findings 4 and 3 for a job that no failure struck, from `Orderly`: the only insight of
  such a job is the one it is writing or has written.
* `SummaryRulesProofs`: theorems about the rules for all facts (each assumes no
  more than the types of those it uses): `NoCashRisk`, `ProbabilityBound`,
  `GrowthIsRejected`, `AlertsAreUrgent`, `QuietDays`, `SentimentNeverNegative`,
  `ShownConfidence`, `OnlyProfitFalls`.
* `DailySummaryProofs`: `IInv` says that what was read of today's rows is complete since
  the generation began (`MetricsWithinGathering`), that the fraud events are a full
  choice of the alarming alerts or have reached the limit (`EventsOK`), that a lost part
  has its reason (`LossOK`), and that an insight says what was read (`InsightOK`). It
  needs that rows are only ever added, which is the theorem `FirstWinsKept`. From it and
  the rules: `TypeCorrect`, `MetricsOfOneMoment`, `PartsDiffer`, `EventsMissing`,
  `DataAlwaysSufficient`, `GrowthUnreported`, `AlarmRaised`, `QuietUrgent`,
  `AcknowledgedKept`. `CashWarning` and `ProfitAloneFalls` apply two of the rules to
  what the queries can return: `FiguresOK` says of which rows the figures of an insight are
  the sums, which are integers, and natural numbers where the rows are `Unsigned`.
  `FiguresOfOneMoment` goes further than `MetricsOfOneMoment`: the number of transactions,
  and on a day without negative amounts revenue and expenses, lie between those at the
  beginning and those at the end of the gathering, because counts and such sums of rows
  that are only added only grow.
* `AmountSums`: the lemmas `AmountOf` (a sum of integer amounts is an integer, from which
  any row may be taken out first) and `AmountsGrow` (a sum of amounts that are not negative
  is not larger over a subset), for the fold `MapThenSumSet`. The fold is a
  recursive function whose steps `CHOOSE` a row; the induction over finite sets is a
  minimal counterexample (`WFMin` and the well-foundedness of strict subsets), since
  the induction theorems of the library take an operator no prover can instantiate.
  First, the recursion has exactly one solution; then any row may be taken out first.
* `ResponseCacheProofs`: `IInv` says that a stored or travelling result was current at
  the time it carries or later (`Fresh`); a new version appears at the present time and
  so keeps it true. From it: `BoundedStaleness`, `Separation` (`TenantsApart`, which the
  runs check as part of `KeepsReads`), and `CacheRefinement`, the refinement of
  `StaleReads`. `OrderOK` adds that the order of use lists the stored keys, each once,
  and no more than `MaxEntries` of them: one `popitem` is enough each time. From it:
  `StoreBounded`, `TypeCorrect`, and `StoredIsKept` (a call never evicts what it has just
  stored, also with a store of one entry). `RemovedAt`, `MovedToEnd` and `FirstDropped` say
  what `move_to_end` and `popitem` do to a list without repetitions.

Only model-checked: the liveness properties (`EventuallyCommitted`, `EventuallySent`,
`TriggersSettle`; fairness and ENABLED are out of the prover's reach). The violated runs
show what they show on their instance; that what a finding blames is its only cause is
proved of findings 2 and 4 (`OrderOfOneRelay`, `HarmlessWithoutFailure`).

## 6. Plan

Done, in this order: consumer, outbox, generation, cache, local copies, rules, gathering,
the abstract queue, the abstract cache. What could be added:

1. A composition of `InsightGeneration` with `DurableQueue`, so that "stored if and only
   if published" reaches Kafka; `KeepsQueue` and `StoredIffPublished` are its two halves.
2. The latest, recent and summary endpoints over tables of several insights: one
   unreadable row makes a whole page of recent insights fail.
3. The weekly statistics and the volatility, if a rule should begin to use them.
4. `ExactlyOnceAlone` for several members and with failures, as a count like
   `DuplicatesAreFaults`: how often a record is handled again, in terms of the faults and
   of the rebalances, which the model would have to count.

## 7. Not modelled

Lifecycle of the application (`lifespan` starts and stops the parts in sequence), health
and readiness endpoints, authentication (a pure decision per request), configuration,
logging, metrics, error pages, packaging: no state whose changes could interleave.
Schema and migration are idempotent DDL under one advisory lock; the keys they declare
are used in the modules. Connections of the pool are not modelled: every query is taken
to run under the scope of its caller, as the setup hook makes it. Nor is a request that
a crash forgets more than that: it is `lost`, and no document promises it back. Of the
rules, what decides nothing is left out: the wording of summaries, recommendations and
events, the statistics of the week, the month and the year (their failure is one of the
task `metrics`), weekly changes, volatility, colours and emojis. Limits on the length of
texts appear only where a text comes from outside (`TooLong`, `Unnameable`, the envelope
of a record). Rounding of floats is not modelled: the rules compare exact quotients, so
a value within one rounding error of a threshold may fall on the other side in the code.
Amounts are whole numbers (`AmountsAssumption`) and moments are days, so the windows of
30 and 90 days begin at midnight. The models of `insight.py` that no code builds
(forecasts, reviews, alerts of trends) are not there. Redis is written and never read
back by this service: the model keeps only whose insight is under which key.
