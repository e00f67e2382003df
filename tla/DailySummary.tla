---------------------------- MODULE DailySummary ----------------------------
(***************************************************************************)
(* One generation of a daily summary (src/generators/daily_summary.py), from *)
(* the first query to the stored row, while the Kafka handlers go on writing *)
(* the tables it reads.                                                      *)
(*                                                                          *)
(* _gather_all_data runs its tasks at once.  Each has a connection of its    *)
(* own and no transaction, so that every query sees the tables of its own    *)
(* moment.  The statistics of the week, the month and the year are read and  *)
(* decide nothing; they and their failures are part of the task "metrics".   *)
(* InsightGeneration has the generations of several jobs at once.            *)
(***************************************************************************)
EXTENDS LocalCopies, SummaryRules, FiniteSetsExt

CONSTANTS Account,      \* account_id
          Scopes,       \* the tenants that may ask: companies or All
          All,          \* the scope of admins
          TargetDate,   \* target_date
          Tolerances,   \* values of accounts.risk_tolerance
          LargeAmount,  \* 10000 in _get_large_transaction_events
          FraudLimit,   \* LIMIT 10 in _get_fraud_events
          LargeLimit,   \* LIMIT 5 in _get_large_transaction_events
          LongNames,    \* vendors whose name has more than 192 characters
          OpenAI,       \* whether openai_client is there
          MaxFaults     \* bound: failed queries

ASSUME SummaryAssumption == /\ FraudLimit \in Nat \ {0} /\ LargeLimit \in Nat \ {0}
                            /\ LargeAmount \in Nat /\ MaxFaults \in Nat
                            /\ TargetDate \in Int /\ OpenAI \in BOOLEAN

VARIABLES scope,      \* the tenant of the generation
          tolerance,  \* business_context.risk_tolerance
          pc,         \* where the generation stands
          step,       \* step[t]: the next query of task t, or how t ended
          read,       \* the rows each query returned
          before,     \* the tables when the generation began
          insight,    \* the facts the insight was built of
          error,      \* why the generation ended without an insight
          faults      \* faults used so far

generation == <<scope, tolerance, pc, step, read, before, insight, error, faults>>
vars == <<copies, generation>>

Tasks == {"metrics", "events", "trends"}
NoRows == [transactions |-> {}, fraud_alerts |-> {}]
NoInsight == [known |-> FALSE]

Init == /\ InitCopies
        /\ scope \in Scopes
        /\ tolerance \in Tolerances
        /\ pc = "idle"
        /\ step = [metrics |-> "today", events |-> "fraud", trends |-> "history"]
        /\ read = [today |-> NoRows, previous |-> NoRows, burn |-> {}, balance |-> {},
                   fraud |-> {}, large |-> {}, history |-> {}]
        /\ before = NoRows
        /\ insight = NoInsight
        /\ error = "none"
        /\ faults = 0

-----------------------------------------------------------------------------
(* The queries: WHERE account_id = $1 AND tenant_ok(company_id) AND ... *)

Visible(table) == {r \in table : r.account = Account /\ scope \in {All, r.company}}

Alarming(f) == f.level \in {"HIGH", "CRITICAL"}

\* _get_daily_stats
Daily(tables, day) ==
    [transactions |-> {t \in Visible(tables.transactions) : t.day = day /\ t.status = "COMPLETED"},
     fraud_alerts |-> {f \in Visible(tables.fraud_alerts) : f.day = day}]

Now == [transactions |-> transactions, fraud_alerts |-> fraud_alerts]

Debits == {t \in Visible(transactions) : t.type = "DEBIT" /\ t.day > today - 30}

Balance == {t \in Visible(transactions) : t.status = "COMPLETED"}

History == {t \in Visible(transactions) : t.day > today - 90}

\* ORDER BY column DESC LIMIT limit: NULL comes first, equals in any order.
Top(rows, column, limit) ==
    {chosen \in SUBSET rows :
        /\ Cardinality(chosen) = IF Cardinality(rows) < limit THEN Cardinality(rows) ELSE limit
        /\ \A r \in chosen, q \in rows \ chosen :
              \/ r[column] = Absent
              \/ q[column] # Absent /\ q[column] <= r[column]}

\* MUTANT of FraudRows: one level only.
FraudRowsCritical == {f \in Visible(fraud_alerts) : f.day = TargetDate /\ f.level = "CRITICAL"}

\* MUTANT of FraudRows: every level.
FraudRowsAnyLevel == {f \in Visible(fraud_alerts) : f.day = TargetDate}

FraudRows == {f \in Visible(fraud_alerts) : f.day = TargetDate /\ Alarming(f)}

LargeRows == {t \in Visible(transactions) : t.day = TargetDate /\ t.amount > LargeAmount}

-----------------------------------------------------------------------------
(* The facts of the rows. *)

Total(rows, type) == MapThenSumSet(LAMBDA t : t.amount, {t \in rows : t.type = type})

Days(rows) == {t.day : t \in rows}

Stats(r) == [transactions |-> Cardinality(r.transactions),
             revenue      |-> Total(r.transactions, "CREDIT"),
             expenses     |-> Total(r.transactions, "DEBIT"),
             total        |-> MapThenSumSet(LAMBDA t : t.amount, r.transactions),
             vendors      |-> Cardinality({t.vendor : t \in r.transactions} \ {Absent}),
             alerts       |-> Cardinality(r.fraud_alerts),
             highAlerts   |-> Cardinality({f \in r.fraud_alerts : Alarming(f)})]

Enough(rows) == Cardinality(Days(rows)) >= 14

\* _analyze_single_trend: the mean of the last seven values of rolling(7).mean()
\* and the mean of the up to seven before them that are defined.  The n-th value
\* is the mean of the n-th day that has rows and of the six such days before it.
Trend(rows, type) ==
    LET days == Days(rows)
        last == Cardinality(days)
        earlier == (IF last - 13 < 7 THEN 7 ELSE last - 13) .. last - 7
        Week(n) == LET week == {d \in days : Cardinality({e \in days : e <= d}) \in n - 6 .. n}
                   IN  Total({t \in rows : t.day \in week}, type)
    IN  [recent   |-> Cardinality(earlier) * MapThenSumSet(Week, last - 6 .. last),
         previous |-> 7 * MapThenSumSet(Week, earlier)]

TrendOf(type) == IF step.trends = "done" /\ Enough(read.history)
                 THEN Trend(read.history, type)
                 ELSE NoGrowth

Facts ==
    LET of(task, rows) == IF step[task] = "done" THEN rows ELSE {}
        stats(r) == IF step.metrics = "done" THEN Stats(r) ELSE Stats(NoRows)
        large == of("events", read.large)
    IN  [known        |-> step.metrics = "done",
         now          |-> stats(read.today),
         previous     |-> stats(read.previous),
         spent        |-> Total(of("metrics", read.burn), "DEBIT"),
         spendingDays |-> Cardinality(Days(read.burn)),
         balance      |-> Total(read.balance, "CREDIT") - Total(read.balance, "DEBIT"),
         fraud        |-> Cardinality(of("events", read.fraud)),
         credits      |-> Cardinality({t \in large : t.type = "CREDIT"}),
         debits       |-> Cardinality({t \in large : t.type # "CREDIT"}),
         trends       |-> step.trends = "done" /\ Enough(read.history),
         revenueTrend |-> TrendOf("CREDIT"),
         expenseTrend |-> TrendOf("DEBIT"),
         tolerance    |-> tolerance]

-----------------------------------------------------------------------------
(* The handlers of Kafka. *)

Ingest == /\ Consume \/ Midnight
          /\ pc \in {"idle", "gather"}
          /\ UNCHANGED generation

-----------------------------------------------------------------------------
(* generate_daily_summary, when no insight exists. *)

Fault == faults < MaxFaults /\ faults' = faults + 1

Start == /\ pc = "idle"
         /\ pc' = "gather"
         /\ before' = Now
         /\ UNCHANGED <<copies, scope, tolerance, step, read, insight, error, faults>>

\* Task t makes the query at which it stands, and goes on to the next one.
Query(t, at, next, query, rows) ==
    /\ pc = "gather"
    /\ step[t] = at
    /\ step' = [step EXCEPT ![t] = next]
    /\ read' = [read EXCEPT ![query] = rows]
    /\ UNCHANGED <<copies, scope, tolerance, pc, before, insight, error, faults>>

ReadToday == Query("metrics", "today", "previous", "today", Daily(Now, TargetDate))

\* MUTANT of ReadPrevious: the statistics of two days are confused.
ReadPreviousAsToday == Query("metrics", "previous", "burn", "today", Daily(Now, TargetDate - 1))

ReadPrevious == Query("metrics", "previous", "burn", "previous", Daily(Now, TargetDate - 1))
ReadBurn == Query("metrics", "burn", "balance", "burn", Debits)
ReadBalance == Query("metrics", "balance", "done", "balance", Balance)

\* float(None): an alert may come without an amount or a score.
Unformattable(f) == Absent \in {f.amount, f.score}

ReadFraud == \E rows \in Top(FraudRows, "score", FraudLimit) :
    Query("events", "fraud",
          IF \E f \in rows : Unformattable(f) THEN "failed" ELSE "large", "fraud", rows)

\* KeyEvent.impact, "Vendor: " and the name, has at most 200 characters, and a
\* vendor_name may have 255.
Unnameable(t) == t.vendor \in LongNames

ReadLarge == \E rows \in Top(LargeRows, "amount", LargeLimit) :
    Query("events", "large",
          IF \E t \in rows : Unnameable(t) THEN "failed" ELSE "done", "large", rows)

\* With 14 days or more the arithmetic of the data frame may raise: its columns
\* hold Decimals, which do not mix with floats, and may divide by a zero.
ReadHistory == \E ending \in {"done"} \cup When(Enough(History), "failed") :
    Query("trends", "history", ending, "history", History)

\* return_exceptions=True: the error of a task leaves its part empty.
LoseTask(t) == /\ Fault
               /\ pc = "gather"
               /\ step[t] \notin {"done", "failed"}
               /\ step' = [step EXCEPT ![t] = "failed"]
               /\ UNCHANGED <<copies, scope, tolerance, pc, read, before, insight, error>>

Fail(reason) == /\ pc' = "failed"
                /\ error' = reason
                /\ UNCHANGED <<copies, scope, tolerance, step, read, before, insight>>

Sufficient(f) == DataPoints(f) >= MinDataPoints

Insufficient(f) == /\ ~Sufficient(f)
                   /\ Fail("data")
                   /\ UNCHANGED faults

\* Recommendation(...) raises a ValidationError.
Reject(f) == /\ Sufficient(f)
             /\ ~Valid(f)
             /\ Fail("recommendation")
             /\ UNCHANGED faults

\* The text of OpenAI, of up to 150 tokens, has more than 500 characters; an
\* error of OpenAI itself only leads to the text of the template.
TooLong(f) == /\ OpenAI
              /\ Sufficient(f)
              /\ Valid(f)
              /\ Fail("summary")
              /\ UNCHANGED faults

Create(f) == /\ Sufficient(f)
             /\ Valid(f)
             /\ pc' = "store"
             /\ insight' = f
             /\ UNCHANGED <<copies, scope, tolerance, step, read, before, error, faults>>

Build == /\ pc = "gather"
         /\ \A t \in Tasks : step[t] \in {"done", "failed"}
         /\ \E f \in {Facts} : Insufficient(f) \/ Reject(f) \/ TooLong(f) \/ Create(f)

Store == /\ pc = "store"
         /\ pc' = "stored"
         /\ UNCHANGED <<copies, scope, tolerance, step, read, before, insight, error, faults>>

StoreError == /\ Fault
              /\ pc = "store"
              /\ Fail("store")

Task == \/ ReadToday \/ ReadPrevious \/ ReadBurn \/ ReadBalance
        \/ ReadFraud \/ ReadLarge \/ ReadHistory
        \/ \E t \in Tasks : LoseTask(t)

Next == \/ Ingest
        \/ Start \/ Task
        \/ Build \/ Store \/ StoreError

Spec == Init /\ [][Next]_vars

-----------------------------------------------------------------------------
(* The properties. *)

TodayRead == step.metrics \in {"previous", "burn", "balance", "done"}
EventsRead == step.events \in {"large", "done"}
Built == pc \in {"store", "stored"}
Unsigned(rows) == \A t \in rows : t.amount >= 0

\* Copies of rows that are still in the tables.
Copies == [transactions : SUBSET transactions, fraud_alerts : SUBSET fraud_alerts]

\* The type invariant; what was read is still in the tables.
TypeOK ==
    /\ IsFiniteSet(transactions) /\ IsFiniteSet(fraud_alerts)
    /\ scope \in Scopes
    /\ pc \in {"idle", "gather", "store", "stored", "failed"}
    /\ step \in [metrics : {"today", "previous", "burn", "balance", "done", "failed"},
                 events : {"fraud", "large", "done", "failed"},
                 trends : {"history", "done", "failed"}]
    /\ read \in [today : Copies, previous : Copies,
                 burn : SUBSET transactions, balance : SUBSET transactions,
                 fraud : SUBSET fraud_alerts, large : SUBSET transactions,
                 history : SUBSET transactions]
    /\ before \in Copies
    /\ error \in {"none", "data", "recommendation", "summary", "store"}
    /\ faults \in 0 .. MaxFaults

\* The metrics stand for one moment of the gathering: they count every row of
\* the day that was there when the generation began, and none that is not there
\* now, although handlers insert (and redeliver) rows between the queries.
MetricsWithinGathering ==
    TodayRead => \A part \in {"transactions", "fraud_alerts"} :
        /\ Daily(before, TargetDate)[part] \subseteq read.today[part]
        /\ read.today[part] \subseteq Daily(Now, TargetDate)[part]

\* The metrics and the events of one insight come from queries that share no
\* snapshot: they disagree about an alarming alert only if it arrived during
\* the generation, or if the events have reached their limit.
PartsDifferByArrivals ==
    TodayRead /\ EventsRead =>
        /\ read.fraud \ read.today.fraud_alerts \subseteq fraud_alerts \ before.fraud_alerts
        /\ Cardinality(read.fraud) < FraudLimit =>
              {f \in read.today.fraud_alerts : Alarming(f)} \ read.fraud
                  \subseteq fraud_alerts \ before.fraud_alerts

\* Unless a query failed, an insight lacks its events only because of one row of
\* the day and the scope that hides every other event: an alarming alert that
\* came without an amount or a score, or a large transaction of a vendor with
\* too long a name.
EventsMissingForAReason ==
    step.events = "failed" /\ faults = 0 =>
        \/ \E f \in Visible(fraud_alerts) :
              f.day = TargetDate /\ Alarming(f) /\ Unformattable(f)
        \/ \E t \in Visible(transactions) :
              t.day = TargetDate /\ t.amount > LargeAmount /\ Unnameable(t)

\* MIN_DATA_POINTS counts the metrics and not the data: InsufficientDataError
\* needs a failed query, and an account without any row gets its insight.
InsufficientNeedsFault == error = "data" => faults > 0

\* "next_month", the timeframe of the growth opportunity, is none that a
\* Recommendation accepts: rows of 14 days or more that show a growing revenue
\* get an insight only when the computation of the trends failed, which hides
\* the growth; and no other rule makes a recommendation that is rejected.
RevenueGrew == Enough(read.history) /\ Growing(Trend(read.history, "CREDIT"))

GrowthNeverReported == /\ Built /\ RevenueGrew => step.trends = "failed"
                       /\ error = "recommendation" => step.trends = "done" /\ RevenueGrew

\* The burn is negated and then asked to be positive: an insight warns of the
\* runway only because of a debit that came with a negative amount, and debits
\* of positive amounts, however many, never lead to the warning.
CashRiskNeedsNegativeDebit ==
    Built /\ (\E r \in Risks(insight) : r.type = "CASH_FLOW") =>
        \E t \in read.burn : t.type = "DEBIT" /\ t.amount < 0

\* Of all metrics only the profit, which may change its sign, falls by more than
\* the 100 per cent that the model allows, as long as no amount of the two days
\* is negative; the others become unreadable only by growing more than elevenfold.
OnlyProfitFallsFurther ==
    Built /\ Unsigned(read.today.transactions \cup read.previous.transactions) =>
        \A name \in DOMAIN Metrics(insight) :
            PastMinus100(Metrics(insight)[name]) => name = "profit"

\* Alerts that were there when the generation began reach the reader, whatever
\* arrives meanwhile: the insight recommends to address the fraud, with priority
\* CRITICAL from three alerts on, and is notified, unless a query failed.
FraudAlarmRaised ==
    LET known == Cardinality(Daily(before, TargetDate).fraud_alerts)
    IN  Built /\ faults = 0 /\ known > 0 =>
            /\ Urgent(insight)
            /\ \E r \in Recommendations(insight) :
                  r.about = "FRAUD" /\ (known >= 3 => r.priority = "CRITICAL")

\* A day without revenue has a margin of 0 and so below 5 per cent: also an
\* account without any row gets an urgent insight with a confidence of 70 per
\* cent or more, and a notification.
QuietDayIsUrgent ==
    Built /\ insight.known /\ insight.now.revenue = 0 =>
        Urgent(insight) /\ Confidence(DataPoints(insight)) >= 70

\* "value: float = Field(...)  # can be negative (e.g. profit, cash flow)"
\* (insight.py:139) and "Build the API model from a DB row, tolerating NULLs"
\* (main.py:294): a stored insight can be read.
StoredIsReadable == pc = "stored" => Readable(insight)
=============================================================================
