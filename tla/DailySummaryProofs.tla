------------------------- MODULE DailySummaryProofs -------------------------
(***************************************************************************)
(* Theorems about LocalCopies and DailySummary, for any messages, alerts,   *)
(* histories and bounds.                                                    *)
(***************************************************************************)
EXTENDS DailySummary, SummaryRulesProofs, AmountSums, FiniteSetTheorems

USE CopiesAssumption, SummaryAssumption

-----------------------------------------------------------------------------
(* The local copies. *)

\* What every step of the handlers does to the tables.
TablesGrow == /\ transactions \subseteq transactions'
              /\ fraud_alerts \subseteq fraud_alerts'
              /\ IsFiniteSet(transactions) => IsFiniteSet(transactions')
              /\ IsFiniteSet(fraud_alerts) => IsFiniteSet(fraud_alerts')

LEMMA OnTransactionInserts ==
  ASSUME NEW m \in TxMessages, OnTransaction(m)
  PROVE  /\ TablesGrow
         /\ [TransactionsCopy!Insert]_transactions
         /\ UNCHANGED fraud_alerts
         /\ TxComplete(m) => \E t \in transactions' : TxKey(t) = TxKey(TxRow(m))
<1>1. CASE TxComplete(m)
  <2>1. transactions' = Insert(transactions, {t \in transactions : TxKey(t) = TxKey(TxRow(m))}, TxRow(m))
    BY <1>1 DEF OnTransaction
  <2>2. /\ transactions \subseteq transactions'
        /\ \E t \in transactions' : TxKey(t) = TxKey(TxRow(m))
        /\ IsFiniteSet(transactions) => IsFiniteSet(transactions')
        /\ transactions' # transactions =>
              /\ transactions' = transactions \cup {TxRow(m)}
              /\ \A q \in transactions : TxKey(q) # TxKey(TxRow(m))
    BY <2>1, FS_AddElement DEF Insert
  <2>3. QED
    BY <2>2 DEF OnTransaction, TablesGrow, TransactionsCopy!Insert
<1>2. CASE ~TxComplete(m)
  BY <1>2 DEF OnTransaction, TablesGrow
<1>3. QED
  BY <1>1, <1>2

LEMMA OnAlertInserts ==
  ASSUME NEW m \in AlertMessages, OnAlert(m)
  PROVE  /\ TablesGrow
         /\ [AlertsCopy!Insert]_fraud_alerts
         /\ UNCHANGED transactions
         /\ AlertComplete(m) => \E f \in fraud_alerts' : AlertKey(f) = AlertKey(AlertRow(m))
<1>1. CASE AlertComplete(m)
  <2>1. fraud_alerts' = Insert(fraud_alerts, {f \in fraud_alerts : AlertKey(f) = AlertKey(AlertRow(m))}, AlertRow(m))
    BY <1>1 DEF OnAlert
  <2>2. /\ fraud_alerts \subseteq fraud_alerts'
        /\ \E f \in fraud_alerts' : AlertKey(f) = AlertKey(AlertRow(m))
        /\ IsFiniteSet(fraud_alerts) => IsFiniteSet(fraud_alerts')
        /\ fraud_alerts' # fraud_alerts =>
              /\ fraud_alerts' = fraud_alerts \cup {AlertRow(m)}
              /\ \A q \in fraud_alerts : AlertKey(q) # AlertKey(AlertRow(m))
    BY <2>1, FS_AddElement DEF Insert
  <2>3. QED
    BY <2>2 DEF OnAlert, TablesGrow, AlertsCopy!Insert
<1>2. CASE ~AlertComplete(m)
  BY <1>2 DEF OnAlert, TablesGrow
<1>3. QED
  BY <1>1, <1>2

\* A step of the generation leaves the copies alone.
LEMMA OtherSteps ==
  ASSUME [Next]_vars
  PROVE  UNCHANGED copies \/ Ingest
BY DEF Next, Task, Start, Query, ReadToday, ReadPrevious, ReadBurn, ReadBalance, ReadFraud,
       ReadLarge, ReadHistory, LoseTask, Build, Insufficient, Reject, TooLong, Create, Fail,
       Store, StoreError, vars

\* ON CONFLICT DO NOTHING: the copies implement FirstWins, one for each table.
THEOREM FirstWinsKept == Spec => CopiesFirstWins
<1>1. Init => TransactionsCopy!Init /\ AlertsCopy!Init
  BY DEF Init, InitCopies, TransactionsCopy!Init, AlertsCopy!Init
<1>2. [Next]_vars => [TransactionsCopy!Insert]_transactions /\ [AlertsCopy!Insert]_fraud_alerts
  <2> SUFFICES ASSUME [Next]_vars
               PROVE  [TransactionsCopy!Insert]_transactions /\ [AlertsCopy!Insert]_fraud_alerts
    OBVIOUS
  <2>1. CASE UNCHANGED copies
    BY <2>1 DEF copies
  <2>2. ASSUME NEW m \in TxMessages, OnTransaction(m)
        PROVE  [TransactionsCopy!Insert]_transactions /\ UNCHANGED fraud_alerts
    BY <2>2, OnTransactionInserts
  <2>3. ASSUME NEW m \in AlertMessages, OnAlert(m)
        PROVE  [AlertsCopy!Insert]_fraud_alerts /\ UNCHANGED transactions
    BY <2>3, OnAlertInserts
  <2>4. CASE Midnight
    BY <2>4 DEF Midnight
  <2>5. QED
    BY <2>1, <2>2, <2>3, <2>4, OtherSteps DEF Ingest, Consume
<1>3. QED
  BY <1>1, <1>2, PTL DEF Spec, CopiesFirstWins, TransactionsCopy!Spec, AlertsCopy!Spec

\* An acknowledged message has its row: the key of a transaction names its
\* company, the key of an alert does not.
THEOREM AcknowledgedKept == Spec => []AckedIsKept
<1>1. Init => AckedIsKept
  BY DEF Init, InitCopies, AckedIsKept
<1>2. AckedIsKept /\ [Next]_vars => AckedIsKept'
  <2> SUFFICES ASSUME AckedIsKept, [Next]_vars
               PROVE  AckedIsKept'
    OBVIOUS
  <2>1. CASE UNCHANGED copies
    BY <2>1 DEF copies, AckedIsKept
  <2>2. ASSUME NEW m \in TxMessages, OnTransaction(m)
        PROVE  AckedIsKept'
    <3>1. /\ TablesGrow /\ UNCHANGED fraud_alerts
          /\ acked' = acked \cup {m}
          /\ TxComplete(m) => \E t \in transactions' :
                t.id = m.id /\ t.company = Or(m.company, NoCompany)
      BY <2>2, OnTransactionInserts DEF OnTransaction, Acknowledge, TxKey, TxRow
    <3>2. ASSUME NEW n \in acked' \cap TxMessages, TxComplete(n)
          PROVE  \E t \in transactions' : t.id = n.id /\ t.company = Or(n.company, NoCompany)
      BY <3>1, <3>2 DEF AckedIsKept, TablesGrow
    <3>3. ASSUME NEW n \in acked' \cap AlertMessages, AlertComplete(n)
          PROVE  \E f \in fraud_alerts' : f.id = n.id
      BY <2>2, <3>1, <3>3 DEF AckedIsKept
    <3>4. QED
      BY <3>2, <3>3 DEF AckedIsKept
  <2>3. ASSUME NEW m \in AlertMessages, OnAlert(m)
        PROVE  AckedIsKept'
    <3>1. /\ TablesGrow /\ UNCHANGED transactions
          /\ acked' = acked \cup {m}
          /\ AlertComplete(m) => \E f \in fraud_alerts' : f.id = m.id
      BY <2>3, OnAlertInserts DEF OnAlert, Acknowledge, AlertKey, AlertRow
    <3>2. ASSUME NEW n \in acked' \cap AlertMessages, AlertComplete(n)
          PROVE  \E f \in fraud_alerts' : f.id = n.id
      BY <3>1, <3>2 DEF AckedIsKept, TablesGrow
    <3>3. ASSUME NEW n \in acked' \cap TxMessages, TxComplete(n)
          PROVE  \E t \in transactions' : t.id = n.id /\ t.company = Or(n.company, NoCompany)
      BY <2>3, <3>1, <3>3 DEF AckedIsKept
    <3>4. QED
      BY <3>2, <3>3 DEF AckedIsKept
  <2>4. CASE Midnight
    BY <2>4 DEF Midnight, AckedIsKept
  <2>5. QED
    BY <2>1, <2>2, <2>3, <2>4, OtherSteps DEF Ingest, Consume
<1>3. QED
  BY <1>1, <1>2, PTL DEF Spec

-----------------------------------------------------------------------------
(* The inductive invariant of the generation. *)

KnownAlarms == {f \in Daily(before, TargetDate).fraud_alerts : Alarming(f)}

\* The events were chosen among the alarming alerts of the day, and leave out one
\* that was there at the beginning only at their limit.
EventsOK == EventsRead => /\ read.fraud \subseteq FraudRows
                          /\ Cardinality(read.fraud) < FraudLimit => KnownAlarms \subseteq read.fraud

HiddenByRow == step.events = "failed" /\ faults = 0 => \/ \E f \in FraudRows : Unformattable(f)
                                                       \/ \E t \in LargeRows : Unnameable(t)

\* A part is missing because of a failure, the events also because of a row.
LossOK == /\ step.metrics = "failed" => faults > 0
          /\ HiddenByRow

\* An insight says of the metrics and the events what was read; an error has the
\* reason it names.
InsightOK == /\ Built => /\ step.metrics \in {"done", "failed"}
                         /\ step.trends \in {"done", "failed"}
                         /\ insight.revenueTrend = TrendOf("CREDIT")
                         /\ Valid(insight)
                         /\ insight.known <=> step.metrics = "done"
                         /\ insight.known =>
                               insight.now.alerts = Cardinality(read.today.fraud_alerts)
                         /\ insight.fraud \in Nat
                         /\ insight.credits \in Nat
                         /\ insight.debits \in Nat
             /\ error # "none" => pc = "failed"
             /\ error = "data" => step.metrics = "failed"
             /\ error = "recommendation" => Growing(TrendOf("CREDIT"))

IdleOK == pc = "idle" => step.metrics = "today" /\ step.events = "fraud"

IInv == TypeOK /\ IdleOK /\ MetricsWithinGathering /\ EventsOK /\ LossOK /\ InsightOK

Reads == [today : Copies, previous : Copies,
          burn : SUBSET transactions, balance : SUBSET transactions,
          fraud : SUBSET fraud_alerts, large : SUBSET transactions,
          history : SUBSET transactions]

LEMMA InitInv == Init => IInv
<1> SUFFICES ASSUME Init PROVE IInv
  OBVIOUS
<1>1. IsFiniteSet(transactions) /\ IsFiniteSet(fraud_alerts)
  BY DEF Init, InitCopies
<1>2. NoRows \in Copies
  BY DEF NoRows, Copies
<1>3. read \in Reads
  <2>1. read = [today |-> NoRows, previous |-> NoRows, burn |-> {}, balance |-> {},
                fraud |-> {}, large |-> {}, history |-> {}]
    BY DEF Init
  <2>2. QED
    BY <1>2, <2>1 DEF Reads
<1>4. TypeOK
  BY <1>1, <1>2, <1>3 DEF Init, TypeOK, Reads
<1>5. QED
  BY <1>4 DEF Init, IInv, IdleOK, MetricsWithinGathering, TodayRead, EventsOK, EventsRead, LossOK,
              HiddenByRow, InsightOK, Built

\* The handlers insert rows: what was read stays in the tables.
LEMMA IngestStep == IInv /\ Ingest => IInv'
<1> SUFFICES ASSUME IInv, Ingest PROVE IInv'
  OBVIOUS
<1>1. TablesGrow
  BY OnTransactionInserts, OnAlertInserts DEF Ingest, Consume, Midnight, TablesGrow
<1>2. UNCHANGED generation /\ pc \in {"idle", "gather"}
  BY DEF Ingest
<1>3. TypeOK'
  BY <1>1, <1>2 DEF IInv, TypeOK, TablesGrow, generation, Copies
<1>4. \A d : /\ Daily(Now, d).transactions \subseteq Daily(Now, d)'.transactions
             /\ Daily(Now, d).fraud_alerts \subseteq Daily(Now, d)'.fraud_alerts
  BY <1>1, <1>2 DEF TablesGrow, generation, Daily, Now, Visible
<1>5. Daily(before, TargetDate)' = Daily(before, TargetDate)
  BY <1>2 DEF generation, Daily, Visible
<1>6. MetricsWithinGathering'
  BY <1>2, <1>4, <1>5 DEF IInv, MetricsWithinGathering, TodayRead, generation
<1>7. FraudRows \subseteq FraudRows' /\ LargeRows \subseteq LargeRows'
  BY <1>1, <1>2 DEF TablesGrow, generation, FraudRows, LargeRows, Visible
<1>8. EventsOK'
  BY <1>2, <1>5, <1>7 DEF IInv, EventsOK, EventsRead, KnownAlarms, generation
<1>9. LossOK'
  BY <1>2, <1>7 DEF IInv, LossOK, HiddenByRow, generation
<1>10. InsightOK'
  BY <1>2 DEF IInv, InsightOK, Built, generation
<1>11. IdleOK'
  BY <1>2 DEF IInv, IdleOK, generation
<1>12. QED
  BY <1>3, <1>6, <1>8, <1>9, <1>10, <1>11 DEF IInv

LEMMA StartStep == IInv /\ Start => IInv'
<1> SUFFICES ASSUME IInv, Start PROVE IInv'
  OBVIOUS
<1>1. TypeOK'
  BY DEF IInv, Start, TypeOK, Copies, Now, copies
<1>2. step'.metrics = "today" /\ step'.events = "fraud"
  BY DEF IInv, IdleOK, Start
<1>3. MetricsWithinGathering' /\ EventsOK' /\ IdleOK'
  BY <1>2 DEF MetricsWithinGathering, TodayRead, EventsOK, EventsRead, IdleOK
<1>4. LossOK' /\ InsightOK'
  BY <1>2 DEF LossOK, HiddenByRow, IInv, InsightOK, Built, Start
<1>5. QED
  BY <1>1, <1>3, <1>4 DEF IInv

\* The query of a task, on the tables of its moment.
LEMMA QueryType ==
  ASSUME TypeOK, pc = "gather",
         NEW query \in {"today", "previous", "burn", "balance", "fraud", "large", "history"},
         NEW rows,
         read' = [read EXCEPT ![query] = rows],
         query \in {"today", "previous"} => rows \in Copies,
         query \in {"burn", "balance", "large", "history"} => rows \subseteq transactions,
         query = "fraud" => rows \subseteq fraud_alerts,
         UNCHANGED copies
  PROVE  read' \in Reads'
<1>1. read \in Reads
  BY DEF TypeOK, Reads
<1>2. Reads' = Reads
  BY DEF Reads, copies, Copies
<1>3. QED
  BY <1>1, <1>2 DEF Reads

\* What a query of the task "metrics" or "trends" leaves alone.
LEMMA OtherParts ==
  ASSUME IInv, pc = "gather", UNCHANGED <<copies, scope, pc, before, insight, error, faults>>,
         TypeOK', step'.events = step.events, read'.fraud = read.fraud,
         step'.metrics = "failed" => faults > 0
  PROVE  EventsOK' /\ LossOK' /\ InsightOK' /\ IdleOK'
<1>1. FraudRows' = FraudRows /\ LargeRows' = LargeRows /\ KnownAlarms' = KnownAlarms
  BY DEF FraudRows, LargeRows, KnownAlarms, Daily, Visible, copies
<1>2. EventsOK'
  BY <1>1 DEF IInv, EventsOK, EventsRead
<1>3. LossOK'
  BY <1>1 DEF IInv, LossOK, HiddenByRow
<1>4. InsightOK' /\ IdleOK'
  BY DEF IInv, InsightOK, IdleOK, Built
<1>5. QED
  BY <1>2, <1>3, <1>4

LEMMA SameMetrics ==
  ASSUME IInv, UNCHANGED <<copies, scope, before>>,
         step'.metrics = step.metrics, read'.today = read.today
  PROVE  MetricsWithinGathering'
<1>1. /\ Daily(before, TargetDate)' = Daily(before, TargetDate)
      /\ Daily(Now, TargetDate)' = Daily(Now, TargetDate)
  BY DEF Daily, Now, Visible, copies
<1>2. QED
  BY <1>1 DEF IInv, MetricsWithinGathering, TodayRead

LEMMA ReadTodayStep == IInv /\ ReadToday => IInv'
<1> SUFFICES ASSUME IInv, ReadToday PROVE IInv'
  OBVIOUS
<1>1. Daily(Now, TargetDate) \in Copies
  BY DEF Daily, Now, Visible, Copies
<1>2. read' \in Reads'
  BY <1>1, QueryType DEF IInv, ReadToday, Query
<1>3. TypeOK'
  BY <1>2 DEF IInv, TypeOK, Reads, ReadToday, Query, copies, Copies
<1>4. read \in Reads
  BY DEF IInv, TypeOK, Reads
<1>5. /\ read'.today = Daily(Now, TargetDate)
      /\ read'.fraud = read.fraud
      /\ step'.metrics = "previous"
      /\ step'.events = step.events
  BY <1>4 DEF IInv, TypeOK, ReadToday, Query, Reads
<1>6. MetricsWithinGathering'
  <2>1. /\ Daily(before, TargetDate)' = Daily(before, TargetDate)
        /\ Daily(Now, TargetDate)' = Daily(Now, TargetDate)
    BY DEF Daily, Now, Visible, copies, ReadToday, Query
  <2>2. \A part \in {"transactions", "fraud_alerts"} :
           Daily(before, TargetDate)[part] \subseteq Daily(Now, TargetDate)[part]
    BY DEF IInv, TypeOK, Copies, Daily, Now, Visible
  <2>3. QED
    BY <1>5, <2>1, <2>2 DEF MetricsWithinGathering
<1>7. EventsOK' /\ LossOK' /\ InsightOK' /\ IdleOK'
  BY <1>3, <1>5, OtherParts DEF ReadToday, Query
<1>8. QED
  BY <1>3, <1>6, <1>7 DEF IInv

LEMMA QuietReads == IInv /\ (ReadPrevious \/ ReadBurn \/ ReadBalance \/ ReadHistory) => IInv'
<1> SUFFICES ASSUME IInv, ReadPrevious \/ ReadBurn \/ ReadBalance \/ ReadHistory PROVE IInv'
  OBVIOUS
<1>1. /\ Daily(Now, TargetDate - 1) \in Copies
      /\ Debits \subseteq transactions /\ Balance \subseteq transactions
      /\ History \subseteq transactions
  BY DEF Daily, Now, Visible, Copies, Debits, Balance, History
<1>2. PICK query \in {"previous", "burn", "balance", "history"},
             rows \in Copies \cup SUBSET transactions :
         /\ read' = [read EXCEPT ![query] = rows]
         /\ query = "previous" => rows \in Copies
         /\ query # "previous" => rows \subseteq transactions
  BY <1>1 DEF ReadPrevious, ReadBurn, ReadBalance, ReadHistory, Query
<1>3. pc = "gather" /\ UNCHANGED <<copies, scope, tolerance, pc, before, insight, error, faults>>
  BY DEF ReadPrevious, ReadBurn, ReadBalance, ReadHistory, Query
<1>4. read' \in Reads'
  <2>1. /\ query \in {"today", "previous"} => rows \in Copies
        /\ query \in {"burn", "balance", "large", "history"} => rows \subseteq transactions
        /\ query = "fraud" => rows \subseteq fraud_alerts
    BY <1>2
  <2>2. QED
    BY <1>2, <1>3, <2>1, QueryType DEF IInv, copies
<1>5. /\ step' \in [metrics : {"previous", "burn", "balance", "done"} \cup {step.metrics},
                    events : {step.events}, trends : {"history", "done", "failed"}]
      /\ step'.metrics # step.metrics => step.metrics \in {"previous", "burn", "balance"}
  BY DEF IInv, TypeOK, ReadPrevious, ReadBurn, ReadBalance, ReadHistory, Query, When
<1>6. TypeOK'
  BY <1>3, <1>4, <1>5 DEF IInv, TypeOK, Reads, copies, Copies
<1>7. read'.today = read.today /\ read'.fraud = read.fraud
  BY <1>2 DEF IInv, TypeOK
<1>8. MetricsWithinGathering'
  <2>1. /\ Daily(before, TargetDate)' = Daily(before, TargetDate)
        /\ Daily(Now, TargetDate)' = Daily(Now, TargetDate)
    BY <1>3 DEF Daily, Now, Visible, copies
  <2>2. TodayRead' => TodayRead
    BY <1>5 DEF TodayRead
  <2>3. QED
    BY <1>7, <2>1, <2>2 DEF IInv, MetricsWithinGathering
<1>9. step'.events = step.events /\ (step'.metrics = "failed" => faults > 0)
  BY <1>5 DEF IInv, LossOK
<1>10. EventsOK' /\ LossOK' /\ InsightOK' /\ IdleOK'
  BY <1>3, <1>6, <1>7, <1>9, OtherParts
<1>11. QED
  BY <1>6, <1>8, <1>10 DEF IInv

\* A choice that is not cut off by the limit is complete.
LEMMA TopIsComplete ==
  ASSUME NEW rows, IsFiniteSet(rows), NEW column, NEW limit \in Nat, NEW chosen \in Top(rows, column, limit),
         Cardinality(chosen) < limit
  PROVE  chosen = rows
<1>1. chosen \in SUBSET rows /\ Cardinality(rows) \in Nat
  BY FS_CardinalityType DEF Top
<1>2. Cardinality(chosen) = Cardinality(rows)
  BY <1>1 DEF Top
<1>3. QED
  BY <1>1, <1>2, FS_Subset

LEMMA ReadFraudStep == IInv /\ ReadFraud => IInv'
<1> SUFFICES ASSUME IInv, ReadFraud PROVE IInv'
  OBVIOUS
<1>1. PICK rows \in Top(FraudRows, "score", FraudLimit) :
         Query("events", "fraud",
               IF \E f \in rows : Unformattable(f) THEN "failed" ELSE "large", "fraud", rows)
  BY DEF ReadFraud
<1>2. rows \subseteq FraudRows /\ FraudRows \subseteq fraud_alerts /\ IsFiniteSet(FraudRows)
  BY FS_Subset DEF Top, FraudRows, Visible, IInv, TypeOK
<1>3. pc = "gather" /\ UNCHANGED <<copies, scope, tolerance, pc, before, insight, error, faults>>
  BY <1>1 DEF Query
<1>4. read' = [read EXCEPT !["fraud"] = rows]
  BY <1>1 DEF Query
<1>5. read' \in Reads'
  BY <1>2, <1>3, <1>4, QueryType DEF IInv, copies
<1>6. /\ step'.metrics = step.metrics /\ step'.trends = step.trends
      /\ step'.events = IF \E f \in rows : Unformattable(f) THEN "failed" ELSE "large"
      /\ step' \in [metrics : {step.metrics}, events : {"large", "failed"}, trends : {step.trends}]
  BY <1>1 DEF Query, IInv, TypeOK
<1>7. TypeOK'
  BY <1>3, <1>5, <1>6 DEF IInv, TypeOK, Reads, copies, Copies
<1>8. read'.today = read.today /\ read'.fraud = rows
  BY <1>4 DEF IInv, TypeOK
<1>9. MetricsWithinGathering'
  BY <1>3, <1>6, <1>8, SameMetrics
<1>10. FraudRows' = FraudRows /\ LargeRows' = LargeRows /\ KnownAlarms' = KnownAlarms
  BY <1>3 DEF FraudRows, LargeRows, KnownAlarms, Daily, Visible, copies
<1>11. EventsOK'
  <2>1. Cardinality(rows) < FraudLimit => rows = FraudRows
    BY <1>2, TopIsComplete
  <2>2. KnownAlarms \subseteq FraudRows
    BY DEF IInv, TypeOK, Copies, KnownAlarms, Daily, FraudRows, Visible
  <2>3. QED
    BY <1>2, <1>8, <1>10, <2>1, <2>2 DEF EventsOK
<1>12. LossOK'
  <2>1. step'.events = "failed" => \E f \in FraudRows : Unformattable(f)
    BY <1>2, <1>6
  <2>2. QED
    BY <1>3, <1>6, <1>10, <2>1 DEF IInv, LossOK, HiddenByRow
<1>13. InsightOK' /\ IdleOK'
  BY <1>3 DEF IInv, InsightOK, IdleOK, Built
<1>14. QED
  BY <1>7, <1>9, <1>11, <1>12, <1>13 DEF IInv

LEMMA ReadLargeStep == IInv /\ ReadLarge => IInv'
<1> SUFFICES ASSUME IInv, ReadLarge PROVE IInv'
  OBVIOUS
<1>1. PICK rows \in Top(LargeRows, "amount", LargeLimit) :
         Query("events", "large",
               IF \E t \in rows : Unnameable(t) THEN "failed" ELSE "done", "large", rows)
  BY DEF ReadLarge
<1>2. rows \subseteq LargeRows /\ LargeRows \subseteq transactions
  BY DEF Top, LargeRows, Visible
<1>3. pc = "gather" /\ UNCHANGED <<copies, scope, tolerance, pc, before, insight, error, faults>>
  BY <1>1 DEF Query
<1>4. read' = [read EXCEPT !["large"] = rows]
  BY <1>1 DEF Query
<1>5. read' \in Reads'
  BY <1>2, <1>3, <1>4, QueryType DEF IInv, copies
<1>6. /\ step'.metrics = step.metrics
      /\ step.events = "large"
      /\ step'.events = IF \E t \in rows : Unnameable(t) THEN "failed" ELSE "done"
      /\ step' \in [metrics : {step.metrics}, events : {"done", "failed"}, trends : {step.trends}]
  BY <1>1 DEF Query, IInv, TypeOK
<1>7. TypeOK'
  BY <1>3, <1>5, <1>6 DEF IInv, TypeOK, Reads, copies, Copies
<1>8. read'.today = read.today /\ read'.fraud = read.fraud
  BY <1>4 DEF IInv, TypeOK
<1>9. MetricsWithinGathering'
  BY <1>3, <1>6, <1>8, SameMetrics
<1>10. FraudRows' = FraudRows /\ LargeRows' = LargeRows /\ KnownAlarms' = KnownAlarms
  BY <1>3 DEF FraudRows, LargeRows, KnownAlarms, Daily, Visible, copies
<1>11. EventsOK'
  BY <1>6, <1>8, <1>10 DEF IInv, EventsOK, EventsRead
<1>12. LossOK'
  <2>1. step'.events = "failed" => \E t \in LargeRows : Unnameable(t)
    BY <1>2, <1>6
  <2>2. QED
    BY <1>3, <1>6, <1>10, <2>1 DEF IInv, LossOK, HiddenByRow
<1>13. InsightOK' /\ IdleOK'
  BY <1>3 DEF IInv, InsightOK, IdleOK, Built
<1>14. QED
  BY <1>7, <1>9, <1>11, <1>12, <1>13 DEF IInv

LEMMA LoseTaskStep == ASSUME NEW t \in Tasks PROVE IInv /\ LoseTask(t) => IInv'
<1> SUFFICES ASSUME IInv, LoseTask(t) PROVE IInv'
  OBVIOUS
<1>1. /\ pc = "gather" /\ UNCHANGED <<copies, scope, tolerance, pc, read, before, insight, error>>
      /\ faults' = faults + 1 /\ faults \in 0 .. MaxFaults /\ faults < MaxFaults
  BY DEF LoseTask, Fault, IInv, TypeOK
<1>2. /\ step' \in [metrics : {step.metrics, "failed"}, events : {step.events, "failed"},
                    trends : {step.trends, "failed"}]
  BY DEF LoseTask, Tasks, IInv, TypeOK
<1>3. TypeOK'
  BY <1>1, <1>2 DEF IInv, TypeOK, copies, Copies
<1>4. faults' > 0
  BY <1>1
<1>5. MetricsWithinGathering' /\ EventsOK'
  <2>1. /\ Daily(before, TargetDate)' = Daily(before, TargetDate)
        /\ Daily(Now, TargetDate)' = Daily(Now, TargetDate)
        /\ FraudRows' = FraudRows /\ KnownAlarms' = KnownAlarms
    BY <1>1 DEF FraudRows, KnownAlarms, Daily, Now, Visible, copies
  <2>2. (TodayRead' => TodayRead) /\ (EventsRead' => EventsRead)
    BY <1>2 DEF TodayRead, EventsRead
  <2>3. QED
    BY <1>1, <2>1, <2>2 DEF IInv, MetricsWithinGathering, EventsOK
<1>6. LossOK' /\ InsightOK' /\ IdleOK'
  BY <1>1, <1>4 DEF IInv, LossOK, HiddenByRow, InsightOK, IdleOK, Built
<1>7. QED
  BY <1>3, <1>5, <1>6 DEF IInv

-----------------------------------------------------------------------------
(* Building and storing the insight. *)

\* What the facts say of the parts that were read.
LEMMA FactsOfParts ==
  ASSUME TypeOK
  PROVE  /\ Facts.known <=> step.metrics = "done"
         /\ Facts.known => Facts.now.alerts = Cardinality(read.today.fraud_alerts)
         /\ Facts.fraud \in Nat /\ Facts.credits \in Nat /\ Facts.debits \in Nat
         /\ Facts.revenueTrend = TrendOf("CREDIT")
<1> DEFINE large == IF step["events"] = "done" THEN read.large ELSE {}
           fraud == IF step["events"] = "done" THEN read.fraud ELSE {}
<1>1. IsFiniteSet(large) /\ IsFiniteSet(fraud)
  BY FS_Subset, FS_EmptySet DEF TypeOK
<1>2. /\ IsFiniteSet({t \in large : t.type = "CREDIT"})
      /\ IsFiniteSet({t \in large : t.type # "CREDIT"})
  <2> HIDE DEF large
  <2>1. QED
    BY <1>1, FS_Subset
<1>3. /\ Facts.fraud = Cardinality(fraud)
      /\ Facts.credits = Cardinality({t \in large : t.type = "CREDIT"})
      /\ Facts.debits = Cardinality({t \in large : t.type # "CREDIT"})
  BY DEF Facts
<1>4. Facts.fraud \in Nat /\ Facts.credits \in Nat /\ Facts.debits \in Nat
  <2> HIDE DEF large, fraud
  <2>1. QED
    BY <1>1, <1>2, <1>3, FS_CardinalityType
<1>5. Facts.known <=> step.metrics = "done"
  BY DEF Facts
<1>6. Facts.known => Facts.now.alerts = Cardinality(read.today.fraud_alerts)
  BY DEF Facts, Stats
<1>7. Facts.revenueTrend = TrendOf("CREDIT")
  BY DEF Facts
<1>8. QED
  BY <1>4, <1>5, <1>6, <1>7

\* What Build, Store and StoreError leave alone.
LEMMA AfterGathering ==
  ASSUME IInv, UNCHANGED <<copies, scope, step, read, before>>, faults' \in faults .. MaxFaults
  PROVE  /\ MetricsWithinGathering' /\ EventsOK' /\ LossOK'
         /\ pc' \in {"store", "stored", "failed"} /\ error' \in {"none", "data", "recommendation", "summary", "store"}
               => TypeOK' /\ IdleOK'
<1>1. MetricsWithinGathering'
  BY SameMetrics
<1>2. FraudRows' = FraudRows /\ LargeRows' = LargeRows /\ KnownAlarms' = KnownAlarms
  BY DEF FraudRows, LargeRows, KnownAlarms, Daily, Visible, copies
<1>3. EventsOK'
  BY <1>2 DEF IInv, EventsOK, EventsRead
<1>4. faults \in Nat /\ faults' \in 0 .. MaxFaults /\ (faults > 0 => faults' > 0) /\ (faults' = 0 => faults = 0)
  BY DEF IInv, TypeOK
<1>5. LossOK'
  BY <1>2, <1>4 DEF IInv, LossOK, HiddenByRow
<1>6. ASSUME pc' \in {"store", "stored", "failed"},
             error' \in {"none", "data", "recommendation", "summary", "store"}
      PROVE  TypeOK' /\ IdleOK'
  BY <1>4, <1>6 DEF IInv, TypeOK, IdleOK, copies, Copies
<1>7. QED
  BY <1>1, <1>3, <1>5, <1>6

LEMMA SameTrend ==
  ASSUME UNCHANGED <<step, read>>
  PROVE  TrendOf("CREDIT")' = TrendOf("CREDIT")
BY DEF TrendOf

LEMMA BuildStep == IInv /\ Build => IInv'
<1> SUFFICES ASSUME IInv, Build PROVE IInv'
  OBVIOUS
<1>1. /\ pc = "gather" /\ error = "none"
      /\ step.metrics \in {"done", "failed"} /\ step.trends \in {"done", "failed"}
      /\ Insufficient(Facts) \/ Reject(Facts) \/ TooLong(Facts) \/ Create(Facts)
  BY DEF Build, Tasks, IInv, InsightOK
<1>2. /\ UNCHANGED <<copies, scope, step, read, before>>
      /\ faults' \in faults .. MaxFaults
  BY <1>1 DEF Insufficient, Reject, TooLong, Create, Fail, IInv, TypeOK
<1>3. MetricsWithinGathering' /\ EventsOK' /\ LossOK' /\ TypeOK' /\ IdleOK'
  <2>1. /\ pc' \in {"store", "stored", "failed"}
        /\ error' \in {"none", "data", "recommendation", "summary", "store"}
    BY <1>1 DEF Insufficient, Reject, TooLong, Create, Fail
  <2>2. QED
    BY <1>2, <2>1, AfterGathering
<1>4. /\ Facts.known <=> step.metrics = "done"
      /\ Facts.known => Facts.now.alerts = Cardinality(read.today.fraud_alerts)
      /\ Facts.fraud \in Nat /\ Facts.credits \in Nat /\ Facts.debits \in Nat
      /\ Facts.revenueTrend = TrendOf("CREDIT")
  BY FactsOfParts DEF IInv
<1>5. TrendOf("CREDIT")' = TrendOf("CREDIT")
  BY <1>2, SameTrend
<1>6. CASE Insufficient(Facts)
  <2>1. ~Facts.known
    BY <1>4, <1>6 DEF Insufficient, Sufficient, DataPoints, Events, MinDataPoints
  <2>2. step'.metrics = "failed" /\ pc' = "failed" /\ error' = "data"
    BY <1>1, <1>2, <1>4, <1>6, <2>1 DEF Insufficient, Fail
  <2>3. InsightOK'
    BY <2>2 DEF InsightOK, Built
  <2>4. QED
    BY <1>3, <2>3 DEF IInv
<1>7. CASE Reject(Facts)
  <2>1. Growing(TrendOf("CREDIT"))
    BY <1>4, <1>7, GrowthIsRejected DEF Reject
  <2>2. pc' = "failed" /\ error' = "recommendation"
    BY <1>7 DEF Reject, Fail
  <2>3. InsightOK'
    BY <1>5, <2>1, <2>2 DEF InsightOK, Built
  <2>4. QED
    BY <1>3, <2>3 DEF IInv
<1>8. CASE TooLong(Facts)
  <2>1. pc' = "failed" /\ error' = "summary"
    BY <1>8 DEF TooLong, Fail
  <2>2. InsightOK'
    BY <2>1 DEF InsightOK, Built
  <2>3. QED
    BY <1>3, <2>2 DEF IInv
<1>9. CASE Create(Facts)
  <2>1. pc' = "store" /\ insight' = Facts /\ error' = "none" /\ Valid(Facts)
    BY <1>1, <1>9 DEF Create
  <2>2. step' = step /\ read' = read
    BY <1>2
  <2>3. Valid(insight')
    BY <2>1
  <2>4. InsightOK'
    BY <1>1, <1>4, <1>5, <2>1, <2>2, <2>3 DEF InsightOK, Built
  <2>5. QED
    BY <1>3, <2>4 DEF IInv
<1>10. QED
  BY <1>1, <1>6, <1>7, <1>8, <1>9

LEMMA StoreSteps == IInv /\ (Store \/ StoreError) => IInv'
<1> SUFFICES ASSUME IInv, Store \/ StoreError PROVE IInv'
  OBVIOUS
<1>1. /\ UNCHANGED <<copies, scope, step, read, before, insight>>
      /\ faults' \in faults .. MaxFaults
      /\ pc = "store"
      /\ \/ pc' = "stored" /\ error' = error
         \/ pc' = "failed" /\ error' = "store"
  BY DEF Store, StoreError, Fault, Fail, IInv, TypeOK
<1>2. error = "none"
  BY <1>1 DEF IInv, InsightOK
<1>3. MetricsWithinGathering' /\ EventsOK' /\ LossOK' /\ TypeOK' /\ IdleOK'
  BY <1>1, <1>2, AfterGathering
<1>4. TrendOf("CREDIT")' = TrendOf("CREDIT")
  BY <1>1, SameTrend
<1>5. InsightOK'
  BY <1>1, <1>2, <1>4 DEF IInv, InsightOK, Built
<1>6. QED
  BY <1>3, <1>5 DEF IInv

LEMMA StutterStep == IInv /\ UNCHANGED vars => IInv'
<1> SUFFICES ASSUME IInv, UNCHANGED vars PROVE IInv'
  OBVIOUS
<1>1. UNCHANGED <<copies, scope, step, read, before, pc, error, insight, faults>>
  BY DEF vars, generation
<1>2. faults' \in faults .. MaxFaults
  BY <1>1 DEF IInv, TypeOK
<1>3. MetricsWithinGathering' /\ EventsOK' /\ LossOK'
  BY <1>1, <1>2, AfterGathering
<1>4. TypeOK'
  BY <1>1 DEF IInv, TypeOK, copies, Copies
<1>5. TrendOf("CREDIT")' = TrendOf("CREDIT")
  BY <1>1, SameTrend
<1>6. InsightOK' /\ IdleOK'
  BY <1>1, <1>5 DEF IInv, InsightOK, IdleOK, Built
<1>7. QED
  BY <1>3, <1>4, <1>6 DEF IInv

\* What the gathering of generate_daily_summary has read is in the tables and
\* complete, each part it lost has its reason, and an insight says what was read.
THEOREM Invariance == Spec => []IInv
<1>1. IInv /\ [Next]_vars => IInv'
  <2> SUFFICES ASSUME IInv, Next PROVE IInv'
    BY StutterStep
  <2>1. CASE Ingest
    BY <2>1, IngestStep
  <2>2. CASE Start
    BY <2>2, StartStep
  <2>3. CASE Task
    <3>1. CASE ReadToday
      BY <3>1, ReadTodayStep
    <3>2. CASE ReadPrevious \/ ReadBurn \/ ReadBalance \/ ReadHistory
      BY <3>2, QuietReads
    <3>3. CASE ReadFraud
      BY <3>3, ReadFraudStep
    <3>4. CASE ReadLarge
      BY <3>4, ReadLargeStep
    <3>5. ASSUME NEW t \in Tasks, LoseTask(t)
          PROVE  IInv'
      BY <3>5, LoseTaskStep
    <3>6. QED
      BY <2>3, <3>1, <3>2, <3>3, <3>4, <3>5 DEF Task
  <2>4. CASE Build
    BY <2>4, BuildStep
  <2>5. CASE Store \/ StoreError
    BY <2>5, StoreSteps
  <2>6. QED
    BY <2>1, <2>2, <2>3, <2>4, <2>5 DEF Next
<1>2. QED
  BY <1>1, InitInv, PTL DEF Spec

-----------------------------------------------------------------------------
(* The theorems. *)

\* The types, and that what a query returned is still in the tables.
THEOREM TypeCorrect == Spec => []TypeOK
<1>1. IInv => TypeOK
  BY DEF IInv
<1>2. QED
  BY <1>1, Invariance, PTL

\* Between the first query and the end, and whatever the handlers insert: the
\* metrics are those of a moment of the gathering.
THEOREM MetricsOfOneMoment == Spec => []MetricsWithinGathering
<1>1. IInv => MetricsWithinGathering
  BY DEF IInv
<1>2. QED
  BY <1>1, Invariance, PTL

\* Metrics and events differ by what arrived in between, or by the limit.
THEOREM PartsDiffer == Spec => []PartsDifferByArrivals
<1>1. IInv => PartsDifferByArrivals
  <2> SUFFICES ASSUME IInv, TodayRead, EventsRead
               PROVE  /\ read.fraud \ read.today.fraud_alerts \subseteq fraud_alerts \ before.fraud_alerts
                      /\ Cardinality(read.fraud) < FraudLimit =>
                            {f \in read.today.fraud_alerts : Alarming(f)} \ read.fraud
                                \subseteq fraud_alerts \ before.fraud_alerts
    BY DEF PartsDifferByArrivals
  <2>1. /\ Daily(before, TargetDate).fraud_alerts \subseteq read.today.fraud_alerts
        /\ read.today.fraud_alerts \subseteq Daily(Now, TargetDate).fraud_alerts
    BY DEF IInv, MetricsWithinGathering
  <2>2. /\ read.fraud \subseteq FraudRows
        /\ Cardinality(read.fraud) < FraudLimit => KnownAlarms \subseteq read.fraud
    BY DEF IInv, EventsOK
  <2>3. read.fraud \ read.today.fraud_alerts \subseteq fraud_alerts \ before.fraud_alerts
    BY <2>1, <2>2 DEF Daily, FraudRows, Visible
  <2>4. ASSUME Cardinality(read.fraud) < FraudLimit
        PROVE  {f \in read.today.fraud_alerts : Alarming(f)} \ read.fraud
                   \subseteq fraud_alerts \ before.fraud_alerts
    BY <2>1, <2>2, <2>4 DEF Daily, Now, KnownAlarms, Visible
  <2>5. QED
    BY <2>3, <2>4
<1>2. QED
  BY <1>1, Invariance, PTL

\* An insight lacks its events because of a failed query, of an alert that cannot
\* be formatted, or of a large transaction of a vendor with too long a name.
THEOREM EventsMissing == Spec => []EventsMissingForAReason
<1>1. IInv => EventsMissingForAReason
  BY DEF IInv, LossOK, HiddenByRow, EventsMissingForAReason, FraudRows, LargeRows
<1>2. QED
  BY <1>1, Invariance, PTL

\* The ten metrics alone are data points enough.
THEOREM DataAlwaysSufficient == Spec => []InsufficientNeedsFault
<1>1. IInv => InsufficientNeedsFault
  BY DEF IInv, LossOK, InsightOK, InsufficientNeedsFault
<1>2. QED
  BY <1>1, Invariance, PTL

\* Rows that show a growing revenue lead to an insight only when the computation
\* of the trends failed, and nothing else leads to a rejected recommendation.
THEOREM GrowthUnreported == Spec => []GrowthNeverReported
<1>1. IInv => GrowthNeverReported
  <2> SUFFICES ASSUME IInv PROVE GrowthNeverReported
    OBVIOUS
  <2>1. ~Growing(NoGrowth)
    BY DEF Growing, Growth, NoGrowth
  <2>2. Growing(TrendOf("CREDIT")) <=> step.trends = "done" /\ RevenueGrew
    BY <2>1 DEF TrendOf, RevenueGrew
  <2>3. Built => ~Growing(TrendOf("CREDIT")) /\ step.trends \in {"done", "failed"}
    BY GrowthIsRejected DEF IInv, InsightOK
  <2>4. error = "recommendation" => Growing(TrendOf("CREDIT"))
    BY DEF IInv, InsightOK
  <2>5. QED
    BY <2>2, <2>3, <2>4 DEF GrowthNeverReported
<1>2. QED
  BY <1>1, Invariance, PTL

\* Alerts that were there at the beginning are counted by the metrics, which are
\* in an insight unless a query failed; and counted alerts are urgent.
THEOREM AlarmRaised == Spec => []FraudAlarmRaised
<1>1. IInv => FraudAlarmRaised
  <2> DEFINE known == Cardinality(Daily(before, TargetDate).fraud_alerts)
  <2> SUFFICES ASSUME IInv, Built, faults = 0, known > 0
               PROVE  /\ Urgent(insight)
                      /\ \E r \in Recommendations(insight) :
                            r.about = "FRAUD" /\ (known >= 3 => r.priority = "CRITICAL")
    BY DEF FraudAlarmRaised
  <2>1. step.metrics = "done" /\ insight.known
    BY DEF IInv, InsightOK, LossOK
  <2>2. Daily(before, TargetDate).fraud_alerts \subseteq read.today.fraud_alerts
    BY <2>1 DEF IInv, MetricsWithinGathering, TodayRead
  <2>3. IsFiniteSet(read.today.fraud_alerts)
    BY FS_Subset DEF IInv, TypeOK, Copies
  <2>4. /\ insight.now.alerts = Cardinality(read.today.fraud_alerts)
        /\ insight.now.alerts \in Nat /\ known \in Nat
        /\ known <= insight.now.alerts
    BY <2>1, <2>2, <2>3, FS_Subset, FS_CardinalityType DEF IInv, InsightOK
  <2> HIDE DEF known
  <2>5. QED
    BY <2>4, AlertsAreUrgent
<1>2. QED
  BY <1>1, Invariance, PTL

\* Without revenue the margin is below any of its thresholds.
THEOREM QuietUrgent == Spec => []QuietDayIsUrgent
<1>1. IInv => QuietDayIsUrgent
  BY QuietDays DEF IInv, InsightOK, QuietDayIsUrgent
<1>2. QED
  BY <1>1, Invariance, PTL

-----------------------------------------------------------------------------
(* The figures of an insight. *)

IntegerAmounts == \A t \in transactions : t.amount \in Int

LEMMA AmountsStayIntegers == Spec => []IntegerAmounts
<1>1. Init => IntegerAmounts
  BY AmountsAssumption DEF Init, InitCopies, IntegerAmounts
<1>2. IntegerAmounts /\ [Next]_vars => IntegerAmounts'
  <2> SUFFICES ASSUME IntegerAmounts, [Next]_vars
               PROVE  IntegerAmounts'
    OBVIOUS
  <2>1. CASE UNCHANGED copies
    BY <2>1 DEF copies, IntegerAmounts
  <2>2. ASSUME NEW m \in TxMessages, OnTransaction(m)
        PROVE  IntegerAmounts'
    <3>1. TxComplete(m) => TxRow(m).amount \in Int
      BY AmountsAssumption DEF TxComplete, TxRow
    <3>2. transactions' # transactions => TxComplete(m) /\ transactions' = transactions \cup {TxRow(m)}
      BY <2>2 DEF OnTransaction, Insert
    <3>3. QED
      BY <3>1, <3>2 DEF IntegerAmounts
  <2>3. ASSUME NEW m \in AlertMessages, OnAlert(m)
        PROVE  IntegerAmounts'
    BY <2>3, OnAlertInserts DEF IntegerAmounts
  <2>4. CASE Midnight
    BY <2>4 DEF Midnight, IntegerAmounts
  <2>5. QED
    BY <2>1, <2>2, <2>3, <2>4, OtherSteps DEF Ingest, Consume
<1>3. QED
  BY <1>1, <1>2, PTL DEF Spec

\* SUM(CASE WHEN type = ... THEN amount ELSE 0 END): a natural number, which the
\* rows that are added do not lower.
LEMMA TotalsGrow ==
  ASSUME NEW rows, IsFiniteSet(rows), \A t \in rows : t.amount \in Nat, NEW type
  PROVE  /\ Total(rows, type) \in Nat
         /\ \A fewer \in SUBSET rows : Total(fewer, type) <= Total(rows, type)
<1> DEFINE of(R) == {t \in R : t.type = type}
<1>1. \A R : Total(R, type) = Amounts(of(R))
  BY DEF Total, Amounts
<1>2. /\ IsFiniteSet(of(rows)) /\ \A t \in of(rows) : t.amount \in Nat
      /\ \A fewer \in SUBSET rows : of(fewer) \in SUBSET of(rows)
  BY FS_Subset
<1> HIDE DEF of
<1>3. /\ Amounts(of(rows)) \in Nat
      /\ \A R \in SUBSET of(rows) : Amounts(R) <= Amounts(of(rows))
  BY <1>2, AmountsGrow
<1>4. QED
  BY <1>1, <1>2, <1>3

\* COUNT(DISTINCT vendor): a value that many rows share counts once.
LEMMA VendorsCounted ==
  ASSUME NEW rows, IsFiniteSet(rows)
  PROVE  Cardinality({t.vendor : t \in rows} \ {Absent}) \in Nat
<1> DEFINE vendors == {t.vendor : t \in rows}
           vendor == [t \in rows |-> t.vendor]
<1>1. vendor \in Surjection(rows, vendors)
  BY DEF Surjection
<1>2. IsFiniteSet(vendors)
  <2> HIDE DEF vendors, vendor
  <2>1. QED
    BY <1>1, FS_Surjection
<1>3. IsFiniteSet(vendors \ {Absent})
  <2> HIDE DEF vendors
  <2>1. vendors \ {Absent} \in SUBSET vendors
    OBVIOUS
  <2>2. QED
    BY <1>2, <2>1, FS_Subset
<1>4. QED
  BY <1>3, FS_CardinalityType

\* _get_daily_stats on rows of natural amounts.
LEMMA StatsAreNatural ==
  ASSUME NEW r, IsFiniteSet(r.transactions), IsFiniteSet(r.fraud_alerts),
         \A t \in r.transactions : t.amount \in Nat
  PROVE  Stats(r) \in StatsType
<1>1. /\ Total(r.transactions, "CREDIT") \in Nat
      /\ Total(r.transactions, "DEBIT") \in Nat
  BY TotalsGrow
<1>2. MapThenSumSet(LAMBDA t : t.amount, r.transactions) \in Nat
  BY AmountsGrow DEF Amounts
<1>3. Cardinality({t.vendor : t \in r.transactions} \ {Absent}) \in Nat
  BY VendorsCounted
<1>4. IsFiniteSet({f \in r.fraud_alerts : Alarming(f)})
  <2>1. {f \in r.fraud_alerts : Alarming(f)} \in SUBSET r.fraud_alerts
    OBVIOUS
  <2>2. QED
    BY <2>1, FS_Subset
<1>5. /\ Cardinality(r.transactions) \in Nat /\ Cardinality(r.fraud_alerts) \in Nat
      /\ Cardinality({f \in r.fraud_alerts : Alarming(f)}) \in Nat
  BY <1>4, FS_CardinalityType
<1>6. QED
  BY <1>1, <1>2, <1>3, <1>5 DEF Stats, StatsType

\* The figures of an insight are those of the rows that the queries returned.
FiguresOK ==
    Built => LET known(rows, none) == IF insight.known THEN rows ELSE none
             IN  /\ insight.now = Stats(known(read.today, NoRows))
                 /\ insight.previous = Stats(known(read.previous, NoRows))
                 /\ insight.spent = Total(known(read.burn, {}), "DEBIT")

LEMMA FactsOfFigures ==
  /\ Facts.now = Stats(IF Facts.known THEN read.today ELSE NoRows)
  /\ Facts.previous = Stats(IF Facts.known THEN read.previous ELSE NoRows)
  /\ Facts.spent = Total(IF Facts.known THEN read.burn ELSE {}, "DEBIT")
BY DEF Facts

\* Only Build sets the insight, and nothing is read after it.
LEMMA OnlyBuildSets ==
  ASSUME TypeOK, [Next]_vars
  PROVE  \/ Built' => Built /\ UNCHANGED <<insight, read>>
         \/ pc' = "store" /\ insight' = Facts /\ UNCHANGED read
<1>1. CASE UNCHANGED vars
  BY <1>1 DEF vars, generation, Built
<1>2. CASE Ingest
  BY <1>2 DEF Ingest, generation, Built
<1>3. CASE Start \/ Task
  BY <1>3 DEF Start, Task, ReadToday, ReadPrevious, ReadBurn, ReadBalance, ReadFraud, ReadLarge,
              ReadHistory, Query, LoseTask, Built
<1>4. CASE Build
  BY <1>4 DEF Build, Insufficient, Reject, TooLong, Create, Fail, Built
<1>5. CASE Store \/ StoreError
  BY <1>5 DEF Store, StoreError, Fail, Built
<1>6. QED
  BY <1>1, <1>2, <1>3, <1>4, <1>5 DEF Next

LEMMA FiguresKept == Spec => []FiguresOK
<1>1. Init => FiguresOK
  BY DEF Init, FiguresOK, Built
<1>2. TypeOK /\ FiguresOK /\ [Next]_vars => FiguresOK'
  <2> SUFFICES ASSUME TypeOK, FiguresOK, [Next]_vars
               PROVE  FiguresOK'
    OBVIOUS
  <2>1. CASE Built' => Built /\ UNCHANGED <<insight, read>>
    BY <2>1 DEF FiguresOK
  <2>2. CASE pc' = "store" /\ insight' = Facts /\ UNCHANGED read
    BY <2>2, FactsOfFigures DEF FiguresOK
  <2>3. QED
    BY <2>1, <2>2, OnlyBuildSets
<1>3. QED
  BY <1>1, <1>2, TypeCorrect, PTL DEF Spec

\* _calculate_runway sums the debits and negates the sum: debits of positive
\* amounts, whatever their number and order, never lead to a warning of the cash
\* flow, and one that is given needs a debit with a negative amount.
THEOREM CashWarning == Spec => []CashRiskNeedsNegativeDebit
<1>1. TypeOK /\ IntegerAmounts /\ FiguresOK => CashRiskNeedsNegativeDebit
  <2> DEFINE burn == IF insight.known THEN read.burn ELSE {}
             debits == {t \in burn : t.type = "DEBIT"}
  <2> SUFFICES ASSUME TypeOK, IntegerAmounts, FiguresOK, Built,
                      \A t \in read.burn : ~(t.type = "DEBIT" /\ t.amount < 0)
               PROVE  \A r \in Risks(insight) : r.type # "CASH_FLOW"
    BY DEF CashRiskNeedsNegativeDebit
  <2>1. burn \in SUBSET transactions /\ IsFiniteSet(transactions)
    BY DEF TypeOK
  <2>2. debits \in SUBSET transactions /\ \A t \in debits : t.amount \in Nat
    BY <2>1 DEF IntegerAmounts
  <2>3. insight.spent = Amounts(debits)
    BY DEF FiguresOK, Total, Amounts
  <2> HIDE DEF debits
  <2>4. insight.spent \in Nat
    BY <2>1, <2>2, <2>3, FS_Subset, AmountsGrow
  <2>5. QED
    BY <2>4, NoCashRisk
<1>2. QED
  BY <1>1, FiguresKept, TypeCorrect, AmountsStayIntegers, PTL

\* The figures of a day without negative amounts are natural numbers.
LEMMA UnsignedFigures ==
  ASSUME TypeOK, IntegerAmounts, NEW r \in Copies, Unsigned(r.transactions)
  PROVE  Stats(r) \in StatsType
<1>1. r.transactions \in SUBSET transactions /\ r.fraud_alerts \in SUBSET fraud_alerts
  BY DEF Copies
<1>2. IsFiniteSet(r.transactions) /\ IsFiniteSet(r.fraud_alerts)
  BY <1>1, FS_Subset DEF TypeOK
<1>3. \A t \in r.transactions : t.amount \in Nat
  BY <1>1 DEF IntegerAmounts, Unsigned
<1>4. QED
  BY <1>2, <1>3, StatsAreNatural

\* Counts, sums and averages of the rows of two days, none of them negative,
\* never fall by more than 100 per cent, however many rows there are; only the
\* profit does.
THEOREM ProfitAloneFalls == Spec => []OnlyProfitFallsFurther
<1>1. TypeOK /\ IntegerAmounts /\ FiguresOK => OnlyProfitFallsFurther
  <2> SUFFICES ASSUME TypeOK, IntegerAmounts, FiguresOK, Built,
                      Unsigned(read.today.transactions \cup read.previous.transactions)
               PROVE  \A name \in DOMAIN Metrics(insight) :
                         PastMinus100(Metrics(insight)[name]) => name = "profit"
    BY DEF OnlyProfitFallsFurther
  <2>1. /\ read.today \in Copies /\ read.previous \in Copies /\ NoRows \in Copies
        /\ Unsigned(read.today.transactions) /\ Unsigned(read.previous.transactions)
        /\ Unsigned(NoRows.transactions)
    BY DEF TypeOK, NoRows, Copies, Unsigned
  <2>2. insight.now \in StatsType /\ insight.previous \in StatsType
    BY <2>1, UnsignedFigures DEF FiguresOK
  <2>3. QED
    BY <2>2, OnlyProfitFalls
<1>2. QED
  BY <1>1, FiguresKept, TypeCorrect, AmountsStayIntegers, PTL

\* What an insight says of its day lies between what the tables said when the
\* generation began and what they say when it is built: the numbers of rows, and
\* the sums of a day without negative amounts.
FiguresWithinGathering ==
    Built /\ insight.known =>
        LET early == Daily(before, TargetDate).transactions
            late == Daily(Now, TargetDate).transactions
        IN  /\ Cardinality(early) <= insight.now.transactions
            /\ insight.now.transactions <= Cardinality(late)
            /\ Unsigned(late) =>
                  /\ Total(early, "CREDIT") <= insight.now.revenue
                  /\ insight.now.revenue <= Total(late, "CREDIT")
                  /\ Total(early, "DEBIT") <= insight.now.expenses
                  /\ insight.now.expenses <= Total(late, "DEBIT")

\* The queries of _gather_all_data share no snapshot, but the figures of the day
\* come from one query: they are those of a moment of the gathering, while the
\* handlers insert rows, redelivered ones included.
THEOREM FiguresOfOneMoment == Spec => []FiguresWithinGathering
<1>1. IInv /\ IntegerAmounts /\ FiguresOK => FiguresWithinGathering
  <2> DEFINE early == Daily(before, TargetDate).transactions
             late == Daily(Now, TargetDate).transactions
             rows == read.today.transactions
  <2> SUFFICES ASSUME IInv, IntegerAmounts, FiguresOK, Built, insight.known
               PROVE  /\ Cardinality(early) <= insight.now.transactions
                      /\ insight.now.transactions <= Cardinality(late)
                      /\ Unsigned(late) =>
                            /\ Total(early, "CREDIT") <= insight.now.revenue
                            /\ insight.now.revenue <= Total(late, "CREDIT")
                            /\ Total(early, "DEBIT") <= insight.now.expenses
                            /\ insight.now.expenses <= Total(late, "DEBIT")
    BY DEF FiguresWithinGathering
  <2>1. early \in SUBSET rows /\ rows \in SUBSET late
    BY DEF IInv, InsightOK, MetricsWithinGathering, TodayRead
  <2>2. late \in SUBSET transactions /\ IsFiniteSet(transactions)
    BY DEF IInv, TypeOK, Daily, Now, Visible
  <2>3. /\ insight.now.revenue = Total(rows, "CREDIT")
        /\ insight.now.expenses = Total(rows, "DEBIT")
        /\ insight.now.transactions = Cardinality(rows)
    BY DEF FiguresOK, Stats
  <2> HIDE DEF early, late, rows
  <2>4. IsFiniteSet(late) /\ IsFiniteSet(rows) /\ IsFiniteSet(early)
    BY <2>1, <2>2, FS_Subset
  <2>5. ASSUME Unsigned(late)
        PROVE  /\ Total(early, "CREDIT") <= Total(rows, "CREDIT")
               /\ Total(rows, "CREDIT") <= Total(late, "CREDIT")
               /\ Total(early, "DEBIT") <= Total(rows, "DEBIT")
               /\ Total(rows, "DEBIT") <= Total(late, "DEBIT")
    <3>1. \A t \in late : t.amount \in Nat
      BY <2>2, <2>5 DEF IntegerAmounts, Unsigned
    <3>2. QED
      BY <2>1, <2>4, <3>1, TotalsGrow
  <2>6. Cardinality(early) <= Cardinality(rows) /\ Cardinality(rows) <= Cardinality(late)
    BY <2>1, <2>4, FS_Subset
  <2>7. QED
    BY <2>3, <2>5, <2>6
<1>2. QED
  BY <1>1, Invariance, AmountsStayIntegers, FiguresKept, PTL
=============================================================================
