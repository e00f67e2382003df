---------------------------- MODULE SummaryRules ----------------------------
(***************************************************************************)
(* The business rules of src/generators/daily_summary.py, as operators on   *)
(* the facts that were gathered about an account and a day, and the bounds  *)
(* of src/models/insight.py that their results must keep.                   *)
(*                                                                          *)
(* The facts f are a record of integers; a quotient is compared by          *)
(* multiplying it out, so that percentages are exact.  f.known says whether *)
(* the metrics are there; without them their numbers are 0, which is what   *)
(* metrics.get(name, Metric(value=0)) gives.                                *)
(***************************************************************************)
EXTENDS Integers, FiniteSets

Abs(n) == IF n < 0 THEN -n ELSE n
Or1(n) == IF n = 0 THEN 1 ELSE n
When(condition, x) == IF condition THEN {x} ELSE {}

-----------------------------------------------------------------------------
(* Metrics.  A previous value of 0 becomes None: float(prev) if prev.       *)

Metric(value, previous) == [value |-> value, previous |-> previous]

Profit(stats) == stats.revenue - stats.expenses

\* MUTANT of Metrics: expenses carry the sign of the ledger.
MetricsSigned(f) ==
    [revenue |-> Metric(f.now.revenue, f.previous.revenue),
     expenses |-> Metric(-f.now.expenses, f.previous.expenses),
     profit |-> Metric(Profit(f.now), Profit(f.previous))]

\* The averages are brought to a common denominator.
Metrics(f) ==
    [transactions   |-> Metric(f.now.transactions, f.previous.transactions),
     revenue        |-> Metric(f.now.revenue, f.previous.revenue),
     expenses       |-> Metric(f.now.expenses, f.previous.expenses),
     profit         |-> Metric(Profit(f.now), Profit(f.previous)),
     averages       |-> Metric(f.now.total * Or1(f.previous.transactions),
                               f.previous.total * Or1(f.now.transactions)),
     vendors        |-> Metric(f.now.vendors, f.previous.vendors),
     alerts         |-> Metric(f.now.alerts, f.previous.alerts),
     highAlerts     |-> Metric(f.now.highAlerts, f.previous.highAlerts)]

\* The percentages of _determine_trend: up and strong_up, down and strong_down.
Rising(m) == /\ m.previous # 0
             /\ 100 * (m.value - m.previous) >= 5 * Abs(m.previous)
Falling(m) == /\ m.previous # 0
              /\ 100 * (m.value - m.previous) <= -5 * Abs(m.previous)

\* change_percentage: Field(None, ge=-100, le=1000)
PastMinus100(m) == m.previous # 0 /\ m.value - m.previous < -Abs(m.previous)
Past1000(m) == m.previous # 0 /\ m.value - m.previous > 10 * Abs(m.previous)

\* Whether row_to_insight can build the model again from the stored metrics.
\* Neither _create_metric's assignment nor the model's own is validated.
Readable(f) ==
    \A name \in DOMAIN Metrics(f) : /\ ~PastMinus100(Metrics(f)[name])
                                    /\ ~Past1000(Metrics(f)[name])

\* MUTANT of MarginBelow: a day without revenue has no margin.
MarginBelowOfRevenue(f, p) == f.known /\ f.now.revenue > 0 /\ 100 * Profit(f.now) < p * f.now.revenue

\* The profit margin of the day is below p per cent; without revenue it is 0.
MarginBelow(f, p) ==
    /\ f.known
    /\ IF f.now.revenue > 0 THEN 100 * Profit(f.now) < p * f.now.revenue ELSE 0 < p

\* MUTANT of Burn: the sum of the debits is not negated.
BurnUnsigned(f) == f.spent

\* SUM(...) * -1 as daily_burn, over the days that have debits.
Burn(f) == -f.spent

\* runway_days = balance / avg_daily_burn if avg_daily_burn > 0 else inf
RunwayBelow(f, days) == /\ f.known
                        /\ Burn(f) > 0
                        /\ f.balance * f.spendingDays < days * Burn(f)

-----------------------------------------------------------------------------
(* Trends of 14 days or more: [recent, previous], averages brought to a     *)
(* common denominator.  A previous average of 0 makes the growth 0.         *)

NoGrowth == [recent |-> 1, previous |-> 1]
Growth(t) == IF t.previous > 0 THEN t ELSE NoGrowth

Growing(t) == LET g == Growth(t)
              IN  100 * (g.recent - g.previous) > 5 * g.previous

\* expense_growth > revenue_growth + 0.05
Outgrows(e, r) ==
    LET x == Growth(e)
        y == Growth(r)
    IN  20 * (x.recent * y.previous - y.recent * x.previous) > x.previous * y.previous

-----------------------------------------------------------------------------
(* Risks, with probabilities in thousandths. *)

Risk(type, probability, impact, timeframe) ==
    [type |-> type, probability |-> probability, impact |-> impact, timeframe |-> timeframe]

\* MUTANT of FraudRisks: the threshold is a strict one.
FraudRisksAbove(f) ==
    When(f.now.alerts > 3, Risk("FRAUD", 800, "CRITICAL", "immediate"))
    \cup When(f.now.alerts \in 2 .. 3, Risk("FRAUD", 400, "HIGH", "today"))

FraudRisks(f) ==
    When(f.now.alerts >= 3, Risk("FRAUD", 800, "CRITICAL", "immediate"))
    \cup When(f.now.alerts \in 1 .. 2, Risk("FRAUD", 400, "HIGH", "today"))

CashRisks(f) ==
    IF RunwayBelow(f, 30) THEN {Risk("CASH_FLOW", 700, "CRITICAL", "immediate")}
    ELSE When(RunwayBelow(f, 90), Risk("CASH_FLOW", 400, "HIGH", "this_week"))

Adjusted(probability, tolerance) ==
    IF tolerance = "high" THEN (probability * 7) \div 10
    ELSE IF tolerance = "low" THEN (probability * 13) \div 10
    ELSE probability

Risks(f) ==
    LET raised == FraudRisks(f) \cup CashRisks(f)
            \cup When(MarginBelow(f, 5), Risk("PROFITABILITY", 500, "HIGH", "this_week"))
            \cup When(Falling(Metrics(f).revenue), Risk("GROWTH", 400, "MEDIUM", "this_week"))
    IN  {[r EXCEPT !.probability = Adjusted(@, f.tolerance)] : r \in raised}

-----------------------------------------------------------------------------
(* Opportunities and recommendations. *)

Opportunity(type, potential, timeframe) ==
    [type |-> type, potential |-> potential, timeframe |-> timeframe]

Opportunities(f) ==
    When(Growing(f.revenueTrend), Opportunity("growth", "HIGH", "next_month"))
    \cup When(Outgrows(f.expenseTrend, f.revenueTrend),
              Opportunity("cost_optimization", "MEDIUM", "this_month"))
    \cup When(f.now.vendors < 5, Opportunity("vendor_diversification", "MEDIUM", "next_quarter"))
    \cup When(MarginBelow(f, 15), Opportunity("revenue_optimization", "MEDIUM", "this_month"))

Recommendation(category, about, priority, timeframe) ==
    [category |-> category, about |-> about, priority |-> priority, timeframe |-> timeframe]

Recommendations(f) ==
    {Recommendation("risk_mitigation", r.type, r.impact, r.timeframe) :
        r \in {x \in Risks(f) : x.impact \in {"CRITICAL", "HIGH"}}}
    \cup {Recommendation("opportunity", o.type, "MEDIUM", o.timeframe) :
             o \in {x \in Opportunities(f) : x.potential = "HIGH"}}
    \cup When(MarginBelow(f, 10),
              Recommendation("performance_improvement", "margin", "MEDIUM", "this_month"))
    \cup When(Falling(Metrics(f).revenue),
              Recommendation("revenue_growth", "decline", "HIGH", "this_week"))

\* MUTANT of Timeframes: the pattern knows every timeframe the rules use.
TimeframesOfRules == {"immediate", "today", "this_week", "this_month", "next_month", "next_quarter"}

\* Recommendation.timeframe: pattern of the model.
Timeframes == {"immediate", "today", "this_week", "this_month", "next_quarter"}

Valid(f) == \A r \in Recommendations(f) : r.timeframe \in Timeframes

\* _trigger_notifications sends a message.
Urgent(f) == \/ \E r \in Recommendations(f) : r.priority \in {"CRITICAL", "HIGH"}
             \/ \E r \in Risks(f) : r.impact = "CRITICAL"

-----------------------------------------------------------------------------
(* Sufficiency, confidence and sentiment. *)

MinDataPoints == 5
Events(f) == f.fraud + f.credits + f.debits

\* MUTANT of DataPoints: only what the account really has is counted.
DataPointsOfAccount(f) == f.now.transactions + Events(f) + (IF f.trends THEN 3 ELSE 0)

\* Eight metrics, the margin and the runway, whatever their values; then the
\* events and the three trends.
DataPoints(f) == (IF f.known THEN 10 ELSE 0) + Events(f) + (IF f.trends THEN 3 ELSE 0)

\* In per cent.
Confidence(points) == IF points > 20 THEN 95
                      ELSE IF points > 10 THEN 85
                      ELSE IF points > 5 THEN 70
                      ELSE 50

\* Ten times the relative change of the profit, rounded; nothing without one.
ProfitWeight(m) == IF m.previous = 0 THEN 0
                   ELSE (20 * (m.value - m.previous) + Abs(m.previous)) \div (2 * Abs(m.previous))

RevenueWeight(m) == IF Rising(m) THEN 5 ELSE IF Falling(m) THEN -5 ELSE 0

Clamp(n) == IF n < 0 THEN 0 ELSE IF n > 100 THEN 100 ELSE n

\* In per cent, as DailyInsight rounds it.
Sentiment(f) == Clamp(50 - 10 * f.fraud + 5 * f.credits - 5 * f.debits
                      + ProfitWeight(Metrics(f).profit) + RevenueWeight(Metrics(f).revenue))

SentimentLabel(s) == IF s >= 50 THEN "Very Positive"
                     ELSE IF s >= 20 THEN "Positive"
                     ELSE IF s >= -20 THEN "Neutral"
                     ELSE IF s >= -50 THEN "Negative"
                     ELSE "Very Negative"
=============================================================================
