-------------------------- MODULE SummaryRulesProofs --------------------------
(***************************************************************************)
(* What the rules of SummaryRules give for every value of the facts.        *)
(***************************************************************************)
EXTENDS SummaryRules, TLAPS

\* What the queries return: counts and sums of amounts.
Figures == [transactions : Nat, revenue : Int, expenses : Int, total : Int,
            vendors : Nat, alerts : Nat, highAlerts : Nat]

\* The same of rows without negative amounts.
StatsType == [transactions : Nat, revenue : Nat, expenses : Nat, total : Nat,
              vendors : Nat, alerts : Nat, highAlerts : Nat]

-----------------------------------------------------------------------------
(* The runway. *)

LEMMA NoRunway ==
  ASSUME NEW f, f.spent \in Nat, NEW days
  PROVE  ~RunwayBelow(f, days)
BY DEF RunwayBelow, Burn

\* _calculate_runway negates what it sums and asks for a positive burn: no
\* account whose debits sum to a natural number is warned of its runway.
THEOREM NoCashRisk ==
  ASSUME NEW f, f.spent \in Nat
  PROVE  \A r \in Risks(f) : r.type # "CASH_FLOW"
<1>1. CashRisks(f) = {}
  BY NoRunway DEF CashRisks, When
<1>2. QED
  BY <1>1 DEF Risks, FraudRisks, When, Risk

-----------------------------------------------------------------------------
(* Probabilities. *)

\* _identify_risks scales probabilities by 1.3 without a bound: the one of three
\* fraud alerts becomes 1.04 for an account of low tolerance, and no other
\* probability leaves 0 to 1.
THEOREM ProbabilityBound ==
  ASSUME NEW f, f.tolerance \in {"low", "medium", "high"}
  PROVE  \A r \in Risks(f) :
            /\ r.probability \in 0 .. 1040
            /\ r.probability > 1000 => r.type = "FRAUD" /\ r.impact = "CRITICAL" /\ f.tolerance = "low"
<1> SUFFICES ASSUME NEW r \in Risks(f)
             PROVE  /\ r.probability \in 0 .. 1040
                    /\ r.probability > 1000 =>
                          r.type = "FRAUD" /\ r.impact = "CRITICAL" /\ f.tolerance = "low"
  OBVIOUS
<1>1. PICK p \in {Risk("FRAUD", 800, "CRITICAL", "immediate"), Risk("FRAUD", 400, "HIGH", "today"),
                  Risk("CASH_FLOW", 700, "CRITICAL", "immediate"),
                  Risk("CASH_FLOW", 400, "HIGH", "this_week"),
                  Risk("PROFITABILITY", 500, "HIGH", "this_week"),
                  Risk("GROWTH", 400, "MEDIUM", "this_week")} :
            r = [p EXCEPT !.probability = Adjusted(@, f.tolerance)]
  BY DEF Risks, FraudRisks, CashRisks, When
<1>2. /\ r.type = p.type
      /\ r.impact = p.impact
      /\ r.probability = Adjusted(p.probability, f.tolerance)
  BY <1>1 DEF Risk
<1>3. CASE p = Risk("FRAUD", 800, "CRITICAL", "immediate")
  BY <1>2, <1>3 DEF Risk, Adjusted
<1>4. CASE p # Risk("FRAUD", 800, "CRITICAL", "immediate")
  <2>1. p.probability \in {400, 500, 700}
    BY <1>1, <1>4 DEF Risk
  <2>2. QED
    BY <1>2, <2>1 DEF Adjusted
<1>5. QED
  BY <1>3, <1>4

-----------------------------------------------------------------------------
(* Recommendations. *)

LEMMA TimeframesOfRisks ==
  ASSUME NEW f
  PROVE  \A r \in Risks(f) : r.timeframe \in {"immediate", "today", "this_week"}
BY DEF Risks, FraudRisks, CashRisks, When, Risk

\* The facts that make an invalid recommendation are those of a growing revenue:
\* no other rule uses a timeframe that the model rejects.
THEOREM GrowthIsRejected ==
  ASSUME NEW f
  PROVE  Valid(f) <=> ~Growing(f.revenueTrend)
<1> DEFINE growth == Opportunity("growth", "HIGH", "next_month")
           advice(o) == Recommendation("opportunity", o.type, "MEDIUM", o.timeframe)
<1>1. ASSUME Growing(f.revenueTrend)
      PROVE  ~Valid(f)
  <2>1. growth \in Opportunities(f) /\ growth.potential = "HIGH"
    BY <1>1 DEF Opportunities, When, Opportunity
  <2>2. advice(growth) \in Recommendations(f)
    BY <2>1 DEF Recommendations
  <2>3. advice(growth).timeframe = "next_month"
    BY DEF Recommendation, Opportunity
  <2>4. QED
    BY <2>2, <2>3 DEF Valid, Timeframes
<1>2. ASSUME ~Growing(f.revenueTrend)
      PROVE  Valid(f)
  <2>1. {o \in Opportunities(f) : o.potential = "HIGH"} = {}
    BY <1>2 DEF Opportunities, When, Opportunity
  <2>2. ASSUME NEW r \in Recommendations(f)
        PROVE  r.timeframe \in Timeframes
    BY <2>1, <2>2, TimeframesOfRisks DEF Recommendations, When, Recommendation, Timeframes
  <2>3. QED
    BY <2>2 DEF Valid
<1>3. QED
  BY <1>1, <1>2

LEMMA RiskIsAdvised ==
  ASSUME NEW f, NEW r \in Risks(f), r.impact \in {"CRITICAL", "HIGH"}
  PROVE  /\ Recommendation("risk_mitigation", r.type, r.impact, r.timeframe) \in Recommendations(f)
         /\ Urgent(f)
<1>1. Recommendation("risk_mitigation", r.type, r.impact, r.timeframe) \in Recommendations(f)
  BY DEF Recommendations
<1>2. QED
  BY <1>1 DEF Urgent, Recommendation

\* Any alert that is counted becomes a recommendation and a notification; three
\* of them make it a critical one.
THEOREM AlertsAreUrgent ==
  ASSUME NEW f, f.now.alerts \in Nat, f.now.alerts > 0
  PROVE  /\ Urgent(f)
         /\ \E r \in Recommendations(f) :
               r.about = "FRAUD" /\ r.priority = (IF f.now.alerts >= 3 THEN "CRITICAL" ELSE "HIGH")
<1> DEFINE impact == IF f.now.alerts >= 3 THEN "CRITICAL" ELSE "HIGH"
           timeframe == IF f.now.alerts >= 3 THEN "immediate" ELSE "today"
           chance == Adjusted(IF f.now.alerts >= 3 THEN 800 ELSE 400, f.tolerance)
           risk == Risk("FRAUD", chance, impact, timeframe)
<1>1. Risk("FRAUD", IF f.now.alerts >= 3 THEN 800 ELSE 400, impact, timeframe) \in FraudRisks(f)
  BY DEF FraudRisks, When
<1>2. risk \in Risks(f)
  <2>1. risk = [Risk("FRAUD", IF f.now.alerts >= 3 THEN 800 ELSE 400, impact, timeframe)
                   EXCEPT !.probability = Adjusted(@, f.tolerance)]
    BY DEF Risk
  <2>2. QED
    BY <1>1, <2>1 DEF Risks
<1>3. risk.type = "FRAUD" /\ risk.impact = impact /\ impact \in {"CRITICAL", "HIGH"}
  BY DEF Risk
<1>4. /\ Recommendation("risk_mitigation", "FRAUD", impact, risk.timeframe) \in Recommendations(f)
      /\ Urgent(f)
  BY <1>2, <1>3, RiskIsAdvised
<1>5. QED
  BY <1>4 DEF Recommendation

\* A day without revenue is urgent, and confident, whatever else is known of it.
THEOREM QuietDays ==
  ASSUME NEW f, f.known, f.now.revenue = 0,
         f.fraud \in Nat, f.credits \in Nat, f.debits \in Nat
  PROVE  Urgent(f) /\ Confidence(DataPoints(f)) >= 70
<1> DEFINE margin == Risk("PROFITABILITY", 500, "HIGH", "this_week")
           risk == [margin EXCEPT !.probability = Adjusted(@, f.tolerance)]
<1>1. risk \in Risks(f)
  BY DEF Risks, MarginBelow, When
<1>2. risk.impact = "HIGH"
  BY DEF Risk
<1>3. Urgent(f)
  BY <1>1, <1>2, RiskIsAdvised
<1>4. DataPoints(f) >= 10 /\ DataPoints(f) \in Nat
  BY DEF DataPoints, Events
<1>5. QED
  BY <1>3, <1>4 DEF Confidence

-----------------------------------------------------------------------------
(* Sentiment, confidence and the bounds of a metric. *)

LEMMA WeightsAreIntegers ==
  ASSUME NEW f, f.now \in Figures, f.previous \in Figures
  PROVE  ProfitWeight(Metrics(f).profit) \in Int /\ RevenueWeight(Metrics(f).revenue) \in Int
<1> DEFINE m == Metrics(f).profit
<1>1. m.value \in Int /\ m.previous \in Int
  BY DEF Metrics, Metric, Profit, Figures
<1>2. CASE m.previous = 0
  BY <1>2 DEF ProfitWeight, RevenueWeight
<1>3. CASE m.previous # 0
  <2> DEFINE up == 20 * (m.value - m.previous) + Abs(m.previous)
             down == 2 * Abs(m.previous)
  <2>1. up \in Int /\ down \in Int /\ down > 0
    BY <1>1, <1>3 DEF Abs
  <2> HIDE DEF up, down
  <2>2. up \div down \in Int
    BY <2>1
  <2>3. ProfitWeight(m) = up \div down
    BY <1>3 DEF ProfitWeight, up, down
  <2>4. QED
    BY <2>2, <2>3 DEF RevenueWeight
<1>4. QED
  BY <1>2, <1>3

\* The sentiment starts at "Very Positive" (0.5) and is cut off at 0: however
\* many alerts a day has, its label is never "Negative".
THEOREM SentimentNeverNegative ==
  ASSUME NEW f, f.now \in Figures, f.previous \in Figures,
         f.fraud \in Nat, f.credits \in Nat, f.debits \in Nat
  PROVE  /\ Sentiment(f) \in 0 .. 100
         /\ SentimentLabel(Sentiment(f)) \in {"Very Positive", "Positive", "Neutral"}
<1>1. ASSUME NEW n \in Int
      PROVE  /\ Clamp(n) \in 0 .. 100
             /\ SentimentLabel(Clamp(n)) \in {"Very Positive", "Positive", "Neutral"}
  BY DEF SentimentLabel, Clamp
<1> DEFINE p == ProfitWeight(Metrics(f).profit)
           r == RevenueWeight(Metrics(f).revenue)
<1>2. p \in Int /\ r \in Int
  BY WeightsAreIntegers
<1>3. Sentiment(f) = Clamp(50 - 10 * f.fraud + 5 * f.credits - 5 * f.debits + p + r)
  BY DEF Sentiment
<1> HIDE DEF p, r
<1>4. 50 - 10 * f.fraud + 5 * f.credits - 5 * f.debits + p + r \in Int
  BY <1>2
<1>5. QED
  BY <1>1, <1>3, <1>4

\* The text of an insight shows the confidence without the trends: it is never
\* above the confidence that is stored with it.
THEOREM ShownConfidence ==
  ASSUME NEW f, f.fraud \in Nat, f.credits \in Nat, f.debits \in Nat
  PROVE  Confidence(DataPoints([f EXCEPT !.trends = FALSE])) <= Confidence(DataPoints(f))
BY DEF Confidence, DataPoints, Events

LEMMA NaturalsReadable ==
  ASSUME NEW v \in Nat, NEW p \in Nat
  PROVE  ~PastMinus100(Metric(v, p))
BY DEF PastMinus100, Metric, Abs

\* Counts, sums and averages of natural amounts never fall by more than 100 per
\* cent; the profit, their difference, does.
THEOREM OnlyProfitFalls ==
  ASSUME NEW f, f.now \in StatsType, f.previous \in StatsType
  PROVE  \A name \in DOMAIN Metrics(f) : PastMinus100(Metrics(f)[name]) => name = "profit"
<1>1. f.now.total * Or1(f.previous.transactions) \in Nat
  BY DEF StatsType, Or1
<1>2. f.previous.total * Or1(f.now.transactions) \in Nat
  BY DEF StatsType, Or1
<1>3. QED
  BY <1>1, <1>2, NaturalsReadable DEF Metrics, StatsType
=============================================================================
