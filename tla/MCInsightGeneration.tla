------------------------- MODULE MCInsightGeneration -------------------------
(* Small instances of InsightGeneration for TLC. *)
EXTENDS InsightGeneration

CONSTANTS a, b,              \* companies with an account of the same number
          trigger,           \* a message of company a
          request, force     \* requests, the second with force=true

OneTrigger == {trigger}
Anything == Said
WellFormed == {"complete"}
NoRequest == {}
OneRequest == {request}
ForcedRequest == {force}
TwoCompanies == {a, b}

\* An admin's request beside a trigger of company a.
AdminAndTrigger == [j \in {request, trigger} |-> IF j = request THEN All ELSE a]

\* A forced request of company a beside its trigger.
SameCompany == [j \in {force, trigger} |-> a]

\* A forced request of company b beside a trigger of company a.
OtherCompany == [j \in {force, trigger} |-> IF j = force THEN b ELSE a]

\* A message of company a alone.
Alone == [j \in OneTrigger |-> a]
=============================================================================
