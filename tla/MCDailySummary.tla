--------------------------- MODULE MCDailySummary ---------------------------
(* Small instances of DailySummary for TLC. *)
EXTENDS DailySummary

CONSTANTS a, b,          \* companies with an account of the same number
          account, other, \* account numbers
          v, w           \* vendors

Tx(id, company, amount, type, vendor, day, status) ==
    [id |-> id, account |-> account, company |-> company, amount |-> amount,
     type |-> type, vendor |-> vendor, day |-> day, status |-> status]

Alert(id, company, amount, score, level, day) ==
    [id |-> id, account |-> account, company |-> company, amount |-> amount,
     score |-> score, level |-> level, day |-> day]

\* A transaction of a twice, with a later status; one of b with the same id and
\* a long vendor name; a negative debit without a date; one without an account.
Messages == {Tx(1, a, 60, "CREDIT", v, TargetDate, "PENDING"),
             Tx(1, a, 60, "CREDIT", v, TargetDate, Absent),
             Tx(1, b, 90, "DEBIT", w, TargetDate, "COMPLETED"),
             Tx(2, a, -12, "DEBIT", Absent, Absent, "COMPLETED"),
             [Tx(3, a, 60, "CREDIT", v, TargetDate, "COMPLETED") EXCEPT !.account = Absent]}

\* Alerts of a, one without an amount, and one of b under an id that a uses too.
Alerts == {Alert(1, a, 60, 9, "HIGH", TargetDate),
           Alert(2, a, Absent, 7, "CRITICAL", TargetDate),
           Alert(1, b, 90, 8, "CRITICAL", TargetDate)}

NewAccount == [transactions |-> {}, fraud_alerts |-> {}]

\* A small day before, two alerts, and a row of another account.
SmallDay ==
    [transactions |-> {Tx(11, a, 5, "CREDIT", v, TargetDate - 1, "COMPLETED"),
                       Tx(12, a, 4, "DEBIT", w, TargetDate - 1, "COMPLETED"),
                       [Tx(13, a, 70, "CREDIT", w, TargetDate, "COMPLETED") EXCEPT !.account = other]},
     fraud_alerts |-> {Alert(11, a, 5, 1, "HIGH", TargetDate),
                       Alert(12, a, Absent, 3, "MEDIUM", TargetDate)}]

\* Fourteen days of growing revenue and falling expenses.
TwoWeeks ==
    [transactions |-> {Tx(20 + n, a, 15 - n, "CREDIT", v, TargetDate - n, "COMPLETED") : n \in 1 .. 14}
                      \cup {Tx(40, a, 14, "DEBIT", w, TargetDate - 14, "COMPLETED")},
     fraud_alerts |-> {}]

SomeHistories == {NewAccount, SmallDay, TwoWeeks}
LongVendors == {w}
OneSmallDay == {SmallDay}
SomeScopes == {a, All}
OneScope == {a}
MediumTolerance == {"medium"}
=============================================================================
