----------------------------- MODULE LocalCopies -----------------------------
(***************************************************************************)
(* The local copies of the transactions and of the fraud alerts that the    *)
(* handlers on_transaction and on_alert of src/kafka/consumer.py keep.      *)
(*                                                                          *)
(* A message may come several times and in any order with the others: the   *)
(* consumer is at-least-once, producers retry, and the topics have several  *)
(* partitions.  A moment is its day.                                        *)
(***************************************************************************)
EXTENDS Integers, FiniteSets

CONSTANTS TxMessages,     \* messages of the transactions topic
          AlertMessages,  \* messages of the fraud-alerts topic
          Histories,      \* [transactions, fraud_alerts]: what an earlier time left
          NoCompany,      \* company_id ""
          Absent,         \* None, or SQL's NULL
          FirstDay,       \* the day the behaviour begins
          LastDay,        \* bound: the last day
          MaxMessages     \* bound: messages handled

ASSUME CopiesAssumption ==
    /\ TxMessages \cap AlertMessages = {}
    /\ FirstDay \in Int /\ LastDay \in Int /\ MaxMessages \in Nat
    /\ \A h \in Histories : IsFiniteSet(h.transactions) /\ IsFiniteSet(h.fraud_alerts)

\* No handler and no column asks an amount to be positive, although the queries
\* that sum them take the sign from the type: CASE WHEN type = 'CREDIT' THEN
\* amount WHEN type = 'DEBIT' THEN -amount (daily_summary.py:614).
ASSUME AmountsAssumption ==
    /\ \A m \in TxMessages : m.amount \in Int \cup {Absent}
    /\ \A h \in Histories : \A t \in h.transactions : t.amount \in Int

VARIABLES transactions, fraud_alerts,  \* the tables, sets of rows
          acked,                       \* the messages whose handler returned
          today                        \* the date of now()

copies == <<transactions, fraud_alerts, acked, today>>

InitCopies == /\ \E h \in Histories : /\ transactions = h.transactions
                                      /\ fraud_alerts = h.fraud_alerts
              /\ acked = {}
              /\ today = FirstDay

Or(value, default) == IF value = Absent THEN default ELSE value

\* MUTANT of TxKey: the primary key before the migration.
TxKeyById(t) == <<t.id>>

\* ON CONFLICT (company_id, id)
TxKey(t) == <<t.company, t.id>>

\* ON CONFLICT (id)
AlertKey(f) == f.id

TxRow(m) == [id |-> m.id, account |-> m.account, company |-> Or(m.company, NoCompany),
             amount |-> m.amount, type |-> m.type, vendor |-> m.vendor,
             day |-> Or(m.day, today), status |-> Or(m.status, "COMPLETED")]

AlertRow(m) == [id |-> m.id, account |-> m.account, company |-> Or(m.company, NoCompany),
                amount |-> m.amount, score |-> m.score, level |-> m.level,
                day |-> Or(m.day, today)]

TxComplete(m) == Absent \notin {m.id, m.account, m.amount}
AlertComplete(m) == Absent \notin {m.id, m.account}

\* MUTANT of Insert: ON CONFLICT ... DO UPDATE.
Upsert(table, conflicts, r) == (table \ conflicts) \cup {r}

\* INSERT ... ON CONFLICT DO NOTHING
Insert(table, conflicts, r) == IF conflicts = {} THEN table \cup {r} ELSE table

Acknowledge(m) == acked' = acked \cup {m}

\* An incomplete message is acknowledged and ignored.
OnTransaction(m) ==
    LET r == TxRow(m)
        conflicts == {t \in transactions : TxKey(t) = TxKey(r)}
    IN  /\ transactions' = IF TxComplete(m) THEN Insert(transactions, conflicts, r)
                                            ELSE transactions
        /\ Acknowledge(m)
        /\ UNCHANGED <<fraud_alerts, today>>

OnAlert(m) ==
    LET r == AlertRow(m)
        conflicts == {f \in fraud_alerts : AlertKey(f) = AlertKey(r)}
    IN  /\ fraud_alerts' = IF AlertComplete(m) THEN Insert(fraud_alerts, conflicts, r)
                                               ELSE fraud_alerts
        /\ Acknowledge(m)
        /\ UNCHANGED <<transactions, today>>

Midnight == /\ today < LastDay
            /\ today' = today + 1
            /\ UNCHANGED <<transactions, fraud_alerts, acked>>

Consume == /\ Cardinality(acked) < MaxMessages
           /\ \/ \E m \in TxMessages : OnTransaction(m)
              \/ \E m \in AlertMessages : OnAlert(m)

-----------------------------------------------------------------------------
(* The properties. *)

TransactionsCopy == INSTANCE FirstWins WITH table <- transactions, Key <- TxKey,
                        Initial <- {h.transactions : h \in Histories}
AlertsCopy == INSTANCE FirstWins WITH table <- fraud_alerts, Key <- AlertKey,
                  Initial <- {h.fraud_alerts : h \in Histories}

\* "Handlers are idempotent (ON CONFLICT DO NOTHING / upsert), because delivery
\* is at-least-once" (consumer.py:9): redelivered and reordered messages, also
\* those without a date that come again on another day, add no second row and
\* change no row.  A COMPLETED that follows a PENDING is ignored as well.
CopiesFirstWins == TransactionsCopy!Spec /\ AlertsCopy!Spec

\* What the consumer has acknowledged is not lost: a transaction has a row of
\* its own company under its id, whatever other companies sent.  An alert has a
\* row under its id, but of whichever company used that id first.
AckedIsKept ==
    /\ \A m \in acked \cap TxMessages : TxComplete(m) =>
          \E t \in transactions : t.id = m.id /\ t.company = Or(m.company, NoCompany)
    /\ \A m \in acked \cap AlertMessages : AlertComplete(m) =>
          \E f \in fraud_alerts : f.id = m.id
=============================================================================
