------------------------- MODULE ResponseCacheProofs -------------------------
(***************************************************************************)
(* Theorems about ResponseCache, for any calls, keys, ttl and bounds.       *)
(***************************************************************************)
EXTENDS ResponseCache, SequenceTheorems, FiniteSetTheorems, TLAPS

-----------------------------------------------------------------------------
(* The inductive invariant. *)

\* The clock and the versions: every answer has a first version, and none is
\* younger than the clock.
HistoryOK ==
    /\ clock \in Nat
    /\ history \in [Keys -> Seq(Nat)]
    /\ \A k \in Keys : Len(history[k]) >= 1

\* v is an answer to k that was the present one at v.at or later.
Fresh(v, k) ==
    /\ v.of = k
    /\ v.version \in 1 .. Len(history[k])
    /\ v.at \in Nat
    /\ v.at <= clock
    /\ v.version < Len(history[k]) => history[k][v.version + 1] >= v.at

EntriesFresh == /\ entry \in [Keys -> [of : Keys \cup {<<>>}, version : Nat, at : Nat]]
                /\ \A k \in Keys : entry[k] # Nothing => Fresh(entry[k], k)

CallOK(c) == /\ pc[c] \in {"idle", "await", "loaded"}
             /\ asked[c] \in Keys
             /\ now[c] \in Nat
             /\ now[c] <= clock
             /\ result[c] \in [of : Keys \cup {<<>>}, version : Nat, at : Nat]
             /\ pc[c] = "loaded" => Fresh(result[c], asked[c]) /\ result[c].at = now[c]

CallsOK == /\ pc \in [Calls -> {"idle", "await", "loaded"}]
           /\ asked \in [Calls -> Keys]
           /\ now \in [Calls -> Nat]
           /\ result \in [Calls -> [of : Keys \cup {<<>>}, version : Nat, at : Nat]]
           /\ \A c \in Calls : CallOK(c)

\* What call c returned is an answer to what it asked, and less than Ttl old.
AnswerOK(c) ==
    answer[c] # NoAnswer =>
        /\ answer[c].of = asked[c]
        /\ answer[c].version \in 1 .. Len(history[asked[c]])
        /\ answer[c].at \in Nat
        /\ answer[c].at <= clock
        /\ answer[c].hit /\ answer[c].version < Len(history[asked[c]])
              => history[asked[c]][answer[c].version + 1] > answer[c].at - Ttl

AnswersOK == /\ answer \in [Calls -> [of : Keys \cup {<<>>}, version : Nat, at : Nat,
                                      hit : BOOLEAN]]
             /\ \A c \in Calls : AnswerOK(c)

IInv == HistoryOK /\ EntriesFresh /\ CallsOK /\ AnswersOK

USE CacheAssumption

-----------------------------------------------------------------------------
(* Steps of the clock and of the database. *)

LEMMA InitStep == Init => IInv
<1> SUFFICES ASSUME Init PROVE IInv
  OBVIOUS
<1>1. HistoryOK
  BY DEF Init, HistoryOK
<1>2. EntriesFresh
  BY DEF Init, EntriesFresh, Nothing
<1>3. CallsOK
  BY DEF Init, CallsOK, CallOK, Nothing
<1>4. AnswersOK
  BY DEF Init, AnswersOK, AnswerOK, NoAnswer
<1> QED BY <1>1, <1>2, <1>3, <1>4 DEF IInv

LEMMA TickStep == IInv /\ Tick => IInv'
<1> SUFFICES ASSUME IInv, Tick PROVE IInv'
  OBVIOUS
<1>1. /\ clock \in Nat /\ clock' = clock + 1
      /\ history' = history /\ entry' = entry /\ pc' = pc /\ asked' = asked
      /\ now' = now /\ result' = result /\ answer' = answer
  BY DEF IInv, HistoryOK, Tick, store, call
<1>2. HistoryOK'
  BY <1>1 DEF IInv, HistoryOK
<1>3. EntriesFresh'
  BY <1>1 DEF IInv, EntriesFresh, Fresh
<1>4. CallsOK'
  BY <1>1 DEF IInv, CallsOK, CallOK, Fresh
<1>5. AnswersOK'
  BY <1>1 DEF IInv, AnswersOK, AnswerOK
<1> QED BY <1>2, <1>3, <1>4, <1>5 DEF IInv

\* A new version appears at the present time, after every version was read.
LEMMA ChangeStep == ASSUME IInv, NEW k \in Keys, Change(k) PROVE IInv'
<1>1. /\ clock' = clock /\ entry' = entry /\ pc' = pc /\ asked' = asked
      /\ now' = now /\ result' = result /\ answer' = answer
  BY DEF Change, store, call
<1>2. /\ clock \in Nat
      /\ history \in [Keys -> Seq(Nat)]
      /\ \A q \in Keys : Len(history[q]) \in Nat /\ Len(history[q]) >= 1
      /\ history' = [history EXCEPT ![k] = Append(history[k], clock)]
  BY DEF IInv, HistoryOK, Change
<1>3. /\ history'[k] = Append(history[k], clock)
      /\ \A q \in Keys \ {k} : history'[q] = history[q]
      /\ history' \in [Keys -> Seq(Nat)]
  BY <1>2
<1>4. \A q \in Keys :
         /\ Len(history'[q]) >= Len(history[q])
         /\ Len(history'[q]) \in Nat
         /\ \A i \in 1 .. Len(history[q]) : history'[q][i] = history[q][i]
         /\ \A i \in 1 .. Len(history'[q]) :
               i \notin 1 .. Len(history[q]) => history'[q][i] = clock
  <2> TAKE q \in Keys
  <2>1. CASE q = k
    <3> DEFINE h == history[k]
    <3>1. h \in Seq(Nat) /\ history'[q] = Append(h, clock)
      BY <1>2, <1>3, <2>1
    <3>2. /\ Len(history'[q]) = Len(h) + 1
          /\ history'[q][Len(h) + 1] = clock
          /\ \A i \in 1 .. Len(h) : history'[q][i] = h[i]
          /\ Len(h) \in Nat
      BY <3>1, <1>2
    <3> QED BY <3>2, <2>1
  <2>2. CASE q # k
    BY <1>2, <1>3, <2>2
  <2> QED BY <2>1, <2>2
<1>5. ASSUME NEW q \in Keys, NEW n \in 1 .. Len(history[q])
      PROVE  /\ n \in 1 .. Len(history'[q])
             /\ n < Len(history'[q]) =>
                   \/ n < Len(history[q]) /\ history'[q][n + 1] = history[q][n + 1]
                   \/ n = Len(history[q]) /\ history'[q][n + 1] = clock
  BY <1>2, <1>4
<1>6. HistoryOK'
  BY <1>1, <1>2, <1>3, <1>4 DEF HistoryOK
<1>7. EntriesFresh'
  <2>1. \A q \in Keys : entry[q] # Nothing => Fresh(entry[q], q)'
    <3> TAKE q \in Keys
    <3> HAVE entry[q] # Nothing
    <3>1. Fresh(entry[q], q)
      BY DEF IInv, EntriesFresh
    <3>2. entry'[q] = entry[q]
      BY <1>1
    <3>3. entry[q].version \in 1 .. Len(history[q])
      BY <3>1 DEF Fresh
    <3> QED BY <1>1, <1>2, <1>5, <3>1, <3>2, <3>3 DEF Fresh
  <2> QED BY <1>1, <2>1 DEF IInv, EntriesFresh
<1>8. CallsOK'
  <2>1. ASSUME NEW c \in Calls PROVE CallOK(c)'
    <3>1. CallOK(c)
      BY DEF IInv, CallsOK
    <3>2. CASE pc[c] = "loaded"
      <4>1. Fresh(result[c], asked[c]) /\ asked[c] \in Keys
        BY <3>1, <3>2 DEF CallOK
      <4>2. result[c].version \in 1 .. Len(history[asked[c]])
        BY <4>1 DEF Fresh
      <4>3. Fresh(result[c], asked[c])'
        BY <1>1, <1>2, <1>5, <4>1, <4>2 DEF Fresh
      <4> QED BY <1>1, <3>1, <4>3 DEF CallOK
    <3>3. CASE pc[c] # "loaded"
      BY <1>1, <3>1, <3>3 DEF CallOK
    <3> QED BY <3>2, <3>3
  <2> QED BY <1>1, <2>1 DEF IInv, CallsOK
<1>9. AnswersOK'
  <2>1. ASSUME NEW c \in Calls PROVE AnswerOK(c)'
    <3>1. AnswerOK(c) /\ asked[c] \in Keys
      BY DEF IInv, AnswersOK, CallsOK
    <3>2. CASE answer[c] # NoAnswer
      <4>1. /\ answer[c].version \in 1 .. Len(history[asked[c]])
            /\ answer[c].at \in Nat
            /\ answer[c].at <= clock
        BY <3>1, <3>2 DEF AnswerOK
      <4>2. Ttl > 0 /\ Ttl \in Nat
        OBVIOUS
      <4>3. clock > answer[c].at - Ttl
        BY <1>2, <4>1, <4>2
      <4> QED BY <1>1, <1>5, <3>1, <3>2, <4>1, <4>3 DEF AnswerOK
    <3>3. CASE answer[c] = NoAnswer
      BY <1>1, <3>3 DEF AnswerOK
    <3> QED BY <3>2, <3>3
  <2> QED BY <1>1, <2>1 DEF IInv, AnswersOK
<1> QED BY <1>6, <1>7, <1>8, <1>9 DEF IInv

-----------------------------------------------------------------------------
(* Steps of a call. *)

LEMMA HitStep == ASSUME IInv, NEW c \in Calls, Hit(c) PROVE IInv'
<1>1. PICK k \in Keys :
         /\ entry[k] # Nothing
         /\ clock - entry[k].at < Ttl
         /\ asked' = [asked EXCEPT ![c] = k]
         /\ Return(c, entry[k], TRUE)
         /\ clock' = clock /\ history' = history /\ entry' = entry
         /\ now' = now /\ result' = result
  BY DEF Hit, Key
<1>2. /\ Fresh(entry[k], k)
      /\ entry[k].version \in Nat
      /\ clock \in Nat
  BY <1>1 DEF IInv, EntriesFresh, HistoryOK
<1>3. /\ pc' = [pc EXCEPT ![c] = "idle"]
      /\ answer' = [answer EXCEPT ![c] = [of |-> entry[k].of, version |-> entry[k].version,
                                          at |-> clock, hit |-> TRUE]]
  BY <1>1 DEF Return
<1>4. HistoryOK'
  BY <1>1 DEF IInv, HistoryOK
<1>5. EntriesFresh'
  BY <1>1 DEF IInv, EntriesFresh, Fresh
<1>6. CallsOK'
  <2>1. /\ pc' \in [Calls -> {"idle", "await", "loaded"}] /\ pc'[c] = "idle"
        /\ asked' \in [Calls -> Keys] /\ asked'[c] = k
        /\ \A d \in Calls \ {c} : pc'[d] = pc[d] /\ asked'[d] = asked[d]
    BY <1>1, <1>3 DEF IInv, CallsOK
  <2>2. ASSUME NEW d \in Calls PROVE CallOK(d)'
    <3>1. CallOK(d)
      BY DEF IInv, CallsOK
    <3>2. CASE d = c
      BY <1>1, <2>1, <3>1, <3>2 DEF CallOK
    <3>3. CASE d # c
      BY <1>1, <2>1, <3>1, <3>3 DEF CallOK, Fresh
    <3> QED BY <3>2, <3>3
  <2> QED BY <1>1, <2>1, <2>2 DEF IInv, CallsOK
<1>7. AnswersOK'
  <2>1. /\ answer'[c] = [of |-> k, version |-> entry[k].version, at |-> clock, hit |-> TRUE]
        /\ asked'[c] = k
        /\ \A d \in Calls \ {c} : answer'[d] = answer[d] /\ asked'[d] = asked[d]
        /\ answer' \in [Calls -> [of : Keys \cup {<<>>}, version : Nat, at : Nat, hit : BOOLEAN]]
    BY <1>1, <1>2, <1>3 DEF IInv, AnswersOK, CallsOK, Fresh
  <2>2. ASSUME NEW d \in Calls PROVE AnswerOK(d)'
    <3>1. CASE d = c
      <4>1. /\ answer'[d].version = entry[k].version
            /\ answer'[d].at = clock
            /\ answer'[d].of = k
            /\ asked'[d] = k
        BY <2>1, <3>1
      <4>2. entry[k].at > clock - Ttl
        BY <1>1, <1>2 DEF Fresh
      <4>3. entry[k].version < Len(history[k])
               => history[k][entry[k].version + 1] > clock - Ttl
        <5>1. HAVE entry[k].version < Len(history[k])
        <5>2. /\ history[k][entry[k].version + 1] >= entry[k].at
              /\ entry[k].version + 1 \in 1 .. Len(history[k])
              /\ history[k] \in Seq(Nat)
              /\ entry[k].at \in Nat
          BY <1>2, <5>1 DEF Fresh, IInv, HistoryOK
        <5>3. history[k][entry[k].version + 1] \in Nat
          BY <5>2
        <5> QED BY <1>2, <4>2, <5>2, <5>3
      <4> QED BY <1>1, <1>2, <4>1, <4>3 DEF AnswerOK, Fresh
    <3>2. CASE d # c
      <4>1. AnswerOK(d)
        BY DEF IInv, AnswersOK
      <4> QED BY <1>1, <2>1, <3>2, <4>1 DEF AnswerOK
    <3> QED BY <3>1, <3>2
  <2> QED BY <2>1, <2>2 DEF AnswersOK
<1> QED BY <1>4, <1>5, <1>6, <1>7 DEF IInv

\* A miss, the answer of the handler and its exception leave the store alone.
LEMMA WaitStep == ASSUME IInv, NEW c \in Calls, Miss(c) \/ Load(c) \/ Raise(c) PROVE IInv'
<1>1. /\ clock' = clock /\ history' = history /\ entry' = entry
  BY DEF Miss, Load, Raise, store
<1>2. /\ clock \in Nat
      /\ pc \in [Calls -> {"idle", "await", "loaded"}]
      /\ asked \in [Calls -> Keys]
      /\ now \in [Calls -> Nat]
      /\ result \in [Calls -> [of : Keys \cup {<<>>}, version : Nat, at : Nat]]
      /\ \A d \in Calls : CallOK(d)
      /\ \A k \in Keys : Len(history[k]) \in Nat /\ Len(history[k]) >= 1
  BY DEF IInv, HistoryOK, CallsOK
<1>3. /\ pc' \in [Calls -> {"idle", "await", "loaded"}]
      /\ asked' \in [Calls -> Keys]
      /\ now' \in [Calls -> Nat]
      /\ result' \in [Calls -> [of : Keys \cup {<<>>}, version : Nat, at : Nat]]
      /\ \A d \in Calls \ {c} : /\ pc'[d] = pc[d] /\ asked'[d] = asked[d]
                                /\ now'[d] = now[d] /\ result'[d] = result[d]
  <2>1. CASE Miss(c)
    BY <1>2, <2>1 DEF Miss
  <2>2. CASE Load(c)
    BY <1>2, <2>2 DEF Load
  <2>3. CASE Raise(c)
    BY <1>2, <2>3 DEF Raise
  <2> QED BY <2>1, <2>2, <2>3
<1>4. CallOK(c)'
  <2>1. CASE Miss(c)
    BY <1>1, <1>2, <1>3, <2>1 DEF Miss, CallOK
  <2>2. CASE Load(c)
    <3>1. /\ result'[c] = [of |-> asked[c], version |-> Len(history[asked[c]]), at |-> now[c]]
          /\ asked' = asked /\ now' = now /\ pc'[c] = "loaded"
      BY <1>2, <2>2 DEF Load
    <3>2. CallOK(c)
      BY <1>2
    <3> QED BY <1>1, <1>2, <1>3, <3>1, <3>2 DEF CallOK, Fresh
  <2>3. CASE Raise(c)
    <3>1. /\ pc'[c] = "idle" /\ asked' = asked /\ now' = now /\ result' = result
      BY <1>2, <2>3 DEF Raise
    <3>2. CallOK(c)
      BY <1>2
    <3> QED BY <1>1, <3>1, <3>2 DEF CallOK
  <2> QED BY <2>1, <2>2, <2>3
<1>5. CallsOK'
  <2>1. ASSUME NEW d \in Calls PROVE CallOK(d)'
    <3>1. CASE d = c
      BY <1>4, <3>1
    <3>2. CASE d # c
      BY <1>1, <1>2, <1>3, <3>2 DEF CallOK, Fresh
    <3> QED BY <3>1, <3>2
  <2> QED BY <1>3, <2>1 DEF CallsOK
<1>6. AnswersOK'
  <2>1. /\ answer' \in [Calls -> [of : Keys \cup {<<>>}, version : Nat, at : Nat, hit : BOOLEAN]]
        /\ \A d \in Calls \ {c} : answer'[d] = answer[d]
        /\ answer'[c] = NoAnswer \/ (answer'[c] = answer[c] /\ asked'[c] = asked[c])
    <3>1. answer \in [Calls -> [of : Keys \cup {<<>>}, version : Nat, at : Nat, hit : BOOLEAN]]
      BY DEF IInv, AnswersOK
    <3>2. NoAnswer \in [of : Keys \cup {<<>>}, version : Nat, at : Nat, hit : BOOLEAN]
      BY DEF NoAnswer
    <3>3. CASE Miss(c)
      BY <3>1, <3>2, <3>3 DEF Miss
    <3>4. CASE Load(c) \/ Raise(c)
      BY <3>1, <3>4 DEF Load, Raise
    <3> QED BY <3>3, <3>4
  <2>2. ASSUME NEW d \in Calls PROVE AnswerOK(d)'
    <3>1. AnswerOK(d)
      BY DEF IInv, AnswersOK
    <3>2. CASE answer'[d] = NoAnswer
      BY <3>2 DEF AnswerOK
    <3>3. CASE answer'[d] = answer[d] /\ asked'[d] = asked[d]
      BY <1>1, <3>1, <3>3 DEF AnswerOK
    <3> QED BY <1>3, <2>1, <3>2, <3>3
  <2> QED BY <2>1, <2>2 DEF AnswersOK
<1>7. HistoryOK' /\ EntriesFresh'
  BY <1>1 DEF IInv, HistoryOK, EntriesFresh, Fresh
<1> QED BY <1>5, <1>6, <1>7 DEF IInv

\* The store gets the result, stamped with the time before the lookup, and may
\* lose its oldest entry.
LEMMA PutStep == ASSUME IInv, NEW c \in Calls, Put(c) PROVE IInv'
<1> DEFINE k == asked[c]
           new == [entry EXCEPT ![k] = [result[c] EXCEPT !.at = now[c]]]
<1>1. /\ pc[c] = "loaded"
      /\ clock' = clock /\ history' = history /\ asked' = asked /\ now' = now
      /\ result' = [result EXCEPT ![c] = Nothing]
      /\ Return(c, result[c], FALSE)
      /\ \/ entry' = new
         \/ \E q : entry' = [new EXCEPT ![q] = Nothing]
  BY DEF Put, Evict, Key, Stamp
<1>2. /\ CallOK(c)
      /\ clock \in Nat
      /\ k \in Keys
      /\ result[c] \in [of : Keys \cup {<<>>}, version : Nat, at : Nat]
      /\ entry \in [Keys -> [of : Keys \cup {<<>>}, version : Nat, at : Nat]]
  BY DEF IInv, CallsOK, HistoryOK, EntriesFresh
<1>3. Fresh(result[c], k) /\ result[c].at = now[c]
  BY <1>1, <1>2 DEF CallOK
<1>4. [result[c] EXCEPT !.at = now[c]] = result[c]
  BY <1>2, <1>3
<1>5. Nothing \in [of : Keys \cup {<<>>}, version : Nat, at : Nat]
  BY DEF Nothing
<1>6. HistoryOK'
  BY <1>1 DEF IInv, HistoryOK
<1>7. EntriesFresh'
  <2>1. /\ entry' \in [Keys -> [of : Keys \cup {<<>>}, version : Nat, at : Nat]]
        /\ \A q \in Keys : entry'[q] # Nothing =>
              entry'[q] = entry[q] \/ (q = k /\ entry'[q] = result[c])
    BY <1>1, <1>2, <1>4, <1>5
  <2>2. ASSUME NEW q \in Keys, entry'[q] # Nothing PROVE Fresh(entry[q], q)'
    <3>1. CASE entry'[q] = entry[q]
      <4>1. Fresh(entry[q], q)
        BY <2>2, <3>1 DEF IInv, EntriesFresh
      <4> QED BY <1>1, <3>1, <4>1 DEF Fresh
    <3>2. CASE q = k /\ entry'[q] = result[c]
      BY <1>1, <1>3, <3>2 DEF Fresh
    <3> QED BY <2>1, <2>2, <3>1, <3>2
  <2> QED BY <2>1, <2>2 DEF EntriesFresh
<1>8. CallsOK'
  <2>1. /\ pc' \in [Calls -> {"idle", "await", "loaded"}] /\ pc'[c] = "idle"
        /\ result' \in [Calls -> [of : Keys \cup {<<>>}, version : Nat, at : Nat]]
        /\ \A d \in Calls \ {c} : pc'[d] = pc[d] /\ result'[d] = result[d]
    BY <1>1, <1>5 DEF Return, IInv, CallsOK
  <2>2. ASSUME NEW d \in Calls PROVE CallOK(d)'
    <3>1. CallOK(d)
      BY DEF IInv, CallsOK
    <3>2. CASE d = c
      BY <1>1, <2>1, <3>1, <3>2 DEF CallOK
    <3>3. CASE d # c
      BY <1>1, <2>1, <3>1, <3>3 DEF CallOK, Fresh
    <3> QED BY <3>2, <3>3
  <2> QED BY <1>1, <2>1, <2>2 DEF IInv, CallsOK
<1>9. AnswersOK'
  <2>1. /\ answer'[c] = [of |-> k, version |-> result[c].version, at |-> clock, hit |-> FALSE]
        /\ \A d \in Calls \ {c} : answer'[d] = answer[d]
        /\ answer' \in [Calls -> [of : Keys \cup {<<>>}, version : Nat, at : Nat, hit : BOOLEAN]]
    BY <1>1, <1>2, <1>3 DEF Return, IInv, AnswersOK, Fresh
  <2>2. ASSUME NEW d \in Calls PROVE AnswerOK(d)'
    <3>1. CASE d = c
      BY <1>1, <1>2, <1>3, <2>1, <3>1 DEF AnswerOK, Fresh
    <3>2. CASE d # c
      <4>1. AnswerOK(d)
        BY DEF IInv, AnswersOK
      <4> QED BY <1>1, <2>1, <3>2, <4>1 DEF AnswerOK
    <3> QED BY <3>1, <3>2
  <2> QED BY <2>1, <2>2 DEF AnswersOK
<1> QED BY <1>6, <1>7, <1>8, <1>9 DEF IInv

LEMMA StutterStep == IInv /\ UNCHANGED vars => IInv'
<1> SUFFICES ASSUME IInv, UNCHANGED vars PROVE IInv'
  OBVIOUS
<1>1. /\ clock' = clock /\ history' = history /\ entry' = entry /\ pc' = pc
      /\ asked' = asked /\ now' = now /\ result' = result /\ answer' = answer
  BY DEF vars, store, call
<1>2. HistoryOK' /\ EntriesFresh' /\ CallsOK' /\ AnswersOK'
  BY <1>1 DEF IInv, HistoryOK, EntriesFresh, CallsOK, CallOK, AnswersOK, AnswerOK, Fresh
<1> QED BY <1>2 DEF IInv

-----------------------------------------------------------------------------
(* The theorems. *)

\* Every entry, every result on its way to the store and every answer is no
\* older than the time it carries.
THEOREM Invariance == Spec => []IInv
<1>1. IInv /\ [Next]_vars => IInv'
  BY TickStep, ChangeStep, HitStep, WaitStep, PutStep, StutterStep DEF Next
<1> QED BY <1>1, InitStep, PTL DEF Spec

\* A response that comes out of the cache was the database's answer less than
\* ttl_seconds before, for any number of concurrent calls and of entries.
THEOREM BoundedStaleness == Spec => []StaleByTtlAtMost
<1>1. IInv => StaleByTtlAtMost
  <2> SUFFICES ASSUME IInv, NEW c \in Calls, answer[c].hit,
                      answer[c].version < Len(history[answer[c].of])
               PROVE  history[answer[c].of][answer[c].version + 1] > answer[c].at - Ttl
    BY DEF StaleByTtlAtMost
  <2>1. answer[c] # NoAnswer
    BY DEF NoAnswer
  <2> QED BY <2>1 DEF IInv, AnswersOK, AnswerOK
<1> QED BY <1>1, Invariance, PTL

\* No caller is answered with another scope's response or another question's.
THEOREM Separation == Spec => []TenantsApart
<1>1. IInv => TenantsApart
  BY DEF IInv, AnswersOK, AnswerOK, TenantsApart
<1> QED BY <1>1, Invariance, PTL

-----------------------------------------------------------------------------
(* The order of the store. *)

Distinct(s) == s \in Seq(Keys) /\ \A i, j \in 1 .. Len(s) : s[i] = s[j] => i = j
Listed(s) == {s[i] : i \in 1 .. Len(s)}

\* A list without duplicates has as many members as places.
LEMMA ListedCardinality ==
  ASSUME NEW s, Distinct(s)
  PROVE  Cardinality(Listed(s)) = Len(s)
<1>1. s \in [1 .. Len(s) -> Listed(s)] /\ Len(s) \in Nat
  BY DEF Distinct, Listed
<1>2. s \in Bijection(1 .. Len(s), Listed(s))
  BY <1>1 DEF Distinct, Listed, Bijection, Injection, Surjection, IsInjective
<1>3. ExistsBijection(1 .. Len(s), Listed(s))
  BY <1>2 DEF ExistsBijection
<1> QED BY <1>1, <1>3, FS_CountingElements

\* Taking a key out of the list leaves the others in their order.
LEMMA RemovedAt ==
  ASSUME NEW s, Distinct(s), NEW n \in 1 .. Len(s)
  PROVE  /\ Distinct(RemoveAt(s, n))
         /\ Listed(RemoveAt(s, n)) = Listed(s) \ {s[n]}
         /\ Len(RemoveAt(s, n)) = Len(s) - 1
<1> DEFINE first == SubSeq(s, 1, n - 1)
           last == SubSeq(s, n + 1, Len(s))
           r == first \o last
<1>1. /\ s \in Seq(Keys) /\ Len(s) \in Nat /\ n \in Nat
      /\ \A i \in 1 .. Len(s) : s[i] \in Keys
  BY DEF Distinct
<1>2. /\ first \in Seq(Keys) /\ Len(first) = n - 1
      /\ \A i \in 1 .. n - 1 : first[i] = s[i]
  BY <1>1, SubSeqProperties
<1>3. /\ last \in Seq(Keys) /\ Len(last) = Len(s) - n
      /\ \A i \in 1 .. Len(s) - n : last[i] = s[n + i]
  <2>1. \A i \in n + 1 .. Len(s) : s[i] \in Keys
    BY <1>1
  <2>2. /\ last \in Seq(Keys)
        /\ Len(last) = IF n + 1 <= Len(s) THEN Len(s) - (n + 1) + 1 ELSE 0
        /\ \A i \in 1 .. Len(s) - (n + 1) + 1 : last[i] = s[n + 1 + i - 1]
    BY <1>1, <2>1, SubSeqProperties
  <2> QED BY <1>1, <2>2
<1> HIDE DEF first, last
<1>4. /\ r \in Seq(Keys) /\ Len(r) = Len(s) - 1
      /\ \A i \in 1 .. Len(s) - 1 : r[i] = IF i < n THEN s[i] ELSE s[i + 1]
  <2>1. /\ r \in Seq(Keys) /\ Len(r) = Len(first) + Len(last)
        /\ \A i \in 1 .. Len(first) + Len(last) :
              r[i] = IF i <= Len(first) THEN first[i] ELSE last[i - Len(first)]
    BY <1>2, <1>3, ConcatProperties
  <2> HIDE DEF r
  <2>2. ASSUME NEW i \in 1 .. Len(s) - 1
        PROVE  r[i] = IF i < n THEN s[i] ELSE s[i + 1]
    <3>1. /\ i \in 1 .. Len(first) + Len(last) /\ i \in Nat
          /\ Len(first) = n - 1 /\ Len(last) = Len(s) - n
      BY <1>1, <1>2, <1>3
    <3>2. r[i] = IF i <= n - 1 THEN first[i] ELSE last[i - (n - 1)]
      BY <2>1, <3>1
    <3>3. CASE i < n
      <4>1. i \in 1 .. n - 1 /\ i <= n - 1
        BY <1>1, <3>1, <3>3
      <4> QED BY <1>2, <3>2, <3>3, <4>1
    <3>4. CASE ~(i < n)
      <4>1. /\ i - (n - 1) \in 1 .. Len(s) - n /\ n + (i - (n - 1)) = i + 1
            /\ ~(i <= n - 1)
        BY <1>1, <3>1, <3>4
      <4>2. last[i - (n - 1)] = s[n + (i - (n - 1))]
        BY <1>3, <4>1
      <4> QED BY <3>2, <3>4, <4>1, <4>2
    <3> QED BY <3>3, <3>4
  <2> QED BY <1>1, <1>2, <1>3, <2>1, <2>2
<1> HIDE DEF r
<1>5. Distinct(r)
  BY <1>1, <1>4 DEF Distinct
<1>6. Listed(r) = Listed(s) \ {s[n]}
  <2>1. ASSUME NEW i \in 1 .. Len(s) - 1
        PROVE  r[i] \in Listed(s) /\ r[i] # s[n]
    BY <1>1, <1>4 DEF Distinct, Listed
  <2>2. ASSUME NEW j \in 1 .. Len(s), j # n
        PROVE  s[j] \in Listed(r)
    <3>1. CASE j < n
      BY <1>1, <1>4, <3>1 DEF Listed
    <3>2. CASE j > n
      <4>1. j - 1 \in 1 .. Len(s) - 1 /\ r[j - 1] = s[j]
        BY <1>1, <1>4, <3>2
      <4> QED BY <1>4, <4>1 DEF Listed
    <3> QED BY <1>1, <2>2, <3>1, <3>2
  <2> QED BY <1>4, <2>1, <2>2 DEF Listed
<1>7. RemoveAt(s, n) = r
  BY DEF RemoveAt, r, first, last
<1> QED BY <1>4, <1>5, <1>6, <1>7

\* store.move_to_end: the key is in the list once, at its end.
LEMMA MovedToEnd ==
  ASSUME Distinct(order), NEW k \in Keys
  PROVE  /\ Distinct(MoveToEnd(k))
         /\ Listed(MoveToEnd(k)) = Listed(order) \cup {k}
         /\ Len(MoveToEnd(k)) = IF k \in Listed(order) THEN Len(order) ELSE Len(order) + 1
         /\ MoveToEnd(k)[Len(MoveToEnd(k))] = k
<1> DEFINE r == RemoveFirst(order, k)
<1>1. /\ Distinct(r) /\ Listed(r) = Listed(order) \ {k}
      /\ Len(r) = IF k \in Listed(order) THEN Len(order) - 1 ELSE Len(order)
  <2>1. CASE k \in Listed(order)
    <3>1. PICK n \in 1 .. Len(order) : order[n] = k
      BY <2>1 DEF Listed
    <3>2. {i \in 1 .. Len(order) : order[i] = k} = {n}
      BY <3>1 DEF Distinct
    <3>3. SelectInSeq(order, LAMBDA v : v = k) = n
      BY <3>2 DEF SelectInSeq, Min
    <3>4. r = RemoveAt(order, n)
      BY <3>1, <3>3 DEF RemoveFirst
    <3> QED BY <2>1, <3>1, <3>4, RemovedAt
  <2>2. CASE k \notin Listed(order)
    <3>1. r = order
      BY <2>2 DEF RemoveFirst, Listed
    <3> QED BY <2>2, <3>1
  <2> QED BY <2>1, <2>2
<1> HIDE DEF r
<1>2. r \in Seq(Keys) /\ Len(r) \in Nat /\ Len(order) \in Nat
  BY <1>1 DEF Distinct
<1> DEFINE m == Append(r, k)
<1>3. /\ m \in Seq(Keys) /\ Len(m) = Len(r) + 1
      /\ \A i \in 1 .. Len(r) : m[i] = r[i]
      /\ m[Len(r) + 1] = k
  BY <1>2, AppendProperties
<1> HIDE DEF m
<1>4. \A i \in 1 .. Len(r) : r[i] # k
  BY <1>1 DEF Listed
<1>5. Distinct(m)
  BY <1>1, <1>2, <1>3, <1>4 DEF Distinct
<1>6. Listed(m) = Listed(r) \cup {k}
  <2>1. \A i \in 1 .. Len(m) : m[i] \in Listed(r) \cup {k}
    BY <1>2, <1>3 DEF Listed
  <2>2. \A i \in 1 .. Len(r) : r[i] \in Listed(m)
    BY <1>2, <1>3 DEF Listed
  <2>3. k \in Listed(m)
    BY <1>2, <1>3 DEF Listed
  <2> QED BY <2>1, <2>2, <2>3 DEF Listed
<1>7. MoveToEnd(k) = m
  BY DEF MoveToEnd, m, r
<1> QED BY <1>1, <1>2, <1>3, <1>5, <1>6, <1>7

\* store.popitem(last=False)
LEMMA FirstDropped ==
  ASSUME NEW s, Distinct(s), Len(s) > 0
  PROVE  /\ Distinct(Tail(s))
         /\ Listed(Tail(s)) = Listed(s) \ {Head(s)}
         /\ Len(Tail(s)) = Len(s) - 1
         /\ Head(s) = s[1]
<1>1. s \in Seq(Keys) /\ Len(s) \in Nat /\ s # << >>
  BY DEF Distinct
<1>2. /\ Tail(s) \in Seq(Keys) /\ Len(Tail(s)) = Len(s) - 1
      /\ \A i \in 1 .. Len(s) - 1 : Tail(s)[i] = s[i + 1]
      /\ Head(s) = s[1]
  BY <1>1, HeadTailProperties
<1>3. Distinct(Tail(s))
  BY <1>1, <1>2 DEF Distinct
<1>4. Listed(Tail(s)) = Listed(s) \ {s[1]}
  <2>1. \A i \in 1 .. Len(s) - 1 : Tail(s)[i] \in Listed(s) /\ Tail(s)[i] # s[1]
    BY <1>1, <1>2 DEF Distinct, Listed
  <2>2. ASSUME NEW j \in 1 .. Len(s), j # 1
        PROVE  s[j] \in Listed(Tail(s))
    <3>1. j - 1 \in 1 .. Len(s) - 1 /\ Tail(s)[j - 1] = s[j]
      BY <1>1, <1>2, <2>2
    <3> QED BY <1>2, <3>1 DEF Listed
  <2> QED BY <1>2, <2>1, <2>2 DEF Listed
<1> QED BY <1>2, <1>3, <1>4

-----------------------------------------------------------------------------
(* The bound of the store. *)

Stored == {k \in Keys : entry[k] # Nothing}

\* The store is an OrderedDict: its order and its entries are one thing here.
OrderOK == Distinct(order) /\ Listed(order) = Stored /\ Len(order) <= MaxEntries

\* One popitem is enough each time: the list was within its bound before.
LEMMA EvictKeepsOrder ==
  ASSUME NEW keys, Distinct(keys), Len(keys) <= MaxEntries + 1,
         NEW entries, Listed(keys) = {k \in Keys : entries[k] # Nothing},
         DOMAIN entries = Keys,
         Evict(keys, entries)
  PROVE  OrderOK'
<1>1. Len(keys) \in Nat
  BY DEF Distinct
<1>2. CASE Len(keys) > MaxEntries
  <2>1. /\ Distinct(Tail(keys)) /\ Len(Tail(keys)) = Len(keys) - 1
        /\ Listed(Tail(keys)) = Listed(keys) \ {Head(keys)}
    BY <1>1, <1>2, FirstDropped
  <2>2. order' = Tail(keys) /\ entry' = [entries EXCEPT ![Head(keys)] = Nothing]
    BY <1>2 DEF Evict
  <2>3. Stored' = {k \in Keys : entries[k] # Nothing} \ {Head(keys)}
    BY <2>2 DEF Stored
  <2> QED BY <1>1, <2>1, <2>2, <2>3 DEF OrderOK
<1>3. CASE ~(Len(keys) > MaxEntries)
  <2>1. order' = keys /\ entry' = entries
    BY <1>3 DEF Evict
  <2> QED BY <1>1, <1>3, <2>1 DEF OrderOK, Stored
<1> QED BY <1>2, <1>3

LEMMA HitKeepsOrder == ASSUME IInv, OrderOK, NEW c \in Calls, Hit(c) PROVE OrderOK'
<1>1. PICK k \in Keys : entry[k] # Nothing /\ order' = MoveToEnd(k) /\ entry' = entry
  BY DEF Hit, Key
<1>2. k \in Listed(order)
  BY <1>1 DEF OrderOK, Stored
<1>3. /\ Distinct(order') /\ Listed(order') = Listed(order) \cup {k}
      /\ Len(order') = Len(order)
  BY <1>1, <1>2, MovedToEnd DEF OrderOK
<1> QED BY <1>1, <1>2, <1>3 DEF OrderOK, Stored

\* The result is put under its key before the store is cut.
LEMMA PutEvicts ==
  ASSUME IInv, OrderOK, NEW c \in Calls, Put(c)
  PROVE  LET new == [entry EXCEPT ![asked[c]] = [result[c] EXCEPT !.at = now[c]]]
         IN  /\ asked[c] \in Keys
             /\ Evict(MoveToEnd(asked[c]), new)
             /\ Distinct(MoveToEnd(asked[c]))
             /\ Len(MoveToEnd(asked[c])) <= MaxEntries + 1
             /\ DOMAIN new = Keys
             /\ new[asked[c]] # Nothing
             /\ Listed(MoveToEnd(asked[c])) = {k \in Keys : new[k] # Nothing}
<1> DEFINE k == asked[c]
           value == [result[c] EXCEPT !.at = now[c]]
           new == [entry EXCEPT ![k] = value]
<1>1. /\ pc[c] = "loaded" /\ CallOK(c) /\ k \in Keys
      /\ result[c] \in [of : Keys \cup {<<>>}, version : Nat, at : Nat]
      /\ entry \in [Keys -> [of : Keys \cup {<<>>}, version : Nat, at : Nat]]
      /\ history[k] \in Seq(Nat)
  BY DEF Put, IInv, CallsOK, EntriesFresh, HistoryOK
<1>2. result[c].version > 0
  BY <1>1 DEF CallOK, Fresh
<1>3. value # Nothing
  BY <1>1, <1>2 DEF Nothing
<1>4. /\ Distinct(MoveToEnd(k)) /\ Listed(MoveToEnd(k)) = Listed(order) \cup {k}
      /\ Len(MoveToEnd(k)) = IF k \in Listed(order) THEN Len(order) ELSE Len(order) + 1
  BY <1>1, MovedToEnd DEF OrderOK
<1>5. Len(order) \in Nat
  BY DEF OrderOK, Distinct
<1>6. Len(MoveToEnd(k)) <= MaxEntries + 1
  BY <1>4, <1>5 DEF OrderOK
<1>7. DOMAIN new = Keys /\ new[k] = value /\ \A q \in Keys \ {k} : new[q] = entry[q]
  BY <1>1
<1>8. Listed(MoveToEnd(k)) = {q \in Keys : new[q] # Nothing}
  <2> HIDE DEF new, value
  <2> QED BY <1>1, <1>3, <1>4, <1>7 DEF OrderOK, Stored
<1>9. Evict(MoveToEnd(k), new)
  BY DEF Put, Key, Stamp
<1> QED BY <1>1, <1>3, <1>4, <1>6, <1>7, <1>8, <1>9

LEMMA PutKeepsOrder == ASSUME IInv, OrderOK, NEW c \in Calls, Put(c) PROVE OrderOK'
<1> DEFINE new == [entry EXCEPT ![asked[c]] = [result[c] EXCEPT !.at = now[c]]]
<1>1. /\ Evict(MoveToEnd(asked[c]), new)
      /\ Distinct(MoveToEnd(asked[c]))
      /\ Len(MoveToEnd(asked[c])) <= MaxEntries + 1
      /\ DOMAIN new = Keys
      /\ Listed(MoveToEnd(asked[c])) = {k \in Keys : new[k] # Nothing}
  BY PutEvicts
<1> HIDE DEF new
<1> QED BY <1>1, EvictKeepsOrder

\* However many calls miss at once and whatever they store, the order lists the
\* entries, each once, and no more of them than the bound.
LEMMA OrderKept == Spec => []OrderOK
<1>1. Init => OrderOK
  BY DEF Init, OrderOK, Distinct, Listed, Stored
<1>2. IInv /\ OrderOK /\ [Next]_vars => OrderOK'
  <2> SUFFICES ASSUME IInv, OrderOK, [Next]_vars PROVE OrderOK'
    OBVIOUS
  <2>1. CASE UNCHANGED store
    BY <2>1 DEF store, OrderOK, Stored
  <2>2. ASSUME NEW c \in Calls, Hit(c) PROVE OrderOK'
    BY <2>2, HitKeepsOrder
  <2>3. ASSUME NEW c \in Calls, Put(c) PROVE OrderOK'
    BY <2>3, PutKeepsOrder
  <2> QED BY <2>1, <2>2, <2>3 DEF Next, vars, Tick, Change, Miss, Load, Raise
<1> QED BY <1>1, <1>2, Invariance, PTL DEF Spec

\* MAX_ENTRIES bounds the store after every step, not only in the end: the
\* insertion and the eviction of a call are not apart.
THEOREM StoreBounded == Spec => []Bounded
<1>1. OrderOK => Bounded
  BY ListedCardinality DEF OrderOK, Stored, Bounded
<1> QED BY <1>1, OrderKept, PTL

LimitsOK == /\ clock \in 0 .. MaxClock
            /\ \A k \in Keys : /\ history[k] \in Seq(0 .. MaxClock)
                               /\ Len(history[k]) \in 1 .. MaxChanges

LEMMA LimitsKept == Spec => []LimitsOK
<1>1. Init => LimitsOK
  BY DEF Init, LimitsOK
<1>2. IInv /\ LimitsOK /\ [Next]_vars => LimitsOK'
  <2> SUFFICES ASSUME IInv, LimitsOK, [Next]_vars PROVE LimitsOK'
    OBVIOUS
  <2>1. CASE UNCHANGED <<clock, history>>
    BY <2>1 DEF LimitsOK
  <2>2. CASE Tick
    BY <2>2 DEF Tick, LimitsOK
  <2>3. ASSUME NEW k \in Keys, Change(k) PROVE LimitsOK'
    <3>1. /\ clock' = clock
          /\ \A q \in Keys : history'[q] = IF q = k THEN Append(history[q], clock) ELSE history[q]
          /\ Len(history[k]) < MaxChanges
      BY <2>3 DEF Change, IInv, HistoryOK
    <3>2. ASSUME NEW q \in Keys
          PROVE  history'[q] \in Seq(0 .. MaxClock) /\ Len(history'[q]) \in 1 .. MaxChanges
      <4>1. history[q] \in Seq(0 .. MaxClock) /\ Len(history[q]) \in 1 .. MaxChanges
        BY DEF LimitsOK
      <4>2. CASE q = k
        <5>1. clock \in 0 .. MaxClock /\ history'[q] = Append(history[q], clock)
          BY <3>1, <4>2 DEF LimitsOK
        <5>2. /\ history'[q] \in Seq(0 .. MaxClock)
              /\ Len(history'[q]) = Len(history[q]) + 1
          BY <4>1, <5>1, AppendProperties
        <5> QED BY <3>1, <4>1, <4>2, <5>2
      <4>3. CASE q # k
        BY <3>1, <4>1, <4>3
      <4> QED BY <4>2, <4>3
    <3> QED BY <3>1, <3>2 DEF LimitsOK
  <2> QED BY <2>1, <2>2, <2>3 DEF Next, vars, Hit, Miss, Load, Raise, Put
<1> QED BY <1>1, <1>2, Invariance, PTL DEF Spec

\* The types, and that the order lists the entries, each once.
THEOREM TypeCorrect == Spec => []TypeOK
<1>1. IInv /\ OrderOK /\ LimitsOK => TypeOK
  <2> SUFFICES ASSUME IInv, OrderOK, LimitsOK PROVE TypeOK
    OBVIOUS
  <2>1. \A k \in Keys : entry[k] = Nothing \/ entry[k].at \in 0 .. clock
    BY DEF IInv, EntriesFresh, Fresh, HistoryOK
  <2>2. now \in [Calls -> 0 .. MaxClock]
    BY DEF IInv, CallsOK, CallOK, LimitsOK
  <2>3. /\ {order[i] : i \in 1 .. Len(order)} = {k \in Keys : entry[k] # Nothing}
        /\ Cardinality({k \in Keys : entry[k] # Nothing}) = Len(order)
    BY ListedCardinality DEF OrderOK, Stored, Listed
  <2> QED BY <2>1, <2>2, <2>3 DEF TypeOK, LimitsOK, IInv, CallsOK
<1> QED BY <1>1, Invariance, OrderKept, LimitsKept, PTL

\* What a call has just stored is not what it evicts: the next call for it is a
\* hit until the ttl is over or other keys have taken its place.
THEOREM StoredIsKept == Spec => [][\A c \in Calls : Put(c) => entry'[Key(asked[c])] # Nothing]_vars
<1>1. ASSUME IInv, OrderOK, NEW c \in Calls, Put(c)
      PROVE  entry'[asked[c]] # Nothing
  <2> DEFINE k == asked[c]
             new == [entry EXCEPT ![k] = [result[c] EXCEPT !.at = now[c]]]
             keys == MoveToEnd(k)
  <2>1. /\ k \in Keys /\ Evict(keys, new) /\ Distinct(keys) /\ new[k] # Nothing
        /\ DOMAIN new = Keys
    BY <1>1, PutEvicts
  <2>2. keys[Len(keys)] = k
    BY <1>1, <2>1, MovedToEnd DEF OrderOK
  <2> HIDE DEF new, keys
  <2>3. Len(keys) > MaxEntries => Head(keys) # k
    <3>1. HAVE Len(keys) > MaxEntries
    <3>2. Len(keys) \in Nat /\ Len(keys) > 1
      BY <2>1, <3>1 DEF Distinct
    <3>3. Head(keys) = keys[1]
      BY <2>1, <3>2, FirstDropped
    <3> QED BY <2>1, <2>2, <3>2, <3>3 DEF Distinct
  <2> QED BY <2>1, <2>3 DEF Evict
<1>2. IInv /\ OrderOK /\ [Next]_vars
        => [\A c \in Calls : Put(c) => entry'[Key(asked[c])] # Nothing]_vars
  BY <1>1 DEF Key
<1> QED BY <1>2, Invariance, OrderKept, PTL DEF Spec

-----------------------------------------------------------------------------
(* The cache implements StaleReads. *)

\* When c was called, of a call that is under way.
Since == [c \in Calls |-> IF pc[c] = "idle" THEN -1 ELSE now[c]]

\* A call that waits or has loaded comes to its end.
LEMMA CallEnds ==
  ASSUME pc \in [Calls -> {"idle", "await", "loaded"}], now \in [Calls -> Nat],
         NEW c \in Calls, pc[c] # "idle", pc' = [pc EXCEPT ![c] = "idle"], now' = now
  PROVE  Since[c] = now[c] /\ Since[c] # -1 /\ Since' = [Since EXCEPT ![c] = -1]
<1>1. Since[c] = now[c] /\ Since[c] \in Nat
  BY DEF Since
<1>2. Since' = [d \in Calls |-> IF pc'[d] = "idle" THEN -1 ELSE now[d]]
  BY DEF Since
<1>3. \A d \in Calls : pc'[d] = IF d = c THEN "idle" ELSE pc[d]
  OBVIOUS
<1>4. Since' = [d \in Calls |-> IF d = c THEN -1 ELSE Since[d]]
  BY <1>2, <1>3 DEF Since
<1>5. Since' = [Since EXCEPT ![c] = -1]
  BY <1>4 DEF Since
<1> QED BY <1>1, <1>5

\* A call that waits for its handler has been asked; its load is a stutter.
LEMMA WaitReads ==
  ASSUME IInv, NEW c \in Calls, Miss(c) \/ Load(c) \/ Raise(c)
  PROVE  Reads!Next \/ UNCHANGED <<clock, history, asked, Since, answer>>
<1>1. /\ clock \in Nat /\ pc \in [Calls -> {"idle", "await", "loaded"}]
      /\ now \in [Calls -> Nat]
  BY DEF IInv, HistoryOK, CallsOK
<1>2. CASE Miss(c)
  <2>1. PICK k \in Keys :
           /\ pc[c] = "idle"
           /\ asked' = [asked EXCEPT ![c] = k]
           /\ now' = [now EXCEPT ![c] = clock]
           /\ pc' = [pc EXCEPT ![c] = "await"]
           /\ answer' = [answer EXCEPT ![c] = NoAnswer]
           /\ clock' = clock /\ history' = history
    BY <1>2 DEF Miss
  <2>2. Since[c] = -1 /\ Since' = [Since EXCEPT ![c] = clock]
    BY <1>1, <2>1 DEF Since
  <2>3. Reads!Ask(c, k)
    BY <2>1, <2>2 DEF Reads!Ask, Reads!Idle, Reads!NoAnswer, NoAnswer, Since
  <2> QED BY <2>3 DEF Reads!Next
<1>3. CASE Load(c)
  <2>1. Since' = Since
    BY <1>1, <1>3 DEF Load, Since
  <2> QED BY <1>3, <2>1 DEF Load
<1>4. CASE Raise(c)
  <2>1. Since[c] # -1 /\ Since' = [Since EXCEPT ![c] = -1]
    <3>1. pc[c] = "await" /\ pc' = [pc EXCEPT ![c] = "idle"] /\ now' = now
      BY <1>4 DEF Raise
    <3> QED BY <1>1, <3>1, CallEnds
  <2>2. Reads!Abandon(c)
    BY <1>4, <2>1 DEF Raise, Reads!Abandon, Reads!Idle, Since
  <2> QED BY <2>2 DEF Reads!Next
<1> QED BY <1>2, <1>3, <1>4

\* The entry of a hit was the present version less than Ttl ago.
LEMMA HitReads == ASSUME IInv, NEW c \in Calls, Hit(c) PROVE Reads!Next
<1>1. PICK k \in Keys :
         /\ pc[c] = "idle"
         /\ entry[k] # Nothing
         /\ clock - entry[k].at < Ttl
         /\ asked' = [asked EXCEPT ![c] = k]
         /\ Return(c, entry[k], TRUE)
         /\ clock' = clock /\ history' = history /\ now' = now
  BY DEF Hit, Key
<1> DEFINE v == entry[k].version
<1>2. /\ Fresh(entry[k], k) /\ clock \in Nat /\ history[k] \in Seq(Nat)
      /\ pc \in [Calls -> {"idle", "await", "loaded"}]
      /\ now \in [Calls -> Nat]
  BY <1>1 DEF IInv, EntriesFresh, HistoryOK, CallsOK
<1>3. /\ v \in 1 .. Len(history[k]) /\ entry[k].of = k
      /\ v < Len(history[k]) => history[k][v + 1] >= clock - Ttl + 1
  <2>1. /\ v \in 1 .. Len(history[k]) /\ entry[k].of = k /\ entry[k].at \in Nat
        /\ v < Len(history[k]) => history[k][v + 1] >= entry[k].at
    BY <1>2 DEF Fresh
  <2>2. clock - entry[k].at < Ttl /\ Ttl \in Nat
    BY <1>1
  <2> DEFINE next == history[k][v + 1]
  <2>3. ASSUME v < Len(history[k]) PROVE next \in Nat
    <3>1. v + 1 \in 1 .. Len(history[k])
      BY <2>1, <2>3
    <3> QED BY <1>2, <3>1, ElementOfSeq
  <2>4. ASSUME NEW n \in Nat, NEW t \in Nat, n >= t, clock - t < Ttl
        PROVE  n >= clock - Ttl + 1
    BY <1>2, <2>2, <2>4
  <2>5. v < Len(history[k]) => next >= clock - Ttl + 1
    BY <2>1, <2>2, <2>3, <2>4
  <2> QED BY <2>1, <2>5
<1>4. Since[c] = -1 /\ Since' = Since
  BY <1>1, <1>2 DEF Since, Return
<1>5. answer' = [answer EXCEPT ![c] = [of |-> k, version |-> v, at |-> clock, hit |-> TRUE]]
  BY <1>1, <1>3 DEF Return
<1> HIDE DEF v
<1>6. Reads!Quick(c, k, v)
  BY <1>1, <1>3, <1>4, <1>5 DEF Reads!Quick, Reads!Present, Reads!Answer, Reads!Idle, Since
<1> QED BY <1>3, <1>6 DEF Reads!Next

\* What is stored is also returned: the version its own handler loaded.
LEMMA PutReads == ASSUME IInv, NEW c \in Calls, Put(c) PROVE Reads!Next
<1> DEFINE k == asked[c]
<1>1. /\ pc[c] = "loaded"
      /\ Return(c, result[c], FALSE)
      /\ clock' = clock /\ history' = history /\ asked' = asked /\ now' = now
  BY DEF Put
<1>2. /\ CallOK(c)
      /\ pc \in [Calls -> {"idle", "await", "loaded"}]
      /\ now \in [Calls -> Nat]
  BY DEF IInv, CallsOK
<1>3. /\ Fresh(result[c], k) /\ result[c].at = now[c] /\ k \in Keys
  BY <1>1, <1>2 DEF CallOK
<1>4. PICK v \in 1 .. Len(history[k]) :
         /\ v = result[c].version
         /\ result[c].of = k
         /\ v < Len(history[k]) => history[k][v + 1] >= now[c]
  BY <1>3 DEF Fresh
<1>5. Since[c] = now[c] /\ Since[c] # -1 /\ Since' = [Since EXCEPT ![c] = -1]
  <2>1. pc' = [pc EXCEPT ![c] = "idle"]
    BY <1>1 DEF Return
  <2> QED BY <1>1, <1>2, <2>1, CallEnds
<1>6. answer' = [answer EXCEPT ![c] = [of |-> k, version |-> v, at |-> clock, hit |-> FALSE]]
  BY <1>1, <1>4 DEF Return
<1>7. Reads!Reply(c, v)
  BY <1>1, <1>4, <1>5, <1>6 DEF Reads!Reply, Reads!Present, Reads!Answer, Reads!Idle, Since
<1> QED BY <1>7 DEF Reads!Next

\* The cache implements StaleReads: however calls for the same key overlap, and
\* whatever is evicted, a caller sees a read of its own question that was true
\* during the call or, of a hit, less than ttl_seconds before it.
THEOREM CacheRefinement == Spec => KeepsReads
<1>1. Init => Reads!Init
  BY DEF Init, Reads!Init, Reads!Idle, Reads!NoAnswer, NoAnswer
<1>2. ASSUME IInv, [Next]_vars
      PROVE  Reads!Next \/ UNCHANGED <<clock, history, asked, Since, answer>>
  <2>1. CASE Tick
    <3>1. Reads!Tick
      BY <2>1 DEF Tick, Reads!Tick, call
    <3> QED BY <3>1 DEF Reads!Next
  <2>2. ASSUME NEW k \in Keys, Change(k) PROVE Reads!Next
    <3>1. Reads!Change(k)
      BY <2>2 DEF Change, Reads!Change, call
    <3> QED BY <3>1 DEF Reads!Next
  <2>3. CASE UNCHANGED vars
    BY <2>3 DEF vars, call, Since
  <2> QED BY <1>2, <2>1, <2>2, <2>3, WaitReads, HitReads, PutReads DEF Next
<1>3. IInv /\ [Next]_vars => [Reads!Next]_(Reads!svars)
  BY <1>2 DEF Reads!svars, Since
<1> QED BY <1>1, <1>3, Invariance, PTL DEF Spec, KeepsReads, Reads!Spec
=============================================================================
