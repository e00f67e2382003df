----------------------------- MODULE StaleReads -----------------------------
(***************************************************************************)
(* What a cached GET promises, without a store, a key or an order of use: a *)
(* call is answered with a version of what it asked for that was the        *)
(* present one at some moment of the call, or, when it is answered at once, *)
(* less than Ttl before it.  It may also fail, and is then not answered.    *)
(***************************************************************************)
EXTENDS Integers, Sequences

CONSTANTS Calls, Keys, Ttl

VARIABLES clock,    \* the time
          history,  \* history[k]: when each version of k appeared
          asked,    \* asked[c]: what c asked for last
          since,    \* since[c]: when c was called, or Idle
          answer    \* answer[c]: what c was answered

svars == <<clock, history, asked, since, answer>>

Idle == -1
NoAnswer == [of |-> <<>>, version |-> 0, at |-> 0, hit |-> FALSE]

\* Version v of k was the present one at time t or at a later time.
Present(k, v, t) == /\ v \in 1 .. Len(history[k])
                    /\ v < Len(history[k]) => history[k][v + 1] >= t

Answer(c, k, v, hit) ==
    answer' = [answer EXCEPT ![c] = [of |-> k, version |-> v, at |-> clock, hit |-> hit]]

Init == /\ clock = 0
        /\ history = [k \in Keys |-> <<0>>]
        /\ asked \in [Calls -> Keys]
        /\ since = [c \in Calls |-> Idle]
        /\ answer = [c \in Calls |-> NoAnswer]

Tick == clock' = clock + 1 /\ UNCHANGED <<history, asked, since, answer>>

Change(k) == /\ history' = [history EXCEPT ![k] = Append(@, clock)]
             /\ UNCHANGED <<clock, asked, since, answer>>

Ask(c, k) == /\ since[c] = Idle
             /\ asked' = [asked EXCEPT ![c] = k]
             /\ since' = [since EXCEPT ![c] = clock]
             /\ answer' = [answer EXCEPT ![c] = NoAnswer]
             /\ UNCHANGED <<clock, history>>

Reply(c, v) == /\ since[c] # Idle
               /\ Present(asked[c], v, since[c])
               /\ Answer(c, asked[c], v, FALSE)
               /\ since' = [since EXCEPT ![c] = Idle]
               /\ UNCHANGED <<clock, history, asked>>

Abandon(c) == /\ since[c] # Idle
              /\ since' = [since EXCEPT ![c] = Idle]
              /\ UNCHANGED <<clock, history, asked, answer>>

Quick(c, k, v) == /\ since[c] = Idle
                  /\ Present(k, v, clock - Ttl + 1)
                  /\ asked' = [asked EXCEPT ![c] = k]
                  /\ Answer(c, k, v, TRUE)
                  /\ UNCHANGED <<clock, history, since>>

Next == \/ Tick
        \/ \E k \in Keys : Change(k)
        \/ \E c \in Calls :
              \/ Abandon(c)
              \/ \E k \in Keys : Ask(c, k)
              \/ \E v \in 1 .. Len(history[asked[c]]) : Reply(c, v)
              \/ \E k \in Keys : \E v \in 1 .. Len(history[k]) : Quick(c, k, v)

Spec == Init /\ [][Next]_svars
=============================================================================
