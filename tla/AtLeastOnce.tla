---------------------------- MODULE AtLeastOnce ----------------------------
(***************************************************************************)
(* What the consumer promises its service, without members, rebalances or  *)
(* failures: every record appended to a partition is settled (handled,     *)
(* ignored or parked in the dead-letter topic), records of one partition   *)
(* are settled for the first time in order, and the committed offset only  *)
(* ever covers settled records.  A record may be settled again: that is    *)
(* invisible here, which is what "at least once" leaves open.              *)
(***************************************************************************)
EXTENDS Naturals

CONSTANTS Partitions, MaxLog

VARIABLES produced,   \* produced[p]: records appended to p so far
          settled,    \* settled[p]: the offsets of p with an outcome
          committed   \* committed[p]: the offset a new reader of p starts at

avars == <<produced, settled, committed>>

Init == /\ produced = [p \in Partitions |-> 0]
        /\ settled = [p \in Partitions |-> {}]
        /\ committed = [p \in Partitions |-> 0]

Produce(p) == /\ produced[p] < MaxLog
              /\ produced' = [produced EXCEPT ![p] = @ + 1]
              /\ UNCHANGED <<settled, committed>>

\* The first outcome of the oldest record of p that has none.
Settle(p) == /\ \E o \in 0 .. produced[p] - 1 :
                   /\ o \notin settled[p]
                   /\ 0 .. o - 1 \subseteq settled[p]
                   /\ settled' = [settled EXCEPT ![p] = @ \cup {o}]
             /\ UNCHANGED <<produced, committed>>

\* A commit covers settled records only; it may move back.
Commit(p) == /\ \E n \in 0 .. produced[p] :
                   /\ 0 .. n - 1 \subseteq settled[p]
                   /\ committed' = [committed EXCEPT ![p] = n]
             /\ UNCHANGED <<produced, settled>>

Next == \E p \in Partitions : Produce(p) \/ Settle(p) \/ Commit(p)

SafeSpec == Init /\ [][Next]_avars

Spec == SafeSpec /\ \A p \in Partitions : WF_avars(Settle(p))
=============================================================================
