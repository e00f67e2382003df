------------------------- MODULE MCReliableConsumer -------------------------
(* Small instances of ReliableConsumer for TLC. *)
EXTENDS ReliableConsumer, TLC

CONSTANTS m1, m2, p1, p2

OneMember == {m1}
TwoMembers == {m1, m2}
TwoPartitions == {p1, p2}
OnePartition == {p1}

Valid == [parses |-> TRUE, fits |-> TRUE]
Garbage == [parses |-> FALSE, fits |-> TRUE]
LongValid == [parses |-> TRUE, fits |-> FALSE]
LongGarbage == [parses |-> FALSE, fits |-> FALSE]

MixedKinds == {Valid, Garbage, LongValid}
LongKinds == {Valid, LongGarbage}

\* Members are interchangeable, and so are their names in owner.
MemberSymmetry == Permutations(TwoMembers)
=============================================================================
