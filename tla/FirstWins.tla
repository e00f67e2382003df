------------------------------ MODULE FirstWins ------------------------------
(***************************************************************************)
(* What a local copy of a topic promises when records come at least once    *)
(* and in any order: one row for each key, made of the first record that    *)
(* had it, which nothing changes or removes afterwards.                     *)
(***************************************************************************)
CONSTANTS Initial,  \* the contents the table may start with
          Key(_)    \* the columns of ON CONFLICT

VARIABLE table

Init == table \in Initial

Insert == \E r \in table' : /\ \A q \in table : Key(q) # Key(r)
                            /\ table' = table \cup {r}

Spec == Init /\ [][Insert]_table
=============================================================================
