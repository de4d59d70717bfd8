----------------------------- MODULE MCDelivery -----------------------------
EXTENDS Delivery, TLC
Plain == [to |-> {"ann", "root"}, actor |-> "bob", fits |-> TRUE]
Own == [to |-> {"ann", "bob"}, actor |-> "bob", fits |-> TRUE]
Long == [to |-> {"ann"}, actor |-> "bob", fits |-> FALSE]
Due == [to |-> {"ann"}, actor |-> Nobody, fits |-> TRUE]
LongDue == [to |-> {"bob"}, actor |-> Nobody, fits |-> FALSE]
Faults == {"redis", "add", "stall", "mongo", "crash"}

(* One change with two faults, two changes with one, and a sweep of two    *)
(* cards with two, each with the workers apart and inside the API process. *)
MCMixes ==
    UNION {{[split |-> split, changes |-> {"q1"}, due |-> <<>>,
             shapes |-> {Plain, Own, Long}, faults |-> Faults, mishaps |-> 2],
            [split |-> split, changes |-> {"q1", "q2"}, due |-> <<>>,
             shapes |-> {Plain}, faults |-> Faults, mishaps |-> 1],
            [split |-> split, changes |-> {}, due |-> <<"c1", "c2">>,
             shapes |-> {Due, LongDue}, faults |-> Faults, mishaps |-> 2]}
           : split \in BOOLEAN}
=============================================================================
