------------------------------ MODULE MCBoards ------------------------------
(* Boards for TLC: the constants that a configuration file cannot write.   *)
EXTENDS Boards, TLC

CONSTANT l1

OneDefaultList == <<l1>>

(* Everything one at a time, and what renumbers cards with two requests    *)
(* that overlap.                                                           *)
MCMixes ==
    {[ops |-> {"createList", "updateList", "archiveList", "createCard", "moveCard",
               "archiveCard", "archiveBoard"},
      slots |-> {s}, places |-> {0, 1}] : s \in Requests}
    \cup {[ops |-> {"createList", "createCard", "moveCard"}, slots |-> Requests, places |-> {0}]}

MCRacing ==
    {[ops |-> {"createCard", "moveCard", "archiveCard"}, slots |-> Requests, places |-> {0}]}

Symmetry == Permutations(Cards) \cup Permutations(Requests)

(* Bound: racing moves can push positions up without end (that is what the *)
(* lost contiguity amounts to); the search stops at MaxPosition.           *)
CONSTANT MaxPosition

PositionBound == \A c \in Cards : cardPos[c] <= MaxPosition
=============================================================================
