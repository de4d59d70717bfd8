------------------------------ MODULE MCPages -------------------------------
(* Pages for TLC.  Request slots are alike, and so are texts and the pages *)
(* that nobody edits.                                                      *)
EXTENDS Pages, TLC

(* The tree is checked with requests one at a time; the texts, which do    *)
(* not depend on where pages are, with two that overlap; and two moves     *)
(* that overlap for what they may do to the types.                         *)
MCMoves == {[ops |-> {"create", "move"}, slots |-> Requests, pages |-> 2]}

MCMixes ==
    {[ops |-> {"create", "move", "archive"}, slots |-> {r}, pages |-> 4] : r \in Requests}
    \cup {[ops |-> {"create", "archive", "edit", "restore"}, slots |-> Requests, pages |-> 3]}
    \cup MCMoves

Symmetry ==
    Permutations(Requests) \cup Permutations(Texts) \cup Permutations(Pages \ Editable)
=============================================================================
