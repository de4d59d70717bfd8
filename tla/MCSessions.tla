----------------------------- MODULE MCSessions -----------------------------
(* Sessions for TLC.  Tokens, families and request slots are all alike.    *)
EXTENDS Sessions, TLC

(* Everything with requests one at a time, and what makes and ends the     *)
(* tokens of a family with requests that overlap.                          *)
MCSerial ==
    {[ops |-> {"login", "refresh", "logout", "everywhere", "password", "revoke"},
      slots |-> {r}] : r \in Requests}

MCMixes ==
    MCSerial
    \cup {[ops |-> {"login", "refresh", "logout", "everywhere"}, slots |-> Requests]}

MCRotation == {[ops |-> {"login", "refresh"}, slots |-> Requests]}

Symmetry == Permutations(Tokens) \cup Permutations(Families) \cup Permutations(Requests)
=============================================================================
