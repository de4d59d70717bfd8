----------------------------- MODULE MCChannels -----------------------------
(* Channels for TLC.  Users but Root, messages and slots are all alike.    *)
EXTENDS Channels, TLC

AllOps == {"create", "update", "archive", "join", "leave", "send", "edit", "delete"}

(* Everything one at a time; and what changes the counters, each with      *)
(* itself, with two requests that overlap.                                 *)
MCMixes ==
    {[ops |-> AllOps, slots |-> {s}] : s \in Requests}
    \cup {[ops |-> {"create", "update", "archive", "join", "leave"}, slots |-> Requests],
          [ops |-> {"create", "send", "delete"}, slots |-> Requests]}

Symmetry ==
    Permutations(Users \ {Root}) \cup Permutations(Messages) \cup Permutations(Requests)
=============================================================================
