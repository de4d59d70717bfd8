----------------------------- MODULE MCRealtime -----------------------------
(* Realtime for TLC.                                                       *)
EXTENDS Realtime

(* One socket and everything that can happen, one thing at a time; the     *)
(* cached answer shared by two sockets; joins that overlap removals.       *)
MCSocketMixes ==
    {[ops |-> {"connect", "workspace", "board", "channel", "member", "privacy", "archive"},
      sockets |-> {"s1"}, serial |-> TRUE],
     [ops |-> {"connect", "workspace", "member"}, sockets |-> {"s1", "s2"}, serial |-> TRUE],
     [ops |-> {"connect", "board", "channel", "member", "privacy"},
      sockets |-> {"s1"}, serial |-> FALSE],
     [ops |-> {}, sockets |-> {}, serial |-> TRUE]}

(* The room of a channel that changes its privacy and its members.         *)
MCChannelRoom ==
    {[ops |-> {"connect", "channel", "member", "privacy"}, sockets |-> {"s1"}, serial |-> TRUE]}
=============================================================================
