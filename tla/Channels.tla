------------------------------ MODULE Channels ------------------------------
(***************************************************************************)
(* One channel of a workspace: services/channel.service over               *)
(* models/channel, models/channelMember and models/message.                *)
(*                                                                         *)
(* The channel counts its members and its messages, and a message its      *)
(* replies, in fields beside the documents they count.  Every await before *)
(* the write is a step, and the write, one transaction, is the last one.   *)
(***************************************************************************)
EXTENDS Integers, FiniteSets

CONSTANTS
    Users,        \* accounts that may write in the workspace
    Root,         \* the one of them who is a super admin
    Messages,     \* message ids
    Requests,     \* slots for requests in flight
    Mixes,        \* bound: what clients ask for (ops) and which slots they use
                  \* (slots); a behaviour keeps to one of these
    MaxJoins,     \* bound on the channel member documents ever created
    Null

ASSUME ChannelsAssumption ==
    /\ IsFiniteSet(Users) /\ IsFiniteSet(Messages)
    /\ Root \in Users
    /\ Null \notin Users \cup Messages
    /\ Mixes \subseteq [ops : SUBSET {"create", "update", "archive", "join", "leave",
                                      "send", "edit", "delete"},
                        slots : SUBSET Requests]
    /\ MaxJoins \in Nat

VARIABLES
    channel,        \* "absent", "active" or "archived"
    private,        \* whether its visibility is private
    memberCount,    \* channel.memberCount
    messageCount,   \* channel.messageCount
    doc,            \* a user's channel member document: its id, 0 for none
    joins,          \* ids given out so far
    author,         \* who wrote a message, Null before it exists ...
    parent,         \* ... the message it replies to ...
    deleted,        \* ... whether deletedAt is set ...
    blank,          \* ... whether its body is empty ...
    replyCount,     \* ... and message.replyCount
    req,            \* the requests in flight
    mix             \* what clients ask for

roster == <<memberCount, doc, joins>>
thread == <<messageCount, author, parent, deleted, blank, replyCount>>
vars == <<channel, private, roster, thread, req, mix>>

Ops == {"none", "create", "update", "archive", "join", "leave", "send", "edit", "delete"}

Steps == {"idle", "taken", "channel", "member", "message", "write"}

(* What a handler holds: the user, the message it is about (the parent of  *)
(* one to be sent), the visibility it was asked to set and the id of the   *)
(* member document it found.                                               *)
Request ==
    [op : Ops, step : Steps, user : Users \cup {Null}, message : Messages \cup {Null},
     private : BOOLEAN, doc : Nat]

Idle ==
    [op |-> "none", step |-> "idle", user |-> Null, message |-> Null,
     private |-> FALSE, doc |-> 0]

TypeOK ==
    /\ channel \in {"absent", "active", "archived"}
    /\ private \in BOOLEAN
    /\ memberCount \in Int /\ messageCount \in Int
    /\ doc \in [Users -> Nat]
    /\ joins \in Nat
    /\ \A u, v \in Users : doc[u] <= joins /\ (doc[u] = doc[v] /\ u # v => doc[u] = 0)
    /\ author \in [Messages -> Users \cup {Null}]
    /\ parent \in [Messages -> Messages \cup {Null}]
    /\ deleted \in [Messages -> BOOLEAN]
    /\ blank \in [Messages -> BOOLEAN]
    /\ replyCount \in [Messages -> Int]
    /\ req \in [Requests -> Request]
    /\ mix \in Mixes

Members == {u \in Users : doc[u] # 0}

Sent == {m \in Messages : author[m] # Null}

Shown == {m \in Sent : ~deleted[m]}

Replies(m) == {n \in Shown : parent[n] = m}

Init ==
    /\ channel = "absent"
    /\ private = FALSE
    /\ memberCount = 0 /\ messageCount = 0
    /\ doc = [u \in Users |-> 0]
    /\ joins = 0
    /\ author = [m \in Messages |-> Null]
    /\ parent = [m \in Messages |-> Null]
    /\ deleted = [m \in Messages |-> FALSE]
    /\ blank = [m \in Messages |-> FALSE]
    /\ replyCount = [m \in Messages |-> 0]
    /\ req = [s \in Requests |-> Idle]
    /\ mix \in Mixes

-----------------------------------------------------------------------------
Go(s, r) ==
    /\ req' = [req EXCEPT ![s] = r]
    /\ UNCHANGED mix

Begin(s, r) ==
    /\ req[s] = Idle
    /\ s \in mix.slots /\ r.op \in mix.ops
    /\ Go(s, r)
    /\ UNCHANGED <<channel, private, roster, thread>>

StartCreate(s) ==
    \E u \in Users, p \in BOOLEAN :
        Begin(s, [Idle EXCEPT !.op = "create", !.step = "taken", !.user = u, !.private = p])

(* Every other route names the channel.                                    *)
StartOnChannel(s) ==
    /\ channel # "absent"
    /\ \E u \in Users :
          \/ \E op \in {"archive", "join", "leave"} :
                Begin(s, [Idle EXCEPT !.op = op, !.step = "channel", !.user = u])
          \/ \E p \in BOOLEAN :
                Begin(s, [Idle EXCEPT !.op = "update", !.step = "channel", !.user = u,
                                      !.private = p])
          \/ \E m \in Sent \cup {Null} :
                Begin(s, [Idle EXCEPT !.op = "send", !.step = "channel", !.user = u,
                                      !.message = m])
          \/ \E m \in Sent, op \in {"edit", "delete"} :
                Begin(s, [Idle EXCEPT !.op = op, !.step = "channel", !.user = u,
                                      !.message = m])

-----------------------------------------------------------------------------
Advance(s, r) ==
    /\ Go(s, r)
    /\ UNCHANGED <<channel, private, roster, thread>>

Refuse(s) == Advance(s, Idle)

(* createChannel looks for a channel of that name, archived or not.        *)
CheckTaken(s) ==
    LET r == req[s]
    IN  /\ r.step = "taken"
        /\ Advance(s, IF channel = "absent" THEN [r EXCEPT !.step = "write"] ELSE Idle)

\* Mutant: anybody may join a private channel.
LoadChannelOpenly(s) ==
    LET r == req[s]
    IN  /\ r.step = "channel"
        /\ \/ channel # "active" /\ Refuse(s)
           \/ /\ channel = "active"
              /\ Advance(s, [r EXCEPT !.step = IF r.op = "archive" THEN "write" ELSE "member"])

(* loadChannel, and in joinChannel the refusal of private channels.        *)
LoadChannel(s) ==
    LET r == req[s]
        refused == channel # "active" \/ (r.op = "join" /\ private /\ r.user # Root)
    IN  /\ r.step = "channel"
        /\ \/ refused /\ Refuse(s)
           \/ /\ ~refused
              /\ Advance(s, [r EXCEPT !.step = IF r.op = "archive" THEN "write" ELSE "member"])

(* The member document: joinChannel wants none, the others want one.       *)
FindMember(s) ==
    LET r == req[s]
        refused == (r.op = "join") = (r.user \in Members)
        next == IF r.op \in {"edit", "delete"} THEN "message" ELSE "write"
    IN  /\ r.step = "member"
        /\ \/ refused /\ Refuse(s)
           \/ ~refused /\ Advance(s, [r EXCEPT !.step = next, !.doc = doc[r.user]])

\* Mutant: deleted messages are found too.
LoadAnyMessage(s) ==
    LET r == req[s]
    IN  /\ r.step = "message"
        /\ \/ author[r.message] # r.user /\ Refuse(s)
           \/ author[r.message] = r.user /\ Advance(s, [r EXCEPT !.step = "write"])

(* loadOwnMessage.                                                         *)
LoadOwnMessage(s) ==
    LET r == req[s]
        mine == ~deleted[r.message] /\ author[r.message] = r.user
    IN  /\ r.step = "message"
        /\ \/ ~mine /\ Refuse(s)
           \/ mine /\ Advance(s, [r EXCEPT !.step = "write"])

-----------------------------------------------------------------------------
(* The writes.                                                             *)

Writing(s, op) == req[s].step = "write" /\ req[s].op = op

NewMember(u) ==
    /\ joins < MaxJoins
    /\ joins' = joins + 1
    /\ doc' = [doc EXCEPT ![u] = joins + 1]

CreateChannel(s) ==
    /\ Writing(s, "create")
    /\ channel = "absent"
    /\ channel' = "active"
    /\ private' = req[s].private
    /\ memberCount' = 1
    /\ NewMember(req[s].user)
    /\ Go(s, Idle)
    /\ UNCHANGED thread

(* The unique index on workspace and slug.                                 *)
CreateDuplicate(s) == Writing(s, "create") /\ channel # "absent" /\ Refuse(s)

(* findOneAndUpdate asks for the id only.                                  *)
UpdateChannel(s) ==
    /\ Writing(s, "update")
    /\ private' = req[s].private
    /\ Go(s, Idle)
    /\ UNCHANGED <<channel, roster, thread>>

ArchiveChannel(s) ==
    /\ Writing(s, "archive")
    /\ channel' = "archived"
    /\ Go(s, Idle)
    /\ UNCHANGED <<private, roster, thread>>

\* Mutant: no unique index, so that a second document replaces the first.
JoinChannelAgain(s) ==
    /\ Writing(s, "join")
    /\ NewMember(req[s].user)
    /\ memberCount' = memberCount + 1
    /\ Go(s, Idle)
    /\ UNCHANGED <<channel, private, thread>>

JoinChannel(s) ==
    /\ Writing(s, "join")
    /\ req[s].user \notin Members
    /\ NewMember(req[s].user)
    /\ memberCount' = memberCount + 1
    /\ Go(s, Idle)
    /\ UNCHANGED <<channel, private, thread>>

(* The unique index on channel and user.                                   *)
JoinDuplicate(s) == Writing(s, "join") /\ req[s].user \in Members /\ Refuse(s)

(* deleteOne goes by the id of the document found, the counter by nothing. *)
LeaveChannel(s) ==
    LET r == req[s]
    IN  /\ Writing(s, "leave")
        /\ doc' = [doc EXCEPT ![r.user] = IF @ = r.doc THEN 0 ELSE @]
        /\ memberCount' = memberCount - 1
        /\ Go(s, Idle)
        /\ UNCHANGED <<channel, private, joins, thread>>

Counted(m, n) ==
    replyCount' = [k \in Messages |-> IF k = m THEN replyCount[k] + n ELSE replyCount[k]]

\* Mutant: the author is the member document instead of the user.
SendAsMember(s) ==
    LET r == req[s]
    IN  /\ Writing(s, "send")
        /\ \E m \in Messages \ Sent :
              /\ author' = [author EXCEPT ![m] = r.doc]
              /\ parent' = [parent EXCEPT ![m] = r.message]
        /\ messageCount' = messageCount + 1
        /\ Counted(r.message, 1)
        /\ Go(s, Idle)
        /\ UNCHANGED <<channel, private, roster, deleted, blank>>

SendMessage(s) ==
    LET r == req[s]
    IN  /\ Writing(s, "send")
        /\ \E m \in Messages \ Sent :
              /\ author' = [author EXCEPT ![m] = r.user]
              /\ parent' = [parent EXCEPT ![m] = r.message]
        /\ messageCount' = messageCount + 1
        /\ Counted(r.message, 1)
        /\ Go(s, Idle)
        /\ UNCHANGED <<channel, private, roster, deleted, blank>>

(* save writes the body when it is not the one loaded.                     *)
EditMessage(s) ==
    LET m == req[s].message
    IN  /\ Writing(s, "edit")
        /\ \E changed \in BOOLEAN : blank' = [blank EXCEPT ![m] = @ /\ ~changed]
        /\ Go(s, Idle)
        /\ UNCHANGED <<channel, private, roster, messageCount, author, parent, deleted,
                       replyCount>>

\* Mutant: the reply counter of the message is taken down, not its parent's.
DeleteMessageMiscounted(s) ==
    LET m == req[s].message
    IN  /\ Writing(s, "delete")
        /\ deleted' = [deleted EXCEPT ![m] = TRUE]
        /\ blank' = [blank EXCEPT ![m] = TRUE]
        /\ messageCount' = messageCount - 1
        /\ Counted(m, -1)
        /\ Go(s, Idle)
        /\ UNCHANGED <<channel, private, roster, author, parent>>

DeleteMessage(s) ==
    LET m == req[s].message
    IN  /\ Writing(s, "delete")
        /\ deleted' = [deleted EXCEPT ![m] = TRUE]
        /\ blank' = [blank EXCEPT ![m] = TRUE]
        /\ messageCount' = messageCount - 1
        /\ Counted(parent[m], -1)
        /\ Go(s, Idle)
        /\ UNCHANGED <<channel, private, roster, author, parent>>

-----------------------------------------------------------------------------
Start(s) == StartCreate(s) \/ StartOnChannel(s)

Read(s) == CheckTaken(s) \/ LoadChannel(s) \/ FindMember(s) \/ LoadOwnMessage(s)

Write(s) ==
    \/ CreateChannel(s) \/ CreateDuplicate(s) \/ UpdateChannel(s) \/ ArchiveChannel(s)
    \/ JoinChannel(s) \/ JoinDuplicate(s) \/ LeaveChannel(s)
    \/ SendMessage(s) \/ EditMessage(s) \/ DeleteMessage(s)

Next == \E s \in Requests : Start(s) \/ Read(s) \/ Write(s)

Spec == Init /\ [][Next]_vars

-----------------------------------------------------------------------------
(* Properties.                                                             *)

OneAtATime == \A s, t \in mix.slots : s = t

(* While requests do not overlap, the three counters count: the members,   *)
(* the messages shown and, for every message, the replies shown, those to  *)
(* a deleted message included.  When they overlap, no counter exceeds what *)
(* it counts: joining and sending count with the document they create, and *)
(* what two leaves or two deletions of one thing get wrong is too low.     *)
CountersHonest ==
    LET right(counter, S) ==
            counter <= Cardinality(S) /\ (OneAtATime => counter = Cardinality(S))
    IN  /\ right(memberCount, Members)
        /\ right(messageCount, Shown)
        /\ \A m \in Messages : right(replyCount[m], Replies(m))

(* While requests do not overlap, a private channel takes in nobody but a  *)
(* super admin, whoever made it private and whenever, and only members     *)
(* write in a channel.                                                     *)
ClosedToOutsiders ==
    [][OneAtATime =>
          /\ private /\ channel # "absent" => Members' \subseteq Members \cup {Root}
          /\ \A m \in Sent' \ Sent : author'[m] \in Members]_vars

(* While requests do not overlap, nothing is left to read in a deleted     *)
(* message, whatever edits come after the deletion.                        *)
DeletedSaysNothing == OneAtATime => \A m \in Messages : deleted[m] => blank[m]
=============================================================================
