------------------------------ MODULE Realtime ------------------------------
(***************************************************************************)
(* The sockets of one API process: sockets/index over identity.service,    *)
(* the cached membership of middlewares/workspaceAccess and                *)
(* channel.service.assertCanRead.                                          *)
(*                                                                         *)
(* A socket is authenticated at its handshake and never again: nothing     *)
(* here looks at its session, so that a revoked one stays connected.  Each *)
(* join is checked when it is asked for.  One workspace, one board and one *)
(* channel; what HTTP requests do to memberships, the channel and the      *)
(* board meanwhile are single actions here (Workspaces, Channels and       *)
(* Boards have their steps).                                               *)
(***************************************************************************)
EXTENDS Naturals, FiniteSets

CONSTANTS
    Sockets,
    People,
    Unrestricted,   \* people with the super admin role
    SocketMixes,    \* bound: what happens (ops), on which sockets (sockets),
                    \* one thing at a time or not (serial); a behaviour keeps
                    \* to one of these
    NoOne

ASSUME RealtimeAssumption ==
    /\ Unrestricted \subseteq People /\ NoOne \notin People
    /\ SocketMixes \subseteq [ops : SUBSET {"connect", "workspace", "board", "channel",
                                            "member", "privacy", "archive"},
                              sockets : SUBSET Sockets, serial : BOOLEAN]

VARIABLES
    member,         \* the members of the workspace
    known,          \* the cached answer of loadMembership: "none", "yes", "no"
    leaving,        \* removed members whose cached answer is about to be dropped
    channelOpen,    \* the channel is not archived
    isPrivate,      \* whether it is private ...
    inChannel,      \* ... and who has a ChannelMember document
    boardOpen,      \* the board is not archived
    sock,           \* the sockets
    sockMix

settings == <<member, known, leaving, channelOpen, isPrivate, inChannel, boardOpen>>
rtVars == <<settings, sock, sockMix>>

RoomsToJoin == {"workspace", "board", "channel"}

(* asks: the room being joined; read: what has been found out for that.    *)
(* A socket that is gone has been closed by its client with a join under   *)
(* way, whose handler goes on.                                             *)
Socket ==
    [st : {"closed", "verified", "open", "gone"}, user : People \cup {NoOne},
     rooms : SUBSET (RoomsToJoin \cup {"user"}), asks : RoomsToJoin \cup {"none"},
     step : {"idle", "guard", "load", "store", "exists", "find", "belongs", "join", "refuse"},
     read : BOOLEAN]

Closed == [st |-> "closed", user |-> NoOne, rooms |-> {}, asks |-> "none",
           step |-> "idle", read |-> FALSE]

RealtimeTypeOK ==
    /\ member \subseteq People
    /\ known \in [People -> {"none", "yes", "no"}]
    /\ leaving \subseteq People
    /\ channelOpen \in BOOLEAN /\ isPrivate \in BOOLEAN
    /\ inChannel \subseteq People
    /\ boardOpen \in BOOLEAN
    /\ sock \in [Sockets -> Socket]
    /\ \A k \in Sockets :
          /\ sock[k].st = "closed" <=> sock[k].user = NoOne
          /\ sock[k].step = "idle" <=> sock[k].asks = "none"
          /\ sock[k].st = "open" <=> "user" \in sock[k].rooms
          /\ sock[k].st = "gone" => sock[k].step # "idle"
    /\ sockMix \in SocketMixes

RealtimeInit ==
    /\ member \in SUBSET People
    /\ known = [p \in People |-> "none"]
    /\ leaving = {}
    /\ channelOpen = TRUE
    /\ isPrivate = FALSE
    /\ inChannel = {}
    /\ boardOpen = TRUE
    /\ sock = [k \in Sockets |-> Closed]
    /\ sockMix \in SocketMixes

Quiet == leaving = {} /\ \A k \in Sockets : sock[k].step = "idle"

(* Something new begins.                                                   *)
Happens(op) ==
    /\ op \in sockMix.ops
    /\ sockMix.serial => Quiet
    /\ UNCHANGED sockMix

SockGo(k, r) ==
    /\ sock' = [sock EXCEPT ![k] = r]
    /\ UNCHANGED <<settings, sockMix>>

-----------------------------------------------------------------------------
(* The handshake: resolveAccessToken takes the access token of an active   *)
(* user (Sessions has which tokens it takes), and the user is all that is  *)
(* kept of it; then the connection handler runs.                           *)
Handshake(k) ==
    /\ Happens("connect") /\ k \in sockMix.sockets
    /\ sock[k].st = "closed"
    /\ \E p \in People :
          sock' = [sock EXCEPT ![k] = [Closed EXCEPT !.st = "verified", !.user = p]]
    /\ UNCHANGED settings

Connected(k) ==
    /\ sock[k].st = "verified"
    /\ SockGo(k, [sock[k] EXCEPT !.st = "open", !.rooms = {"user"}])

(* A socket that disconnects leaves its rooms; a join that is under way is *)
(* not told, and may still cache what it finds.                            *)
Disconnect(k) ==
    /\ sock[k].st = "open"
    /\ SockGo(k, IF sock[k].step = "idle" THEN Closed
                 ELSE [sock[k] EXCEPT !.st = "gone", !.rooms = {}])

(* The handlers of one socket may overlap in the code; here a socket waits *)
(* for its join, and a second socket of the user overlaps with it.         *)
AskRoom(k) ==
    \E room \in RoomsToJoin :
        /\ Happens(room)
        /\ sock[k].st = "open" /\ sock[k].step = "idle"
        /\ sock' = [sock EXCEPT ![k].asks = room,
                                ![k].step = IF room = "channel" THEN "find" ELSE "guard"]
        /\ UNCHANGED settings

LeaveRoom(k) ==
    /\ sock[k].st = "open"
    /\ \E room \in sock[k].rooms \ {"user"} :
          SockGo(k, [sock[k] EXCEPT !.rooms = @ \ {room}])

(* guardWorkspace and loadMembership: super admins pass, a cached answer   *)
(* is taken, otherwise the membership is read and the answer cached.       *)
Verdict(k, isMember) ==
    IF ~isMember THEN "refuse" ELSE IF sock[k].asks = "board" THEN "exists" ELSE "join"

GuardSocket(k) ==
    LET p == sock[k].user
    IN  /\ sock[k].step = "guard"
        /\ SockGo(k, [sock[k] EXCEPT
                        !.step = CASE p \in Unrestricted -> Verdict(k, TRUE)
                                   [] p \notin Unrestricted /\ known[p] = "none" -> "load"
                                   [] OTHER -> Verdict(k, known[p] = "yes")])

LoadAnswer(k) ==
    /\ sock[k].step = "load"
    /\ SockGo(k, [sock[k] EXCEPT !.step = "store", !.read = sock[k].user \in member])

CacheAnswer(k) ==
    /\ sock[k].step = "store"
    /\ known' = [known EXCEPT ![sock[k].user] = IF sock[k].read THEN "yes" ELSE "no"]
    /\ sock' = [sock EXCEPT ![k].step = Verdict(k, sock[k].read)]
    /\ UNCHANGED <<member, leaving, channelOpen, isPrivate, inChannel, boardOpen, sockMix>>

(* Board.exists.                                                           *)
BoardExists(k) ==
    /\ sock[k].step = "exists"
    /\ SockGo(k, [sock[k] EXCEPT !.step = IF boardOpen THEN "join" ELSE "refuse"])

(* assertCanRead: loadChannel, which finds no archived channel, then the   *)
(* ChannelMember document.                                                 *)
FindChannel(k) ==
    /\ sock[k].step = "find"
    /\ SockGo(k, IF channelOpen
                 THEN [sock[k] EXCEPT !.step = "belongs", !.read = isPrivate]
                 ELSE [sock[k] EXCEPT !.step = "refuse"])

BelongsToChannel(k) ==
    /\ sock[k].step = "belongs"
    /\ SockGo(k, [sock[k] EXCEPT
                    !.step = IF sock[k].read /\ sock[k].user \notin inChannel \cup Unrestricted
                             THEN "refuse" ELSE "join"])

(* The handler of a socket that is gone ends without effect.               *)
Answered(k, rooms) ==
    IF sock[k].st = "gone" THEN Closed
    ELSE [sock[k] EXCEPT !.rooms = rooms, !.asks = "none", !.step = "idle", !.read = FALSE]

JoinRoom(k) ==
    /\ sock[k].step = "join"
    /\ SockGo(k, Answered(k, sock[k].rooms \cup {sock[k].asks}))

RefuseRoom(k) ==
    /\ sock[k].step = "refuse"
    /\ SockGo(k, Answered(k, sock[k].rooms))

-----------------------------------------------------------------------------
(* What HTTP requests do meanwhile.                                        *)

(* addMember leaves the cached answer alone.                               *)
AddToWorkspace(p) ==
    /\ Happens("member")
    /\ p \notin member
    /\ member' = member \cup {p}
    /\ UNCHANGED <<known, leaving, channelOpen, isPrivate, inChannel, boardOpen, sock>>

\* Mutant: the cached answer stays.
RemoveSilently(p) ==
    /\ Happens("member")
    /\ p \in member
    /\ member' = member \ {p}
    /\ UNCHANGED <<known, leaving, channelOpen, isPrivate, inChannel, boardOpen, sock>>

(* removeMember: the transaction, then forgetMembership.                   *)
RemoveFromWorkspace(p) ==
    /\ Happens("member")
    /\ p \in member
    /\ member' = member \ {p}
    /\ leaving' = leaving \cup {p}
    /\ UNCHANGED <<known, channelOpen, isPrivate, inChannel, boardOpen, sock>>

DropAnswer(p) ==
    /\ p \in leaving
    /\ leaving' = leaving \ {p}
    /\ known' = [known EXCEPT ![p] = "none"]
    /\ UNCHANGED <<member, channelOpen, isPrivate, inChannel, boardOpen, sock, sockMix>>

ExpireAnswer(p) ==
    /\ known[p] # "none"
    /\ known' = [known EXCEPT ![p] = "none"]
    /\ UNCHANGED <<member, leaving, channelOpen, isPrivate, inChannel, boardOpen, sock,
                   sockMix>>

(* The routes of a channel let members of the workspace and super admins   *)
(* pass, and loadChannel finds it until it is archived.                    *)
ChannelUsers == IF channelOpen THEN member \cup Unrestricted ELSE {}

(* joinChannel and leaveChannel.                                           *)
ChannelMembership(p) ==
    /\ Happens("privacy")
    /\ p \in ChannelUsers
    /\ \/ /\ isPrivate => p \in Unrestricted
          /\ inChannel' = inChannel \cup {p}
       \/ inChannel' = inChannel \ {p}
    /\ inChannel' # inChannel
    /\ UNCHANGED <<member, known, leaving, channelOpen, isPrivate, boardOpen, sock>>

(* updateChannel, by a member of the channel.                              *)
ChannelPrivacy ==
    /\ Happens("privacy")
    /\ ChannelUsers \cap inChannel # {}
    /\ isPrivate' = ~isPrivate
    /\ UNCHANGED <<member, known, leaving, channelOpen, inChannel, boardOpen, sock>>

(* archiveChannel and archiveBoard.                                        *)
ChannelArchived ==
    /\ Happens("archive")
    /\ channelOpen /\ channelOpen' = FALSE
    /\ UNCHANGED <<member, known, leaving, isPrivate, inChannel, boardOpen, sock>>

BoardArchived ==
    /\ Happens("archive")
    /\ boardOpen /\ boardOpen' = FALSE
    /\ UNCHANGED <<member, known, leaving, channelOpen, isPrivate, inChannel, sock>>

RealtimeNext ==
    \/ \E k \in Sockets :
          \/ Handshake(k) \/ Connected(k) \/ Disconnect(k) \/ AskRoom(k) \/ LeaveRoom(k)
          \/ GuardSocket(k) \/ LoadAnswer(k) \/ CacheAnswer(k) \/ BoardExists(k)
          \/ FindChannel(k) \/ BelongsToChannel(k) \/ JoinRoom(k) \/ RefuseRoom(k)
    \/ \E p \in People :
          \/ AddToWorkspace(p) \/ RemoveFromWorkspace(p)
          \/ DropAnswer(p) \/ ExpireAnswer(p) \/ ChannelMembership(p)
    \/ ChannelPrivacy \/ ChannelArchived \/ BoardArchived

RealtimeSpec == RealtimeInit /\ [][RealtimeNext]_rtVars

-----------------------------------------------------------------------------
Joins(k, room) == room \in sock'[k].rooms \ sock[k].rooms

(* With one thing at a time, a socket enters the rooms of the workspace    *)
(* and of the board only as a member's (or a super admin's), the board's   *)
(* and the channel's only while they are not archived, and the room of a   *)
(* private channel only with a ChannelMember document, or as a super       *)
(* admin's.  Of the channel's room no more is claimed: CHANNEL_JOIN never  *)
(* looks for a membership of the workspace (MembersOnly).                  *)
JoinsAuthorised ==
    [][ sockMix.serial =>
          \A k \in Sockets :
              /\ Joins(k, "workspace") \/ Joins(k, "board") =>
                    sock[k].user \in member \cup Unrestricted
              /\ Joins(k, "board") => boardOpen
              /\ Joins(k, "channel") => channelOpen
              /\ Joins(k, "channel") /\ isPrivate =>
                    sock[k].user \in inChannel \cup Unrestricted ]_rtVars

(* What docs/architecture.md says of every room, that a client which may   *)
(* not see it gets an error instead: with one thing at a time, nobody who  *)
(* is not, or is no longer, a member of the workspace enters the room of a *)
(* private channel of it.                                                  *)
MembersOnly ==
    [][ sockMix.serial =>
          \A k \in Sockets :
              Joins(k, "channel") /\ isPrivate =>
                  sock[k].user \in member \cup Unrestricted ]_rtVars
=============================================================================
