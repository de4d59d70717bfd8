------------------------------ MODULE MCRooms -------------------------------
(* Channels, Realtime and Feeds for TLC.  They share no variable, so a     *)
(* behaviour has all but one of them at rest.                              *)
EXTENDS MCChannels, MCRealtime, Feeds

MCAllMixes == MCMixes \cup {[ops |-> {}, slots |-> {}]}

(* Pages of one and of two items, from both ends, filtered or not.         *)
NoFeed == [feed |-> "none", sort |-> "newest", unread |-> FALSE, limit |-> 1]
MCFeedMixes ==
    [feed : {"messages"}, sort : {"newest"}, unread : {FALSE}, limit : {1, 2}]
    \cup [feed : {"notifications"}, sort : {"newest", "oldest"}, unread : BOOLEAN, limit : {1, 2}]
    \cup {NoFeed}

AllInit ==
    /\ Init /\ RealtimeInit /\ FeedsInit
    /\ Cardinality({x \in {<<"channels", mix.ops # {}>>, <<"sockets", sockMix.ops # {}>>,
                            <<"feeds", feedMix # NoFeed>>} : x[2]}) = 1
    /\ sockMix.ops = {} => member = {}

Chan(action) == action /\ UNCHANGED <<rtVars, feedVars>>
Sock(action) == action /\ UNCHANGED <<vars, feedVars>>
Walk(action) == action /\ UNCHANGED <<vars, rtVars>>

AllNext ==
    \/ \E s \in Requests :
          \/ Chan(StartCreate(s)) \/ Chan(StartOnChannel(s))
          \/ Chan(CheckTaken(s)) \/ Chan(LoadChannel(s)) \/ Chan(FindMember(s))
          \/ Chan(LoadOwnMessage(s))
          \/ Chan(CreateChannel(s)) \/ Chan(CreateDuplicate(s)) \/ Chan(UpdateChannel(s))
          \/ Chan(ArchiveChannel(s)) \/ Chan(JoinChannel(s)) \/ Chan(JoinDuplicate(s))
          \/ Chan(LeaveChannel(s)) \/ Chan(SendMessage(s)) \/ Chan(EditMessage(s))
          \/ Chan(DeleteMessage(s))
    \/ \E k \in Sockets :
          \/ Sock(Handshake(k)) \/ Sock(Connected(k)) \/ Sock(Disconnect(k))
          \/ Sock(AskRoom(k)) \/ Sock(LeaveRoom(k)) \/ Sock(GuardSocket(k))
          \/ Sock(LoadAnswer(k)) \/ Sock(CacheAnswer(k)) \/ Sock(BoardExists(k))
          \/ Sock(FindChannel(k)) \/ Sock(BelongsToChannel(k)) \/ Sock(JoinRoom(k))
          \/ Sock(RefuseRoom(k))
    \/ \E p \in People :
          \/ Sock(AddToWorkspace(p)) \/ Sock(RemoveFromWorkspace(p))
          \/ Sock(DropAnswer(p)) \/ Sock(ExpireAnswer(p)) \/ Sock(ChannelMembership(p))
    \/ Sock(ChannelPrivacy) \/ Sock(ChannelArchived) \/ Sock(BoardArchived)
    \/ \E i \in Items :
          \/ Walk(DrawItem(i)) \/ Walk(CommitItem(i)) \/ Walk(HideMessage(i))
          \/ Walk(MarkRead(i)) \/ Walk(ExpireNotification(i))
    \/ Walk(MarkAllRead) \/ Walk(ListMessages) \/ Walk(ListNotifications)

AllSpec == AllInit /\ [][AllNext]_<<vars, rtVars, feedVars>>

(* The types of all three modules.                                         *)
TypesOK == TypeOK /\ RealtimeTypeOK /\ FeedsTypeOK
=============================================================================
