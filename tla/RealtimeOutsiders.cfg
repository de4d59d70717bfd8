SPECIFICATION RealtimeSpec
CONSTANTS
    Sockets = {"s1"}
    People = {"ann", "root"}
    Unrestricted = {"root"}
    SocketMixes <- MCChannelRoom
    NoOne = NoOne
PROPERTY MembersOnly
CHECK_DEADLOCK FALSE
