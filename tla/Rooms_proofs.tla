----------------------------- MODULE Rooms_proofs -----------------------------
(***************************************************************************)
(* Theorems about Channels, Realtime and Feeds, for every set of users,    *)
(* messages, requests and sockets, any number of items and any page size.  *)
(* The three modules share no variable; each theorem is about one of their *)
(* specifications, and the last ones put them side by side.                *)
(***************************************************************************)
EXTENDS MCRooms, FiniteSetTheorems, TLAPS

-----------------------------------------------------------------------------
(* Channels: what a request holds by each of its steps.                    *)

RequestOK(r) ==
    /\ r.step # "idle" => r.op # "none" /\ r.user \in Users
    /\ r.step = "taken" => r.op = "create"
    /\ r.op = "create" => r.step \in {"taken", "write"}
    /\ r.step = "message" => r.op \in {"edit", "delete"}
    /\ r.op \in {"edit", "delete"} => r.message \in Messages
    /\ r.op = "leave" /\ r.step = "write" => r.doc # 0

RequestsOK ==
    \A s \in Requests :
        /\ RequestOK(req[s])
        /\ req[s].step # "idle" /\ req[s].op # "create" => channel # "absent"
        /\ req[s].op \in {"edit", "delete"} => req[s].message \in Sent

SlotsOK == \A s \in Requests : req[s] # Idle => s \in mix.slots

(* A channel is created before anybody joins it, a message before it is    *)
(* deleted.                                                                *)
ThingsCreated ==
    /\ channel = "absent" => Members = {}
    /\ \A m \in Messages : deleted[m] => m \in Sent

TypeInv == TypeOK /\ RequestsOK /\ SlotsOK /\ ThingsCreated

LEMMA IdleOK == Idle \in Request /\ RequestOK(Idle) /\ Idle.step = "idle" /\ Idle.op = "none"
  BY DEF Idle, Request, RequestOK, Ops, Steps

LEMMA InitTypeInv == Init => TypeInv
<1> SUFFICES ASSUME Init PROVE TypeInv
  OBVIOUS
<1>1. TypeOK
  <2>1. \A u \in Users : doc[u] = 0
    BY DEF Init
  <2>2. \A u, v \in Users : doc[u] <= joins /\ (doc[u] = doc[v] /\ u # v => doc[u] = 0)
    BY <2>1 DEF Init
  <2>3. deleted \in [Messages -> BOOLEAN] /\ blank \in [Messages -> BOOLEAN]
    BY DEF Init
  <2>4. req \in [Requests -> Request]
    BY IdleOK DEF Init
  <2>5. /\ doc \in [Users -> Nat] /\ joins \in Nat /\ memberCount \in Int /\ messageCount \in Int
        /\ replyCount \in [Messages -> Int]
    BY DEF Init
  <2>6. /\ author \in [Messages -> Users \cup {Null}]
        /\ parent \in [Messages -> Messages \cup {Null}]
    BY DEF Init
  <2>7. channel \in {"absent", "active", "archived"} /\ private \in BOOLEAN /\ mix \in Mixes
    BY DEF Init
  <2> QED BY <2>2, <2>3, <2>4, <2>5, <2>6, <2>7 DEF TypeOK
<1>2. RequestsOK /\ SlotsOK
  BY IdleOK DEF Init, RequestsOK, SlotsOK
<1>3. ThingsCreated
  BY DEF Init, ThingsCreated, Members
<1> QED BY <1>1, <1>2, <1>3 DEF TypeInv

(* What a request may be replaced with.                                    *)
Allowed(q) ==
    /\ q \in Request /\ RequestOK(q)
    /\ q.step # "idle" /\ q.op # "create" => channel # "absent"
    /\ q.op \in {"edit", "delete"} => q.message \in Sent

LEMMA IdleAllowed == Allowed(Idle)
  BY IdleOK DEF Allowed

LEMMA RequestAllowed ==
    ASSUME TypeInv, NEW s \in Requests
    PROVE  Allowed(req[s])
  BY DEF TypeInv, TypeOK, RequestsOK, Allowed

(* The requests after one of them went on, whatever it wrote.              *)
LEMMA RequestsKept ==
    ASSUME TypeInv, NEW s \in Requests, NEW q, Allowed(q), Go(s, q),
           q # Idle => s \in mix.slots,
           channel # "absent" => channel' # "absent", Sent \subseteq Sent'
    PROVE  req' \in [Requests -> Request] /\ mix' \in Mixes /\ RequestsOK' /\ SlotsOK'
<1>1. /\ req \in [Requests -> Request] /\ mix \in Mixes /\ mix' = mix
      /\ req' = [req EXCEPT ![s] = q] /\ q \in Request
  BY DEF TypeInv, TypeOK, Go, Allowed
<1>2. ASSUME NEW t \in Requests
      PROVE  /\ RequestOK(req'[t])
             /\ req'[t].step # "idle" /\ req'[t].op # "create" => channel' # "absent"
             /\ req'[t].op \in {"edit", "delete"} => req'[t].message \in Sent'
             /\ req'[t] # Idle => t \in mix'.slots
  <2>1. CASE t = s
    BY <1>1, <2>1 DEF Allowed
  <2>2. CASE t # s
    BY <1>1, <2>2 DEF TypeInv, RequestsOK, SlotsOK
  <2> QED BY <2>1, <2>2
<1> QED BY <1>1, <1>2 DEF RequestsOK, SlotsOK, RequestOK

LEMMA DatabaseKept ==
    ASSUME TypeInv, NEW s \in Requests, NEW q, Allowed(q), Go(s, q),
           q # Idle => s \in mix.slots,
           UNCHANGED <<channel, private, roster, thread>>
    PROVE  TypeInv'
<1>1. Sent' = Sent /\ Members' = Members /\ channel' = channel
  BY DEF Sent, Members, roster, thread
<1>2. req' \in [Requests -> Request] /\ mix' \in Mixes /\ RequestsOK' /\ SlotsOK'
  BY <1>1, RequestsKept
<1>3. TypeOK'
  BY <1>2 DEF TypeInv, TypeOK, roster, thread
<1>4. ThingsCreated'
  BY <1>1 DEF TypeInv, ThingsCreated, thread
<1> QED BY <1>2, <1>3, <1>4 DEF TypeInv

LEMMA StartTypeInv ==
    ASSUME TypeInv, NEW s \in Requests, Start(s)
    PROVE  TypeInv'
<1>1. ASSUME NEW q, Allowed(q), Begin(s, q) PROVE TypeInv'
  BY <1>1, DatabaseKept DEF Begin
<1>2. CASE StartCreate(s)
  <2>1. PICK u \in Users, p \in BOOLEAN :
           Begin(s, [Idle EXCEPT !.op = "create", !.step = "taken", !.user = u, !.private = p])
    BY <1>2 DEF StartCreate
  <2>2. Allowed([Idle EXCEPT !.op = "create", !.step = "taken", !.user = u, !.private = p])
    BY DEF Allowed, Request, RequestOK, Idle, Ops, Steps
  <2> QED BY <1>1, <2>1, <2>2
<1>3. CASE StartOnChannel(s)
  <2>1. /\ channel # "absent"
        /\ \E u \in Users :
              \/ \E op \in {"archive", "join", "leave"} :
                    Begin(s, [Idle EXCEPT !.op = op, !.step = "channel", !.user = u])
              \/ \E p \in BOOLEAN :
                    Begin(s, [Idle EXCEPT !.op = "update", !.step = "channel", !.user = u,
                                          !.private = p])
              \/ \E m \in Sent \cup {Null} :
                    Begin(s, [Idle EXCEPT !.op = "send", !.step = "channel", !.user = u,
                                          !.message = m])
              \/ \E m \in Sent, op \in {"edit", "delete"} :
                    Begin(s, [Idle EXCEPT !.op = op, !.step = "channel", !.user = u,
                                          !.message = m])
    BY <1>3 DEF StartOnChannel
  <2>2. PICK u \in Users :
              \/ \E op \in {"archive", "join", "leave"} :
                    Begin(s, [Idle EXCEPT !.op = op, !.step = "channel", !.user = u])
              \/ \E p \in BOOLEAN :
                    Begin(s, [Idle EXCEPT !.op = "update", !.step = "channel", !.user = u,
                                          !.private = p])
              \/ \E m \in Sent \cup {Null} :
                    Begin(s, [Idle EXCEPT !.op = "send", !.step = "channel", !.user = u,
                                          !.message = m])
              \/ \E m \in Sent, op \in {"edit", "delete"} :
                    Begin(s, [Idle EXCEPT !.op = op, !.step = "channel", !.user = u,
                                          !.message = m])
    BY <2>1
  <2>3. \A op \in {"archive", "join", "leave"} :
           Allowed([Idle EXCEPT !.op = op, !.step = "channel", !.user = u])
    BY <2>1 DEF Allowed, Request, RequestOK, Idle, Ops, Steps
  <2>4. \A p \in BOOLEAN :
           Allowed([Idle EXCEPT !.op = "update", !.step = "channel", !.user = u, !.private = p])
    BY <2>1 DEF Allowed, Request, RequestOK, Idle, Ops, Steps
  <2>5. \A m \in Sent \cup {Null} :
           Allowed([Idle EXCEPT !.op = "send", !.step = "channel", !.user = u, !.message = m])
    BY <2>1 DEF Allowed, Request, RequestOK, Idle, Ops, Steps, Sent
  <2>6. ASSUME NEW m \in Sent, NEW op \in {"edit", "delete"}
        PROVE  Allowed([Idle EXCEPT !.op = op, !.step = "channel", !.user = u, !.message = m])
    <3> DEFINE q == [Idle EXCEPT !.op = op, !.step = "channel", !.user = u, !.message = m]
    <3>1. m \in Messages /\ op # "create"
      BY DEF Sent
    <3>2. /\ q.op = op /\ q.message = m /\ q.step = "channel" /\ q.user = u /\ q.doc = 0
          /\ q.private = FALSE
          /\ q \in Request
      BY <3>1 DEF Idle, Request, Ops, Steps
    <3> QED BY <2>1, <3>1, <3>2 DEF Allowed, RequestOK
  <2> QED BY <1>1, <2>2, <2>3, <2>4, <2>5, <2>6
<1> QED BY <1>2, <1>3 DEF Start

LEMMA ReadTypeInv ==
    ASSUME TypeInv, NEW s \in Requests, Read(s)
    PROVE  TypeInv'
<1> DEFINE r == req[s]
<1>0. /\ Allowed(r) /\ r \in Request /\ RequestOK(r)
      /\ doc \in [Users -> Nat]
      /\ r # Idle => s \in mix.slots
  BY RequestAllowed DEF Allowed, TypeInv, TypeOK, SlotsOK
<1>1. ASSUME NEW q, Allowed(q), Advance(s, q), r.step # "idle" PROVE TypeInv'
  <2>1. r # Idle
    BY <1>1, IdleOK
  <2> QED BY <1>0, <1>1, <2>1, DatabaseKept DEF Advance
<1>2. ASSUME Refuse(s), r.step # "idle" PROVE TypeInv'
  BY <1>1, <1>2, IdleAllowed DEF Refuse
<1>3. CASE CheckTaken(s)
  <2> DEFINE q == [r EXCEPT !.step = "write"]
  <2>1. r.step = "taken" /\ Advance(s, IF channel = "absent" THEN q ELSE Idle)
    BY <1>3 DEF CheckTaken
  <2>2. Allowed(q)
    BY <1>0, <2>1 DEF Allowed, Request, RequestOK, Steps
  <2> QED BY <1>1, <2>1, <2>2, IdleAllowed
<1>4. CASE LoadChannel(s)
  <2> DEFINE q == [r EXCEPT !.step = IF r.op = "archive" THEN "write" ELSE "member"]
  <2>1. r.step = "channel" /\ (Refuse(s) \/ Advance(s, q))
    BY <1>4 DEF LoadChannel
  <2>2. Allowed(q)
    BY <1>0, <2>1 DEF Allowed, Request, RequestOK, Steps
  <2> QED BY <1>1, <1>2, <2>1, <2>2
<1>5. CASE FindMember(s)
  <2> DEFINE n == IF r.op \in {"edit", "delete"} THEN "message" ELSE "write"
             q == [r EXCEPT !.step = n, !.doc = doc[r.user]]
  <2>1. /\ r.step = "member"
        /\ \/ Refuse(s)
           \/ r.op # "join" /\ r.user \in Members /\ Advance(s, q)
           \/ r.op = "join" /\ Advance(s, q)
    BY <1>5 DEF FindMember
  <2>2. r.op = "join" \/ r.user \in Members => Allowed(q)
    <3>1. doc[r.user] \in Nat /\ (r.user \in Members => doc[r.user] # 0)
      BY <1>0, <2>1 DEF RequestOK, Members
    <3> QED BY <1>0, <2>1, <3>1 DEF Allowed, Request, RequestOK, Steps
  <2> QED BY <1>1, <1>2, <2>1, <2>2
<1>6. CASE LoadOwnMessage(s)
  <2> DEFINE q == [r EXCEPT !.step = "write"]
  <2>1. r.step = "message" /\ (Refuse(s) \/ Advance(s, q))
    BY <1>6 DEF LoadOwnMessage
  <2>2. Allowed(q)
    BY <1>0, <2>1 DEF Allowed, Request, RequestOK, Steps
  <2> QED BY <1>1, <1>2, <2>1, <2>2
<1> QED BY <1>3, <1>4, <1>5, <1>6 DEF Read

(* What the two writes of a member document do to the set of members.      *)
RosterOK ==
    /\ doc \in [Users -> Nat] /\ joins \in Nat
    /\ \A u, v \in Users : doc[u] <= joins /\ (doc[u] = doc[v] /\ u # v => doc[u] = 0)

LEMMA MemberAdded ==
    ASSUME RosterOK, NEW u \in Users, NewMember(u)
    PROVE  RosterOK' /\ Members' = Members \cup {u}
  BY DEF RosterOK, NewMember, Members

LEMMA MemberDropped ==
    ASSUME RosterOK, NEW u \in Users, NEW d \in Nat, d # 0, joins' = joins,
           doc' = [doc EXCEPT ![u] = IF @ = d THEN 0 ELSE @]
    PROVE  RosterOK' /\ Members' = IF doc[u] = d THEN Members \ {u} ELSE Members
  BY DEF RosterOK, Members

(* What sending and deleting do to the messages shown and to the replies.  *)
LEMMA MessageSent ==
    ASSUME TypeInv, NEW n \in Messages \ Sent, NEW u \in Users, NEW p,
           author' = [author EXCEPT ![n] = u], parent' = [parent EXCEPT ![n] = p],
           deleted' = deleted
    PROVE  /\ Sent' = Sent \cup {n}
           /\ Shown' = Shown \cup {n} /\ n \notin Shown
           /\ \A k : Replies(k)' = IF k = p THEN Replies(k) \cup {n} ELSE Replies(k)
           /\ \A k : n \notin Replies(k)
<1>1. /\ author \in [Messages -> Users \cup {Null}]
      /\ parent \in [Messages -> Messages \cup {Null}]
      /\ u # Null /\ ~deleted[n]
  BY ChannelsAssumption DEF TypeInv, TypeOK, ThingsCreated
<1>2. Sent' = Sent \cup {n} /\ Shown' = Shown \cup {n} /\ n \notin Shown
  BY <1>1 DEF Sent, Shown
<1> QED BY <1>1, <1>2 DEF Replies

LEMMA MessageDeleted ==
    ASSUME TypeInv, NEW m \in Sent, author' = author, parent' = parent,
           deleted' = [deleted EXCEPT ![m] = TRUE]
    PROVE  /\ Sent' = Sent
           /\ Shown' = Shown \ {m}
           /\ \A k : Replies(k)' = Replies(k) \ {m}
<1>1. deleted \in [Messages -> BOOLEAN] /\ m \in Messages
  BY DEF TypeInv, TypeOK, Sent
<1>2. \A n \in Messages : deleted'[n] <=> deleted[n] \/ n = m
  BY <1>1
<1>3. Sent' = Sent
  BY DEF Sent
<1>4. Shown' = Shown \ {m}
  <2>1. \A n \in Sent : n \in Messages
    BY DEF Sent
  <2> QED BY <1>2, <1>3, <2>1 DEF Shown
<1>5. ASSUME NEW k PROVE Replies(k)' = Replies(k) \ {m}
  BY <1>4 DEF Replies
<1> QED BY <1>3, <1>4, <1>5

LEMMA RosterTyped == TypeInv => RosterOK
  BY DEF TypeInv, TypeOK, RosterOK

(* Each write by what it does to the channel, the roster and the thread.   *)
LEMMA ChannelWriteTypeInv ==
    ASSUME TypeInv, NEW s \in Requests,
           CreateChannel(s) \/ UpdateChannel(s) \/ ArchiveChannel(s)
    PROVE  TypeInv'
<1> DEFINE r == req[s]
<1>0. /\ Allowed(r) /\ r.private \in BOOLEAN /\ RosterOK
      /\ r.step = "write" => r.user \in Users
  BY RequestAllowed, RosterTyped DEF Allowed, Request, RequestOK
<1>1. /\ r.step = "write" /\ Go(s, Idle) /\ UNCHANGED thread
      /\ \/ channel' \in {"active", "archived"}
         \/ channel' = channel /\ r.op = "update"
  BY DEF CreateChannel, UpdateChannel, ArchiveChannel, Writing
<1>2. channel' # "absent" /\ channel' \in {"absent", "active", "archived"}
  BY <1>0, <1>1 DEF Allowed, TypeInv, TypeOK
<1>3. Sent' = Sent
  BY <1>1 DEF Sent, thread
<1>4. req' \in [Requests -> Request] /\ mix' \in Mixes /\ RequestsOK' /\ SlotsOK'
  BY <1>1, <1>2, <1>3, IdleAllowed, RequestsKept
<1>5. RosterOK' /\ private' \in BOOLEAN /\ memberCount' \in Int
  <2>1. CASE CreateChannel(s)
    BY <1>0, <2>1, MemberAdded DEF CreateChannel, Writing
  <2>2. CASE UpdateChannel(s) \/ ArchiveChannel(s)
    BY <1>0, <2>2 DEF UpdateChannel, ArchiveChannel, roster, RosterOK, TypeInv, TypeOK
  <2> QED BY <2>1, <2>2
<1>6. TypeOK'
  BY <1>1, <1>2, <1>4, <1>5 DEF TypeInv, TypeOK, RosterOK, thread
<1>7. ThingsCreated'
  BY <1>1, <1>2, <1>3 DEF TypeInv, ThingsCreated, thread
<1> QED BY <1>4, <1>6, <1>7 DEF TypeInv

LEMMA RosterWriteTypeInv ==
    ASSUME TypeInv, NEW s \in Requests, JoinChannel(s) \/ LeaveChannel(s)
    PROVE  TypeInv'
<1> DEFINE r == req[s]
<1>0. /\ Allowed(r) /\ r.doc \in Nat /\ RosterOK /\ memberCount \in Int
      /\ r.step = "write" => r.user \in Users
      /\ r.step = "write" /\ r.op = "leave" => r.doc # 0
  BY RequestAllowed, RosterTyped DEF Allowed, Request, RequestOK, TypeInv, TypeOK
<1>1. /\ r.step = "write" /\ r.op \in {"join", "leave"} /\ Go(s, Idle)
      /\ UNCHANGED <<channel, private, thread>>
  BY DEF JoinChannel, LeaveChannel, Writing
<1>2. channel' # "absent" /\ channel # "absent"
  BY <1>0, <1>1 DEF Allowed
<1>3. Sent' = Sent
  BY <1>1 DEF Sent, thread
<1>4. req' \in [Requests -> Request] /\ mix' \in Mixes /\ RequestsOK' /\ SlotsOK'
  BY <1>1, <1>2, <1>3, IdleAllowed, RequestsKept
<1>5. RosterOK' /\ memberCount' \in Int
  <2>1. CASE JoinChannel(s)
    BY <1>0, <1>1, <2>1, MemberAdded DEF JoinChannel
  <2>2. CASE LeaveChannel(s)
    <3>1. r.op = "leave" /\ joins' = joins /\ memberCount' = memberCount - 1
      BY <2>2 DEF LeaveChannel, Writing
    <3>2. doc' = [doc EXCEPT ![r.user] = IF @ = r.doc THEN 0 ELSE @]
      BY <2>2 DEF LeaveChannel
    <3>3. RosterOK'
      <4>1. r.user \in Users /\ r.doc \in Nat /\ r.doc # 0
        BY <1>0, <1>1, <3>1
      <4> HIDE DEF r
      <4> QED BY <1>0, <3>1, <3>2, <4>1, MemberDropped
    <3> QED BY <1>0, <3>1, <3>3
  <2> QED BY <2>1, <2>2
<1>6. TypeOK'
  BY <1>1, <1>2, <1>4, <1>5 DEF TypeInv, TypeOK, RosterOK, thread
<1>7. ThingsCreated'
  BY <1>1, <1>2, <1>3 DEF TypeInv, ThingsCreated, thread
<1> QED BY <1>4, <1>6, <1>7 DEF TypeInv

LEMMA ThreadWriteTypeInv ==
    ASSUME TypeInv, NEW s \in Requests, SendMessage(s) \/ EditMessage(s) \/ DeleteMessage(s)
    PROVE  TypeInv'
<1> DEFINE r == req[s]
           m == r.message
<1>0. /\ Allowed(r) /\ RosterOK
      /\ r.step = "write" => r.user \in Users
      /\ m \in Messages \cup {Null}
      /\ r.op \in {"edit", "delete"} => m \in Sent
      /\ messageCount \in Int /\ replyCount \in [Messages -> Int]
      /\ author \in [Messages -> Users \cup {Null}]
      /\ parent \in [Messages -> Messages \cup {Null}]
  BY RequestAllowed, RosterTyped DEF Allowed, Request, RequestOK, TypeInv, TypeOK
<1>a. deleted \in [Messages -> BOOLEAN] /\ blank \in [Messages -> BOOLEAN]
  BY DEF TypeInv, TypeOK
<1>1. /\ r.step = "write" /\ r.op \in {"send", "edit", "delete"} /\ Go(s, Idle)
      /\ UNCHANGED <<channel, private, roster>>
  BY DEF SendMessage, EditMessage, DeleteMessage, Writing
<1>2. channel' # "absent" /\ channel # "absent"
  BY <1>0, <1>1 DEF Allowed
<1>3. ASSUME Sent \subseteq Sent'
      PROVE  req' \in [Requests -> Request] /\ mix' \in Mixes /\ RequestsOK' /\ SlotsOK'
  BY <1>1, <1>2, <1>3, IdleAllowed, RequestsKept
<1>4. RosterOK' /\ memberCount' \in Int /\ private' \in BOOLEAN
      /\ channel' \in {"absent", "active", "archived"}
  BY <1>0, <1>1 DEF RosterOK, roster, TypeInv, TypeOK
<1>5. ASSUME NEW k, NEW n \in Int, Counted(k, n) PROVE replyCount' \in [Messages -> Int]
  BY <1>0, <1>5 DEF Counted
<1>6. ASSUME Sent \subseteq Sent', author' \in [Messages -> Users \cup {Null}],
             parent' \in [Messages -> Messages \cup {Null}],
             deleted' \in [Messages -> BOOLEAN], blank' \in [Messages -> BOOLEAN],
             messageCount' \in Int, replyCount' \in [Messages -> Int],
             \A k \in Messages : deleted'[k] => k \in Sent'
      PROVE  TypeInv'
  <2>1. TypeOK'
    BY <1>3, <1>4, <1>6 DEF TypeOK, RosterOK
  <2>2. ThingsCreated'
    BY <1>2, <1>6 DEF ThingsCreated
  <2> QED BY <1>3, <1>6, <2>1, <2>2 DEF TypeInv
<1>7. CASE SendMessage(s)
  <2>1. PICK n \in Messages \ Sent :
           author' = [author EXCEPT ![n] = r.user] /\ parent' = [parent EXCEPT ![n] = m]
    BY <1>7 DEF SendMessage
  <2>2. /\ messageCount' = messageCount + 1 /\ Counted(m, 1)
        /\ deleted' = deleted /\ blank' = blank
    BY <1>7 DEF SendMessage
  <2>3. Sent' = Sent \cup {n}
    BY <1>0, <1>1, <2>1, <2>2, MessageSent
  <2>4. \A k \in Messages : deleted'[k] => k \in Sent'
    BY <2>2, <2>3 DEF TypeInv, ThingsCreated
  <2> QED BY <1>0, <1>a, <1>1, <1>5, <1>6, <2>1, <2>2, <2>3, <2>4
<1>8. CASE EditMessage(s)
  <2>1. PICK changed \in BOOLEAN : blank' = [blank EXCEPT ![m] = @ /\ ~changed]
    BY <1>8 DEF EditMessage
  <2>2. UNCHANGED <<messageCount, author, parent, deleted, replyCount>>
    BY <1>8 DEF EditMessage
  <2>3. blank' \in [Messages -> BOOLEAN]
    BY <1>a, <2>1
  <2>4. Sent' = Sent
    BY <2>2 DEF Sent
  <2>5. \A k \in Messages : deleted'[k] => k \in Sent'
    BY <2>2, <2>4 DEF TypeInv, ThingsCreated
  <2> QED BY <1>0, <1>a, <1>6, <2>2, <2>3, <2>4, <2>5
<1>9. CASE DeleteMessage(s)
  <2>1. /\ deleted' = [deleted EXCEPT ![m] = TRUE] /\ blank' = [blank EXCEPT ![m] = TRUE]
        /\ messageCount' = messageCount - 1 /\ Counted(parent[m], -1)
        /\ author' = author /\ parent' = parent
        /\ r.op = "delete"
    BY <1>9 DEF DeleteMessage, Writing
  <2>2. Sent' = Sent
    BY <2>1 DEF Sent
  <2>3. deleted' \in [Messages -> BOOLEAN] /\ blank' \in [Messages -> BOOLEAN]
    BY <1>a, <2>1
  <2>4. \A k \in Messages : deleted'[k] => k \in Sent'
    BY <1>0, <2>1, <2>2 DEF TypeInv, ThingsCreated
  <2> QED BY <1>0, <1>5, <1>6, <2>1, <2>2, <2>3, <2>4
<1> QED BY <1>7, <1>8, <1>9

LEMMA RefusedTypeInv ==
    ASSUME TypeInv, NEW s \in Requests, Refuse(s)
    PROVE  TypeInv'
  BY IdleAllowed, DatabaseKept DEF Refuse, Advance

LEMMA NextTypeInv == TypeInv /\ [Next]_vars => TypeInv'
<1> SUFFICES ASSUME TypeInv, [Next]_vars PROVE TypeInv'
  OBVIOUS
<1>1. CASE UNCHANGED vars
  <2>1. Sent' = Sent /\ Members' = Members
    BY <1>1 DEF vars, roster, thread, Sent, Members
  <2> QED BY <1>1, <2>1 DEF vars, roster, thread, TypeInv, TypeOK, RequestsOK, SlotsOK, ThingsCreated
<1>2. ASSUME NEW s \in Requests, Write(s) PROVE TypeInv'
  <2>1. \/ CreateChannel(s) \/ UpdateChannel(s) \/ ArchiveChannel(s)
        \/ JoinChannel(s) \/ LeaveChannel(s)
        \/ SendMessage(s) \/ EditMessage(s) \/ DeleteMessage(s)
        \/ Refuse(s)
    BY <1>2 DEF Write, CreateDuplicate, JoinDuplicate
  <2> QED BY <2>1, ChannelWriteTypeInv, RosterWriteTypeInv, ThreadWriteTypeInv, RefusedTypeInv
<1> QED BY <1>1, <1>2, StartTypeInv, ReadTypeInv DEF Next

(* Every reachable state of the channel is of the declared types, nobody   *)
(* belongs to a channel that is not there, and no message is deleted that  *)
(* was not sent.                                                           *)
THEOREM ChannelTypes == Spec => []TypeInv
<1> QED BY InitTypeInv, NextTypeInv, PTL DEF Spec

-----------------------------------------------------------------------------
(* Channels: the counters, what a private channel lets in and what is left *)
(* of a deleted message.                                                   *)

(* Of a request that runs alone, what it found before is still so: the     *)
(* member document of a leave, the membership behind a send, the refusal   *)
(* of private channels, the message not deleted.                           *)
Current(r) ==
    /\ r.step = "write" /\ r.op = "leave" => doc[r.user] = r.doc
    /\ r.step = "write" /\ r.op = "send" => r.user \in Members
    /\ r.step = "write" /\ r.op \in {"edit", "delete"} => ~deleted[r.message]
    /\ r.step \in {"member", "write"} /\ r.op = "join" => ~private \/ r.user = Root

AllCurrent == \A s \in Requests : Current(req[s])

ChannelInv ==
    /\ TypeInv
    /\ CountersHonest
    /\ OneAtATime => AllCurrent
    /\ DeletedSaysNothing

LEMMA IdleCurrent == Current(Idle)
  BY DEF Current, Idle

(* A counter that never exceeds what it counts, and is exact while         *)
(* requests do not overlap.                                                *)
Right(c, S) == c <= Cardinality(S) /\ (OneAtATime => c = Cardinality(S))

LEMMA CountersRight ==
    CountersHonest <=> /\ Right(memberCount, Members)
                       /\ Right(messageCount, Shown)
                       /\ \A m \in Messages : Right(replyCount[m], Replies(m))
  BY DEF CountersHonest, Right

LEMMA CountedFinite ==
    IsFiniteSet(Members) /\ IsFiniteSet(Shown) /\ \A m : IsFiniteSet(Replies(m))
<1>1. Members \in SUBSET Users /\ Shown \in SUBSET Messages
  BY DEF Members, Shown, Sent
<1>2. IsFiniteSet(Members) /\ IsFiniteSet(Shown)
  BY <1>1, FS_Subset, ChannelsAssumption
<1>3. ASSUME NEW m PROVE IsFiniteSet(Replies(m))
  <2>1. Replies(m) \in SUBSET Shown
    BY DEF Replies
  <2> QED BY <1>2, <2>1, FS_Subset
<1> QED BY <1>2, <1>3

LEMMA CountedUp ==
    ASSUME NEW S, IsFiniteSet(S), NEW c \in Int, Right(c, S), NEW x, x \notin S
    PROVE  Right(c + 1, S \cup {x})
<1>1. Cardinality(S) \in Nat
  BY FS_CardinalityType
<1>2. Cardinality(S \cup {x}) = Cardinality(S) + 1
  BY FS_AddElement
<1> QED BY <1>1, <1>2 DEF Right

LEMMA CountedDown ==
    ASSUME NEW S, IsFiniteSet(S), NEW c \in Int, Right(c, S), NEW x, OneAtATime => x \in S
    PROVE  Right(c - 1, S \ {x})
<1>1. Cardinality(S) \in Nat
  BY FS_CardinalityType
<1>2. Cardinality(S \ {x}) = IF x \in S THEN Cardinality(S) - 1 ELSE Cardinality(S)
  BY FS_RemoveElement
<1> QED BY <1>1, <1>2 DEF Right

LEMMA MixKept == [Next]_vars => mix' = mix
<1>1. ASSUME NEW s \in Requests, Start(s) PROVE mix' = mix
  BY <1>1 DEF Start, StartCreate, StartOnChannel, Begin, Go
<1>2. ASSUME NEW s \in Requests, Read(s) PROVE mix' = mix
  BY <1>2 DEF Read, CheckTaken, LoadChannel, FindMember, LoadOwnMessage, Advance, Refuse, Go
<1>3. ASSUME NEW s \in Requests, Write(s) PROVE mix' = mix
  BY <1>3 DEF Write, CreateChannel, CreateDuplicate, UpdateChannel, ArchiveChannel,
              JoinChannel, JoinDuplicate, LeaveChannel, SendMessage, EditMessage, DeleteMessage,
              Advance, Refuse, Go
<1> QED BY <1>1, <1>2, <1>3 DEF Next, vars

LEMMA InitChannelInv == Init => ChannelInv
<1> SUFFICES ASSUME Init PROVE ChannelInv
  OBVIOUS
<1>1. AllCurrent
  BY IdleCurrent DEF Init, AllCurrent
<1>2. DeletedSaysNothing
  BY DEF Init, DeletedSaysNothing
<1>3. Members = {} /\ Shown = {} /\ \A m : Replies(m) = {}
  BY DEF Init, Members, Shown, Sent, Replies
<1>4. Cardinality({}) = 0
  BY FS_EmptySet
<1>5. Right(0, {})
  BY <1>4 DEF Right
<1>6. memberCount = 0 /\ messageCount = 0 /\ \A m \in Messages : replyCount[m] = 0
  BY DEF Init
<1>7. CountersHonest
  BY <1>3, <1>5, <1>6, CountersRight
<1> QED BY <1>1, <1>2, <1>7, InitTypeInv DEF ChannelInv

(* While requests do not overlap the others are idle, so that only the one *)
(* that goes on has anything to lose.                                      *)
LEMMA CurrentKept ==
    ASSUME TypeInv, NEW s \in Requests, NEW q, Go(s, q), s \in mix.slots, OneAtATime,
           Current(q)'
    PROVE  AllCurrent'
<1>1. req \in [Requests -> Request] /\ req' = [req EXCEPT ![s] = q]
  BY DEF TypeInv, TypeOK, Go
<1>2. ASSUME NEW t \in Requests, t # s PROVE req'[t] = Idle
  <2>1. req[t] = Idle
    BY <1>2 DEF TypeInv, SlotsOK, OneAtATime
  <2> QED BY <1>1, <1>2, <2>1
<1>3. Current(Idle)'
  BY DEF Current, Idle
<1>4. ASSUME NEW t \in Requests PROVE Current(req[t])'
  <2>1. CASE t = s
    BY <1>1, <2>1
  <2>2. CASE t # s
    BY <1>2, <1>3, <2>2
  <2> QED BY <2>1, <2>2
<1> QED BY <1>4 DEF AllCurrent

LEMMA CountersKept ==
    ASSUME CountersHonest, UNCHANGED <<roster, thread, mix>>
    PROVE  CountersHonest'
<1>1. /\ Members' = Members /\ Shown' = Shown /\ \A m : Replies(m)' = Replies(m)
      /\ OneAtATime' = OneAtATime
  BY DEF roster, thread, Members, Shown, Sent, Replies, OneAtATime
<1> QED BY <1>1 DEF CountersHonest, roster, thread

(* A step that leaves channel, roster and thread alone.                    *)
LEMMA DatabaseKeptCurrent ==
    ASSUME ChannelInv, TypeInv', NEW s \in Requests, s \in mix.slots, NEW q, Go(s, q),
           UNCHANGED <<channel, private, roster, thread>>, OneAtATime => Current(q)
    PROVE  ChannelInv'
<1>1. mix' = mix /\ OneAtATime' = OneAtATime
  BY DEF Go, OneAtATime
<1>2. CountersHonest'
  BY <1>1, CountersKept DEF ChannelInv
<1>3. OneAtATime => AllCurrent'
  <2> SUFFICES ASSUME OneAtATime PROVE AllCurrent'
    OBVIOUS
  <2>1. Current(q)'
    BY DEF Current, Members, roster, thread
  <2> QED BY <2>1, CurrentKept DEF ChannelInv
<1>4. DeletedSaysNothing'
  BY <1>1 DEF ChannelInv, DeletedSaysNothing, thread
<1> QED BY <1>1, <1>2, <1>3, <1>4 DEF ChannelInv

LEMMA StartChannelInv ==
    ASSUME ChannelInv, NEW s \in Requests, Start(s)
    PROVE  ChannelInv'
<1>1. TypeInv'
  BY StartTypeInv DEF ChannelInv
<1>2. ASSUME NEW q, Begin(s, q), q.step \in {"taken", "channel"} PROVE ChannelInv'
  <2>1. Current(q)
    BY <1>2 DEF Current
  <2> QED BY <1>1, <1>2, <2>1, DatabaseKeptCurrent DEF Begin
<1>3. CASE StartCreate(s)
  <2>1. PICK u \in Users, p \in BOOLEAN :
           Begin(s, [Idle EXCEPT !.op = "create", !.step = "taken", !.user = u, !.private = p])
    BY <1>3 DEF StartCreate
  <2>2. [Idle EXCEPT !.op = "create", !.step = "taken", !.user = u, !.private = p].step = "taken"
    BY DEF Idle
  <2> QED BY <1>2, <2>1, <2>2
<1>4. CASE StartOnChannel(s)
  <2>1. \A u, m, p, op :
           /\ [Idle EXCEPT !.op = op, !.step = "channel", !.user = u].step = "channel"
           /\ [Idle EXCEPT !.op = "update", !.step = "channel", !.user = u,
                           !.private = p].step = "channel"
           /\ [Idle EXCEPT !.op = "send", !.step = "channel", !.user = u,
                           !.message = m].step = "channel"
           /\ [Idle EXCEPT !.op = op, !.step = "channel", !.user = u,
                           !.message = m].step = "channel"
    BY DEF Idle
  <2> QED BY <1>2, <1>4, <2>1, Zenon DEF StartOnChannel
<1> QED BY <1>3, <1>4 DEF Start

LEMMA ReadChannelInv ==
    ASSUME ChannelInv, NEW s \in Requests, Read(s)
    PROVE  ChannelInv'
<1> DEFINE r == req[s]
<1>0. /\ TypeInv /\ TypeInv' /\ r \in Request /\ RequestOK(r)
      /\ OneAtATime => Current(r)
      /\ r # Idle => s \in mix.slots
  BY ReadTypeInv DEF ChannelInv, AllCurrent, TypeInv, TypeOK, RequestsOK, SlotsOK
<1>1. ASSUME NEW q, Advance(s, q), r.step # "idle", OneAtATime => Current(q)
      PROVE  ChannelInv'
  <2>1. s \in mix.slots
    BY <1>0, <1>1, IdleOK
  <2> QED BY <1>0, <1>1, <2>1, DatabaseKeptCurrent DEF Advance
<1>2. ASSUME Refuse(s), r.step # "idle" PROVE ChannelInv'
  BY <1>1, <1>2, IdleCurrent DEF Refuse
<1>3. CASE CheckTaken(s)
  <2> DEFINE q == [r EXCEPT !.step = "write"]
  <2>1. r.step = "taken" /\ Advance(s, IF channel = "absent" THEN q ELSE Idle)
    BY <1>3 DEF CheckTaken
  <2>2. q.op = "create"
    BY <1>0, <2>1 DEF Request, RequestOK
  <2>3. Current(q)
    BY <2>2 DEF Current
  <2> QED BY <1>1, <2>1, <2>3, IdleCurrent
<1>4. CASE LoadChannel(s)
  <2> DEFINE q == [r EXCEPT !.step = IF r.op = "archive" THEN "write" ELSE "member"]
  <2>1. /\ r.step = "channel"
        /\ \/ Refuse(s)
           \/ ~(r.op = "join" /\ private /\ r.user # Root) /\ Advance(s, q)
    BY <1>4 DEF LoadChannel
  <2>2. ~(r.op = "join" /\ private /\ r.user # Root) => Current(q)
    BY <1>0, <2>1 DEF Current, Request
  <2> QED BY <1>1, <1>2, <2>1, <2>2
<1>5. CASE FindMember(s)
  <2> DEFINE n == IF r.op \in {"edit", "delete"} THEN "message" ELSE "write"
             q == [r EXCEPT !.step = n, !.doc = doc[r.user]]
  <2>1. /\ r.step = "member"
        /\ \/ Refuse(s)
           \/ r.op # "join" /\ r.user \in Members /\ Advance(s, q)
           \/ r.op = "join" /\ Advance(s, q)
    BY <1>5 DEF FindMember
  <2>2. ASSUME OneAtATime, r.op = "join" \/ r.user \in Members PROVE Current(q)
    BY <1>0, <2>1, <2>2 DEF Current, Request
  <2> QED BY <1>1, <1>2, <2>1, <2>2
<1>6. CASE LoadOwnMessage(s)
  <2> DEFINE q == [r EXCEPT !.step = "write"]
  <2>1. /\ r.step = "message"
        /\ Refuse(s) \/ (~deleted[r.message] /\ Advance(s, q))
    BY <1>6 DEF LoadOwnMessage
  <2>2. ~deleted[r.message] => Current(q)
    BY <1>0, <2>1 DEF Current, Request, RequestOK
  <2> QED BY <1>1, <1>2, <2>1, <2>2
<1> QED BY <1>3, <1>4, <1>5, <1>6 DEF Read

(* What a write needs to show besides the counters.                        *)
LEMMA WrittenChannelInv ==
    ASSUME ChannelInv, TypeInv', NEW s \in Requests, req[s].step = "write", Go(s, Idle),
           CountersHonest', DeletedSaysNothing'
    PROVE  ChannelInv'
<1>1. s \in mix.slots
  BY IdleOK DEF ChannelInv, TypeInv, SlotsOK
<1>2. OneAtATime' = OneAtATime
  BY DEF Go, OneAtATime
<1>3. Current(Idle)'
  BY DEF Current, Idle
<1>4. OneAtATime => AllCurrent'
  BY <1>1, <1>3, CurrentKept DEF ChannelInv
<1> QED BY <1>2, <1>4 DEF ChannelInv

LEMMA ChannelWriteChannelInv ==
    ASSUME ChannelInv, NEW s \in Requests,
           CreateChannel(s) \/ UpdateChannel(s) \/ ArchiveChannel(s)
    PROVE  ChannelInv'
<1> DEFINE r == req[s]
<1>1. r.step = "write" /\ Go(s, Idle) /\ UNCHANGED <<thread, mix>>
  BY DEF CreateChannel, UpdateChannel, ArchiveChannel, Writing, Go
<1>2. TypeInv /\ TypeInv' /\ CountersHonest /\ RosterOK
  BY ChannelWriteTypeInv, RosterTyped DEF ChannelInv
<1>3. OneAtATime' = OneAtATime
  BY <1>1 DEF OneAtATime
<1>4. DeletedSaysNothing'
  BY <1>1, <1>3 DEF ChannelInv, DeletedSaysNothing, thread
<1>5. CASE CreateChannel(s)
  <2>1. /\ r.user \in Users /\ NewMember(r.user) /\ memberCount' = 1
        /\ channel = "absent"
    BY <1>1, <1>2, <1>5 DEF CreateChannel, TypeInv, RequestsOK, RequestOK
  <2>2. Members = {}
    BY <1>2, <2>1 DEF TypeInv, ThingsCreated
  <2>3. Members' = {r.user}
    BY <1>2, <2>1, <2>2, MemberAdded
  <2>4. Cardinality({r.user}) = 1
    BY FS_Singleton
  <2>5. Right(memberCount', Members')
    BY <2>1, <2>3, <2>4 DEF Right
  <2>6. Shown' = Shown /\ \A m : Replies(m)' = Replies(m)
    BY <1>1 DEF thread, Shown, Sent, Replies
  <2>7. CountersHonest'
    <3>1. messageCount' = messageCount /\ replyCount' = replyCount
      BY <1>1 DEF thread
    <3>2. /\ Right(messageCount', Shown')
          /\ \A m \in Messages : Right(replyCount'[m], Replies(m)')
      BY <1>2, <2>6, <3>1, CountersRight
    <3> QED BY <1>3, <2>5, <3>2 DEF CountersHonest, Right
  <2> QED BY <1>1, <1>2, <1>4, <2>7, WrittenChannelInv
<1>6. CASE UpdateChannel(s) \/ ArchiveChannel(s)
  <2>1. UNCHANGED roster
    BY <1>6 DEF UpdateChannel, ArchiveChannel
  <2> QED BY <1>1, <1>2, <1>4, <2>1, CountersKept, WrittenChannelInv
<1> QED BY <1>5, <1>6

LEMMA RosterWriteChannelInv ==
    ASSUME ChannelInv, NEW s \in Requests, JoinChannel(s) \/ LeaveChannel(s)
    PROVE  ChannelInv'
<1> DEFINE r == req[s]
           u == r.user
<1>1. r.step = "write" /\ Go(s, Idle) /\ UNCHANGED <<thread, mix>>
  BY DEF JoinChannel, LeaveChannel, Writing, Go
<1>2. TypeInv /\ TypeInv' /\ CountersHonest /\ RosterOK
  BY RosterWriteTypeInv, RosterTyped DEF ChannelInv
<1>3. OneAtATime' = OneAtATime
  BY <1>1 DEF OneAtATime
<1>4. DeletedSaysNothing'
  BY <1>1, <1>3 DEF ChannelInv, DeletedSaysNothing, thread
<1>5. u \in Users /\ memberCount \in Int /\ Right(memberCount, Members) /\ IsFiniteSet(Members)
  BY <1>1, <1>2, CountersRight, CountedFinite DEF TypeInv, TypeOK, RequestsOK, RequestOK
<1>6. Right(memberCount', Members')
  <2>1. CASE JoinChannel(s)
    <3>1. u \notin Members /\ NewMember(u) /\ memberCount' = memberCount + 1
      BY <2>1 DEF JoinChannel
    <3>2. Members' = Members \cup {u}
      BY <1>2, <1>5, <3>1, MemberAdded
    <3> QED BY <1>5, <3>1, <3>2, CountedUp
  <2>2. CASE LeaveChannel(s)
    <3>1. /\ r.op = "leave" /\ joins' = joins /\ memberCount' = memberCount - 1
          /\ doc' = [doc EXCEPT ![u] = IF @ = r.doc THEN 0 ELSE @]
      BY <2>2 DEF LeaveChannel, Writing
    <3>2. r.doc \in Nat /\ r.doc # 0
      BY <1>1, <1>2, <3>1 DEF TypeInv, TypeOK, RequestsOK, RequestOK, Request
    <3>3. Members' = IF doc[u] = r.doc THEN Members \ {u} ELSE Members
      <4> DEFINE d == r.doc
      <4>1. d \in Nat /\ d # 0 /\ doc' = [doc EXCEPT ![u] = IF @ = d THEN 0 ELSE @]
        BY <3>1, <3>2
      <4> HIDE DEF u, d
      <4>2. Members' = IF doc[u] = d THEN Members \ {u} ELSE Members
        BY <1>2, <1>5, <3>1, <4>1, MemberDropped
      <4> QED BY <4>2 DEF d
    <3>4. OneAtATime => doc[u] = r.doc
      BY <1>1, <3>1 DEF ChannelInv, AllCurrent, Current
    <3>5. doc[u] = r.doc => u \in Members
      BY <1>5, <3>2 DEF Members
    <3>6. Right(memberCount - 1, Members \ {u}) \/ ~(OneAtATime => u \in Members)
      BY <1>5, CountedDown
    <3>7. CASE doc[u] = r.doc
      BY <3>1, <3>3, <3>5, <3>6, <3>7
    <3>8. CASE doc[u] # r.doc
      <4>1. Cardinality(Members) \in Nat
        BY <1>5, FS_CardinalityType
      <4> QED BY <1>5, <3>1, <3>3, <3>4, <3>8, <4>1 DEF Right
    <3> QED BY <3>7, <3>8
  <2> QED BY <2>1, <2>2
<1>7. Shown' = Shown /\ \A m : Replies(m)' = Replies(m)
  BY <1>1 DEF thread, Shown, Sent, Replies
<1>8. CountersHonest'
  BY <1>1, <1>2, <1>3, <1>6, <1>7 DEF CountersHonest, Right, thread
<1> QED BY <1>1, <1>2, <1>4, <1>8, WrittenChannelInv

LEMMA ThreadWriteChannelInv ==
    ASSUME ChannelInv, NEW s \in Requests, SendMessage(s) \/ EditMessage(s) \/ DeleteMessage(s)
    PROVE  ChannelInv'
<1> DEFINE r == req[s]
           m == r.message
<1>1. r.step = "write" /\ Go(s, Idle) /\ UNCHANGED <<channel, private, roster, mix>>
  BY DEF SendMessage, EditMessage, DeleteMessage, Writing, Go
<1>2. TypeInv /\ TypeInv' /\ CountersHonest
  BY ThreadWriteTypeInv DEF ChannelInv
<1>3. OneAtATime' = OneAtATime /\ Members' = Members /\ memberCount' = memberCount
  BY <1>1 DEF OneAtATime, Members, roster
<1>4. /\ r.user \in Users /\ messageCount \in Int /\ replyCount \in [Messages -> Int]
      /\ IsFiniteSet(Shown) /\ \A k : IsFiniteSet(Replies(k))
      /\ Right(messageCount, Shown) /\ \A k \in Messages : Right(replyCount[k], Replies(k))
  BY <1>1, <1>2, CountersRight, CountedFinite DEF TypeInv, TypeOK, RequestsOK, RequestOK
<1>5. ASSUME Right(messageCount', Shown'),
             \A k \in Messages : Right(replyCount'[k], Replies(k)')
      PROVE  CountersHonest'
  BY <1>2, <1>3, <1>5 DEF CountersHonest, Right
<1>6. CASE SendMessage(s)
  <2>1. PICK n \in Messages \ Sent :
           author' = [author EXCEPT ![n] = r.user] /\ parent' = [parent EXCEPT ![n] = m]
    BY <1>6 DEF SendMessage
  <2>2. /\ messageCount' = messageCount + 1 /\ Counted(m, 1)
        /\ deleted' = deleted /\ blank' = blank
    BY <1>6 DEF SendMessage
  <2>3. /\ Shown' = Shown \cup {n} /\ n \notin Shown
        /\ \A k : Replies(k)' = IF k = m THEN Replies(k) \cup {n} ELSE Replies(k)
        /\ \A k : n \notin Replies(k)
    <3> HIDE DEF m
    <3> QED BY <1>2, <1>4, <2>1, <2>2, MessageSent
  <2>4. Right(messageCount', Shown')
    BY <1>4, <2>2, <2>3, CountedUp
  <2>5. ASSUME NEW k \in Messages PROVE Right(replyCount'[k], Replies(k)')
    <3>1. replyCount'[k] = IF k = m THEN replyCount[k] + 1 ELSE replyCount[k]
      BY <2>2 DEF Counted
    <3>2. Right(replyCount[k] + 1, Replies(k) \cup {n})
      BY <1>4, <2>3, CountedUp
    <3> QED BY <1>4, <2>3, <3>1, <3>2
  <2>6. DeletedSaysNothing'
    BY <1>3, <2>2 DEF ChannelInv, DeletedSaysNothing
  <2> QED BY <1>1, <1>2, <1>5, <2>4, <2>5, <2>6, WrittenChannelInv
<1>7. CASE EditMessage(s)
  <2>1. PICK changed \in BOOLEAN : blank' = [blank EXCEPT ![m] = @ /\ ~changed]
    BY <1>7 DEF EditMessage
  <2>2. UNCHANGED <<messageCount, author, parent, deleted, replyCount>> /\ r.op = "edit"
    BY <1>7 DEF EditMessage, Writing
  <2>3. Shown' = Shown /\ \A k : Replies(k)' = Replies(k)
    BY <2>2 DEF Shown, Sent, Replies
  <2>4. CountersHonest'
    BY <1>4, <1>5, <2>2, <2>3
  <2>5. OneAtATime => ~deleted[m]
    BY <1>1, <2>2 DEF ChannelInv, AllCurrent, Current
  <2>6. blank \in [Messages -> BOOLEAN] /\ deleted \in [Messages -> BOOLEAN]
    BY <1>2 DEF TypeInv, TypeOK
  <2>7. \A k \in Messages : k # m => blank'[k] = blank[k]
    BY <2>1, <2>6
  <2>8. DeletedSaysNothing'
    BY <1>3, <2>2, <2>5, <2>7 DEF ChannelInv, DeletedSaysNothing
  <2> QED BY <1>1, <1>2, <2>4, <2>8, WrittenChannelInv
<1>8. CASE DeleteMessage(s)
  <2>1. /\ deleted' = [deleted EXCEPT ![m] = TRUE] /\ blank' = [blank EXCEPT ![m] = TRUE]
        /\ messageCount' = messageCount - 1 /\ Counted(parent[m], -1)
        /\ author' = author /\ parent' = parent
        /\ r.op = "delete"
    BY <1>8 DEF DeleteMessage, Writing
  <2>2. m \in Sent /\ m \in Messages
    BY <1>2, <2>1 DEF TypeInv, RequestsOK, Sent
  <2>3. Shown' = Shown \ {m} /\ \A k : Replies(k)' = Replies(k) \ {m}
    <3> HIDE DEF m
    <3> QED BY <1>2, <2>1, <2>2, MessageDeleted
  <2>4. OneAtATime => m \in Shown
    BY <1>1, <2>1, <2>2 DEF ChannelInv, AllCurrent, Current, Shown
  <2>5. Right(messageCount', Shown')
    BY <1>4, <2>1, <2>3, <2>4, CountedDown
  <2>6. ASSUME NEW k \in Messages PROVE Right(replyCount'[k], Replies(k)')
    <3>1. replyCount'[k] = IF k = parent[m] THEN replyCount[k] - 1 ELSE replyCount[k]
      BY <1>4, <2>1 DEF Counted
    <3>2. m \in Replies(k) <=> m \in Shown /\ k = parent[m]
      BY DEF Replies
    <3>3. CASE k = parent[m]
      <4>1. OneAtATime => m \in Replies(k)
        BY <2>4, <3>2, <3>3
      <4>2. Right(replyCount[k] - 1, Replies(k) \ {m})
        BY <1>4, <4>1, CountedDown
      <4> QED BY <2>3, <3>1, <3>3, <4>2
    <3>4. CASE k # parent[m]
      <4>1. Replies(k)' = Replies(k)
        BY <2>3, <3>2, <3>4
      <4> QED BY <1>4, <3>1, <3>4, <4>1
    <3> QED BY <3>3, <3>4
  <2>7. deleted \in [Messages -> BOOLEAN] /\ blank \in [Messages -> BOOLEAN]
    BY <1>2 DEF TypeInv, TypeOK
  <2>8. \A k \in Messages : (k # m => deleted'[k] = deleted[k] /\ blank'[k] = blank[k])
                            /\ (k = m => blank'[k])
    BY <2>1, <2>7
  <2>9. DeletedSaysNothing'
    BY <1>3, <2>8 DEF ChannelInv, DeletedSaysNothing
  <2> QED BY <1>1, <1>2, <1>5, <2>5, <2>6, <2>9, WrittenChannelInv
<1> QED BY <1>6, <1>7, <1>8

LEMMA RefusedChannelInv ==
    ASSUME ChannelInv, NEW s \in Requests, req[s].step = "write", Refuse(s)
    PROVE  ChannelInv'
<1>1. TypeInv' /\ s \in mix.slots
  BY RefusedTypeInv, IdleOK DEF ChannelInv, TypeInv, SlotsOK
<1> QED BY <1>1, IdleCurrent, DatabaseKeptCurrent DEF Refuse, Advance

LEMMA NextChannelInv == ChannelInv /\ [Next]_vars => ChannelInv'
<1> SUFFICES ASSUME ChannelInv, [Next]_vars PROVE ChannelInv'
  OBVIOUS
<1>1. CASE UNCHANGED vars
  <2>1. TypeInv' /\ CountersHonest' /\ mix' = mix /\ OneAtATime' = OneAtATime
    BY <1>1, NextTypeInv, CountersKept DEF ChannelInv, vars, OneAtATime
  <2>2. AllCurrent => AllCurrent'
    BY <1>1 DEF AllCurrent, Current, Members, vars, roster, thread
  <2> QED BY <1>1, <2>1, <2>2 DEF ChannelInv, DeletedSaysNothing, vars, thread
<1>2. ASSUME NEW s \in Requests, Write(s) PROVE ChannelInv'
  <2>1. \/ CreateChannel(s) \/ UpdateChannel(s) \/ ArchiveChannel(s)
        \/ JoinChannel(s) \/ LeaveChannel(s)
        \/ SendMessage(s) \/ EditMessage(s) \/ DeleteMessage(s)
        \/ (req[s].step = "write" /\ Refuse(s))
    BY <1>2 DEF Write, CreateDuplicate, JoinDuplicate, Writing
  <2> QED BY <2>1, ChannelWriteChannelInv, RosterWriteChannelInv, ThreadWriteChannelInv,
             RefusedChannelInv
<1> QED BY <1>1, <1>2, StartChannelInv, ReadChannelInv DEF Next

LEMMA ChannelInvAlways == Spec => []ChannelInv
<1> QED BY InitChannelInv, NextChannelInv, PTL DEF Spec

(* Whatever requests overlap, memberCount, messageCount and every          *)
(* replyCount are at most the documents they count, and exact while        *)
(* requests come one at a time.                                            *)
THEOREM CountersAreHonest == Spec => []CountersHonest
<1>1. ChannelInv => CountersHonest
  BY DEF ChannelInv
<1> QED BY <1>1, ChannelInvAlways, PTL

(* While requests come one at a time, the body of a deleted message stays  *)
(* empty, whatever edits follow.                                           *)
THEOREM DeletedStaysBlank == Spec => []DeletedSaysNothing
<1>1. ChannelInv => DeletedSaysNothing
  BY DEF ChannelInv
<1> QED BY <1>1, ChannelInvAlways, PTL

LEMMA NothingWritten ==
    ASSUME NEW s \in Requests, Start(s) \/ Read(s)
    PROVE  UNCHANGED <<roster, thread>>
  BY DEF Start, Read, StartCreate, StartOnChannel, Begin, CheckTaken, Advance, Refuse,
         LoadChannel, FindMember, LoadOwnMessage

LEMMA WriteClosed ==
    ASSUME ChannelInv, OneAtATime, NEW s \in Requests, Write(s)
    PROVE  /\ private /\ channel # "absent" => Members' \subseteq Members \cup {Root}
           /\ \A m \in Sent' \ Sent : author'[m] \in Members
<1> DEFINE r == req[s]
<1>0. /\ TypeInv /\ RosterOK /\ Current(r) /\ RequestOK(r)
      /\ r.step # "idle" => r.user \in Users
  BY RosterTyped DEF ChannelInv, AllCurrent, TypeInv, RequestsOK, RequestOK
<1>1. UNCHANGED thread => Sent' = Sent
  BY DEF thread, Sent
<1>2. UNCHANGED roster => Members' = Members
  BY DEF roster, Members
<1>3. CASE UNCHANGED <<roster, thread>>
  BY <1>1, <1>2, <1>3
<1>4. CASE CreateChannel(s)
  BY <1>1, <1>4 DEF CreateChannel
<1>5. CASE JoinChannel(s)
  <2>1. r.step = "write" /\ r.op = "join" /\ NewMember(r.user) /\ UNCHANGED thread
    BY <1>5 DEF JoinChannel, Writing
  <2>2. Members' = Members \cup {r.user}
    BY <1>0, <2>1, MemberAdded
  <2>3. ~private \/ r.user = Root
    BY <1>0, <2>1 DEF Current
  <2> QED BY <1>1, <2>1, <2>2, <2>3
<1>6. CASE LeaveChannel(s)
  <2>1. doc' = [doc EXCEPT ![r.user] = IF @ = r.doc THEN 0 ELSE @] /\ UNCHANGED thread
    BY <1>6 DEF LeaveChannel
  <2>2. Members' \subseteq Members
    BY <1>0, <2>1 DEF Members, RosterOK
  <2> QED BY <1>1, <2>1, <2>2
<1>7. CASE SendMessage(s)
  <2>1. PICK n \in Messages \ Sent :
           author' = [author EXCEPT ![n] = r.user] /\ parent' = [parent EXCEPT ![n] = r.message]
    BY <1>7 DEF SendMessage
  <2>2. r.step = "write" /\ r.op = "send" /\ UNCHANGED roster /\ deleted' = deleted
    BY <1>7 DEF SendMessage, Writing
  <2>3. r.user \in Members /\ r.user \in Users
    BY <1>0, <2>2 DEF Current
  <2>4. Sent' = Sent \cup {n}
    <3> HIDE DEF r
    <3> QED BY <1>0, <2>1, <2>2, <2>3, MessageSent
  <2>5. author'[n] = r.user
    BY <1>0, <2>1 DEF TypeInv, TypeOK
  <2> QED BY <1>2, <2>2, <2>3, <2>4, <2>5
<1>8. CASE EditMessage(s) \/ DeleteMessage(s)
  <2>1. author' = author /\ UNCHANGED roster
    BY <1>8 DEF EditMessage, DeleteMessage
  <2>2. Sent' = Sent
    BY <2>1 DEF Sent
  <2> QED BY <1>2, <2>1, <2>2
<1> QED BY <1>3, <1>4, <1>5, <1>6, <1>7, <1>8
        DEF Write, CreateDuplicate, JoinDuplicate, UpdateChannel, ArchiveChannel, Refuse, Advance

(* While requests come one at a time, no step brings anybody but a super   *)
(* admin into a private channel, and whoever sends a message is a member   *)
(* at that very step.                                                      *)
THEOREM ChannelClosed == Spec => ClosedToOutsiders
<1> DEFINE Closing ==
             OneAtATime =>
                /\ private /\ channel # "absent" => Members' \subseteq Members \cup {Root}
                /\ \A m \in Sent' \ Sent : author'[m] \in Members
<1>1. ChannelInv /\ [Next]_vars => [Closing]_vars
  <2> SUFFICES ASSUME ChannelInv, Next PROVE Closing
    OBVIOUS
  <2>1. ASSUME UNCHANGED <<roster, thread>> PROVE Closing
    <3>1. Sent' = Sent /\ Members' = Members
      BY <2>1 DEF roster, thread, Sent, Members
    <3> QED BY <3>1
  <2>2. ASSUME NEW s \in Requests, Start(s) \/ Read(s) PROVE Closing
    BY <2>1, <2>2, NothingWritten
  <2>3. ASSUME NEW s \in Requests, Write(s) PROVE Closing
    BY <2>3, WriteClosed
  <2> QED BY <2>2, <2>3 DEF Next
<1> QED BY <1>1, ChannelInvAlways, PTL DEF Spec, ClosedToOutsiders

-----------------------------------------------------------------------------
(* Realtime: which step a join of which room can be at, and the socket as  *)
(* RealtimeTypeOK wants it.                                                *)
SocketOK(q) ==
    /\ q \in Socket
    /\ q.st = "closed" <=> q.user = NoOne
    /\ q.step = "idle" <=> q.asks = "none"
    /\ q.st = "open" <=> "user" \in q.rooms
    /\ q.step # "idle" => q.st \in {"open", "gone"}
    /\ q.st = "gone" => q.step # "idle"
    /\ q.step \in {"guard", "load", "store"} => q.asks \in {"workspace", "board"}
    /\ q.step = "exists" => q.asks = "board"
    /\ q.step \in {"find", "belongs"} => q.asks = "channel"

(* Of a join that runs alone, what it found out is still so.               *)
Sound(q) ==
    /\ q.step = "store" /\ q.read => q.user \in member
    /\ q.step = "exists" => q.user \in member \cup Unrestricted
    /\ q.step = "belongs" => channelOpen /\ q.read = isPrivate
    /\ q.step = "join" /\ q.asks \in {"workspace", "board"} => q.user \in member \cup Unrestricted
    /\ q.step = "join" /\ q.asks = "board" => boardOpen
    /\ q.step = "join" /\ q.asks = "channel" =>
          channelOpen /\ (isPrivate => q.user \in inChannel \cup Unrestricted)

AllSound == \A k \in Sockets : Sound(sock[k])

(* A cached yes is a member's, or is about to be dropped.                  *)
CacheTrue == \A p \in People : known[p] = "yes" => p \in member \cup leaving

AllIdle == \A k \in Sockets : sock[k].step = "idle"

OneJoin ==
    /\ leaving # {} => AllIdle
    /\ \A k, l \in Sockets : sock[k].step # "idle" /\ sock[l].step # "idle" => k = l

RealtimeInv ==
    /\ RealtimeTypeOK
    /\ \A k \in Sockets : SocketOK(sock[k])
    /\ sockMix.serial => OneJoin /\ CacheTrue /\ AllSound

LEMMA ClosedOK == SocketOK(Closed) /\ Closed.step = "idle" /\ Sound(Closed)
  BY DEF SocketOK, Socket, Closed, RoomsToJoin, Sound

LEMMA InitRealtimeInv == RealtimeInit => RealtimeInv
<1> SUFFICES ASSUME RealtimeInit PROVE RealtimeInv
  OBVIOUS
<1>1. \A k \in Sockets : sock[k] = Closed
  BY DEF RealtimeInit
<1>2. RealtimeTypeOK
  <2>1. sock \in [Sockets -> Socket]
    BY ClosedOK DEF RealtimeInit, SocketOK
  <2>2. \A k \in Sockets :
           /\ sock[k].st = "closed" <=> sock[k].user = NoOne
           /\ sock[k].step = "idle" <=> sock[k].asks = "none"
           /\ sock[k].st = "open" <=> "user" \in sock[k].rooms
           /\ sock[k].st = "gone" => sock[k].step # "idle"
    BY <1>1, ClosedOK DEF SocketOK
  <2>3. known \in [People -> {"none", "yes", "no"}]
    BY DEF RealtimeInit
  <2> QED BY <2>1, <2>2, <2>3 DEF RealtimeInit, RealtimeTypeOK
<1>3. OneJoin /\ CacheTrue /\ AllSound
  BY <1>1, ClosedOK DEF RealtimeInit, OneJoin, CacheTrue, AllSound, AllIdle
<1> QED BY <1>1, <1>2, <1>3, ClosedOK DEF RealtimeInv

(* A step of one socket changes at most the cached answers besides.        *)
LEMMA SocketStep ==
    ASSUME RealtimeInv, NEW k \in Sockets, NEW q, SocketOK(q),
           sock' = [sock EXCEPT ![k] = q],
           UNCHANGED <<member, leaving, channelOpen, isPrivate, inChannel, boardOpen, sockMix>>,
           known' \in [People -> {"none", "yes", "no"}],
           sockMix.serial => /\ CacheTrue' /\ Sound(q)
                             /\ q.step = "idle" \/ sock[k].step # "idle" \/ Quiet
    PROVE  RealtimeInv'
<1>1. sock \in [Sockets -> Socket] /\ q \in Socket
  BY DEF RealtimeInv, RealtimeTypeOK, SocketOK
<1>2. sock' \in [Sockets -> Socket] /\ sock'[k] = q
      /\ \A l \in Sockets : l # k => sock'[l] = sock[l]
  BY <1>1
<1>3. \A l \in Sockets : SocketOK(sock'[l])
  BY <1>2 DEF RealtimeInv
<1>4. RealtimeTypeOK'
  <2>1. \A l \in Sockets :
          /\ sock'[l].st = "closed" <=> sock'[l].user = NoOne
          /\ sock'[l].step = "idle" <=> sock'[l].asks = "none"
          /\ sock'[l].st = "open" <=> "user" \in sock'[l].rooms
          /\ sock'[l].st = "gone" => sock'[l].step # "idle"
    BY <1>3 DEF SocketOK
  <2> QED BY <1>2, <2>1 DEF RealtimeInv, RealtimeTypeOK
<1>5. ASSUME sockMix.serial PROVE OneJoin' /\ AllSound'
  <2>1. \A x : Sound(x)' = Sound(x)
    BY DEF Sound
  <2>2. AllSound'
    BY <1>2, <1>5, <2>1 DEF RealtimeInv, AllSound, Sound
  <2>3. OneJoin /\ (q.step = "idle" \/ sock[k].step # "idle" \/ Quiet)
    BY <1>5 DEF RealtimeInv
  <2>4. OneJoin'
    BY <1>2, <2>3 DEF OneJoin, AllIdle, Quiet
  <2> QED BY <2>2, <2>4
<1>6. \A l \in Sockets : SocketOK(sock[l])'
  BY <1>3 DEF SocketOK
<1> QED BY <1>4, <1>5, <1>6 DEF RealtimeInv

LEMMA GoStep ==
    ASSUME RealtimeInv, NEW k \in Sockets, NEW q, SocketOK(q), SockGo(k, q),
           sockMix.serial => Sound(q), q.step = "idle" \/ sock[k].step # "idle"
    PROVE  RealtimeInv'
<1>1. /\ sock' = [sock EXCEPT ![k] = q] /\ known' = known
      /\ UNCHANGED <<member, leaving, channelOpen, isPrivate, inChannel, boardOpen, sockMix>>
  BY DEF SockGo, settings
<1>2. known' \in [People -> {"none", "yes", "no"}]
  BY <1>1 DEF RealtimeInv, RealtimeTypeOK
<1>3. sockMix.serial => CacheTrue'
  BY <1>1 DEF RealtimeInv, CacheTrue
<1> QED BY <1>1, <1>2, <1>3, SocketStep

(* A step elsewhere, taken while no join is under way if they come one at  *)
(* a time, or changing nothing that a join has looked at.                  *)
LEMMA SettingsStep ==
    ASSUME RealtimeInv, UNCHANGED <<sock, sockMix>>,
           member' \subseteq People,
           known' \in [People -> {"none", "yes", "no"}], leaving' \subseteq People,
           channelOpen' \in BOOLEAN, isPrivate' \in BOOLEAN, inChannel' \subseteq People,
           boardOpen' \in BOOLEAN,
           sockMix.serial =>
              /\ CacheTrue'
              /\ AllIdle \/ UNCHANGED <<member, leaving, channelOpen, isPrivate, inChannel, boardOpen>>
    PROVE  RealtimeInv'
<1>1. RealtimeTypeOK'
  BY DEF RealtimeInv, RealtimeTypeOK
<1>2. \A k \in Sockets : SocketOK(sock[k])'
  BY DEF RealtimeInv, SocketOK
<1>3. ASSUME sockMix.serial PROVE OneJoin' /\ AllSound'
  <2>1. CASE AllIdle
    <3>1. OneJoin'
      BY <2>1 DEF OneJoin, AllIdle
    <3>2. AllSound'
      BY <2>1 DEF AllSound, AllIdle, Sound
    <3> QED BY <3>1, <3>2
  <2>2. CASE UNCHANGED <<member, leaving, channelOpen, isPrivate, inChannel, boardOpen>>
    BY <1>3, <2>2 DEF RealtimeInv, OneJoin, AllIdle, AllSound, Sound
  <2> QED BY <1>3, <2>1, <2>2
<1> QED BY <1>1, <1>2, <1>3 DEF RealtimeInv

LEMMA HandshakeInv ==
    ASSUME RealtimeInv, NEW k \in Sockets, Handshake(k)
    PROVE  RealtimeInv'
<1>1. PICK p \in People :
         sock' = [sock EXCEPT ![k] = [Closed EXCEPT !.st = "verified", !.user = p]]
  BY DEF Handshake
<1> DEFINE q == [Closed EXCEPT !.st = "verified", !.user = p]
<1>2. SocketOK(q) /\ q.step = "idle"
  BY RealtimeAssumption DEF SocketOK, Socket, Closed, RoomsToJoin
<1>3. Sound(q)
  BY <1>2 DEF Sound
<1>4. /\ UNCHANGED <<member, leaving, channelOpen, isPrivate, inChannel, boardOpen, sockMix>>
      /\ known' = known
  BY DEF Handshake, Happens, settings
<1>5. known' \in [People -> {"none", "yes", "no"}] /\ (sockMix.serial => CacheTrue')
  BY <1>4 DEF RealtimeInv, RealtimeTypeOK, CacheTrue
<1> HIDE DEF q
<1> QED BY <1>1, <1>2, <1>3, <1>4, <1>5, SocketStep DEF q

LEMMA OpenInv ==
    ASSUME RealtimeInv, NEW k \in Sockets, Connected(k) \/ Disconnect(k) \/ LeaveRoom(k)
    PROVE  RealtimeInv'
<1> DEFINE r == sock[k]
<1>0. r \in Socket /\ SocketOK(r) /\ (sockMix.serial => Sound(r))
  BY DEF RealtimeInv, RealtimeTypeOK, AllSound
<1>1. ASSUME NEW q, SocketOK(q), SockGo(k, q), sockMix.serial => Sound(q), q.step = r.step
      PROVE  RealtimeInv'
  <2>1. q.step = "idle" \/ sock[k].step # "idle"
    BY <1>1
  <2> QED BY <1>1, <2>1, GoStep
<1>2. CASE Connected(k)
  <2> DEFINE q == [r EXCEPT !.st = "open", !.rooms = {"user"}]
  <2>1. SockGo(k, q) /\ r.st = "verified"
    BY <1>2 DEF Connected
  <2>2. SocketOK(q) /\ q.step = r.step
    BY <1>0, <2>1 DEF SocketOK, Socket
  <2>3. Sound(r) => Sound(q)
    BY <1>0 DEF Sound, Socket
  <2> QED BY <1>0, <1>1, <2>1, <2>2, <2>3
<1>3. CASE Disconnect(k)
  <2>1. CASE r.step = "idle"
    BY <1>3, <2>1, ClosedOK, GoStep DEF Disconnect
  <2>2. CASE r.step # "idle"
    <3> DEFINE q == [r EXCEPT !.st = "gone", !.rooms = {}]
    <3>1. SockGo(k, q) /\ r.st = "open"
      BY <1>3, <2>2 DEF Disconnect
    <3>2. SocketOK(q) /\ q.step = r.step
      BY <1>0, <2>2, <3>1 DEF SocketOK, Socket
    <3>3. Sound(r) => Sound(q)
      BY <1>0 DEF Sound, Socket
    <3> QED BY <1>0, <1>1, <3>1, <3>2, <3>3
  <2> QED BY <2>1, <2>2
<1>4. CASE LeaveRoom(k)
  <2>1. PICK room \in r.rooms \ {"user"} : SockGo(k, [r EXCEPT !.rooms = @ \ {room}])
    BY <1>4 DEF LeaveRoom
  <2> DEFINE q == [r EXCEPT !.rooms = @ \ {room}]
  <2>2. SocketOK(q) /\ q.step = r.step
    BY <1>0, <2>1 DEF SocketOK, Socket
  <2>3. Sound(r) => Sound(q)
    BY <1>0 DEF Sound, Socket
  <2> QED BY <1>0, <1>1, <2>1, <2>2, <2>3
<1> QED BY <1>2, <1>3, <1>4

LEMMA AskRoomInv ==
    ASSUME RealtimeInv, NEW k \in Sockets, AskRoom(k)
    PROVE  RealtimeInv'
<1> DEFINE r == sock[k]
<1>0. r \in Socket /\ SocketOK(r) /\ sock \in [Sockets -> Socket]
  BY DEF RealtimeInv, RealtimeTypeOK
<1>1. PICK room \in RoomsToJoin :
        /\ Happens(room)
        /\ sock[k].st = "open" /\ sock[k].step = "idle"
        /\ sock' = [sock EXCEPT ![k].asks = room,
                                ![k].step = IF room = "channel" THEN "find" ELSE "guard"]
        /\ UNCHANGED settings
  BY DEF AskRoom
<1> DEFINE q == [r EXCEPT !.asks = room, !.step = IF room = "channel" THEN "find" ELSE "guard"]
<1>2. sock' = [sock EXCEPT ![k] = q]
  BY <1>0, <1>1
<1>3. SocketOK(q)
  BY <1>0, <1>1 DEF SocketOK, Socket, RoomsToJoin
<1>4. q.step \in {"find", "guard"}
  BY <1>0 DEF Socket
<1>5. Sound(q)
  BY <1>4 DEF Sound
<1>6. /\ UNCHANGED <<member, leaving, channelOpen, isPrivate, inChannel, boardOpen, sockMix>>
      /\ known' = known /\ (sockMix.serial => Quiet)
  BY <1>1 DEF Happens, settings
<1>7. known' \in [People -> {"none", "yes", "no"}] /\ (sockMix.serial => CacheTrue')
  BY <1>6 DEF RealtimeInv, RealtimeTypeOK, CacheTrue
<1> HIDE DEF q
<1> QED BY <1>2, <1>3, <1>5, <1>6, <1>7, SocketStep

(* What the guard of a room leads to.                                      *)
LEMMA VerdictSound ==
    ASSUME NEW k \in Sockets, SocketOK(sock[k]), NEW yes \in BOOLEAN,
           sock[k].step \in {"guard", "load", "store"},
           sockMix.serial /\ yes => sock[k].user \in member \cup Unrestricted, NEW q,
           q = [sock[k] EXCEPT !.step = Verdict(k, yes)]
    PROVE  SocketOK(q) /\ (sockMix.serial => Sound(q)) /\ q.step # "idle"
<1>1. /\ Verdict(k, yes) \in {"refuse", "exists", "join"}
      /\ Verdict(k, yes) = "exists" => sock[k].asks = "board" /\ yes
      /\ Verdict(k, yes) = "join" => sock[k].asks = "workspace" /\ yes
  BY DEF Verdict, SocketOK
<1>2. SocketOK(q) /\ q.step = Verdict(k, yes)
  BY <1>1 DEF SocketOK, Socket, RoomsToJoin
<1>3. q.user = sock[k].user /\ q.asks = sock[k].asks
  BY DEF SocketOK, Socket
<1>4. sockMix.serial => Sound(q)
  BY <1>1, <1>2, <1>3 DEF Sound
<1> QED BY <1>1, <1>2, <1>4

LEMMA GuardSocketInv ==
    ASSUME RealtimeInv, NEW k \in Sockets, GuardSocket(k)
    PROVE  RealtimeInv'
<1> DEFINE r == sock[k]
           p == r.user
           q(step) == [r EXCEPT !.step = step]
<1>0. /\ r \in Socket /\ SocketOK(r) /\ r.step = "guard"
      /\ sockMix.serial => OneJoin /\ CacheTrue
  BY DEF RealtimeInv, RealtimeTypeOK, GuardSocket
<1>1. \/ p \in Unrestricted /\ SockGo(k, q(Verdict(k, TRUE)))
      \/ SockGo(k, q("load"))
      \/ p \notin Unrestricted /\ SockGo(k, q(Verdict(k, known[p] = "yes")))
  BY DEF GuardSocket
<1>2. SocketOK(q("load")) /\ Sound(q("load"))
  BY <1>0 DEF SocketOK, Socket, Sound
<1>3. sockMix.serial /\ known[p] = "yes" => p \in member
  <2> SUFFICES ASSUME sockMix.serial, known[p] = "yes" PROVE p \in member
    OBVIOUS
  <2>1. p \in People
    BY <1>0 DEF SocketOK, Socket
  <2>2. leaving = {}
    BY <1>0 DEF OneJoin, AllIdle
  <2> QED BY <1>0, <2>1, <2>2 DEF CacheTrue
<1>4. ASSUME NEW yes \in BOOLEAN, sockMix.serial /\ yes => p \in member \cup Unrestricted,
             SockGo(k, q(Verdict(k, yes)))
      PROVE  RealtimeInv'
  <2>1. /\ SocketOK(q(Verdict(k, yes))) /\ (sockMix.serial => Sound(q(Verdict(k, yes))))
    BY <1>0, <1>4, VerdictSound
  <2> HIDE DEF q
  <2> QED BY <1>0, <1>4, <2>1, GoStep
<1>5. CASE p \in Unrestricted /\ SockGo(k, q(Verdict(k, TRUE)))
  BY <1>4, <1>5
<1>6. CASE SockGo(k, q("load"))
  BY <1>0, <1>2, <1>6, GoStep
<1>7. CASE SockGo(k, q(Verdict(k, known[p] = "yes")))
  <2>1. (known[p] = "yes") \in BOOLEAN
    OBVIOUS
  <2> QED BY <1>3, <1>4, <1>7, <2>1
<1> QED BY <1>1, <1>5, <1>6, <1>7

LEMMA MembershipReadInv ==
    ASSUME RealtimeInv, NEW k \in Sockets, LoadAnswer(k) \/ CacheAnswer(k)
    PROVE  RealtimeInv'
<1> DEFINE r == sock[k]
<1>0. /\ r \in Socket /\ SocketOK(r) /\ sock \in [Sockets -> Socket]
      /\ sockMix.serial => CacheTrue /\ Sound(r)
      /\ known \in [People -> {"none", "yes", "no"}]
  BY DEF RealtimeInv, RealtimeTypeOK, AllSound
<1>1. CASE LoadAnswer(k)
  <2> DEFINE q == [r EXCEPT !.step = "store", !.read = r.user \in member]
  <2>1. r.step = "load" /\ SockGo(k, q)
    BY <1>1 DEF LoadAnswer
  <2>2. (r.user \in member) \in BOOLEAN
    OBVIOUS
  <2>3. q \in Socket
    BY <1>0, <2>2 DEF Socket
  <2>4. q.step = "store" /\ q.user = r.user /\ q.asks = r.asks /\ q.rooms = r.rooms
        /\ q.st = r.st /\ q.read = (r.user \in member)
    BY <1>0 DEF Socket
  <2>5. SocketOK(q)
    BY <1>0, <2>1, <2>3, <2>4 DEF SocketOK
  <2>6. Sound(q)
    BY <2>4 DEF Sound
  <2> HIDE DEF q
  <2> QED BY <2>1, <2>5, <2>6, GoStep
<1>2. CASE CacheAnswer(k)
  <2> DEFINE q == [r EXCEPT !.step = Verdict(k, r.read)]
  <2>1. /\ r.step = "store"
        /\ sock' = [sock EXCEPT ![k] = q]
        /\ known' = [known EXCEPT ![r.user] = IF r.read THEN "yes" ELSE "no"]
        /\ UNCHANGED <<member, leaving, channelOpen, isPrivate, inChannel, boardOpen, sockMix>>
    BY <1>0, <1>2 DEF CacheAnswer
  <2>2. r.read \in BOOLEAN /\ (sockMix.serial /\ r.read => r.user \in member)
    BY <1>0, <2>1 DEF Socket, Sound
  <2>3. SocketOK(q) /\ (sockMix.serial => Sound(q)) /\ q.step # "idle"
    BY <1>0, <2>1, <2>2, VerdictSound
  <2>4. known' \in [People -> {"none", "yes", "no"}]
    BY <1>0, <2>1
  <2>5. sockMix.serial => CacheTrue'
    BY <1>0, <2>1, <2>2 DEF CacheTrue
  <2> HIDE DEF q
  <2> QED BY <2>1, <2>3, <2>4, <2>5, SocketStep
<1> QED BY <1>1, <1>2

LEMMA RoomCheckedInv ==
    ASSUME RealtimeInv, NEW k \in Sockets,
           BoardExists(k) \/ FindChannel(k) \/ BelongsToChannel(k)
    PROVE  RealtimeInv'
<1> DEFINE r == sock[k]
<1>0. /\ r \in Socket /\ SocketOK(r) /\ (sockMix.serial => Sound(r))
      /\ isPrivate \in BOOLEAN /\ channelOpen \in BOOLEAN
  BY DEF RealtimeInv, RealtimeTypeOK, AllSound
<1>1. CASE BoardExists(k)
  <2> DEFINE q == [r EXCEPT !.step = IF boardOpen THEN "join" ELSE "refuse"]
  <2>1. r.step = "exists" /\ SockGo(k, q)
    BY <1>1 DEF BoardExists
  <2>2. SocketOK(q)
    BY <1>0, <2>1 DEF SocketOK, Socket
  <2>3. Sound(r) => Sound(q)
    BY <1>0, <2>1 DEF Sound, Socket, SocketOK
  <2> HIDE DEF q
  <2> QED BY <1>0, <2>1, <2>2, <2>3, GoStep
<1>2. CASE FindChannel(k)
  <2> DEFINE f == [r EXCEPT !.step = "belongs", !.read = isPrivate]
             n == [r EXCEPT !.step = "refuse"]
  <2>1. r.step = "find" /\ SockGo(k, IF channelOpen THEN f ELSE n)
    BY <1>2 DEF FindChannel
  <2>2. SocketOK(f) /\ SocketOK(n)
    BY <1>0, <2>1 DEF SocketOK, Socket
  <2>3. f.step = "belongs" /\ f.read = isPrivate /\ n.step = "refuse"
    BY <1>0 DEF Socket
  <2>4. (channelOpen => Sound(f)) /\ Sound(n)
    BY <2>3 DEF Sound
  <2> HIDE DEF f, n
  <2>5. CASE channelOpen
    BY <1>0, <2>1, <2>2, <2>4, <2>5, GoStep
  <2>6. CASE ~channelOpen
    BY <1>0, <2>1, <2>2, <2>4, <2>6, GoStep
  <2> QED BY <2>5, <2>6
<1>3. CASE BelongsToChannel(k)
  <2> DEFINE q == [r EXCEPT !.step = IF r.read /\ r.user \notin inChannel \cup Unrestricted
                                     THEN "refuse" ELSE "join"]
  <2>1. r.step = "belongs" /\ SockGo(k, q)
    BY <1>3 DEF BelongsToChannel
  <2>2. SocketOK(q)
    BY <1>0, <2>1 DEF SocketOK, Socket
  <2>3. /\ q.step = IF r.read /\ r.user \notin inChannel \cup Unrestricted THEN "refuse" ELSE "join"
        /\ q.user = r.user /\ q.asks = "channel"
    BY <1>0, <2>1 DEF SocketOK, Socket
  <2>4. Sound(r) => Sound(q)
    <3> HIDE DEF q
    <3> QED BY <2>1, <2>3 DEF Sound
  <2> HIDE DEF q
  <2> QED BY <1>0, <2>1, <2>2, <2>4, GoStep
<1> QED BY <1>1, <1>2, <1>3

LEMMA RoomAnsweredInv ==
    ASSUME RealtimeInv, NEW k \in Sockets, JoinRoom(k) \/ RefuseRoom(k)
    PROVE  RealtimeInv'
<1> DEFINE r == sock[k]
           q(rooms) == [r EXCEPT !.rooms = rooms, !.asks = "none", !.step = "idle",
                                 !.read = FALSE]
<1>0. r \in Socket /\ SocketOK(r)
  BY DEF RealtimeInv, RealtimeTypeOK
<1>1. PICK rooms \in {r.rooms, r.rooms \cup {r.asks}} :
        r.step \in {"join", "refuse"} /\ SockGo(k, Answered(k, rooms))
  BY DEF JoinRoom, RefuseRoom
<1>2. CASE r.st = "gone"
  BY <1>1, <1>2, ClosedOK, GoStep DEF Answered
<1>3. CASE r.st # "gone"
  <2>1. r.asks \in RoomsToJoin /\ r.st = "open" /\ SockGo(k, q(rooms))
    BY <1>0, <1>1, <1>3 DEF SocketOK, Socket, Answered
  <2>2. SocketOK(q(rooms)) /\ q(rooms).step = "idle"
    BY <1>0, <1>1, <2>1 DEF SocketOK, Socket, RoomsToJoin
  <2>3. Sound(q(rooms))
    BY <2>2 DEF Sound
  <2> HIDE DEF q
  <2> QED BY <2>1, <2>2, <2>3, GoStep
<1> QED BY <1>2, <1>3

LEMMA SettingsInv ==
    ASSUME RealtimeInv, NEW p,
           \/ /\ p \in People
              /\ \/ AddToWorkspace(p) \/ RemoveFromWorkspace(p)
                 \/ DropAnswer(p) \/ ExpireAnswer(p) \/ ChannelMembership(p)
           \/ ChannelPrivacy \/ ChannelArchived \/ BoardArchived
    PROVE  RealtimeInv'
<1>0. /\ member \subseteq People /\ channelOpen \in BOOLEAN
      /\ known \in [People -> {"none", "yes", "no"}] /\ leaving \subseteq People
      /\ isPrivate \in BOOLEAN /\ inChannel \subseteq People /\ boardOpen \in BOOLEAN
      /\ sockMix.serial => OneJoin /\ CacheTrue
  BY DEF RealtimeInv, RealtimeTypeOK
<1>1. /\ UNCHANGED <<sock, sockMix>>
      /\ \/ sockMix.serial => Quiet
         \/ p \in leaving
         \/ UNCHANGED <<member, leaving, channelOpen, isPrivate, inChannel, boardOpen>>
  BY DEF AddToWorkspace, RemoveFromWorkspace, DropAnswer, ExpireAnswer,
         ChannelMembership, ChannelPrivacy, ChannelArchived, BoardArchived, Happens
<1>2. sockMix.serial => AllIdle \/ UNCHANGED <<member, leaving, channelOpen, isPrivate, inChannel, boardOpen>>
  BY <1>0, <1>1 DEF OneJoin, Quiet, AllIdle
<1>3. CASE p \in People /\ (AddToWorkspace(p) \/ RemoveFromWorkspace(p))
  <2>1. /\ UNCHANGED <<known, channelOpen, isPrivate, inChannel, boardOpen>>
        /\ member' \subseteq People /\ leaving' \subseteq People
        /\ member \cup leaving \subseteq member' \cup leaving'
    BY <1>0, <1>3 DEF AddToWorkspace, RemoveFromWorkspace
  <2>2. sockMix.serial => CacheTrue'
    BY <1>0, <2>1 DEF CacheTrue
  <2> QED BY <1>0, <1>1, <1>2, <2>1, <2>2, SettingsStep
<1>4. CASE p \in People /\ (DropAnswer(p) \/ ExpireAnswer(p))
  <2>1. /\ UNCHANGED <<member, channelOpen, isPrivate, inChannel, boardOpen>>
        /\ leaving' \subseteq leaving /\ leaving \subseteq leaving' \cup {p}
        /\ known' = [known EXCEPT ![p] = "none"]
    BY <1>4 DEF DropAnswer, ExpireAnswer
  <2>2. sockMix.serial => CacheTrue'
    BY <1>0, <2>1 DEF CacheTrue
  <2>3. known' \in [People -> {"none", "yes", "no"}] /\ leaving' \subseteq People
    BY <1>0, <2>1
  <2> QED BY <1>0, <1>1, <1>2, <2>1, <2>2, <2>3, SettingsStep
<1>5. CASE (p \in People /\ ChannelMembership(p)) \/ ChannelPrivacy \/ ChannelArchived \/ BoardArchived
  <2>1. /\ UNCHANGED <<member, known, leaving>>
        /\ channelOpen' \in BOOLEAN /\ isPrivate' \in BOOLEAN
        /\ inChannel' \subseteq People /\ boardOpen' \in BOOLEAN
    BY <1>0, <1>5 DEF ChannelMembership, ChannelPrivacy, ChannelArchived, BoardArchived
  <2>2. sockMix.serial => CacheTrue'
    BY <1>0, <2>1 DEF CacheTrue
  <2> QED BY <1>0, <1>1, <1>2, <2>1, <2>2, SettingsStep
<1> QED BY <1>3, <1>4, <1>5

LEMMA NextRealtimeInv == RealtimeInv /\ [RealtimeNext]_rtVars => RealtimeInv'
<1> SUFFICES ASSUME RealtimeInv, [RealtimeNext]_rtVars PROVE RealtimeInv'
  OBVIOUS
<1>1. CASE UNCHANGED rtVars
  BY <1>1 DEF rtVars, settings, RealtimeInv, RealtimeTypeOK, SocketOK, OneJoin, AllIdle,
              CacheTrue, AllSound, Sound
<1>2. CASE RealtimeNext
  BY <1>2, HandshakeInv, OpenInv, AskRoomInv, GuardSocketInv, MembershipReadInv,
     RoomCheckedInv, RoomAnsweredInv, SettingsInv DEF RealtimeNext
<1> QED BY <1>1, <1>2

LEMMA RealtimeInvAlways == RealtimeSpec => []RealtimeInv
<1> QED BY InitRealtimeInv, NextRealtimeInv, PTL DEF RealtimeSpec

(* Every reachable state of the sockets is of the declared types: a closed *)
(* socket has no user, an open one the room of its user, and a socket is   *)
(* at a step of a join exactly while it asks for a room.                   *)
THEOREM RealtimeTypes == RealtimeSpec => []RealtimeTypeOK
<1>1. RealtimeInv => RealtimeTypeOK
  BY DEF RealtimeInv
<1> QED BY <1>1, RealtimeInvAlways, PTL

(* A room is entered by the last step of its join and no other.            *)
LEMMA OnlyJoinRoomJoins ==
    ASSUME RealtimeInv, RealtimeNext, NEW k \in Sockets, NEW room \in RoomsToJoin, Joins(k, room)
    PROVE  sock[k].step = "join" /\ sock[k].asks = room
<1>0. /\ sock \in [Sockets -> Socket] /\ room # "user"
      /\ room \in sock'[k].rooms /\ room \notin sock[k].rooms
  BY DEF RealtimeInv, RealtimeTypeOK, Joins, RoomsToJoin
<1>1. ASSUME NEW l \in Sockets, NEW q, sock' = [sock EXCEPT ![l] = q], q.rooms \subseteq sock[l].rooms
      PROVE  FALSE
  <2>1. sock'[k] = IF k = l THEN q ELSE sock[k]
    BY <1>0, <1>1
  <2> QED BY <1>0, <1>1, <2>1
<1>2. sock' # sock
  BY <1>0
<1>3. PICK l \in Sockets :
         \/ Handshake(l) \/ Connected(l) \/ Disconnect(l) \/ AskRoom(l) \/ LeaveRoom(l)
         \/ GuardSocket(l) \/ LoadAnswer(l) \/ CacheAnswer(l) \/ BoardExists(l)
         \/ FindChannel(l) \/ BelongsToChannel(l) \/ JoinRoom(l) \/ RefuseRoom(l)
  BY <1>2 DEF RealtimeNext, AddToWorkspace, RemoveFromWorkspace, DropAnswer, ExpireAnswer,
              ChannelMembership, ChannelPrivacy, ChannelArchived, BoardArchived
<1>4. sock[l] \in Socket
  BY <1>0
<1>5. CASE Handshake(l) \/ Disconnect(l)
  <2>1. PICK q : sock' = [sock EXCEPT ![l] = q] /\ q.rooms = {}
    <3>1. CASE Handshake(l)
      <4>1. PICK p \in People :
               sock' = [sock EXCEPT ![l] = [Closed EXCEPT !.st = "verified", !.user = p]]
        BY <3>1 DEF Handshake
      <4>2. [Closed EXCEPT !.st = "verified", !.user = p].rooms = {}
        BY DEF Closed
      <4> QED BY <4>1, <4>2
    <3>2. CASE Disconnect(l)
      <4>1. Closed.rooms = {} /\ [sock[l] EXCEPT !.st = "gone", !.rooms = {}].rooms = {}
        BY <1>4 DEF Closed, Socket
      <4> QED BY <3>2, <4>1 DEF Disconnect, SockGo
    <3> QED BY <1>5, <3>1, <3>2
  <2> QED BY <1>1, <2>1
<1>6. CASE Connected(l)
  <2> DEFINE q == [sock[l] EXCEPT !.st = "open", !.rooms = {"user"}]
  <2>1. sock' = [sock EXCEPT ![l] = q] /\ q.rooms = {"user"}
    BY <1>4, <1>6 DEF Connected, SockGo, Socket
  <2>2. sock'[k] = IF k = l THEN q ELSE sock[k]
    BY <1>0, <2>1
  <2> QED BY <1>0, <2>1, <2>2
<1>7. CASE \/ AskRoom(l) \/ LeaveRoom(l) \/ GuardSocket(l) \/ LoadAnswer(l) \/ CacheAnswer(l)
           \/ BoardExists(l) \/ FindChannel(l) \/ BelongsToChannel(l) \/ RefuseRoom(l)
  <2>1. CASE AskRoom(l)
    <3>1. \A x \in Sockets : sock'[x].rooms = sock[x].rooms
      BY <1>0, <2>1 DEF AskRoom, Socket
    <3> QED BY <1>0, <3>1
  <2>2. CASE LeaveRoom(l)
    <3>1. PICK left : sock' = [sock EXCEPT ![l] = [sock[l] EXCEPT !.rooms = @ \ {left}]]
      BY <2>2 DEF LeaveRoom, SockGo
    <3>2. \A x \in Sockets : sock'[x].rooms \subseteq sock[x].rooms
      BY <1>0, <1>4, <3>1 DEF Socket
    <3> QED BY <1>0, <3>2
  <2>3. CASE CacheAnswer(l)
    <3>1. \A x \in Sockets : sock'[x].rooms = sock[x].rooms
      BY <1>0, <2>3 DEF CacheAnswer, Socket
    <3> QED BY <1>0, <3>1
  <2>4. CASE GuardSocket(l) \/ BoardExists(l) \/ BelongsToChannel(l)
    <3>1. PICK x : sock' = [sock EXCEPT ![l] = [sock[l] EXCEPT !.step = x]]
      BY <2>4 DEF GuardSocket, BoardExists, BelongsToChannel, SockGo
    <3> DEFINE q == [sock[l] EXCEPT !.step = x]
    <3>2. q.rooms = sock[l].rooms
      BY <1>4 DEF Socket
    <3> HIDE DEF q
    <3> QED BY <1>1, <3>1, <3>2 DEF q
  <2>5. CASE LoadAnswer(l) \/ FindChannel(l)
    <3>1. PICK x, y : sock' = [sock EXCEPT ![l] = [sock[l] EXCEPT !.step = x, !.read = y]]
      <4>1. CASE LoadAnswer(l)
        BY <4>1 DEF LoadAnswer, SockGo
      <4>2. CASE FindChannel(l) /\ channelOpen
        BY <4>2 DEF FindChannel, SockGo
      <4>3. CASE FindChannel(l) /\ ~channelOpen
        <5>1. sock' = [sock EXCEPT ![l] = [sock[l] EXCEPT !.step = "refuse"]]
          BY <4>3 DEF FindChannel, SockGo
        <5>2. [sock[l] EXCEPT !.step = "refuse"]
                = [sock[l] EXCEPT !.step = "refuse", !.read = sock[l].read]
          BY <1>4 DEF Socket
        <5> QED BY <5>1, <5>2
      <4> QED BY <2>5, <4>1, <4>2, <4>3
    <3> DEFINE q == [sock[l] EXCEPT !.step = x, !.read = y]
    <3>2. q.rooms = sock[l].rooms
      BY <1>4 DEF Socket
    <3> HIDE DEF q
    <3> QED BY <1>1, <3>1, <3>2 DEF q
  <2>6. CASE RefuseRoom(l)
    <3>1. sock' = [sock EXCEPT ![l] = Answered(l, sock[l].rooms)]
      BY <2>6 DEF RefuseRoom, SockGo
    <3>2. Answered(l, sock[l].rooms).rooms \subseteq sock[l].rooms
      BY <1>4 DEF Answered, Closed, Socket
    <3> QED BY <1>1, <3>1, <3>2
  <2> QED BY <1>7, <2>1, <2>2, <2>3, <2>4, <2>5, <2>6
<1>8. CASE JoinRoom(l)
  <2> DEFINE q == Answered(l, sock[l].rooms \cup {sock[l].asks})
  <2>1. sock' = [sock EXCEPT ![l] = q] /\ sock[l].step = "join"
    BY <1>8 DEF JoinRoom, SockGo
  <2>2. q.rooms \subseteq sock[l].rooms \cup {sock[l].asks}
    BY <1>4 DEF Answered, Closed, Socket
  <2>3. sock'[k] = IF k = l THEN q ELSE sock[k]
    BY <1>0, <2>1
  <2> HIDE DEF q
  <2> QED BY <1>0, <2>1, <2>2, <2>3
<1> QED BY <1>3, <1>5, <1>6, <1>7, <1>8

(* With one thing at a time, a socket enters the room of the workspace or  *)
(* of the board as a member's or a super admin's only, although the answer *)
(* it went by may have come from the cache; the board's and the channel's  *)
(* only while they are not archived; and a private channel's only with a   *)
(* ChannelMember document or as a super admin's.  Whether the user of a    *)
(* channel's room is a member of the workspace is left open, as            *)
(* CHANNEL_JOIN leaves it (MembersOnly fails).                             *)
THEOREM JoinsAreAuthorised == RealtimeSpec => JoinsAuthorised
<1> DEFINE Authorised ==
             sockMix.serial =>
               \A k \in Sockets :
                  /\ Joins(k, "workspace") \/ Joins(k, "board") =>
                        sock[k].user \in member \cup Unrestricted
                  /\ Joins(k, "board") => boardOpen
                  /\ Joins(k, "channel") => channelOpen
                  /\ Joins(k, "channel") /\ isPrivate =>
                        sock[k].user \in inChannel \cup Unrestricted
<1>1. RealtimeInv /\ [RealtimeNext]_rtVars => [Authorised]_rtVars
  <2> SUFFICES ASSUME RealtimeInv, RealtimeNext, sockMix.serial, NEW k \in Sockets
               PROVE  /\ Joins(k, "workspace") \/ Joins(k, "board") =>
                            sock[k].user \in member \cup Unrestricted
                      /\ Joins(k, "board") => boardOpen
                      /\ Joins(k, "channel") => channelOpen
                      /\ Joins(k, "channel") /\ isPrivate =>
                            sock[k].user \in inChannel \cup Unrestricted
    OBVIOUS
  <2>1. Sound(sock[k])
    BY DEF RealtimeInv, AllSound
  <2>2. \A room \in RoomsToJoin : Joins(k, room) => sock[k].step = "join" /\ sock[k].asks = room
    BY OnlyJoinRoomJoins
  <2> QED BY <2>1, <2>2 DEF Sound, RoomsToJoin
<1> QED BY <1>1, RealtimeInvAlways, PTL DEF RealtimeSpec, JoinsAuthorised

-----------------------------------------------------------------------------
(* Feeds: pages by cursor and by number                                    *)

LEMMA CardinalityBound ==
    ASSUME NEW S \in SUBSET Items
    PROVE  IsFiniteSet(S) /\ Cardinality(S) \in Nat /\ Cardinality(S) <= MaxItems
<1>1. MaxItems \in Nat
  BY FeedsAssumption
<1>2. IsFiniteSet(Items) /\ Cardinality(Items) = MaxItems
  BY <1>1, FS_Interval DEF Items
<1> QED BY <1>2, FS_Subset, FS_CardinalityType

LEMMA MixType ==
    ASSUME FeedsTypeOK
    PROVE  feedMix.limit \in Nat \ {0} /\ feedMix.feed \in {"messages", "notifications", "none"}
  BY FeedsAssumption DEF FeedsTypeOK

LEMMA PassingItems == ASSUME NEW stages PROVE Passing(stages) \subseteq Items
  BY DEF Passing

-----------------------------------------------------------------------------
(* Types                                                                   *)

LEMMA InitType == FeedsInit => FeedsTypeOK
<1> SUFFICES ASSUME FeedsInit PROVE FeedsTypeOK
  OBVIOUS
<1>1. MaxItems \in Nat
  BY FeedsAssumption
<1>2. FirstAt \in 0..(MaxItems + 1)
  BY <1>1 DEF FirstAt
<1> QED BY <1>2 DEF FeedsInit, FeedsTypeOK

LEMMA ChangeType ==
    ASSUME FeedsTypeOK,
           NEW stages \in [Items -> {"none", "making", "unread", "read", "gone"}],
           Change(stages)
    PROVE  FeedsTypeOK'
<1>1. \A S \in SUBSET Items : Cardinality(S) \in Nat
  BY CardinalityBound
<1>2. Cardinality(Listed \ Passing(stages)) \in Nat
      /\ Cardinality(Passing(stages) \ Listed) \in Nat
  BY <1>1, PassingItems DEF Listed
<1>3. leaves' \in Nat /\ enters' \in Nat
  BY <1>2 DEF Change, FeedsTypeOK
<1> QED BY <1>3 DEF Change, FeedsTypeOK

LEMMA ShowPageType ==
    ASSUME FeedsTypeOK, NEW page, NEW more \in BOOLEAN, NEW next,
           more => next \in 0..(MaxItems + 1), ShowPage(page, more, next)
    PROVE  FeedsTypeOK'
<1>1. \A i \in Items : shown[i] + (IF i \in page THEN 1 ELSE 0) \in Nat
  BY DEF FeedsTypeOK
<1>2. shown' \in [Items -> Nat]
  BY <1>1 DEF ShowPage
<1>3. walk' \in [st : {"new", "going", "over"}, at : 0..(MaxItems + 1)]
  BY DEF ShowPage, FeedsTypeOK
<1>4. kept' \subseteq Items
  BY PassingItems DEF ShowPage, FeedsTypeOK, Listed
<1> QED BY <1>2, <1>3, <1>4 DEF ShowPage, FeedsTypeOK

(* A page that has a next one is not the last of MaxItems.                 *)
LEMMA NextPageInRange ==
    ASSUME FeedsTypeOK, NEW n \in Nat, HasNext(Listed, n)
    PROVE  n + 1 <= MaxItems + 1
<1> DEFINE limit == feedMix.limit
<1>1. limit \in Nat \ {0} /\ MaxItems \in Nat
  BY MixType, FeedsAssumption
<1>2. Cardinality(Listed) \in Nat /\ Cardinality(Listed) <= MaxItems
  BY CardinalityBound, PassingItems DEF Listed
<1>3. n * limit < Cardinality(Listed)
  BY DEF HasNext
<1> HIDE DEF limit
<1>4. \A k \in Nat : n * (k + 1) = n * k + n /\ n * k >= 0
  OBVIOUS
<1>5. PICK k \in Nat : limit = k + 1
  <2>1. limit - 1 \in Nat /\ limit = (limit - 1) + 1
    BY <1>1
  <2> QED BY <2>1
<1>6. n * limit >= n
  BY <1>4, <1>5
<1>7. n * limit \in Nat
  BY <1>1
<1> QED BY <1>1, <1>2, <1>3, <1>6, <1>7

LEMMA NextType == FeedsTypeOK /\ [FeedsNext]_feedVars => FeedsTypeOK'
<1> SUFFICES ASSUME FeedsTypeOK, [FeedsNext]_feedVars PROVE FeedsTypeOK'
  OBVIOUS
<1>1. \A i \in Items : DrawItem(i) \/ CommitItem(i) \/ HideMessage(i) \/ MarkRead(i)
                         \/ ExpireNotification(i) => FeedsTypeOK'
  <2> SUFFICES ASSUME NEW i \in Items,
                      DrawItem(i) \/ CommitItem(i) \/ HideMessage(i) \/ MarkRead(i)
                        \/ ExpireNotification(i)
               PROVE  FeedsTypeOK'
    OBVIOUS
  <2>1. PICK st \in {"making", "unread", "read", "gone"} : Change([stage EXCEPT ![i] = st])
    BY DEF DrawItem, CommitItem, HideMessage, MarkRead, ExpireNotification
  <2>2. [stage EXCEPT ![i] = st] \in [Items -> {"none", "making", "unread", "read", "gone"}]
    BY DEF FeedsTypeOK
  <2> QED BY <2>1, <2>2, ChangeType
<1>2. CASE MarkAllRead
  <2> DEFINE stages == [i \in Items |-> IF stage[i] = "unread" THEN "read" ELSE stage[i]]
  <2>1. stages \in [Items -> {"none", "making", "unread", "read", "gone"}]
    BY DEF FeedsTypeOK
  <2>2. Change(stages)
    BY <1>2 DEF MarkAllRead
  <2> QED BY <2>1, <2>2, ChangeType
<1>3. CASE ListMessages
  <2> DEFINE rows == {i \in Listed : i < walk.at}
             page == {i \in rows : Cardinality({j \in rows : j > i}) < feedMix.limit}
  <2>1. MaxItems \in Nat /\ rows \subseteq Items
    BY FeedsAssumption, PassingItems DEF Listed
  <2>2. PICK more, next :
           more \in BOOLEAN /\ (more => next \in page) /\ ShowPage(page, more, next)
    BY <1>3 DEF ListMessages, ShowRows
  <2>3. more => next \in 0..(MaxItems + 1)
    BY <2>1, <2>2 DEF Items
  <2> QED BY <2>2, <2>3, ShowPageType
<1>4. CASE ListNotifications
  <2> DEFINE more == HasNext(Listed, walk.at)
  <2>1. MaxItems \in Nat /\ walk.at \in Nat
    BY FeedsAssumption DEF FeedsTypeOK
  <2>2. more \in BOOLEAN
    BY DEF HasNext
  <2>3. more => walk.at + 1 \in 0..(MaxItems + 1)
    BY <2>1, NextPageInRange
  <2>4. ShowPage(PageOf(Listed, walk.at), more, walk.at + 1)
    BY <1>4 DEF ListNotifications
  <2> HIDE DEF more
  <2> QED BY <2>2, <2>3, <2>4, ShowPageType
<1>5. CASE UNCHANGED feedVars
  BY <1>5 DEF feedVars, FeedsTypeOK
<1> QED BY <1>1, <1>2, <1>3, <1>4, <1>5 DEF FeedsNext

(* The stages, the walk and the counts keep their types; the cursor or     *)
(* page number stays within the items there can be.                        *)
THEOREM FeedTypes == FeedsSpec => []FeedsTypeOK
  BY InitType, NextType, PTL DEF FeedsSpec

-----------------------------------------------------------------------------
(* The walk by cursor                                                      *)

(* What a walk has shown: nothing beyond the cursor, everything that was   *)
(* listed all the time on this side of it, and nothing twice.              *)
WalkInv ==
    /\ kept \subseteq Listed
    /\ walk.st = "new" => walk.at = MaxItems + 1 /\ kept = {}
    /\ \A i \in Items : shown[i] <= 1
    /\ walk.st # "over" => \A i \in Items : i < walk.at => shown[i] = 0
    /\ walk.st # "over" => \A i \in kept : i >= walk.at => shown[i] = 1
    /\ walk.st = "over" => \A i \in kept : shown[i] = 1

MessageInv == FeedsTypeOK /\ (feedMix.feed = "messages" => WalkInv)

LEMMA InitMessage == FeedsInit => MessageInv
<1> SUFFICES ASSUME FeedsInit PROVE MessageInv
  OBVIOUS
<1> QED BY InitType DEF FeedsInit, MessageInv, WalkInv, FirstAt

LEMMA ChangeWalk ==
    ASSUME WalkInv, NEW stages, Change(stages)
    PROVE  WalkInv'
<1>1. Listed' = Passing(stages)
  BY DEF Change, Listed, Passing
<1>2. kept' = kept \cap Passing(stages) /\ UNCHANGED <<walk, shown, feedMix>>
  BY DEF Change
<1> QED BY <1>1, <1>2 DEF WalkInv

(* The two ends of the rows by cursor: the page that is the last one is    *)
(* all of them, and one that is not has all from its oldest row on.        *)
LEMMA RowsOfAPage ==
    ASSUME NEW rows \in SUBSET Items, NEW limit \in Nat
    PROVE  LET page == {i \in rows : Cardinality({j \in rows : j > i}) < limit}
           IN  /\ Cardinality(rows) <= limit => page = rows
               /\ \A i \in rows, oldest \in page : oldest <= i => i \in page
<1> DEFINE above(i) == {j \in rows : j > i}
           page == {i \in rows : Cardinality(above(i)) < limit}
<1>1. \A S \in SUBSET Items : IsFiniteSet(S) /\ Cardinality(S) \in Nat
  BY CardinalityBound
<1>2. rows \subseteq Nat
  BY FeedsAssumption DEF Items
<1>3. ASSUME NEW i \in rows, Cardinality(rows) <= limit PROVE Cardinality(above(i)) < limit
  <2>1. above(i) \subseteq rows /\ above(i) # rows
    BY <1>2
  <2>2. Cardinality(above(i)) <= Cardinality(rows) /\ Cardinality(above(i)) # Cardinality(rows)
    BY <2>1, <1>1, FS_Subset
  <2>3. Cardinality(above(i)) \in Nat /\ Cardinality(rows) \in Nat
    BY <1>1
  <2> HIDE DEF above
  <2> QED BY <2>2, <2>3, <1>3
<1>4. ASSUME NEW i \in rows, NEW oldest \in page, oldest <= i
      PROVE  Cardinality(above(i)) < limit
  <2>1. above(i) \subseteq above(oldest)
    <3>1. i \in Nat /\ oldest \in Nat /\ oldest <= i
      BY <1>2, <1>4
    <3>2. \A j \in rows : j > i => j > oldest
      BY <1>2, <3>1
    <3> QED BY <3>2
  <2>2. Cardinality(above(i)) <= Cardinality(above(oldest))
    BY <2>1, <1>1, FS_Subset
  <2>3. Cardinality(above(i)) \in Nat /\ Cardinality(above(oldest)) \in Nat
    BY <1>1
  <2>4. Cardinality(above(oldest)) < limit
    OBVIOUS
  <2> HIDE DEF above
  <2> QED BY <2>2, <2>3, <2>4
<1> QED BY <1>3, <1>4

LEMMA ListMessagesWalk ==
    ASSUME FeedsTypeOK, WalkInv, ListMessages
    PROVE  WalkInv'
<1> DEFINE rows == {i \in Listed : i < walk.at}
           page == {i \in rows : Cardinality({j \in rows : j > i}) < feedMix.limit}
           keptNow == IF walk.st = "new" THEN Listed ELSE kept
<1>1. /\ MaxItems \in Nat /\ Items \subseteq Nat /\ Listed \subseteq Items /\ rows \subseteq Items
      /\ walk.at \in Nat /\ walk.st # "over" /\ shown \in [Items -> Nat]
      /\ feedMix.limit \in Nat /\ Cardinality(rows) \in Nat
  BY FeedsAssumption, PassingItems, MixType, CardinalityBound
     DEF Items, Listed, ListMessages, FeedsTypeOK
<1>2. /\ Cardinality(rows) <= feedMix.limit => page = rows
      /\ \A i \in rows, oldest \in page : oldest <= i => i \in page
  BY <1>1, RowsOfAPage
<1>3. PICK more, next :
         /\ more \in BOOLEAN
         /\ ShowPage(page, more, next)
         /\ ~more => Cardinality(rows) <= feedMix.limit
         /\ more => next \in page /\ \A i \in page : next <= i
  <2>1. ShowRows(rows)
    BY DEF ListMessages
  <2>2. \/ Cardinality(rows) <= feedMix.limit /\ ShowPage(page, FALSE, walk.at)
        \/ \E oldest \in page : /\ \A i \in page : oldest <= i
                                /\ ShowPage(page, TRUE, oldest)
    <3> HIDE DEF rows
    <3>1. \/ ~(Cardinality(rows) > feedMix.limit) /\ ShowPage(page, FALSE, walk.at)
          \/ \E oldest \in page : /\ \A i \in page : oldest <= i
                                  /\ ShowPage(page, TRUE, oldest)
      BY <2>1, Zenon DEF ShowRows
    <3> HIDE DEF page
    <3>2. ~(Cardinality(rows) > feedMix.limit) => Cardinality(rows) <= feedMix.limit
      BY <1>1
    <3> QED BY <3>1, <3>2
  <2> HIDE DEF rows, page
  <2> DEFINE Shows(more, next) ==
               /\ more \in BOOLEAN
               /\ ShowPage(page, more, next)
               /\ ~more => Cardinality(rows) <= feedMix.limit
               /\ more => next \in page /\ \A i \in page : next <= i
  <2>3. CASE Cardinality(rows) <= feedMix.limit /\ ShowPage(page, FALSE, walk.at)
    <3>1. Shows(FALSE, walk.at)
      BY <2>3
    <3> HIDE DEF Shows
    <3>2. \E more, next : Shows(more, next)
      BY <3>1
    <3> QED BY <3>2 DEF Shows
  <2>4. ASSUME NEW oldest \in page, \A i \in page : oldest <= i, ShowPage(page, TRUE, oldest)
        PROVE  \E more, next : Shows(more, next)
    <3>1. Shows(TRUE, oldest)
      BY <2>4
    <3> HIDE DEF Shows
    <3> QED BY <3>1
  <2> QED BY <2>2, <2>3, <2>4
<1>4. /\ shown' = [i \in Items |-> shown[i] + IF i \in page THEN 1 ELSE 0]
      /\ walk' = IF more THEN [st |-> "going", at |-> next] ELSE [walk EXCEPT !.st = "over"]
      /\ kept' = keptNow
      /\ UNCHANGED <<stage, feedMix>>
  BY <1>3 DEF ShowPage
<1>5. Listed' = Listed
  BY <1>4 DEF Listed, Passing
<1>6. keptNow \subseteq Listed
  BY DEF WalkInv
<1>7. page \subseteq rows
  OBVIOUS
<1>8. \A i \in rows : shown[i] = 0
  BY <1>1 DEF WalkInv
<1>9. \A i \in keptNow : i \in rows \/ shown[i] = 1
  BY <1>1, <1>6 DEF WalkInv, Items
<1>10. \A i \in Items : shown[i] <= 1
  BY DEF WalkInv
<1> HIDE DEF rows, page, keptNow
<1>11. \A i \in Items : shown'[i] = IF i \in page THEN 1 ELSE shown[i]
  BY <1>1, <1>4, <1>7, <1>8
<1>12. \A i \in Items : shown'[i] <= 1
  BY <1>10, <1>11
<1>13. CASE ~more
  <2>1. \A i \in keptNow : shown'[i] = 1
    BY <1>1, <1>2, <1>3, <1>6, <1>9, <1>11, <1>13
  <2>2. walk'.st = "over"
    BY <1>4, <1>13 DEF FeedsTypeOK
  <2> QED BY <1>4, <1>5, <1>6, <1>12, <2>1, <2>2 DEF WalkInv
<1>14. CASE more
  <2>1. walk'.st = "going" /\ walk'.at = next /\ next \in page /\ next \in Nat
        /\ \A i \in page : next <= i
    BY <1>1, <1>3, <1>4, <1>7, <1>14
  <2>2. ASSUME NEW i \in Items, i < next PROVE shown'[i] = 0
    <3>1. i \notin page
      BY <1>1, <2>1, <2>2
    <3>2. next < walk.at
      BY <1>7, <2>1 DEF rows
    <3>3. i < walk.at
      BY <1>1, <2>1, <2>2, <3>2
    <3>4. shown[i] = 0
      BY <1>1, <3>3 DEF WalkInv
    <3> QED BY <1>11, <3>1, <3>4
  <2>3. ASSUME NEW i \in keptNow, i >= next PROVE shown'[i] = 1
    <3>1. i \in Items /\ next <= i
      BY <1>1, <1>6, <2>1, <2>3
    <3>2. i \in rows => i \in page
      BY <1>2, <2>1, <3>1
    <3> QED BY <1>9, <1>11, <3>1, <3>2
  <2> QED BY <1>4, <1>5, <1>6, <1>12, <2>1, <2>2, <2>3 DEF WalkInv
<1> QED BY <1>13, <1>14

LEMMA NextMessage == MessageInv /\ [FeedsNext]_feedVars => MessageInv'
<1> SUFFICES ASSUME MessageInv, [FeedsNext]_feedVars PROVE MessageInv'
  OBVIOUS
<1>1. FeedsTypeOK /\ FeedsTypeOK'
  BY NextType DEF MessageInv
<1>2. feedMix' = feedMix
  BY DEF FeedsNext, feedVars, DrawItem, CommitItem, HideMessage, MarkRead, MarkAllRead,
     ExpireNotification, ListMessages, ListNotifications, Change, ShowRows, ShowPage
<1> SUFFICES ASSUME feedMix.feed = "messages" PROVE WalkInv'
  BY <1>1, <1>2 DEF MessageInv
<1>3. WalkInv
  BY DEF MessageInv
<1>4. CASE ListMessages
  BY <1>1, <1>3, <1>4, ListMessagesWalk
<1>5. CASE UNCHANGED feedVars
  BY <1>3, <1>5 DEF feedVars, WalkInv, Listed, Passing
<1>6. CASE \E stages : Change(stages)
  BY <1>3, <1>6, ChangeWalk
<1>7. ListMessages \/ (UNCHANGED feedVars) \/ \E stages : Change(stages)
  BY DEF FeedsNext, DrawItem, CommitItem, HideMessage, MarkRead, MarkAllRead,
     ExpireNotification, ListNotifications
<1> QED BY <1>4, <1>5, <1>6, <1>7

(* However messages are sent, committed late, and deleted while a reader   *)
(* pages through them, whatever the page size: at the end every message    *)
(* that was there all the time has been shown, and none was shown twice.   *)
THEOREM CursorWalksComplete == FeedsSpec => [](feedMix.feed = "messages" => WalksComplete)
<1>1. MessageInv => (feedMix.feed = "messages" => WalksComplete)
  <2> SUFFICES ASSUME FeedsTypeOK, WalkInv, feedMix.feed = "messages" PROVE WalksComplete
    BY DEF MessageInv
  <2>1. Cardinality({}) = 0
    BY FS_EmptySet
  <2>2. walk.st = "over" => {i \in kept : shown[i] = 0} = {}
    BY DEF WalkInv
  <2>3. Repeats = {}
    <3>1. \A i \in Items : shown[i] \in Nat /\ shown[i] <= 1
      BY DEF WalkInv, FeedsTypeOK
    <3>2. \A n \in 2..(MaxItems + 1) : n \in Int /\ n >= 2
      BY FeedsAssumption
    <3>3. \A p \in Items \X (2..(MaxItems + 1)) : ~(shown[p[1]] >= p[2])
      BY <3>1, <3>2
    <3> QED BY <3>1, <3>2 DEF Repeats
  <2> QED BY <2>1, <2>2, <2>3 DEF WalksComplete
<1> QED BY <1>1, InitMessage, NextMessage, PTL DEF FeedsSpec

-----------------------------------------------------------------------------
(* Places in the order of a walk                                           *)

(* The least and the greatest of a set of items.                           *)
LEMMA ItemEnds ==
    ASSUME NEW K \in SUBSET Items, K # {}
    PROVE  \E a, b \in K : \A i \in K : a <= i /\ i <= b
<1>1. IsWellFoundedOn(StrictSubsetOrdering(K), SUBSET K)
  BY CardinalityBound, FS_StrictSubsetOrderingWellFounded, FS_FiniteSubsetsOfFinite
<1>2. K \subseteq Nat
  BY FeedsAssumption DEF Items
<1>3. \E a \in K : \A i \in K : a <= i
  <2> DEFINE under(i) == {j \in K : j < i}
             T == {under(i) : i \in K}
  <2>1. T \subseteq SUBSET K /\ T # {}
    OBVIOUS
  <2>2. \E S \in T : \A U \in T : ~(<<U, S>> \in StrictSubsetOrdering(K))
    <3> HIDE DEF T
    <3> QED BY <1>1, <2>1, WFMin
  <2>3. PICK a \in K : \A i \in K : ~(<<under(i), under(a)>> \in StrictSubsetOrdering(K))
    BY <2>2
  <2>4. ASSUME NEW i \in K, i < a PROVE FALSE
    <3>1. i \in Nat /\ a \in Nat /\ (\A j \in K : j \in Nat /\ (j < i => j < a))
      BY <1>2, <2>4
    <3>2. i \in under(a) /\ i \notin under(i)
      BY <2>4, <3>1
    <3>3. under(i) \subseteq under(a)
      BY <3>1
    <3>4. under(i) # under(a) /\ under(i) \in SUBSET K /\ under(a) \in SUBSET K
      BY <3>2
    <3> HIDE DEF under
    <3>5. <<under(i), under(a)>> \in StrictSubsetOrdering(K)
      BY <3>3, <3>4 DEF StrictSubsetOrdering
    <3> QED BY <2>3, <3>5
  <2> QED BY <1>2, <2>4
<1>4. \E b \in K : \A i \in K : i <= b
  <2> DEFINE above(i) == {j \in K : j > i}
             T == {above(i) : i \in K}
  <2>1. T \subseteq SUBSET K /\ T # {}
    OBVIOUS
  <2>2. \E S \in T : \A U \in T : ~(<<U, S>> \in StrictSubsetOrdering(K))
    <3> HIDE DEF T
    <3> QED BY <1>1, <2>1, WFMin
  <2>3. PICK b \in K : \A i \in K : ~(<<above(i), above(b)>> \in StrictSubsetOrdering(K))
    BY <2>2
  <2>4. ASSUME NEW i \in K, i > b PROVE FALSE
    <3>1. i \in Nat /\ b \in Nat /\ (\A j \in K : j \in Nat /\ (j > i => j > b))
      BY <1>2, <2>4
    <3>2. i \in above(b) /\ i \notin above(i)
      BY <2>4, <3>1
    <3>3. above(i) \subseteq above(b)
      BY <3>1
    <3>4. above(i) # above(b) /\ above(i) \in SUBSET K /\ above(b) \in SUBSET K
      BY <3>2
    <3> HIDE DEF above
    <3>5. <<above(i), above(b)>> \in StrictSubsetOrdering(K)
      BY <3>3, <3>4 DEF StrictSubsetOrdering
    <3> QED BY <2>3, <3>5
  <2> QED BY <1>2, <2>4
<1> QED BY <1>3, <1>4

(* The first and the last in the order of the walk.                        *)
LEMMA OrderEnds ==
    ASSUME NEW K \in SUBSET Items, K # {}
    PROVE  \E first, last \in K :
              \A i \in K : (i = first \/ Before(first, i)) /\ (i = last \/ Before(i, last))
<1>1. PICK a \in K, b \in K : \A i \in K : a <= i /\ i <= b
  BY ItemEnds
<1>2. K \subseteq Nat
  BY FeedsAssumption DEF Items
<1>3. \A i \in K : (i = a \/ a < i) /\ (i = b \/ i < b)
  BY <1>1, <1>2
<1>4. CASE feedMix.sort = "newest"
  BY <1>2, <1>3, <1>4 DEF Before
<1>5. CASE feedMix.sort # "newest"
  BY <1>2, <1>3, <1>5 DEF Before
<1> QED BY <1>4, <1>5

LEMMA BeforeOrder ==
    /\ \A i \in Items : ~Before(i, i)
    /\ \A i, j, k \in Items : Before(i, j) /\ Before(j, k) => Before(i, k)
<1>1. Items \subseteq Nat
  BY FeedsAssumption DEF Items
<1> QED BY <1>1 DEF Before

(* How many rows come before an item.                                      *)
Rank(rows, i) == Cardinality({j \in rows : Before(j, i)})

LEMMA DisjointSum ==
    ASSUME NEW S, IsFiniteSet(S), NEW T, IsFiniteSet(T), S \cap T = {}
    PROVE  Cardinality(S \cup T) = Cardinality(S) + Cardinality(T)
<1>1. Cardinality(S \cup T) = Cardinality(S) + Cardinality(T) - Cardinality(S \cap T)
  BY FS_Union, Zenon
<1>2. Cardinality(S) \in Nat /\ Cardinality(T) \in Nat /\ Cardinality(S \cap T) = 0
  BY FS_CardinalityType, FS_EmptySet
<1> QED BY <1>1, <1>2

(* When rows A become rows B, no more of them move to the front of place s *)
(* than rows were taken out.                                               *)
LEMMA RankShift ==
    ASSUME NEW A \in SUBSET Items, NEW B \in SUBSET Items, NEW s \in Nat
    PROVE  Cardinality({i \in A \cap B : Rank(A, i) >= s /\ Rank(B, i) < s}) <= Cardinality(A \ B)
<1> DEFINE K == {i \in A \cap B : Rank(A, i) >= s /\ Rank(B, i) < s}
<1>1. \A S \in SUBSET Items : IsFiniteSet(S) /\ Cardinality(S) \in Nat
  BY CardinalityBound
<1>2. CASE K = {}
  BY <1>1, <1>2, FS_EmptySet
<1>3. CASE K # {}
  <2>1. PICK first \in K, last \in K :
           \A i \in K : (i = first \/ Before(first, i)) /\ (i = last \/ Before(i, last))
    BY <1>3, OrderEnds
  <2> DEFINE P == {j \in A : Before(j, first)}
             Q == {j \in B : Before(j, last)}
  <2>2. Cardinality(P) >= s /\ Cardinality(Q) < s
    BY DEF Rank
  <2>3. K \in SUBSET Items /\ P \in SUBSET Items /\ Q \in SUBSET Items
    OBVIOUS
  <2>4. (P \cap B) \cup (K \ {last}) \subseteq Q
    <3>1. first \in Items /\ last \in Items /\ (first = last \/ Before(first, last))
      BY <2>1, <2>3
    <3>2. ASSUME NEW i \in P \cap B PROVE i \in B /\ Before(i, last)
      <4>1. i \in Items /\ Before(i, first)
        OBVIOUS
      <4> QED BY <3>1, <4>1, BeforeOrder
    <3>3. \A i \in K \ {last} : i \in B /\ Before(i, last)
      BY <2>1
    <3> QED BY <3>2, <3>3
  <2>5. (P \cap B) \cap (K \ {last}) = {}
    BY <2>1, <2>3, BeforeOrder
  <2>6. P \ B \subseteq A \ B
    OBVIOUS
  <2> HIDE DEF K, P, Q
  <2>7. Cardinality(K \ {last}) = Cardinality(K) - 1
    BY <1>1, <2>1, <2>3, FS_RemoveElement
  <2>8. Cardinality((P \cap B) \cup (K \ {last})) = Cardinality(P \cap B) + Cardinality(K \ {last})
    <3>1. IsFiniteSet(P \cap B) /\ IsFiniteSet(K \ {last})
      BY <1>1, <2>3
    <3> QED BY <2>5, <3>1, DisjointSum
  <2>9. Cardinality((P \cap B) \cup (K \ {last})) <= Cardinality(Q)
    BY <1>1, <2>3, <2>4, FS_Subset
  <2>10. Cardinality(P \ B) = Cardinality(P) - Cardinality(P \cap B)
    BY <1>1, <2>3, FS_Difference
  <2>11. Cardinality(P \ B) <= Cardinality(A \ B)
    BY <1>1, <2>6, FS_Subset
  <2>12. /\ Cardinality(K) \in Nat /\ Cardinality(P) \in Nat /\ Cardinality(Q) \in Nat
         /\ Cardinality(P \cap B) \in Nat /\ Cardinality(A \ B) \in Nat
    BY <1>1, <2>3
  <2>13. Cardinality(K) <= Cardinality(A \ B)
    BY <2>2, <2>7, <2>8, <2>9, <2>10, <2>11, <2>12
  <2> QED BY <2>13 DEF K
<1> QED BY <1>2, <1>3

LEMMA UnionBound ==
    ASSUME NEW S, IsFiniteSet(S), NEW T, IsFiniteSet(T), NEW U \in SUBSET (S \cup T)
    PROVE  Cardinality(U) <= Cardinality(S) + Cardinality(T)
<1>1. Cardinality(S \cup T) = Cardinality(S) + Cardinality(T) - Cardinality(S \cap T)
      /\ IsFiniteSet(S \cup T)
  BY FS_Union, Zenon
<1>2. IsFiniteSet(S \cap T)
  BY FS_Subset
<1>3. Cardinality(U) <= Cardinality(S \cup T) /\ IsFiniteSet(U)
  BY <1>1, FS_Subset
<1>4. /\ Cardinality(S) \in Nat /\ Cardinality(T) \in Nat /\ Cardinality(S \cap T) \in Nat
      /\ Cardinality(U) \in Nat /\ Cardinality(S \cup T) \in Nat
  BY <1>1, <1>2, <1>3, FS_CardinalityType
<1> QED BY <1>1, <1>3, <1>4

-----------------------------------------------------------------------------
(* The walk by page number                                                 *)

(* The rows before the page that comes next.                               *)
Skip == (walk.at - 1) * feedMix.limit

(* What the walk has gone past without showing it, and what it has shown   *)
(* and has ahead again.                                                    *)
Missed == {i \in kept : shown[i] = 0 /\ Rank(Listed, i) < Skip}
Again == {i \in Listed : shown[i] # 0 /\ Rank(Listed, i) >= Skip}

PagesInv ==
    /\ kept \subseteq Listed
    /\ walk.at # 0
    /\ \A i \in Items : stage[i] \in {"none", "making"} => shown[i] = 0
    /\ walk.st = "new" => walk.at = 1 /\ kept = {} /\ \A i \in Items : shown[i] = 0
    /\ walk.st = "going" => /\ Cardinality(Missed) <= leaves
                            /\ Cardinality(Repeats) + Cardinality(Again) <= enters
    /\ walk.st = "over" => /\ Cardinality({i \in kept : shown[i] = 0}) <= leaves
                           /\ Cardinality(Repeats) <= enters

LEMMA RepeatsFinite ==
    /\ IsFiniteSet(Repeats) /\ Cardinality(Repeats) \in Nat
    /\ IsFiniteSet(Repeats') /\ Cardinality(Repeats') \in Nat
<1>1. IsFiniteSet(Items) /\ IsFiniteSet(2..(MaxItems + 1))
  BY FeedsAssumption, FS_Interval DEF Items
<1>2. IsFiniteSet(Items \X (2..(MaxItems + 1)))
  BY <1>1, FS_Product
<1>3. Repeats \subseteq Items \X (2..(MaxItems + 1)) /\ Repeats' \subseteq Items \X (2..(MaxItems + 1))
  BY DEF Repeats
<1> QED BY <1>2, <1>3, FS_Subset, FS_CardinalityType

LEMMA ChangePages ==
    ASSUME FeedsTypeOK, PagesInv, NEW stages, Change(stages),
           \A i \in Passing(stages) \ Listed : stage[i] = "making",
           \A i \in Items : stages[i] \in {"none", "making"} => stage[i] \in {"none", "making"}
    PROVE  PagesInv'
<1> DEFINE N == Passing(stages)
<1>1. /\ Listed' = N /\ kept' = kept \cap N /\ stage' = stages
      /\ walk' = walk /\ shown' = shown /\ feedMix' = feedMix
      /\ walk.st = "going" => /\ leaves' = leaves + Cardinality(Listed \ N)
                              /\ enters' = enters + Cardinality(N \ Listed)
      /\ walk.st # "going" => leaves' = leaves /\ enters' = enters
  BY DEF Change, Listed, Passing
<1>2. N \in SUBSET Items /\ Listed \in SUBSET Items /\ kept \subseteq Listed
  BY PassingItems DEF Listed, PagesInv
<1>3. \A S \in SUBSET Items : IsFiniteSet(S) /\ Cardinality(S) \in Nat
  BY CardinalityBound
<1>4. Skip \in Nat /\ Skip' = Skip /\ leaves \in Nat /\ enters \in Nat
  <2>1. walk.at \in Nat \ {0} /\ feedMix.limit \in Nat
    BY MixType, FeedsAssumption DEF PagesInv, FeedsTypeOK
  <2> QED BY <1>1, <2>1 DEF Skip, FeedsTypeOK
<1>5. Repeats' = Repeats
  BY <1>1 DEF Repeats
<1> HIDE DEF N
<1>6. ASSUME NEW i \in Items PROVE Rank(Listed, i)' = Rank(N, i)
  <2>1. {j \in Listed : Before(j, i)}' = {j \in N : Before(j, i)}
    BY <1>1 DEF Before
  <2> QED BY <2>1 DEF Rank
<1>7. CASE walk.st = "going"
  <2> DEFINE Up == {i \in Listed \cap N : Rank(Listed, i) >= Skip /\ Rank(N, i) < Skip}
             Down == {i \in N \cap Listed : Rank(N, i) >= Skip /\ Rank(Listed, i) < Skip}
  <2>1. Cardinality(Up) <= Cardinality(Listed \ N) /\ Cardinality(Down) <= Cardinality(N \ Listed)
    BY <1>2, <1>4, RankShift
  <2>2. \A i \in Items : Rank(Listed, i) \in Nat /\ Rank(N, i) \in Nat
    BY <1>2, <1>3 DEF Rank
  <2>3. Missed' \in SUBSET (Missed \cup Up)
    <3>1. Missed' = {i \in kept \cap N : shown[i] = 0 /\ Rank(N, i) < Skip}
      BY <1>1, <1>2, <1>4, <1>6 DEF Missed
    <3> QED BY <1>2, <1>4, <2>2, <3>1 DEF Missed
  <2>4. Again' \in SUBSET (Again \cup Down)
    <3>1. Again' = {i \in N : shown[i] # 0 /\ Rank(N, i) >= Skip}
      BY <1>1, <1>2, <1>4, <1>6 DEF Again
    <3>2. \A i \in N \ Listed : shown[i] = 0
      BY <1>2 DEF N, PagesInv
    <3> QED BY <1>2, <1>4, <2>2, <3>1, <3>2 DEF Again
  <2>5. Missed \in SUBSET Items /\ Again \in SUBSET Items /\ Up \in SUBSET Items /\ Down \in SUBSET Items
    BY <1>2 DEF Missed, Again
  <2> HIDE DEF Up, Down
  <2>6. /\ Cardinality(Missed') <= Cardinality(Missed) + Cardinality(Up)
        /\ Cardinality(Again') <= Cardinality(Again) + Cardinality(Down)
    BY <1>3, <2>3, <2>4, <2>5, UnionBound
  <2>7. Missed' \in SUBSET Items /\ Again' \in SUBSET Items
    BY <2>3, <2>4, <2>5
  <2>8. /\ Cardinality(Missed) \in Nat /\ Cardinality(Again) \in Nat /\ Cardinality(Up) \in Nat
        /\ Cardinality(Down) \in Nat /\ Cardinality(Missed') \in Nat /\ Cardinality(Again') \in Nat
        /\ Cardinality(Listed \ N) \in Nat /\ Cardinality(N \ Listed) \in Nat
        /\ Cardinality(Repeats) \in Nat
    BY <1>2, <1>3, <2>5, <2>7, RepeatsFinite
  <2>9. /\ Cardinality(Missed) <= leaves
        /\ Cardinality(Repeats) + Cardinality(Again) <= enters
    BY <1>7 DEF PagesInv
  <2>10. /\ Cardinality(Missed') <= leaves'
         /\ Cardinality(Repeats') + Cardinality(Again') <= enters'
    BY <1>1, <1>4, <1>5, <1>7, <2>1, <2>6, <2>8, <2>9
  <2>11. /\ Cardinality(Missed)' <= leaves'
         /\ (Cardinality(Repeats) + Cardinality(Again))' <= enters'
    BY <2>10
  <2> QED BY <1>1, <1>7, <2>11 DEF PagesInv
<1>8. CASE walk.st # "going"
  <2>1. walk.st = "over" => Cardinality({i \in kept : shown[i] = 0}') <= Cardinality({i \in kept : shown[i] = 0})
    <3>1. {i \in kept : shown[i] = 0}' \subseteq {i \in kept : shown[i] = 0}
          /\ {i \in kept : shown[i] = 0} \in SUBSET Items
      BY <1>1, <1>2
    <3> QED BY <1>3, <3>1, FS_Subset
  <2>2. {i \in kept : shown[i] = 0} \in SUBSET Items /\ {i \in kept : shown[i] = 0}' \in SUBSET Items
    BY <1>1, <1>2
  <2>3. walk.st = "over" => Cardinality({i \in kept : shown[i] = 0}') <= leaves'
    BY <1>1, <1>3, <1>4, <1>8, <2>1, <2>2 DEF PagesInv
  <2> QED BY <1>1, <1>5, <1>8, <2>3 DEF PagesInv
<1> QED BY <1>7, <1>8

(* Only an item shown before is shown once more.                           *)
LEMMA RepeatsGrow ==
    ASSUME FeedsTypeOK, NEW page, NEW back \in SUBSET Items,
           \A i \in page : shown[i] # 0 => i \in back,
           shown' = [i \in Items |-> shown[i] + IF i \in page THEN 1 ELSE 0]
    PROVE  Cardinality(Repeats') <= Cardinality(Repeats) + Cardinality(page \cap back)
<1> DEFINE again == page \cap back
           next(i) == <<i, shown[i] + 1>>
           new == {next(i) : i \in again}
           f == [i \in again |-> next(i)]
<1>1. IsFiniteSet(again)
  BY CardinalityBound
<1>2. f \in Surjection(again, new)
  BY DEF Surjection
<1>3. IsFiniteSet(new) /\ Cardinality(new) <= Cardinality(again)
  <2> HIDE DEF again, new, f
  <2> QED BY <1>1, <1>2, FS_Surjection
<1>4. ASSUME NEW p \in Repeats' PROVE p \in Repeats \cup new
  <2>1. /\ p \in Items \X (2..(MaxItems + 1)) /\ shown'[p[1]] >= p[2]
        /\ p[1] \in Items /\ p[2] \in Nat /\ p[2] >= 2 /\ p = <<p[1], p[2]>>
    BY <1>4, FeedsAssumption DEF Repeats
  <2>2. shown[p[1]] \in Nat /\ shown'[p[1]] = shown[p[1]] + IF p[1] \in page THEN 1 ELSE 0
    BY <2>1 DEF FeedsTypeOK
  <2>3. CASE shown[p[1]] >= p[2]
    BY <2>1, <2>3 DEF Repeats
  <2>4. CASE ~(shown[p[1]] >= p[2])
    <3>1. p[1] \in page /\ p[2] = shown[p[1]] + 1 /\ shown[p[1]] # 0
      BY <2>1, <2>2, <2>4
    <3>2. p[1] \in again /\ p = next(p[1])
      BY <2>1, <3>1
    <3> QED BY <3>2
  <2> QED BY <2>3, <2>4
<1> HIDE DEF new
<1>5. Cardinality(Repeats') <= Cardinality(Repeats) + Cardinality(new)
  <2>1. Repeats' \in SUBSET (Repeats \cup new)
    BY <1>4
  <2> QED BY <1>3, <2>1, RepeatsFinite, UnionBound
<1>6. /\ Cardinality(again) \in Nat /\ Cardinality(new) \in Nat /\ Cardinality(Repeats) \in Nat
      /\ Cardinality(Repeats') \in Nat
  BY <1>1, <1>3, RepeatsFinite, FS_CardinalityType
<1> QED BY <1>3, <1>5, <1>6

LEMMA ShowPages ==
    ASSUME FeedsTypeOK, PagesInv, ListNotifications
    PROVE  PagesInv'
<1> DEFINE n == walk.at
           limit == feedMix.limit
           page == PageOf(Listed, n)
           keptNow == IF walk.st = "new" THEN Listed ELSE kept
           before == {i \in keptNow : shown[i] = 0 /\ Rank(Listed, i) < Skip}
           after == {i \in keptNow : shown'[i] = 0 /\ Rank(Listed, i) < Skip + limit}
<1>1. /\ walk.st # "over"
      /\ shown' = [i \in Items |-> shown[i] + IF i \in page THEN 1 ELSE 0]
      /\ walk' = IF HasNext(Listed, n) THEN [st |-> "going", at |-> n + 1]
                 ELSE [walk EXCEPT !.st = "over"]
      /\ kept' = keptNow
      /\ stage' = stage /\ leaves' = leaves /\ enters' = enters /\ feedMix' = feedMix
  BY DEF ListNotifications, ShowPage
<1>2. /\ Listed \in SUBSET Items /\ kept \subseteq Listed /\ keptNow \subseteq Listed
      /\ n \in Nat \ {0} /\ limit \in Nat \ {0} /\ leaves \in Nat /\ enters \in Nat
      /\ walk.st \in {"new", "going"} /\ shown \in [Items -> Nat]
  BY <1>1, PassingItems, MixType, FeedsAssumption DEF Listed, PagesInv, FeedsTypeOK
<1>3. \A S \in SUBSET Items : IsFiniteSet(S) /\ Cardinality(S) \in Nat
  BY CardinalityBound
<1>4. Listed' = Listed /\ \A i : Rank(Listed, i)' = Rank(Listed, i)
  BY <1>1 DEF Listed, Passing, Rank, Before
<1>5. Skip \in Nat /\ Skip + limit = n * limit
  <2>1. (n - 1) * limit \in Nat /\ (n - 1) * limit + limit = n * limit
    BY <1>2
  <2> QED BY <2>1 DEF Skip
<1>6. \A i \in Listed : Rank(Listed, i) \in Nat /\ Rank(Listed, i) < Cardinality(Listed)
  <2> SUFFICES ASSUME NEW i \in Listed
               PROVE  Rank(Listed, i) \in Nat /\ Rank(Listed, i) < Cardinality(Listed)
    OBVIOUS
  <2> DEFINE S == {j \in Listed : Before(j, i)}
  <2>1. S \in SUBSET Listed /\ S # Listed
    BY <1>2, BeforeOrder
  <2> HIDE DEF S
  <2>2. Cardinality(S) <= Cardinality(Listed) /\ Cardinality(S) # Cardinality(Listed)
    BY <1>2, <1>3, <2>1, FS_Subset
  <2>3. Cardinality(S) \in Nat /\ Cardinality(Listed) \in Nat
    BY <1>2, <1>3, <2>1
  <2>4. Cardinality(S) < Cardinality(Listed)
    BY <2>2, <2>3
  <2> QED BY <2>3, <2>4 DEF Rank, S
<1>7. page = {i \in Listed : Rank(Listed, i) >= Skip /\ Rank(Listed, i) < Skip + limit}
  BY DEF PageOf, Rank, Skip
<1>8. Cardinality(before) <= leaves /\ Cardinality(Repeats) + Cardinality(Again) <= enters
  <2>1. CASE walk.st = "new"
    <3>1. n = 1 /\ \A i \in Items : shown[i] = 0
      BY <2>1 DEF PagesInv
    <3>2. Skip = 0
      BY <1>2, <3>1 DEF Skip
    <3>3. before = {}
      BY <1>2, <1>6, <3>2
    <3>4. Again = {}
      BY <1>2, <3>1 DEF Again
    <3>5. Repeats = {}
      <4>1. \A k \in 2..(MaxItems + 1) : ~(0 >= k)
        BY FeedsAssumption
      <4> QED BY <3>1, <4>1 DEF Repeats
    <3>6. Cardinality({}) = 0
      BY FS_EmptySet
    <3> QED BY <1>2, <3>3, <3>4, <3>5, <3>6
  <2>2. CASE walk.st = "going"
    BY <2>2 DEF PagesInv, Missed
  <2> QED BY <1>2, <2>1, <2>2
<1> HIDE DEF page, n, limit
<1>9. after \subseteq before
  <2> SUFFICES ASSUME NEW i \in after PROVE i \in before
    OBVIOUS
  <2>1. i \in Listed /\ i \in Items /\ shown[i] \in Nat /\ Rank(Listed, i) \in Nat
    BY <1>2, <1>6
  <2>2. shown'[i] = shown[i] + IF i \in page THEN 1 ELSE 0
    BY <1>1, <2>1
  <2>3. i \notin page /\ shown[i] = 0
    BY <2>1, <2>2
  <2> QED BY <1>5, <1>7, <2>1, <2>3
<1>10. Cardinality(after) <= leaves
  <2>1. before \in SUBSET Items
    BY <1>2
  <2> HIDE DEF before, after
  <2>2. Cardinality(after) <= Cardinality(before) /\ Cardinality(after) \in Nat /\ Cardinality(before) \in Nat
    BY <1>3, <1>9, <2>1, FS_Subset
  <2> QED BY <1>2, <1>8, <2>2
<1>11. Again \in SUBSET Items /\ IsFiniteSet(Again)
  BY <1>2, <1>3 DEF Again
<1>12. Cardinality(Repeats') <= Cardinality(Repeats) + Cardinality(page \cap Again)
  <2>1. \A i \in page : shown[i] # 0 => i \in Again
    BY <1>7 DEF Again
  <2> QED BY <1>1, <1>11, <2>1, RepeatsGrow
<1>13. /\ Cardinality(Again \ page) = Cardinality(Again) - Cardinality(page \cap Again)
       /\ Cardinality(Again) \in Nat /\ Cardinality(page \cap Again) \in Nat /\ Cardinality(Again \ page) \in Nat
  <2>1. Again \cap page = page \cap Again
    OBVIOUS
  <2> QED BY <1>3, <1>11, <2>1, FS_Difference
<1>14. /\ Cardinality(Repeats) \in Nat /\ Cardinality(Repeats') \in Nat
  BY RepeatsFinite
<1>15. Cardinality(Repeats') + Cardinality(Again \ page) <= enters
  BY <1>2, <1>8, <1>12, <1>13, <1>14
<1>16. \A i \in Items : stage'[i] \in {"none", "making"} => shown'[i] = 0
  <2> SUFFICES ASSUME NEW i \in Items, stage[i] \in {"none", "making"} PROVE shown'[i] = 0
    BY <1>1
  <2>1. i \notin page
    BY <1>7 DEF Listed, Passing
  <2> QED BY <1>1, <1>2, <2>1 DEF PagesInv
<1>17. CASE HasNext(Listed, n)
  <2>1. walk'.st = "going" /\ walk'.at = n + 1
    BY <1>1, <1>17
  <2>2. Skip' = Skip + limit
    <3>1. Skip' = (walk'.at - 1) * feedMix'.limit
      BY DEF Skip
    <3>2. walk'.at - 1 = n /\ feedMix'.limit = limit
      BY <1>1, <1>2, <2>1 DEF limit
    <3>3. Skip' = n * limit
      BY <3>1, <3>2
    <3> QED BY <1>5, <3>3
  <2>3. Missed' = after
    BY <1>1, <1>4, <2>2 DEF Missed
  <2>4. Again' = Again \ page
    <3>1. Again' = {i \in Listed : shown'[i] # 0 /\ Rank(Listed, i) >= Skip + limit}
      BY <1>4, <2>2 DEF Again
    <3>2. ASSUME NEW i \in Listed
          PROVE  (shown'[i] # 0 /\ Rank(Listed, i) >= Skip + limit) <=> (i \in Again /\ i \notin page)
      <4>1. shown'[i] = shown[i] + IF i \in page THEN 1 ELSE 0
        BY <1>1, <1>2
      <4>2. Rank(Listed, i) \in Nat /\ shown[i] \in Nat
        BY <1>2, <1>6
      <4> QED BY <1>2, <1>5, <1>7, <4>1, <4>2 DEF Again
    <3> QED BY <3>1, <3>2 DEF Again
  <2>5. Cardinality(Missed)' <= leaves' /\ (Cardinality(Repeats) + Cardinality(Again))' <= enters'
    BY <1>1, <1>10, <1>15, <2>3, <2>4
  <2> QED BY <1>1, <1>2, <1>4, <1>16, <2>1, <2>5 DEF PagesInv
<1>18. CASE ~HasNext(Listed, n)
  <2>1. walk'.st = "over" /\ walk'.at = n
    BY <1>1, <1>18 DEF FeedsTypeOK, n
  <2>2. Cardinality(Listed) <= Skip + limit
    BY <1>2, <1>3, <1>5, <1>18 DEF HasNext, limit
  <2>3. {i \in keptNow : shown'[i] = 0} = after
    <3>1. \A i \in Listed : Rank(Listed, i) < Skip + limit
      BY <1>2, <1>3, <1>5, <1>6, <2>2
    <3> QED BY <1>2, <3>1
  <2>4. Cardinality({i \in kept : shown[i] = 0})' <= leaves'
    BY <1>1, <1>10, <2>3
  <2>5. Cardinality(Repeats)' <= enters'
    BY <1>1, <1>2, <1>13, <1>14, <1>15
  <2> QED BY <1>1, <1>2, <1>4, <1>16, <2>1, <2>4, <2>5 DEF PagesInv
<1> QED BY <1>17, <1>18

NumberInv == FeedsTypeOK /\ (feedMix.feed # "messages" => PagesInv)

LEMMA InitNumber == FeedsInit => NumberInv
<1> SUFFICES ASSUME FeedsInit PROVE NumberInv
  OBVIOUS
<1> QED BY InitType DEF FeedsInit, NumberInv, PagesInv, FirstAt

LEMMA NextNumber == NumberInv /\ [FeedsNext]_feedVars => NumberInv'
<1> SUFFICES ASSUME NumberInv, [FeedsNext]_feedVars PROVE NumberInv'
  OBVIOUS
<1>1. FeedsTypeOK /\ FeedsTypeOK'
  BY NextType DEF NumberInv
<1>2. feedMix' = feedMix
  BY DEF FeedsNext, feedVars, DrawItem, CommitItem, HideMessage, MarkRead, MarkAllRead,
     ExpireNotification, ListMessages, ListNotifications, Change, ShowRows, ShowPage
<1> SUFFICES ASSUME feedMix.feed # "messages" PROVE PagesInv'
  BY <1>1, <1>2 DEF NumberInv
<1>3. PagesInv /\ stage \in [Items -> {"none", "making", "unread", "read", "gone"}]
  BY <1>1 DEF NumberInv, FeedsTypeOK
<1>4. ASSUME NEW i \in Items, NEW st \in {"making", "unread", "read", "gone"},
             Change([stage EXCEPT ![i] = st]),
             \/ stage[i] = "none" /\ st = "making"
             \/ stage[i] = "making" /\ st \in {"unread", "gone"}
             \/ stage[i] = "unread" /\ st \in {"read", "gone"}
             \/ stage[i] = "read" /\ st = "gone"
      PROVE  PagesInv'
  <2> DEFINE stages == [stage EXCEPT ![i] = st]
  <2>1. \A j \in Items : stages[j] = IF j = i THEN st ELSE stage[j]
    BY <1>3
  <2> HIDE DEF stages
  <2>2. \A j \in Passing(stages) \ Listed : stage[j] = "making"
    BY <1>3, <1>4, <2>1 DEF Passing, Listed
  <2>3. \A j \in Items : stages[j] \in {"none", "making"} => stage[j] \in {"none", "making"}
    BY <1>4, <2>1
  <2>4. Change(stages)
    BY <1>4 DEF stages
  <2> QED BY <1>1, <1>3, <2>2, <2>3, <2>4, ChangePages
<1>5. CASE \E i \in Items : DrawItem(i) \/ CommitItem(i) \/ HideMessage(i) \/ MarkRead(i)
                              \/ ExpireNotification(i)
  <2>1. PICK i \in Items : DrawItem(i) \/ CommitItem(i) \/ HideMessage(i) \/ MarkRead(i)
                             \/ ExpireNotification(i)
    BY <1>5
  <2>2. PICK st \in {"making", "unread", "read", "gone"} :
           /\ Change([stage EXCEPT ![i] = st])
           /\ \/ stage[i] = "none" /\ st = "making"
              \/ stage[i] = "making" /\ st \in {"unread", "gone"}
              \/ stage[i] = "unread" /\ st \in {"read", "gone"}
              \/ stage[i] = "read" /\ st = "gone"
    BY <2>1 DEF DrawItem, CommitItem, HideMessage, MarkRead, ExpireNotification
  <2> QED BY <1>4, <2>2
<1>6. CASE MarkAllRead
  <2> DEFINE stages == [i \in Items |-> IF stage[i] = "unread" THEN "read" ELSE stage[i]]
  <2>1. Change(stages)
    BY <1>6 DEF MarkAllRead
  <2>2. \A i \in Passing(stages) \ Listed : stage[i] = "making"
    BY <1>3 DEF Passing, Listed
  <2>3. \A i \in Items : stages[i] \in {"none", "making"} => stage[i] \in {"none", "making"}
    OBVIOUS
  <2> HIDE DEF stages
  <2> QED BY <1>1, <1>3, <2>1, <2>2, <2>3, ChangePages
<1>7. CASE ListNotifications
  BY <1>1, <1>3, <1>7, ShowPages
<1>8. CASE UNCHANGED feedVars
  <2>1. /\ stage' = stage /\ walk' = walk /\ shown' = shown /\ kept' = kept
        /\ leaves' = leaves /\ enters' = enters
    BY <1>8 DEF feedVars
  <2> QED BY <1>2, <1>3, <2>1 DEF PagesInv, Missed, Again, Repeats, Rank, Skip, Before, Listed, Passing
<1>9. ~ListMessages
  BY DEF ListMessages
<1> QED BY <1>5, <1>6, <1>7, <1>8, <1>9 DEF FeedsNext

(* However notifications arrive late, are read and expire while a reader   *)
(* pages through them by number, whatever the page size and the order: at  *)
(* most one is missed for each that left the list meanwhile, and at most   *)
(* one shown again for each that entered it.                               *)
THEOREM NumberedWalksNearlyComplete == FeedsSpec => [](feedMix.feed # "messages" => WalksComplete)
<1>1. NumberInv => (feedMix.feed # "messages" => WalksComplete)
  <2> SUFFICES ASSUME FeedsTypeOK, PagesInv, feedMix.feed # "messages" PROVE WalksComplete
    BY DEF NumberInv
  <2>1. walk.st \in {"new", "going", "over"} /\ leaves \in Nat /\ enters \in Nat
    BY DEF FeedsTypeOK
  <2>2. walk.st = "over" => Cardinality({i \in kept : shown[i] = 0}) <= leaves
    BY DEF PagesInv
  <2>3. Cardinality(Repeats) <= enters
    <3>1. CASE walk.st = "new"
      <4>1. \A i \in Items : shown[i] = 0
        BY <3>1 DEF PagesInv
      <4>2. \A k \in 2..(MaxItems + 1) : ~(0 >= k)
        BY FeedsAssumption
      <4>3. Repeats = {}
        BY <4>1, <4>2 DEF Repeats
      <4> QED BY <2>1, <4>3, FS_EmptySet
    <3>2. CASE walk.st = "going"
      <4>1. Cardinality(Repeats) + Cardinality(Again) <= enters
        BY <3>2 DEF PagesInv
      <4>2. Again \in SUBSET Items
        BY PassingItems DEF Again, Listed
      <4> QED BY <2>1, <4>1, <4>2, RepeatsFinite, CardinalityBound
    <3>3. CASE walk.st = "over"
      BY <3>3 DEF PagesInv
    <3> QED BY <2>1, <3>1, <3>2, <3>3
  <2> QED BY <2>2, <2>3 DEF WalksComplete
<1> QED BY <1>1, InitNumber, NextNumber, PTL DEF FeedsSpec

(* A reader who pages to the end, by cursor or by number, has seen what    *)
(* was there all the time, but for one notification for each that left the *)
(* list meanwhile, and none twice, but for one for each that entered it.   *)
THEOREM WalksAreComplete == FeedsSpec => []WalksComplete
<1>1. /\ feedMix.feed = "messages" => WalksComplete
      /\ feedMix.feed # "messages" => WalksComplete
      => WalksComplete
  OBVIOUS
<1> QED BY <1>1, CursorWalksComplete, NumberedWalksNearlyComplete, PTL

-----------------------------------------------------------------------------
(* The three modules side by side: a behaviour of all is a behaviour of    *)
(* each, so that all theorems above hold of it.                            *)
THEOREM RoomsAreAll == AllSpec => Spec /\ RealtimeSpec /\ FeedsSpec
<1>1. AllInit => Init /\ RealtimeInit /\ FeedsInit
  BY DEF AllInit
<1>2. [AllNext]_<<vars, rtVars, feedVars>>
         => [Next]_vars /\ [RealtimeNext]_rtVars /\ [FeedsNext]_feedVars
  <2> SUFFICES ASSUME AllNext PROVE [Next]_vars /\ [RealtimeNext]_rtVars /\ [FeedsNext]_feedVars
    OBVIOUS
  <2>1. \/ Next /\ UNCHANGED <<rtVars, feedVars>>
        \/ RealtimeNext /\ UNCHANGED <<vars, feedVars>>
        \/ FeedsNext /\ UNCHANGED <<vars, rtVars>>
    BY Zenon DEF AllNext, Chan, Sock, Walk, Next, Start, Read, Write, RealtimeNext, FeedsNext
  <2> QED BY <2>1
<1> QED BY <1>1, <1>2, PTL DEF AllSpec, Spec, RealtimeSpec, FeedsSpec

(* While the three run side by side, the types of all of them hold.        *)
THEOREM RoomsTypes == AllSpec => []TypesOK
<1>1. TypeInv /\ RealtimeTypeOK /\ FeedsTypeOK => TypesOK
  BY DEF TypesOK, TypeInv
<1> QED BY <1>1, RoomsAreAll, ChannelTypes, RealtimeTypes, FeedTypes, PTL
=============================================================================
