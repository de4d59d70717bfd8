----------------------------- MODULE Workspaces -----------------------------
(***************************************************************************)
(* The members of one workspace: services/workspace.service, the guard     *)
(* middlewares/workspaceAccess in front of it and the Redis entries the    *)
(* guard reads through (cache.service).                                    *)
(*                                                                         *)
(* A request passes the guard, reads documents, writes them in one         *)
(* transaction and then drops cache entries.  Every await is a step and    *)
(* the steps of two requests interleave.  A Redis command may fail when    *)
(* RedisFails: a read is then a miss and a write or a drop does nothing.   *)
(***************************************************************************)
EXTENDS Integers, FiniteSets

CONSTANTS
    Users,        \* accounts
    Root,         \* the super admin, who passes every guard unasked
    Actors,       \* who sends requests: users, or Root
    Roles,        \* roles that addMember and updateMemberRole may assign
    Requests,     \* slots for requests in flight
    Offered,      \* the operations they ask for
    RedisFails,   \* whether a Redis command may fail
    MaxJoins,     \* bound on the membership documents ever created
    Null          \* nobody, or a value not read yet

ASSUME WorkspacesAssumption ==
    /\ IsFiniteSet(Users)
    /\ Root \notin Users
    /\ Actors \subseteq Users \cup {Root}
    /\ Roles \subseteq {"admin", "member", "viewer"}
    /\ Offered \subseteq {"visit", "add", "setRole", "remove", "leave", "transfer"}
    /\ RedisFails \in BOOLEAN
    /\ MaxJoins \in Nat
    /\ Null \notin Users /\ Null # Root

VARIABLES
    owner,         \* workspace.owner, Null before the workspace exists
    memberCount,   \* workspace.memberCount
    doc,           \* a user's membership document: its id, 0 for none
    role,          \* ... and the role it holds, "none" for no document
    joins,         \* ids given out so far
    cache,         \* a user's cache:membership entry, "miss" for none
    req            \* the requests in flight

database == <<owner, memberCount, doc, role, joins>>
vars == <<database, cache, req>>

RoleNames == {"owner", "admin", "member", "viewer"}

(* "none" is the cached false of somebody who is not a member.             *)
Answers == RoleNames \cup {"none"}

Rank(r) == CASE r = "owner" -> 4 [] r = "admin" -> 3 [] r = "member" -> 2
             [] r = "viewer" -> 1 [] OTHER -> 0

Ops == {"none", "visit", "add", "setRole", "remove", "leave", "transfer"}

(* The role each route asks requireWorkspaceRole for.                      *)
MinimumRole(op) ==
    CASE op \in {"add", "setRole", "remove"} -> "admin"
      [] op = "transfer" -> "owner"
      [] OTHER -> "viewer"

Steps == {"idle", "guard", "load", "store", "check", "find", "owner", "write", "forget"}

(***************************************************************************)
(* What a handler holds: actor and target ids, the role asked for, the     *)
(* guard's answer, the membership document it found and that one's role,   *)
(* the owner it read and the cache entries it still has to drop.           *)
(***************************************************************************)
Request ==
    [op : Ops, step : Steps, actor : Users \cup {Root, Null}, target : Users \cup {Null},
     newRole : Roles \cup {Null}, answer : Answers, found : Nat, was : Answers,
     owner : Users \cup {Null}, drop : SUBSET Users]

Idle ==
    [op |-> "none", step |-> "idle", actor |-> Null, target |-> Null,
     newRole |-> Null, answer |-> "none", found |-> 0, was |-> "none",
     owner |-> Null, drop |-> {}]

TypeOK ==
    /\ owner \in Users \cup {Null}
    /\ memberCount \in Int
    /\ doc \in [Users -> Nat]
    /\ role \in [Users -> Answers]
    /\ joins \in Nat
    /\ cache \in [Users -> Answers \cup {"miss"}]
    /\ req \in [Requests -> Request]
    /\ \A u \in Users : (doc[u] = 0 <=> role[u] = "none") /\ doc[u] <= joins

Members == {u \in Users : doc[u] # 0}

Init ==
    /\ owner = Null
    /\ memberCount = 0
    /\ doc = [u \in Users |-> 0]
    /\ role = [u \in Users |-> "none"]
    /\ joins = 0
    /\ cache = [u \in Users |-> "miss"]
    /\ req = [s \in Requests |-> Idle]

-----------------------------------------------------------------------------
(* createWorkspace: the workspace and its owner's membership, one          *)
(* transaction.                                                            *)
CreateWorkspace(u) ==
    /\ owner = Null
    /\ owner' = u
    /\ memberCount' = 1
    /\ joins' = joins + 1
    /\ doc' = [doc EXCEPT ![u] = joins']
    /\ role' = [role EXCEPT ![u] = "owner"]
    /\ UNCHANGED <<cache, req>>

\* Mutant: roles are cached without a TTL.
ExpireRefusals(u) ==
    /\ cache[u] = "none"
    /\ cache' = [cache EXCEPT ![u] = "miss"]
    /\ UNCHANGED <<database, req>>

(* After MEDIUM seconds Redis forgets an entry.                            *)
Expire(u) ==
    /\ cache[u] # "miss"
    /\ cache' = [cache EXCEPT ![u] = "miss"]
    /\ UNCHANGED <<database, req>>

-----------------------------------------------------------------------------
Go(s, r) == req' = [req EXCEPT ![s] = r]

Refuse(s) == Go(s, Idle) /\ UNCHANGED <<database, cache>>

(* Where a handler goes once the guard let it in: addMember only checks    *)
(* that there is no membership, the others find the target's document.     *)
AfterGuard(op) == CASE op = "visit" -> "idle" [] op = "add" -> "check" [] OTHER -> "find"

Enter(r) == IF r.op = "visit" THEN Idle ELSE [r EXCEPT !.step = AfterGuard(r.op)]

Start(s) ==
    \E a \in Actors, u \in Users, op \in Offered, new \in Roles :
        LET r == [Idle EXCEPT
                    !.op = op, !.step = "guard", !.actor = a,
                    !.target = IF op = "leave" THEN a ELSE u,
                    !.newRole = IF op \in {"add", "setRole"} THEN new ELSE Null]
        IN  /\ req[s] = Idle /\ owner # Null
            /\ op = "leave" => a \in Users
            /\ op = "add" => joins < MaxJoins
            /\ Go(s, r)
            /\ UNCHANGED <<database, cache>>

-----------------------------------------------------------------------------
(* requireWorkspaceRole, with remember inside loadMembership.              *)

Decide(s, answer) ==
    IF Rank(answer) >= Rank(MinimumRole(req[s].op)) THEN Go(s, Enter(req[s])) ELSE Go(s, Idle)

GuardUnrestricted(s) ==
    /\ req[s].step = "guard" /\ req[s].actor = Root
    /\ Go(s, Enter(req[s]))
    /\ UNCHANGED <<database, cache>>

GuardHit(s) ==
    LET a == req[s].actor
    IN  /\ req[s].step = "guard" /\ a \in Users
        /\ cache[a] # "miss"
        /\ Decide(s, cache[a])
        /\ UNCHANGED <<database, cache>>

GuardMiss(s) ==
    LET a == req[s].actor
    IN  /\ req[s].step = "guard" /\ a \in Users
        /\ cache[a] = "miss" \/ RedisFails
        /\ Go(s, [req[s] EXCEPT !.step = "load"])
        /\ UNCHANGED <<database, cache>>

GuardLoad(s) ==
    /\ req[s].step = "load"
    /\ Go(s, [req[s] EXCEPT !.step = "store", !.answer = role[req[s].actor]])
    /\ UNCHANGED <<database, cache>>

GuardStore(s) ==
    LET r == req[s]
    IN  /\ r.step = "store"
        /\ \/ cache' = [cache EXCEPT ![r.actor] = r.answer]
           \/ RedisFails /\ cache' = cache
        /\ Decide(s, r.answer)
        /\ UNCHANGED database

-----------------------------------------------------------------------------
(* The reads of the handlers.                                              *)

(* addMember: Membership.exists.                                           *)
CheckAbsent(s) ==
    LET r == req[s]
    IN  /\ r.step = "check"
        /\ \/ doc[r.target] # 0 /\ Refuse(s)
           \/ /\ doc[r.target] = 0
              /\ Go(s, [r EXCEPT !.step = "write"])
              /\ UNCHANGED <<database, cache>>

\* Mutant: the handler goes on without a membership document.
FindAnybody(s) ==
    LET r == req[s]
        u == r.target
        refused == r.op # "transfer" /\ role[u] = "owner"
    IN  /\ r.step = "find"
        /\ \/ refused /\ Refuse(s)
           \/ /\ ~refused
              /\ Go(s, CASE r.op = "leave" -> [r EXCEPT !.op = "remove"]
                         [] r.op = "transfer" -> [r EXCEPT !.step = "owner"]
                         [] OTHER -> [r EXCEPT !.step = "write", !.found = doc[u],
                                               !.was = role[u]])
              /\ UNCHANGED <<database, cache>>

(* Membership.findOne; the owner is refused except by a transfer, and      *)
(* leaveWorkspace goes on to removeMember, which finds once more.          *)
FindMember(s) ==
    LET r == req[s]
        u == r.target
        refused == doc[u] = 0 \/ (r.op # "transfer" /\ role[u] = "owner")
    IN  /\ r.step = "find"
        /\ \/ refused /\ Refuse(s)
           \/ /\ ~refused
              /\ Go(s, CASE r.op = "leave" -> [r EXCEPT !.op = "remove"]
                         [] r.op = "transfer" -> [r EXCEPT !.step = "owner"]
                         [] OTHER -> [r EXCEPT !.step = "write", !.found = doc[u],
                                               !.was = role[u]])
              /\ UNCHANGED <<database, cache>>

(* transferOwnership reads workspace.owner outside its transaction.        *)
ReadOwner(s) ==
    /\ req[s].step = "owner"
    /\ Go(s, [req[s] EXCEPT !.step = "write", !.owner = owner])
    /\ UNCHANGED <<database, cache>>

-----------------------------------------------------------------------------
(* The writes.  addMember does not drop a cache entry; the others go on to *)
(* forget the entries of the users they changed.                           *)

Writing(s, op) == req[s].step = "write" /\ req[s].op = op

\* Mutant: no cache entry is dropped.
ForgettingNobody(r, users) == Idle

Forgetting(r, users) == [r EXCEPT !.step = "forget", !.drop = users]

\* Mutant: no unique index stops a second document.
AddMemberAgain(s) ==
    LET r == req[s]
        u == r.target
    IN  /\ Writing(s, "add")
        /\ joins' = joins + 1
        /\ doc' = [doc EXCEPT ![u] = joins']
        /\ role' = [role EXCEPT ![u] = r.newRole]
        /\ memberCount' = memberCount + 1
        /\ Go(s, Idle)
        /\ UNCHANGED <<owner, cache>>

AddMember(s) ==
    LET r == req[s]
        u == r.target
    IN  /\ Writing(s, "add")
        /\ doc[u] = 0
        /\ joins' = joins + 1
        /\ doc' = [doc EXCEPT ![u] = joins']
        /\ role' = [role EXCEPT ![u] = r.newRole]
        /\ memberCount' = memberCount + 1
        /\ Go(s, Idle)
        /\ UNCHANGED <<owner, cache>>

(* The unique index on workspace and user aborts the transaction.          *)
AddDuplicate(s) ==
    /\ Writing(s, "add")
    /\ doc[req[s].target] # 0
    /\ Refuse(s)

(* save writes the role if it changed, to the document that was found.     *)
SetRole(s) ==
    LET r == req[s]
        u == r.target
    IN  /\ Writing(s, "setRole")
        /\ doc[u] = r.found
        /\ role' = [role EXCEPT ![u] = IF r.newRole = r.was THEN @ ELSE r.newRole]
        /\ Go(s, Forgetting(r, {u}))
        /\ UNCHANGED <<owner, memberCount, doc, joins, cache>>

(* The document is gone: save finds nothing to update and throws.          *)
SetRoleOfNobody(s) ==
    /\ Writing(s, "setRole")
    /\ doc[req[s].target] # req[s].found
    /\ Refuse(s)

\* Mutant: the counter is not touched.
RemoveMemberUncounted(s) ==
    LET r == req[s]
        u == r.target
        deleted == doc[u] = r.found
    IN  /\ Writing(s, "remove")
        /\ doc' = [doc EXCEPT ![u] = IF deleted THEN 0 ELSE @]
        /\ role' = [role EXCEPT ![u] = IF deleted THEN "none" ELSE @]
        /\ Go(s, Forgetting(r, {u}))
        /\ UNCHANGED <<owner, memberCount, joins, cache>>

(* deleteOne by the id that was found; the count drops in any case.        *)
RemoveMember(s) ==
    LET r == req[s]
        u == r.target
        deleted == doc[u] = r.found
    IN  /\ Writing(s, "remove")
        /\ doc' = [doc EXCEPT ![u] = IF deleted THEN 0 ELSE @]
        /\ role' = [role EXCEPT ![u] = IF deleted THEN "none" ELSE @]
        /\ memberCount' = memberCount - 1
        /\ Go(s, Forgetting(r, {u}))
        /\ UNCHANGED <<owner, joins, cache>>

\* Mutant: the previous owner keeps the role.
TransferSharing(s) ==
    LET r == req[s]
        next == r.target
    IN  /\ Writing(s, "transfer")
        /\ role' = [u \in Users |->
                      IF doc[u] = 0 THEN "none" ELSE IF u = next THEN "owner" ELSE role[u]]
        /\ owner' = next
        /\ Go(s, Forgetting(r, {r.owner, next}))
        /\ UNCHANGED <<memberCount, doc, joins, cache>>

(* Both role updates go by user, so they change what is there now, if      *)
(* anything; the second one wins when both name the same user.             *)
TransferOwnership(s) ==
    LET r == req[s]
        next == r.target
    IN  /\ Writing(s, "transfer")
        /\ role' = [u \in Users |->
                      IF doc[u] = 0 THEN "none"
                      ELSE IF u = next THEN "owner"
                      ELSE IF u = r.owner THEN "admin" ELSE role[u]]
        /\ owner' = next
        /\ Go(s, Forgetting(r, {r.owner, next}))
        /\ UNCHANGED <<memberCount, doc, joins, cache>>

(* forgetMembership, one key after the other in any order.                 *)
Forget(s) ==
    LET r == req[s]
    IN  /\ r.step = "forget"
        /\ \E u \in r.drop :
              /\ \/ cache' = [cache EXCEPT ![u] = "miss"]
                 \/ RedisFails /\ cache' = cache
              /\ Go(s, IF r.drop = {u} THEN Idle ELSE [r EXCEPT !.drop = @ \ {u}])
        /\ UNCHANGED database

-----------------------------------------------------------------------------
Guard(s) ==
    GuardUnrestricted(s) \/ GuardHit(s) \/ GuardMiss(s) \/ GuardLoad(s) \/ GuardStore(s)

Handle(s) ==
    \/ CheckAbsent(s) \/ FindMember(s) \/ ReadOwner(s)
    \/ AddMember(s) \/ AddDuplicate(s) \/ SetRole(s) \/ SetRoleOfNobody(s)
    \/ RemoveMember(s) \/ TransferOwnership(s) \/ Forget(s)

Next ==
    \/ \E u \in Users : CreateWorkspace(u) \/ Expire(u)
    \/ \E s \in Requests : Start(s) \/ Guard(s) \/ Handle(s)

Spec == Init /\ [][Next]_vars

(* Every await of a handler returns, and Redis honours its TTLs.           *)
Fairness ==
    /\ \A s \in Requests : WF_vars(Guard(s) \/ Handle(s))
    /\ \A u \in Users : WF_vars(Expire(u))

-----------------------------------------------------------------------------
(* Properties.                                                             *)

(* Requests that never overlap.                                            *)
OneAtATime == \A s, t \in Requests : s = t

Quiet == \A s \in Requests : req[s] = Idle

(* The counter kept by addMember, removeMember and leaveWorkspace is the   *)
(* number of membership documents.                                         *)
MemberCountExact == memberCount = Cardinality(Members)

(* However requests overlap, the counter never exceeds the number of       *)
(* memberships: addMember counts only a document it created.               *)
CountNeverOver == memberCount <= Cardinality(Members)

Table == INSTANCE RoleTable WITH owner <- owner, roles <- role, Nobody <- Null

(* The guard, its cache and the handlers act together as RoleTable says:   *)
(* whoever changes a role is entitled to it at the moment of the write, by *)
(* the role stored then and not the one the guard had cached or read, and  *)
(* the three writes of transferOwnership pass the owner role on whole.     *)
ImplementsRoleTable == Table!Spec

(* Removing or demoting a member takes effect at once: when nothing is in  *)
(* flight, no entry lets the guard see a role the database does not hold.  *)
RevocationImmediate ==
    Quiet => \A u \in Users : cache[u] \in {"miss", "none", role[u]}

(* When nothing is in flight the guard answers as the database would.      *)
GuardAgreesWithDatabase ==
    Quiet => \A u \in Users : cache[u] \in {"miss", role[u]}

(* Whatever races and failed drops leave behind, an entry that contradicts *)
(* a settled membership is gone in the end.                                *)
StaleEntriesExpire ==
    \A u \in Users, r \in Answers :
        <>[](role[u] = r) => <>[](cache[u] \in {"miss", r})
=============================================================================
