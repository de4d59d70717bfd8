-------------------------- MODULE Workspaces_proofs --------------------------
(***************************************************************************)
(* Theorems about Workspaces for every set of users, roles and requests,   *)
(* whether or not Redis fails, with the refinement of RoleTable; about     *)
(* CardNews for every set of people, requests and mixes of them; and about *)
(* the two side by side.                                                   *)
(***************************************************************************)
EXTENDS MCTeam, FiniteSetTheorems, SequenceTheorems, TLAPS

(* The fields of a request that its handler has filled in by each step.    *)
RequestOK(r) ==
    /\ r.step # "idle" => r.target \in Users
    /\ r.step = "check" => r.op = "add"
    /\ r.step = "find" => r.op \in {"setRole", "remove", "leave", "transfer"}
    /\ r.step = "owner" => r.op = "transfer"
    /\ r.step # "idle" => r.op # "none"
    /\ r.step \in {"load", "store"} => r.actor \in Users
    /\ r.step # "idle" /\ r.op \in {"add", "setRole"} => r.newRole \in Roles
    /\ r.step = "write" /\ r.op = "transfer" => r.owner \in Users
    /\ r.step = "write" /\ r.op \in {"setRole", "remove"} => r.found # 0

RequestsOK ==
    \A s \in Requests : RequestOK(req[s]) /\ (req[s].step # "idle" => owner # Null)

TypeInv == TypeOK /\ RequestsOK

LEMMA IdleOK == Idle \in Request /\ RequestOK(Idle) /\ Idle.step = "idle"
  BY DEF Idle, Request, RequestOK, Ops, Steps, Answers

LEMMA InitTypeInv == Init => TypeInv
<1> SUFFICES ASSUME Init PROVE TypeInv
  OBVIOUS
<1>1. TypeOK
  BY IdleOK DEF Init, TypeOK, Answers
<1>2. RequestsOK
  BY IdleOK DEF Init, RequestsOK
<1> QED BY <1>1, <1>2 DEF TypeInv

(* A step that leaves the database alone only has to hand on a good        *)
(* request and a good cache.                                               *)
LEMMA DatabaseKept ==
    ASSUME TypeInv, NEW s \in Requests, NEW q \in Request, RequestOK(q),
           q.step # "idle" => owner # Null,
           Go(s, q), UNCHANGED database, cache' \in [Users -> Answers \cup {"miss"}]
    PROVE  TypeInv'
  BY DEF TypeInv, TypeOK, RequestsOK, Go, database

LEMMA EnterOK ==
    ASSUME NEW r \in Request, RequestOK(r), r.step # "idle", r.step # "write"
    PROVE  Enter(r) \in Request /\ RequestOK(Enter(r))
<1>1. CASE r.op = "visit"
  BY <1>1, IdleOK DEF Enter
<1>2. CASE r.op # "visit"
  <2>1. /\ Enter(r) = [r EXCEPT !.step = AfterGuard(r.op)]
        /\ AfterGuard(r.op) = IF r.op = "add" THEN "check" ELSE "find"
    BY <1>2 DEF Enter, AfterGuard
  <2>2. r.op \in {"add", "setRole", "remove", "leave", "transfer"}
    BY <1>2 DEF Request, RequestOK, Ops
  <2> QED BY <2>1, <2>2 DEF Request, RequestOK, Steps
<1> QED BY <1>1, <1>2

LEMMA StartTypeInv ==
    ASSUME TypeInv, NEW s \in Requests, Start(s)
    PROVE  TypeInv'
<1>1. PICK a \in Actors, u \in Users, op \in Offered, new \in Roles :
         LET r == [Idle EXCEPT
                     !.op = op, !.step = "guard", !.actor = a,
                     !.target = IF op = "leave" THEN a ELSE u,
                     !.newRole = IF op \in {"add", "setRole"} THEN new ELSE Null]
         IN  /\ owner # Null
             /\ op = "leave" => a \in Users
             /\ Go(s, r)
             /\ UNCHANGED <<database, cache>>
  BY DEF Start
<1> DEFINE r == [Idle EXCEPT
                   !.op = op, !.step = "guard", !.actor = a,
                   !.target = IF op = "leave" THEN a ELSE u,
                   !.newRole = IF op \in {"add", "setRole"} THEN new ELSE Null]
<1>2. r \in Request /\ RequestOK(r)
  BY <1>1, WorkspacesAssumption DEF Request, RequestOK, Idle, Ops, Steps, Answers
<1>3. cache' \in [Users -> Answers \cup {"miss"}]
  BY <1>1 DEF TypeInv, TypeOK
<1> QED BY <1>1, <1>2, <1>3, DatabaseKept

LEMMA GuardTypeInv ==
    ASSUME TypeInv, NEW s \in Requests, Guard(s)
    PROVE  TypeInv'
<1> DEFINE r == req[s]
<1>0. /\ r \in Request /\ RequestOK(r)
      /\ cache \in [Users -> Answers \cup {"miss"}] /\ role \in [Users -> Answers]
      /\ r.step # "idle" => owner # Null
  BY DEF TypeInv, TypeOK, RequestsOK
<1>1. \A a : r.step \in {"guard", "store"} /\ Decide(s, a)
               => \E q \in Request : RequestOK(q) /\ Go(s, q)
  <2>1. r.step \in {"guard", "store"} => Enter(r) \in Request /\ RequestOK(Enter(r))
    BY <1>0, EnterOK
  <2> QED BY <2>1, IdleOK DEF Decide
<1>2. r.step \in {"guard", "load", "store"}
  BY DEF Guard, GuardUnrestricted, GuardHit, GuardMiss, GuardLoad, GuardStore
<1>3. \E q \in Request : RequestOK(q) /\ Go(s, q)
  <2>1. CASE GuardUnrestricted(s)
    BY <1>0, <2>1, EnterOK DEF GuardUnrestricted
  <2>2. CASE GuardHit(s)
    BY <1>1, <2>2 DEF GuardHit
  <2>3. CASE GuardMiss(s)
    <3> DEFINE q == [r EXCEPT !.step = "load"]
    <3>1. Go(s, q) /\ r.actor \in Users /\ r.step = "guard"
      BY <2>3 DEF GuardMiss
    <3>2. q \in Request /\ RequestOK(q)
      BY <1>0, <3>1 DEF Request, RequestOK, Steps
    <3> QED BY <3>1, <3>2
  <2>4. CASE GuardLoad(s)
    <3> DEFINE q == [r EXCEPT !.step = "store", !.answer = role[r.actor]]
    <3>1. Go(s, q) /\ r.step = "load"
      BY <2>4 DEF GuardLoad
    <3>2. q \in Request /\ RequestOK(q)
      BY <1>0, <3>1 DEF Request, RequestOK, Steps
    <3> QED BY <3>1, <3>2
  <2>5. CASE GuardStore(s)
    BY <1>1, <2>5 DEF GuardStore
  <2> QED BY <2>1, <2>2, <2>3, <2>4, <2>5 DEF Guard
<1>4. cache' \in [Users -> Answers \cup {"miss"}] /\ UNCHANGED database
  <2>1. CASE GuardStore(s)
    <3>1. r.answer \in Answers
      BY <1>0 DEF Request
    <3> QED BY <1>0, <2>1, <3>1 DEF GuardStore
  <2>2. CASE ~GuardStore(s)
    BY <1>0, <2>2 DEF Guard, GuardUnrestricted, GuardHit, GuardMiss, GuardLoad
  <2> QED BY <2>1, <2>2
<1> QED BY <1>0, <1>2, <1>3, <1>4, DatabaseKept

LEMMA ReadTypeInv ==
    ASSUME TypeInv, NEW s \in Requests, CheckAbsent(s) \/ FindMember(s) \/ ReadOwner(s)
    PROVE  TypeInv'
<1> DEFINE r == req[s]
<1>0. /\ r \in Request /\ RequestOK(r) /\ cache \in [Users -> Answers \cup {"miss"}]
      /\ doc \in [Users -> Nat] /\ role \in [Users -> Answers] /\ owner \in Users \cup {Null}
      /\ r.step # "idle" => owner # Null
  BY DEF TypeInv, TypeOK, RequestsOK
<1>1. Refuse(s) => TypeInv'
  BY <1>0, IdleOK, DatabaseKept DEF Refuse
<1>2. CASE CheckAbsent(s) /\ ~Refuse(s)
  <2> DEFINE q == [r EXCEPT !.step = "write"]
  <2>1. Go(s, q) /\ UNCHANGED <<database, cache>> /\ r.step = "check"
    BY <1>2 DEF CheckAbsent
  <2>2. q \in Request /\ RequestOK(q)
    BY <1>0, <2>1 DEF Request, RequestOK, Steps
  <2> QED BY <1>0, <2>1, <2>2, DatabaseKept
<1>3. CASE FindMember(s) /\ ~Refuse(s)
  <2> DEFINE u == r.target
             q == CASE r.op = "leave" -> [r EXCEPT !.op = "remove"]
                    [] r.op = "transfer" -> [r EXCEPT !.step = "owner"]
                    [] OTHER -> [r EXCEPT !.step = "write", !.found = doc[u], !.was = role[u]]
  <2>1. Go(s, q) /\ UNCHANGED <<database, cache>> /\ r.step = "find" /\ doc[u] # 0
    BY <1>3 DEF FindMember
  <2>2. q \in Request /\ RequestOK(q)
    <3>1. CASE r.op = "leave"
      BY <1>0, <2>1, <3>1 DEF Request, RequestOK, Ops
    <3>2. CASE r.op = "transfer"
      BY <1>0, <2>1, <3>2 DEF Request, RequestOK, Steps
    <3>3. CASE r.op \notin {"leave", "transfer"}
      <4>1. q = [r EXCEPT !.step = "write", !.found = doc[u], !.was = role[u]]
        BY <3>3
      <4>2. u \in Users
        BY <1>0, <2>1 DEF RequestOK
      <4>3. [r EXCEPT !.step = "write", !.found = doc[u], !.was = role[u]] \in Request
        BY <1>0, <4>2 DEF Request, Steps
      <4>4. RequestOK([r EXCEPT !.step = "write", !.found = doc[u], !.was = role[u]])
        BY <1>0, <2>1, <3>3 DEF Request, RequestOK, Steps
      <4> QED BY <4>1, <4>3, <4>4
    <3> QED BY <3>1, <3>2, <3>3
  <2> QED BY <1>0, <2>1, <2>2, DatabaseKept
<1>4. CASE ReadOwner(s)
  <2> DEFINE q == [r EXCEPT !.step = "write", !.owner = owner]
  <2>1. Go(s, q) /\ UNCHANGED <<database, cache>> /\ r.step = "owner" /\ owner \in Users
    BY <1>0, <1>4 DEF ReadOwner
  <2>2. q \in Request /\ RequestOK(q)
    BY <1>0, <2>1 DEF Request, RequestOK, Steps
  <2> QED BY <1>0, <2>1, <2>2, DatabaseKept
<1> QED BY <1>1, <1>2, <1>3, <1>4

LEMMA WriteTypeInv ==
    ASSUME TypeInv, NEW s \in Requests,
           \/ AddMember(s) \/ AddDuplicate(s) \/ SetRole(s) \/ SetRoleOfNobody(s)
           \/ RemoveMember(s) \/ TransferOwnership(s) \/ Forget(s)
    PROVE  TypeInv'
<1> DEFINE r == req[s]
           u == r.target
<1>0. /\ r \in Request /\ RequestOK(r) /\ cache \in [Users -> Answers \cup {"miss"}]
      /\ doc \in [Users -> Nat] /\ role \in [Users -> Answers] /\ owner \in Users \cup {Null}
      /\ memberCount \in Int /\ joins \in Nat /\ req \in [Requests -> Request]
      /\ \A v \in Users : (doc[v] = 0 <=> role[v] = "none") /\ doc[v] <= joins
      /\ r.step # "idle" => owner # Null
  BY DEF TypeInv, TypeOK, RequestsOK
<1>1. r.step = "write" => u \in Users
  BY <1>0 DEF RequestOK
<1>2. ASSUME NEW users \in SUBSET Users, r.step \in {"write", "forget"}
      PROVE  Forgetting(r, users) \in Request /\ RequestOK(Forgetting(r, users))
  BY <1>0, <1>2 DEF Forgetting, Request, RequestOK, Steps
<1>3. ASSUME NEW q \in Request, RequestOK(q), Go(s, q), r.step # "idle", owner' # Null
      PROVE  req' \in [Requests -> Request] /\ RequestsOK'
  BY <1>0, <1>3 DEF Go, TypeInv, RequestsOK
<1>4. Refuse(s) => TypeInv'
  BY <1>0, IdleOK, DatabaseKept DEF Refuse
<1>5. CASE AddMember(s)
  <2>1. r.step = "write" /\ r.newRole \in Roles /\ r.newRole \in Answers \ {"none"}
    BY <1>0, <1>5, WorkspacesAssumption DEF AddMember, Writing, RequestOK, Answers, RoleNames
  <2>2. req' \in [Requests -> Request] /\ RequestsOK'
    BY <1>0, <1>3, <1>5, <2>1, IdleOK DEF AddMember
  <2>3. /\ joins' = joins + 1 /\ doc' = [doc EXCEPT ![u] = joins + 1]
        /\ role' = [role EXCEPT ![u] = r.newRole] /\ memberCount' = memberCount + 1
        /\ owner' = owner /\ cache' = cache
    BY <1>5 DEF AddMember
  <2>4. \A v \in Users : (doc'[v] = 0 <=> role'[v] = "none") /\ doc'[v] <= joins'
    BY <1>0, <1>1, <2>1, <2>3
  <2>5. joins' \in Nat /\ memberCount' \in Int
    BY <1>0, <2>3
  <2>6. doc' \in [Users -> Nat] /\ role' \in [Users -> Answers]
    <3>1. joins + 1 \in Nat
      BY <1>0
    <3>2. doc' \in [Users -> Nat]
      BY <1>0, <2>3, <3>1
    <3>3. role' \in [Users -> Answers]
      BY <1>0, <2>1, <2>3
    <3> QED BY <3>2, <3>3
  <2> QED BY <1>0, <2>2, <2>3, <2>4, <2>5, <2>6 DEF TypeInv, TypeOK
<1>6. CASE SetRole(s)
  <2>1. /\ r.step = "write" /\ r.newRole \in Roles /\ r.newRole \in Answers \ {"none"}
        /\ r.found # 0 /\ doc[u] = r.found /\ u \in Users
    BY <1>0, <1>1, <1>6, WorkspacesAssumption
       DEF SetRole, Writing, RequestOK, Answers, RoleNames
  <2>2. req' \in [Requests -> Request] /\ RequestsOK'
    BY <1>0, <1>2, <1>3, <1>6, <2>1 DEF SetRole
  <2>3. /\ role' = [role EXCEPT ![u] = IF r.newRole = r.was THEN @ ELSE r.newRole]
        /\ UNCHANGED <<owner, memberCount, doc, joins, cache>>
    BY <1>6 DEF SetRole
  <2> QED BY <1>0, <2>1, <2>2, <2>3 DEF TypeInv, TypeOK
<1>7. CASE RemoveMember(s)
  <2>1. r.step = "write" /\ u \in Users
    BY <1>1, <1>7 DEF RemoveMember, Writing
  <2>2. req' \in [Requests -> Request] /\ RequestsOK'
    BY <1>0, <1>2, <1>3, <1>7, <2>1 DEF RemoveMember
  <2>3. /\ doc' = [doc EXCEPT ![u] = IF doc[u] = r.found THEN 0 ELSE @]
        /\ role' = [role EXCEPT ![u] = IF doc[u] = r.found THEN "none" ELSE @]
        /\ memberCount' = memberCount - 1 /\ UNCHANGED <<owner, joins, cache>>
    BY <1>7 DEF RemoveMember
  <2>4. doc' \in [Users -> Nat]
    BY <1>0, <2>1, <2>3
  <2>7. memberCount' \in Int
    BY <1>0, <2>3
  <2>6. role' \in [Users -> Answers]
    <3>1. "none" \in Answers
      BY DEF Answers
    <3> QED BY <1>0, <2>3, <3>1
  <2>5. \A v \in Users : (doc'[v] = 0 <=> role'[v] = "none") /\ doc'[v] <= joins
    BY <1>0, <2>3
  <2> QED BY <1>0, <2>2, <2>3, <2>4, <2>5, <2>6, <2>7 DEF TypeInv, TypeOK
<1>8. CASE TransferOwnership(s)
  <2>1. r.step = "write" /\ u \in Users /\ r.owner \in Users
    BY <1>0, <1>1, <1>8 DEF TransferOwnership, Writing, RequestOK
  <2>2. /\ role' = [v \in Users |->
                      IF doc[v] = 0 THEN "none"
                      ELSE IF v = u THEN "owner"
                      ELSE IF v = r.owner THEN "admin" ELSE role[v]]
        /\ owner' = u /\ Go(s, Forgetting(r, {r.owner, u}))
        /\ UNCHANGED <<memberCount, doc, joins, cache>>
    BY <1>8 DEF TransferOwnership
  <2>3. req' \in [Requests -> Request] /\ RequestsOK'
    BY <1>2, <1>3, <2>1, <2>2, WorkspacesAssumption
  <2>4. /\ role' \in [Users -> Answers]
        /\ \A v \in Users : doc[v] = 0 <=> role'[v] = "none"
    BY <1>0, <2>2 DEF Answers, RoleNames
  <2> QED BY <1>0, <2>1, <2>2, <2>3, <2>4 DEF TypeInv, TypeOK
<1>9. CASE Forget(s)
  <2>1. PICK v \in r.drop :
           /\ cache' \in {[cache EXCEPT ![v] = "miss"], cache}
           /\ Go(s, IF r.drop = {v} THEN Idle ELSE [r EXCEPT !.drop = @ \ {v}])
    BY <1>9 DEF Forget
  <2>2. r.step = "forget" /\ UNCHANGED database
    BY <1>9 DEF Forget
  <2>3. [r EXCEPT !.drop = @ \ {v}] \in Request /\ RequestOK([r EXCEPT !.drop = @ \ {v}])
    BY <1>0, <2>2 DEF Request, RequestOK
  <2>4. cache' \in [Users -> Answers \cup {"miss"}]
    BY <1>0, <2>1
  <2> QED BY <1>0, <2>1, <2>2, <2>3, <2>4, IdleOK, DatabaseKept
<1> QED BY <1>4, <1>5, <1>6, <1>7, <1>8, <1>9 DEF AddDuplicate, SetRoleOfNobody

LEMMA CreateTypeInv ==
    ASSUME TypeInv, NEW u \in Users, CreateWorkspace(u)
    PROVE  TypeInv'
<1>1. /\ owner' = u /\ memberCount' = 1 /\ joins' = joins + 1
      /\ doc' = [doc EXCEPT ![u] = joins + 1] /\ role' = [role EXCEPT ![u] = "owner"]
      /\ cache' = cache /\ req' = req
  BY DEF CreateWorkspace
<1>2. TypeOK'
  BY <1>1 DEF TypeInv, TypeOK, Answers, RoleNames
<1>3. RequestsOK'
  BY <1>1, WorkspacesAssumption DEF TypeInv, RequestsOK
<1> QED BY <1>2, <1>3 DEF TypeInv

LEMMA NextTypeInv == TypeInv /\ [Next]_vars => TypeInv'
<1> SUFFICES ASSUME TypeInv, [Next]_vars PROVE TypeInv'
  OBVIOUS
<1>1. CASE UNCHANGED vars
  BY <1>1 DEF TypeInv, TypeOK, RequestsOK, vars, database
<1>2. ASSUME NEW u \in Users, Expire(u) PROVE TypeInv'
  BY <1>2 DEF Expire, TypeInv, TypeOK, RequestsOK, database
<1> QED BY <1>1, <1>2, CreateTypeInv, StartTypeInv, GuardTypeInv, ReadTypeInv, WriteTypeInv
    DEF Next, Handle

(* Under any interleaving and any Redis failures a user has a role exactly *)
(* while a membership document exists, and every variable keeps its type.  *)
THEOREM TypeCorrect == Spec => []TypeOK
<1>1. TypeInv => TypeOK
  BY DEF TypeInv
<1> QED BY <1>1, InitTypeInv, NextTypeInv, PTL DEF Spec

-----------------------------------------------------------------------------
(* The member count.  Only three steps touch the documents or the counter. *)

Created == owner = Null => Members = {}

LEMMA MembersFinite == IsFiniteSet(Members) /\ Cardinality(Members) \in Nat
<1>1. IsFiniteSet(Members)
  BY WorkspacesAssumption, FS_Subset DEF Members
<1> QED BY <1>1, FS_CardinalityType

LEMMA DocumentSteps ==
    ASSUME TypeInv, [Next]_vars
    PROVE  \/ doc' = doc /\ memberCount' = memberCount /\ (owner' = Null <=> owner = Null)
           \/ \E s \in Requests : AddMember(s) \/ RemoveMember(s)
           \/ \E u \in Users : CreateWorkspace(u)
<1>1. CASE UNCHANGED vars
  BY <1>1 DEF vars, database
<1>2. ASSUME NEW u \in Users, Expire(u) PROVE doc' = doc /\ memberCount' = memberCount
                                              /\ owner' = owner
  BY <1>2 DEF Expire, database
<1>3. ASSUME NEW s \in Requests, Start(s) \/ Guard(s)
      PROVE  doc' = doc /\ memberCount' = memberCount /\ owner' = owner
  BY <1>3 DEF Start, Guard, GuardUnrestricted, GuardHit, GuardMiss, GuardLoad, GuardStore, database
<1>4. ASSUME NEW s \in Requests,
             \/ CheckAbsent(s) \/ FindMember(s) \/ ReadOwner(s) \/ AddDuplicate(s)
             \/ SetRole(s) \/ SetRoleOfNobody(s) \/ Forget(s)
      PROVE  doc' = doc /\ memberCount' = memberCount /\ owner' = owner
  BY <1>4 DEF CheckAbsent, FindMember, ReadOwner, AddDuplicate, SetRole, SetRoleOfNobody,
     Forget, Refuse, database
<1>5. ASSUME NEW s \in Requests, TransferOwnership(s)
      PROVE  doc' = doc /\ memberCount' = memberCount /\ owner' # Null /\ owner # Null
  BY <1>5, WorkspacesAssumption
     DEF TransferOwnership, Writing, TypeInv, TypeOK, RequestsOK, RequestOK
<1> QED BY <1>1, <1>2, <1>3, <1>4, <1>5 DEF Next, Handle

LEMMA AddedMember ==
    ASSUME TypeInv, NEW s \in Requests, AddMember(s)
    PROVE  /\ memberCount' = memberCount + 1
           /\ Cardinality(Members)' = Cardinality(Members) + 1
           /\ owner' = owner /\ owner # Null
<1> DEFINE u == req[s].target
<1>1. u \in Users /\ owner # Null
  BY DEF AddMember, Writing, TypeInv, RequestsOK, RequestOK
<1>2. u \notin Members /\ Members' = Members \cup {u}
  BY <1>1 DEF AddMember, TypeInv, TypeOK, Members
<1>3. Cardinality(Members)' = Cardinality(Members) + 1
  BY <1>2, MembersFinite, FS_AddElement
<1> QED BY <1>1, <1>3 DEF AddMember

LEMMA RemovedMember ==
    ASSUME TypeInv, NEW s \in Requests, RemoveMember(s)
    PROVE  /\ memberCount' = memberCount - 1
           /\ owner' = owner /\ owner # Null
           /\ doc[req[s].target] = req[s].found
                 => Cardinality(Members)' = Cardinality(Members) - 1
           /\ doc[req[s].target] # req[s].found
                 => Cardinality(Members)' = Cardinality(Members)
<1> DEFINE u == req[s].target
<1>1. u \in Users /\ owner # Null /\ req[s].found # 0
  BY DEF RemoveMember, Writing, TypeInv, RequestsOK, RequestOK
<1>2. ASSUME doc[u] = req[s].found
      PROVE  Cardinality(Members)' = Cardinality(Members) - 1
  <2>1. u \in Members /\ Members' = Members \ {u}
    BY <1>1, <1>2 DEF RemoveMember, TypeInv, TypeOK, Members
  <2> QED BY <2>1, MembersFinite, FS_RemoveElement
<1>3. ASSUME doc[u] # req[s].found
      PROVE  Cardinality(Members)' = Cardinality(Members)
  BY <1>1, <1>3 DEF RemoveMember, TypeInv, TypeOK, Members
<1> QED BY <1>1, <1>2, <1>3 DEF RemoveMember

LEMMA CreatedWorkspace ==
    ASSUME TypeInv, Created, NEW u \in Users, CreateWorkspace(u)
    PROVE  memberCount' = 1 /\ Cardinality(Members)' = 1 /\ owner' # Null
<1>1. Members' = {u}
  BY DEF CreateWorkspace, Created, TypeInv, TypeOK, Members
<1> QED BY <1>1, FS_Singleton, WorkspacesAssumption DEF CreateWorkspace

LEMMA NextCreated == TypeInv /\ Created /\ [Next]_vars => Created'
  BY DocumentSteps, AddedMember, RemovedMember, CreatedWorkspace DEF Created, Members

(* The counter never shows more members than there are, even when the same *)
(* member is removed twice or added by two requests at once.               *)
THEOREM CountBounded == Spec => []CountNeverOver
<1> DEFINE Inv == TypeInv /\ Created /\ CountNeverOver
<1>1. Init => Inv
  <2> SUFFICES ASSUME Init PROVE Inv
    OBVIOUS
  <2>1. Members = {} /\ memberCount = 0
    BY DEF Init, Members
  <2> QED BY <2>1, InitTypeInv, FS_EmptySet DEF Created, CountNeverOver
<1>2. Inv /\ [Next]_vars => Inv'
  <2> SUFFICES ASSUME Inv, [Next]_vars PROVE CountNeverOver'
    BY NextTypeInv, NextCreated
  <2>1. Cardinality(Members) \in Nat /\ memberCount \in Int
    BY MembersFinite DEF TypeInv, TypeOK
  <2>2. CASE doc' = doc /\ memberCount' = memberCount
    BY <2>2 DEF CountNeverOver, Members
  <2>3. ASSUME NEW s \in Requests, AddMember(s) PROVE CountNeverOver'
    BY <2>1, <2>3, AddedMember DEF CountNeverOver
  <2>4. ASSUME NEW s \in Requests, RemoveMember(s) PROVE CountNeverOver'
    BY <2>1, <2>4, RemovedMember DEF CountNeverOver
  <2>5. ASSUME NEW u \in Users, CreateWorkspace(u) PROVE CountNeverOver'
    BY <2>1, <2>5, CreatedWorkspace DEF CountNeverOver
  <2> QED BY <2>2, <2>3, <2>4, <2>5, DocumentSteps
<1>3. Inv => CountNeverOver
  OBVIOUS
<1> QED BY <1>1, <1>2, <1>3, PTL DEF Spec

-----------------------------------------------------------------------------
(* Requests that do not overlap: what the request in flight has found is   *)
(* still what is stored when it writes.                                    *)

Current(r) ==
    /\ r.step = "write" /\ r.op \in {"setRole", "remove"}
          => doc[r.target] = r.found /\ role[r.target] # "owner"
    /\ r.step \in {"owner", "write"} /\ r.op = "transfer" => doc[r.target] # 0
    /\ r.step = "write" /\ r.op = "transfer" => r.owner = owner

OwnerSettled == owner # Null => \A u \in Users : role[u] = "owner" <=> u = owner

SerialInv ==
    /\ TypeInv /\ Created
    /\ MemberCountExact
    /\ OwnerSettled
    /\ \A s \in Requests : Current(req[s])

LEMMA InitSerialInv == Init => SerialInv
<1> SUFFICES ASSUME Init PROVE SerialInv
  OBVIOUS
<1>1. Members = {} /\ memberCount = 0 /\ owner = Null /\ \A s \in Requests : req[s] = Idle
  BY DEF Init, Members
<1>2. \A s \in Requests : Current(req[s])
  BY <1>1 DEF Idle, Current
<1> QED BY <1>1, <1>2, InitTypeInv, FS_EmptySet
        DEF SerialInv, Created, MemberCountExact, OwnerSettled

LEMMA SerialRequest ==
    ASSUME TypeInv, OneAtATime, NEW s \in Requests, NEW q, Go(s, q), Current(q)'
    PROVE  \A t \in Requests : Current(req[t])'
<1>1. \A t \in Requests : req'[t] = q
  BY DEF Go, OneAtATime, TypeInv, TypeOK
<1> QED BY <1>1 DEF Current

LEMMA DatabaseKeptSerial ==
    ASSUME SerialInv, OneAtATime, TypeInv', NEW s \in Requests, NEW q,
           Go(s, q), UNCHANGED database, Current(q)
    PROVE  SerialInv'
<1>1. /\ owner' = owner /\ memberCount' = memberCount /\ doc' = doc /\ role' = role
  BY DEF database
<1>2. Current(q)'
  BY <1>1 DEF Current
<1>3. \A t \in Requests : Current(req[t])'
  BY <1>2, SerialRequest DEF SerialInv
<1> QED BY <1>1, <1>3 DEF SerialInv, Created, MemberCountExact, OwnerSettled, Members

LEMMA IdleCurrent == Current(Idle)
  BY DEF Idle, Current

LEMMA StartSerialInv ==
    ASSUME SerialInv, OneAtATime, NEW s \in Requests, Start(s)
    PROVE  SerialInv'
<1>1. PICK a \in Actors, u \in Users, op \in Offered, new \in Roles :
         LET r == [Idle EXCEPT
                     !.op = op, !.step = "guard", !.actor = a,
                     !.target = IF op = "leave" THEN a ELSE u,
                     !.newRole = IF op \in {"add", "setRole"} THEN new ELSE Null]
         IN  Go(s, r) /\ UNCHANGED <<database, cache>>
  BY DEF Start
<1> DEFINE r == [Idle EXCEPT
                   !.op = op, !.step = "guard", !.actor = a,
                   !.target = IF op = "leave" THEN a ELSE u,
                   !.newRole = IF op \in {"add", "setRole"} THEN new ELSE Null]
<1>2. Current(r)
  BY DEF Current, Idle
<1>3. TypeInv'
  BY StartTypeInv DEF SerialInv
<1> QED BY <1>1, <1>2, <1>3, DatabaseKeptSerial

LEMMA GuardSerialInv ==
    ASSUME SerialInv, OneAtATime, NEW s \in Requests, Guard(s)
    PROVE  SerialInv'
<1> DEFINE r == req[s]
<1>0. r \in Request /\ TypeInv'
  BY GuardTypeInv DEF SerialInv, TypeInv, TypeOK
<1>1. Current(Enter(r))
  BY <1>0, IdleCurrent DEF Enter, AfterGuard, Current, Request
<1>2. ASSUME NEW q, Go(s, q), Current(q) PROVE SerialInv'
  <2>1. UNCHANGED database
    BY DEF Guard, GuardUnrestricted, GuardHit, GuardMiss, GuardLoad, GuardStore
  <2> QED BY <1>0, <1>2, <2>1, DatabaseKeptSerial
<1>3. ASSUME NEW a, Decide(s, a) PROVE SerialInv'
  BY <1>1, <1>2, <1>3, IdleCurrent DEF Decide
<1>4. Current([r EXCEPT !.step = "load"])
  BY <1>0 DEF Current, Request
<1>5. Current([r EXCEPT !.step = "store", !.answer = role[r.actor]])
  BY <1>0 DEF Current, Request
<1> QED BY <1>1, <1>2, <1>3, <1>4, <1>5
        DEF Guard, GuardUnrestricted, GuardHit, GuardMiss, GuardLoad, GuardStore

LEMMA ReadSerialInv ==
    ASSUME SerialInv, OneAtATime, NEW s \in Requests,
           CheckAbsent(s) \/ FindMember(s) \/ ReadOwner(s)
    PROVE  SerialInv'
<1> DEFINE r == req[s]
<1>0. r \in Request /\ RequestOK(r) /\ Current(r) /\ TypeInv'
  BY ReadTypeInv DEF SerialInv, TypeInv, TypeOK, RequestsOK
<1>1. Refuse(s) => SerialInv'
  BY <1>0, IdleCurrent, DatabaseKeptSerial DEF Refuse
<1>2. CASE CheckAbsent(s) /\ ~Refuse(s)
  <2>1. Go(s, [r EXCEPT !.step = "write"]) /\ UNCHANGED database /\ r.op = "add"
    BY <1>0, <1>2 DEF CheckAbsent, RequestOK
  <2>2. Current([r EXCEPT !.step = "write"])
    BY <1>0, <2>1 DEF Current, Request
  <2> QED BY <1>0, <2>1, <2>2, DatabaseKeptSerial
<1>3. CASE FindMember(s) /\ ~Refuse(s)
  <2> DEFINE u == r.target
             q == CASE r.op = "leave" -> [r EXCEPT !.op = "remove"]
                    [] r.op = "transfer" -> [r EXCEPT !.step = "owner"]
                    [] OTHER -> [r EXCEPT !.step = "write", !.found = doc[u], !.was = role[u]]
  <2>1. /\ Go(s, q) /\ UNCHANGED database /\ r.step = "find" /\ doc[u] # 0
        /\ r.op # "transfer" => role[u] # "owner"
    BY <1>3 DEF FindMember
  <2>2. CASE r.op = "leave"
    <3>1. Go(s, [r EXCEPT !.op = "remove"]) /\ Current([r EXCEPT !.op = "remove"])
      BY <1>0, <2>1, <2>2 DEF Current, Request
    <3> QED BY <1>0, <2>1, <3>1, DatabaseKeptSerial
  <2>3. CASE r.op = "transfer"
    <3>1. Go(s, [r EXCEPT !.step = "owner"]) /\ Current([r EXCEPT !.step = "owner"])
      BY <1>0, <2>1, <2>3 DEF Current, Request
    <3> QED BY <1>0, <2>1, <3>1, DatabaseKeptSerial
  <2>4. CASE r.op \notin {"leave", "transfer"}
    <3> DEFINE w == [r EXCEPT !.step = "write", !.found = doc[u], !.was = role[u]]
    <3>1. Go(s, w)
      BY <2>1, <2>4
    <3>2. Current(w)
      BY <1>0, <2>1, <2>4 DEF Current, Request
    <3> QED BY <1>0, <2>1, <3>1, <3>2, DatabaseKeptSerial
  <2> QED BY <2>2, <2>3, <2>4
<1>4. CASE ReadOwner(s)
  <2>1. /\ Go(s, [r EXCEPT !.step = "write", !.owner = owner]) /\ UNCHANGED database
        /\ r.op = "transfer" /\ r.step = "owner"
    BY <1>0, <1>4 DEF ReadOwner, RequestOK
  <2>2. Current([r EXCEPT !.step = "write", !.owner = owner])
    BY <1>0, <2>1 DEF Current, Request
  <2> QED BY <1>0, <2>1, <2>2, DatabaseKeptSerial
<1> QED BY <1>1, <1>2, <1>3, <1>4

(* In a request that runs alone no save misses its document and no         *)
(* deleteOne finds nothing.                                                *)
LEMMA WriteSerialInv ==
    ASSUME SerialInv, OneAtATime, NEW s \in Requests,
           \/ AddMember(s) \/ AddDuplicate(s) \/ SetRole(s) \/ SetRoleOfNobody(s)
           \/ RemoveMember(s) \/ TransferOwnership(s) \/ Forget(s)
    PROVE  SerialInv'
<1> DEFINE r == req[s]
           u == r.target
<1>0. /\ r \in Request /\ RequestOK(r) /\ Current(r) /\ TypeInv /\ TypeInv'
      /\ doc \in [Users -> Nat] /\ role \in [Users -> Answers] /\ owner \in Users \cup {Null}
      /\ memberCount \in Int /\ OwnerSettled /\ MemberCountExact
      /\ r.step # "idle" => owner # Null
      /\ \A v \in Users : doc[v] = 0 <=> role[v] = "none"
  BY WriteTypeInv DEF SerialInv, TypeInv, TypeOK, RequestsOK
<1>1. r.step = "write" => u \in Users /\ owner # Null
  BY <1>0 DEF RequestOK
<1>2. Refuse(s) => SerialInv'
  BY <1>0, IdleCurrent, DatabaseKeptSerial DEF Refuse
<1>4. ASSUME NEW q, Go(s, q), q.step \in {"idle", "forget"},
             owner' # Null, MemberCountExact', OwnerSettled'
      PROVE  SerialInv'
  <2>1. Current(q)'
    BY <1>4 DEF Current
  <2>2. \A t \in Requests : Current(req[t])'
    BY <1>0, <1>4, <2>1, SerialRequest
  <2> QED BY <1>0, <1>4, <2>2 DEF SerialInv, Created
<1>5. Idle.step = "idle" /\ \A users : r.step = "write" => Forgetting(r, users).step = "forget"
  BY <1>0 DEF Idle, Forgetting, Request
<1>6. CASE AddMember(s)
  <2>1. MemberCountExact' /\ owner' # Null
    BY <1>0, <1>6, AddedMember, MembersFinite DEF MemberCountExact
  <2>2. /\ r.newRole # "owner" /\ role' = [role EXCEPT ![u] = r.newRole] /\ owner' = owner
        /\ doc[u] = 0 /\ u \in Users /\ r.step = "write"
    BY <1>0, <1>1, <1>6, WorkspacesAssumption DEF AddMember, Writing, RequestOK
  <2>3. u # owner
    <3>1. role[u] = "none"
      BY <1>0, <2>2
    <3> QED BY <1>0, <1>1, <2>2, <3>1 DEF OwnerSettled
  <2>4. OwnerSettled'
    BY <1>0, <2>2, <2>3 DEF OwnerSettled
  <2> QED BY <1>4, <1>5, <1>6, <2>1, <2>4 DEF AddMember
<1>7. CASE SetRole(s)
  <2>1. /\ r.step = "write" /\ u \in Users /\ owner # Null
        /\ role[u] # "owner" /\ r.newRole # "owner"
    BY <1>0, <1>1, <1>7, WorkspacesAssumption DEF SetRole, Writing, RequestOK, Current
  <2>2. /\ role' = [role EXCEPT ![u] = IF r.newRole = r.was THEN @ ELSE r.newRole]
        /\ UNCHANGED <<owner, memberCount, doc>> /\ Go(s, Forgetting(r, {u}))
    BY <1>7 DEF SetRole
  <2>3. u # owner
    BY <1>0, <2>1 DEF OwnerSettled
  <2>4. OwnerSettled'
    BY <1>0, <2>1, <2>2, <2>3 DEF OwnerSettled
  <2>5. MemberCountExact'
    BY <1>0, <2>2 DEF MemberCountExact, Members
  <2> QED BY <1>4, <1>5, <2>1, <2>2, <2>4, <2>5
<1>8. CASE RemoveMember(s)
  <2>1. r.step = "write" /\ u \in Users /\ doc[u] = r.found /\ role[u] # "owner"
    BY <1>0, <1>1, <1>8 DEF RemoveMember, Writing, Current
  <2>2. MemberCountExact' /\ owner' = owner /\ owner # Null
    BY <1>0, <1>8, <2>1, RemovedMember, MembersFinite DEF MemberCountExact
  <2>3. role' = [role EXCEPT ![u] = "none"] /\ Go(s, Forgetting(r, {u}))
    BY <1>8, <2>1 DEF RemoveMember
  <2>4. u # owner
    BY <1>0, <2>1, <2>2 DEF OwnerSettled
  <2>5. OwnerSettled'
    BY <1>0, <2>2, <2>3, <2>4 DEF OwnerSettled
  <2> QED BY <1>4, <1>5, <2>1, <2>2, <2>3, <2>5
<1>9. CASE TransferOwnership(s)
  <2>1. /\ r.step = "write" /\ u \in Users /\ doc[u] # 0 /\ r.owner = owner
        /\ owner \in Users
    BY <1>0, <1>1, <1>9 DEF TransferOwnership, Writing, Current
  <2>2. /\ role' = [v \in Users |->
                      IF doc[v] = 0 THEN "none"
                      ELSE IF v = u THEN "owner"
                      ELSE IF v = r.owner THEN "admin" ELSE role[v]]
        /\ owner' = u /\ Go(s, Forgetting(r, {r.owner, u}))
        /\ UNCHANGED <<memberCount, doc>>
    BY <1>9 DEF TransferOwnership
  <2>3. \A v \in Users : role'[v] = "owner" <=> v = owner'
    BY <1>0, <2>1, <2>2 DEF OwnerSettled
  <2>4. MemberCountExact'
    BY <1>0, <2>2 DEF MemberCountExact, Members
  <2>5. owner' # Null
    BY <2>1, <2>2, WorkspacesAssumption
  <2> QED BY <1>4, <1>5, <2>1, <2>2, <2>3, <2>4, <2>5 DEF OwnerSettled
<1>10. CASE Forget(s)
  <2>1. PICK v \in r.drop : Go(s, IF r.drop = {v} THEN Idle ELSE [r EXCEPT !.drop = @ \ {v}])
    BY <1>10 DEF Forget
  <2>2. r.step = "forget" /\ UNCHANGED database
    BY <1>10 DEF Forget
  <2>3. Current([r EXCEPT !.drop = @ \ {v}])
    BY <1>0, <2>2 DEF Current, Request
  <2> QED BY <1>0, <2>1, <2>2, <2>3, IdleCurrent, DatabaseKeptSerial
<1> QED BY <1>2, <1>6, <1>7, <1>8, <1>9, <1>10 DEF AddDuplicate, SetRoleOfNobody

LEMMA CreateSerialInv ==
    ASSUME SerialInv, OneAtATime, NEW u \in Users, CreateWorkspace(u)
    PROVE  SerialInv'
<1>0. /\ TypeInv /\ TypeInv' /\ Created /\ role \in [Users -> Answers] /\ doc \in [Users -> Nat]
      /\ \A v \in Users : doc[v] = 0 <=> role[v] = "none"
  BY CreateTypeInv DEF SerialInv, TypeInv, TypeOK
<1>1. owner = Null /\ owner' = u /\ role' = [role EXCEPT ![u] = "owner"] /\ req' = req
  BY DEF CreateWorkspace
<1>2. \A v \in Users : role[v] = "none"
  BY <1>0, <1>1 DEF Created, Members
<1>3. \A v \in Users : role'[v] = "owner" <=> v = owner'
  BY <1>0, <1>1, <1>2
<1>4. MemberCountExact' /\ owner' # Null
  BY <1>0, CreatedWorkspace DEF MemberCountExact
<1>5. \A s \in Requests : req[s].step = "idle"
  BY <1>0, <1>1 DEF TypeInv, RequestsOK
<1>6. \A s \in Requests : Current(req[s])'
  BY <1>1, <1>5 DEF Current
<1> QED BY <1>0, <1>3, <1>4, <1>6 DEF SerialInv, Created, OwnerSettled

LEMMA NextSerialInv == OneAtATime /\ SerialInv /\ [Next]_vars => SerialInv'
<1> SUFFICES ASSUME OneAtATime, SerialInv, [Next]_vars PROVE SerialInv'
  OBVIOUS
<1>0. TypeInv'
  BY NextTypeInv DEF SerialInv
<1>1. ASSUME UNCHANGED <<database, req>> PROVE SerialInv'
  BY <1>0, <1>1
     DEF SerialInv, database, Created, MemberCountExact, OwnerSettled, Members, Current
<1>2. CASE UNCHANGED vars
  BY <1>1, <1>2 DEF vars
<1>3. ASSUME NEW u \in Users, Expire(u) PROVE SerialInv'
  BY <1>1, <1>3 DEF Expire
<1> QED BY <1>2, <1>3, CreateSerialInv, StartSerialInv, GuardSerialInv, ReadSerialInv,
        WriteSerialInv DEF Next, Handle

(* When requests do not overlap, workspace.memberCount is the number of    *)
(* membership documents after every step.                                  *)
THEOREM SerialMemberCount ==
    ASSUME OneAtATime PROVE Spec => []MemberCountExact
<1>1. SerialInv => MemberCountExact
  BY DEF SerialInv
<1>2. SerialInv /\ [Next]_vars => SerialInv'
  BY NextSerialInv
<1> QED BY <1>1, <1>2, InitSerialInv, PTL DEF Spec

(* When requests do not overlap, exactly the user workspace.owner names    *)
(* holds the owner role, transfers, role changes and departures included.  *)
THEOREM SerialOwner ==
    ASSUME OneAtATime PROVE Spec => []Table!OneOwner
<1>1. SerialInv => Table!OneOwner
  BY DEF SerialInv, OwnerSettled, Table!OneOwner
<1>2. SerialInv /\ [Next]_vars => SerialInv'
  BY NextSerialInv
<1> QED BY <1>1, <1>2, InitSerialInv, PTL DEF Spec

-----------------------------------------------------------------------------
(* Requests that do not overlap and a Redis that does not fail: an entry   *)
(* that contradicts the database belongs to a user the request in flight   *)
(* has still to forget, and what the guard is about to store is current.   *)

Truthful(u) == cache[u] \in {"miss", "none", role[u]}

Covered(u) == Truthful(u) \/ \E s \in Requests : req[s].step = "forget" /\ u \in req[s].drop

CacheInv ==
    /\ TypeInv /\ Created
    /\ owner = Null => \A u \in Users : cache[u] = "miss"
    /\ \A u \in Users : Covered(u)
    /\ \A s \in Requests : req[s].step = "store" => req[s].answer = role[req[s].actor]

LEMMA InitCacheInv == Init => CacheInv
<1> SUFFICES ASSUME Init PROVE CacheInv
  OBVIOUS
<1>1. Members = {} /\ \A s \in Requests : req[s].step = "idle"
  BY IdleOK DEF Init, Members
<1>2. \A u \in Users : cache[u] = "miss"
  BY DEF Init
<1> QED BY <1>1, <1>2, InitTypeInv DEF CacheInv, Created, Covered, Truthful

(* Outside forgetMembership every entry is truthful, as no other request   *)
(* is in flight.                                                           *)
LEMMA AllTruthful ==
    ASSUME CacheInv, OneAtATime, NEW s \in Requests, req[s].step # "forget"
    PROVE  \A u \in Users : Truthful(u)
  BY DEF CacheInv, Covered, OneAtATime

LEMMA CacheStep ==
    ASSUME CacheInv, OneAtATime, TypeInv', Created', owner' # Null,
           NEW s \in Requests, NEW q, Go(s, q),
           \A u \in Users : \/ cache'[u] \in {"miss", "none", role'[u]}
                            \/ q.step = "forget" /\ u \in q.drop,
           q.step = "store" => q.answer = role'[q.actor]
    PROVE  CacheInv'
<1>1. \A t \in Requests : req'[t] = q
  BY DEF Go, OneAtATime, CacheInv, TypeInv, TypeOK
<1>2. \A u \in Users : Covered(u)'
  BY <1>1 DEF Covered, Truthful
<1>3. \A t \in Requests : req'[t].step = "store" => req'[t].answer = role'[req'[t].actor]
  BY <1>1
<1> QED BY <1>2, <1>3 DEF CacheInv

(* A step that leaves the database and the entries alone.                  *)
LEMMA QuietStep ==
    ASSUME CacheInv, OneAtATime, TypeInv', NEW s \in Requests, NEW q, Go(s, q),
           UNCHANGED <<database, cache>>, owner # Null, req[s].step # "forget",
           q.step = "store" => q.answer = role[q.actor]
    PROVE  CacheInv'
<1>1. owner' = owner /\ doc' = doc /\ role' = role /\ cache' = cache
  BY DEF database
<1>2. \A u \in Users : cache'[u] \in {"miss", "none", role'[u]}
  BY <1>1, AllTruthful DEF Truthful
<1>3. Created'
  BY <1>1 DEF CacheInv, Created, Members
<1> QED BY <1>1, <1>2, <1>3, CacheStep

LEMMA StartCacheInv ==
    ASSUME CacheInv, OneAtATime, NEW s \in Requests, Start(s)
    PROVE  CacheInv'
<1>1. PICK a \in Actors, u \in Users, op \in Offered, new \in Roles :
         LET r == [Idle EXCEPT
                     !.op = op, !.step = "guard", !.actor = a,
                     !.target = IF op = "leave" THEN a ELSE u,
                     !.newRole = IF op \in {"add", "setRole"} THEN new ELSE Null]
         IN  Go(s, r) /\ UNCHANGED <<database, cache>> /\ owner # Null /\ req[s] = Idle
  BY DEF Start
<1> DEFINE r == [Idle EXCEPT
                   !.op = op, !.step = "guard", !.actor = a,
                   !.target = IF op = "leave" THEN a ELSE u,
                   !.newRole = IF op \in {"add", "setRole"} THEN new ELSE Null]
<1>2. r.step = "guard"
  BY DEF Idle
<1>3. TypeInv' /\ Idle.step = "idle"
  BY StartTypeInv, IdleOK DEF CacheInv
<1> HIDE DEF r
<1>4. Go(s, r) /\ UNCHANGED <<database, cache>> /\ owner # Null /\ req[s] = Idle
  BY <1>1 DEF r
<1> QED BY <1>2, <1>3, <1>4, QuietStep

LEMMA GuardCacheInv ==
    ASSUME CacheInv, OneAtATime, ~RedisFails, NEW s \in Requests, Guard(s)
    PROVE  CacheInv'
<1> DEFINE r == req[s]
<1>0. /\ r \in Request /\ RequestOK(r) /\ TypeInv' /\ r.step \in {"guard", "load", "store"}
      /\ owner # Null /\ cache \in [Users -> Answers \cup {"miss"}] /\ role \in [Users -> Answers]
      /\ \A u \in Users : Truthful(u)
  <2>1. r.step \in {"guard", "load", "store"}
    BY DEF Guard, GuardUnrestricted, GuardHit, GuardMiss, GuardLoad, GuardStore
  <2> QED BY <2>1, GuardTypeInv, AllTruthful DEF CacheInv, TypeInv, TypeOK, RequestsOK
<1>1. Enter(r).step # "store" /\ Idle.step # "store"
  BY <1>0, IdleOK DEF Enter, AfterGuard, Request
<1>2. ASSUME NEW q, Go(s, q), UNCHANGED <<database, cache>>,
             q.step = "store" => q.answer = role[q.actor]
      PROVE  CacheInv'
  BY <1>0, <1>2, QuietStep
<1>3. CASE GuardUnrestricted(s)
  BY <1>1, <1>2, <1>3 DEF GuardUnrestricted
<1>4. CASE GuardHit(s)
  BY <1>1, <1>2, <1>4 DEF GuardHit, Decide
<1>5. CASE GuardMiss(s)
  <2>1. [r EXCEPT !.step = "load"].step # "store"
    BY <1>0 DEF Request
  <2> QED BY <1>2, <1>5, <2>1 DEF GuardMiss
<1>6. CASE GuardLoad(s)
  <2> DEFINE q == [r EXCEPT !.step = "store", !.answer = role[r.actor]]
  <2>1. q.answer = role[q.actor]
    BY <1>0 DEF Request
  <2>2. Go(s, q) /\ UNCHANGED <<database, cache>>
    BY <1>6 DEF GuardLoad
  <2> HIDE DEF q
  <2> QED BY <1>2, <2>1, <2>2
<1>7. CASE GuardStore(s)
  <2>1. /\ cache' = [cache EXCEPT ![r.actor] = r.answer] /\ UNCHANGED database
        /\ Decide(s, r.answer) /\ r.answer = role[r.actor] /\ r.actor \in Users
    BY <1>0, <1>7 DEF GuardStore, CacheInv, RequestOK
  <2>2. role' = role /\ owner' = owner /\ doc' = doc
    BY <2>1 DEF database
  <2>3. \A u \in Users : cache'[u] \in {"miss", "none", role'[u]}
    BY <1>0, <2>1, <2>2 DEF Truthful
  <2>4. Created' /\ owner' # Null
    BY <1>0, <2>2 DEF CacheInv, Created, Members
  <2>5. ASSUME NEW q, Go(s, q), q.step # "store" PROVE CacheInv'
    BY <1>0, <2>3, <2>4, <2>5, CacheStep
  <2> QED BY <1>1, <2>1, <2>5 DEF Decide
<1> QED BY <1>3, <1>4, <1>5, <1>6, <1>7 DEF Guard

LEMMA ReadCacheInv ==
    ASSUME CacheInv, OneAtATime, NEW s \in Requests,
           CheckAbsent(s) \/ FindMember(s) \/ ReadOwner(s)
    PROVE  CacheInv'
<1> DEFINE r == req[s]
           u == r.target
<1>0. /\ r \in Request /\ TypeInv' /\ r.step \in {"check", "find", "owner"} /\ owner # Null
  BY ReadTypeInv DEF CheckAbsent, FindMember, ReadOwner, CacheInv, TypeInv, TypeOK, RequestsOK
<1>1. ASSUME NEW q, Go(s, q), UNCHANGED <<database, cache>>, q.step # "store"
      PROVE  CacheInv'
  BY <1>0, <1>1, QuietStep
<1>2. Refuse(s) => CacheInv'
  BY <1>1, IdleOK DEF Refuse
<1>3. CASE CheckAbsent(s) /\ ~Refuse(s)
  <2>1. [r EXCEPT !.step = "write"].step # "store"
    BY <1>0 DEF Request
  <2> QED BY <1>1, <1>3, <2>1 DEF CheckAbsent
<1>4. CASE FindMember(s) /\ ~Refuse(s)
  <2>1. /\ r.step = "find" /\ UNCHANGED <<database, cache>>
        /\ \/ Go(s, [r EXCEPT !.op = "remove"])
           \/ Go(s, [r EXCEPT !.step = "owner"])
           \/ Go(s, [r EXCEPT !.step = "write", !.found = doc[u], !.was = role[u]])
    BY <1>4 DEF FindMember
  <2>2. /\ [r EXCEPT !.op = "remove"].step # "store"
        /\ [r EXCEPT !.step = "owner"].step # "store"
        /\ [r EXCEPT !.step = "write", !.found = doc[u], !.was = role[u]].step # "store"
    BY <1>0, <2>1 DEF Request
  <2> QED BY <1>1, <2>1, <2>2
<1>5. CASE ReadOwner(s)
  <2>1. [r EXCEPT !.step = "write", !.owner = owner].step # "store"
    BY <1>0 DEF Request
  <2> QED BY <1>1, <1>5, <2>1 DEF ReadOwner
<1> QED BY <1>2, <1>3, <1>4, <1>5

(* A write changes the role of nobody but the users it goes on to forget,  *)
(* except addMember: whoever it adds was nobody before, so that the only   *)
(* entry it could contradict is the refusal it leaves behind.              *)
LEMMA WriteCacheInv ==
    ASSUME CacheInv, OneAtATime, ~RedisFails, NEW s \in Requests,
           \/ AddMember(s) \/ AddDuplicate(s) \/ SetRole(s) \/ SetRoleOfNobody(s)
           \/ RemoveMember(s) \/ TransferOwnership(s) \/ Forget(s)
    PROVE  CacheInv'
<1> DEFINE r == req[s]
           u == r.target
<1>0. /\ r \in Request /\ RequestOK(r) /\ TypeInv /\ TypeInv'
      /\ doc \in [Users -> Nat] /\ role \in [Users -> Answers] /\ owner \in Users \cup {Null}
      /\ cache \in [Users -> Answers \cup {"miss"}]
      /\ r.step \in {"write", "forget"} => owner # Null
      /\ \A v \in Users : doc[v] = 0 <=> role[v] = "none"
  BY WriteTypeInv DEF CacheInv, TypeInv, TypeOK, RequestsOK
<1>1. r.step = "write" => u \in Users /\ owner # Null /\ \A v \in Users : Truthful(v)
  BY <1>0, AllTruthful DEF RequestOK
<1>2. Created'
  <2>1. owner' # Null
    BY <1>0, WorkspacesAssumption
       DEF AddMember, AddDuplicate, SetRole, SetRoleOfNobody, RemoveMember,
           TransferOwnership, Forget, Refuse, Writing, RequestOK, database
  <2> QED BY <2>1 DEF Created
<1>3. owner' # Null
  BY <1>0, WorkspacesAssumption
     DEF AddMember, AddDuplicate, SetRole, SetRoleOfNobody, RemoveMember,
         TransferOwnership, Forget, Refuse, Writing, RequestOK, database
<1>4. Refuse(s) /\ r.step = "write" => CacheInv'
  BY <1>0, IdleOK, QuietStep DEF Refuse
<1>5. ASSUME NEW users, Go(s, Forgetting(r, users)), r.step = "write", cache' = cache,
             \A v \in Users \ users : role'[v] = role[v]
      PROVE  CacheInv'
  <2> DEFINE q == Forgetting(r, users)
  <2>1. q.step = "forget" /\ q.drop = users
    BY <1>0 DEF Forgetting, Request
  <2> HIDE DEF q
  <2>2. Go(s, q)
    BY <1>5 DEF q
  <2>3. \A v \in Users : cache'[v] \in {"miss", "none", role'[v]} \/ v \in q.drop
    BY <1>1, <1>5, <2>1 DEF Truthful
  <2> QED BY <1>0, <1>2, <1>3, <2>1, <2>2, <2>3, CacheStep
<1>6. CASE AddMember(s)
  <2>1. /\ r.step = "write" /\ role' = [role EXCEPT ![u] = r.newRole] /\ cache' = cache
        /\ doc[u] = 0 /\ Go(s, Idle)
    BY <1>6 DEF AddMember, Writing
  <2>2. \A v \in Users : cache'[v] \in {"miss", "none", role'[v]}
    BY <1>0, <1>1, <2>1 DEF Truthful
  <2> QED BY <1>0, <1>2, <1>3, <2>1, <2>2, CacheStep, IdleOK
<1>7. CASE SetRole(s)
  <2>1. \A v \in Users \ {u} : role'[v] = role[v]
    BY <1>0, <1>7 DEF SetRole
  <2> QED BY <1>5, <1>7, <2>1 DEF SetRole, Writing
<1>8. CASE RemoveMember(s)
  <2>1. \A v \in Users \ {u} : role'[v] = role[v]
    BY <1>0, <1>8 DEF RemoveMember
  <2> QED BY <1>5, <1>8, <2>1 DEF RemoveMember, Writing
<1>9. CASE TransferOwnership(s)
  <2>1. /\ role' = [v \in Users |->
                      IF doc[v] = 0 THEN "none"
                      ELSE IF v = u THEN "owner"
                      ELSE IF v = r.owner THEN "admin" ELSE role[v]]
        /\ cache' = cache /\ r.step = "write" /\ Go(s, Forgetting(r, {r.owner, u}))
    BY <1>9 DEF TransferOwnership, Writing
  <2>2. \A v \in Users \ {r.owner, u} : role'[v] = role[v]
    BY <1>0, <2>1
  <2> QED BY <1>5, <2>1, <2>2
<1>10. CASE Forget(s)
  <2>1. PICK v \in r.drop :
           /\ cache' = [cache EXCEPT ![v] = "miss"]
           /\ Go(s, IF r.drop = {v} THEN Idle ELSE [r EXCEPT !.drop = @ \ {v}])
    BY <1>10 DEF Forget
  <2>2. r.step = "forget" /\ role' = role
    BY <1>10 DEF Forget, database
  <2>3. \A w \in Users : Truthful(w) \/ w \in r.drop
    BY DEF CacheInv, Covered, OneAtATime
  <2>4. CASE r.drop = {v}
    <3>1. \A w \in Users : cache'[w] \in {"miss", "none", role'[w]}
      BY <1>0, <2>1, <2>2, <2>3, <2>4 DEF Truthful
    <3> QED BY <1>0, <1>2, <1>3, <2>1, <2>4, <3>1, CacheStep, IdleOK
  <2>5. CASE r.drop # {v}
    <3> DEFINE q == [r EXCEPT !.drop = @ \ {v}]
    <3>1. q.step = "forget" /\ q.drop = r.drop \ {v}
      BY <1>0, <2>2 DEF Request
    <3>2. Go(s, q)
      BY <2>1, <2>5
    <3> HIDE DEF q
    <3>3. \A w \in Users : cache'[w] \in {"miss", "none", role'[w]} \/ w \in q.drop
      BY <1>0, <2>1, <2>2, <2>3, <3>1 DEF Truthful
    <3> QED BY <1>0, <1>2, <1>3, <3>1, <3>2, <3>3, CacheStep
  <2> QED BY <2>4, <2>5
<1>11. AddDuplicate(s) \/ SetRoleOfNobody(s) => CacheInv'
  BY <1>4 DEF AddDuplicate, SetRoleOfNobody, Writing
<1> QED BY <1>6, <1>7, <1>8, <1>9, <1>10, <1>11

LEMMA NextCacheInv == OneAtATime /\ ~RedisFails /\ CacheInv /\ [Next]_vars => CacheInv'
<1> SUFFICES ASSUME OneAtATime, ~RedisFails, CacheInv, [Next]_vars PROVE CacheInv'
  OBVIOUS
<1>0. TypeInv' /\ Created'
  BY NextTypeInv, NextCreated DEF CacheInv
<1>1. CASE UNCHANGED vars
  BY <1>0, <1>1 DEF CacheInv, Covered, Truthful, vars, database
<1>2. ASSUME NEW u \in Users, Expire(u) PROVE CacheInv'
  <2>1. /\ cache' = [cache EXCEPT ![u] = "miss"]
        /\ owner' = owner /\ role' = role /\ req' = req
        /\ cache \in [Users -> Answers \cup {"miss"}]
    BY <1>2 DEF Expire, database, CacheInv, TypeInv, TypeOK
  <2>2. \A v \in Users : cache'[v] = cache[v] \/ cache'[v] = "miss"
    BY <2>1
  <2> QED BY <1>0, <2>1, <2>2 DEF CacheInv, Covered, Truthful
<1>3. ASSUME NEW u \in Users, CreateWorkspace(u) PROVE CacheInv'
  <2>1. owner = Null /\ owner' # Null /\ cache' = cache /\ req' = req
    BY <1>3, WorkspacesAssumption DEF CreateWorkspace
  <2>2. \A v \in Users : cache[v] = "miss"
    BY <2>1 DEF CacheInv
  <2>3. \A s \in Requests : req[s].step = "idle"
    BY <2>1 DEF CacheInv, TypeInv, RequestsOK
  <2> QED BY <1>0, <2>1, <2>2, <2>3 DEF CacheInv, Covered, Truthful
<1> QED BY <1>1, <1>2, <1>3, StartCacheInv, GuardCacheInv, ReadCacheInv, WriteCacheInv
    DEF Next, Handle

(* When requests do not overlap and Redis carries out its commands, a role *)
(* that a member lost is not in the guard's cache once the request that    *)
(* took it has answered.                                                   *)
THEOREM SerialRevocation ==
    ASSUME OneAtATime, ~RedisFails PROVE Spec => []RevocationImmediate
<1>1. CacheInv => RevocationImmediate
  <2> SUFFICES ASSUME CacheInv, Quiet PROVE RevocationImmediate
    BY DEF RevocationImmediate
  <2>1. \A s \in Requests : req[s].step # "forget"
    BY IdleOK DEF Quiet
  <2> QED BY <2>1 DEF CacheInv, Covered, Truthful, RevocationImmediate
<1>2. CacheInv /\ [Next]_vars => CacheInv'
  BY NextCacheInv
<1> QED BY <1>1, <1>2, InitCacheInv, PTL DEF Spec
-----------------------------------------------------------------------------
(* Who is entitled to what the request does, by the role stored now.  The  *)
(* guard decides on a role it cached or loaded; what it let in is entitled *)
(* still when the handler writes.                                          *)

Permits(a, op) == Rank(a) >= Rank(MinimumRole(op))

Entitled(r) ==
    \/ r.actor = Root
    \/ /\ r.actor \in Users
       /\ Permits(role[r.actor], r.op) \/ (r.op = "remove" /\ r.actor = r.target)

InHand == {"check", "find", "owner", "write"}

RightOK(r) ==
    /\ r.op = "leave" => r.target = r.actor
    /\ r.step \in InHand => Entitled(r)

RightInv == SerialInv /\ CacheInv /\ \A s \in Requests : RightOK(req[s])

LEMMA RankOfAnswer ==
    /\ \A op : ~Permits("none", op)
    /\ \A a \in Answers : Permits(a, "transfer") => a = "owner"
    /\ \A a \in Answers, op \in {"add", "setRole", "remove"} :
          Permits(a, op) => a \in {"owner", "admin"}
  BY DEF Permits, Rank, MinimumRole, Answers, RoleNames

LEMMA RightStep ==
    ASSUME RightInv, OneAtATime, SerialInv', CacheInv', NEW s \in Requests, NEW q, Go(s, q),
           RightOK(q)'
    PROVE  RightInv'
<1>1. \A t \in Requests : req'[t] = q
  BY DEF Go, OneAtATime, SerialInv, TypeInv, TypeOK
<1> QED BY <1>1 DEF RightInv, RightOK, Entitled

LEMMA IdleRight == RightOK(Idle)
  BY DEF Idle, RightOK, InHand

LEMMA QuietRight ==
    ASSUME RightInv, OneAtATime, SerialInv', CacheInv', NEW s \in Requests, NEW q, Go(s, q),
           role' = role, RightOK(q)
    PROVE  RightInv'
<1>1. RightOK(q)'
  BY DEF RightOK, Entitled
<1> QED BY <1>1, RightStep

LEMMA StartRight ==
    ASSUME RightInv, OneAtATime, SerialInv', CacheInv', NEW s \in Requests, Start(s)
    PROVE  RightInv'
<1>1. PICK a \in Actors, u \in Users, op \in Offered, new \in Roles :
         /\ Go(s, [Idle EXCEPT
                  !.op = op, !.step = "guard", !.actor = a,
                  !.target = IF op = "leave" THEN a ELSE u,
                  !.newRole = IF op \in {"add", "setRole"} THEN new ELSE Null])
            /\ role' = role
  BY DEF Start, database
<1> DEFINE r == [Idle EXCEPT
                   !.op = op, !.step = "guard", !.actor = a,
                   !.target = IF op = "leave" THEN a ELSE u,
                   !.newRole = IF op \in {"add", "setRole"} THEN new ELSE Null]
<1>2. r.step \notin InHand /\ (r.op = "leave" => r.target = r.actor)
  BY DEF Idle, InHand
<1> HIDE DEF r
<1>3. Go(s, r) /\ role' = role
  BY <1>1 DEF r
<1> QED BY <1>2, <1>3, QuietRight DEF RightOK

(* The guard lets in whom the stored role permits: a cached answer is that *)
(* role, or a refusal.                                                     *)
LEMMA GuardRight ==
    ASSUME RightInv, OneAtATime, SerialInv', CacheInv', NEW s \in Requests, Guard(s)
    PROVE  RightInv'
<1> DEFINE r == req[s]
<1>0. /\ r \in Request /\ RequestOK(r) /\ r.step \in {"guard", "load", "store"}
      /\ role' = role /\ \A u \in Users : Truthful(u)
      /\ r.op = "leave" => r.target = r.actor
  <2>1. r.step \in {"guard", "load", "store"} /\ role' = role
    BY DEF Guard, GuardUnrestricted, GuardHit, GuardMiss, GuardLoad, GuardStore, database
  <2> QED BY <2>1, AllTruthful DEF RightInv, RightOK, CacheInv, TypeInv, TypeOK, RequestsOK
<1>1. \/ Enter(r) = Idle
      \/ /\ Enter(r).actor = r.actor /\ Enter(r).op = r.op /\ Enter(r).target = r.target
  BY <1>0 DEF Enter, Request
<1>2. ASSUME r.actor = Root \/ (r.actor \in Users /\ Permits(role[r.actor], r.op)),
             Go(s, Enter(r))
      PROVE  RightInv'
  <2>1. RightOK(Enter(r))
    BY <1>0, <1>1, <1>2, IdleRight DEF Entitled, RightOK
  <2> QED BY <1>0, <1>2, <2>1, QuietRight
<1>3. ASSUME NEW q, Go(s, q), q.op = r.op, q.target = r.target, q.actor = r.actor,
             q.step \notin InHand
      PROVE  RightInv'
  <2>1. RightOK(q)
    BY <1>0, <1>3 DEF RightOK
  <2> QED BY <1>0, <1>3, <2>1, QuietRight
<1>10. Go(s, Idle) => RightInv'
  BY <1>0, IdleRight, QuietRight
<1>4. ASSUME r.actor \in Users, NEW a \in {"none", role[r.actor]}, Decide(s, a)
      PROVE  RightInv'
  BY <1>2, <1>4, <1>10, RankOfAnswer DEF Decide, Permits
<1>5. CASE GuardUnrestricted(s)
  BY <1>2, <1>5 DEF GuardUnrestricted
<1>6. CASE GuardHit(s)
  BY <1>0, <1>4, <1>6 DEF GuardHit, Truthful
<1>7. CASE GuardStore(s)
  BY <1>0, <1>4, <1>7 DEF GuardStore, RightInv, CacheInv, RequestOK
<1>8. CASE GuardMiss(s)
  <2> DEFINE q == [r EXCEPT !.step = "load"]
  <2>1. /\ q.op = r.op /\ q.target = r.target /\ q.actor = r.actor /\ q.step \notin InHand
    BY <1>0 DEF Request, InHand
  <2>2. Go(s, q)
    BY <1>8 DEF GuardMiss
  <2> HIDE DEF q
  <2> QED BY <1>3, <2>1, <2>2
<1>9. CASE GuardLoad(s)
  <2> DEFINE q == [r EXCEPT !.step = "store", !.answer = role[r.actor]]
  <2>1. /\ q.op = r.op /\ q.target = r.target /\ q.actor = r.actor /\ q.step \notin InHand
    BY <1>0 DEF Request, InHand
  <2>2. Go(s, q)
    BY <1>9 DEF GuardLoad
  <2> HIDE DEF q
  <2> QED BY <1>3, <2>1, <2>2
<1> QED BY <1>5, <1>6, <1>7, <1>8, <1>9 DEF Guard

LEMMA ReadRight ==
    ASSUME RightInv, OneAtATime, SerialInv', CacheInv', NEW s \in Requests,
           CheckAbsent(s) \/ FindMember(s) \/ ReadOwner(s)
    PROVE  RightInv'
<1> DEFINE r == req[s]
           u == r.target
<1>0. /\ r \in Request /\ RequestOK(r) /\ Entitled(r) /\ role' = role /\ r.step \in InHand
      /\ r.op = "leave" => r.target = r.actor
  BY DEF CheckAbsent, FindMember, ReadOwner, Refuse, database, InHand,
         RightInv, RightOK, CacheInv, TypeInv, TypeOK, RequestsOK
<1>1. ASSUME NEW q, Go(s, q), q.actor = r.actor, q.op = r.op, q.target = r.target
      PROVE  RightInv'
  <2>1. RightOK(q)
    BY <1>0, <1>1 DEF RightOK, Entitled
  <2> QED BY <1>0, <1>1, <2>1, QuietRight
<1>2. Refuse(s) => RightInv'
  BY <1>0, IdleRight, QuietRight DEF Refuse
<1>3. CASE CheckAbsent(s) /\ ~Refuse(s)
  <2> DEFINE q == [r EXCEPT !.step = "write"]
  <2>1. Go(s, q)
    BY <1>3 DEF CheckAbsent
  <2>2. q.actor = r.actor /\ q.op = r.op /\ q.target = r.target
    BY <1>0 DEF Request
  <2> QED BY <1>1, <2>1, <2>2
<1>4. CASE ReadOwner(s)
  <2> DEFINE q == [r EXCEPT !.step = "write", !.owner = owner]
  <2>1. Go(s, q)
    BY <1>4 DEF ReadOwner
  <2>2. q.actor = r.actor /\ q.op = r.op /\ q.target = r.target
    BY <1>0 DEF Request
  <2> QED BY <1>1, <2>1, <2>2
<1>5. CASE FindMember(s) /\ ~Refuse(s) /\ r.op = "leave"
  <2> DEFINE q == [r EXCEPT !.op = "remove"]
  <2>1. Go(s, q)
    BY <1>5 DEF FindMember
  <2>2. q.actor = r.actor /\ q.op = "remove" /\ q.target = r.target /\ r.target = r.actor
    BY <1>0, <1>5 DEF Request
  <2>3. RightOK(q)
    <3> HIDE DEF q
    <3> QED BY <1>0, <2>2 DEF RightOK, Entitled
  <2> QED BY <1>0, <2>1, <2>3, QuietRight
<1>6. CASE FindMember(s) /\ ~Refuse(s) /\ r.op # "leave"
  <2>1. PICK q \in {[r EXCEPT !.step = "owner"],
                    [r EXCEPT !.step = "write", !.found = doc[u], !.was = role[u]]} : Go(s, q)
    BY <1>6 DEF FindMember
  <2>2. q.actor = r.actor /\ q.op = r.op /\ q.target = r.target
    BY <1>0, <2>1 DEF Request
  <2> QED BY <1>1, <2>1, <2>2
<1> QED BY <1>2, <1>3, <1>4, <1>5, <1>6

(* A handler that has written has nothing in hand.                         *)
LEMMA WriteRight ==
    ASSUME RightInv, OneAtATime, SerialInv', CacheInv', NEW s \in Requests,
           \/ AddMember(s) \/ AddDuplicate(s) \/ SetRole(s) \/ SetRoleOfNobody(s)
           \/ RemoveMember(s) \/ TransferOwnership(s) \/ Forget(s)
    PROVE  RightInv'
<1> DEFINE r == req[s]
<1>0. r \in Request /\ RequestOK(r) /\ (r.op = "leave" => r.target = r.actor)
  BY DEF RightInv, RightOK, CacheInv, TypeInv, TypeOK, RequestsOK
<1>1. Go(s, Idle) => RightInv'
  <2>1. Idle.op # "leave" /\ Idle.step \notin InHand
    BY DEF Idle, InHand
  <2> QED BY <2>1, RightStep DEF RightOK
<1>2. ASSUME NEW q, Go(s, q), q.op = r.op, q.target = r.target, q.actor = r.actor,
             q.step = "forget"
      PROVE  RightInv'
  <2>1. RightOK(q)'
    BY <1>0, <1>2 DEF RightOK, InHand
  <2> QED BY <1>2, <2>1, RightStep
<1>3. ASSUME NEW users, Go(s, Forgetting(r, users)) PROVE RightInv'
  <2> DEFINE q == Forgetting(r, users)
  <2>1. q.op = r.op /\ q.target = r.target /\ q.actor = r.actor /\ q.step = "forget"
    BY <1>0 DEF Forgetting, Request
  <2> HIDE DEF q
  <2>2. Go(s, q)
    BY <1>3 DEF q
  <2> QED BY <1>2, <2>1, <2>2
<1>4. CASE Forget(s)
  <2>1. PICK v \in r.drop : Go(s, IF r.drop = {v} THEN Idle ELSE [r EXCEPT !.drop = @ \ {v}])
    BY <1>4 DEF Forget
  <2> DEFINE q == [r EXCEPT !.drop = @ \ {v}]
  <2>2. q.op = r.op /\ q.target = r.target /\ q.actor = r.actor /\ q.step = "forget"
    BY <1>0, <1>4 DEF Forget, Request
  <2>3. Go(s, Idle) \/ Go(s, q)
    BY <2>1
  <2> HIDE DEF q
  <2> QED BY <1>1, <1>2, <2>2, <2>3
<1> QED BY <1>1, <1>3, <1>4
    DEF AddMember, AddDuplicate, SetRole, SetRoleOfNobody, RemoveMember, TransferOwnership, Refuse

LEMMA InitRight == Init => RightInv
<1> SUFFICES ASSUME Init PROVE RightInv
  OBVIOUS
<1>1. \A s \in Requests : req[s] = Idle
  BY DEF Init
<1> QED BY <1>1, InitSerialInv, InitCacheInv, IdleRight DEF RightInv

LEMMA NextRight == OneAtATime /\ ~RedisFails /\ RightInv /\ [Next]_vars => RightInv'
<1> SUFFICES ASSUME OneAtATime, ~RedisFails, RightInv, [Next]_vars PROVE RightInv'
  OBVIOUS
<1>0. SerialInv' /\ CacheInv'
  BY NextSerialInv, NextCacheInv DEF RightInv
<1>1. ASSUME role' = role, req' = req PROVE RightInv'
  BY <1>0, <1>1 DEF RightInv, RightOK, Entitled
<1>2. UNCHANGED vars => RightInv'
  BY <1>1 DEF vars, database
<1>3. ASSUME NEW u \in Users, Expire(u) PROVE RightInv'
  BY <1>1, <1>3 DEF Expire, database
<1>4. ASSUME NEW u \in Users, CreateWorkspace(u) PROVE RightInv'
  <2>1. req' = req /\ owner = Null
    BY <1>4 DEF CreateWorkspace
  <2>2. \A s \in Requests : req[s].step = "idle"
    BY <2>1 DEF RightInv, CacheInv, TypeInv, RequestsOK
  <2> QED BY <1>0, <2>1, <2>2 DEF RightInv, RightOK, InHand
<1> QED BY <1>0, <1>2, <1>3, <1>4, StartRight, GuardRight, ReadRight, WriteRight DEF Next, Handle

(* The role table is left alone by all but the five writes.                *)
LEMMA TableKept ==
    ASSUME [Next]_vars
    PROVE  \/ owner' = owner /\ role' = role
           \/ \E u \in Users : CreateWorkspace(u)
           \/ \E s \in Requests :
                 AddMember(s) \/ SetRole(s) \/ RemoveMember(s) \/ TransferOwnership(s)
<1>1. ASSUME NEW s \in Requests, Start(s) \/ Guard(s) PROVE owner' = owner /\ role' = role
  BY <1>1 DEF Start, Guard, GuardUnrestricted, GuardHit, GuardMiss, GuardLoad, GuardStore, database
<1>2. ASSUME NEW s \in Requests,
             \/ CheckAbsent(s) \/ FindMember(s) \/ ReadOwner(s)
             \/ AddDuplicate(s) \/ SetRoleOfNobody(s) \/ Forget(s)
      PROVE  owner' = owner /\ role' = role
  BY <1>2 DEF CheckAbsent, FindMember, ReadOwner, AddDuplicate, SetRoleOfNobody, Forget,
              Refuse, database
<1> QED BY <1>1, <1>2 DEF Next, Handle, Expire, vars, database

LEMMA WriteOnTable ==
    ASSUME OneAtATime, RightInv, NEW s \in Requests,
           AddMember(s) \/ SetRole(s) \/ RemoveMember(s) \/ TransferOwnership(s)
    PROVE  [Table!Next]_(Table!vars)
<1> DEFINE r == req[s]
           u == r.target
           by == r.actor
<1>0. /\ r.step = "write" /\ r \in Request /\ RequestOK(r) /\ Current(r) /\ Entitled(r)
      /\ u \in Users /\ by \in Users \cup {Root} /\ OwnerSettled /\ owner # Null
      /\ role \in [Users -> Answers] /\ doc \in [Users -> Nat] /\ owner \in Users \cup {Null}
      /\ \A v \in Users : doc[v] = 0 <=> role[v] = "none"
  BY DEF AddMember, SetRole, RemoveMember, TransferOwnership, Writing, Entitled, InHand,
         RightInv, RightOK, SerialInv, TypeInv, TypeOK, RequestsOK, RequestOK
<1>1. CASE AddMember(s)
  <2>1. /\ r.op = "add" /\ r.newRole \in Roles /\ role[u] = "none" /\ owner' = owner
        /\ role' = [role EXCEPT ![u] = r.newRole]
    BY <1>0, <1>1 DEF AddMember, Writing, RequestOK
  <2>2. Table!MayManage(by)
    BY <1>0, <2>1, RankOfAnswer DEF Entitled, Table!MayManage
  <2>3. Table!Add(by, u, r.newRole)
    BY <2>1, <2>2 DEF Table!Add
  <2> QED BY <1>0, <2>1, <2>3 DEF Table!Next
<1>2. CASE SetRole(s)
  <2>1. /\ r.op = "setRole" /\ r.newRole \in Roles /\ owner' = owner
        /\ role[u] # "owner" /\ role[u] # "none"
        /\ role' = [role EXCEPT ![u] = IF r.newRole = r.was THEN @ ELSE r.newRole]
    BY <1>0, <1>2 DEF SetRole, Writing, RequestOK, Current
  <2>2. CASE r.newRole = r.was
    BY <1>0, <2>1, <2>2 DEF Table!vars
  <2>3. CASE r.newRole # r.was
    <3>1. Table!MayManage(by)
      BY <1>0, <2>1, RankOfAnswer DEF Entitled, Table!MayManage
    <3>2. Table!Assign(by, u, r.newRole)
      BY <2>1, <2>3, <3>1 DEF Table!Assign
    <3> QED BY <1>0, <2>1, <3>2 DEF Table!Next
  <2> QED BY <2>2, <2>3
<1>3. CASE RemoveMember(s)
  <2>1. /\ r.op = "remove" /\ role[u] # "owner" /\ owner' = owner
        /\ role' = [role EXCEPT ![u] = "none"]
    BY <1>0, <1>3 DEF RemoveMember, Writing, Current
  <2>2. by = u \/ Table!MayManage(by)
    BY <1>0, <2>1, RankOfAnswer DEF Entitled, Table!MayManage
  <2>3. Table!Remove(by, u)
    BY <2>1, <2>2 DEF Table!Remove
  <2> QED BY <1>0, <2>3 DEF Table!Next
<1>4. CASE TransferOwnership(s)
  <2>1. r.op = "transfer" /\ doc[u] # 0 /\ r.owner = owner /\ owner \in Users /\ owner' = u
    BY <1>0, <1>4 DEF TransferOwnership, Writing, Current
  <2>2. role' = [v \in Users |->
                   IF doc[v] = 0 THEN "none"
                   ELSE IF v = u THEN "owner" ELSE IF v = owner THEN "admin" ELSE role[v]]
    BY <1>4, <2>1 DEF TransferOwnership
  <2>3. \A v \in Users : doc[v] = 0 => v # u /\ v # owner /\ role[v] = "none"
    BY <1>0, <2>1 DEF OwnerSettled
  <2>4. role' = [role EXCEPT ![owner] = "admin", ![u] = "owner"]
    BY <1>0, <2>1, <2>2, <2>3
  <2>5. by \in {Root, owner}
    BY <1>0, <2>1, RankOfAnswer DEF Entitled, OwnerSettled
  <2>6. Table!Transfer(by, u)
    BY <1>0, <2>1, <2>4, <2>5 DEF Table!Transfer
  <2> QED BY <1>0, <2>6 DEF Table!Next
<1> QED BY <1>1, <1>2, <1>3, <1>4

(* When requests do not overlap and Redis answers, every change of a role  *)
(* is one that RoleTable allows: whoever makes it is entitled to it by the *)
(* role stored at that moment, although the guard went by a cached one and *)
(* several awaits lie between its answer and the write.                    *)
THEOREM KeepsRoleTable ==
    ASSUME OneAtATime, ~RedisFails PROVE Spec => ImplementsRoleTable
<1>1. Init => Table!Init
  BY DEF Init, Table!Init
<1>2. RightInv /\ [Next]_vars => RightInv'
  BY NextRight
<1>3. RightInv /\ [Next]_vars => [Table!Next]_(Table!vars)
  <2> SUFFICES ASSUME RightInv, [Next]_vars PROVE [Table!Next]_(Table!vars)
    OBVIOUS
  <2>1. CASE owner' = owner /\ role' = role
    BY <2>1 DEF Table!vars
  <2>2. ASSUME NEW u \in Users, CreateWorkspace(u) PROVE Table!Next
    BY <2>2 DEF CreateWorkspace, Table!Next, Table!Found
  <2> QED BY <2>1, <2>2, TableKept, WriteOnTable
<1> QED BY <1>1, <1>2, <1>3, InitRight, PTL DEF Spec, ImplementsRoleTable, Table!Spec

-----------------------------------------------------------------------------
(* The notices of a card                                                   *)

(* The operations that set the assignees.                                  *)
Assigning == {"assign", "create"}

(* The notices a request has still to send.                                *)
In(todo) == {todo[i] : i \in DOMAIN todo}

NoticeOK(r, x) ==
    /\ x.kind \in {"assigned", "unassigned"} => r.ops \cap Assigning # {}
    /\ x.kind = "assigned" /\ Solo(Assigning) => x.to \subseteq assignees
    /\ x.kind = "unassigned" /\ Solo(Assigning) => x.to \cap assignees = {}
    /\ x.kind \in {"done", "reopened"} =>
          /\ "complete" \in r.ops /\ creator \in x.to
          /\ Solo({"complete"}) => done = (x.kind = "done")
    /\ x.kind = "moved" =>
          /\ "move" \in r.ops /\ creator \in x.to
          /\ Solo({"move"}) => r.target = column
    /\ x.kind = "archived" =>
          "archive" \in r.ops /\ creator \in x.to /\ cardState = "archived"

Memory(r) ==
    /\ "assign" \in r.ops /\ Solo(Assigning) => r.assignees = assignees
    /\ "complete" \in r.ops /\ Solo({"complete"}) => r.done = done
    /\ "move" \in r.ops /\ Solo({"move"}) => r.column = column

NewsRequestOK(s, r) ==
    /\ r.ops \subseteq newsMix.does[s]
    /\ r.ops \in {{"create"}, {"move"}, {"archive"}} \/ r.ops \subseteq UpdateOps
    /\ IF r.step = "idle" THEN r.ops = {} ELSE r.actor \in People
    /\ "create" \in r.ops /\ r.step # "tell" => r.step \in {"check", "save"} /\ cardState = "none"
    /\ r.step # "idle" /\ ("create" \notin r.ops \/ r.step = "tell") => cardState # "none"
    /\ r.step \in {"check", "save"} => Memory(r)
    /\ r.step = "tell" <=> r.todo # <<>>
    /\ \A x \in In(r.todo) : NoticeOK(r, x)

(* Somebody, or the creator, has still to be told.                         *)
OwedTo(u) ==
    \E s \in NewsSlots : /\ newsReq[s].actor # u
                         /\ \E x \in In(newsReq[s].todo) :
                               x.kind \in {"assigned", "unassigned"} /\ u \in x.to

Owed(kinds) ==
    \E s \in NewsSlots : /\ newsReq[s].actor # creator
                         /\ \E x \in In(newsReq[s].todo) : x.kind \in kinds

Knows ==
    /\ Solo(Assigning) => \A u \in People \ unheard : (u \in heardOn <=> u \in assignees) \/ OwedTo(u)
    /\ creator \notin unheard =>
          /\ Solo({"complete"}) => heardOf.done = done \/ Owed({"done", "reopened"})
          /\ Solo({"move"}) => heardOf.column = column \/ Owed({"moved"})
          /\ \/ heardOf.archived <=> cardState = "archived"
             \/ cardState = "archived" /\ Owed({"archived"})

(* Before the card is there, the request that creates it is alone.         *)
FirstCreated ==
    IF cardState = "none"
    THEN /\ assignees = {} /\ creator = Nobody
         /\ \A s, t \in NewsSlots : newsReq[s].step # "idle" /\ newsReq[t].step # "idle" => s = t
    ELSE creator \in People

NewsInv ==
    /\ CardNewsTypeOK
    /\ \A s \in NewsSlots : NewsRequestOK(s, newsReq[s])
    /\ FirstCreated
    /\ Knows
LEMMA InEmpty == In(<<>>) = {}
  BY EmptySeq DEF In

LEMMA InNotice ==
    ASSUME NEW kind, NEW to
    PROVE  In(Notice(kind, to)) = IF to = {} THEN {} ELSE {[kind |-> kind, to |-> to]}
<1>1. CASE to = {}
  BY <1>1, InEmpty DEF Notice
<1>2. CASE to # {}
  BY <1>2 DEF Notice, In
<1> QED BY <1>1, <1>2

LEMMA InConcat ==
    ASSUME NEW S, NEW a \in Seq(S), NEW b \in Seq(S)
    PROVE  In(a \o b) = In(a) \cup In(b)
<1>1. /\ Len(a \o b) = Len(a) + Len(b) /\ a \o b \in Seq(S)
      /\ \A i \in 1..(Len(a) + Len(b)) :
            (a \o b)[i] = IF i <= Len(a) THEN a[i] ELSE b[i - Len(a)]
  BY ConcatProperties
<1>2. /\ DOMAIN a = 1..Len(a) /\ DOMAIN b = 1..Len(b) /\ DOMAIN (a \o b) = 1..(Len(a) + Len(b))
      /\ Len(a) \in Nat /\ Len(b) \in Nat
  BY <1>1, LenProperties
<1>3. ASSUME NEW x \in In(a \o b) PROVE x \in In(a) \cup In(b)
  <2>1. PICK i \in 1..(Len(a) + Len(b)) : (a \o b)[i] = x
    BY <1>2 DEF In
  <2>2. CASE i <= Len(a)
    BY <1>1, <1>2, <2>1, <2>2 DEF In
  <2>3. CASE i > Len(a)
    <3>1. i - Len(a) \in 1..Len(b) /\ b[i - Len(a)] = x
      BY <1>1, <1>2, <2>1, <2>3
    <3> QED BY <1>2, <3>1 DEF In
  <2> QED BY <1>2, <2>2, <2>3
<1>4. ASSUME NEW x \in In(a) PROVE x \in In(a \o b)
  <2>1. PICK i \in 1..Len(a) : a[i] = x
    BY <1>2 DEF In
  <2>2. i \in 1..(Len(a) + Len(b)) /\ (a \o b)[i] = x
    BY <1>1, <1>2, <2>1
  <2> QED BY <1>2, <2>2 DEF In
<1>5. ASSUME NEW x \in In(b) PROVE x \in In(a \o b)
  <2>1. PICK i \in 1..Len(b) : b[i] = x
    BY <1>2 DEF In
  <2>2. i + Len(a) \in 1..(Len(a) + Len(b)) /\ (a \o b)[i + Len(a)] = x
    BY <1>1, <1>2, <2>1
  <2> QED BY <1>2, <2>2 DEF In
<1> QED BY <1>3, <1>4, <1>5

LEMMA InHeadTail ==
    ASSUME NEW S, NEW a \in Seq(S), a # <<>>
    PROVE  /\ Head(a) \in S /\ Tail(a) \in Seq(S)
           /\ In(a) = {Head(a)} \cup In(Tail(a))
<1>1. /\ Head(a) \in S /\ Tail(a) \in Seq(S) /\ Len(Tail(a)) = Len(a) - 1
      /\ \A i \in 1..Len(Tail(a)) : Tail(a)[i] = a[i + 1]
  BY HeadTailProperties
<1>2. /\ DOMAIN a = 1..Len(a) /\ DOMAIN Tail(a) = 1..Len(Tail(a))
      /\ Len(a) \in Nat /\ Len(a) # 0 /\ Head(a) = a[1]
  BY <1>1, LenProperties, EmptySeq
<1>3. ASSUME NEW x \in In(a) PROVE x \in {Head(a)} \cup In(Tail(a))
  <2>1. PICK i \in 1..Len(a) : a[i] = x
    BY <1>2 DEF In
  <2>2. CASE i # 1
    <3>1. i - 1 \in 1..Len(Tail(a)) /\ Tail(a)[i - 1] = x
      BY <1>1, <1>2, <2>1, <2>2
    <3> QED BY <1>2, <3>1 DEF In
  <2> QED BY <1>2, <2>1, <2>2
<1>4. Head(a) \in In(a)
  BY <1>2 DEF In
<1>5. ASSUME NEW x \in In(Tail(a)) PROVE x \in In(a)
  <2>1. PICK i \in 1..Len(Tail(a)) : Tail(a)[i] = x
    BY <1>2 DEF In
  <2>2. i + 1 \in 1..Len(a) /\ a[i + 1] = x
    BY <1>1, <1>2, <2>1
  <2> QED BY <1>2, <2>2 DEF In
<1> QED BY <1>1, <1>3, <1>4, <1>5

LEMMA NoNewsOK ==
    /\ NoNewsRequest \in NewsRequest /\ NoNewsRequest.step = "idle"
    /\ NoNewsRequest.todo = <<>> /\ In(NoNewsRequest.todo) = {} /\ NoNewsRequest.ops = {}
    /\ \A s \in NewsSlots : NewsRequestOK(s, NoNewsRequest)
<1>1. <<>> \in Seq([kind : Notices, to : SUBSET People])
  BY EmptySeq
<1>2. NoNewsRequest \in NewsRequest
  BY <1>1 DEF NoNewsRequest, NewsRequest, Columns
<1>3. /\ NoNewsRequest.step = "idle" /\ NoNewsRequest.ops = {} /\ NoNewsRequest.todo = <<>>
      /\ In(NoNewsRequest.todo) = {}
  BY InEmpty DEF NoNewsRequest
<1> QED BY <1>2, <1>3 DEF NewsRequestOK, UpdateOps

LEMMA NewsInit == CardNewsInit => NewsInv
<1> SUFFICES ASSUME CardNewsInit PROVE NewsInv
  OBVIOUS
<1>1. \A s \in NewsSlots : newsReq[s] = NoNewsRequest
  BY DEF CardNewsInit
<1>2. CardNewsTypeOK
  <2>1. newsMix.there \subseteq People
    BY CardNewsAssumption DEF CardNewsInit
  <2> QED BY <2>1, NoNewsOK DEF CardNewsInit, CardNewsTypeOK, Columns, Knowledge
<1>3. Knows
  BY DEF CardNewsInit, Knows
<1>4. FirstCreated
  BY <1>1, NoNewsOK DEF CardNewsInit, FirstCreated
<1>5. \A s \in NewsSlots : NewsRequestOK(s, newsReq[s])
  BY <1>1, NoNewsOK
<1> QED BY <1>2, <1>3, <1>4, <1>5 DEF NewsInv

(* What a request is owed does not change with another one's step.         *)
LEMMA OwedByOthers ==
    ASSUME NEW s \in NewsSlots, creator' = creator, In(newsReq[s].todo) = {},
           \A t \in NewsSlots : t # s => /\ newsReq'[t].todo = newsReq[t].todo
                                       /\ newsReq'[t].actor = newsReq[t].actor
    PROVE  /\ \A u : OwedTo(u) => OwedTo(u)'
           /\ \A kinds : Owed(kinds) => Owed(kinds)'
<1>1. ASSUME NEW u, OwedTo(u) PROVE OwedTo(u)'
  <2>1. PICK t \in NewsSlots : /\ newsReq[t].actor # u
                               /\ \E x \in In(newsReq[t].todo) :
                                     x.kind \in {"assigned", "unassigned"} /\ u \in x.to
    BY <1>1 DEF OwedTo
  <2>2. t # s
    BY <2>1
  <2>3. /\ newsReq'[t].actor # u
        /\ \E x \in In(newsReq'[t].todo) :
              x.kind \in {"assigned", "unassigned"} /\ u \in x.to
    BY <2>1, <2>2
  <2> QED BY <2>3 DEF OwedTo, In
<1>2. ASSUME NEW kinds, Owed(kinds) PROVE Owed(kinds)'
  <2>1. PICK t \in NewsSlots : /\ newsReq[t].actor # creator
                               /\ \E x \in In(newsReq[t].todo) : x.kind \in kinds
    BY <1>2 DEF Owed
  <2>2. t # s
    BY <2>1
  <2>3. newsReq'[t].actor # creator' /\ \E x \in In(newsReq'[t].todo) : x.kind \in kinds
    BY <2>1, <2>2
  <2> QED BY <2>3 DEF Owed, In
<1> QED BY <1>1, <1>2

(* A request left alone, while another writes what only its own operations *)
(* may write.                                                              *)
LEMMA OthersKept ==
    ASSUME NewsInv, NEW s \in NewsSlots, NEW t \in NewsSlots, t # s,
           newsMix' = newsMix, creator' = creator,
           cardState' = cardState \/ (cardState # "none" /\ cardState' = "archived"),
           assignees' # assignees => newsMix.does[s] \cap Assigning # {},
           done' # done => newsMix.does[s] \cap {"complete"} # {},
           column' # column => newsMix.does[s] \cap {"move"} # {},
           newsReq'[t] = newsReq[t] \/ newsReq'[t] = [newsReq[t] EXCEPT !.stale = TRUE]
    PROVE  NewsRequestOK(t, newsReq[t])'
<1>1. newsReq[t] \in NewsRequest /\ NewsRequestOK(t, newsReq[t])
  BY DEF NewsInv, CardNewsTypeOK
<1>2. /\ newsReq'[t].ops = newsReq[t].ops /\ newsReq'[t].step = newsReq[t].step
      /\ newsReq'[t].assignees = newsReq[t].assignees /\ newsReq'[t].done = newsReq[t].done
      /\ newsReq'[t].column = newsReq[t].column /\ newsReq'[t].target = newsReq[t].target
      /\ newsReq'[t].todo = newsReq[t].todo /\ newsReq'[t].actor = newsReq[t].actor
  BY <1>1 DEF NewsRequest
<1>3. \A ops : Solo(ops)' <=> Solo(ops)
  BY DEF Solo
<1>4. newsReq[t].ops \subseteq newsMix.does[t]
  BY <1>1 DEF NewsRequestOK
<1>5. /\ newsReq[t].ops \cap Assigning # {} /\ Solo(Assigning) => assignees' = assignees
      /\ "complete" \in newsReq[t].ops /\ Solo({"complete"}) => done' = done
      /\ "move" \in newsReq[t].ops /\ Solo({"move"}) => column' = column
  BY <1>4 DEF Solo
<1>6. Memory(newsReq[t]) => Memory(newsReq[t])'
  BY <1>2, <1>3, <1>5 DEF Memory, Assigning
<1>7. ASSUME NEW x \in In(newsReq[t].todo) PROVE NoticeOK(newsReq[t], x)'
  <2>1. NoticeOK(newsReq[t], x) /\ (x.kind = "archived" => cardState' = "archived")
    BY <1>1 DEF NewsRequestOK, NoticeOK
  <2> QED BY <1>2, <1>3, <1>5, <2>1 DEF NoticeOK, Assigning
<1>8. \A x \in In(newsReq[t].todo)' : NoticeOK(newsReq[t], x)'
  BY <1>2, <1>7 DEF In
<1> QED BY <1>1, <1>2, <1>6, <1>8 DEF NewsRequestOK

(* A step that changes no card, tells nobody and leaves the request with   *)
(* nothing to tell.                                                        *)
LEMMA QuietNews ==
    ASSUME NewsInv, NEW s \in NewsSlots, NEW r \in NewsRequest,
           newsReq' = [newsReq EXCEPT ![s] = r],
           UNCHANGED <<theCard, staff, heard, newsMix>>,
           newsReq[s].todo = <<>>, r.todo = <<>>, NewsRequestOK(s, r),
           cardState = "none" /\ r.step # "idle" =>
              \A t \in NewsSlots \ {s} : newsReq[t].step = "idle"
    PROVE  NewsInv'
<1>1. /\ cardState' = cardState /\ creator' = creator /\ assignees' = assignees
      /\ done' = done /\ column' = column /\ staff' = staff /\ newsMix' = newsMix
      /\ heardOn' = heardOn /\ heardOf' = heardOf /\ unheard' = unheard
  BY DEF theCard, heard
<1>2. /\ newsReq' \in [NewsSlots -> NewsRequest] /\ newsReq'[s] = r
      /\ \A t \in NewsSlots : t # s => newsReq'[t] = newsReq[t]
  BY DEF NewsInv, CardNewsTypeOK
<1>3. CardNewsTypeOK'
  BY <1>1, <1>2 DEF NewsInv, CardNewsTypeOK
<1>4. NewsRequestOK(s, newsReq[s])'
  <2>1. In(r.todo) = {}
    BY InEmpty
  <2>2. In(newsReq[s].todo)' = {}
    BY <1>2, <2>1 DEF In
  <2>3. Memory(r) => Memory(newsReq[s])'
    BY <1>1, <1>2 DEF Memory, Solo
  <2> QED BY <1>1, <1>2, <2>2, <2>3 DEF NewsRequestOK
<1>5. ASSUME NEW t \in NewsSlots, t # s PROVE NewsRequestOK(t, newsReq[t])'
  BY <1>1, <1>2, <1>5, OthersKept
<1>6. FirstCreated'
  BY <1>1, <1>2 DEF NewsInv, FirstCreated
<1>7. Knows'
  <2>1. /\ \A u : OwedTo(u) => OwedTo(u)'
        /\ \A kinds : Owed(kinds) => Owed(kinds)'
    BY <1>1, <1>2, InEmpty, OwedByOthers
  <2>2. \A ops : Solo(ops)' <=> Solo(ops)
    BY <1>1 DEF Solo
  <2> QED BY <1>1, <2>1, <2>2 DEF NewsInv, Knows
<1> QED BY <1>3, <1>4, <1>5, <1>6, <1>7 DEF NewsInv

LEMMA DropNews ==
    ASSUME NewsInv, NEW s \in NewsSlots, newsReq[s].step # "tell", Drop(s)
    PROVE  NewsInv'
<1>1. newsReq[s].todo = <<>>
  BY DEF NewsInv, NewsRequestOK
<1> QED BY <1>1, NoNewsOK, QuietNews DEF Drop

LEMMA AskNews ==
    ASSUME NewsInv, NEW s \in NewsSlots,
           AskCreate(s) \/ AskUpdate(s) \/ AskMove(s) \/ AskArchive(s)
    PROVE  NewsInv'
<1>1. ASSUME NEW r \in NewsRequest, Ask(s, r), r.todo = <<>>, r.actor \in People,
             r.step \in {"load", "check"}, r.ops \subseteq newsMix.does[s],
             r.ops = {"create"} => \A t \in NewsSlots : newsReq[t].step = "idle",
             \/ r.ops = {"create"} /\ r.step = "check"
             \/ r.step = "load" /\ (r.ops \in {{"move"}, {"archive"}} \/ r.ops \subseteq UpdateOps)
      PROVE  NewsInv'
  <2>1. newsReq[s].step = "idle" /\ newsReq[s].todo = <<>>
    BY <1>1 DEF Ask, NewsInv, NewsRequestOK
  <2>2. In(r.todo) = {}
    BY <1>1, InEmpty
  <2>3. "create" \in r.ops => r.ops = {"create"}
    BY <1>1 DEF UpdateOps
  <2>4. cardState = "none" <=> r.ops = {"create"}
    BY <1>1 DEF Ask
  <2>5. r.ops = {"create"} => Memory(r)
    BY DEF Memory
  <2>6. NewsRequestOK(s, r)
    <3>1. CASE r.ops = {"create"} /\ r.step = "check"
      BY <1>1, <2>2, <2>4, <2>5, <3>1 DEF NewsRequestOK
    <3>2. CASE r.step = "load" /\ (r.ops \in {{"move"}, {"archive"}} \/ r.ops \subseteq UpdateOps)
      <4>1. "create" \notin r.ops
        BY <3>2 DEF UpdateOps
      <4> QED BY <1>1, <2>2, <2>4, <3>2, <4>1 DEF NewsRequestOK
    <3> QED BY <1>1, <3>1, <3>2
  <2> QED BY <1>1, <2>1, <2>4, <2>6, QuietNews DEF Ask
<1>2. staff \subseteq People /\ newsMix.there \subseteq People
  BY CardNewsAssumption DEF NewsInv, CardNewsTypeOK
<1>3. CASE AskCreate(s)
  <2>1. PICK actor \in staff, want \in SUBSET newsMix.there :
           Ask(s, [NoNewsRequest EXCEPT !.step = "check", !.ops = {"create"},
                                        !.actor = actor, !.want = want])
    BY <1>3 DEF AskCreate
  <2> DEFINE r == [NoNewsRequest EXCEPT !.step = "check", !.ops = {"create"},
                                        !.actor = actor, !.want = want]
  <2>2. r \in NewsRequest /\ r.todo = <<>> /\ r.actor = actor /\ r.step = "check" /\ r.ops = {"create"}
    BY <1>2, NoNewsOK DEF NewsRequest, NewsOps, NoNewsRequest
  <2>3. "create" \in newsMix.does[s] /\ \A t \in NewsSlots : newsReq[t].step = "idle"
    BY <1>3 DEF AskCreate
  <2> HIDE DEF r
  <2>4. Ask(s, r)
    BY <2>1 DEF r
  <2> QED BY <1>1, <1>2, <2>2, <2>3, <2>4
<1>4. CASE AskUpdate(s)
  <2>1. PICK ops \in (SUBSET (newsMix.does[s] \cap UpdateOps)) \ {{}}, actor \in staff,
             want \in SUBSET newsMix.there, completed \in BOOLEAN :
           Ask(s, [NoNewsRequest EXCEPT !.step = "load", !.ops = ops, !.actor = actor,
                                        !.want = want, !.completed = completed])
    BY <1>4 DEF AskUpdate
  <2> DEFINE r == [NoNewsRequest EXCEPT !.step = "load", !.ops = ops, !.actor = actor,
                                        !.want = want, !.completed = completed]
  <2>2. ops \subseteq UpdateOps /\ ops \subseteq newsMix.does[s] /\ ops # {"create"}
    BY DEF UpdateOps
  <2>3. r \in NewsRequest /\ r.todo = <<>> /\ r.actor = actor /\ r.step = "load" /\ r.ops = ops
    BY <1>2, <2>2, NoNewsOK DEF NewsRequest, NewsOps, NoNewsRequest, UpdateOps
  <2> HIDE DEF r
  <2>4. Ask(s, r)
    BY <2>1 DEF r
  <2> QED BY <1>1, <1>2, <2>2, <2>3, <2>4
<1>5. CASE AskMove(s)
  <2>1. PICK actor \in staff, target \in Columns :
           Ask(s, [NoNewsRequest EXCEPT !.step = "load", !.ops = {"move"},
                                        !.actor = actor, !.target = target])
    BY <1>5 DEF AskMove
  <2> DEFINE r == [NoNewsRequest EXCEPT !.step = "load", !.ops = {"move"},
                                        !.actor = actor, !.target = target]
  <2>2. r \in NewsRequest /\ r.todo = <<>> /\ r.actor = actor /\ r.step = "load" /\ r.ops = {"move"}
    BY <1>2, NoNewsOK DEF NewsRequest, NewsOps, NoNewsRequest
  <2>3. "move" \in newsMix.does[s]
    BY <1>5 DEF AskMove
  <2> HIDE DEF r
  <2>4. Ask(s, r)
    BY <2>1 DEF r
  <2> QED BY <1>1, <1>2, <2>2, <2>3, <2>4
<1>6. CASE AskArchive(s)
  <2>1. PICK actor \in staff :
           Ask(s, [NoNewsRequest EXCEPT !.step = "load", !.ops = {"archive"}, !.actor = actor])
    BY <1>6 DEF AskArchive
  <2> DEFINE r == [NoNewsRequest EXCEPT !.step = "load", !.ops = {"archive"}, !.actor = actor]
  <2>2. r \in NewsRequest /\ r.todo = <<>> /\ r.actor = actor /\ r.step = "load" /\ r.ops = {"archive"}
    BY <1>2, NoNewsOK DEF NewsRequest, NewsOps, NoNewsRequest
  <2>3. "archive" \in newsMix.does[s]
    BY <1>6 DEF AskArchive
  <2> HIDE DEF r
  <2>4. Ask(s, r)
    BY <2>1 DEF r
  <2> QED BY <1>1, <1>2, <2>2, <2>3, <2>4
<1> QED BY <1>3, <1>4, <1>5, <1>6

LEMMA LoadNews ==
    ASSUME NewsInv, NEW s \in NewsSlots, LoadTheCard(s)
    PROVE  NewsInv'
<1> DEFINE r == [newsReq[s] EXCEPT !.step = IF "assign" \in newsReq[s].ops THEN "check" ELSE "save",
                                   !.assignees = assignees, !.done = done, !.column = column]
<1>1. /\ newsReq[s] \in NewsRequest /\ NewsRequestOK(s, newsReq[s])
      /\ assignees \in SUBSET People /\ done \in BOOLEAN /\ column \in Columns
  BY DEF NewsInv, CardNewsTypeOK
<1>2. newsReq[s].step = "load" /\ cardState = "active" /\ newsReq[s].todo = <<>>
  BY <1>1 DEF LoadTheCard, NewsRequestOK
<1>3. newsReq' = [newsReq EXCEPT ![s] = r]
  BY <1>1 DEF LoadTheCard, NewsInv, CardNewsTypeOK
<1>4. /\ r \in NewsRequest /\ r.step \in {"check", "save"} /\ r.ops = newsReq[s].ops
      /\ r.actor = newsReq[s].actor /\ r.todo = <<>>
      /\ r.assignees = assignees /\ r.done = done /\ r.column = column
  BY <1>1, <1>2 DEF NewsRequest
<1> HIDE DEF r
<1>5. Memory(r)
  BY <1>4 DEF Memory
<1>6. "create" \notin newsReq[s].ops
  BY <1>1, <1>2 DEF NewsRequestOK
<1>7. NewsRequestOK(s, r)
  BY <1>1, <1>2, <1>4, <1>5, <1>6, InEmpty DEF NewsRequestOK
<1> QED BY <1>2, <1>3, <1>4, <1>7, QuietNews DEF LoadTheCard

LEMMA CheckNews ==
    ASSUME NewsInv, NEW s \in NewsSlots, AssertMembers(s)
    PROVE  NewsInv'
<1> DEFINE r == [newsReq[s] EXCEPT !.step = "save"]
<1>1. newsReq[s] \in NewsRequest /\ NewsRequestOK(s, newsReq[s])
  BY DEF NewsInv, CardNewsTypeOK
<1>2. newsReq[s].step = "check" /\ newsReq[s].todo = <<>>
  BY <1>1 DEF AssertMembers, NewsRequestOK
<1>3. newsReq' = [newsReq EXCEPT ![s] = r]
  BY <1>1 DEF AssertMembers, NewsInv, CardNewsTypeOK
<1>4. /\ r \in NewsRequest /\ r.step = "save" /\ r.ops = newsReq[s].ops
      /\ r.actor = newsReq[s].actor /\ r.todo = <<>> /\ r.assignees = newsReq[s].assignees
      /\ r.done = newsReq[s].done /\ r.column = newsReq[s].column
  BY <1>1, <1>2 DEF NewsRequest
<1> HIDE DEF r
<1>5. Memory(r)
  BY <1>1, <1>2, <1>4 DEF NewsRequestOK, Memory
<1>6. NewsRequestOK(s, r)
  BY <1>1, <1>2, <1>4, <1>5, InEmpty DEF NewsRequestOK
<1>7. cardState = "none" => \A t \in NewsSlots \ {s} : newsReq[t].step = "idle"
  BY <1>2 DEF NewsInv, FirstCreated
<1> QED BY <1>2, <1>3, <1>4, <1>6, <1>7, QuietNews DEF AssertMembers
-----------------------------------------------------------------------------
(* How a save or a notice leaves its request.                              *)
LEMMA TellsNext ==
    ASSUME NewsInv, NEW s \in NewsSlots, newsReq[s].step \in {"save", "tell"},
           NEW todo \in Seq([kind : Notices, to : SUBSET People]), Tells(s, todo)
    PROVE  /\ newsReq' \in [NewsSlots -> NewsRequest]
           /\ \A t \in NewsSlots : t # s => newsReq'[t] = newsReq[t]
           /\ newsReq'[s].todo = todo
           /\ \/ todo = <<>> /\ newsReq'[s] = NoNewsRequest
              \/ /\ todo # <<>> /\ newsReq'[s].step = "tell"
                 /\ newsReq'[s].ops = newsReq[s].ops /\ newsReq'[s].actor = newsReq[s].actor
                 /\ newsReq'[s].target = newsReq[s].target
<1>1. newsReq \in [NewsSlots -> NewsRequest] /\ newsReq[s] \in NewsRequest
  BY DEF NewsInv, CardNewsTypeOK
<1>2. CASE todo = <<>>
  <2>1. newsReq' = [newsReq EXCEPT ![s] = NoNewsRequest]
    BY <1>2 DEF Tells
  <2> QED BY <1>1, <1>2, <2>1, NoNewsOK
<1>3. CASE todo # <<>>
  <2> DEFINE r == [newsReq[s] EXCEPT !.step = "tell", !.todo = todo]
  <2>1. newsReq' = [newsReq EXCEPT ![s] = r]
    BY <1>1, <1>3 DEF Tells
  <2>2. /\ r \in NewsRequest /\ r.todo = todo /\ r.step = "tell" /\ r.ops = newsReq[s].ops
        /\ r.actor = newsReq[s].actor /\ r.target = newsReq[s].target
    BY <1>1 DEF NewsRequest
  <2> HIDE DEF r
  <2> QED BY <1>1, <1>3, <2>1, <2>2
<1> QED BY <1>2, <1>3

(* The actor of a request in flight, what it is asked for and what it      *)
(* loaded, and the card's people, are of their types.                      *)
LEMMA SavingTypes ==
    ASSUME NewsInv, NEW s \in NewsSlots, newsReq[s].step = "save"
    PROVE  /\ newsReq[s].actor \in People /\ newsReq[s].want \in SUBSET People
           /\ newsReq[s].assignees \in SUBSET People /\ newsReq[s].done \in BOOLEAN
           /\ newsReq[s].completed \in BOOLEAN /\ newsReq[s].column \in Columns
           /\ newsReq[s].target \in Columns /\ newsReq[s] \in NewsRequest
           /\ NewsRequestOK(s, newsReq[s]) /\ Memory(newsReq[s]) /\ newsReq[s].todo = <<>>
           /\ "create" \notin newsReq[s].ops => cardState # "none" /\ creator \in People
<1>1. newsReq[s] \in NewsRequest /\ NewsRequestOK(s, newsReq[s])
  BY DEF NewsInv, CardNewsTypeOK
<1>2. newsReq[s].actor \in People /\ Memory(newsReq[s]) /\ newsReq[s].todo = <<>>
  BY <1>1 DEF NewsRequestOK
<1>3. "create" \notin newsReq[s].ops => cardState # "none" /\ creator \in People
  BY <1>1 DEF NewsRequestOK, NewsInv, FirstCreated
<1> QED BY <1>1, <1>2, <1>3 DEF NewsRequest

LEMMA NoticeType ==
    ASSUME NEW kind \in Notices, NEW to \in SUBSET People
    PROVE  Notice(kind, to) \in Seq([kind : Notices, to : SUBSET People])
<1>1. CASE to = {}
  BY <1>1, EmptySeq DEF Notice
<1>2. CASE to # {}
  <2>1. [kind |-> kind, to |-> to] \in [kind : Notices, to : SUBSET People]
    OBVIOUS
  <2> DEFINE x == [kind |-> kind, to |-> to]
  <2> HIDE DEF x
  <2>2. <<x>> \in Seq([kind : Notices, to : SUBSET People])
    BY <2>1 DEF x
  <2> QED BY <1>2, <2>2 DEF Notice, x
<1> QED BY <1>1, <1>2

LEMMA MakeNews ==
    ASSUME NewsInv, NEW s \in NewsSlots, MakeCard(s)
    PROVE  NewsInv'
<1> DEFINE r == newsReq[s]
           todo == Notice("assigned", r.want)
<1>1. /\ r.step = "save" /\ "create" \in r.ops
      /\ cardState' = "active" /\ creator' = r.actor /\ assignees' = r.want
      /\ Tells(s, todo) /\ ActorKnows(r, r.actor)
      /\ done' = done /\ column' = column /\ staff' = staff /\ newsMix' = newsMix
  BY DEF MakeCard
<1>2. /\ r.actor \in People /\ r.want \in SUBSET People /\ r \in NewsRequest
      /\ NewsRequestOK(s, r) /\ r.todo = <<>>
  BY <1>1, SavingTypes
<1> HIDE DEF r, todo
<1>3. r.ops = {"create"} /\ cardState = "none"
  BY <1>1, <1>2 DEF NewsRequestOK, UpdateOps
<1>4. assignees = {} /\ creator = Nobody
  BY <1>3 DEF NewsInv, FirstCreated
<1>5. ASSUME NEW t \in NewsSlots, t # s
      PROVE  newsReq[t].step = "idle" /\ newsReq[t].todo = <<>> /\ newsReq[t].ops = {}
  BY <1>1, <1>3, <1>5 DEF NewsInv, FirstCreated, NewsRequestOK, r
<1>6. \A t \in NewsSlots : In(newsReq[t].todo) = {}
  BY <1>2, <1>5, InEmpty DEF r
<1>7. todo \in Seq([kind : Notices, to : SUBSET People])
  BY <1>2, NoticeType DEF todo, Notices
<1>8. In(todo) = IF r.want = {} THEN {} ELSE {[kind |-> "assigned", to |-> r.want]}
  BY InNotice DEF todo
<1>9. /\ newsReq' \in [NewsSlots -> NewsRequest]
      /\ \A t \in NewsSlots : t # s => newsReq'[t] = newsReq[t]
      /\ newsReq'[s].todo = todo
      /\ \/ todo = <<>> /\ newsReq'[s] = NoNewsRequest
         \/ /\ todo # <<>> /\ newsReq'[s].step = "tell"
            /\ newsReq'[s].ops = r.ops /\ newsReq'[s].actor = r.actor
  BY <1>1, <1>7, TellsNext DEF r
<1>10. /\ heardOn' = (heardOn \ {r.actor}) \cup ({r.actor} \cap r.want)
       /\ heardOf' = [done |-> heardOf.done, column |-> heardOf.column, archived |-> heardOf.archived]
       /\ unheard' = unheard
  <2>1. r.ops \cap {"create", "assign"} # {} /\ "complete" \notin r.ops /\ "move" \notin r.ops
        /\ "archive" \notin r.ops
    BY <1>3
  <2>2. heardOf.archived \in BOOLEAN
    BY DEF NewsInv, CardNewsTypeOK, Knowledge
  <2> QED BY <1>1, <2>1, <2>2 DEF ActorKnows
<1>11. heardOf' = heardOf
  BY <1>10 DEF NewsInv, CardNewsTypeOK, Knowledge
<1>12. CardNewsTypeOK'
  BY <1>1, <1>2, <1>9, <1>10, <1>11 DEF NewsInv, CardNewsTypeOK
<1>13. \A ops : Solo(ops)' <=> Solo(ops)
  BY <1>1 DEF Solo
<1>14. NewsRequestOK(s, newsReq[s])'
  <2>1. CASE newsReq'[s] = NoNewsRequest
    <3>1. In(newsReq[s].todo)' = {}
      BY <2>1, NoNewsOK DEF In
    <3> QED BY <2>1, <3>1, NoNewsOK DEF NewsRequestOK, UpdateOps
  <2>2. CASE /\ todo # <<>> /\ newsReq'[s].step = "tell"
             /\ newsReq'[s].ops = r.ops /\ newsReq'[s].actor = r.actor
    <3>1. ASSUME NEW x \in In(newsReq[s].todo)' PROVE NoticeOK(newsReq[s], x)'
      <4>1. x = [kind |-> "assigned", to |-> r.want]
        BY <1>8, <1>9, <3>1 DEF In
      <4> QED BY <1>1, <1>3, <2>2, <4>1 DEF NoticeOK, Assigning
    <3>2. r.ops \subseteq newsMix.does[s]
      BY <1>2 DEF NewsRequestOK
    <3> QED BY <1>1, <1>2, <1>3, <1>9, <2>2, <3>1, <3>2 DEF NewsRequestOK
  <2> QED BY <1>9, <2>1, <2>2
<1>15. ASSUME NEW t \in NewsSlots, t # s PROVE NewsRequestOK(t, newsReq[t])'
  <2>1. newsReq'[t].step = "idle" /\ newsReq'[t].todo = <<>> /\ newsReq'[t].ops = {}
    BY <1>5, <1>9, <1>15
  <2>2. In(newsReq[t].todo)' = {}
    BY <2>1, InEmpty DEF In
  <2> QED BY <2>1, <2>2 DEF NewsRequestOK, UpdateOps
<1>16. FirstCreated'
  BY <1>1, <1>2 DEF FirstCreated
<1>17. Knows'
  <2>1. \A u, kinds : ~OwedTo(u) /\ ~Owed(kinds)
    BY <1>6 DEF OwedTo, Owed
  <2>2. ASSUME Solo(Assigning), NEW u \in People \ unheard
        PROVE  (u \in heardOn' <=> u \in r.want) \/ OwedTo(u)'
    <3>1. u \notin heardOn
      BY <1>4, <2>1, <2>2 DEF NewsInv, Knows
    <3>2. CASE u # r.actor /\ u \in r.want
      <4> DEFINE x == [kind |-> "assigned", to |-> r.want]
      <4>1. In(todo) = {x}
        BY <1>8, <3>2
      <4>2. todo # <<>>
        BY <4>1, InEmpty
      <4>3. newsReq'[s].actor # u /\ x \in In(newsReq'[s].todo)
        BY <1>9, <3>2, <4>1, <4>2
      <4> QED BY <3>2, <4>3 DEF OwedTo, In
    <3> QED BY <1>10, <3>1, <3>2
  <2>3. /\ Solo({"complete"}) => heardOf.done = done
        /\ Solo({"move"}) => heardOf.column = column
        /\ ~heardOf.archived
    <3>1. creator \notin unheard
      BY <1>4, CardNewsAssumption DEF NewsInv, CardNewsTypeOK
    <3> QED BY <1>3, <2>1, <3>1 DEF NewsInv, Knows
  <2> QED BY <1>1, <1>10, <1>11, <1>13, <2>2, <2>3 DEF Knows
<1> QED BY <1>12, <1>14, <1>15, <1>16, <1>17 DEF NewsInv

(* What a save, or the sending of a notice, has to show: what others have  *)
(* loaded is still right, and so are the notices that are now to be sent.  *)
LEMMA SavedNews ==
    ASSUME NewsInv, NEW s \in NewsSlots,
           newsReq[s].step = "tell" \/ (newsReq[s].step = "save" /\ "create" \notin newsReq[s].ops),
           CardNewsTypeOK', newsMix' = newsMix, creator' = creator,
           cardState' = cardState \/ (cardState # "none" /\ cardState' = "archived"),
           assignees' # assignees => newsMix.does[s] \cap Assigning # {},
           done' # done => newsMix.does[s] \cap {"complete"} # {},
           column' # column => newsMix.does[s] \cap {"move"} # {},
           \A t \in NewsSlots : t # s => \/ newsReq'[t] = newsReq[t]
                                         \/ newsReq'[t] = [newsReq[t] EXCEPT !.stale = TRUE],
           \/ newsReq'[s] = NoNewsRequest
           \/ /\ newsReq'[s].todo # <<>> /\ newsReq'[s].step = "tell"
              /\ newsReq'[s].ops = newsReq[s].ops /\ newsReq'[s].actor = newsReq[s].actor,
           \A x \in In(newsReq'[s].todo) : NoticeOK(newsReq[s], x)',
           Knows'
    PROVE  NewsInv'
<1>1. /\ newsReq[s].actor \in People /\ NewsRequestOK(s, newsReq[s])
      /\ cardState # "none" /\ creator \in People
  BY DEF NewsInv, NewsRequestOK, FirstCreated
<1>2. NewsRequestOK(s, newsReq[s])'
  <2>1. CASE newsReq'[s] = NoNewsRequest
    <3>1. In(newsReq[s].todo)' = {}
      BY <2>1, NoNewsOK DEF In
    <3> QED BY <2>1, <3>1, NoNewsOK DEF NewsRequestOK, UpdateOps
  <2>2. CASE /\ newsReq'[s].todo # <<>> /\ newsReq'[s].step = "tell"
             /\ newsReq'[s].ops = newsReq[s].ops /\ newsReq'[s].actor = newsReq[s].actor
    <3>1. \A x \in In(newsReq[s].todo)' : NoticeOK(newsReq[s], x)'
      BY DEF In
    <3>2. /\ newsReq[s].ops \subseteq newsMix.does[s]
          /\ newsReq[s].ops \in {{"create"}, {"move"}, {"archive"}} \/ newsReq[s].ops \subseteq UpdateOps
      BY <1>1 DEF NewsRequestOK
    <3>3. cardState' # "none"
      BY <1>1
    <3> QED BY <1>1, <2>2, <3>1, <3>2, <3>3 DEF NewsRequestOK
  <2> QED BY <2>1, <2>2
<1>3. ASSUME NEW t \in NewsSlots, t # s PROVE NewsRequestOK(t, newsReq[t])'
  <2>1. newsReq'[t] = newsReq[t] \/ newsReq'[t] = [newsReq[t] EXCEPT !.stale = TRUE]
    BY <1>3
  <2> QED BY <1>3, <2>1, OthersKept
<1>4. FirstCreated'
  BY <1>1 DEF FirstCreated
<1> QED BY <1>2, <1>3, <1>4 DEF NewsInv

LEMMA MoveNews ==
    ASSUME NewsInv, NEW s \in NewsSlots, SaveMove(s)
    PROVE  NewsInv'
<1> DEFINE r == newsReq[s]
           to == WatchersOf(r, creator)
           todo == IF r.target # r.column THEN Notice("moved", to) ELSE <<>>
<1>1. /\ r.step = "save" /\ "move" \in r.ops
      /\ column' = IF r.target # r.column THEN r.target ELSE column
      /\ Tells(s, todo) /\ ActorKnows(r, creator)
      /\ cardState' = cardState /\ creator' = creator /\ assignees' = assignees
      /\ done' = done /\ staff' = staff /\ newsMix' = newsMix
  BY DEF SaveMove
<1>2. r.ops = {"move"}
  BY <1>1, SavingTypes DEF NewsRequestOK, UpdateOps
<1>3. /\ r.actor \in People /\ r.want \in SUBSET People /\ r \in NewsRequest
      /\ r.assignees \in SUBSET People /\ r.target \in Columns /\ creator \in People
      /\ NewsRequestOK(s, r) /\ r.todo = <<>>
      /\ Memory(r)
  BY <1>1, <1>2, SavingTypes
<1>4. to \in SUBSET People /\ creator \in to
  BY <1>3 DEF WatchersOf, AssigneesOf
<1> HIDE DEF to
<1>5. todo \in Seq([kind : Notices, to : SUBSET People])
  BY <1>4, NoticeType, EmptySeq DEF Notices
<1>6. In(todo) = IF r.target # r.column THEN {[kind |-> "moved", to |-> to]} ELSE {}
  BY <1>4, InNotice, InEmpty
<1> HIDE DEF r, todo
<1>7. /\ newsReq' \in [NewsSlots -> NewsRequest]
      /\ \A t \in NewsSlots : t # s => newsReq'[t] = newsReq[t]
      /\ newsReq'[s].todo = todo
      /\ \/ todo = <<>> /\ newsReq'[s] = NoNewsRequest
         \/ /\ todo # <<>> /\ newsReq'[s].step = "tell"
            /\ newsReq'[s].ops = r.ops /\ newsReq'[s].actor = r.actor
            /\ newsReq'[s].target = r.target
  BY <1>1, <1>5, TellsNext DEF r
<1>8. /\ heardOn' = heardOn /\ unheard' = unheard
      /\ heardOf' \in Knowledge /\ heardOf'.done = heardOf.done
      /\ heardOf'.archived = heardOf.archived
      /\ heardOf'.column = IF r.actor = creator THEN r.target ELSE heardOf.column
  <2>1. r.ops \cap {"create", "assign"} = {} /\ "complete" \notin r.ops /\ "archive" \notin r.ops
    BY <1>2
  <2>2. heardOf \in Knowledge
    BY DEF NewsInv, CardNewsTypeOK
  <2> QED BY <1>1, <1>3, <2>1, <2>2 DEF ActorKnows, Knowledge
<1>9. CardNewsTypeOK'
  BY <1>1, <1>3, <1>7, <1>8 DEF NewsInv, CardNewsTypeOK
<1>10. \A ops : Solo(ops)' <=> Solo(ops)
  BY <1>1 DEF Solo
<1>11. Solo({"move"}) => column' = r.target /\ r.column = column
  BY <1>1, <1>2, <1>3 DEF Memory
<1>12. ASSUME NEW x \in In(newsReq'[s].todo) PROVE NoticeOK(newsReq[s], x)'
  <2>1. x = [kind |-> "moved", to |-> to] /\ todo # <<>>
    BY <1>6, <1>7, <1>12, InEmpty
  <2> QED BY <1>1, <1>2, <1>4, <1>7, <1>10, <1>11, <2>1 DEF NoticeOK
<1>13. /\ \A u : OwedTo(u) => OwedTo(u)'
       /\ \A kinds : Owed(kinds) => Owed(kinds)'
  BY <1>1, <1>3, <1>7, InEmpty, OwedByOthers DEF r
<1>14. Solo({"move"}) /\ heardOf.column = column
       => heardOf'.column = column' \/ Owed({"moved"})'
  <2> SUFFICES ASSUME Solo({"move"}), heardOf.column = column, r.actor # creator, r.target # r.column
               PROVE  Owed({"moved"})'
    BY <1>8, <1>11, <1>13
  <2> DEFINE x == [kind |-> "moved", to |-> to]
  <2>1. In(todo) = {x}
    BY <1>6
  <2>2. x \in In(newsReq'[s].todo) /\ newsReq'[s].actor # creator'
    BY <1>1, <1>7, <2>1, InEmpty
  <2> QED BY <2>2 DEF Owed, In
<1>15. Knows'
  BY <1>1, <1>8, <1>10, <1>13, <1>14 DEF NewsInv, Knows
<1>16. newsMix.does[s] \cap {"move"} # {}
  BY <1>1, <1>3 DEF NewsRequestOK
<1> QED BY <1>1, <1>2, <1>7, <1>9, <1>12, <1>15, <1>16, SavedNews DEF r

LEMMA ArchiveNews ==
    ASSUME NewsInv, NEW s \in NewsSlots, SaveArchive(s)
    PROVE  NewsInv'
<1> DEFINE r == newsReq[s]
           to == WatchersOf(r, creator)
           todo == Notice("archived", to)
<1>1. /\ r.step = "save" /\ "archive" \in r.ops /\ cardState' = "archived"
      /\ Tells(s, todo) /\ ActorKnows(r, creator)
      /\ creator' = creator /\ assignees' = assignees
      /\ done' = done /\ column' = column /\ staff' = staff /\ newsMix' = newsMix
  BY DEF SaveArchive
<1>2. r.ops = {"archive"}
  BY <1>1, SavingTypes DEF NewsRequestOK, UpdateOps
<1>3. /\ r.actor \in People /\ r.want \in SUBSET People /\ r \in NewsRequest
      /\ r.assignees \in SUBSET People /\ creator \in People
      /\ NewsRequestOK(s, r) /\ r.todo = <<>> /\ cardState # "none"
  BY <1>1, <1>2, SavingTypes
<1>4. to \in SUBSET People /\ creator \in to
  BY <1>3 DEF WatchersOf, AssigneesOf
<1> HIDE DEF to
<1>5. todo \in Seq([kind : Notices, to : SUBSET People])
  BY <1>4, NoticeType DEF Notices
<1>6. In(todo) = {[kind |-> "archived", to |-> to]}
  BY <1>4, InNotice
<1> HIDE DEF r, todo
<1>7. /\ newsReq' \in [NewsSlots -> NewsRequest]
      /\ \A t \in NewsSlots : t # s => newsReq'[t] = newsReq[t]
      /\ newsReq'[s].todo = todo /\ todo # <<>> /\ newsReq'[s].step = "tell"
      /\ newsReq'[s].ops = r.ops /\ newsReq'[s].actor = r.actor
  BY <1>1, <1>5, <1>6, InEmpty, TellsNext DEF r
<1>8. /\ heardOn' = heardOn /\ unheard' = unheard
      /\ heardOf' \in Knowledge /\ heardOf'.done = heardOf.done
      /\ heardOf'.column = heardOf.column
      /\ r.actor = creator => heardOf'.archived
      /\ r.actor # creator => heardOf'.archived = heardOf.archived
  <2>1. r.ops \cap {"create", "assign"} = {} /\ "complete" \notin r.ops /\ "move" \notin r.ops
    BY <1>2
  <2>2. heardOf \in Knowledge
    BY DEF NewsInv, CardNewsTypeOK
  <2> QED BY <1>1, <1>3, <2>1, <2>2 DEF ActorKnows, Knowledge
<1>9. CardNewsTypeOK'
  BY <1>1, <1>3, <1>7, <1>8 DEF NewsInv, CardNewsTypeOK
<1>10. \A ops : Solo(ops)' <=> Solo(ops)
  BY <1>1 DEF Solo
<1>12. ASSUME NEW x \in In(newsReq'[s].todo) PROVE NoticeOK(newsReq[s], x)'
  <2>1. x = [kind |-> "archived", to |-> to]
    BY <1>6, <1>7, <1>12
  <2> QED BY <1>1, <1>2, <1>4, <1>7, <2>1 DEF NoticeOK
<1>13. /\ \A u : OwedTo(u) => OwedTo(u)'
       /\ \A kinds : Owed(kinds) => Owed(kinds)'
  BY <1>1, <1>3, <1>7, InEmpty, OwedByOthers DEF r
<1>14. r.actor # creator => Owed({"archived"})'
  <2> SUFFICES ASSUME r.actor # creator PROVE Owed({"archived"})'
    OBVIOUS
  <2> DEFINE x == [kind |-> "archived", to |-> to]
  <2>1. x \in In(newsReq'[s].todo) /\ newsReq'[s].actor # creator'
    BY <1>1, <1>6, <1>7
  <2> QED BY <2>1 DEF Owed, In
<1>15. Knows'
  BY <1>1, <1>8, <1>10, <1>13, <1>14 DEF NewsInv, Knows
<1> QED BY <1>1, <1>2, <1>3, <1>7, <1>9, <1>12, <1>15, SavedNews DEF r
-----------------------------------------------------------------------------
LEMMA TellNews ==
    ASSUME NewsInv, NEW s \in NewsSlots, Tell(s)
    PROVE  NewsInv'
<1> DEFINE r == newsReq[s]
           x == Head(r.todo)
           rest == Tail(r.todo)
<1>1. /\ r.step = "tell" /\ Told(x.kind, x.to \ {r.actor}, r) /\ Tells(s, rest)
      /\ cardState' = cardState /\ creator' = creator /\ assignees' = assignees
      /\ done' = done /\ column' = column /\ staff' = staff /\ unheard' = unheard
      /\ newsMix' = newsMix
  BY DEF Tell, theCard
<1>2. r \in NewsRequest /\ NewsRequestOK(s, r) /\ heardOf \in Knowledge /\ heardOn \in SUBSET People
  BY DEF NewsInv, CardNewsTypeOK
<1>3. r.todo # <<>> /\ r.todo \in Seq([kind : Notices, to : SUBSET People]) /\ r.target \in Columns
  BY <1>1, <1>2 DEF NewsRequestOK, NewsRequest
<1>4. /\ x \in [kind : Notices, to : SUBSET People]
      /\ rest \in Seq([kind : Notices, to : SUBSET People])
      /\ In(r.todo) = {x} \cup In(rest)
  BY <1>3, InHeadTail
<1> HIDE DEF r, x, rest
<1>5. \A y \in {x} \cup In(rest) : NoticeOK(r, y)
  BY <1>2, <1>4 DEF NewsRequestOK
<1>6. /\ newsReq' \in [NewsSlots -> NewsRequest]
      /\ \A t \in NewsSlots : t # s => newsReq'[t] = newsReq[t]
      /\ newsReq'[s].todo = rest
      /\ \/ rest = <<>> /\ newsReq'[s] = NoNewsRequest
         \/ /\ rest # <<>> /\ newsReq'[s].step = "tell"
            /\ newsReq'[s].ops = r.ops /\ newsReq'[s].actor = r.actor
            /\ newsReq'[s].target = r.target
  BY <1>1, <1>4, TellsNext DEF r
<1>7. x.kind \in Notices /\ x.to \in SUBSET People
  BY <1>4
<1>8. heardOn' = CASE x.kind = "assigned" -> heardOn \cup (x.to \ {r.actor})
                   [] x.kind = "unassigned" -> heardOn \ (x.to \ {r.actor})
                   [] OTHER -> heardOn
  BY <1>1 DEF Told
<1>9. /\ heardOf' \in Knowledge
      /\ IF creator \in x.to \ {r.actor} /\ x.kind \in {"done", "reopened"}
         THEN heardOf'.done = (x.kind = "done") ELSE heardOf'.done = heardOf.done
      /\ IF creator \in x.to \ {r.actor} /\ x.kind = "moved"
         THEN heardOf'.column = r.target ELSE heardOf'.column = heardOf.column
      /\ IF creator \in x.to \ {r.actor} /\ x.kind = "archived"
         THEN heardOf'.archived ELSE heardOf'.archived = heardOf.archived
  <2>1. CASE creator \notin x.to \ {r.actor}
    BY <1>1, <1>2, <2>1 DEF Told
  <2>2. CASE creator \in x.to \ {r.actor} /\ x.kind \in {"done", "reopened"}
    <3>1. heardOf' = [heardOf EXCEPT !.done = (x.kind = "done")]
      BY <1>1, <2>2 DEF Told
    <3>2. (x.kind = "done") \in BOOLEAN
      OBVIOUS
    <3> QED BY <1>2, <2>2, <3>1, <3>2 DEF Knowledge
  <2>3. CASE creator \in x.to \ {r.actor} /\ x.kind = "moved"
    <3>1. heardOf' = [heardOf EXCEPT !.column = r.target]
      BY <1>1, <2>3 DEF Told
    <3> QED BY <1>2, <1>3, <2>3, <3>1 DEF Knowledge
  <2>4. CASE creator \in x.to \ {r.actor} /\ x.kind = "archived"
    <3>1. heardOf' = [heardOf EXCEPT !.archived = TRUE]
      BY <1>1, <2>4 DEF Told
    <3> QED BY <1>2, <2>4, <3>1 DEF Knowledge
  <2>5. CASE creator \in x.to \ {r.actor} /\ x.kind \notin {"done", "reopened", "moved", "archived"}
    <3>1. heardOf' = heardOf
      BY <1>1, <2>5 DEF Told
    <3> QED BY <1>2, <2>5, <3>1
  <2> QED BY <2>1, <2>2, <2>3, <2>4, <2>5
<1>10. CardNewsTypeOK'
  <2>1. heardOn' \in SUBSET People
    BY <1>2, <1>7, <1>8
  <2> QED BY <1>1, <1>6, <1>9, <2>1 DEF NewsInv, CardNewsTypeOK
<1>11. \A ops : Solo(ops)' <=> Solo(ops)
  BY <1>1 DEF Solo
<1>12. ASSUME NEW y \in In(newsReq'[s].todo) PROVE NoticeOK(newsReq[s], y)'
  <2>1. NoticeOK(r, y) /\ rest # <<>>
    BY <1>5, <1>6, <1>12, InEmpty
  <2>2. newsReq'[s].ops = r.ops /\ newsReq'[s].target = r.target
    BY <1>6, <2>1
  <2> QED BY <1>1, <1>11, <2>1, <2>2 DEF NoticeOK
<1>13. ASSUME NEW t \in NewsSlots, NEW y \in In(newsReq[t].todo), t # s \/ y # x
       PROVE  newsReq'[t].actor = newsReq[t].actor /\ y \in In(newsReq'[t].todo)
  <2>1. CASE t # s
    BY <1>6, <1>13, <2>1
  <2>2. CASE t = s
    <3>1. y \in In(rest)
      BY <1>4, <1>13, <2>2 DEF r
    <3>2. rest # <<>>
      BY <3>1, InEmpty
    <3> QED BY <1>6, <2>2, <3>1, <3>2 DEF r
  <2> QED BY <2>1, <2>2
<1>14. ASSUME NEW u, OwedTo(u), ~(x.kind \in {"assigned", "unassigned"} /\ u \in x.to \ {r.actor})
       PROVE  OwedTo(u)'
  <2>1. PICK t \in NewsSlots :
           /\ newsReq[t].actor # u
           /\ \E y \in In(newsReq[t].todo) : y.kind \in {"assigned", "unassigned"} /\ u \in y.to
    BY <1>14 DEF OwedTo
  <2> PICK y \in In(newsReq[t].todo) : y.kind \in {"assigned", "unassigned"} /\ u \in y.to
    BY <2>1
  <2>2. t # s \/ y # x
    BY <1>14, <2>1 DEF r
  <2>3. newsReq'[t].actor # u /\ y \in In(newsReq'[t].todo)
    BY <1>13, <2>1, <2>2
  <2> QED BY <2>1, <2>3 DEF OwedTo, In
<1>15. ASSUME NEW kinds, Owed(kinds), ~(x.kind \in kinds /\ creator # r.actor)
       PROVE  Owed(kinds)'
  <2>1. PICK t \in NewsSlots :
           newsReq[t].actor # creator /\ \E y \in In(newsReq[t].todo) : y.kind \in kinds
    BY <1>15 DEF Owed
  <2> PICK y \in In(newsReq[t].todo) : y.kind \in kinds
    BY <2>1
  <2>2. t # s \/ y # x
    BY <1>15, <2>1 DEF r
  <2>3. newsReq'[t].actor # creator' /\ y \in In(newsReq'[t].todo)
    BY <1>1, <1>13, <2>1, <2>2
  <2> QED BY <2>1, <2>3 DEF Owed, In
<1>16. ASSUME Solo(Assigning), NEW u \in People \ unheard
       PROVE  (u \in heardOn' <=> u \in assignees) \/ OwedTo(u)'
  <2>1. (u \in heardOn <=> u \in assignees) \/ OwedTo(u)
    BY <1>16 DEF NewsInv, Knows
  <2>2. /\ x.kind = "assigned" => x.to \subseteq assignees
        /\ x.kind = "unassigned" => x.to \cap assignees = {}
    BY <1>5, <1>16 DEF NoticeOK
  <2>3. CASE x.kind = "assigned" /\ u \in x.to \ {r.actor}
    BY <1>8, <2>2, <2>3
  <2>4. CASE x.kind = "unassigned" /\ u \in x.to \ {r.actor}
    BY <1>8, <2>2, <2>4
  <2>5. CASE ~(x.kind \in {"assigned", "unassigned"} /\ u \in x.to \ {r.actor})
    <3>1. u \in heardOn' <=> u \in heardOn
      BY <1>8, <2>5
    <3> QED BY <1>14, <2>1, <2>5, <3>1
  <2> QED BY <2>3, <2>4, <2>5
<1>17. ASSUME creator \notin unheard
       PROVE  /\ Solo({"complete"}) => heardOf'.done = done \/ Owed({"done", "reopened"})'
              /\ Solo({"move"}) => heardOf'.column = column \/ Owed({"moved"})'
              /\ \/ heardOf'.archived <=> cardState = "archived"
                 \/ cardState = "archived" /\ Owed({"archived"})'
  <2>1. NoticeOK(r, x)
    BY <1>5
  <2>2. Solo({"complete"}) => heardOf'.done = done \/ Owed({"done", "reopened"})'
    <3> SUFFICES ASSUME Solo({"complete"}) PROVE heardOf'.done = done \/ Owed({"done", "reopened"})'
      OBVIOUS
    <3>1. heardOf.done = done \/ Owed({"done", "reopened"})
      BY <1>17 DEF NewsInv, Knows
    <3>2. CASE x.kind \in {"done", "reopened"} /\ creator # r.actor
      BY <1>9, <2>1, <3>2 DEF NoticeOK
    <3>3. CASE ~(x.kind \in {"done", "reopened"} /\ creator # r.actor)
      BY <1>9, <1>15, <3>1, <3>3
    <3> QED BY <3>2, <3>3
  <2>3. Solo({"move"}) => heardOf'.column = column \/ Owed({"moved"})'
    <3> SUFFICES ASSUME Solo({"move"}) PROVE heardOf'.column = column \/ Owed({"moved"})'
      OBVIOUS
    <3>1. heardOf.column = column \/ Owed({"moved"})
      BY <1>17 DEF NewsInv, Knows
    <3>2. CASE x.kind = "moved" /\ creator # r.actor
      BY <1>9, <2>1, <3>2 DEF NoticeOK
    <3>3. CASE ~(x.kind \in {"moved"} /\ creator # r.actor)
      BY <1>9, <1>15, <3>1, <3>3
    <3> QED BY <3>2, <3>3
  <2>4. \/ heardOf'.archived <=> cardState = "archived"
        \/ cardState = "archived" /\ Owed({"archived"})'
    <3>1. \/ heardOf.archived <=> cardState = "archived"
          \/ cardState = "archived" /\ Owed({"archived"})
      BY <1>17 DEF NewsInv, Knows
    <3>2. CASE x.kind = "archived" /\ creator # r.actor
      BY <1>9, <2>1, <3>2 DEF NoticeOK
    <3>3. CASE ~(x.kind \in {"archived"} /\ creator # r.actor)
      BY <1>9, <1>15, <3>1, <3>3
    <3> QED BY <3>2, <3>3
  <2> QED BY <2>2, <2>3, <2>4
<1>18. Knows'
  BY <1>1, <1>11, <1>16, <1>17 DEF Knows
<1> QED BY <1>1, <1>6, <1>10, <1>12, <1>18, SavedNews DEF r

(* A notice that is not sent is lost to those it was meant for.            *)
LEMMA LoseNews ==
    ASSUME NewsInv, NEW s \in NewsSlots, TellFails(s)
    PROVE  NewsInv'
<1> DEFINE lost == UNION {newsReq[s].todo[i].to : i \in DOMAIN newsReq[s].todo}
<1>1. /\ newsReq[s].step = "tell" /\ unheard' = unheard \cup lost
      /\ newsReq' = [newsReq EXCEPT ![s] = NoNewsRequest]
      /\ cardState' = cardState /\ creator' = creator /\ assignees' = assignees
      /\ done' = done /\ column' = column /\ staff' = staff
      /\ heardOn' = heardOn /\ heardOf' = heardOf /\ newsMix' = newsMix
  BY DEF TellFails, theCard
<1>2. newsReq[s] \in NewsRequest /\ NewsRequestOK(s, newsReq[s]) /\ newsReq \in [NewsSlots -> NewsRequest]
  BY DEF NewsInv, CardNewsTypeOK
<1>3. newsReq[s].todo \in Seq([kind : Notices, to : SUBSET People])
  BY <1>2 DEF NewsRequest
<1>4. \A y \in In(newsReq[s].todo) : y.to \subseteq lost
  BY DEF In
<1>5. lost \subseteq People
  <2>1. \A i \in DOMAIN newsReq[s].todo : newsReq[s].todo[i] \in [kind : Notices, to : SUBSET People]
    BY <1>3, ElementOfSeq, LenProperties
  <2> QED BY <2>1
<1> HIDE DEF lost
<1>6. /\ newsReq' \in [NewsSlots -> NewsRequest] /\ newsReq'[s] = NoNewsRequest
      /\ \A t \in NewsSlots : t # s => newsReq'[t] = newsReq[t]
  BY <1>1, <1>2, NoNewsOK
<1>7. CardNewsTypeOK'
  BY <1>1, <1>5, <1>6 DEF NewsInv, CardNewsTypeOK
<1>8. \A ops : Solo(ops)' <=> Solo(ops)
  BY <1>1 DEF Solo
<1>9. ASSUME NEW u, u \notin unheard', OwedTo(u) PROVE OwedTo(u)'
  <2>1. PICK t \in NewsSlots :
           /\ newsReq[t].actor # u
           /\ \E y \in In(newsReq[t].todo) : y.kind \in {"assigned", "unassigned"} /\ u \in y.to
    BY <1>9 DEF OwedTo
  <2>2. t # s
    BY <1>1, <1>4, <1>9, <2>1
  <2>3. newsReq'[t].actor # u
        /\ \E y \in In(newsReq'[t].todo) : y.kind \in {"assigned", "unassigned"} /\ u \in y.to
    BY <1>6, <2>1, <2>2
  <2> QED BY <2>3 DEF OwedTo, In
<1>10. ASSUME NEW kinds \in SUBSET {"done", "reopened", "moved", "archived"},
              creator \notin unheard', Owed(kinds)
       PROVE  Owed(kinds)'
  <2>1. PICK t \in NewsSlots :
           newsReq[t].actor # creator /\ \E y \in In(newsReq[t].todo) : y.kind \in kinds
    BY <1>10 DEF Owed
  <2>2. t # s
    <3>1. ASSUME NEW y \in In(newsReq[s].todo), y.kind \in kinds PROVE creator \in lost
      <4>1. NoticeOK(newsReq[s], y) /\ y.kind \in {"done", "reopened", "moved", "archived"}
        BY <1>2, <1>10, <3>1 DEF NewsRequestOK
      <4> QED BY <1>4, <4>1 DEF NoticeOK
    <3> QED BY <1>1, <1>10, <2>1, <3>1
  <2>3. newsReq'[t].actor # creator' /\ \E y \in In(newsReq'[t].todo) : y.kind \in kinds
    BY <1>1, <1>6, <2>1, <2>2
  <2> QED BY <2>3 DEF Owed, In
<1>11. Knows'
  <2>1. ASSUME Solo(Assigning), NEW u \in People \ unheard'
        PROVE  (u \in heardOn <=> u \in assignees) \/ OwedTo(u)'
    BY <1>1, <1>9, <2>1 DEF NewsInv, Knows
  <2>2. ASSUME creator \notin unheard'
        PROVE  /\ Solo({"complete"}) => heardOf.done = done \/ Owed({"done", "reopened"})'
               /\ Solo({"move"}) => heardOf.column = column \/ Owed({"moved"})'
               /\ \/ heardOf.archived <=> cardState = "archived"
                  \/ cardState = "archived" /\ Owed({"archived"})'
    <3>1. creator \notin unheard
      BY <1>1, <2>2
    <3>2. /\ Owed({"done", "reopened"}) => Owed({"done", "reopened"})'
          /\ Owed({"moved"}) => Owed({"moved"})'
          /\ Owed({"archived"}) => Owed({"archived"})'
      BY <1>10, <2>2
    <3> QED BY <3>1, <3>2 DEF NewsInv, Knows
  <2> QED BY <1>1, <1>8, <2>1, <2>2 DEF Knows
<1>12. \A y \in In(newsReq'[s].todo) : NoticeOK(newsReq[s], y)'
  BY <1>6, NoNewsOK
<1> QED BY <1>1, <1>6, <1>7, <1>11, <1>12, SavedNews

LEMMA TurnoverNews ==
    ASSUME NewsInv, NEW u \in People, Turnover(u)
    PROVE  NewsInv'
<1>1. /\ cardState' = cardState /\ creator' = creator /\ assignees' = assignees
      /\ done' = done /\ column' = column /\ newsReq' = newsReq /\ newsMix' = newsMix
      /\ heardOn' = heardOn /\ heardOf' = heardOf /\ unheard' = unheard
  BY DEF Turnover, theCard, heard
<1>2. CardNewsTypeOK'
  BY <1>1 DEF Turnover, NewsInv, CardNewsTypeOK
<1>3. \A s \in NewsSlots : NewsRequestOK(s, newsReq[s])'
  BY <1>1 DEF NewsInv, NewsRequestOK, Memory, NoticeOK, Solo, In
<1>4. FirstCreated' /\ Knows'
  BY <1>1 DEF NewsInv, FirstCreated, Knows, OwedTo, Owed, Solo, In
<1> QED BY <1>2, <1>3, <1>4 DEF NewsInv
-----------------------------------------------------------------------------
(* The notices that updateCard sends, and when it sends each.              *)
LEMMA UpdateNotices ==
    ASSUME NEW r \in NewsRequest, creator \in People
    PROVE  /\ UpdateNews(r) \in Seq([kind : Notices, to : SUBSET People])
           /\ \A x : x \in In(UpdateNews(r)) <=>
                 \/ /\ x = [kind |-> "assigned", to |-> AssigneesOf(r) \ r.assignees]
                    /\ AssigneesOf(r) \ r.assignees # {}
                 \/ /\ x = [kind |-> "unassigned", to |-> r.assignees \ AssigneesOf(r)]
                    /\ r.assignees \ AssigneesOf(r) # {}
                 \/ /\ x = [kind |-> IF DoneOf(r) THEN "done" ELSE "reopened",
                            to |-> WatchersOf(r, creator)]
                    /\ DoneOf(r) # r.done
                 \/ /\ x = [kind |-> "updated",
                            to |-> WatchersOf(r, creator) \ (AssigneesOf(r) \ r.assignees)]
                    /\ "rename" \in r.ops
                    /\ WatchersOf(r, creator) \ (AssigneesOf(r) \ r.assignees) # {}
<1> DEFINE now == AssigneesOf(r)
           watchers == WatchersOf(r, creator)
           kind == IF DoneOf(r) THEN "done" ELSE "reopened"
           a == Notice("assigned", now \ r.assignees)
           b == Notice("unassigned", r.assignees \ now)
           c == IF DoneOf(r) = r.done THEN <<>> ELSE Notice(kind, watchers)
           d == IF "rename" \in r.ops THEN Notice("updated", watchers \ (now \ r.assignees)) ELSE <<>>
           S == [kind : Notices, to : SUBSET People]
<1>1. r.want \in SUBSET People /\ r.assignees \in SUBSET People
  BY DEF NewsRequest
<1>2. now \in SUBSET People /\ watchers \in SUBSET People /\ creator \in watchers /\ kind \in Notices
  BY <1>1 DEF AssigneesOf, WatchersOf, Notices
<1>3. UpdateNews(r) = a \o b \o c \o d
  BY DEF UpdateNews
<1> HIDE DEF now, watchers, kind
<1>4. a \in Seq(S) /\ b \in Seq(S)
  <2>1. "assigned" \in Notices /\ "unassigned" \in Notices
    BY DEF Notices
  <2> QED BY <1>1, <1>2, <2>1, NoticeType
<1>5. c \in Seq(S) /\ d \in Seq(S)
  <2>1. "updated" \in Notices
    BY DEF Notices
  <2> QED BY <1>2, <2>1, NoticeType, EmptySeq
<1>6. In(a) = IF now \ r.assignees = {} THEN {} ELSE {[kind |-> "assigned", to |-> now \ r.assignees]}
  BY InNotice
<1>7. In(b) = IF r.assignees \ now = {} THEN {} ELSE {[kind |-> "unassigned", to |-> r.assignees \ now]}
  BY InNotice
<1>8. In(c) = IF DoneOf(r) = r.done THEN {} ELSE {[kind |-> kind, to |-> watchers]}
  BY <1>2, InNotice, InEmpty
<1>9. In(d) = IF "rename" \in r.ops /\ watchers \ (now \ r.assignees) # {}
              THEN {[kind |-> "updated", to |-> watchers \ (now \ r.assignees)]} ELSE {}
  BY InNotice, InEmpty
<1> HIDE DEF a, b, c, d, S
<1> DEFINE ab == a \o b
           abc == ab \o c
<1>10. ab \in Seq(S) /\ In(ab) = In(a) \cup In(b)
  BY <1>4, InConcat, ConcatProperties
<1> HIDE DEF ab
<1>11. abc \in Seq(S) /\ In(abc) = In(ab) \cup In(c)
  BY <1>5, <1>10, InConcat, ConcatProperties
<1> HIDE DEF abc
<1>12. abc \o d \in Seq(S) /\ In(abc \o d) = In(abc) \cup In(d)
  BY <1>5, <1>11, InConcat, ConcatProperties
<1>13. UpdateNews(r) \in Seq(S) /\ In(UpdateNews(r)) = In(a) \cup In(b) \cup In(c) \cup In(d)
  BY <1>3, <1>10, <1>11, <1>12 DEF ab, abc
<1> QED BY <1>6, <1>7, <1>8, <1>9, <1>13 DEF S, now, watchers, kind

LEMMA UpdateCardNews ==
    ASSUME NewsInv, NEW s \in NewsSlots, SaveCard(s)
    PROVE  NewsInv'
<1> DEFINE r == newsReq[s]
           todo == UpdateNews(r)
           now == AssigneesOf(r)
<1>1. /\ r.step = "save" /\ r.ops \subseteq UpdateOps
      /\ assignees' = IF now # r.assignees THEN r.want ELSE assignees
      /\ done' = IF DoneOf(r) # r.done THEN r.completed ELSE done
      /\ newsReq' = [t \in NewsSlots |->
                       IF t # s
                       THEN [newsReq[t] EXCEPT !.stale = @ \/ NewAssignees(r)]
                       ELSE IF todo = <<>> THEN NoNewsRequest
                       ELSE [r EXCEPT !.step = "tell", !.todo = todo]]
      /\ ActorKnows(r, creator)
      /\ cardState' = cardState /\ creator' = creator /\ column' = column
      /\ staff' = staff /\ newsMix' = newsMix
  BY DEF SaveCard, NewAssignees
<1>2. "create" \notin r.ops /\ "move" \notin r.ops /\ "archive" \notin r.ops
  BY <1>1 DEF UpdateOps
<1>3. /\ r.actor \in People /\ r.want \in SUBSET People /\ r \in NewsRequest
      /\ r.assignees \in SUBSET People /\ creator \in People /\ r.done \in BOOLEAN
      /\ r.completed \in BOOLEAN /\ NewsRequestOK(s, r) /\ Memory(r) /\ r.todo = <<>>
  BY <1>1, <1>2, SavingTypes
<1>4. /\ todo \in Seq([kind : Notices, to : SUBSET People])
      /\ \A x : x \in In(todo) <=>
            \/ x = [kind |-> "assigned", to |-> now \ r.assignees] /\ now \ r.assignees # {}
            \/ x = [kind |-> "unassigned", to |-> r.assignees \ now] /\ r.assignees \ now # {}
            \/ /\ x = [kind |-> IF DoneOf(r) THEN "done" ELSE "reopened",
                       to |-> WatchersOf(r, creator)]
               /\ DoneOf(r) # r.done
            \/ /\ x = [kind |-> "updated", to |-> WatchersOf(r, creator) \ (now \ r.assignees)]
               /\ "rename" \in r.ops
               /\ WatchersOf(r, creator) \ (now \ r.assignees) # {}
  BY <1>3, UpdateNotices
<1>5. now = IF "assign" \in r.ops THEN r.want ELSE r.assignees
  BY <1>2 DEF AssigneesOf
<1>6. DoneOf(r) = IF "complete" \in r.ops THEN r.completed ELSE r.done
  BY DEF DoneOf
<1>7. creator \in WatchersOf(r, creator)
  BY DEF WatchersOf
<1> HIDE DEF r, todo, now
<1>8. /\ newsReq' \in [NewsSlots -> NewsRequest]
      /\ newsReq'[s].todo = todo
      /\ \/ todo = <<>> /\ newsReq'[s] = NoNewsRequest
         \/ /\ todo # <<>> /\ newsReq'[s].step = "tell"
            /\ newsReq'[s].ops = r.ops /\ newsReq'[s].actor = r.actor
  <2>1. /\ newsReq'[s] \in NewsRequest /\ newsReq'[s].todo = todo
        /\ \/ todo = <<>> /\ newsReq'[s] = NoNewsRequest
           \/ /\ todo # <<>> /\ newsReq'[s].step = "tell"
              /\ newsReq'[s].ops = r.ops /\ newsReq'[s].actor = r.actor
    <3>1. CASE todo = <<>>
      BY <1>1, <3>1, NoNewsOK
    <3>2. CASE todo # <<>>
      <4>1. newsReq'[s] = [r EXCEPT !.step = "tell", !.todo = todo]
        BY <1>1, <3>2
      <4>2. newsReq'[s] \in NewsRequest
        BY <1>3, <1>4, <4>1 DEF NewsRequest
      <4>3. /\ newsReq'[s].todo = todo /\ newsReq'[s].step = "tell"
            /\ newsReq'[s].ops = r.ops /\ newsReq'[s].actor = r.actor
        BY <1>3, <4>1 DEF NewsRequest
      <4> QED BY <3>2, <4>2, <4>3
    <3> QED BY <3>1, <3>2
  <2>4. ASSUME NEW t \in NewsSlots, t # s PROVE newsReq'[t] \in NewsRequest
    <3>1. newsReq[t] \in NewsRequest
      BY DEF NewsInv, CardNewsTypeOK
    <3>2. newsReq'[t] = [newsReq[t] EXCEPT !.stale = @ \/ NewAssignees(r)]
      BY <1>1, <2>4
    <3>3. NewAssignees(r) \in BOOLEAN
      BY DEF NewAssignees
    <3> QED BY <3>1, <3>2, <3>3 DEF NewsRequest
  <2>5. newsReq' \in [NewsSlots -> NewsRequest]
    BY <1>1, <2>1, <2>4
  <2> QED BY <2>1, <2>5
<1>9. ASSUME NEW t \in NewsSlots, t # s
      PROVE  newsReq'[t] = newsReq[t] \/ newsReq'[t] = [newsReq[t] EXCEPT !.stale = TRUE]
  <2>1. newsReq[t] \in NewsRequest
    BY DEF NewsInv, CardNewsTypeOK
  <2>2. newsReq'[t] = [newsReq[t] EXCEPT !.stale = newsReq[t].stale \/ NewAssignees(r)]
    BY <1>1, <1>9
  <2>3. newsReq[t].stale \in BOOLEAN /\ NewAssignees(r) \in BOOLEAN
    BY <2>1 DEF NewsRequest, NewAssignees
  <2>4. CASE (newsReq[t].stale \/ NewAssignees(r)) = TRUE
    BY <2>2, <2>4
  <2>5. CASE (newsReq[t].stale \/ NewAssignees(r)) = newsReq[t].stale
    BY <2>1, <2>2, <2>5 DEF NewsRequest
  <2> QED BY <2>3, <2>4, <2>5
<1>10. /\ unheard' = unheard /\ heardOf' \in Knowledge
       /\ heardOn' = IF "assign" \in r.ops
                     THEN (heardOn \ {r.actor}) \cup ({r.actor} \cap r.want) ELSE heardOn
       /\ heardOf'.column = heardOf.column /\ heardOf'.archived = heardOf.archived
       /\ heardOf'.done = IF r.actor = creator /\ "complete" \in r.ops
                          THEN r.completed ELSE heardOf.done
  <2>1. heardOf \in Knowledge
    BY DEF NewsInv, CardNewsTypeOK
  <2>2. r.ops \cap {"create", "assign"} = {} <=> "assign" \notin r.ops
    BY <1>2
  <2>3. CASE r.actor = creator
    <3>1. heardOf' = [done |-> IF "complete" \in r.ops THEN r.completed ELSE heardOf.done,
                      column |-> heardOf.column, archived |-> heardOf.archived]
      BY <1>1, <1>2, <2>1, <2>3 DEF ActorKnows, Knowledge
    <3> QED BY <1>1, <1>3, <2>1, <2>2, <2>3, <3>1 DEF ActorKnows, Knowledge
  <2>4. CASE r.actor # creator
    BY <1>1, <2>1, <2>2, <2>4 DEF ActorKnows
  <2> QED BY <2>3, <2>4
<1>11. CardNewsTypeOK'
  <2>1. heardOn' \in SUBSET People
    BY <1>3, <1>10 DEF NewsInv, CardNewsTypeOK
  <2> QED BY <1>1, <1>3, <1>8, <1>10, <2>1 DEF NewsInv, CardNewsTypeOK
<1>12. \A ops : Solo(ops)' <=> Solo(ops)
  BY <1>1 DEF Solo
<1>13. /\ "assign" \in r.ops /\ Solo(Assigning) => assignees' = r.want /\ r.assignees = assignees
       /\ "assign" \notin r.ops => assignees' = assignees
  BY <1>1, <1>3, <1>5 DEF Memory
<1>14. /\ "complete" \in r.ops /\ Solo({"complete"}) => done' = r.completed /\ r.done = done
       /\ "complete" \notin r.ops => done' = done
  BY <1>1, <1>3, <1>6 DEF Memory
<1>15. ASSUME NEW x \in In(newsReq'[s].todo) PROVE NoticeOK(newsReq[s], x)'
  <2>1. x \in In(todo) /\ todo # <<>> /\ newsReq'[s].ops = r.ops
    BY <1>8, <1>15, InEmpty
  <2>2. CASE x = [kind |-> "assigned", to |-> now \ r.assignees] /\ now \ r.assignees # {}
    <3>1. "assign" \in r.ops
      BY <1>5, <2>2
    <3> QED BY <1>5, <1>12, <1>13, <2>1, <2>2, <3>1 DEF NoticeOK, Assigning
  <2>3. CASE x = [kind |-> "unassigned", to |-> r.assignees \ now] /\ r.assignees \ now # {}
    <3>1. "assign" \in r.ops
      BY <1>5, <2>3
    <3> QED BY <1>5, <1>12, <1>13, <2>1, <2>3, <3>1 DEF NoticeOK, Assigning
  <2>4. CASE /\ x = [kind |-> IF DoneOf(r) THEN "done" ELSE "reopened",
                     to |-> WatchersOf(r, creator)]
             /\ DoneOf(r) # r.done
    <3>1. "complete" \in r.ops /\ DoneOf(r) = r.completed
      BY <1>6, <2>4
    <3>2. x.kind \in {"done", "reopened"} /\ (x.kind = "done") = r.completed
      BY <1>3, <2>4, <3>1
    <3> QED BY <1>1, <1>7, <1>12, <1>14, <2>1, <2>4, <3>1, <3>2 DEF NoticeOK
  <2>5. CASE /\ x = [kind |-> "updated", to |-> WatchersOf(r, creator) \ (now \ r.assignees)]
             /\ "rename" \in r.ops
    BY <2>5 DEF NoticeOK
  <2> QED BY <1>4, <2>1, <2>2, <2>3, <2>4, <2>5
<1>16. /\ \A u : OwedTo(u) => OwedTo(u)'
       /\ \A kinds : Owed(kinds) => Owed(kinds)'
  <2>1. ASSUME NEW t \in NewsSlots, t # s
        PROVE  newsReq'[t].todo = newsReq[t].todo /\ newsReq'[t].actor = newsReq[t].actor
    <3>1. newsReq[t] \in NewsRequest
      BY DEF NewsInv, CardNewsTypeOK
    <3> QED BY <1>9, <2>1, <3>1 DEF NewsRequest
  <2> QED BY <1>1, <1>3, <2>1, InEmpty, OwedByOthers DEF r
<1>17. ASSUME NEW x \in In(todo) PROVE newsReq'[s].actor = r.actor /\ x \in In(newsReq'[s].todo)
  <2>1. todo # <<>>
    BY <1>17, InEmpty
  <2> QED BY <1>8, <1>17, <2>1
<1>18. ASSUME Solo(Assigning), NEW u \in People \ unheard
       PROVE  (u \in heardOn' <=> u \in assignees') \/ OwedTo(u)'
  <2>1. (u \in heardOn <=> u \in assignees) \/ OwedTo(u)
    BY <1>18 DEF NewsInv, Knows
  <2>2. CASE "assign" \notin r.ops
    BY <1>10, <1>13, <1>16, <2>1, <2>2
  <2>3. CASE "assign" \in r.ops /\ u = r.actor
    BY <1>10, <1>13, <1>18, <2>3
  <2>4. CASE "assign" \in r.ops /\ u # r.actor
    <3>1. /\ assignees' = r.want /\ r.assignees = assignees /\ now = r.want
          /\ u \in heardOn' <=> u \in heardOn
      BY <1>5, <1>10, <1>13, <1>18, <2>4
    <3>2. CASE u \in r.want \ assignees
      <4> DEFINE x == [kind |-> "assigned", to |-> now \ r.assignees]
      <4>1. x \in In(todo)
        BY <1>4, <3>1, <3>2
      <4>2. newsReq'[s].actor # u /\ x \in In(newsReq'[s].todo) /\ u \in x.to
        BY <1>17, <2>4, <3>1, <3>2, <4>1
      <4> QED BY <4>2 DEF OwedTo, In
    <3>3. CASE u \in assignees \ r.want
      <4> DEFINE x == [kind |-> "unassigned", to |-> r.assignees \ now]
      <4>1. x \in In(todo)
        BY <1>4, <3>1, <3>3
      <4>2. newsReq'[s].actor # u /\ x \in In(newsReq'[s].todo) /\ u \in x.to
        BY <1>17, <2>4, <3>1, <3>3, <4>1
      <4> QED BY <4>2 DEF OwedTo, In
    <3>4. CASE u \in assignees <=> u \in r.want
      BY <1>16, <2>1, <3>1, <3>4
    <3> QED BY <3>2, <3>3, <3>4
  <2> QED BY <2>2, <2>3, <2>4
<1>19. ASSUME creator \notin unheard, Solo({"complete"})
       PROVE  heardOf'.done = done' \/ Owed({"done", "reopened"})'
  <2>1. heardOf.done = done \/ Owed({"done", "reopened"})
    BY <1>19 DEF NewsInv, Knows
  <2>2. CASE "complete" \notin r.ops
    BY <1>10, <1>14, <1>16, <2>1, <2>2
  <2>3. CASE "complete" \in r.ops /\ r.actor = creator
    BY <1>10, <1>14, <1>19, <2>3
  <2>4. CASE "complete" \in r.ops /\ r.actor # creator
    <3>1. done' = r.completed /\ r.done = done /\ heardOf'.done = heardOf.done /\ DoneOf(r) = r.completed
      BY <1>6, <1>10, <1>14, <1>19, <2>4
    <3>2. CASE r.completed # r.done
      <4> DEFINE x == [kind |-> IF DoneOf(r) THEN "done" ELSE "reopened",
                       to |-> WatchersOf(r, creator)]
      <4>1. x \in In(todo)
        BY <1>4, <3>1, <3>2
      <4>2. newsReq'[s].actor # creator' /\ x \in In(newsReq'[s].todo) /\ x.kind \in {"done", "reopened"}
        BY <1>1, <1>17, <2>4, <4>1
      <4> QED BY <4>2 DEF Owed, In
    <3>3. CASE r.completed = r.done
      BY <1>16, <2>1, <3>1, <3>3
    <3> QED BY <3>2, <3>3
  <2> QED BY <2>2, <2>3, <2>4
<1>20. Knows'
  BY <1>1, <1>10, <1>12, <1>16, <1>18, <1>19 DEF NewsInv, Knows
<1>21. r.ops \subseteq newsMix.does[s]
  BY <1>3 DEF NewsRequestOK
<1>22. /\ assignees' # assignees => newsMix.does[s] \cap Assigning # {}
       /\ done' # done => newsMix.does[s] \cap {"complete"} # {}
  BY <1>13, <1>14, <1>21 DEF Assigning
<1>23. newsReq[s].step = "save" /\ "create" \notin newsReq[s].ops
       /\ \/ newsReq'[s] = NoNewsRequest
          \/ /\ newsReq'[s].todo # <<>> /\ newsReq'[s].step = "tell"
             /\ newsReq'[s].ops = newsReq[s].ops /\ newsReq'[s].actor = newsReq[s].actor
  BY <1>1, <1>2, <1>8 DEF r
<1> QED BY <1>1, <1>9, <1>11, <1>15, <1>20, <1>22, <1>23, SavedNews
-----------------------------------------------------------------------------
LEMMA NewsNext == NewsInv /\ [CardNewsNext]_newsVars => NewsInv'
<1> SUFFICES ASSUME NewsInv, [CardNewsNext]_newsVars PROVE NewsInv'
  OBVIOUS
<1>1. CASE \E s \in NewsSlots :
              \/ AskCreate(s) \/ AskUpdate(s) \/ AskMove(s) \/ AskArchive(s)
              \/ LoadTheCard(s) \/ CardGone(s) \/ AssertMembers(s) \/ AssigneeNotMember(s)
              \/ MakeCard(s) \/ SaveCard(s) \/ SaveRefused(s) \/ SaveMove(s) \/ SaveArchive(s)
              \/ Tell(s) \/ TellFails(s)
  <2> PICK s \in NewsSlots :
         \/ AskCreate(s) \/ AskUpdate(s) \/ AskMove(s) \/ AskArchive(s)
         \/ LoadTheCard(s) \/ CardGone(s) \/ AssertMembers(s) \/ AssigneeNotMember(s)
         \/ MakeCard(s) \/ SaveCard(s) \/ SaveRefused(s) \/ SaveMove(s) \/ SaveArchive(s)
         \/ Tell(s) \/ TellFails(s)
    BY <1>1
  <2>1. CASE AskCreate(s) \/ AskUpdate(s) \/ AskMove(s) \/ AskArchive(s)
    BY <2>1, AskNews
  <2>2. CASE LoadTheCard(s)
    BY <2>2, LoadNews
  <2>3. CASE CardGone(s) \/ AssigneeNotMember(s) \/ SaveRefused(s)
    <3>1. newsReq[s].step # "tell" /\ Drop(s)
      BY <2>3 DEF CardGone, AssigneeNotMember, SaveRefused
    <3> QED BY <3>1, DropNews
  <2>4. CASE AssertMembers(s)
    BY <2>4, CheckNews
  <2>5. CASE MakeCard(s)
    BY <2>5, MakeNews
  <2>6. CASE SaveCard(s)
    BY <2>6, UpdateCardNews
  <2>7. CASE SaveMove(s)
    BY <2>7, MoveNews
  <2>8. CASE SaveArchive(s)
    BY <2>8, ArchiveNews
  <2>9. CASE Tell(s)
    BY <2>9, TellNews
  <2>10. CASE TellFails(s)
    BY <2>10, LoseNews
  <2> QED BY <2>1, <2>2, <2>3, <2>4, <2>5, <2>6, <2>7, <2>8, <2>9, <2>10
<1>2. CASE \E u \in People : Turnover(u)
  BY <1>2, TurnoverNews
<1>3. CASE UNCHANGED newsVars
  <2>1. /\ cardState' = cardState /\ creator' = creator /\ assignees' = assignees
        /\ done' = done /\ column' = column /\ staff' = staff /\ newsReq' = newsReq
        /\ newsMix' = newsMix /\ heardOn' = heardOn /\ heardOf' = heardOf /\ unheard' = unheard
    BY <1>3 DEF newsVars, theCard, heard
  <2> QED BY <2>1 DEF NewsInv, CardNewsTypeOK, NewsRequestOK, Memory, NoticeOK, Solo, In,
                      FirstCreated, Knows, OwedTo, Owed
<1> QED BY <1>1, <1>2, <1>3 DEF CardNewsNext

(* The card, the requests in flight and what people know of the card have  *)
(* their types.                                                            *)
THEOREM NewsTypes == CardNewsSpec => []CardNewsTypeOK
<1>1. NewsInv => CardNewsTypeOK
  BY DEF NewsInv
<1> QED BY <1>1, NewsInit, NewsNext, PTL DEF CardNewsSpec

(* Everyone whom no failed notice was meant for knows whether they are     *)
(* assigned to the card, and its creator whether it is done, where it is   *)
(* and that it is archived, each as soon as the requests that change it    *)
(* are over, if those do not overlap each other, and whatever else does.   *)
THEOREM HeardIsTrue == CardNewsSpec => []HeardMatchesCard
<1>1. NewsInv => HeardMatchesCard
  <2> SUFFICES ASSUME NewsInv PROVE HeardMatchesCard
    OBVIOUS
  <2>1. \A s \in NewsSlots : \A x \in In(newsReq[s].todo) : NoticeOK(newsReq[s], x)
    BY DEF NewsInv, NewsRequestOK
  <2>2. /\ Calm(Assigning) => \A u : ~OwedTo(u)
        /\ Calm({"complete"}) => ~Owed({"done", "reopened"})
        /\ Calm({"move"}) => ~Owed({"moved"})
        /\ Calm({"archive"}) => ~Owed({"archived"})
    BY <2>1 DEF Calm, OwedTo, Owed, NoticeOK
  <2>3. \A ops : Calm(ops) => Solo(ops)
    BY DEF Calm
  <2>4. Knows
    BY DEF NewsInv
  <2>5. Calm({"assign", "create"}) => \A u \in People \ unheard : u \in heardOn <=> u \in assignees
    BY <2>2, <2>3, <2>4 DEF Knows, Assigning
  <2>6. creator \notin unheard =>
           /\ Calm({"complete"}) => heardOf.done = done
           /\ Calm({"move"}) => heardOf.column = column
           /\ Calm({"archive"}) => (heardOf.archived <=> cardState = "archived")
    BY <2>2, <2>3, <2>4 DEF Knows
  <2> QED BY <2>5, <2>6 DEF HeardMatchesCard
<1> QED BY <1>1, NewsInit, NewsNext, PTL DEF CardNewsSpec

-----------------------------------------------------------------------------
(* The two modules side by side: a behaviour of both is a behaviour of     *)
(* each, so that all theorems above hold of it.                            *)
THEOREM TeamIsBoth == TeamSpec => Spec /\ CardNewsSpec
<1>1. TeamInit => Init /\ CardNewsInit
  BY DEF TeamInit
<1>2. [TeamNext]_<<vars, newsVars>> => [Next]_vars /\ [CardNewsNext]_newsVars
  <2> SUFFICES ASSUME TeamNext PROVE [Next]_vars /\ [CardNewsNext]_newsVars
    OBVIOUS
  <2>1. \/ (\E u \in Users : CreateWorkspace(u) \/ Expire(u)) /\ UNCHANGED newsVars
        \/ (\E s \in Requests : Start(s) \/ Guard(s) \/ Handle(s)) /\ UNCHANGED newsVars
        \/ CardNewsNext /\ UNCHANGED vars
    BY Zenon DEF TeamNext, Team, News, Guard, Handle, CardNewsNext
  <2> QED BY <2>1 DEF Next
<1> QED BY <1>1, <1>2, PTL DEF TeamSpec, Spec, CardNewsSpec

(* While the two run side by side, the types of both hold.                 *)
THEOREM TeamTypes == TeamSpec => []TypesOK
<1>1. TypeOK /\ CardNewsTypeOK => TypesOK
  BY DEF TypesOK
<1> QED BY <1>1, TeamIsBoth, TypeCorrect, NewsTypes, PTL

(* The specification that races requests without transfers is one of those *)
(* that Spec allows: what is proved for any overlap holds of it.           *)
LEMMA RacingIsAllowed == RacingSpec => Spec
<1>1. [RacingNext]_vars => [Next]_vars
  BY DEF RacingNext, Next, Handle
<1> QED BY <1>1, PTL DEF RacingSpec, Spec
==============================================================================
