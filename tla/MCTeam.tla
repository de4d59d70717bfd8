------------------------------- MODULE MCTeam -------------------------------
(* Workspaces and CardNews for TLC.  They share no variable, so a          *)
(* behaviour has one of them at rest.  With one request at a time,         *)
(* AddDuplicate and SetRoleOfNobody cannot happen.                         *)
EXTENDS MCWorkspaces, MCCardNews

NoNews == [does |-> [s \in NewsSlots |-> {}], there |-> {},
           turnover |-> FALSE, failing |-> FALSE]
MCAllNewsMixes == MCNewsMixes \cup {NoNews}

TeamInit == Init /\ CardNewsInit

Team(action) == newsMix = NoNews /\ action /\ UNCHANGED newsVars
News(action) == action /\ UNCHANGED vars

TeamNext ==
    \/ \E u \in Users : Team(CreateWorkspace(u)) \/ Team(Expire(u))
    \/ \E s \in Requests :
          \/ Team(Start(s))
          \/ Team(GuardUnrestricted(s)) \/ Team(GuardHit(s)) \/ Team(GuardMiss(s))
          \/ Team(GuardLoad(s)) \/ Team(GuardStore(s))
          \/ Team(CheckAbsent(s)) \/ Team(FindMember(s)) \/ Team(ReadOwner(s))
          \/ Team(AddMember(s)) \/ Team(SetRole(s)) \/ Team(RemoveMember(s))
          \/ Team(TransferOwnership(s)) \/ Team(Forget(s))
    \/ \E s \in NewsSlots :
          \/ News(AskCreate(s)) \/ News(AskUpdate(s)) \/ News(AskMove(s)) \/ News(AskArchive(s))
          \/ News(LoadTheCard(s)) \/ News(CardGone(s)) \/ News(AssertMembers(s))
          \/ News(AssigneeNotMember(s)) \/ News(MakeCard(s)) \/ News(SaveCard(s))
          \/ News(SaveRefused(s)) \/ News(SaveMove(s)) \/ News(SaveArchive(s))
          \/ News(Tell(s)) \/ News(TellFails(s))
    \/ \E p \in People : News(Turnover(p))

TeamSpec == TeamInit /\ [][TeamNext]_<<vars, newsVars>>

(* The types of both modules.                                              *)
TypesOK == TypeOK /\ CardNewsTypeOK
=============================================================================
