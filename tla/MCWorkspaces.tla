---------------------------- MODULE MCWorkspaces ----------------------------
(* Workspaces for TLC.  All users and all request slots are alike.         *)
EXTENDS Workspaces, TLC

(* Requests that overlap, without transfers, which would be more states    *)
(* than a run can visit; MCTeam has them, one request at a time.           *)
RacingNext ==
    \/ \E u \in Users : CreateWorkspace(u) \/ Expire(u)
    \/ \E s \in Requests :
          \/ Start(s) \/ Guard(s) \/ CheckAbsent(s) \/ FindMember(s)
          \/ AddMember(s) \/ AddDuplicate(s) \/ SetRole(s) \/ SetRoleOfNobody(s)
          \/ RemoveMember(s) \/ Forget(s)

RacingSpec == Init /\ [][RacingNext]_vars /\ Fairness

Symmetry == Permutations(Users) \cup Permutations(Requests)
=============================================================================
