------------------------------ MODULE RoleTable ------------------------------
(***************************************************************************)
(* What a workspace promises its members about their roles: a table that   *)
(* only somebody entitled by it at that moment changes.  Admins manage the *)
(* others, everybody but the owner may leave, and the owner role is passed *)
(* on whole.  Nothing is said of requests, documents and caches.           *)
(***************************************************************************)
CONSTANTS Users, Root, Roles, Nobody

VARIABLES
    owner,   \* who owns the workspace, Nobody before there is one
    roles    \* the role of each user, "none" for outsiders

vars == <<owner, roles>>

MayManage(a) == a = Root \/ roles[a] \in {"owner", "admin"}

Init ==
    /\ owner = Nobody
    /\ roles = [u \in Users |-> "none"]

Found(u) ==
    /\ owner = Nobody
    /\ owner' = u
    /\ roles' = [roles EXCEPT ![u] = "owner"]

Add(by, u, r) ==
    /\ MayManage(by)
    /\ roles[u] = "none"
    /\ roles' = [roles EXCEPT ![u] = r]
    /\ UNCHANGED owner

Assign(by, u, r) ==
    /\ MayManage(by)
    /\ roles[u] \notin {"owner", "none"}
    /\ roles' = [roles EXCEPT ![u] = r]
    /\ UNCHANGED owner

Remove(by, u) ==
    /\ by = u \/ MayManage(by)
    /\ roles[u] # "owner"
    /\ roles' = [roles EXCEPT ![u] = "none"]
    /\ UNCHANGED owner

Transfer(by, u) ==
    /\ by \in {Root, owner}
    /\ roles[u] # "none"
    /\ owner' = u
    /\ roles' = [roles EXCEPT ![owner] = "admin", ![u] = "owner"]

Next ==
    \/ \E u \in Users : Found(u)
    \/ \E by \in Users \cup {Root}, u \in Users :
          \/ Remove(by, u) \/ Transfer(by, u)
          \/ \E r \in Roles : Add(by, u, r) \/ Assign(by, u, r)

Spec == Init /\ [][Next]_vars

(* Once there is an owner, the owner role is theirs and nobody else's.     *)
OneOwner == owner # Nobody => \A u \in Users : roles[u] = "owner" <=> u = owner
=============================================================================
