----------------------------- MODULE PageForest -----------------------------
(***************************************************************************)
(* What a workspace promises its readers about the tree of pages: the      *)
(* pages shown form a forest.  A new page is put at the top or under a     *)
(* page that is not too deep, a page that is moved takes everything below  *)
(* it along, a page that is archived takes everything below it away.       *)
(* Nothing is said of stored parents and paths.                            *)
(***************************************************************************)
EXTENDS Naturals, FiniteSets

CONSTANTS Pages, MaxDepth

VARIABLES
    made,    \* the pages created so far
    shown,   \* those not archived
    above    \* the pages above each page that is shown

vars == <<made, shown, above>>

Under(q) == above[q] \cup {q}

(* What may come above a page that is created or moved: nothing, or a page *)
(* that is not too deep with all that is above it.                         *)
Shallow == {q \in shown : Cardinality(above[q]) < MaxDepth}

Places == {{}} \cup {Under(q) : q \in Shallow}

Subtree(p) == {p} \cup {c \in shown : p \in above[c]}

Init ==
    /\ made = {}
    /\ shown = {}
    /\ above = [p \in Pages |-> {}]

Create(p, place) ==
    /\ p \notin made
    /\ made' = made \cup {p}
    /\ shown' = shown \cup {p}
    /\ above' = [above EXCEPT ![p] = place]

Move(p, place) ==
    /\ p \in shown
    /\ place \cap Subtree(p) = {}
    /\ above' = [c \in Pages |->
                   IF c = p THEN place
                   ELSE IF c \in Subtree(p) THEN place \cup (above[c] \ above[p])
                   ELSE above[c]]
    /\ UNCHANGED <<made, shown>>

Archive(p) ==
    /\ p \in shown
    /\ shown' = shown \ Subtree(p)
    /\ above' = [c \in Pages |-> IF c \in Subtree(p) THEN {} ELSE above[c]]
    /\ UNCHANGED made

Next ==
    \/ \E p \in Pages, place \in Places : Create(p, place) \/ Move(p, place)
    \/ \E p \in Pages : Archive(p)

Spec == Init /\ [][Next]_vars

(* Each page shown has a line of pages above it, all of them shown, with   *)
(* itself not among them: nothing is above or below itself, and nothing    *)
(* that is shown hangs under something that is not.                        *)
IsForest ==
    \A c \in shown :
        /\ above[c] \subseteq shown \ {c}
        /\ \A d \in above[c] : above[d] \subseteq above[c]
        /\ \A d, e \in above[c] : d = e \/ d \in above[e] \/ e \in above[d]
=============================================================================
