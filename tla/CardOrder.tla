----------------------------- MODULE CardOrder ------------------------------
(***************************************************************************)
(* What a board promises its readers about card order: each list is a      *)
(* sequence of cards.  A new card goes to the end, a moved card is taken   *)
(* out of its sequence and inserted into another place or list, an         *)
(* archived card is taken out.  Nothing is said of numeric positions.      *)
(***************************************************************************)
EXTENDS Naturals, Sequences, SequencesExt

CONSTANTS Cards, Lists, Limits

VARIABLES
    order,   \* the cards of each list, in order
    limit,   \* each list's card limit, 0 for none
    open,    \* the lists that accept cards
    made     \* the cards created so far

vars == <<order, limit, open, made>>

\* The sequences hold no card twice.
PlaceOf(s, c) == CHOOSE i \in 1..Len(s) : s[i] = c

Without(s, c) == IF Contains(s, c) THEN RemoveAt(s, PlaceOf(s, c)) ELSE s

HasRoom(l) == limit[l] = 0 \/ Len(order[l]) < limit[l]

Init ==
    /\ order = [l \in Lists |-> <<>>]
    /\ limit = [l \in Lists |-> 0]
    /\ open = {}
    /\ made = {}

Append_(c, l) ==
    /\ c \notin made
    /\ l \in open /\ HasRoom(l)
    /\ order' = [order EXCEPT ![l] = Append(@, c)]
    /\ made' = made \cup {c}
    /\ UNCHANGED <<limit, open>>

Move(c, l, m, k) ==
    /\ Contains(order[l], c)
    /\ m \in open
    /\ l = m \/ HasRoom(m)
    /\ k \in 0..Len(Without(order[m], c))
    /\ order' = [x \in Lists |->
                   IF x = m THEN InsertAt(Without(order[m], c), k + 1, c)
                            ELSE Without(order[x], c)]
    /\ UNCHANGED <<limit, open, made>>

Remove_(c, l) ==
    /\ Contains(order[l], c)
    /\ order' = [order EXCEPT ![l] = Without(@, c)]
    /\ UNCHANGED <<limit, open, made>>

\* Lists come and go: a list leaves with all its cards.
ChangeLists(ls) ==
    /\ open' = ls
    /\ order' = [l \in Lists |-> IF l \in ls THEN order[l] ELSE <<>>]
    /\ UNCHANGED <<limit, made>>

OpenList(l, n) ==
    /\ l \notin open
    /\ open' = open \cup {l}
    /\ limit' = [limit EXCEPT ![l] = n]
    /\ UNCHANGED <<order, made>>

SetLimit(l, n) ==
    /\ l \in open
    /\ limit' = [limit EXCEPT ![l] = n]
    /\ UNCHANGED <<order, open, made>>

Next ==
    \/ \E c \in Cards, l \in Lists : Append_(c, l) \/ Remove_(c, l)
    \/ \E c \in Cards, l, m \in Lists : \E k \in 0..Len(order[m]) : Move(c, l, m, k)
    \/ \E ls \in SUBSET Lists : ChangeLists(ls)
    \/ \E l \in Lists, n \in Limits \cup {0} : OpenList(l, n) \/ SetLimit(l, n)

Spec == Init /\ [][Next]_vars
=============================================================================
