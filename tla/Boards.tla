------------------------------- MODULE Boards -------------------------------
(***************************************************************************)
(* One board of FlowDeck with its lists and cards: services/board.service  *)
(* over models/board, boardList and card.                                  *)
(*                                                                         *)
(* A request handler awaits the database several times: it reads the       *)
(* board, the card, the list and a count, and only then writes.  Each read *)
(* is a step here, the values it returned stay in req[s] and the final     *)
(* writes (one transaction, or one document) are one step that uses them.  *)
(* Between two steps of a request any step of another one may happen.      *)
(***************************************************************************)
EXTENDS Naturals, Sequences, FiniteSets

CONSTANTS
    Cards,         \* card ids the board may ever hold
    Lists,         \* list ids the board may ever hold
    DefaultLists,  \* the lists createBoard makes, in order (DEFAULT_LISTS)
    Requests,      \* slots for requests in flight
    Mixes,         \* bound: what clients ask for (ops), which slots they use
                   \* (slots) and which card positions they send (places); a
                   \* behaviour keeps to one of these
    Limits,        \* cardLimit values a client may set
    ListPlaces,    \* list positions a client may set with updateList
    Null           \* an omitted input, or a value not read yet

ASSUME BoardsAssumption ==
    /\ IsFiniteSet(Cards) /\ IsFiniteSet(Lists)
    /\ DefaultLists \in Seq(Lists)
    /\ \A i, j \in 1..Len(DefaultLists) :
          DefaultLists[i] = DefaultLists[j] => i = j
    /\ Limits \subseteq Nat \ {0} /\ ListPlaces \subseteq Nat
    /\ Mixes \subseteq [ops : SUBSET {"createList", "updateList", "archiveList", "createCard",
                                     "moveCard", "archiveCard", "archiveBoard"},
                        slots : SUBSET Requests, places : SUBSET Nat]
    /\ Null \notin Cards /\ Null \notin Lists /\ Null \notin Nat

NoLimit == 0

VARIABLES
    board,       \* "absent", "active" or "archived"
    listState,   \* the same for every list ...
    listPos,     \* ... its position among the board's lists ...
    cardLimit,   \* ... and its card limit (NoLimit: null)
    cardState,   \* the same three states for every card ...
    cardList,    \* ... the list it is in ...
    cardPos,     \* ... and its position there
    req,         \* the requests in flight
    mix          \* what clients ask for

lists == <<listState, listPos, cardLimit>>
cards == <<cardState, cardList, cardPos>>
store == <<board, lists, cards>>
vars  == <<store, req, mix>>

States == {"absent", "active", "archived"}

Ops == {"none", "createList", "updateList", "archiveList",
        "createCard", "moveCard", "archiveCard", "archiveBoard"}

Steps == {"idle", "card", "list", "count", "write"}

(***************************************************************************)
(* What a handler holds across its awaits: the ids and the position it was *)
(* asked for, the list and position of the document it loaded (from, at),  *)
(* the loaded list's limit and the number of cards or lists it counted.    *)
(***************************************************************************)
Request ==
    [op : Ops, step : Steps, card : Cards \cup {Null}, list : Lists \cup {Null},
     place : Nat \cup {Null}, newLimit : Nat \cup {Null},
     from : Lists \cup {Null}, at : Nat, limit : Nat, count : Nat]

Idle ==
    [op |-> "none", step |-> "idle", card |-> Null, list |-> Null,
     place |-> Null, newLimit |-> Null,
     from |-> Null, at |-> 0, limit |-> NoLimit, count |-> 0]

TypeOK ==
    /\ board \in States
    /\ listState \in [Lists -> States]
    /\ listPos \in [Lists -> Nat]
    /\ cardLimit \in [Lists -> Nat]
    /\ cardState \in [Cards -> States]
    /\ cardList \in [Cards -> Lists \cup {Null}]
    /\ cardPos \in [Cards -> Nat]
    /\ \A c \in Cards : cardState[c] = "active" => cardList[c] \in Lists
    /\ req \in [Requests -> Request]
    /\ mix \in Mixes

ActiveLists == {l \in Lists : listState[l] = "active"}

ActiveIn(l) == {c \in Cards : cardState[c] = "active" /\ cardList[c] = l}

\* Mutant: the decrement without its position filter.
CloseGapEverywhere(pos, l, p, c) ==
    [d \in Cards |-> IF d \in ActiveIn(l) \ {c} THEN pos[d] - 1 ELSE pos[d]]

\* Mutant: $gt where the increment has $gte.
OpenGapAbove(pos, l, p, c) ==
    [d \in Cards |-> IF d \in ActiveIn(l) \ {c} /\ pos[d] > p
                       THEN pos[d] + 1 ELSE pos[d]]

(***************************************************************************)
(* The two updateMany statements of moveCard and the one of archiveCard,   *)
(* on a map of positions: active cards of list l other than c.             *)
(***************************************************************************)
CloseGap(pos, l, p, c) ==
    [d \in Cards |-> IF d \in ActiveIn(l) \ {c} /\ pos[d] > p
                       THEN pos[d] - 1 ELSE pos[d]]

OpenGap(pos, l, p, c) ==
    [d \in Cards |-> IF d \in ActiveIn(l) \ {c} /\ pos[d] >= p
                       THEN pos[d] + 1 ELSE pos[d]]

Init ==
    /\ board = "absent"
    /\ listState = [l \in Lists |-> "absent"]
    /\ listPos = [l \in Lists |-> 0]
    /\ cardLimit = [l \in Lists |-> NoLimit]
    /\ cardState = [c \in Cards |-> "absent"]
    /\ cardList = [c \in Cards |-> Null]
    /\ cardPos = [c \in Cards |-> 0]
    /\ req = [s \in Requests |-> Idle]
    /\ mix \in Mixes

-----------------------------------------------------------------------------
(* createBoard: the board and its default lists in one transaction.        *)

CreateBoard ==
    /\ board = "absent"
    /\ board' = "active"
    /\ LET rank(l) == {i \in 1..Len(DefaultLists) : DefaultLists[i] = l}
       IN  /\ listState' = [l \in Lists |-> IF rank(l) # {} THEN "active" ELSE "absent"]
           /\ listPos' = [l \in Lists |-> IF rank(l) # {}
                                            THEN (CHOOSE i \in rank(l) : TRUE) - 1
                                            ELSE 0]
    /\ UNCHANGED <<cardLimit, cards, req, mix>>

(***************************************************************************)
(* Every other handler starts with loadBoard, which answers 404 (and so    *)
(* changes nothing) unless the board is active.  A request names a card or *)
(* list that has existed: any other id is a 404 that changes nothing.      *)
(***************************************************************************)
Known(state) == {x \in DOMAIN state : state[x] # "absent"}

Go(s, r) ==
    /\ req' = [req EXCEPT ![s] = r]
    /\ UNCHANGED mix

Begin(s, r) ==
    /\ req[s] = Idle
    /\ s \in mix.slots /\ r.op \in mix.ops
    /\ board = "active"
    /\ Go(s, r)
    /\ UNCHANGED store

StartCreateList(s) ==
    \E n \in Limits \cup {NoLimit} :
        Begin(s, [Idle EXCEPT !.op = "createList", !.step = "count", !.newLimit = n])

StartUpdateList(s) ==
    \E l \in Known(listState), n \in Limits \cup {NoLimit, Null}, k \in ListPlaces \cup {Null} :
        Begin(s, [Idle EXCEPT !.op = "updateList", !.step = "list",
                              !.list = l, !.newLimit = n, !.place = k])

StartArchiveList(s) ==
    \E l \in Known(listState) :
        Begin(s, [Idle EXCEPT !.op = "archiveList", !.step = "list", !.list = l])

StartCreateCard(s) ==
    \E l \in Known(listState) :
        Begin(s, [Idle EXCEPT !.op = "createCard", !.step = "list", !.list = l])

StartMoveCard(s) ==
    \E c \in Known(cardState), l \in Known(listState) \cup {Null}, k \in mix.places \cup {Null} :
        Begin(s, [Idle EXCEPT !.op = "moveCard", !.step = "card",
                              !.card = c, !.list = l, !.place = k])

StartArchiveCard(s) ==
    \E c \in Known(cardState) :
        Begin(s, [Idle EXCEPT !.op = "archiveCard", !.step = "card", !.card = c])

StartArchiveBoard(s) ==
    Begin(s, [Idle EXCEPT !.op = "archiveBoard", !.step = "write"])

-----------------------------------------------------------------------------
(* The reads: loadCard, loadList and the counts.                           *)

Advance(s, r) == Go(s, r) /\ UNCHANGED store

Refuse(s) == Advance(s, Idle)

LoadCard(s) ==
    LET r == req[s]
        c == r.card
    IN  /\ r.step = "card"
        /\ \/ /\ cardState[c] # "active"
              /\ Refuse(s)
           \/ /\ cardState[c] = "active"
              /\ Advance(s, [r EXCEPT
                    !.step = IF r.op = "moveCard" THEN "list" ELSE "write",
                    !.list = IF r.list = Null THEN cardList[c] ELSE r.list,
                    !.from = cardList[c],
                    !.at   = cardPos[c]])

LoadList(s) ==
    LET r == req[s]
        l == r.list
    IN  /\ r.step = "list"
        /\ \/ /\ listState[l] # "active"
              /\ Refuse(s)
           \/ /\ listState[l] = "active"
              /\ Advance(s, [r EXCEPT
                    !.step  = IF r.op \in {"createCard", "moveCard"} THEN "count" ELSE "write",
                    !.at    = IF r.op = "moveCard" THEN r.at ELSE listPos[l],
                    !.limit = cardLimit[l]])

CountLists(s) ==
    LET r == req[s]
    IN  /\ r.step = "count" /\ r.op = "createList"
        /\ Advance(s, [r EXCEPT !.step = "write", !.count = Cardinality(ActiveLists)])

\* Mutant: > where the limit check has >=.
CountCardsLoosely(s) ==
    LET r == req[s]
        n == Cardinality(ActiveIn(r.list) \ {r.card})
        full == r.list # r.from /\ r.limit # NoLimit /\ n > r.limit
    IN  /\ r.step = "count" /\ r.op \in {"createCard", "moveCard"}
        /\ \/ full /\ Refuse(s)
           \/ ~full /\ Advance(s, [r EXCEPT !.step = "write", !.count = n])

(* createCard and moveCard count the target's cards, the moved one aside,  *)
(* and refuse a full list unless the card is already in it.                *)
CountCards(s) ==
    LET r == req[s]
        n == Cardinality(ActiveIn(r.list) \ {r.card})
        full == r.list # r.from /\ r.limit # NoLimit /\ n >= r.limit
    IN  /\ r.step = "count" /\ r.op \in {"createCard", "moveCard"}
        /\ \/ full /\ Refuse(s)
           \/ ~full /\ Advance(s, [r EXCEPT !.step = "write", !.count = n])

-----------------------------------------------------------------------------
(* The writes.                                                             *)

Writing(s, op) ==
    /\ req[s].step = "write" /\ req[s].op = op
    /\ Go(s, Idle)

CreateList(s) ==
    LET r == req[s]
    IN  /\ Writing(s, "createList")
        /\ \E l \in Lists :
              /\ listState[l] = "absent"
              /\ listState' = [listState EXCEPT ![l] = "active"]
              /\ listPos' = [listPos EXCEPT ![l] = r.count]
              /\ cardLimit' = [cardLimit EXCEPT ![l] = r.newLimit]
        /\ UNCHANGED <<board, cards>>

(* save writes only what set changed in the loaded document.               *)
UpdateList(s) ==
    LET r == req[s]
        l == r.list
    IN  /\ Writing(s, "updateList")
        /\ listPos' = [listPos EXCEPT ![l] =
                         IF r.place \in {Null, r.at} THEN @ ELSE r.place]
        /\ cardLimit' = [cardLimit EXCEPT ![l] =
                           IF r.newLimit \in {Null, r.limit} THEN @ ELSE r.newLimit]
        /\ UNCHANGED <<board, listState, cards>>

\* Mutant: the list goes without its cards.
ArchiveListAlone(s) ==
    LET r == req[s]
        l == r.list
    IN  /\ Writing(s, "archiveList")
        /\ listState' = [listState EXCEPT ![l] = "archived"]
        /\ listPos' = [m \in Lists |->
                         IF m \in ActiveLists \ {l} /\ listPos[m] > r.at
                           THEN listPos[m] - 1 ELSE listPos[m]]
        /\ UNCHANGED <<board, cardLimit, cards>>

\* Mutant: the lists after it keep their positions.
ArchiveListLeavingGap(s) ==
    LET l == req[s].list
    IN  /\ Writing(s, "archiveList")
        /\ listState' = [listState EXCEPT ![l] = "archived"]
        /\ cardState' = [c \in Cards |-> IF c \in ActiveIn(l) THEN "archived" ELSE cardState[c]]
        /\ UNCHANGED <<board, listPos, cardLimit, cardList, cardPos>>

ArchiveList(s) ==
    LET r == req[s]
        l == r.list
    IN  /\ Writing(s, "archiveList")
        /\ listState' = [listState EXCEPT ![l] = "archived"]
        /\ cardState' = [c \in Cards |-> IF c \in ActiveIn(l) THEN "archived" ELSE cardState[c]]
        /\ listPos' = [m \in Lists |->
                         IF m \in ActiveLists \ {l} /\ listPos[m] > r.at
                           THEN listPos[m] - 1 ELSE listPos[m]]
        /\ UNCHANGED <<board, cardLimit, cardList, cardPos>>

CreateCard(s) ==
    LET r == req[s]
    IN  /\ Writing(s, "createCard")
        /\ \E c \in Cards :
              /\ cardState[c] = "absent"
              /\ cardState' = [cardState EXCEPT ![c] = "active"]
              /\ cardList' = [cardList EXCEPT ![c] = r.list]
              /\ cardPos' = [cardPos EXCEPT ![c] = r.count]
        /\ UNCHANGED <<board, lists>>

(* position ?? occupied, and never beyond the end.                         *)
NextPosition(r) == IF r.place = Null \/ r.place > r.count THEN r.count ELSE r.place

\* Mutant: the moved card trades places with the one in its new slot.
SwapCards(s) ==
    LET r    == req[s]
        c    == r.card
        next == NextPosition(r)
    IN  /\ Writing(s, "moveCard")
        /\ cardPos' =
              IF r.list = r.from
                THEN [d \in Cards |->
                        CASE d = c -> next
                          [] d \in ActiveIn(r.list) \ {c} /\ cardPos[d] = next -> r.at
                          [] OTHER -> cardPos[d]]
                ELSE [OpenGap(CloseGap(cardPos, r.from, r.at, c), r.list, next, c)
                        EXCEPT ![c] = next]
        /\ cardList' = [cardList EXCEPT ![c] = r.list]
        /\ UNCHANGED <<board, lists, cardState>>

(* As in UpdateList, a list or position equal to the loaded one is not     *)
(* written back.                                                           *)
MoveCard(s) ==
    LET r    == req[s]
        c    == r.card
        next == NextPosition(r)
        shifted == OpenGap(CloseGap(cardPos, r.from, r.at, c), r.list, next, c)
    IN  /\ Writing(s, "moveCard")
        /\ cardPos' = [shifted EXCEPT ![c] = IF next = r.at THEN @ ELSE next]
        /\ cardList' = [cardList EXCEPT ![c] = IF r.list = r.from THEN @ ELSE r.list]
        /\ UNCHANGED <<board, lists, cardState>>

ArchiveCard(s) ==
    LET r == req[s]
        c == r.card
    IN  /\ Writing(s, "archiveCard")
        /\ cardState' = [cardState EXCEPT ![c] = "archived"]
        /\ cardPos' = CloseGap(cardPos, r.from, r.at, c)
        /\ UNCHANGED <<board, lists, cardList>>

ArchiveBoard(s) ==
    LET archive(st) == IF st = "absent" THEN "absent" ELSE "archived"
    IN  /\ Writing(s, "archiveBoard")
        /\ board' = "archived"
        /\ listState' = [l \in Lists |-> archive(listState[l])]
        /\ cardState' = [c \in Cards |-> archive(cardState[c])]
        /\ UNCHANGED <<listPos, cardLimit, cardList, cardPos>>

-----------------------------------------------------------------------------
Start(s) ==
    \/ StartCreateList(s) \/ StartUpdateList(s) \/ StartArchiveList(s)
    \/ StartCreateCard(s) \/ StartMoveCard(s) \/ StartArchiveCard(s)
    \/ StartArchiveBoard(s)

Read(s) == LoadCard(s) \/ LoadList(s) \/ CountLists(s) \/ CountCards(s)

Write(s) ==
    \/ CreateList(s) \/ UpdateList(s) \/ ArchiveList(s)
    \/ CreateCard(s) \/ MoveCard(s) \/ ArchiveCard(s) \/ ArchiveBoard(s)

Next == CreateBoard \/ \E s \in Requests : Start(s) \/ Read(s) \/ Write(s)

Spec == Init /\ [][Next]_vars

-----------------------------------------------------------------------------
(* Properties.                                                             *)

(* Requests that never overlap: the condition of most of what follows.     *)
OneAtATime == \A s, t \in mix.slots : s = t

PositionsAre(S, pos, n) ==
    /\ \A c \in S : pos[c] \in 0..(n - 1)
    /\ \A c, d \in S : pos[c] = pos[d] => c = d
    /\ \A k \in 0..(n - 1) : \E c \in S : pos[c] = k

PositionsContiguous ==
    \A l \in Lists : PositionsAre(ActiveIn(l), cardPos, Cardinality(ActiveIn(l)))

(* With requests one at a time the positions of the active cards of each   *)
(* list are exactly 0..n-1, each used once: what moveCard, createCard and  *)
(* archiveCard maintain together, and what boardSnapshot's sort relies on. *)
CardPositionsContiguous == OneAtATime => PositionsContiguous

(* The same for the board's lists: createList appends, archiveList closes  *)
(* up, and no step but an updateList that was given a position, which it   *)
(* writes as it is, makes contiguous lists anything else.                  *)
ListsContiguous == PositionsAre(ActiveLists, listPos, Cardinality(ActiveLists))

ListPositionsContiguous ==
    [][OneAtATime /\ ListsContiguous
          /\ ~(\E s \in Requests : UpdateList(s) /\ req[s].place # Null)
          => ListsContiguous']_vars

CardsHaveLists ==
    \A c \in Cards : cardState[c] = "active" =>
        board = "active" /\ listState[cardList[c]] = "active"

(* With requests one at a time an active card is on an active list of an   *)
(* active board: archiveList and archiveBoard take the cards along, and no *)
(* card enters an archived list.                                           *)
ActiveCardsOnActiveLists == OneAtATime => CardsHaveLists

(* With requests one at a time a list with a limit never grows beyond it,  *)
(* whatever the limit was when its cards came in: createCard and moveCard  *)
(* check the count they read.                                              *)
LimitHoldsOnEntry ==
    [][\A l \in Lists :
          /\ OneAtATime
          /\ Cardinality(ActiveIn(l)') > Cardinality(ActiveIn(l)) /\ cardLimit[l] # NoLimit
          => Cardinality(ActiveIn(l)') <= cardLimit[l]]_vars

(* Renumbering never swaps two cards that stay where they are: of two      *)
(* cards of a list, neither of them the one being moved, the first never   *)
(* ends up after the second, however stale the positions a request uses.   *)
Moving(c) == \E s \in Requests :
    req[s].op = "moveCard" /\ req[s].step = "write" /\ req[s].card = c /\ req'[s] = Idle

OrderNeverInverts ==
    [][\A c, d \in Cards :
          /\ ~Moving(c) /\ ~Moving(d)
          /\ cardState[c] = "active" /\ cardState[d] = "active"
          /\ cardList[c] = cardList[d] /\ cardPos[c] < cardPos[d]
          => cardPos'[c] <= cardPos'[d]]_vars

OrderOf(l) ==
    [i \in 1..Cardinality(ActiveIn(l)) |-> CHOOSE c \in ActiveIn(l) : cardPos[c] = i - 1]

Order == INSTANCE CardOrder WITH
    order <- [l \in Lists |-> OrderOf(l)],
    limit <- cardLimit,
    open  <- ActiveLists,
    made  <- {c \in Cards : cardState[c] # "absent"}

(* With requests one at a time a board read through its positions is a     *)
(* sequence per list, and every handler acts on those sequences as         *)
(* CardOrder says: OneAtATime => Order!Spec, where OneAtATime never        *)
(* changes.                                                                *)
ImplementsCardOrder ==
    /\ OneAtATime => Order!Init
    /\ [][OneAtATime => [Order!Next]_(Order!vars)]_vars
=============================================================================
