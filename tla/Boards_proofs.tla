---------------------------- MODULE Boards_proofs ----------------------------
(***************************************************************************)
(* Theorems about Boards for every set of cards, lists, inputs and         *)
(* requests.  The first two hold under any interleaving of requests, the   *)
(* others when requests do not overlap; the last is the refinement of      *)
(* CardOrder.                                                              *)
(***************************************************************************)
EXTENDS Boards, FiniteSetTheorems, SequenceTheorems, TLAPS

(* The fields of a request that its handler has filled in by each step.    *)
RequestOK(r) ==
    /\ r.op \in {"updateList", "archiveList", "createCard"} => r.list \in Lists
    /\ r.op \in {"moveCard", "archiveCard"} => r.card \in Cards
    /\ r.op = "createList" => r.newLimit \in Nat
    /\ r.op = "moveCard" /\ r.step \in {"list", "count", "write"}
          => r.list \in Lists /\ r.from \in Lists
    /\ r.op = "archiveCard" /\ r.step = "write" => r.from \in Lists
    /\ r.step = "card" => r.op \in {"moveCard", "archiveCard"}
    /\ r.step = "list" => r.op \in {"updateList", "archiveList", "createCard", "moveCard"}

RequestsOK == \A s \in Requests : RequestOK(req[s])

(* Only the slots of the behaviour's mix are ever in use.                  *)
SlotsOK == \A s \in Requests : req[s] # Idle => s \in mix.slots

TypeInv == TypeOK /\ RequestsOK /\ SlotsOK

-----------------------------------------------------------------------------
(* Renumbering keeps positions natural: a position is decremented only     *)
(* when it is above another natural number.                                *)
LEMMA GapsStayNatural ==
    ASSUME NEW pos \in [Cards -> Nat], NEW l, NEW p \in Nat, NEW c
    PROVE  /\ CloseGap(pos, l, p, c) \in [Cards -> Nat]
           /\ OpenGap(pos, l, p, c) \in [Cards -> Nat]
  BY DEF CloseGap, OpenGap

LEMMA InitTypeInv == Init => TypeInv
  BY BoardsAssumption
     DEF Init, TypeInv, TypeOK, RequestsOK, SlotsOK, RequestOK, Request, Idle, States, Ops, Steps, NoLimit

LEMMA StartTypeInv ==
    ASSUME TypeInv, NEW s \in Requests, Start(s)
    PROVE  TypeInv'
<1>1. /\ board' = board /\ listState' = listState /\ listPos' = listPos
      /\ cardLimit' = cardLimit /\ cardState' = cardState /\ cardList' = cardList
      /\ cardPos' = cardPos
  BY DEF Start, StartCreateList, StartUpdateList, StartArchiveList, StartCreateCard,
         StartMoveCard, StartArchiveCard, StartArchiveBoard, Begin, store, lists, cards
<1>2. /\ \E r \in Request : RequestOK(r) /\ req' = [req EXCEPT ![s] = r]
      /\ mix' = mix /\ s \in mix.slots
  <2>0. /\ Known(listState) \subseteq Lists /\ Known(cardState) \subseteq Cards
        /\ Limits \subseteq Nat /\ mix.places \subseteq Nat /\ ListPlaces \subseteq Nat
        /\ NoLimit \in Nat
    BY BoardsAssumption DEF TypeInv, TypeOK, Known, NoLimit
  <2>1. CASE StartCreateList(s)
    <3>1. PICK n \in Limits \cup {NoLimit} :
               Begin(s, [Idle EXCEPT !.op = "createList", !.step = "count", !.newLimit = n])
      BY <2>1 DEF StartCreateList
    <3> DEFINE r == [Idle EXCEPT !.op = "createList", !.step = "count", !.newLimit = n]
    <3>2. r \in Request /\ RequestOK(r)
      BY <2>0 DEF Request, RequestOK, Idle, Ops, Steps
    <3> QED BY <3>1, <3>2 DEF Begin, Go
  <2>2. CASE StartUpdateList(s)
    <3>1. PICK l \in Known(listState), n \in Limits \cup {NoLimit, Null}, k \in ListPlaces \cup {Null} :
               Begin(s, [Idle EXCEPT !.op = "updateList", !.step = "list", !.list = l, !.newLimit = n, !.place = k])
      BY <2>2 DEF StartUpdateList
    <3> DEFINE r == [Idle EXCEPT !.op = "updateList", !.step = "list", !.list = l, !.newLimit = n, !.place = k]
    <3>2. r \in Request /\ RequestOK(r)
      BY <2>0 DEF Request, RequestOK, Idle, Ops, Steps
    <3> QED BY <3>1, <3>2 DEF Begin, Go
  <2>3. CASE StartArchiveList(s)
    <3>1. PICK l \in Known(listState) :
               Begin(s, [Idle EXCEPT !.op = "archiveList", !.step = "list", !.list = l])
      BY <2>3 DEF StartArchiveList
    <3> DEFINE r == [Idle EXCEPT !.op = "archiveList", !.step = "list", !.list = l]
    <3>2. r \in Request /\ RequestOK(r)
      BY <2>0 DEF Request, RequestOK, Idle, Ops, Steps
    <3> QED BY <3>1, <3>2 DEF Begin, Go
  <2>4. CASE StartCreateCard(s)
    <3>1. PICK l \in Known(listState) :
               Begin(s, [Idle EXCEPT !.op = "createCard", !.step = "list", !.list = l])
      BY <2>4 DEF StartCreateCard
    <3> DEFINE r == [Idle EXCEPT !.op = "createCard", !.step = "list", !.list = l]
    <3>2. r \in Request /\ RequestOK(r)
      BY <2>0 DEF Request, RequestOK, Idle, Ops, Steps
    <3> QED BY <3>1, <3>2 DEF Begin, Go
  <2>5. CASE StartMoveCard(s)
    <3>1. PICK c \in Known(cardState), l \in Known(listState) \cup {Null}, k \in mix.places \cup {Null} :
               Begin(s, [Idle EXCEPT !.op = "moveCard", !.step = "card", !.card = c, !.list = l, !.place = k])
      BY <2>5 DEF StartMoveCard
    <3> DEFINE r == [Idle EXCEPT !.op = "moveCard", !.step = "card", !.card = c, !.list = l, !.place = k]
    <3>2. r \in Request /\ RequestOK(r)
      BY <2>0 DEF Request, RequestOK, Idle, Ops, Steps
    <3> QED BY <3>1, <3>2 DEF Begin, Go
  <2>6. CASE StartArchiveCard(s)
    <3>1. PICK c \in Known(cardState) :
               Begin(s, [Idle EXCEPT !.op = "archiveCard", !.step = "card", !.card = c])
      BY <2>6 DEF StartArchiveCard
    <3> DEFINE r == [Idle EXCEPT !.op = "archiveCard", !.step = "card", !.card = c]
    <3>2. r \in Request /\ RequestOK(r)
      BY <2>0 DEF Request, RequestOK, Idle, Ops, Steps
    <3> QED BY <3>1, <3>2 DEF Begin, Go
  <2>7. CASE StartArchiveBoard(s)
    <3>1. Begin(s, [Idle EXCEPT !.op = "archiveBoard", !.step = "write"])
      BY <2>7 DEF StartArchiveBoard
    <3> DEFINE r == [Idle EXCEPT !.op = "archiveBoard", !.step = "write"]
    <3>2. r \in Request /\ RequestOK(r)
      BY <2>0 DEF Request, RequestOK, Idle, Ops, Steps
    <3> QED BY <3>1, <3>2 DEF Begin, Go
  <2> QED BY <2>1, <2>2, <2>3, <2>4, <2>5, <2>6, <2>7 DEF Start
<1> QED BY <1>1, <1>2 DEF TypeInv, TypeOK, RequestsOK, SlotsOK

LEMMA IdleOK == Idle \in Request /\ RequestOK(Idle)
  BY DEF Idle, Request, RequestOK, Ops, Steps, NoLimit

LEMMA AdvanceTypeInv ==
    ASSUME TypeInv, NEW s \in Requests, NEW r \in Request, RequestOK(r), Advance(s, r),
           s \in mix.slots
    PROVE  TypeInv'
  BY DEF TypeInv, TypeOK, RequestsOK, SlotsOK, Advance, Go, store, lists, cards

(* A request that reads or writes has a slot of the mix.                   *)
LEMMA SlotUsed ==
    ASSUME TypeInv, NEW s \in Requests, Read(s) \/ Write(s)
    PROVE  s \in mix.slots
<1>1. req[s].step # "idle"
  BY DEF Read, LoadCard, LoadList, CountLists, CountCards, Write, CreateList, UpdateList,
     ArchiveList, CreateCard, MoveCard, ArchiveCard, ArchiveBoard, Writing
<1>2. req[s] # Idle
  BY <1>1 DEF Idle
<1> QED BY <1>2 DEF TypeInv, SlotsOK

LEMMA ReadTypeInv ==
    ASSUME TypeInv, NEW s \in Requests, Read(s)
    PROVE  TypeInv'
<1>0. req[s] \in Request /\ RequestOK(req[s])
  BY DEF TypeInv, TypeOK, RequestsOK
<1>a. s \in mix.slots
  BY SlotUsed
<1>1. Refuse(s) => TypeInv'
  BY <1>a, IdleOK, AdvanceTypeInv DEF Refuse
<1>2. CASE LoadCard(s)
  <2>1. CASE cardState[req[s].card] = "active" /\ ~Refuse(s)
    <3> DEFINE c == req[s].card
               r == [req[s] EXCEPT
                       !.step = IF req[s].op = "moveCard" THEN "list" ELSE "write",
                       !.list = IF req[s].list = Null THEN cardList[c] ELSE req[s].list,
                       !.from = cardList[c],
                       !.at   = cardPos[c]]
    <3>1. Advance(s, r)
      BY <1>2, <2>1 DEF LoadCard
    <3>2. /\ req[s].op \in {"moveCard", "archiveCard"} /\ c \in Cards
          /\ cardList[c] \in Lists /\ cardPos[c] \in Nat
      BY <1>0, <1>2, <2>1 DEF LoadCard, RequestOK, TypeInv, TypeOK
    <3>3. r \in Request /\ RequestOK(r)
      BY <1>0, <3>2, ZenonT(60) DEF Request, RequestOK, Steps
    <3> QED BY <1>a, <3>1, <3>3, AdvanceTypeInv
  <2> QED BY <1>1, <1>2, <2>1 DEF LoadCard
<1>3. CASE LoadList(s)
  <2>1. CASE listState[req[s].list] = "active" /\ ~Refuse(s)
    <3> DEFINE l == req[s].list
               r == [req[s] EXCEPT
                       !.step  = IF req[s].op \in {"createCard", "moveCard"}
                                   THEN "count" ELSE "write",
                       !.at    = IF req[s].op = "moveCard" THEN req[s].at ELSE listPos[l],
                       !.limit = cardLimit[l]]
    <3>1. Advance(s, r)
      BY <1>3, <2>1 DEF LoadList
    <3>2. l \in Lists /\ listPos[l] \in Nat /\ cardLimit[l] \in Nat
      BY <1>0, <1>3 DEF LoadList, RequestOK, TypeInv, TypeOK
    <3>3. r \in Request /\ RequestOK(r)
      BY <1>0, <1>3, <3>2, ZenonT(60) DEF Request, RequestOK, Steps, LoadList
    <3> QED BY <1>a, <3>1, <3>3, AdvanceTypeInv
  <2> QED BY <1>1, <1>3, <2>1 DEF LoadList
<1>4. CASE CountLists(s)
  <2>1. Cardinality(ActiveLists) \in Nat
    BY BoardsAssumption, FS_Subset, FS_CardinalityType DEF ActiveLists
  <2> DEFINE r == [req[s] EXCEPT !.step = "write", !.count = Cardinality(ActiveLists)]
  <2>2. r \in Request /\ RequestOK(r)
    BY <1>0, <1>4, <2>1 DEF Request, RequestOK, Steps, CountLists
  <2> QED BY <1>a, <1>4, <2>2, AdvanceTypeInv DEF CountLists
<1>5. CASE CountCards(s)
  <2> DEFINE n == Cardinality(ActiveIn(req[s].list) \ {req[s].card})
             r == [req[s] EXCEPT !.step = "write", !.count = n]
  <2>1. n \in Nat
    <3>1. IsFiniteSet(ActiveIn(req[s].list) \ {req[s].card})
      BY BoardsAssumption, FS_Subset DEF ActiveIn
    <3> QED BY <3>1, FS_CardinalityType
  <2>2. r \in Request /\ RequestOK(r)
    BY <1>0, <1>5, <2>1 DEF Request, RequestOK, Steps, CountCards
  <2>3. Refuse(s) \/ Advance(s, r)
    BY <1>5 DEF CountCards
  <2> QED BY <1>a, <1>1, <2>2, <2>3, AdvanceTypeInv
<1> QED BY <1>2, <1>3, <1>4, <1>5 DEF Read

LEMMA WriteTypeInv ==
    ASSUME TypeInv, NEW s \in Requests, Write(s)
    PROVE  TypeInv'
<1>0. req[s] \in Request /\ RequestOK(req[s])
  BY DEF TypeInv, TypeOK, RequestsOK
<1>1. /\ req' \in [Requests -> Request] /\ mix' \in Mixes
      /\ RequestsOK' /\ SlotsOK'
  <2>1. /\ req' = [req EXCEPT ![s] = Idle] /\ mix' = mix
        /\ req \in [Requests -> Request] /\ mix \in Mixes
    BY DEF Write, CreateList, UpdateList, ArchiveList, CreateCard, MoveCard, ArchiveCard,
       ArchiveBoard, Writing, Go, TypeInv, TypeOK
  <2>2. req' \in [Requests -> Request] /\ RequestsOK'
    BY <2>1, IdleOK DEF TypeInv, RequestsOK
  <2>3. SlotsOK'
    BY <2>1 DEF TypeInv, SlotsOK
  <2> QED BY <2>1, <2>2, <2>3
<1>2. CASE CreateList(s)
  BY <1>0, <1>1, <1>2 DEF CreateList, Writing, TypeInv, TypeOK, States, cards, Request, RequestOK
<1>3. CASE UpdateList(s)
  <2>1. /\ req[s].place \notin {Null, req[s].at} => req[s].place \in Nat
        /\ req[s].newLimit \notin {Null, req[s].limit} => req[s].newLimit \in Nat
    BY <1>0 DEF Request
  <2> QED BY <1>0, <1>1, <1>3, <2>1 DEF UpdateList, Writing, TypeInv, TypeOK, cards
<1>4. CASE ArchiveList(s)
  <2>1. /\ cardState' \in [Cards -> States]
        /\ listState' \in [Lists -> States]
        /\ \A c \in Cards : cardState'[c] = "active" => cardState[c] = "active"
    BY <1>4 DEF ArchiveList, TypeInv, TypeOK, States
  <2>2. listPos' \in [Lists -> Nat]
    BY <1>0, <1>4 DEF ArchiveList, TypeInv, TypeOK, Request
  <2> QED BY <1>1, <1>4, <2>1, <2>2 DEF ArchiveList, TypeInv, TypeOK
<1>5. CASE CreateCard(s)
  BY <1>0, <1>1, <1>5 DEF CreateCard, Writing, TypeInv, TypeOK, States, lists, Request, RequestOK
<1>6. CASE MoveCard(s)
  <2> DEFINE next == NextPosition(req[s])
             closed == CloseGap(cardPos, req[s].from, req[s].at, req[s].card)
             shifted == OpenGap(closed, req[s].list, next, req[s].card)
  <2>1. next \in Nat /\ req[s].at \in Nat
    BY <1>0 DEF NextPosition, Request
  <2>2. shifted \in [Cards -> Nat]
    <3>1. closed \in [Cards -> Nat]
      BY <2>1, GapsStayNatural DEF TypeInv, TypeOK
    <3> QED BY <2>1, <3>1, GapsStayNatural
  <2>3. cardPos' \in [Cards -> Nat]
    BY <1>6, <2>1, <2>2 DEF MoveCard
  <2>4. /\ cardList' \in [Cards -> Lists \cup {Null}]
        /\ \A c \in Cards : cardState'[c] = "active" => cardList'[c] \in Lists
    BY <1>0, <1>6 DEF MoveCard, Writing, TypeInv, TypeOK, RequestOK
  <2> QED BY <1>1, <1>6, <2>3, <2>4 DEF MoveCard, TypeInv, TypeOK, lists
<1>7. CASE ArchiveCard(s)
  <2>1. cardPos' \in [Cards -> Nat]
    BY <1>0, <1>7, GapsStayNatural DEF ArchiveCard, Request, TypeInv, TypeOK
  <2>2. /\ cardState' \in [Cards -> States]
        /\ \A c \in Cards : cardState'[c] = "active" => cardState[c] = "active"
    BY <1>7 DEF ArchiveCard, TypeInv, TypeOK, States
  <2> QED BY <1>1, <1>7, <2>1, <2>2 DEF ArchiveCard, TypeInv, TypeOK, lists
<1>8. CASE ArchiveBoard(s)
  BY <1>1, <1>8 DEF ArchiveBoard, TypeInv, TypeOK, States
<1> QED BY <1>2, <1>3, <1>4, <1>5, <1>6, <1>7, <1>8 DEF Write

LEMMA CreateBoardTypeInv ==
    ASSUME TypeInv, CreateBoard
    PROVE  TypeInv'
<1> DEFINE rank(l) == {i \in 1..Len(DefaultLists) : DefaultLists[i] = l}
<1>1. listState' \in [Lists -> States]
  BY DEF CreateBoard, States
<1>2. ASSUME NEW l \in Lists, rank(l) # {}
      PROVE  (CHOOSE i \in rank(l) : TRUE) - 1 \in Nat
  <2>1. (CHOOSE i \in rank(l) : TRUE) \in rank(l)
    BY <1>2
  <2>2. Len(DefaultLists) \in Nat
    BY BoardsAssumption
  <2> QED BY <2>1, <2>2
<1>3. listPos' \in [Lists -> Nat]
  BY <1>2 DEF CreateBoard
<1> QED BY <1>1, <1>3 DEF CreateBoard, TypeInv, TypeOK, RequestsOK, SlotsOK, cards, States

LEMMA NextTypeInv == TypeInv /\ [Next]_vars => TypeInv'
<1> SUFFICES ASSUME TypeInv, [Next]_vars PROVE TypeInv'
  OBVIOUS
<1>1. CASE UNCHANGED vars
  BY <1>1 DEF TypeInv, TypeOK, RequestsOK, SlotsOK, vars, store, lists, cards
<1> QED BY <1>1, CreateBoardTypeInv, StartTypeInv, ReadTypeInv, WriteTypeInv DEF Next

(* Under any interleaving every position and limit is a natural number and *)
(* every active card has a list: no race drives a position below zero.     *)
THEOREM TypeCorrect == Spec => []TypeOK
<1>1. TypeInv => TypeOK
  BY DEF TypeInv
<1> QED BY <1>1, InitTypeInv, NextTypeInv, PTL DEF Spec

-----------------------------------------------------------------------------
(* Both updateMany statements are monotone on the cards they may touch, so *)
(* they can make two positions equal but never swap them.                  *)
LEMMA CloseGapMonotone ==
    ASSUME NEW pos \in [Cards -> Nat], NEW l, NEW p \in Nat, NEW m,
           NEW c \in Cards, NEW d \in Cards, pos[c] < pos[d]
    PROVE  CloseGap(pos, l, p, m)[c] <= CloseGap(pos, l, p, m)[d]
  BY DEF CloseGap

LEMMA OpenGapMonotone ==
    ASSUME NEW pos \in [Cards -> Nat], NEW l, NEW p \in Nat, NEW m,
           NEW c \in Cards \ {m}, NEW d \in Cards \ {m}, pos[c] <= pos[d],
           cardState[c] = "active", cardState[d] = "active", cardList[c] = cardList[d]
    PROVE  OpenGap(pos, l, p, m)[c] <= OpenGap(pos, l, p, m)[d]
  BY DEF OpenGap, ActiveIn

(* However stale the positions two requests use, renumbering never swaps   *)
(* two cards of a list that neither of them moves.                         *)
THEOREM CardOrderKept == Spec => OrderNeverInverts
<1> DEFINE Kept == \A c, d \in Cards :
              /\ ~Moving(c) /\ ~Moving(d)
              /\ cardState[c] = "active" /\ cardState[d] = "active"
              /\ cardList[c] = cardList[d] /\ cardPos[c] < cardPos[d]
              => cardPos'[c] <= cardPos'[d]
<1>1. TypeInv /\ [Next]_vars => [Kept]_vars
  <2> SUFFICES ASSUME TypeInv, Next,
                      NEW c \in Cards, NEW d \in Cards, ~Moving(c), ~Moving(d),
                      cardState[c] = "active", cardState[d] = "active",
                      cardList[c] = cardList[d], cardPos[c] < cardPos[d]
               PROVE  cardPos'[c] <= cardPos'[d]
    OBVIOUS
  <2>1. cardPos \in [Cards -> Nat]
    BY DEF TypeInv, TypeOK
  <2>2. CASE cardPos' = cardPos
    BY <2>1, <2>2
  <2>3. ASSUME NEW s \in Requests, CreateCard(s)
        PROVE  cardPos'[c] <= cardPos'[d]
    BY <2>1, <2>3 DEF CreateCard
  <2>4. ASSUME NEW s \in Requests, MoveCard(s)
        PROVE  cardPos'[c] <= cardPos'[d]
    <3> DEFINE m == req[s].card
               next == NextPosition(req[s])
               closed == CloseGap(cardPos, req[s].from, req[s].at, m)
               shifted == OpenGap(closed, req[s].list, next, m)
    <3>1. c # m /\ d # m
      BY <2>4 DEF MoveCard, Writing, Go, Moving, TypeInv, TypeOK
    <3>2. req[s].at \in Nat /\ next \in Nat
      BY DEF TypeInv, TypeOK, Request, NextPosition
    <3>3. closed \in [Cards -> Nat] /\ closed[c] <= closed[d]
      BY <2>1, <3>2, GapsStayNatural, CloseGapMonotone
    <3>4. shifted[c] <= shifted[d]
      BY <3>1, <3>2, <3>3, OpenGapMonotone
    <3>5. cardPos'[c] = shifted[c] /\ cardPos'[d] = shifted[d]
      <4>1. shifted \in [Cards -> Nat]
        BY <3>2, <3>3, GapsStayNatural
      <4> QED BY <2>4, <3>1, <4>1 DEF MoveCard
    <3> QED BY <3>4, <3>5
  <2>5. ASSUME NEW s \in Requests, ArchiveCard(s)
        PROVE  cardPos'[c] <= cardPos'[d]
    <3>1. req[s].at \in Nat
      BY DEF TypeInv, TypeOK, Request
    <3> QED BY <2>1, <2>5, <3>1, CloseGapMonotone DEF ArchiveCard
  <2>6. ASSUME NEW s \in Requests, Start(s) \/ Read(s)
        PROVE  cardPos' = cardPos
    BY <2>6 DEF Start, StartCreateList, StartUpdateList, StartArchiveList, StartCreateCard,
       StartMoveCard, StartArchiveCard, StartArchiveBoard, Begin, Read, LoadCard, LoadList,
       CountLists, CountCards, Refuse, Advance, store, cards
  <2>7. ASSUME NEW s \in Requests,
               CreateList(s) \/ UpdateList(s) \/ ArchiveList(s) \/ ArchiveBoard(s)
        PROVE  cardPos' = cardPos
    BY <2>7 DEF CreateList, UpdateList, ArchiveList, ArchiveBoard, cards
  <2>8. CreateBoard => cardPos' = cardPos
    BY DEF CreateBoard, cards
  <2> QED BY <2>2, <2>3, <2>4, <2>5, <2>6, <2>7, <2>8 DEF Next, Write
<1> QED BY <1>1, InitTypeInv, NextTypeInv, PTL DEF Spec, OrderNeverInverts

-----------------------------------------------------------------------------
(* Positions of a list, as pure facts about a set of cards and a map.      *)

LEMMA NoCards == ASSUME NEW pos PROVE PositionsAre({}, pos, Cardinality({}))
  BY FS_EmptySet DEF PositionsAre

LEMMA SamePositions ==
    ASSUME NEW S, NEW n, NEW pos, NEW q, PositionsAre(S, pos, n), \A d \in S : q[d] = pos[d]
    PROVE  PositionsAre(S, q, n)
  BY DEF PositionsAre

Closes(q, pos, S, p) == \A d \in S : q[d] = IF pos[d] > p THEN pos[d] - 1 ELSE pos[d]

Opens(q, pos, S, p) == \A d \in S : q[d] = IF pos[d] >= p THEN pos[d] + 1 ELSE pos[d]

(* Taking a card out and closing the gap leaves 0..n-2.                    *)
LEMMA ClosedGap ==
    ASSUME NEW S, NEW n \in Nat, NEW pos, NEW c \in S, NEW q,
           PositionsAre(S, pos, n), Closes(q, pos, S \ {c}, pos[c])
    PROVE  PositionsAre(S \ {c}, q, n - 1)
<1>1. \A d \in S : pos[d] \in 0..(n - 1)
  BY DEF PositionsAre
<1>2. ASSUME NEW d \in S \ {c} PROVE q[d] \in 0..(n - 2)
  <2>1. pos[d] # pos[c]
    BY DEF PositionsAre
  <2> QED BY <1>1, <2>1 DEF Closes
<1>3. ASSUME NEW d \in S \ {c}, NEW e \in S \ {c}, q[d] = q[e] PROVE d = e
  <2>0. pos[d] \in Int /\ pos[e] \in Int /\ pos[c] \in Int
    BY <1>1
  <2>1. pos[d] # pos[c] /\ pos[e] # pos[c] /\ (pos[d] = pos[e] => d = e)
    BY DEF PositionsAre
  <2>2. CASE pos[d] > pos[c] /\ pos[e] > pos[c]
    <3>1. q[d] + 1 = pos[d] /\ q[e] + 1 = pos[e]
      BY <2>0, <2>1, <2>2 DEF Closes
    <3>2. pos[d] = pos[e]
      BY <1>3, <2>0, <3>1
    <3> QED BY <2>1, <3>2
  <2>3. CASE pos[d] < pos[c] /\ pos[e] < pos[c]
    <3>1. q[d] = pos[d] /\ q[e] = pos[e]
      BY <2>0, <2>1, <2>3 DEF Closes
    <3> QED BY <1>3, <2>0, <2>1, <3>1
  <2>4. CASE pos[d] > pos[c] /\ pos[e] < pos[c]
    <3>1. q[d] + 1 = pos[d] /\ q[e] = pos[e]
      BY <2>0, <2>1, <2>4 DEF Closes
    <3> QED BY <1>3, <2>0, <2>4, <3>1
  <2>5. CASE pos[d] < pos[c] /\ pos[e] > pos[c]
    <3>1. q[d] = pos[d] /\ q[e] + 1 = pos[e]
      BY <2>0, <2>1, <2>5 DEF Closes
    <3> QED BY <1>3, <2>0, <2>5, <3>1
  <2> QED BY <2>0, <2>1, <2>2, <2>3, <2>4, <2>5
<1>4. ASSUME NEW k \in 0..(n - 2) PROVE \E d \in S \ {c} : q[d] = k
  <2>1. CASE k < pos[c]
    <3>1. PICK d \in S : pos[d] = k
      BY DEF PositionsAre
    <3> QED BY <1>1, <2>1, <3>1 DEF Closes
  <2>2. CASE k >= pos[c]
    <3>1. PICK d \in S : pos[d] = k + 1
      BY DEF PositionsAre
    <3> QED BY <1>1, <2>2, <3>1 DEF Closes
  <2> QED BY <1>1, <2>1, <2>2
<1>5. (n - 1) - 1 = n - 2
  OBVIOUS
<1> QED BY <1>2, <1>3, <1>4, <1>5 DEF PositionsAre

(* Opening a gap at p and putting a card into it gives 0..n.               *)
LEMMA FilledGap ==
    ASSUME NEW S, NEW n \in Nat, NEW pos, NEW c, c \notin S, NEW p \in 0..n, NEW q,
           PositionsAre(S, pos, n), q[c] = p, Opens(q, pos, S, p)
    PROVE  PositionsAre(S \cup {c}, q, n + 1)
<1>1. \A d \in S : pos[d] \in 0..(n - 1)
  BY DEF PositionsAre
<1>2. ASSUME NEW d \in S PROVE q[d] \in 0..n /\ q[d] # p
  BY <1>1 DEF Opens
<1>3. ASSUME NEW d \in S, NEW e \in S, q[d] = q[e] PROVE d = e
  <2>1. pos[d] = pos[e] => d = e
    BY DEF PositionsAre
  <2>2. pos[d] \in Nat /\ pos[e] \in Nat
    BY <1>1
  <2>3. /\ q[d] = IF pos[d] >= p THEN pos[d] + 1 ELSE pos[d]
        /\ q[e] = IF pos[e] >= p THEN pos[e] + 1 ELSE pos[e]
    BY DEF Opens
  <2>4. \A x, y \in Nat :
           (IF x >= p THEN x + 1 ELSE x) = (IF y >= p THEN y + 1 ELSE y) => x = y
    OBVIOUS
  <2>5. pos[d] = pos[e]
    BY <1>3, <2>2, <2>3, <2>4
  <2> QED BY <2>1, <2>5
<1>4. ASSUME NEW k \in 0..n PROVE \E d \in S \cup {c} : q[d] = k
  <2>1. CASE k = p
    BY <2>1
  <2>2. CASE k < p
    <3>1. PICK d \in S : pos[d] = k
      BY <2>2 DEF PositionsAre
    <3> QED BY <2>2, <3>1 DEF Opens
  <2>3. CASE k > p
    <3>1. PICK d \in S : pos[d] = k - 1
      BY <2>3 DEF PositionsAre
    <3> QED BY <2>3, <3>1 DEF Opens
  <2> QED BY <2>1, <2>2, <2>3
<1>5. \A d, e \in S \cup {c} : q[d] = q[e] => d = e
  BY <1>2, <1>3
<1>6. \A d \in S \cup {c} : q[d] \in 0..n
  BY <1>2
<1>7. (n + 1) - 1 = n
  OBVIOUS
<1> QED BY <1>4, <1>5, <1>6, <1>7 DEF PositionsAre

-----------------------------------------------------------------------------
(* Requests that do not overlap.  Contiguity is not inductive alone: it    *)
(* needs that what the request in flight has read is still what is stored. *)

CardCurrent(r) ==
    \/ r.op = "moveCard" /\ r.step \in {"list", "count", "write"}
    \/ r.op = "archiveCard" /\ r.step = "write"
    => cardState[r.card] = "active" /\ r.from = cardList[r.card] /\ r.at = cardPos[r.card]

ListCurrent(r) ==
    r.op \in {"createCard", "moveCard"} /\ r.step \in {"count", "write"}
       => listState[r.list] = "active"

CountCurrent(r) ==
    r.op \in {"createCard", "moveCard"} /\ r.step = "write"
       => r.count = Cardinality(ActiveIn(r.list) \ {r.card})

Current(r) ==
    /\ r.step # "idle" => board = "active"
    /\ r.op = "createCard" => r.card = Null
    /\ CardCurrent(r) /\ ListCurrent(r) /\ CountCurrent(r)

SerialInv ==
    /\ TypeInv
    /\ PositionsContiguous
    /\ CardsHaveLists
    /\ \A s \in Requests : Current(req[s])

LEMMA ActiveInFinite ==
    ASSUME NEW l
    PROVE  IsFiniteSet(ActiveIn(l)) /\ Cardinality(ActiveIn(l)) \in Nat
<1>1. IsFiniteSet(ActiveIn(l))
  BY BoardsAssumption, FS_Subset DEF ActiveIn
<1> QED BY <1>1, FS_CardinalityType

LEMMA IdleCurrent == Current(Idle)
  BY DEF Idle, Current, CardCurrent, ListCurrent, CountCurrent

LEMMA InitSerialInv == Init => SerialInv
<1> SUFFICES ASSUME Init PROVE SerialInv
  OBVIOUS
<1>1. \A l : ActiveIn(l) = {}
  BY DEF Init, ActiveIn
<1>2. PositionsContiguous
  BY <1>1, NoCards DEF PositionsContiguous
<1>3. CardsHaveLists
  BY DEF Init, CardsHaveLists
<1>4. \A s \in Requests : Current(req[s])
  BY IdleCurrent DEF Init
<1> QED BY <1>2, <1>3, <1>4, InitTypeInv DEF SerialInv

(* A step that leaves the store alone only has to hand on current values.  *)
LEMMA StoreKept ==
    ASSUME SerialInv, OneAtATime, TypeInv', NEW s \in Requests, s \in mix.slots, NEW r,
           req' = [req EXCEPT ![s] = r], UNCHANGED store, Current(r)
    PROVE  SerialInv'
<1>1. /\ board' = board /\ listState' = listState /\ cardState' = cardState
      /\ cardList' = cardList /\ cardPos' = cardPos
  BY DEF store, lists, cards
<1>2. \A l : ActiveIn(l)' = ActiveIn(l)
  BY <1>1 DEF ActiveIn
<1>3. PositionsContiguous'
  BY <1>1, <1>2 DEF SerialInv, PositionsContiguous
<1>4. CardsHaveLists'
  BY <1>1 DEF SerialInv, CardsHaveLists
<1>5. ASSUME NEW t \in Requests PROVE Current(req[t])'
  <2>1. req'[t] = r \/ req'[t] = Idle
    BY DEF OneAtATime, TypeInv, TypeOK, SlotsOK, SerialInv
  <2>2. Current(req'[t])
    BY <2>1, IdleCurrent
  <2> QED BY <1>1, <1>2, <2>1, <2>2 DEF Current, CardCurrent, ListCurrent, CountCurrent
<1> QED BY <1>3, <1>4, <1>5 DEF SerialInv

(* A request that begins has read the board and nothing else.              *)
Fresh(r) ==
    /\ r.op = "createCard" => r.card = Null /\ r.step = "list"
    /\ r.op \in {"moveCard", "archiveCard"} => r.step = "card"

LEMMA BeginSerialInv ==
    ASSUME SerialInv, OneAtATime, TypeInv', NEW s \in Requests, NEW r, Begin(s, r), Fresh(r)
    PROVE  SerialInv'
<1>1. Current(r)
  BY DEF Begin, Fresh, Current, CardCurrent, ListCurrent, CountCurrent
<1> QED BY <1>1, StoreKept DEF Begin, Go

LEMMA StartSerialInv ==
    ASSUME SerialInv, OneAtATime, NEW s \in Requests, Start(s)
    PROVE  SerialInv'
<1>0. TypeInv'
  BY StartTypeInv DEF SerialInv
<1>1. CASE StartCreateList(s)
  <2>1. PICK n \in Limits \cup {NoLimit} :
             Begin(s, [Idle EXCEPT !.op = "createList", !.step = "count", !.newLimit = n])
    BY <1>1 DEF StartCreateList
  <2>2. Fresh([Idle EXCEPT !.op = "createList", !.step = "count", !.newLimit = n])
    BY DEF Fresh, Idle
  <2> QED BY <1>0, <2>1, <2>2, BeginSerialInv
<1>2. CASE StartUpdateList(s)
  <2>1. PICK l \in Known(listState), n \in Limits \cup {NoLimit, Null}, k \in ListPlaces \cup {Null} :
             Begin(s, [Idle EXCEPT !.op = "updateList", !.step = "list", !.list = l, !.newLimit = n, !.place = k])
    BY <1>2 DEF StartUpdateList
  <2>2. Fresh([Idle EXCEPT !.op = "updateList", !.step = "list", !.list = l, !.newLimit = n, !.place = k])
    BY DEF Fresh, Idle
  <2> QED BY <1>0, <2>1, <2>2, BeginSerialInv
<1>3. CASE StartArchiveList(s)
  <2>1. PICK l \in Known(listState) :
             Begin(s, [Idle EXCEPT !.op = "archiveList", !.step = "list", !.list = l])
    BY <1>3 DEF StartArchiveList
  <2>2. Fresh([Idle EXCEPT !.op = "archiveList", !.step = "list", !.list = l])
    BY DEF Fresh, Idle
  <2> QED BY <1>0, <2>1, <2>2, BeginSerialInv
<1>4. CASE StartCreateCard(s)
  <2>1. PICK l \in Known(listState) :
             Begin(s, [Idle EXCEPT !.op = "createCard", !.step = "list", !.list = l])
    BY <1>4 DEF StartCreateCard
  <2>2. Fresh([Idle EXCEPT !.op = "createCard", !.step = "list", !.list = l])
    BY DEF Fresh, Idle
  <2> QED BY <1>0, <2>1, <2>2, BeginSerialInv
<1>5. CASE StartMoveCard(s)
  <2>1. PICK c \in Known(cardState), l \in Known(listState) \cup {Null}, k \in mix.places \cup {Null} :
             Begin(s, [Idle EXCEPT !.op = "moveCard", !.step = "card", !.card = c, !.list = l, !.place = k])
    BY <1>5 DEF StartMoveCard
  <2>2. Fresh([Idle EXCEPT !.op = "moveCard", !.step = "card", !.card = c, !.list = l, !.place = k])
    BY DEF Fresh, Idle
  <2> QED BY <1>0, <2>1, <2>2, BeginSerialInv
<1>6. CASE StartArchiveCard(s)
  <2>1. PICK c \in Known(cardState) :
             Begin(s, [Idle EXCEPT !.op = "archiveCard", !.step = "card", !.card = c])
    BY <1>6 DEF StartArchiveCard
  <2>2. Fresh([Idle EXCEPT !.op = "archiveCard", !.step = "card", !.card = c])
    BY DEF Fresh, Idle
  <2> QED BY <1>0, <2>1, <2>2, BeginSerialInv
<1>7. CASE StartArchiveBoard(s)
  <2>1. Begin(s, [Idle EXCEPT !.op = "archiveBoard", !.step = "write"])
    BY <1>7 DEF StartArchiveBoard
  <2>2. Fresh([Idle EXCEPT !.op = "archiveBoard", !.step = "write"])
    BY DEF Fresh, Idle
  <2> QED BY <1>0, <2>1, <2>2, BeginSerialInv
<1> QED BY <1>1, <1>2, <1>3, <1>4, <1>5, <1>6, <1>7 DEF Start

LEMMA ReadSerialInv ==
    ASSUME SerialInv, OneAtATime, NEW s \in Requests, Read(s)
    PROVE  SerialInv'
<1> DEFINE r == req[s]
<1>0. r \in Request /\ RequestOK(r) /\ Current(r) /\ TypeInv'
  BY ReadTypeInv DEF SerialInv, TypeInv, TypeOK, RequestsOK
<1>1. ASSUME NEW q, Advance(s, q), Current(q) PROVE SerialInv'
  BY <1>0, <1>1, SlotUsed, StoreKept DEF Advance, Go, SerialInv
<1>2. Refuse(s) => SerialInv'
  BY <1>1, IdleCurrent DEF Refuse
<1>3. CASE LoadCard(s) /\ ~Refuse(s)
  <2> DEFINE c == r.card
             q == [r EXCEPT
                     !.step = IF r.op = "moveCard" THEN "list" ELSE "write",
                     !.list = IF r.list = Null THEN cardList[c] ELSE r.list,
                     !.from = cardList[c],
                     !.at   = cardPos[c]]
  <2>1. r.step = "card" /\ cardState[c] = "active" /\ Advance(s, q)
    BY <1>3 DEF LoadCard
  <2>2. /\ q.card = c /\ q.from = cardList[c] /\ q.at = cardPos[c] /\ q.op = r.op
        /\ q.op = "moveCard" => q.step = "list"
        /\ r.op \in {"moveCard", "archiveCard"}
    BY <1>0, <2>1 DEF Request, RequestOK
  <2>3. Current(q)
    BY <1>0, <2>1, <2>2 DEF Current, CardCurrent, ListCurrent, CountCurrent
  <2> QED BY <1>1, <2>1, <2>3
<1>4. CASE LoadList(s) /\ ~Refuse(s)
  <2> DEFINE l == r.list
             q == [r EXCEPT
                     !.step  = IF r.op \in {"createCard", "moveCard"} THEN "count" ELSE "write",
                     !.at    = IF r.op = "moveCard" THEN r.at ELSE listPos[l],
                     !.limit = cardLimit[l]]
  <2>1. r.step = "list" /\ listState[l] = "active" /\ Advance(s, q)
    BY <1>4 DEF LoadList
  <2>2. /\ q.card = r.card /\ q.from = r.from /\ q.op = r.op /\ q.list = l
        /\ q.op = "moveCard" => q.at = r.at
        /\ q.op \in {"createCard", "moveCard"} => q.step = "count"
        /\ r.op # "archiveCard"
    BY <1>0, <2>1 DEF Request, RequestOK
  <2>3. Current(q)
    BY <1>0, <2>1, <2>2 DEF Current, CardCurrent, ListCurrent, CountCurrent
  <2> QED BY <1>1, <2>1, <2>3
<1>5. CASE CountLists(s)
  <2> DEFINE q == [r EXCEPT !.step = "write", !.count = Cardinality(ActiveLists)]
  <2>1. r.step = "count" /\ r.op = "createList" /\ Advance(s, q) /\ q.op = "createList"
    BY <1>0, <1>5 DEF CountLists, Request
  <2>2. Current(q)
    BY <1>0, <2>1 DEF Current, CardCurrent, ListCurrent, CountCurrent
  <2> QED BY <1>1, <2>1, <2>2
<1>6. CASE CountCards(s) /\ ~Refuse(s)
  <2> DEFINE n == Cardinality(ActiveIn(r.list) \ {r.card})
             q == [r EXCEPT !.step = "write", !.count = n]
  <2>1. r.step = "count" /\ r.op \in {"createCard", "moveCard"} /\ Advance(s, q)
    BY <1>6 DEF CountCards
  <2>2. /\ q.card = r.card /\ q.from = r.from /\ q.op = r.op /\ q.list = r.list
        /\ q.at = r.at /\ q.count = n
    BY <1>0 DEF Request
  <2>3. Current(q)
    BY <1>0, <2>1, <2>2 DEF Current, CardCurrent, ListCurrent, CountCurrent
  <2> QED BY <1>1, <2>1, <2>3
<1> QED BY <1>2, <1>3, <1>4, <1>5, <1>6 DEF Read

(* The writes.  Afterwards the request is over, so only the cards matter.  *)
LEMMA WriteIdles ==
    ASSUME SerialInv, OneAtATime, NEW s \in Requests, s \in mix.slots, NEW op, Writing(s, op)
    PROVE  \A t \in Requests : Current(req[t])'
<1>1. \A t \in Requests : req'[t] = Idle
  BY DEF Writing, Go, OneAtATime, SerialInv, TypeInv, TypeOK, SlotsOK
<1> QED BY <1>1 DEF Idle, Current, CardCurrent, ListCurrent, CountCurrent

LEMMA CreateCardContiguous ==
    ASSUME SerialInv, NEW s \in Requests, CreateCard(s)
    PROVE  PositionsContiguous' /\ CardsHaveLists'
<1> DEFINE r == req[s]
<1>0. /\ r \in Request /\ RequestOK(r) /\ Current(r)
      /\ r.step = "write" /\ r.op = "createCard" /\ r.card = Null /\ r.list \in Lists
      /\ Null \notin Cards
      /\ cardState \in [Cards -> States] /\ cardList \in [Cards -> Lists \cup {Null}]
      /\ cardPos \in [Cards -> Nat]
  BY BoardsAssumption DEF SerialInv, TypeInv, TypeOK, RequestsOK, RequestOK, CreateCard,
     Writing, Current
<1>1. PICK c \in Cards :
         /\ cardState[c] = "absent"
         /\ cardState' = [cardState EXCEPT ![c] = "active"]
         /\ cardList' = [cardList EXCEPT ![c] = r.list]
         /\ cardPos' = [cardPos EXCEPT ![c] = r.count]
  BY DEF CreateCard
<1>2. r.count = Cardinality(ActiveIn(r.list))
  <2>1. ActiveIn(r.list) \ {r.card} = ActiveIn(r.list)
    BY <1>0 DEF ActiveIn
  <2> QED BY <1>0, <2>1 DEF Current, CountCurrent
<1>3. \A l \in Lists : l = r.list =>
         c \notin ActiveIn(l) /\ ActiveIn(l)' = ActiveIn(l) \cup {c}
  BY <1>0, <1>1 DEF ActiveIn
<1>4. ASSUME NEW l \in Lists
      PROVE  PositionsAre(ActiveIn(l), cardPos, Cardinality(ActiveIn(l)))'
  <2>1. PositionsAre(ActiveIn(l), cardPos, Cardinality(ActiveIn(l)))
    BY DEF SerialInv, PositionsContiguous
  <2>2. CASE l = r.list
    <3> DEFINE n == Cardinality(ActiveIn(l))
    <3>1. n \in Nat /\ Cardinality(ActiveIn(l) \cup {c}) = n + 1
      BY <1>3, <2>2, ActiveInFinite, FS_AddElement
    <3>2. \A d \in ActiveIn(l) : cardPos[d] \in 0..(n - 1)
      BY <2>1 DEF PositionsAre
    <3>3. cardPos'[c] = n /\ Opens(cardPos', cardPos, ActiveIn(l), n)
      BY <1>0, <1>1, <1>2, <1>3, <2>2, <3>1, <3>2 DEF Opens
    <3>4. PositionsAre(ActiveIn(l) \cup {c}, cardPos', n + 1)
      BY <1>3, <2>1, <2>2, <3>1, <3>3, FilledGap
    <3> QED BY <1>3, <2>2, <3>1, <3>4
  <2>3. CASE l # r.list
    <3>1. ActiveIn(l)' = ActiveIn(l) /\ \A d \in ActiveIn(l) : cardPos'[d] = cardPos[d]
      BY <1>0, <1>1, <2>3 DEF ActiveIn
    <3> QED BY <2>1, <3>1, SamePositions
  <2> QED BY <2>2, <2>3
<1>5. CardsHaveLists'
  <2>1. board' = board /\ listState' = listState /\ board = "active"
        /\ listState[r.list] = "active"
    BY <1>0 DEF CreateCard, lists, Current, ListCurrent
  <2> QED BY <1>0, <1>1, <2>1 DEF SerialInv, CardsHaveLists
<1> QED BY <1>4, <1>5 DEF PositionsContiguous

LEMMA ArchiveCardContiguous ==
    ASSUME SerialInv, NEW s \in Requests, ArchiveCard(s)
    PROVE  PositionsContiguous' /\ CardsHaveLists'
<1> DEFINE r == req[s]
           c == r.card
<1>0. /\ r.step = "write" /\ r.op = "archiveCard" /\ c \in Cards /\ r.from \in Lists
      /\ cardState[c] = "active" /\ r.from = cardList[c] /\ r.at = cardPos[c]
      /\ cardState \in [Cards -> States] /\ cardPos \in [Cards -> Nat]
      /\ cardState' = [cardState EXCEPT ![c] = "archived"] /\ cardList' = cardList
      /\ cardPos' = CloseGap(cardPos, r.from, r.at, c)
      /\ board' = board /\ listState' = listState
  BY DEF SerialInv, TypeInv, TypeOK, RequestsOK, RequestOK, ArchiveCard, Writing, Current,
     CardCurrent, lists
<1>1. \A l \in Lists : l = r.from =>
         c \in ActiveIn(l) /\ ActiveIn(l)' = ActiveIn(l) \ {c}
  BY <1>0 DEF ActiveIn
<1>2. ASSUME NEW l \in Lists
      PROVE  PositionsAre(ActiveIn(l), cardPos, Cardinality(ActiveIn(l)))'
  <2>1. PositionsAre(ActiveIn(l), cardPos, Cardinality(ActiveIn(l)))
    BY DEF SerialInv, PositionsContiguous
  <2>2. CASE l = r.from
    <3> DEFINE n == Cardinality(ActiveIn(l))
    <3>1. n \in Nat /\ Cardinality(ActiveIn(l) \ {c}) = n - 1
      BY <1>1, <2>2, ActiveInFinite, FS_RemoveElement
    <3>2. Closes(cardPos', cardPos, ActiveIn(l) \ {c}, cardPos[c])
      BY <1>0, <2>2 DEF Closes, CloseGap, ActiveIn
    <3>3. PositionsAre(ActiveIn(l) \ {c}, cardPos', n - 1)
      BY <1>1, <2>1, <2>2, <3>1, <3>2, ClosedGap
    <3> QED BY <1>1, <2>2, <3>1, <3>3
  <2>3. CASE l # r.from
    <3>1. ActiveIn(l)' = ActiveIn(l) /\ \A d \in ActiveIn(l) : cardPos'[d] = cardPos[d]
      BY <1>0, <2>3 DEF ActiveIn, CloseGap
    <3> QED BY <2>1, <3>1, SamePositions
  <2> QED BY <2>2, <2>3
<1>3. CardsHaveLists'
  BY <1>0 DEF SerialInv, CardsHaveLists
<1> QED BY <1>2, <1>3 DEF PositionsContiguous

(* The two updateMany statements of moveCard, one after the other: the gap *)
(* behind the card is closed, then one is opened where it goes.            *)
LEMMA MoveCardParts ==
    ASSUME SerialInv, NEW s \in Requests, MoveCard(s)
    PROVE  LET r == req[s]
               c == r.card
               closed == CloseGap(cardPos, r.from, r.at, c)
               Rest(l) == ActiveIn(l) \ {c}
           IN  /\ r.count = Cardinality(Rest(r.list)) /\ r.count \in Nat
               /\ NextPosition(r) \in 0..r.count
               /\ \A l \in Lists :
                     /\ PositionsAre(Rest(l), closed, Cardinality(Rest(l)))
                     /\ c \in ActiveIn(l) => Closes(closed, cardPos, Rest(l), cardPos[c])
                     /\ c \notin ActiveIn(l) => \A d \in ActiveIn(l) : closed[d] = cardPos[d]
                     /\ l # r.list => \A d \in Rest(l) : cardPos'[d] = closed[d]
               /\ cardPos'[c] = NextPosition(r)
               /\ Opens(cardPos', closed, Rest(r.list), NextPosition(r))
<1> DEFINE r == req[s]
           c == r.card
           next == NextPosition(r)
           closed == CloseGap(cardPos, r.from, r.at, c)
           shifted == OpenGap(closed, r.list, next, c)
           Rest(l) == ActiveIn(l) \ {c}
<1>0. /\ r.step = "write" /\ r.op = "moveCard"
      /\ c \in Cards /\ r.from \in Lists /\ r.list \in Lists
      /\ cardState[c] = "active" /\ r.from = cardList[c] /\ r.at = cardPos[c]
      /\ r.count = Cardinality(Rest(r.list))
  BY DEF SerialInv, TypeInv, TypeOK, RequestsOK, RequestOK, MoveCard, Writing, Current,
     CardCurrent, CountCurrent
<1>1. /\ cardState \in [Cards -> States] /\ cardPos \in [Cards -> Nat]
      /\ cardList \in [Cards -> Lists \cup {Null}]
      /\ r.at \in Nat /\ r.count \in Nat /\ next \in 0..r.count
  BY DEF SerialInv, TypeInv, TypeOK, Request, NextPosition
<1>2. closed \in [Cards -> Nat] /\ shifted \in [Cards -> Nat]
  <2>1. closed \in [Cards -> Nat]
    BY <1>1, GapsStayNatural
  <2> QED BY <1>1, <2>1, GapsStayNatural
<1>3. cardPos' = [shifted EXCEPT ![c] = next]
  <2>1. shifted[c] = r.at
    BY <1>0, <1>1 DEF CloseGap, OpenGap
  <2> QED BY <1>2, <2>1 DEF MoveCard
<1>4. ASSUME NEW l \in Lists
      PROVE  /\ PositionsAre(Rest(l), closed, Cardinality(Rest(l)))
             /\ c \in ActiveIn(l) => Closes(closed, cardPos, Rest(l), cardPos[c])
             /\ c \notin ActiveIn(l) => \A d \in ActiveIn(l) : closed[d] = cardPos[d]
  <2>1. PositionsAre(ActiveIn(l), cardPos, Cardinality(ActiveIn(l)))
    BY DEF SerialInv, PositionsContiguous
  <2>2. CASE l = r.from
    <3> DEFINE n == Cardinality(ActiveIn(l))
    <3>0. c \in ActiveIn(l)
      BY <1>0, <2>2 DEF ActiveIn
    <3>1. n \in Nat /\ Cardinality(Rest(l)) = n - 1
      BY <3>0, ActiveInFinite, FS_RemoveElement
    <3>2. Closes(closed, cardPos, Rest(l), cardPos[c])
      BY <1>0, <2>2 DEF Closes, CloseGap, ActiveIn
    <3> QED BY <2>1, <3>0, <3>1, <3>2, ClosedGap
  <2>3. CASE l # r.from
    <3>1. /\ Rest(l) = ActiveIn(l) /\ c \notin ActiveIn(l)
          /\ \A d \in ActiveIn(l) : closed[d] = cardPos[d]
      BY <1>0, <1>1, <2>3 DEF ActiveIn, CloseGap
    <3> QED BY <2>1, <3>1, SamePositions
  <2> QED BY <2>2, <2>3
<1>5. ASSUME NEW l \in Lists, l # r.list PROVE \A d \in Rest(l) : cardPos'[d] = closed[d]
  BY <1>0, <1>2, <1>3, <1>5 DEF OpenGap, ActiveIn
<1>6. cardPos'[c] = next /\ Opens(cardPos', closed, Rest(r.list), next)
  BY <1>0, <1>2, <1>3 DEF Opens, OpenGap, ActiveIn
<1> QED BY <1>0, <1>1, <1>4, <1>5, <1>6

LEMMA MoveCardContiguous ==
    ASSUME SerialInv, NEW s \in Requests, MoveCard(s)
    PROVE  PositionsContiguous' /\ CardsHaveLists'
<1> DEFINE r == req[s]
           c == r.card
           next == NextPosition(r)
           closed == CloseGap(cardPos, r.from, r.at, c)
           Rest(l) == ActiveIn(l) \ {c}
<1>0. /\ c \in Cards /\ r.list \in Lists
      /\ cardState[c] = "active" /\ board = "active"
      /\ listState[r.list] = "active"
      /\ cardState \in [Cards -> States] /\ cardList \in [Cards -> Lists \cup {Null}]
  BY DEF SerialInv, TypeInv, TypeOK, RequestsOK, RequestOK, MoveCard, Writing, Current,
     CardCurrent, ListCurrent
<1>1. /\ cardState' = cardState /\ board' = board /\ listState' = listState
      /\ cardList' = [cardList EXCEPT ![c] = r.list]
  <2>1. r.from = cardList[c]
    BY DEF SerialInv, MoveCard, Writing, Current, CardCurrent
  <2> QED BY <1>0, <2>1 DEF MoveCard, lists
<1>2. ASSUME NEW l \in Lists
      PROVE  PositionsAre(ActiveIn(l), cardPos, Cardinality(ActiveIn(l)))'
  <2>0. PositionsAre(Rest(l), closed, Cardinality(Rest(l)))
    BY MoveCardParts
  <2>1. CASE l = r.list
    <3>1. ActiveIn(l)' = Rest(l) \cup {c} /\ c \notin Rest(l)
      BY <1>0, <1>1, <2>1 DEF ActiveIn
    <3>2. /\ IsFiniteSet(Rest(l)) /\ Cardinality(Rest(l)) = r.count
          /\ r.count \in Nat /\ next \in 0..r.count
      BY <2>1, ActiveInFinite, FS_Subset, MoveCardParts
    <3>3. Cardinality(Rest(l) \cup {c}) = r.count + 1
      BY <3>1, <3>2, FS_AddElement
    <3>4. cardPos'[c] = next /\ Opens(cardPos', closed, Rest(l), next)
      BY <2>1, MoveCardParts
    <3>5. PositionsAre(Rest(l) \cup {c}, cardPos', r.count + 1)
      BY <2>0, <3>1, <3>2, <3>4, FilledGap
    <3> QED BY <3>1, <3>3, <3>5
  <2>2. CASE l # r.list
    <3>1. ActiveIn(l)' = Rest(l)
      BY <1>0, <1>1, <2>2 DEF ActiveIn
    <3>2. \A d \in Rest(l) : cardPos'[d] = closed[d]
      BY <2>2, MoveCardParts
    <3> QED BY <2>0, <3>1, <3>2, SamePositions
  <2> QED BY <2>1, <2>2
<1>3. CardsHaveLists'
  BY <1>0, <1>1 DEF SerialInv, CardsHaveLists
<1> QED BY <1>2, <1>3 DEF PositionsContiguous

(* createList, updateList, archiveList and archiveBoard do not renumber    *)
(* cards: each list keeps its cards or loses them all.                     *)
LEMMA WholeListsContiguous ==
    ASSUME SerialInv, cardList' = cardList, cardPos' = cardPos,
           \A l \in Lists : ActiveIn(l)' \in {ActiveIn(l), {}}
    PROVE  PositionsContiguous'
<1>1. ASSUME NEW l \in Lists
      PROVE  PositionsAre(ActiveIn(l), cardPos, Cardinality(ActiveIn(l)))'
  <2>1. CASE ActiveIn(l)' = ActiveIn(l)
    BY <2>1 DEF SerialInv, PositionsContiguous
  <2>2. CASE ActiveIn(l)' = {}
    BY <2>2, NoCards
  <2> QED BY <2>1, <2>2
<1> QED BY <1>1 DEF PositionsContiguous

LEMMA WriteSerialInv ==
    ASSUME SerialInv, OneAtATime, NEW s \in Requests, Write(s)
    PROVE  SerialInv'
<1>1. TypeInv' /\ \A t \in Requests : Current(req[t])'
  <2>1. \E op : Writing(s, op)
    BY DEF Write, CreateList, UpdateList, ArchiveList, CreateCard, MoveCard, ArchiveCard,
       ArchiveBoard
  <2> QED BY <2>1, SlotUsed, WriteTypeInv, WriteIdles DEF SerialInv
<1>2. /\ cardState \in [Cards -> States] /\ listState \in [Lists -> States]
      /\ cardList \in [Cards -> Lists \cup {Null}]
      /\ \A c \in Cards : cardState[c] = "active" => cardList[c] \in Lists
  BY DEF SerialInv, TypeInv, TypeOK
<1>3. CASE CreateList(s) \/ UpdateList(s)
  <2>1. /\ cardState' = cardState /\ cardList' = cardList /\ cardPos' = cardPos
        /\ board' = board
        /\ \A l \in Lists : listState[l] = "active" => listState'[l] = "active"
    BY <1>2, <1>3 DEF CreateList, UpdateList, cards
  <2>2. \A l \in Lists : ActiveIn(l)' = ActiveIn(l)
    BY <2>1 DEF ActiveIn
  <2>3. PositionsContiguous'
    BY <2>1, <2>2, WholeListsContiguous
  <2>4. CardsHaveLists'
    BY <1>2, <2>1 DEF SerialInv, CardsHaveLists
  <2> QED BY <1>1, <2>3, <2>4 DEF SerialInv
<1>4. CASE ArchiveList(s)
  <2> DEFINE k == req[s].list
  <2>1. /\ cardList' = cardList /\ cardPos' = cardPos /\ board' = board
        /\ cardState' = [c \in Cards |-> IF c \in ActiveIn(k) THEN "archived" ELSE cardState[c]]
        /\ listState' = [listState EXCEPT ![k] = "archived"]
    BY <1>4 DEF ArchiveList
  <2>2. \A l \in Lists : ActiveIn(l)' = IF l = k THEN {} ELSE ActiveIn(l)
    BY <1>2, <2>1 DEF ActiveIn
  <2>3. PositionsContiguous'
    BY <2>1, <2>2, WholeListsContiguous
  <2>4. CardsHaveLists'
    BY <1>2, <2>1 DEF SerialInv, CardsHaveLists, ActiveIn
  <2> QED BY <1>1, <2>3, <2>4 DEF SerialInv
<1>5. CASE ArchiveBoard(s)
  <2>1. /\ cardList' = cardList /\ cardPos' = cardPos
        /\ \A c \in Cards : cardState'[c] # "active"
    BY <1>5 DEF ArchiveBoard
  <2>2. \A l \in Lists : ActiveIn(l)' = {}
    BY <2>1 DEF ActiveIn
  <2>3. PositionsContiguous'
    BY <2>1, <2>2, WholeListsContiguous
  <2> QED BY <1>1, <2>1, <2>3 DEF SerialInv, CardsHaveLists
<1> QED BY <1>1, <1>3, <1>4, <1>5, CreateCardContiguous, MoveCardContiguous,
           ArchiveCardContiguous DEF Write, SerialInv

LEMMA CreateBoardSerialInv ==
    ASSUME SerialInv, CreateBoard
    PROVE  SerialInv'
<1>1. /\ board = "absent" /\ board' = "active" /\ req' = req
      /\ cardState' = cardState /\ cardList' = cardList /\ cardPos' = cardPos
  BY DEF CreateBoard, cards
<1>2. \A c \in Cards : cardState[c] # "active"
  BY <1>1 DEF SerialInv, CardsHaveLists
<1>3. \A l \in Lists : ActiveIn(l)' = {}
  BY <1>1, <1>2 DEF ActiveIn
<1>4. PositionsContiguous'
  BY <1>1, <1>3, WholeListsContiguous
<1>5. CardsHaveLists'
  BY <1>1, <1>2 DEF CardsHaveLists
<1>6. ASSUME NEW s \in Requests PROVE Current(req[s])'
  <2>1. req[s] \in Request /\ RequestOK(req[s]) /\ req[s].step = "idle"
        /\ Current(req[s])
    BY <1>1 DEF SerialInv, TypeInv, TypeOK, RequestsOK, Current
  <2> QED BY <1>1, <2>1 DEF Current, CardCurrent, ListCurrent, CountCurrent
<1> QED BY <1>4, <1>5, <1>6, CreateBoardTypeInv DEF SerialInv

LEMMA NextSerialInv == OneAtATime /\ SerialInv /\ [Next]_vars => SerialInv'
<1> SUFFICES ASSUME OneAtATime, SerialInv, [Next]_vars PROVE SerialInv'
  OBVIOUS
<1>1. CASE UNCHANGED vars
  <2>1. /\ board' = board /\ listState' = listState /\ cardState' = cardState
        /\ cardList' = cardList /\ cardPos' = cardPos /\ req' = req
    BY <1>1 DEF vars, store, lists, cards
  <2>2. \A l : ActiveIn(l)' = ActiveIn(l)
    BY <2>1 DEF ActiveIn
  <2>3. TypeInv'
    BY <1>1, NextTypeInv DEF SerialInv
  <2> QED BY <2>1, <2>2, <2>3 DEF SerialInv, PositionsContiguous,
       CardsHaveLists, Current, CardCurrent, ListCurrent, CountCurrent
<1> QED BY <1>1, CreateBoardSerialInv, StartSerialInv, ReadSerialInv, WriteSerialInv DEF Next

LEMMA MixKept == [Next]_vars => mix' = mix
<1>1. ASSUME NEW s \in Requests, Start(s) PROVE mix' = mix
  BY <1>1 DEF Start, StartCreateList, StartUpdateList, StartArchiveList, StartCreateCard,
              StartMoveCard, StartArchiveCard, StartArchiveBoard, Begin, Go
<1>2. ASSUME NEW s \in Requests, Read(s) PROVE mix' = mix
  BY <1>2 DEF Read, LoadCard, LoadList, CountLists, CountCards, Refuse, Advance, Go
<1>3. ASSUME NEW s \in Requests, Write(s) PROVE mix' = mix
  BY <1>3 DEF Write, CreateList, UpdateList, ArchiveList, CreateCard, MoveCard, ArchiveCard,
              ArchiveBoard, Writing, Go
<1> QED BY <1>1, <1>2, <1>3 DEF Next, vars, CreateBoard

(* What an invariant of requests one at a time comes to for any mix.       *)
LEMMA SerialAlways == Spec => [](OneAtATime => SerialInv)
<1> DEFINE Inv == OneAtATime => SerialInv
<1>1. Init => Inv
  BY InitSerialInv
<1>2. Inv /\ [Next]_vars => Inv'
  BY MixKept, NextSerialInv DEF OneAtATime
<1> QED BY <1>1, <1>2, PTL DEF Spec

(* Without overlapping requests the active cards of every list stay at     *)
(* exactly 0..n-1, through creation, moves in and between lists, archiving *)
(* of cards, lists and the board, for any number of cards and lists.       *)
THEOREM SerialContiguity == Spec => []CardPositionsContiguous
<1>1. (OneAtATime => SerialInv) => CardPositionsContiguous
  BY DEF SerialInv, CardPositionsContiguous
<1> QED BY <1>1, SerialAlways, PTL

(* Without overlapping requests an active card is always on an active list *)
(* of an active board.                                                     *)
THEOREM SerialArchiving == Spec => []ActiveCardsOnActiveLists
<1>1. (OneAtATime => SerialInv) => ActiveCardsOnActiveLists
  BY DEF SerialInv, ActiveCardsOnActiveLists
<1> QED BY <1>1, SerialAlways, PTL

-----------------------------------------------------------------------------
(* What else a request that runs alone may rely on when it writes: the     *)
(* limit it was checked against, the list it loaded and the number of      *)
(* lists are those of the store.                                           *)

LimitChecked(r) ==
    r.op \in {"createCard", "moveCard"} =>
        /\ r.step \in {"count", "write"} => r.limit = cardLimit[r.list]
        /\ r.step = "write" => r.list = r.from \/ r.limit = NoLimit \/ r.count < r.limit

ListLoaded(r) ==
    /\ r.op \in {"updateList", "archiveList"} /\ r.step = "write" => listState[r.list] = "active"
    /\ r.op = "archiveList" /\ r.step = "write" => r.at = listPos[r.list]
    /\ r.op = "createList" /\ r.step = "write" => r.count = Cardinality(ActiveLists)

InputsOK(r) ==
    /\ r.op = "createCard" => r.from = Null
    /\ r.op = "createList" => r.newLimit \in Limits \cup {NoLimit}
    /\ r.op = "updateList" => r.newLimit \in Limits \cup {NoLimit, Null}

Checked(r) == LimitChecked(r) /\ ListLoaded(r) /\ InputsOK(r)

CheckedInv == SerialInv /\ \A s \in Requests : Checked(req[s])

LEMMA IdleChecked == Checked(Idle)
  BY DEF Idle, Checked, LimitChecked, ListLoaded, InputsOK

LEMMA InitCheckedInv == Init => CheckedInv
  BY InitSerialInv, IdleChecked DEF Init, CheckedInv

LEMMA StoreKeptChecked ==
    ASSUME CheckedInv, OneAtATime, SerialInv', NEW s \in Requests, s \in mix.slots, NEW r,
           req' = [req EXCEPT ![s] = r], UNCHANGED store, Checked(r)
    PROVE  CheckedInv'
<1>1. listState' = listState /\ listPos' = listPos /\ cardLimit' = cardLimit
  BY DEF store, lists
<1>2. ActiveLists' = ActiveLists
  BY <1>1 DEF ActiveLists
<1>3. ASSUME NEW t \in Requests PROVE Checked(req[t])'
  <2>1. req'[t] = r \/ req'[t] = Idle
    BY DEF OneAtATime, TypeInv, TypeOK, SlotsOK, SerialInv, CheckedInv
  <2>2. Checked(req'[t])
    BY <2>1, IdleChecked
  <2> QED BY <1>1, <1>2, <2>2 DEF Checked, LimitChecked, ListLoaded, InputsOK
<1> QED BY <1>3 DEF CheckedInv

(* A request that begins has been checked for nothing yet.                 *)
LEMMA BeginChecked ==
    ASSUME CheckedInv, OneAtATime, SerialInv', NEW s \in Requests, NEW r, Begin(s, r),
           r.step = "write" => r.op = "archiveBoard",
           r.step = "count" => r.op = "createList", InputsOK(r)
    PROVE  CheckedInv'
<1>1. Checked(r)
  BY DEF Checked, LimitChecked, ListLoaded
<1> QED BY <1>1, StoreKeptChecked DEF Begin, Go

LEMMA StartCheckedInv ==
    ASSUME CheckedInv, OneAtATime, NEW s \in Requests, Start(s)
    PROVE  CheckedInv'
<1>0. SerialInv'
  BY StartSerialInv DEF CheckedInv
<1>1. CASE StartCreateList(s)
  <2>1. PICK n \in Limits \cup {NoLimit} :
             Begin(s, [Idle EXCEPT !.op = "createList", !.step = "count", !.newLimit = n])
    BY <1>1 DEF StartCreateList
  <2> DEFINE r == [Idle EXCEPT !.op = "createList", !.step = "count", !.newLimit = n]
  <2>2. r.step = "count" /\ r.op = "createList" /\ InputsOK(r)
    BY DEF Idle, InputsOK
  <2>3. Begin(s, r)
    BY <2>1
  <2> HIDE DEF r
  <2> QED BY <1>0, <2>2, <2>3, BeginChecked
<1>2. CASE StartUpdateList(s)
  <2>1. PICK l \in Known(listState), n \in Limits \cup {NoLimit, Null}, k \in ListPlaces \cup {Null} :
             Begin(s, [Idle EXCEPT !.op = "updateList", !.step = "list", !.list = l, !.newLimit = n, !.place = k])
    BY <1>2 DEF StartUpdateList
  <2> DEFINE r == [Idle EXCEPT !.op = "updateList", !.step = "list", !.list = l, !.newLimit = n, !.place = k]
  <2>2. r.step = "list" /\ r.op = "updateList" /\ InputsOK(r)
    BY DEF Idle, InputsOK
  <2>3. Begin(s, r)
    BY <2>1
  <2> HIDE DEF r
  <2> QED BY <1>0, <2>2, <2>3, BeginChecked
<1>3. CASE StartArchiveList(s)
  <2>1. PICK l \in Known(listState) :
             Begin(s, [Idle EXCEPT !.op = "archiveList", !.step = "list", !.list = l])
    BY <1>3 DEF StartArchiveList
  <2> DEFINE r == [Idle EXCEPT !.op = "archiveList", !.step = "list", !.list = l]
  <2>2. r.step = "list" /\ InputsOK(r)
    BY DEF Idle, InputsOK
  <2>3. Begin(s, r)
    BY <2>1
  <2> HIDE DEF r
  <2> QED BY <1>0, <2>2, <2>3, BeginChecked
<1>4. CASE StartCreateCard(s)
  <2>1. PICK l \in Known(listState) :
             Begin(s, [Idle EXCEPT !.op = "createCard", !.step = "list", !.list = l])
    BY <1>4 DEF StartCreateCard
  <2> DEFINE r == [Idle EXCEPT !.op = "createCard", !.step = "list", !.list = l]
  <2>2. r.step = "list" /\ InputsOK(r)
    BY DEF Idle, InputsOK
  <2>3. Begin(s, r)
    BY <2>1
  <2> HIDE DEF r
  <2> QED BY <1>0, <2>2, <2>3, BeginChecked
<1>5. CASE StartMoveCard(s)
  <2>1. PICK c \in Known(cardState), l \in Known(listState) \cup {Null}, k \in mix.places \cup {Null} :
             Begin(s, [Idle EXCEPT !.op = "moveCard", !.step = "card", !.card = c, !.list = l, !.place = k])
    BY <1>5 DEF StartMoveCard
  <2> DEFINE r == [Idle EXCEPT !.op = "moveCard", !.step = "card", !.card = c, !.list = l, !.place = k]
  <2>2. r.step = "card" /\ InputsOK(r)
    BY DEF Idle, InputsOK
  <2>3. Begin(s, r)
    BY <2>1
  <2> HIDE DEF r
  <2> QED BY <1>0, <2>2, <2>3, BeginChecked
<1>6. CASE StartArchiveCard(s)
  <2>1. PICK c \in Known(cardState) :
             Begin(s, [Idle EXCEPT !.op = "archiveCard", !.step = "card", !.card = c])
    BY <1>6 DEF StartArchiveCard
  <2> DEFINE r == [Idle EXCEPT !.op = "archiveCard", !.step = "card", !.card = c]
  <2>2. r.step = "card" /\ InputsOK(r)
    BY DEF Idle, InputsOK
  <2>3. Begin(s, r)
    BY <2>1
  <2> HIDE DEF r
  <2> QED BY <1>0, <2>2, <2>3, BeginChecked
<1>7. CASE StartArchiveBoard(s)
  <2> DEFINE r == [Idle EXCEPT !.op = "archiveBoard", !.step = "write"]
  <2>2. r.step = "write" /\ r.op = "archiveBoard" /\ InputsOK(r)
    BY DEF Idle, InputsOK
  <2>3. Begin(s, r)
    BY <1>7 DEF StartArchiveBoard
  <2> HIDE DEF r
  <2> QED BY <1>0, <2>2, <2>3, BeginChecked
<1> QED BY <1>1, <1>2, <1>3, <1>4, <1>5, <1>6, <1>7 DEF Start

LEMMA ReadCheckedInv ==
    ASSUME CheckedInv, OneAtATime, NEW s \in Requests, Read(s)
    PROVE  CheckedInv'
<1> DEFINE r == req[s]
<1>0. r \in Request /\ RequestOK(r) /\ Checked(r) /\ SerialInv' /\ s \in mix.slots
  BY ReadSerialInv, SlotUsed DEF CheckedInv, SerialInv, TypeInv, TypeOK, RequestsOK
<1>1. ASSUME NEW q, Advance(s, q), Checked(q) PROVE CheckedInv'
  BY <1>0, <1>1, StoreKeptChecked DEF Advance, Go
<1>2. Refuse(s) => CheckedInv'
  BY <1>1, IdleChecked DEF Refuse
<1>3. CASE LoadCard(s) /\ ~Refuse(s)
  <2> DEFINE c == r.card
             q == [r EXCEPT
                     !.step = IF r.op = "moveCard" THEN "list" ELSE "write",
                     !.list = IF r.list = Null THEN cardList[c] ELSE r.list,
                     !.from = cardList[c],
                     !.at   = cardPos[c]]
  <2>1. r.step = "card" /\ Advance(s, q)
    BY <1>3 DEF LoadCard
  <2>2. r.op \in {"moveCard", "archiveCard"} /\ q.op = r.op /\ (r.op = "moveCard" => q.step = "list")
    BY <1>0, <2>1 DEF Request, RequestOK
  <2> HIDE DEF q
  <2>3. Checked(q)
    BY <2>2 DEF Checked, LimitChecked, ListLoaded, InputsOK
  <2> QED BY <1>1, <2>1, <2>3
<1>4. CASE LoadList(s) /\ ~Refuse(s)
  <2> DEFINE l == r.list
             q == [r EXCEPT
                     !.step  = IF r.op \in {"createCard", "moveCard"} THEN "count" ELSE "write",
                     !.at    = IF r.op = "moveCard" THEN r.at ELSE listPos[l],
                     !.limit = cardLimit[l]]
  <2>1. r.step = "list" /\ listState[l] = "active" /\ Advance(s, q)
    BY <1>4 DEF LoadList
  <2>2. /\ q.from = r.from /\ q.op = r.op /\ q.list = l /\ q.limit = cardLimit[l]
        /\ q.newLimit = r.newLimit /\ (q.op # "moveCard" => q.at = listPos[l])
        /\ q.op \in {"createCard", "moveCard"} => q.step = "count"
        /\ r.op \in {"updateList", "archiveList", "createCard", "moveCard"}
    BY <1>0, <2>1 DEF Request, RequestOK
  <2> HIDE DEF q
  <2>3. Checked(q)
    BY <1>0, <2>1, <2>2 DEF Checked, LimitChecked, ListLoaded, InputsOK
  <2> QED BY <1>1, <2>1, <2>3
<1>5. CASE CountLists(s)
  <2> DEFINE q == [r EXCEPT !.step = "write", !.count = Cardinality(ActiveLists)]
  <2>1. r.op = "createList" /\ Advance(s, q)
    BY <1>5 DEF CountLists
  <2>2. /\ q.op = "createList" /\ q.count = Cardinality(ActiveLists) /\ q.newLimit = r.newLimit
    BY <1>0, <2>1 DEF Request
  <2> HIDE DEF q
  <2>3. Checked(q)
    BY <1>0, <2>1, <2>2 DEF Checked, LimitChecked, ListLoaded, InputsOK
  <2> QED BY <1>1, <2>1, <2>3
<1>6. CASE CountCards(s) /\ ~Refuse(s)
  <2> DEFINE n == Cardinality(ActiveIn(r.list) \ {r.card})
             q == [r EXCEPT !.step = "write", !.count = n]
  <2>1. /\ r.step = "count" /\ r.op \in {"createCard", "moveCard"} /\ Advance(s, q)
        /\ ~(r.list # r.from /\ r.limit # NoLimit /\ n >= r.limit)
    BY <1>6 DEF CountCards
  <2>2. /\ q.from = r.from /\ q.op = r.op /\ q.list = r.list /\ q.limit = r.limit
        /\ q.count = n /\ r.limit \in Nat
    BY <1>0 DEF Request
  <2>3. n \in Nat
    <3>1. IsFiniteSet(ActiveIn(r.list) \ {r.card})
      BY ActiveInFinite, FS_Subset
    <3> QED BY <3>1, FS_CardinalityType
  <2> HIDE DEF q, n
  <2>4. r.list = r.from \/ r.limit = NoLimit \/ n < r.limit
    BY <2>1, <2>2, <2>3 DEF n
  <2>5. Checked(q)
    BY <1>0, <2>1, <2>2, <2>4 DEF Checked, LimitChecked, ListLoaded, InputsOK
  <2> QED BY <1>1, <2>1, <2>5 DEF n
<1> QED BY <1>2, <1>3, <1>4, <1>5, <1>6 DEF Read

LEMMA NextCheckedInv == OneAtATime /\ CheckedInv /\ [Next]_vars => CheckedInv'
<1> SUFFICES ASSUME OneAtATime, CheckedInv, [Next]_vars PROVE CheckedInv'
  OBVIOUS
<1>0. SerialInv'
  BY NextSerialInv DEF CheckedInv
<1>1. CASE UNCHANGED vars
  <2>1. /\ listState' = listState /\ listPos' = listPos /\ cardLimit' = cardLimit /\ req' = req
    BY <1>1 DEF vars, store, lists
  <2>2. ActiveLists' = ActiveLists
    BY <2>1 DEF ActiveLists
  <2> QED BY <1>0, <2>1, <2>2 DEF CheckedInv, Checked, LimitChecked, ListLoaded, InputsOK
<1>2. ASSUME NEW s \in Requests, Write(s) PROVE CheckedInv'
  <2>1. \E op : Writing(s, op)
    BY <1>2 DEF Write, CreateList, UpdateList, ArchiveList, CreateCard, MoveCard, ArchiveCard,
       ArchiveBoard
  <2>2. s \in mix.slots
    BY <1>2, SlotUsed DEF CheckedInv, SerialInv
  <2>3. \A t \in Requests : req'[t] = Idle
    BY <2>1, <2>2 DEF Writing, Go, OneAtATime, CheckedInv, SerialInv, TypeInv, TypeOK, SlotsOK
  <2>4. \A t \in Requests : Checked(req[t])'
    BY <2>3 DEF Idle, Checked, LimitChecked, ListLoaded, InputsOK
  <2> QED BY <1>0, <2>4 DEF CheckedInv
<1>3. CASE CreateBoard
  <2>1. /\ board = "absent" /\ req' = req
    BY <1>3 DEF CreateBoard
  <2>2. ASSUME NEW t \in Requests PROVE Checked(req[t])'
    <3>1. req[t].step = "idle" /\ InputsOK(req[t])
      BY <2>1 DEF CheckedInv, SerialInv, TypeInv, TypeOK, Current, Checked
    <3> QED BY <2>1, <3>1 DEF Checked, LimitChecked, ListLoaded, InputsOK
  <2> QED BY <1>0, <2>2 DEF CheckedInv
<1> QED BY <1>1, <1>2, <1>3, StartCheckedInv, ReadCheckedInv DEF Next

LEMMA CheckedAlways == Spec => [](OneAtATime => CheckedInv)
<1> DEFINE Inv == OneAtATime => CheckedInv
<1>1. Init => Inv
  BY InitCheckedInv
<1>2. Inv /\ [Next]_vars => Inv'
  BY MixKept, NextCheckedInv DEF OneAtATime
<1> QED BY <1>1, <1>2, PTL DEF Spec

-----------------------------------------------------------------------------
(* Which cards a list has after each step.                                 *)

LEMMA CreateCardSets ==
    ASSUME SerialInv, NEW s \in Requests, CreateCard(s)
    PROVE  \E c \in Cards :
              /\ cardState[c] = "absent" /\ cardState' = [cardState EXCEPT ![c] = "active"]
              /\ cardList' = [cardList EXCEPT ![c] = req[s].list]
              /\ cardPos' = [cardPos EXCEPT ![c] = req[s].count]
              /\ req[s].list \in Lists /\ listState[req[s].list] = "active"
              /\ req[s].count = Cardinality(ActiveIn(req[s].list))
              /\ \A l \in Lists : c \notin ActiveIn(l)
              /\ \A l \in Lists : ActiveIn(l)' = IF l = req[s].list THEN ActiveIn(l) \cup {c}
                                                                    ELSE ActiveIn(l)
<1> DEFINE r == req[s]
<1>0. /\ r.step = "write" /\ r.op = "createCard" /\ r.card = Null /\ r.list \in Lists
      /\ Null \notin Cards /\ Current(r)
      /\ cardState \in [Cards -> States] /\ cardList \in [Cards -> Lists \cup {Null}]
  BY BoardsAssumption DEF SerialInv, TypeInv, TypeOK, RequestsOK, RequestOK, CreateCard,
     Writing, Current
<1>1. PICK c \in Cards :
         /\ cardState[c] = "absent"
         /\ cardState' = [cardState EXCEPT ![c] = "active"]
         /\ cardList' = [cardList EXCEPT ![c] = r.list]
         /\ cardPos' = [cardPos EXCEPT ![c] = r.count]
  BY DEF CreateCard
<1>2. r.count = Cardinality(ActiveIn(r.list)) /\ listState[r.list] = "active"
  <2>1. ActiveIn(r.list) \ {r.card} = ActiveIn(r.list)
    BY <1>0 DEF ActiveIn
  <2> QED BY <1>0, <2>1 DEF Current, CountCurrent, ListCurrent
<1>3. \A l \in Lists : c \notin ActiveIn(l)
  BY <1>1 DEF ActiveIn
<1>4. \A l \in Lists : ActiveIn(l)' = IF l = r.list THEN ActiveIn(l) \cup {c} ELSE ActiveIn(l)
  BY <1>0, <1>1 DEF ActiveIn
<1> QED BY <1>0, <1>1, <1>2, <1>3, <1>4

LEMMA MoveCardSets ==
    ASSUME SerialInv, NEW s \in Requests, MoveCard(s)
    PROVE  LET r == req[s]  c == r.card IN
              /\ c \in Cards /\ r.from \in Lists /\ r.list \in Lists
              /\ r.op = "moveCard" /\ r.step = "write" /\ listState[r.list] = "active"
              /\ r.count = Cardinality(ActiveIn(r.list) \ {c}) /\ r.count \in Nat
              /\ \A l \in Lists : c \in ActiveIn(l) <=> l = r.from
              /\ \A l \in Lists : ActiveIn(l)' = IF l = r.list THEN (ActiveIn(l) \ {c}) \cup {c}
                                                               ELSE ActiveIn(l) \ {c}
<1> DEFINE r == req[s]
           c == r.card
<1>0. /\ r.step = "write" /\ r.op = "moveCard"
      /\ c \in Cards /\ r.from \in Lists /\ r.list \in Lists
      /\ cardState[c] = "active" /\ r.from = cardList[c]
      /\ r.count = Cardinality(ActiveIn(r.list) \ {c}) /\ r.count \in Nat
      /\ listState[r.list] = "active"
      /\ cardState \in [Cards -> States] /\ cardList \in [Cards -> Lists \cup {Null}]
  BY DEF SerialInv, TypeInv, TypeOK, RequestsOK, RequestOK, MoveCard, Writing, Current,
     CardCurrent, CountCurrent, ListCurrent, Request
<1>1. cardState' = cardState /\ cardList' = [cardList EXCEPT ![c] = r.list]
  BY <1>0 DEF MoveCard
<1>2. \A l \in Lists : c \in ActiveIn(l) <=> l = r.from
  BY <1>0 DEF ActiveIn
<1>3. \A l \in Lists : ActiveIn(l)' = IF l = r.list THEN (ActiveIn(l) \ {c}) \cup {c}
                                                  ELSE ActiveIn(l) \ {c}
  BY <1>0, <1>1 DEF ActiveIn
<1> QED BY <1>0, <1>2, <1>3

LEMMA OthersShrink ==
    ASSUME SerialInv, [Next]_vars, ~(\E s \in Requests : CreateCard(s) \/ MoveCard(s))
    PROVE  \A l : ActiveIn(l)' \subseteq ActiveIn(l)
<1>0. cardState \in [Cards -> States]
  BY DEF SerialInv, TypeInv, TypeOK
<1>1. cardList' = cardList /\ \A c \in Cards : cardState'[c] = "active" => cardState[c] = "active"
  <2>1. CASE cards' = cards
    BY <2>1 DEF cards
  <2>2. ASSUME NEW s \in Requests, ArchiveList(s) \/ ArchiveCard(s) \/ ArchiveBoard(s)
        PROVE  cardList' = cardList /\ \A c \in Cards : cardState'[c] = "active" => cardState[c] = "active"
    BY <1>0, <2>2 DEF ArchiveList, ArchiveCard, ArchiveBoard
  <2>3. cards' = cards \/ \E s \in Requests : ArchiveList(s) \/ ArchiveCard(s) \/ ArchiveBoard(s)
    <3>1. ASSUME NEW s \in Requests, Start(s) PROVE cards' = cards
      BY <3>1 DEF Start, StartCreateList, StartUpdateList, StartArchiveList, StartCreateCard,
                  StartMoveCard, StartArchiveCard, StartArchiveBoard, Begin, Go, store
    <3>2. ASSUME NEW s \in Requests, Read(s) PROVE cards' = cards
      BY <3>2 DEF Read, LoadCard, LoadList, CountLists, CountCards, Refuse, Advance, Go, store
    <3>3. ASSUME NEW s \in Requests, CreateList(s) \/ UpdateList(s) PROVE cards' = cards
      BY <3>3 DEF CreateList, UpdateList
    <3>4. ASSUME Next, cards' # cards
          PROVE  \E s \in Requests : ArchiveList(s) \/ ArchiveCard(s) \/ ArchiveBoard(s)
      <4>1. PICK s \in Requests : Write(s)
        BY <3>1, <3>2, <3>4 DEF Next, CreateBoard
      <4> QED BY <3>3, <3>4, <4>1 DEF Write
    <3> QED BY <3>4 DEF vars, store
  <2> QED BY <2>1, <2>2, <2>3
<1> QED BY <1>1 DEF ActiveIn

(* When requests do not overlap, no step makes a list with a limit longer  *)
(* than that limit: what createCard and moveCard counted and the limit     *)
(* they compared it with are still true when they write.                   *)
THEOREM LimitHolds == Spec => LimitHoldsOnEntry
<1> DEFINE Holds == \A l \in Lists :
              /\ OneAtATime
              /\ Cardinality(ActiveIn(l)') > Cardinality(ActiveIn(l)) /\ cardLimit[l] # NoLimit
              => Cardinality(ActiveIn(l)') <= cardLimit[l]
<1>1. (OneAtATime => CheckedInv) /\ [Next]_vars => [Holds]_vars
  <2> SUFFICES ASSUME OneAtATime, CheckedInv, Next, NEW l \in Lists,
                      Cardinality(ActiveIn(l)') > Cardinality(ActiveIn(l)),
                      cardLimit[l] # NoLimit
               PROVE  Cardinality(ActiveIn(l)') <= cardLimit[l]
    OBVIOUS
  <2>0. /\ IsFiniteSet(ActiveIn(l)) /\ Cardinality(ActiveIn(l)) \in Nat
        /\ SerialInv /\ cardLimit[l] \in Nat
    BY ActiveInFinite DEF CheckedInv, SerialInv, TypeInv, TypeOK
  <2>1. ~(ActiveIn(l)' \subseteq ActiveIn(l))
    <3> SUFFICES ASSUME ActiveIn(l)' \subseteq ActiveIn(l) PROVE FALSE
      OBVIOUS
    <3>1. Cardinality(ActiveIn(l)') <= Cardinality(ActiveIn(l)) /\ Cardinality(ActiveIn(l)') \in Nat
      BY <2>0, FS_Subset, FS_CardinalityType
    <3> QED BY <2>0, <3>1
  <2>2. PICK s \in Requests : CreateCard(s) \/ MoveCard(s)
    BY <2>0, <2>1, OthersShrink
  <2> DEFINE r == req[s]
  <2>3. r \in Request /\ Checked(r)
    BY DEF CheckedInv, SerialInv, TypeInv, TypeOK
  <2>4. CASE CreateCard(s)
    <3>1. PICK c \in Cards :
             /\ r.list \in Lists /\ r.count = Cardinality(ActiveIn(r.list))
             /\ c \notin ActiveIn(l)
             /\ ActiveIn(l)' = IF l = r.list THEN ActiveIn(l) \cup {c} ELSE ActiveIn(l)
      BY <2>0, <2>4, CreateCardSets
    <3>2. l = r.list
      BY <2>1, <3>1
    <3>3. Cardinality(ActiveIn(l)') = r.count + 1
      <4>1. Cardinality(ActiveIn(l) \cup {c}) = Cardinality(ActiveIn(l)) + 1
        BY <2>0, <3>1, FS_AddElement
      <4> QED BY <3>1, <3>2, <4>1
    <3>4. r.op = "createCard" /\ r.step = "write" /\ r.from = Null /\ Null \notin Lists
      BY <2>3, <2>4, BoardsAssumption DEF CreateCard, Writing, Checked, InputsOK
    <3>5. r.count < cardLimit[l]
      BY <2>3, <3>1, <3>2, <3>4 DEF Checked, LimitChecked
    <3> QED BY <2>0, <3>1, <3>2, <3>3, <3>5
  <2>5. CASE MoveCard(s)
    <3> DEFINE c == r.card
    <3>1. /\ r.op = "moveCard" /\ r.step = "write"
          /\ r.count = Cardinality(ActiveIn(r.list) \ {c}) /\ r.count \in Nat
          /\ c \in ActiveIn(l) <=> l = r.from
          /\ ActiveIn(l)' = IF l = r.list THEN (ActiveIn(l) \ {c}) \cup {c} ELSE ActiveIn(l) \ {c}
      BY <2>0, <2>5, MoveCardSets
    <3>2. l = r.list /\ l # r.from
      BY <2>1, <3>1
    <3>3. Cardinality(ActiveIn(l)') = r.count + 1
      <4>1. ActiveIn(l) \ {c} = ActiveIn(l) /\ c \notin ActiveIn(l)
        BY <3>1, <3>2
      <4>2. Cardinality(ActiveIn(l) \cup {c}) = Cardinality(ActiveIn(l)) + 1
        BY <2>0, <4>1, FS_AddElement
      <4> QED BY <3>1, <3>2, <4>1, <4>2
    <3>4. r.count < cardLimit[l]
      BY <2>3, <3>1, <3>2 DEF Checked, LimitChecked
    <3> QED BY <2>0, <3>1, <3>3, <3>4
  <2> QED BY <2>2, <2>4, <2>5
<1> QED BY <1>1, CheckedAlways, PTL DEF Spec, LimitHoldsOnEntry

-----------------------------------------------------------------------------
(* The positions of the lists                                              *)

LEMMA ActiveListsFinite ==
    IsFiniteSet(ActiveLists) /\ Cardinality(ActiveLists) \in Nat
<1>1. IsFiniteSet(ActiveLists)
  BY BoardsAssumption, FS_Subset DEF ActiveLists
<1> QED BY <1>1, FS_CardinalityType

(* createBoard numbers the default lists in their order.                   *)
LEMMA DefaultListsContiguous == CreateBoard => ListsContiguous'
<1> SUFFICES ASSUME CreateBoard PROVE ListsContiguous'
  OBVIOUS
<1> DEFINE n == Len(DefaultLists)
           rank(l) == {i \in 1..n : DefaultLists[i] = l}
<1>1. /\ n \in Nat /\ \A i \in 1..n : DefaultLists[i] \in Lists
      /\ \A i, j \in 1..n : DefaultLists[i] = DefaultLists[j] => i = j
  BY BoardsAssumption
<1>2. /\ listState' = [l \in Lists |-> IF rank(l) # {} THEN "active" ELSE "absent"]
      /\ listPos' = [l \in Lists |-> IF rank(l) # {} THEN (CHOOSE i \in rank(l) : TRUE) - 1 ELSE 0]
  BY DEF CreateBoard
<1>3. ActiveLists' = {DefaultLists[i] : i \in 1..n}
  BY <1>1, <1>2 DEF ActiveLists
<1>4. ASSUME NEW i \in 1..n PROVE listPos'[DefaultLists[i]] = i - 1
  <2>1. rank(DefaultLists[i]) = {i}
    BY <1>1
  <2>2. (CHOOSE j \in rank(DefaultLists[i]) : TRUE) = i
    BY <2>1
  <2> QED BY <1>1, <1>2, <2>1, <2>2
<1>5. Cardinality(ActiveLists') = n
  <2> DEFINE f == [i \in 1..n |-> DefaultLists[i]]
             T == {DefaultLists[i] : i \in 1..n}
  <2>1. f \in Bijection(1..n, T)
    <3>1. f \in [1..n -> T] /\ \A t \in T : \E i \in 1..n : f[i] = t
      OBVIOUS
    <3>2. IsInjective(f)
      BY <1>1 DEF IsInjective
    <3> QED BY <3>1, <3>2 DEF Bijection, Injection, Surjection
  <2>2. IsFiniteSet(1..n) /\ Cardinality(1..n) = n
    <3>1. 1 \in Int /\ n \in Int /\ (IF 1 > n THEN 0 ELSE n - 1 + 1) = n
      BY <1>1
    <3>2. IsFiniteSet(1..n)
      BY <3>1, FS_Interval
    <3>3. Cardinality(1..n) = IF 1 > n THEN 0 ELSE n - 1 + 1
      BY <3>1, FS_Interval
    <3> QED BY <3>1, <3>2, <3>3
  <2>3. Cardinality(T) = n
    BY <2>1, <2>2, FS_Bijection DEF ExistsBijection
  <2> QED BY <1>3, <2>3
<1> HIDE DEF n
<1>6. PositionsAre({DefaultLists[i] : i \in 1..n}, listPos', n)
  <2> DEFINE T == {DefaultLists[i] : i \in 1..n}
  <2>1. \A l \in T : listPos'[l] \in 0..(n - 1)
    BY <1>1, <1>4
  <2>2. \A l, m \in T : listPos'[l] = listPos'[m] => l = m
    <3> SUFFICES ASSUME NEW i \in 1..n, NEW j \in 1..n,
                        listPos'[DefaultLists[i]] = listPos'[DefaultLists[j]]
                 PROVE  DefaultLists[i] = DefaultLists[j]
      OBVIOUS
    <3>1. i - 1 = j - 1
      BY <1>4
    <3> QED BY <1>1, <3>1
  <2>3. ASSUME NEW k \in 0..(n - 1) PROVE \E l \in T : listPos'[l] = k
    <3>1. k + 1 \in 1..n /\ (k + 1) - 1 = k
      BY <1>1
    <3>2. listPos'[DefaultLists[k + 1]] = k
      BY <1>4, <3>1
    <3> QED BY <3>1, <3>2
  <2> QED BY <2>1, <2>2, <2>3 DEF PositionsAre
<1> QED BY <1>3, <1>5, <1>6 DEF ListsContiguous

LEMMA CreateListContiguous ==
    ASSUME CheckedInv, ListsContiguous, NEW s \in Requests, CreateList(s)
    PROVE  ListsContiguous'
<1> DEFINE n == Cardinality(ActiveLists)
<1>1. PICK l \in Lists : /\ listState[l] = "absent"
                         /\ listState' = [listState EXCEPT ![l] = "active"]
                         /\ listPos' = [listPos EXCEPT ![l] = req[s].count]
  BY DEF CreateList
<1>2. req[s].count = n
  BY DEF CreateList, Writing, CheckedInv, Checked, ListLoaded
<1>3. listState \in [Lists -> States] /\ listPos \in [Lists -> Nat]
  BY DEF CheckedInv, SerialInv, TypeInv, TypeOK
<1>4. ActiveLists' = ActiveLists \cup {l} /\ l \notin ActiveLists
  BY <1>1, <1>3 DEF ActiveLists
<1>5. n \in Nat /\ Cardinality(ActiveLists \cup {l}) = n + 1
  BY <1>4, ActiveListsFinite, FS_AddElement
<1>6. \A m \in ActiveLists : listPos[m] \in 0..(n - 1)
  BY DEF ListsContiguous, PositionsAre
<1>7. listPos'[l] = n /\ Opens(listPos', listPos, ActiveLists, n)
  <2>1. listPos'[l] = n /\ \A m \in Lists : m # l => listPos'[m] = listPos[m]
    BY <1>1, <1>2, <1>3
  <2>2. \A m \in ActiveLists : m \in Lists /\ m # l
    BY <1>4 DEF ActiveLists
  <2>3. \A m \in ActiveLists : ~(listPos[m] >= n)
    BY <1>5, <1>6
  <2> QED BY <2>1, <2>2, <2>3 DEF Opens
<1>8. PositionsAre(ActiveLists \cup {l}, listPos', n + 1)
  BY <1>4, <1>5, <1>7, FilledGap DEF ListsContiguous
<1> QED BY <1>4, <1>5, <1>8 DEF ListsContiguous

LEMMA ArchiveListContiguous ==
    ASSUME CheckedInv, ListsContiguous, NEW s \in Requests, ArchiveList(s)
    PROVE  ListsContiguous'
<1> DEFINE n == Cardinality(ActiveLists)
           l == req[s].list
<1>1. /\ l \in Lists /\ listState[l] = "active" /\ req[s].at = listPos[l]
      /\ listState \in [Lists -> States] /\ listPos \in [Lists -> Nat]
  BY DEF ArchiveList, Writing, CheckedInv, Checked, ListLoaded, SerialInv, TypeInv, TypeOK,
         RequestsOK, RequestOK
<1>2. /\ listState' = [listState EXCEPT ![l] = "archived"]
      /\ listPos' = [m \in Lists |-> IF m \in ActiveLists \ {l} /\ listPos[m] > listPos[l]
                                      THEN listPos[m] - 1 ELSE listPos[m]]
  BY <1>1 DEF ArchiveList
<1>3. ActiveLists' = ActiveLists \ {l} /\ l \in ActiveLists
  BY <1>1, <1>2 DEF ActiveLists
<1>4. n \in Nat /\ Cardinality(ActiveLists \ {l}) = n - 1
  BY <1>3, ActiveListsFinite, FS_RemoveElement
<1>5. Closes(listPos', listPos, ActiveLists \ {l}, listPos[l])
  BY <1>2 DEF Closes, ActiveLists
<1>6. PositionsAre(ActiveLists \ {l}, listPos', n - 1)
  BY <1>3, <1>4, <1>5, ClosedGap DEF ListsContiguous
<1> QED BY <1>3, <1>4, <1>6 DEF ListsContiguous

(* When requests do not overlap, every step but an updateList that was     *)
(* given a position leaves contiguous lists contiguous.                    *)
THEOREM ListsStayContiguous == Spec => ListPositionsContiguous
<1> DEFINE Kept == OneAtATime /\ ListsContiguous
                      /\ ~(\E s \in Requests : UpdateList(s) /\ req[s].place # Null)
                      => ListsContiguous'
<1>1. (OneAtATime => CheckedInv) /\ [Next]_vars => [Kept]_vars
  <2> SUFFICES ASSUME OneAtATime, CheckedInv, Next, ListsContiguous,
                      ~(\E s \in Requests : UpdateList(s) /\ req[s].place # Null)
               PROVE  ListsContiguous'
    OBVIOUS
  <2>1. ASSUME listState' = listState, listPos' = listPos PROVE ListsContiguous'
    <3>1. ActiveLists' = ActiveLists
      BY <2>1 DEF ActiveLists
    <3> QED BY <2>1, <3>1 DEF ListsContiguous
  <2>2. ASSUME NEW s \in Requests,
               Start(s) \/ Read(s) \/ CreateCard(s) \/ MoveCard(s) \/ ArchiveCard(s)
        PROVE  listState' = listState /\ listPos' = listPos
    BY <2>2 DEF Start, StartCreateList, StartUpdateList, StartArchiveList, StartCreateCard,
       StartMoveCard, StartArchiveCard, StartArchiveBoard, Begin, Read, LoadCard, LoadList,
       CountLists, CountCards, Refuse, Advance, CreateCard, MoveCard, ArchiveCard, store, lists
  <2>3. ASSUME NEW s \in Requests, UpdateList(s) PROVE listState' = listState /\ listPos' = listPos
    <3>1. req[s].place = Null
      BY <2>3
    <3> QED BY <2>3, <3>1 DEF UpdateList, CheckedInv, SerialInv, TypeInv, TypeOK
  <2>4. ASSUME NEW s \in Requests, ArchiveBoard(s) PROVE ListsContiguous'
    <3>1. ActiveLists' = {}
      BY <2>4 DEF ArchiveBoard, ActiveLists
    <3> QED BY <3>1, NoCards DEF ListsContiguous
  <2> QED BY <2>1, <2>2, <2>3, <2>4, DefaultListsContiguous, CreateListContiguous,
          ArchiveListContiguous DEF Next, Write
<1> QED BY <1>1, CheckedAlways, PTL DEF Spec, ListPositionsContiguous
-----------------------------------------------------------------------------
(* Read through their positions the lists are the sequences of CardOrder.  *)
(* First, what its operators on sequences return.                          *)

LEMMA RemoveAtEntries ==
    ASSUME NEW T, NEW s \in Seq(T), NEW p \in 1..Len(s)
    PROVE  /\ Order!RemoveAt(s, p) \in Seq(T)
           /\ Len(Order!RemoveAt(s, p)) = Len(s) - 1
           /\ \A i \in 1..(Len(s) - 1) :
                 Order!RemoveAt(s, p)[i] = IF i < p THEN s[i] ELSE s[i + 1]
<1> DEFINE a == SubSeq(s, 1, p - 1)
           b == SubSeq(s, p + 1, Len(s))
<1>0. Len(s) \in Nat /\ \A i \in 1..Len(s) : s[i] \in T
  OBVIOUS
<1>1. /\ a \in Seq(T) /\ Len(a) = p - 1
      /\ \A i \in 1..(p - 1) : a[i] = s[i]
  <2>1. 1 \in Int /\ p - 1 \in Int /\ \A i \in 1..(p - 1) : s[i] \in T
    BY <1>0
  <2>2. a \in Seq(T) /\ Len(a) = IF 1 <= p - 1 THEN p - 1 - 1 + 1 ELSE 0
    BY <2>1, SubSeqProperties
  <2>3. \A i \in 1..(p - 1 - 1 + 1) : a[i] = s[1 + i - 1]
    BY <2>1, SubSeqProperties
  <2> QED BY <1>0, <2>2, <2>3
<1>2. /\ b \in Seq(T) /\ Len(b) = Len(s) - p
      /\ \A i \in 1..(Len(s) - p) : b[i] = s[p + i]
  <2>1. p + 1 \in Int /\ Len(s) \in Int /\ \A i \in (p + 1)..Len(s) : s[i] \in T
    BY <1>0
  <2>2. b \in Seq(T) /\ Len(b) = IF p + 1 <= Len(s) THEN Len(s) - (p + 1) + 1 ELSE 0
    BY <2>1, SubSeqProperties
  <2>3. \A i \in 1..(Len(s) - (p + 1) + 1) : b[i] = s[(p + 1) + i - 1]
    BY <2>1, SubSeqProperties
  <2>4. \A i \in 1..(Len(s) - p) : i \in 1..(Len(s) - (p + 1) + 1) /\ (p + 1) + i - 1 = p + i
    BY <1>0
  <2> QED BY <1>0, <2>2, <2>3, <2>4
<1>3. Order!RemoveAt(s, p) = a \o b
  BY DEF Order!RemoveAt
<1> HIDE DEF a, b
<1>4. /\ a \o b \in Seq(T) /\ Len(a \o b) = Len(a) + Len(b)
      /\ \A i \in 1..(Len(a) + Len(b)) :
            (a \o b)[i] = IF i <= Len(a) THEN a[i] ELSE b[i - Len(a)]
  BY <1>1, <1>2, ConcatProperties
<1>5. ASSUME NEW i \in 1..(Len(s) - 1)
      PROVE  (a \o b)[i] = IF i < p THEN s[i] ELSE s[i + 1]
  <2>1. Len(a) + Len(b) = Len(s) - 1
    BY <1>0, <1>1, <1>2
  <2>2. CASE i < p
    BY <1>0, <1>1, <1>4, <2>1, <2>2
  <2>3. CASE i >= p
    <3>1. i - Len(a) \in 1..(Len(s) - p) /\ p + (i - Len(a)) = i + 1 /\ ~(i <= Len(a))
      BY <1>0, <1>1, <2>3
    <3>2. b[i - Len(a)] = s[i + 1]
      BY <1>2, <3>1
    <3> QED BY <1>4, <2>1, <2>3, <3>1, <3>2
  <2>4. i < p \/ i >= p
    BY <1>0
  <2> QED BY <2>2, <2>3, <2>4
<1> QED BY <1>0, <1>1, <1>2, <1>3, <1>4, <1>5

LEMMA InsertAtEntries ==
    ASSUME NEW T, NEW s \in Seq(T), NEW p \in 1..(Len(s) + 1), NEW c \in T
    PROVE  /\ Order!InsertAt(s, p, c) \in Seq(T)
           /\ Len(Order!InsertAt(s, p, c)) = Len(s) + 1
           /\ \A i \in 1..(Len(s) + 1) :
                 Order!InsertAt(s, p, c)[i] =
                    IF i < p THEN s[i] ELSE IF i = p THEN c ELSE s[i - 1]
<1> DEFINE a == SubSeq(s, 1, p - 1)
           b == SubSeq(s, p, Len(s))
           m == a \o <<c>>
<1>0. Len(s) \in Nat /\ \A i \in 1..Len(s) : s[i] \in T
  OBVIOUS
<1>1. /\ a \in Seq(T) /\ Len(a) = p - 1
      /\ \A i \in 1..(p - 1) : a[i] = s[i]
  <2>1. 1 \in Int /\ p - 1 \in Int /\ \A i \in 1..(p - 1) : s[i] \in T
    BY <1>0
  <2>2. a \in Seq(T) /\ Len(a) = IF 1 <= p - 1 THEN p - 1 - 1 + 1 ELSE 0
    BY <2>1, SubSeqProperties
  <2>3. \A i \in 1..(p - 1 - 1 + 1) : a[i] = s[1 + i - 1]
    BY <2>1, SubSeqProperties
  <2> QED BY <1>0, <2>2, <2>3
<1>2. /\ b \in Seq(T) /\ Len(b) = Len(s) - p + 1
      /\ \A i \in 1..(Len(s) - p + 1) : b[i] = s[p + i - 1]
  <2>1. p \in Int /\ Len(s) \in Int /\ \A i \in p..Len(s) : s[i] \in T
    BY <1>0
  <2>2. b \in Seq(T) /\ Len(b) = IF p <= Len(s) THEN Len(s) - p + 1 ELSE 0
    BY <2>1, SubSeqProperties
  <2>3. \A i \in 1..(Len(s) - p + 1) : b[i] = s[p + i - 1]
    BY <2>1, SubSeqProperties
  <2> QED BY <1>0, <2>2, <2>3
<1>3. Order!InsertAt(s, p, c) = m \o b
  BY DEF Order!InsertAt
<1> HIDE DEF a, b
<1>4. /\ m \in Seq(T) /\ Len(m) = p
      /\ \A i \in 1..p : m[i] = IF i < p THEN s[i] ELSE c
  BY <1>0, <1>1
<1> HIDE DEF m
<1>5. /\ m \o b \in Seq(T) /\ Len(m \o b) = Len(m) + Len(b)
      /\ \A i \in 1..(Len(m) + Len(b)) :
            (m \o b)[i] = IF i <= Len(m) THEN m[i] ELSE b[i - Len(m)]
  BY <1>2, <1>4, ConcatProperties
<1>6. ASSUME NEW i \in 1..(Len(s) + 1)
      PROVE  (m \o b)[i] = IF i < p THEN s[i] ELSE IF i = p THEN c ELSE s[i - 1]
  <2>1. Len(m) + Len(b) = Len(s) + 1
    BY <1>0, <1>2, <1>4
  <2>2. CASE i <= p
    BY <1>0, <1>4, <1>5, <2>1, <2>2
  <2>3. CASE i > p
    <3>1. i - Len(m) \in 1..(Len(s) - p + 1) /\ p + (i - Len(m)) - 1 = i - 1 /\ ~(i <= Len(m))
      BY <1>0, <1>4, <2>3
    <3>2. b[i - Len(m)] = s[i - 1]
      BY <1>2, <3>1
    <3> QED BY <1>5, <2>1, <2>3, <3>1, <3>2
  <2>4. i <= p \/ i > p
    BY <1>0
  <2> QED BY <2>2, <2>3, <2>4
<1> QED BY <1>0, <1>2, <1>3, <1>4, <1>5, <1>6

(* The cards of a set in the order of their positions.                     *)
Lined(S, pos, n) == [i \in 1..n |-> CHOOSE c \in S : pos[c] = i - 1]

LEMMA LinedEntries ==
    ASSUME NEW S, NEW pos, NEW n \in Nat, PositionsAre(S, pos, n)
    PROVE  /\ Lined(S, pos, n) \in Seq(S) /\ Len(Lined(S, pos, n)) = n
           /\ \A i \in 1..n : Lined(S, pos, n)[i] \in S /\ pos[Lined(S, pos, n)[i]] = i - 1
           /\ \A c \in S : pos[c] + 1 \in 1..n /\ Lined(S, pos, n)[pos[c] + 1] = c
<1>1. ASSUME NEW i \in 1..n
      PROVE  Lined(S, pos, n)[i] \in S /\ pos[Lined(S, pos, n)[i]] = i - 1
  <2>1. \E c \in S : pos[c] = i - 1
    BY DEF PositionsAre
  <2> QED BY <2>1 DEF Lined
<1>2. ASSUME NEW c \in S
      PROVE  pos[c] + 1 \in 1..n /\ Lined(S, pos, n)[pos[c] + 1] = c
  <2>1. pos[c] \in 0..(n - 1)
    BY DEF PositionsAre
  <2>2. pos[c] + 1 \in 1..n /\ (pos[c] + 1) - 1 = pos[c]
    BY <2>1
  <2>3. pos[Lined(S, pos, n)[pos[c] + 1]] = pos[c] /\ Lined(S, pos, n)[pos[c] + 1] \in S
    BY <1>1, <2>2
  <2> QED BY <2>2, <2>3 DEF PositionsAre
<1>3. Lined(S, pos, n) \in [1..n -> S]
  BY <1>1 DEF Lined
<1> QED BY <1>1, <1>2, <1>3

(* Positions decide the order: there is one sequence that agrees.          *)
LEMMA LinedIs ==
    ASSUME NEW S, NEW pos, NEW n \in Nat, PositionsAre(S, pos, n),
           NEW q \in Seq(S), Len(q) = n, \A i \in 1..n : pos[q[i]] = i - 1
    PROVE  q = Lined(S, pos, n)
<1>1. ASSUME NEW i \in 1..n PROVE q[i] = Lined(S, pos, n)[i]
  <2>1. q[i] \in S /\ pos[q[i]] = i - 1
    OBVIOUS
  <2>2. Lined(S, pos, n)[i] \in S /\ pos[Lined(S, pos, n)[i]] = i - 1
    BY LinedEntries
  <2> QED BY <2>1, <2>2 DEF PositionsAre
<1>2. Lined(S, pos, n) \in Seq(S) /\ Len(Lined(S, pos, n)) = n
  BY LinedEntries
<1> QED BY <1>1, <1>2, SeqEqual

LEMMA LinedContains ==
    ASSUME NEW S, NEW pos, NEW n \in Nat, PositionsAre(S, pos, n), NEW c
    PROVE  /\ Order!Contains(Lined(S, pos, n), c) <=> c \in S
           /\ c \in S => Order!PlaceOf(Lined(S, pos, n), c) = pos[c] + 1
<1> DEFINE s == Lined(S, pos, n)
<1>1. /\ Len(s) = n
      /\ \A i \in 1..n : s[i] \in S /\ pos[s[i]] = i - 1
      /\ \A d \in S : pos[d] + 1 \in 1..n /\ s[pos[d] + 1] = d
  BY LinedEntries
<1> HIDE DEF s
<1>2. Order!Contains(s, c) <=> c \in S
  BY <1>1 DEF Order!Contains
<1>3. ASSUME c \in S PROVE Order!PlaceOf(s, c) = pos[c] + 1
  <2>1. ASSUME NEW i \in 1..n, s[i] = c PROVE i = pos[c] + 1
    BY <1>1, <2>1
  <2>2. pos[c] + 1 \in 1..n /\ s[pos[c] + 1] = c
    BY <1>1, <1>3
  <2>3. Order!PlaceOf(s, c) \in 1..n /\ s[Order!PlaceOf(s, c)] = c
    BY <1>1, <2>2 DEF Order!PlaceOf
  <2> QED BY <2>1, <2>3
<1> QED BY <1>2, <1>3 DEF s

(* Closing the gap is taking the card out of the sequence ...              *)
LEMMA LinedWithout ==
    ASSUME NEW S, NEW pos, NEW n \in Nat, PositionsAre(S, pos, n), NEW c \in S, NEW q,
           Closes(q, pos, S \ {c}, pos[c])
    PROVE  Order!Without(Lined(S, pos, n), c) = Lined(S \ {c}, q, n - 1)
<1> DEFINE s == Lined(S, pos, n)
           p == pos[c] + 1
           w == Order!RemoveAt(s, p)
<1>1. /\ s \in Seq(S) /\ Len(s) = n
      /\ \A i \in 1..n : s[i] \in S /\ pos[s[i]] = i - 1
      /\ p \in 1..n /\ pos[c] \in Int /\ n - 1 \in Nat
  <2>1. pos[c] \in Int /\ p \in 1..n
    BY LinedEntries DEF PositionsAre
  <2> QED BY <2>1, LinedEntries
<1>2. Order!Without(s, c) = w
  BY LinedContains DEF Order!Without
<1>3. PositionsAre(S \ {c}, q, n - 1)
  BY ClosedGap
<1> HIDE DEF s
<1>4. /\ w \in Seq(S) /\ Len(w) = n - 1
      /\ \A i \in 1..(n - 1) : w[i] = IF i < p THEN s[i] ELSE s[i + 1]
  BY <1>1, RemoveAtEntries
<1> HIDE DEF w
<1>5. ASSUME NEW i \in 1..(n - 1) PROVE w[i] \in S \ {c} /\ q[w[i]] = i - 1
  <2>1. CASE i < p
    <3>1. w[i] = s[i] /\ i \in 1..n
      BY <1>1, <1>4, <2>1
    <3>2. w[i] \in S /\ pos[w[i]] = i - 1
      BY <1>1, <3>1
    <3>3. pos[w[i]] # pos[c] /\ ~(pos[w[i]] > pos[c])
      BY <1>1, <2>1, <3>2
    <3> QED BY <3>2, <3>3 DEF Closes
  <2>2. CASE i >= p
    <3>1. w[i] = s[i + 1] /\ i + 1 \in 1..n
      BY <1>1, <1>4, <2>2
    <3>2. w[i] \in S /\ pos[w[i]] = (i + 1) - 1
      BY <1>1, <3>1
    <3>3. pos[w[i]] # pos[c] /\ pos[w[i]] > pos[c] /\ pos[w[i]] - 1 = i - 1
      BY <1>1, <2>2, <3>2
    <3> QED BY <3>2, <3>3 DEF Closes
  <2> QED BY <1>1, <2>1, <2>2
<1>6. w \in Seq(S \ {c})
  BY <1>1, <1>4, <1>5, ElementOfSeq, IsASeq
<1> QED BY <1>1, <1>2, <1>3, <1>4, <1>5, <1>6, LinedIs DEF s

LEMMA LinedWithoutOther ==
    ASSUME NEW S, NEW pos, NEW n \in Nat, PositionsAre(S, pos, n), NEW c, c \notin S
    PROVE  Order!Without(Lined(S, pos, n), c) = Lined(S, pos, n)
  BY LinedContains DEF Order!Without

(* ... and opening one for a card is inserting it.                         *)
LEMMA LinedInsert ==
    ASSUME NEW S, NEW pos, NEW n \in Nat, PositionsAre(S, pos, n), NEW c, c \notin S,
           NEW p \in 0..n, NEW q, q[c] = p, Opens(q, pos, S, p)
    PROVE  Order!InsertAt(Lined(S, pos, n), p + 1, c) = Lined(S \cup {c}, q, n + 1)
<1> DEFINE s == Lined(S, pos, n)
           T == S \cup {c}
           w == Order!InsertAt(s, p + 1, c)
<1>1. /\ s \in Seq(S) /\ Len(s) = n
      /\ \A i \in 1..n : s[i] \in S /\ pos[s[i]] = i - 1
      /\ p + 1 \in 1..(n + 1) /\ p \in Nat
  BY LinedEntries
<1>2. PositionsAre(T, q, n + 1)
  BY FilledGap
<1> HIDE DEF s
<1>3. s \in Seq(T)
  BY <1>1, SeqMonotonic
<1>4. /\ w \in Seq(T) /\ Len(w) = n + 1
      /\ \A i \in 1..(n + 1) : w[i] = IF i < p + 1 THEN s[i] ELSE IF i = p + 1 THEN c ELSE s[i - 1]
  <2>1. c \in T /\ p + 1 \in 1..(Len(s) + 1)
    BY <1>1
  <2> HIDE DEF T
  <2>2. /\ w \in Seq(T) /\ Len(w) = Len(s) + 1
        /\ \A i \in 1..(Len(s) + 1) :
              w[i] = IF i < p + 1 THEN s[i] ELSE IF i = p + 1 THEN c ELSE s[i - 1]
    BY <1>3, <2>1, InsertAtEntries
  <2> QED BY <1>1, <2>2
<1> HIDE DEF w
<1>5. ASSUME NEW i \in 1..(n + 1) PROVE q[w[i]] = i - 1
  <2>1. CASE i < p + 1
    <3>1. w[i] = s[i] /\ i \in 1..n
      BY <1>1, <1>4, <2>1
    <3>2. w[i] \in S /\ pos[w[i]] = i - 1
      BY <1>1, <3>1
    <3>3. ~(pos[w[i]] >= p)
      BY <1>1, <2>1, <3>2
    <3> QED BY <3>2, <3>3 DEF Opens
  <2>2. CASE i = p + 1
    BY <1>1, <1>4, <2>2
  <2>3. CASE i > p + 1
    <3>1. w[i] = s[i - 1] /\ i - 1 \in 1..n
      BY <1>1, <1>4, <2>3
    <3>2. w[i] \in S /\ pos[w[i]] = (i - 1) - 1
      BY <1>1, <3>1
    <3>3. pos[w[i]] >= p /\ pos[w[i]] + 1 = i - 1
      BY <1>1, <2>3, <3>2
    <3> QED BY <3>2, <3>3 DEF Opens
  <2> QED BY <1>1, <2>1, <2>2, <2>3
<1> HIDE DEF T
<1>6. w = Lined(T, q, n + 1)
  BY <1>2, <1>4, <1>5, LinedIs
<1> QED BY <1>6 DEF w, s, T

(* Append, under a name that proofs leave folded.                          *)
Longer(s, c) == Append(s, c)

LEMMA LinedAppend ==
    ASSUME NEW S, NEW pos, NEW n \in Nat, PositionsAre(S, pos, n), NEW c, c \notin S, NEW q
    PROVE  q[c] = n /\ Opens(q, pos, S, n)
              => Lined(S \cup {c}, q, n + 1) = Longer(Lined(S, pos, n), c)
<1>a. /\ Lined(S, pos, n) \in Seq(S) /\ Len(Lined(S, pos, n)) = n
      /\ \A i \in 1..n : Lined(S, pos, n)[i] \in S /\ pos[Lined(S, pos, n)[i]] = i - 1
  BY LinedEntries
<1> HAVE q[c] = n /\ Opens(q, pos, S, n)
<1> DEFINE s == Lined(S, pos, n)
           T == S \cup {c}
           w == Append(s, c)
<1>1. /\ s \in Seq(S) /\ Len(s) = n
      /\ \A i \in 1..n : s[i] \in S /\ pos[s[i]] = i - 1
  BY <1>a, Zenon
<1>2. PositionsAre(T, q, n + 1)
  <2>1. n \in 0..n
    OBVIOUS
  <2> QED BY <2>1, FilledGap
<1> HIDE DEF s
<1>3. s \in Seq(T) /\ c \in T
  BY <1>1, SeqMonotonic
<1> HIDE DEF T
<1>4. /\ w \in Seq(T) /\ Len(w) = n + 1
      /\ \A i \in 1..n : w[i] = s[i]
      /\ w[n + 1] = c
  BY <1>1, <1>3, AppendProperties
<1> HIDE DEF w
<1>5. ASSUME NEW i \in 1..(n + 1) PROVE q[w[i]] = i - 1
  <2>1. CASE i \in 1..n
    <3>1. w[i] \in S /\ pos[w[i]] = i - 1 /\ ~(pos[w[i]] >= n)
      BY <1>1, <1>4, <2>1
    <3> QED BY <3>1 DEF Opens
  <2>2. CASE i = n + 1
    BY <1>4, <2>2
  <2> QED BY <2>1, <2>2
<1>6. w = Lined(T, q, n + 1)
  BY <1>2, <1>4, <1>5, LinedIs
<1> QED BY <1>6 DEF w, s, T, Longer

LEMMA LinedSame ==
    ASSUME NEW S, NEW pos, NEW n, NEW q, \A d \in S : q[d] = pos[d]
    PROVE  Lined(S, q, n) = Lined(S, pos, n)
<1>1. ASSUME NEW i \in 1..n
      PROVE  (CHOOSE c \in S : q[c] = i - 1) = (CHOOSE c \in S : pos[c] = i - 1)
  <2>1. \A c : (c \in S /\ q[c] = i - 1) <=> (c \in S /\ pos[c] = i - 1)
    OBVIOUS
  <2> QED BY <2>1
<1> QED BY <1>1 DEF Lined

LEMMA LinedNone == ASSUME NEW pos PROVE Lined({}, pos, Cardinality({})) = <<>>
<1>1. Cardinality({}) = 0
  BY FS_EmptySet
<1>2. Lined({}, pos, 0) \in Seq({}) /\ Len(Lined({}, pos, 0)) = 0
  BY <1>1, NoCards, LinedEntries
<1> QED BY <1>1, <1>2, EmptySeq

(* The refinement mapping, before and after a step.                        *)
LEMMA OrderLined ==
    ASSUME SerialInv, NEW l \in Lists
    PROVE  /\ OrderOf(l) = Lined(ActiveIn(l), cardPos, Cardinality(ActiveIn(l)))
           /\ PositionsAre(ActiveIn(l), cardPos, Cardinality(ActiveIn(l)))
           /\ Cardinality(ActiveIn(l)) \in Nat
           /\ Len(OrderOf(l)) = Cardinality(ActiveIn(l))
<1>1. OrderOf(l) = Lined(ActiveIn(l), cardPos, Cardinality(ActiveIn(l)))
  BY DEF OrderOf, Lined
<1>2. PositionsAre(ActiveIn(l), cardPos, Cardinality(ActiveIn(l)))
  BY DEF SerialInv, PositionsContiguous
<1>3. Cardinality(ActiveIn(l)) \in Nat
  BY ActiveInFinite
<1> QED BY <1>1, <1>2, <1>3, LinedEntries

LEMMA OrderLinedNext ==
    ASSUME NEW l
    PROVE  OrderOf(l)' = Lined(ActiveIn(l)', cardPos', Cardinality(ActiveIn(l)'))
  BY DEF OrderOf, Lined

LEMMA OrderUntouched ==
    ASSUME NEW l, ActiveIn(l)' = ActiveIn(l), \A d \in ActiveIn(l) : cardPos'[d] = cardPos[d]
    PROVE  OrderOf(l)' = OrderOf(l)
<1>1. OrderOf(l) = Lined(ActiveIn(l), cardPos, Cardinality(ActiveIn(l)))
  BY DEF OrderOf, Lined
<1> QED BY <1>1, OrderLinedNext, LinedSame

LEMMA OrderEmptied == ASSUME NEW l, ActiveIn(l)' = {} PROVE OrderOf(l)' = <<>>
  BY OrderLinedNext, LinedNone

LEMMA OrderEmpty == ASSUME NEW l, ActiveIn(l) = {} PROVE OrderOf(l) = <<>>
  BY LinedNone DEF OrderOf, Lined

Orders == [l \in Lists |-> OrderOf(l)]

Made == {c \in Cards : cardState[c] # "absent"}

LEMMA InitOrder == Init => Order!Init
<1> SUFFICES ASSUME Init PROVE Order!Init
  OBVIOUS
<1>1. \A l \in Lists : OrderOf(l) = <<>>
  <2>1. \A l \in Lists : ActiveIn(l) = {}
    BY DEF Init, ActiveIn
  <2> QED BY <2>1, OrderEmpty
<1>2. ActiveLists = {} /\ Made = {}
  BY DEF Init, ActiveLists, Made
<1> QED BY <1>1, <1>2 DEF Init, Order!Init, NoLimit, Made

LEMMA CardsStay ==
    ASSUME cardState' = cardState, cardList' = cardList, cardPos' = cardPos
    PROVE  Orders' = Orders /\ Made' = Made
<1>1. \A l : ActiveIn(l)' = ActiveIn(l)
  BY DEF ActiveIn
<1>2. \A l \in Lists : OrderOf(l)' = OrderOf(l)
  BY <1>1, OrderUntouched
<1> QED BY <1>2 DEF Orders, Made

LEMMA StutterOrder ==
    ASSUME UNCHANGED store
    PROVE  UNCHANGED Order!vars
<1>1. Orders' = Orders /\ Made' = Made
  BY CardsStay DEF store, cards
<1>2. cardLimit' = cardLimit /\ ActiveLists' = ActiveLists
  BY DEF store, lists, ActiveLists
<1> QED BY <1>1, <1>2 DEF Order!vars, Orders, Made

LEMMA CreateListOrder ==
    ASSUME CheckedInv, NEW s \in Requests, CreateList(s)
    PROVE  Order!Next
<1> DEFINE n == req[s].newLimit
<1>1. PICK l \in Lists : /\ listState[l] = "absent"
                         /\ listState' = [listState EXCEPT ![l] = "active"]
                         /\ cardLimit' = [cardLimit EXCEPT ![l] = n]
  BY DEF CreateList
<1>2. listState \in [Lists -> States] /\ n \in Limits \cup {0}
  BY DEF CheckedInv, SerialInv, TypeInv, TypeOK, CreateList, Writing, Checked, InputsOK, NoLimit
<1>3. Orders' = Orders /\ Made' = Made
  BY CardsStay DEF CreateList, cards
<1>4. l \notin ActiveLists /\ ActiveLists' = ActiveLists \cup {l}
  BY <1>1, <1>2 DEF ActiveLists
<1> HIDE DEF n
<1>5. Order!OpenList(l, n)
  BY <1>1, <1>3, <1>4 DEF Order!OpenList, Orders, Made
<1> QED BY <1>2, <1>5 DEF Order!Next

LEMMA UpdateListOrder ==
    ASSUME CheckedInv, NEW s \in Requests, UpdateList(s)
    PROVE  [Order!Next]_(Order!vars)
<1> DEFINE l == req[s].list
           n == req[s].newLimit
<1>1. /\ listState[l] = "active" /\ l \in Lists /\ n \in Limits \cup {0, Null}
      /\ cardLimit \in [Lists -> Nat]
  BY DEF CheckedInv, SerialInv, TypeInv, TypeOK, RequestsOK, RequestOK, UpdateList, Writing,
     Checked, ListLoaded, InputsOK, NoLimit
<1>2. Orders' = Orders /\ Made' = Made
  BY CardsStay DEF UpdateList, cards
<1>3. ActiveLists' = ActiveLists /\ l \in ActiveLists
  BY <1>1 DEF UpdateList, ActiveLists
<1>4. CASE n \in {Null, req[s].limit}
  <2>1. cardLimit' = cardLimit
    BY <1>1, <1>4 DEF UpdateList
  <2> QED BY <1>2, <1>3, <2>1 DEF Order!vars, Orders, Made
<1>5. CASE n \notin {Null, req[s].limit}
  <2>1. cardLimit' = [cardLimit EXCEPT ![l] = n]
    BY <1>1, <1>5 DEF UpdateList
  <2> HIDE DEF l, n
  <2>2. Order!SetLimit(l, n)
    BY <1>2, <1>3, <2>1 DEF Order!SetLimit, Orders, Made
  <2> QED BY <1>1, <1>5, <2>2 DEF Order!Next
<1> QED BY <1>4, <1>5

LEMMA ArchiveListOrder ==
    ASSUME CheckedInv, NEW s \in Requests, ArchiveList(s)
    PROVE  Order!Next
<1> DEFINE k == req[s].list
           ls == ActiveLists \ {k}
<1>0. /\ cardState \in [Cards -> States] /\ listState \in [Lists -> States]
      /\ \A c \in Cards : cardState[c] = "active" => cardList[c] \in Lists
      /\ CardsHaveLists
  BY DEF CheckedInv, SerialInv, TypeInv, TypeOK
<1>1. /\ cardList' = cardList /\ cardPos' = cardPos /\ cardLimit' = cardLimit
      /\ cardState' = [c \in Cards |-> IF c \in ActiveIn(k) THEN "archived" ELSE cardState[c]]
      /\ listState' = [listState EXCEPT ![k] = "archived"]
  BY DEF ArchiveList
<1>2. ActiveLists' = ls
  BY <1>0, <1>1 DEF ActiveLists
<1>3. Made' = Made
  BY <1>0, <1>1 DEF Made, ActiveIn
<1>4. ASSUME NEW l \in Lists
      PROVE  OrderOf(l)' = IF l \in ls THEN OrderOf(l) ELSE <<>>
  <2>1. CASE l \in ls
    <3>1. ActiveIn(l)' = ActiveIn(l)
      BY <1>0, <1>1, <2>1 DEF ActiveIn
    <3> QED BY <1>1, <2>1, <3>1, OrderUntouched
  <2>2. CASE l \notin ls
    <3>1. ActiveIn(l)' = {}
      BY <1>0, <1>1, <2>2 DEF ActiveIn, ActiveLists, CardsHaveLists
    <3> QED BY <2>2, <3>1, OrderEmptied
  <2> QED BY <2>1, <2>2
<1> HIDE DEF ls
<1>5. Order!ChangeLists(ls)
  BY <1>1, <1>2, <1>3, <1>4 DEF Order!ChangeLists, Made
<1>6. ls \in SUBSET Lists
  BY DEF ls, ActiveLists
<1> QED BY <1>5, <1>6 DEF Order!Next

LEMMA ArchiveBoardOrder ==
    ASSUME CheckedInv, NEW s \in Requests, ArchiveBoard(s)
    PROVE  Order!Next
<1>1. /\ cardLimit' = cardLimit
      /\ \A c \in Cards : /\ cardState'[c] # "active"
                          /\ cardState'[c] = "absent" <=> cardState[c] = "absent"
      /\ \A l \in Lists : listState'[l] # "active"
  BY DEF ArchiveBoard
<1>2. ActiveLists' = {}
  BY <1>1 DEF ActiveLists
<1>3. Made' = Made
  BY <1>1 DEF Made
<1>4. \A l \in Lists : OrderOf(l)' = <<>>
  <2>1. \A l \in Lists : ActiveIn(l)' = {}
    BY <1>1 DEF ActiveIn
  <2> QED BY <2>1, OrderEmptied
<1>5. Order!ChangeLists({})
  BY <1>1, <1>2, <1>3, <1>4 DEF Order!ChangeLists, Made
<1> QED BY <1>5 DEF Order!Next

LEMMA CreateBoardOrder ==
    ASSUME SerialInv, CreateBoard
    PROVE  Order!Next
<1> DEFINE ls == ActiveLists'
<1>1. Orders' = Orders /\ Made' = Made /\ cardLimit' = cardLimit
  BY CardsStay DEF CreateBoard, cards
<1>2. \A l \in Lists : OrderOf(l) = <<>>
  <2>1. \A l \in Lists : ActiveIn(l) = {}
    BY DEF CreateBoard, SerialInv, CardsHaveLists, ActiveIn
  <2> QED BY <2>1, OrderEmpty
<1>3. Orders' = [l \in Lists |-> IF l \in ls THEN Orders[l] ELSE <<>>]
  BY <1>1, <1>2 DEF Orders
<1>4. ls \in SUBSET Lists
  BY DEF ActiveLists
<1>5. Order!ChangeLists(ls)
  BY <1>1, <1>3 DEF Order!ChangeLists, Orders, Made
<1> QED BY <1>4, <1>5 DEF Order!Next

LEMMA CreateCardOrder ==
    ASSUME CheckedInv, NEW s \in Requests, CreateCard(s)
    PROVE  Order!Next
<1>a. PICK m, n : m = req[s].list /\ n = req[s].count
  OBVIOUS
<1>0. SerialInv /\ cardState \in [Cards -> States] /\ cardPos \in [Cards -> Nat]
  BY DEF CheckedInv, SerialInv, TypeInv, TypeOK
<1>1. PICK c \in Cards :
         /\ cardState[c] = "absent" /\ cardState' = [cardState EXCEPT ![c] = "active"]
         /\ cardPos' = [cardPos EXCEPT ![c] = n]
         /\ m \in Lists /\ listState[m] = "active" /\ n = Cardinality(ActiveIn(m))
         /\ \A l \in Lists : c \notin ActiveIn(l)
         /\ \A l \in Lists : ActiveIn(l)' = IF l = m THEN ActiveIn(l) \cup {c} ELSE ActiveIn(l)
  BY <1>a, <1>0, CreateCardSets
<1>2. cardLimit' = cardLimit /\ ActiveLists' = ActiveLists /\ m \in ActiveLists
  BY <1>1 DEF CreateCard, lists, ActiveLists
<1>3. cardLimit[m] = 0 \/ n < cardLimit[m]
  <2>1. req[s].op = "createCard" /\ req[s].step = "write" /\ Checked(req[s])
    BY DEF CreateCard, Writing, CheckedInv
  <2>2. req[s].from = Null /\ Null \notin Lists
    BY <2>1, BoardsAssumption DEF Checked, InputsOK
  <2> QED BY <1>a, <1>1, <2>1, <2>2 DEF Checked, LimitChecked, NoLimit
<1>4. Made' = Made \cup {c} /\ c \notin Made
  BY <1>0, <1>1 DEF Made
<1>5. \A l \in Lists : \A d \in ActiveIn(l) : cardPos'[d] = cardPos[d]
  BY <1>0, <1>1 DEF ActiveIn
<1>6. OrderOf(m)' = Append(OrderOf(m), c)
  <2> DEFINE S == ActiveIn(m)
  <2>1. /\ OrderOf(m) = Lined(S, cardPos, n) /\ PositionsAre(S, cardPos, n) /\ n \in Nat
        /\ ActiveIn(m)' = S \cup {c} /\ c \notin S /\ cardPos'[c] = n /\ \A d \in S : cardPos'[d] = cardPos[d]
    BY <1>0, <1>1, <1>5, OrderLined
  <2>2. Cardinality(S \cup {c}) = n + 1
    BY <1>1, <2>1, ActiveInFinite, FS_AddElement
  <2>3. OrderOf(m)' = Lined(S \cup {c}, cardPos', n + 1)
    BY <2>1, <2>2, OrderLinedNext
  <2> HIDE DEF S
  <2>4. Lined(S \cup {c}, cardPos', n + 1) = Longer(Lined(S, cardPos, n), c)
    <3>1. n \in Nat /\ PositionsAre(S, cardPos, n) /\ c \notin S
      BY <2>1
    <3>2. cardPos'[c] = n
      BY <2>1
    <3>3. Opens(cardPos', cardPos, S, n)
      <4>1. \A d \in S : cardPos[d] \in 0..(n - 1)
        BY <2>1 DEF PositionsAre
      <4> QED BY <2>1, <4>1 DEF Opens
    <3> QED BY <3>1, <3>2, <3>3, LinedAppend
  <2> QED BY <2>1, <2>3, <2>4 DEF Longer
<1>7. \A l \in Lists : l # m => OrderOf(l)' = OrderOf(l)
  BY <1>1, <1>5, OrderUntouched
<1>8. Orders' = [Orders EXCEPT ![m] = Append(@, c)]
  BY <1>1, <1>6, <1>7 DEF Orders
<1>9. Len(Orders[m]) = n /\ m \in Lists
  BY <1>0, <1>1, OrderLined DEF Orders
<1>10. Order!Append_(c, m)
  BY <1>2, <1>3, <1>4, <1>8, <1>9 DEF Order!Append_, Order!HasRoom, Orders, Made
<1> QED BY <1>9, <1>10 DEF Order!Next

LEMMA ArchiveCardOrder ==
    ASSUME CheckedInv, NEW s \in Requests, ArchiveCard(s)
    PROVE  Order!Next
<1> DEFINE r == req[s]
<1>a. PICK c, m : c = r.card /\ m = r.from
  OBVIOUS
<1>0. /\ SerialInv /\ r.step = "write" /\ r.op = "archiveCard" /\ c \in Cards /\ m \in Lists
      /\ cardState[c] = "active" /\ m = cardList[c] /\ r.at = cardPos[c]
      /\ cardState \in [Cards -> States] /\ cardPos \in [Cards -> Nat]
      /\ cardState' = [cardState EXCEPT ![c] = "archived"] /\ cardList' = cardList
      /\ cardPos' = CloseGap(cardPos, m, r.at, c)
      /\ cardLimit' = cardLimit /\ listState' = listState
  BY <1>a DEF CheckedInv, SerialInv, TypeInv, TypeOK, RequestsOK, RequestOK, ArchiveCard, Writing,
     Current, CardCurrent, lists
<1>1. /\ c \in ActiveIn(m)
      /\ \A l \in Lists : ActiveIn(l)' = IF l = m THEN ActiveIn(l) \ {c} ELSE ActiveIn(l)
  BY <1>0 DEF ActiveIn
<1>2. ActiveLists' = ActiveLists
  BY <1>0 DEF ActiveLists
<1>3. Made' = Made
  BY <1>0 DEF Made
<1>4. OrderOf(m)' = Order!Without(OrderOf(m), c)
  <2> DEFINE S == ActiveIn(m)
             n == Cardinality(S)
  <2>1. OrderOf(m) = Lined(S, cardPos, n) /\ PositionsAre(S, cardPos, n) /\ n \in Nat
    BY <1>0, OrderLined
  <2>2. Closes(cardPos', cardPos, S \ {c}, cardPos[c])
    BY <1>0 DEF Closes, CloseGap, ActiveIn
  <2>3. Cardinality(S \ {c}) = n - 1
    BY <1>1, <2>1, ActiveInFinite, FS_RemoveElement
  <2>4. OrderOf(m)' = Lined(S \ {c}, cardPos', n - 1)
    BY <1>0, <1>1, <2>3, OrderLinedNext
  <2> HIDE DEF n
  <2>5. Order!Without(Lined(S, cardPos, n), c) = Lined(S \ {c}, cardPos', n - 1)
    BY <1>1, <2>1, <2>2, LinedWithout
  <2> QED BY <2>1, <2>4, <2>5
<1>5. ASSUME NEW l \in Lists, l # m PROVE OrderOf(l)' = OrderOf(l)
  <2>1. \A d \in ActiveIn(l) : cardPos'[d] = cardPos[d]
    BY <1>0, <1>5 DEF CloseGap, ActiveIn
  <2> QED BY <1>1, <1>5, <2>1, OrderUntouched
<1>6. Order!Contains(OrderOf(m), c)
  BY <1>0, <1>1, OrderLined, LinedContains
<1>7. Orders' = [Orders EXCEPT ![m] = Order!Without(@, c)]
  BY <1>0, <1>4, <1>5 DEF Orders
<1>8. Order!Remove_(c, m)
  BY <1>0, <1>2, <1>3, <1>6, <1>7 DEF Order!Remove_, Orders, Made
<1> QED BY <1>0, <1>8 DEF Order!Next

LEMMA MoveCardOrder ==
    ASSUME CheckedInv, NEW s \in Requests, MoveCard(s)
    PROVE  Order!Next
<1> DEFINE r == req[s]
<1>a. PICK c, m, f, k : c = r.card /\ m = r.list /\ f = r.from /\ k = NextPosition(r)
  OBVIOUS
<1> DEFINE closed == CloseGap(cardPos, r.from, r.at, c)
           Rest(l) == ActiveIn(l) \ {c}
<1>0. /\ SerialInv /\ c \in Cards /\ f \in Lists /\ m \in Lists
      /\ r.op = "moveCard" /\ r.step = "write" /\ listState[m] = "active"
      /\ r.count = Cardinality(Rest(m)) /\ r.count \in Nat
      /\ \A l \in Lists : c \in ActiveIn(l) <=> l = f
      /\ \A l \in Lists : ActiveIn(l)' = IF l = m THEN Rest(l) \cup {c} ELSE Rest(l)
  BY <1>a, MoveCardSets DEF CheckedInv
<1>1. /\ k \in 0..r.count
      /\ \A l \in Lists :
            /\ PositionsAre(Rest(l), closed, Cardinality(Rest(l)))
            /\ c \in ActiveIn(l) => Closes(closed, cardPos, Rest(l), cardPos[c])
            /\ c \notin ActiveIn(l) => \A d \in ActiveIn(l) : closed[d] = cardPos[d]
            /\ l # m => \A d \in Rest(l) : cardPos'[d] = closed[d]
      /\ cardPos'[c] = k
      /\ Opens(cardPos', closed, Rest(m), k)
  BY <1>a, <1>0, MoveCardParts
<1>2. cardLimit' = cardLimit /\ ActiveLists' = ActiveLists /\ m \in ActiveLists
  BY <1>0 DEF MoveCard, lists, ActiveLists
<1>3. m = f \/ cardLimit[m] = 0 \/ r.count < cardLimit[m]
  BY <1>a, <1>0 DEF CheckedInv, Checked, LimitChecked, NoLimit
<1>4. Made' = Made
  BY DEF MoveCard, Made
<1> HIDE DEF closed
<1>5. ASSUME NEW l \in Lists
      PROVE  /\ Order!Without(OrderOf(l), c) = Lined(Rest(l), closed, Cardinality(Rest(l)))
             /\ Cardinality(Rest(l)) \in Nat
             /\ Cardinality(Rest(l)) <= Len(OrderOf(l))
             /\ c \notin ActiveIn(l) => Cardinality(Rest(l)) = Len(OrderOf(l))
  <2> DEFINE S == ActiveIn(l)
             n == Cardinality(S)
  <2>1. /\ OrderOf(l) = Lined(S, cardPos, n) /\ PositionsAre(S, cardPos, n) /\ n \in Nat
        /\ Len(OrderOf(l)) = n
    BY <1>0, OrderLined
  <2>2. CASE c \in S
    <3>1. Cardinality(S \ {c}) = n - 1 /\ n - 1 \in Nat
      <4>1. IsFiniteSet(S) /\ IsFiniteSet(S \ {c})
        BY ActiveInFinite, FS_Subset
      <4>2. Cardinality(S \ {c}) \in Nat
        BY <4>1, FS_CardinalityType
      <4> QED BY <2>2, <4>1, <4>2, FS_RemoveElement
    <3>2. Closes(closed, cardPos, S \ {c}, cardPos[c])
      BY <1>1, <2>2
    <3> HIDE DEF n
    <3>3. Order!Without(Lined(S, cardPos, n), c) = Lined(S \ {c}, closed, n - 1)
      BY <2>1, <2>2, <3>2, LinedWithout
    <3> QED BY <2>1, <2>2, <3>1, <3>3
  <2>3. CASE c \notin S
    <3>1. S \ {c} = S /\ \A d \in S : closed[d] = cardPos[d]
      BY <1>1, <2>3
    <3>2. Lined(S, closed, n) = Lined(S, cardPos, n)
      BY <3>1, LinedSame
    <3>3. Order!Without(Lined(S, cardPos, n), c) = Lined(S, cardPos, n)
      BY <2>1, <2>3, LinedWithoutOther
    <3> QED BY <2>1, <3>1, <3>2, <3>3, SMTT(60)
  <2> QED BY <2>2, <2>3
<1>6. OrderOf(m)' = Order!InsertAt(Order!Without(OrderOf(m), c), k + 1, c)
  <2> DEFINE R == Rest(m)
             n == r.count
  <2>1. /\ n = Cardinality(R) /\ n \in Nat /\ PositionsAre(R, closed, n) /\ c \notin R
        /\ k \in 0..n /\ cardPos'[c] = k /\ Opens(cardPos', closed, R, k)
        /\ Order!Without(OrderOf(m), c) = Lined(R, closed, n)
        /\ ActiveIn(m)' = R \cup {c}
    BY <1>0, <1>1, <1>5
  <2>2. Cardinality(R \cup {c}) = n + 1
    <3>1. IsFiniteSet(R)
      BY ActiveInFinite, FS_Subset
    <3> QED BY <2>1, <3>1, FS_AddElement
  <2>3. OrderOf(m)' = Lined(R \cup {c}, cardPos', n + 1)
    BY <2>1, <2>2, OrderLinedNext
  <2> HIDE DEF R, n
  <2>4. Order!InsertAt(Lined(R, closed, n), k + 1, c) = Lined(R \cup {c}, cardPos', n + 1)
    BY <2>1, LinedInsert
  <2> QED BY <2>1, <2>3, <2>4
<1>7. ASSUME NEW l \in Lists, l # m PROVE OrderOf(l)' = Order!Without(OrderOf(l), c)
  <2>1. ActiveIn(l)' = Rest(l) /\ \A d \in Rest(l) : cardPos'[d] = closed[d]
    BY <1>0, <1>1, <1>7
  <2>2. OrderOf(l)' = Lined(Rest(l), cardPos', Cardinality(Rest(l)))
    BY <2>1, OrderLinedNext
  <2>3. Lined(Rest(l), cardPos', Cardinality(Rest(l))) = Lined(Rest(l), closed, Cardinality(Rest(l)))
    BY <2>1, LinedSame
  <2> QED BY <1>5, <2>2, <2>3
<1>8. Order!Contains(OrderOf(f), c)
  BY <1>0, OrderLined, LinedContains
<1>9. k \in 0..Len(Order!Without(OrderOf(m), c)) /\ k \in 0..Len(OrderOf(m))
  <2>1. Len(Order!Without(OrderOf(m), c)) = r.count
    BY <1>0, <1>1, <1>5, LinedEntries
  <2>2. OrderOf(m) = Lined(ActiveIn(m), cardPos, Cardinality(ActiveIn(m)))
        /\ Len(OrderOf(m)) \in Nat /\ r.count <= Len(OrderOf(m))
    BY <1>0, <1>5, OrderLined
  <2> QED BY <1>0, <1>1, <2>1, <2>2
<1>10. m = f \/ cardLimit[m] = 0 \/ Len(OrderOf(m)) < cardLimit[m]
  BY <1>0, <1>3, <1>5
<1>11. f \in Lists /\ m \in Lists /\ c \in Cards
  BY <1>0
<1>12. Order!Move(c, f, m, k)
  BY <1>2, <1>4, <1>6, <1>7, <1>8, <1>9, <1>10, <1>11 DEF Order!Move, Order!HasRoom, Made
<1> QED BY <1>9, <1>11, <1>12 DEF Order!Next

(* When requests do not overlap, every step of every handler is a step of  *)
(* CardOrder or changes nothing a reader of the board sees: for any cards, *)
(* lists and limits, positions are only a way of keeping sequences.        *)
THEOREM KeepsCardOrder == Spec => ImplementsCardOrder
<1>1. Init => (OneAtATime => Order!Init)
  BY InitOrder
<1>2. (OneAtATime => CheckedInv) /\ [Next]_vars
         => [OneAtATime => [Order!Next]_(Order!vars)]_vars
  <2> SUFFICES ASSUME OneAtATime, CheckedInv, Next PROVE [Order!Next]_(Order!vars)
    OBVIOUS
  <2>1. ASSUME NEW s \in Requests, Start(s) \/ Read(s) PROVE UNCHANGED Order!vars
    <3>1. UNCHANGED store
      BY <2>1 DEF Start, StartCreateList, StartUpdateList, StartArchiveList, StartCreateCard,
         StartMoveCard, StartArchiveCard, StartArchiveBoard, Begin, Read, LoadCard, LoadList,
         CountLists, CountCards, Refuse, Advance
    <3> QED BY <3>1, StutterOrder
  <2>2. CreateBoard => Order!Next
    BY CreateBoardOrder DEF CheckedInv
  <2>3. ASSUME NEW s \in Requests, Write(s) PROVE [Order!Next]_(Order!vars)
    BY <2>3, CreateListOrder, UpdateListOrder, ArchiveListOrder, CreateCardOrder, MoveCardOrder,
       ArchiveCardOrder, ArchiveBoardOrder DEF Write
  <2> QED BY <2>1, <2>2, <2>3 DEF Next
<1> QED BY <1>1, <1>2, CheckedAlways, PTL DEF Spec, ImplementsCardOrder
=============================================================================
