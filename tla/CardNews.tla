------------------------------ MODULE CardNews ------------------------------
(***************************************************************************)
(* What the people of a card are told about it: createCard, updateCard,    *)
(* moveCard and archiveCard of services/board.service with cardWatchers    *)
(* and notifyAboutCard, for one card.                                      *)
(*                                                                         *)
(* A handler loads the card, saves the paths that changed in memory, and   *)
(* then sends one notice after the other, worked out from the card as it   *)
(* was loaded and as it was saved.  A notice counts as told when notify    *)
(* has taken it; Delivery follows it from there.                           *)
(***************************************************************************)
EXTENDS Naturals, Sequences, FiniteSets

CONSTANTS
    People,
    NewsSlots,  \* requests in flight
    Nobody,
    NewsMixes   \* bound: what each slot may ask for (does), who there is
                \* (there), and whether they leave and join the workspace
                \* (turnover) and notices may fail (failing); a behaviour
                \* keeps to one of these

NewsOps == {"create", "assign", "complete", "rename", "move", "archive"}

ASSUME CardNewsAssumption ==
    /\ Nobody \notin People
    /\ NewsMixes \subseteq [does : [NewsSlots -> SUBSET NewsOps], there : SUBSET People,
                            turnover : BOOLEAN, failing : BOOLEAN]

VARIABLES
    cardState,  \* the card: "none", "active" or "archived" ...
    creator,    \* ... its createdBy ...
    assignees,  \* ... its assignees ...
    done,       \* ... whether completedAt is set ...
    column,     \* ... and its list, one of two
    staff,      \* the members of the workspace
    newsReq,    \* the requests in flight
    heardOn,    \* who knows to be assigned: told so last, or asked for it
    heardOf,    \* what the creator knows of the card, likewise
    unheard,    \* ghost: users a notice was lost for
    newsMix

theCard == <<cardState, creator, assignees, done, column>>
heard == <<heardOn, heardOf, unheard>>
newsVars == <<theCard, staff, newsReq, heard, newsMix>>

Columns == {1, 2}
UpdateOps == {"assign", "complete", "rename"}
Notices == {"assigned", "unassigned", "done", "reopened", "updated", "moved", "archived"}
Knowledge == [done : BOOLEAN, column : Columns, archived : BOOLEAN]

(* ops: what the request changes; want, completed, target: to what; loaded *)
(* assignees, done and column: the card in memory; stale: the assignees    *)
(* were saved by another request since.                                    *)
NewsRequest ==
    [step : {"idle", "load", "check", "save", "tell"}, ops : SUBSET NewsOps,
     actor : People \cup {Nobody}, want : SUBSET People, completed : BOOLEAN,
     target : Columns, assignees : SUBSET People, done : BOOLEAN, column : Columns,
     stale : BOOLEAN, todo : Seq([kind : Notices, to : SUBSET People])]

NoNewsRequest ==
    [step |-> "idle", ops |-> {}, actor |-> Nobody, want |-> {}, completed |-> FALSE,
     target |-> 1, assignees |-> {}, done |-> FALSE, column |-> 1, stale |-> FALSE,
     todo |-> <<>>]

CardNewsTypeOK ==
    /\ cardState \in {"none", "active", "archived"}
    /\ creator \in People \cup {Nobody}
    /\ assignees \in SUBSET People
    /\ done \in BOOLEAN /\ column \in Columns
    /\ staff \in SUBSET People
    /\ newsReq \in [NewsSlots -> NewsRequest]
    /\ heardOn \in SUBSET People
    /\ heardOf \in Knowledge
    /\ unheard \in SUBSET People
    /\ newsMix \in NewsMixes

CardNewsInit ==
    /\ newsMix \in NewsMixes
    /\ cardState = "none" /\ creator = Nobody /\ assignees = {}
    /\ done = FALSE /\ column = 1
    /\ staff = newsMix.there
    /\ newsReq = [s \in NewsSlots |-> NoNewsRequest]
    /\ heardOn = {} /\ unheard = {}
    /\ heardOf = [done |-> FALSE, column |-> 1, archived |-> FALSE]

-----------------------------------------------------------------------------
(* Requests                                                                *)

Ask(s, request) ==
    /\ newsReq[s].step = "idle"
    /\ (cardState = "none") = (request.ops = {"create"})
    /\ newsReq' = [newsReq EXCEPT ![s] = request]
    /\ UNCHANGED <<theCard, staff, heard, newsMix>>

AskCreate(s) ==
    /\ "create" \in newsMix.does[s]
    /\ \A t \in NewsSlots : newsReq[t].step = "idle"
    /\ \E actor \in staff, want \in SUBSET newsMix.there :
          Ask(s, [NoNewsRequest EXCEPT !.step = "check", !.ops = {"create"},
                                       !.actor = actor, !.want = want])

AskUpdate(s) ==
    \E ops \in (SUBSET (newsMix.does[s] \cap UpdateOps)) \ {{}}, actor \in staff,
       want \in SUBSET newsMix.there, completed \in BOOLEAN :
        /\ "assign" \notin ops => want = {}
        /\ "complete" \notin ops => ~completed
        /\ Ask(s, [NoNewsRequest EXCEPT !.step = "load", !.ops = ops, !.actor = actor,
                                        !.want = want, !.completed = completed])

AskMove(s) ==
    /\ "move" \in newsMix.does[s]
    /\ \E actor \in staff, target \in Columns :
          Ask(s, [NoNewsRequest EXCEPT !.step = "load", !.ops = {"move"},
                                       !.actor = actor, !.target = target])

AskArchive(s) ==
    /\ "archive" \in newsMix.does[s]
    /\ \E actor \in staff :
          Ask(s, [NoNewsRequest EXCEPT !.step = "load", !.ops = {"archive"}, !.actor = actor])

Drop(s) ==
    /\ newsReq' = [newsReq EXCEPT ![s] = NoNewsRequest]
    /\ UNCHANGED <<theCard, staff, heard, newsMix>>

(* loadCard: the card as it is now; archived, it is not found.             *)
LoadTheCard(s) ==
    /\ newsReq[s].step = "load"
    /\ cardState = "active"
    /\ newsReq' = [newsReq EXCEPT ![s].step = IF "assign" \in newsReq[s].ops
                                              THEN "check" ELSE "save",
                                  ![s].assignees = assignees, ![s].done = done,
                                  ![s].column = column]
    /\ UNCHANGED <<theCard, staff, heard, newsMix>>

CardGone(s) ==
    /\ newsReq[s].step = "load"
    /\ cardState # "active"
    /\ Drop(s)

(* assertMembers                                                           *)
AssertMembers(s) ==
    /\ newsReq[s].step = "check"
    /\ newsReq[s].want \subseteq staff
    /\ newsReq' = [newsReq EXCEPT ![s].step = "save"]
    /\ UNCHANGED <<theCard, staff, heard, newsMix>>

AssigneeNotMember(s) ==
    /\ newsReq[s].step = "check"
    /\ ~(newsReq[s].want \subseteq staff)
    /\ Drop(s)

-----------------------------------------------------------------------------
(* Saving                                                                  *)

Notice(kind, to) == IF to = {} THEN <<>> ELSE <<[kind |-> kind, to |-> to]>>

(* The card as request r leaves it in memory, and who watches it.          *)
AssigneesOf(r) == IF r.ops \cap {"create", "assign"} # {} THEN r.want ELSE r.assignees
DoneOf(r) == IF "complete" \in r.ops THEN r.completed ELSE r.done
WatchersOf(r, by) == AssigneesOf(r) \cup {by}

\* Mutant: the assignees before are read after the new ones were set.
UpdateNewsLate(r) ==
    (IF DoneOf(r) = r.done THEN <<>>
     ELSE Notice(IF DoneOf(r) THEN "done" ELSE "reopened", WatchersOf(r, creator)))
    \o (IF "rename" \in r.ops THEN Notice("updated", WatchersOf(r, creator)) ELSE <<>>)

(* What updateCard sends, in its order.                                    *)
UpdateNews(r) ==
    LET now == AssigneesOf(r)
        added == now \ r.assignees
    IN  Notice("assigned", added)
        \o Notice("unassigned", r.assignees \ now)
        \o (IF DoneOf(r) = r.done THEN <<>>
            ELSE Notice(IF DoneOf(r) THEN "done" ELSE "reopened", WatchersOf(r, creator)))
        \o (IF "rename" \in r.ops THEN Notice("updated", WatchersOf(r, creator) \ added)
            ELSE <<>>)

(* The actor needs no notice of what the request asked for.                *)
ActorKnows(r, by) ==
    /\ heardOn' = IF r.ops \cap {"create", "assign"} = {} THEN heardOn
                  ELSE (heardOn \ {r.actor}) \cup ({r.actor} \cap r.want)
    /\ heardOf' = IF r.actor # by THEN heardOf
                  ELSE [done |-> IF "complete" \in r.ops THEN r.completed ELSE heardOf.done,
                        column |-> IF "move" \in r.ops THEN r.target ELSE heardOf.column,
                        archived |-> heardOf.archived \/ "archive" \in r.ops]
    /\ UNCHANGED unheard

Tells(s, todo) ==
    newsReq' = [newsReq EXCEPT ![s] = IF todo = <<>> THEN NoNewsRequest
                                      ELSE [@ EXCEPT !.step = "tell", !.todo = todo]]

MakeCard(s) ==
    LET r == newsReq[s]
    IN  /\ r.step = "save" /\ "create" \in r.ops
        /\ cardState' = "active" /\ creator' = r.actor /\ assignees' = r.want
        /\ Tells(s, Notice("assigned", r.want))
        /\ ActorKnows(r, r.actor)
        /\ UNCHANGED <<done, column, staff, newsMix>>

NewAssignees(r) == AssigneesOf(r) # r.assignees

(* Only what differs from the loaded card is written.                      *)
SaveCard(s) ==
    LET r == newsReq[s]
    IN  /\ r.step = "save" /\ r.ops \subseteq UpdateOps
        /\ assignees' = IF NewAssignees(r) THEN r.want ELSE assignees
        /\ done' = IF DoneOf(r) # r.done THEN r.completed ELSE done
        /\ LET todo == UpdateNews(r)
           IN  newsReq' = [t \in NewsSlots |->
                             IF t # s
                             THEN [newsReq[t] EXCEPT !.stale = @ \/ NewAssignees(r)]
                             ELSE IF todo = <<>> THEN NoNewsRequest
                             ELSE [r EXCEPT !.step = "tell", !.todo = todo]]
        /\ ActorKnows(r, creator)
        /\ UNCHANGED <<cardState, creator, column, staff, newsMix>>

(* Mongoose may instead refuse to replace an array that another save has   *)
(* replaced since it was loaded.                                           *)
SaveRefused(s) ==
    /\ newsReq[s].step = "save" /\ newsReq[s].ops \subseteq UpdateOps
    /\ NewAssignees(newsReq[s]) /\ newsReq[s].stale
    /\ Drop(s)

SaveMove(s) ==
    LET r == newsReq[s]
    IN  /\ r.step = "save" /\ "move" \in r.ops
        /\ column' = IF r.target # r.column THEN r.target ELSE column
        /\ Tells(s, IF r.target # r.column THEN Notice("moved", WatchersOf(r, creator)) ELSE <<>>)
        /\ ActorKnows(r, creator)
        /\ UNCHANGED <<cardState, creator, assignees, done, staff, newsMix>>

SaveArchive(s) ==
    LET r == newsReq[s]
    IN  /\ r.step = "save" /\ "archive" \in r.ops
        /\ cardState' = "archived"
        /\ Tells(s, Notice("archived", WatchersOf(r, creator)))
        /\ ActorKnows(r, creator)
        /\ UNCHANGED <<creator, assignees, done, column, staff, newsMix>>

-----------------------------------------------------------------------------
(* Telling                                                                 *)

(* A notice reaches its recipients except the actor.                       *)
Told(kind, to, r) ==
    /\ heardOn' = CASE kind = "assigned" -> heardOn \cup to
                    [] kind = "unassigned" -> heardOn \ to
                    [] OTHER -> heardOn
    /\ heardOf' = IF creator \notin to THEN heardOf
                  ELSE CASE kind \in {"done", "reopened"} -> [heardOf EXCEPT !.done = (kind = "done")]
                         [] kind = "moved" -> [heardOf EXCEPT !.column = r.target]
                         [] kind = "archived" -> [heardOf EXCEPT !.archived = TRUE]
                         [] OTHER -> heardOf

Tell(s) ==
    LET r == newsReq[s]
    IN  /\ r.step = "tell"
        /\ Told(Head(r.todo).kind, Head(r.todo).to \ {r.actor}, r)
        /\ Tells(s, Tail(r.todo))
        /\ UNCHANGED <<theCard, staff, unheard, newsMix>>

(* notify throws, and with it the handler: the notices left are not sent.  *)
TellFails(s) ==
    /\ newsMix.failing
    /\ newsReq[s].step = "tell"
    /\ unheard' = unheard \cup UNION {newsReq[s].todo[i].to : i \in DOMAIN newsReq[s].todo}
    /\ newsReq' = [newsReq EXCEPT ![s] = NoNewsRequest]
    /\ UNCHANGED <<theCard, staff, heardOn, heardOf, newsMix>>

(* removeMember takes nobody off a card.                                   *)
Turnover(u) ==
    /\ newsMix.turnover /\ u \in newsMix.there
    /\ staff' = IF u \in staff THEN staff \ {u} ELSE staff \cup {u}
    /\ UNCHANGED <<theCard, newsReq, heard, newsMix>>

CardNewsNext ==
    \/ \E s \in NewsSlots :
          \/ AskCreate(s) \/ AskUpdate(s) \/ AskMove(s) \/ AskArchive(s)
          \/ LoadTheCard(s) \/ CardGone(s) \/ AssertMembers(s) \/ AssigneeNotMember(s)
          \/ MakeCard(s) \/ SaveCard(s) \/ SaveRefused(s) \/ SaveMove(s) \/ SaveArchive(s)
          \/ Tell(s) \/ TellFails(s)
    \/ \E u \in People : Turnover(u)

CardNewsSpec == CardNewsInit /\ [][CardNewsNext]_newsVars

-----------------------------------------------------------------------------
(* One request at a time may do one of ops, and none is doing it now.      *)
Solo(ops) ==
    \A s, t \in NewsSlots :
        newsMix.does[s] \cap ops # {} /\ newsMix.does[t] \cap ops # {} => s = t

Calm(ops) == Solo(ops) /\ \A s \in NewsSlots : newsReq[s].ops \cap ops = {}

(* Everyone whom no failed notice was meant for knows what the card is:    *)
(* all of them whether they are assigned to it, its creator also whether   *)
(* it is done, where it is, and that it is archived; each as soon as the   *)
(* requests that change it are over, if those do not overlap each other,   *)
(* and whatever else overlaps them.                                        *)
HeardMatchesCard ==
    /\ Calm({"assign", "create"}) =>
          \A u \in People \ unheard : u \in heardOn <=> u \in assignees
    /\ creator # Nobody /\ creator \notin unheard =>
          /\ Calm({"complete"}) => heardOf.done = done
          /\ Calm({"move"}) => heardOf.column = column
          /\ Calm({"archive"}) => (heardOf.archived <=> cardState = "archived")
=============================================================================
