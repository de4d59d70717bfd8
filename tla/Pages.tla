------------------------------- MODULE Pages --------------------------------
(***************************************************************************)
(* The pages of one workspace: services/page.service over models/page and  *)
(* models/pageRevision.  A page stores its parent and the path of all its  *)
(* ancestors; moving it rewrites the paths of its descendants.  An edit    *)
(* files the text it replaces as a revision.                               *)
(*                                                                         *)
(* Every await before a write is a step, and the write itself, one         *)
(* transaction, is the last one.  Positions among siblings, which no       *)
(* handler compares or keeps apart, are left out.                          *)
(***************************************************************************)
EXTENDS Naturals, Sequences, FiniteSets, Functions

CONSTANTS
    Pages,        \* page ids
    Editable,     \* bound: the pages whose text clients edit
    Texts,        \* what a page may say
    Blank,        \* what a new page says
    Requests,     \* slots for requests in flight
    Mixes,        \* bound: what clients ask for (ops), which slots they use (slots)
                  \* and how many pages there are at most (pages); a behaviour
                  \* keeps to one of these
    MaxPath,      \* bound: no move starts while a path is longer
    MaxDepth,     \* MAX_DEPTH
    MaxVersion,   \* bound: no request edits a page that is at it
    Null

ASSUME PagesAssumption ==
    /\ Null \notin Pages \cup Seq(Pages)
    /\ Editable \subseteq Pages
    /\ Mixes \subseteq [ops : SUBSET {"create", "move", "archive", "edit", "restore"},
                        slots : SUBSET Requests, pages : Nat]
    /\ MaxPath \in Nat
    /\ MaxDepth \in Nat /\ MaxVersion \in Nat

VARIABLES
    state,      \* a page: "absent", "active" or "archived" ...
    parent,     \* ... its parent, Null at the top ...
    path,       \* ... its ancestors, the topmost first ...
    version,    \* ... its version, 0 before it exists ...
    text,       \* ... what it says ...
    history,    \* ... and its revisions
    req,        \* the requests in flight
    mix         \* what clients ask for

tree == <<state, parent, path>>
texts == <<version, text, history>>
vars == <<tree, texts, req, mix>>

Said == Texts \cup {Blank}

Ops == {"none", "create", "move", "archive", "edit", "restore"}

Steps == {"idle", "load", "kids", "parent", "revision", "write"}

(***************************************************************************)
(* What a handler holds: the page and the parent it was asked for; of the  *)
(* loaded page its parent (from), path (at), version and text; whether     *)
(* nobody has saved that page's path since (the __v of Mongoose, fresh);   *)
(* the descendants' paths; the path under the new parent; the new text and *)
(* the version to restore.                                                 *)
(***************************************************************************)
Paths == Seq(Pages)

Request ==
    [op : Ops, step : Steps, page : Pages \cup {Null}, target : Pages \cup {Null},
     from : Pages \cup {Null}, at : Paths, fresh : BOOLEAN,
     kids : [Pages -> Paths \cup {Null}], under : Paths,
     version : Nat, text : Said, newText : Said, wanted : Nat]

NoKids == [p \in Pages |-> Null]

Idle ==
    [op |-> "none", step |-> "idle", page |-> Null, target |-> Null,
     from |-> Null, at |-> <<>>, fresh |-> TRUE, kids |-> NoKids, under |-> <<>>,
     version |-> 0, text |-> Blank, newText |-> Blank, wanted |-> 0]

TypeOK ==
    /\ state \in [Pages -> {"absent", "active", "archived"}]
    /\ parent \in [Pages -> Pages \cup {Null}]
    /\ path \in [Pages -> Paths]
    /\ version \in [Pages -> Nat]
    /\ text \in [Pages -> Said]
    /\ history \in [Pages -> SUBSET [version : Nat, text : Said]]
    /\ req \in [Requests -> Request]
    /\ mix \in Mixes
    /\ \A p \in Pages : state[p] = "absent" <=> version[p] = 0

Made == {p \in Pages : state[p] # "absent"}

On(p, steps) == \E i \in 1..Len(steps) : steps[i] = p

(* The query { path: page._id }, which finds archived pages too.           *)
Below(p) == {c \in Made : On(p, path[c])}

Init ==
    /\ state = [p \in Pages |-> "absent"]
    /\ parent = [p \in Pages |-> Null]
    /\ path = [p \in Pages |-> <<>>]
    /\ version = [p \in Pages |-> 0]
    /\ text = [p \in Pages |-> Blank]
    /\ history = [p \in Pages |-> {}]
    /\ req = [s \in Requests |-> Idle]
    /\ mix \in Mixes

-----------------------------------------------------------------------------
Begin(s, r) ==
    /\ req[s] = Idle
    /\ s \in mix.slots /\ r.op \in mix.ops
    /\ req' = [req EXCEPT ![s] = r]
    /\ UNCHANGED <<tree, texts, mix>>

(* resolveParent answers at once when there is no parent to load.          *)
Resolving(r) == [r EXCEPT !.step = IF r.target = Null THEN "write" ELSE "parent"]

StartCreate(s) ==
    \E q \in Made \cup {Null} :
        Begin(s, Resolving([Idle EXCEPT !.op = "create", !.target = q]))

StartMove(s) ==
    \E p \in Made, q \in Made \cup {Null} :
        /\ \A c \in Made : Len(path[c]) <= MaxPath
        /\ Begin(s, [Idle EXCEPT !.op = "move", !.step = "load", !.page = p, !.target = q])

StartArchive(s) ==
    \E p \in Made : Begin(s, [Idle EXCEPT !.op = "archive", !.step = "load", !.page = p])

StartEdit(s) ==
    \E p \in Made \cap Editable, t \in Texts :
        /\ version[p] < MaxVersion
        /\ Begin(s, [Idle EXCEPT !.op = "edit", !.step = "load", !.page = p, !.newText = t])

StartRestore(s) ==
    \E p \in Made \cap Editable, v \in 1..MaxVersion :
        /\ version[p] < MaxVersion
        /\ Begin(s, [Idle EXCEPT !.op = "restore", !.step = "load", !.page = p, !.wanted = v])

-----------------------------------------------------------------------------
Advance(s, r) ==
    /\ req' = [req EXCEPT ![s] = r]
    /\ UNCHANGED <<tree, texts, mix>>

Refuse(s) == Advance(s, Idle)

AfterLoad(op) ==
    CASE op = "move" -> "kids" [] op = "restore" -> "revision" [] OTHER -> "write"

(* loadPage, and in movePage the comparison of page and parent ids.        *)
LoadPage(s) ==
    LET r == req[s]
        p == r.page
        refused == state[p] # "active" \/ (r.op = "move" /\ r.target = p)
    IN  /\ r.step = "load"
        /\ \/ refused /\ Refuse(s)
           \/ /\ ~refused
              /\ Advance(s, IF r.op = "move"
                   THEN [r EXCEPT !.step = "kids", !.from = parent[p], !.at = path[p],
                                  !.fresh = TRUE]
                   ELSE IF r.op = "archive" THEN [r EXCEPT !.step = "write"]
                   ELSE [r EXCEPT !.step = AfterLoad(r.op), !.version = version[p],
                                  !.text = text[p]])

(* movePage reads the subtree and refuses a parent inside it.              *)
FindKids(s) ==
    LET r == req[s]
        below == Below(r.page)
    IN  /\ r.step = "kids"
        /\ \/ r.target \in below /\ Refuse(s)
           \/ /\ r.target \notin below
              /\ Advance(s, Resolving([r EXCEPT
                    !.kids = [c \in Pages |-> IF c \in below THEN path[c] ELSE Null]]))

(* resolveParent: the depth of the parent is checked, and only that.       *)
ResolveParent(s) ==
    LET r == req[s]
        q == r.target
        refused == state[q] # "active" \/ Len(path[q]) >= MaxDepth
    IN  /\ r.step = "parent"
        /\ \/ refused /\ Refuse(s)
           \/ /\ ~refused
              /\ Advance(s, [r EXCEPT !.step = "write", !.under = Append(path[q], q)])

(* restoreRevision looks the wanted revision up.                           *)
FindRevision(s) ==
    LET r == req[s]
        found == {h \in history[r.page] : h.version = r.wanted}
    IN  /\ r.step = "revision"
        /\ \/ found = {} /\ Refuse(s)
           \/ \E h \in found : Advance(s, [r EXCEPT !.step = "write", !.newText = h.text])

-----------------------------------------------------------------------------
(* The writes.                                                             *)

Writing(s, ops) == req[s].step = "write" /\ req[s].op \in ops

\* Mutant: the version has no default.
CreatePageUnversioned(s) ==
    LET r == req[s]
    IN  /\ Writing(s, {"create"})
        /\ Cardinality(Made) < mix.pages
        /\ \E p \in Pages \ Made :
              /\ state' = [state EXCEPT ![p] = "active"]
              /\ parent' = [parent EXCEPT ![p] = r.target]
              /\ path' = [path EXCEPT ![p] = r.under]
        /\ req' = [req EXCEPT ![s] = Idle]
        /\ UNCHANGED <<texts, mix>>

CreatePage(s) ==
    LET r == req[s]
    IN  /\ Writing(s, {"create"})
        /\ Cardinality(Made) < mix.pages
        /\ \E p \in Pages \ Made :
              /\ state' = [state EXCEPT ![p] = "active"]
              /\ parent' = [parent EXCEPT ![p] = r.target]
              /\ path' = [path EXCEPT ![p] = r.under]
              /\ version' = [version EXCEPT ![p] = 1]
        /\ req' = [req EXCEPT ![s] = Idle]
        /\ UNCHANGED <<text, history, mix>>

\* Mutant: slice(cutoff) where the code has slice(cutoff + 1).
RebasedTwice(r, old) == r.under \o <<r.page>> \o SubSeq(old, Len(r.at) + 1, Len(old))

(* [...path, page._id, ...child.path.slice(cutoff + 1)]                    *)
Rebased(r, old) == r.under \o <<r.page>> \o SubSeq(old, Len(r.at) + 2, Len(old))

(* save compares __v exactly when it sets the path array, and so fails if  *)
(* somebody else has set it since it was loaded.                           *)
Repaths(r) == r.under # r.at

MovePage(s) ==
    LET r == req[s]
        p == r.page
        own == IF Repaths(r) THEN r.under ELSE path[p]
    IN  /\ Writing(s, {"move"})
        /\ Repaths(r) => r.fresh
        /\ parent' = [parent EXCEPT ![p] = IF r.target = r.from THEN @ ELSE r.target]
        /\ path' = [c \in Pages |->
                      IF r.kids[c] # Null THEN Rebased(r, r.kids[c])
                      ELSE IF c = p THEN own ELSE path[c]]
        /\ req' = [t \in Requests |->
                     IF t = s THEN Idle
                     ELSE IF Repaths(r) /\ req[t].op = "move" /\ req[t].page = p
                       THEN [req[t] EXCEPT !.fresh = FALSE]
                       ELSE req[t]]
        /\ UNCHANGED <<state, texts, mix>>

MoveConflict(s) ==
    /\ Writing(s, {"move"})
    /\ Repaths(req[s]) /\ ~req[s].fresh
    /\ Refuse(s)

\* Mutant: a page is archived without the pages below it.
ArchivePageAlone(s) ==
    /\ Writing(s, {"archive"})
    /\ state' = [state EXCEPT ![req[s].page] = "archived"]
    /\ req' = [req EXCEPT ![s] = Idle]
    /\ UNCHANGED <<parent, path, texts, mix>>

ArchivePage(s) ==
    LET p == req[s].page
    IN  /\ Writing(s, {"archive"})
        /\ state' = [c \in Pages |-> IF c \in Below(p) \cup {p} THEN "archived" ELSE state[c]]
        /\ req' = [req EXCEPT ![s] = Idle]
        /\ UNCHANGED <<parent, path, texts, mix>>

Filed(p, v) == \E h \in history[p] : h.version = v

\* Mutant: no unique index on page and version.
EditPageAgain(s) ==
    LET r == req[s]
        p == r.page
    IN  /\ Writing(s, {"edit", "restore"})
        /\ history' = [history EXCEPT ![p] = @ \cup {[version |-> r.version, text |-> r.text]}]
        /\ version' = [version EXCEPT ![p] = r.version + 1]
        /\ text' = [text EXCEPT ![p] = IF r.newText = r.text THEN @ ELSE r.newText]
        /\ req' = [req EXCEPT ![s] = Idle]
        /\ UNCHANGED <<tree, mix>>

(* updatePage and restoreRevision write the same two documents.            *)
EditPage(s) ==
    LET r == req[s]
        p == r.page
    IN  /\ Writing(s, {"edit", "restore"})
        /\ ~Filed(p, r.version)
        /\ history' = [history EXCEPT ![p] = @ \cup {[version |-> r.version, text |-> r.text]}]
        /\ version' = [version EXCEPT ![p] = r.version + 1]
        /\ text' = [text EXCEPT ![p] = IF r.newText = r.text THEN @ ELSE r.newText]
        /\ req' = [req EXCEPT ![s] = Idle]
        /\ UNCHANGED <<tree, mix>>

(* The unique index on page and version aborts the transaction.            *)
EditConflict(s) ==
    /\ Writing(s, {"edit", "restore"})
    /\ Filed(req[s].page, req[s].version)
    /\ Refuse(s)

-----------------------------------------------------------------------------
Start(s) ==
    StartCreate(s) \/ StartMove(s) \/ StartArchive(s) \/ StartEdit(s) \/ StartRestore(s)

Read(s) == LoadPage(s) \/ FindKids(s) \/ ResolveParent(s) \/ FindRevision(s)

Write(s) ==
    \/ CreatePage(s) \/ MovePage(s) \/ MoveConflict(s) \/ ArchivePage(s)
    \/ EditPage(s) \/ EditConflict(s)

Next == \E s \in Requests : Start(s) \/ Read(s) \/ Write(s)

Spec == Init /\ [][Next]_vars

-----------------------------------------------------------------------------
(* Properties.                                                             *)

OneAtATime == \A s, t \in mix.slots : s = t

(* While requests do not overlap, every stored path, of archived pages     *)
(* too, is the path of the parent and the parent: no move leaves a         *)
(* descendant behind.                                                      *)
PathsAreAncestors ==
    OneAtATime => \A p \in Made :
        path[p] = IF parent[p] = Null THEN <<>> ELSE Append(path[parent[p]], parent[p])

(* However edits and restores overlap, the revisions of a page are its     *)
(* versions so far, each once: a conflicting edit fails instead of         *)
(* replacing somebody else's.                                              *)
HistoryComplete ==
    \A p \in Made :
        /\ \A v \in 1..(version[p] - 1) : \E h \in history[p] : h.version = v
        /\ \A h, k \in history[p] : h.version = k.version => h = k
        /\ \A h \in history[p] : h.version \in 1..(version[p] - 1)

(* No edit is lost: whenever the text of a page changes, the text it had   *)
(* is filed under the version it had.                                      *)
EditsKept ==
    [][\A p \in Pages : text'[p] # text[p] =>
          [version |-> version[p], text |-> text[p]] \in history'[p]]_vars

(* README: moves into the page's own descendant are rejected.  No page is  *)
(* its own parent or grandparent.                                          *)
Parents(S) == {parent[p] : p \in S} \ {Null}

NoCycle ==
    \A p \in Pages : p \notin Parents({p}) /\ p \notin Parents(Parents({p}))

-----------------------------------------------------------------------------
(* The tree of the active pages.  pageTree nests them by parent, which is  *)
(* the last page of the path (PathsAreAncestors).                          *)

Active == {p \in Pages : state[p] = "active"}

ShownAbove == [p \in Pages |-> IF p \in Active THEN Range(path[p]) ELSE {}]

Forest == INSTANCE PageForest WITH made <- Made, shown <- Active, above <- ShownAbove

(* With requests one at a time the stored paths are a forest and every     *)
(* handler acts on it as PageForest says: a move takes the whole subtree   *)
(* along, archiving takes it away and no active page disappears from the   *)
(* tree with its parent.                                                   *)
ImplementsForest ==
    /\ OneAtATime => Forest!Init
    /\ [][OneAtATime => [Forest!Next]_(Forest!vars)]_vars
=============================================================================
