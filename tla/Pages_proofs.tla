----------------------------- MODULE Pages_proofs -----------------------------
(***************************************************************************)
(* Theorems about Pages for every set of pages, texts and requests and     *)
(* every limit on depth.                                                   *)
(***************************************************************************)
EXTENDS Pages, SequenceTheorems, FiniteSetTheorems, TLAPS

-----------------------------------------------------------------------------
(* Types.                                                                  *)

Edits == {"edit", "restore"}

RequestOK(r) ==
    /\ r.step # "idle" => r.op # "none"
    /\ r.op = "create" => r.step \in {"parent", "write"}
    /\ r.op \notin {"none", "create"} => r.page \in Pages
    /\ r.step = "kids" => r.op = "move"
    /\ r.step = "revision" => r.op = "restore"
    /\ r.step = "parent" => r.op \in {"create", "move"} /\ r.target # Null

(* The pages a request names exist, which they never stop doing.           *)
Named(r) ==
    /\ r.op \notin {"none", "create"} => r.page \in Made
    /\ r.target \in Made \cup {Null}

RequestsOK == \A s \in Requests : RequestOK(req[s]) /\ Named(req[s])

SlotsOK == \A s \in Requests : req[s] # Idle => s \in mix.slots

TypeInv == TypeOK /\ RequestsOK /\ SlotsOK

LEMMA EmptyPath == <<>> \in Paths /\ NoKids \in [Pages -> Paths \cup {Null}]
  BY DEF Paths, NoKids

LEMMA IdleOK ==
    /\ Idle \in Request /\ RequestOK(Idle) /\ Named(Idle)
    /\ Idle.step = "idle" /\ Idle.op = "none"
  BY EmptyPath DEF Idle, Request, RequestOK, Named, Ops, Steps, Said

LEMMA InitTypeInv == Init => TypeInv
<1> SUFFICES ASSUME Init PROVE TypeInv
  OBVIOUS
<1>1. TypeOK
  BY IdleOK, EmptyPath DEF Init, TypeOK, Said
<1>2. RequestsOK /\ SlotsOK
  BY IdleOK DEF Init, RequestsOK, SlotsOK, Named
<1> QED BY <1>1, <1>2 DEF TypeInv

Allowed(q) == q \in Request /\ RequestOK(q) /\ Named(q)

LEMMA RequestAllowed ==
    ASSUME TypeInv, NEW s \in Requests
    PROVE  Allowed(req[s])
  BY DEF TypeInv, TypeOK, RequestsOK, Allowed

(* A request goes on, and the texts and the tree stay of their types.      *)
LEMMA Typed ==
    ASSUME TypeInv, NEW s \in Requests, NEW q, Allowed(q), q # Idle => s \in mix.slots,
           mix' = mix, req' \in [Requests -> Request],
           req'[s] = q,
           \A t \in Requests : t # s =>
              req'[t] = req[t] \/ (req[t] # Idle /\ req'[t] = [req[t] EXCEPT !.fresh = FALSE]),
           Made \subseteq Made',
           state' \in [Pages -> {"absent", "active", "archived"}],
           parent' \in [Pages -> Pages \cup {Null}], path' \in [Pages -> Paths],
           version' \in [Pages -> Nat], text' \in [Pages -> Said],
           history' \in [Pages -> SUBSET [version : Nat, text : Said]],
           \A p \in Pages : state'[p] = "absent" <=> version'[p] = 0
    PROVE  TypeInv'
<1>1. TypeOK'
  BY DEF TypeInv, TypeOK
<1>2. ASSUME NEW t \in Requests
      PROVE  /\ RequestOK(req'[t]) /\ (req'[t] # Idle => t \in mix.slots)
             /\ req'[t].op \notin {"none", "create"} => req'[t].page \in Made'
             /\ req'[t].target \in Made' \cup {Null}
  <2>1. Allowed(req[t]) /\ (req[t] # Idle => t \in mix.slots)
    BY RequestAllowed DEF TypeInv, SlotsOK
  <2>2. CASE t = s \/ req'[t] = req[t]
    BY <2>1, <2>2 DEF Allowed, Named
  <2>3. CASE req[t] # Idle /\ req'[t] = [req[t] EXCEPT !.fresh = FALSE]
    BY <2>1, <2>3 DEF Allowed, Named, RequestOK, Request
  <2> QED BY <2>2, <2>3
<1>3. RequestsOK' /\ SlotsOK'
  BY <1>2 DEF RequestsOK, SlotsOK, RequestOK, Named
<1> QED BY <1>1, <1>3 DEF TypeInv

LEMMA Stepped ==
    ASSUME TypeInv, NEW s \in Requests, NEW q, Allowed(q), req' = [req EXCEPT ![s] = q]
    PROVE  /\ req' \in [Requests -> Request] /\ req'[s] = q
           /\ \A t \in Requests : t # s => req'[t] = req[t]
  BY DEF TypeInv, TypeOK, Allowed

LEMMA DatabaseKept ==
    ASSUME TypeInv, NEW s \in Requests, NEW q, Allowed(q), q # Idle => s \in mix.slots,
           req' = [req EXCEPT ![s] = q], UNCHANGED <<tree, texts, mix>>
    PROVE  TypeInv'
<1>1. Made' = Made
  BY DEF Made, tree
<1>2. /\ state' = state /\ parent' = parent /\ path' = path /\ version' = version
      /\ text' = text /\ history' = history /\ mix' = mix
  BY DEF tree, texts
<1> QED BY <1>1, <1>2, Stepped, Typed DEF TypeInv, TypeOK

LEMMA StartTypeInv ==
    ASSUME TypeInv, NEW s \in Requests, Start(s)
    PROVE  TypeInv'
<1>1. ASSUME NEW q, Allowed(q), Begin(s, q) PROVE TypeInv'
  BY <1>1, DatabaseKept DEF Begin
<1>0. Made \subseteq Pages
  BY DEF Made
<1>2. CASE StartCreate(s)
  <2>1. PICK t \in Made \cup {Null} :
           Begin(s, Resolving([Idle EXCEPT !.op = "create", !.target = t]))
    BY <1>2 DEF StartCreate
  <2> DEFINE r == [Idle EXCEPT !.op = "create", !.target = t]
             q == [r EXCEPT !.step = IF r.target = Null THEN "write" ELSE "parent"]
  <2>2. r.target = t
    BY DEF Idle
  <2>3. Allowed(q)
    BY <1>0, <2>2, EmptyPath DEF Allowed, Request, RequestOK, Named, Idle, Ops, Steps, Said
  <2>4. Begin(s, q)
    BY <2>1 DEF Resolving
  <2> HIDE DEF q
  <2> QED BY <1>1, <2>3, <2>4
<1>3. CASE StartMove(s)
  <2>1. PICK p \in Made, t \in Made \cup {Null} :
           Begin(s, [Idle EXCEPT !.op = "move", !.step = "load", !.page = p, !.target = t])
    BY <1>3 DEF StartMove
  <2>2. Allowed([Idle EXCEPT !.op = "move", !.step = "load", !.page = p, !.target = t])
    BY <1>0, EmptyPath DEF Allowed, Request, RequestOK, Named, Idle, Ops, Steps, Said
  <2> QED BY <1>1, <2>1, <2>2
<1>4. CASE StartArchive(s)
  <2>1. PICK p \in Made : Begin(s, [Idle EXCEPT !.op = "archive", !.step = "load", !.page = p])
    BY <1>4 DEF StartArchive
  <2>2. Allowed([Idle EXCEPT !.op = "archive", !.step = "load", !.page = p])
    BY <1>0, EmptyPath DEF Allowed, Request, RequestOK, Named, Idle, Ops, Steps, Said
  <2> QED BY <1>1, <2>1, <2>2
<1>5. CASE StartEdit(s)
  <2>1. PICK p \in Made, t \in Texts :
           Begin(s, [Idle EXCEPT !.op = "edit", !.step = "load", !.page = p, !.newText = t])
    BY <1>5 DEF StartEdit
  <2>2. Allowed([Idle EXCEPT !.op = "edit", !.step = "load", !.page = p, !.newText = t])
    BY <1>0, EmptyPath DEF Allowed, Request, RequestOK, Named, Idle, Ops, Steps, Said
  <2> QED BY <1>1, <2>1, <2>2
<1>6. CASE StartRestore(s)
  <2>1. PICK p \in Made, v \in 1..MaxVersion :
           Begin(s, [Idle EXCEPT !.op = "restore", !.step = "load", !.page = p, !.wanted = v])
    BY <1>6 DEF StartRestore
  <2>2. v \in Nat
    BY PagesAssumption
  <2>3. Allowed([Idle EXCEPT !.op = "restore", !.step = "load", !.page = p, !.wanted = v])
    BY <1>0, <2>2, EmptyPath DEF Allowed, Request, RequestOK, Named, Idle, Ops, Steps, Said
  <2> QED BY <1>1, <2>1, <2>3
<1> QED BY <1>2, <1>3, <1>4, <1>5, <1>6 DEF Start

LEMMA ResolvingAllowed ==
    ASSUME NEW r, Allowed(r), r.op = "move"
    PROVE  /\ Allowed(Resolving(r))
           /\ Resolving(r) = [r EXCEPT !.step = IF r.target = Null THEN "write" ELSE "parent"]
  BY DEF Resolving, Allowed, Request, RequestOK, Named, Steps

LEMMA ReadTypeInv ==
    ASSUME TypeInv, NEW s \in Requests, Read(s)
    PROVE  TypeInv'
<1> DEFINE r == req[s]
           p == r.page
<1>0. /\ Allowed(r) /\ r \in Request /\ RequestOK(r) /\ Named(r)
      /\ r # Idle => s \in mix.slots
      /\ parent \in [Pages -> Pages \cup {Null}] /\ path \in [Pages -> Paths]
      /\ version \in [Pages -> Nat] /\ text \in [Pages -> Said]
      /\ history \in [Pages -> SUBSET [version : Nat, text : Said]]
      /\ Made \subseteq Pages
  BY RequestAllowed DEF Allowed, TypeInv, TypeOK, SlotsOK, Made
<1>1. ASSUME NEW q, Allowed(q), Advance(s, q), r.step # "idle" PROVE TypeInv'
  <2>1. r # Idle
    BY <1>1, IdleOK
  <2> QED BY <1>0, <1>1, <2>1, DatabaseKept DEF Advance
<1>2. ASSUME Refuse(s), r.step # "idle" PROVE TypeInv'
  BY <1>1, <1>2, IdleOK DEF Refuse, Allowed
<1>3. CASE LoadPage(s)
  <2> DEFINE m == [r EXCEPT !.step = "kids", !.from = parent[p], !.at = path[p], !.fresh = TRUE]
             a == [r EXCEPT !.step = "write"]
             e == [r EXCEPT !.step = AfterLoad(r.op), !.version = version[p], !.text = text[p]]
  <2>1. /\ r.step = "load"
        /\ Refuse(s) \/ Advance(s, IF r.op = "move" THEN m ELSE IF r.op = "archive" THEN a ELSE e)
    BY <1>3 DEF LoadPage
  <2>2. r.op \in {"move", "archive", "edit", "restore"} /\ p \in Pages
    BY <1>0, <2>1 DEF RequestOK, Request, Ops
  <2>3. /\ r.op = "move" => Allowed(m)
        /\ r.op = "archive" => Allowed(a)
    BY <1>0, <2>1, <2>2 DEF Allowed, Request, RequestOK, Named, Steps
  <2>4. ASSUME r.op \in Edits PROVE Allowed(e)
    <3>1. AfterLoad(r.op) = IF r.op = "restore" THEN "revision" ELSE "write"
      BY <2>4 DEF AfterLoad, Edits
    <3>2. version[p] \in Nat /\ text[p] \in Said
      BY <1>0, <2>2
    <3> QED BY <1>0, <2>1, <2>4, <3>1, <3>2 DEF Allowed, Request, RequestOK, Named, Steps, Edits
  <2> HIDE DEF m, a, e
  <2> QED BY <1>1, <1>2, <2>1, <2>2, <2>3, <2>4 DEF Edits
<1>4. CASE FindKids(s)
  <2> DEFINE k == [r EXCEPT !.kids = [c \in Pages |-> IF c \in Below(p) THEN path[c] ELSE Null]]
  <2>1. r.step = "kids" /\ (Refuse(s) \/ Advance(s, Resolving(k)))
    BY <1>4 DEF FindKids
  <2>2. Allowed(k) /\ k.op = "move"
    BY <1>0, <2>1 DEF Allowed, Request, RequestOK, Named
  <2> HIDE DEF k
  <2>3. Allowed(Resolving(k))
    BY <2>2, ResolvingAllowed
  <2> QED BY <1>1, <1>2, <2>1, <2>3
<1>5. CASE ResolveParent(s)
  <2> DEFINE q == [r EXCEPT !.step = "write", !.under = Append(path[r.target], r.target)]
  <2>1. r.step = "parent" /\ (Refuse(s) \/ Advance(s, q))
    BY <1>5 DEF ResolveParent
  <2>2. r.target \in Pages
    BY <1>0, <2>1 DEF RequestOK, Named
  <2>3. Append(path[r.target], r.target) \in Paths
    BY <1>0, <2>2 DEF Paths
  <2>4. Allowed(q)
    BY <1>0, <2>1, <2>3 DEF Allowed, Request, RequestOK, Named, Steps
  <2> HIDE DEF q
  <2> QED BY <1>1, <1>2, <2>1, <2>4
<1>6. CASE FindRevision(s)
  <2>1. /\ r.step = "revision"
        /\ \/ Refuse(s)
           \/ \E h \in history[p] : Advance(s, [r EXCEPT !.step = "write", !.newText = h.text])
    BY <1>6 DEF FindRevision
  <2>2. p \in Pages /\ r.op = "restore"
    BY <1>0, <2>1 DEF RequestOK
  <2>3. ASSUME NEW h \in history[p] PROVE Allowed([r EXCEPT !.step = "write", !.newText = h.text])
    <3>1. h.text \in Said
      BY <1>0, <2>2
    <3> QED BY <1>0, <2>2, <3>1 DEF Allowed, Request, RequestOK, Named, Steps
  <2> QED BY <1>1, <1>2, <2>1, <2>3
<1> QED BY <1>3, <1>4, <1>5, <1>6 DEF Read

LEMMA RebasedPath ==
    ASSUME NEW r, r.under \in Paths, r.at \in Paths, r.page \in Pages, NEW old \in Paths
    PROVE  Rebased(r, old) \in Paths
<1>1. <<r.page>> \in Paths
  BY DEF Paths
<1>2. SubSeq(old, Len(r.at) + 2, Len(old)) \in Paths
  <2>1. Len(r.at) + 2 \in 1..(Len(old) + 1) \/ Len(r.at) + 2 > Len(old)
    BY DEF Paths
  <2> QED BY <2>1, SubSeqProperties DEF Paths
<1> QED BY <1>1, <1>2, ConcatProperties DEF Paths, Rebased

LEMMA WriteTypeInv ==
    ASSUME TypeInv, NEW s \in Requests, Write(s)
    PROVE  TypeInv'
<1> DEFINE r == req[s]
           p == r.page
<1>0. /\ Allowed(r) /\ r \in Request /\ RequestOK(r) /\ Named(r) /\ Made \subseteq Pages
      /\ r # Idle => s \in mix.slots
  BY RequestAllowed DEF Allowed, TypeInv, TypeOK, SlotsOK, Made
<1>t. /\ state \in [Pages -> {"absent", "active", "archived"}]
      /\ parent \in [Pages -> Pages \cup {Null}] /\ path \in [Pages -> Paths]
      /\ version \in [Pages -> Nat] /\ text \in [Pages -> Said]
      /\ history \in [Pages -> SUBSET [version : Nat, text : Said]]
      /\ req \in [Requests -> Request]
      /\ \A c \in Pages : state[c] = "absent" <=> version[c] = 0
  BY DEF TypeInv, TypeOK
<1>i. Allowed(Idle)
  BY IdleOK DEF Allowed
<1>s. req' = [req EXCEPT ![s] = Idle] =>
        /\ req' \in [Requests -> Request] /\ req'[s] = Idle
        /\ \A t \in Requests : t # s => req'[t] = req[t]
  BY <1>t, IdleOK
<1>1. CASE CreatePage(s)
  <2>1. PICK c \in Pages \ Made :
           /\ state' = [state EXCEPT ![c] = "active"]
           /\ parent' = [parent EXCEPT ![c] = r.target]
           /\ path' = [path EXCEPT ![c] = r.under]
           /\ version' = [version EXCEPT ![c] = 1]
    BY <1>1 DEF CreatePage
  <2>2. /\ req' = [req EXCEPT ![s] = Idle] /\ UNCHANGED <<text, history, mix>>
    BY <1>1 DEF CreatePage
  <2>3. r.target \in Pages \cup {Null} /\ r.under \in Paths
    BY <1>0 DEF Request
  <2>4. /\ state' \in [Pages -> {"absent", "active", "archived"}]
        /\ parent' \in [Pages -> Pages \cup {Null}] /\ path' \in [Pages -> Paths]
        /\ version' \in [Pages -> Nat]
        /\ \A d \in Pages : state'[d] = "absent" <=> version'[d] = 0
    BY <1>t, <2>1, <2>3
  <2>5. Made \subseteq Made'
    BY <1>t, <2>1 DEF Made
  <2> QED BY <1>t, <1>i, <1>s, <2>2, <2>4, <2>5, Typed
<1>2. CASE MovePage(s)
  <2> DEFINE own == IF Repaths(r) THEN r.under ELSE path[p]
  <2>1. /\ r.step = "write" /\ r.op = "move"
        /\ parent' = [parent EXCEPT ![p] = IF r.target = r.from THEN @ ELSE r.target]
        /\ path' = [c \in Pages |-> IF r.kids[c] # Null THEN Rebased(r, r.kids[c])
                                    ELSE IF c = p THEN own ELSE path[c]]
        /\ UNCHANGED <<state, texts, mix>>
    BY <1>2 DEF MovePage, Writing
  <2>2. req' = [t \in Requests |->
                  IF t = s THEN Idle
                  ELSE IF Repaths(r) /\ req[t].op = "move" /\ req[t].page = p
                    THEN [req[t] EXCEPT !.fresh = FALSE]
                    ELSE req[t]]
    BY <1>2 DEF MovePage
  <2>3. /\ p \in Pages /\ r.target \in Pages \cup {Null} /\ r.under \in Paths /\ r.at \in Paths
        /\ r.kids \in [Pages -> Paths \cup {Null}]
    BY <1>0, <2>1 DEF Request, RequestOK
  <2>4. parent' \in [Pages -> Pages \cup {Null}]
    BY <1>t, <2>1, <2>3
  <2>5. path' \in [Pages -> Paths]
    <3>1. ASSUME NEW c \in Pages, r.kids[c] # Null PROVE Rebased(r, r.kids[c]) \in Paths
      BY <2>3, <3>1, RebasedPath
    <3>2. own \in Paths
      BY <1>t, <2>3
    <3> HIDE DEF own
    <3> QED BY <1>t, <2>1, <3>1, <3>2
  <2>6. /\ req' \in [Requests -> Request] /\ req'[s] = Idle
        /\ \A t \in Requests : t # s =>
              req'[t] = req[t] \/ (req[t] # Idle /\ req'[t] = [req[t] EXCEPT !.fresh = FALSE])
    <3>1. ASSUME NEW t \in Requests
          PROVE  /\ req'[t] \in Request
                 /\ t # s => \/ req'[t] = req[t]
                             \/ req[t] # Idle /\ req'[t] = [req[t] EXCEPT !.fresh = FALSE]
      <4>1. [req[t] EXCEPT !.fresh = FALSE] \in Request
        BY <1>t, ZenonT(60) DEF Request
      <4>2. req[t].op = "move" => req[t] # Idle
        BY IdleOK
      <4> QED BY <1>t, <2>2, <4>1, <4>2, IdleOK
    <3> QED BY <2>2, <3>1
  <2>7. Made' = Made /\ UNCHANGED <<state, version, text, history, mix>>
    BY <2>1 DEF Made, texts
  <2> QED BY <1>t, <1>i, <2>4, <2>5, <2>6, <2>7, Typed
<1>3. CASE ArchivePage(s)
  <2>1. /\ r.step = "write" /\ r.op = "archive"
        /\ state' = [c \in Pages |-> IF c \in Below(p) \cup {p} THEN "archived" ELSE state[c]]
        /\ req' = [req EXCEPT ![s] = Idle] /\ UNCHANGED <<parent, path, texts, mix>>
    BY <1>3 DEF ArchivePage, Writing
  <2>2. p \in Made /\ Below(p) \subseteq Made
    BY <1>0, <2>1 DEF Named, Below
  <2>3. \A c \in Pages : state'[c] = "absent" <=> state[c] = "absent"
    BY <1>t, <2>1, <2>2 DEF Made
  <2>4. Made' = Made /\ UNCHANGED <<version, text, history>>
    BY <2>1, <2>3 DEF Made, texts
  <2>5. state' \in [Pages -> {"absent", "active", "archived"}]
    BY <1>t, <2>1
  <2> QED BY <1>t, <1>i, <1>s, <2>1, <2>3, <2>4, <2>5, Typed
<1>4. CASE EditPage(s)
  <2>1. /\ r.step = "write" /\ r.op \in Edits
        /\ history' = [history EXCEPT ![p] = @ \cup {[version |-> r.version, text |-> r.text]}]
        /\ version' = [version EXCEPT ![p] = r.version + 1]
        /\ text' = [text EXCEPT ![p] = IF r.newText = r.text THEN @ ELSE r.newText]
        /\ req' = [req EXCEPT ![s] = Idle]
        /\ UNCHANGED <<tree, mix>>
    BY <1>4 DEF EditPage, Writing, Edits
  <2>2. /\ p \in Pages /\ p \in Made /\ r.version \in Nat /\ r.text \in Said /\ r.newText \in Said
    BY <1>0, <2>1 DEF Request, RequestOK, Named, Edits
  <2>3. [version |-> r.version, text |-> r.text] \in [version : Nat, text : Said]
    BY <2>2
  <2>4. /\ version' \in [Pages -> Nat] /\ text' \in [Pages -> Said]
        /\ history' \in [Pages -> SUBSET [version : Nat, text : Said]]
    BY <1>t, <2>1, <2>2, <2>3
  <2>5. UNCHANGED <<state, parent, path>> /\ Made' = Made
    BY <2>1 DEF tree, Made
  <2>6. \A c \in Pages : state'[c] = "absent" <=> version'[c] = 0
    BY <1>t, <2>1, <2>2, <2>5 DEF Made
  <2> QED BY <1>t, <1>i, <1>s, <2>1, <2>4, <2>5, <2>6, Typed
<1>5. CASE MoveConflict(s) \/ EditConflict(s)
  BY <1>5, <1>i, DatabaseKept DEF MoveConflict, EditConflict, Refuse, Advance
<1> QED BY <1>1, <1>2, <1>3, <1>4, <1>5 DEF Write

LEMMA NextTypeInv == TypeInv /\ [Next]_vars => TypeInv'
<1> SUFFICES ASSUME TypeInv, [Next]_vars PROVE TypeInv'
  OBVIOUS
<1>1. CASE UNCHANGED vars
  BY <1>1 DEF vars, tree, texts, TypeInv, TypeOK, RequestsOK, SlotsOK, RequestOK, Named, Made
<1> QED BY <1>1, StartTypeInv, ReadTypeInv, WriteTypeInv DEF Next

(* Every reachable state is of the declared types; a page has a version    *)
(* exactly when it exists, and requests name pages that exist.             *)
THEOREM PageTypes == Spec => []TypeInv
<1> QED BY InitTypeInv, NextTypeInv, PTL DEF Spec

-----------------------------------------------------------------------------
(* Texts: what an edit or a restore loaded is the page as it is, or a      *)
(* version that has been filed since.                                      *)

Loaded(r) ==
    r.op \in Edits /\ r.step \in {"revision", "write"} =>
        /\ r.version \in 1..version[r.page]
        /\ r.version = version[r.page] => r.text = text[r.page]

NoHistoryYet == \A p \in Pages : p \notin Made => history[p] = {}

HistoryInv ==
    /\ TypeInv
    /\ HistoryComplete
    /\ NoHistoryYet
    /\ \A s \in Requests : Loaded(req[s])

LEMMA IdleLoaded == Loaded(Idle)
  BY DEF Loaded, Idle

LEMMA InitHistoryInv == Init => HistoryInv
<1> SUFFICES ASSUME Init PROVE HistoryInv
  OBVIOUS
<1>1. HistoryComplete /\ NoHistoryYet
  BY DEF Init, HistoryComplete, NoHistoryYet, Made
<1>2. \A s \in Requests : Loaded(req[s])
  BY IdleLoaded DEF Init
<1> QED BY <1>1, <1>2, InitTypeInv DEF HistoryInv

(* A step of one request that writes no text.                              *)
LEMMA TextsKept ==
    ASSUME HistoryInv, TypeInv', NEW s \in Requests, UNCHANGED texts, Loaded(req'[s]),
           \A t \in Requests : t # s =>
              req'[t] = req[t] \/ req'[t] = [req[t] EXCEPT !.fresh = FALSE]
    PROVE  HistoryInv'
<1>0. /\ version' = version /\ text' = text /\ history' = history
      /\ req \in [Requests -> Request]
      /\ \A p \in Pages : state[p] = "absent" <=> version[p] = 0
      /\ \A p \in Pages : state'[p] = "absent" <=> version'[p] = 0
  BY DEF texts, HistoryInv, TypeInv, TypeOK
<1>1. Made' = Made
  BY <1>0 DEF Made
<1>2. HistoryComplete' /\ NoHistoryYet'
  BY <1>0, <1>1 DEF HistoryInv, HistoryComplete, NoHistoryYet
<1>3. ASSUME NEW t \in Requests PROVE Loaded(req[t])'
  <2>1. Loaded(req'[t])
    <3>1. req[t] \in Request /\ Loaded(req[t])
      BY <1>0 DEF HistoryInv
    <3>2. Loaded([req[t] EXCEPT !.fresh = FALSE])
      BY <3>1 DEF Loaded, Request
    <3> QED BY <3>1, <3>2
  <2> QED BY <1>0, <2>1 DEF Loaded
<1> QED BY <1>2, <1>3 DEF HistoryInv

(* A step that only moves one request on.                                  *)
LEMMA AdvancedTexts ==
    ASSUME HistoryInv, TypeInv', NEW s \in Requests, NEW q,
           req' = [req EXCEPT ![s] = q], UNCHANGED texts, Loaded(q)
    PROVE  HistoryInv'
<1>1. req'[s] = q /\ \A t \in Requests : t # s => req'[t] = req[t]
  BY DEF HistoryInv, TypeInv, TypeOK
<1> QED BY <1>1, TextsKept

LEMMA StartHistoryInv ==
    ASSUME HistoryInv, NEW s \in Requests, Start(s)
    PROVE  HistoryInv'
<1>1. ASSUME NEW q, Begin(s, q), q.step = "load" \/ q.op = "create" PROVE HistoryInv'
  <2>1. Loaded(q)
    BY <1>1 DEF Loaded, Edits
  <2>2. req' = [req EXCEPT ![s] = q] /\ UNCHANGED texts
    BY <1>1 DEF Begin
  <2>3. TypeInv'
    BY StartTypeInv DEF HistoryInv
  <2> QED BY <2>1, <2>2, <2>3, AdvancedTexts
<1>2. CASE StartCreate(s)
  <2>1. PICK t \in Made \cup {Null} :
           Begin(s, Resolving([Idle EXCEPT !.op = "create", !.target = t]))
    BY <1>2 DEF StartCreate
  <2>2. Resolving([Idle EXCEPT !.op = "create", !.target = t]).op = "create"
    BY DEF Resolving, Idle
  <2> QED BY <1>1, <2>1, <2>2
<1>3. CASE StartMove(s)
  <2>1. PICK p \in Made, t \in Made \cup {Null} :
           Begin(s, [Idle EXCEPT !.op = "move", !.step = "load", !.page = p, !.target = t])
    BY <1>3 DEF StartMove
  <2>2. [Idle EXCEPT !.op = "move", !.step = "load", !.page = p, !.target = t].step = "load"
    BY DEF Idle
  <2> QED BY <1>1, <2>1, <2>2
<1>4. CASE StartArchive(s)
  <2>1. PICK p \in Made : Begin(s, [Idle EXCEPT !.op = "archive", !.step = "load", !.page = p])
    BY <1>4 DEF StartArchive
  <2>2. [Idle EXCEPT !.op = "archive", !.step = "load", !.page = p].step = "load"
    BY DEF Idle
  <2> QED BY <1>1, <2>1, <2>2
<1>5. CASE StartEdit(s)
  <2>1. PICK p \in Made, t \in Texts :
           Begin(s, [Idle EXCEPT !.op = "edit", !.step = "load", !.page = p, !.newText = t])
    BY <1>5 DEF StartEdit
  <2>2. [Idle EXCEPT !.op = "edit", !.step = "load", !.page = p, !.newText = t].step = "load"
    BY DEF Idle
  <2> QED BY <1>1, <2>1, <2>2
<1>6. CASE StartRestore(s)
  <2>1. PICK p \in Made, v \in 1..MaxVersion :
           Begin(s, [Idle EXCEPT !.op = "restore", !.step = "load", !.page = p, !.wanted = v])
    BY <1>6 DEF StartRestore
  <2>2. [Idle EXCEPT !.op = "restore", !.step = "load", !.page = p, !.wanted = v].step = "load"
    BY DEF Idle
  <2> QED BY <1>1, <2>1, <2>2
<1> QED BY <1>2, <1>3, <1>4, <1>5, <1>6 DEF Start

LEMMA ReadHistoryInv ==
    ASSUME HistoryInv, NEW s \in Requests, Read(s)
    PROVE  HistoryInv'
<1> DEFINE r == req[s]
           p == r.page
<1>0. /\ r \in Request /\ RequestOK(r) /\ Named(r) /\ Loaded(r) /\ TypeInv'
      /\ version \in [Pages -> Nat]
      /\ \A c \in Pages : state[c] = "absent" <=> version[c] = 0
  BY ReadTypeInv DEF HistoryInv, TypeInv, TypeOK, RequestsOK
<1>1. ASSUME NEW q, Advance(s, q), Loaded(q) PROVE HistoryInv'
  BY <1>0, <1>1, AdvancedTexts DEF Advance
<1>2. ASSUME Refuse(s) PROVE HistoryInv'
  BY <1>1, <1>2, IdleLoaded DEF Refuse
<1>3. ASSUME NEW q, Advance(s, q), q.op \notin Edits PROVE HistoryInv'
  BY <1>1, <1>3 DEF Loaded
<1>4. CASE LoadPage(s)
  <2> DEFINE m == [r EXCEPT !.step = "kids", !.from = parent[p], !.at = path[p], !.fresh = TRUE]
             a == [r EXCEPT !.step = "write"]
             e == [r EXCEPT !.step = AfterLoad(r.op), !.version = version[p], !.text = text[p]]
  <2>1. /\ r.step = "load"
        /\ \/ Refuse(s)
           \/ /\ state[p] = "active"
              /\ Advance(s, IF r.op = "move" THEN m ELSE IF r.op = "archive" THEN a ELSE e)
    BY <1>4 DEF LoadPage
  <2>2. /\ p \in Pages /\ (r.op = "move" => m.op = "move") /\ (r.op = "archive" => a.op = "archive")
    BY <1>0, <2>1 DEF RequestOK, Request
  <2>3. e.page = p /\ e.version = version[p] /\ e.text = text[p]
    BY <1>0 DEF Request
  <2>4. state[p] = "active" => version[p] \in 1..version[p]
    BY <1>0, <2>2
  <2>5. state[p] = "active" => Loaded(e)
    BY <2>3, <2>4 DEF Loaded
  <2> HIDE DEF m, a, e
  <2> QED BY <1>1, <1>2, <1>3, <2>1, <2>2, <2>5 DEF Edits
<1>5. CASE FindKids(s)
  <2> DEFINE k == [r EXCEPT !.kids = [c \in Pages |-> IF c \in Below(p) THEN path[c] ELSE Null]]
  <2>1. r.step = "kids" /\ (Refuse(s) \/ Advance(s, Resolving(k)))
    BY <1>5 DEF FindKids
  <2>2. k \in Request /\ k.op = "move"
    BY <1>0, <2>1 DEF Request, RequestOK, TypeInv, TypeOK, HistoryInv
  <2> HIDE DEF k
  <2>3. Resolving(k).op = "move"
    BY <2>2 DEF Resolving, Request
  <2> QED BY <1>2, <1>3, <2>1, <2>3 DEF Edits
<1>6. CASE ResolveParent(s)
  <2> DEFINE q == [r EXCEPT !.step = "write", !.under = Append(path[r.target], r.target)]
  <2>1. r.step = "parent" /\ (Refuse(s) \/ Advance(s, q))
    BY <1>6 DEF ResolveParent
  <2>2. q.op \in {"create", "move"}
    BY <1>0, <2>1 DEF Request, RequestOK
  <2> HIDE DEF q
  <2> QED BY <1>2, <1>3, <2>1, <2>2 DEF Edits
<1>7. CASE FindRevision(s)
  <2>1. /\ r.step = "revision"
        /\ \/ Refuse(s)
           \/ \E h \in history[p] : Advance(s, [r EXCEPT !.step = "write", !.newText = h.text])
    BY <1>7 DEF FindRevision
  <2>2. ASSUME NEW h PROVE Loaded([r EXCEPT !.step = "write", !.newText = h.text])
    BY <1>0, <2>1 DEF Loaded, Request
  <2> QED BY <1>1, <1>2, <2>1, <2>2
<1> QED BY <1>4, <1>5, <1>6, <1>7 DEF Read

(* Only the version that a page is at can be filed: an edit of an older    *)
(* one meets the unique index.                                             *)
LEMMA EditsTheLatest ==
    ASSUME HistoryInv, NEW s \in Requests, EditPage(s)
    PROVE  /\ req[s].page \in Made
           /\ req[s].version = version[req[s].page] /\ req[s].text = text[req[s].page]
<1> DEFINE r == req[s]
           p == r.page
<1>1. r.step = "write" /\ r.op \in Edits /\ ~Filed(p, r.version)
  BY DEF EditPage, Writing, Edits
<1>2. p \in Made /\ p \in Pages /\ Loaded(r) /\ version[p] \in Nat
  BY <1>1 DEF HistoryInv, TypeInv, TypeOK, RequestsOK, RequestOK, Named, Made, Edits
<1>3. r.version \in 1..version[p] /\ (r.version = version[p] => r.text = text[p])
  BY <1>1, <1>2 DEF Loaded
<1>4. r.version \notin 1..(version[p] - 1)
  BY <1>1, <1>2 DEF HistoryInv, HistoryComplete, Filed
<1> QED BY <1>2, <1>3, <1>4

LEMMA EditHistoryInv ==
    ASSUME HistoryInv, NEW s \in Requests, EditPage(s)
    PROVE  HistoryInv'
<1> DEFINE r == req[s]
           p == r.page
           filed == [version |-> r.version, text |-> r.text]
<1>0. /\ TypeInv /\ TypeInv' /\ p \in Made /\ p \in Pages /\ r.version = version[p]
      /\ version \in [Pages -> Nat] /\ text \in [Pages -> Said]
      /\ history \in [Pages -> SUBSET [version : Nat, text : Said]]
      /\ req \in [Requests -> Request] /\ version[p] # 0
      /\ \A c \in Pages : state[c] = "absent" <=> version[c] = 0
  BY WriteTypeInv, EditsTheLatest DEF Write, HistoryInv, TypeInv, TypeOK, Made
<1>1. /\ ~Filed(p, r.version)
      /\ history' = [history EXCEPT ![p] = @ \cup {filed}]
      /\ version' = [version EXCEPT ![p] = version[p] + 1]
      /\ text' = [text EXCEPT ![p] = IF r.newText = r.text THEN @ ELSE r.newText]
      /\ req' = [req EXCEPT ![s] = Idle] /\ state' = state
  BY <1>0 DEF EditPage, tree
<1>2. Made' = Made
  BY <1>1 DEF Made
<1>3. filed.version = version[p]
  BY <1>0
<1>4. HistoryComplete'
  <2>1. ASSUME NEW c \in Made
        PROVE  /\ \A v \in 1..(version'[c] - 1) : \E h \in history'[c] : h.version = v
               /\ \A h, k \in history'[c] : h.version = k.version => h = k
               /\ \A h \in history'[c] : h.version \in 1..(version'[c] - 1)
    <3>0. /\ \A v \in 1..(version[c] - 1) : \E h \in history[c] : h.version = v
          /\ \A h, k \in history[c] : h.version = k.version => h = k
          /\ \A h \in history[c] : h.version \in 1..(version[c] - 1)
          /\ c \in Pages
      BY DEF HistoryInv, HistoryComplete, Made
    <3>1. CASE c # p
      <4>1. version'[c] = version[c] /\ history'[c] = history[c]
        BY <1>0, <1>1, <3>0, <3>1
      <4> QED BY <3>0, <4>1
    <3>2. CASE c = p
      <4>1. /\ version'[c] = version[c] + 1 /\ history'[c] = history[c] \cup {filed}
            /\ version[c] \in Nat \ {0}
        BY <1>0, <1>1, <3>2
      <4>2. \A h \in history[c] : h.version # filed.version
        BY <1>1, <1>3, <1>0, <3>2 DEF Filed
      <4> HIDE DEF filed
      <4>3. \A v \in 1..version[c] : \E h \in history'[c] : h.version = v
        <5> TAKE v \in 1..version[c]
        <5>1. CASE v = version[c]
          BY <1>3, <3>2, <4>1, <5>1
        <5>2. CASE v # version[c]
          <6>1. v \in 1..(version[c] - 1)
            BY <4>1, <5>2
          <6> QED BY <3>0, <4>1, <6>1
        <5> QED BY <5>1, <5>2
      <4>4. \A h, k \in history'[c] : h.version = k.version => h = k
        BY <3>0, <4>1, <4>2
      <4>5. \A h \in history'[c] : h.version \in 1..version[c]
        BY <1>3, <3>0, <3>2, <4>1
      <4>6. version'[c] - 1 = version[c]
        BY <4>1
      <4> QED BY <4>3, <4>4, <4>5, <4>6
    <3> QED BY <3>1, <3>2
  <2> QED BY <1>2, <2>1 DEF HistoryComplete
<1>5. NoHistoryYet'
  BY <1>0, <1>1, <1>2 DEF HistoryInv, NoHistoryYet
<1>6. ASSUME NEW t \in Requests PROVE Loaded(req[t])'
  <2>1. CASE t = s
    BY <1>0, <1>1, <2>1 DEF Loaded, Idle
  <2>2. CASE t # s
    <3> DEFINE q == req[t]
               c == q.page
    <3>1. req'[t] = q /\ Loaded(q)
      BY <1>0, <1>1, <2>2 DEF HistoryInv
    <3>2. SUFFICES ASSUME q.op \in Edits, q.step \in {"revision", "write"}
                   PROVE  q.version \in 1..version'[c] /\ (q.version = version'[c] => q.text = text'[c])
      BY <3>1 DEF Loaded
    <3>3. q.version \in 1..version[c] /\ (q.version = version[c] => q.text = text[c]) /\ c \in Pages
      BY <1>0, <3>1, <3>2 DEF Loaded, TypeInv, RequestsOK, RequestOK, Edits
    <3>4. CASE c = p
      <4>1. version'[c] = version[c] + 1 /\ version[c] \in Nat
        BY <1>0, <1>1, <3>4
      <4> QED BY <3>3, <4>1
    <3>5. CASE c # p
      <4>1. version'[c] = version[c] /\ text'[c] = text[c]
        BY <1>0, <1>1, <3>3, <3>5
      <4> QED BY <3>3, <4>1
    <3> QED BY <3>4, <3>5
  <2> QED BY <2>1, <2>2
<1> QED BY <1>0, <1>4, <1>5, <1>6 DEF HistoryInv

LEMMA CreateHistoryInv ==
    ASSUME HistoryInv, NEW s \in Requests, CreatePage(s)
    PROVE  HistoryInv'
<1>0. /\ TypeInv /\ TypeInv' /\ version \in [Pages -> Nat] /\ req \in [Requests -> Request]
      /\ state \in [Pages -> {"absent", "active", "archived"}]
      /\ \A t \in Requests : RequestOK(req[t]) /\ Named(req[t])
  BY WriteTypeInv DEF Write, HistoryInv, TypeInv, TypeOK, RequestsOK
<1>1. PICK c \in Pages \ Made :
         state' = [state EXCEPT ![c] = "active"] /\ version' = [version EXCEPT ![c] = 1]
  BY DEF CreatePage
<1>2. text' = text /\ history' = history /\ req' = [req EXCEPT ![s] = Idle]
  BY DEF CreatePage
<1>3. Made' = Made \cup {c} /\ history[c] = {}
  BY <1>0, <1>1 DEF HistoryInv, NoHistoryYet, Made
<1>4. HistoryComplete'
  <2>1. \A p \in Made : version'[p] = version[p]
    BY <1>0, <1>1 DEF Made
  <2>2. version'[c] - 1 = 0
    BY <1>0, <1>1
  <2> QED BY <1>2, <1>3, <2>1, <2>2 DEF HistoryInv, HistoryComplete
<1>5. NoHistoryYet'
  BY <1>2, <1>3 DEF HistoryInv, NoHistoryYet
<1>6. ASSUME NEW t \in Requests PROVE Loaded(req[t])'
  <2>1. CASE t = s
    BY <1>0, <1>2, <2>1 DEF Loaded, Idle, Edits
  <2>2. CASE t # s
    <3> DEFINE q == req[t]
    <3>1. req'[t] = q /\ Loaded(q)
      BY <1>0, <1>2, <2>2 DEF HistoryInv
    <3>2. q.op \in Edits => q.page \in Made
      BY <1>0 DEF Named, Edits
    <3>3. q.page \in Made => version'[q.page] = version[q.page]
      BY <1>0, <1>1 DEF Made
    <3> QED BY <1>2, <3>1, <3>2, <3>3 DEF Loaded
  <2> QED BY <2>1, <2>2
<1> QED BY <1>0, <1>4, <1>5, <1>6 DEF HistoryInv

LEMMA WriteHistoryInv ==
    ASSUME HistoryInv, NEW s \in Requests, Write(s)
    PROVE  HistoryInv'
<1>0. TypeInv' /\ req \in [Requests -> Request]
  BY WriteTypeInv DEF HistoryInv, TypeInv, TypeOK
<1>1. CASE MovePage(s)
  <2> DEFINE r == req[s]
  <2>1. req' = [t \in Requests |->
                  IF t = s THEN Idle
                  ELSE IF Repaths(r) /\ req[t].op = "move" /\ req[t].page = r.page
                    THEN [req[t] EXCEPT !.fresh = FALSE]
                    ELSE req[t]]
    BY <1>1 DEF MovePage
  <2>2. UNCHANGED texts
    BY <1>1 DEF MovePage
  <2> QED BY <1>0, <2>1, <2>2, IdleLoaded, TextsKept
<1>2. CASE ArchivePage(s) \/ MoveConflict(s) \/ EditConflict(s)
  <2>1. req' = [req EXCEPT ![s] = Idle] /\ UNCHANGED texts
    BY <1>2 DEF ArchivePage, MoveConflict, EditConflict, Refuse, Advance
  <2> QED BY <1>0, <2>1, IdleLoaded, AdvancedTexts
<1> QED BY <1>1, <1>2, CreateHistoryInv, EditHistoryInv DEF Write

LEMMA NextHistoryInv == HistoryInv /\ [Next]_vars => HistoryInv'
<1> SUFFICES ASSUME HistoryInv, [Next]_vars PROVE HistoryInv'
  OBVIOUS
<1>1. CASE UNCHANGED vars
  <2>1. TypeInv'
    BY <1>1, NextTypeInv DEF HistoryInv
  <2>2. HistoryComplete' /\ NoHistoryYet'
    BY <1>1 DEF vars, tree, texts, HistoryInv, HistoryComplete, NoHistoryYet, Made
  <2>3. \A s \in Requests : Loaded(req[s])'
    BY <1>1 DEF vars, texts, HistoryInv, Loaded
  <2> QED BY <2>1, <2>2, <2>3 DEF HistoryInv
<1> QED BY <1>1, StartHistoryInv, ReadHistoryInv, WriteHistoryInv DEF Next

LEMMA HistoryAlways == Spec => []HistoryInv
<1> QED BY InitHistoryInv, NextHistoryInv, PTL DEF Spec

(* However edits and restores overlap, the revisions of a page are exactly *)
(* the versions before its own, each filed once.                           *)
THEOREM HistoryIsComplete == Spec => []HistoryComplete
<1>1. HistoryInv => HistoryComplete
  BY DEF HistoryInv
<1> QED BY <1>1, HistoryAlways, PTL

LEMMA OnlyEditsWriteText ==
    ASSUME TypeInv, Next, text' # text
    PROVE  \E s \in Requests : EditPage(s)
<1>1. ASSUME NEW s \in Requests, Start(s) PROVE text' = text
  BY <1>1 DEF Start, StartCreate, StartMove, StartArchive, StartEdit, StartRestore, Begin, texts
<1>2. ASSUME NEW s \in Requests, Read(s) PROVE text' = text
  BY <1>2 DEF Read, LoadPage, FindKids, ResolveParent, FindRevision, Advance, Refuse, texts
<1>3. ASSUME NEW s \in Requests, Write(s), ~EditPage(s) PROVE text' = text
  BY <1>3 DEF Write, CreatePage, MovePage, MoveConflict, ArchivePage, EditConflict, Advance,
              Refuse, texts
<1> QED BY <1>1, <1>2, <1>3 DEF Next

(* Whatever edits overlap, no step replaces a text that is not filed then  *)
(* under the version it had.                                               *)
THEOREM NoEditIsLost == Spec => EditsKept
<1> DEFINE Kept == \A p \in Pages : text'[p] # text[p] =>
                      [version |-> version[p], text |-> text[p]] \in history'[p]
<1>1. HistoryInv /\ [Next]_vars => [Kept]_vars
  <2> SUFFICES ASSUME HistoryInv, Next, NEW c \in Pages, text'[c] # text[c]
               PROVE  [version |-> version[c], text |-> text[c]] \in history'[c]
    OBVIOUS
  <2>1. PICK s \in Requests : EditPage(s)
    BY OnlyEditsWriteText DEF HistoryInv
  <2> DEFINE r == req[s]
             p == r.page
  <2>2. r.version = version[p] /\ r.text = text[p] /\ p \in Pages
    BY <2>1, EditsTheLatest DEF Made
  <2>3. /\ history' = [history EXCEPT ![p] = @ \cup {[version |-> r.version, text |-> r.text]}]
        /\ text' = [text EXCEPT ![p] = IF r.newText = r.text THEN @ ELSE r.newText]
    BY <2>1 DEF EditPage
  <2>4. text \in [Pages -> Said] /\ history \in [Pages -> SUBSET [version : Nat, text : Said]]
    BY DEF HistoryInv, TypeInv, TypeOK
  <2>5. c = p
    BY <2>3, <2>4
  <2> QED BY <2>2, <2>3, <2>4, <2>5
<1> QED BY <1>1, HistoryAlways, PTL DEF Spec, EditsKept

-----------------------------------------------------------------------------
(* The tree, while requests do not overlap: the ancestors that a path      *)
(* names have the beginnings of that path as theirs, so that everything    *)
(* below a page is found by looking for it in paths.                       *)

Ancestor(c, i) ==
    LET d == path[c][i]
    IN  /\ d \in Made
        /\ Len(path[d]) = i - 1
        /\ \A j \in 1..(i - 1) : path[d][j] = path[c][j]

Ancestors == \A c \in Made : \A i \in 1..Len(path[c]) : Ancestor(c, i)

ParentIsLast ==
    \A c \in Made :
        /\ parent[c] = Null => path[c] = <<>>
        /\ parent[c] # Null => path[c] # <<>> /\ path[c][Len(path[c])] = parent[c]

AncestorsActive == \A c \in Active : Range(path[c]) \subseteq Active

Tree == Ancestors /\ ParentIsLast /\ AncestorsActive

(* What a request alone holds is what the tree still is.                   *)
UnderTarget(r) ==
    /\ r.target = Null => r.under = <<>>
    /\ r.step = "write" /\ r.op \in {"create", "move"} /\ r.target # Null =>
          state[r.target] = "active" /\ r.under = Append(path[r.target], r.target)

SourceCurrent(r) ==
    r.op = "move" /\ r.step \in {"kids", "parent", "write"} =>
        r.at = path[r.page] /\ r.from = parent[r.page] /\ r.target # r.page

KidsCurrent(r) ==
    r.op = "move" /\ r.step \in {"parent", "write"} =>
        /\ r.target \notin Below(r.page)
        /\ \A c \in Pages : r.kids[c] = IF c \in Below(r.page) THEN path[c] ELSE Null

(* The page is still shown, and the target not too deep.                   *)
StillShown(r) ==
    /\ r.op = "move" /\ r.step \in {"kids", "parent", "write"} => state[r.page] = "active"
    /\ r.op = "archive" /\ r.step = "write" => state[r.page] = "active"
    /\ r.step = "write" /\ r.op \in {"create", "move"} /\ r.target # Null =>
          Len(path[r.target]) < MaxDepth

Current(r) == UnderTarget(r) /\ SourceCurrent(r) /\ KidsCurrent(r) /\ StillShown(r)

SerialTree == OneAtATime => Tree /\ \A s \in Requests : Current(req[s])

TreeInv == TypeInv /\ SerialTree

LEMMA IdleCurrent == Current(Idle)
  BY DEF Current, UnderTarget, SourceCurrent, KidsCurrent, StillShown, Idle

LEMMA InitTreeInv == Init => TreeInv
<1> SUFFICES ASSUME Init PROVE TreeInv
  OBVIOUS
<1>1. Tree
  BY DEF Init, Tree, Ancestors, ParentIsLast, AncestorsActive, Active, Made
<1>2. \A s \in Requests : Current(req[s])
  BY IdleCurrent DEF Init
<1> QED BY <1>1, <1>2, InitTypeInv DEF TreeInv, SerialTree

LEMMA MixKept == [Next]_vars => mix' = mix
<1>1. ASSUME NEW s \in Requests, Start(s) PROVE mix' = mix
  BY <1>1 DEF Start, StartCreate, StartMove, StartArchive, StartEdit, StartRestore, Begin
<1>2. ASSUME NEW s \in Requests, Read(s) PROVE mix' = mix
  BY <1>2 DEF Read, LoadPage, FindKids, ResolveParent, FindRevision, Advance, Refuse
<1>3. ASSUME NEW s \in Requests, Write(s) PROVE mix' = mix
  BY <1>3 DEF Write, CreatePage, MovePage, MoveConflict, ArchivePage, EditPage, EditConflict,
              Advance, Refuse
<1> QED BY <1>1, <1>2, <1>3 DEF Next, vars

(* Requests that never overlap leave each other's slots idle.              *)
LEMMA OthersIdle ==
    ASSUME TypeInv, OneAtATime, NEW s \in Requests, NEW t \in Requests, t # s,
           s \in mix.slots
    PROVE  req[t] = Idle
  BY DEF TypeInv, SlotsOK, OneAtATime

(* A step of one request that leaves the tree alone.                       *)
LEMMA TreeKept ==
    ASSUME TreeInv, TypeInv', mix' = mix, NEW s \in Requests, s \in mix.slots, NEW q,
           req' = [req EXCEPT ![s] = q], UNCHANGED tree, OneAtATime => Current(q)
    PROVE  TreeInv'
<1> SUFFICES ASSUME OneAtATime PROVE Tree' /\ \A t \in Requests : Current(req[t])'
  BY DEF TreeInv, SerialTree, OneAtATime
<1>1. state' = state /\ parent' = parent /\ path' = path
  BY DEF tree
<1>2. Made' = Made
  BY <1>1 DEF Made
<1>3. Tree'
  BY <1>1, <1>2
     DEF TreeInv, SerialTree, Tree, Ancestors, Ancestor, ParentIsLast, AncestorsActive, Active
<1>4. ASSUME NEW t \in Requests PROVE Current(req'[t])
  <2>1. req'[t] = IF t = s THEN q ELSE req[t]
    BY DEF TreeInv, TypeInv, TypeOK
  <2>2. t # s => req[t] = Idle
    BY OthersIdle DEF TreeInv
  <2> QED BY <2>1, <2>2, IdleCurrent
<1>5. \A t \in Requests : Current(req[t])'
  BY <1>1, <1>2, <1>4 DEF Current, UnderTarget, SourceCurrent, KidsCurrent, StillShown, Below
<1> QED BY <1>3, <1>5

(* A step of one request that ends it and leaves a tree behind.            *)
LEMMA TreeWritten ==
    ASSUME TreeInv, TypeInv', mix' = mix, NEW s \in Requests, s \in mix.slots,
           req'[s] = Idle,
           \A t \in Requests : t # s /\ req[t] = Idle => req'[t] = Idle,
           OneAtATime => Tree'
    PROVE  TreeInv'
<1> SUFFICES ASSUME OneAtATime PROVE \A t \in Requests : Current(req[t])'
  BY DEF TreeInv, SerialTree, OneAtATime
<1>1. ASSUME NEW t \in Requests PROVE req'[t] = Idle
  BY OthersIdle DEF TreeInv
<1> QED BY <1>1 DEF Current, UnderTarget, SourceCurrent, KidsCurrent, StillShown, Idle

LEMMA StartTreeInv ==
    ASSUME TreeInv, NEW s \in Requests, Start(s)
    PROVE  TreeInv'
<1>0. TypeInv' /\ Made \subseteq Pages
  BY StartTypeInv DEF TreeInv, Made
<1>1. ASSUME NEW q, Begin(s, q), Current(q) PROVE TreeInv'
  <2>1. /\ s \in mix.slots /\ mix' = mix
        /\ req' = [req EXCEPT ![s] = q] /\ UNCHANGED tree
    BY <1>1 DEF Begin
  <2> QED BY <1>0, <1>1, <2>1, TreeKept
<1>2. ASSUME NEW q, Begin(s, q), q.step = "load", q.under = <<>> PROVE TreeInv'
  <2>1. Current(q)
    BY <1>2 DEF Current, UnderTarget, SourceCurrent, KidsCurrent, StillShown
  <2> QED BY <1>1, <1>2, <2>1
<1>3. CASE StartCreate(s)
  <2>1. PICK t \in Made \cup {Null} :
           Begin(s, Resolving([Idle EXCEPT !.op = "create", !.target = t]))
    BY <1>3 DEF StartCreate
  <2> DEFINE q == Resolving([Idle EXCEPT !.op = "create", !.target = t])
  <2>2. /\ q.op = "create" /\ q.target = t /\ q.under = <<>>
        /\ q.step = "write" => t = Null
    BY DEF Resolving, Idle
  <2> HIDE DEF q
  <2>3. Current(q)
    BY <2>2 DEF Current, UnderTarget, SourceCurrent, KidsCurrent, StillShown
  <2>4. Begin(s, q)
    BY <2>1 DEF q
  <2> QED BY <1>1, <2>3, <2>4
<1>4. CASE StartMove(s)
  <2>1. PICK p \in Made, t \in Made \cup {Null} :
           Begin(s, [Idle EXCEPT !.op = "move", !.step = "load", !.page = p, !.target = t])
    BY <1>4 DEF StartMove
  <2> DEFINE q == [Idle EXCEPT !.op = "move", !.step = "load", !.page = p, !.target = t]
  <2>2. q.step = "load" /\ q.under = <<>>
    BY DEF Idle
  <2>3. Begin(s, q)
    BY <2>1
  <2> HIDE DEF q
  <2> QED BY <1>2, <2>2, <2>3
<1>5. CASE StartArchive(s)
  <2>1. PICK p \in Made : Begin(s, [Idle EXCEPT !.op = "archive", !.step = "load", !.page = p])
    BY <1>5 DEF StartArchive
  <2> DEFINE q == [Idle EXCEPT !.op = "archive", !.step = "load", !.page = p]
  <2>2. q.step = "load" /\ q.under = <<>>
    BY DEF Idle
  <2>3. Begin(s, q)
    BY <2>1
  <2> HIDE DEF q
  <2> QED BY <1>2, <2>2, <2>3
<1>6. CASE StartEdit(s)
  <2>1. PICK p \in Made, t \in Texts :
           Begin(s, [Idle EXCEPT !.op = "edit", !.step = "load", !.page = p, !.newText = t])
    BY <1>6 DEF StartEdit
  <2> DEFINE q == [Idle EXCEPT !.op = "edit", !.step = "load", !.page = p, !.newText = t]
  <2>2. q.step = "load" /\ q.under = <<>>
    BY DEF Idle
  <2>3. Begin(s, q)
    BY <2>1
  <2> HIDE DEF q
  <2> QED BY <1>2, <2>2, <2>3
<1>7. CASE StartRestore(s)
  <2>1. PICK p \in Made, v \in 1..MaxVersion :
           Begin(s, [Idle EXCEPT !.op = "restore", !.step = "load", !.page = p, !.wanted = v])
    BY <1>7 DEF StartRestore
  <2> DEFINE q == [Idle EXCEPT !.op = "restore", !.step = "load", !.page = p, !.wanted = v]
  <2>2. q.step = "load" /\ q.under = <<>>
    BY DEF Idle
  <2>3. Begin(s, q)
    BY <2>1
  <2> HIDE DEF q
  <2> QED BY <1>2, <2>2, <2>3
<1> QED BY <1>3, <1>4, <1>5, <1>6, <1>7 DEF Start

LEMMA DepthsCompare ==
    ASSUME TypeInv
    PROVE  \A q \in Made : q \in Pages /\ (Len(path[q]) >= MaxDepth \/ Len(path[q]) < MaxDepth)
  BY PagesAssumption DEF TypeInv, TypeOK, Paths, Made

LEMMA ReadTreeInv ==
    ASSUME TreeInv, NEW s \in Requests, Read(s)
    PROVE  TreeInv'
<1> DEFINE r == req[s]
           p == r.page
<1>0. /\ r \in Request /\ RequestOK(r) /\ Named(r) /\ TypeInv'
      /\ r # Idle => s \in mix.slots
      /\ OneAtATime => Current(r)
      /\ path \in [Pages -> Paths]
  BY ReadTypeInv DEF TreeInv, SerialTree, TypeInv, TypeOK, RequestsOK, SlotsOK
<1>1. ASSUME NEW q, Advance(s, q), OneAtATime => Current(q), r.step # "idle" PROVE TreeInv'
  <2>1. r # Idle
    BY <1>1, IdleOK
  <2>2. mix' = mix /\ req' = [req EXCEPT ![s] = q] /\ UNCHANGED tree
    BY <1>1 DEF Advance
  <2> QED BY <1>0, <1>1, <2>1, <2>2, TreeKept
<1>2. ASSUME Refuse(s), r.step # "idle" PROVE TreeInv'
  BY <1>1, <1>2, IdleCurrent DEF Refuse
<1>3. CASE LoadPage(s)
  <2> DEFINE m == [r EXCEPT !.step = "kids", !.from = parent[p], !.at = path[p], !.fresh = TRUE]
             a == [r EXCEPT !.step = "write"]
             e == [r EXCEPT !.step = AfterLoad(r.op), !.version = version[p], !.text = text[p]]
  <2>1. /\ r.step = "load"
        /\ \/ Refuse(s)
           \/ /\ state[p] = "active" /\ (r.op = "move" => r.target # p)
              /\ Advance(s, IF r.op = "move" THEN m ELSE IF r.op = "archive" THEN a ELSE e)
    BY <1>3 DEF LoadPage
  <2>2. r.op \in {"move", "archive", "edit", "restore"}
    BY <1>0, <2>1 DEF RequestOK, Request, Ops
  <2>3. OneAtATime /\ r.op = "move" /\ r.target # p /\ state[p] = "active" => Current(m)
    BY <1>0 DEF Current, UnderTarget, SourceCurrent, KidsCurrent, StillShown, Request
  <2>4. OneAtATime /\ r.op = "archive" /\ state[p] = "active" => Current(a)
    BY <1>0 DEF Current, UnderTarget, SourceCurrent, KidsCurrent, StillShown, Request
  <2>5. OneAtATime /\ r.op \in Edits => Current(e)
    BY <1>0 DEF Current, UnderTarget, SourceCurrent, KidsCurrent, StillShown, Request, Edits
  <2> HIDE DEF m, a, e
  <2> QED BY <1>1, <1>2, <2>1, <2>2, <2>3, <2>4, <2>5 DEF Edits
<1>4. CASE FindKids(s)
  <2> DEFINE k == [r EXCEPT !.kids = [c \in Pages |-> IF c \in Below(p) THEN path[c] ELSE Null]]
             q == Resolving(k)
  <2>1. /\ r.step = "kids" /\ r.op = "move"
        /\ Refuse(s) \/ (r.target \notin Below(p) /\ Advance(s, q))
    BY <1>0, <1>4 DEF FindKids, RequestOK
  <2>2. /\ q.op = r.op /\ q.target = r.target /\ q.under = r.under /\ q.page = p
        /\ q.at = r.at /\ q.from = r.from
        /\ q.step = IF r.target = Null THEN "write" ELSE "parent"
    BY <1>0 DEF Resolving, Request
  <2>3. \A c \in Pages : q.kids[c] = IF c \in Below(p) THEN path[c] ELSE Null
    BY <1>0 DEF Resolving, Request
  <2> HIDE DEF q
  <2>4. OneAtATime /\ r.target \notin Below(p) => Current(q)
    BY <1>0, <2>1, <2>2, <2>3 DEF Current, UnderTarget, SourceCurrent, KidsCurrent, StillShown
  <2> QED BY <1>1, <1>2, <2>1, <2>4
<1>5. CASE ResolveParent(s)
  <2> DEFINE q == [r EXCEPT !.step = "write", !.under = Append(path[r.target], r.target)]
  <2>1. /\ r.step = "parent" /\ r.target # Null
        /\ \/ Refuse(s)
           \/ state[r.target] = "active" /\ Len(path[r.target]) < MaxDepth /\ Advance(s, q)
    <3>1. /\ r.step = "parent"
          /\ \/ Refuse(s)
             \/ /\ state[r.target] = "active" /\ ~(Len(path[r.target]) >= MaxDepth)
                /\ Advance(s, q)
      BY <1>5 DEF ResolveParent
    <3>2. r.target # Null /\ r.target \in Made
      BY <1>0, <3>1 DEF RequestOK, Named
    <3>3. ~(Len(path[r.target]) >= MaxDepth) => Len(path[r.target]) < MaxDepth
      BY <3>2, DepthsCompare DEF TreeInv
    <3> QED BY <3>1, <3>2, <3>3
  <2>2. /\ q.op = r.op /\ q.target = r.target /\ q.page = p /\ q.kids = r.kids
        /\ q.at = r.at /\ q.from = r.from /\ q.step = "write"
        /\ q.under = Append(path[r.target], r.target)
    BY <1>0 DEF Request
  <2> HIDE DEF q
  <2>3. OneAtATime /\ state[r.target] = "active" /\ Len(path[r.target]) < MaxDepth
          => Current(q)
    <3>1. OneAtATime => UnderTarget(r) /\ SourceCurrent(r) /\ KidsCurrent(r) /\ StillShown(r)
      BY <1>0 DEF Current
    <3>2. OneAtATime => SourceCurrent(q) /\ KidsCurrent(q)
      BY <2>1, <2>2, <3>1 DEF SourceCurrent, KidsCurrent
    <3>3. state[r.target] = "active" => UnderTarget(q)
      BY <2>1, <2>2 DEF UnderTarget
    <3>4. OneAtATime /\ Len(path[r.target]) < MaxDepth => StillShown(q)
      BY <1>0, <2>1, <2>2, <3>1 DEF StillShown, RequestOK
    <3> QED BY <3>2, <3>3, <3>4 DEF Current
  <2> QED BY <1>1, <1>2, <2>1, <2>3
<1>6. CASE FindRevision(s)
  <2>1. /\ r.step = "revision" /\ r.op = "restore"
        /\ \/ Refuse(s)
           \/ \E h \in history[p] : Advance(s, [r EXCEPT !.step = "write", !.newText = h.text])
    BY <1>0, <1>6 DEF FindRevision, RequestOK
  <2>2. ASSUME NEW h, OneAtATime PROVE Current([r EXCEPT !.step = "write", !.newText = h.text])
    BY <1>0, <2>1, <2>2 DEF Current, UnderTarget, SourceCurrent, KidsCurrent, StillShown, Request
  <2> QED BY <1>1, <1>2, <2>1, <2>2
<1> QED BY <1>3, <1>4, <1>5, <1>6 DEF Read

(* A rebased path: the new ancestors, the page itself, and what came after *)
(* the page in the old path.                                               *)
LEMMA RebasedAt ==
    ASSUME NEW r, r.under \in Paths, r.at \in Paths, r.page \in Pages, NEW old \in Paths,
           Len(r.at) < Len(old)
    PROVE  LET new == Rebased(r, old)
               u == Len(r.under)
               n == Len(r.at)
           IN  /\ Len(new) = u + Len(old) - n
               /\ \A i \in 1..Len(new) :
                     new[i] = IF i <= u THEN r.under[i]
                              ELSE IF i = u + 1 THEN r.page ELSE old[i - u + n]
<1> DEFINE u == Len(r.under)
           n == Len(r.at)
           rest == SubSeq(old, n + 2, Len(old))
           top == r.under \o <<r.page>>
<1>1. /\ u \in Nat /\ n \in Nat /\ Len(old) \in Nat /\ n < Len(old)
      /\ u = Len(r.under) /\ n = Len(r.at)
      /\ \A i \in 1..Len(old) : old[i] \in Pages
  BY DEF Paths
<1> HIDE DEF u, n
<1>2. /\ <<r.page>> \in Paths /\ Len(<<r.page>>) = 1 /\ <<r.page>>[1] = r.page
  BY DEF Paths
<1>3. /\ rest \in Paths /\ Len(rest) = Len(old) - n - 1
      /\ \A i \in 1..Len(rest) : rest[i] = old[i + n + 1]
  <2> DEFINE m == n + 2
             k == Len(old)
  <2>1. \A i \in m..k : old[i] \in Pages
    BY <1>1
  <2>2. m \in Int /\ k \in Int /\ m = n + 2 /\ k = Len(old)
    BY <1>1
  <2>3. rest = SubSeq(old, m, k)
    OBVIOUS
  <2> HIDE DEF m, k, rest
  <2>4. /\ SubSeq(old, m, k) \in Seq(Pages)
        /\ Len(SubSeq(old, m, k)) = IF m <= k THEN k - m + 1 ELSE 0
        /\ \A i \in 1..(k - m + 1) : SubSeq(old, m, k)[i] = old[m + i - 1]
    BY <2>1, <2>2, SubSeqProperties
  <2>5. Len(rest) = k - m + 1 /\ k - m + 1 = Len(old) - n - 1
    <3>1. /\ k - m + 1 = Len(old) - n - 1 /\ k \in Nat /\ m \in Nat
          /\ ~(m <= k) => k - m + 1 = 0
      BY <1>1, <2>2
    <3> QED BY <2>3, <2>4, <3>1
  <2>6. ASSUME NEW i \in 1..(k - m + 1) PROVE rest[i] = old[i + n + 1]
    <3>1. m + i - 1 = i + n + 1
      BY <1>1, <2>2
    <3> QED BY <2>3, <2>4, <3>1
  <2> QED BY <2>3, <2>4, <2>5, <2>6 DEF Paths
<1>4. /\ top \in Paths /\ Len(top) = u + 1
      /\ \A i \in 1..(u + 1) : top[i] = IF i <= u THEN r.under[i] ELSE r.page
  <2>1. /\ top \in Seq(Pages) /\ Len(top) = u + 1
        /\ \A i \in 1..(u + 1) : top[i] = IF i <= u THEN r.under[i] ELSE <<r.page>>[i - u]
    BY <1>1, <1>2, ConcatProperties DEF Paths
  <2> HIDE DEF top
  <2>2. ASSUME NEW i \in 1..(u + 1), ~(i <= u) PROVE i - u = 1
    BY <1>1, <2>2
  <2> QED BY <1>2, <2>1, <2>2 DEF Paths
<1>5. Rebased(r, old) = top \o rest
  BY <1>1 DEF Rebased
<1> HIDE DEF rest, top
<1>6. /\ Len(top \o rest) = u + 1 + Len(rest)
      /\ \A i \in 1..(u + 1 + Len(rest)) :
            (top \o rest)[i] = IF i <= u + 1 THEN top[i] ELSE rest[i - (u + 1)]
  <2>1. top \in Seq(Pages) /\ rest \in Seq(Pages) /\ Len(top) = u + 1
    BY <1>3, <1>4 DEF Paths
  <2>2. /\ Len(top \o rest) = Len(top) + Len(rest)
        /\ \A i \in 1..(Len(top) + Len(rest)) :
              (top \o rest)[i] = IF i <= Len(top) THEN top[i] ELSE rest[i - Len(top)]
    BY <2>1, ConcatProperties, Zenon
  <2> QED BY <2>1, <2>2, Zenon
<1>7. u + 1 + Len(rest) = u + Len(old) - n
  BY <1>1, <1>3
<1>8. ASSUME NEW i \in 1..(u + Len(old) - n)
      PROVE  (top \o rest)[i] = IF i <= u THEN r.under[i]
                                ELSE IF i = u + 1 THEN r.page ELSE old[i - u + n]
  <2>1. CASE i <= u + 1
    <3>1. i \in 1..(u + 1)
      BY <1>1, <2>1
    <3>2. (top \o rest)[i] = top[i]
      BY <1>6, <1>7, <2>1
    <3> QED BY <1>1, <1>4, <3>1, <3>2
  <2>2. CASE i > u + 1
    <3>1. i - (u + 1) \in 1..Len(rest) /\ (i - (u + 1)) + n + 1 = i - u + n
      BY <1>1, <1>7, <1>3, <2>2
    <3>2. ~(i <= u + 1) /\ ~(i <= u) /\ i # u + 1
      BY <1>1, <2>2
    <3>3. (top \o rest)[i] = rest[i - (u + 1)]
      BY <1>6, <1>7, <3>2
    <3>4. rest[i - (u + 1)] = old[i - u + n]
      BY <1>3, <3>1
    <3> QED BY <3>2, <3>3, <3>4
  <2>3. i \in Int /\ u + 1 \in Int
    BY <1>1
  <2>4. i <= u + 1 \/ i > u + 1
    BY <2>3
  <2> QED BY <2>1, <2>2, <2>4
<1> QED BY <1>1, <1>5, <1>6, <1>7, <1>8

Typing ==
    /\ state \in [Pages -> {"absent", "active", "archived"}]
    /\ parent \in [Pages -> Pages \cup {Null}] /\ path \in [Pages -> Paths]

(* A path is where it is found: a page below p has the path of p, then p.  *)
LEMMA BelowAt ==
    ASSUME Typing, Ancestors, NEW p \in Made, NEW c \in Below(p)
    PROVE  /\ c \in Made /\ c # p /\ Len(path[p]) < Len(path[c])
           /\ path[c][Len(path[p]) + 1] = p
<1>1. PICK i \in 1..Len(path[c]) : path[c][i] = p
  BY DEF Below, On
<1>2. c \in Made /\ p \in Pages /\ c \in Pages
  BY DEF Below, Made
<1>3. Len(path[p]) = i - 1 /\ Len(path[c]) \in Nat
  BY <1>1, <1>2 DEF Ancestors, Ancestor, Typing, Paths
<1> QED BY <1>1, <1>2, <1>3

(* The pages above c that are below p make c a page below p.               *)
LEMMA BelowMeans ==
    ASSUME Typing, Ancestors, NEW p \in Made, NEW c \in Made, NEW i \in 1..Len(path[c]),
           path[c][i] = p \/ path[c][i] \in Below(p)
    PROVE  c \in Below(p)
<1> DEFINE d == path[c][i]
<1>0. c \in Pages /\ Len(path[c]) \in Nat
  BY DEF Made, Typing, Paths
<1>1. CASE d = p
  BY <1>1 DEF Below, On
<1>2. CASE d \in Below(p)
  <2>1. PICK j \in 1..Len(path[d]) : path[d][j] = p
    BY <1>2 DEF Below, On
  <2>2. Len(path[d]) = i - 1 /\ \A k \in 1..(i - 1) : path[d][k] = path[c][k]
    BY DEF Ancestors, Ancestor
  <2>3. j \in 1..Len(path[c]) /\ path[c][j] = p
    BY <1>0, <2>1, <2>2
  <2> QED BY <2>3 DEF Below, On
<1> QED BY <1>1, <1>2

LEMMA AppendAt ==
    ASSUME NEW old \in Paths, NEW q \in Pages
    PROVE  /\ Append(old, q) \in Paths /\ Len(Append(old, q)) = Len(old) + 1
           /\ Append(old, q)[Len(old) + 1] = q
           /\ \A j \in 1..Len(old) : Append(old, q)[j] = old[j]
  BY DEF Paths

LEMMA PathRange ==
    ASSUME NEW steps \in Paths
    PROVE  /\ Len(steps) \in Nat /\ Range(steps) = {steps[i] : i \in 1..Len(steps)}
           /\ Range(steps) \subseteq Pages
  BY RangeEquality DEF Paths

LEMMA AppendRange ==
    ASSUME NEW old \in Paths, NEW q \in Pages
    PROVE  Range(Append(old, q)) = Range(old) \cup {q}
<1> DEFINE new == Append(old, q)
<1>1. /\ new \in Paths /\ Len(new) = Len(old) + 1 /\ new[Len(old) + 1] = q
      /\ \A j \in 1..Len(old) : new[j] = old[j]
  BY AppendAt
<1> HIDE DEF new
<1>2. /\ Range(old) = {old[i] : i \in 1..Len(old)} /\ Len(old) \in Nat
      /\ Range(new) = {new[i] : i \in 1..(Len(old) + 1)}
  BY <1>1, PathRange
<1>3. Range(new) = Range(old) \cup {q}
  BY <1>1, <1>2
<1> QED BY <1>3 DEF new

(* No path names a page twice, and the path of c starts with the paths of  *)
(* the pages it names.                                                     *)
LEMMA RestOfPath ==
    ASSUME Typing, Ancestors, NEW p \in Made, NEW c \in Below(p), NEW k \in 1..Len(path[c])
    PROVE  path[c][k] \in Range(path[p]) <=> k <= Len(path[p])
<1>1. /\ c \in Made /\ c \in Pages /\ p \in Pages /\ path[c] \in Paths /\ path[p] \in Paths
      /\ Len(path[p]) < Len(path[c]) /\ path[c][Len(path[p]) + 1] = p
  BY BelowAt DEF Made, Typing
<1> DEFINE n == Len(path[p])
<1>2. n \in Nat /\ Len(path[c]) \in Nat /\ n < Len(path[c]) /\ n + 1 \in 1..Len(path[c])
  BY <1>1, PathRange
<1>3. \A j \in 1..n : path[p][j] = path[c][j]
  <2>1. Ancestor(c, n + 1) /\ (n + 1) - 1 = n /\ path[c][n + 1] = p /\ n = Len(path[p])
    BY <1>1, <1>2 DEF Ancestors
  <2> HIDE DEF n
  <2> QED BY <2>1 DEF Ancestor
<1>4. ASSUME NEW i \in 1..Len(path[c]) PROVE Len(path[path[c][i]]) = i - 1
  BY <1>1 DEF Ancestors, Ancestor
<1>5. Range(path[p]) = {path[p][i] : i \in 1..n}
  BY <1>1, PathRange
<1>6. ASSUME k <= n PROVE path[c][k] \in Range(path[p])
  BY <1>2, <1>3, <1>5, <1>6
<1>7. ASSUME path[c][k] \in Range(path[p]) PROVE k <= n
  <2>1. PICK j \in 1..n : path[p][j] = path[c][k]
    BY <1>5, <1>7
  <2>2. j \in 1..Len(path[c]) /\ path[c][j] = path[c][k]
    BY <1>2, <1>3, <2>1
  <2>3. j - 1 = k - 1
    BY <1>4, <2>2
  <2> QED BY <1>2, <2>1, <2>3
<1> QED BY <1>6, <1>7

(* A path under which p may be put.                                        *)
Above(under, p) ==
    \A i \in 1..Len(under) :
        LET d == under[i]
        IN  /\ d \in Made /\ d \notin Below(p) /\ d # p
            /\ Len(path[d]) = i - 1
            /\ \A j \in 1..(i - 1) : path[d][j] = under[j]

LEMMA TargetAbove ==
    ASSUME Typing, Ancestors, NEW p \in Made, NEW t \in Made, t # p, t \notin Below(p)
    PROVE  Above(Append(path[t], t), p)
<1> DEFINE under == Append(path[t], t)
<1>1. /\ t \in Pages /\ path[t] \in Paths /\ Len(path[t]) \in Nat
  BY DEF Made, Typing, Paths
<1>2. /\ Len(under) = Len(path[t]) + 1 /\ under[Len(path[t]) + 1] = t
      /\ \A j \in 1..Len(path[t]) : under[j] = path[t][j]
  BY <1>1, AppendAt
<1> HIDE DEF under
<1>3. ASSUME NEW i \in 1..Len(under)
      PROVE  /\ under[i] \in Made /\ under[i] \notin Below(p) /\ under[i] # p
             /\ Len(path[under[i]]) = i - 1
             /\ \A j \in 1..(i - 1) : path[under[i]][j] = under[j]
  <2>1. CASE i = Len(path[t]) + 1
    <3>1. under[i] = t /\ i - 1 = Len(path[t])
      BY <1>1, <1>2, <2>1
    <3> QED BY <1>2, <3>1
  <2>2. CASE i # Len(path[t]) + 1
    <3>1. i \in 1..Len(path[t]) /\ under[i] = path[t][i]
      BY <1>1, <1>2, <2>2
    <3>2. /\ under[i] \in Made /\ Len(path[under[i]]) = i - 1
          /\ \A j \in 1..(i - 1) : path[under[i]][j] = path[t][j]
      BY <3>1 DEF Ancestors, Ancestor
    <3>3. under[i] \notin Below(p) /\ under[i] # p
      BY <3>1, BelowMeans
    <3>4. \A j \in 1..(i - 1) : under[j] = path[t][j]
      BY <1>1, <1>2, <3>1
    <3> QED BY <3>2, <3>3, <3>4
  <2> QED BY <2>1, <2>2
<1> QED BY <1>3 DEF Above, under

(* The paths after p has been put under a path, those below p rebased.     *)
Moved(new, under, p) ==
    /\ new[p] = under
    /\ \A c \in Made \ (Below(p) \cup {p}) : new[c] = path[c]
    /\ \A c \in Below(p) :
          LET u == Len(under)
              n == Len(path[p])
          IN  /\ Len(new[c]) = u + Len(path[c]) - n
              /\ \A i \in 1..Len(new[c]) :
                    new[c][i] = IF i <= u THEN under[i]
                                ELSE IF i = u + 1 THEN p ELSE path[c][i - u + n]

(* What Moved says of one page below p, with names for the lengths.        *)
Rehung(new, under, p, c, u, n) ==
    /\ c \in Made /\ c # p /\ Len(path[c]) \in Nat /\ u \in Nat /\ n \in Nat
    /\ n < Len(path[c]) /\ path[c][n + 1] = p
    /\ Len(new[c]) = u + Len(path[c]) - n
    /\ \A i \in 1..(u + Len(path[c]) - n) :
          new[c][i] = IF i <= u THEN under[i]
                      ELSE IF i = u + 1 THEN p ELSE path[c][i - u + n]

LEMMA MovedAt ==
    ASSUME Typing, Ancestors, NEW p \in Made, NEW under \in Paths, NEW new, Moved(new, under, p),
           NEW c \in Below(p)
    PROVE  Rehung(new, under, p, c, Len(under), Len(path[p]))
<1>1. c \in Made /\ c # p /\ Len(path[p]) < Len(path[c]) /\ path[c][Len(path[p]) + 1] = p
  BY BelowAt
<1>2. Len(path[c]) \in Nat /\ Len(under) \in Nat /\ Len(path[p]) \in Nat
  BY <1>1 DEF Made, Typing, Paths
<1>3. /\ Len(new[c]) = Len(under) + Len(path[c]) - Len(path[p])
      /\ \A i \in 1..Len(new[c]) :
            new[c][i] = IF i <= Len(under) THEN under[i]
                        ELSE IF i = Len(under) + 1 THEN p
                             ELSE path[c][i - Len(under) + Len(path[p])]
  BY DEF Moved
<1> QED BY <1>1, <1>2, <1>3 DEF Rehung

(* What is above a page after the page p above it has moved.               *)
LEMMA MovedRange ==
    ASSUME Typing, Ancestors, NEW p \in Made, NEW under \in Paths, NEW new, Moved(new, under, p),
           NEW c \in Below(p), new[c] \in Paths
    PROVE  Range(new[c]) = Range(under) \cup (Range(path[c]) \ Range(path[p]))
<1> DEFINE u == Len(under)
           n == Len(path[p])
           L == Len(path[c])
<1>1. Rehung(new, under, p, c, u, n) /\ c \in Made /\ c \in Pages
  BY MovedAt DEF Below, Made
<1>2. /\ u \in Nat /\ n \in Nat /\ L \in Nat /\ n < L /\ path[c][n + 1] = p
      /\ Len(new[c]) = u + L - n
  BY <1>1 DEF Rehung
<1>3. \A i \in 1..(u + L - n) :
         new[c][i] = IF i <= u THEN under[i] ELSE IF i = u + 1 THEN p ELSE path[c][i - u + n]
  BY <1>1 DEF Rehung
<1>4. \A k \in 1..L : path[c][k] \in Range(path[p]) <=> k <= n
  BY RestOfPath
<1>5. /\ Range(new[c]) = {new[c][i] : i \in 1..(u + L - n)}
      /\ Range(path[c]) = {path[c][i] : i \in 1..L}
      /\ Range(under) = {under[i] : i \in 1..u}
  BY <1>1, <1>2, PathRange DEF Typing
<1> HIDE DEF u, n, L
<1>6. ASSUME NEW i \in 1..(u + L - n)
      PROVE  new[c][i] \in Range(under) \cup (Range(path[c]) \ Range(path[p]))
  <2>1. CASE i <= u
    BY <1>2, <1>3, <1>5, <2>1
  <2>2. CASE ~(i <= u)
    <3>1. i - u + n \in 1..L /\ ~(i - u + n <= n)
      BY <1>2, <2>2
    <3>2. new[c][i] = path[c][i - u + n]
      BY <1>2, <1>3, <2>2
    <3> QED BY <1>4, <1>5, <3>1, <3>2
  <2> QED BY <2>1, <2>2
<1>7. ASSUME NEW i \in 1..u PROVE under[i] \in Range(new[c])
  <2>1. i \in 1..(u + L - n) /\ i <= u
    BY <1>2
  <2> QED BY <1>3, <1>5, <2>1
<1>8. ASSUME NEW k \in 1..L, path[c][k] \notin Range(path[p]) PROVE path[c][k] \in Range(new[c])
  <2>1. ~(k <= n)
    BY <1>4, <1>8
  <2> DEFINE i == k + u - n
  <2>2. i \in 1..(u + L - n) /\ ~(i <= u) /\ i - u + n = k /\ (i = u + 1 => k = n + 1)
    BY <1>2, <2>1
  <2> HIDE DEF i
  <2>3. new[c][i] = path[c][k]
    BY <1>2, <1>3, <2>2
  <2> QED BY <1>5, <2>2, <2>3
<1> QED BY <1>5, <1>6, <1>7, <1>8

(* d is in place i of the path of c, and has what comes before as its own. *)
Fits(new, c, i, d) ==
    /\ new[c][i] = d /\ d \in Made /\ Len(new[d]) = i - 1
    /\ \A j \in 1..(i - 1) : new[d][j] = new[c][j]

LEMMA MovedAncestors ==
    ASSUME Typing, Ancestors, NEW p \in Made, NEW under \in Paths, Above(under, p),
           NEW new, Moved(new, under, p), NEW c \in Made, NEW i \in 1..Len(new[c])
    PROVE  \E d : Fits(new, c, i, d)
<1> DEFINE u == Len(under)
           n == Len(path[p])
<1>0. u \in Nat /\ n \in Nat /\ u = Len(under) /\ n = Len(path[p])
  BY DEF Made, Typing, Paths
<1>1. ASSUME NEW k \in 1..u
      PROVE  /\ under[k] \in Made /\ new[under[k]] = path[under[k]] /\ Len(path[under[k]]) = k - 1
             /\ \A j \in 1..(k - 1) : path[under[k]][j] = under[j]
  BY DEF Above, Moved
<1> HIDE DEF u, n
<1>2. CASE c = p
  <2>1. new[c] = under /\ i \in 1..u
    BY <1>0, <1>2 DEF Moved
  <2>2. new[p][i] = under[i] /\ new[p] = under
    BY <1>2, <2>1
  <2>3. Fits(new, p, i, under[i])
    BY <1>1, <2>1, <2>2 DEF Fits
  <2> QED BY <1>2, <2>3
<1>3. CASE c # p /\ c \notin Below(p)
  <2> DEFINE d == path[c][i]
  <2>1. new[c] = path[c] /\ i \in 1..Len(path[c])
    BY <1>3 DEF Moved
  <2>2. d \in Made /\ Len(path[d]) = i - 1 /\ \A j \in 1..(i - 1) : path[d][j] = path[c][j]
    BY <2>1 DEF Ancestors, Ancestor
  <2>3. d # p /\ d \notin Below(p)
    BY <1>3, <2>1, BelowMeans
  <2>4. new[c][i] = d
    BY <2>1
  <2> HIDE DEF d
  <2>5. new[d] = path[d]
    BY <2>2, <2>3 DEF Moved
  <2> QED BY <2>1, <2>2, <2>4, <2>5 DEF Fits
<1>4. CASE c \in Below(p)
  <2>0. Rehung(new, under, p, c, u, n)
    BY <1>0, <1>4, MovedAt
  <2>1. /\ c # p /\ Len(path[c]) \in Nat
        /\ n < Len(path[c]) /\ path[c][n + 1] = p
        /\ Len(new[c]) = u + Len(path[c]) - n
    BY <2>0 DEF Rehung
  <2>2. \A j \in 1..(u + Len(path[c]) - n) :
           new[c][j] = IF j <= u THEN under[j]
                       ELSE IF j = u + 1 THEN p ELSE path[c][j - u + n]
    BY <2>0 DEF Rehung
  <2>3. i \in 1..(u + Len(path[c]) - n) /\ i \in Nat
    BY <1>0, <2>1
  <2>4. \A j \in 1..(i - 1) : j \in 1..(u + Len(path[c]) - n)
    BY <1>0, <2>1, <2>3
  <2>5. CASE i <= u
    <3>1. i \in 1..u /\ new[c][i] = under[i]
      <4>1. i \in 1..u
        BY <1>0, <2>3, <2>5
      <4> QED BY <2>2, <2>3, <2>5, <4>1
    <3>2. \A j \in 1..(i - 1) : j <= u
      BY <1>0, <2>3, <2>5
    <3>3. \A j \in 1..(i - 1) : new[c][j] = under[j]
      BY <2>2, <2>4, <3>2
    <3> QED BY <1>1, <3>1, <3>3 DEF Fits
  <2>6. CASE i = u + 1
    <3>1. new[c][i] = p
      <4>1. ~(i <= u)
        BY <1>0, <2>6
      <4> QED BY <2>2, <2>3, <2>6, <4>1
    <3>2. new[p] = under /\ Len(under) = i - 1
      BY <1>0, <2>6 DEF Moved
    <3>3. \A j \in 1..(i - 1) : j <= u
      BY <1>0, <2>3, <2>6
    <3>4. \A j \in 1..(i - 1) : new[c][j] = under[j]
      BY <2>2, <2>4, <3>3
    <3> QED BY <3>1, <3>2, <3>4 DEF Fits
  <2>7. CASE i > u + 1
    <3> DEFINE m == i - u + n
               d == path[c][m]
    <3>1. /\ m \in 1..Len(path[c]) /\ n + 1 \in 1..(m - 1) /\ u + (m - 1) - n = i - 1
          /\ m \in Int /\ m = i - u + n
      BY <1>0, <2>1, <2>3, <2>7
    <3>2. new[c][i] = d
      <4>1. ~(i <= u) /\ i # u + 1
        BY <1>0, <2>3, <2>7
      <4> QED BY <2>2, <2>3, <4>1
    <3> HIDE DEF m
    <3>3. /\ d \in Made /\ Len(path[d]) = m - 1
          /\ \A j \in 1..(m - 1) : path[d][j] = path[c][j]
      BY <3>1 DEF Ancestors, Ancestor
    <3>4. d \in Below(p)
      <4>1. path[d][n + 1] = p /\ n + 1 \in 1..Len(path[d])
        BY <2>1, <3>1, <3>3
      <4> QED BY <3>3, <4>1 DEF Below, On
    <3> HIDE DEF d
    <3>r. Rehung(new, under, p, d, u, n)
      BY <1>0, <3>4, MovedAt
    <3>5. Len(new[d]) = u + Len(path[d]) - n
      BY <3>r DEF Rehung
    <3>6. Len(new[d]) = i - 1 /\ u + Len(path[d]) - n = i - 1
      BY <3>1, <3>3, <3>5
    <3>7. \A j \in 1..(u + Len(path[d]) - n) :
             new[d][j] = IF j <= u THEN under[j]
                         ELSE IF j = u + 1 THEN p ELSE path[d][j - u + n]
      BY <3>r DEF Rehung
    <3>8. ASSUME NEW j \in 1..(i - 1) PROVE new[d][j] = new[c][j]
      <4>1. ~(j <= u) /\ j # u + 1 => j - u + n \in 1..(m - 1)
        BY <1>0, <2>3, <3>1
      <4>2. ~(j <= u) /\ j # u + 1 => path[d][j - u + n] = path[c][j - u + n]
        BY <3>3, <4>1
      <4>3. new[c][j] = IF j <= u THEN under[j]
                        ELSE IF j = u + 1 THEN p ELSE path[c][j - u + n]
        BY <2>2, <2>4
      <4>4. new[d][j] = IF j <= u THEN under[j]
                        ELSE IF j = u + 1 THEN p ELSE path[d][j - u + n]
        BY <3>6, <3>7
      <4> QED BY <4>2, <4>3, <4>4
    <3> QED BY <3>2, <3>3, <3>6, <3>8 DEF Fits
  <2>8. i <= u \/ i = u + 1 \/ i > u + 1
    BY <1>0, <2>3
  <2> QED BY <2>5, <2>6, <2>7, <2>8
<1> QED BY <1>2, <1>3, <1>4

LEMMA MovedLast ==
    ASSUME Typing, Ancestors, ParentIsLast, NEW p \in Made, NEW under \in Paths,
           NEW new, Moved(new, under, p), NEW c \in Made, c # p
    PROVE  /\ parent[c] = Null => new[c] = <<>>
           /\ parent[c] # Null => new[c] # <<>> /\ new[c][Len(new[c])] = parent[c]
<1>1. CASE c \notin Below(p)
  BY <1>1 DEF Moved, ParentIsLast
<1>2. CASE c \in Below(p)
  <2> DEFINE u == Len(under)
             n == Len(path[p])
             k == u + Len(path[c]) - n
  <2>0. Rehung(new, under, p, c, u, n)
    BY <1>2, MovedAt
  <2>1. /\ u \in Nat /\ n \in Nat /\ Len(path[c]) \in Nat /\ n < Len(path[c])
        /\ path[c][n + 1] = p /\ Len(new[c]) = k
    BY <2>0 DEF Rehung
  <2>2. \A j \in 1..k :
           new[c][j] = IF j <= u THEN under[j]
                       ELSE IF j = u + 1 THEN p ELSE path[c][j - u + n]
    BY <2>0 DEF Rehung
  <2> HIDE DEF u, n
  <2>3. path[c] # <<>>
    BY <2>1
  <2>4. parent[c] # Null /\ path[c][Len(path[c])] = parent[c]
    BY <2>3 DEF ParentIsLast
  <2>5. /\ k \in 1..k /\ ~(k <= u) /\ k - u + n = Len(path[c]) /\ k # 0
        /\ k = u + 1 => Len(path[c]) = n + 1
    BY <2>1
  <2> HIDE DEF k
  <2>6. new[c][k] = IF k = u + 1 THEN p ELSE path[c][Len(path[c])]
    BY <2>2, <2>5
  <2>7. new[c][k] = parent[c]
    BY <2>1, <2>4, <2>5, <2>6
  <2>8. new[c] # <<>>
    BY <2>1, <2>5
  <2> QED BY <2>1, <2>4, <2>7, <2>8
<1> QED BY <1>1, <1>2

LEMMA FitAncestors ==
    ASSUME Made' = Made,
           \A c \in Made : \A i \in 1..Len(path'[c]) : \E d : Fits(path', c, i, d)
    PROVE  Ancestors'
<1>1. ASSUME NEW c \in Made, NEW i \in 1..Len(path'[c]) PROVE Ancestor(c, i)'
  <2>1. PICK d : Fits(path', c, i, d)
    OBVIOUS
  <2> QED BY <2>1 DEF Fits, Ancestor
<1> QED BY <1>1 DEF Ancestors

(* What a move that no other request overlaps does: the page is put under  *)
(* the target, and the paths below it are rebased.                         *)
MovesAlone(r) ==
    /\ r.page \in Made /\ r.target \in Made \cup {Null} /\ r.under \in Paths
    /\ r.at = path[r.page] /\ r.target # r.page /\ r.target \notin Below(r.page)
    /\ r.target = Null => r.under = <<>>
    /\ r.target # Null => r.under = Append(path[r.target], r.target) /\ state[r.target] = "active"
    /\ parent' = [parent EXCEPT ![r.page] = r.target] /\ state' = state
    /\ path' = [c \in Pages |-> IF c \in Below(r.page) THEN Rebased(r, path[c])
                                ELSE IF c = r.page THEN r.under ELSE path[c]]

LEMMA MovedPaths ==
    ASSUME Typing, Ancestors, NEW r, MovesAlone(r)
    PROVE  Above(r.under, r.page) /\ Moved(path', r.under, r.page) /\ path' \in [Pages -> Paths]
<1> USE DEF MovesAlone
<1> DEFINE p == r.page
           t == r.target
           under == r.under
<1>0. /\ p \in Made /\ p \in Pages /\ t \in Made \cup {Null} /\ Made \subseteq Pages
      /\ under \in Paths
  BY DEF Made
<1>1. Above(under, p)
  <2>1. CASE t = Null
    BY <2>1 DEF Above
  <2>2. CASE t # Null
    BY <1>0, <2>2, TargetAbove
  <2> QED BY <2>1, <2>2
<1>2. Moved(path', under, p)
  <2>1. p \notin Below(p)
    BY <1>0, BelowAt
  <2>2. path'[p] = under
    BY <1>0, <2>1
  <2>3. ASSUME NEW c \in Made \ (Below(p) \cup {p}) PROVE path'[c] = path[c]
    BY <1>0, <2>3
  <2>4. ASSUME NEW c \in Below(p)
        PROVE  /\ Len(path'[c]) = Len(under) + Len(path[c]) - Len(path[p])
               /\ \A i \in 1..Len(path'[c]) :
                     path'[c][i] = IF i <= Len(under) THEN under[i]
                                   ELSE IF i = Len(under) + 1 THEN p
                                        ELSE path[c][i - Len(under) + Len(path[p])]
    <3>1. c \in Pages /\ path[c] \in Paths /\ r.at \in Paths /\ Len(r.at) < Len(path[c])
      BY <1>0, BelowAt DEF Typing, Below
    <3>2. /\ Len(Rebased(r, path[c])) = Len(r.under) + Len(path[c]) - Len(r.at)
          /\ \A i \in 1..Len(Rebased(r, path[c])) :
                Rebased(r, path[c])[i] =
                   IF i <= Len(r.under) THEN r.under[i]
                   ELSE IF i = Len(r.under) + 1 THEN r.page
                        ELSE path[c][i - Len(r.under) + Len(r.at)]
      BY <1>0, <3>1, RebasedAt
    <3>3. path'[c] = Rebased(r, path[c])
      BY <3>1
    <3> QED BY <3>2, <3>3, ZenonT(60)
  <2> HIDE DEF under, p
  <2> QED BY <2>2, <2>3, <2>4 DEF Moved
<1>3. path' \in [Pages -> Paths]
  BY <1>0, RebasedPath DEF Typing
<1> QED BY <1>1, <1>2, <1>3

LEMMA MovedTree ==
    ASSUME Typing, Tree, NEW r, MovesAlone(r)
    PROVE  Tree'
<1> USE DEF MovesAlone
<1> DEFINE p == r.page
           t == r.target
           under == r.under
<1>0. /\ p \in Made /\ p \in Pages /\ t \in Made \cup {Null} /\ Made \subseteq Pages
      /\ Made' = Made /\ Null \notin Pages /\ under \in Paths
      /\ Ancestors /\ ParentIsLast /\ AncestorsActive
  BY PagesAssumption DEF Made, Tree
<1>1. Above(under, p)
  BY <1>0, MovedPaths
<1>2. Moved(path', under, p) /\ path' \in [Pages -> Paths]
  BY <1>0, MovedPaths
<1>3. /\ parent'[p] = t
      /\ \A c \in Pages : c # p => parent'[c] = parent[c]
  BY <1>0 DEF Typing
<1>4. path'[p] = under
  BY <1>2 DEF Moved
<1>5. t # Null => under # <<>> /\ under[Len(under)] = t
  <2> SUFFICES ASSUME t # Null PROVE under # <<>> /\ under[Len(under)] = t
    OBVIOUS
  <2>1. t \in Pages /\ path[t] \in Paths /\ under = Append(path[t], t)
    BY <1>0 DEF Typing
  <2>2. Len(under) = Len(path[t]) + 1 /\ under[Len(path[t]) + 1] = t /\ Len(path[t]) \in Nat
    BY <2>1, AppendAt DEF Paths
  <2> QED BY <2>2
<1>6. Ancestors'
  BY <1>0, <1>1, <1>2, MovedAncestors, FitAncestors
<1>7. ParentIsLast'
  <2>1. ASSUME NEW c \in Made
        PROVE  /\ parent'[c] = Null => path'[c] = <<>>
               /\ parent'[c] # Null => path'[c] # <<>> /\ path'[c][Len(path'[c])] = parent'[c]
    <3>1. CASE c = p
      BY <1>3, <1>4, <1>5, <3>1
    <3>2. CASE c # p
      <4>1. /\ parent[c] = Null => path'[c] = <<>>
            /\ parent[c] # Null => path'[c] # <<>> /\ path'[c][Len(path'[c])] = parent[c]
        BY <1>0, <1>2, <3>2, MovedLast
      <4> QED BY <1>0, <1>3, <3>2, <4>1
    <3> QED BY <3>1, <3>2
  <2> QED BY <1>0, <2>1 DEF ParentIsLast
<1>8. AncestorsActive'
  <2>1. Range(under) \subseteq Active
    <3>1. CASE t = Null
      BY <1>0, <3>1, PathRange
    <3>2. CASE t # Null
      <4>1. t \in Active /\ path[t] \in Paths /\ Range(path[t]) \subseteq Active
        BY <1>0, <3>2 DEF AncestorsActive, Active, Typing
      <4>2. Range(under) = Range(path[t]) \cup {t}
        BY <1>0, <3>2, <4>1, AppendRange
      <4> QED BY <4>1, <4>2
    <3> QED BY <3>1, <3>2
  <2>2. ASSUME NEW c \in Active PROVE Range(path'[c]) \subseteq Active
    <3>1. c \in Pages /\ c \in Made /\ path[c] \in Paths /\ Range(path[c]) \subseteq Active
      BY <1>0 DEF AncestorsActive, Active, Typing, Made
    <3>2. CASE c \in Below(p)
      <4>1. path'[c] \in Paths
        BY <1>0, <3>1, <3>2, RebasedPath DEF Typing
      <4>2. Range(path'[c]) = Range(under) \cup (Range(path[c]) \ Range(path[p]))
        <5>1. p \in Made /\ under \in Paths
          BY <1>0
        <5> HIDE DEF p, under
        <5> QED BY <1>0, <1>2, <3>2, <4>1, <5>1, MovedRange
      <4> QED BY <2>1, <3>1, <4>2
    <3>3. CASE c \notin Below(p)
      BY <1>2, <1>4, <2>1, <3>1, <3>3 DEF Moved
    <3> QED BY <3>2, <3>3
  <2>3. Active' = Active
    BY DEF Active
  <2> QED BY <2>2, <2>3 DEF AncestorsActive
<1> QED BY <1>6, <1>7, <1>8 DEF Tree

LEMMA MoveAlone ==
    ASSUME TreeInv, OneAtATime, NEW s \in Requests, MovePage(s)
    PROVE  Typing /\ Tree /\ MovesAlone(req[s])
<1> DEFINE r == req[s]
           p == r.page
<1>0. /\ r \in Request /\ RequestOK(r) /\ Named(r) /\ Current(r) /\ Tree /\ Typing
  BY DEF TreeInv, SerialTree, TypeInv, TypeOK, RequestsOK, Typing
<1>1. /\ r.step = "write" /\ r.op = "move" /\ state' = state
      /\ parent' = [parent EXCEPT ![p] = IF r.target = r.from THEN @ ELSE r.target]
      /\ path' = [c \in Pages |->
                    IF r.kids[c] # Null THEN Rebased(r, r.kids[c])
                    ELSE IF c = p THEN IF Repaths(r) THEN r.under ELSE path[p] ELSE path[c]]
  BY DEF MovePage, Writing
<1>2. /\ p \in Made /\ p \in Pages /\ r.target \in Made \cup {Null} /\ r.under \in Paths
      /\ Null \notin Paths
  BY <1>0, <1>1, PagesAssumption DEF RequestOK, Named, Request, Paths, Made
<1>3. /\ r.at = path[p] /\ r.from = parent[p] /\ r.target # p /\ r.target \notin Below(p)
      /\ r.target = Null => r.under = <<>>
      /\ r.target # Null => r.under = Append(path[r.target], r.target)
                            /\ state[r.target] = "active"
  BY <1>0, <1>1 DEF Current, UnderTarget, SourceCurrent, KidsCurrent, StillShown
<1>4. \A c \in Pages : r.kids[c] = IF c \in Below(p) THEN path[c] ELSE Null
  BY <1>0, <1>1 DEF Current, KidsCurrent
<1>5. parent' = [parent EXCEPT ![p] = r.target]
  BY <1>0, <1>1, <1>2, <1>3 DEF Typing
<1>6. ASSUME NEW c \in Pages
      PROVE  path'[c] = IF c \in Below(p) THEN Rebased(r, path[c])
                        ELSE IF c = p THEN r.under ELSE path[c]
  <2>1. path[c] \in Paths
    BY <1>0 DEF Typing
  <2>2. r.kids[c] # Null <=> c \in Below(p)
    BY <1>2, <1>4, <2>1
  <2>3. Repaths(r) \/ r.under = path[p]
    BY <1>3 DEF Repaths
  <2> QED BY <1>1, <1>4, <2>2, <2>3
<1>7. path' = [c \in Pages |-> IF c \in Below(p) THEN Rebased(r, path[c])
                               ELSE IF c = p THEN r.under ELSE path[c]]
  BY <1>1, <1>6
<1> QED BY <1>0, <1>1, <1>2, <1>3, <1>5, <1>7 DEF MovesAlone

LEMMA MoveTreeInv ==
    ASSUME TreeInv, NEW s \in Requests, MovePage(s)
    PROVE  TreeInv'
<1> DEFINE r == req[s]
           p == r.page
<1>0. /\ TypeInv' /\ TypeInv /\ r \in Request /\ RequestOK(r) /\ Named(r)
      /\ r # Idle => s \in mix.slots
  BY WriteTypeInv DEF Write, TreeInv, SerialTree, TypeInv, TypeOK, RequestsOK, SlotsOK, Typing
<1>1. /\ r.step = "write" /\ r.op = "move" /\ mix' = mix /\ state' = state
  BY DEF MovePage, Writing
<1>2. req' = [t \in Requests |->
                IF t = s THEN Idle
                ELSE IF Repaths(r) /\ req[t].op = "move" /\ req[t].page = p
                  THEN [req[t] EXCEPT !.fresh = FALSE]
                  ELSE req[t]]
  BY DEF MovePage
<1>3. req'[s] = Idle /\ \A t \in Requests : t # s /\ req[t] = Idle => req'[t] = Idle
  BY <1>2, IdleOK
<1>4. s \in mix.slots
  BY <1>0, <1>1, IdleOK
<1>5. ASSUME OneAtATime PROVE Tree'
  BY <1>5, MoveAlone, MovedTree
<1> QED BY <1>0, <1>1, <1>3, <1>4, <1>5, TreeWritten

LEMMA CreateTreeInv ==
    ASSUME TreeInv, NEW s \in Requests, CreatePage(s)
    PROVE  TreeInv'
<1> DEFINE r == req[s]
<1>0. /\ TypeInv' /\ TypeInv /\ r \in Request /\ RequestOK(r) /\ Named(r)
      /\ r # Idle => s \in mix.slots
      /\ OneAtATime => Current(r) /\ Tree
      /\ Typing /\ req \in [Requests -> Request]
  BY WriteTypeInv DEF Write, TreeInv, SerialTree, TypeInv, TypeOK, RequestsOK, SlotsOK, Typing
<1>1. PICK c \in Pages \ Made :
         /\ state' = [state EXCEPT ![c] = "active"]
         /\ parent' = [parent EXCEPT ![c] = r.target]
         /\ path' = [path EXCEPT ![c] = r.under]
  BY DEF CreatePage
<1>2. r.step = "write" /\ r.op = "create" /\ mix' = mix /\ req' = [req EXCEPT ![s] = Idle]
  BY DEF CreatePage, Writing
<1>3. req'[s] = Idle /\ \A t \in Requests : t # s /\ req[t] = Idle => req'[t] = Idle
  BY <1>0, <1>2
<1>4. s \in mix.slots
  BY <1>0, <1>2, IdleOK
<1>5. ASSUME OneAtATime PROVE Tree'
  <2> DEFINE t == r.target
             under == r.under
  <2>1. /\ t \in Made \cup {Null} /\ under \in Paths /\ Null \notin Pages
        /\ Ancestors /\ ParentIsLast /\ AncestorsActive /\ Made \subseteq Pages
        /\ t = Null => under = <<>>
        /\ t # Null => under = Append(path[t], t) /\ state[t] = "active"
    BY <1>0, <1>2, <1>5, PagesAssumption
       DEF Named, Request, Current, UnderTarget, Tree, Made
  <2>2. /\ path'[c] = under /\ parent'[c] = t /\ state'[c] = "active"
        /\ \A d \in Made : path'[d] = path[d] /\ parent'[d] = parent[d] /\ state'[d] = state[d]
        /\ Made' = Made \cup {c}
    BY <1>0, <1>1 DEF Typing, Made
  <2>3. Ancestors'
    <3>1. ASSUME NEW d \in Made, NEW i \in 1..Len(path'[d]) PROVE Ancestor(d, i)'
      <4>1. path'[d] = path[d] /\ Ancestor(d, i)
        BY <2>1, <2>2 DEF Ancestors
      <4> QED BY <2>2, <4>1 DEF Ancestor
    <3>2. ASSUME NEW i \in 1..Len(path'[c]) PROVE Ancestor(c, i)'
      <4>1. t # Null /\ t \in Made /\ under = Append(path[t], t)
        BY <2>1, <2>2
      <4>2. path[t] \in Paths /\ t \in Pages /\ Len(path[t]) \in Nat
        BY <1>0, <2>1, <4>1 DEF Typing, Paths
      <4>3. /\ Len(under) = Len(path[t]) + 1 /\ under[Len(path[t]) + 1] = t
            /\ \A j \in 1..Len(path[t]) : under[j] = path[t][j]
        BY <4>1, <4>2, AppendAt
      <4>4. i \in 1..(Len(path[t]) + 1)
        BY <2>2, <4>3
      <4> HIDE DEF t, under
      <4>5. CASE i = Len(path[t]) + 1
        <5>1. path'[c][i] = t /\ path'[t] = path[t] /\ i - 1 = Len(path[t])
          BY <2>2, <4>1, <4>2, <4>3, <4>5
        <5> QED BY <2>2, <4>1, <4>3, <5>1 DEF Ancestor
      <4>6. CASE i # Len(path[t]) + 1
        <5>1. i \in 1..Len(path[t])
          BY <4>2, <4>4, <4>6
        <5>2. Ancestor(t, i) /\ path'[c][i] = path[t][i]
          BY <2>1, <2>2, <4>1, <4>3, <5>1 DEF Ancestors
        <5>3. \A j \in 1..(i - 1) : path'[c][j] = path[t][j]
          BY <2>2, <4>2, <4>3, <5>1
        <5> QED BY <2>2, <5>2, <5>3 DEF Ancestor
      <4> QED BY <4>5, <4>6
    <3> QED BY <2>2, <3>1, <3>2 DEF Ancestors
  <2>4. ParentIsLast'
    <3>1. ASSUME t # Null PROVE under # <<>> /\ under[Len(under)] = t
      <4>1. path[t] \in Paths /\ t \in Pages /\ Len(path[t]) \in Nat /\ under = Append(path[t], t)
        BY <1>0, <2>1, <3>1 DEF Typing, Paths
      <4>2. Len(under) = Len(path[t]) + 1 /\ under[Len(path[t]) + 1] = t
        BY <4>1, AppendAt
      <4> HIDE DEF under
      <4> QED BY <4>1, <4>2
    <3> QED BY <2>1, <2>2, <3>1 DEF ParentIsLast
  <2>5. AncestorsActive'
    <3>1. Active' = Active \cup {c} /\ Active \subseteq Made
      BY <1>0, <1>1 DEF Active, Made, Typing
    <3>2. ASSUME NEW d \in Active PROVE Range(path'[d]) \subseteq Active
      BY <2>1, <2>2, <3>1 DEF AncestorsActive
    <3>3. Range(under) \subseteq Active
      <4>1. CASE t = Null
        BY <2>1, <4>1, PathRange
      <4>2. CASE t # Null
        <5>1. t \in Active /\ t \in Pages /\ path[t] \in Paths /\ Range(path[t]) \subseteq Active
          BY <1>0, <2>1, <4>2 DEF AncestorsActive, Active, Typing
        <5>2. Range(under) = Range(path[t]) \cup {t}
          BY <2>1, <4>2, <5>1, AppendRange
        <5> QED BY <5>1, <5>2
      <4> QED BY <4>1, <4>2
    <3> QED BY <2>2, <3>1, <3>2, <3>3 DEF AncestorsActive
  <2> QED BY <2>3, <2>4, <2>5 DEF Tree
<1> QED BY <1>0, <1>2, <1>3, <1>4, <1>5, TreeWritten

(* All of what is below a page is archived with it.                        *)
LEMMA ArchiveTreeInv ==
    ASSUME TreeInv, NEW s \in Requests, ArchivePage(s)
    PROVE  TreeInv'
<1> DEFINE r == req[s]
           p == r.page
<1>0. /\ TypeInv' /\ TypeInv /\ r \in Request /\ RequestOK(r) /\ Named(r)
      /\ r # Idle => s \in mix.slots
      /\ OneAtATime => Tree
      /\ Typing /\ req \in [Requests -> Request]
  BY WriteTypeInv DEF Write, TreeInv, SerialTree, TypeInv, TypeOK, RequestsOK, SlotsOK, Typing
<1>1. /\ r.step = "write" /\ r.op = "archive" /\ mix' = mix /\ req' = [req EXCEPT ![s] = Idle]
      /\ state' = [c \in Pages |-> IF c \in Below(p) \cup {p} THEN "archived" ELSE state[c]]
      /\ parent' = parent /\ path' = path
  BY DEF ArchivePage, Writing
<1>3. req'[s] = Idle /\ \A t \in Requests : t # s /\ req[t] = Idle => req'[t] = Idle
  BY <1>0, <1>1
<1>4. s \in mix.slots
  BY <1>0, <1>1, IdleOK
<1>5. ASSUME OneAtATime PROVE Tree'
  <2>1. p \in Made /\ Ancestors /\ ParentIsLast /\ AncestorsActive
    BY <1>0, <1>1, <1>5 DEF Named, Tree
  <2>2. Made' = Made
    BY <1>1, <2>1 DEF Made, Below
  <2>3. Active' = Active \ (Below(p) \cup {p})
    BY <1>0, <1>1 DEF Active, Typing
  <2>4. AncestorsActive'
    <3> SUFFICES ASSUME NEW c \in Active, c \notin Below(p) \cup {p}, NEW d \in Range(path[c])
                 PROVE  d \in Active /\ d \notin Below(p) \cup {p}
      BY <1>1, <2>3 DEF AncestorsActive
    <3>1. c \in Made /\ path[c] \in Paths
      BY <1>0 DEF Active, Made, Typing
    <3>2. d \in Active /\ \E i \in 1..Len(path[c]) : path[c][i] = d
      BY <2>1, <3>1, PathRange DEF AncestorsActive
    <3> QED BY <1>0, <2>1, <3>1, <3>2, BelowMeans
  <2>5. Ancestors' /\ ParentIsLast'
    BY <1>1, <2>1, <2>2 DEF Ancestors, Ancestor, ParentIsLast
  <2> QED BY <2>4, <2>5 DEF Tree
<1> QED BY <1>0, <1>1, <1>3, <1>4, <1>5, TreeWritten

LEMMA WriteTreeInv ==
    ASSUME TreeInv, NEW s \in Requests, Write(s)
    PROVE  TreeInv'
<1>1. CASE EditPage(s) \/ MoveConflict(s) \/ EditConflict(s)
  <2>1. TypeInv' /\ (req[s] # Idle => s \in mix.slots)
    BY WriteTypeInv DEF TreeInv, TypeInv, SlotsOK
  <2>2. /\ req[s].step = "write" /\ mix' = mix /\ req' = [req EXCEPT ![s] = Idle]
        /\ UNCHANGED tree
    BY <1>1 DEF EditPage, MoveConflict, EditConflict, Refuse, Advance, Writing
  <2>3. s \in mix.slots
    BY <2>1, <2>2, IdleOK
  <2> QED BY <2>1, <2>2, <2>3, IdleCurrent, TreeKept
<1> QED BY <1>1, CreateTreeInv, MoveTreeInv, ArchiveTreeInv DEF Write

LEMMA NextTreeInv == TreeInv /\ [Next]_vars => TreeInv'
<1> SUFFICES ASSUME TreeInv, [Next]_vars PROVE TreeInv'
  OBVIOUS
<1>1. CASE UNCHANGED vars
  <2>1. TypeInv'
    BY <1>1, NextTypeInv DEF TreeInv
  <2>2. /\ state' = state /\ parent' = parent /\ path' = path /\ req' = req /\ mix' = mix
        /\ Made' = Made
    BY <1>1 DEF vars, tree, Made
  <2>3. Tree' <=> Tree
    BY <2>2 DEF Tree, Ancestors, Ancestor, ParentIsLast, AncestorsActive, Active
  <2>4. \A s \in Requests : Current(req[s])' <=> Current(req[s])
    BY <2>2 DEF Current, UnderTarget, SourceCurrent, KidsCurrent, StillShown, Below
  <2> QED BY <2>1, <2>2, <2>3, <2>4 DEF TreeInv, SerialTree, OneAtATime
<1> QED BY <1>1, StartTreeInv, ReadTreeInv, WriteTreeInv DEF Next

LEMMA TreeAlways == Spec => []TreeInv
<1> QED BY InitTreeInv, NextTreeInv, PTL DEF Spec

(* While requests do not overlap, every stored path is the path of the     *)
(* parent followed by the parent: whatever is moved or created and however *)
(* deep the tree, no move leaves a descendant with its old ancestors.      *)
THEOREM PathsFollowParents == Spec => []PathsAreAncestors
<1>1. TreeInv => PathsAreAncestors
  <2> SUFFICES ASSUME TreeInv, OneAtATime, NEW c \in Made
               PROVE  path[c] = IF parent[c] = Null THEN <<>>
                                ELSE Append(path[parent[c]], parent[c])
    BY DEF PathsAreAncestors
  <2>1. Ancestors /\ ParentIsLast /\ c \in Pages /\ path[c] \in Paths
    BY DEF TreeInv, SerialTree, Tree, TypeInv, TypeOK, Made
  <2>2. CASE parent[c] = Null
    BY <2>1, <2>2 DEF ParentIsLast
  <2>3. CASE parent[c] # Null
    <3> DEFINE q == parent[c]
               n == Len(path[c])
    <3>1. path[c][n] = q /\ n \in 1..n /\ n \in Nat
      BY <2>1, <2>3 DEF ParentIsLast, Paths
    <3>2. q \in Made /\ Len(path[q]) = n - 1 /\ \A j \in 1..(n - 1) : path[q][j] = path[c][j]
      <4>1. Ancestor(c, n)
        BY <2>1, <3>1 DEF Ancestors
      <4> HIDE DEF n, q
      <4> QED BY <3>1, <4>1 DEF Ancestor
    <3>3. q \in Pages /\ path[q] \in Paths
      BY <3>2 DEF TreeInv, TypeInv, TypeOK, Made
    <3> DEFINE new == Append(path[q], q)
    <3>4. /\ new \in Paths /\ Len(new) = n /\ new[n] = q
          /\ \A j \in 1..(n - 1) : new[j] = path[c][j]
      BY <3>1, <3>2, <3>3, AppendAt
    <3> HIDE DEF new
    <3>5. \A j \in 1..Len(path[c]) : path[c][j] = new[j]
      BY <3>1, <3>4
    <3>6. path[c] = new
      BY <2>1, <3>4, <3>5, SeqEqual DEF Paths
    <3> QED BY <2>3, <3>6 DEF new
  <2> QED BY <2>2, <2>3
<1> QED BY <1>1, TreeAlways, PTL

-----------------------------------------------------------------------------
(* The forest that clients are shown.                                      *)

LEMMA AboveIs ==
    ASSUME Typing
    PROVE  /\ Active \subseteq Made /\ Made \subseteq Pages
           /\ \A c \in Active : path[c] \in Paths /\ ShownAbove[c] = Range(path[c])
           /\ \A c \in Pages \ Active : ShownAbove[c] = {}
  BY DEF Typing, Active, Made, ShownAbove

LEMMA AboveNext ==
    ASSUME Typing, NEW above, above = [p \in Pages |-> above[p]],
           \A c \in Pages : above[c] = IF c \in Active' THEN Range(path'[c]) ELSE {}
    PROVE  ShownAbove' = above
  BY DEF ShownAbove

LEMMA InitForest == Init => Forest!Init
<1> SUFFICES ASSUME Init PROVE Forest!Init
  OBVIOUS
<1>1. Made = {} /\ Active = {}
  BY DEF Init, Made, Active
<1> QED BY <1>1 DEF Forest!Init, ShownAbove

LEMMA StutterForest == UNCHANGED tree => UNCHANGED Forest!vars
  BY DEF tree, Forest!vars, Made, Active, ShownAbove

(* A path is as long as there are pages on it, or longer.                  *)
LEMMA PathsAreLong ==
    ASSUME NEW steps \in Paths
    PROVE  Cardinality(Range(steps)) \in Nat /\ Cardinality(Range(steps)) <= Len(steps)
<1> DEFINE n == Len(steps)
<1>1. /\ n \in Nat /\ steps \in [1..n -> Range(steps)]
      /\ Range(steps) = {steps[i] : i \in 1..n}
  BY PathRange DEF Paths
<1>2. ExistsSurjection(1..n, Range(steps))
  BY <1>1 DEF ExistsSurjection, Surjection
<1>3. Cardinality(Range(steps)) <= n
  BY <1>1, <1>2, FS_SurjCardinalityBound
<1>4. IsFiniteSet(Range(steps))
  BY <1>1, <1>2, FS_NatSurjection
<1> QED BY <1>3, <1>4, FS_CardinalityType

(* The path under the parent that a request found is a place in the forest.*)
LEMMA TargetPlace ==
    ASSUME Typing, NEW t \in Made \cup {Null}, NEW under,
           t = Null => under = <<>>,
           t # Null => /\ state[t] = "active" /\ Len(path[t]) < MaxDepth
                       /\ under = Append(path[t], t)
    PROVE  Range(under) \in Forest!Places
<1>1. CASE t = Null
  <2>1. Range(under) = {}
    BY <1>1, EmptyPath, PathRange
  <2> QED BY <2>1 DEF Forest!Places
<1>2. CASE t # Null
  <2>1. t \in Active /\ t \in Pages /\ path[t] \in Paths /\ ShownAbove[t] = Range(path[t])
    BY <1>2, AboveIs DEF Active, Made
  <2>2. Range(under) = Forest!Under(t)
    BY <1>2, <2>1, AppendRange DEF Forest!Under
  <2>3. Cardinality(ShownAbove[t]) < MaxDepth
    <3>1. /\ Cardinality(Range(path[t])) \in Nat /\ Len(path[t]) \in Nat /\ MaxDepth \in Nat
          /\ Cardinality(Range(path[t])) <= Len(path[t]) /\ Len(path[t]) < MaxDepth
      BY <1>2, <2>1, PathRange, PathsAreLong, PagesAssumption
    <3> QED BY <2>1, <3>1
  <2>4. t \in Forest!Shallow
    <3>1. Forest!Cardinality(ShownAbove[t]) = Cardinality(ShownAbove[t])
      BY Zenon DEF Forest!Cardinality, Cardinality
    <3> QED BY <2>1, <2>3, <3>1 DEF Forest!Shallow
  <2>5. Forest!Under(t) \in Forest!Places
    BY <2>4 DEF Forest!Places
  <2> QED BY <2>2, <2>5
<1> QED BY <1>1, <1>2

(* What is below a page in the paths is below it in the forest.            *)
LEMMA SubtreeIs ==
    ASSUME Typing, NEW p \in Active
    PROVE  Forest!Subtree(p) = {p} \cup (Below(p) \cap Active)
<1>1. ASSUME NEW c \in Active PROVE p \in ShownAbove[c] <=> c \in Below(p)
  <2>1. /\ c \in Made /\ ShownAbove[c] = {path[c][i] : i \in 1..Len(path[c])}
    BY AboveIs, PathRange
  <2> QED BY <2>1 DEF Below, On
<1> QED BY <1>1 DEF Forest!Subtree

LEMMA CreateForest ==
    ASSUME TreeInv, OneAtATime, NEW s \in Requests, CreatePage(s)
    PROVE  Forest!Next
<1> DEFINE r == req[s]
           place == Range(r.under)
<1>0. Typing /\ Named(r) /\ Current(r) /\ MaxDepth \in Nat /\ Null \notin Pages
  BY PagesAssumption DEF TreeInv, SerialTree, TypeInv, TypeOK, RequestsOK, Typing
<1>1. PICK c \in Pages \ Made :
         /\ state' = [state EXCEPT ![c] = "active"]
         /\ path' = [path EXCEPT ![c] = r.under]
  BY DEF CreatePage
<1>2. r.step = "write" /\ r.op = "create"
  BY DEF CreatePage, Writing
<1>3. place \in Forest!Places
  BY <1>0, <1>2, TargetPlace DEF Named, Current, UnderTarget, StillShown
<1>4. Made' = Made \cup {c} /\ Active' = Active \cup {c} /\ path'[c] = r.under
  BY <1>0, <1>1 DEF Made, Active, Typing
<1>5. ShownAbove' = [ShownAbove EXCEPT ![c] = place]
  <2> DEFINE above == [ShownAbove EXCEPT ![c] = place]
  <2>1. above = [d \in Pages |-> above[d]]
    BY DEF ShownAbove
  <2>2. ASSUME NEW d \in Pages PROVE above[d] = IF d \in Active' THEN Range(path'[d]) ELSE {}
    BY <1>0, <1>1, <1>4 DEF ShownAbove, Typing
  <2> HIDE DEF above
  <2>3. ShownAbove' = above
    BY <1>0, <2>1, <2>2, AboveNext
  <2> QED BY <2>3 DEF above
<1>6. Forest!Create(c, place)
  BY <1>1, <1>4, <1>5 DEF Forest!Create
<1> QED BY <1>3, <1>6 DEF Forest!Next

LEMMA MoveForest ==
    ASSUME TreeInv, OneAtATime, NEW s \in Requests, MovePage(s)
    PROVE  Forest!Next
<1> DEFINE r == req[s]
           p == r.page
           place == Range(r.under)
<1>0. Typing /\ Tree /\ MovesAlone(r) /\ Current(r) /\ r.step = "write" /\ r.op = "move"
  BY MoveAlone DEF TreeInv, SerialTree, MovePage, Writing
<1>1. /\ p \in Active /\ p \in Made /\ p \in Pages /\ r.under \in Paths /\ path[p] \in Paths
      /\ r.target \in Made \cup {Null} /\ state' = state /\ Ancestors /\ AncestorsActive
      /\ Made' = Made /\ Active' = Active
  BY <1>0 DEF Current, StillShown, MovesAlone, Active, Made, Typing, Tree
<1>2. place \in Forest!Places
  BY <1>0, TargetPlace DEF MovesAlone, Current, StillShown
<1>3. Above(r.under, p) /\ Moved(path', r.under, p) /\ path' \in [Pages -> Paths]
  BY <1>0, MovedPaths DEF Tree
<1>4. Forest!Subtree(p) = {p} \cup (Below(p) \cap Active)
  BY <1>0, <1>1, SubtreeIs
<1>5. place \cap Forest!Subtree(p) = {}
  <2>1. place = {r.under[i] : i \in 1..Len(r.under)}
    BY <1>1, PathRange
  <2> QED BY <1>3, <1>4, <2>1 DEF Above
<1> HIDE DEF r, p, place
<1>6. ASSUME NEW c \in Active
      PROVE  Range(path'[c]) = IF c = p THEN place
                               ELSE IF c \in Forest!Subtree(p)
                                 THEN place \cup (ShownAbove[c] \ ShownAbove[p])
                               ELSE ShownAbove[c]
  <2>0. /\ c \in Made /\ c \in Pages /\ ShownAbove[c] = Range(path[c])
        /\ ShownAbove[p] = Range(path[p]) /\ path'[c] \in Paths
    BY <1>0, <1>1, <1>3, AboveIs
  <2>1. CASE c = p
    BY <1>3, <2>1 DEF Moved, place
  <2>2. CASE c # p /\ c \in Below(p)
    <3>1. Range(path'[c]) = Range(r.under) \cup (Range(path[c]) \ Range(path[p]))
      BY <1>0, <1>1, <1>3, <2>0, <2>2, MovedRange
    <3> QED BY <1>4, <2>0, <2>2, <3>1 DEF place
  <2>3. CASE c # p /\ c \notin Below(p)
    BY <1>3, <1>4, <2>0, <2>3 DEF Moved
  <2> QED BY <2>1, <2>2, <2>3
<1>7. ShownAbove' = [c \in Pages |->
                       IF c = p THEN place
                       ELSE IF c \in Forest!Subtree(p)
                         THEN place \cup (ShownAbove[c] \ ShownAbove[p])
                       ELSE ShownAbove[c]]
  <2> DEFINE above == [c \in Pages |->
                         IF c = p THEN place
                         ELSE IF c \in Forest!Subtree(p)
                           THEN place \cup (ShownAbove[c] \ ShownAbove[p])
                         ELSE ShownAbove[c]]
  <2>1. above = [d \in Pages |-> above[d]]
    OBVIOUS
  <2>2. ASSUME NEW d \in Pages PROVE above[d] = IF d \in Active' THEN Range(path'[d]) ELSE {}
    <3>1. CASE d \in Active
      BY <1>1, <1>6, <3>1
    <3>2. CASE d \notin Active
      BY <1>0, <1>1, <1>4, <3>2, AboveIs
    <3> QED BY <3>1, <3>2
  <2> HIDE DEF above
  <2>3. ShownAbove' = above
    BY <1>0, <2>1, <2>2, AboveNext
  <2> QED BY <2>3 DEF above
<1>8. Forest!Move(p, place)
  BY <1>1, <1>5, <1>7 DEF Forest!Move
<1> QED BY <1>1, <1>2, <1>8 DEF Forest!Next

LEMMA ArchiveForest ==
    ASSUME TreeInv, OneAtATime, NEW s \in Requests, ArchivePage(s)
    PROVE  Forest!Next
<1> DEFINE r == req[s]
           p == r.page
<1>0. /\ Typing /\ Tree /\ Current(r) /\ r.step = "write" /\ r.op = "archive"
      /\ RequestOK(r) /\ Null \notin Pages
  BY PagesAssumption
     DEF TreeInv, SerialTree, TypeInv, TypeOK, RequestsOK, Typing, ArchivePage, Writing
<1>1. /\ state' = [c \in Pages |-> IF c \in Below(p) \cup {p} THEN "archived" ELSE state[c]]
      /\ path' = path
  BY DEF ArchivePage
<1>2. p \in Pages /\ p \in Active
  BY <1>0 DEF RequestOK, Current, StillShown, Active
<1>3. Forest!Subtree(p) = {p} \cup (Below(p) \cap Active)
  BY <1>0, <1>2, SubtreeIs
<1>4. Made' = Made /\ Active' = Active \ Forest!Subtree(p)
  BY <1>0, <1>1, <1>2, <1>3 DEF Made, Active, Below, Typing
<1> HIDE DEF r, p
<1>5. ShownAbove' = [c \in Pages |-> IF c \in Forest!Subtree(p) THEN {} ELSE ShownAbove[c]]
  <2> DEFINE above == [c \in Pages |-> IF c \in Forest!Subtree(p) THEN {} ELSE ShownAbove[c]]
  <2>1. above = [d \in Pages |-> above[d]]
    OBVIOUS
  <2>2. ASSUME NEW d \in Pages PROVE above[d] = IF d \in Active' THEN Range(path'[d]) ELSE {}
    BY <1>0, <1>1, <1>4, AboveIs
  <2> HIDE DEF above
  <2>3. ShownAbove' = above
    BY <1>0, <2>1, <2>2, AboveNext
  <2> QED BY <2>3 DEF above
<1>6. Forest!Archive(p)
  BY <1>2, <1>4, <1>5 DEF Forest!Archive
<1> QED BY <1>2, <1>6 DEF Forest!Next

(* With requests one at a time the pages are a forest on which every       *)
(* handler acts as PageForest says: creating and moving keep to the limit  *)
(* on depth, a move takes the whole subtree along and archiving takes it   *)
(* away.                                                                   *)
THEOREM KeepsForest == Spec => ImplementsForest
<1>1. Init => (OneAtATime => Forest!Init)
  BY InitForest
<1>2. TreeInv /\ [Next]_vars => [OneAtATime => [Forest!Next]_(Forest!vars)]_vars
  <2> SUFFICES ASSUME OneAtATime, TreeInv, Next PROVE [Forest!Next]_(Forest!vars)
    OBVIOUS
  <2>1. ASSUME NEW s \in Requests, Start(s) \/ Read(s) PROVE UNCHANGED tree
    BY <2>1 DEF Start, StartCreate, StartMove, StartArchive, StartEdit, StartRestore, Begin, Read,
       LoadPage, FindKids, ResolveParent, FindRevision, Refuse, Advance
  <2>2. ASSUME NEW s \in Requests, EditPage(s) \/ MoveConflict(s) \/ EditConflict(s)
        PROVE  UNCHANGED tree
    BY <2>2 DEF EditPage, MoveConflict, EditConflict, Refuse, Advance
  <2> QED BY <2>1, <2>2, StutterForest, CreateForest, MoveForest, ArchiveForest DEF Next, Write
<1> QED BY <1>1, <1>2, TreeAlways, PTL DEF Spec, ImplementsForest

(* With requests one at a time what is above an active page is a line of   *)
(* active pages, and the page is not among them.                           *)
THEOREM TreeStaysForest == Spec => [](OneAtATime => Forest!IsForest)
<1>1. TreeInv => (OneAtATime => Forest!IsForest)
  <2> SUFFICES ASSUME TreeInv, OneAtATime PROVE Forest!IsForest
    OBVIOUS
  <2>0. Typing /\ Ancestors /\ AncestorsActive
    BY DEF TreeInv, SerialTree, TypeInv, TypeOK, Typing, Tree
  <2> SUFFICES ASSUME NEW c \in Active
               PROVE  /\ ShownAbove[c] \subseteq Active \ {c}
                      /\ \A d \in ShownAbove[c] : ShownAbove[d] \subseteq ShownAbove[c]
                      /\ \A d, e \in ShownAbove[c] :
                            d = e \/ d \in ShownAbove[e] \/ e \in ShownAbove[d]
    BY DEF Forest!IsForest
  <2>1. /\ c \in Made /\ Len(path[c]) \in Nat /\ ShownAbove[c] \subseteq Active
        /\ ShownAbove[c] = {path[c][i] : i \in 1..Len(path[c])}
    BY <2>0, AboveIs, PathRange DEF AncestorsActive
  <2>2. ASSUME NEW i \in 1..Len(path[c])
        PROVE  /\ path[c][i] # c
               /\ ShownAbove[path[c][i]] = {path[c][j] : j \in 1..(i - 1)}
    <3> DEFINE d == path[c][i]
    <3>1. Len(path[d]) = i - 1 /\ \A j \in 1..(i - 1) : path[d][j] = path[c][j]
      BY <2>0, <2>1 DEF Ancestors, Ancestor
    <3>2. d \in Active
      BY <2>1
    <3> HIDE DEF d
    <3>3. ShownAbove[d] = {path[d][j] : j \in 1..(i - 1)}
      BY <2>0, <3>1, <3>2, AboveIs, PathRange
    <3>4. d # c
      BY <2>1, <3>1
    <3> QED BY <3>1, <3>3, <3>4 DEF d
  <2>3. ASSUME NEW d \in ShownAbove[c]
        PROVE  d # c /\ ShownAbove[d] \subseteq ShownAbove[c]
    <3>1. PICK i \in 1..Len(path[c]) : d = path[c][i]
      BY <2>1
    <3>2. \A j \in 1..(i - 1) : path[c][j] \in ShownAbove[c]
      BY <2>1
    <3>3. d # c /\ ShownAbove[d] = {path[c][j] : j \in 1..(i - 1)}
      BY <2>2, <3>1
    <3> QED BY <3>2, <3>3
  <2>4. ASSUME NEW i \in 1..Len(path[c]), NEW j \in 1..Len(path[c])
        PROVE  \/ path[c][i] = path[c][j] \/ path[c][i] \in ShownAbove[path[c][j]]
               \/ path[c][j] \in ShownAbove[path[c][i]]
    <3>1. i = j \/ i \in 1..(j - 1) \/ j \in 1..(i - 1)
      BY <2>1
    <3> QED BY <2>2, <3>1
  <2> QED BY <2>1, <2>3, <2>4
<1> QED BY <1>1, TreeAlways, PTL

(* A page that has not been made has no parent.                            *)
Unplaced == \A p \in Pages : state[p] = "absent" => parent[p] = Null

LEMMA UnplacedAlways == Spec => []Unplaced
<1>1. Init => Unplaced
  BY DEF Init, Unplaced
<1>2. TypeInv /\ Unplaced /\ [Next]_vars => Unplaced'
  <2> SUFFICES ASSUME TypeInv, Unplaced, [Next]_vars PROVE Unplaced'
    OBVIOUS
  <2>0. Typing
    BY DEF TypeInv, TypeOK, Typing
  <2>1. ASSUME UNCHANGED tree PROVE Unplaced'
    BY <2>1 DEF tree, Unplaced
  <2>2. CASE UNCHANGED vars
    BY <2>1, <2>2 DEF vars
  <2>3. ASSUME NEW s \in Requests, Start(s) \/ Read(s) PROVE UNCHANGED tree
    BY <2>3 DEF Start, StartCreate, StartMove, StartArchive, StartEdit, StartRestore, Begin, Read,
       LoadPage, FindKids, ResolveParent, FindRevision, Refuse, Advance
  <2>4. ASSUME NEW s \in Requests, EditPage(s) \/ MoveConflict(s) \/ EditConflict(s)
        PROVE  UNCHANGED tree
    BY <2>4 DEF EditPage, MoveConflict, EditConflict, Refuse, Advance
  <2>5. ASSUME NEW s \in Requests, CreatePage(s) PROVE Unplaced'
    BY <2>0, <2>5 DEF CreatePage, Unplaced, Typing
  <2>6. ASSUME NEW s \in Requests, MovePage(s) PROVE Unplaced'
    <3>1. req[s].page \in Pages /\ state[req[s].page] # "absent"
      BY <2>6 DEF TypeInv, RequestsOK, Named, MovePage, Writing, Made
    <3> QED BY <2>0, <2>6, <3>1 DEF MovePage, Unplaced, Typing
  <2>7. ASSUME NEW s \in Requests, ArchivePage(s) PROVE Unplaced'
    <3>1. req[s].page \in Made /\ Below(req[s].page) \subseteq Made
      BY <2>7 DEF TypeInv, RequestsOK, Named, ArchivePage, Writing, Below
    <3> QED BY <2>0, <2>7, <3>1 DEF ArchivePage, Unplaced, Made, Typing
  <2> QED BY <2>1, <2>2, <2>3, <2>4, <2>5, <2>6, <2>7 DEF Next, Write
<1> QED BY <1>1, <1>2, PageTypes, PTL DEF Spec

(* README: moves into the page's own descendant are rejected.  With        *)
(* requests one at a time it is so, and no page ever is its own parent or  *)
(* grandparent: what breaks it is only the overlap.                        *)
THEOREM NoCycleInTurn == Spec => [](OneAtATime => NoCycle)
<1>1. TreeInv /\ Unplaced => (OneAtATime => NoCycle)
  <2> SUFFICES ASSUME TreeInv, Unplaced, OneAtATime, NEW p \in Pages
               PROVE  p \notin Parents({p}) /\ p \notin Parents(Parents({p}))
    BY DEF NoCycle
  <2>0. Typing /\ Ancestors /\ ParentIsLast
    BY DEF TreeInv, SerialTree, TypeInv, TypeOK, Typing, Tree
  <2>1. ASSUME NEW c \in Pages, parent[c] # Null
        PROVE  /\ parent[c] \in Pages /\ Len(path[c]) \in Nat /\ Len(path[parent[c]]) \in Nat
               /\ Len(path[parent[c]]) = Len(path[c]) - 1
    <3>1. c \in Made /\ path[c] \in Paths
      BY <2>0, <2>1 DEF Made, Unplaced, Typing
    <3>2. Len(path[c]) \in 1..Len(path[c]) /\ path[c][Len(path[c])] = parent[c]
      BY <2>0, <2>1, <3>1 DEF ParentIsLast, Paths
    <3>3. parent[c] \in Made /\ Len(path[parent[c]]) = Len(path[c]) - 1
      <4>1. Ancestor(c, Len(path[c]))
        BY <2>0, <3>1, <3>2 DEF Ancestors
      <4> QED BY <3>2, <4>1 DEF Ancestor
    <3> QED BY <2>0, <3>1, <3>2, <3>3, PathRange DEF Made, Typing
  <2>2. Parents({p}) = {parent[p]} \ {Null}
    BY DEF Parents
  <2>3. p \notin Parents({p})
    <3>1. ASSUME parent[p] = p, p # Null PROVE FALSE
      <4>1. Len(path[p]) = Len(path[p]) - 1 /\ Len(path[p]) \in Nat
        BY <2>1, <3>1
      <4> QED BY <4>1
    <3> QED BY <2>2, <3>1
  <2>4. p \notin Parents(Parents({p}))
    <3>1. ASSUME p \in Parents(Parents({p})) PROVE FALSE
      <4>1. PICK q \in Parents({p}) : p = parent[q] /\ p # Null
        BY <3>1 DEF Parents
      <4>2. q = parent[p] /\ q # Null
        BY <2>2, <4>1
      <4>3. Len(path[q]) = Len(path[p]) - 1 /\ Len(path[p]) \in Nat /\ q \in Pages
        BY <2>1, <4>2
      <4>4. Len(path[p]) = Len(path[q]) - 1
        BY <2>1, <4>1, <4>3
      <4> QED BY <4>3, <4>4
    <3> QED BY <3>1
  <2> QED BY <2>3, <2>4
<1> QED BY <1>1, TreeAlways, UnplacedAlways, PTL
===============================================================================
