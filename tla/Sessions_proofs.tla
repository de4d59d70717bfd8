--------------------------- MODULE Sessions_proofs ---------------------------
(***************************************************************************)
(* Theorems about Sessions for every set of tokens, families and requests. *)
(***************************************************************************)
EXTENDS Sessions, TLAPS

(* The steps each operation goes through, and the token it was given.      *)
RequestOK(r) ==
    /\ r.step # "idle" /\ r.op \in {"refresh", "logout", "revoke"} => r.token \in Known
    /\ r.step \in {"find", "kill", "rotate"} => r.op = "refresh"
    /\ r.step = "issue" => r.op \in {"refresh", "login"}
    /\ r.step = "user" => r.op \in {"refresh", "login", "password"}
    /\ r.step = "save" => r.op = "password"

(* Only the slots in use hold requests.                                    *)
SlotsOK == \A s \in Requests : req[s] # Idle => s \in mix.slots

TypeInv == TypeOK /\ SlotsOK /\ \A s \in Requests : RequestOK(req[s])

LEMMA IdleOK == Idle \in Request /\ RequestOK(Idle) /\ Idle.step = "idle" /\ Idle.op = "none"
  BY DEF Idle, Request, RequestOK, Ops, Steps

LEMMA InitTypeInv == Init => TypeInv
<1> SUFFICES ASSUME Init PROVE TypeInv
  OBVIOUS
<1>1. TypeOK
  BY IdleOK DEF Init, TypeOK
<1> QED BY <1>1, IdleOK DEF Init, TypeInv, SlotsOK

(* The request that took the step.                                         *)
LEMMA RequestKept ==
    ASSUME TypeInv, NEW s \in Requests, NEW q \in Request, RequestOK(q),
           Go(s, q), s \in mix.slots, Known \subseteq Known'
    PROVE  /\ req' \in [Requests -> Request] /\ mix' \in Mixes /\ SlotsOK'
           /\ \A t \in Requests : RequestOK(req[t])'
<1>1. \A t \in Requests : req'[t] = IF t = s THEN q ELSE req[t]
  BY DEF Go, TypeInv, TypeOK
<1>2. req' \in [Requests -> Request] /\ mix' = mix /\ mix' \in Mixes
  BY DEF Go, TypeInv, TypeOK
<1>3. SlotsOK'
  BY <1>1, <1>2 DEF TypeInv, SlotsOK
<1> QED BY <1>1, <1>2, <1>3 DEF TypeInv, RequestOK

LEMMA BeginTypeInv ==
    ASSUME TypeInv, NEW s \in Requests, NEW q \in Request, RequestOK(q), Begin(s, q)
    PROVE  TypeInv'
<1>1. Go(s, q) /\ s \in mix.slots /\ UNCHANGED <<tokens, user>>
  BY DEF Begin
<1>2. Known' = Known
  BY <1>1 DEF Known, tokens
<1>3. /\ req' \in [Requests -> Request] /\ mix' \in Mixes /\ SlotsOK'
      /\ \A t \in Requests : RequestOK(req[t])'
  BY <1>1, <1>2, RequestKept
<1> QED BY <1>1, <1>3 DEF TypeInv, TypeOK, tokens, user

LEMMA StartTypeInv ==
    ASSUME TypeInv, NEW s \in Requests, Start(s)
    PROVE  TypeInv'
<1>0. password \in Nat /\ Known \subseteq Tokens
  BY DEF TypeInv, TypeOK, Known
<1>1. ASSUME NEW t \in Known, NEW op \in {"refresh", "logout", "revoke"},
             NEW st \in {"find", "revoke"}, st = "find" => op = "refresh",
             Begin(s, [Idle EXCEPT !.op = op, !.step = st, !.token = t])
      PROVE  TypeInv'
  <2> DEFINE q == [Idle EXCEPT !.op = op, !.step = st, !.token = t]
  <2>1. q \in Request /\ RequestOK(q)
    BY <1>0, <1>1 DEF Idle, Request, RequestOK, Ops, Steps
  <2> QED BY <1>1, <2>1, BeginTypeInv
<1>2. ASSUME NEW p \in 0..password, NEW op \in {"login", "password"},
             Begin(s, [Idle EXCEPT !.op = op, !.step = "user", !.secret = p])
      PROVE  TypeInv'
  <2> DEFINE q == [Idle EXCEPT !.op = op, !.step = "user", !.secret = p]
  <2>1. p \in Nat
    BY <1>0
  <2>2. q \in Request
    BY <2>1 DEF Idle, Request, Ops, Steps
  <2>3. RequestOK(q)
    BY DEF Idle, RequestOK
  <2> QED BY <1>2, <2>2, <2>3, BeginTypeInv
<1>3. ASSUME Begin(s, [Idle EXCEPT !.op = "everywhere", !.step = "revoke"])
      PROVE  TypeInv'
  <2> DEFINE q == [Idle EXCEPT !.op = "everywhere", !.step = "revoke"]
  <2>1. q \in Request /\ RequestOK(q)
    BY DEF Idle, Request, RequestOK, Ops, Steps
  <2> QED BY <1>3, <2>1, BeginTypeInv
<1> QED BY <1>1, <1>2, <1>3
        DEF Start, StartRefresh, StartLogin, StartLogout, StartAuthenticated

(* Revoking keeps the tokens known and their types.                        *)
LEMMA Revoked ==
    ASSUME TypeInv, NEW S, RevokeThose(S), family' = family, access' = access
    PROVE  /\ Known' = Known
           /\ state' \in [Tokens -> {"absent", "live", "revoked", "expired"}]
           /\ \A t \in Tokens : state'[t] = "absent" <=> family'[t] = Null
           /\ \A t \in Tokens : state'[t] = "live" => state[t] = "live"
  BY DEF TypeInv, TypeOK, RevokeThose, Known

LEMMA HandleTypeInv ==
    ASSUME TypeInv, NEW s \in Requests, Handle(s)
    PROVE  TypeInv'
<1> DEFINE r == req[s]
<1>0. /\ r \in Request /\ RequestOK(r)
      /\ state \in [Tokens -> {"absent", "live", "revoked", "expired"}]
      /\ family \in [Tokens -> Families \cup {Null}] /\ access \in [Tokens -> Nat]
      /\ \A t \in Tokens : state[t] = "absent" <=> family[t] = Null
      /\ version \in Nat /\ password \in Nat
  BY DEF TypeInv, TypeOK
<1>a. s \in mix.slots
  <2>1. r # Idle
    BY IdleOK DEF Handle, FindToken, KillFamily, ReadUser, Rotate, Issue, SavePassword, RevokeOne,
       RevokeAll, BumpVersion
  <2> QED BY <2>1 DEF TypeInv, SlotsOK
<1>1. ASSUME NEW q \in Request, RequestOK(q), Go(s, q), UNCHANGED <<family, access>>,
             version' \in Nat, password' \in Nat,
             state' = state \/ \E S : RevokeThose(S)
      PROVE  TypeInv'
  <2>1. /\ Known' = Known
        /\ state' \in [Tokens -> {"absent", "live", "revoked", "expired"}]
        /\ \A t \in Tokens : state'[t] = "absent" <=> family'[t] = Null
    BY <1>0, <1>1, Revoked DEF Known
  <2>2. /\ req' \in [Requests -> Request] /\ mix' \in Mixes /\ SlotsOK'
        /\ \A t \in Requests : RequestOK(req[t])'
    BY <1>1, <1>a, <2>1, RequestKept
  <2> QED BY <1>0, <1>1, <2>1, <2>2 DEF TypeInv, TypeOK
<1>2. CASE FindToken(s)
  <2> DEFINE q == [r EXCEPT !.step = IF state[r.token] = "live" THEN "user" ELSE "kill"]
  <2>1. Go(s, q) /\ UNCHANGED <<tokens, user>> /\ r.step = "find"
    BY <1>2 DEF FindToken
  <2>2. q \in Request /\ RequestOK(q)
    BY <1>0, <2>1 DEF Request, RequestOK, Steps
  <2> QED BY <1>0, <1>1, <2>1, <2>2 DEF tokens, user
<1>3. CASE KillFamily(s)
  BY <1>0, <1>1, <1>3, IdleOK DEF KillFamily, user
<1>4. CASE ReadUser(s)
  <2> DEFINE next == CASE r.op = "refresh" -> "rotate" [] r.op = "login" -> "issue"
                       [] OTHER -> "save"
             q == [r EXCEPT !.step = next, !.version = version]
  <2>1. (Go(s, Idle) \/ Go(s, q)) /\ UNCHANGED <<tokens, user>> /\ r.step = "user"
    BY <1>4 DEF ReadUser
  <2>2. q \in Request /\ RequestOK(q)
    BY <1>0, <2>1 DEF Request, RequestOK, Steps
  <2> QED BY <1>0, <1>1, <2>1, <2>2, IdleOK DEF tokens, user
<1>5. CASE Rotate(s)
  <2> DEFINE q == [r EXCEPT !.step = "issue"]
  <2>1. /\ Go(s, Idle) \/ Go(s, q)
        /\ RevokeThose({r.token}) /\ UNCHANGED <<family, access, user>>
        /\ r.step = "rotate"
    BY <1>5 DEF Rotate
  <2>2. q \in Request /\ RequestOK(q)
    BY <1>0, <2>1 DEF Request, RequestOK, Steps
  <2> QED BY <1>0, <1>1, <2>1, <2>2, IdleOK DEF user
<1>6. CASE Issue(s)
  <2> DEFINE families == IF r.op = "refresh" THEN {family[r.token]}
                         ELSE Families \ {family[t] : t \in Known}
  <2>1. PICK t \in Tokens \ Known, f \in families :
           /\ state' = [state EXCEPT ![t] = "live"]
           /\ family' = [family EXCEPT ![t] = f]
           /\ access' = [access EXCEPT ![t] = r.version]
    BY <1>6 DEF Issue
  <2>2. Go(s, Idle) /\ UNCHANGED <<user>> /\ r.step = "issue"
    BY <1>6 DEF Issue
  <2>3. f \in Families
    BY <1>0, <2>2 DEF RequestOK, Known
  <2>4. Known \subseteq Known'
    BY <1>0, <2>1 DEF Known
  <2>5. /\ req' \in [Requests -> Request] /\ mix' \in Mixes /\ SlotsOK'
        /\ \A u \in Requests : RequestOK(req[u])'
    BY <1>a, <2>2, <2>4, IdleOK, RequestKept
  <2>6. r.version \in Nat
    BY <1>0 DEF Request
  <2>7. /\ state' \in [Tokens -> {"absent", "live", "revoked", "expired"}]
        /\ family' \in [Tokens -> Families \cup {Null}] /\ access' \in [Tokens -> Nat]
    BY <1>0, <2>1, <2>3, <2>6
  <2>8. \A u \in Tokens : state'[u] = "absent" <=> family'[u] = Null
    BY <1>0, <2>1, <2>3, SessionsAssumption
  <2> QED BY <1>0, <2>2, <2>5, <2>7, <2>8 DEF TypeInv, TypeOK, user
<1>7. CASE SavePassword(s)
  <2> DEFINE q == [r EXCEPT !.step = "revoke"]
  <2>1. /\ Go(s, q) /\ UNCHANGED <<tokens, version>> /\ r.step = "save"
        /\ password' = password + 1
    BY <1>7 DEF SavePassword
  <2>2. q \in Request /\ RequestOK(q)
    BY <1>0, <2>1 DEF Request, RequestOK, Steps
  <2> QED BY <1>0, <1>1, <2>1, <2>2 DEF tokens
<1>8. CASE RevokeOne(s)
  BY <1>0, <1>1, <1>8, IdleOK DEF RevokeOne, user
<1>9. CASE RevokeAll(s)
  <2> DEFINE q == [r EXCEPT !.step = "bump"]
  <2>1. /\ Go(s, q) /\ RevokeThose(Tokens) /\ UNCHANGED <<family, access, user>>
        /\ r.op \in {"everywhere", "password"}
    BY <1>9 DEF RevokeAll
  <2>2. q \in Request /\ RequestOK(q)
    BY <1>0, <2>1 DEF Request, RequestOK, Steps
  <2> QED BY <1>0, <1>1, <2>1, <2>2 DEF user
<1>10. CASE BumpVersion(s)
  BY <1>0, <1>1, <1>10, IdleOK DEF BumpVersion, tokens
<1> QED BY <1>2, <1>3, <1>4, <1>5, <1>6, <1>7, <1>8, <1>9, <1>10 DEF Handle

LEMMA EnvironmentTypeInv ==
    ASSUME TypeInv, NEW t \in Tokens, Expire(t)
    PROVE  TypeInv'
<1>1. Known' = Known /\ req' = req /\ mix' = mix
  BY DEF Expire, tokens, Known, TypeInv, TypeOK
<1>2. TypeOK'
  BY DEF Expire, tokens, user, TypeInv, TypeOK
<1> QED BY <1>1, <1>2 DEF TypeInv, SlotsOK, RequestOK

LEMMA NextTypeInv == TypeInv /\ [Next]_vars => TypeInv'
<1> SUFFICES ASSUME TypeInv, [Next]_vars PROVE TypeInv'
  OBVIOUS
<1>1. CASE UNCHANGED vars
  <2>1. Known' = Known /\ req' = req /\ mix' = mix
    BY <1>1 DEF vars, tokens, Known
  <2>2. TypeOK'
    BY <1>1 DEF vars, tokens, user, TypeInv, TypeOK
  <2> QED BY <2>1, <2>2 DEF TypeInv, SlotsOK, RequestOK
<1> QED BY <1>1, StartTypeInv, HandleTypeInv, EnvironmentTypeInv DEF Next

(* Every token that was ever stored belongs to a family, and every handler *)
(* works on a token that is stored, under any interleaving.                *)
THEOREM TypeCorrect == Spec => []TypeOK
<1>1. TypeInv => TypeOK
  BY DEF TypeInv
<1> QED BY <1>1, InitTypeInv, NextTypeInv, PTL DEF Spec

-----------------------------------------------------------------------------
(* Families.                                                               *)

(* The request renews family f.                                            *)
Renews(r, f) ==
    r.op = "refresh" /\ r.step \in {"user", "rotate", "issue"} /\ family[r.token] = f

(* What every step does to the tokens: those stored keep their family, and *)
(* only Issue makes one usable.                                            *)
LEMMA TokensKept ==
    ASSUME TypeInv, [Next]_vars
    PROVE  /\ \A t \in Known : t \in Known' /\ family'[t] = family[t]
           /\ \/ \A t \in Tokens : state'[t] = "live" => state[t] = "live" /\ family'[t] = family[t]
              \/ \E s \in Requests : Issue(s)
<1> DEFINE Kept == /\ \A t \in Known : t \in Known' /\ family'[t] = family[t]
                   /\ \A t \in Tokens : state'[t] = "live" =>
                         state[t] = "live" /\ family'[t] = family[t]
<1>1. ASSUME UNCHANGED tokens PROVE Kept
  BY <1>1 DEF tokens, Known
<1>2. ASSUME NEW S, RevokeThose(S), UNCHANGED <<family, access>> PROVE Kept
  BY <1>2, Revoked DEF Known
<1>3. ASSUME NEW t \in Tokens, Expire(t) PROVE Kept
  BY <1>3 DEF Expire, Known, TypeInv, TypeOK
<1>4. CASE UNCHANGED vars
  BY <1>1, <1>4 DEF vars
<1>5. ASSUME NEW s \in Requests, Start(s) PROVE Kept
  BY <1>1, <1>5 DEF Start, StartRefresh, StartLogin, StartLogout, StartAuthenticated, Begin
<1>6. ASSUME NEW s \in Requests, Handle(s), ~Issue(s) PROVE Kept
  <2>1. CASE FindToken(s) \/ ReadUser(s) \/ SavePassword(s) \/ BumpVersion(s)
    BY <1>1, <2>1 DEF FindToken, ReadUser, SavePassword, BumpVersion
  <2>2. CASE KillFamily(s) \/ Rotate(s) \/ RevokeOne(s) \/ RevokeAll(s)
    BY <1>2, <2>2 DEF KillFamily, Rotate, RevokeOne, RevokeAll
  <2> QED BY <1>6, <2>1, <2>2 DEF Handle
<1>7. ASSUME NEW s \in Requests, Issue(s)
      PROVE  \A t \in Known : t \in Known' /\ family'[t] = family[t]
  BY <1>7 DEF Issue, Known, TypeInv, TypeOK
<1> QED BY <1>3, <1>4, <1>5, <1>6, <1>7 DEF Next

(* A request starts to renew a family only by finding a usable token.      *)
LEMMA RenewsKept ==
    ASSUME TypeInv, [Next]_vars, NEW s \in Requests, NEW f \in Families, Renews(req[s], f)'
    PROVE  Renews(req[s], f) \/ Live(f) # {}
<1>0. /\ req[s] \in Request /\ RequestOK(req[s]) /\ req \in [Requests -> Request]
      /\ \A t \in Known : family'[t] = family[t]
  BY TokensKept DEF TypeInv, TypeOK
<1>1. CASE req'[s] = req[s]
  BY <1>0, <1>1 DEF Renews, RequestOK
<1>2. CASE req'[s] # req[s]
  <2>1. Start(s) \/ Handle(s)
    <3>1. ASSUME NEW u \in Requests, Start(u) \/ Handle(u) PROVE u = s
      BY <1>0, <1>2, <3>1
         DEF Start, StartRefresh, StartLogin, StartLogout, StartAuthenticated, Begin, Handle,
         FindToken, KillFamily, ReadUser, Rotate, Issue, SavePassword, RevokeOne, RevokeAll,
         BumpVersion, Go
    <3>2. ASSUME NEW t \in Tokens, Expire(t) PROVE FALSE
      BY <1>2, <3>2 DEF Expire
    <3> QED BY <1>2, <3>1, <3>2 DEF Next, vars
  <2>2. CASE Start(s)
    <3>1. ASSUME NEW t, NEW op, NEW st \in {"find", "revoke"},
                 Begin(s, [Idle EXCEPT !.op = op, !.step = st, !.token = t])
          PROVE  FALSE
      BY <1>0, <3>1 DEF Begin, Go, Idle, Renews
    <3>2. ASSUME NEW p, NEW op \in {"login", "password"},
                 Begin(s, [Idle EXCEPT !.op = op, !.step = "user", !.secret = p])
          PROVE  FALSE
      BY <1>0, <3>2 DEF Begin, Go, Idle, Renews
    <3>3. ASSUME Begin(s, [Idle EXCEPT !.op = "everywhere", !.step = "revoke"])
          PROVE  FALSE
      BY <1>0, <3>3 DEF Begin, Go, Idle, Renews
    <3> QED BY <2>2, <3>1, <3>2, <3>3
            DEF Start, StartRefresh, StartLogin, StartLogout, StartAuthenticated
  <2>3. CASE FindToken(s)
    <3> DEFINE t == req[s].token
    <3>1. t \in Known /\ req'[s].token = t /\ req[s].op = "refresh"
      BY <1>0, <2>3 DEF FindToken, Go, RequestOK, Request
    <3>2. state[t] = "live"
      BY <1>0, <2>3 DEF FindToken, Go, Renews, Request
    <3>3. t \in Tokens /\ family[t] = f
      BY <1>0, <3>1 DEF Known, Renews
    <3> QED BY <3>2, <3>3 DEF Live
  <2>4. CASE ReadUser(s) \/ Rotate(s)
    <3>1. /\ req'[s] = Idle \/ (req'[s].token = req[s].token /\ req'[s].op = req[s].op)
          /\ req[s].step \in {"user", "rotate"}
      BY <1>0, <2>4, ZenonT(60) DEF ReadUser, Rotate, Go, Request
    <3>2. req'[s].token = req[s].token /\ req[s].op = "refresh"
      BY <3>1 DEF Renews, Idle
    <3>3. req[s].token \in Known
      BY <1>0, <3>1, <3>2 DEF RequestOK
    <3> QED BY <1>0, <3>1, <3>2, <3>3 DEF Renews
  <2>5. CASE KillFamily(s) \/ Issue(s) \/ RevokeOne(s) \/ BumpVersion(s)
    BY <1>0, <2>5 DEF KillFamily, Issue, RevokeOne, BumpVersion, Go, Idle, Renews
  <2>6. CASE SavePassword(s) \/ RevokeAll(s)
    BY <1>0, <2>6 DEF SavePassword, RevokeAll, Go, Renews, Request
  <2> QED BY <2>1, <2>2, <2>3, <2>4, <2>5, <2>6 DEF Handle
<1> QED BY <1>1, <1>2

LEMMA OverKept ==
    ASSUME TypeInv, [Next]_vars, NEW f \in Families, Over(f)
    PROVE  Over(f)'
<1>0. \A s \in Requests : ~Renews(req[s], f)
  BY DEF Over, Renewing, Renews
<1>1. (\E t \in Known : family[t] = f)'
  BY TokensKept DEF Over
<1>2. Live(f)' = {}
  <2>1. CASE \A t \in Tokens : state'[t] = "live" => state[t] = "live" /\ family'[t] = family[t]
    BY <2>1 DEF Over, Live
  <2>2. ASSUME NEW s \in Requests, Issue(s) PROVE Live(f)' = {}
    <3> DEFINE r == req[s]
               families == IF r.op = "refresh" THEN {family[r.token]}
                           ELSE Families \ {family[t] : t \in Known}
    <3>1. PICK t \in Tokens \ Known, g \in families :
             /\ state' = [state EXCEPT ![t] = "live"]
             /\ family' = [family EXCEPT ![t] = g]
      BY <2>2 DEF Issue
    <3>2. g # f
      <4>1. CASE r.op = "refresh"
        BY <1>0, <2>2, <4>1 DEF Issue, Renews
      <4>2. CASE r.op # "refresh"
        BY <4>2 DEF Over
      <4> QED BY <4>1, <4>2
    <3> QED BY <3>1, <3>2 DEF Over, Live, TypeInv, TypeOK
  <2> QED BY <2>1, <2>2, TokensKept
<1>3. \A s \in Requests : ~Renews(req[s], f)'
  BY <1>0, RenewsKept DEF Over
<1> QED BY <1>1, <1>2, <1>3 DEF Over, Renewing, Renews

(* However requests overlap, a family with no usable token and no refresh  *)
(* already past its check stays without one.                               *)
THEOREM FamiliesEnd == Spec => DeadForGood
<1>1. TypeInv /\ [Next]_vars => [\A f \in Families : Over(f) => Over(f)']_vars
  BY OverKept
<1> QED BY <1>1, InitTypeInv, NextTypeInv, PTL DEF Spec, DeadForGood

-----------------------------------------------------------------------------
(* Requests that do not overlap.                                           *)

(* Past its check a refresh holds the only token of its family that may be *)
(* usable, and past its save there is none.                                *)
Rotating(r) ==
    /\ r.op = "refresh" /\ r.step \in {"user", "rotate"}
          => Live(family[r.token]) \subseteq {r.token}
    /\ r.op = "refresh" /\ r.step = "issue" => Live(family[r.token]) = {}

SerialInv == TypeInv /\ FamilyHasOneLive /\ \A s \in Requests : Rotating(req[s])

LEMMA InitSerialInv == Init => SerialInv
<1> SUFFICES ASSUME Init PROVE SerialInv
  OBVIOUS
<1>1. FamilyHasOneLive
  BY DEF Init, FamilyHasOneLive
<1>2. \A s \in Requests : Rotating(req[s])
  BY IdleOK DEF Init, Rotating
<1> QED BY <1>1, <1>2, InitTypeInv DEF SerialInv

LEMMA IssueSerialInv ==
    ASSUME SerialInv, OneAtATime, TypeInv', NEW s \in Requests, Issue(s)
    PROVE  SerialInv'
<1> DEFINE r == req[s]
           families == IF r.op = "refresh" THEN {family[r.token]}
                       ELSE Families \ {family[t] : t \in Known}
<1>1. PICK t \in Tokens \ Known, f \in families :
         /\ state' = [state EXCEPT ![t] = "live"]
         /\ family' = [family EXCEPT ![t] = f]
  BY DEF Issue
<1>2. Live(f) = {}
  <2>1. CASE r.op = "refresh"
    BY <2>1 DEF SerialInv, Rotating, Issue
  <2>2. CASE r.op # "refresh"
    BY <2>2 DEF Live, Known
  <2> QED BY <2>1, <2>2
<1>3. \A u \in Tokens : (state'[u] = "live" /\ family'[u] = f) => u = t
  BY <1>1, <1>2 DEF Live, SerialInv, TypeInv, TypeOK
<1>4. \A u \in Tokens : u # t => state'[u] = state[u] /\ family'[u] = family[u]
  BY <1>1 DEF SerialInv, TypeInv, TypeOK
<1>5. family'[t] = f
  BY <1>1 DEF SerialInv, TypeInv, TypeOK
<1>6. FamilyHasOneLive'
  BY <1>3, <1>4, <1>5 DEF SerialInv, FamilyHasOneLive
<1>7. \A u \in Requests : req'[u] = Idle
  <2>1. req[s] # Idle
    BY IdleOK DEF Issue
  <2>2. \A u \in Requests : u # s => req[u] = Idle
    BY <2>1 DEF OneAtATime, SerialInv, TypeInv, SlotsOK
  <2> QED BY <2>2 DEF Issue, Go, SerialInv, TypeInv, TypeOK
<1>8. \A u \in Requests : Rotating(req[u])'
  BY <1>7, IdleOK DEF Rotating
<1> QED BY <1>6, <1>8 DEF SerialInv

LEMMA RotatingKept ==
    ASSUME SerialInv, [Next]_vars, NEW s \in Requests,
           \A t \in Tokens : state'[t] = "live" => state[t] = "live" /\ family'[t] = family[t]
    PROVE  Rotating(req[s])'
<1> DEFINE r == req[s]
<1>0. /\ TypeInv /\ r \in Request /\ RequestOK(r) /\ Rotating(r) /\ FamilyHasOneLive
      /\ req \in [Requests -> Request] /\ \A t \in Known : family'[t] = family[t]
  BY TokensKept DEF SerialInv, TypeInv, TypeOK
<1>1. ASSUME NEW t \in Known, NEW S, Live(family[t]) \subseteq S
      PROVE  \A u \in Tokens : state'[u] = "live" /\ family'[u] = family[t] => u \in S
  BY <1>0, <1>1 DEF Live
<1>2. ASSUME req'[s].op = "refresh", req'[s].step \in {"user", "rotate", "issue"},
             req'[s].token = r.token, r.op = "refresh", r.step # "idle",
             req'[s].step # "issue" => Live(family[r.token]) \subseteq {r.token},
             req'[s].step = "issue" =>
                \A u \in Tokens : state'[u] = "live" => family'[u] # family[r.token]
      PROVE  Rotating(req[s])'
  <2>1. r.token \in Known
    BY <1>0, <1>2 DEF RequestOK
  <2>2. req'[s].step # "issue" =>
           \A u \in Tokens : state'[u] = "live" /\ family'[u] = family[r.token]
                             => u \in {r.token}
    BY <1>1, <1>2, <2>1
  <2>3. family'[req'[s].token] = family[r.token]
    BY <1>0, <1>2, <2>1
  <2> QED BY <1>2, <2>2, <2>3 DEF Rotating, Live
<1>3. CASE req'[s] = r
  <2>1. ASSUME r.op = "refresh", r.step \in {"user", "rotate", "issue"}
        PROVE  Rotating(req[s])'
    <3>1. r.token \in Known
      BY <1>0, <2>1 DEF RequestOK
    <3>2. CASE r.step = "issue"
      <4>1. Live(family[r.token]) = {}
        BY <1>0, <2>1, <3>2 DEF Rotating
      <4>2. \A u \in Tokens : state'[u] = "live" => family'[u] # family[r.token]
        BY <1>1, <3>1, <4>1
      <4> QED BY <1>2, <1>3, <2>1, <3>2, <4>2
    <3>3. CASE r.step # "issue"
      <4>1. Live(family[r.token]) \subseteq {r.token}
        BY <1>0, <2>1, <3>3 DEF Rotating
      <4> QED BY <1>2, <1>3, <2>1, <3>3, <4>1
    <3> QED BY <3>2, <3>3
  <2>2. ASSUME ~(r.op = "refresh" /\ r.step \in {"user", "rotate", "issue"})
        PROVE  Rotating(req[s])'
    BY <1>3, <2>2 DEF Rotating
  <2> QED BY <2>1, <2>2
<1>4. CASE FindToken(s)
  <2> DEFINE q == [r EXCEPT !.step = IF state[r.token] = "live" THEN "user" ELSE "kill"]
  <2>1. req'[s] = q /\ r.step = "find" /\ r.op = "refresh" /\ r.token \in Known
    BY <1>0, <1>4 DEF FindToken, Go, RequestOK
  <2>2. CASE state[r.token] = "live"
    <3>1. Live(family[r.token]) \subseteq {r.token}
      BY <1>0, <2>1, <2>2 DEF FamilyHasOneLive, Live, Known
    <3>2. req'[s].op = "refresh" /\ req'[s].step = "user" /\ req'[s].token = r.token
      BY <1>0, <2>1, <2>2 DEF Request
    <3> QED BY <1>2, <2>1, <3>1, <3>2
  <2>3. CASE state[r.token] # "live"
    BY <1>0, <2>1, <2>3 DEF Rotating, Request
  <2> QED BY <2>2, <2>3
<1>5. CASE ReadUser(s)
  <2>1. /\ r.step = "user"
        /\ req'[s] = Idle \/ (r.op # "refresh" /\ req'[s].op # "refresh")
           \/ (r.op = "refresh" /\ req'[s].op = "refresh" /\ req'[s].step = "rotate"
               /\ req'[s].token = r.token)
    BY <1>0, <1>5 DEF ReadUser, Go, Request
  <2>2. ASSUME r.op = "refresh", req'[s].op = "refresh", req'[s].step = "rotate",
               req'[s].token = r.token
        PROVE  Rotating(req[s])'
    BY <1>0, <1>2, <2>1, <2>2 DEF Rotating
  <2>3. ASSUME req'[s] = Idle \/ req'[s].op # "refresh" PROVE Rotating(req[s])'
    BY <2>3, IdleOK DEF Rotating
  <2> QED BY <2>1, <2>2, <2>3
<1>6. CASE Rotate(s)
  <2>1. /\ r.step = "rotate" /\ r.op = "refresh" /\ RevokeThose({r.token}) /\ family' = family
        /\ req'[s] = Idle \/ req'[s] = [r EXCEPT !.step = "issue"]
    BY <1>0, <1>6 DEF Rotate, Go, RequestOK
  <2>2. \A u \in Tokens : state'[u] = "live" => family'[u] # family[r.token]
    <3>1. \A u \in Tokens : state[u] = "live" /\ family[u] = family[r.token] => u = r.token
      BY <1>0, <2>1 DEF Rotating, Live
    <3> QED BY <2>1, <3>1 DEF RevokeThose
  <2>3. CASE req'[s] = Idle
    BY <2>3, IdleOK DEF Rotating
  <2>4. CASE req'[s] = [r EXCEPT !.step = "issue"]
    <3>1. req'[s].op = "refresh" /\ req'[s].step = "issue" /\ req'[s].token = r.token
      BY <1>0, <2>1, <2>4 DEF Request
    <3> QED BY <1>2, <2>1, <2>2, <3>1
  <2> QED BY <2>1, <2>3, <2>4
<1>7. CASE KillFamily(s) \/ Issue(s) \/ RevokeOne(s) \/ BumpVersion(s)
  BY <1>0, <1>7, IdleOK DEF KillFamily, Issue, RevokeOne, BumpVersion, Go, Rotating
<1>8. CASE SavePassword(s) \/ RevokeAll(s)
  BY <1>0, <1>8 DEF SavePassword, RevokeAll, Go, Rotating, Request, RequestOK
<1>9. CASE Start(s)
  <2>1. ASSUME NEW t, NEW op, NEW st \in {"find", "revoke"},
               Begin(s, [Idle EXCEPT !.op = op, !.step = st, !.token = t])
        PROVE  Rotating(req[s])'
    BY <1>0, <2>1 DEF Begin, Go, Idle, Rotating
  <2>2. ASSUME NEW p, NEW op \in {"login", "password"},
               Begin(s, [Idle EXCEPT !.op = op, !.step = "user", !.secret = p])
        PROVE  Rotating(req[s])'
    BY <1>0, <2>2 DEF Begin, Go, Idle, Rotating
  <2>3. ASSUME Begin(s, [Idle EXCEPT !.op = "everywhere", !.step = "revoke"])
        PROVE  Rotating(req[s])'
    BY <1>0, <2>3 DEF Begin, Go, Idle, Rotating
  <2> QED BY <1>9, <2>1, <2>2, <2>3
          DEF Start, StartRefresh, StartLogin, StartLogout, StartAuthenticated
<1>10. req'[s] = r \/ Start(s) \/ Handle(s)
  <2>1. ASSUME NEW u \in Requests, Start(u) \/ Handle(u), u # s PROVE req'[s] = r
    BY <1>0, <2>1
       DEF Start, StartRefresh, StartLogin, StartLogout, StartAuthenticated, Begin, Handle,
       FindToken, KillFamily, ReadUser, Rotate, Issue, SavePassword, RevokeOne, RevokeAll,
       BumpVersion, Go
  <2>2. ASSUME NEW t \in Tokens, Expire(t) PROVE req'[s] = r
    BY <2>2 DEF Expire
  <2> QED BY <2>1, <2>2 DEF Next, vars
<1> QED BY <1>3, <1>4, <1>5, <1>6, <1>7, <1>8, <1>9, <1>10 DEF Handle

LEMMA NextSerialInv == OneAtATime /\ SerialInv /\ [Next]_vars => SerialInv'
<1> SUFFICES ASSUME OneAtATime, SerialInv, [Next]_vars PROVE SerialInv'
  OBVIOUS
<1>1. TypeInv'
  BY NextTypeInv DEF SerialInv
<1>2. ASSUME NEW s \in Requests, Issue(s) PROVE SerialInv'
  BY <1>1, <1>2, IssueSerialInv
<1>3. CASE \A t \in Tokens : state'[t] = "live" => state[t] = "live" /\ family'[t] = family[t]
  <2>1. FamilyHasOneLive'
    BY <1>3 DEF SerialInv, FamilyHasOneLive
  <2>2. \A s \in Requests : Rotating(req[s])'
    BY <1>3, RotatingKept
  <2> QED BY <1>1, <2>1, <2>2 DEF SerialInv
<1> QED BY <1>2, <1>3, TokensKept DEF SerialInv

LEMMA MixKept == [Next]_vars => mix' = mix
  BY DEF Next, vars, Start, StartRefresh, StartLogin, StartLogout, StartAuthenticated, Begin, Handle,
     FindToken, KillFamily, ReadUser, Rotate, Issue, SavePassword, RevokeOne, RevokeAll, BumpVersion,
     Go, Expire

(* When requests do not overlap, a family never has two usable tokens.     *)
THEOREM SerialRotation == Spec => []RotationKeepsOneLive
<1> DEFINE Inv == TypeInv /\ (OneAtATime => SerialInv)
<1>1. Init => Inv
  BY InitTypeInv, InitSerialInv
<1>2. Inv /\ [Next]_vars => Inv'
  BY NextTypeInv, MixKept, NextSerialInv DEF OneAtATime
<1>3. Inv => RotationKeepsOneLive
  BY DEF SerialInv, RotationKeepsOneLive
<1> QED BY <1>1, <1>2, <1>3, PTL DEF Spec

-----------------------------------------------------------------------------
(* The two writes of logoutEverywhere: between them no refresh token is    *)
(* usable, and a handler that does not overlap with others issues what the *)
(* version still is.                                                       *)

Agree == \A t \in Tokens : state[t] = "live" => access[t] = version

Fresh(r) ==
    /\ r.step = "bump" => \A t \in Tokens : state[t] # "live"
    /\ r.step \in {"rotate", "issue"} => r.version = version

AgreeInv == TypeInv /\ Agree /\ \A s \in Requests : Fresh(req[s])

LEMMA InitAgreeInv == Init => AgreeInv
<1> SUFFICES ASSUME Init PROVE AgreeInv
  OBVIOUS
<1>1. Agree /\ \A s \in Requests : Fresh(req[s])
  BY IdleOK DEF Init, Agree, Fresh
<1> QED BY <1>1, InitTypeInv DEF AgreeInv

LEMMA AgreeStep ==
    ASSUME AgreeInv, OneAtATime, TypeInv', NEW s \in Requests, s \in mix.slots, NEW q, Go(s, q),
           \A t \in Tokens : state'[t] = "live" => access'[t] = version',
           q.step = "bump" => \A t \in Tokens : state'[t] # "live",
           q.step \in {"rotate", "issue"} => q.version = version'
    PROVE  AgreeInv'
<1>1. ASSUME NEW t \in Requests PROVE Fresh(req[t])'
  <2>1. req'[t] = IF t = s THEN q ELSE req[t]
    BY DEF Go, AgreeInv, TypeInv, TypeOK
  <2>2. t # s => req[t] = Idle
    BY DEF AgreeInv, TypeInv, SlotsOK, OneAtATime
  <2> QED BY <2>1, <2>2, IdleOK DEF Fresh
<1> QED BY <1>1 DEF AgreeInv, Agree

(* A step that revokes at most.                                            *)
LEMMA AgreeCalm ==
    ASSUME AgreeInv, OneAtATime, TypeInv', NEW s \in Requests, s \in mix.slots, NEW q, Go(s, q),
           \A t \in Tokens : state'[t] = "live" => state[t] = "live",
           access' = access, version' = version, q.step # "bump",
           q.step \in {"rotate", "issue"} => q.version = version
    PROVE  AgreeInv'
<1>1. \A t \in Tokens : state'[t] = "live" => access'[t] = version'
  BY DEF AgreeInv, Agree
<1> QED BY <1>1, AgreeStep

LEMMA StartAgreeInv ==
    ASSUME AgreeInv, OneAtATime, NEW s \in Requests, Start(s)
    PROVE  AgreeInv'
<1>1. ASSUME NEW q, Begin(s, q), q.step \in {"find", "user", "revoke"} PROVE AgreeInv'
  <2>1. /\ s \in mix.slots /\ Go(s, q)
        /\ state' = state /\ access' = access /\ version' = version
    BY <1>1 DEF Begin, tokens, user
  <2>2. TypeInv'
    BY StartTypeInv DEF AgreeInv
  <2> QED BY <1>1, <2>1, <2>2, AgreeCalm
<1>2. ASSUME NEW t, NEW op, NEW st \in {"find", "revoke"},
             Begin(s, [Idle EXCEPT !.op = op, !.step = st, !.token = t])
      PROVE  AgreeInv'
  <2> DEFINE q == [Idle EXCEPT !.op = op, !.step = st, !.token = t]
  <2>1. q.step = st /\ Begin(s, q)
    BY <1>2 DEF Idle
  <2> HIDE DEF q
  <2> QED BY <1>1, <2>1
<1>3. ASSUME NEW p, NEW op, Begin(s, [Idle EXCEPT !.op = op, !.step = "user", !.secret = p])
      PROVE  AgreeInv'
  <2> DEFINE q == [Idle EXCEPT !.op = op, !.step = "user", !.secret = p]
  <2>1. q.step = "user" /\ Begin(s, q)
    BY <1>3 DEF Idle
  <2> HIDE DEF q
  <2> QED BY <1>1, <2>1
<1>4. ASSUME Begin(s, [Idle EXCEPT !.op = "everywhere", !.step = "revoke"])
      PROVE  AgreeInv'
  <2> DEFINE q == [Idle EXCEPT !.op = "everywhere", !.step = "revoke"]
  <2>1. q.step = "revoke" /\ Begin(s, q)
    BY <1>4 DEF Idle
  <2> HIDE DEF q
  <2> QED BY <1>1, <2>1
<1> QED BY <1>2, <1>3, <1>4
        DEF Start, StartRefresh, StartLogin, StartLogout, StartAuthenticated

LEMMA HandleAgreeInv ==
    ASSUME AgreeInv, OneAtATime, NEW s \in Requests, Handle(s)
    PROVE  AgreeInv'
<1> DEFINE r == req[s]
<1>0. /\ r \in Request /\ TypeInv' /\ Fresh(r) /\ Agree
      /\ access \in [Tokens -> Nat] /\ state \in [Tokens -> {"absent", "live", "revoked", "expired"}]
  BY HandleTypeInv DEF AgreeInv, TypeInv, TypeOK
<1>1. s \in mix.slots
  <2>1. r.step # "idle"
    BY DEF Handle, FindToken, KillFamily, ReadUser, Rotate, Issue, SavePassword, RevokeOne,
       RevokeAll, BumpVersion
  <2> QED BY <2>1, IdleOK DEF AgreeInv, TypeInv, SlotsOK
<1>2. CASE FindToken(s)
  <2> DEFINE q == [r EXCEPT !.step = IF state[r.token] = "live" THEN "user" ELSE "kill"]
  <2>1. Go(s, q) /\ state' = state /\ access' = access /\ version' = version
    BY <1>2 DEF FindToken, tokens, user
  <2>2. q.step \in {"user", "kill"}
    BY <1>0 DEF Request
  <2> HIDE DEF q
  <2> QED BY <1>0, <1>1, <2>1, <2>2, AgreeCalm
<1>3. CASE ReadUser(s)
  <2> DEFINE next == CASE r.op = "refresh" -> "rotate" [] r.op = "login" -> "issue" [] OTHER -> "save"
             q == [r EXCEPT !.step = next, !.version = version]
  <2>1. /\ Go(s, Idle) \/ Go(s, q)
        /\ state' = state /\ access' = access /\ version' = version
    BY <1>3 DEF ReadUser, tokens, user
  <2>2. q.step = next /\ q.version = version /\ next # "bump"
    BY <1>0 DEF Request
  <2> HIDE DEF q
  <2> QED BY <1>0, <1>1, <2>1, <2>2, AgreeCalm, IdleOK
<1>4. CASE Rotate(s)
  <2> DEFINE q == [r EXCEPT !.step = "issue"]
  <2>1. /\ Go(s, Idle) \/ Go(s, q)
        /\ RevokeThose({r.token}) /\ access' = access /\ version' = version /\ r.step = "rotate"
    BY <1>4 DEF Rotate, user
  <2>2. q.step = "issue" /\ q.version = r.version /\ r.version = version
    BY <1>0, <2>1 DEF Request, Fresh
  <2>3. \A t \in Tokens : state'[t] = "live" => state[t] = "live"
    BY <2>1 DEF RevokeThose
  <2> HIDE DEF q
  <2> QED BY <1>0, <1>1, <2>1, <2>2, <2>3, AgreeCalm, IdleOK
<1>5. CASE Issue(s)
  <2>1. PICK t \in Tokens \ Known :
           state' = [state EXCEPT ![t] = "live"] /\ access' = [access EXCEPT ![t] = r.version]
    BY <1>5 DEF Issue
  <2>2. Go(s, Idle) /\ version' = version /\ r.version = version
    BY <1>0, <1>5 DEF Issue, user, Fresh
  <2>3. \A u \in Tokens : state'[u] = "live" => access'[u] = version'
    BY <1>0, <2>1, <2>2 DEF Agree
  <2> QED BY <1>0, <1>1, <2>2, <2>3, AgreeStep, IdleOK
<1>6. CASE KillFamily(s) \/ RevokeOne(s)
  <2>1. /\ Go(s, Idle) /\ access' = access /\ version' = version
        /\ \A t \in Tokens : state'[t] = "live" => state[t] = "live"
    BY <1>6 DEF KillFamily, RevokeOne, RevokeThose, user
  <2> QED BY <1>0, <1>1, <2>1, AgreeCalm, IdleOK
<1>7. CASE SavePassword(s)
  <2>1. Go(s, [r EXCEPT !.step = "revoke"]) /\ state' = state /\ access' = access /\ version' = version
    BY <1>7 DEF SavePassword, tokens
  <2>2. [r EXCEPT !.step = "revoke"].step = "revoke"
    BY <1>0 DEF Request
  <2> QED BY <1>0, <1>1, <2>1, <2>2, AgreeCalm
<1>8. CASE RevokeAll(s)
  <2>1. Go(s, [r EXCEPT !.step = "bump"]) /\ \A t \in Tokens : state'[t] # "live"
    BY <1>8 DEF RevokeAll, RevokeThose
  <2>2. [r EXCEPT !.step = "bump"].step = "bump"
    BY <1>0 DEF Request
  <2> QED BY <1>0, <1>1, <2>1, <2>2, AgreeStep
<1>9. CASE BumpVersion(s)
  <2>1. Go(s, Idle) /\ \A t \in Tokens : state'[t] # "live"
    BY <1>0, <1>9 DEF BumpVersion, Fresh, tokens
  <2> QED BY <1>0, <1>1, <2>1, AgreeStep, IdleOK
<1> QED BY <1>2, <1>3, <1>4, <1>5, <1>6, <1>7, <1>8, <1>9 DEF Handle

LEMMA NextAgreeInv == OneAtATime /\ AgreeInv /\ [Next]_vars => AgreeInv'
<1> SUFFICES ASSUME OneAtATime, AgreeInv, [Next]_vars PROVE AgreeInv'
  OBVIOUS
<1>1. TypeInv'
  BY NextTypeInv DEF AgreeInv
<1>2. CASE UNCHANGED vars
  BY <1>1, <1>2 DEF vars, tokens, user, AgreeInv, Agree, Fresh
<1>3. ASSUME NEW t \in Tokens, Expire(t) PROVE AgreeInv'
  <2>1. /\ access' = access /\ version' = version /\ req' = req
        /\ \A u \in Tokens : state'[u] = "live" => state[u] = "live"
    BY <1>3 DEF Expire, user, AgreeInv, TypeInv, TypeOK
  <2> QED BY <1>1, <2>1 DEF AgreeInv, Agree, Fresh
<1> QED BY <1>2, <1>3, StartAgreeInv, HandleAgreeInv DEF Next

(* When requests do not overlap, a usable refresh token is of the current  *)
(* tokenVersion whenever nothing is in flight: what logoutEverywhere and   *)
(* changePassword revoke in one write they make worthless in the other.    *)
THEOREM SessionsStayAgreed == Spec => []SessionsAgree
<1> DEFINE Inv == TypeInv /\ (OneAtATime => AgreeInv)
<1>1. Init => Inv
  BY InitTypeInv, InitAgreeInv
<1>2. Inv /\ [Next]_vars => Inv'
  BY NextTypeInv, MixKept, NextAgreeInv DEF OneAtATime
<1>3. Inv => SessionsAgree
  BY DEF AgreeInv, Agree, SessionsAgree
<1> QED BY <1>1, <1>2, <1>3, PTL DEF Spec
=============================================================================
