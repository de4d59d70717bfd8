--------------------------- MODULE Accounts_proofs ---------------------------
(***************************************************************************)
(* Theorems about Accounts for every set of emails, clients and limits,    *)
(* and about Sessions and Accounts side by side.                           *)
(***************************************************************************)
EXTENDS MCGettingIn, Sessions_proofs, FiniteSetTheorems, TLAPS

(* A request is for somebody, and commands of a bump are only left while   *)
(* the handler awaits them.                                                *)
CallOK(r) ==
    /\ r.step # "idle" => r.op # "none" /\ r.email \in Emails
    /\ r.todo # {} => r.step \in {"limit", "record"}

AccountInv == AccountsTypeOK /\ \A s \in Clients : CallOK(accReq[s])

LEMMA EmailIsKey == Emails \subseteq Keys /\ Address \in Keys /\ Hits \in Keys
  BY DEF Keys

LEMMA NoRequestOK == NoAccountRequest \in AccountRequest /\ CallOK(NoAccountRequest)
  BY DEF NoAccountRequest, AccountRequest, AccountSteps, CallOK

LEMMA InitAccountInv == AccountsInit => AccountInv
<1> SUFFICES ASSUME AccountsInit PROVE AccountInv
  OBVIOUS
<1>1. AccountsTypeOK
  BY NoRequestOK DEF AccountsInit, AccountsTypeOK
<1> QED BY <1>1, NoRequestOK DEF AccountsInit, AccountInv

LEMMA GoAccountInv ==
    ASSUME AccountInv, NEW s \in Clients, NEW q \in AccountRequest, CallOK(q), AccGo(s, q),
           count' \in [Keys -> Nat], ttl' \subseteq {k \in Keys : count'[k] > 0},
           blocked' \in BOOLEAN, account' \in [Emails -> {"none", "user", "super"}]
    PROVE  AccountInv'
<1>1. accReq' = [accReq EXCEPT ![s] = q] /\ accMix' = accMix
  BY DEF AccGo
<1>2. \A t \in Clients : accReq'[t] = IF t = s THEN q ELSE accReq[t]
  BY <1>1 DEF AccountInv, AccountsTypeOK
<1>3. accReq' \in [Clients -> AccountRequest]
  BY <1>1 DEF AccountInv, AccountsTypeOK
<1>4. \A t \in Clients : CallOK(accReq'[t])
  BY <1>2 DEF AccountInv
<1> QED BY <1>1, <1>3, <1>4 DEF AccountInv, AccountsTypeOK, CallOK

LEMMA StepAccountInv ==
    ASSUME AccountInv, NEW s \in Clients, NEW q \in AccountRequest, CallOK(q), AccStep(s, q)
    PROVE  AccountInv'
<1>1. AccGo(s, q) /\ count' = count /\ ttl' = ttl /\ blocked' = blocked /\ account' = account
  BY DEF AccStep, counters
<1> QED BY <1>1, GoAccountInv DEF AccountInv, AccountsTypeOK

(* What the record of a request in flight is.                              *)
LEMMA InFlight ==
    ASSUME AccountInv, NEW s \in Clients
    PROVE  /\ accReq[s] \in AccountRequest /\ CallOK(accReq[s])
           /\ accReq[s].step # "idle" => accReq[s].email \in Keys
  BY EmailIsKey DEF AccountInv, AccountsTypeOK, CallOK

-----------------------------------------------------------------------------
(* The steps that change nothing but the request                           *)

LEMMA StartAccountInv == ASSUME AccountInv, NEW s \in Clients, StartRequest(s) PROVE AccountInv'
<1>1. PICK op \in accMix.ops, e \in accMix.emails, secret \in BOOLEAN :
         AccStep(s, [NoAccountRequest EXCEPT !.op = op, !.step = "guard",
                                             !.email = e, !.secret = secret])
  BY DEF StartRequest
<1>2. op \in {"login", "register", "claim"} /\ e \in Emails
  BY AccountsAssumption DEF AccountInv, AccountsTypeOK
<1> DEFINE q == [NoAccountRequest EXCEPT !.op = op, !.step = "guard",
                                         !.email = e, !.secret = secret]
<1>3. q \in AccountRequest /\ CallOK(q)
  BY <1>2 DEF NoAccountRequest, AccountRequest, AccountSteps, CallOK
<1> QED BY <1>1, <1>3, StepAccountInv

(* A handler that goes on to a step at which it awaits no bump.            *)
LEMMA MoveOn ==
    ASSUME AccountInv, NEW s \in Clients, accReq[s].step # "idle", accReq[s].todo = {},
           NEW st \in AccountSteps, AccStep(s, [accReq[s] EXCEPT !.step = st])
    PROVE  AccountInv'
<1> DEFINE q == [accReq[s] EXCEPT !.step = st]
<1>1. q \in AccountRequest /\ CallOK(q)
  BY InFlight DEF AccountRequest, CallOK
<1> QED BY <1>1, StepAccountInv

LEMMA GiveUp ==
    ASSUME AccountInv, NEW s \in Clients, AccStep(s, NoAccountRequest)
    PROVE  AccountInv'
  BY NoRequestOK, StepAccountInv

LEMMA FirstSteps ==
    ASSUME AccountInv, NEW s \in Clients, accReq[s].step # "idle"
    PROVE  FirstStep(accReq[s].op) \in AccountSteps
<1>1. accReq[s].op \in {"login", "register", "claim"}
  BY InFlight DEF AccountRequest, CallOK
<1> QED BY <1>1 DEF FirstStep, AccountSteps

LEMMA CheckBlockedAccountInv ==
    ASSUME AccountInv, NEW s \in Clients, CheckBlocked(s)
    PROVE  AccountInv'
<1> DEFINE q == [accReq[s] EXCEPT !.step = "limit", !.todo = {<<"incr", Hits>>}]
<1>0. accReq[s].step = "guard" /\ accReq[s].todo = {}
  BY InFlight DEF CheckBlocked, CallOK
<1>1. \/ AccStep(s, NoAccountRequest)
      \/ AccStep(s, q)
      \/ AccStep(s, [accReq[s] EXCEPT !.step = FirstStep(accReq[s].op)])
  BY DEF CheckBlocked
<1>2. q \in AccountRequest /\ CallOK(q)
  <2>1. {<<"incr", Hits>>} \subseteq {"incr", "expire"} \X Keys
    BY EmailIsKey
  <2> QED BY <1>0, <2>1, InFlight DEF AccountRequest, AccountSteps, CallOK
<1> QED BY <1>0, <1>1, <1>2, GiveUp, StepAccountInv, MoveOn, FirstSteps

LEMMA LimitAccountInv == ASSUME AccountInv, NEW s \in Clients, Limit(s) PROVE AccountInv'
<1>1. accReq[s].step # "idle" /\ accReq[s].todo = {}
  BY DEF Limit
<1>2. \/ AccStep(s, NoAccountRequest)
      \/ AccStep(s, [accReq[s] EXCEPT !.step = FirstStep(accReq[s].op)])
  BY DEF Limit
<1> QED BY <1>1, <1>2, GiveUp, MoveOn, FirstSteps

LEMMA ReadsNat == ASSUME AccountInv, NEW k \in Keys PROVE Reads(k) \subseteq Nat
  BY DEF AccountInv, AccountsTypeOK, Reads

LEMMA CountAccountInv ==
    ASSUME AccountInv, NEW s \in Clients, CountByEmail(s) \/ CountByIp(s)
    PROVE  AccountInv'
<1>1. CASE CountByEmail(s)
  <2>1. accReq[s].step = "email" /\ accReq[s].email \in Keys
    BY <1>1, InFlight DEF CountByEmail
  <2>2. PICK n \in Nat : AccStep(s, [accReq[s] EXCEPT !.step = "ip", !.seen = n])
    BY <1>1, <2>1, ReadsNat DEF CountByEmail
  <2> DEFINE q == [accReq[s] EXCEPT !.step = "ip", !.seen = n]
  <2>3. q \in AccountRequest /\ CallOK(q)
    BY <2>1, InFlight DEF AccountRequest, AccountSteps, CallOK
  <2> QED BY <2>2, <2>3, StepAccountInv
<1>2. CASE CountByIp(s)
  <2>1. accReq[s].step # "idle" /\ accReq[s].todo = {}
    BY <1>2, InFlight DEF CountByIp, CallOK
  <2>2. \/ AccStep(s, [accReq[s] EXCEPT !.step = "verify"])
        \/ AccStep(s, NoAccountRequest)
    BY <1>2 DEF CountByIp
  <2>3. "verify" \in AccountSteps
    BY DEF AccountSteps
  <2> QED BY <2>1, <2>2, <2>3, GiveUp, MoveOn
<1> QED BY <1>1, <1>2

LEMMA VerifyAccountInv == ASSUME AccountInv, NEW s \in Clients, Verify(s) PROVE AccountInv'
<1> DEFINE e == accReq[s].email
           q == [accReq[s] EXCEPT !.step = "record", !.byIp = 0,
                                  !.todo = {<<"incr", e>>, <<"incr", Address>>}]
<1>1. accReq[s].step = "verify" /\ accReq[s].todo = {} /\ e \in Keys /\ Address \in Keys
  BY InFlight, EmailIsKey DEF Verify, CallOK
<1>2. AccStep(s, [accReq[s] EXCEPT !.step = "clear"]) \/ AccStep(s, q)
  BY DEF Verify
<1>3. q \in AccountRequest /\ CallOK(q)
  <2> DEFINE Commands == {"incr", "expire"} \X Keys
  <2>1. <<"incr", e>> \in Commands /\ <<"incr", Address>> \in Commands
    BY <1>1
  <2>2. q.todo \subseteq Commands
    BY <1>1, <2>1, InFlight DEF AccountRequest
  <2> QED BY <1>1, <2>2, InFlight DEF AccountRequest, AccountSteps, CallOK
<1>4. "clear" \in AccountSteps
  BY DEF AccountSteps
<1> HIDE DEF q
<1> QED BY <1>1, <1>2, <1>3, <1>4, StepAccountInv, MoveOn

LEMMA SimpleAccountInv ==
    ASSUME AccountInv, NEW s \in Clients,
           \/ Recorded(s) \/ CheckSeat(s) \/ CheckEmail(s) \/ CreateCollides(s)
           \/ AnswerClaimed(s)
    PROVE  AccountInv'
<1>1. accReq[s].step # "idle" /\ accReq[s].todo = {}
  BY InFlight DEF Recorded, CheckSeat, CheckEmail, CreateCollides, AnswerClaimed, CallOK
<1>2. \/ AccStep(s, NoAccountRequest)
      \/ \E st \in {"mark", "claimed", "taken", "create"} :
            AccStep(s, [accReq[s] EXCEPT !.step = st])
  BY DEF Recorded, CheckSeat, CheckEmail, CreateCollides, AnswerClaimed
<1>3. {"mark", "claimed", "taken", "create"} \subseteq AccountSteps
  BY DEF AccountSteps
<1> QED BY <1>1, <1>2, <1>3, GiveUp, MoveOn

-----------------------------------------------------------------------------
(* The steps that change counters or accounts                              *)

LEMMA IncrAccountInv ==
    ASSUME AccountInv, NEW s \in Clients, NEW k \in Keys, Incr(s, k)
    PROVE  AccountInv'
<1> DEFINE r == accReq[s]
           failed == [r EXCEPT !.todo = @ \ {<<"incr", k>>}, !.seen = 0]
<1>1. r \in AccountRequest /\ CallOK(r) /\ r.todo # {} /\ count[k] + 1 \in Nat
      /\ count \in [Keys -> Nat]
  BY InFlight DEF Incr, AccountInv, AccountsTypeOK
<1>2. failed \in AccountRequest /\ CallOK(failed)
  BY <1>1 DEF AccountRequest, CallOK
<1>3. AfterIncr(r, k) \in AccountRequest /\ CallOK(AfterIncr(r, k))
  <2>1. r.todo \subseteq ({"incr", "expire"} \X Keys) /\ <<"expire", k>> \in ({"incr", "expire"} \X Keys)
    BY <1>1 DEF AccountRequest
  <2> QED BY <1>1, <2>1 DEF AfterIncr, AccountRequest, CallOK
<1>4. /\ AccGo(s, AfterIncr(r, k)) \/ AccGo(s, failed)
      /\ count' = [count EXCEPT ![k] = @ + 1] \/ count' = count
      /\ UNCHANGED <<ttl, blocked, account>>
  BY DEF Incr
<1>5. count' \in [Keys -> Nat] /\ \A x \in Keys : count'[x] >= count[x]
  BY <1>1, <1>4
<1>6. ttl' \subseteq {x \in Keys : count'[x] > 0}
  BY <1>1, <1>4, <1>5 DEF AccountInv, AccountsTypeOK
<1> HIDE DEF r, failed
<1>7. blocked' \in BOOLEAN /\ account' \in [Emails -> {"none", "user", "super"}]
  BY <1>4 DEF AccountInv, AccountsTypeOK
<1> QED BY <1>2, <1>3, <1>4, <1>5, <1>6, <1>7, GoAccountInv

LEMMA SetExpiryAccountInv ==
    ASSUME AccountInv, NEW s \in Clients, NEW k \in Keys, SetExpiry(s, k)
    PROVE  AccountInv'
<1> DEFINE r == accReq[s]
           done == [r EXCEPT !.todo = @ \ {<<"expire", k>>}]
           failed == [done EXCEPT !.seen = 0, !.byIp = IF k = Address THEN 0 ELSE @]
<1>1. r \in AccountRequest /\ CallOK(r) /\ r.todo # {}
  BY InFlight DEF SetExpiry
<1>2. done \in AccountRequest /\ CallOK(done) /\ failed \in AccountRequest /\ CallOK(failed)
  BY <1>1 DEF AccountRequest, CallOK
<1>3. /\ AccGo(s, done) \/ AccGo(s, failed)
      /\ ttl' = ttl \cup {x \in {k} : count[x] > 0} \/ ttl' = ttl
      /\ UNCHANGED <<count, blocked, account>>
  BY DEF SetExpiry
<1>4. count' \in [Keys -> Nat] /\ ttl' \subseteq {x \in Keys : count'[x] > 0}
      /\ blocked' \in BOOLEAN /\ account' \in [Emails -> {"none", "user", "super"}]
  BY <1>3 DEF AccountInv, AccountsTypeOK
<1> HIDE DEF done, failed
<1> QED BY <1>2, <1>3, <1>4, GoAccountInv

LEMMA EndAccountInv ==
    ASSUME AccountInv, NEW s \in Clients, MarkBlocked(s) \/ ClearFailures(s)
    PROVE  AccountInv'
<1>1. AccGo(s, NoAccountRequest) /\ account' = account
  BY DEF MarkBlocked, ClearFailures
<1>2. count' \in [Keys -> Nat] /\ ttl' \subseteq {k \in Keys : count'[k] > 0}
      /\ blocked' \in BOOLEAN
  <2>1. count \in [Keys -> Nat] /\ ttl \subseteq {k \in Keys : count[k] > 0} /\ blocked \in BOOLEAN
    BY DEF AccountInv, AccountsTypeOK
  <2>2. CASE count' = count /\ ttl' = ttl
    BY <2>1, <2>2 DEF MarkBlocked, ClearFailures
  <2>3. CASE ClearFailures(s)
    <3> DEFINE gone == {accReq[s].email, Address}
    <3>1. \/ count' = count /\ ttl' = ttl
          \/ count' = [k \in Keys |-> IF k \in gone THEN 0 ELSE count[k]] /\ ttl' = ttl \ gone
      BY <2>3 DEF ClearFailures
    <3>2. blocked' = blocked
      BY <2>3 DEF ClearFailures
    <3> HIDE DEF gone
    <3> QED BY <2>1, <3>1, <3>2
  <2> QED BY <2>2, <2>3 DEF MarkBlocked
<1>3. account' \in [Emails -> {"none", "user", "super"}]
  BY <1>1 DEF AccountInv, AccountsTypeOK
<1> QED BY <1>1, <1>2, <1>3, NoRequestOK, GoAccountInv

LEMMA CreateAccountInv == ASSUME AccountInv, NEW s \in Clients, CreateAccount(s) PROVE AccountInv'
<1> DEFINE q == [accReq[s] EXCEPT !.step = "email"]
<1>1. accReq[s].step = "create" /\ accReq[s].todo = {}
  BY InFlight DEF CreateAccount, CallOK
<1>2. /\ AccGo(s, q) \/ AccGo(s, NoAccountRequest)
      /\ UNCHANGED <<count, ttl, blocked>>
      /\ account' \in [Emails -> {"none", "user", "super"}]
  BY DEF CreateAccount, counters, AccountInv, AccountsTypeOK
<1>3. q \in AccountRequest /\ CallOK(q)
  BY <1>1, InFlight DEF AccountRequest, AccountSteps, CallOK
<1>4. count' \in [Keys -> Nat] /\ ttl' \subseteq {k \in Keys : count'[k] > 0}
      /\ blocked' \in BOOLEAN
  BY <1>2 DEF AccountInv, AccountsTypeOK
<1> HIDE DEF q
<1> QED BY <1>2, <1>3, <1>4, NoRequestOK, GoAccountInv

LEMMA ExpireAccountInv ==
    ASSUME AccountInv, ExpireBlock \/ \E k \in Keys : ExpireCounter(k)
    PROVE  AccountInv'
<1>1. accReq' = accReq /\ accMix' = accMix /\ account' = account
  BY DEF ExpireBlock, ExpireCounter
<1>2. count' \in [Keys -> Nat] /\ ttl' \subseteq {k \in Keys : count'[k] > 0}
      /\ blocked' \in BOOLEAN
  <2>1. count \in [Keys -> Nat] /\ ttl \subseteq {k \in Keys : count[k] > 0} /\ blocked \in BOOLEAN
    BY DEF AccountInv, AccountsTypeOK
  <2>2. CASE ExpireBlock
    BY <2>1, <2>2 DEF ExpireBlock
  <2>3. ASSUME NEW k \in Keys, ExpireCounter(k)
        PROVE  count' \in [Keys -> Nat] /\ ttl' \subseteq {x \in Keys : count'[x] > 0}
    <3>1. count' = [count EXCEPT ![k] = 0] /\ ttl' = ttl \ {k}
      BY <2>3 DEF ExpireCounter
    <3> QED BY <2>1, <3>1
  <2>4. \A k \in Keys : ExpireCounter(k) => blocked' = blocked
    BY DEF ExpireCounter
  <2> QED BY <2>1, <2>2, <2>3, <2>4
<1> QED BY <1>1, <1>2 DEF AccountInv, AccountsTypeOK, CallOK

LEMMA NextAccountInv == AccountInv /\ [AccountsNext]_accVars => AccountInv'
<1> SUFFICES ASSUME AccountInv, [AccountsNext]_accVars PROVE AccountInv'
  OBVIOUS
<1>1. CASE UNCHANGED accVars
  BY <1>1 DEF accVars, counters, AccountInv, AccountsTypeOK, CallOK
<1>2. ASSUME NEW s \in Clients,
             \/ StartRequest(s) \/ CheckBlocked(s) \/ Limit(s) \/ CountByEmail(s) \/ CountByIp(s)
             \/ Verify(s) \/ Recorded(s) \/ MarkBlocked(s) \/ ClearFailures(s)
             \/ CheckSeat(s) \/ CheckEmail(s) \/ CreateAccount(s) \/ CreateCollides(s)
             \/ AnswerClaimed(s)
      PROVE  AccountInv'
  BY <1>2, StartAccountInv, CheckBlockedAccountInv, LimitAccountInv, CountAccountInv,
     VerifyAccountInv, SimpleAccountInv, EndAccountInv, CreateAccountInv
<1>3. ASSUME NEW s \in Clients, NEW k \in Keys, Incr(s, k) \/ SetExpiry(s, k)
      PROVE  AccountInv'
  BY <1>3, IncrAccountInv, SetExpiryAccountInv
<1>4. CASE ExpireBlock \/ \E k \in Keys : ExpireCounter(k)
  BY <1>4, ExpireAccountInv
<1> QED BY <1>1, <1>2, <1>3, <1>4 DEF AccountsNext

(* Counters, flags, accounts and requests keep their types, and only a     *)
(* counter above zero has an expiry, whatever Redis fails to do.           *)
THEOREM AccountTypes == AccountsSpec => []AccountsTypeOK
<1>1. AccountInv => AccountsTypeOK
  BY DEF AccountInv
<1> QED BY <1>1, InitAccountInv, NextAccountInv, PTL DEF AccountsSpec

-----------------------------------------------------------------------------
(* Every counter ends                                                      *)

(* The steps of a request that awaits no bump and leaves the counters.     *)
LEMMA QuietSteps ==
    ASSUME AccountInv, NEW s \in Clients,
           \/ StartRequest(s) \/ CheckBlocked(s) \/ Limit(s) \/ CountByEmail(s) \/ CountByIp(s)
           \/ Verify(s) \/ Recorded(s) \/ MarkBlocked(s)
           \/ CheckSeat(s) \/ CheckEmail(s) \/ CreateAccount(s) \/ CreateCollides(s)
           \/ AnswerClaimed(s)
    PROVE  accReq[s].todo = {} /\ count' = count /\ ttl' = ttl /\ \E q : AccGo(s, q)
<1>1. accReq[s].todo = {}
  <2>1. CASE StartRequest(s)
    <3>1. accReq[s] = NoAccountRequest
      <4>1. accMix.ops # {} /\ accMix.emails # {}
        BY <2>1 DEF StartRequest
      <4> QED BY <2>1, <4>1 DEF StartRequest
    <3>2. NoAccountRequest.todo = {}
      BY DEF NoAccountRequest
    <3> QED BY <3>1, <3>2
  <2>2. CASE Limit(s) \/ Recorded(s)
    BY <2>2 DEF Limit, Recorded
  <2>3. accReq[s].step \notin {"limit", "record"} => accReq[s].todo = {}
    BY InFlight DEF CallOK
  <2>4. CASE \/ CheckBlocked(s) \/ CountByEmail(s) \/ CountByIp(s) \/ Verify(s) \/ MarkBlocked(s)
             \/ CheckSeat(s) \/ CheckEmail(s) \/ CreateAccount(s) \/ CreateCollides(s)
             \/ AnswerClaimed(s)
    BY <2>3, <2>4 DEF CheckBlocked, CountByEmail, CountByIp, Verify, MarkBlocked, CheckSeat,
       CheckEmail, CreateAccount, CreateCollides, AnswerClaimed
  <2> QED BY <2>1, <2>2, <2>4
<1>2. (\E q : AccStep(s, q)) \/ MarkBlocked(s) \/ CreateAccount(s)
  BY DEF StartRequest, CheckBlocked, Limit, CountByEmail, CountByIp, Verify, Recorded,
     CheckSeat, CheckEmail, CreateCollides, AnswerClaimed
<1>3. (\E q : AccGo(s, q)) /\ count' = count /\ ttl' = ttl
  BY <1>2 DEF AccStep, MarkBlocked, CreateAccount, counters
<1> QED BY <1>1, <1>3

(* A step that leaves the bumps under way and the expiries as they are.    *)
LEMMA StillExpires ==
    ASSUME AccountInv, CountersExpire, NEW s \in Clients, NEW q, AccGo(s, q),
           ~accMix.outage =>
              \A k \in Keys :
                 /\ count'[k] > 0 =>
                       \/ count[k] > 0 /\ (k \in ttl => k \in ttl')
                       \/ <<"expire", k>> \in q.todo
                 /\ <<"expire", k>> \in accReq[s].todo /\ count'[k] > 0 =>
                       k \in ttl' \/ <<"expire", k>> \in q.todo
    PROVE  CountersExpire'
<1>1. accMix' = accMix /\ \A t \in Clients : accReq'[t] = IF t = s THEN q ELSE accReq[t]
  BY DEF AccGo, AccountInv, AccountsTypeOK
<1>2. ASSUME ~accMix.outage, NEW k \in Keys, count'[k] > 0
      PROVE  k \in ttl' \/ \E t \in Clients : <<"expire", k>> \in accReq'[t].todo
  <2>1. CASE <<"expire", k>> \in q.todo
    BY <1>1, <2>1
  <2>2. CASE <<"expire", k>> \in accReq[s].todo
    BY <1>1, <1>2, <2>2
  <2>3. CASE <<"expire", k>> \notin q.todo /\ <<"expire", k>> \notin accReq[s].todo
    <3>1. count[k] > 0 /\ (k \in ttl => k \in ttl')
      BY <1>2, <2>3
    <3>2. k \in ttl \/ \E t \in Clients : <<"expire", k>> \in accReq[t].todo
      BY <1>2, <3>1 DEF CountersExpire
    <3> QED BY <1>1, <2>3, <3>1, <3>2
  <2> QED BY <2>1, <2>2, <2>3
<1> QED BY <1>1, <1>2 DEF CountersExpire

LEMMA IncrExpires ==
    ASSUME AccountInv, CountersExpire, NEW s \in Clients, NEW j \in Keys, Incr(s, j),
           ~accMix.outage
    PROVE  CountersExpire'
<1> DEFINE q == AfterIncr(accReq[s], j)
<1>1. count' = [count EXCEPT ![j] = @ + 1] /\ AccGo(s, q) /\ ttl' = ttl
  BY DEF Incr
<1>2. count \in [Keys -> Nat] /\ accReq[s] \in AccountRequest
  BY InFlight DEF AccountInv, AccountsTypeOK
<1>3. q.todo = (accReq[s].todo \ {<<"incr", j>>}) \cup {c \in {<<"expire", j>>} : count[j] + 1 = 1}
  BY <1>2 DEF AfterIncr, AccountRequest
<1>4. ASSUME NEW k \in Keys, count'[k] > 0 PROVE count[k] > 0 \/ <<"expire", k>> \in q.todo
  <2>1. CASE k = j /\ count[j] = 0
    BY <1>2, <1>3, <2>1
  <2>2. CASE k # j \/ count[j] # 0
    BY <1>1, <1>2, <1>4, <2>2
  <2> QED BY <2>1, <2>2
<1>5. \A k \in Keys : <<"expire", k>> \in accReq[s].todo => <<"expire", k>> \in q.todo
  BY <1>3
<1> HIDE DEF q
<1> QED BY <1>1, <1>4, <1>5, StillExpires

LEMMA SetExpiryExpires ==
    ASSUME AccountInv, CountersExpire, NEW s \in Clients, NEW j \in Keys, SetExpiry(s, j),
           ~accMix.outage
    PROVE  CountersExpire'
<1> DEFINE q == [accReq[s] EXCEPT !.todo = @ \ {<<"expire", j>>}]
<1>1. AccGo(s, q) /\ ttl' = ttl \cup {x \in {j} : count[x] > 0} /\ count' = count
  BY DEF SetExpiry
<1>2. accReq[s] \in AccountRequest
  BY InFlight
<1>3. q.todo = accReq[s].todo \ {<<"expire", j>>}
  BY <1>2 DEF AccountRequest
<1>4. \A k \in Keys : <<"expire", k>> \in accReq[s].todo /\ count'[k] > 0 =>
                         k \in ttl' \/ <<"expire", k>> \in q.todo
  BY <1>1, <1>3
<1> HIDE DEF q
<1> QED BY <1>1, <1>4, StillExpires

LEMMA NextExpires == AccountInv /\ CountersExpire /\ [AccountsNext]_accVars => CountersExpire'
<1> SUFFICES ASSUME AccountInv, CountersExpire, [AccountsNext]_accVars PROVE CountersExpire'
  OBVIOUS
<1>1. ASSUME NEW s \in Clients,
             \/ StartRequest(s) \/ CheckBlocked(s) \/ Limit(s) \/ CountByEmail(s) \/ CountByIp(s)
             \/ Verify(s) \/ Recorded(s) \/ MarkBlocked(s)
             \/ CheckSeat(s) \/ CheckEmail(s) \/ CreateAccount(s) \/ CreateCollides(s)
             \/ AnswerClaimed(s)
      PROVE  CountersExpire'
  <2>1. PICK q : accReq[s].todo = {} /\ count' = count /\ ttl' = ttl /\ AccGo(s, q)
    BY <1>1, QuietSteps
  <2> QED BY <2>1, StillExpires
<1>2. ASSUME NEW s \in Clients, ClearFailures(s), ~accMix.outage PROVE CountersExpire'
  <2> DEFINE gone == {accReq[s].email, Address}
  <2>1. /\ AccGo(s, NoAccountRequest) /\ ttl' = ttl \ gone
        /\ count' = [k \in Keys |-> IF k \in gone THEN 0 ELSE count[k]]
    BY <1>2 DEF ClearFailures
  <2>2. accReq[s].todo = {}
    BY <1>2, InFlight DEF ClearFailures, CallOK
  <2> HIDE DEF gone
  <2>3. \A k \in Keys : count'[k] > 0 => count[k] > 0 /\ (k \in ttl => k \in ttl')
    BY <2>1
  <2> QED BY <2>1, <2>2, <2>3, StillExpires
<1>3. ASSUME NEW s \in Clients, NEW k \in Keys, Incr(s, k) \/ SetExpiry(s, k), ~accMix.outage
      PROVE  CountersExpire'
  BY <1>3, IncrExpires, SetExpiryExpires
<1>4. ASSUME NEW k \in Keys, ExpireCounter(k) PROVE CountersExpire'
  <2>1. /\ count' = [count EXCEPT ![k] = 0] /\ ttl' = ttl \ {k}
        /\ accReq' = accReq /\ accMix' = accMix
    BY <1>4 DEF ExpireCounter
  <2>2. \A j \in Keys : count'[j] > 0 => j # k /\ count'[j] = count[j]
    BY <2>1 DEF AccountInv, AccountsTypeOK
  <2> QED BY <2>1, <2>2 DEF CountersExpire
<1>5. CASE ExpireBlock
  BY <1>5 DEF ExpireBlock, CountersExpire
<1>6. CASE UNCHANGED accVars
  BY <1>6 DEF accVars, counters, CountersExpire
<1>7. accMix' = accMix
  <2>1. (\E s \in Clients : \E q : AccGo(s, q)) \/ ExpireBlock \/ (\E k \in Keys : ExpireCounter(k))
        \/ UNCHANGED accVars
    BY QuietSteps DEF AccountsNext, ClearFailures, Incr, SetExpiry
  <2> QED BY <2>1 DEF AccGo, ExpireBlock, ExpireCounter, accVars
<1>8. CASE accMix.outage
  BY <1>7, <1>8 DEF CountersExpire
<1> QED BY <1>1, <1>2, <1>3, <1>4, <1>5, <1>6, <1>8 DEF AccountsNext

(* While Redis answers, no counter of failures or requests is left without *)
(* an expiry, however many requests bump, clear and let it expire at once. *)
THEOREM CountersAlwaysExpire == AccountsSpec => []CountersExpire
<1>1. AccountsInit => CountersExpire
  BY DEF AccountsInit, CountersExpire
<1> QED BY <1>1, InitAccountInv, NextAccountInv, NextExpires, PTL DEF AccountsSpec

-----------------------------------------------------------------------------
(* The super admin seat                                                    *)

OneSuper == \A e, f \in Emails : account[e] = "super" /\ account[f] = "super" => e = f

(* Only CreateAccount changes an account, one that was none.               *)
LEMMA NextAccount ==
    ASSUME AccountInv, [AccountsNext]_accVars
    PROVE  \/ account' = account
           \/ \E e \in Emails, role \in {"user", "super"} :
                 /\ account[e] = "none" /\ (role = "super" => ~SeatTaken)
                 /\ account' = [account EXCEPT ![e] = role]
<1>1. ASSUME NEW s \in Clients, CreateAccount(s)
      PROVE  \E e \in Emails, role \in {"user", "super"} :
                /\ account[e] = "none" /\ (role = "super" => ~SeatTaken)
                /\ account' = [account EXCEPT ![e] = role]
  <2> DEFINE e == accReq[s].email
             role == IF accReq[s].op = "claim" THEN "super" ELSE "user"
  <2>1. e \in Emails
    BY <1>1, InFlight DEF CreateAccount, CallOK
  <2>2. account[e] = "none" /\ (role = "super" => ~SeatTaken)
    BY <1>1 DEF CreateAccount, Collides
  <2>3. account' = [account EXCEPT ![e] = role]
    BY <1>1 DEF CreateAccount
  <2>4. role \in {"user", "super"}
    OBVIOUS
  <2> HIDE DEF e, role
  <2> QED BY <2>1, <2>2, <2>3, <2>4
<1>2. account' = account \/ \E s \in Clients : CreateAccount(s)
  BY DEF AccountsNext, accVars, ExpireCounter, ExpireBlock, StartRequest, CheckBlocked, Limit,
     CountByEmail, CountByIp, Verify, Recorded, MarkBlocked, ClearFailures, CheckSeat, CheckEmail,
     CreateCollides, AnswerClaimed, Incr, SetExpiry, AccStep
<1> QED BY <1>1, <1>2

LEMMA NextSeat ==
    ASSUME AccountInv, OneSuper, [AccountsNext]_accVars
    PROVE  OneSuper' /\ \A e \in Emails : account[e] # "none" => account'[e] = account[e]
<1>1. account \in [Emails -> {"none", "user", "super"}]
  BY DEF AccountInv, AccountsTypeOK
<1>2. CASE account' = account
  BY <1>2 DEF OneSuper
<1>3. CASE account' # account
  <2>1. PICK e \in Emails, role \in {"user", "super"} :
           /\ account[e] = "none" /\ (role = "super" => ~SeatTaken)
           /\ account' = [account EXCEPT ![e] = role]
    BY <1>3, NextAccount
  <2>2. \A f \in Emails : account'[f] = IF f = e THEN role ELSE account[f]
    BY <1>1, <2>1
  <2>3. OneSuper'
    BY <2>1, <2>2 DEF OneSuper, SeatTaken
  <2> QED BY <2>1, <2>2, <2>3
<1> QED BY <1>2, <1>3

LEMMA AtMostOneSuper ==
    ASSUME NEW role, \A e, f \in Emails : role[e] = "super" /\ role[f] = "super" => e = f
    PROVE  Cardinality({e \in Emails : role[e] = "super"}) <= 1
<1> DEFINE S == {e \in Emails : role[e] = "super"}
<1>1. CASE S = {}
  BY <1>1, FS_EmptySet
<1>2. ASSUME NEW e \in S PROVE Cardinality(S) <= 1
  <2>1. S = {} \cup {e}
    OBVIOUS
  <2>2. Cardinality({} \cup {e}) = 0 + 1
    BY FS_EmptySet, FS_AddElement
  <2> HIDE DEF S
  <2> QED BY <2>1, <2>2
<1> QED BY <1>1, <1>2

(* However claims, registrations and logins overlap, the seat is taken by  *)
(* one account at most, for good, and no account is registered over.       *)
THEOREM SeatAlwaysKept == AccountsSpec => SeatKept
<1> DEFINE A == /\ Cardinality({e \in Emails : account'[e] = "super"}) <= 1
                /\ \A e \in Emails : account[e] # "none" => account'[e] = account[e]
<1>1. AccountsInit => OneSuper
  BY DEF AccountsInit, OneSuper
<1>2. AccountInv /\ OneSuper /\ [AccountsNext]_accVars => OneSuper'
  BY NextSeat
<1>3. AccountInv /\ OneSuper /\ [AccountsNext]_accVars => [A]_accVars
  <2> SUFFICES ASSUME AccountInv, OneSuper, [AccountsNext]_accVars PROVE A
    OBVIOUS
  <2>1. OneSuper' /\ \A e \in Emails : account[e] # "none" => account'[e] = account[e]
    BY NextSeat
  <2>2. Cardinality({e \in Emails : account'[e] = "super"}) <= 1
    BY <2>1, AtMostOneSuper DEF OneSuper
  <2> QED BY <2>1, <2>2
<1> HIDE DEF A
<1>4. AccountsSpec => [][A]_accVars
  BY <1>1, <1>2, <1>3, InitAccountInv, NextAccountInv, PTL DEF AccountsSpec
<1> QED BY <1>4, PTL DEF SeatKept, A

-----------------------------------------------------------------------------
(* The login guard: the requests that may still fail a login to e count    *)
(* against its limit like the failures that are recorded.                  *)

Counts(r, e) ==
    /\ r.email = e
    /\ \/ r.step = "ip" /\ r.seen < MaxAttempts
       \/ r.step = "verify"
       \/ <<"incr", e>> \in r.todo

Pending(e) == {s \in accMix.slots : Counts(accReq[s], e)}

(* A handler bumps the failures of nobody but the one it is for.           *)
OwnBumps(r) == \A e \in Emails : <<"incr", e>> \in r.todo => r.email = e

GuardInv ==
    /\ AccountInv
    /\ \A s \in Clients : accReq[s] # NoAccountRequest => s \in accMix.slots
    /\ \A s \in Clients : OwnBumps(accReq[s])
    /\ ~accMix.outage =>
          \A e \in Emails :
             count[e] + Cardinality(Pending(e)) <= (MaxAttempts - 1) + Cardinality(accMix.slots)

LEMMA SlotsFinite ==
    ASSUME AccountInv
    PROVE  /\ IsFiniteSet(accMix.slots) /\ Cardinality(accMix.slots) \in Nat
           /\ accMix.slots \subseteq Clients /\ MaxAttempts \in Nat \ {0}
<1>1. accMix.slots \subseteq Clients /\ IsFiniteSet(Clients) /\ MaxAttempts \in Nat \ {0}
  BY AccountsAssumption DEF AccountInv, AccountsTypeOK
<1>2. IsFiniteSet(accMix.slots)
  BY <1>1, FS_Subset
<1>3. Cardinality(accMix.slots) \in Nat
  BY <1>2, FS_CardinalityType
<1> QED BY <1>1, <1>2, <1>3

LEMMA PendingFinite ==
    ASSUME AccountInv, NEW e
    PROVE  /\ IsFiniteSet(Pending(e)) /\ Cardinality(Pending(e)) \in Nat
           /\ Cardinality(Pending(e)) <= Cardinality(accMix.slots)
<1>1. Pending(e) \subseteq accMix.slots /\ IsFiniteSet(accMix.slots)
  BY SlotsFinite DEF Pending
<1>2. IsFiniteSet(Pending(e)) /\ Cardinality(Pending(e)) <= Cardinality(accMix.slots)
  BY <1>1, FS_Subset
<1>3. Cardinality(Pending(e)) \in Nat
  BY <1>2, FS_CardinalityType
<1> QED BY <1>2, <1>3

LEMMA InitGuardInv == AccountsInit => GuardInv
<1> SUFFICES ASSUME AccountsInit PROVE GuardInv
  OBVIOUS
<1>1. AccountInv
  BY InitAccountInv
<1>2. \A s \in Clients : accReq[s] = NoAccountRequest
  BY DEF AccountsInit
<1>3. NoAccountRequest.todo = {}
  BY DEF NoAccountRequest
<1>4. ASSUME NEW e \in Emails
      PROVE  count[e] + Cardinality(Pending(e)) <= (MaxAttempts - 1) + Cardinality(accMix.slots)
  <2>1. count[e] = 0
    BY EmailIsKey DEF AccountsInit
  <2> QED BY <1>1, <2>1, PendingFinite, SlotsFinite
<1> QED BY <1>1, <1>2, <1>3, <1>4 DEF GuardInv, OwnBumps

(* What a step of a request may do to the bound of e: nothing new that     *)
(* counts, a count below the limit, or a pending failure recorded.         *)
Within(r, q, e) ==
    \/ (Counts(q, e) => Counts(r, e)) /\ count'[e] <= count[e]
    \/ count'[e] <= MaxAttempts - 1
    \/ Counts(r, e) /\ ~Counts(q, e) /\ count'[e] = count[e] + 1

Guarded(s, q) ==
    /\ AccGo(s, q) /\ s \in accMix.slots
    /\ OwnBumps(q)
    /\ ~accMix.outage => \A e \in Emails : Within(accReq[s], q, e)

LEMMA GuardedKept ==
    ASSUME GuardInv, AccountInv', NEW s \in Clients, NEW q, Guarded(s, q)
    PROVE  GuardInv'
<1>0. /\ accMix' = accMix /\ s \in accMix.slots
      /\ \A t \in Clients : accReq'[t] = IF t = s THEN q ELSE accReq[t]
  BY DEF Guarded, AccGo, GuardInv, AccountInv, AccountsTypeOK
<1>1. \A t \in Clients : accReq'[t] # NoAccountRequest => t \in accMix'.slots
  BY <1>0 DEF GuardInv
<1>2. \A t \in Clients : OwnBumps(accReq'[t])
  BY <1>0 DEF GuardInv, Guarded
<1>3. ASSUME ~accMix.outage, NEW e \in Emails
      PROVE  count'[e] + Cardinality(Pending(e)') <= (MaxAttempts - 1) + Cardinality(accMix.slots)
  <2> DEFINE old == Pending(e)
             new == Pending(e)'
             M == Cardinality(accMix.slots)
  <2>1. /\ IsFiniteSet(old) /\ Cardinality(old) \in Nat
        /\ IsFiniteSet(new) /\ Cardinality(new) \in Nat /\ Cardinality(new) <= M
    <3>1. old \subseteq accMix.slots /\ new \subseteq accMix.slots
      BY <1>0 DEF Pending
    <3>2. IsFiniteSet(accMix.slots)
      BY SlotsFinite DEF GuardInv
    <3> HIDE DEF old, new
    <3>3. IsFiniteSet(old) /\ IsFiniteSet(new) /\ Cardinality(new) <= M
      BY <3>1, <3>2, FS_Subset
    <3> QED BY <3>3, FS_CardinalityType
  <2>2. M \in Nat /\ MaxAttempts \in Nat \ {0}
    BY SlotsFinite DEF GuardInv
  <2>3. count[e] \in Nat /\ count'[e] \in Nat
    BY EmailIsKey DEF GuardInv, AccountInv, AccountsTypeOK
  <2>4. count[e] + Cardinality(old) <= (MaxAttempts - 1) + M
    BY <1>3 DEF GuardInv
  <2>5. /\ new \ {s} = old \ {s}
        /\ s \in new <=> Counts(q, e)
        /\ s \in old <=> Counts(accReq[s], e)
    BY <1>0, SlotsFinite DEF Pending, GuardInv
  <2>6. Within(accReq[s], q, e)
    BY <1>3 DEF Guarded
  <2> HIDE DEF old, new, M
  <2>7. CASE (Counts(q, e) => Counts(accReq[s], e)) /\ count'[e] <= count[e]
    <3>1. new \subseteq old
      BY <2>5, <2>7
    <3>2. Cardinality(new) <= Cardinality(old)
      BY <2>1, <3>1, FS_Subset
    <3> QED BY <2>1, <2>2, <2>3, <2>4, <2>7, <3>2 DEF new, M
  <2>8. CASE count'[e] <= MaxAttempts - 1
    BY <2>1, <2>2, <2>3, <2>8 DEF new, M
  <2>9. CASE Counts(accReq[s], e) /\ ~Counts(q, e) /\ count'[e] = count[e] + 1
    <3>1. new = old \ {s} /\ s \in old
      BY <2>5, <2>9
    <3>2. Cardinality(new) = Cardinality(old) - 1
      BY <2>1, <3>1, FS_RemoveElement
    <3> QED BY <2>1, <2>2, <2>3, <2>4, <2>9, <3>2 DEF new, M
  <2> QED BY <2>6, <2>7, <2>8, <2>9 DEF Within
<1> QED BY <1>0, <1>1, <1>2, <1>3 DEF GuardInv

(* A step to a request that counts against nobody it did not count against *)
(* and that leaves the counters.                                           *)
LEMMA CalmStep ==
    ASSUME GuardInv, NEW s \in Clients, NEW q, AccGo(s, q), count' = count,
           s \in accMix.slots, OwnBumps(q),
           \A e \in Emails : Counts(q, e) => Counts(accReq[s], e)
    PROVE  Guarded(s, q)
<1>1. \A e \in Emails : count'[e] <= count[e]
  BY EmailIsKey DEF GuardInv, AccountInv, AccountsTypeOK
<1> QED BY <1>1 DEF Guarded, Within

LEMMA Elsewhere ==
    ASSUME NEW q, \A e \in Emails : <<"incr", e>> \notin q.todo, q.step \notin {"ip", "verify"}
    PROVE  OwnBumps(q) /\ \A e \in Emails : ~Counts(q, e)
  BY DEF OwnBumps, Counts

LEMMA FirstStepNames ==
    ASSUME AccountInv, NEW s \in Clients, accReq[s].step # "idle"
    PROVE  FirstStep(accReq[s].op) \notin {"ip", "verify"}
<1>1. accReq[s].op \in {"login", "register", "claim"}
  BY InFlight DEF AccountRequest, CallOK
<1> QED BY <1>1 DEF FirstStep

(* The requests that take a step which leads to no login.                  *)
LEMMA QuietGuarded ==
    ASSUME GuardInv, NEW s \in Clients,
           \/ StartRequest(s) \/ CheckBlocked(s) \/ Limit(s) \/ Recorded(s) \/ MarkBlocked(s)
           \/ CheckSeat(s) \/ CheckEmail(s) \/ CreateAccount(s) \/ CreateCollides(s)
           \/ AnswerClaimed(s)
    PROVE  \E q : Guarded(s, q)
<1> DEFINE r == accReq[s]
<1>0. /\ r \in AccountRequest /\ CallOK(r) /\ AccountInv
      /\ r # NoAccountRequest => s \in accMix.slots
      /\ r.step = "idle" => r.step # "ip"
  BY InFlight DEF GuardInv
<1>1. r.step # "idle" => r # NoAccountRequest
  BY DEF NoAccountRequest
<1>2. r.todo = {} /\ count' = count
  BY <1>0, QuietSteps
<1>3. ASSUME NEW q, AccGo(s, q), s \in accMix.slots, q.step \notin {"ip", "verify"},
             \A e \in Emails : <<"incr", e>> \notin q.todo
      PROVE  Guarded(s, q)
  BY <1>2, <1>3, Elsewhere, CalmStep
<1>4. ASSUME s \in accMix.slots, AccGo(s, NoAccountRequest) PROVE Guarded(s, NoAccountRequest)
  BY <1>3, <1>4 DEF NoAccountRequest
<1>5. ASSUME s \in accMix.slots, NEW st, st \notin {"ip", "verify"},
             AccGo(s, [r EXCEPT !.step = st])
      PROVE  Guarded(s, [r EXCEPT !.step = st])
  <2>1. [r EXCEPT !.step = st].step = st /\ [r EXCEPT !.step = st].todo = {}
    BY <1>0, <1>2 DEF AccountRequest
  <2> QED BY <1>3, <1>5, <2>1
<1>6. CASE StartRequest(s)
  <2>1. PICK op \in accMix.ops, e \in accMix.emails, secret \in BOOLEAN :
           /\ s \in accMix.slots
           /\ AccStep(s, [NoAccountRequest EXCEPT !.op = op, !.step = "guard",
                                                  !.email = e, !.secret = secret])
    BY <1>6 DEF StartRequest
  <2> DEFINE q == [NoAccountRequest EXCEPT !.op = op, !.step = "guard",
                                           !.email = e, !.secret = secret]
  <2>2. q.step = "guard" /\ q.todo = {}
    BY DEF NoAccountRequest
  <2>3. AccGo(s, q)
    BY <2>1 DEF AccStep
  <2> HIDE DEF q
  <2> QED BY <1>3, <2>1, <2>2, <2>3
<1>7. CASE CheckBlocked(s)
  <2> DEFINE q == [r EXCEPT !.step = "limit", !.todo = {<<"incr", Hits>>}]
  <2>1. /\ s \in accMix.slots /\ r.step # "idle"
        /\ \/ AccGo(s, NoAccountRequest)
           \/ AccGo(s, q)
           \/ AccGo(s, [r EXCEPT !.step = FirstStep(r.op)])
    BY <1>0, <1>1, <1>7 DEF CheckBlocked, AccStep
  <2>2. q.step = "limit" /\ \A e \in Emails : <<"incr", e>> \notin q.todo
    BY <1>0, AccountsAssumption DEF AccountRequest
  <2>3. FirstStep(r.op) \notin {"ip", "verify"}
    BY <1>0, <2>1, FirstStepNames
  <2> HIDE DEF q
  <2> QED BY <1>3, <1>4, <1>5, <2>1, <2>2, <2>3
<1>8. CASE Limit(s)
  <2>1. /\ s \in accMix.slots /\ r.step # "idle"
        /\ AccGo(s, NoAccountRequest) \/ AccGo(s, [r EXCEPT !.step = FirstStep(r.op)])
    BY <1>0, <1>1, <1>8 DEF Limit, AccStep
  <2>2. FirstStep(r.op) \notin {"ip", "verify"}
    BY <1>0, <2>1, FirstStepNames
  <2> QED BY <1>4, <1>5, <2>1, <2>2
<1>9. CASE \/ Recorded(s) \/ MarkBlocked(s) \/ CheckSeat(s) \/ CheckEmail(s)
           \/ CreateAccount(s) \/ CreateCollides(s) \/ AnswerClaimed(s)
  <2>1. s \in accMix.slots
    BY <1>0, <1>1, <1>9 DEF Recorded, MarkBlocked, CheckSeat, CheckEmail, CreateAccount,
       CreateCollides, AnswerClaimed
  <2>2. \/ AccGo(s, NoAccountRequest)
        \/ \E st \in {"mark", "claimed", "taken", "create", "email"} :
              AccGo(s, [r EXCEPT !.step = st])
    BY <1>9 DEF Recorded, MarkBlocked, CheckSeat, CheckEmail, CreateAccount,
       CreateCollides, AnswerClaimed, AccStep
  <2> QED BY <1>4, <1>5, <2>1, <2>2
<1> QED BY <1>6, <1>7, <1>8, <1>9

(* The steps of a login that is guarded, tried and recorded.               *)
LEMMA LoginGuarded ==
    ASSUME GuardInv, NEW s \in Clients, CountByEmail(s) \/ CountByIp(s) \/ Verify(s)
    PROVE  \E q : Guarded(s, q)
<1> DEFINE r == accReq[s]
<1>0. /\ r \in AccountRequest /\ CallOK(r) /\ AccountInv /\ r # NoAccountRequest
      /\ s \in accMix.slots /\ r.email \in Emails
  <2>1. r.step \in {"email", "ip", "verify"}
    BY DEF CountByEmail, CountByIp, Verify
  <2>2. r # NoAccountRequest
    BY <2>1 DEF NoAccountRequest
  <2>3. r \in AccountRequest /\ CallOK(r) /\ AccountInv
    BY InFlight DEF GuardInv
  <2> QED BY <2>1, <2>2, <2>3 DEF GuardInv, CallOK
<1>1. r.todo = {} /\ count' = count
  BY <1>0, QuietSteps
<1>4. ASSUME AccGo(s, NoAccountRequest) PROVE Guarded(s, NoAccountRequest)
  <2>1. NoAccountRequest.step = "idle" /\ NoAccountRequest.todo = {}
    BY DEF NoAccountRequest
  <2> QED BY <1>0, <1>1, <1>4, <2>1, Elsewhere, CalmStep
<1>5. CASE CountByEmail(s)
  <2>1. PICK n \in Reads(r.email) : AccGo(s, [r EXCEPT !.step = "ip", !.seen = n])
    BY <1>5 DEF CountByEmail, AccStep
  <2> DEFINE q == [r EXCEPT !.step = "ip", !.seen = n]
  <2>2. q.step = "ip" /\ q.seen = n /\ q.todo = {} /\ q.email = r.email
    BY <1>0, <1>1 DEF AccountRequest
  <2>3. ASSUME ~accMix.outage, NEW e \in Emails, Counts(q, e) PROVE count'[e] <= MaxAttempts - 1
    <3>1. n = count[r.email] /\ r.email = e /\ n < MaxAttempts
      BY <2>2, <2>3 DEF Reads, Counts
    <3>2. count[e] \in Nat /\ MaxAttempts \in Nat
      BY EmailIsKey, SlotsFinite, <1>0 DEF AccountInv, AccountsTypeOK
    <3> QED BY <1>1, <3>1, <3>2
  <2>4. \A e \in Emails : count'[e] <= count[e]
    BY <1>0, <1>1, EmailIsKey DEF AccountInv, AccountsTypeOK
  <2>5. OwnBumps(q)
    BY <2>2 DEF OwnBumps
  <2>6. AccGo(s, q)
    BY <2>1
  <2> HIDE DEF q
  <2>7. Guarded(s, q)
    BY <1>0, <2>3, <2>4, <2>5, <2>6 DEF Guarded, Within
  <2> QED BY <2>7
<1>6. CASE CountByIp(s)
  <2> DEFINE q == [r EXCEPT !.step = "verify"]
  <2>1. AccGo(s, NoAccountRequest) \/ (r.seen < MaxAttempts /\ AccGo(s, q))
    BY <1>6 DEF CountByIp, AccStep
  <2>2. q.step = "verify" /\ q.todo = {} /\ q.email = r.email /\ r.step = "ip"
    BY <1>0, <1>1, <1>6 DEF AccountRequest, CountByIp
  <2> HIDE DEF q
  <2>3. OwnBumps(q) /\ (r.seen < MaxAttempts => \A e \in Emails : Counts(q, e) => Counts(r, e))
    BY <2>2 DEF OwnBumps, Counts
  <2> QED BY <1>0, <1>1, <1>4, <2>1, <2>3, CalmStep
<1>7. CASE Verify(s)
  <2> DEFINE q == [r EXCEPT !.step = "record", !.byIp = 0,
                            !.todo = {<<"incr", r.email>>, <<"incr", Address>>}]
             c == [r EXCEPT !.step = "clear"]
  <2>1. AccGo(s, c) \/ AccGo(s, q)
    BY <1>7 DEF Verify, AccStep
  <2>2. c.step = "clear" /\ c.todo = {}
    BY <1>0, <1>1 DEF AccountRequest
  <2>3. /\ q.step = "record" /\ q.todo = {<<"incr", r.email>>, <<"incr", Address>>}
        /\ q.email = r.email /\ r.step = "verify"
    BY <1>0, <1>7 DEF AccountRequest, Verify
  <2> HIDE DEF q, c
  <2>4. \A e \in Emails : <<"incr", e>> \in q.todo => e = r.email
    BY <2>3, AccountsAssumption
  <2>5. OwnBumps(q) /\ \A e \in Emails : Counts(q, e) => Counts(r, e)
    BY <2>3, <2>4 DEF OwnBumps, Counts
  <2> QED BY <1>0, <1>1, <2>1, <2>2, <2>5, CalmStep, Elsewhere
<1> QED BY <1>5, <1>6, <1>7

(* A bump that is carried out turns a pending failure into a counted one.  *)
LEMMA BumpGuarded ==
    ASSUME GuardInv, NEW s \in Clients, NEW k \in Keys, Incr(s, k) \/ SetExpiry(s, k)
    PROVE  \E q : Guarded(s, q)
<1> DEFINE r == accReq[s]
<1>0. /\ r \in AccountRequest /\ CallOK(r) /\ AccountInv /\ r.todo # {}
      /\ OwnBumps(r) /\ count \in [Keys -> Nat]
  BY InFlight DEF GuardInv, Incr, SetExpiry, AccountInv, AccountsTypeOK
<1>1. s \in accMix.slots /\ r.step \in {"limit", "record"}
  BY <1>0 DEF GuardInv, NoAccountRequest, CallOK
<1>2. ASSUME NEW q, q.todo \cap ({"incr"} \X Keys) \subseteq r.todo, q.email = r.email, q.step = r.step
      PROVE  /\ OwnBumps(q)
             /\ \A e \in Emails : Counts(q, e) => Counts(r, e)
  <2>1. \A e \in Emails : <<"incr", e>> \in q.todo => <<"incr", e>> \in r.todo
    BY <1>2, EmailIsKey
  <2> QED BY <1>0, <1>1, <1>2, <2>1 DEF OwnBumps, Counts
<1>3. CASE SetExpiry(s, k)
  <2> DEFINE done == [r EXCEPT !.todo = @ \ {<<"expire", k>>}]
             failed == [done EXCEPT !.seen = 0, !.byIp = IF k = Address THEN 0 ELSE @]
  <2>1. (AccGo(s, done) \/ AccGo(s, failed)) /\ count' = count
    BY <1>3 DEF SetExpiry
  <2>2. /\ done.todo \subseteq r.todo /\ done.email = r.email /\ done.step = r.step
        /\ failed.todo \subseteq r.todo /\ failed.email = r.email /\ failed.step = r.step
    BY <1>0 DEF AccountRequest
  <2> HIDE DEF done, failed
  <2> QED BY <1>1, <1>2, <2>1, <2>2, CalmStep
<1>4. CASE Incr(s, k)
  <2> DEFINE q == AfterIncr(r, k)
             failed == [r EXCEPT !.todo = @ \ {<<"incr", k>>}, !.seen = 0]
  <2>1. /\ <<"incr", k>> \in r.todo
        /\ \/ AccGo(s, failed) /\ accMix.outage
           \/ AccGo(s, q) /\ count' = [count EXCEPT ![k] = @ + 1]
    BY <1>4 DEF Incr
  <2>2. /\ failed.todo = r.todo \ {<<"incr", k>>} /\ failed.email = r.email
        /\ failed.step = r.step
    BY <1>0 DEF AccountRequest
  <2>3. /\ q.todo = (r.todo \ {<<"incr", k>>}) \cup {c \in {<<"expire", k>>} : count[k] + 1 = 1}
        /\ q.email = r.email /\ q.step = r.step
    BY <1>0 DEF AfterIncr, AccountRequest
  <2>4. q.todo \cap ({"incr"} \X Keys) \subseteq r.todo /\ <<"incr", k>> \notin q.todo
    BY <2>3
  <2> HIDE DEF q, failed
  <2>5. CASE AccGo(s, failed) /\ accMix.outage
    <3>1. failed.todo \cap ({"incr"} \X Keys) \subseteq r.todo
      BY <2>2
    <3> QED BY <1>1, <1>2, <2>2, <2>5, <3>1 DEF Guarded
  <2>6. CASE AccGo(s, q) /\ count' = [count EXCEPT ![k] = @ + 1]
    <3>1. ASSUME NEW e \in Emails PROVE Within(r, q, e)
      <4>1. Counts(q, e) => Counts(r, e)
        BY <1>2, <2>3, <2>4
      <4>2. CASE e # k
        BY <1>0, <2>6, <4>1, <4>2, EmailIsKey DEF Within
      <4>3. CASE e = k
        <5>1. Counts(r, e)
          BY <1>0, <2>1, <4>3 DEF OwnBumps, Counts
        <5>2. ~Counts(q, e)
          BY <1>1, <2>3, <2>4, <4>3 DEF Counts
        <5>3. count'[e] = count[e] + 1
          BY <1>0, <2>6, <4>3
        <5> QED BY <5>1, <5>2, <5>3 DEF Within
      <4> QED BY <4>2, <4>3
    <3>2. OwnBumps(q)
      BY <1>2, <2>3, <2>4
    <3> QED BY <1>1, <2>6, <3>1, <3>2 DEF Guarded
  <2> QED BY <2>1, <2>5, <2>6
<1> QED BY <1>3, <1>4

LEMMA ClearGuarded ==
    ASSUME GuardInv, NEW s \in Clients, ClearFailures(s)
    PROVE  Guarded(s, NoAccountRequest)
<1>1. AccGo(s, NoAccountRequest) /\ accReq[s].step = "clear"
  BY DEF ClearFailures
<1>2. s \in accMix.slots
  BY <1>1 DEF GuardInv, NoAccountRequest
<1>3. OwnBumps(NoAccountRequest) /\ \A e \in Emails : ~Counts(NoAccountRequest, e)
  <2>1. NoAccountRequest.step = "idle" /\ NoAccountRequest.todo = {}
    BY DEF NoAccountRequest
  <2> QED BY <2>1, Elsewhere
<1>4. \A e \in Emails : count'[e] <= count[e]
  <2>1. count \in [Keys -> Nat]
    BY DEF GuardInv, AccountInv, AccountsTypeOK
  <2> DEFINE gone == {accReq[s].email, Address}
  <2>2. count' = count \/ count' = [k \in Keys |-> IF k \in gone THEN 0 ELSE count[k]]
    BY DEF ClearFailures
  <2> HIDE DEF gone
  <2> QED BY <2>1, <2>2, EmailIsKey
<1> QED BY <1>1, <1>2, <1>3, <1>4 DEF Guarded, Within

LEMMA ExpiryKeepsGuard ==
    ASSUME GuardInv, AccountInv', ExpireBlock \/ \E k \in Keys : ExpireCounter(k)
    PROVE  GuardInv'
<1>1. accReq' = accReq /\ accMix' = accMix
  BY DEF ExpireBlock, ExpireCounter
<1>2. count \in [Keys -> Nat]
  BY DEF GuardInv, AccountInv, AccountsTypeOK
<1>3. count' = count \/ \E k \in Keys : count' = [count EXCEPT ![k] = 0]
  BY DEF ExpireBlock, ExpireCounter
<1>4. ASSUME NEW e \in Emails PROVE count'[e] <= count[e] /\ count'[e] \in Nat /\ count[e] \in Nat
  BY <1>2, <1>3, EmailIsKey
<1>5. \A e : Pending(e)' = Pending(e)
  BY <1>1 DEF Pending
<1>6. ASSUME ~accMix.outage, NEW e \in Emails
      PROVE  count'[e] + Cardinality(Pending(e)) <= (MaxAttempts - 1) + Cardinality(accMix.slots)
  <2>1. Cardinality(Pending(e)) \in Nat /\ Cardinality(accMix.slots) \in Nat /\ MaxAttempts \in Nat
    BY PendingFinite, SlotsFinite DEF GuardInv
  <2>2. count[e] + Cardinality(Pending(e)) <= (MaxAttempts - 1) + Cardinality(accMix.slots)
    BY <1>6 DEF GuardInv
  <2> QED BY <1>4, <2>1, <2>2
<1> QED BY <1>1, <1>5, <1>6 DEF GuardInv, OwnBumps

LEMMA NextGuardInv == GuardInv /\ [AccountsNext]_accVars => GuardInv'
<1> SUFFICES ASSUME GuardInv, [AccountsNext]_accVars PROVE GuardInv'
  OBVIOUS
<1>0. AccountInv'
  BY NextAccountInv DEF GuardInv
<1>1. CASE UNCHANGED accVars
  BY <1>0, <1>1 DEF accVars, counters, GuardInv, OwnBumps, Pending
<1>2. ASSUME NEW s \in Clients, \E q : Guarded(s, q) PROVE GuardInv'
  BY <1>0, <1>2, GuardedKept
<1>3. ASSUME NEW s \in Clients,
             \/ StartRequest(s) \/ CheckBlocked(s) \/ Limit(s) \/ CountByEmail(s) \/ CountByIp(s)
             \/ Verify(s) \/ Recorded(s) \/ MarkBlocked(s) \/ ClearFailures(s)
             \/ CheckSeat(s) \/ CheckEmail(s) \/ CreateAccount(s) \/ CreateCollides(s)
             \/ AnswerClaimed(s)
      PROVE  GuardInv'
  BY <1>2, <1>3, QuietGuarded, LoginGuarded, ClearGuarded
<1>4. ASSUME NEW s \in Clients, NEW k \in Keys, Incr(s, k) \/ SetExpiry(s, k)
      PROVE  GuardInv'
  BY <1>2, <1>4, BumpGuarded
<1>5. CASE ExpireBlock \/ \E k \in Keys : ExpireCounter(k)
  BY <1>0, <1>5, ExpiryKeepsGuard
<1> QED BY <1>1, <1>3, <1>4, <1>5 DEF AccountsNext

(* While Redis answers, no account ever records more failed logins than    *)
(* one less than the limit and one for each request that may overlap: the  *)
(* requests that have passed the guard already count.                      *)
THEOREM FailuresStayBounded == AccountsSpec => []FailuresBounded
<1>1. GuardInv => FailuresBounded
  <2> SUFFICES ASSUME GuardInv, ~accMix.outage, NEW e \in Emails
               PROVE  count[e] <= (MaxAttempts - 1) + Cardinality(accMix.slots)
    BY DEF FailuresBounded
  <2>1. /\ Cardinality(Pending(e)) \in Nat /\ Cardinality(accMix.slots) \in Nat
        /\ MaxAttempts \in Nat /\ count[e] \in Nat
    BY PendingFinite, SlotsFinite, EmailIsKey DEF GuardInv, AccountInv, AccountsTypeOK
  <2>2. count[e] + Cardinality(Pending(e)) <= (MaxAttempts - 1) + Cardinality(accMix.slots)
    BY DEF GuardInv
  <2> QED BY <2>1, <2>2
<1> QED BY <1>1, InitGuardInv, NextGuardInv, PTL DEF AccountsSpec

-----------------------------------------------------------------------------
(* Accounts and Sessions side by side: a behaviour of both is a behaviour  *)
(* of each, so that the theorems about either hold of it.                  *)
THEOREM GettingInIsBoth == BothSpec => Spec /\ AccountsSpec
<1>1. BothInit => Init /\ AccountsInit
  BY DEF BothInit
<1>2. [BothNext]_<<vars, accVars>> => [Next]_vars /\ [AccountsNext]_accVars
  <2> SUFFICES ASSUME BothNext PROVE [Next]_vars /\ [AccountsNext]_accVars
    OBVIOUS
  <2>1. \/ Next /\ UNCHANGED accVars
        \/ AccountsNext /\ UNCHANGED vars
    BY Zenon DEF BothNext, Tok, Acc, Next, Start, Handle, AccountsNext
  <2> QED BY <2>1
<1> QED BY <1>1, <1>2, PTL DEF BothSpec, Spec, AccountsSpec

(* While the two run side by side, the types of both hold.                 *)
THEOREM GettingInTypes == BothSpec => []TypesOK
<1>1. TypeOK /\ AccountsTypeOK => TypesOK
  BY DEF TypesOK
<1> QED BY <1>1, GettingInIsBoth, TypeCorrect, AccountTypes, PTL
===============================================================================
