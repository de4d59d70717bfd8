------------------------------ MODULE Accounts ------------------------------
(***************************************************************************)
(* Getting an account and getting into it from one address: the counters   *)
(* of services/security.service and helpers/rateLimitStore in Redis        *)
(* (services/cache.service), auth.service.register and login, and the      *)
(* super admin seat of admin.service.                                      *)
(*                                                                         *)
(* Every Redis command and every query is a step.  A command that fails    *)
(* yields the neutral value its caller goes on with, and may or may not    *)
(* have been carried out.  Sessions has what login issues.                 *)
(***************************************************************************)
EXTENDS Naturals, FiniteSets

CONSTANTS
    Emails,
    Clients,            \* slots for requests in flight
    AccountMixes,       \* bound: what clients ask for (ops) and for whom
                        \* (emails), which slots they use (slots), who has an
                        \* account already (users), whether requests are
                        \* limited (limited: not where isTest) and Redis may
                        \* fail (outage); a behaviour keeps to one of these
    MaxAttempts,        \* LOGIN_MAX_ATTEMPTS
    BlockThreshold,     \* IP_BLOCK_THRESHOLD
    MaxHits,            \* the limiter's max per window
    MaxCount,           \* bound: no request starts while a counter is at it
    Address, Hits,      \* the counters of the address: failures and requests
    Anyone

ASSUME AccountsAssumption ==
    /\ IsFiniteSet(Clients) /\ Anyone \notin Emails /\ Address # Hits /\ {Address, Hits} \cap Emails = {}
    /\ {MaxAttempts, BlockThreshold, MaxHits, MaxCount} \subseteq Nat \ {0}
    /\ AccountMixes \subseteq [ops : SUBSET {"login", "register", "claim"},
                               emails : SUBSET Emails,
                               slots : SUBSET Clients, users : SUBSET Emails,
                               limited : BOOLEAN, outage : BOOLEAN]

VARIABLES
    count,      \* counters in Redis: failures by email and address, requests
    ttl,        \* those that have an expiry
    blocked,    \* the blocked flag of the address
    account,    \* "none", "user" or "super" for each email
    accReq,     \* the requests in flight
    accMix

counters == <<count, ttl, blocked>>
accVars == <<counters, account, accReq, accMix>>

Keys == Emails \cup {Address, Hits}

AccountSteps == {"idle", "guard", "limit", "email", "ip", "verify", "record", "mark",
                 "clear", "seat", "taken", "create", "claimed"}

(* secret: the password is right; todo: commands of bumps still to come;   *)
(* seen: what the last counter read or bumped was; byIp: failures by       *)
(* address, as recordLoginFailure counted them.                            *)
AccountRequest ==
    [op : {"none", "login", "register", "claim"}, step : AccountSteps,
     email : Emails \cup {Anyone}, secret : BOOLEAN,
     todo : SUBSET ({"incr", "expire"} \X Keys), seen : Nat, byIp : Nat]

NoAccountRequest == [op |-> "none", step |-> "idle", email |-> Anyone, secret |-> FALSE,
                     todo |-> {}, seen |-> 0, byIp |-> 0]

AccountsTypeOK ==
    /\ count \in [Keys -> Nat]
    /\ ttl \subseteq {k \in Keys : count[k] > 0}
    /\ blocked \in BOOLEAN
    /\ account \in [Emails -> {"none", "user", "super"}]
    /\ accReq \in [Clients -> AccountRequest]
    /\ accMix \in AccountMixes

AccountsInit ==
    /\ count = [k \in Keys |-> 0]
    /\ ttl = {}
    /\ blocked = FALSE
    /\ accMix \in AccountMixes
    /\ account = [e \in Emails |-> IF e \in accMix.users THEN "user" ELSE "none"]
    /\ accReq = [s \in Clients |-> NoAccountRequest]

AccGo(s, r) ==
    /\ accReq' = [accReq EXCEPT ![s] = r]
    /\ UNCHANGED accMix

AccStep(s, r) ==
    /\ AccGo(s, r)
    /\ UNCHANGED <<counters, account>>

-----------------------------------------------------------------------------
(* Redis: keys with an expiry go; attempt turns a failure into a neutral   *)
(* value.                                                                  *)
ExpireCounter(k) ==
    /\ k \in ttl
    /\ count' = [count EXCEPT ![k] = 0]
    /\ ttl' = ttl \ {k}
    /\ UNCHANGED <<blocked, account, accReq, accMix>>

ExpireBlock ==
    /\ blocked
    /\ blocked' = FALSE
    /\ UNCHANGED <<count, ttl, account, accReq, accMix>>

Reads(k) == {count[k]} \cup {n \in {0} : accMix.outage}

(* bump: INCR, and EXPIRE after the count came back as 1.                  *)
\* Mutant: the expiry is set by the second failure.
AfterIncrLate(r, k) ==
    [r EXCEPT !.todo = (@ \ {<<"incr", k>>})
                       \cup {c \in {<<"expire", k>>} : count[k] + 1 = 2},
              !.seen = count[k] + 1,
              !.byIp = IF k = Address THEN count[k] + 1 ELSE @]

AfterIncr(r, k) ==
    [r EXCEPT !.todo = (@ \ {<<"incr", k>>})
                       \cup {c \in {<<"expire", k>>} : count[k] + 1 = 1},
              !.seen = count[k] + 1,
              !.byIp = IF k = Address THEN count[k] + 1 ELSE @]

Incr(s, k) ==
    LET r == accReq[s]
        failed == [r EXCEPT !.todo = @ \ {<<"incr", k>>}, !.seen = 0]
    IN  /\ <<"incr", k>> \in r.todo
        /\ \/ /\ count' = [count EXCEPT ![k] = @ + 1]
              /\ \/ AccGo(s, AfterIncr(r, k))
                 \/ accMix.outage /\ AccGo(s, failed)
           \/ /\ accMix.outage
              /\ AccGo(s, failed)
              /\ UNCHANGED count
        /\ UNCHANGED <<ttl, blocked, account>>

(* When the EXPIRE fails bump has failed as a whole and yields 0.          *)
SetExpiry(s, k) ==
    LET r == accReq[s]
        done == [r EXCEPT !.todo = @ \ {<<"expire", k>>}]
    IN  /\ <<"expire", k>> \in r.todo
        /\ \/ /\ ttl' = ttl \cup {x \in {k} : count[x] > 0}
              /\ AccGo(s, done)
           \/ /\ accMix.outage
              /\ UNCHANGED ttl
              /\ AccGo(s, [done EXCEPT !.seen = 0, !.byIp = IF k = Address THEN 0 ELSE @])
        /\ UNCHANGED <<count, blocked, account>>

-----------------------------------------------------------------------------
(* ipGuard comes before the limiter, the limiter before the handlers.      *)
StartRequest(s) ==
    \E op \in accMix.ops, e \in accMix.emails, secret \in BOOLEAN :
        /\ s \in accMix.slots /\ accReq[s] = NoAccountRequest
        /\ \A k \in Keys : count[k] < MaxCount
        /\ op # "login" => secret
        /\ AccStep(s, [NoAccountRequest EXCEPT !.op = op, !.step = "guard",
                                               !.email = e, !.secret = secret])

FirstStep(op) == CASE op = "login" -> "email" [] op = "register" -> "taken" [] op = "claim" -> "seat"

(* assertIpAllowed: hasFlag.                                               *)
CheckBlocked(s) ==
    LET r == accReq[s]
    IN  /\ r.step = "guard"
        /\ \/ blocked /\ AccStep(s, NoAccountRequest)
           \/ /\ ~blocked \/ accMix.outage
              /\ AccStep(s, IF accMix.limited
                            THEN [r EXCEPT !.step = "limit", !.todo = {<<"incr", Hits>>}]
                            ELSE [r EXCEPT !.step = FirstStep(r.op)])

(* increment: a failed bump counts as the first request.                   *)
Limit(s) ==
    LET r == accReq[s]
    IN  /\ r.step = "limit" /\ r.todo = {}
        /\ AccStep(s, IF r.seen <= MaxHits THEN [r EXCEPT !.step = FirstStep(r.op)]
                      ELSE NoAccountRequest)

(* assertLoginAllowed: both counters are read, then looked at.             *)
CountByEmail(s) ==
    LET r == accReq[s]
    IN  /\ r.step = "email"
        /\ \E n \in Reads(r.email) : AccStep(s, [r EXCEPT !.step = "ip", !.seen = n])

\* Mutant: the failures of the email are not looked at.
CountByAddress(s) ==
    LET r == accReq[s]
    IN  /\ r.step = "ip"
        /\ \E n \in Reads(Address) :
              AccStep(s, IF n < BlockThreshold THEN [r EXCEPT !.step = "verify"]
                         ELSE NoAccountRequest)

CountByIp(s) ==
    LET r == accReq[s]
    IN  /\ r.step = "ip"
        /\ \E n \in Reads(Address) :
              AccStep(s, IF r.seen < MaxAttempts /\ n < BlockThreshold
                         THEN [r EXCEPT !.step = "verify"]
                         ELSE NoAccountRequest)

(* login: an unknown email and a wrong password are failures alike.        *)
Verify(s) ==
    LET r == accReq[s]
    IN  /\ r.step = "verify"
        /\ AccStep(s, IF account[r.email] # "none" /\ r.secret
                      THEN [r EXCEPT !.step = "clear"]
                      ELSE [r EXCEPT !.step = "record", !.byIp = 0,
                                     !.todo = {<<"incr", r.email>>, <<"incr", Address>>}])

(* recordLoginFailure                                                      *)
Recorded(s) ==
    LET r == accReq[s]
    IN  /\ r.step = "record" /\ r.todo = {}
        /\ AccStep(s, IF r.byIp >= BlockThreshold THEN [r EXCEPT !.step = "mark"]
                      ELSE NoAccountRequest)

MarkBlocked(s) ==
    /\ accReq[s].step = "mark"
    /\ \/ blocked' = TRUE
       \/ accMix.outage /\ UNCHANGED blocked
    /\ AccGo(s, NoAccountRequest)
    /\ UNCHANGED <<count, ttl, account>>

(* clearLoginFailures                                                      *)
ClearFailures(s) ==
    LET gone == {accReq[s].email, Address}
    IN  /\ accReq[s].step = "clear"
        /\ \/ /\ count' = [k \in Keys |-> IF k \in gone THEN 0 ELSE count[k]]
              /\ ttl' = ttl \ gone
           \/ accMix.outage /\ UNCHANGED <<count, ttl>>
        /\ AccGo(s, NoAccountRequest)
        /\ UNCHANGED <<blocked, account>>

-----------------------------------------------------------------------------
SeatTaken == \E e \in Emails : account[e] = "super"

(* setupStatus, in createSuperAdmin; a wrong setup key changes nothing.    *)
CheckSeat(s) ==
    LET r == accReq[s]
    IN  /\ r.step = "seat"
        /\ AccStep(s, IF SeatTaken THEN [r EXCEPT !.step = "claimed"]
                      ELSE [r EXCEPT !.step = "taken"])

CheckEmail(s) ==
    LET r == accReq[s]
    IN  /\ r.step = "taken"
        /\ AccStep(s, IF account[r.email] = "none" THEN [r EXCEPT !.step = "create"]
                      ELSE NoAccountRequest)

\* Mutant: the role is not unique.
CollidesByEmail(r) == account[r.email] # "none"

(* The unique indexes on the email and, for the super admin, on the role.  *)
Collides(r) == account[r.email] # "none" \/ (r.op = "claim" /\ SeatTaken)

(* User.create.  A claim goes on to log in; any duplicate key tells it     *)
(* that the seat is claimed.                                               *)
CreateAccount(s) ==
    LET r == accReq[s]
    IN  /\ r.step = "create" /\ ~Collides(r)
        /\ account' = [account EXCEPT ![r.email] = IF r.op = "claim" THEN "super" ELSE "user"]
        /\ AccGo(s, IF r.op = "claim" THEN [r EXCEPT !.step = "email"] ELSE NoAccountRequest)
        /\ UNCHANGED <<counters>>

CreateCollides(s) ==
    LET r == accReq[s]
    IN  /\ r.step = "create" /\ Collides(r)
        /\ AccStep(s, IF r.op = "claim" THEN [r EXCEPT !.step = "claimed"] ELSE NoAccountRequest)

(* The answer ALREADY_CLAIMED.                                             *)
AnswerClaimed(s) ==
    /\ accReq[s].step = "claimed"
    /\ AccStep(s, NoAccountRequest)

AccountsNext ==
    \/ \E k \in Keys : ExpireCounter(k)
    \/ ExpireBlock
    \/ \E s \in Clients :
          \/ StartRequest(s) \/ CheckBlocked(s) \/ Limit(s) \/ CountByEmail(s) \/ CountByIp(s)
          \/ Verify(s) \/ Recorded(s) \/ MarkBlocked(s) \/ ClearFailures(s)
          \/ CheckSeat(s) \/ CheckEmail(s) \/ CreateAccount(s) \/ CreateCollides(s)
          \/ AnswerClaimed(s)
          \/ \E k \in Keys : Incr(s, k) \/ SetExpiry(s, k)

AccountsSpec == AccountsInit /\ [][AccountsNext]_accVars

-----------------------------------------------------------------------------
(* While Redis answers, nobody fails to log in to an account more often    *)
(* than the limit and once for each request that overlaps: the check and   *)
(* the count are apart.  With requests one at a time the limit is exact.   *)
FailuresBounded ==
    ~accMix.outage =>
        \A e \in Emails :
            count[e] <= (MaxAttempts - 1) + Cardinality(accMix.slots)

(* While Redis answers, a counter above zero has an expiry or a request    *)
(* that is about to set it: no account, address or client stays locked for *)
(* good, however bumps, clears and expiries interleave.                    *)
CountersExpire ==
    ~accMix.outage =>
        \A k \in Keys :
            count[k] > 0 => k \in ttl \/ \E s \in Clients : <<"expire", k>> \in accReq[s].todo

(* However claims and registrations overlap, there is never more than one  *)
(* super admin, and an account keeps its role: the seat never changes      *)
(* hands, and nobody is registered over.                                   *)
SeatKept ==
    [][ /\ Cardinality({e \in Emails : account'[e] = "super"}) <= 1
        /\ \A e \in Emails : account[e] # "none" => account'[e] = account[e] ]_accVars
=============================================================================
