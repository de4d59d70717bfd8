---------------------------- MODULE MCGettingIn -----------------------------
(* Sessions and Accounts for TLC.  They share no variable, so a behaviour  *)
(* has one of them at rest: what each of the two does alone is all that    *)
(* their properties can tell apart.                                        *)
EXTENDS MCSessions, Accounts

Mix(ops, emails, slots, users, limited, outage) ==
    [ops |-> ops, emails |-> emails, slots |-> slots, users |-> users,
     limited |-> limited, outage |-> outage]

(* One client with everything on; one with a Redis that fails; two that    *)
(* overlap, once failing to log in and once racing for an account.         *)
MCAccountMixes ==
    {Mix({"login"}, {"ann", "bob"}, {"c1"}, {"ann"}, TRUE, FALSE),
     Mix({"login"}, {"ann"}, {"c1"}, {"ann"}, FALSE, TRUE),
     Mix({"login"}, {"ann"}, {"c1", "c2"}, {"ann"}, FALSE, FALSE),
     Mix({"register", "claim"}, {"ann", "bob"}, {"c1"}, {}, TRUE, FALSE),
     Mix({"register", "claim"}, {"ann", "bob"}, {"c1", "c2"}, {}, FALSE, FALSE),
     Mix({}, {}, {}, {}, FALSE, FALSE)}

MCAllMixes == MCMixes \cup {[ops |-> {}, slots |-> {}]}

BothInit == Init /\ AccountsInit /\ (mix.ops = {}) # (accMix.ops = {})

Tok(action) == action /\ UNCHANGED accVars
Acc(action) == action /\ UNCHANGED vars

BothNext ==
    \/ \E s \in Requests :
          \/ Tok(StartRefresh(s)) \/ Tok(StartLogin(s)) \/ Tok(StartLogout(s))
          \/ Tok(StartAuthenticated(s))
          \/ Tok(FindToken(s)) \/ Tok(KillFamily(s)) \/ Tok(ReadUser(s)) \/ Tok(Rotate(s))
          \/ Tok(Issue(s)) \/ Tok(SavePassword(s)) \/ Tok(RevokeOne(s)) \/ Tok(RevokeAll(s))
          \/ Tok(BumpVersion(s))
    \/ \E t \in Tokens : Tok(Expire(t))
    \/ \E k \in Keys : Acc(ExpireCounter(k))
    \/ Acc(ExpireBlock)
    \/ \E s \in Clients :
          \/ Acc(StartRequest(s)) \/ Acc(CheckBlocked(s)) \/ Acc(Limit(s))
          \/ Acc(CountByEmail(s)) \/ Acc(CountByIp(s)) \/ Acc(Verify(s)) \/ Acc(Recorded(s))
          \/ Acc(MarkBlocked(s)) \/ Acc(ClearFailures(s))
          \/ Acc(CheckSeat(s)) \/ Acc(CheckEmail(s)) \/ Acc(CreateAccount(s))
          \/ Acc(CreateCollides(s)) \/ Acc(AnswerClaimed(s))
          \/ \E k \in Keys : Acc(Incr(s, k)) \/ Acc(SetExpiry(s, k))

BothSpec == BothInit /\ [][BothNext]_<<vars, accVars>>

(* The types of both modules.                                              *)
TypesOK == TypeOK /\ AccountsTypeOK
=============================================================================
