------------------------------ MODULE Sessions ------------------------------
(***************************************************************************)
(* The sessions of one account: services/auth.service over                 *)
(* models/refreshToken and user.tokenVersion, and services/identity.service*)
(*                                                                         *)
(* A refresh token is used once: refreshSession revokes it and issues the  *)
(* next one of its family.  An access token carries the tokenVersion of    *)
(* the user document its issuer read.  Every await of a handler is a step, *)
(* and no handler of this service uses a transaction.                      *)
(***************************************************************************)
EXTENDS Naturals, FiniteSets

CONSTANTS
    Tokens,       \* refresh tokens the account may ever get
    Families,     \* token families
    Requests,     \* slots for requests in flight
    Mixes,        \* bound: what clients ask for (ops) and which slots they use
                  \* (slots); a behaviour keeps to one of these
    MaxVersion,   \* bound: no request bumps a tokenVersion that is at it
    Null

ASSUME SessionsAssumption ==
    /\ Null \notin Tokens \cup Families
    /\ Mixes \subseteq [ops : SUBSET {"login", "refresh", "logout", "everywhere", "password", "revoke"},
                        slots : SUBSET Requests]
    /\ MaxVersion \in Nat

VARIABLES
    state,      \* a refresh token: "absent", "live", "revoked" or "expired" ...
    family,     \* ... its family ...
    access,     \* ... and the version in the access token issued with it
    version,    \* user.tokenVersion
    password,   \* how often the password has changed
    req,        \* the requests in flight
    mix         \* what clients ask for

tokens == <<state, family, access>>
user == <<version, password>>
vars == <<tokens, user, req, mix>>

Ops == {"none", "login", "refresh", "logout", "everywhere", "password", "revoke"}

Steps == {"idle", "find", "kill", "user", "rotate", "issue", "save", "revoke", "bump"}

(* What a handler holds: the refresh token it was given, the password it   *)
(* was given and the tokenVersion of the user document it read.            *)
Request ==
    [op : Ops, step : Steps, token : Tokens \cup {Null}, secret : Nat, version : Nat]

Idle == [op |-> "none", step |-> "idle", token |-> Null, secret |-> 0, version |-> 0]

TypeOK ==
    /\ state \in [Tokens -> {"absent", "live", "revoked", "expired"}]
    /\ family \in [Tokens -> Families \cup {Null}]
    /\ access \in [Tokens -> Nat]
    /\ \A t \in Tokens : state[t] = "absent" <=> family[t] = Null
    /\ version \in Nat
    /\ password \in Nat
    /\ req \in [Requests -> Request]
    /\ mix \in Mixes

Known == {t \in Tokens : state[t] # "absent"}

Live(f) == {t \in Tokens : state[t] = "live" /\ family[t] = f}

Init ==
    /\ state = [t \in Tokens |-> "absent"]
    /\ family = [t \in Tokens |-> Null]
    /\ access = [t \in Tokens |-> 0]
    /\ version = 0
    /\ password = 0
    /\ req = [s \in Requests |-> Idle]
    /\ mix \in Mixes

(* revokedAt is set where it was null; expiry is not undone.               *)
RevokeThose(S) ==
    state' = [t \in Tokens |-> IF t \in S /\ state[t] = "live" THEN "revoked" ELSE state[t]]

(* resolveAccessToken: the access token issued with t passes while its     *)
(* version is the user's.                                                  *)
Accepted(t) == t \in Known /\ access[t] = version

-----------------------------------------------------------------------------
Go(s, r) ==
    /\ req' = [req EXCEPT ![s] = r]
    /\ UNCHANGED mix

Begin(s, r) ==
    /\ req[s] = Idle
    /\ s \in mix.slots /\ r.op \in mix.ops
    /\ Go(s, r)
    /\ UNCHANGED <<tokens, user>>

(* verifyRefreshToken: an expired one is refused before anything is read.  *)
StartRefresh(s) ==
    \E t \in Known :
        /\ state[t] # "expired"
        /\ Begin(s, [Idle EXCEPT !.op = "refresh", !.step = "find", !.token = t])

StartLogin(s) ==
    \E p \in 0..password :
        Begin(s, [Idle EXCEPT !.op = "login", !.step = "user", !.secret = p])

StartLogout(s) ==
    \E t \in Known : Begin(s, [Idle EXCEPT !.op = "logout", !.step = "revoke", !.token = t])

(* The routes behind authenticate.                                         *)
StartAuthenticated(s) ==
    /\ \E t \in Tokens : Accepted(t)
    /\ \/ \E t \in Known : Begin(s, [Idle EXCEPT !.op = "revoke", !.step = "revoke", !.token = t])
       \/ /\ version < MaxVersion
          /\ Begin(s, [Idle EXCEPT !.op = "everywhere", !.step = "revoke"])
       \/ /\ version < MaxVersion
          /\ \E p \in 0..password :
                Begin(s, [Idle EXCEPT !.op = "password", !.step = "user", !.secret = p])

-----------------------------------------------------------------------------
\* Mutant: a token found revoked is as good as a live one.
FindAnyToken(s) ==
    /\ req[s].step = "find"
    /\ Go(s, [req[s] EXCEPT !.step = "user"])
    /\ UNCHANGED <<tokens, user>>

(* refreshSession looks the token up; isUsable decides.                    *)
FindToken(s) ==
    LET r == req[s]
    IN  /\ r.step = "find"
        /\ Go(s, [r EXCEPT !.step = IF state[r.token] = "live" THEN "user" ELSE "kill"])
        /\ UNCHANGED <<tokens, user>>

(* revokeFamily.                                                           *)
KillFamily(s) ==
    /\ req[s].step = "kill"
    /\ RevokeThose(Live(family[req[s].token]))
    /\ Go(s, Idle)
    /\ UNCHANGED <<family, access, user>>

(* The user document is read: by refreshSession, which only needs an       *)
(* active account (nothing in the service ever deactivates one), and by    *)
(* login and changePassword, which verify the password against it.         *)
ReadUser(s) ==
    LET r == req[s]
        next == CASE r.op = "refresh" -> "rotate" [] r.op = "login" -> "issue" [] OTHER -> "save"
    IN  /\ r.step = "user"
        /\ Go(s, IF r.op # "refresh" /\ r.secret # password
                   THEN Idle ELSE [r EXCEPT !.step = next, !.version = version])
        /\ UNCHANGED <<tokens, user>>

\* Mutant: the token that was used stays live.
RotateNothing(s) ==
    /\ req[s].step = "rotate"
    /\ Go(s, [req[s] EXCEPT !.step = "issue"])
    /\ UNCHANGED <<tokens, user>>

(* stored.save; a document that expired meanwhile may be gone, and then    *)
(* save throws.                                                            *)
Rotate(s) ==
    LET r == req[s]
    IN  /\ r.step = "rotate"
        /\ \/ Go(s, [r EXCEPT !.step = "issue"])
           \/ state[r.token] = "expired" /\ Go(s, Idle)
        /\ RevokeThose({r.token})
        /\ UNCHANGED <<family, access, user>>

\* Mutant: the new token is stored without its family.
IssueLoose(s) ==
    /\ req[s].step = "issue"
    /\ \E t \in Tokens \ Known :
          /\ state' = [state EXCEPT ![t] = "live"]
          /\ access' = [access EXCEPT ![t] = req[s].version]
    /\ Go(s, Idle)
    /\ UNCHANGED <<family, user>>

(* issueSession: in the family of the token used, or in a new one.         *)
Issue(s) ==
    LET r == req[s]
        used == {family[t] : t \in Known}
        families == IF r.op = "refresh" THEN {family[r.token]} ELSE Families \ used
    IN  /\ r.step = "issue"
        /\ \E t \in Tokens \ Known, f \in families :
              /\ state' = [state EXCEPT ![t] = "live"]
              /\ family' = [family EXCEPT ![t] = f]
              /\ access' = [access EXCEPT ![t] = r.version]
        /\ Go(s, Idle)
        /\ UNCHANGED <<user>>

(* changePassword saves the new password and goes on to logoutEverywhere.  *)
SavePassword(s) ==
    /\ req[s].step = "save"
    /\ password' = password + 1
    /\ Go(s, [req[s] EXCEPT !.step = "revoke"])
    /\ UNCHANGED <<tokens, version>>

(* logout and revokeSession.                                               *)
RevokeOne(s) ==
    /\ req[s].step = "revoke" /\ req[s].op \in {"logout", "revoke"}
    /\ RevokeThose({req[s].token})
    /\ Go(s, Idle)
    /\ UNCHANGED <<family, access, user>>

\* Mutant: logoutEverywhere leaves the refresh tokens.
RevokeNone(s) ==
    /\ req[s].step = "revoke" /\ req[s].op \in {"everywhere", "password"}
    /\ Go(s, [req[s] EXCEPT !.step = "bump"])
    /\ UNCHANGED <<tokens, user>>

(* logoutEverywhere: the refresh tokens, and in a second write the version.*)
RevokeAll(s) ==
    /\ req[s].step = "revoke" /\ req[s].op \in {"everywhere", "password"}
    /\ RevokeThose(Tokens)
    /\ Go(s, [req[s] EXCEPT !.step = "bump"])
    /\ UNCHANGED <<family, access, user>>

BumpVersion(s) ==
    /\ req[s].step = "bump"
    /\ version' = version + 1
    /\ Go(s, Idle)
    /\ UNCHANGED <<tokens, password>>

-----------------------------------------------------------------------------
(* REFRESH_TOKEN_TTL passes.                                               *)
Expire(t) ==
    /\ state[t] \in {"live", "revoked"}
    /\ state' = [state EXCEPT ![t] = "expired"]
    /\ UNCHANGED <<family, access, user, req, mix>>

Start(s) == StartRefresh(s) \/ StartLogin(s) \/ StartLogout(s) \/ StartAuthenticated(s)

Handle(s) ==
    \/ FindToken(s) \/ KillFamily(s) \/ ReadUser(s) \/ Rotate(s) \/ Issue(s)
    \/ SavePassword(s) \/ RevokeOne(s) \/ RevokeAll(s) \/ BumpVersion(s)

Next ==
    \/ \E s \in Requests : Start(s) \/ Handle(s)
    \/ \E t \in Tokens : Expire(t)

Spec == Init /\ [][Next]_vars

-----------------------------------------------------------------------------
(* Properties.                                                             *)

OneAtATime == \A s, t \in mix.slots : s = t

Quiet == \A s \in Requests : req[s] = Idle

(* README: using a refresh token revokes it.  A family never has two       *)
(* usable tokens.                                                          *)
FamilyHasOneLive ==
    \A t, u \in Tokens :
        state[t] = "live" /\ state[u] = "live" /\ family[t] = family[u] => t = u

(* That is so while requests do not overlap: rotation keeps a lineage.     *)
RotationKeepsOneLive == OneAtATime => FamilyHasOneLive

(* What logoutEverywhere and changePassword leave behind when requests do  *)
(* not overlap: with nothing in flight, a refresh token is usable only if  *)
(* its session is of the current tokenVersion, so refresh tokens and       *)
(* access tokens die together.                                             *)
SessionsAgree ==
    OneAtATime /\ Quiet => \A t \in Tokens : state[t] = "live" => access[t] = version

(* A family without a usable token, and without a refresh in flight that   *)
(* found one usable, never gets one again: a family that a replay revoked  *)
(* comes back only through a refresh that was under way already.           *)
Renewing(f) ==
    \E s \in Requests :
        /\ req[s].op = "refresh" /\ req[s].step \in {"user", "rotate", "issue"}
        /\ family[req[s].token] = f

Over(f) == (\E t \in Known : family[t] = f) /\ Live(f) = {} /\ ~Renewing(f)

DeadForGood == [][\A f \in Families : Over(f) => Over(f)']_vars
=============================================================================
