---------------------------- MODULE HttpSession ----------------------------
(***************************************************************************)
(* Sessions over HTTP: the router with its middlewares, and the handlers   *)
(* of handlers/auth.go that issue and rotate tokens without the token      *)
(* service.  A JWT has no identifier and counts seconds: two tokens of one *)
(* user issued in the same second are the same string.  Rotation reads the *)
(* blacklist and writes it in separate calls to Redis, whose errors count  *)
(* as "not blacklisted" and are ignored.  The clock does not tick inside   *)
(* generateTokens.                                                         *)
(***************************************************************************)
EXTENDS Integers, FiniteSets

CONSTANTS Accounts, Browsers,
          AccessExpiry, RefreshExpiry,   \* in seconds
          MaxSeconds                     \* bound on the clock

ASSUME SessionAssumption ==
    AccessExpiry \in Nat /\ RefreshExpiry \in Nat /\ AccessExpiry < RefreshExpiry
    /\ MaxSeconds \in Nat

VARIABLES second,      \* the clock
          active,      \* account -> is_active
          issued,      \* tokens handed out
          blacklist,   \* Redis: token -> when its entry expires
          rotation,    \* client -> where its refresh is
          retired,     \* tokens whose blacklisting succeeded
          admitted     \* whether the last visit to a route got past its middlewares

sessionVars == <<second, active, issued, blacklist, rotation, retired, admitted>>

NoRotation == [at |-> "idle"]

SessionInit ==
    /\ second = 0 /\ active \in [Accounts -> BOOLEAN]
    /\ issued = {} /\ blacklist = [t \in {} |-> 0] /\ retired = {}
    /\ rotation = [c \in Browsers |-> NoRotation]
    /\ admitted = TRUE

-----------------------------------------------------------------------------
(* Tokens.                                                                 *)

\* jwt.ParseWithClaims of a token this service signed.
Parses(t) == second < t.expiresAt

SignedAccess(u) == [account |-> u, issuedAt |-> second, expiresAt |-> second + AccessExpiry]
SignedRefresh(u) == [account |-> u, issuedAt |-> second, expiresAt |-> second + RefreshExpiry]

generateTokens(u) == {SignedAccess(u), SignedRefresh(u)}

Blacklisted(t) == t \in DOMAIN blacklist /\ second < blacklist[t]

\* Faulty variant: the expiry of access tokens.
BlacklistTTLAccess == AccessExpiry

\* The expiry Redis is given, from now on.
BlacklistTTL == RefreshExpiry

-----------------------------------------------------------------------------
(* Handlers.                                                               *)

\* Login: an active account with its password; the last login and an event follow.
Login(u) ==
    /\ active[u]
    /\ issued' = issued \cup generateTokens(u)
    /\ UNCHANGED <<second, active, blacklist, rotation, retired, admitted>>

\* A refresh, in its steps.  Any token that parses will do, and the account need not be
\* active.  A blacklisted one passes only when Redis does not answer.
CheckRefresh(c, t) ==
    /\ rotation[c] = NoRotation /\ Parses(t)
    /\ rotation' = [rotation EXCEPT ![c] =
          [at |-> "checked", token |-> t, blind |-> Blacklisted(t), dead |-> t \in retired]]
    /\ UNCHANGED <<second, active, issued, blacklist, retired, admitted>>

\* The account is found, and tokens of this second are signed.
IssueRefreshed(c) ==
    /\ rotation[c].at = "checked"
    /\ issued' = issued \cup generateTokens(rotation[c].token.account)
    /\ rotation' = [rotation EXCEPT ![c].at = "issued"]
    /\ UNCHANGED <<second, active, blacklist, retired, admitted>>

\* The old token is blacklisted; an error of Redis is not looked at.
BlacklistOld(c) ==
    /\ rotation[c].at = "issued"
    /\ LET t == rotation[c].token
       IN  \/ /\ blacklist' = [x \in DOMAIN blacklist \cup {t} |->
                                IF x = t THEN second + BlacklistTTL ELSE blacklist[x]]
              /\ retired' = retired \cup {t}
           \/ UNCHANGED <<blacklist, retired>>
    /\ rotation' = [rotation EXCEPT ![c] = NoRotation]
    /\ UNCHANGED <<second, active, issued, admitted>>

-----------------------------------------------------------------------------
(* Middlewares and routes.                                                 *)

\* The header holds a token that parses; the blacklist is not consulted.
AuthMiddleware(t) == Parses(t)

\* The claims of the token always set the organization.
TenantMiddleware(t) == AuthMiddleware(t)

isValidServiceKey(key) == key = "internal-service-key"
ServiceAuthMiddleware(key) == isValidServiceKey(key)

Visit(passes) ==
    /\ admitted' = passes
    /\ UNCHANGED <<second, active, issued, blacklist, rotation, retired>>

\* ValidateToken, an internal route, answers that any token is valid; ForgotPassword and
\* ResetPassword, public ones, answer and do nothing.
HttpValidateToken(key) == Visit(ServiceAuthMiddleware(key))
ForgotPassword == Visit(TRUE)
ResetPassword == Visit(TRUE)

\* router.Initialize: what guards each group of routes.
Routes ==
    \/ ForgotPassword \/ ResetPassword
    \/ \E t \in issued : Visit(AuthMiddleware(t) /\ TenantMiddleware(t))
    \/ \E key \in {"internal-service-key", "another"} : HttpValidateToken(key)

-----------------------------------------------------------------------------
\* A second passes; Redis drops what has expired.
Second ==
    /\ second < MaxSeconds
    /\ second' = second + 1
    /\ blacklist' = [t \in {x \in DOMAIN blacklist : second' < blacklist[x]} |-> blacklist[t]]
    /\ UNCHANGED <<active, issued, rotation, retired, admitted>>

SessionNext ==
    \/ \E u \in Accounts : Login(u)
    \/ \E c \in Browsers :
          \/ \E t \in issued : CheckRefresh(c, t)
          \/ IssueRefreshed(c) \/ BlacklistOld(c)
    \/ Routes
    \/ Second

-----------------------------------------------------------------------------
(* Properties.                                                             *)

\* RotatedStaysDead: once a refresh has blacklisted its token, no refresh that begins
\* later with the same token gets past the check, until the token expires by itself,
\* unless Redis does not answer it (RefreshToken: the blacklist entry lives as long as
\* any token it may stand for).
RotatedStaysDead == \A c \in Browsers :
    rotation[c].at # "idle" /\ rotation[c].dead => rotation[c].blind

=============================================================================
