---------------------------- MODULE TokenService ----------------------------
(***************************************************************************)
(* The JWT token service, internal/application/services/token_service.go,  *)
(* with the token table of                                                 *)
(* internal/infrastructure/repositories/token_repository.go, the Redis     *)
(* blacklist, the cache of validated claims and the signing keys.          *)
(*                                                                         *)
(* Procs are the requests in flight.  A request runs GenerateTokenPair,    *)
(* ValidateToken, RefreshToken, RevokeToken or RevokeAllUserTokens; every  *)
(* access to the database, to Redis, to the cache or to the key lock is a  *)
(* step of its own, so requests interleave wherever the code lets them.  A *)
(* call begins with its first access and returns with its last one.        *)
(* Key rotation and the cleanup goroutines run beside them.                *)
(*                                                                         *)
(* A token is a number (its hash); Tok records what its signed claims say. *)
(* Time is a counter; an entry with a TTL carries the time at which it     *)
(* lapses.  Only tokens that a call has returned are known to clients.     *)
(***************************************************************************)
EXTENDS Integers, FiniteSets

CONSTANTS
    Procs,               \* the requests in flight
    Users,               \* the users
    NoUser,
    AccessExpiry,        \* config.JWT.AccessExpiry, in ticks
    RefreshExpiry,       \* config.JWT.RefreshExpiry
    RevokeRefreshOnUse,  \* config.JWT.RevokeRefreshOnUse
    Retention,           \* how long a revoked row is kept (30 days)
    Offered,             \* the calls the clients make
    SweptTypes,          \* the token types they call RevokeAllUserTokens for
    Failures,            \* which accesses may fail: "redis", "cache", "db"
    MaxToken,            \* bound on the tokens generated
    MaxTime,             \* bound on the clock
    MaxVersion           \* bound on the key versions

ASSUME ExpiryAssumption ==
    /\ AccessExpiry \in Nat \ {0}
    /\ RefreshExpiry \in Nat
    /\ AccessExpiry <= RefreshExpiry
    /\ Retention \in Nat
ASSUME ConfigAssumption ==
    /\ RevokeRefreshOnUse \in BOOLEAN
    /\ Offered \subseteq {"generate", "validate", "refresh", "revoke", "revokeAll"}
    /\ SweptTypes \subseteq {"access", "refresh"}
    /\ Failures \subseteq {"redis", "cache", "db"}
    /\ NoUser \notin Users
    /\ MaxToken \in Nat /\ MaxTime \in Nat /\ MaxVersion \in Nat

VARIABLES
    clock,       \* time.Now()
    keyVersion,  \* keyVersion; the keys are named after their versions
    nextToken,   \* the next unused token
    tok,         \* what the signed claims of each token say
    given,       \* the tokens clients hold
    row,         \* the row of each token in the tokens table
    revokedAt,   \* its revoked_at
    blacklist,   \* until when token:blacklist:<hash> is in Redis
    cacheUntil,  \* until when token:claims:<hash> is in the cache
    cacheOrg,    \* the OrganizationID of the cached claims
    req,         \* the requests
    revoked,     \* history: tokens a successful revocation has blacklisted
    swept        \* history: tokens whose rows a completed RevokeAll revoked

issue   == <<nextToken, tok, given>>
table   == <<row, revokedAt>>
cache   == <<cacheUntil, cacheOrg>>
history == <<revoked, swept>>
vars == <<clock, keyVersion, issue, table, blacklist, cache, req, history>>

-----------------------------------------------------------------------------
Tokens == 1 .. MaxToken
Types  == {"access", "refresh"}

\* The organization of claims: the user's, or, in the claims that cacheTokens
\* builds, the user's own id.
Orgs == {"org", "userID"}

\* What a token string says: its claims and the key that signed it.
Claims == [type : Types, user : Users \cup {NoUser}, org : Orgs,
           ver : Nat, key : Nat, iss : Nat, exp : Nat]

NoClaims == [type |-> "access", user |-> NoUser, org |-> "org",
             ver |-> 0, key |-> 0, iss |-> 0, exp |-> 0]

Expiry(type) == IF type = "access" THEN AccessExpiry ELSE RefreshExpiry

GeneratePCs == {"signA", "verR", "signR", "createA", "createR", "cacheA", "cacheR"}
ValidatePCs == {"cacheGet", "parse", "dbGet", "cacheSet", "accepted"}
RevokePCs   == {"blacklist", "dbRevoke", "cacheDel"}
SweepPCs    == {"sweep", "sweepDel"}
PCs == {"idle"} \cup GeneratePCs \cup ValidatePCs \cup RevokePCs \cup SweepPCs
Calls == {"none", "generate", "validate", "refresh", "revoke", "revokeAll"}

Requests ==
    [pc : PCs, call : Calls,
     arg : Tokens \cup {0},          \* the token the call is about
     user : Users \cup {NoUser},     \* the user it is about
     type : Types,                   \* RevokeAll's token type
     org : Orgs,                     \* the organization of the claims
     ver : Nat,                      \* the key version generateToken read
     pair : Nat,                     \* the new access token, refresh is pair + 1
     todo : SUBSET Tokens,           \* RevokeAll's tokens still to revoke
     done : SUBSET Tokens,           \* RevokeAll's tokens it has blacklisted
     failOpen : BOOLEAN,             \* the blacklist lookup failed
     via : {"none", "cache", "db"},  \* what accepted the token
     at : Nat,                       \* when it was found valid
     now : Nat,                      \* GenerateTokenPair's time.Now()
     wasRevoked : SUBSET Tokens,     \* history: revoked \cap {arg} at the start
     wasSwept : SUBSET Tokens]       \* history: swept \cap {arg} at the start

Idle == [pc |-> "idle", call |-> "none", arg |-> 0, user |-> NoUser, type |-> "access",
         org |-> "org", ver |-> 0, pair |-> 0, todo |-> {}, done |-> {},
         failOpen |-> FALSE, via |-> "none", at |-> 0, now |-> 0,
         wasRevoked |-> {}, wasSwept |-> {}]

Init ==
    /\ clock = 0
    /\ keyVersion = 1
    /\ nextToken = 1
    /\ tok = [t \in Tokens |-> NoClaims]
    /\ given = {}
    /\ row = [t \in Tokens |-> "none"]
    /\ revokedAt = [t \in Tokens |-> 0]
    /\ blacklist = [t \in Tokens |-> 0]
    /\ cacheUntil = [t \in Tokens |-> 0]
    /\ cacheOrg = [t \in Tokens |-> "org"]
    /\ req = [p \in Procs |-> Idle]
    /\ revoked = {}
    /\ swept = {}

-----------------------------------------------------------------------------
MayFail(what) == what \in Failures

At(p, l) == req[p].pc = l

\* Request p goes on at label l, with nothing else of it changed.
Goto(p, l) == req' = [req EXCEPT ![p].pc = l]

\* Request p returns: an error, a rejection, or a result already recorded.
Leave(p) == req' = [req EXCEPT ![p] = Idle]

\* How RevokeToken ends: RefreshToken only logs an error, and hands out its pair.
EndRevoke(p) ==
    /\ Leave(p)
    /\ given' = IF req[p].call = "refresh"
                THEN given \cup {req[p].pair, req[p].pair + 1} ELSE given

\* An entry whose TTL is not over; 0 is an entry that is not there.
Live(until) == clock < until

\* IsValid and the WHERE clause of GetByTokenHash.
RowValid(t) == row[t] = "active" /\ clock < tok[t].exp

\* Tokens are generated in pairs.
Room == nextToken < MaxToken

NewRefresh(p) == req[p].pair + 1

-----------------------------------------------------------------------------
(***************************************************************************)
(* Faulty variants: plausible slips in the operations below.               *)
(***************************************************************************)
\* A blacklist entry that lives as long as an access token.
ShortBlacklistTTL == AccessExpiry

\* A failed insert is logged and the pair returned.
CreateFailureIgnored(p, t, then) ==
    /\ \/ row' = [row EXCEPT ![t] = "active"]
       \/ MayFail("db") /\ UNCHANGED row
    /\ Goto(p, then)
    /\ UNCHANGED <<clock, keyVersion, issue, revokedAt, blacklist, cache, history>>

\* parseAndValidateJWT knows the current key only.
CurrentKeyOnly(c) == c.ver = keyVersion /\ c.key = c.ver

\* Only the rows of the tokens that could be blacklisted are revoked.
RevokeListedRows(p) ==
    LET hit == {t \in Tokens : row[t] = "active" /\ tok[t].user = req[p].user
                                                /\ tok[t].type = req[p].type}
    IN  /\ At(p, "sweep")
        /\ req[p].todo = {}
        /\ row' = [t \in Tokens |-> IF t \in hit \cap req[p].done THEN "revoked" ELSE row[t]]
        /\ revoked' = revoked \cup req[p].done
        /\ swept' = swept \cup hit
        /\ Leave(p)
        /\ UNCHANGED <<clock, keyVersion, issue, revokedAt, blacklist, cache>>

\* The cleanup reckons every token by the expiry of an access token.
CleanupByAccessExpiry ==
    /\ row' = [t \in Tokens |->
                  IF row[t] \in {"active", "revoked"} /\ tok[t].iss + AccessExpiry <= clock
                  THEN "gone" ELSE row[t]]
    /\ UNCHANGED <<clock, keyVersion, issue, revokedAt, blacklist, cache, req, history>>

-----------------------------------------------------------------------------
(***************************************************************************)
(* GenerateTokenPair.  Each token reads the key version under the key lock *)
(* and signs under the lock taken again: keys may rotate in between.       *)
(***************************************************************************)
BeginPair(p, r) ==
    /\ Room
    /\ req' = [req EXCEPT ![p] = [r EXCEPT !.pc = "signA", !.pair = nextToken,
                                           !.now = clock, !.ver = keyVersion]]
    /\ nextToken' = nextToken + 2
    /\ UNCHANGED <<clock, keyVersion, tok, given, table, blacklist, cache, history>>

GenerateTokenPair(p, u) ==
    /\ At(p, "idle")
    /\ BeginPair(p, [Idle EXCEPT !.call = "generate", !.user = u])

\* claims.KeyVersion = s.getKeyVersion(), for the refresh token
ReadKeyVersion(p) ==
    /\ At(p, "verR")
    /\ req' = [req EXCEPT ![p] = [@ EXCEPT !.pc = "signR", !.ver = keyVersion]]
    /\ UNCHANGED <<clock, keyVersion, issue, table, blacklist, cache, history>>

\* SignedString(s.currentKey)
Sign(p, t, type, then) ==
    /\ tok' = [tok EXCEPT ![t] =
          [type |-> type, user |-> req[p].user, org |-> req[p].org, ver |-> req[p].ver,
           key |-> keyVersion, iss |-> req[p].now, exp |-> req[p].now + Expiry(type)]]
    /\ Goto(p, then)
    /\ UNCHANGED <<clock, keyVersion, nextToken, given, table, blacklist, cache, history>>

SignAccess(p) == At(p, "signA") /\ Sign(p, req[p].pair, "access", "verR")

SignRefresh(p) == At(p, "signR") /\ Sign(p, NewRefresh(p), "refresh", "createA")

\* tokenRepo.Create; an error ends the call, with the access row left behind
\* if it was the refresh row that failed.
Create(p, t, then) ==
    /\ \/ /\ row' = [row EXCEPT ![t] = "active"]
          /\ Goto(p, then)
       \/ /\ MayFail("db")
          /\ Leave(p)
          /\ UNCHANGED row
    /\ UNCHANGED <<clock, keyVersion, issue, revokedAt, blacklist, cache, history>>

CreateAccess(p) == At(p, "createA") /\ Create(p, req[p].pair, "createR")

CreateRefresh(p) == At(p, "createR") /\ Create(p, NewRefresh(p), "cacheA")

\* RefreshToken goes on to revoke the old token; otherwise the pair is handed
\* to the client.
PairDone(p) ==
    IF req[p].call = "refresh" /\ RevokeRefreshOnUse
    THEN Goto(p, "blacklist") /\ UNCHANGED given
    ELSE Leave(p) /\ given' = given \cup {req[p].pair, NewRefresh(p)}

\* cacheTokens: claims rebuilt from the entity, with the user's id in the place
\* of the organization.  The refresh token is not cached if the access token
\* could not be; a failure is only logged.
CacheNewToken(t) ==
    /\ cacheUntil' = [cacheUntil EXCEPT ![t] = clock + Expiry(tok[t].type)]
    /\ cacheOrg' = [cacheOrg EXCEPT ![t] = "userID"]

CacheAccess(p) ==
    /\ At(p, "cacheA")
    /\ \/ CacheNewToken(req[p].pair) /\ Goto(p, "cacheR") /\ UNCHANGED given
       \/ MayFail("cache") /\ PairDone(p) /\ UNCHANGED cache
    /\ UNCHANGED <<clock, keyVersion, nextToken, tok, table, blacklist, history>>

CacheRefresh(p) ==
    /\ At(p, "cacheR")
    /\ \/ CacheNewToken(NewRefresh(p))
       \/ MayFail("cache") /\ UNCHANGED cache
    /\ PairDone(p)
    /\ UNCHANGED <<clock, keyVersion, nextToken, tok, table, blacklist, history>>

-----------------------------------------------------------------------------
(***************************************************************************)
(* ValidateToken, alone or as the first half of RefreshToken.              *)
(***************************************************************************)
\* isTokenBlacklisted: an error of Redis reads as "not blacklisted".
CheckBlacklist(p, t, what) ==
    LET r == [Idle EXCEPT !.pc = "cacheGet", !.call = what, !.arg = t,
                          !.wasRevoked = revoked \cap {t}, !.wasSwept = swept \cap {t}]
    IN  /\ At(p, "idle")
        /\ t \in given
        /\ \/ Live(blacklist[t]) /\ UNCHANGED req
           \/ ~Live(blacklist[t]) /\ req' = [req EXCEPT ![p] = r]
           \/ MayFail("redis") /\ req' = [req EXCEPT ![p] = [r EXCEPT !.failOpen = TRUE]]
        /\ UNCHANGED <<clock, keyVersion, issue, table, blacklist, cache, history>>

ValidateToken(p, t) == CheckBlacklist(p, t, "validate")

RefreshToken(p, t) == CheckBlacklist(p, t, "refresh")

\* getTokenFromCache: a hit is accepted as it is.
GetTokenFromCache(p) ==
    /\ At(p, "cacheGet")
    /\ \/ /\ Live(cacheUntil[req[p].arg])
          /\ req' = [req EXCEPT ![p] = [@ EXCEPT !.pc = "accepted", !.via = "cache", !.at = clock,
                                              !.org = cacheOrg[req[p].arg]]]
       \/ /\ ~Live(cacheUntil[req[p].arg]) \/ MayFail("cache")
          /\ Goto(p, "parse")
    /\ UNCHANGED <<clock, keyVersion, issue, table, blacklist, cache, history>>

\* parseAndValidateJWT: the key of the claimed version, current or previous,
\* must be the one that signed, and the claims must not have expired.
SignatureValid(c) ==
    /\ c.ver = keyVersion \/ (c.ver = keyVersion - 1 /\ keyVersion > 1)
    /\ c.key = c.ver

ParseAndValidateJWT(p) ==
    /\ At(p, "parse")
    /\ IF SignatureValid(tok[req[p].arg]) /\ clock < tok[req[p].arg].exp
       THEN Goto(p, "dbGet")
       ELSE Leave(p)
    /\ UNCHANGED <<clock, keyVersion, issue, table, blacklist, cache, history>>

\* tokenRepo.GetByTokenHash and IsValid
GetByTokenHash(p) ==
    /\ At(p, "dbGet")
    /\ \/ /\ RowValid(req[p].arg)
          /\ req' = [req EXCEPT ![p] = [@ EXCEPT !.pc = "cacheSet", !.via = "db", !.at = clock,
                                              !.org = tok[req[p].arg].org]]
       \/ /\ ~RowValid(req[p].arg) \/ MayFail("db")
          /\ Leave(p)
    /\ UNCHANGED <<clock, keyVersion, issue, table, blacklist, cache, history>>

\* cacheTokenClaims: the whole expiry of the type, not what is left of it.
CacheTokenClaims(p) ==
    /\ At(p, "cacheSet")
    /\ Goto(p, "accepted")
    /\ \/ /\ cacheUntil' = [cacheUntil EXCEPT ![req[p].arg] = clock + Expiry(tok[req[p].arg].type)]
          /\ cacheOrg' = [cacheOrg EXCEPT ![req[p].arg] = tok[req[p].arg].org]
       \/ MayFail("cache") /\ UNCHANGED cache
    /\ UNCHANGED <<clock, keyVersion, issue, table, blacklist, history>>

\* ValidateToken returns the claims.
ReturnClaims(p) ==
    /\ At(p, "accepted")
    /\ req[p].call = "validate"
    /\ Leave(p)
    /\ UNCHANGED <<clock, keyVersion, issue, table, blacklist, cache, history>>

\* RefreshToken: only a refresh token is exchanged for a new pair, which gets
\* the user and the organization of the validated claims.
ExchangeRefreshToken(p) ==
    /\ At(p, "accepted")
    /\ req[p].call = "refresh"
    /\ \/ /\ tok[req[p].arg].type = "refresh"
          /\ BeginPair(p, [req[p] EXCEPT !.user = tok[req[p].arg].user])
       \/ /\ tok[req[p].arg].type # "refresh"
          /\ Leave(p)
          /\ UNCHANGED <<clock, keyVersion, issue, table, blacklist, cache, history>>

-----------------------------------------------------------------------------
(***************************************************************************)
(* RevokeToken, alone or as the last third of RefreshToken.                *)
(***************************************************************************)
\* The TTL of every blacklist entry is the longest expiry.
BlacklistTTL == RefreshExpiry

BlacklistToken(p, r) ==
    /\ \/ /\ blacklist' = [blacklist EXCEPT ![r.arg] = clock + BlacklistTTL]
          /\ req' = [req EXCEPT ![p] = [r EXCEPT !.pc = "dbRevoke"]]
          /\ UNCHANGED given
       \/ /\ MayFail("redis")
          /\ EndRevoke(p)
          /\ UNCHANGED blacklist
    /\ UNCHANGED <<clock, keyVersion, nextToken, tok, table, cache, history>>

RevokeToken(p, t) ==
    /\ At(p, "idle")
    /\ t \in given
    /\ BlacklistToken(p, [Idle EXCEPT !.call = "revoke", !.arg = t])

RevokeOldToken(p) == At(p, "blacklist") /\ BlacklistToken(p, req[p])

\* tokenRepo.RevokeToken: WHERE revoked_at IS NULL
RevokeRow(p) ==
    /\ At(p, "dbRevoke")
    /\ \/ /\ row' = [row EXCEPT ![req[p].arg] = IF @ = "active" THEN "revoked" ELSE @]
          /\ revokedAt' = [revokedAt EXCEPT ![req[p].arg] =
                              IF row[req[p].arg] = "active" THEN clock ELSE @]
          /\ Goto(p, "cacheDel")
          /\ UNCHANGED given
       \/ /\ MayFail("db")
          /\ EndRevoke(p)
          /\ UNCHANGED table
    /\ UNCHANGED <<clock, keyVersion, nextToken, tok, blacklist, cache, history>>

\* removeTokenFromCache, whose failure is only logged; RevokeToken succeeds.
RemoveTokenFromCache(p) ==
    /\ At(p, "cacheDel")
    /\ \/ cacheUntil' = [cacheUntil EXCEPT ![req[p].arg] = 0]
       \/ MayFail("cache") /\ UNCHANGED cacheUntil
    /\ revoked' = revoked \cup {req[p].arg}
    /\ EndRevoke(p)
    /\ UNCHANGED <<clock, keyVersion, nextToken, tok, table, blacklist, cacheOrg, swept>>

-----------------------------------------------------------------------------
(***************************************************************************)
(* RevokeAllUserTokens: the active tokens are read once, blacklisted and   *)
(* dropped from the cache one by one, and then all rows are revoked.       *)
(***************************************************************************)
OfUser(t, u, type) == tok[t].user = u /\ tok[t].type = type

\* GetActiveTokensByUser; an error of it ends the call.
RevokeAllUserTokens(p, u, type) ==
    /\ At(p, "idle")
    /\ req' = [req EXCEPT ![p] =
          [Idle EXCEPT !.pc = "sweep", !.call = "revokeAll", !.user = u, !.type = type,
                       !.todo = {t \in Tokens : RowValid(t) /\ OfUser(t, u, type)}]]
    /\ UNCHANGED <<clock, keyVersion, issue, table, blacklist, cache, history>>

\* blacklistToken of the next token; a failure is only logged.
SweepBlacklist(p, t) ==
    /\ At(p, "sweep")
    /\ t \in req[p].todo
    /\ \/ /\ blacklist' = [blacklist EXCEPT ![t] = clock + BlacklistTTL]
          /\ req' = [req EXCEPT ![p] = [@ EXCEPT !.pc = "sweepDel", !.arg = t,
                                              !.done = req[p].done \cup {t}]]
       \/ /\ MayFail("redis")
          /\ req' = [req EXCEPT ![p] = [@ EXCEPT !.pc = "sweepDel", !.arg = t]]
          /\ UNCHANGED blacklist
    /\ UNCHANGED <<clock, keyVersion, issue, table, cache, history>>

\* removeTokenFromCache of the same token; a failure is only logged.
SweepCache(p) ==
    /\ At(p, "sweepDel")
    /\ \/ cacheUntil' = [cacheUntil EXCEPT ![req[p].arg] = 0]
       \/ MayFail("cache") /\ UNCHANGED cacheUntil
    /\ req' = [req EXCEPT ![p] = [@ EXCEPT !.pc = "sweep", !.todo = req[p].todo \ {req[p].arg}]]
    /\ UNCHANGED <<clock, keyVersion, issue, table, blacklist, cacheOrg, history>>

\* tokenRepo.RevokeAllUserTokens: the rows that are not revoked now, whether
\* they were in the list or not.
RevokeAllRows(p) ==
    LET hit == {t \in Tokens : row[t] = "active" /\ OfUser(t, req[p].user, req[p].type)}
    IN  /\ At(p, "sweep")
        /\ req[p].todo = {}
        /\ \/ /\ row' = [t \in Tokens |-> IF t \in hit THEN "revoked" ELSE row[t]]
              /\ revokedAt' = [t \in Tokens |-> IF t \in hit THEN clock ELSE revokedAt[t]]
              /\ revoked' = revoked \cup req[p].done
              /\ swept' = swept \cup hit
           \/ MayFail("db") /\ UNCHANGED <<table, history>>
        /\ Leave(p)
        /\ UNCHANGED <<clock, keyVersion, issue, blacklist, cache>>

-----------------------------------------------------------------------------
\* rotateKeys
RotateKeys ==
    /\ keyVersion < MaxVersion
    /\ keyVersion' = keyVersion + 1
    /\ UNCHANGED <<clock, issue, table, blacklist, cache, req, history>>

\* What both cleanup routines do to the table.
DeleteRows(S) ==
    /\ row' = [t \in Tokens |-> IF t \in S THEN "gone" ELSE row[t]]
    /\ revokedAt' = [t \in Tokens |-> IF t \in S THEN 0 ELSE revokedAt[t]]
    /\ UNCHANGED <<clock, keyVersion, issue, blacklist, cache, req, history>>

\* expires_at < now
CleanupExpiredTokens ==
    DeleteRows({t \in Tokens : row[t] \in {"active", "revoked"} /\ tok[t].exp < clock})

\* revoked_at IS NOT NULL AND revoked_at < now - 30 days
DeleteRevokedTokens ==
    DeleteRows({t \in Tokens : row[t] = "revoked" /\ revokedAt[t] < clock - Retention})

\* Time passes; Redis and the cache drop the entries whose TTL is over.
Lapse(until) == [t \in Tokens |-> IF until[t] > clock + 1 THEN until[t] ELSE 0]

Tick ==
    /\ clock < MaxTime
    /\ clock' = clock + 1
    /\ blacklist' = Lapse(blacklist)
    /\ cacheUntil' = Lapse(cacheUntil)
    /\ UNCHANGED <<keyVersion, issue, table, cacheOrg, req, history>>

-----------------------------------------------------------------------------
GenerateStep(p) ==
    \/ "generate" \in Offered /\ \E u \in Users : GenerateTokenPair(p, u)
    \/ ReadKeyVersion(p) \/ SignAccess(p) \/ SignRefresh(p)
    \/ CreateAccess(p) \/ CreateRefresh(p) \/ CacheAccess(p) \/ CacheRefresh(p)

ValidateStep(p) ==
    \/ "validate" \in Offered /\ \E t \in Tokens : ValidateToken(p, t)
    \/ "refresh" \in Offered /\ \E t \in Tokens : RefreshToken(p, t)
    \/ GetTokenFromCache(p) \/ ParseAndValidateJWT(p)
    \/ GetByTokenHash(p) \/ CacheTokenClaims(p) \/ ReturnClaims(p)
    \/ ExchangeRefreshToken(p)

RevokeStep(p) ==
    \/ "revoke" \in Offered /\ \E t \in Tokens : RevokeToken(p, t)
    \/ RevokeOldToken(p) \/ RevokeRow(p) \/ RemoveTokenFromCache(p)

SweepStep(p) ==
    \/ "revokeAll" \in Offered /\ \E u \in Users, type \in SweptTypes : RevokeAllUserTokens(p, u, type)
    \/ \E t \in Tokens : SweepBlacklist(p, t)
    \/ SweepCache(p) \/ RevokeAllRows(p)

Background == RotateKeys \/ CleanupExpiredTokens \/ DeleteRevokedTokens \/ Tick

Next ==
    \/ \E p \in Procs : GenerateStep(p) \/ ValidateStep(p) \/ RevokeStep(p) \/ SweepStep(p)
    \/ Background

Spec == Init /\ [][Next]_vars

-----------------------------------------------------------------------------
TypeOK ==
    /\ clock \in Nat /\ keyVersion \in Nat /\ nextToken \in Nat
    /\ tok \in [Tokens -> Claims]
    /\ given \subseteq Tokens
    /\ row \in [Tokens -> {"none", "active", "revoked", "gone"}]
    /\ revokedAt \in [Tokens -> Nat]
    /\ blacklist \in [Tokens -> Nat]
    /\ cacheUntil \in [Tokens -> Nat]
    /\ cacheOrg \in [Tokens -> Orgs]
    /\ req \in [Procs -> Requests]
    /\ revoked \subseteq Tokens /\ swept \subseteq Tokens

Accepted(p) == req[p].pc \in {"cacheSet", "accepted"}

(***************************************************************************)
(* Revocation works: a token that RevokeToken has revoked, or that a       *)
(* completed RevokeAllUserTokens has blacklisted, is not accepted within   *)
(* its lifetime by a validation that begins afterwards, however the        *)
(* requests interleave and whatever a slow validation puts into the cache, *)
(* unless the blacklist lookup itself fails.                               *)
(***************************************************************************)
RevokedRejected ==
    \A p \in Procs :
        Accepted(p) /\ req[p].arg \in req[p].wasRevoked =>
            req[p].failOpen \/ req[p].at >= tok[req[p].arg].exp

(***************************************************************************)
(* The blacklist entry of a revoked token outlives the token, whatever its *)
(* type and whenever it is revoked: there is no moment before its expiry   *)
(* at which only the database knows of the revocation.                     *)
(***************************************************************************)
BlacklistOutlivesToken ==
    \A t \in revoked : Live(blacklist[t]) \/ clock >= tok[t].exp

(***************************************************************************)
(* When Redis does not answer and the claims are not cached, validation    *)
(* falls back to the database, and the database alone rejects a token that *)
(* was revoked before: its row is revoked or deleted, never active again.  *)
(***************************************************************************)
FallbackRespectsRevocation ==
    \A p \in Procs :
        Accepted(p) /\ req[p].arg \in req[p].wasRevoked \cup req[p].wasSwept
            => req[p].via # "db"

(***************************************************************************)
(* Claims are in the cache, and a token is with a client, only if the row  *)
(* of the token was stored: a pair whose storage failed half-way is        *)
(* neither returned nor accepted from the cache.                           *)
(***************************************************************************)
CachedWasStored ==
    \A t \in Tokens : cacheUntil[t] > 0 \/ t \in given => row[t] # "none"

(***************************************************************************)
(* The cleanup routines never delete a row that a validation could still   *)
(* accept, and no step makes a revoked or deleted row valid again.         *)
(***************************************************************************)
CleanupKeepsValidRows ==
    [][\A t \in Tokens :
          /\ RowValid(t) /\ row'[t] = "gone" => FALSE
          /\ row[t] \in {"revoked", "gone"} => row'[t] # "active"]_vars

(***************************************************************************)
(* A rotation of the keys costs no client its token at once: an unexpired  *)
(* token is turned away for its signature only if the keys were rotated    *)
(* twice since its version was read, or in the middle of its signing.      *)
(***************************************************************************)
RotationSparesTokens ==
    [][\A p \in Procs :
          At(p, "parse") /\ req'[p].pc = "idle" =>
              LET c == tok[req[p].arg]
              IN  clock >= c.exp \/ c.ver + 2 <= keyVersion \/ c.key # c.ver]_vars

(***************************************************************************)
(* "Maintains security context across token refresh": a refreshed pair     *)
(* carries the organization of the user.  The code does not do this: the   *)
(* claims cached at generation carry the user's id instead.                *)
(***************************************************************************)
RefreshKeepsOrganization ==
    \A t \in given : tok[t].org = "org"

(***************************************************************************)
(* "Atomic token rotation, old token revocation": with RevokeRefreshOnUse  *)
(* a refresh token is exchanged for one pair.  The code does not do this:  *)
(* two requests may both validate the token before either revokes it.      *)
(***************************************************************************)
Exchanging(p) == req[p].call = "refresh" /\ req[p].pc \notin ValidatePCs

RefreshTokenUsedOnce ==
    \A p, q \in Procs : Exchanging(p) /\ Exchanging(q) /\ req[p].arg = req[q].arg => p = q

=============================================================================
