------------------------- MODULE TokenServiceProofs -------------------------
(***************************************************************************)
(* Proofs about TokenService, for every number of requests, users, tokens  *)
(* and key versions, and every expiry.                                     *)
(***************************************************************************)
EXTENDS TokenService, TLAPS

Ended == {"revoked", "gone"}

\* Token t is stored: its row was inserted, and may be revoked or deleted since.
Stored(t) == row[t] # "none"

\* Redis rejects t until it expires.
Covered(t) == clock < tok[t].exp => tok[t].exp <= blacklist[t]

(***************************************************************************)
(* What holds of every token t.                                            *)
(***************************************************************************)
TokenInv(t) ==
    /\ tok[t].exp <= clock + RefreshExpiry
    /\ tok[t].ver <= keyVersion
    /\ Stored(t) => 1 <= tok[t].ver /\ t < nextToken
    /\ t \in given => Stored(t)
    /\ cacheUntil[t] > 0 => Stored(t)
    /\ t \in revoked => row[t] \in Ended /\ Covered(t)
    /\ t \in swept => row[t] \in Ended

(***************************************************************************)
(* What holds of every request p: while it generates a pair, ...           *)
(***************************************************************************)
Signing == {"signA", "verR", "signR"}

GenerateInv(p) ==
    req[p].pc \in GeneratePCs =>
        /\ 1 <= req[p].pair /\ req[p].pair + 1 < nextToken
        /\ req[p].now <= clock
        /\ 1 <= req[p].ver /\ req[p].ver <= keyVersion
        /\ req[p].call = "refresh" => req[p].arg \in given
        /\ Stored(req[p].pair) <=> req[p].pc \in {"createR", "cacheA", "cacheR"}
        /\ Stored(NewRefresh(p)) <=> req[p].pc \in {"cacheA", "cacheR"}
        /\ req[p].pc # "signA" => 1 <= tok[req[p].pair].ver
        /\ req[p].pc \notin Signing => 1 <= tok[NewRefresh(p)].ver

\* ... while it validates a token, ...
ValidateInv(p) ==
    req[p].pc \in ValidatePCs =>
        /\ req[p].arg \in given
        /\ req[p].arg \in req[p].wasRevoked \cup req[p].wasSwept =>
              row[req[p].arg] \in Ended /\ req[p].via # "db"
        /\ req[p].arg \in req[p].wasRevoked =>
              \/ req[p].failOpen
              \/ IF Accepted(p) THEN req[p].at >= tok[req[p].arg].exp
                                ELSE clock >= tok[req[p].arg].exp

\* ... while it revokes a token, ...
RevokeInv(p) ==
    req[p].pc \in RevokePCs =>
        /\ req[p].arg \in given
        /\ req[p].call = "refresh" =>
              /\ 1 <= req[p].pair /\ req[p].pair + 1 < nextToken
              /\ Stored(req[p].pair) /\ Stored(NewRefresh(p))
        /\ req[p].pc # "blacklist" => Covered(req[p].arg)
        /\ req[p].pc = "cacheDel" => row[req[p].arg] \in Ended

\* ... and while it revokes all tokens of a user.
SweepInv(p) ==
    req[p].pc \in SweepPCs =>
        /\ \A t \in req[p].todo \cup req[p].done :
              Stored(t) /\ OfUser(t, req[p].user, req[p].type)
        /\ \A t \in req[p].done : Covered(t)
        /\ req[p].pc = "sweepDel" => req[p].arg \in req[p].todo

RequestInv(p) ==
    /\ req[p].pc = "idle" => req[p].call = "none"
    /\ GenerateInv(p) /\ ValidateInv(p) /\ RevokeInv(p) /\ SweepInv(p)

\* No two requests generate the same token.
PairsDisjoint ==
    \A p, q \in Procs :
        p # q /\ req[p].pc \in GeneratePCs /\ req[q].pc \in GeneratePCs =>
            req[p].pair + 1 < req[q].pair \/ req[q].pair + 1 < req[p].pair

Counters == 1 <= nextToken /\ nextToken <= MaxToken + 1 /\ 1 <= keyVersion

IInv ==
    /\ TypeOK
    /\ Counters
    /\ PairsDisjoint
    /\ \A t \in Tokens : TokenInv(t)
    /\ \A p \in Procs : RequestInv(p)

-----------------------------------------------------------------------------
(***************************************************************************)
(* Types of the requests.                                                  *)
(***************************************************************************)
\* The bounds are numbers.
LEMMA Numbers == /\ MaxToken \in Nat /\ AccessExpiry \in Nat /\ RefreshExpiry \in Nat
                 /\ AccessExpiry <= RefreshExpiry
BY ExpiryAssumption, ConfigAssumption

\* A request that has not begun, or has returned.
LEMMA IdleType == Idle \in Requests
BY DEF Requests, Idle, PCs, Calls, Types, Orgs

\* A step of p keeps what p has recorded.
Keeps(p) ==
    /\ req'[p].call = req[p].call /\ req'[p].arg = req[p].arg
    /\ req'[p].user = req[p].user /\ req'[p].type = req[p].type
    /\ req'[p].ver = req[p].ver /\ req'[p].pair = req[p].pair /\ req'[p].now = req[p].now
    /\ req'[p].todo = req[p].todo /\ req'[p].done = req[p].done
    /\ req'[p].failOpen = req[p].failOpen /\ req'[p].via = req[p].via
    /\ req'[p].at = req[p].at /\ req'[p].wasRevoked = req[p].wasRevoked
    /\ req'[p].wasSwept = req[p].wasSwept

\* Storing a request record keeps the type of the requests.
LEMMA StoreType ==
    ASSUME TypeOK, NEW p \in Procs, NEW r \in Requests, req' = [req EXCEPT ![p] = r]
    PROVE  /\ req' \in [Procs -> Requests]
           /\ req'[p] = r
           /\ \A q \in Procs : q # p => req'[q] = req[q]
BY DEF TypeOK

\* So does a jump, ...
LEMMA GotoType ==
    ASSUME TypeOK, NEW p \in Procs, NEW l \in PCs, Goto(p, l)
    PROVE  /\ req' \in [Procs -> Requests]
           /\ req'[p].pc = l /\ Keeps(p)
           /\ \A q \in Procs : q # p => req'[q] = req[q]
BY DEF TypeOK, Goto, Requests, Keeps

\* ... and a return.
LEMMA LeaveType ==
    ASSUME TypeOK, NEW p \in Procs, Leave(p)
    PROVE  /\ req' \in [Procs -> Requests]
           /\ req'[p].pc = "idle" /\ req'[p].call = "none"
           /\ \A q \in Procs : q # p => req'[q] = req[q]
<1>1. req' \in [Procs -> Requests] /\ req'[p] = Idle /\ \A q \in Procs : q # p => req'[q] = req[q]
  BY StoreType, IdleType DEF Leave
<1> QED BY <1>1 DEF Idle

-----------------------------------------------------------------------------
(***************************************************************************)
(* How a step may change what other requests rely on.                      *)
(***************************************************************************)
Evolves ==
    /\ clock <= clock' /\ keyVersion <= keyVersion' /\ nextToken <= nextToken'
    /\ given \subseteq given'
    /\ \A t \in Tokens :
          /\ Stored(t) => row'[t] # "none" /\ tok'[t] = tok[t]
          /\ row[t] \in Ended => row'[t] \in Ended
          /\ Stored(t) /\ Covered(t) => Covered(t)'

\* The step leaves the tokens that q is still to sign or to store alone.
Untouched(q) ==
    req[q].pc \in GeneratePCs =>
        \A t \in {req[q].pair, req[q].pair + 1} :
            row[t] = "none" => row'[t] = "none" /\ tok'[t] = tok[t]

\* A request that does not move keeps its invariant.
LEMMA Frame ==
    ASSUME IInv, TypeOK', Evolves, NEW q \in Procs, req'[q] = req[q], Untouched(q)
    PROVE  RequestInv(q)'
<1> USE DEF RequestInv, IInv
<1>0. req[q] \in Requests /\ given \subseteq Tokens /\ clock \in Nat /\ clock' \in Nat /\ nextToken \in Nat
      /\ nextToken' \in Nat /\ keyVersion \in Nat /\ keyVersion' \in Nat
  BY DEF TypeOK
<1>1. GenerateInv(q)'
  <2> SUFFICES ASSUME req[q].pc \in GeneratePCs
               PROVE  GenerateInv(q)'
    BY DEF GenerateInv
  <2>1. req[q].pair \in Tokens /\ req[q].pair + 1 \in Tokens
    BY <1>0, Numbers DEF GenerateInv, Counters, Tokens, Requests
  <2>2. req[q].ver \in Nat /\ req[q].now \in Nat /\ req[q].pair \in Nat
    BY <1>0 DEF Requests
  <2>3. /\ tok'[req[q].pair] = tok[req[q].pair]
        /\ tok'[req[q].pair + 1] = tok[req[q].pair + 1]
        /\ row[req[q].pair] = "none" <=> row'[req[q].pair] = "none"
        /\ row[req[q].pair + 1] = "none" <=> row'[req[q].pair + 1] = "none"
    BY <2>1 DEF Evolves, Untouched, Stored
  <2> QED BY <1>0, <2>1, <2>2, <2>3 DEF GenerateInv, Evolves, Stored, NewRefresh
<1>2. ValidateInv(q)'
  <2> SUFFICES ASSUME req[q].pc \in ValidatePCs
               PROVE  ValidateInv(q)'
    BY DEF ValidateInv
  <2>1. req[q].arg \in Tokens /\ req[q].arg \in given /\ Stored(req[q].arg)
    BY <1>0 DEF ValidateInv, TokenInv
  <2>2. tok[req[q].arg].exp \in Nat
    BY <2>1 DEF TypeOK, Claims
  <2> QED BY <1>0, <2>1, <2>2 DEF ValidateInv, Evolves, Accepted
<1>3. RevokeInv(q)'
  <2> SUFFICES ASSUME req[q].pc \in RevokePCs
               PROVE  RevokeInv(q)'
    BY DEF RevokeInv
  <2>1. req[q].arg \in Tokens /\ req[q].arg \in given /\ Stored(req[q].arg)
    BY <1>0 DEF RevokeInv, TokenInv
  <2>2. req[q].call = "refresh" => req[q].pair \in Tokens /\ req[q].pair + 1 \in Tokens
    BY <1>0, Numbers DEF RevokeInv, Counters, Tokens, Requests
  <2>3. Covered(req[q].arg) => Covered(req[q].arg)'
    BY <2>1 DEF Evolves, Covered
  <2> QED BY <1>0, <2>1, <2>2, <2>3 DEF RevokeInv, Evolves, Stored, NewRefresh, Requests
<1>4. SweepInv(q)'
  <2> SUFFICES ASSUME req[q].pc \in SweepPCs
               PROVE  SweepInv(q)'
    BY DEF SweepInv
  <2>1. req[q].todo \subseteq Tokens /\ req[q].done \subseteq Tokens
    BY <1>0 DEF Requests
  <2>2. ASSUME NEW t \in req[q].todo \cup req[q].done
        PROVE  Stored(t)' /\ OfUser(t, req[q].user, req[q].type)'
    BY <2>1, <2>2 DEF SweepInv, Evolves, Stored, OfUser
  <2>3. ASSUME NEW t \in req[q].done
        PROVE  Covered(t)'
    BY <2>1, <2>3 DEF SweepInv, Evolves, Covered
  <2> QED BY <2>2, <2>3 DEF SweepInv, OfUser, Stored, Covered
<1> QED BY <1>1, <1>2, <1>3, <1>4

\* What a step by p has to be shown to do.
LEMMA Assemble ==
    ASSUME IInv, TypeOK', Counters', Evolves, NEW p \in Procs,
           \A q \in Procs : q # p => req'[q] = req[q] /\ Untouched(q),
           req'[p].pc \in GeneratePCs =>
              \/ req[p].pc \in GeneratePCs /\ req'[p].pair = req[p].pair
              \/ req'[p].pair = nextToken,
           RequestInv(p)',
           \A t \in Tokens : TokenInv(t)'
    PROVE  IInv'
<1>1. \A q \in Procs : RequestInv(q)'
  BY Frame
<1>2. PairsDisjoint'
  <2> SUFFICES ASSUME NEW a \in Procs, NEW b \in Procs, a # b,
                      req'[a].pc \in GeneratePCs, req'[b].pc \in GeneratePCs
               PROVE  req'[a].pair + 1 < req'[b].pair \/ req'[b].pair + 1 < req'[a].pair
    BY DEF PairsDisjoint
  <2>1. \A q \in Procs : req[q].pair \in Nat /\ req'[q].pair \in Nat
    BY DEF IInv, TypeOK, Requests
  <2>2. \A q \in Procs : req[q].pc \in GeneratePCs => req[q].pair + 1 < nextToken
    BY DEF IInv, RequestInv, GenerateInv
  <2>3. nextToken \in Nat
    BY DEF IInv, TypeOK
  <2> QED BY <2>1, <2>2, <2>3 DEF IInv, PairsDisjoint
<1> QED BY <1>1, <1>2 DEF IInv

\* A step of p that leaves clock, keys and rows alone.
LEMMA SameRows ==
    ASSUME IInv, TypeOK', NEW p \in Procs,
           \A q \in Procs : q # p => req'[q] = req[q],
           UNCHANGED <<clock, keyVersion, nextToken, tok, row>>,
           given \subseteq given',
           \A t \in Tokens : Covered(t) => Covered(t)',
           req'[p].pc \in GeneratePCs => req[p].pc \in GeneratePCs /\ req'[p].pair = req[p].pair,
           RequestInv(p)',
           \A t \in Tokens : TokenInv(t)'
    PROVE  IInv'
<1>1. Counters'
  BY DEF IInv, Counters
<1>2. Evolves
  BY DEF IInv, TypeOK, Evolves, Stored
<1>3. \A q \in Procs : Untouched(q)
  BY DEF Untouched
<1> QED BY <1>1, <1>2, <1>3, Assemble

\* A step that changes nothing but the request p.
LEMMA OnlyRequest ==
    ASSUME IInv, NEW p \in Procs,
           req' \in [Procs -> Requests],
           \A q \in Procs : q # p => req'[q] = req[q],
           UNCHANGED <<clock, keyVersion, issue, table, blacklist, cache, history>>,
           req'[p].pc \in GeneratePCs => req[p].pc \in GeneratePCs /\ req'[p].pair = req[p].pair,
           RequestInv(p)'
    PROVE  IInv'
<1>1. TypeOK'
  BY DEF IInv, TypeOK, issue, table, cache, history
<1>2. \A t \in Tokens : TokenInv(t)'
  BY DEF IInv, TokenInv, Stored, Covered, issue, table, cache, history
<1>3. \A t \in Tokens : Covered(t) => Covered(t)'
  BY DEF Covered, issue, table, cache, history
<1> QED BY <1>1, <1>2, <1>3, SameRows DEF issue, table, cache, history

\* An idle request has nothing to keep.
LEMMA IdleInv ==
    ASSUME NEW p \in Procs, req'[p].pc = "idle", req'[p].call = "none"
    PROVE  RequestInv(p)' /\ req'[p].pc \notin GeneratePCs
BY DEF RequestInv, GenerateInv, ValidateInv, RevokeInv, SweepInv,
       GeneratePCs, ValidatePCs, RevokePCs, SweepPCs

\* Returning, with no other effect.
LEMMA JustLeave ==
    ASSUME IInv, NEW p \in Procs, Leave(p),
           UNCHANGED <<clock, keyVersion, issue, table, blacklist, cache, history>>
    PROVE  IInv'
<1>1. TypeOK
  BY DEF IInv
<1> QED BY <1>1, LeaveType, IdleInv, OnlyRequest

-----------------------------------------------------------------------------
(***************************************************************************)
(* ValidateToken.                                                          *)
(***************************************************************************)
\* The token of a validation is stored.
LEMMA ValidateArg ==
    ASSUME IInv, NEW p \in Procs, req[p].pc \in ValidatePCs
    PROVE  req[p].arg \in Tokens /\ req[p].arg \in given /\ Stored(req[p].arg)
BY DEF IInv, RequestInv, ValidateInv, TypeOK, TokenInv

\* A step that changes nothing.
LEMMA Stutter == IInv /\ UNCHANGED vars => IInv'
<1> SUFFICES ASSUME IInv, UNCHANGED vars
             PROVE  IInv'
  OBVIOUS
<1> USE DEF vars, issue, table, cache, history
<1>1. TypeOK'
  BY DEF IInv, TypeOK
<1>2. Counters' /\ PairsDisjoint'
  BY DEF IInv, Counters, PairsDisjoint
<1>3. \A t \in Tokens : TokenInv(t)'
  BY DEF IInv, TokenInv, Stored, Covered
<1>4. \A q \in Procs : RequestInv(q)'
  <2>1. Evolves
    BY DEF IInv, TypeOK, Evolves, Stored, Covered
  <2> QED BY <1>1, <2>1, Frame DEF Untouched
<1> QED BY <1>1, <1>2, <1>3, <1>4 DEF IInv

\* A validation goes on, with no other effect.
LEMMA GotoValidate ==
    ASSUME IInv, NEW p \in Procs, req[p].pc \in {"cacheGet", "parse"},
           NEW l \in {"parse", "dbGet"}, Goto(p, l),
           UNCHANGED <<clock, keyVersion, issue, table, blacklist, cache, history>>
    PROVE  IInv'
<1>1. l \in PCs /\ TypeOK /\ ValidateInv(p)
  BY DEF PCs, ValidatePCs, IInv, RequestInv
<1>2. /\ req' \in [Procs -> Requests]
      /\ req'[p].pc = l /\ Keeps(p)
      /\ \A q \in Procs : q # p => req'[q] = req[q]
  BY <1>1, GotoType
<1>3. RequestInv(p)'
  BY <1>1, <1>2
     DEF RequestInv, GenerateInv, ValidateInv, RevokeInv, SweepInv, issue, table, Keeps,
         GeneratePCs, ValidatePCs, RevokePCs, SweepPCs, Accepted
<1> QED BY <1>2, <1>3, OnlyRequest DEF GeneratePCs

\* isTokenBlacklisted
LEMMA CheckBlacklistInv ==
    ASSUME IInv, NEW p \in Procs, NEW t \in Tokens, NEW what \in Calls, CheckBlacklist(p, t, what)
    PROVE  IInv'
<1> DEFINE r == [Idle EXCEPT !.pc = "cacheGet", !.call = what, !.arg = t,
                             !.wasRevoked = revoked \cap {t}, !.wasSwept = swept \cap {t}]
           o == [r EXCEPT !.failOpen = TRUE]
<1>0. TypeOK /\ t \in given
  BY DEF IInv, CheckBlacklist
<1>1. /\ r \in Requests /\ r.pc = "cacheGet" /\ r.arg = t /\ r.wasRevoked = revoked \cap {t}
      /\ r.wasSwept = swept \cap {t} /\ r.via = "none"
  BY <1>0, IdleType DEF TypeOK, Requests, PCs, ValidatePCs, Idle
<1>2. /\ o \in Requests /\ o.pc = "cacheGet" /\ o.arg = t /\ o.wasRevoked = revoked \cap {t}
      /\ o.wasSwept = swept \cap {t} /\ o.via = "none" /\ o.failOpen
  BY <1>0, IdleType DEF TypeOK, Requests, PCs, ValidatePCs, Idle
<1>3. UNCHANGED <<clock, keyVersion, issue, table, blacklist, cache, history>>
  BY DEF CheckBlacklist
<1>4. CASE UNCHANGED req
  BY <1>3, <1>4, Stutter DEF vars
<1>5. CASE ~Live(blacklist[t]) /\ req' = [req EXCEPT ![p] = r]
  <2>1. /\ req' \in [Procs -> Requests] /\ req'[p] = r
        /\ \A q \in Procs : q # p => req'[q] = req[q]
    BY <1>0, <1>1, <1>5, StoreType
  <2>2. t \in revoked => clock >= tok[t].exp
    BY <1>0, <1>5 DEF IInv, TokenInv, Covered, Live, TypeOK, Claims
  <2>3. t \in revoked \cup swept => row[t] \in Ended
    BY DEF IInv, TokenInv
  <2> HIDE DEF r
  <2>4. RequestInv(p)'
    BY <1>0, <1>1, <1>3, <2>1, <2>2, <2>3
       DEF RequestInv, GenerateInv, ValidateInv, RevokeInv, SweepInv, issue, table,
           GeneratePCs, ValidatePCs, RevokePCs, SweepPCs, Accepted
  <2> QED BY <1>1, <1>3, <2>1, <2>4, OnlyRequest DEF GeneratePCs
<1>6. CASE req' = [req EXCEPT ![p] = o]
  <2>1. /\ req' \in [Procs -> Requests] /\ req'[p] = o
        /\ \A q \in Procs : q # p => req'[q] = req[q]
    BY <1>0, <1>2, <1>6, StoreType
  <2>3. t \in revoked \cup swept => row[t] \in Ended
    BY DEF IInv, TokenInv
  <2> HIDE DEF o
  <2>4. RequestInv(p)'
    BY <1>0, <1>2, <1>3, <2>1, <2>3
       DEF RequestInv, GenerateInv, ValidateInv, RevokeInv, SweepInv, issue, table,
           GeneratePCs, ValidatePCs, RevokePCs, SweepPCs
  <2> QED BY <1>2, <1>3, <2>1, <2>4, OnlyRequest DEF GeneratePCs
<1> QED BY <1>4, <1>5, <1>6 DEF CheckBlacklist

\* getTokenFromCache
LEMMA GetTokenFromCacheInv ==
    ASSUME IInv, NEW p \in Procs, GetTokenFromCache(p)
    PROVE  IInv'
<1>0. /\ TypeOK /\ req[p].pc = "cacheGet" /\ ValidateInv(p)
      /\ req[p].arg \in Tokens /\ req[p].arg \in given
  BY ValidateArg DEF IInv, GetTokenFromCache, At, ValidatePCs, RequestInv
<1>3. UNCHANGED <<clock, keyVersion, issue, table, blacklist, cache, history>>
  BY DEF GetTokenFromCache
<1> DEFINE r == [req[p] EXCEPT !.pc = "accepted", !.via = "cache", !.at = clock,
                               !.org = cacheOrg[req[p].arg]]
<1>1. CASE req' = [req EXCEPT ![p] = r]
  <2>0. cacheOrg[req[p].arg] \in Orgs /\ clock \in Nat /\ req[p] \in Requests
    BY <1>0 DEF TypeOK
  <2>1. /\ r \in Requests /\ r.pc = "accepted" /\ r.via = "cache" /\ r.at = clock
        /\ r.arg = req[p].arg /\ r.failOpen = req[p].failOpen
        /\ r.wasRevoked = req[p].wasRevoked /\ r.wasSwept = req[p].wasSwept
    BY <2>0 DEF Requests, PCs, ValidatePCs
  <2>2. /\ req' \in [Procs -> Requests] /\ req'[p] = r
        /\ \A q \in Procs : q # p => req'[q] = req[q]
    BY <1>0, <1>1, <2>1, StoreType
  <2> HIDE DEF r
  <2>3. RequestInv(p)'
    BY <1>0, <1>3, <2>1, <2>2
       DEF RequestInv, GenerateInv, ValidateInv, RevokeInv, SweepInv, issue, table,
           GeneratePCs, ValidatePCs, RevokePCs, SweepPCs, Accepted
  <2> QED BY <1>3, <2>1, <2>2, <2>3, OnlyRequest DEF GeneratePCs
<1>2. CASE Goto(p, "parse")
  BY <1>0, <1>2, <1>3, GotoValidate DEF ValidatePCs
<1> QED BY <1>1, <1>2 DEF GetTokenFromCache

\* parseAndValidateJWT
LEMMA ParseAndValidateJWTInv ==
    ASSUME IInv, NEW p \in Procs, ParseAndValidateJWT(p)
    PROVE  IInv'
<1>1. UNCHANGED <<clock, keyVersion, issue, table, blacklist, cache, history>>
  BY DEF ParseAndValidateJWT
<1>2. CASE Goto(p, "dbGet")
  BY <1>1, <1>2, GotoValidate DEF ParseAndValidateJWT, At
<1>3. CASE Leave(p)
  BY <1>1, <1>3, JustLeave
<1> QED BY <1>2, <1>3 DEF ParseAndValidateJWT

\* tokenRepo.GetByTokenHash: only an active row is accepted.
LEMMA GetByTokenHashInv ==
    ASSUME IInv, NEW p \in Procs, GetByTokenHash(p)
    PROVE  IInv'
<1>0. /\ TypeOK /\ req[p].pc = "dbGet" /\ ValidateInv(p)
      /\ req[p].arg \in Tokens /\ req[p].arg \in given
  BY ValidateArg DEF IInv, GetByTokenHash, At, ValidatePCs, RequestInv
<1>3. UNCHANGED <<clock, keyVersion, issue, table, blacklist, cache, history>>
  BY DEF GetByTokenHash
<1> DEFINE r == [req[p] EXCEPT !.pc = "cacheSet", !.via = "db", !.at = clock,
                               !.org = tok[req[p].arg].org]
<1>1. CASE RowValid(req[p].arg) /\ req' = [req EXCEPT ![p] = r]
  <2>0. tok[req[p].arg].org \in Orgs /\ clock \in Nat /\ req[p] \in Requests
    BY <1>0 DEF TypeOK, Claims
  <2>1. /\ r \in Requests /\ r.pc = "cacheSet" /\ r.via = "db" /\ r.at = clock
        /\ r.arg = req[p].arg /\ r.failOpen = req[p].failOpen
        /\ r.wasRevoked = req[p].wasRevoked /\ r.wasSwept = req[p].wasSwept
    BY <2>0 DEF Requests, PCs, ValidatePCs
  <2>2. /\ req' \in [Procs -> Requests] /\ req'[p] = r
        /\ \A q \in Procs : q # p => req'[q] = req[q]
    BY <1>0, <1>1, <2>1, StoreType
  <2> HIDE DEF r
  <2>3. req[p].arg \notin req[p].wasRevoked \cup req[p].wasSwept
    BY <1>0, <1>1 DEF ValidateInv, ValidatePCs, RowValid, Ended
  <2>4. RequestInv(p)'
    BY <1>0, <1>3, <2>1, <2>2, <2>3
       DEF RequestInv, GenerateInv, ValidateInv, RevokeInv, SweepInv, issue, table,
           GeneratePCs, ValidatePCs, RevokePCs, SweepPCs, Accepted
  <2> QED BY <1>3, <2>1, <2>2, <2>4, OnlyRequest DEF GeneratePCs
<1>2. CASE Leave(p)
  BY <1>2, <1>3, JustLeave
<1> QED BY <1>1, <1>2 DEF GetByTokenHash

\* cacheTokenClaims: claims are cached of a stored token.
LEMMA CacheTokenClaimsInv ==
    ASSUME IInv, NEW p \in Procs, CacheTokenClaims(p)
    PROVE  IInv'
<1>0. /\ TypeOK /\ req[p].pc = "cacheSet" /\ ValidateInv(p) /\ "accepted" \in PCs
      /\ req[p].arg \in Tokens /\ req[p].arg \in given /\ Stored(req[p].arg)
  BY ValidateArg DEF IInv, CacheTokenClaims, At, PCs, ValidatePCs, RequestInv
<1>1. UNCHANGED <<clock, keyVersion, issue, table, blacklist, history>>
  BY DEF CacheTokenClaims
<1>2. /\ req' \in [Procs -> Requests]
      /\ req'[p].pc = "accepted" /\ Keeps(p)
      /\ \A q \in Procs : q # p => req'[q] = req[q]
  BY <1>0, GotoType DEF CacheTokenClaims
<1>3. RequestInv(p)' /\ req'[p].pc \notin GeneratePCs
  BY <1>0, <1>1, <1>2
     DEF RequestInv, GenerateInv, ValidateInv, RevokeInv, SweepInv, issue, table, Keeps,
         GeneratePCs, ValidatePCs, RevokePCs, SweepPCs, Accepted
<1>4. /\ cacheUntil' \in [Tokens -> Nat] /\ cacheOrg' \in [Tokens -> Orgs]
      /\ \A t \in Tokens : t # req[p].arg => cacheUntil'[t] = cacheUntil[t]
  <2>1. /\ clock + Expiry(tok[req[p].arg].type) \in Nat
        /\ tok[req[p].arg].org \in Orgs
    BY <1>0, Numbers DEF TypeOK, Claims, Expiry
  <2> QED BY <1>0, <2>1 DEF CacheTokenClaims, TypeOK, cache
<1>5. TypeOK'
  BY <1>0, <1>1, <1>2, <1>4 DEF TypeOK, issue, table, history
<1>6. \A t \in Tokens : TokenInv(t)'
  BY <1>0, <1>1, <1>4 DEF IInv, TokenInv, Stored, Covered, issue, table, history
<1>7. \A t \in Tokens : Covered(t) => Covered(t)'
  BY <1>1 DEF Covered, issue
<1> QED BY <1>1, <1>2, <1>3, <1>5, <1>6, <1>7, SameRows DEF issue, table, history

\* BeginPair takes the next two tokens, which nobody has used.
LEMMA BeginPairInv ==
    ASSUME IInv, NEW p \in Procs, NEW r \in Requests, BeginPair(p, r),
           r.call = "refresh" => r.arg \in given
    PROVE  IInv'
<1> DEFINE s == [r EXCEPT !.pc = "signA", !.pair = nextToken, !.now = clock, !.ver = keyVersion]
<1>0. /\ TypeOK /\ Counters /\ nextToken \in Nat /\ clock \in Nat /\ keyVersion \in Nat
      /\ nextToken < MaxToken /\ MaxToken \in Nat
      /\ nextToken' = nextToken + 2 /\ req' = [req EXCEPT ![p] = s]
  BY Numbers DEF IInv, TypeOK, BeginPair, Room
<1>1. UNCHANGED <<clock, keyVersion, tok, given, table, blacklist, cache, history>>
  BY DEF BeginPair
<1>2. /\ s \in Requests /\ s.pc = "signA" /\ s.pair = nextToken /\ s.now = clock
      /\ s.ver = keyVersion /\ s.call = r.call /\ s.arg = r.arg
  BY <1>0 DEF Requests, PCs, GeneratePCs
<1>3. /\ req' \in [Procs -> Requests] /\ req'[p] = s
      /\ \A q \in Procs : q # p => req'[q] = req[q]
  BY <1>0, <1>2, StoreType
<1> HIDE DEF s
<1>4. nextToken \in Tokens /\ nextToken + 1 \in Tokens
  BY <1>0 DEF Counters, Tokens
<1>5. ~Stored(nextToken) /\ ~Stored(nextToken + 1)
  BY <1>0, <1>4 DEF IInv, TokenInv
<1>6. TypeOK'
  BY <1>0, <1>1, <1>3 DEF TypeOK, table, cache, history
<1>7. Counters'
  BY <1>0, <1>1 DEF Counters
<1>8. Evolves
  BY <1>0, <1>1 DEF Evolves, Stored, Covered, table
<1>9. \A q \in Procs : Untouched(q)
  BY <1>1 DEF Untouched, table
<1>10. RequestInv(p)'
  BY <1>0, <1>1, <1>2, <1>3, <1>5
     DEF RequestInv, GenerateInv, ValidateInv, RevokeInv, SweepInv, table, Stored, NewRefresh,
         GeneratePCs, ValidatePCs, RevokePCs, SweepPCs, Signing, Counters
<1>11. \A t \in Tokens : TokenInv(t)'
  BY <1>0, <1>1 DEF IInv, TokenInv, Stored, Covered, table, cache, history, Tokens
<1> QED BY <1>2, <1>3, <1>6, <1>7, <1>8, <1>9, <1>10, <1>11, Assemble

\* GenerateTokenPair
LEMMA GenerateTokenPairInv ==
    ASSUME IInv, NEW p \in Procs, NEW u \in Users, GenerateTokenPair(p, u)
    PROVE  IInv'
<1> DEFINE r == [Idle EXCEPT !.call = "generate", !.user = u]
<1>1. r \in Requests /\ r.call = "generate"
  BY IdleType DEF Requests, Calls
<1>2. BeginPair(p, r)
  BY DEF GenerateTokenPair
<1> HIDE DEF r
<1> QED BY <1>1, <1>2, BeginPairInv

\* RefreshToken, once the token is validated
LEMMA ExchangeRefreshTokenInv ==
    ASSUME IInv, NEW p \in Procs, ExchangeRefreshToken(p)
    PROVE  IInv'
<1> DEFINE r == [req[p] EXCEPT !.user = tok[req[p].arg].user]
<1>1. CASE BeginPair(p, r)
  <2>1. req[p] \in Requests /\ req[p].arg \in Tokens /\ req[p].arg \in given
    BY ValidateArg DEF IInv, TypeOK, ExchangeRefreshToken, At, ValidatePCs
  <2>2. tok[req[p].arg].user \in Users \cup {NoUser}
    BY <2>1 DEF IInv, TypeOK, Claims
  <2>3. r \in Requests /\ r.arg = req[p].arg
    BY <2>1, <2>2 DEF Requests
  <2> HIDE DEF r
  <2> QED BY <1>1, <2>1, <2>3, BeginPairInv
<1>2. CASE Leave(p) /\ UNCHANGED <<clock, keyVersion, issue, table, blacklist, cache, history>>
  BY <1>2, JustLeave
<1> QED BY <1>1, <1>2 DEF ExchangeRefreshToken

-----------------------------------------------------------------------------
(***************************************************************************)
(* GenerateTokenPair, after the pair is chosen.                            *)
(***************************************************************************)
\* The pair of a request that generates.
LEMMA PairFacts ==
    ASSUME IInv, NEW p \in Procs, req[p].pc \in GeneratePCs
    PROVE  /\ req[p].pair \in Tokens /\ NewRefresh(p) \in Tokens /\ req[p].pair \in Nat
           /\ req[p].pair < nextToken /\ NewRefresh(p) < nextToken
           /\ \A q \in Procs : q # p /\ req[q].pc \in GeneratePCs =>
                 \A t \in {req[q].pair, req[q].pair + 1} : t # req[p].pair /\ t # NewRefresh(p)
<1>1. nextToken \in Nat /\ \A q \in Procs : req[q].pair \in Nat
  BY DEF IInv, TypeOK, Requests
<1>2. 1 <= req[p].pair /\ req[p].pair + 1 < nextToken /\ nextToken <= MaxToken + 1
  BY DEF IInv, RequestInv, GenerateInv, Counters
<1> QED BY <1>1, <1>2, Numbers DEF IInv, PairsDisjoint, NewRefresh, Tokens

\* getKeyVersion
LEMMA ReadKeyVersionInv ==
    ASSUME IInv, NEW p \in Procs, ReadKeyVersion(p)
    PROVE  IInv'
<1> DEFINE r == [req[p] EXCEPT !.pc = "signR", !.ver = keyVersion]
<1>0. /\ TypeOK /\ Counters /\ GenerateInv(p) /\ req[p].pc = "verR" /\ keyVersion \in Nat
      /\ req[p] \in Requests /\ req' = [req EXCEPT ![p] = r]
      /\ UNCHANGED <<clock, keyVersion, issue, table, blacklist, cache, history>>
  BY DEF IInv, RequestInv, TypeOK, ReadKeyVersion, At
<1>1. /\ r \in Requests /\ r.pc = "signR" /\ r.ver = keyVersion /\ r.pair = req[p].pair
      /\ r.now = req[p].now /\ r.call = req[p].call /\ r.arg = req[p].arg
  BY <1>0 DEF Requests, PCs, GeneratePCs
<1>2. /\ req' \in [Procs -> Requests] /\ req'[p] = r
      /\ \A q \in Procs : q # p => req'[q] = req[q]
  BY <1>0, <1>1, StoreType
<1> HIDE DEF r
<1>3. RequestInv(p)'
  BY <1>0, <1>1, <1>2
     DEF RequestInv, GenerateInv, ValidateInv, RevokeInv, SweepInv, issue, table, Stored, NewRefresh,
         GeneratePCs, ValidatePCs, RevokePCs, SweepPCs, Signing, Counters
<1> QED BY <1>0, <1>1, <1>2, <1>3, OnlyRequest DEF GeneratePCs

\* SignedString: the claims of a token that is not yet stored
LEMMA SignInv ==
    ASSUME IInv, NEW p \in Procs, NEW t, NEW type \in Types, NEW then, Sign(p, t, type, then),
           \/ req[p].pc = "signA" /\ t = req[p].pair /\ then = "verR"
           \/ req[p].pc = "signR" /\ t = NewRefresh(p) /\ then = "createA"
    PROVE  IInv'
<1> DEFINE c == [type |-> type, user |-> req[p].user, org |-> req[p].org, ver |-> req[p].ver,
                 key |-> keyVersion, iss |-> req[p].now, exp |-> req[p].now + Expiry(type)]
<1>0. /\ TypeOK /\ Counters /\ GenerateInv(p) /\ req[p] \in Requests /\ then \in PCs
      /\ req[p].pc \in GeneratePCs
  BY DEF IInv, TypeOK, RequestInv, PCs, GeneratePCs
<1>1. /\ c \in Claims /\ c.ver = req[p].ver /\ c.exp = req[p].now + Expiry(type)
  <2>1. Expiry(type) \in Nat /\ keyVersion \in Nat /\ req[p].now \in Nat
    BY <1>0, Numbers DEF Expiry, TypeOK, Requests
  <2> QED BY <1>0, <2>1 DEF Claims, Requests
<1>2. tok' = [tok EXCEPT ![t] = c]
  BY DEF Sign
<1>3. UNCHANGED <<clock, keyVersion, nextToken, given, table, blacklist, cache, history>>
  BY DEF Sign
<1>4. /\ req' \in [Procs -> Requests] /\ req'[p].pc = then /\ Keeps(p)
      /\ \A q \in Procs : q # p => req'[q] = req[q]
  BY <1>0, GotoType DEF Sign
<1>5. /\ c.exp <= clock + RefreshExpiry /\ 1 <= c.ver /\ c.ver <= keyVersion
  BY <1>0, <1>1, Numbers DEF GenerateInv, Expiry, TypeOK, Requests
<1> HIDE DEF c
<1>6. t \in Tokens /\ ~Stored(t)
  BY <1>0, PairFacts DEF GenerateInv
<1>7. tok' \in [Tokens -> Claims] /\ tok'[t] = c /\ \A x \in Tokens : x # t => tok'[x] = tok[x]
  BY <1>0, <1>1, <1>2, <1>6 DEF TypeOK
<1>8. TypeOK'
  BY <1>0, <1>3, <1>4, <1>7 DEF TypeOK, table, cache, history
<1>9. Counters'
  BY <1>0, <1>3 DEF Counters
<1>10. Evolves
  BY <1>0, <1>3, <1>6, <1>7 DEF Evolves, Stored, Covered, table, TypeOK
<1>11. \A q \in Procs : q # p => Untouched(q)
  <2> SUFFICES ASSUME NEW q \in Procs, q # p, req[q].pc \in GeneratePCs
               PROVE  Untouched(q)
    BY DEF Untouched
  <2>1. \A x \in {req[q].pair, req[q].pair + 1} : x \in Tokens /\ x # t
    BY <1>0, PairFacts DEF NewRefresh
  <2> QED BY <1>3, <1>7, <2>1 DEF Untouched, table
<1>12. RequestInv(p)'
  <2>1. req[p].pair \in Tokens /\ NewRefresh(p) \in Tokens /\ req[p].pair # NewRefresh(p)
    BY <1>0, PairFacts DEF NewRefresh
  <2>2. GenerateInv(p)'
    BY <1>0, <1>3, <1>4, <1>5, <1>7, <2>1
       DEF GenerateInv, table, Stored, NewRefresh, GeneratePCs, Signing, Keeps
  <2> QED BY <1>4, <2>2
       DEF RequestInv, ValidateInv, RevokeInv, SweepInv, ValidatePCs, RevokePCs, SweepPCs
<1>13. \A x \in Tokens : TokenInv(x)'
  BY <1>3, <1>5, <1>6, <1>7 DEF IInv, TokenInv, Stored, Covered, Ended, table, cache, history
<1> QED BY <1>0, <1>4, <1>8, <1>9, <1>10, <1>11, <1>12, <1>13, Assemble DEF Keeps

\* tokenRepo.Create: the row of a signed token
LEMMA CreateInv ==
    ASSUME IInv, NEW p \in Procs, NEW t, NEW then, Create(p, t, then),
           \/ req[p].pc = "createA" /\ t = req[p].pair /\ then = "createR"
           \/ req[p].pc = "createR" /\ t = NewRefresh(p) /\ then = "cacheA"
    PROVE  IInv'
<1>0. /\ TypeOK /\ Counters /\ GenerateInv(p) /\ req[p] \in Requests /\ then \in PCs
      /\ req[p].pc \in GeneratePCs
  BY DEF IInv, TypeOK, RequestInv, PCs, GeneratePCs
<1>1. UNCHANGED <<clock, keyVersion, issue, revokedAt, blacklist, cache, history>>
  BY DEF Create
<1>2. CASE Leave(p) /\ UNCHANGED row
  BY <1>1, <1>2, JustLeave DEF table
<1>3. CASE row' = [row EXCEPT ![t] = "active"] /\ Goto(p, then)
  <2>1. t \in Tokens /\ ~Stored(t) /\ t < nextToken /\ 1 <= tok[t].ver
    BY <1>0, PairFacts DEF GenerateInv, Signing, GeneratePCs
  <2>2. /\ row' \in [Tokens -> {"none", "active", "revoked", "gone"}]
        /\ row'[t] = "active" /\ \A x \in Tokens : x # t => row'[x] = row[x]
    BY <1>0, <1>3, <2>1 DEF TypeOK
  <2>3. /\ req' \in [Procs -> Requests] /\ req'[p].pc = then /\ Keeps(p)
        /\ \A q \in Procs : q # p => req'[q] = req[q]
    BY <1>0, <1>3, GotoType
  <2>4. TypeOK'
    BY <1>0, <1>1, <2>2, <2>3 DEF TypeOK, issue, cache, history
  <2>5. Counters'
    BY <1>0, <1>1 DEF Counters, issue
  <2>6. Evolves
    BY <1>0, <1>1, <2>1, <2>2 DEF Evolves, Stored, Covered, Ended, issue, TypeOK
  <2>7. \A q \in Procs : q # p => Untouched(q)
    <3> SUFFICES ASSUME NEW q \in Procs, q # p, req[q].pc \in GeneratePCs
                 PROVE  Untouched(q)
      BY DEF Untouched
    <3>1. \A x \in {req[q].pair, req[q].pair + 1} : x \in Tokens /\ x # t
      BY <1>0, PairFacts DEF NewRefresh
    <3> QED BY <1>1, <2>2, <3>1 DEF Untouched, issue
  <2>8. RequestInv(p)'
    <3>1. req[p].pair \in Tokens /\ NewRefresh(p) \in Tokens /\ req[p].pair # NewRefresh(p)
      BY <1>0, PairFacts DEF NewRefresh
    <3>2. GenerateInv(p)'
      BY <1>0, <1>1, <2>2, <2>3, <3>1
         DEF GenerateInv, issue, Stored, NewRefresh, GeneratePCs, Signing, Keeps
    <3> QED BY <2>3, <3>2
         DEF RequestInv, ValidateInv, RevokeInv, SweepInv, ValidatePCs, RevokePCs, SweepPCs
  <2>9. \A x \in Tokens : TokenInv(x)'
    BY <1>1, <2>1, <2>2 DEF IInv, TokenInv, Stored, Covered, Ended, issue, cache, history
  <2> QED BY <1>0, <2>3, <2>4, <2>5, <2>6, <2>7, <2>8, <2>9, Assemble DEF Keeps
<1> QED BY <1>2, <1>3 DEF Create

\* cacheTokens: a stored token, cached or not, does not disturb the invariant.
LEMMA CacheStep ==
    ASSUME IInv, NEW p \in Procs, NEW t \in Tokens, Stored(t),
           CacheNewToken(t) \/ UNCHANGED cache,
           UNCHANGED <<clock, keyVersion, nextToken, tok, table, blacklist, history>>,
           req' \in [Procs -> Requests],
           \A q \in Procs : q # p => req'[q] = req[q],
           req'[p].pc \in GeneratePCs => req[p].pc \in GeneratePCs /\ req'[p].pair = req[p].pair,
           given \subseteq given', given' \subseteq Tokens,
           \A x \in given' : Stored(x),
           RequestInv(p)'
    PROVE  IInv'
<1>1. /\ cacheUntil' \in [Tokens -> Nat] /\ cacheOrg' \in [Tokens -> Orgs]
      /\ \A x \in Tokens : x # t => cacheUntil'[x] = cacheUntil[x]
  <2>1. clock + Expiry(tok[t].type) \in Nat /\ TypeOK /\ "userID" \in Orgs
    BY Numbers DEF IInv, TypeOK, Expiry, Orgs
  <2> QED BY <2>1 DEF CacheNewToken, TypeOK, cache
<1>2. TypeOK'
  BY <1>1 DEF IInv, TypeOK, table, history
<1>3. \A x \in Tokens : TokenInv(x)'
  BY <1>1 DEF IInv, TokenInv, Stored, Covered, table, history
<1>4. \A x \in Tokens : Covered(x) => Covered(x)'
  BY DEF Covered
<1> QED BY <1>2, <1>3, <1>4, SameRows DEF table

\* What the end of the generation does to the request.
LEMMA PairDoneFacts ==
    ASSUME IInv, NEW p \in Procs, req[p].pc \in {"cacheA", "cacheR"}, PairDone(p),
           UNCHANGED <<clock, keyVersion, nextToken, tok, table, blacklist, history>>
    PROVE  /\ req' \in [Procs -> Requests] /\ \A q \in Procs : q # p => req'[q] = req[q]
           /\ req'[p].pc \notin GeneratePCs
           /\ given \subseteq given' /\ given' \subseteq Tokens /\ \A x \in given' : Stored(x)
           /\ RequestInv(p)'
<1>0. /\ TypeOK /\ GenerateInv(p) /\ req[p].pc \in GeneratePCs /\ "blacklist" \in PCs
      /\ given \subseteq Tokens /\ \A x \in given : Stored(x)
  BY DEF IInv, TypeOK, RequestInv, TokenInv, GeneratePCs, PCs, RevokePCs
<1>1. /\ req[p].pair \in Tokens /\ NewRefresh(p) \in Tokens
      /\ Stored(req[p].pair) /\ Stored(NewRefresh(p))
  BY <1>0, PairFacts DEF GenerateInv
<1>2. CASE req[p].call = "refresh" /\ Goto(p, "blacklist") /\ UNCHANGED given
  <2>1. /\ req' \in [Procs -> Requests] /\ req'[p].pc = "blacklist" /\ Keeps(p)
        /\ \A q \in Procs : q # p => req'[q] = req[q]
    BY <1>0, <1>2, GotoType
  <2>2. RequestInv(p)'
    BY <1>0, <1>1, <1>2, <2>1
       DEF RequestInv, GenerateInv, ValidateInv, RevokeInv, SweepInv, table, Stored, NewRefresh,
           GeneratePCs, ValidatePCs, RevokePCs, SweepPCs, Keeps
  <2> QED BY <1>0, <1>2, <2>1, <2>2 DEF GeneratePCs
<1>3. CASE Leave(p) /\ given' = given \cup {req[p].pair, NewRefresh(p)}
  BY <1>0, <1>1, <1>3, LeaveType, IdleInv
<1> QED BY <1>2, <1>3 DEF PairDone

\* cacheTokens, the access token
LEMMA CacheAccessInv ==
    ASSUME IInv, NEW p \in Procs, CacheAccess(p)
    PROVE  IInv'
<1>0. /\ TypeOK /\ GenerateInv(p) /\ req[p].pc = "cacheA" /\ req[p].pc \in GeneratePCs
      /\ "cacheR" \in PCs
      /\ given \subseteq Tokens /\ \A x \in given : Stored(x)
      /\ UNCHANGED <<clock, keyVersion, nextToken, tok, table, blacklist, history>>
  BY DEF IInv, TypeOK, RequestInv, TokenInv, GeneratePCs, PCs, CacheAccess, At
<1>1. req[p].pair \in Tokens /\ Stored(req[p].pair)
  BY <1>0, PairFacts DEF GenerateInv
<1>2. CASE CacheNewToken(req[p].pair) /\ Goto(p, "cacheR") /\ UNCHANGED given
  <2>1. /\ req' \in [Procs -> Requests] /\ req'[p].pc = "cacheR" /\ Keeps(p)
        /\ \A q \in Procs : q # p => req'[q] = req[q]
    BY <1>0, <1>2, GotoType
  <2>2. RequestInv(p)'
    BY <1>0, <1>1, <1>2, <2>1
       DEF RequestInv, GenerateInv, ValidateInv, RevokeInv, SweepInv, table, Stored, NewRefresh,
           GeneratePCs, ValidatePCs, RevokePCs, SweepPCs, Signing, Keeps
  <2> QED BY <1>0, <1>1, <1>2, <2>1, <2>2, CacheStep DEF Keeps
<1>3. CASE PairDone(p) /\ UNCHANGED cache
  BY <1>0, <1>1, <1>3, PairDoneFacts, CacheStep
<1> QED BY <1>2, <1>3 DEF CacheAccess

\* cacheTokens, the refresh token
LEMMA CacheRefreshInv ==
    ASSUME IInv, NEW p \in Procs, CacheRefresh(p)
    PROVE  IInv'
<1>0. /\ GenerateInv(p) /\ req[p].pc = "cacheR" /\ req[p].pc \in GeneratePCs
      /\ PairDone(p)
      /\ UNCHANGED <<clock, keyVersion, nextToken, tok, table, blacklist, history>>
  BY DEF IInv, RequestInv, GeneratePCs, CacheRefresh, At
<1>1. NewRefresh(p) \in Tokens /\ Stored(NewRefresh(p))
  BY <1>0, PairFacts DEF GenerateInv
<1>2. CacheNewToken(NewRefresh(p)) \/ UNCHANGED cache
  BY DEF CacheRefresh
<1> QED BY <1>0, <1>1, <1>2, PairDoneFacts, CacheStep

-----------------------------------------------------------------------------
(***************************************************************************)
(* RevokeToken.                                                            *)
(***************************************************************************)
\* What a request that revokes relies on.
LEMMA RevokeFacts ==
    ASSUME IInv, NEW p \in Procs, req[p].pc \in RevokePCs
    PROVE  /\ req[p].arg \in Tokens /\ req[p].arg \in given /\ Stored(req[p].arg)
           /\ req[p].call = "refresh" =>
                 /\ req[p].pair \in Tokens /\ req[p].pair + 1 \in Tokens
                 /\ Stored(req[p].pair) /\ Stored(req[p].pair + 1)
<1>1. /\ RevokeInv(p) /\ given \subseteq Tokens /\ \A x \in given : Stored(x)
      /\ nextToken \in Nat /\ req[p].pair \in Nat /\ nextToken <= MaxToken + 1
  BY DEF IInv, RequestInv, TypeOK, TokenInv, Requests, Counters
<1>2. req[p].call = "refresh" => req[p].pair \in Tokens /\ req[p].pair + 1 \in Tokens
  BY <1>1, Numbers DEF RevokeInv, Tokens
<1> QED BY <1>1, <1>2 DEF RevokeInv, NewRefresh

\* What the end of RevokeToken does to the request and to the clients.
LEMMA EndRevokeFacts ==
    ASSUME IInv, NEW p \in Procs, EndRevoke(p),
           req[p].call = "refresh" => req[p].pc \in RevokePCs
    PROVE  /\ req' \in [Procs -> Requests] /\ \A q \in Procs : q # p => req'[q] = req[q]
           /\ req'[p].pc \notin GeneratePCs
           /\ given \subseteq given' /\ given' \subseteq Tokens /\ \A x \in given' : Stored(x)
           /\ RequestInv(p)'
<1>1. TypeOK /\ given \subseteq Tokens /\ \A x \in given : Stored(x)
  BY DEF IInv, TypeOK, TokenInv
<1> QED BY <1>1, LeaveType, IdleInv, RevokeFacts DEF EndRevoke

\* A step of p that ends RevokeToken before it has succeeded
LEMMA FailedRevoke ==
    ASSUME IInv, NEW p \in Procs, EndRevoke(p),
           req[p].call = "refresh" => req[p].pc \in RevokePCs,
           UNCHANGED <<clock, keyVersion, nextToken, tok, table, blacklist, cache, history>>
    PROVE  IInv'
<1>1. /\ req' \in [Procs -> Requests] /\ \A q \in Procs : q # p => req'[q] = req[q]
      /\ req'[p].pc \notin GeneratePCs
      /\ given \subseteq given' /\ given' \subseteq Tokens /\ \A x \in given' : Stored(x)
      /\ RequestInv(p)'
  BY EndRevokeFacts
<1>2. TypeOK'
  BY <1>1 DEF IInv, TypeOK, table, cache, history
<1>3. \A x \in Tokens : TokenInv(x)'
  BY <1>1 DEF IInv, TokenInv, Stored, Covered, table, cache, history
<1>4. \A x \in Tokens : Covered(x) => Covered(x)'
  BY DEF Covered
<1> QED BY <1>1, <1>2, <1>3, <1>4, SameRows DEF table

\* A blacklist entry written now covers its token.
LEMMA BlacklistEntry ==
    ASSUME IInv, NEW t \in Tokens,
           blacklist' = [blacklist EXCEPT ![t] = clock + BlacklistTTL],
           UNCHANGED <<clock, tok>>
    PROVE  /\ blacklist' \in [Tokens -> Nat]
           /\ Covered(t)'
           /\ \A x \in Tokens : Covered(x) => Covered(x)'
<1>1. /\ blacklist \in [Tokens -> Nat] /\ clock \in Nat /\ tok[t].exp \in Nat
      /\ tok[t].exp <= clock + RefreshExpiry /\ RefreshExpiry \in Nat
  BY Numbers DEF IInv, TypeOK, Claims, TokenInv
<1> QED BY <1>1 DEF Covered, BlacklistTTL

\* blacklistToken, of a token a client holds
LEMMA BlacklistTokenInv ==
    ASSUME IInv, NEW p \in Procs, NEW r \in Requests, BlacklistToken(p, r), r.arg \in given,
           req[p].call = "refresh" => req[p].pc \in RevokePCs,
           r.call = "refresh" => r = req[p]
    PROVE  IInv'
<1> DEFINE s == [r EXCEPT !.pc = "dbRevoke"]
<1>0. TypeOK /\ r.arg \in Tokens /\ \A x \in given : Stored(x)
  BY DEF IInv, TypeOK, TokenInv
<1>1. UNCHANGED <<clock, keyVersion, nextToken, tok, table, cache, history>>
  BY DEF BlacklistToken
<1>2. CASE EndRevoke(p) /\ UNCHANGED blacklist
  BY <1>1, <1>2, FailedRevoke
<1>3. CASE /\ blacklist' = [blacklist EXCEPT ![r.arg] = clock + BlacklistTTL]
           /\ req' = [req EXCEPT ![p] = s]
           /\ UNCHANGED given
  <2>1. /\ s \in Requests /\ s.pc = "dbRevoke" /\ s.arg = r.arg /\ s.call = r.call
        /\ s.pair = r.pair
    BY DEF Requests, PCs, RevokePCs
  <2>2. /\ req' \in [Procs -> Requests] /\ req'[p] = s
        /\ \A q \in Procs : q # p => req'[q] = req[q]
    BY <1>0, <1>3, <2>1, StoreType
  <2> HIDE DEF s
  <2>3. /\ blacklist' \in [Tokens -> Nat] /\ Covered(r.arg)'
        /\ \A x \in Tokens : Covered(x) => Covered(x)'
    BY <1>0, <1>1, <1>3, BlacklistEntry
  <2>4. TypeOK'
    BY <1>0, <1>1, <1>3, <2>2, <2>3 DEF TypeOK, table, cache, history
  <2>5. \A x \in Tokens : TokenInv(x)'
    BY <1>0, <1>1, <1>3, <2>3 DEF IInv, TokenInv, Stored, table, cache, history
  <2>6. RequestInv(p)'
    <3>1. r.call = "refresh" => r = req[p] /\ req[p].pc \in RevokePCs
      OBVIOUS
    <3>2. r.call = "refresh" =>
             /\ 1 <= r.pair /\ r.pair + 1 < nextToken
             /\ Stored(r.pair) /\ Stored(r.pair + 1)
      BY <3>1 DEF IInv, RequestInv, RevokeInv, NewRefresh
    <3> QED BY <1>1, <1>3, <2>1, <2>2, <2>3, <3>2
         DEF RequestInv, GenerateInv, ValidateInv, RevokeInv, SweepInv, table, Stored, NewRefresh,
             Covered, GeneratePCs, ValidatePCs, RevokePCs, SweepPCs
  <2> QED BY <1>1, <1>3, <2>1, <2>2, <2>3, <2>4, <2>5, <2>6, SameRows DEF table, GeneratePCs
<1> QED BY <1>2, <1>3 DEF BlacklistToken

\* RevokeToken, called by a client, ...
LEMMA RevokeTokenInv ==
    ASSUME IInv, NEW p \in Procs, NEW t \in Tokens, RevokeToken(p, t)
    PROVE  IInv'
<1> DEFINE r == [Idle EXCEPT !.call = "revoke", !.arg = t]
<1>1. r \in Requests /\ r.call = "revoke" /\ r.arg = t
  BY IdleType DEF Requests, Calls
<1>2. BlacklistToken(p, r) /\ t \in given /\ req[p].call # "refresh"
  BY DEF RevokeToken, At, IInv, RequestInv
<1> HIDE DEF r
<1> QED BY <1>1, <1>2, BlacklistTokenInv

\* ... and by RefreshToken
LEMMA RevokeOldTokenInv ==
    ASSUME IInv, NEW p \in Procs, RevokeOldToken(p)
    PROVE  IInv'
<1>1. req[p] \in Requests /\ req[p].pc \in RevokePCs /\ BlacklistToken(p, req[p])
  BY DEF IInv, TypeOK, RevokeOldToken, At, RevokePCs
<1> QED BY <1>1, RevokeFacts, BlacklistTokenInv

\* A step that only revokes or deletes rows.
LEMMA RowsEnd ==
    ASSUME IInv, UNCHANGED <<clock, keyVersion, issue, blacklist>>,
           \A x \in Tokens : row'[x] = row[x] \/ (Stored(x) /\ row'[x] \in Ended)
    PROVE  Counters' /\ Evolves /\ \A q \in Procs : Untouched(q)
<1>1. Counters'
  BY DEF IInv, Counters, issue
<1>2. Evolves
  BY DEF IInv, TypeOK, Evolves, Stored, Covered, Ended, issue
<1>3. \A q \in Procs : Untouched(q)
  <2> SUFFICES ASSUME NEW q \in Procs, req[q].pc \in GeneratePCs
               PROVE  Untouched(q)
    BY DEF Untouched
  <2>1. req[q].pair \in Tokens /\ req[q].pair + 1 \in Tokens
    BY PairFacts DEF NewRefresh
  <2> QED BY <2>1 DEF Untouched, Stored, issue
<1> QED BY <1>1, <1>2, <1>3

\* tokenRepo.RevokeToken
LEMMA RevokeRowInv ==
    ASSUME IInv, NEW p \in Procs, RevokeRow(p)
    PROVE  IInv'
<1>0. /\ TypeOK /\ RevokeInv(p) /\ req[p].pc = "dbRevoke" /\ req[p].pc \in RevokePCs
      /\ "cacheDel" \in PCs
  BY DEF IInv, RequestInv, RevokeRow, At, RevokePCs, PCs
<1>1. /\ req[p].arg \in Tokens /\ req[p].arg \in given /\ Stored(req[p].arg)
  BY <1>0, RevokeFacts
<1>2. UNCHANGED <<clock, keyVersion, nextToken, tok, blacklist, cache, history>>
  BY DEF RevokeRow
<1>3. CASE EndRevoke(p) /\ UNCHANGED table
  BY <1>0, <1>2, <1>3, FailedRevoke
<1>4. CASE /\ row' = [row EXCEPT ![req[p].arg] = IF @ = "active" THEN "revoked" ELSE @]
           /\ revokedAt' = [revokedAt EXCEPT ![req[p].arg] =
                               IF row[req[p].arg] = "active" THEN clock ELSE @]
           /\ Goto(p, "cacheDel")
           /\ UNCHANGED given
  <2>1. /\ row' \in [Tokens -> {"none", "active", "revoked", "gone"}]
        /\ row'[req[p].arg] \in Ended
        /\ \A x \in Tokens : row'[x] = row[x] \/ (Stored(x) /\ row'[x] \in Ended)
    BY <1>0, <1>1, <1>4 DEF TypeOK, Stored, Ended
  <2>2. revokedAt' \in [Tokens -> Nat]
    BY <1>0, <1>4 DEF TypeOK
  <2>3. /\ req' \in [Procs -> Requests] /\ req'[p].pc = "cacheDel" /\ Keeps(p)
        /\ \A q \in Procs : q # p => req'[q] = req[q]
    BY <1>0, <1>4, GotoType
  <2>4. TypeOK'
    BY <1>0, <1>2, <1>4, <2>1, <2>2, <2>3 DEF TypeOK, cache, history
  <2>5. Counters' /\ Evolves /\ \A q \in Procs : Untouched(q)
    BY <1>2, <1>4, <2>1, RowsEnd DEF issue
  <2>6. \A x \in Tokens : TokenInv(x)'
    BY <1>2, <1>4, <2>1 DEF IInv, TokenInv, Stored, Covered, Ended, cache, history
  <2>7. RequestInv(p)'
    <3>1. req[p].call = "refresh" =>
             row'[req[p].pair] # "none" /\ row'[NewRefresh(p)] # "none"
      BY <1>0, <2>5, RevokeFacts DEF Evolves, NewRefresh
    <3> QED BY <1>0, <1>2, <1>4, <2>1, <2>3, <3>1
       DEF RequestInv, GenerateInv, ValidateInv, RevokeInv, SweepInv, Stored, NewRefresh,
           Covered, GeneratePCs, ValidatePCs, RevokePCs, SweepPCs, Keeps
  <2> QED BY <2>3, <2>4, <2>5, <2>6, <2>7, Assemble DEF GeneratePCs
<1> QED BY <1>3, <1>4 DEF RevokeRow

\* removeTokenFromCache: RevokeToken succeeds
LEMMA RemoveTokenFromCacheInv ==
    ASSUME IInv, NEW p \in Procs, RemoveTokenFromCache(p)
    PROVE  IInv'
<1>0. /\ TypeOK /\ RevokeInv(p) /\ req[p].pc = "cacheDel" /\ req[p].pc \in RevokePCs
      /\ EndRevoke(p) /\ revoked' = revoked \cup {req[p].arg}
  BY DEF IInv, RequestInv, RemoveTokenFromCache, At, RevokePCs
<1>1. /\ req[p].arg \in Tokens /\ Covered(req[p].arg) /\ row[req[p].arg] \in Ended
  BY <1>0, RevokeFacts DEF RevokeInv
<1>2. UNCHANGED <<clock, keyVersion, nextToken, tok, table, blacklist, cacheOrg, swept>>
  BY DEF RemoveTokenFromCache
<1>3. /\ req' \in [Procs -> Requests] /\ \A q \in Procs : q # p => req'[q] = req[q]
      /\ req'[p].pc \notin GeneratePCs
      /\ given \subseteq given' /\ given' \subseteq Tokens /\ \A x \in given' : Stored(x)
      /\ RequestInv(p)'
  BY <1>0, EndRevokeFacts
<1>4. /\ cacheUntil' \in [Tokens -> Nat]
      /\ \A x \in Tokens : cacheUntil'[x] = cacheUntil[x] \/ cacheUntil'[x] = 0
  BY <1>0 DEF TypeOK, RemoveTokenFromCache
<1>5. TypeOK'
  BY <1>0, <1>1, <1>2, <1>3, <1>4 DEF TypeOK, table
<1>6. \A x \in Tokens : TokenInv(x)'
  BY <1>0, <1>1, <1>2, <1>3, <1>4 DEF IInv, TokenInv, Stored, Covered, table
<1>7. \A x \in Tokens : Covered(x) => Covered(x)'
  BY <1>2 DEF Covered
<1> QED BY <1>2, <1>3, <1>5, <1>6, <1>7, SameRows DEF table

-----------------------------------------------------------------------------
(***************************************************************************)
(* RevokeAllUserTokens.                                                    *)
(***************************************************************************)
\* GetActiveTokensByUser
LEMMA RevokeAllUserTokensInv ==
    ASSUME IInv, NEW p \in Procs, NEW u \in Users, NEW type \in SweptTypes,
           RevokeAllUserTokens(p, u, type)
    PROVE  IInv'
<1> DEFINE active == {t \in Tokens : RowValid(t) /\ OfUser(t, u, type)}
           r == [Idle EXCEPT !.pc = "sweep", !.call = "revokeAll", !.user = u, !.type = type,
                             !.todo = active]
<1>0. /\ TypeOK /\ req' = [req EXCEPT ![p] = r] /\ type \in Types
      /\ UNCHANGED <<clock, keyVersion, issue, table, blacklist, cache, history>>
  BY ConfigAssumption DEF IInv, RevokeAllUserTokens, Types
<1>1. active \subseteq Tokens /\ \A t \in active : Stored(t) /\ OfUser(t, u, type)
  BY DEF RowValid, Stored
<1> HIDE DEF active
<1>2. /\ r \in Requests /\ r.pc = "sweep" /\ r.user = u /\ r.type = type /\ r.todo = active
      /\ r.done = {}
  BY <1>0, <1>1, IdleType DEF Requests, PCs, SweepPCs, Calls, Idle
<1>3. /\ req' \in [Procs -> Requests] /\ req'[p] = r
      /\ \A q \in Procs : q # p => req'[q] = req[q]
  BY <1>0, <1>2, StoreType
<1> HIDE DEF r
<1>4. RequestInv(p)'
  BY <1>0, <1>1, <1>2, <1>3
     DEF RequestInv, GenerateInv, ValidateInv, RevokeInv, SweepInv, issue, table, Stored, OfUser,
         GeneratePCs, ValidatePCs, RevokePCs, SweepPCs
<1> QED BY <1>0, <1>2, <1>3, <1>4, OnlyRequest DEF GeneratePCs

\* blacklistToken in the loop of RevokeAllUserTokens
LEMMA SweepBlacklistInv ==
    ASSUME IInv, NEW p \in Procs, NEW t \in Tokens, SweepBlacklist(p, t)
    PROVE  IInv'
<1> DEFINE r == [req[p] EXCEPT !.pc = "sweepDel", !.arg = t, !.done = req[p].done \cup {t}]
           s == [req[p] EXCEPT !.pc = "sweepDel", !.arg = t]
<1>0. /\ TypeOK /\ SweepInv(p) /\ req[p].pc = "sweep" /\ req[p] \in Requests
      /\ t \in req[p].todo /\ Stored(t)
      /\ UNCHANGED <<clock, keyVersion, issue, table, cache, history>>
  BY DEF IInv, TypeOK, RequestInv, SweepInv, SweepBlacklist, At, SweepPCs
<1>1. /\ r \in Requests /\ r.pc = "sweepDel" /\ r.arg = t /\ r.done = req[p].done \cup {t}
      /\ r.todo = req[p].todo /\ r.user = req[p].user /\ r.type = req[p].type
  BY <1>0 DEF Requests, PCs, SweepPCs
<1>2. /\ s \in Requests /\ s.pc = "sweepDel" /\ s.arg = t /\ s.done = req[p].done
      /\ s.todo = req[p].todo /\ s.user = req[p].user /\ s.type = req[p].type
  BY <1>0 DEF Requests, PCs, SweepPCs
<1>3. CASE /\ blacklist' = [blacklist EXCEPT ![t] = clock + BlacklistTTL]
           /\ req' = [req EXCEPT ![p] = r]
  <2>1. /\ req' \in [Procs -> Requests] /\ req'[p] = r
        /\ \A q \in Procs : q # p => req'[q] = req[q]
    BY <1>0, <1>1, <1>3, StoreType
  <2> HIDE DEF r
  <2>2. /\ blacklist' \in [Tokens -> Nat] /\ Covered(t)'
        /\ \A x \in Tokens : Covered(x) => Covered(x)'
    BY <1>0, <1>3, BlacklistEntry DEF issue
  <2>3. TypeOK'
    BY <1>0, <2>1, <2>2 DEF TypeOK, issue, table, cache, history
  <2>4. \A x \in Tokens : TokenInv(x)'
    BY <1>0, <2>2 DEF IInv, TokenInv, Stored, issue, table, cache, history
  <2>5. RequestInv(p)'
    <3>1. req[p].done \subseteq Tokens
      BY <1>0 DEF Requests
    <3>2. \A x \in req[p].done \cup {t} : Covered(x)'
      BY <1>0, <2>2, <3>1 DEF SweepInv, SweepPCs
    <3>3. \A x \in req[p].todo \cup req[p].done \cup {t} :
             Stored(x)' /\ OfUser(x, req[p].user, req[p].type)'
      BY <1>0, <1>1, <2>1 DEF SweepInv, SweepPCs, Stored, OfUser, issue, table
    <3> QED BY <1>0, <1>1, <2>1, <3>2, <3>3
       DEF RequestInv, GenerateInv, ValidateInv, RevokeInv, SweepInv, Stored, OfUser, Covered,
           GeneratePCs, ValidatePCs, RevokePCs, SweepPCs
  <2> QED BY <1>0, <1>1, <2>1, <2>2, <2>3, <2>4, <2>5, SameRows DEF issue, table, GeneratePCs
<1>4. CASE req' = [req EXCEPT ![p] = s] /\ UNCHANGED blacklist
  <2>1. /\ req' \in [Procs -> Requests] /\ req'[p] = s
        /\ \A q \in Procs : q # p => req'[q] = req[q]
    BY <1>0, <1>2, <1>4, StoreType
  <2> HIDE DEF s
  <2>2. RequestInv(p)'
    BY <1>0, <1>2, <1>4, <2>1
       DEF RequestInv, GenerateInv, ValidateInv, RevokeInv, SweepInv, Stored, OfUser, Covered,
           GeneratePCs, ValidatePCs, RevokePCs, SweepPCs, issue, table
  <2> QED BY <1>0, <1>2, <1>4, <2>1, <2>2, OnlyRequest DEF GeneratePCs
<1> QED BY <1>3, <1>4 DEF SweepBlacklist

\* removeTokenFromCache in the loop of RevokeAllUserTokens
LEMMA SweepCacheInv ==
    ASSUME IInv, NEW p \in Procs, SweepCache(p)
    PROVE  IInv'
<1> DEFINE r == [req[p] EXCEPT !.pc = "sweep", !.todo = req[p].todo \ {req[p].arg}]
<1>0. /\ TypeOK /\ SweepInv(p) /\ req[p].pc = "sweepDel" /\ req[p] \in Requests
      /\ req' = [req EXCEPT ![p] = r]
      /\ UNCHANGED <<clock, keyVersion, issue, table, blacklist, cacheOrg, history>>
  BY DEF IInv, TypeOK, RequestInv, SweepCache, At
<1>1. /\ r \in Requests /\ r.pc = "sweep" /\ r.todo = req[p].todo \ {req[p].arg}
      /\ r.done = req[p].done /\ r.user = req[p].user /\ r.type = req[p].type
  BY <1>0 DEF Requests, PCs, SweepPCs
<1>2. /\ req' \in [Procs -> Requests] /\ req'[p] = r
      /\ \A q \in Procs : q # p => req'[q] = req[q]
  BY <1>0, <1>1, StoreType
<1> HIDE DEF r
<1>3. /\ cacheUntil' \in [Tokens -> Nat]
      /\ \A x \in Tokens : cacheUntil'[x] = cacheUntil[x] \/ cacheUntil'[x] = 0
  BY <1>0 DEF TypeOK, SweepCache
<1>4. TypeOK'
  BY <1>0, <1>2, <1>3 DEF TypeOK, issue, table, history
<1>5. \A x \in Tokens : TokenInv(x)'
  BY <1>0, <1>3 DEF IInv, TokenInv, Stored, Covered, issue, table, history
<1>6. \A x \in Tokens : Covered(x) => Covered(x)'
  BY <1>0 DEF Covered, issue
<1>7. RequestInv(p)'
  BY <1>0, <1>1, <1>2
     DEF RequestInv, GenerateInv, ValidateInv, RevokeInv, SweepInv, Stored, OfUser, Covered,
         GeneratePCs, ValidatePCs, RevokePCs, SweepPCs, issue, table
<1> QED BY <1>0, <1>1, <1>2, <1>4, <1>5, <1>6, <1>7, SameRows DEF issue, table, GeneratePCs

\* tokenRepo.RevokeAllUserTokens: every row it has listed has ended.
LEMMA RevokeAllRowsInv ==
    ASSUME IInv, NEW p \in Procs, RevokeAllRows(p)
    PROVE  IInv'
<1> DEFINE hit == {t \in Tokens : row[t] = "active" /\ OfUser(t, req[p].user, req[p].type)}
<1>0. /\ TypeOK /\ SweepInv(p) /\ req[p].pc = "sweep" /\ Leave(p) /\ req[p] \in Requests
      /\ UNCHANGED <<clock, keyVersion, issue, blacklist, cache>>
  BY DEF IInv, TypeOK, RequestInv, RevokeAllRows, At
<1>1. CASE UNCHANGED <<table, history>>
  BY <1>0, <1>1, JustLeave
<1>2. CASE /\ row' = [t \in Tokens |-> IF t \in hit THEN "revoked" ELSE row[t]]
           /\ revokedAt' = [t \in Tokens |-> IF t \in hit THEN clock ELSE revokedAt[t]]
           /\ revoked' = revoked \cup req[p].done
           /\ swept' = swept \cup hit
  <2>1. /\ req[p].done \subseteq Tokens
        /\ \A x \in req[p].done : Covered(x) /\ Stored(x) /\ OfUser(x, req[p].user, req[p].type)
    BY <1>0 DEF SweepInv, SweepPCs, Requests
  <2>2. /\ hit \subseteq Tokens /\ \A x \in hit : Stored(x) /\ row'[x] \in Ended
        /\ \A x \in Tokens : x \notin hit => row'[x] = row[x]
    BY <1>2 DEF Stored, Ended
  <2>3. \A x \in req[p].done : row'[x] \in Ended
    BY <1>0, <1>2, <2>1 DEF TypeOK, Stored, Ended
  <2>4. row' \in [Tokens -> {"none", "active", "revoked", "gone"}] /\ revokedAt' \in [Tokens -> Nat]
    BY <1>0, <1>2 DEF TypeOK
  <2>5. /\ req' \in [Procs -> Requests] /\ RequestInv(p)' /\ req'[p].pc \notin GeneratePCs
        /\ \A q \in Procs : q # p => req'[q] = req[q]
    BY <1>0, LeaveType, IdleInv
  <2> HIDE DEF hit
  <2>6. TypeOK'
    BY <1>0, <1>2, <2>1, <2>2, <2>4, <2>5 DEF TypeOK, issue, cache
  <2>7. Counters' /\ Evolves /\ \A q \in Procs : Untouched(q)
    BY <1>0, <2>2, RowsEnd
  <2>8. \A x \in Tokens : TokenInv(x)'
    BY <1>0, <1>2, <2>1, <2>2, <2>3 DEF IInv, TokenInv, Stored, Covered, Ended, issue, cache
  <2> QED BY <2>5, <2>6, <2>7, <2>8, Assemble
<1> QED BY <1>1, <1>2 DEF RevokeAllRows

-----------------------------------------------------------------------------
(***************************************************************************)
(* Key rotation, cleanup and time.                                         *)
(***************************************************************************)
\* What a step in which no request moves has to be shown to do.
LEMMA BackgroundFrame ==
    ASSUME IInv, TypeOK', Counters', Evolves, UNCHANGED req,
           \A q \in Procs : Untouched(q),
           \A t \in Tokens : TokenInv(t)'
    PROVE  IInv'
<1>1. \A q \in Procs : RequestInv(q)'
  BY Frame
<1>2. PairsDisjoint'
  BY DEF IInv, PairsDisjoint
<1> QED BY <1>1, <1>2 DEF IInv

\* rotateKeys
LEMMA RotateKeysInv == ASSUME IInv, RotateKeys PROVE IInv'
<1>0. /\ TypeOK /\ Counters /\ keyVersion \in Nat /\ keyVersion' = keyVersion + 1
      /\ UNCHANGED <<clock, issue, table, blacklist, cache, req, history>>
  BY DEF IInv, TypeOK, RotateKeys
<1>1. TypeOK'
  BY <1>0 DEF TypeOK, issue, table, cache, history
<1>2. Counters'
  BY <1>0 DEF Counters, issue
<1>3. Evolves
  BY <1>0 DEF TypeOK, Evolves, Stored, Covered, issue, table
<1>4. \A q \in Procs : Untouched(q)
  BY <1>0 DEF Untouched, issue, table
<1>5. ASSUME NEW t \in Tokens PROVE TokenInv(t)'
  <2>1. tok[t].ver \in Nat
    BY <1>0 DEF TypeOK, Claims
  <2> QED BY <1>0, <2>1 DEF IInv, TokenInv, Stored, Covered, issue, table, cache, history
<1> QED BY <1>0, <1>1, <1>2, <1>3, <1>4, <1>5, BackgroundFrame

\* The cleanup routines delete rows of stored tokens.
LEMMA DeleteRowsInv ==
    ASSUME IInv, NEW S \in SUBSET Tokens, \A t \in S : Stored(t), DeleteRows(S)
    PROVE  IInv'
<1>0. /\ TypeOK /\ UNCHANGED <<clock, keyVersion, issue, blacklist, cache, req, history>>
      /\ row' \in [Tokens -> {"none", "active", "revoked", "gone"}] /\ revokedAt' \in [Tokens -> Nat]
      /\ \A x \in Tokens : row'[x] = row[x] \/ (Stored(x) /\ row'[x] \in Ended)
  BY DEF IInv, TypeOK, DeleteRows, Ended
<1>1. TypeOK'
  BY <1>0 DEF TypeOK, issue, cache, history
<1>2. Counters' /\ Evolves /\ \A q \in Procs : Untouched(q)
  BY <1>0, RowsEnd
<1>3. \A t \in Tokens : TokenInv(t)'
  BY <1>0 DEF IInv, TokenInv, Stored, Covered, Ended, issue, cache, history
<1> QED BY <1>0, <1>1, <1>2, <1>3, BackgroundFrame

\* CleanupExpiredTokens and the deletion of old revoked rows
LEMMA CleanupInv ==
    ASSUME IInv, CleanupExpiredTokens \/ DeleteRevokedTokens
    PROVE  IInv'
<1> DEFINE A == {t \in Tokens : row[t] \in {"active", "revoked"} /\ tok[t].exp < clock}
           B == {t \in Tokens : row[t] = "revoked" /\ revokedAt[t] < clock - Retention}
<1>1. A \in SUBSET Tokens /\ \A t \in A : Stored(t)
  BY DEF Stored
<1>2. B \in SUBSET Tokens /\ \A t \in B : Stored(t)
  BY DEF Stored
<1>3. DeleteRows(A) \/ DeleteRows(B)
  BY DEF CleanupExpiredTokens, DeleteRevokedTokens
<1> HIDE DEF A, B
<1> QED BY <1>1, <1>2, <1>3, DeleteRowsInv

\* Time passes: a blacklist entry that lapses belongs to a token that has
\* expired by then.
LEMMA TickInv == ASSUME IInv, Tick PROVE IInv'
<1>0. /\ TypeOK /\ Counters /\ clock \in Nat /\ clock' = clock + 1
      /\ blacklist' = Lapse(blacklist) /\ cacheUntil' = Lapse(cacheUntil)
      /\ UNCHANGED <<keyVersion, issue, table, cacheOrg, req, history>>
  BY DEF IInv, TypeOK, Tick
<1>1. /\ blacklist' \in [Tokens -> Nat] /\ cacheUntil' \in [Tokens -> Nat]
      /\ \A t \in Tokens : cacheUntil'[t] > 0 => cacheUntil[t] > 0
  BY <1>0 DEF TypeOK, Lapse
<1>2. ASSUME NEW t \in Tokens, Covered(t) PROVE Covered(t)'
  <2>1. tok[t].exp \in Nat /\ blacklist[t] \in Nat /\ tok'[t] = tok[t]
        /\ blacklist'[t] = IF blacklist[t] > clock + 1 THEN blacklist[t] ELSE 0
    BY <1>0 DEF TypeOK, Claims, Lapse, issue
  <2> QED BY <1>0, <1>2, <2>1 DEF Covered
<1>3. TypeOK'
  BY <1>0, <1>1 DEF TypeOK, issue, table, history
<1>4. Counters'
  BY <1>0 DEF Counters, issue
<1>5. Evolves
  BY <1>0, <1>2 DEF TypeOK, Evolves, Stored, issue, table
<1>6. \A q \in Procs : Untouched(q)
  BY <1>0 DEF Untouched, issue, table
<1>7. ASSUME NEW t \in Tokens PROVE TokenInv(t)'
  <2>1. tok[t].exp \in Nat
    BY <1>0 DEF TypeOK, Claims
  <2>2. TokenInv(t) /\ (Covered(t) => Covered(t)')
    BY <1>2 DEF IInv
  <2>3. cacheUntil'[t] > 0 => cacheUntil[t] > 0
    BY <1>1
  <2>4. tok[t].exp <= clock + RefreshExpiry => tok[t].exp <= clock' + RefreshExpiry
    BY <1>0, <2>1, Numbers
  <2> QED BY <1>0, <2>2, <2>3, <2>4 DEF TokenInv, Stored, issue, table, history
<1> QED BY <1>0, <1>3, <1>4, <1>5, <1>6, <1>7, BackgroundFrame

-----------------------------------------------------------------------------
(***************************************************************************)
(* The invariant is inductive.                                             *)
(***************************************************************************)
\* It holds when the service starts, ...
LEMMA InitInv == Init => IInv
<1> SUFFICES ASSUME Init
             PROVE  IInv
  OBVIOUS
<1>1. NoClaims \in Claims /\ NoClaims.exp = 0 /\ NoClaims.ver = 0
  BY DEF NoClaims, Claims, Types, Orgs
<1>2. TypeOK
  BY <1>1, IdleType DEF Init, TypeOK, Orgs
<1>3. Counters
  BY Numbers DEF Init, Counters
<1>4. \A p \in Procs : req[p].pc = "idle" /\ req[p].call = "none"
  BY DEF Init, Idle
<1>5. PairsDisjoint
  BY <1>4 DEF PairsDisjoint, GeneratePCs
<1>6. \A p \in Procs : RequestInv(p)
  BY <1>4 DEF RequestInv, GenerateInv, ValidateInv, RevokeInv, SweepInv,
              GeneratePCs, ValidatePCs, RevokePCs, SweepPCs
<1>7. \A t \in Tokens : TokenInv(t)
  BY <1>1, Numbers DEF Init, TokenInv, Stored
<1> QED BY <1>2, <1>3, <1>5, <1>6, <1>7 DEF IInv

\* ... and every step keeps it.
LEMMA NextInv == IInv /\ [Next]_vars => IInv'
<1> SUFFICES ASSUME IInv, [Next]_vars
             PROVE  IInv'
  OBVIOUS
<1>1. ASSUME NEW p \in Procs, GenerateStep(p)
      PROVE  IInv'
  <2>1. ASSUME NEW u \in Users, GenerateTokenPair(p, u) PROVE IInv'
    BY <2>1, GenerateTokenPairInv
  <2>2. CASE ReadKeyVersion(p)
    BY <2>2, ReadKeyVersionInv
  <2>3. CASE SignAccess(p)
    BY <2>3, SignInv DEF SignAccess, At, Types
  <2>4. CASE SignRefresh(p)
    BY <2>4, SignInv DEF SignRefresh, At, Types
  <2>5. CASE CreateAccess(p)
    BY <2>5, CreateInv DEF CreateAccess, At
  <2>6. CASE CreateRefresh(p)
    BY <2>6, CreateInv DEF CreateRefresh, At
  <2>7. CASE CacheAccess(p)
    BY <2>7, CacheAccessInv
  <2>8. CASE CacheRefresh(p)
    BY <2>8, CacheRefreshInv
  <2> QED BY <1>1, <2>1, <2>2, <2>3, <2>4, <2>5, <2>6, <2>7, <2>8 DEF GenerateStep
<1>2. ASSUME NEW p \in Procs, ValidateStep(p)
      PROVE  IInv'
  <2>1. ASSUME NEW t \in Tokens, ValidateToken(p, t) PROVE IInv'
    BY <2>1, CheckBlacklistInv DEF ValidateToken, Calls
  <2>2. ASSUME NEW t \in Tokens, RefreshToken(p, t) PROVE IInv'
    BY <2>2, CheckBlacklistInv DEF RefreshToken, Calls
  <2>3. CASE GetTokenFromCache(p)
    BY <2>3, GetTokenFromCacheInv
  <2>4. CASE ParseAndValidateJWT(p)
    BY <2>4, ParseAndValidateJWTInv
  <2>5. CASE GetByTokenHash(p)
    BY <2>5, GetByTokenHashInv
  <2>6. CASE CacheTokenClaims(p)
    BY <2>6, CacheTokenClaimsInv
  <2>7. CASE ReturnClaims(p)
    BY <2>7, JustLeave DEF ReturnClaims
  <2>8. CASE ExchangeRefreshToken(p)
    BY <2>8, ExchangeRefreshTokenInv
  <2> QED BY <1>2, <2>1, <2>2, <2>3, <2>4, <2>5, <2>6, <2>7, <2>8 DEF ValidateStep
<1>3. ASSUME NEW p \in Procs, RevokeStep(p)
      PROVE  IInv'
  BY <1>3, RevokeTokenInv, RevokeOldTokenInv, RevokeRowInv, RemoveTokenFromCacheInv DEF RevokeStep
<1>4. ASSUME NEW p \in Procs, SweepStep(p)
      PROVE  IInv'
  BY <1>4, RevokeAllUserTokensInv, SweepBlacklistInv, SweepCacheInv, RevokeAllRowsInv DEF SweepStep
<1>5. CASE Background
  BY <1>5, RotateKeysInv, CleanupInv, TickInv DEF Background
<1>6. CASE UNCHANGED vars
  BY <1>6, Stutter
<1> QED BY <1>1, <1>2, <1>3, <1>4, <1>5, <1>6 DEF Next

\* So it holds of every behaviour of the token service.
THEOREM TokenInvariant == Spec => []IInv
BY InitInv, NextInv, PTL DEF Spec

(***************************************************************************)
(* The state of the token service is always well typed.                    *)
(***************************************************************************)
THEOREM TokenTypes == Spec => []TypeOK
<1>1. IInv => TypeOK
  BY DEF IInv
<1> QED BY <1>1, TokenInvariant, PTL

(***************************************************************************)
(* Revocation works: ValidateToken does not accept, before its expiry, a   *)
(* token that was revoked before the call, unless the Redis lookup fails.  *)
(***************************************************************************)
THEOREM RevocationWorks == Spec => []RevokedRejected
<1>1. IInv => RevokedRejected
  <2> SUFFICES ASSUME IInv, NEW p \in Procs, Accepted(p), req[p].arg \in req[p].wasRevoked
               PROVE  req[p].failOpen \/ req[p].at >= tok[req[p].arg].exp
    BY DEF RevokedRejected
  <2>1. ValidateInv(p) /\ req[p].pc \in ValidatePCs
    BY DEF IInv, RequestInv, Accepted, ValidatePCs
  <2> QED BY <2>1 DEF ValidateInv
<1> QED BY <1>1, TokenInvariant, PTL

(***************************************************************************)
(* The entry that blacklistToken writes outlives the token, for every      *)
(* access and refresh expiry with AccessExpiry <= RefreshExpiry.           *)
(***************************************************************************)
THEOREM BlacklistLongEnough == Spec => []BlacklistOutlivesToken
<1>1. IInv => BlacklistOutlivesToken
  <2> SUFFICES ASSUME IInv, NEW t \in revoked
               PROVE  Live(blacklist[t]) \/ clock >= tok[t].exp
    BY DEF BlacklistOutlivesToken
  <2>1. t \in Tokens /\ clock \in Nat /\ blacklist[t] \in Nat /\ tok[t].exp \in Nat
    BY DEF IInv, TypeOK, Claims
  <2>2. Covered(t)
    BY <2>1 DEF IInv, TokenInv
  <2> QED BY <2>1, <2>2 DEF Covered, Live
<1> QED BY <1>1, TokenInvariant, PTL

(***************************************************************************)
(* The database fallback of ValidateToken rejects every token whose        *)
(* revocation, alone or of all tokens of the user, was complete.           *)
(***************************************************************************)
THEOREM FallbackWorks == Spec => []FallbackRespectsRevocation
<1>1. IInv => FallbackRespectsRevocation
  <2> SUFFICES ASSUME IInv, NEW p \in Procs, Accepted(p),
                      req[p].arg \in req[p].wasRevoked \cup req[p].wasSwept
               PROVE  req[p].via # "db"
    BY DEF FallbackRespectsRevocation
  <2>1. ValidateInv(p) /\ req[p].pc \in ValidatePCs
    BY DEF IInv, RequestInv, Accepted, ValidatePCs
  <2> QED BY <2>1 DEF ValidateInv
<1> QED BY <1>1, TokenInvariant, PTL

(***************************************************************************)
(* No token is cached or handed out without its row (GenerateTokenPair).   *)
(***************************************************************************)
THEOREM NothingUnstored == Spec => []CachedWasStored
<1>1. IInv => CachedWasStored
  BY DEF IInv, TokenInv, Stored, CachedWasStored
<1> QED BY <1>1, TokenInvariant, PTL

-----------------------------------------------------------------------------
(***************************************************************************)
(* Action properties.                                                      *)
(***************************************************************************)
\* What a step may do to the row of t.
RowStep(t) ==
    /\ RowValid(t) /\ row'[t] = "gone" => FALSE
    /\ row[t] \in Ended => row'[t] # "active"

\* A step that keeps the table keeps it so.
LEMMA SameRow ==
    ASSUME UNCHANGED row, NEW t \in Tokens
    PROVE  RowStep(t)
BY DEF RowStep, RowValid, Ended

\* Create does not touch a row that has ended.
LEMMA CreateRow ==
    ASSUME IInv, NEW p \in Procs, CreateAccess(p) \/ CreateRefresh(p), NEW t \in Tokens
    PROVE  RowStep(t)
<1>1. CASE UNCHANGED row
  BY <1>1, SameRow
<1>2. ASSUME NEW x \in Tokens, ~Stored(x), row' = [row EXCEPT ![x] = "active"]
      PROVE  RowStep(t)
  BY <1>2 DEF IInv, TypeOK, RowStep, RowValid, Ended, Stored
<1>3. /\ req[p].pc = "createA" => req[p].pair \in Tokens /\ ~Stored(req[p].pair)
      /\ req[p].pc = "createR" => NewRefresh(p) \in Tokens /\ ~Stored(NewRefresh(p))
  BY PairFacts DEF IInv, RequestInv, GenerateInv, GeneratePCs
<1>4. \/ UNCHANGED row
      \/ req[p].pc = "createA" /\ row' = [row EXCEPT ![req[p].pair] = "active"]
      \/ req[p].pc = "createR" /\ row' = [row EXCEPT ![NewRefresh(p)] = "active"]
  BY DEF CreateAccess, CreateRefresh, Create, At
<1> QED BY <1>1, <1>2, <1>3, <1>4

\* Revocations end rows as revoked.
LEMMA RevokedRow ==
    ASSUME IInv, NEW p \in Procs, RevokeRow(p) \/ RevokeAllRows(p), NEW t \in Tokens
    PROVE  RowStep(t)
BY DEF IInv, TypeOK, RevokeRow, RevokeAllRows, RowStep, RowValid, Ended, table

\* The cleanup routines delete only what has expired or was revoked.
LEMMA CleanupRow ==
    ASSUME IInv, CleanupExpiredTokens \/ DeleteRevokedTokens, NEW t \in Tokens
    PROVE  RowStep(t)
<1>1. clock \in Nat /\ tok[t].exp \in Nat
  BY DEF IInv, TypeOK, Claims
<1> QED BY <1>1 DEF CleanupExpiredTokens, DeleteRevokedTokens, DeleteRows, RowStep, RowValid, Ended

(***************************************************************************)
(* CleanupExpiredTokens and DeleteRevokedTokens delete no row that a       *)
(* validation could accept, and no step revives a row.                     *)
(***************************************************************************)
THEOREM CleanupIsSafe == Spec => CleanupKeepsValidRows
<1>1. IInv /\ [Next]_vars => \A t \in Tokens : RowStep(t)
  <2> SUFFICES ASSUME IInv, [Next]_vars, NEW t \in Tokens
               PROVE  RowStep(t)
    OBVIOUS
  <2>1. ASSUME NEW p \in Procs, GenerateStep(p) PROVE RowStep(t)
    <3>1. CASE CreateAccess(p) \/ CreateRefresh(p)
      BY <3>1, CreateRow
    <3>2. CASE ~(CreateAccess(p) \/ CreateRefresh(p))
      BY <2>1, <3>2, SameRow
         DEF GenerateStep, GenerateTokenPair, BeginPair, ReadKeyVersion, SignAccess, SignRefresh,
             Sign, CacheAccess, CacheRefresh, table
    <3> QED BY <3>1, <3>2
  <2>2. ASSUME NEW p \in Procs, ValidateStep(p) PROVE RowStep(t)
    BY <2>2, SameRow
       DEF ValidateStep, ValidateToken, RefreshToken, CheckBlacklist, GetTokenFromCache,
           ParseAndValidateJWT, GetByTokenHash, CacheTokenClaims, ReturnClaims,
           ExchangeRefreshToken, BeginPair, table
  <2>3. ASSUME NEW p \in Procs, RevokeStep(p) PROVE RowStep(t)
    BY <2>3, SameRow, RevokedRow
       DEF RevokeStep, RevokeToken, RevokeOldToken, BlacklistToken, RemoveTokenFromCache, table
  <2>4. ASSUME NEW p \in Procs, SweepStep(p) PROVE RowStep(t)
    BY <2>4, SameRow, RevokedRow
       DEF SweepStep, RevokeAllUserTokens, SweepBlacklist, SweepCache, table
  <2>5. CASE Background
    BY <2>5, SameRow, CleanupRow DEF Background, RotateKeys, Tick, table
  <2>6. CASE UNCHANGED vars
    BY <2>6, SameRow DEF vars, table
  <2> QED BY <2>1, <2>2, <2>3, <2>4, <2>5, <2>6 DEF Next
<1>2. (\A t \in Tokens : RowStep(t)) =>
        \A t \in Tokens :
          /\ RowValid(t) /\ row'[t] = "gone" => FALSE
          /\ row[t] \in {"revoked", "gone"} => row'[t] # "active"
  BY DEF RowStep, Ended
<1> QED BY <1>1, <1>2, TokenInvariant, PTL DEF Spec, CleanupKeepsValidRows

\* A request at "parse" leaves by parseAndValidateJWT only: no other step of
\* its own is enabled there, and other requests do not move it.
LEMMA OnlyParseLeaves ==
    ASSUME TypeOK, [Next]_vars, NEW p \in Procs, At(p, "parse"), req'[p].pc = "idle"
    PROVE  ParseAndValidateJWT(p)
<1>1. CASE Background \/ UNCHANGED vars
  BY <1>1 DEF Background, RotateKeys, CleanupExpiredTokens, DeleteRevokedTokens, DeleteRows, Tick,
              vars, At
<1>2. ASSUME NEW q \in Procs, q # p, GenerateStep(q) PROVE FALSE
  BY <1>2 DEF GenerateStep, GenerateTokenPair, BeginPair, ReadKeyVersion, SignAccess, SignRefresh,
              Sign, CreateAccess, CreateRefresh, Create, CacheAccess, CacheRefresh, PairDone,
              Goto, Leave, At, TypeOK
<1>3. ASSUME NEW q \in Procs, q # p, ValidateStep(q) PROVE FALSE
  BY <1>3 DEF ValidateStep, ValidateToken, RefreshToken, CheckBlacklist, GetTokenFromCache,
              ParseAndValidateJWT, GetByTokenHash, CacheTokenClaims, ReturnClaims,
              ExchangeRefreshToken, BeginPair, Goto, Leave, At, TypeOK
<1>4. ASSUME NEW q \in Procs, q # p, RevokeStep(q) PROVE FALSE
  BY <1>4 DEF RevokeStep, RevokeToken, RevokeOldToken, BlacklistToken, RevokeRow,
              RemoveTokenFromCache, EndRevoke, Goto, Leave, At, TypeOK
<1>5. ASSUME NEW q \in Procs, q # p, SweepStep(q) PROVE FALSE
  BY <1>5 DEF SweepStep, RevokeAllUserTokens, SweepBlacklist, SweepCache, RevokeAllRows,
              Leave, At, TypeOK
<1>6. CASE GenerateStep(p)
  BY <1>6 DEF GenerateStep, GenerateTokenPair, ReadKeyVersion, SignAccess, SignRefresh,
              CreateAccess, CreateRefresh, CacheAccess, CacheRefresh, At
<1>7. CASE ValidateStep(p)
  BY <1>7 DEF ValidateStep, ValidateToken, RefreshToken, CheckBlacklist, GetTokenFromCache,
              GetByTokenHash, CacheTokenClaims, ReturnClaims, ExchangeRefreshToken, At
<1>8. CASE RevokeStep(p)
  BY <1>8 DEF RevokeStep, RevokeToken, RevokeOldToken, RevokeRow, RemoveTokenFromCache, At
<1>9. CASE SweepStep(p)
  BY <1>9 DEF SweepStep, RevokeAllUserTokens, SweepBlacklist, SweepCache, RevokeAllRows, At
<1> QED BY <1>1, <1>2, <1>3, <1>4, <1>5, <1>6, <1>7, <1>8, <1>9 DEF Next

(***************************************************************************)
(* One rotation of the keys costs no client its token (rotateKeys keeps    *)
(* the previous key, and parseAndValidateJWT looks for it).                *)
(***************************************************************************)
THEOREM RotationIsSafe == Spec => RotationSparesTokens
<1>1. IInv /\ [Next]_vars =>
        \A p \in Procs :
          At(p, "parse") /\ req'[p].pc = "idle" =>
              LET c == tok[req[p].arg]
              IN  clock >= c.exp \/ c.ver + 2 <= keyVersion \/ c.key # c.ver
  <2> SUFFICES ASSUME IInv, [Next]_vars, NEW p \in Procs, At(p, "parse"), req'[p].pc = "idle"
               PROVE  \/ clock >= tok[req[p].arg].exp
                      \/ tok[req[p].arg].ver + 2 <= keyVersion
                      \/ tok[req[p].arg].key # tok[req[p].arg].ver
    OBVIOUS
  <2>1. ParseAndValidateJWT(p) /\ req[p].pc \in ValidatePCs /\ TypeOK /\ Counters
    BY OnlyParseLeaves DEF IInv, At, ValidatePCs
  <2>2. req[p].arg \in Tokens /\ Stored(req[p].arg)
    BY <2>1, ValidateArg
  <2>3. /\ tok[req[p].arg].ver \in Nat /\ 1 <= tok[req[p].arg].ver
        /\ tok[req[p].arg].ver <= keyVersion /\ keyVersion \in Nat
        /\ clock \in Nat /\ tok[req[p].arg].exp \in Nat
    BY <2>2 DEF IInv, TypeOK, Claims, TokenInv
  <2>4. ~(SignatureValid(tok[req[p].arg]) /\ clock < tok[req[p].arg].exp)
    <3>1. Goto(p, "dbGet") => req'[p].pc = "dbGet"
      BY <2>1, GotoType DEF PCs, ValidatePCs
    <3> QED BY <2>1, <3>1 DEF ParseAndValidateJWT
  <2> QED BY <2>3, <2>4 DEF SignatureValid
<1> QED BY <1>1, TokenInvariant, PTL DEF Spec, RotationSparesTokens
=============================================================================
