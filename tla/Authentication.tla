--------------------------- MODULE Authentication ---------------------------
(***************************************************************************)
(* Logging in: Authenticate, ChangePassword and SetupTwoFactor of          *)
(* internal/application/services/auth_service.go, the rate limiter of      *)
(* rate_limiter.go and the columns of the users table they work on         *)
(* (infrastructure/repositories/user_repository.go).                       *)
(*                                                                         *)
(* There is one account, one email and one IP address: requests compete    *)
(* only about those.  Procs are the requests in flight; each access to the *)
(* database or to the cache is a step.  A moment in time is kept as the    *)
(* time that is left until it, which Tick counts down.  A password is its  *)
(* version, "wrong" is any other one.  The token service is abstracted to  *)
(* the passwords whose tokens are still valid.                             *)
(***************************************************************************)
EXTENDS Integers, FiniteSets

CONSTANTS
    Procs,        \* the requests in flight
    Codes,        \* the backup codes SetupTwoFactor generates
    NoCode,       \* TwoFactorCode = ""
    Totp,         \* a right code of the authenticator
    MaxLogins,    \* handleFailedLogin's maxAttempts
    MaxEmail,     \* maxAttemptsPerEmail
    MaxIP,        \* maxAttemptsPerIP
    Window,       \* the window and the lockout durations
    Offered,      \* the calls made: "login", "unknown", "password", "twofa"
    Failures,     \* what may fail: "cache", "db"
    MaxPassword   \* bound on the passwords

ASSUME AuthenticationAssumption ==
    /\ IsFiniteSet(Procs) /\ Procs # {}
    /\ MaxLogins \in Nat \ {0} /\ MaxEmail \in Nat \ {0} /\ MaxIP \in Nat \ {0}
    /\ Window \in Nat \ {0} /\ MaxPassword \in Nat
    /\ NoCode \notin Codes /\ Totp \notin Codes /\ Totp # NoCode
    /\ Failures \subseteq {"cache", "db"}
    /\ Offered \subseteq {"login", "unknown", "password", "twofa"}

VARIABLES
    row,       \* the user's row
    count,     \* ratelimit:email:attempts and ratelimit:ip:attempts
    countTTL,  \* the time left to each
    lockTTL,   \* the time left to ratelimit:email:lock and ratelimit:ip:lock
    req,       \* the requests
    live,      \* the passwords whose tokens are valid
    guesses    \* history: wrong passwords since the last lock or login (up to a bound)

limiter == <<count, countTTL, lockTTL>>
vars == <<row, limiter, req, live, guesses>>

-----------------------------------------------------------------------------
Keys == {"email", "ip"}
Count(k) == IF k = "email" THEN "count_email" ELSE "count_ip"
Lock(k)  == IF k = "email" THEN "lock_email" ELSE "lock_ip"
Limit(k) == IF k = "email" THEN MaxEmail ELSE MaxIP
Times == 0 .. Window

Passwords == 0 .. MaxPassword
Wrong == -1

\* failed_login_attempts is only compared with maxAttempts: larger values are
\* all the same.  The counters of the limiter likewise.
CountUp(n, max) == IF n < max THEN n + 1 ELSE max

Rows == [failed : 0 .. MaxLogins, locked : Times, hash : Passwords,
         twofa : BOOLEAN, codes : SUBSET Codes]
NewRow == [failed |-> 0, locked |-> 0, hash |-> 0, twofa |-> FALSE, codes |-> {}]

PCs == {"idle", "email", "count_email", "lock_email", "ip", "count_ip", "lock_ip",
        "getUser", "verify", "twofa", "reset", "issue", "increment", "lock",
        "get_email", "set_email", "get_ip", "set_ip", "getByID", "check", "save", "sweep"}

Requests == [pc : PCs, call : {"none", "login", "unknown", "password", "twofa"},
             pw : Passwords \cup {Wrong}, code : Codes \cup {NoCode, Totp},
             row : Rows,                     \* the row as the request read it
             cnt : Nat]                      \* the counter as it read it

Idle == [pc |-> "idle", call |-> "none", pw |-> Wrong, code |-> NoCode,
         row |-> NewRow, cnt |-> 0]

Init ==
    /\ row = NewRow
    /\ count = [k \in Keys |-> 0]
    /\ countTTL = [k \in Keys |-> 0]
    /\ lockTTL = [k \in Keys |-> 0]
    /\ req = [p \in Procs |-> Idle]
    /\ live = {}
    /\ guesses = 0

MayFail(what) == what \in Failures

At(p, l) == req[p].pc = l
Goto(p, l) == req' = [req EXCEPT ![p].pc = l]
Leave(p) == req' = [req EXCEPT ![p] = Idle]

-----------------------------------------------------------------------------
(***************************************************************************)
(* Faulty variants.                                                        *)
(***************************************************************************)
\* user.FailedLoginAttempts >= maxAttempts, without the + 1.
LateLimit(seen) == seen >= MaxLogins

\* A request that is turned away counts as an attempt.
CheckLockCounts(p, k) ==
    /\ \/ /\ lockTTL[k] > 0
          /\ lockTTL' = [lockTTL EXCEPT ![k] = Window]
          /\ countTTL' = [countTTL EXCEPT ![k] = Window]
          /\ Leave(p)
       \/ lockTTL[k] = 0 /\ Goto(p, Count(k)) /\ UNCHANGED <<lockTTL, countTTL>>
       \/ MayFail("cache") /\ Goto(p, "getUser") /\ UNCHANGED <<lockTTL, countTTL>>
    /\ UNCHANGED <<row, count, live, guesses>>

-----------------------------------------------------------------------------
(***************************************************************************)
(* Authenticate.                                                           *)
(***************************************************************************)
Authenticate(p, call, pw, code) ==
    /\ At(p, "idle")
    /\ req' = [req EXCEPT ![p] = [Idle EXCEPT !.pc = "email", !.call = call,
                                              !.pw = pw, !.code = code]]
    /\ UNCHANGED <<row, limiter, live, guesses>>

(***************************************************************************)
(* isEmailBlocked, and then isIPBlocked: the lock, the counter, and the    *)
(* lock that a counter at its limit puts in place.                         *)
(***************************************************************************)
\* Exists(lockKey): an error of the cache lets the request pass both checks.
CheckLock(p, k) ==
    /\ \/ lockTTL[k] > 0 /\ Leave(p)
       \/ lockTTL[k] = 0 /\ Goto(p, Count(k))
       \/ MayFail("cache") /\ Goto(p, "getUser")
    /\ UNCHANGED <<row, limiter, live, guesses>>

\* getAttemptCount: an error of Get reads as no attempts.
CheckCount(p, k, then) ==
    /\ At(p, Count(k))
    /\ \/ count[k] >= Limit(k) /\ Goto(p, Lock(k))
       \/ (count[k] < Limit(k) \/ MayFail("cache")) /\ Goto(p, then)
    /\ UNCHANGED <<row, limiter, live, guesses>>

\* lockEmail and lockIP, whose failure is only logged: the request is blocked.
PutLock(p, k) ==
    /\ At(p, Lock(k))
    /\ \/ lockTTL' = [lockTTL EXCEPT ![k] = Window]
       \/ MayFail("cache") /\ UNCHANGED lockTTL
    /\ Leave(p)
    /\ UNCHANGED <<row, count, countTTL, live, guesses>>

IsEmailBlocked(p) ==
    \/ At(p, "email") /\ CheckLock(p, "email")
    \/ CheckCount(p, "email", "ip") \/ PutLock(p, "email")

IsIPBlocked(p) ==
    \/ At(p, "ip") /\ CheckLock(p, "ip")
    \/ CheckCount(p, "ip", "getUser") \/ PutLock(p, "ip")

IsBlocked(p) == IsEmailBlocked(p) \/ IsIPBlocked(p)

\* getUserByEmail and IsLocked.  No row, or an error, counts as a failed
\* attempt of the email.
GetUserByEmail(p) ==
    /\ At(p, "getUser")
    /\ \/ /\ req[p].call = "login"
          /\ req' = [req EXCEPT ![p] = IF row.locked > 0 THEN Idle
                                       ELSE [@ EXCEPT !.pc = "verify", !.row = row]]
       \/ /\ req[p].call = "unknown" \/ MayFail("db")
          /\ Goto(p, "get_email")
    /\ UNCHANGED <<row, limiter, live, guesses>>

\* verifyPassword, against the row as it was read
VerifyPassword(p) ==
    /\ At(p, "verify")
    /\ IF req[p].pw = req[p].row.hash
       THEN Goto(p, "twofa") /\ UNCHANGED guesses
       ELSE Goto(p, "increment") /\ guesses' = CountUp(guesses, MaxLogins + 2 * Cardinality(Procs))
    /\ UNCHANGED <<row, limiter, live>>

\* verifyTwoFactorCode.  The used backup code is cut out of the slice of the
\* row that was read, which is never saved.
CodeValid(code, codes) == code = Totp \/ code \in codes

VerifyTwoFactorCode(p) ==
    LET r == req[p]
    IN  /\ At(p, "twofa")
        /\ \/ ~r.row.twofa /\ Goto(p, "reset") /\ UNCHANGED guesses
           \/ r.row.twofa /\ r.code = NoCode /\ Leave(p) /\ UNCHANGED guesses
           \/ /\ r.row.twofa /\ CodeValid(r.code, r.row.codes)
              /\ Goto(p, "reset")
              /\ UNCHANGED guesses
           \/ /\ r.row.twofa /\ r.code # NoCode /\ ~CodeValid(r.code, r.row.codes)
              /\ Goto(p, "increment")
              /\ guesses' = CountUp(guesses, MaxLogins + 2 * Cardinality(Procs))
        /\ UNCHANGED <<row, limiter, live>>

\* userRepo.ResetFailedLoginAttempts, whose failure is only logged.
ResetFailedLoginAttempts(p) ==
    /\ At(p, "reset")
    /\ \/ /\ row' = [row EXCEPT !.failed = 0, !.locked = 0]
          /\ guesses' = 0
       \/ MayFail("db") /\ UNCHANGED <<row, guesses>>
    /\ Goto(p, "issue")
    /\ UNCHANGED <<limiter, live>>

\* tokenService.GenerateTokenPair
IssueTokens(p) ==
    /\ At(p, "issue")
    /\ \/ live' = live \cup {req[p].pw}
       \/ MayFail("db") /\ UNCHANGED live
    /\ Leave(p)
    /\ UNCHANGED <<row, limiter, guesses>>

-----------------------------------------------------------------------------
(***************************************************************************)
(* handleFailedLogin and recordFailedAttempt.                              *)
(***************************************************************************)
\* failed_login_attempts + 1, computed by the database; an error ends the
\* handling of the failure.
IncrementFailedLoginAttempts(p) ==
    /\ At(p, "increment")
    /\ \/ row' = [row EXCEPT !.failed = CountUp(@, MaxLogins)] /\ Goto(p, "lock")
       \/ MayFail("db") /\ Leave(p) /\ UNCHANGED row
    /\ UNCHANGED <<limiter, live, guesses>>

\* The number that decides is the one the request read at its beginning.
LimitReached(seen) == seen + 1 >= MaxLogins

LockUser(p) ==
    /\ At(p, "lock")
    /\ \/ /\ LimitReached(req[p].row.failed)
          /\ row' = [row EXCEPT !.locked = Window]
          /\ guesses' = 0
       \/ /\ ~LimitReached(req[p].row.failed) \/ MayFail("db")
          /\ UNCHANGED <<row, guesses>>
    /\ Goto(p, "get_email")
    /\ UNCHANGED <<limiter, live>>

\* incrementAttempts: the counter is read and written in two steps.  An error
\* of Get reads as 0; one of Set ends RecordAttempt.
GetAttemptCount(p, k, then) ==
    /\ \/ req' = [req EXCEPT ![p].pc = then, ![p].cnt = count[k]]
       \/ MayFail("cache") /\ req' = [req EXCEPT ![p].pc = then, ![p].cnt = 0]
    /\ UNCHANGED <<row, limiter, live, guesses>>

SetAttemptCount(p, k) ==
    /\ count' = [count EXCEPT ![k] = CountUp(req[p].cnt, Limit(k))]
    /\ countTTL' = [countTTL EXCEPT ![k] = Window]
    /\ UNCHANGED <<row, lockTTL, live, guesses>>

GetEmailAttempts(p) == At(p, "get_email") /\ GetAttemptCount(p, "email", "set_email")

RecordEmailAttempt(p) ==
    /\ At(p, "set_email")
    /\ \/ /\ SetAttemptCount(p, "email")
          /\ Goto(p, "get_ip")
       \/ MayFail("cache") /\ Leave(p) /\ UNCHANGED <<row, limiter, live, guesses>>

GetIPAttempts(p) == At(p, "get_ip") /\ GetAttemptCount(p, "ip", "set_ip")

RecordIPAttempt(p) ==
    /\ At(p, "set_ip")
    /\ Leave(p)
    /\ \/ SetAttemptCount(p, "ip")
       \/ MayFail("cache") /\ UNCHANGED <<row, limiter, live, guesses>>

-----------------------------------------------------------------------------
(***************************************************************************)
(* ChangePassword and SetupTwoFactor: the row is read, changed and saved   *)
(* as a whole.                                                             *)
(***************************************************************************)
BeginUpdate(p, call, pw) ==
    /\ At(p, "idle")
    /\ req' = [req EXCEPT ![p] = [Idle EXCEPT !.pc = "getByID", !.call = call, !.pw = pw]]
    /\ UNCHANGED <<row, limiter, live, guesses>>

ChangePassword(p, pw) == BeginUpdate(p, "password", pw)

SetupTwoFactor(p) == BeginUpdate(p, "twofa", Wrong)

GetByID(p) ==
    /\ At(p, "getByID")
    /\ \/ req' = [req EXCEPT ![p].pc = IF req[p].call = "password" THEN "check" ELSE "save",
                             ![p].row = row]
       \/ MayFail("db") /\ Leave(p)
    /\ UNCHANGED <<row, limiter, live, guesses>>

\* verifyPassword and HashPasswordSync; the last password is not changed.
CheckCurrentPassword(p) ==
    /\ At(p, "check")
    /\ IF req[p].pw = req[p].row.hash /\ req[p].row.hash < MaxPassword
       THEN Goto(p, "save")
       ELSE Leave(p)
    /\ UNCHANGED <<row, limiter, live, guesses>>

\* What the request makes of the row it read.
Changed(r) ==
    IF r.call = "password"
    THEN {[r.row EXCEPT !.hash = @ + 1]}
    ELSE {[r.row EXCEPT !.twofa = TRUE, !.codes = Codes],
          [r.row EXCEPT !.twofa = FALSE, !.codes = {}]}

SaveUser(p) ==
    /\ At(p, "save")
    /\ \/ /\ row' \in Changed(req[p])
          /\ IF req[p].call = "password"
             THEN Goto(p, "sweep")
             ELSE Leave(p)
       \/ /\ MayFail("db")
          /\ Leave(p)
          /\ UNCHANGED row
    /\ UNCHANGED <<limiter, live, guesses>>

\* RevokeAllUserTokens of both types; failures are only logged.
RevokeAllUserTokens(p) ==
    /\ At(p, "sweep")
    /\ \/ live' = {}
       \/ MayFail("db") /\ UNCHANGED live
    /\ Leave(p)
    /\ UNCHANGED <<row, limiter, guesses>>

-----------------------------------------------------------------------------
\* Time passes.
Less(n) == IF n > 0 THEN n - 1 ELSE 0

Tick ==
    /\ row' = [row EXCEPT !.locked = Less(@)]
    /\ countTTL' = [k \in Keys |-> Less(countTTL[k])]
    /\ lockTTL' = [k \in Keys |-> Less(lockTTL[k])]
    /\ count' = [k \in Keys |-> IF countTTL[k] > 1 THEN count[k] ELSE 0]
    /\ req' = [p \in Procs |-> [req[p] EXCEPT !.row.locked = Less(@)]]
    /\ UNCHANGED <<live, guesses>>

-----------------------------------------------------------------------------
LoginStep(p) ==
    \/ \E call \in {"login", "unknown"} \cap Offered, pw \in Passwords \cup {Wrong},
          code \in Codes \cup {NoCode, Totp} : Authenticate(p, call, pw, code)
    \/ IsBlocked(p) \/ GetUserByEmail(p) \/ VerifyPassword(p)
    \/ VerifyTwoFactorCode(p) \/ ResetFailedLoginAttempts(p) \/ IssueTokens(p)

FailureStep(p) ==
    \/ IncrementFailedLoginAttempts(p) \/ LockUser(p)
    \/ GetEmailAttempts(p) \/ RecordEmailAttempt(p) \/ GetIPAttempts(p) \/ RecordIPAttempt(p)

UpdateStep(p) ==
    \/ "password" \in Offered /\ \E pw \in Passwords \cup {Wrong} : ChangePassword(p, pw)
    \/ "twofa" \in Offered /\ SetupTwoFactor(p)
    \/ GetByID(p) \/ CheckCurrentPassword(p) \/ SaveUser(p) \/ RevokeAllUserTokens(p)

Next == Tick \/ \E p \in Procs : LoginStep(p) \/ FailureStep(p) \/ UpdateStep(p)

Spec == Init /\ [][Next]_vars

-----------------------------------------------------------------------------
(***************************************************************************)
(* The lockout holds up under concurrency: between two locks or logins no  *)
(* more wrong passwords are tried on the account than the limit plus two   *)
(* for each other request in flight (one that decides by a number it read  *)
(* before, and one that passes the check before another sets the lock).    *)
(***************************************************************************)
GuessesBounded == guesses <= MaxLogins + 2 * (Cardinality(Procs) - 1)

(***************************************************************************)
(* A block of the rate limiter ends, however often requests are made while *)
(* it is in place: neither the lock nor the counter behind it is renewed.  *)
(***************************************************************************)
BlockEnds ==
    \A k \in Keys : lockTTL[k] > 0 ~> (lockTTL[k] = 0 /\ count[k] < Limit(k))

=============================================================================
