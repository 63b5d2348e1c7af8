---------------------------- MODULE Credentials ----------------------------
(***************************************************************************)
(* The password of one account: Login with its lockout, its MFA gate and   *)
(* its transparent rehash, the challenge a login with MFA ends in and the  *)
(* session VerifyMFALogin opens on it, ChangePassword, and the reset flow  *)
(* by mailed token.  The state is the account's row in users, its email    *)
(* row in auth_identities, its rows in password_resets and the challenges  *)
(* in Redis; each store call of a request is one step, and requests        *)
(* interleave between any two.                                             *)
(*                                                                         *)
(* A request works on the row it read first: Login has decided about the   *)
(* password, the lock, the status and the rehash from that snapshot,       *)
(* however old it has become.  Argon2 is taken to be exact: the stored     *)
(* hash is the password and whether its parameters and pepper are still    *)
(* the current ones.  How a session is issued and revoked in the two       *)
(* stores is the subject of Sessions, and how a second factor is checked   *)
(* that of Mfa; here a session or a challenge is the password it was       *)
(* obtained with.                                                          *)
(***************************************************************************)
EXTENDS Naturals, FiniteSets

CONSTANTS
    Req,         \* request slots
    Password,
    ResetToken,  \* tokens auth.RandomToken can return for resets
    NoPassword, NoToken,
    MaxFailed,   \* config.Loaded.LoginMaxFailedAttempts
    FailedBound, \* bound on failed_attempts: wrong passwords stop arriving
    Ops,         \* what happens to the account, a subset of AllOps
    Faults       \* TRUE: any store call may fail

AllOps == {"login", "request", "admin", "reset", "change", "totp", "email", "status", "retire"}

ASSUME CredentialsAssumption ==
    /\ IsFiniteSet(Req)
    /\ NoPassword \notin Password /\ NoToken \notin ResetToken
    /\ MaxFailed \in Nat \ {0} /\ FailedBound \in Nat
    /\ Ops \subseteq AllOps /\ Faults \in BOOLEAN

VARIABLES
    hash,     \* auth_identities.password_hash
    failed,   \* auth_identities.failed_attempts
    lock,     \* locked_at: "none", "locked", or "over" once the window has passed
    status,   \* "active", "blocked" (banned or disabled) or "deleted"
    mfa,      \* the factors that are verified and enabled
    resets,   \* resets[t]: "none", "active", "used" or "expired"
    cooldown, \* the newest password_resets row is younger than a minute
    open,     \* the passwords that open sessions were obtained with
    challenges, \* the passwords that live mfa_pending challenges were obtained with
    req,      \* req[r]: the local state of request r
    mailed,   \* history: tokens that reached the owner's mailbox
    lastSet,  \* history: the password a reset or change set last
    carried,  \* history: the passwords that outlived that moment, see Carried
    guesses,  \* history: wrong passwords compared since the counter was cleared
              \* or the lock lapsed, less the ones a failing call kept uncounted
    spent     \* history: spent[t]: resets completed with token t

stores == <<hash, failed, lock, status, mfa, resets, cooldown, open, challenges>>
hist == <<mailed, lastSet, carried, guesses, spent>>
vars == <<hash, failed, lock, status, mfa, resets, cooldown, open, challenges, req,
          mailed, lastSet, carried, guesses, spent>>

Hash == [pw : Password, current : BOOLEAN]
Factor == {"totp", "email"}

\* A login whose password was compared: still to be rehashed, or not.
MayRehash == {"clear", "totp", "email", "rehash"}
LoggingIn == MayRehash \cup {"challenge", "second", "status", "redeem", "issue"}

Pc == LoggingIn \cup {"idle", "inc", "lock", "cool", "create", "mail", "owner",
                      "resetTx", "changeTx"}

\* pw: the password given (for a reset or change: the new one); via: the
\* session a change is made from; stale: the hash read needs a rehash; token:
\* the reset token; found: a factor was found; passed: the second factor was
\* checked; off (history): the factors that were off at some moment of the
\* request.
Request == [pc : Pc, pw : Password \cup {NoPassword}, via : Password \cup {NoPassword},
            stale : BOOLEAN, token : ResetToken \cup {NoToken},
            found : BOOLEAN, passed : BOOLEAN, off : SUBSET Factor]

Idle == [pc |-> "idle", pw |-> NoPassword, via |-> NoPassword, stale |-> FALSE,
         token |-> NoToken, found |-> FALSE, passed |-> FALSE, off |-> {}]

At(r, p) == req[r].pc = p
Goto(r, p) == req' = [req EXCEPT ![r].pc = p]
Finish(r) == req' = [req EXCEPT ![r] = Idle]

\* A store call either works or reports an error without effect.
Outcome == IF Faults THEN {"ok", "lost"} ELSE {"ok"}

Begin(r, p, pw) ==
    req' = [req EXCEPT ![r] = [Idle EXCEPT !.pc = p, !.pw = pw,
                                           !.stale = ~hash.current,
                                           !.off = Factor \ mfa]]

\* What a change of the password does not take back: the passwords of the
\* logins in flight, some of which are about to rehash, and of the challenges.
Carried ==
    [rehash |-> {req[r].pw : r \in {q \in Req : req[q].pc \in MayRehash /\ req[q].stale}},
     login  |-> challenges \cup {req[r].pw : r \in {q \in Req : req[q].pc \in LoggingIn}}]

-----------------------------------------------------------------------------
(* Login *)

\* GetEmailAuthByEmail, and everything decided on the row it returns.  A
\* deleted or locked account is refused before the comparison, the right
\* password of a blocked account after it; neither changes anything.
LoginRead(r, pw) ==
    /\ "login" \in Ops /\ req[r] = Idle
    /\ status # "deleted" /\ lock # "locked"
    /\ \/ /\ pw # hash.pw
          /\ failed + Cardinality(Req) =< FailedBound /\ guesses < FailedBound
          /\ guesses' = guesses + 1
          /\ Begin(r, "inc", pw)
       \/ /\ pw = hash.pw /\ status = "active"
          /\ Begin(r, "clear", pw)
          /\ UNCHANGED guesses
    /\ UNCHANGED <<stores, mailed, lastSet, carried, spent>>

\* Faulty variant: off by one in the comparison with the limit.
IncrementLate(r, o) ==
    /\ At(r, "inc")
    /\ failed' = failed + 1
    /\ IF failed + 1 > MaxFailed THEN Goto(r, "lock") ELSE Finish(r)
    /\ UNCHANGED <<hash, lock, status, mfa, resets, cooldown, open, challenges, hist>>

Uncounted(o) == guesses' = IF o = "ok" \/ guesses = 0 THEN guesses ELSE guesses - 1

\* One UPDATE ... RETURNING; an error is logged and nothing is locked.
IncrementFailedLoginAttempts(r, o) ==
    /\ At(r, "inc")
    /\ failed' = IF o = "ok" THEN failed + 1 ELSE failed
    /\ IF o = "ok" /\ failed + 1 >= MaxFailed THEN Goto(r, "lock") ELSE Finish(r)
    /\ Uncounted(o)
    /\ UNCHANGED <<hash, lock, status, mfa, resets, cooldown, open, challenges,
                   mailed, lastSet, carried, spent>>

LockAuthIdentity(r, o) ==
    /\ At(r, "lock")
    /\ lock' = IF o = "ok" THEN "locked" ELSE lock
    /\ Finish(r)
    /\ Uncounted(o)
    /\ UNCHANGED <<hash, failed, status, mfa, resets, cooldown, open, challenges,
                   mailed, lastSet, carried, spent>>

\* Faulty variant: the counter goes down by one.
ResetByOne(r, o) ==
    /\ At(r, "clear")
    /\ failed' = failed - 1 /\ lock' = "none" /\ guesses' = 0
    /\ Goto(r, "totp")
    /\ UNCHANGED <<hash, status, mfa, resets, cooldown, open, challenges,
                   mailed, lastSet, carried, spent>>

\* An error is only logged.
ResetFailedLoginAttempts(r, o) ==
    /\ At(r, "clear")
    /\ IF o = "ok"
       THEN failed' = 0 /\ lock' = "none" /\ guesses' = 0
       ELSE UNCHANGED <<failed, lock, guesses>>
    /\ Goto(r, "totp")
    /\ UNCHANGED <<hash, status, mfa, resets, cooldown, open, challenges,
                   mailed, lastSet, carried, spent>>

\* Faulty variant: a failing lookup is taken for "no such factor".
GetTOTPFactorOpen(r, o) ==
    /\ At(r, "totp")
    /\ req' = [req EXCEPT ![r].pc = "email",
                          ![r].found = o = "ok" /\ "totp" \in mfa]
    /\ UNCHANGED <<stores, hist>>

\* listEnabledMFAMethods, first query; an error fails the login.
GetTOTPFactorByUserID(r, o) ==
    /\ At(r, "totp")
    /\ IF o = "ok"
       THEN req' = [req EXCEPT ![r] = [@ EXCEPT !.pc = "email", !.found = "totp" \in mfa]]
       ELSE Finish(r)
    /\ UNCHANGED <<stores, hist>>

\* Its second query; with a factor found the login ends in a challenge.
GetOTPFactorByUserID(r, o) ==
    /\ At(r, "email")
    /\ IF o # "ok" THEN Finish(r)
       ELSE Goto(r, IF req[r].found \/ "email" \in mfa THEN "challenge"
                    ELSE IF req[r].stale THEN "rehash" ELSE "issue")
    /\ UNCHANGED <<stores, hist>>

\* The temporary session of an mfa_pending token, which names the account only.
GenerateTemporaryJWT(r, o) ==
    /\ At(r, "challenge")
    /\ challenges' = IF o = "ok" THEN challenges \cup {req[r].pw} ELSE challenges
    /\ Finish(r)
    /\ UNCHANGED <<hash, failed, lock, status, mfa, resets, cooldown, open, hist>>

\* UpdatePasswordHash with the password just verified against row.
Rehash(r, o) ==
    /\ At(r, "rehash")
    /\ hash' = IF o = "ok" THEN [pw |-> req[r].pw, current |-> TRUE] ELSE hash
    /\ Goto(r, "issue")
    /\ UNCHANGED <<failed, lock, status, mfa, resets, cooldown, open, challenges, hist>>

issueLoginSession(r, o) ==
    /\ At(r, "issue")
    /\ open' = IF o = "ok" THEN open \cup {req[r].pw} ELSE open
    /\ Finish(r)
    /\ UNCHANGED <<hash, failed, lock, status, mfa, resets, cooldown, challenges, hist>>

-----------------------------------------------------------------------------
(* VerifyMFALogin, from the challenge of a login with password pw *)

VerifyMFALogin(r, pw) ==
    /\ "login" \in Ops /\ req[r] = Idle
    /\ pw \in challenges
    /\ req' = [req EXCEPT ![r] = [Idle EXCEPT !.pc = "second", !.pw = pw]]
    /\ UNCHANGED <<stores, hist>>

\* Refused without an enabled factor; a wrong code changes nothing here.
CheckSecondFactor(r, o) ==
    /\ At(r, "second")
    /\ \/ /\ o = "ok" /\ mfa # {}
          /\ req' = [req EXCEPT ![r] = [@ EXCEPT !.pc = "status", !.passed = TRUE]]
       \/ Finish(r)
    /\ UNCHANGED <<stores, hist>>

\* GetEmailAuthByUserID and the status; the password is not looked at again.
RecheckStatus(r, o) ==
    /\ At(r, "status")
    /\ IF o = "ok" /\ status = "active" THEN Goto(r, "redeem") ELSE Finish(r)
    /\ UNCHANGED <<stores, hist>>

\* An error is only logged; another login may have left a like challenge.
DeleteTemporarySession(r, o) ==
    /\ At(r, "redeem")
    /\ \/ o = "ok" /\ challenges' = challenges \ {req[r].pw}
       \/ UNCHANGED challenges
    /\ Goto(r, "issue")
    /\ UNCHANGED <<hash, failed, lock, status, mfa, resets, cooldown, open, hist>>

-----------------------------------------------------------------------------
(* The reset flow *)

\* An account that is not usable gets the same answer and no mail.
RequestPasswordReset(r) ==
    /\ "request" \in Ops /\ req[r] = Idle
    /\ status = "active"
    /\ Begin(r, "cool", NoPassword)
    /\ UNCHANGED <<stores, hist>>

\* An error of the lookup does not stop the request.
GetLatestPasswordResetForUser(r, o) ==
    /\ At(r, "cool")
    /\ IF o = "ok" /\ cooldown THEN Finish(r) ELSE Goto(r, "create")
    /\ UNCHANGED <<stores, hist>>

\* loadAdminTarget asks neither for the status nor for the cooldown.
AdminResetUserPassword(r) ==
    /\ "admin" \in Ops /\ req[r] = Idle
    /\ Begin(r, "create", NoPassword)
    /\ UNCHANGED <<stores, hist>>

\* Running out of ResetToken, the bound on resets, is RandomToken's error.
CreatePasswordReset(r, o) ==
    /\ At(r, "create")
    /\ \/ /\ o = "ok"
          /\ \E t \in ResetToken :
               /\ resets[t] = "none"
               /\ resets' = [resets EXCEPT ![t] = "active"]
               /\ req' = [req EXCEPT ![r] = [@ EXCEPT !.pc = "mail", !.token = t]]
          /\ cooldown' = TRUE
       \/ /\ o # "ok" \/ \A t \in ResetToken : resets[t] # "none"
          /\ Finish(r)
          /\ UNCHANGED <<resets, cooldown>>
    /\ UNCHANGED <<hash, failed, lock, status, mfa, open, challenges, hist>>

\* A mail that cannot be sent leaves the row in place.
SendPasswordResetEmail(r, o) ==
    /\ At(r, "mail")
    /\ mailed' = IF o = "ok" THEN mailed \cup {req[r].token} ELSE mailed
    /\ Finish(r)
    /\ UNCHANGED <<stores, lastSet, carried, guesses, spent>>

\* Faulty variant: used_at is not looked at.
GetAnyPasswordReset(r, t, pw) ==
    /\ "reset" \in Ops /\ req[r] = Idle
    /\ t \in mailed /\ resets[t] \in {"active", "used"}
    /\ req' = [req EXCEPT ![r] = [Idle EXCEPT !.pc = "owner", !.pw = pw,
                                              !.token = t]]
    /\ UNCHANGED <<stores, hist>>

\* ResetPassword: an unused, unexpired row with this token's hash.
GetActivePasswordReset(r, t, pw) ==
    /\ "reset" \in Ops /\ req[r] = Idle
    /\ t \in mailed /\ resets[t] = "active"
    /\ req' = [req EXCEPT ![r] = [Idle EXCEPT !.pc = "owner", !.pw = pw,
                                              !.token = t]]
    /\ UNCHANGED <<stores, hist>>

\* GetEmailAuthByUserID and the status check.
CheckOwner(r, o) ==
    /\ At(r, "owner")
    /\ IF o = "ok" /\ status = "active" THEN Goto(r, "resetTx") ELSE Finish(r)
    /\ UNCHANGED <<stores, hist>>

\* Faulty variant: the password hash is not updated.
ResetKeepsHash(r, o) ==
    /\ At(r, "resetTx")
    /\ resets' = [resets EXCEPT ![req[r].token] = "used"]
    /\ spent' = [spent EXCEPT ![req[r].token] = @ + 1]
    /\ lastSet' = req[r].pw /\ carried' = Carried
    /\ open' = {}
    /\ Finish(r)
    /\ UNCHANGED <<hash, failed, lock, status, mfa, cooldown, challenges, mailed, guesses>>

\* Faulty variant: the sessions are left alone.
ResetKeepsSessions(r, o) ==
    /\ At(r, "resetTx")
    /\ resets' = [resets EXCEPT ![req[r].token] = "used"]
    /\ spent' = [spent EXCEPT ![req[r].token] = @ + 1]
    /\ hash' = [pw |-> req[r].pw, current |-> TRUE]
    /\ lastSet' = req[r].pw /\ carried' = Carried
    /\ Finish(r)
    /\ UNCHANGED <<failed, lock, status, mfa, cooldown, open, challenges, mailed, guesses>>

\* One transaction; the token's row is marked used whatever it was.
CompletePasswordReset(r, o) ==
    /\ At(r, "resetTx")
    /\ IF o = "ok"
       THEN /\ resets' = [resets EXCEPT ![req[r].token] = "used"]
            /\ spent' = [spent EXCEPT ![req[r].token] = @ + 1]
            /\ hash' = [pw |-> req[r].pw, current |-> TRUE]
            /\ lastSet' = req[r].pw /\ carried' = Carried
            /\ open' = {}
       ELSE UNCHANGED <<resets, spent, hash, lastSet, carried, open>>
    /\ Finish(r)
    /\ UNCHANGED <<failed, lock, status, mfa, cooldown, challenges, mailed, guesses>>

-----------------------------------------------------------------------------
(* ChangePassword: needs a live session, the current and another password *)

ChangePassword(r, cur, new) ==
    /\ "change" \in Ops /\ req[r] = Idle
    /\ status = "active" /\ cur = hash.pw /\ new # hash.pw
    /\ \E p \in open :
         req' = [req EXCEPT ![r] = [Idle EXCEPT !.pc = "changeTx", !.pw = new,
                                                !.via = p]]
    /\ UNCHANGED <<stores, hist>>

\* One transaction; only the session of the request survives it, if it is
\* still open, and from then on stands for the new password.
CompletePasswordChange(r, o) ==
    /\ At(r, "changeTx")
    /\ IF o = "ok"
       THEN /\ hash' = [pw |-> req[r].pw, current |-> TRUE]
            /\ lastSet' = req[r].pw /\ carried' = Carried
            /\ open' = IF req[r].via \in open THEN {req[r].pw} ELSE {}
       ELSE UNCHANGED <<hash, lastSet, carried, open>>
    /\ Finish(r)
    /\ UNCHANGED <<failed, lock, status, mfa, resets, cooldown, challenges,
                   mailed, guesses, spent>>

-----------------------------------------------------------------------------
(* Around the requests *)

\* LoginLockDuration has passed; failed_attempts is not touched.
LockLapses ==
    /\ lock = "locked"
    /\ lock' = "over" /\ guesses' = 0
    /\ UNCHANGED <<hash, failed, status, mfa, resets, cooldown, open, challenges, req,
                   mailed, lastSet, carried, spent>>

\* Expiry, or removal by cmd/cron, of an unused reset.
ResetExpires(t) ==
    /\ resets[t] = "active"
    /\ resets' = [resets EXCEPT ![t] = "expired"]
    /\ UNCHANGED <<hash, failed, lock, status, mfa, cooldown, open, challenges, req, hist>>

CooldownEnds ==
    /\ cooldown
    /\ cooldown' = FALSE
    /\ UNCHANGED <<hash, failed, lock, status, mfa, resets, open, challenges, req, hist>>

\* New argon2 parameters or a new pepper are deployed.
ParametersRetire ==
    /\ "retire" \in Ops /\ hash.current
    /\ hash' = [hash EXCEPT !.current = FALSE]
    /\ UNCHANGED <<failed, lock, status, mfa, resets, cooldown, open, challenges, req, hist>>

\* The owner enables or disables a factor; a running login notes what is off.
EnableMFA(f) ==
    /\ f \in Ops /\ f \notin mfa
    /\ mfa' = mfa \cup {f}
    /\ UNCHANGED <<hash, failed, lock, status, resets, cooldown, open, challenges, req, hist>>

DisableMFA(f) ==
    /\ f \in Ops /\ f \in mfa
    /\ mfa' = mfa \ {f}
    /\ req' = [r \in Req |-> IF req[r].pc \in {"clear", "totp", "email"}
                             THEN [req[r] EXCEPT !.off = @ \cup {f}] ELSE req[r]]
    /\ UNCHANGED <<hash, failed, lock, status, resets, cooldown, open, challenges, hist>>

\* Ban, disable, delete (with their revocation), unban and enable.
SetStatus(s) ==
    /\ "status" \in Ops /\ status \notin {s, "deleted"}
    /\ status' = s
    /\ open' = IF s = "active" THEN open ELSE {}
    /\ UNCHANGED <<hash, failed, lock, mfa, resets, cooldown, challenges, req, hist>>

SessionEnds(p) ==
    /\ p \in open
    /\ open' = open \ {p}
    /\ UNCHANGED <<hash, failed, lock, status, mfa, resets, cooldown, challenges, req, hist>>

\* MFAChallengeTTL has passed for every challenge of this password.
ChallengeLapses(p) ==
    /\ p \in challenges
    /\ challenges' = challenges \ {p}
    /\ UNCHANGED <<hash, failed, lock, status, mfa, resets, cooldown, open, req, hist>>

-----------------------------------------------------------------------------
Init ==
    /\ \E p \in Password : hash = [pw |-> p, current |-> TRUE] /\ lastSet = p
    /\ failed = 0 /\ lock = "none" /\ status = "active" /\ mfa = {}
    /\ resets = [t \in ResetToken |-> "none"] /\ cooldown = FALSE
    /\ open = {} /\ challenges = {} /\ req = [r \in Req |-> Idle]
    /\ carried = [rehash |-> {}, login |-> {}]
    /\ mailed = {} /\ guesses = 0
    /\ spent = [t \in ResetToken |-> 0]

Arrive(r) ==
    \/ \E p \in Password : LoginRead(r, p) \/ VerifyMFALogin(r, p)
    \/ RequestPasswordReset(r)
    \/ AdminResetUserPassword(r)
    \/ \E t \in ResetToken, p \in Password : GetActivePasswordReset(r, t, p)
    \/ \E cur, new \in Password : ChangePassword(r, cur, new)

Step(r) ==
    \E o \in Outcome :
        \/ IncrementFailedLoginAttempts(r, o)
        \/ LockAuthIdentity(r, o)
        \/ ResetFailedLoginAttempts(r, o)
        \/ GetTOTPFactorByUserID(r, o)
        \/ GetOTPFactorByUserID(r, o)
        \/ GenerateTemporaryJWT(r, o)
        \/ CheckSecondFactor(r, o)
        \/ RecheckStatus(r, o)
        \/ DeleteTemporarySession(r, o)
        \/ Rehash(r, o)
        \/ issueLoginSession(r, o)
        \/ GetLatestPasswordResetForUser(r, o)
        \/ CreatePasswordReset(r, o)
        \/ SendPasswordResetEmail(r, o)
        \/ CheckOwner(r, o)
        \/ CompletePasswordReset(r, o)
        \/ CompletePasswordChange(r, o)

Environment ==
    \/ LockLapses \/ CooldownEnds \/ ParametersRetire
    \/ \E f \in Factor : EnableMFA(f) \/ DisableMFA(f)
    \/ \E t \in ResetToken : ResetExpires(t)
    \/ \E s \in {"active", "blocked", "deleted"} : SetStatus(s)
    \/ \E p \in Password : SessionEnds(p) \/ ChallengeLapses(p)

Next == Environment \/ \E r \in Req : Arrive(r) \/ Step(r)

Spec == Init /\ [][Next]_vars

-----------------------------------------------------------------------------
(* Properties *)

TypeOK ==
    /\ hash \in Hash
    /\ failed \in 0..FailedBound
    /\ lock \in {"none", "locked", "over"}
    /\ status \in {"active", "blocked", "deleted"}
    /\ mfa \subseteq Factor /\ cooldown \in BOOLEAN
    /\ resets \in [ResetToken -> {"none", "active", "used", "expired"}]
    /\ open \subseteq Password /\ challenges \subseteq Password
    /\ req \in [Req -> Request]
    /\ mailed \subseteq ResetToken
    /\ lastSet \in Password
    /\ carried \in [rehash : SUBSET Password, login : SUBSET Password]
    /\ guesses \in 0..FailedBound
    /\ spent \in [ResetToken -> Nat]

\* Lockout under concurrency: between two resets of the counter or two lapses
\* of the lock, no more wrong passwords are compared than MaxFailed allows,
\* plus one for every further request that may be in flight when the limit is
\* reached and one for every failing call of the counting.  (The lock is
\* checked on a row read before the comparison and set two calls after it.)
GuessBound == guesses =< MaxFailed - 1 + Cardinality(Req)

\* The MFA gate: a factor that is enabled from the first read of a login to
\* the gate keeps that login from issuing a session on the password alone,
\* whatever other factors are switched and whatever calls fail meanwhile; only
\* VerifyMFALogin, with the second factor checked, issues one.
MfaNotSkipped ==
    \A r \in Req : req[r].pc \in {"rehash", "issue"} => req[r].passed \/ req[r].off = Factor

\* The account accepts the password its owner set last.  An older one comes
\* back only through Login's rehash, and only if a login with that password,
\* which had read a hash with retired parameters, was in flight at the moment
\* the new one was set; a second change takes that away too.
OldPasswordOnlyByRehash == hash.pw \in {lastSet} \cup carried.rehash

\* A reset or change ends the sessions of the old password ("so the account
\* doesn't stay logged in anywhere on the old credentials").  One opens
\* afterwards only for a login that was in flight, or an MFA challenge that was
\* pending, at the moment the password was set.
OldSessionOnlyByPendingLogin == open \subseteq {lastSet} \cup carried.login

\* What ResetPassword's comment says of the old credentials: no session is
\* open that was obtained with a password other than the valid one.
NoOldCredential == open \subseteq {hash.pw}

\* A reset token is "single-use": none but the requests that read it as unused
\* before the first of them has completed can set a password with it, so one
\* that finds no other in flight uses it up.
ResetBound == \A t \in ResetToken : spent[t] =< Cardinality(Req)
=============================================================================
