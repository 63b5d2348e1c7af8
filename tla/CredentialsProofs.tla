-------------------------- MODULE CredentialsProofs --------------------------
(***************************************************************************)
(* Theorems about Credentials, for any number of requests, passwords and   *)
(* reset tokens and any limit, however requests overlap and calls fail:    *)
(* the lockout bound, the MFA gate, by which ways only an old password or  *)
(* an old session survives a reset, and how often a reset token is spent.  *)
(***************************************************************************)
EXTENDS Credentials, FiniteSetTheorems, TLAPS

\* Which locals a program counter has set.
ControlInv ==
    \A r \in Req :
        LET q == req[r] IN
        /\ q.pc \notin {"idle", "cool", "create", "mail"} => q.pw \in Password
        /\ q.pc \in {"mail", "owner", "resetTx"} => q.token \in ResetToken

\* Up to the gate a login knows of every factor that was off at some moment,
\* and that TOTP was if it did not find it; a challenge is redeemed only with
\* the second factor checked.
GateInv ==
    \A r \in Req :
        LET q == req[r] IN
        /\ q.pc \in {"clear", "totp", "email"} => Factor \ mfa \subseteq q.off
        /\ q.pc = "email" /\ ~q.found => "totp" \in q.off
        /\ q.pc \in {"status", "redeem"} => q.passed

\* The wrong guesses that are compared but not yet counted, and those that
\* have not yet done all they can towards the lock.
Counting == {r \in Req : req[r].pc = "inc"}
Guessing == {r \in Req : req[r].pc \in {"inc", "lock"}}

\* What failed_attempts can still become stays within the bound on it.
CountInv == failed + Cardinality(Counting) =< FailedBound

\* While the account is not locked every guess is either counted in
\* failed_attempts, below the limit, or still in flight.
GuessInv ==
    lock # "locked" =>
        guesses =< (IF failed < MaxFailed THEN failed ELSE MaxFailed - 1) + Cardinality(Guessing)

\* TypeOK but for the requests.
StoresOK ==
    /\ hash \in Hash
    /\ failed \in 0..FailedBound
    /\ lock \in {"none", "locked", "over"}
    /\ status \in {"active", "blocked", "deleted"}
    /\ mfa \subseteq Factor /\ cooldown \in BOOLEAN
    /\ resets \in [ResetToken -> {"none", "active", "used", "expired"}]
    /\ open \subseteq Password /\ challenges \subseteq Password
    /\ mailed \subseteq ResetToken
    /\ lastSet \in Password
    /\ carried \in [rehash : SUBSET Password, login : SUBSET Password]
    /\ guesses \in 0..FailedBound
    /\ spent \in [ResetToken -> Nat]

\* Every password still on its way through a login, and every challenge, is
\* the one set last or was carried over that moment, and a login can rehash
\* an older one only if it could at that moment.
CarryInv ==
    /\ carried.rehash \subseteq carried.login
    /\ challenges \subseteq {lastSet} \cup carried.login
    /\ \A r \in Req :
         LET q == req[r] IN
         /\ q.pc \in LoggingIn => q.pw \in {lastSet} \cup carried.login
         /\ q.pc \in MayRehash /\ q.stale => q.pw \in {lastSet} \cup carried.rehash
         /\ q.pc = "rehash" => q.stale

\* The resets in flight with a token: none joins them once one has completed.
Resetting(t) == {r \in Req : req[r].pc \in {"owner", "resetTx"} /\ req[r].token = t}
TokenInv ==
    \A t \in ResetToken :
        /\ resets[t] # "used" => spent[t] = 0
        /\ spent[t] + Cardinality(Resetting(t)) =< Cardinality(Req)

\* What one step may do to a token: see TokenMoves.
TokenMove(t) ==
    \/ resets[t] # "used" /\ resets'[t] # "used" /\ spent'[t] = spent[t]
    \/ /\ resets'[t] = "used" /\ spent'[t] = spent[t] + 1
       /\ \E r \in Resetting(t) : Resetting(t)' = Resetting(t) \ {r}
    \/ /\ spent'[t] = spent[t] /\ (resets'[t] = "used") = (resets[t] = "used")
       /\ Resetting(t)' \subseteq Resetting(t)

IInv ==
    /\ TypeOK /\ ControlInv /\ GateInv /\ MfaNotSkipped
    /\ CountInv /\ GuessInv /\ GuessBound
    /\ CarryInv /\ OldPasswordOnlyByRehash /\ OldSessionOnlyByPendingLogin
    /\ TokenInv

-----------------------------------------------------------------------------
\* A set of requests that a request joins or leaves grows or shrinks by one.
LEMMA Membership ==
    ASSUME NEW r \in Req, NEW S \in SUBSET Req, NEW T \in SUBSET Req, S \ {r} = T \ {r}
    PROVE  /\ Cardinality(S) \in Nat /\ Cardinality(T) \in Nat
           /\ r \in S /\ r \in T => T = S
           /\ r \notin S /\ r \notin T => T = S
           /\ r \in S /\ r \notin T => Cardinality(T) = Cardinality(S) - 1
           /\ r \notin S /\ r \in T => Cardinality(T) = Cardinality(S) + 1
<1>1. IsFiniteSet(S) /\ IsFiniteSet(T)
  BY CredentialsAssumption, FS_Subset
<1>2. Cardinality(S) \in Nat /\ Cardinality(T) \in Nat
  BY <1>1, FS_CardinalityType
<1>3. ASSUME r \in S, r \notin T PROVE Cardinality(T) = Cardinality(S) - 1
  <2>1. T = S \ {r}
    BY <1>3
  <2> QED
    BY <1>1, <1>3, <2>1, FS_RemoveElement
<1>4. ASSUME r \notin S, r \in T PROVE Cardinality(T) = Cardinality(S) + 1
  <2>1. T = S \cup {r}
    BY <1>4
  <2> QED
    BY <1>1, <1>4, <2>1, FS_AddElement
<1> QED
  BY <1>2, <1>3, <1>4

\* There are never more requests in flight than request slots.
LEMMA Slots ==
    /\ Cardinality(Req) \in Nat
    /\ Cardinality(Counting) \in Nat /\ Cardinality(Counting) =< Cardinality(Req)
    /\ Cardinality(Guessing) \in Nat /\ Cardinality(Guessing) =< Cardinality(Req)
<1>1. Counting \in SUBSET Req /\ Guessing \in SUBSET Req
  BY DEF Counting, Guessing
<1> QED
  BY <1>1, CredentialsAssumption, FS_Subset, FS_CardinalityType

\* The initial state satisfies the invariant.
LEMMA InitIInv == Init => IInv
<1> SUFFICES ASSUME Init PROVE IInv
  OBVIOUS
<1> USE CredentialsAssumption DEF Init, Idle
<1>1. TypeOK
  <2>1. hash \in Hash /\ lastSet \in Password
    BY DEF Hash
  <2>2. req \in [Req -> Request]
    BY DEF Request, Pc, LoggingIn, MayRehash
  <2>3. failed \in 0..FailedBound /\ guesses \in 0..FailedBound
    OBVIOUS
  <2>4. /\ lock \in {"none", "locked", "over"} /\ status \in {"active", "blocked", "deleted"}
        /\ mfa \subseteq Factor /\ cooldown \in BOOLEAN
        /\ open \subseteq Password /\ mailed \subseteq ResetToken
        /\ challenges \subseteq Password
        /\ carried \in [rehash : SUBSET Password, login : SUBSET Password]
    OBVIOUS
  <2>5. /\ resets \in [ResetToken -> {"none", "active", "used", "expired"}]
        /\ spent \in [ResetToken -> Nat]
    OBVIOUS
  <2> QED
    BY <2>1, <2>2, <2>3, <2>4, <2>5 DEF TypeOK
<1>2. ControlInv /\ GateInv /\ MfaNotSkipped
  BY DEF ControlInv, GateInv, MfaNotSkipped
<1>3. CountInv /\ GuessInv /\ GuessBound
  <2>1. Counting = {} /\ Guessing = {}
    BY DEF Counting, Guessing
  <2> QED
    BY <2>1, FS_EmptySet, Slots DEF CountInv, GuessInv, GuessBound
<1>4. CarryInv /\ OldPasswordOnlyByRehash /\ OldSessionOnlyByPendingLogin
  BY DEF CarryInv, OldPasswordOnlyByRehash, OldSessionOnlyByPendingLogin, LoggingIn, MayRehash
<1>5. TokenInv
  <2> SUFFICES ASSUME NEW t \in ResetToken
               PROVE  /\ resets[t] # "used" => spent[t] = 0
                      /\ spent[t] + Cardinality(Resetting(t)) =< Cardinality(Req)
    BY DEF TokenInv
  <2>1. Resetting(t) = {} /\ spent[t] = 0
    BY DEF Resetting
  <2>2. Cardinality(Resetting(t)) = 0 /\ Cardinality(Req) \in Nat
    BY <2>1, FS_EmptySet, Slots
  <2> QED
    BY <2>1, <2>2
<1> QED
  BY <1>1, <1>2, <1>3, <1>4, <1>5 DEF IInv

\* Begin sets up a request of its type with the factors that are off.
LEMMA BeginEffect ==
    ASSUME TypeOK, NEW r \in Req, NEW p \in Pc, NEW w \in Password \cup {NoPassword},
           Begin(r, p, w)
    PROVE  \E q \in Request :
             req' = [req EXCEPT ![r] = q] /\ q.pc = p /\ q.pw = w /\ q.off = Factor \ mfa
<1> DEFINE stale == ~hash.current
           off == Factor \ mfa
           q == [Idle EXCEPT !.pc = p, !.pw = w, !.stale = stale, !.off = off]
<1>1. stale \in BOOLEAN /\ off \in SUBSET Factor
  BY DEF TypeOK, Hash
<1>2. req' = [req EXCEPT ![r] = q]
  BY DEF Begin
<1> HIDE DEF stale, off
<1>3. q \in Request /\ q.pc = p /\ q.pw = w /\ q.off = off
  BY <1>1 DEF Idle, Request, Pc, LoggingIn, MayRehash
<1> HIDE DEF q
<1> QED
  BY <1>2, <1>3 DEF off

\* A request for a reset starts with the cooldown or, by an admin, without.
LEMMA RequestEffect ==
    ASSUME TypeOK, NEW r \in Req, RequestPasswordReset(r) \/ AdminResetUserPassword(r)
    PROVE  \E q \in Request : req' = [req EXCEPT ![r] = q] /\ q.pc \in {"cool", "create"}
<1>1. "cool" \in Pc /\ "create" \in Pc
  BY DEF Pc
<1>2. CASE Begin(r, "cool", NoPassword)
  BY <1>1, <1>2, BeginEffect
<1>3. CASE Begin(r, "create", NoPassword)
  BY <1>1, <1>3, BeginEffect
<1> QED
  BY <1>2, <1>3 DEF RequestPasswordReset, AdminResetUserPassword

\* LoginRead starts a login with the right password or counts a wrong one.
LEMMA LoginEffect ==
    ASSUME TypeOK, NEW r \in Req, NEW p \in Password, LoginRead(r, p)
    PROVE  \E q \in Request :
             /\ req' = [req EXCEPT ![r] = q] /\ q.off = Factor \ mfa /\ q.pw = p
             /\ \/ /\ q.pc = "inc" /\ guesses' = guesses + 1
                   /\ guesses < FailedBound /\ failed + Cardinality(Req) =< FailedBound
                \/ q.pc = "clear" /\ p = hash.pw /\ UNCHANGED guesses
<1>1. "inc" \in Pc /\ "clear" \in Pc
  BY DEF Pc, LoggingIn, MayRehash
<1>2. CASE /\ Begin(r, "inc", p) /\ guesses' = guesses + 1
           /\ guesses < FailedBound /\ failed + Cardinality(Req) =< FailedBound
  BY <1>1, <1>2, BeginEffect
<1>3. CASE Begin(r, "clear", p) /\ p = hash.pw /\ UNCHANGED guesses
  BY <1>1, <1>3, BeginEffect
<1> QED
  BY <1>2, <1>3 DEF LoginRead

\* What is carried over a change of the password are passwords.
LEMMA CarriedType ==
    ASSUME TypeOK, ControlInv
    PROVE  Carried \in [rehash : SUBSET Password, login : SUBSET Password]
<1>1. \A r \in Req : req[r].pc \in LoggingIn \cup MayRehash => req[r].pw \in Password
  BY DEF ControlInv, LoggingIn, MayRehash
<1> QED
  BY <1>1 DEF Carried, TypeOK

\* GetTOTPFactorByUserID ends the request or notes whether TOTP is on.
LEMMA TotpEffect ==
    ASSUME TypeOK, NEW r \in Req, NEW o \in Outcome, GetTOTPFactorByUserID(r, o)
    PROVE  \E q \in Request :
             /\ req' = [req EXCEPT ![r] = q] /\ q.pc \in {"idle", "email"}
             /\ q.pc = "email" => /\ q.pw = req[r].pw /\ q.off = req[r].off
                                  /\ q.stale = req[r].stale
                                  /\ ~q.found => "totp" \notin mfa
<1> DEFINE found == "totp" \in mfa
           q == [req[r] EXCEPT !.pc = "email", !.found = found]
<1>1. found \in BOOLEAN
  OBVIOUS
<1>2. req' = [req EXCEPT ![r] = Idle] \/ req' = [req EXCEPT ![r] = q]
  BY DEF GetTOTPFactorByUserID, Finish
<1>3. req[r] \in Request
  BY DEF TypeOK
<1>4. Idle \in Request /\ Idle.pc = "idle"
  BY DEF Idle, Request, Pc, LoggingIn, MayRehash
<1> HIDE DEF found
<1>5. /\ q \in Request /\ q.pc = "email" /\ q.found = found
      /\ q.pw = req[r].pw /\ q.off = req[r].off /\ q.stale = req[r].stale
  BY <1>1, <1>3 DEF Request, Pc, LoggingIn, MayRehash
<1> HIDE DEF q
<1> QED
  BY <1>2, <1>4, <1>5 DEF found

\* CheckSecondFactor ends the request or notes that the factor was checked.
LEMMA SecondEffect ==
    ASSUME TypeOK, NEW r \in Req, NEW o \in Outcome, CheckSecondFactor(r, o)
    PROVE  \E q \in Request :
             /\ req' = [req EXCEPT ![r] = q] /\ q.pc \in {"idle", "status"}
             /\ q.pc = "status" => q.pw = req[r].pw /\ q.passed
<1> DEFINE q == [req[r] EXCEPT !.pc = "status", !.passed = TRUE]
<1>1. req' = [req EXCEPT ![r] = Idle] \/ req' = [req EXCEPT ![r] = q]
  BY DEF CheckSecondFactor, Finish
<1>2. req[r] \in Request
  BY DEF TypeOK
<1>3. Idle \in Request /\ Idle.pc = "idle"
  BY DEF Idle, Request, Pc
<1>4. q \in Request /\ q.pc = "status" /\ q.pw = req[r].pw /\ q.passed
  BY <1>2 DEF Request, Pc, LoggingIn
<1> HIDE DEF q
<1> QED
  BY <1>1, <1>3, <1>4

\* CreatePasswordReset ends the request or leaves it with a token to mail.
LEMMA CreateEffect ==
    ASSUME TypeOK, NEW r \in Req, NEW o \in Outcome, CreatePasswordReset(r, o)
    PROVE  \E q \in Request :
             /\ req' = [req EXCEPT ![r] = q] /\ q.pc \in {"idle", "mail"}
             /\ q.pc = "mail" => q.token \in ResetToken
<1>1. CASE req' = [req EXCEPT ![r] = Idle]
  <2>1. Idle \in Request /\ Idle.pc = "idle"
    BY DEF Idle, Request, Pc, LoggingIn, MayRehash
  <2> QED
    BY <1>1, <2>1
<1>2. CASE \E t \in ResetToken : req' = [req EXCEPT ![r] = [@ EXCEPT !.pc = "mail", !.token = t]]
  <2>1. PICK t \in ResetToken : req' = [req EXCEPT ![r] = [@ EXCEPT !.pc = "mail", !.token = t]]
    BY <1>2
  <2> DEFINE q == [req[r] EXCEPT !.pc = "mail", !.token = t]
  <2>2. q \in Request /\ q.pc = "mail" /\ q.token = t
    BY ZenonT(60) DEF TypeOK, Request, Pc, LoggingIn, MayRehash
  <2>3. req' = [req EXCEPT ![r] = q]
    BY <2>1
  <2> HIDE DEF q
  <2> QED
    BY <2>2, <2>3
<1> QED
  BY <1>1, <1>2 DEF CreatePasswordReset, Finish

\* Every step keeps the requests within their type.
LEMMA RequestStep == IInv /\ [Next]_vars => req' \in [Req -> Request]
<1> SUFFICES ASSUME IInv, [Next]_vars PROVE req' \in [Req -> Request]
  OBVIOUS
<1> USE DEF TypeOK, ControlInv, stores, hist, At, Goto, Finish
<1>0. TypeOK /\ ControlInv
  BY DEF IInv
<1>i. /\ Idle \in Request /\ Idle.pc = "idle"
      /\ \A q \in Request, p \in Pc : [q EXCEPT !.pc = p] \in Request
  <2>1. Idle \in Request /\ Idle.pc = "idle"
    BY DEF Idle, Request, Pc
  <2>2. \A q \in Request, p \in Pc : [q EXCEPT !.pc = p] \in Request
    BY DEF Request
  <2> QED
    BY <2>1, <2>2
<1>p. req \in [Req -> Request] /\ \A p \in Pc, r \in Req : Goto(r, p) => req' \in [Req -> Request]
  BY <1>0, <1>i DEF Goto, TypeOK
<1> HIDE DEF Goto
<1>1. ASSUME NEW r \in Req, NEW p \in Password, LoginRead(r, p) PROVE req' \in [Req -> Request]
  <2>1. PICK q \in Request :
          /\ req' = [req EXCEPT ![r] = q] /\ q.off = Factor \ mfa /\ q.pw = p
          /\ \/ /\ q.pc = "inc" /\ guesses' = guesses + 1
                /\ guesses < FailedBound /\ failed + Cardinality(Req) =< FailedBound
             \/ q.pc = "clear" /\ p = hash.pw /\ UNCHANGED guesses
    BY <1>0, <1>1, LoginEffect
  <2> QED
    BY <1>0, <1>i, <1>1, <2>1 DEF LoginRead
<1>2. ASSUME NEW r \in Req, RequestPasswordReset(r) PROVE req' \in [Req -> Request]
  <2>1. PICK q \in Request : req' = [req EXCEPT ![r] = q] /\ q.pc \in {"cool", "create"}
    BY <1>0, <1>2, RequestEffect
  <2> QED
    BY <1>0, <1>i, <1>2, <2>1 DEF RequestPasswordReset
<1>3. ASSUME NEW r \in Req, AdminResetUserPassword(r) PROVE req' \in [Req -> Request]
  <2>1. PICK q \in Request : req' = [req EXCEPT ![r] = q] /\ q.pc \in {"cool", "create"}
    BY <1>0, <1>3, RequestEffect
  <2> QED
    BY <1>0, <1>i, <1>3, <2>1 DEF AdminResetUserPassword
<1>4. ASSUME NEW r \in Req, NEW t \in ResetToken, NEW p \in Password, GetActivePasswordReset(r, t, p)
      PROVE  req' \in [Req -> Request]
  <2>1. req' = [req EXCEPT ![r] = [Idle EXCEPT !.pc = "owner", !.pw = p, !.token = t]]
    BY <1>4 DEF GetActivePasswordReset
  <2>2. [Idle EXCEPT !.pc = "owner", !.pw = p, !.token = t] \in Request
    BY DEF Idle, Request, Pc, LoggingIn, MayRehash
  <2> QED
    BY <1>0, <2>1, <2>2
<1>5. ASSUME NEW r \in Req, NEW c \in Password, NEW p \in Password, ChangePassword(r, c, p)
      PROVE  req' \in [Req -> Request]
  <2>1. PICK v \in Password :
          req' = [req EXCEPT ![r] = [Idle EXCEPT !.pc = "changeTx", !.pw = p, !.via = v]]
    BY <1>0, <1>5 DEF ChangePassword
  <2>2. [Idle EXCEPT !.pc = "changeTx", !.pw = p, !.via = v] \in Request
    BY DEF Idle, Request, Pc, LoggingIn, MayRehash
  <2> QED
    BY <1>0, <2>1, <2>2
<1>6. ASSUME NEW r \in Req, NEW o \in Outcome, IncrementFailedLoginAttempts(r, o)
      PROVE  req' \in [Req -> Request]
  BY <1>0, <1>i, <1>p, <1>6 DEF IncrementFailedLoginAttempts, Pc, LoggingIn, MayRehash
<1>7. ASSUME NEW r \in Req, NEW o \in Outcome, LockAuthIdentity(r, o)
      PROVE  req' \in [Req -> Request]
  BY <1>0, <1>i, <1>p, <1>7 DEF LockAuthIdentity, Pc, LoggingIn, MayRehash
<1>8. ASSUME NEW r \in Req, NEW o \in Outcome, ResetFailedLoginAttempts(r, o)
      PROVE  req' \in [Req -> Request]
  BY <1>0, <1>i, <1>p, <1>8 DEF ResetFailedLoginAttempts, Pc, LoggingIn, MayRehash
<1>9. ASSUME NEW r \in Req, NEW o \in Outcome, GetTOTPFactorByUserID(r, o)
      PROVE  req' \in [Req -> Request]
  <2>1. PICK q \in Request :
          /\ req' = [req EXCEPT ![r] = q] /\ q.pc \in {"idle", "email"}
          /\ q.pc = "email" => /\ q.pw = req[r].pw /\ q.off = req[r].off
                               /\ ~q.found => "totp" \notin mfa
    BY <1>0, <1>9, TotpEffect
  <2> QED
    BY <1>0, <1>i, <1>9, <2>1 DEF GetTOTPFactorByUserID
<1>10. ASSUME NEW r \in Req, NEW o \in Outcome, GetOTPFactorByUserID(r, o)
      PROVE  req' \in [Req -> Request]
  BY <1>0, <1>i, <1>p, <1>10 DEF GetOTPFactorByUserID, Pc, LoggingIn, MayRehash
<1>11. ASSUME NEW r \in Req, NEW o \in Outcome, Rehash(r, o) PROVE req' \in [Req -> Request]
  BY <1>0, <1>i, <1>p, <1>11 DEF Rehash, Pc, LoggingIn, MayRehash
<1>12. ASSUME NEW r \in Req, NEW o \in Outcome, issueLoginSession(r, o)
      PROVE  req' \in [Req -> Request]
  BY <1>0, <1>i, <1>p, <1>12 DEF issueLoginSession, Pc, LoggingIn, MayRehash
<1>13. ASSUME NEW r \in Req, NEW o \in Outcome, GetLatestPasswordResetForUser(r, o)
      PROVE  req' \in [Req -> Request]
  BY <1>0, <1>i, <1>p, <1>13 DEF GetLatestPasswordResetForUser, Pc, LoggingIn, MayRehash
<1>14. ASSUME NEW r \in Req, NEW o \in Outcome, CreatePasswordReset(r, o)
      PROVE  req' \in [Req -> Request]
  <2>1. PICK q \in Request :
          /\ req' = [req EXCEPT ![r] = q] /\ q.pc \in {"idle", "mail"}
          /\ q.pc = "mail" => q.token \in ResetToken
    BY <1>0, <1>14, CreateEffect
  <2> QED
    BY <1>0, <1>i, <1>14, <2>1 DEF CreatePasswordReset
<1>15. ASSUME NEW r \in Req, NEW o \in Outcome, SendPasswordResetEmail(r, o)
      PROVE  req' \in [Req -> Request]
  BY <1>0, <1>i, <1>p, <1>15 DEF SendPasswordResetEmail, Pc, LoggingIn, MayRehash
<1>16. ASSUME NEW r \in Req, NEW o \in Outcome, CheckOwner(r, o) PROVE req' \in [Req -> Request]
  BY <1>0, <1>i, <1>p, <1>16 DEF CheckOwner, Pc, LoggingIn, MayRehash
<1>17. ASSUME NEW r \in Req, NEW o \in Outcome, CompletePasswordReset(r, o)
      PROVE  req' \in [Req -> Request]
  BY <1>0, <1>i, <1>p, <1>17 DEF CompletePasswordReset, Pc, LoggingIn, MayRehash
<1>18. ASSUME NEW r \in Req, NEW o \in Outcome, CompletePasswordChange(r, o)
      PROVE  req' \in [Req -> Request]
  BY <1>0, <1>i, <1>p, <1>18 DEF CompletePasswordChange, Pc, LoggingIn, MayRehash
<1>19. CASE LockLapses
  BY <1>0, <1>i, <1>p, <1>19 DEF LockLapses, Pc, LoggingIn, MayRehash
<1>20. CASE CooldownEnds
  BY <1>0, <1>i, <1>p, <1>20 DEF CooldownEnds, Pc, LoggingIn, MayRehash
<1>21. CASE ParametersRetire
  BY <1>0, <1>i, <1>p, <1>21 DEF ParametersRetire, Pc, LoggingIn, MayRehash
<1>22. ASSUME NEW f \in Factor, EnableMFA(f) PROVE req' \in [Req -> Request]
  BY <1>0, <1>i, <1>p, <1>22 DEF EnableMFA, Pc, LoggingIn, MayRehash
<1>23. ASSUME NEW f \in Factor, DisableMFA(f) PROVE req' \in [Req -> Request]
  <2>1. \A q \in Req : [req[q] EXCEPT !.off = @ \cup {f}] \in Request
    BY <1>0 DEF Request, Factor
  <2> QED
    BY <1>0, <1>23, <2>1 DEF DisableMFA
<1>24. ASSUME NEW t \in ResetToken, ResetExpires(t) PROVE req' \in [Req -> Request]
  BY <1>0, <1>i, <1>p, <1>24 DEF ResetExpires, Pc, LoggingIn, MayRehash
<1>25. ASSUME NEW s \in {"active", "blocked", "deleted"}, SetStatus(s)
      PROVE  req' \in [Req -> Request]
  BY <1>0, <1>i, <1>p, <1>25 DEF SetStatus, Pc, LoggingIn, MayRehash
<1>26. ASSUME NEW p \in Password, SessionEnds(p) PROVE req' \in [Req -> Request]
  BY <1>0, <1>i, <1>p, <1>26 DEF SessionEnds, Pc, LoggingIn, MayRehash
<1>27. CASE UNCHANGED vars
  BY <1>0, <1>i, <1>p, <1>27 DEF vars, Pc, LoggingIn, MayRehash
<1>28. ASSUME NEW r \in Req, NEW p \in Password, VerifyMFALogin(r, p)
      PROVE  req' \in [Req -> Request]
  <2>1. req' = [req EXCEPT ![r] = [Idle EXCEPT !.pc = "second", !.pw = p]]
    BY <1>28 DEF VerifyMFALogin
  <2>2. [Idle EXCEPT !.pc = "second", !.pw = p] \in Request
    BY DEF Idle, Request, Pc, LoggingIn, MayRehash
  <2> QED
    BY <1>0, <2>1, <2>2
<1>29. ASSUME NEW r \in Req, NEW o \in Outcome, GenerateTemporaryJWT(r, o)
      PROVE  req' \in [Req -> Request]
  BY <1>0, <1>i, <1>p, <1>29 DEF GenerateTemporaryJWT, Pc, LoggingIn, MayRehash
<1>30. ASSUME NEW r \in Req, NEW o \in Outcome, CheckSecondFactor(r, o)
      PROVE  req' \in [Req -> Request]
  <2>1. PICK q \in Request :
          /\ req' = [req EXCEPT ![r] = q] /\ q.pc \in {"idle", "status"}
          /\ q.pc = "status" => q.pw = req[r].pw /\ q.passed
    BY <1>0, <1>30, SecondEffect
  <2> QED
    BY <1>0, <2>1
<1>31. ASSUME NEW r \in Req, NEW o \in Outcome, RecheckStatus(r, o)
      PROVE  req' \in [Req -> Request]
  BY <1>0, <1>i, <1>p, <1>31 DEF RecheckStatus, Pc, LoggingIn, MayRehash
<1>32. ASSUME NEW r \in Req, NEW o \in Outcome, DeleteTemporarySession(r, o)
      PROVE  req' \in [Req -> Request]
  BY <1>0, <1>i, <1>p, <1>32 DEF DeleteTemporarySession, Pc, LoggingIn, MayRehash
<1>33. ASSUME NEW p \in Password, ChallengeLapses(p) PROVE req' \in [Req -> Request]
  BY <1>0, <1>i, <1>p, <1>33 DEF ChallengeLapses, Pc, LoggingIn, MayRehash
<1> QED
  BY <1>1, <1>2, <1>3, <1>4, <1>5, <1>6, <1>7, <1>8, <1>9, <1>10, <1>11, <1>12, <1>13,
     <1>14, <1>15, <1>16, <1>17, <1>18, <1>19, <1>20, <1>21, <1>22, <1>23, <1>24, <1>25,
     <1>26, <1>27, <1>28, <1>29, <1>30, <1>31, <1>32, <1>33
  DEF Next, Arrive, Step, Environment

\* Every step leaves a request with the locals its next call needs.
LEMMA ControlStep == IInv /\ [Next]_vars => ControlInv'
<1> SUFFICES ASSUME IInv, [Next]_vars PROVE ControlInv'
  OBVIOUS
<1> USE DEF TypeOK, ControlInv, Request, stores, hist, At, Goto, Finish
<1>0. TypeOK /\ ControlInv
  BY DEF IInv
<1>i. Idle.pc = "idle" /\ Idle \in Request
  BY DEF Idle, Request, Pc, LoggingIn, MayRehash
<1>1. ASSUME NEW r \in Req, NEW p \in Password, LoginRead(r, p) PROVE ControlInv'
  <2>1. PICK q \in Request :
          /\ req' = [req EXCEPT ![r] = q] /\ q.off = Factor \ mfa /\ q.pw = p
          /\ \/ /\ q.pc = "inc" /\ guesses' = guesses + 1
                /\ guesses < FailedBound /\ failed + Cardinality(Req) =< FailedBound
             \/ q.pc = "clear" /\ p = hash.pw /\ UNCHANGED guesses
    BY <1>0, <1>1, LoginEffect
  <2> QED
    BY <1>0, <1>i, <1>1, <2>1 DEF LoginRead
<1>2. ASSUME NEW r \in Req, RequestPasswordReset(r) PROVE ControlInv'
  <2>1. PICK q \in Request : req' = [req EXCEPT ![r] = q] /\ q.pc \in {"cool", "create"}
    BY <1>0, <1>2, RequestEffect
  <2> QED
    BY <1>0, <1>i, <1>2, <2>1 DEF RequestPasswordReset
<1>3. ASSUME NEW r \in Req, AdminResetUserPassword(r) PROVE ControlInv'
  <2>1. PICK q \in Request : req' = [req EXCEPT ![r] = q] /\ q.pc \in {"cool", "create"}
    BY <1>0, <1>3, RequestEffect
  <2> QED
    BY <1>0, <1>i, <1>3, <2>1 DEF AdminResetUserPassword
<1>4. ASSUME NEW r \in Req, NEW t \in ResetToken, NEW p \in Password, GetActivePasswordReset(r, t, p)
      PROVE  ControlInv'
  BY <1>0, <1>i, <1>4 DEF GetActivePasswordReset
<1>5. ASSUME NEW r \in Req, NEW c \in Password, NEW p \in Password, ChangePassword(r, c, p)
      PROVE  ControlInv'
  BY <1>0, <1>i, <1>5 DEF ChangePassword
<1>6. ASSUME NEW r \in Req, NEW o \in Outcome, IncrementFailedLoginAttempts(r, o)
      PROVE  ControlInv'
  BY <1>0, <1>i, <1>6 DEF IncrementFailedLoginAttempts
<1>7. ASSUME NEW r \in Req, NEW o \in Outcome, LockAuthIdentity(r, o) PROVE ControlInv'
  BY <1>0, <1>i, <1>7 DEF LockAuthIdentity
<1>8. ASSUME NEW r \in Req, NEW o \in Outcome, ResetFailedLoginAttempts(r, o) PROVE ControlInv'
  BY <1>0, <1>i, <1>8 DEF ResetFailedLoginAttempts
<1>9. ASSUME NEW r \in Req, NEW o \in Outcome, GetTOTPFactorByUserID(r, o) PROVE ControlInv'
  <2>1. PICK q \in Request :
          /\ req' = [req EXCEPT ![r] = q] /\ q.pc \in {"idle", "email"}
          /\ q.pc = "email" => /\ q.pw = req[r].pw /\ q.off = req[r].off
                               /\ ~q.found => "totp" \notin mfa
    BY <1>0, <1>9, TotpEffect
  <2> QED
    BY <1>0, <1>i, <1>9, <2>1 DEF GetTOTPFactorByUserID
<1>10. ASSUME NEW r \in Req, NEW o \in Outcome, GetOTPFactorByUserID(r, o) PROVE ControlInv'
  BY <1>0, <1>i, <1>10 DEF GetOTPFactorByUserID
<1>11. ASSUME NEW r \in Req, NEW o \in Outcome, Rehash(r, o) PROVE ControlInv'
  BY <1>0, <1>i, <1>11 DEF Rehash
<1>12. ASSUME NEW r \in Req, NEW o \in Outcome, issueLoginSession(r, o) PROVE ControlInv'
  BY <1>0, <1>i, <1>12 DEF issueLoginSession
<1>13. ASSUME NEW r \in Req, NEW o \in Outcome, GetLatestPasswordResetForUser(r, o)
      PROVE  ControlInv'
  BY <1>0, <1>i, <1>13 DEF GetLatestPasswordResetForUser
<1>14. ASSUME NEW r \in Req, NEW o \in Outcome, CreatePasswordReset(r, o) PROVE ControlInv'
  <2>1. PICK q \in Request :
          /\ req' = [req EXCEPT ![r] = q] /\ q.pc \in {"idle", "mail"}
          /\ q.pc = "mail" => q.token \in ResetToken
    BY <1>0, <1>14, CreateEffect
  <2> QED
    BY <1>0, <1>i, <1>14, <2>1 DEF CreatePasswordReset
<1>15. ASSUME NEW r \in Req, NEW o \in Outcome, SendPasswordResetEmail(r, o) PROVE ControlInv'
  BY <1>0, <1>i, <1>15 DEF SendPasswordResetEmail
<1>16. ASSUME NEW r \in Req, NEW o \in Outcome, CheckOwner(r, o) PROVE ControlInv'
  BY <1>0, <1>i, <1>16 DEF CheckOwner
<1>17. ASSUME NEW r \in Req, NEW o \in Outcome, CompletePasswordReset(r, o) PROVE ControlInv'
  BY <1>0, <1>i, <1>17 DEF CompletePasswordReset
<1>18. ASSUME NEW r \in Req, NEW o \in Outcome, CompletePasswordChange(r, o) PROVE ControlInv'
  BY <1>0, <1>i, <1>18 DEF CompletePasswordChange
<1>19. CASE LockLapses
  BY <1>0, <1>i, <1>19 DEF LockLapses
<1>20. CASE CooldownEnds
  BY <1>0, <1>i, <1>20 DEF CooldownEnds
<1>21. CASE ParametersRetire
  BY <1>0, <1>i, <1>21 DEF ParametersRetire
<1>22. ASSUME NEW f \in Factor, EnableMFA(f) PROVE ControlInv'
  BY <1>0, <1>i, <1>22 DEF EnableMFA
<1>23. ASSUME NEW f \in Factor, DisableMFA(f) PROVE ControlInv'
  BY <1>0, <1>i, <1>23 DEF DisableMFA
<1>24. ASSUME NEW t \in ResetToken, ResetExpires(t) PROVE ControlInv'
  BY <1>0, <1>i, <1>24 DEF ResetExpires
<1>25. ASSUME NEW s \in {"active", "blocked", "deleted"}, SetStatus(s) PROVE ControlInv'
  BY <1>0, <1>i, <1>25 DEF SetStatus
<1>26. ASSUME NEW p \in Password, SessionEnds(p) PROVE ControlInv'
  BY <1>0, <1>i, <1>26 DEF SessionEnds
<1>27. CASE UNCHANGED vars
  BY <1>0, <1>i, <1>27 DEF vars
<1>28. ASSUME NEW r \in Req, NEW p \in Password, VerifyMFALogin(r, p) PROVE ControlInv'
  BY <1>0, <1>i, <1>28 DEF VerifyMFALogin
<1>29. ASSUME NEW r \in Req, NEW o \in Outcome, GenerateTemporaryJWT(r, o) PROVE ControlInv'
  BY <1>0, <1>i, <1>29 DEF GenerateTemporaryJWT
<1>30. ASSUME NEW r \in Req, NEW o \in Outcome, CheckSecondFactor(r, o) PROVE ControlInv'
  <2>1. PICK q \in Request :
          /\ req' = [req EXCEPT ![r] = q] /\ q.pc \in {"idle", "status"}
          /\ q.pc = "status" => q.pw = req[r].pw /\ q.passed
    BY <1>0, <1>30, SecondEffect
  <2> QED
    BY <1>0, <1>i, <1>30, <2>1 DEF CheckSecondFactor
<1>31. ASSUME NEW r \in Req, NEW o \in Outcome, RecheckStatus(r, o) PROVE ControlInv'
  BY <1>0, <1>i, <1>31 DEF RecheckStatus
<1>32. ASSUME NEW r \in Req, NEW o \in Outcome, DeleteTemporarySession(r, o) PROVE ControlInv'
  BY <1>0, <1>i, <1>32 DEF DeleteTemporarySession
<1>33. ASSUME NEW p \in Password, ChallengeLapses(p) PROVE ControlInv'
  BY <1>0, <1>i, <1>33 DEF ChallengeLapses
<1> QED
  BY <1>1, <1>2, <1>3, <1>4, <1>5, <1>6, <1>7, <1>8, <1>9, <1>10, <1>11, <1>12, <1>13,
     <1>14, <1>15, <1>16, <1>17, <1>18, <1>19, <1>20, <1>21, <1>22, <1>23, <1>24, <1>25,
     <1>26, <1>27, <1>28, <1>29, <1>30, <1>31, <1>32, <1>33
  DEF Next, Arrive, Step, Environment

\* No login gets past a factor that was on all the time.
LEMMA GateStep == IInv /\ [Next]_vars => GateInv' /\ MfaNotSkipped'
<1> SUFFICES ASSUME IInv, [Next]_vars PROVE GateInv' /\ MfaNotSkipped'
  OBVIOUS
<1> USE DEF TypeOK, GateInv, MfaNotSkipped, Factor, Request, stores, hist, At, Goto,
            Finish
<1>0. TypeOK /\ GateInv /\ MfaNotSkipped
  BY DEF IInv
<1>i. Idle.pc = "idle" /\ Idle \in Request
  BY DEF Idle, Request, Pc, LoggingIn, MayRehash
<1>1. ASSUME NEW r \in Req, NEW p \in Password, LoginRead(r, p)
      PROVE  GateInv' /\ MfaNotSkipped'
  <2>1. PICK q \in Request :
          /\ req' = [req EXCEPT ![r] = q] /\ q.off = Factor \ mfa /\ q.pw = p
          /\ \/ /\ q.pc = "inc" /\ guesses' = guesses + 1
                /\ guesses < FailedBound /\ failed + Cardinality(Req) =< FailedBound
             \/ q.pc = "clear" /\ p = hash.pw /\ UNCHANGED guesses
    BY <1>0, <1>1, LoginEffect
  <2> QED
    BY <1>0, <1>i, <1>1, <2>1 DEF LoginRead
<1>2. ASSUME NEW r \in Req, RequestPasswordReset(r) PROVE GateInv' /\ MfaNotSkipped'
  <2>1. PICK q \in Request : req' = [req EXCEPT ![r] = q] /\ q.pc \in {"cool", "create"}
    BY <1>0, <1>2, RequestEffect
  <2> QED
    BY <1>0, <1>i, <1>2, <2>1 DEF RequestPasswordReset
<1>3. ASSUME NEW r \in Req, AdminResetUserPassword(r) PROVE GateInv' /\ MfaNotSkipped'
  <2>1. PICK q \in Request : req' = [req EXCEPT ![r] = q] /\ q.pc \in {"cool", "create"}
    BY <1>0, <1>3, RequestEffect
  <2> QED
    BY <1>0, <1>i, <1>3, <2>1 DEF AdminResetUserPassword
<1>4. ASSUME NEW r \in Req, NEW t \in ResetToken, NEW p \in Password, GetActivePasswordReset(r, t, p)
      PROVE  GateInv' /\ MfaNotSkipped'
  BY <1>0, <1>i, <1>4 DEF GetActivePasswordReset
<1>5. ASSUME NEW r \in Req, NEW c \in Password, NEW p \in Password, ChangePassword(r, c, p)
      PROVE  GateInv' /\ MfaNotSkipped'
  BY <1>0, <1>i, <1>5 DEF ChangePassword
<1>6. ASSUME NEW r \in Req, NEW o \in Outcome, IncrementFailedLoginAttempts(r, o)
      PROVE  GateInv' /\ MfaNotSkipped'
  BY <1>0, <1>i, <1>6 DEF IncrementFailedLoginAttempts
<1>7. ASSUME NEW r \in Req, NEW o \in Outcome, LockAuthIdentity(r, o)
      PROVE  GateInv' /\ MfaNotSkipped'
  BY <1>0, <1>i, <1>7 DEF LockAuthIdentity
<1>8. ASSUME NEW r \in Req, NEW o \in Outcome, ResetFailedLoginAttempts(r, o)
      PROVE  GateInv' /\ MfaNotSkipped'
  BY <1>0, <1>i, <1>8 DEF ResetFailedLoginAttempts
<1>9. ASSUME NEW r \in Req, NEW o \in Outcome, GetTOTPFactorByUserID(r, o)
      PROVE  GateInv' /\ MfaNotSkipped'
  <2>1. PICK q \in Request :
          /\ req' = [req EXCEPT ![r] = q] /\ q.pc \in {"idle", "email"}
          /\ q.pc = "email" => /\ q.pw = req[r].pw /\ q.off = req[r].off
                               /\ ~q.found => "totp" \notin mfa
    BY <1>0, <1>9, TotpEffect
  <2> QED
    BY <1>0, <1>i, <1>9, <2>1 DEF GetTOTPFactorByUserID
<1>10. ASSUME NEW r \in Req, NEW o \in Outcome, GetOTPFactorByUserID(r, o)
      PROVE  GateInv' /\ MfaNotSkipped'
  BY <1>0, <1>i, <1>10 DEF GetOTPFactorByUserID
<1>11. ASSUME NEW r \in Req, NEW o \in Outcome, Rehash(r, o) PROVE GateInv' /\ MfaNotSkipped'
  BY <1>0, <1>i, <1>11 DEF Rehash
<1>12. ASSUME NEW r \in Req, NEW o \in Outcome, issueLoginSession(r, o)
      PROVE  GateInv' /\ MfaNotSkipped'
  BY <1>0, <1>i, <1>12 DEF issueLoginSession
<1>13. ASSUME NEW r \in Req, NEW o \in Outcome, GetLatestPasswordResetForUser(r, o)
      PROVE  GateInv' /\ MfaNotSkipped'
  BY <1>0, <1>i, <1>13 DEF GetLatestPasswordResetForUser
<1>14. ASSUME NEW r \in Req, NEW o \in Outcome, CreatePasswordReset(r, o)
      PROVE  GateInv' /\ MfaNotSkipped'
  <2>1. PICK q \in Request :
          /\ req' = [req EXCEPT ![r] = q] /\ q.pc \in {"idle", "mail"}
          /\ q.pc = "mail" => q.token \in ResetToken
    BY <1>0, <1>14, CreateEffect
  <2> QED
    BY <1>0, <1>i, <1>14, <2>1, ZenonT(60) DEF CreatePasswordReset
<1>15. ASSUME NEW r \in Req, NEW o \in Outcome, SendPasswordResetEmail(r, o)
      PROVE  GateInv' /\ MfaNotSkipped'
  BY <1>0, <1>i, <1>15 DEF SendPasswordResetEmail
<1>16. ASSUME NEW r \in Req, NEW o \in Outcome, CheckOwner(r, o)
      PROVE  GateInv' /\ MfaNotSkipped'
  BY <1>0, <1>i, <1>16 DEF CheckOwner
<1>17. ASSUME NEW r \in Req, NEW o \in Outcome, CompletePasswordReset(r, o)
      PROVE  GateInv' /\ MfaNotSkipped'
  BY <1>0, <1>i, <1>17 DEF CompletePasswordReset
<1>18. ASSUME NEW r \in Req, NEW o \in Outcome, CompletePasswordChange(r, o)
      PROVE  GateInv' /\ MfaNotSkipped'
  BY <1>0, <1>i, <1>18 DEF CompletePasswordChange
<1>19. CASE LockLapses
  BY <1>0, <1>i, <1>19 DEF LockLapses
<1>20. CASE CooldownEnds
  BY <1>0, <1>i, <1>20 DEF CooldownEnds
<1>21. CASE ParametersRetire
  BY <1>0, <1>i, <1>21 DEF ParametersRetire
<1>22. ASSUME NEW f \in Factor, EnableMFA(f) PROVE GateInv' /\ MfaNotSkipped'
  BY <1>0, <1>i, <1>22 DEF EnableMFA
<1>23. ASSUME NEW f \in Factor, DisableMFA(f) PROVE GateInv' /\ MfaNotSkipped'
  BY <1>0, <1>i, <1>23 DEF DisableMFA
<1>24. ASSUME NEW t \in ResetToken, ResetExpires(t) PROVE GateInv' /\ MfaNotSkipped'
  BY <1>0, <1>i, <1>24 DEF ResetExpires
<1>25. ASSUME NEW s \in {"active", "blocked", "deleted"}, SetStatus(s)
      PROVE  GateInv' /\ MfaNotSkipped'
  BY <1>0, <1>i, <1>25 DEF SetStatus
<1>26. ASSUME NEW p \in Password, SessionEnds(p) PROVE GateInv' /\ MfaNotSkipped'
  BY <1>0, <1>i, <1>26 DEF SessionEnds
<1>27. CASE UNCHANGED vars
  BY <1>0, <1>i, <1>27 DEF vars
<1>28. ASSUME NEW r \in Req, NEW p \in Password, VerifyMFALogin(r, p)
      PROVE  GateInv' /\ MfaNotSkipped'
  BY <1>0, <1>i, <1>28 DEF VerifyMFALogin
<1>29. ASSUME NEW r \in Req, NEW o \in Outcome, GenerateTemporaryJWT(r, o)
      PROVE  GateInv' /\ MfaNotSkipped'
  BY <1>0, <1>i, <1>29 DEF GenerateTemporaryJWT
<1>30. ASSUME NEW r \in Req, NEW o \in Outcome, CheckSecondFactor(r, o)
      PROVE  GateInv' /\ MfaNotSkipped'
  <2>1. PICK q \in Request :
          /\ req' = [req EXCEPT ![r] = q] /\ q.pc \in {"idle", "status"}
          /\ q.pc = "status" => q.pw = req[r].pw /\ q.passed
    BY <1>0, <1>30, SecondEffect
  <2> QED
    BY <1>0, <1>i, <1>30, <2>1 DEF CheckSecondFactor
<1>31. ASSUME NEW r \in Req, NEW o \in Outcome, RecheckStatus(r, o)
      PROVE  GateInv' /\ MfaNotSkipped'
  BY <1>0, <1>i, <1>31 DEF RecheckStatus
<1>32. ASSUME NEW r \in Req, NEW o \in Outcome, DeleteTemporarySession(r, o)
      PROVE  GateInv' /\ MfaNotSkipped'
  BY <1>0, <1>i, <1>32 DEF DeleteTemporarySession
<1>33. ASSUME NEW p \in Password, ChallengeLapses(p) PROVE GateInv' /\ MfaNotSkipped'
  BY <1>0, <1>i, <1>33 DEF ChallengeLapses
<1> QED
  BY <1>1, <1>2, <1>3, <1>4, <1>5, <1>6, <1>7, <1>8, <1>9, <1>10, <1>11, <1>12, <1>13,
     <1>14, <1>15, <1>16, <1>17, <1>18, <1>19, <1>20, <1>21, <1>22, <1>23, <1>24, <1>25,
     <1>26, <1>27, <1>28, <1>29, <1>30, <1>31, <1>32, <1>33
  DEF Next, Arrive, Step, Environment

\* Every step keeps the rest of the state within its type.
LEMMA StoresStep == IInv /\ [Next]_vars => StoresOK'
<1> SUFFICES ASSUME IInv, [Next]_vars PROVE StoresOK'
  OBVIOUS
<1> USE DEF TypeOK, StoresOK, ControlInv, Hash, Request, stores, hist, At, Uncounted
<1>0. TypeOK /\ ControlInv /\ CountInv /\ StoresOK
  BY DEF IInv
<1>s. Cardinality(Req) \in Nat /\ Cardinality(Counting) \in Nat /\ FailedBound \in Nat
  BY Slots, CredentialsAssumption
<1>1. ASSUME NEW r \in Req, NEW p \in Password, LoginRead(r, p) PROVE StoresOK'
  BY <1>0, <1>s, <1>1 DEF LoginRead
<1>2. ASSUME NEW r \in Req, RequestPasswordReset(r) PROVE StoresOK'
  BY <1>0, <1>s, <1>2 DEF RequestPasswordReset
<1>3. ASSUME NEW r \in Req, AdminResetUserPassword(r) PROVE StoresOK'
  BY <1>0, <1>s, <1>3 DEF AdminResetUserPassword
<1>4. ASSUME NEW r \in Req, NEW t \in ResetToken, NEW p \in Password, GetActivePasswordReset(r, t, p)
      PROVE  StoresOK'
  BY <1>0, <1>s, <1>4 DEF GetActivePasswordReset
<1>5. ASSUME NEW r \in Req, NEW c \in Password, NEW p \in Password, ChangePassword(r, c, p)
      PROVE  StoresOK'
  BY <1>0, <1>s, <1>5 DEF ChangePassword
<1>6. ASSUME NEW r \in Req, NEW o \in Outcome, IncrementFailedLoginAttempts(r, o)
      PROVE  StoresOK'
  <2>1. Cardinality(Counting) >= 1
    <3>1. r \in Counting
      BY <1>6 DEF IncrementFailedLoginAttempts, Counting
    <3>2. Counting \in SUBSET Req /\ Counting # {}
      BY <3>1 DEF Counting
    <3>3. IsFiniteSet(Counting)
      BY <3>2, FS_Subset, CredentialsAssumption
    <3> QED
      BY <1>s, <3>2, <3>3, FS_EmptySet
  <2>2. failed + 1 =< FailedBound
    BY <1>0, <1>s, <2>1 DEF CountInv
  <2> QED
    BY <1>0, <1>s, <1>6, <2>2 DEF IncrementFailedLoginAttempts
<1>7. ASSUME NEW r \in Req, NEW o \in Outcome, LockAuthIdentity(r, o) PROVE StoresOK'
  BY <1>0, <1>s, <1>7 DEF LockAuthIdentity
<1>8. ASSUME NEW r \in Req, NEW o \in Outcome, ResetFailedLoginAttempts(r, o) PROVE StoresOK'
  BY <1>0, <1>s, <1>8 DEF ResetFailedLoginAttempts
<1>9. ASSUME NEW r \in Req, NEW o \in Outcome, GetTOTPFactorByUserID(r, o) PROVE StoresOK'
  BY <1>0, <1>s, <1>9 DEF GetTOTPFactorByUserID
<1>10. ASSUME NEW r \in Req, NEW o \in Outcome, GetOTPFactorByUserID(r, o) PROVE StoresOK'
  BY <1>0, <1>s, <1>10 DEF GetOTPFactorByUserID
<1>11. ASSUME NEW r \in Req, NEW o \in Outcome, Rehash(r, o) PROVE StoresOK'
  BY <1>0, <1>s, <1>11 DEF Rehash
<1>12. ASSUME NEW r \in Req, NEW o \in Outcome, issueLoginSession(r, o) PROVE StoresOK'
  BY <1>0, <1>s, <1>12 DEF issueLoginSession
<1>13. ASSUME NEW r \in Req, NEW o \in Outcome, GetLatestPasswordResetForUser(r, o)
      PROVE  StoresOK'
  BY <1>0, <1>s, <1>13 DEF GetLatestPasswordResetForUser
<1>14. ASSUME NEW r \in Req, NEW o \in Outcome, CreatePasswordReset(r, o) PROVE StoresOK'
  BY <1>0, <1>s, <1>14 DEF CreatePasswordReset
<1>15. ASSUME NEW r \in Req, NEW o \in Outcome, SendPasswordResetEmail(r, o) PROVE StoresOK'
  BY <1>0, <1>s, <1>15 DEF SendPasswordResetEmail
<1>16. ASSUME NEW r \in Req, NEW o \in Outcome, CheckOwner(r, o) PROVE StoresOK'
  BY <1>0, <1>s, <1>16 DEF CheckOwner
<1>17. ASSUME NEW r \in Req, NEW o \in Outcome, CompletePasswordReset(r, o) PROVE StoresOK'
  <2>1. req[r].pw \in Password /\ req[r].token \in ResetToken
    BY <1>0, <1>17 DEF CompletePasswordReset
  <2>2. [pw |-> req[r].pw, current |-> TRUE] \in Hash
    BY <2>1
  <2>3. CASE o = "ok"
    <3>1. /\ [spent EXCEPT ![req[r].token] = @ + 1] \in [ResetToken -> Nat]
          /\ [resets EXCEPT ![req[r].token] = "used"]
               \in [ResetToken -> {"none", "active", "used", "expired"}]
      BY <1>0, <2>1
    <3>2. /\ resets' = [resets EXCEPT ![req[r].token] = "used"]
          /\ spent' = [spent EXCEPT ![req[r].token] = @ + 1]
          /\ hash' = [pw |-> req[r].pw, current |-> TRUE] /\ lastSet' = req[r].pw /\ open' = {}
          /\ carried' = Carried
          /\ UNCHANGED <<failed, lock, status, mfa, cooldown, challenges, mailed, guesses>>
      BY <1>17, <2>3 DEF CompletePasswordReset
    <3> QED
      BY <1>0, <2>1, <2>2, <3>1, <3>2, CarriedType
  <2>4. CASE o # "ok"
    BY <1>0, <1>17, <2>4 DEF CompletePasswordReset
  <2> QED
    BY <2>3, <2>4
<1>18. ASSUME NEW r \in Req, NEW o \in Outcome, CompletePasswordChange(r, o) PROVE StoresOK'
  <2>1. req[r].pw \in Password
    BY <1>0, <1>18 DEF CompletePasswordChange
  <2>2. [pw |-> req[r].pw, current |-> TRUE] \in Hash
    BY <2>1
  <2>3. CASE o = "ok"
    BY <1>0, <1>18, <2>1, <2>2, <2>3, CarriedType DEF CompletePasswordChange
  <2>4. CASE o # "ok"
    BY <1>0, <1>18, <2>4 DEF CompletePasswordChange
  <2> QED
    BY <2>3, <2>4
<1>19. CASE LockLapses
  BY <1>0, <1>s, <1>19 DEF LockLapses
<1>20. CASE CooldownEnds
  BY <1>0, <1>s, <1>20 DEF CooldownEnds
<1>21. CASE ParametersRetire
  BY <1>0, <1>s, <1>21 DEF ParametersRetire
<1>22. ASSUME NEW f \in Factor, EnableMFA(f) PROVE StoresOK'
  BY <1>0, <1>s, <1>22 DEF EnableMFA
<1>23. ASSUME NEW f \in Factor, DisableMFA(f) PROVE StoresOK'
  BY <1>0, <1>s, <1>23 DEF DisableMFA
<1>24. ASSUME NEW t \in ResetToken, ResetExpires(t) PROVE StoresOK'
  BY <1>0, <1>s, <1>24 DEF ResetExpires
<1>25. ASSUME NEW s \in {"active", "blocked", "deleted"}, SetStatus(s) PROVE StoresOK'
  BY <1>0, <1>s, <1>25 DEF SetStatus
<1>26. ASSUME NEW p \in Password, SessionEnds(p) PROVE StoresOK'
  BY <1>0, <1>s, <1>26 DEF SessionEnds
<1>27. CASE UNCHANGED vars
  BY <1>0, <1>s, <1>27 DEF vars
<1>28. ASSUME NEW r \in Req, NEW p \in Password, VerifyMFALogin(r, p) PROVE StoresOK'
  BY <1>0, <1>s, <1>28 DEF VerifyMFALogin
<1>29. ASSUME NEW r \in Req, NEW o \in Outcome, GenerateTemporaryJWT(r, o) PROVE StoresOK'
  BY <1>0, <1>s, <1>29 DEF GenerateTemporaryJWT
<1>30. ASSUME NEW r \in Req, NEW o \in Outcome, CheckSecondFactor(r, o) PROVE StoresOK'
  BY <1>0, <1>s, <1>30 DEF CheckSecondFactor
<1>31. ASSUME NEW r \in Req, NEW o \in Outcome, RecheckStatus(r, o) PROVE StoresOK'
  BY <1>0, <1>s, <1>31 DEF RecheckStatus
<1>32. ASSUME NEW r \in Req, NEW o \in Outcome, DeleteTemporarySession(r, o) PROVE StoresOK'
  BY <1>0, <1>s, <1>32 DEF DeleteTemporarySession
<1>33. ASSUME NEW p \in Password, ChallengeLapses(p) PROVE StoresOK'
  BY <1>0, <1>s, <1>33 DEF ChallengeLapses
<1> QED
  BY <1>1, <1>2, <1>3, <1>4, <1>5, <1>6, <1>7, <1>8, <1>9, <1>10, <1>11, <1>12, <1>13,
     <1>14, <1>15, <1>16, <1>17, <1>18, <1>19, <1>20, <1>21, <1>22, <1>23, <1>24, <1>25,
     <1>26, <1>27, <1>28, <1>29, <1>30, <1>31, <1>32, <1>33
  DEF Next, Arrive, Step, Environment

\* Every step keeps the types.
LEMMA TypeStep == IInv /\ [Next]_vars => TypeOK'
  BY RequestStep, StoresStep DEF TypeOK, StoresOK

\* No guess goes uncounted.
LEMMA CountStep == IInv /\ [Next]_vars => CountInv' /\ GuessInv' /\ GuessBound'
<1> SUFFICES ASSUME IInv, [Next]_vars PROVE CountInv' /\ GuessInv' /\ GuessBound'
  OBVIOUS
<1> USE DEF TypeOK, CountInv, GuessInv, GuessBound, Counting, Guessing, Request, stores,
            hist, At, Goto, Finish, Uncounted
<1>0. TypeOK /\ CountInv /\ GuessInv /\ GuessBound
  BY DEF IInv
<1>i. Idle.pc = "idle" /\ Idle \in Request
  BY DEF Idle, Request, Pc, LoggingIn, MayRehash
<1>s. /\ MaxFailed \in Nat \ {0} /\ FailedBound \in Nat
      /\ Cardinality(Req) \in Nat /\ Cardinality(Counting) \in Nat /\ Cardinality(Guessing) \in Nat
      /\ Cardinality(Counting) =< Cardinality(Req) /\ Cardinality(Guessing) =< Cardinality(Req)
  BY Slots, CredentialsAssumption
<1>1. ASSUME NEW r \in Req, NEW p \in Password, LoginRead(r, p)
      PROVE  CountInv' /\ GuessInv' /\ GuessBound'
  <2>1. PICK q \in Request :
          /\ req' = [req EXCEPT ![r] = q] /\ q.off = Factor \ mfa /\ q.pw = p
          /\ \/ /\ q.pc = "inc" /\ guesses' = guesses + 1
                /\ guesses < FailedBound /\ failed + Cardinality(Req) =< FailedBound
             \/ q.pc = "clear" /\ p = hash.pw /\ UNCHANGED guesses
    BY <1>0, <1>1, LoginEffect
  <2>2. CASE q.pc = "clear" /\ UNCHANGED guesses
    <3>1. Counting' = Counting /\ Guessing' = Guessing
      BY <1>0, <1>i, <1>1, <2>1, <2>2 DEF LoginRead
    <3> HIDE DEF Counting, Guessing
    <3> QED
      BY <1>0, <1>s, <1>1, <2>2, <3>1 DEF LoginRead
  <2>3. CASE q.pc = "inc" /\ guesses' = guesses + 1
    <3>1. /\ Counting \in SUBSET Req /\ Counting' \in SUBSET Req
          /\ Guessing \in SUBSET Req /\ Guessing' \in SUBSET Req
          /\ r \notin Counting /\ r \in Counting' /\ Counting \ {r} = Counting' \ {r}
          /\ r \notin Guessing /\ r \in Guessing' /\ Guessing \ {r} = Guessing' \ {r}
      BY <1>0, <1>i, <1>1, <2>1, <2>3 DEF LoginRead
    <3>2. /\ Cardinality(Counting') = Cardinality(Counting) + 1
          /\ Cardinality(Guessing') = Cardinality(Guessing) + 1
      BY <3>1, Membership
    <3>3. Cardinality(Counting') =< Cardinality(Req) /\ Cardinality(Guessing') =< Cardinality(Req)
      BY <3>1, FS_Subset, CredentialsAssumption
    <3>4. failed + Cardinality(Req) =< FailedBound /\ lock # "locked" /\ UNCHANGED <<failed, lock>>
      BY <1>i, <1>1, <2>1, <2>3 DEF LoginRead
    <3> HIDE DEF Counting, Guessing
    <3> QED
      BY <1>0, <1>s, <2>3, <3>2, <3>3, <3>4
  <2> QED
    BY <2>1, <2>2, <2>3
<1>2. ASSUME NEW r \in Req, RequestPasswordReset(r) PROVE CountInv' /\ GuessInv' /\ GuessBound'
  <2>1. Counting' = Counting /\ Guessing' = Guessing
    <3>1. PICK q \in Request : req' = [req EXCEPT ![r] = q] /\ q.pc \in {"cool", "create"}
      BY <1>0, <1>2, RequestEffect
    <3> QED
      BY <1>0, <1>i, <1>2, <3>1 DEF RequestPasswordReset
  <2> HIDE DEF Counting, Guessing
  <2> QED
    BY <1>0, <1>s, <1>2, <2>1 DEF RequestPasswordReset
<1>3. ASSUME NEW r \in Req, AdminResetUserPassword(r)
      PROVE  CountInv' /\ GuessInv' /\ GuessBound'
  <2>1. Counting' = Counting /\ Guessing' = Guessing
    <3>1. PICK q \in Request : req' = [req EXCEPT ![r] = q] /\ q.pc \in {"cool", "create"}
      BY <1>0, <1>3, RequestEffect
    <3> QED
      BY <1>0, <1>i, <1>3, <3>1 DEF AdminResetUserPassword
  <2> HIDE DEF Counting, Guessing
  <2> QED
    BY <1>0, <1>s, <1>3, <2>1 DEF AdminResetUserPassword
<1>4. ASSUME NEW r \in Req, NEW t \in ResetToken, NEW p \in Password, GetActivePasswordReset(r, t, p)
      PROVE  CountInv' /\ GuessInv' /\ GuessBound'
  <2>1. Counting' = Counting /\ Guessing' = Guessing
    BY <1>0, <1>i, <1>4 DEF GetActivePasswordReset
  <2> HIDE DEF Counting, Guessing
  <2> QED
    BY <1>0, <1>s, <1>4, <2>1 DEF GetActivePasswordReset
<1>5. ASSUME NEW r \in Req, NEW c \in Password, NEW p \in Password, ChangePassword(r, c, p)
      PROVE  CountInv' /\ GuessInv' /\ GuessBound'
  <2>1. Counting' = Counting /\ Guessing' = Guessing
    BY <1>0, <1>i, <1>5 DEF ChangePassword
  <2> HIDE DEF Counting, Guessing
  <2> QED
    BY <1>0, <1>s, <1>5, <2>1 DEF ChangePassword
<1>6. ASSUME NEW r \in Req, NEW o \in Outcome, IncrementFailedLoginAttempts(r, o)
      PROVE  CountInv' /\ GuessInv' /\ GuessBound'
  <2> DEFINE n == Cardinality(Counting)
             m == Cardinality(Guessing)
  <2>1. /\ Counting \in SUBSET Req /\ Counting' \in SUBSET Req
        /\ r \in Counting /\ r \notin Counting' /\ Counting \ {r} = Counting' \ {r}
        /\ Guessing \in SUBSET Req /\ Guessing' \in SUBSET Req
        /\ r \in Guessing /\ Guessing \ {r} = Guessing' \ {r}
        /\ r \in Guessing' <=> o = "ok" /\ failed + 1 >= MaxFailed
    BY <1>0, <1>i, <1>6 DEF IncrementFailedLoginAttempts
  <2>2. n' = n - 1 /\ m' = IF o = "ok" /\ failed + 1 >= MaxFailed THEN m ELSE m - 1
    BY <2>1, Membership
  <2>3. failed' = (IF o = "ok" THEN failed + 1 ELSE failed) /\ UNCHANGED lock /\ Uncounted(o)
    BY <1>6 DEF IncrementFailedLoginAttempts
  <2>4. n \in Nat /\ m \in Nat /\ n >= 1 /\ m >= 1
    BY <1>s, <2>1, <2>2, Membership, FS_EmptySet, FS_Subset, CredentialsAssumption
  <2> HIDE DEF Counting, Guessing, n, m
  <2> QED
    BY <1>0, <1>s, <2>2, <2>3, <2>4 DEF n, m
<1>7. ASSUME NEW r \in Req, NEW o \in Outcome, LockAuthIdentity(r, o)
      PROVE  CountInv' /\ GuessInv' /\ GuessBound'
  <2> DEFINE m == Cardinality(Guessing)
  <2>1. /\ Guessing \in SUBSET Req /\ Guessing' \in SUBSET Req /\ Counting' = Counting
        /\ r \in Guessing /\ r \notin Guessing' /\ Guessing \ {r} = Guessing' \ {r}
    BY <1>0, <1>i, <1>7 DEF LockAuthIdentity
  <2>2. m' = m - 1 /\ m' \in Nat
    BY <2>1, Membership
  <2>3. lock' = (IF o = "ok" THEN "locked" ELSE lock) /\ UNCHANGED failed /\ Uncounted(o)
    BY <1>7 DEF LockAuthIdentity
  <2> HIDE DEF Counting, Guessing, m
  <2> QED
    BY <1>0, <1>s, <2>1, <2>2, <2>3 DEF m
<1>8. ASSUME NEW r \in Req, NEW o \in Outcome, ResetFailedLoginAttempts(r, o)
      PROVE  CountInv' /\ GuessInv' /\ GuessBound'
  <2>1. Counting' = Counting /\ Guessing' = Guessing
    BY <1>0, <1>i, <1>8 DEF ResetFailedLoginAttempts
  <2> HIDE DEF Counting, Guessing
  <2> QED
    BY <1>0, <1>s, <1>8, <2>1 DEF ResetFailedLoginAttempts
<1>9. ASSUME NEW r \in Req, NEW o \in Outcome, GetTOTPFactorByUserID(r, o)
      PROVE  CountInv' /\ GuessInv' /\ GuessBound'
  <2>1. Counting' = Counting /\ Guessing' = Guessing
    <3>1. PICK q \in Request :
            /\ req' = [req EXCEPT ![r] = q] /\ q.pc \in {"idle", "email"}
            /\ q.pc = "email" => /\ q.pw = req[r].pw /\ q.off = req[r].off
                                 /\ ~q.found => "totp" \notin mfa
      BY <1>0, <1>9, TotpEffect
    <3> QED
      BY <1>0, <1>i, <1>9, <3>1 DEF GetTOTPFactorByUserID
  <2> HIDE DEF Counting, Guessing
  <2> QED
    BY <1>0, <1>s, <1>9, <2>1 DEF GetTOTPFactorByUserID
<1>10. ASSUME NEW r \in Req, NEW o \in Outcome, GetOTPFactorByUserID(r, o)
      PROVE  CountInv' /\ GuessInv' /\ GuessBound'
  <2>1. Counting' = Counting /\ Guessing' = Guessing
    BY <1>0, <1>i, <1>10 DEF GetOTPFactorByUserID
  <2> HIDE DEF Counting, Guessing
  <2> QED
    BY <1>0, <1>s, <1>10, <2>1 DEF GetOTPFactorByUserID
<1>11. ASSUME NEW r \in Req, NEW o \in Outcome, Rehash(r, o)
      PROVE  CountInv' /\ GuessInv' /\ GuessBound'
  <2>1. Counting' = Counting /\ Guessing' = Guessing
    BY <1>0, <1>i, <1>11 DEF Rehash
  <2> HIDE DEF Counting, Guessing
  <2> QED
    BY <1>0, <1>s, <1>11, <2>1 DEF Rehash
<1>12. ASSUME NEW r \in Req, NEW o \in Outcome, issueLoginSession(r, o)
      PROVE  CountInv' /\ GuessInv' /\ GuessBound'
  <2>1. Counting' = Counting /\ Guessing' = Guessing
    BY <1>0, <1>i, <1>12 DEF issueLoginSession
  <2> HIDE DEF Counting, Guessing
  <2> QED
    BY <1>0, <1>s, <1>12, <2>1 DEF issueLoginSession
<1>13. ASSUME NEW r \in Req, NEW o \in Outcome, GetLatestPasswordResetForUser(r, o)
      PROVE  CountInv' /\ GuessInv' /\ GuessBound'
  <2>1. Counting' = Counting /\ Guessing' = Guessing
    BY <1>0, <1>i, <1>13 DEF GetLatestPasswordResetForUser
  <2> HIDE DEF Counting, Guessing
  <2> QED
    BY <1>0, <1>s, <1>13, <2>1 DEF GetLatestPasswordResetForUser
<1>14. ASSUME NEW r \in Req, NEW o \in Outcome, CreatePasswordReset(r, o)
      PROVE  CountInv' /\ GuessInv' /\ GuessBound'
  <2>1. Counting' = Counting /\ Guessing' = Guessing
    <3>1. PICK q \in Request :
            /\ req' = [req EXCEPT ![r] = q] /\ q.pc \in {"idle", "mail"}
            /\ q.pc = "mail" => q.token \in ResetToken
      BY <1>0, <1>14, CreateEffect
    <3> QED
      BY <1>0, <1>i, <1>14, <3>1 DEF CreatePasswordReset
  <2> HIDE DEF Counting, Guessing
  <2> QED
    BY <1>0, <1>s, <1>14, <2>1 DEF CreatePasswordReset
<1>15. ASSUME NEW r \in Req, NEW o \in Outcome, SendPasswordResetEmail(r, o)
      PROVE  CountInv' /\ GuessInv' /\ GuessBound'
  <2>1. Counting' = Counting /\ Guessing' = Guessing
    BY <1>0, <1>i, <1>15 DEF SendPasswordResetEmail
  <2> HIDE DEF Counting, Guessing
  <2> QED
    BY <1>0, <1>s, <1>15, <2>1 DEF SendPasswordResetEmail
<1>16. ASSUME NEW r \in Req, NEW o \in Outcome, CheckOwner(r, o)
      PROVE  CountInv' /\ GuessInv' /\ GuessBound'
  <2>1. Counting' = Counting /\ Guessing' = Guessing
    BY <1>0, <1>i, <1>16 DEF CheckOwner
  <2> HIDE DEF Counting, Guessing
  <2> QED
    BY <1>0, <1>s, <1>16, <2>1 DEF CheckOwner
<1>17. ASSUME NEW r \in Req, NEW o \in Outcome, CompletePasswordReset(r, o)
      PROVE  CountInv' /\ GuessInv' /\ GuessBound'
  <2>1. Counting' = Counting /\ Guessing' = Guessing
    BY <1>0, <1>i, <1>17 DEF CompletePasswordReset
  <2> HIDE DEF Counting, Guessing
  <2> QED
    BY <1>0, <1>s, <1>17, <2>1 DEF CompletePasswordReset
<1>18. ASSUME NEW r \in Req, NEW o \in Outcome, CompletePasswordChange(r, o)
      PROVE  CountInv' /\ GuessInv' /\ GuessBound'
  <2>1. Counting' = Counting /\ Guessing' = Guessing
    BY <1>0, <1>i, <1>18 DEF CompletePasswordChange
  <2> HIDE DEF Counting, Guessing
  <2> QED
    BY <1>0, <1>s, <1>18, <2>1 DEF CompletePasswordChange
<1>19. CASE LockLapses
  <2>1. Counting' = Counting /\ Guessing' = Guessing
    BY <1>0, <1>i, <1>19 DEF LockLapses
  <2> HIDE DEF Counting, Guessing
  <2> QED
    BY <1>0, <1>s, <1>19, <2>1 DEF LockLapses
<1>20. CASE CooldownEnds
  <2>1. Counting' = Counting /\ Guessing' = Guessing
    BY <1>0, <1>i, <1>20 DEF CooldownEnds
  <2> HIDE DEF Counting, Guessing
  <2> QED
    BY <1>0, <1>s, <1>20, <2>1 DEF CooldownEnds
<1>21. CASE ParametersRetire
  <2>1. Counting' = Counting /\ Guessing' = Guessing
    BY <1>0, <1>i, <1>21 DEF ParametersRetire
  <2> HIDE DEF Counting, Guessing
  <2> QED
    BY <1>0, <1>s, <1>21, <2>1 DEF ParametersRetire
<1>22. ASSUME NEW f \in Factor, EnableMFA(f) PROVE CountInv' /\ GuessInv' /\ GuessBound'
  <2>1. Counting' = Counting /\ Guessing' = Guessing
    BY <1>0, <1>i, <1>22 DEF EnableMFA
  <2> HIDE DEF Counting, Guessing
  <2> QED
    BY <1>0, <1>s, <1>22, <2>1 DEF EnableMFA
<1>23. ASSUME NEW f \in Factor, DisableMFA(f) PROVE CountInv' /\ GuessInv' /\ GuessBound'
  <2>1. Counting' = Counting /\ Guessing' = Guessing
    BY <1>0, <1>i, <1>23 DEF DisableMFA
  <2> HIDE DEF Counting, Guessing
  <2> QED
    BY <1>0, <1>s, <1>23, <2>1 DEF DisableMFA
<1>24. ASSUME NEW t \in ResetToken, ResetExpires(t) PROVE CountInv' /\ GuessInv' /\ GuessBound'
  <2>1. Counting' = Counting /\ Guessing' = Guessing
    BY <1>0, <1>i, <1>24 DEF ResetExpires
  <2> HIDE DEF Counting, Guessing
  <2> QED
    BY <1>0, <1>s, <1>24, <2>1 DEF ResetExpires
<1>25. ASSUME NEW s \in {"active", "blocked", "deleted"}, SetStatus(s)
      PROVE  CountInv' /\ GuessInv' /\ GuessBound'
  <2>1. Counting' = Counting /\ Guessing' = Guessing
    BY <1>0, <1>i, <1>25 DEF SetStatus
  <2> HIDE DEF Counting, Guessing
  <2> QED
    BY <1>0, <1>s, <1>25, <2>1 DEF SetStatus
<1>26. ASSUME NEW p \in Password, SessionEnds(p) PROVE CountInv' /\ GuessInv' /\ GuessBound'
  <2>1. Counting' = Counting /\ Guessing' = Guessing
    BY <1>0, <1>i, <1>26 DEF SessionEnds
  <2> HIDE DEF Counting, Guessing
  <2> QED
    BY <1>0, <1>s, <1>26, <2>1 DEF SessionEnds
<1>27. CASE UNCHANGED vars
  <2>1. Counting' = Counting /\ Guessing' = Guessing
    BY <1>0, <1>i, <1>27 DEF vars
  <2> HIDE DEF Counting, Guessing
  <2> QED
    BY <1>0, <1>s, <1>27, <2>1 DEF vars
<1>28. ASSUME NEW r \in Req, NEW p \in Password, VerifyMFALogin(r, p)
      PROVE  CountInv' /\ GuessInv' /\ GuessBound'
  <2>1. Counting' = Counting /\ Guessing' = Guessing
    BY <1>0, <1>i, <1>28 DEF VerifyMFALogin
  <2> HIDE DEF Counting, Guessing
  <2> QED
    BY <1>0, <1>s, <1>28, <2>1 DEF VerifyMFALogin
<1>29. ASSUME NEW r \in Req, NEW o \in Outcome, GenerateTemporaryJWT(r, o)
      PROVE  CountInv' /\ GuessInv' /\ GuessBound'
  <2>1. Counting' = Counting /\ Guessing' = Guessing
    BY <1>0, <1>i, <1>29 DEF GenerateTemporaryJWT
  <2> HIDE DEF Counting, Guessing
  <2> QED
    BY <1>0, <1>s, <1>29, <2>1 DEF GenerateTemporaryJWT
<1>30. ASSUME NEW r \in Req, NEW o \in Outcome, CheckSecondFactor(r, o)
      PROVE  CountInv' /\ GuessInv' /\ GuessBound'
  <2>1. Counting' = Counting /\ Guessing' = Guessing
    <3>1. PICK q \in Request :
            /\ req' = [req EXCEPT ![r] = q] /\ q.pc \in {"idle", "status"}
            /\ q.pc = "status" => q.pw = req[r].pw /\ q.passed
      BY <1>0, <1>30, SecondEffect
    <3> QED
      BY <1>0, <1>i, <1>30, <3>1 DEF CheckSecondFactor
  <2> HIDE DEF Counting, Guessing
  <2> QED
    BY <1>0, <1>s, <1>30, <2>1 DEF CheckSecondFactor
<1>31. ASSUME NEW r \in Req, NEW o \in Outcome, RecheckStatus(r, o)
      PROVE  CountInv' /\ GuessInv' /\ GuessBound'
  <2>1. Counting' = Counting /\ Guessing' = Guessing
    BY <1>0, <1>i, <1>31 DEF RecheckStatus
  <2> HIDE DEF Counting, Guessing
  <2> QED
    BY <1>0, <1>s, <1>31, <2>1 DEF RecheckStatus
<1>32. ASSUME NEW r \in Req, NEW o \in Outcome, DeleteTemporarySession(r, o)
      PROVE  CountInv' /\ GuessInv' /\ GuessBound'
  <2>1. Counting' = Counting /\ Guessing' = Guessing
    BY <1>0, <1>i, <1>32 DEF DeleteTemporarySession
  <2> HIDE DEF Counting, Guessing
  <2> QED
    BY <1>0, <1>s, <1>32, <2>1 DEF DeleteTemporarySession
<1>33. ASSUME NEW p \in Password, ChallengeLapses(p) PROVE CountInv' /\ GuessInv' /\ GuessBound'
  <2>1. Counting' = Counting /\ Guessing' = Guessing
    BY <1>0, <1>i, <1>33 DEF ChallengeLapses
  <2> HIDE DEF Counting, Guessing
  <2> QED
    BY <1>0, <1>s, <1>33, <2>1 DEF ChallengeLapses
<1> QED
  BY <1>1, <1>2, <1>3, <1>4, <1>5, <1>6, <1>7, <1>8, <1>9, <1>10, <1>11, <1>12, <1>13,
     <1>14, <1>15, <1>16, <1>17, <1>18, <1>19, <1>20, <1>21, <1>22, <1>23, <1>24, <1>25,
     <1>26, <1>27, <1>28, <1>29, <1>30, <1>31, <1>32, <1>33
  DEF Next, Arrive, Step, Environment

\* No password comes back, and no session opens on an old one, by another way
\* than those carried over the last change.
LEMMA CarryStep == IInv /\ [Next]_vars => CarryInv' /\ OldPasswordOnlyByRehash' /\ OldSessionOnlyByPendingLogin'
<1> SUFFICES ASSUME IInv, [Next]_vars PROVE CarryInv' /\ OldPasswordOnlyByRehash' /\ OldSessionOnlyByPendingLogin'
  OBVIOUS
<1> USE DEF TypeOK, CarryInv, OldPasswordOnlyByRehash, OldSessionOnlyByPendingLogin, Hash,
            Request, LoggingIn, MayRehash, stores, hist, At, Goto, Finish
<1>0. TypeOK /\ ControlInv /\ CarryInv /\ OldPasswordOnlyByRehash /\ OldSessionOnlyByPendingLogin
  BY DEF IInv
<1>i. Idle.pc = "idle" /\ Idle \in Request
  BY DEF Idle, Request, Pc
<1>1. ASSUME NEW r \in Req, NEW p \in Password, LoginRead(r, p)
      PROVE  CarryInv' /\ OldPasswordOnlyByRehash' /\ OldSessionOnlyByPendingLogin'
  <2>1. PICK q \in Request :
          /\ req' = [req EXCEPT ![r] = q] /\ q.off = Factor \ mfa /\ q.pw = p
          /\ \/ /\ q.pc = "inc" /\ guesses' = guesses + 1
                /\ guesses < FailedBound /\ failed + Cardinality(Req) =< FailedBound
             \/ q.pc = "clear" /\ p = hash.pw /\ UNCHANGED guesses
    BY <1>0, <1>1, LoginEffect
  <2> QED
    BY <1>0, <1>i, <1>1, <2>1 DEF LoginRead
<1>2. ASSUME NEW r \in Req, RequestPasswordReset(r)
      PROVE  CarryInv' /\ OldPasswordOnlyByRehash' /\ OldSessionOnlyByPendingLogin'
  <2>1. PICK q \in Request : req' = [req EXCEPT ![r] = q] /\ q.pc \in {"cool", "create"}
    BY <1>0, <1>2, RequestEffect
  <2> QED
    BY <1>0, <1>i, <1>2, <2>1 DEF RequestPasswordReset
<1>3. ASSUME NEW r \in Req, AdminResetUserPassword(r)
      PROVE  CarryInv' /\ OldPasswordOnlyByRehash' /\ OldSessionOnlyByPendingLogin'
  <2>1. PICK q \in Request : req' = [req EXCEPT ![r] = q] /\ q.pc \in {"cool", "create"}
    BY <1>0, <1>3, RequestEffect
  <2> QED
    BY <1>0, <1>i, <1>3, <2>1 DEF AdminResetUserPassword
<1>4. ASSUME NEW r \in Req, NEW t \in ResetToken, NEW p \in Password, GetActivePasswordReset(r, t, p)
      PROVE  CarryInv' /\ OldPasswordOnlyByRehash' /\ OldSessionOnlyByPendingLogin'
  BY <1>0, <1>i, <1>4 DEF GetActivePasswordReset
<1>5. ASSUME NEW r \in Req, NEW c \in Password, NEW p \in Password, ChangePassword(r, c, p)
      PROVE  CarryInv' /\ OldPasswordOnlyByRehash' /\ OldSessionOnlyByPendingLogin'
  BY <1>0, <1>i, <1>5 DEF ChangePassword
<1>6. ASSUME NEW r \in Req, NEW o \in Outcome, IncrementFailedLoginAttempts(r, o)
      PROVE  CarryInv' /\ OldPasswordOnlyByRehash' /\ OldSessionOnlyByPendingLogin'
  BY <1>0, <1>i, <1>6 DEF IncrementFailedLoginAttempts
<1>7. ASSUME NEW r \in Req, NEW o \in Outcome, LockAuthIdentity(r, o)
      PROVE  CarryInv' /\ OldPasswordOnlyByRehash' /\ OldSessionOnlyByPendingLogin'
  BY <1>0, <1>i, <1>7 DEF LockAuthIdentity
<1>8. ASSUME NEW r \in Req, NEW o \in Outcome, ResetFailedLoginAttempts(r, o)
      PROVE  CarryInv' /\ OldPasswordOnlyByRehash' /\ OldSessionOnlyByPendingLogin'
  BY <1>0, <1>i, <1>8 DEF ResetFailedLoginAttempts
<1>9. ASSUME NEW r \in Req, NEW o \in Outcome, GetTOTPFactorByUserID(r, o)
      PROVE  CarryInv' /\ OldPasswordOnlyByRehash' /\ OldSessionOnlyByPendingLogin'
  <2>1. PICK q \in Request :
          /\ req' = [req EXCEPT ![r] = q] /\ q.pc \in {"idle", "email"}
          /\ q.pc = "email" => q.pw = req[r].pw /\ q.stale = req[r].stale
    BY <1>0, <1>9, TotpEffect
  <2> QED
    BY <1>0, <1>i, <1>9, <2>1 DEF GetTOTPFactorByUserID
<1>10. ASSUME NEW r \in Req, NEW o \in Outcome, GetOTPFactorByUserID(r, o)
      PROVE  CarryInv' /\ OldPasswordOnlyByRehash' /\ OldSessionOnlyByPendingLogin'
  BY <1>0, <1>i, <1>10 DEF GetOTPFactorByUserID
<1>11. ASSUME NEW r \in Req, NEW o \in Outcome, Rehash(r, o)
      PROVE  CarryInv' /\ OldPasswordOnlyByRehash' /\ OldSessionOnlyByPendingLogin'
  BY <1>0, <1>i, <1>11 DEF Rehash
<1>12. ASSUME NEW r \in Req, NEW o \in Outcome, issueLoginSession(r, o)
      PROVE  CarryInv' /\ OldPasswordOnlyByRehash' /\ OldSessionOnlyByPendingLogin'
  BY <1>0, <1>i, <1>12 DEF issueLoginSession
<1>13. ASSUME NEW r \in Req, NEW o \in Outcome, GetLatestPasswordResetForUser(r, o)
      PROVE  CarryInv' /\ OldPasswordOnlyByRehash' /\ OldSessionOnlyByPendingLogin'
  BY <1>0, <1>i, <1>13 DEF GetLatestPasswordResetForUser
<1>14. ASSUME NEW r \in Req, NEW o \in Outcome, CreatePasswordReset(r, o)
      PROVE  CarryInv' /\ OldPasswordOnlyByRehash' /\ OldSessionOnlyByPendingLogin'
  <2>1. PICK q \in Request :
          /\ req' = [req EXCEPT ![r] = q] /\ q.pc \in {"idle", "mail"}
          /\ q.pc = "mail" => q.token \in ResetToken
    BY <1>0, <1>14, CreateEffect
  <2> QED
    BY <1>0, <1>i, <1>14, <2>1 DEF CreatePasswordReset
<1>15. ASSUME NEW r \in Req, NEW o \in Outcome, SendPasswordResetEmail(r, o)
      PROVE  CarryInv' /\ OldPasswordOnlyByRehash' /\ OldSessionOnlyByPendingLogin'
  BY <1>0, <1>i, <1>15 DEF SendPasswordResetEmail
<1>16. ASSUME NEW r \in Req, NEW o \in Outcome, CheckOwner(r, o)
      PROVE  CarryInv' /\ OldPasswordOnlyByRehash' /\ OldSessionOnlyByPendingLogin'
  BY <1>0, <1>i, <1>16 DEF CheckOwner
<1>17. ASSUME NEW r \in Req, NEW o \in Outcome, CompletePasswordReset(r, o)
      PROVE  CarryInv' /\ OldPasswordOnlyByRehash' /\ OldSessionOnlyByPendingLogin'
  <2>1. CASE o = "ok"
    <3>1. /\ lastSet' = req[r].pw /\ carried' = Carried /\ UNCHANGED challenges
          /\ req' = [req EXCEPT ![r] = Idle]
          /\ hash'.pw = lastSet' /\ open' \subseteq {lastSet'}
      BY <1>0, <1>17, <2>1 DEF CompletePasswordReset
    <3>2. /\ Carried.login = challenges \cup {req[q].pw : q \in {x \in Req : req[x].pc \in LoggingIn}}
          /\ Carried.rehash = {req[q].pw : q \in {x \in Req : req[x].pc \in MayRehash /\ req[x].stale}}
      BY DEF Carried
    <3>3. MayRehash \subseteq LoggingIn
      BY DEF LoggingIn
    <3>4. \A q \in Req : req'[q] = Idle \/ req'[q] = req[q]
      BY <1>0, <3>1
    <3>5. CarryInv'
      BY <1>0, <1>i, <3>1, <3>2, <3>3, <3>4 DEF LoggingIn, MayRehash
    <3> QED
      BY <3>1, <3>5
  <2>2. CASE o # "ok"
    BY <1>0, <1>i, <1>17, <2>2 DEF CompletePasswordReset, LoggingIn, MayRehash
  <2> QED
    BY <2>1, <2>2
<1>18. ASSUME NEW r \in Req, NEW o \in Outcome, CompletePasswordChange(r, o)
      PROVE  CarryInv' /\ OldPasswordOnlyByRehash' /\ OldSessionOnlyByPendingLogin'
  <2>1. CASE o = "ok"
    <3>1. /\ lastSet' = req[r].pw /\ carried' = Carried /\ UNCHANGED challenges
          /\ req' = [req EXCEPT ![r] = Idle]
          /\ hash'.pw = lastSet' /\ open' \subseteq {lastSet'}
      BY <1>0, <1>18, <2>1 DEF CompletePasswordChange
    <3>2. /\ Carried.login = challenges \cup {req[q].pw : q \in {x \in Req : req[x].pc \in LoggingIn}}
          /\ Carried.rehash = {req[q].pw : q \in {x \in Req : req[x].pc \in MayRehash /\ req[x].stale}}
      BY DEF Carried
    <3>3. MayRehash \subseteq LoggingIn
      BY DEF LoggingIn
    <3>4. \A q \in Req : req'[q] = Idle \/ req'[q] = req[q]
      BY <1>0, <3>1
    <3>5. CarryInv'
      BY <1>0, <1>i, <3>1, <3>2, <3>3, <3>4 DEF LoggingIn, MayRehash
    <3> QED
      BY <3>1, <3>5
  <2>2. CASE o # "ok"
    BY <1>0, <1>i, <1>18, <2>2 DEF CompletePasswordChange, LoggingIn, MayRehash
  <2> QED
    BY <2>1, <2>2
<1>19. CASE LockLapses
  BY <1>0, <1>i, <1>19 DEF LockLapses
<1>20. CASE CooldownEnds
  BY <1>0, <1>i, <1>20 DEF CooldownEnds
<1>21. CASE ParametersRetire
  BY <1>0, <1>i, <1>21 DEF ParametersRetire
<1>22. ASSUME NEW f \in Factor, EnableMFA(f)
      PROVE  CarryInv' /\ OldPasswordOnlyByRehash' /\ OldSessionOnlyByPendingLogin'
  BY <1>0, <1>i, <1>22 DEF EnableMFA
<1>23. ASSUME NEW f \in Factor, DisableMFA(f)
      PROVE  CarryInv' /\ OldPasswordOnlyByRehash' /\ OldSessionOnlyByPendingLogin'
  BY <1>0, <1>i, <1>23 DEF DisableMFA
<1>24. ASSUME NEW t \in ResetToken, ResetExpires(t)
      PROVE  CarryInv' /\ OldPasswordOnlyByRehash' /\ OldSessionOnlyByPendingLogin'
  BY <1>0, <1>i, <1>24 DEF ResetExpires
<1>25. ASSUME NEW s \in {"active", "blocked", "deleted"}, SetStatus(s)
      PROVE  CarryInv' /\ OldPasswordOnlyByRehash' /\ OldSessionOnlyByPendingLogin'
  BY <1>0, <1>i, <1>25 DEF SetStatus
<1>26. ASSUME NEW p \in Password, SessionEnds(p)
      PROVE  CarryInv' /\ OldPasswordOnlyByRehash' /\ OldSessionOnlyByPendingLogin'
  BY <1>0, <1>i, <1>26 DEF SessionEnds
<1>27. CASE UNCHANGED vars
  BY <1>0, <1>i, <1>27 DEF vars
<1>28. ASSUME NEW r \in Req, NEW p \in Password, VerifyMFALogin(r, p)
      PROVE  CarryInv' /\ OldPasswordOnlyByRehash' /\ OldSessionOnlyByPendingLogin'
  BY <1>0, <1>i, <1>28 DEF VerifyMFALogin
<1>29. ASSUME NEW r \in Req, NEW o \in Outcome, GenerateTemporaryJWT(r, o)
      PROVE  CarryInv' /\ OldPasswordOnlyByRehash' /\ OldSessionOnlyByPendingLogin'
  BY <1>0, <1>i, <1>29 DEF GenerateTemporaryJWT
<1>30. ASSUME NEW r \in Req, NEW o \in Outcome, CheckSecondFactor(r, o)
      PROVE  CarryInv' /\ OldPasswordOnlyByRehash' /\ OldSessionOnlyByPendingLogin'
  <2>1. PICK q \in Request :
          /\ req' = [req EXCEPT ![r] = q] /\ q.pc \in {"idle", "status"}
          /\ q.pc = "status" => q.pw = req[r].pw /\ q.passed
    BY <1>0, <1>30, SecondEffect
  <2> QED
    BY <1>0, <1>i, <1>30, <2>1 DEF CheckSecondFactor
<1>31. ASSUME NEW r \in Req, NEW o \in Outcome, RecheckStatus(r, o)
      PROVE  CarryInv' /\ OldPasswordOnlyByRehash' /\ OldSessionOnlyByPendingLogin'
  BY <1>0, <1>i, <1>31 DEF RecheckStatus
<1>32. ASSUME NEW r \in Req, NEW o \in Outcome, DeleteTemporarySession(r, o)
      PROVE  CarryInv' /\ OldPasswordOnlyByRehash' /\ OldSessionOnlyByPendingLogin'
  BY <1>0, <1>i, <1>32 DEF DeleteTemporarySession
<1>33. ASSUME NEW p \in Password, ChallengeLapses(p)
      PROVE  CarryInv' /\ OldPasswordOnlyByRehash' /\ OldSessionOnlyByPendingLogin'
  BY <1>0, <1>i, <1>33 DEF ChallengeLapses
<1> QED
  BY <1>1, <1>2, <1>3, <1>4, <1>5, <1>6, <1>7, <1>8, <1>9, <1>10, <1>11, <1>12, <1>13,
     <1>14, <1>15, <1>16, <1>17, <1>18, <1>19, <1>20, <1>21, <1>22, <1>23, <1>24, <1>25,
     <1>26, <1>27, <1>28, <1>29, <1>30, <1>31, <1>32, <1>33
  DEF Next, Arrive, Step, Environment

\* What a step can do to a reset token: a request reads it as unused, a reset
\* completes with it, or requests with it end and it is not marked used.
LEMMA TokenMoves == IInv /\ [Next]_vars => \A u \in ResetToken : TokenMove(u)
<1> SUFFICES ASSUME IInv, [Next]_vars PROVE \A u \in ResetToken : TokenMove(u)
  OBVIOUS
<1> USE DEF TypeOK, ControlInv, Request, stores, hist, At, Goto, Finish, TokenMove, Resetting
<1>0. TypeOK /\ ControlInv
  BY DEF IInv
<1>i. Idle.pc = "idle" /\ Idle \in Request
  BY DEF Idle, Request, Pc
<1>1. ASSUME NEW r \in Req, NEW p \in Password, LoginRead(r, p)
      PROVE  \A u \in ResetToken : TokenMove(u)
  <2>1. PICK q \in Request :
          /\ req' = [req EXCEPT ![r] = q] /\ q.off = Factor \ mfa /\ q.pw = p
          /\ \/ /\ q.pc = "inc" /\ guesses' = guesses + 1
                /\ guesses < FailedBound /\ failed + Cardinality(Req) =< FailedBound
             \/ q.pc = "clear" /\ p = hash.pw /\ UNCHANGED guesses
    BY <1>0, <1>1, LoginEffect
  <2>2. /\ UNCHANGED <<spent, resets>> /\ req[r].pc = "idle"
        /\ q.pc \notin {"owner", "resetTx"}
    BY <1>i, <1>1, <2>1 DEF LoginRead
  <2>3. \A u \in ResetToken : Resetting(u)' \subseteq Resetting(u)
    BY <1>0, <2>1, <2>2 DEF Resetting
  <2> QED
    BY <2>2, <2>3
<1>2. ASSUME NEW r \in Req, RequestPasswordReset(r) PROVE \A u \in ResetToken : TokenMove(u)
  <2>1. PICK q \in Request : req' = [req EXCEPT ![r] = q] /\ q.pc \in {"cool", "create"}
    BY <1>0, <1>2, RequestEffect
  <2> QED
    BY <1>0, <1>i, <1>2, <2>1 DEF RequestPasswordReset
<1>3. ASSUME NEW r \in Req, AdminResetUserPassword(r) PROVE \A u \in ResetToken : TokenMove(u)
  <2>1. PICK q \in Request : req' = [req EXCEPT ![r] = q] /\ q.pc \in {"cool", "create"}
    BY <1>0, <1>3, RequestEffect
  <2> QED
    BY <1>0, <1>i, <1>3, <2>1 DEF AdminResetUserPassword
<1>4. ASSUME NEW r \in Req, NEW t \in ResetToken, NEW p \in Password, GetActivePasswordReset(r, t, p)
      PROVE  \A u \in ResetToken : TokenMove(u)
  <2>1. req' = [req EXCEPT ![r] = [Idle EXCEPT !.pc = "owner", !.pw = p, !.token = t]]
    BY <1>4 DEF GetActivePasswordReset
  <2>2. [Idle EXCEPT !.pc = "owner", !.pw = p, !.token = t].token = t
    BY DEF Idle
  <2>3. \A u \in ResetToken : u # t => Resetting(u)' \subseteq Resetting(u)
    BY <1>0, <2>1, <2>2 DEF Resetting
  <2>4. UNCHANGED <<spent, resets>> /\ resets[t] # "used"
    BY <1>4 DEF GetActivePasswordReset
  <2> QED
    BY <2>3, <2>4
<1>5. ASSUME NEW r \in Req, NEW c \in Password, NEW p \in Password, ChangePassword(r, c, p)
      PROVE  \A u \in ResetToken : TokenMove(u)
  BY <1>0, <1>i, <1>5 DEF ChangePassword
<1>6. ASSUME NEW r \in Req, NEW o \in Outcome, IncrementFailedLoginAttempts(r, o)
      PROVE  \A u \in ResetToken : TokenMove(u)
  BY <1>0, <1>i, <1>6 DEF IncrementFailedLoginAttempts
<1>7. ASSUME NEW r \in Req, NEW o \in Outcome, LockAuthIdentity(r, o)
      PROVE  \A u \in ResetToken : TokenMove(u)
  BY <1>0, <1>i, <1>7 DEF LockAuthIdentity
<1>8. ASSUME NEW r \in Req, NEW o \in Outcome, ResetFailedLoginAttempts(r, o)
      PROVE  \A u \in ResetToken : TokenMove(u)
  BY <1>0, <1>i, <1>8 DEF ResetFailedLoginAttempts
<1>9. ASSUME NEW r \in Req, NEW o \in Outcome, GetTOTPFactorByUserID(r, o)
      PROVE  \A u \in ResetToken : TokenMove(u)
  <2>1. PICK q \in Request :
          /\ req' = [req EXCEPT ![r] = q] /\ q.pc \in {"idle", "email"}
          /\ q.pc = "email" => q.pw = req[r].pw /\ q.stale = req[r].stale
    BY <1>0, <1>9, TotpEffect
  <2> QED
    BY <1>0, <1>i, <1>9, <2>1 DEF GetTOTPFactorByUserID
<1>10. ASSUME NEW r \in Req, NEW o \in Outcome, GetOTPFactorByUserID(r, o)
      PROVE  \A u \in ResetToken : TokenMove(u)
  BY <1>0, <1>i, <1>10 DEF GetOTPFactorByUserID
<1>11. ASSUME NEW r \in Req, NEW o \in Outcome, Rehash(r, o)
      PROVE  \A u \in ResetToken : TokenMove(u)
  BY <1>0, <1>i, <1>11 DEF Rehash
<1>12. ASSUME NEW r \in Req, NEW o \in Outcome, issueLoginSession(r, o)
      PROVE  \A u \in ResetToken : TokenMove(u)
  BY <1>0, <1>i, <1>12 DEF issueLoginSession
<1>13. ASSUME NEW r \in Req, NEW o \in Outcome, GetLatestPasswordResetForUser(r, o)
      PROVE  \A u \in ResetToken : TokenMove(u)
  BY <1>0, <1>i, <1>13 DEF GetLatestPasswordResetForUser
<1>14. ASSUME NEW r \in Req, NEW o \in Outcome, CreatePasswordReset(r, o)
      PROVE  \A u \in ResetToken : TokenMove(u)
  <2>1. PICK q \in Request :
          /\ req' = [req EXCEPT ![r] = q] /\ q.pc \in {"idle", "mail"}
          /\ q.pc = "mail" => q.token \in ResetToken
    BY <1>0, <1>14, CreateEffect
  <2> QED
    BY <1>0, <1>i, <1>14, <2>1 DEF CreatePasswordReset
<1>15. ASSUME NEW r \in Req, NEW o \in Outcome, SendPasswordResetEmail(r, o)
      PROVE  \A u \in ResetToken : TokenMove(u)
  BY <1>0, <1>i, <1>15 DEF SendPasswordResetEmail
<1>16. ASSUME NEW r \in Req, NEW o \in Outcome, CheckOwner(r, o)
      PROVE  \A u \in ResetToken : TokenMove(u)
  BY <1>0, <1>i, <1>16 DEF CheckOwner
<1>17. ASSUME NEW r \in Req, NEW o \in Outcome, CompletePasswordReset(r, o)
      PROVE  \A u \in ResetToken : TokenMove(u)
  <2>1. CASE o = "ok"
    <3>0. PICK t \in ResetToken : t = req[r].token
      BY <1>0, <1>17 DEF CompletePasswordReset
    <3>1. r \in Resetting(t)
      BY <1>17, <3>0 DEF CompletePasswordReset, Resetting
    <3>2. /\ req' = [req EXCEPT ![r] = Idle]
          /\ spent' = [spent EXCEPT ![t] = @ + 1] /\ resets' = [resets EXCEPT ![t] = "used"]
      BY <1>17, <2>1, <3>0 DEF CompletePasswordReset
    <3>a. \A q \in Req : req'[q] = IF q = r THEN Idle ELSE req[q]
      BY <1>0, <3>2
    <3>3. /\ \A u \in ResetToken : Resetting(u)' \subseteq Resetting(u)
          /\ Resetting(t)' = Resetting(t) \ {r}
      <4>1. \A u \in ResetToken : Resetting(u)' \subseteq Resetting(u)
        BY <1>i, <3>a DEF Resetting
      <4>2. Resetting(t)' = Resetting(t) \ {r}
        BY <1>i, <3>a DEF Resetting
      <4> QED
        BY <4>1, <4>2
    <3>4. /\ resets'[t] = "used" /\ spent'[t] = spent[t] + 1
          /\ \A u \in ResetToken : u # t => resets'[u] = resets[u] /\ spent'[u] = spent[u]
      BY <1>0, <3>1, <3>2
    <3> HIDE DEF Resetting
    <3> QED
      BY <3>0, <3>1, <3>3, <3>4
  <2>2. CASE o # "ok"
    BY <1>0, <1>i, <1>17, <2>2 DEF CompletePasswordReset, Resetting
  <2> QED
    BY <2>1, <2>2
<1>18. ASSUME NEW r \in Req, NEW o \in Outcome, CompletePasswordChange(r, o)
      PROVE  \A u \in ResetToken : TokenMove(u)
  BY <1>0, <1>i, <1>18 DEF CompletePasswordChange
<1>19. CASE LockLapses
  BY <1>0, <1>i, <1>19 DEF LockLapses
<1>20. CASE CooldownEnds
  BY <1>0, <1>i, <1>20 DEF CooldownEnds
<1>21. CASE ParametersRetire
  BY <1>0, <1>i, <1>21 DEF ParametersRetire
<1>22. ASSUME NEW f \in Factor, EnableMFA(f) PROVE \A u \in ResetToken : TokenMove(u)
  BY <1>0, <1>i, <1>22 DEF EnableMFA
<1>23. ASSUME NEW f \in Factor, DisableMFA(f) PROVE \A u \in ResetToken : TokenMove(u)
  BY <1>0, <1>i, <1>23 DEF DisableMFA
<1>24. ASSUME NEW t \in ResetToken, ResetExpires(t) PROVE \A u \in ResetToken : TokenMove(u)
  BY <1>0, <1>i, <1>24 DEF ResetExpires
<1>25. ASSUME NEW s \in {"active", "blocked", "deleted"}, SetStatus(s)
      PROVE  \A u \in ResetToken : TokenMove(u)
  BY <1>0, <1>i, <1>25 DEF SetStatus
<1>26. ASSUME NEW p \in Password, SessionEnds(p) PROVE \A u \in ResetToken : TokenMove(u)
  BY <1>0, <1>i, <1>26 DEF SessionEnds
<1>27. CASE UNCHANGED vars
  BY <1>0, <1>i, <1>27 DEF vars
<1>28. ASSUME NEW r \in Req, NEW p \in Password, VerifyMFALogin(r, p)
      PROVE  \A u \in ResetToken : TokenMove(u)
  BY <1>0, <1>i, <1>28 DEF VerifyMFALogin
<1>29. ASSUME NEW r \in Req, NEW o \in Outcome, GenerateTemporaryJWT(r, o)
      PROVE  \A u \in ResetToken : TokenMove(u)
  BY <1>0, <1>i, <1>29 DEF GenerateTemporaryJWT
<1>30. ASSUME NEW r \in Req, NEW o \in Outcome, CheckSecondFactor(r, o)
      PROVE  \A u \in ResetToken : TokenMove(u)
  <2>1. PICK q \in Request :
          /\ req' = [req EXCEPT ![r] = q] /\ q.pc \in {"idle", "status"}
          /\ q.pc = "status" => q.pw = req[r].pw /\ q.passed
    BY <1>0, <1>30, SecondEffect
  <2> QED
    BY <1>0, <1>i, <1>30, <2>1 DEF CheckSecondFactor
<1>31. ASSUME NEW r \in Req, NEW o \in Outcome, RecheckStatus(r, o)
      PROVE  \A u \in ResetToken : TokenMove(u)
  BY <1>0, <1>i, <1>31 DEF RecheckStatus
<1>32. ASSUME NEW r \in Req, NEW o \in Outcome, DeleteTemporarySession(r, o)
      PROVE  \A u \in ResetToken : TokenMove(u)
  BY <1>0, <1>i, <1>32 DEF DeleteTemporarySession
<1>33. ASSUME NEW p \in Password, ChallengeLapses(p) PROVE \A u \in ResetToken : TokenMove(u)
  BY <1>0, <1>i, <1>33 DEF ChallengeLapses
<1> QED
  BY <1>1, <1>2, <1>3, <1>4, <1>5, <1>6, <1>7, <1>8, <1>9, <1>10, <1>11, <1>12, <1>13,
     <1>14, <1>15, <1>16, <1>17, <1>18, <1>19, <1>20, <1>21, <1>22, <1>23, <1>24, <1>25,
     <1>26, <1>27, <1>28, <1>29, <1>30, <1>31, <1>32, <1>33
  DEF Next, Arrive, Step, Environment

\* A token is spent at most once for every request that has read it as unused.
LEMMA TokenStep == IInv /\ [Next]_vars => TokenInv'
<1> SUFFICES ASSUME IInv, [Next]_vars, NEW t \in ResetToken
             PROVE  (resets[t] # "used" => spent[t] = 0)'
                    /\ (spent[t] + Cardinality(Resetting(t)) =< Cardinality(Req))'
  BY DEF TokenInv
<1>1. /\ TypeOK /\ (resets[t] # "used" => spent[t] = 0)
      /\ spent[t] + Cardinality(Resetting(t)) =< Cardinality(Req)
  BY DEF IInv, TokenInv
<1>2. spent[t] \in Nat
  BY <1>1 DEF TypeOK
<1>3. Resetting(t) \in SUBSET Req /\ Resetting(t)' \in SUBSET Req
  BY DEF Resetting
<1>4. /\ IsFiniteSet(Req) /\ Cardinality(Req) \in Nat
      /\ IsFiniteSet(Resetting(t)) /\ Cardinality(Resetting(t)) \in Nat
      /\ IsFiniteSet(Resetting(t)') /\ Cardinality(Resetting(t)') \in Nat
      /\ Cardinality(Resetting(t)') =< Cardinality(Req)
  BY <1>3, CredentialsAssumption, FS_Subset, FS_CardinalityType
<1>5. TokenMove(t)
  BY TokenMoves
<1>6. CASE resets[t] # "used" /\ resets'[t] # "used" /\ spent'[t] = spent[t]
  BY <1>1, <1>2, <1>4, <1>6
<1>7. CASE /\ resets'[t] = "used" /\ spent'[t] = spent[t] + 1
           /\ \E r \in Resetting(t) : Resetting(t)' = Resetting(t) \ {r}
  <2>1. Cardinality(Resetting(t)') = Cardinality(Resetting(t)) - 1
    BY <1>4, <1>7, FS_RemoveElement
  <2> QED
    BY <1>1, <1>2, <1>4, <1>7, <2>1
<1>8. CASE /\ spent'[t] = spent[t] /\ (resets'[t] = "used") = (resets[t] = "used")
           /\ Resetting(t)' \subseteq Resetting(t)
  <2>1. Cardinality(Resetting(t)') =< Cardinality(Resetting(t))
    BY <1>4, <1>8, FS_Subset
  <2> QED
    BY <1>1, <1>2, <1>4, <1>8, <2>1
<1> QED
  BY <1>5, <1>6, <1>7, <1>8 DEF TokenMove

\* The invariant is inductive.
LEMMA IInvStep == IInv /\ [Next]_vars => IInv'
  BY TypeStep, ControlStep, GateStep, CountStep, CarryStep, TokenStep DEF IInv

\* The invariant holds in every reachable state.
THEOREM Invariance == Spec => []IInv
<1>1. IInv /\ [Next]_vars => IInv'
  BY IInvStep
<1> QED
  BY InitIInv, <1>1, PTL DEF Spec

\* Every reachable state of the account is well typed.
THEOREM TypeCorrect == Spec => []TypeOK
<1>1. IInv => TypeOK
  BY DEF IInv
<1> QED
  BY Invariance, <1>1, PTL

\* However many logins overlap and whichever calls fail, the wrong passwords
\* compared between two resets of the counter or lapses of the lock stay below
\* the limit plus the requests in flight.
THEOREM LockoutBound == Spec => []GuessBound
<1>1. IInv => GuessBound
  BY DEF IInv
<1> QED
  BY Invariance, <1>1, PTL

\* No login passes a factor that was enabled from its first read to the gate.
THEOREM GateHolds == Spec => []MfaNotSkipped
<1>1. IInv => MfaNotSkipped
  BY DEF IInv
<1> QED
  BY Invariance, <1>1, PTL

\* An old password is accepted again only because a login that read a retired
\* hash was past its comparison when the new one was set, and rehashes.
THEOREM OldPasswordsReturnByRehash == Spec => []OldPasswordOnlyByRehash
<1>1. IInv => OldPasswordOnlyByRehash
  BY DEF IInv
<1> QED
  BY Invariance, <1>1, PTL

\* After a reset or change a session obtained with an old password is open only
\* for a login or a challenge that was pending when the new one was set.
THEOREM OldSessionsEnd == Spec => []OldSessionOnlyByPendingLogin
<1>1. IInv => OldSessionOnlyByPendingLogin
  BY DEF IInv
<1> QED
  BY Invariance, <1>1, PTL

\* A reset token sets at most one password for every request that can be in
\* flight at once, even if it expires while a reset is in progress.
THEOREM ResetTokenBound == Spec => []ResetBound
<1>1. IInv => ResetBound
  <2> SUFFICES ASSUME IInv, NEW t \in ResetToken PROVE spent[t] =< Cardinality(Req)
    BY DEF ResetBound
  <2>1. Resetting(t) \in SUBSET Req
    BY DEF Resetting
  <2>2. Cardinality(Resetting(t)) \in Nat /\ Cardinality(Req) \in Nat
    BY <2>1, CredentialsAssumption, FS_Subset, FS_CardinalityType
  <2>3. spent[t] \in Nat /\ spent[t] + Cardinality(Resetting(t)) =< Cardinality(Req)
    BY DEF IInv, TypeOK, TokenInv
  <2> QED
    BY <2>2, <2>3
<1> QED
  BY Invariance, <1>1, PTL
==============================================================================
