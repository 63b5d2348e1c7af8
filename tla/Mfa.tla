-------------------------------- MODULE Mfa --------------------------------
(***************************************************************************)
(* The second factors of one account: enrolling, verifying and disabling   *)
(* the TOTP and the email factor, recovery codes, and VerifyMFALogin, the  *)
(* second step of a login whose password step ended in a challenge (the    *)
(* gate itself is in Credentials).  The state is the account's rows in     *)
(* mfa_factors and mfa_recovery_codes, the mailed codes and the challenge  *)
(* sessions in Redis; each store call that matters to another request is   *)
(* one step.                                                               *)
(*                                                                         *)
(* A TOTP code is its secret and its time step.  The columns verified and  *)
(* enabled are always written together and are one flag here;              *)
(* failed_attempts and last_used_at are written and never read, and are    *)
(* left out.  A batch of recovery codes is one code.  A row's id is the    *)
(* secret, or the code, that its INSERT came with: an upsert that finds    *)
(* the row in place changes the secret and not the id.                     *)
(***************************************************************************)
EXTENDS Naturals, FiniteSets

CONSTANTS
    Req,         \* request slots
    Secret,      \* TOTP secrets GenerateTOTPSecret can return
    Code,        \* codes utils.GenerateCode can return for the mailbox
    Recovery,    \* recovery codes (batches of them)
    Challenge,   \* mfa_pending tokens
    None,        \* no secret, code, recovery code or challenge
    Others,      \* the factors of other accounts
    MaxStep,     \* bound on time, in TOTP steps
    MaxAttempts, \* mfaOTPMaxAttempts, 5 in the code
    Plans,       \* the sets of factors an account may enrol
    Faults       \* TRUE: any store call, and the mail, may fail

Factor == {"totp", "email"}

ASSUME MfaAssumption ==
    /\ IsFiniteSet(Req)
    /\ None \notin Secret \cup Code \cup Recovery \cup Challenge
    /\ Others \cap (Secret \cup Code \cup {None}) = {}
    /\ Secret \cap Code = {} /\ Secret \cap Recovery = {} /\ Code \cap Recovery = {}
    /\ MaxStep \in Nat \ {0} /\ MaxAttempts \in Nat \ {0}
    /\ Plans \subseteq SUBSET Factor /\ Faults \in BOOLEAN

VARIABLES
    plan,      \* the factors this account's owner enrols
    now,       \* the current TOTP step
    totp,      \* the account's mfa_factors row of type totp, or NoTotp
    email,     \* its row of type email, or NoEmail
    recovery,  \* recovery[x]: the row of code x, anybody's, or NoRecovery
    otp,       \* otp[p]: the metadata under mfa_otp:email:<p>:<user>
    age,       \* age[c]: "unused", "young" (under a minute), "old", "expired"
    challenge, \* challenge[h]: "none", "live" or "gone"
    req,       \* req[r]: the local state of request r
    issued,    \* secrets and recovery codes already generated
    spent,     \* history: recovery codes marked used
    proved,    \* history: secrets a valid code was shown for to enrol
    log        \* history: what happened so far, kept while it was quiet

rows == <<totp, email, recovery>>
redis == <<otp, challenge>>
hist == <<issued, spent, proved>>
clock == <<plan, now, age>>
vars == <<plan, now, totp, email, recovery, otp, age, challenge, req,
          issued, spent, proved, log>>

Purpose == {"enroll", "login"}
Step0 == 0..(MaxStep + 1)

Totp == [id : Secret, secret : Secret, on : BOOLEAN, step : Step0]
NoTotp == [id |-> None, secret |-> None, on |-> FALSE, step |-> 0]
EmailFactor == [id : Code, on : BOOLEAN]
NoEmail == [id |-> None, on |-> FALSE]
RecoveryRow == [factor : Secret \cup Code \cup Others, used : BOOLEAN]
NoRecovery == [factor |-> None, used |-> FALSE]
Meta == [code : Code, attempts : 0..MaxAttempts]
NoMeta == [code |-> None, attempts |-> 0]

\* What a client can present: a TOTP code, a mailed or a recovery code, junk.
TotpCode == [of : Secret, step : 1..(MaxStep + 1)]
Plain == [of : Code \cup Recovery, step : {0}]
Junk == [of |-> None, step |-> 0]
Given == TotpCode \cup Plain \cup {Junk}

Pc == {"idle", "trigger", "upsertTotp", "completeTotp", "deleteTotp", "cooldown", "save",
       "mail", "upsertEmail", "get", "bump", "completeEmail", "delEnroll",
       "deleteEmail", "listEmail", "totp", "record", "email", "consume",
       "recovery", "mark", "status", "unchallenge"}

Request == [pc : Pc, given : Given, row : Totp \cup {NoTotp}, id : Code \cup {None},
            purpose : Purpose, meta : Meta \cup {NoMeta}, ch : Challenge \cup {None},
            methods : SUBSET Factor, late : BOOLEAN]

\* late (history): the code given was marked used before the request began.
Idle == [pc |-> "idle", given |-> Junk, row |-> NoTotp, id |-> None,
         purpose |-> "enroll", meta |-> NoMeta, ch |-> None,
         methods |-> {}, late |-> FALSE]

\* The login's code was right; from here on only its challenge matters.
Authenticated(r) ==
    req' = [req EXCEPT ![r] = [Idle EXCEPT !.pc = "status", !.ch = req[r].ch]]

At(r, p) == req[r].pc = p
Goto(r, p) == req' = [req EXCEPT ![r].pc = p]
Finish(r) == req' = [req EXCEPT ![r] = Idle]

\* The log of a quiet history, one without overlapping requests and failing
\* calls: the codes accepted, whether one was accepted twice, the wrong
\* guesses at each mailed code.
Log == [quiet : BOOLEAN, used : SUBSET Given, twice : BOOLEAN, guesses : [Code -> Nat]]
Blank(q) == [quiet |-> q, used |-> {}, twice |-> FALSE, guesses |-> [c \in Code |-> 0]]

Lone(r) == \A q \in Req \ {r} : req[q] = Idle
Accepted(g) == [log EXCEPT !.used = @ \cup {g}, !.twice = @ \/ g \in log.used]
Guessed(c) == [log EXCEPT !.guesses[c] = @ + 1]

\* A store call either works or reports an error without effect.
Outcome == IF Faults THEN {"ok", "lost"} ELSE {"ok"}
Arriving(r, l) == req[r] = Idle /\ log' = IF log.quiet /\ Lone(r) THEN l ELSE Blank(FALSE)
Calls(r, p, o, l) == At(r, p) /\ log' = IF log.quiet /\ o = "ok" THEN l ELSE Blank(FALSE)

\* ON DELETE CASCADE, and DeleteMFARecoveryCodesByFactor.
WithoutCodesOf(id) ==
    [x \in Recovery |-> IF recovery[x].factor = id THEN NoRecovery ELSE recovery[x]]

\* Faulty variant: the step of the last success is not excluded.
ValidateReplayed(row, g) ==
    g.of = row.secret /\ g.step \in (now - 1)..(now + 1) /\ g.step >= row.step

\* One step of drift either way, never a step at or before the last success.
ValidateTOTPCode(row, g) ==
    g.of = row.secret /\ g.step \in (now - 1)..(now + 1) /\ g.step > row.step

-----------------------------------------------------------------------------
(* The TOTP factor *)

EnrollMFA(r) ==
    /\ Arriving(r, log)
    /\ "totp" \in plan /\ ~totp.on
    /\ req' = [req EXCEPT ![r].pc = "trigger"]
    /\ UNCHANGED <<clock, rows, redis, hist>>

\* trg_prevent_multiple_totp runs before the conflict of the INSERT is looked
\* at: if the account has a TOTP row, pending or not, the statement fails.
PreventMultipleTOTP(r, o) ==
    /\ Calls(r, "trigger", o, log)
    /\ IF o = "ok" /\ totp = NoTotp THEN Goto(r, "upsertTotp") ELSE Finish(r)
    /\ UNCHANGED <<clock, rows, redis, hist>>

\* INSERT ... ON CONFLICT (user_id, type) DO UPDATE: a row that was committed
\* since the trigger looked is overwritten.  Running out of Secret, the bound
\* on them, fails.
UpsertPendingTOTPFactor(r, o) ==
    /\ Calls(r, "upsertTotp", o, log)
    /\ LET fresh == IF o = "ok" THEN Secret \ issued ELSE {}
       IN \/ \E s \in fresh :
               /\ totp' = [id |-> IF totp = NoTotp THEN s ELSE totp.id,
                           secret |-> s, on |-> FALSE, step |-> 0]
               /\ issued' = issued \cup {s}
          \/ fresh = {} /\ UNCHANGED <<totp, issued>>
    /\ Finish(r)
    /\ UNCHANGED <<clock, email, recovery, redis, spent, proved>>

\* GetTOTPFactorByUserID; a wrong code changes nothing that is read again.
VerifyMFAEnrollment(r, g) ==
    /\ Arriving(r, log)
    /\ totp # NoTotp /\ ~totp.on /\ ValidateTOTPCode(totp, g)
    /\ req' = [req EXCEPT ![r] = [Idle EXCEPT !.pc = "completeTotp", !.row = totp, !.given = g]]
    /\ proved' = proved \cup {totp.secret}
    /\ UNCHANGED <<clock, rows, redis, issued, spent>>

\* The body of CompleteMFAEnrollment and CompleteOTPFactorEnrollment after the
\* factor's UPDATEs: the old batch goes, a fresh one comes.  Running out of
\* Recovery, the bound on them, is an error.
FreshCodes == Recovery \ issued
IssueRecoveryCodes(id) ==
    \E x \in FreshCodes :
        /\ recovery' = [WithoutCodesOf(id) EXCEPT ![x] = [factor |-> id, used |-> FALSE]]
        /\ issued' = issued \cup {x}

\* Faulty variants: outside a transaction, the recovery codes may be missing;
\* the account's row is meant, not the one read.
CompleteWithoutCodes(r, o) ==
    /\ Calls(r, "completeTotp", o, log)
    /\ totp' = IF totp.id = req[r].row.id
               THEN [totp EXCEPT !.on = TRUE, !.step = req[r].given.step] ELSE totp
    /\ Finish(r)
    /\ UNCHANGED <<clock, email, recovery, redis, hist>>

CompleteByUser(r, o) ==
    /\ Calls(r, "completeTotp", o, Accepted(req[r].given))
    /\ totp # NoTotp
    /\ totp' = [totp EXCEPT !.on = TRUE, !.step = req[r].given.step]
    /\ IssueRecoveryCodes(totp.id)
    /\ Finish(r)
    /\ UNCHANGED <<clock, email, redis, spent, proved>>

\* One transaction on the row's id.  If the row is gone the UPDATEs touch
\* nothing, the foreign key fails the INSERT and everything is rolled back.
CompleteMFAEnrollment(r, o) ==
    /\ IF o = "ok" /\ totp.id = req[r].row.id /\ FreshCodes # {}
       THEN /\ Calls(r, "completeTotp", o, Accepted(req[r].given))
            /\ totp' = [totp EXCEPT !.on = TRUE, !.step = req[r].given.step]
            /\ IssueRecoveryCodes(totp.id)
       ELSE Calls(r, "completeTotp", o, log) /\ UNCHANGED <<totp, recovery, issued>>
    /\ Finish(r)
    /\ UNCHANGED <<clock, email, redis, spent, proved>>

\* With the current password; then GetTOTPFactorByUserID.
DisableMFA(r) ==
    /\ Arriving(r, log)
    /\ totp # NoTotp
    /\ req' = [req EXCEPT ![r].pc = "deleteTotp"]
    /\ UNCHANGED <<clock, rows, redis, hist>>

DeleteTOTPFactor(r, o) ==
    /\ Calls(r, "deleteTotp", o, log)
    /\ IF o = "ok"
       THEN totp' = NoTotp /\ recovery' = WithoutCodesOf(totp.id)
       ELSE UNCHANGED <<totp, recovery>>
    /\ Finish(r)
    /\ UNCHANGED <<clock, email, redis, hist>>

-----------------------------------------------------------------------------
(* The email factor and the codes mailed for it *)

EnrollEmailMFA(r) ==
    /\ Arriving(r, log)
    /\ "email" \in plan /\ ~email.on
    /\ req' = [req EXCEPT ![r] = [Idle EXCEPT !.pc = "cooldown", !.purpose = "enroll"]]
    /\ UNCHANGED <<clock, rows, redis, hist>>

\* With a live challenge and the email factor among the enabled methods.
SendMFALoginCode(r, h) ==
    /\ Arriving(r, log)
    /\ challenge[h] = "live" /\ email.on
    /\ req' = [req EXCEPT ![r] = [Idle EXCEPT !.pc = "cooldown", !.purpose = "login"]]
    /\ UNCHANGED <<clock, rows, redis, hist>>

\* sendMFAEmailCode; an error of the lookup does not stop the request.
CheckCooldown(r, o) ==
    /\ Calls(r, "cooldown", o, log)
    /\ LET m == otp[req[r].purpose]
       IN IF o = "ok" /\ m # NoMeta /\ age[m.code] = "young"
          THEN Finish(r) ELSE Goto(r, "save")
    /\ UNCHANGED <<clock, rows, redis, hist>>

\* Running out of Code, the bound on them, is an error here.
SaveMFAOTPCode(r, o) ==
    /\ Calls(r, "save", o, log)
    /\ \/ /\ o = "ok"
          /\ \E c \in Code :
               /\ age[c] = "unused"
               /\ age' = [age EXCEPT ![c] = "young"]
               /\ otp' = [otp EXCEPT ![req[r].purpose] = [code |-> c, attempts |-> 0]]
               /\ req' = [req EXCEPT ![r] = [@ EXCEPT !.pc = "mail", !.id = c]]
       \/ /\ o # "ok" \/ \A c \in Code : age[c] # "unused"
          /\ Finish(r)
          /\ UNCHANGED <<age, otp>>
    /\ UNCHANGED <<plan, now, rows, challenge, hist>>

\* A mail that cannot be sent leaves the code in place and enrols nothing.
SendEmailVerificationEmail(r, o) ==
    /\ Calls(r, "mail", o, log)
    /\ IF o = "ok" /\ req[r].purpose = "enroll" THEN Goto(r, "upsertEmail") ELSE Finish(r)
    /\ UNCHANGED <<clock, rows, redis, hist>>

UpsertPendingOTPFactor(r, o) ==
    /\ Calls(r, "upsertEmail", o, log)
    /\ email' = IF o = "ok"
                THEN [id |-> IF email = NoEmail THEN req[r].id ELSE email.id, on |-> FALSE]
                ELSE email
    /\ Finish(r)
    /\ UNCHANGED <<clock, totp, recovery, redis, hist>>

VerifyEmailMFAEnrollment(r, g) ==
    /\ Arriving(r, log)
    /\ email # NoEmail /\ ~email.on
    /\ req' = [req EXCEPT ![r] = [Idle EXCEPT !.pc = "get", !.id = email.id, !.given = g]]
    /\ UNCHANGED <<clock, rows, redis, hist>>

Usable(m) == m # NoMeta /\ age[m.code] # "expired" /\ m.attempts < MaxAttempts

\* verifyMFAOTPCode up to its first write.
GetMFAOTPCode(r, o) ==
    LET m == otp["enroll"]
        right == req[r].given.of = m.code
    IN /\ Calls(r, "get", o, IF Usable(m) /\ ~right THEN Guessed(m.code) ELSE log)
       /\ CASE o = "ok" /\ Usable(m) /\ right -> Goto(r, "completeEmail")
            [] o = "ok" /\ Usable(m) /\ ~right ->
                 req' = [req EXCEPT ![r] = [@ EXCEPT !.pc = "bump", !.meta = m]]
            [] OTHER -> Finish(r)
       /\ UNCHANGED <<clock, rows, redis, hist>>

\* Faulty variants: the attempt is not counted; it is counted twice.
KeepAttempts(r, o) ==
    /\ Calls(r, "bump", o, log)
    /\ IF req[r].ch = None THEN Finish(r) ELSE Goto(r, "recovery")
    /\ UNCHANGED <<clock, rows, redis, hist>>

SaveAttemptTwice(r, o) ==
    /\ Calls(r, "bump", o, log)
    /\ otp' = [otp EXCEPT ![req[r].purpose] = [req[r].meta EXCEPT !.attempts = @ + 2]]
    /\ IF req[r].ch = None THEN Finish(r) ELSE Goto(r, "recovery")
    /\ UNCHANGED <<clock, rows, challenge, hist>>

\* meta.Attempts++ and the metadata that was read saved as a whole; errors are
\* only logged.  At login a recovery code is tried next.
SaveFailedAttempt(r, o) ==
    /\ Calls(r, "bump", o, log)
    /\ otp' = IF o = "ok"
              THEN [otp EXCEPT ![req[r].purpose] = [req[r].meta EXCEPT !.attempts = @ + 1]]
              ELSE otp
    /\ IF req[r].ch = None THEN Finish(r) ELSE Goto(r, "recovery")
    /\ UNCHANGED <<clock, rows, challenge, hist>>

\* Faulty variant: no recovery codes.
CompleteEmailWithoutCodes(r, o) ==
    /\ Calls(r, "completeEmail", o, log)
    /\ email' = IF email.id = req[r].id THEN [email EXCEPT !.on = TRUE] ELSE email
    /\ Finish(r)
    /\ UNCHANGED <<clock, totp, recovery, redis, hist>>

\* One transaction on the row's id, as CompleteMFAEnrollment.
CompleteOTPFactorEnrollment(r, o) ==
    /\ IF o = "ok" /\ email.id = req[r].id /\ FreshCodes # {}
       THEN /\ Calls(r, "completeEmail", o, Accepted(req[r].given))
            /\ email' = [email EXCEPT !.on = TRUE]
            /\ IssueRecoveryCodes(email.id)
            /\ Goto(r, "delEnroll")
       ELSE /\ Calls(r, "completeEmail", o, log)
            /\ Finish(r) /\ UNCHANGED <<email, recovery, issued>>
    /\ UNCHANGED <<clock, totp, redis, spent, proved>>

\* An error is only logged.
DeleteMFAOTPCode(r, o) ==
    /\ Calls(r, "delEnroll", o, log)
    /\ otp' = IF o = "ok" THEN [otp EXCEPT !["enroll"] = NoMeta] ELSE otp
    /\ Finish(r)
    /\ UNCHANGED <<clock, rows, challenge, hist>>

DisableEmailMFA(r) ==
    /\ Arriving(r, log)
    /\ email # NoEmail
    /\ req' = [req EXCEPT ![r].pc = "deleteEmail"]
    /\ UNCHANGED <<clock, rows, redis, hist>>

DeleteOTPFactor(r, o) ==
    /\ Calls(r, "deleteEmail", o, log)
    /\ IF o = "ok"
       THEN email' = NoEmail /\ recovery' = WithoutCodesOf(email.id)
       ELSE UNCHANGED <<email, recovery>>
    /\ Finish(r)
    /\ UNCHANGED <<clock, totp, redis, hist>>

-----------------------------------------------------------------------------
(* VerifyMFALogin with a challenge and a code *)

\* The challenge session is live; listEnabledMFAMethods, first query.
VerifyMFALogin(r, h, g) ==
    /\ Arriving(r, log)
    /\ challenge[h] = "live"
    /\ req' = [req EXCEPT ![r] =
                 [Idle EXCEPT !.pc = "listEmail", !.ch = h, !.given = g,
                              !.methods = IF totp.on THEN {"totp"} ELSE {},
                              !.purpose = "login", !.late = g.of \in spent]]
    /\ UNCHANGED <<clock, rows, redis, hist>>

\* Its second query, then the method the request asks for must be enabled;
\* both mean that none in particular is asked for.
ListEnabledMFAMethods(r, o) ==
    /\ Calls(r, "listEmail", o, log)
    /\ \E asked \in SUBSET Factor \ {{}} :
         LET ms == req[r].methods \cup (IF email.on THEN {"email"} ELSE {})
         IN IF o = "ok" /\ ms # {} /\ (asked = Factor \/ asked \subseteq ms)
            THEN req' = [req EXCEPT ![r] =
                           [@ EXCEPT !.methods = ms \cap asked,
                                     !.pc = IF "totp" \in ms \cap asked
                                            THEN "totp" ELSE "email"]]
            ELSE Finish(r)
    /\ UNCHANGED <<clock, rows, redis, hist>>

\* GetTOTPFactorByUserID again; whether it is enabled is not asked again.
CheckTOTP(r, o) ==
    /\ Calls(r, "totp", o, log)
    /\ IF o # "ok" THEN Finish(r)
       ELSE IF totp # NoTotp /\ ValidateTOTPCode(totp, req[r].given)
       THEN req' = [req EXCEPT ![r] = [@ EXCEPT !.pc = "record", !.row = totp]]
       ELSE Goto(r, "email")
    /\ UNCHANGED <<clock, rows, redis, hist>>

\* An unconditional UPDATE of last_used_step; an error is only logged.
RecordTOTPSuccess(r, o) ==
    /\ Calls(r, "record", o, Accepted(req[r].given))
    /\ totp' = IF o = "ok" /\ totp.id = req[r].row.id
               THEN [totp EXCEPT !.step = req[r].given.step] ELSE totp
    /\ Authenticated(r)
    /\ UNCHANGED <<clock, email, recovery, redis, hist>>

\* GetOTPFactorByUserID, whose error ends the request, and GetMFAOTPCode,
\* whose error means that there is no code.
CheckEmailCode(r, o) ==
    LET m == otp["login"]
        tried == "email" \in req[r].methods /\ email # NoEmail /\ Usable(m)
        right == req[r].given.of = m.code
    IN /\ Calls(r, "email", o, IF tried /\ ~right THEN Guessed(m.code) ELSE log)
       /\ CASE o = "ok" /\ tried /\ right -> Goto(r, "consume")
            [] o = "ok" /\ tried /\ ~right ->
                 req' = [req EXCEPT ![r] = [@ EXCEPT !.pc = "bump", !.meta = m]]
            [] OTHER ->
                 \/ Goto(r, "recovery")
                 \/ o # "ok" /\ "email" \in req[r].methods /\ Finish(r)
       /\ UNCHANGED <<clock, rows, redis, hist>>

\* RecordOTPFactorSuccess and DeleteMFAOTPCode; errors are only logged.
ConsumeEmailCode(r, o) ==
    /\ Calls(r, "consume", o, Accepted(req[r].given))
    /\ otp' = IF o = "ok" THEN [otp EXCEPT !["login"] = NoMeta] ELSE otp
    /\ Authenticated(r)
    /\ UNCHANGED <<clock, rows, challenge, hist>>

\* Faulty variant: used_at is not looked at.
GetAnyMFARecoveryCode(r, o) ==
    /\ Calls(r, "recovery", o, log)
    /\ LET x == req[r].given.of
       IN IF o = "ok" /\ x \in Recovery /\ recovery[x] # NoRecovery
          THEN Goto(r, "mark") ELSE Finish(r)
    /\ UNCHANGED <<clock, rows, redis, hist>>

\* By hash alone, whichever factor of whichever account the code is of.
GetUnusedMFARecoveryCode(r, o) ==
    /\ Calls(r, "recovery", o, log)
    /\ LET x == req[r].given.of
       IN IF o = "ok" /\ x \in Recovery /\ recovery[x] # NoRecovery /\ ~recovery[x].used
          THEN Goto(r, "mark") ELSE Finish(r)
    /\ UNCHANGED <<clock, rows, redis, hist>>

\* An error is only logged; a row that is gone by now is no error.
MarkMFARecoveryCodeUsed(r, o) ==
    /\ Calls(r, "mark", o, Accepted(req[r].given))
    /\ LET x == req[r].given.of
       IN IF o = "ok"
          THEN /\ recovery' = IF recovery[x] = NoRecovery THEN recovery
                              ELSE [recovery EXCEPT ![x].used = TRUE]
               /\ spent' = spent \cup {x}
          ELSE UNCHANGED <<recovery, spent>>
    /\ Authenticated(r)
    /\ UNCHANGED <<clock, totp, email, redis, issued, proved>>

\* GetEmailAuthByUserID: the account may have been blocked since the challenge.
RecheckStatus(r, o) ==
    /\ Calls(r, "status", o, log)
    /\ \/ o = "ok" /\ Goto(r, "unchallenge")
       \/ Finish(r)
    /\ UNCHANGED <<clock, rows, redis, hist>>

\* An error is only logged; then the session is issued, as Sessions says.
DeleteTemporarySession(r, o) ==
    /\ Calls(r, "unchallenge", o, log)
    /\ challenge' = IF o = "ok" THEN [challenge EXCEPT ![req[r].ch] = "gone"] ELSE challenge
    /\ Finish(r)
    /\ UNCHANGED <<clock, rows, otp, hist>>

-----------------------------------------------------------------------------
(* Around the requests *)

\* The password step of a login found a factor enabled.
IssueChallenge(h) ==
    /\ totp.on \/ email.on
    /\ challenge[h] = "none"
    /\ challenge' = [challenge EXCEPT ![h] = "live"]
    /\ UNCHANGED <<clock, rows, otp, req, hist, log>>

ChallengeLapses(h) ==
    /\ challenge[h] = "live"
    /\ challenge' = [challenge EXCEPT ![h] = "gone"]
    /\ UNCHANGED <<clock, rows, otp, req, hist, log>>

Tick ==
    /\ now < MaxStep
    /\ now' = now + 1
    /\ UNCHANGED <<plan, age, rows, redis, req, hist, log>>

CodeAges(c) ==
    /\ age[c] \in {"young", "old"}
    /\ age' = [age EXCEPT ![c] = IF @ = "young" THEN "old" ELSE "expired"]
    /\ UNCHANGED <<plan, now, rows, redis, req, hist, log>>

\* Another account enrols a factor and is shown its codes.
OtherAccountEnrolls(f) ==
    /\ IssueRecoveryCodes(f)
    /\ UNCHANGED <<clock, totp, email, redis, req, spent, proved, log>>

\* Faulty variant: the job does not ask whether a factor is verified.
RemoveOldMFAFactors ==
    /\ totp # NoTotp \/ email # NoEmail
    /\ totp' = NoTotp /\ email' = NoEmail
    /\ recovery' = [x \in Recovery |-> IF recovery[x].factor \in {totp.id, email.id}
                                       THEN NoRecovery ELSE recovery[x]]
    /\ UNCHANGED <<clock, redis, req, hist, log>>

\* cmd/cron: pending factors of any age the job finds too old.
RemoveUnverifiedMFAFactors ==
    /\ totp # NoTotp \/ email # NoEmail
    /\ \E t, e \in BOOLEAN :
         LET dropTotp == t /\ totp # NoTotp /\ ~totp.on
             dropEmail == e /\ email # NoEmail /\ ~email.on
         IN /\ dropTotp \/ dropEmail
            /\ totp' = IF dropTotp THEN NoTotp ELSE totp
            /\ email' = IF dropEmail THEN NoEmail ELSE email
            /\ recovery' = [x \in Recovery |->
                 IF \/ dropTotp /\ recovery[x].factor = totp.id
                    \/ dropEmail /\ recovery[x].factor = email.id
                 THEN NoRecovery ELSE recovery[x]]
    /\ UNCHANGED <<clock, redis, req, hist, log>>

-----------------------------------------------------------------------------
Init ==
    /\ plan \in Plans /\ now = 1 /\ age = [c \in Code |-> "unused"]
    /\ totp = NoTotp /\ email = NoEmail
    /\ recovery = [x \in Recovery |-> NoRecovery]
    /\ otp = [p \in Purpose |-> NoMeta]
    /\ challenge = [h \in Challenge |-> "none"]
    /\ req = [r \in Req |-> Idle]
    /\ issued = {} /\ spent = {} /\ proved = {} /\ log = Blank(TRUE)

\* A client presents what it was given, or junk.
Known(g) == g = Junk \/ g.of \in issued \/ (g.of \in Code /\ age[g.of] # "unused")

Arrive(r) ==
    \/ EnrollMFA(r) \/ DisableMFA(r) \/ EnrollEmailMFA(r) \/ DisableEmailMFA(r)
    \/ \E g \in {t \in TotpCode : Known(t)} : VerifyMFAEnrollment(r, g)
    \/ \E g \in {c \in Plain : Known(c)} \cup {Junk} : VerifyEmailMFAEnrollment(r, g)
    \/ \E h \in Challenge : SendMFALoginCode(r, h)
    \/ \E h \in Challenge, g \in {c \in Given : Known(c)} : VerifyMFALogin(r, h, g)

Step(r) ==
    \E o \in Outcome :
        \/ PreventMultipleTOTP(r, o) \/ UpsertPendingTOTPFactor(r, o)
        \/ CompleteMFAEnrollment(r, o) \/ DeleteTOTPFactor(r, o)
        \/ CheckCooldown(r, o) \/ SaveMFAOTPCode(r, o)
        \/ SendEmailVerificationEmail(r, o) \/ UpsertPendingOTPFactor(r, o)
        \/ GetMFAOTPCode(r, o) \/ SaveFailedAttempt(r, o)
        \/ CompleteOTPFactorEnrollment(r, o) \/ DeleteMFAOTPCode(r, o)
        \/ DeleteOTPFactor(r, o)
        \/ ListEnabledMFAMethods(r, o) \/ CheckTOTP(r, o) \/ RecordTOTPSuccess(r, o)
        \/ CheckEmailCode(r, o) \/ ConsumeEmailCode(r, o)
        \/ GetUnusedMFARecoveryCode(r, o) \/ MarkMFARecoveryCodeUsed(r, o)
        \/ RecheckStatus(r, o) \/ DeleteTemporarySession(r, o)

Environment ==
    \/ Tick \/ RemoveUnverifiedMFAFactors
    \/ \E f \in Others : OtherAccountEnrolls(f)
    \/ \E h \in Challenge : IssueChallenge(h) \/ ChallengeLapses(h)
    \/ \E c \in Code : CodeAges(c)

Next == Environment \/ \E r \in Req : Arrive(r) \/ Step(r)

Spec == Init /\ [][Next]_vars

-----------------------------------------------------------------------------
(* Properties *)

TypeOK ==
    /\ plan \in Plans /\ now \in 1..MaxStep
    /\ totp \in Totp \cup {NoTotp} /\ email \in EmailFactor \cup {NoEmail}
    /\ recovery \in [Recovery -> RecoveryRow \cup {NoRecovery}]
    /\ otp \in [Purpose -> Meta \cup {NoMeta}]
    /\ age \in [Code -> {"unused", "young", "old", "expired"}]
    /\ challenge \in [Challenge -> {"none", "live", "gone"}]
    /\ req \in [Req -> Request]
    /\ issued \subseteq Secret \cup Recovery /\ proved \subseteq Secret
    /\ spent \subseteq Recovery /\ log \in Log

HasCodes(id) == \E x \in Recovery : recovery[x].factor = id

\* "a factor is never left verified without any recovery codes to fall back
\* on", whichever enrolments, disablings and clean-ups race and calls fail.
FallbackExists ==
    /\ totp.on => HasCodes(totp.id)
    /\ email.on => HasCodes(email.id)

\* A recovery code marked used, of this or of another account, is never
\* accepted by a login that begins afterwards.
RecoverySpent ==
    \A r \in Req : At(r, "mark") => ~req[r].late

\* One request at a time and no failing call: no code, of whichever kind, is
\* accepted twice ("MFA codes can't be replayed within their own validity
\* window"), and a mailed code gets at most MaxAttempts wrong guesses.
SingleUse ==
    ~log.twice /\ \A c \in Code : log.guesses[c] =< MaxAttempts

\* MFA is not active "until the user proves they can generate a valid code":
\* a TOTP factor is on with the secret its row was created with only if a
\* valid code was shown for that secret, whichever enrolments, disablings and
\* clean-ups happen while a code is being checked.  (Not so for a secret that
\* the DO UPDATE of an overlapping enrolment puts under the id being enabled.)
SecretProved == totp.on /\ totp.secret = totp.id => totp.secret \in proved

TurnsOff(f) == f.on /\ ~f'.on
ByRequest(r, ps) == req[r].pc \in ps /\ req'[r] = Idle
ByStep(p) == \E r \in Req : ByRequest(r, {p})
Overlapping(p) == ~log'.quiet /\ ByStep(p)

\* A factor goes off only by DisableMFA and DisableEmailMFA, which ask for the
\* password, or, once requests have overlapped or calls failed, by the upsert
\* of an enrolment that found it off before: neither the clean-up job, nor a
\* login, nor an enrolment that comes alone switches it off.
DisableNeedsPassword ==
    [][/\ TurnsOff(totp) => ByStep("deleteTotp") \/ Overlapping("upsertTotp")
       /\ TurnsOff(email) => ByStep("deleteEmail") \/ Overlapping("upsertEmail")]_vars

\* "starts (or restarts, if a previous attempt was abandoned)": an enrolment
\* that finds a pending factor and has a secret to give replaces the old one.
EnrollRestarts ==
    [][\A r \in Req :
         ByRequest(r, {"trigger", "upsertTotp"})
         /\ log'.quiet /\ ~totp.on /\ Secret \ issued # {} => totp'.secret # totp.secret]_vars
=============================================================================
