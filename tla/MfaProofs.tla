------------------------------ MODULE MfaProofs ------------------------------
(***************************************************************************)
(* Theorems about Mfa, for any number of requests, secrets, mailed and     *)
(* recovery codes, challenges and time steps.  What they say of the        *)
(* recovery codes, of the secrets and of the clean-up job holds however    *)
(* requests overlap and calls fail; that codes are accepted once, and that *)
(* no enrolment switches a factor off, holds for quiet histories.          *)
(***************************************************************************)
EXTENDS Mfa, TLAPS

\* Which locals a program counter has set.
Locals(q) ==
    /\ q.pc \in {"completeTotp", "record"} =>
         q.row \in Totp /\ q.given \in TotpCode /\ q.given.of = q.row.secret
    /\ q.pc \in {"mail", "upsertEmail", "get", "completeEmail"} => q.id \in Code
    /\ q.pc \in {"upsertEmail", "get", "completeEmail", "delEnroll"} => q.purpose = "enroll"
    /\ q.pc \in {"listEmail", "totp", "record", "email", "consume"} => q.purpose = "login"
    /\ q.pc \in {"completeEmail", "consume"} => q.given.of \in Code
    /\ q.pc = "bump" => q.meta \in Meta /\ q.meta.attempts < MaxAttempts
    /\ q.pc = "mark" => q.given.of \in Recovery
ControlInv == \A r \in Req : Locals(req[r])

\* No code is stored or being counted that was not made.
CodeInv ==
    /\ \A p \in Purpose : otp[p] # NoMeta => age[otp[p].code] # "unused"
    /\ \A r \in Req : At(r, "bump") => age[req[r].meta.code] # "unused"

\* A secret or recovery code that is stored was generated, so it is not
\* generated again; a row still has the secret it was read with or another.
IssueInv ==
    /\ totp # NoTotp => totp.secret \in issued /\ totp.id \in issued
    /\ \A r \in Req : req[r].pc \in {"completeTotp", "record"} =>
         /\ req[r].row.secret \in issued /\ req[r].row.id \in issued
         /\ totp.secret = req[r].row.secret => totp.id = req[r].row.id
    /\ \A x \in Recovery : recovery[x] # NoRecovery => x \in issued
    /\ \A r \in Req : At(r, "mark") => req[r].given.of \in issued

\* The secret that was read was proved, and a row that has its first secret now
\* had it when it was read.
ProofInv == \A r \in Req : At(r, "completeTotp") =>
    /\ req[r].row.secret \in proved
    /\ totp.id = req[r].row.id /\ totp.secret = totp.id => req[r].row.secret = req[r].row.id

\* A recovery code marked used never becomes usable again.
SpentInv ==
    /\ \A x \in spent : x \in issued /\ (recovery[x] = NoRecovery \/ recovery[x].used)
    /\ \A r \in Req : req[r].late => req[r].given.of \in spent

\* While the history is quiet there is at most one request.
LoneInv ==
    /\ ~log.quiet => log = Blank(FALSE)
    /\ log.quiet => \A q, r \in Req : req[q] # Idle /\ req[r] # Idle => q = r

\* Code g cannot be presented again: the step of a TOTP code is past, a mailed
\* code is deleted or about to be, a recovery code is marked.
Gone(g) ==
    /\ g.of \in Secret => g.of \in issued /\ (totp.secret = g.of => g.step =< totp.step)
    /\ g.of \in Code => /\ age[g.of] # "unused" /\ otp["login"].code # g.of
                        /\ otp["enroll"].code = g.of => \E r \in Req : At(r, "delEnroll")
    /\ g.of \in Recovery => g.of \in spent

\* What a quiet history has seen accepted is gone.
UsedInv == log.quiet => \A g \in log.used : Gone(g)

\* What request r is about to accept was not accepted yet, and is still what it
\* was checked against.
Fresh(r) ==
    /\ req[r].pc \in {"completeTotp", "record", "completeEmail", "consume", "mark"} =>
         req[r].given \notin log.used
    /\ req[r].pc \in {"completeTotp", "record"} /\ totp.id = req[r].row.id =>
         req[r].given.step > totp.step
    /\ At(r, "completeEmail") => otp["enroll"].code = req[r].given.of
    /\ At(r, "consume") => otp["login"].code = req[r].given.of
FreshInv == log.quiet => \A r \in Req : Fresh(r)

\* What a quiet history has seen of a mailed code: nothing of an unused one; of
\* a stored one no more guesses than its metadata say, or will say once the
\* request that read it has saved it.
QuietInv == log.quiet =>
    /\ otp["enroll"] # NoMeta => otp["enroll"].code # otp["login"].code
    /\ \A c \in Code : age[c] = "unused" => log.guesses[c] = 0
    /\ \A p \in Purpose : otp[p] # NoMeta =>
         \/ log.guesses[otp[p].code] =< otp[p].attempts
         \/ \E r \in Req : At(r, "bump") /\ req[r].purpose = p
    /\ \A r \in Req : At(r, "bump") =>
         /\ otp[req[r].purpose] = req[r].meta
         /\ log.guesses[req[r].meta.code] =< req[r].meta.attempts + 1

\* While the history is quiet, a request that will write a pending factor
\* found no TOTP row, or no email factor that is on.
PendingInv == log.quiet =>
    \A r \in Req :
      /\ At(r, "upsertTotp") => totp = NoTotp
      /\ req[r].pc \in {"cooldown", "save", "mail", "upsertEmail"}
           /\ req[r].purpose = "enroll" => ~email.on

\* TypeOK but for the requests and the log.
StoresOK ==
    /\ plan \in Plans /\ now \in 1..MaxStep
    /\ totp \in Totp \cup {NoTotp} /\ email \in EmailFactor \cup {NoEmail}
    /\ recovery \in [Recovery -> RecoveryRow \cup {NoRecovery}]
    /\ otp \in [Purpose -> Meta \cup {NoMeta}]
    /\ age \in [Code -> {"unused", "young", "old", "expired"}]
    /\ challenge \in [Challenge -> {"none", "live", "gone"}]
    /\ issued \subseteq Secret \cup Recovery /\ proved \subseteq Secret
    /\ spent \subseteq Recovery

IInv ==
    /\ TypeOK /\ ControlInv /\ CodeInv
    /\ IssueInv /\ FallbackExists /\ ProofInv /\ SecretProved
    /\ SpentInv /\ RecoverySpent
    /\ LoneInv /\ UsedInv /\ FreshInv /\ QuietInv /\ SingleUse /\ PendingInv

-----------------------------------------------------------------------------
\* The state of a free request slot is a request.
LEMMA IdleType == Idle \in Request /\ Idle.pc = "idle" /\ Idle.late = FALSE
  BY MfaAssumption DEF Idle, Request, Pc, Junk, Given, Purpose

\* The initial state satisfies the invariant.
LEMMA InitIInv == Init => IInv
<1> SUFFICES ASSUME Init PROVE IInv
  OBVIOUS
<1> USE MfaAssumption DEF Init
<1>0. req = [r \in Req |-> Idle] /\ Idle \in Request /\ Idle.pc = "idle" /\ Idle.late = FALSE
  BY IdleType
<1>1. TypeOK
  <2>1. log \in Log
    BY DEF Log, Blank
  <2>2. /\ totp \in Totp \cup {NoTotp} /\ email \in EmailFactor \cup {NoEmail}
        /\ recovery \in [Recovery -> RecoveryRow \cup {NoRecovery}]
        /\ otp \in [Purpose -> Meta \cup {NoMeta}]
    OBVIOUS
  <2>3. /\ age \in [Code -> {"unused", "young", "old", "expired"}]
        /\ challenge \in [Challenge -> {"none", "live", "gone"}]
        /\ req \in [Req -> Request]
    BY <1>0
  <2>4. 1 \in 1..MaxStep
    OBVIOUS
  <2> QED
    BY <2>1, <2>2, <2>3, <2>4 DEF TypeOK
<1>2. ControlInv /\ CodeInv /\ IssueInv /\ ProofInv /\ SpentInv /\ RecoverySpent
  BY <1>0 DEF ControlInv, Locals, CodeInv, IssueInv, ProofInv, SpentInv, RecoverySpent,
         At, Purpose
<1>3. FallbackExists /\ SecretProved
  BY DEF FallbackExists, SecretProved, NoTotp, NoEmail
<1>4. LoneInv /\ UsedInv /\ FreshInv /\ QuietInv /\ SingleUse /\ PendingInv
  BY <1>0 DEF LoneInv, UsedInv, FreshInv, Fresh, QuietInv, SingleUse, PendingInv,
         Blank, At, NoMeta, NoEmail, Purpose
<1> QED
  BY <1>1, <1>2, <1>3, <1>4 DEF IInv

-----------------------------------------------------------------------------
(* What the steps make of a request *)

Same(n, q) == n.given = q.given /\ n.purpose = q.purpose /\ n.late = q.late

\* Setting a local leaves the others.
LEMMA LocalPc ==
    ASSUME NEW q \in Request, NEW p \in Pc, NEW n, n = [q EXCEPT !.pc = p]
    PROVE  n \in Request /\ n.pc = p /\ Same(n, q) /\ n.id = q.id
  BY DEF Request, Same

EnrollMoves(r, q, g) ==
    /\ req' = [req EXCEPT ![r] = q] /\ q.pc = "get" /\ q.id = email.id /\ q.id \in Code
    /\ q.purpose = "enroll" /\ q.given = g /\ q.late = FALSE

\* VerifyEmailMFAEnrollment goes on with the row it read.
LEMMA EnrollEffect ==
    ASSUME TypeOK, NEW r \in Req, NEW g \in Plain \cup {Junk}, VerifyEmailMFAEnrollment(r, g)
    PROVE  \E q \in Request : EnrollMoves(r, q, g)
<1> DEFINE q == [Idle EXCEPT !.pc = "get", !.id = email.id, !.given = g]
<1>1. email.id \in Code /\ g \in Given
  BY DEF VerifyEmailMFAEnrollment, TypeOK, EmailFactor, Given
<1>2. q \in Request
  BY <1>1, IdleType DEF Request, Pc
<1>3. q.pc = "get" /\ q.id = email.id /\ q.purpose = "enroll" /\ q.given = g /\ q.late = FALSE
  BY DEF Idle
<1>4. req' = [req EXCEPT ![r] = q]
  BY DEF VerifyEmailMFAEnrollment
<1> HIDE DEF q
<1> QED
  BY <1>1, <1>2, <1>3, <1>4 DEF EnrollMoves

SendMoves(r, q, p) ==
    req' = [req EXCEPT ![r] = q] /\ q.pc = "cooldown" /\ q.purpose = p /\ q.late = FALSE

\* EnrollEmailMFA and SendMFALoginCode go on to sendMFAEmailCode.
LEMMA SendEffect ==
    ASSUME TypeOK, NEW r \in Req, NEW p \in Purpose,
           req' = [req EXCEPT ![r] = [Idle EXCEPT !.pc = "cooldown", !.purpose = p]]
    PROVE  \E q \in Request : SendMoves(r, q, p)
<1> DEFINE q == [Idle EXCEPT !.pc = "cooldown", !.purpose = p]
<1>1. q \in Request
  BY IdleType DEF Request, Pc
<1>2. q.pc = "cooldown" /\ q.purpose = p /\ q.late = FALSE
  BY DEF Idle
<1>3. req' = [req EXCEPT ![r] = q]
  OBVIOUS
<1> HIDE DEF q
<1> QED
  BY <1>1, <1>2, <1>3 DEF SendMoves

LoginMoves(r, q, g) ==
    /\ req' = [req EXCEPT ![r] = q] /\ q.pc = "listEmail" /\ q.purpose = "login"
    /\ q.given = g /\ q.late = (g.of \in spent)

\* VerifyMFALogin goes on with the challenge and the code given.
LEMMA LoginEffect ==
    ASSUME TypeOK, NEW r \in Req, NEW h \in Challenge, NEW g \in Given,
           VerifyMFALogin(r, h, g)
    PROVE  \E q \in Request : LoginMoves(r, q, g)
<1> DEFINE b == g.of \in spent
           ms == IF totp.on THEN {"totp"} ELSE {}
           q == [Idle EXCEPT !.pc = "listEmail", !.ch = h, !.given = g,
                             !.methods = ms, !.purpose = "login", !.late = b]
<1>1. b \in BOOLEAN /\ ms \in SUBSET Factor
  BY DEF Factor
<1>2. req' = [req EXCEPT ![r] = q]
  BY DEF VerifyMFALogin
<1>b. b = (g.of \in spent)
  OBVIOUS
<1> HIDE DEF b, ms
<1>3. q \in Request
  BY <1>1, IdleType DEF Request, Pc, Purpose
<1>4. q.pc = "listEmail" /\ q.purpose = "login" /\ q.given = g /\ q.late = b
  BY DEF Idle
<1> HIDE DEF q
<1> QED
  BY <1>2, <1>3, <1>4, <1>b DEF LoginMoves

SaveMoves(r, q) ==
    /\ req' = [req EXCEPT ![r] = q]
    /\ \/ q = Idle /\ UNCHANGED <<age, otp>>
       \/ \E c \in Code :
            /\ q.pc = "mail" /\ q.id = c /\ Same(q, req[r])
            /\ age[c] = "unused" /\ age' = [age EXCEPT ![c] = "young"]
            /\ otp' = [otp EXCEPT ![req[r].purpose] = [code |-> c, attempts |-> 0]]

\* SaveMFAOTPCode stores a code nobody was sent before, or gives up.
LEMMA SaveEffect ==
    ASSUME TypeOK, NEW r \in Req, NEW o \in Outcome, SaveMFAOTPCode(r, o)
    PROVE  \E q \in Request : SaveMoves(r, q)
<1>1. CASE Finish(r) /\ UNCHANGED <<age, otp>>
  BY <1>1, IdleType DEF Finish, SaveMoves
<1>2. CASE \E c \in Code :
             /\ age[c] = "unused" /\ age' = [age EXCEPT ![c] = "young"]
             /\ otp' = [otp EXCEPT ![req[r].purpose] = [code |-> c, attempts |-> 0]]
             /\ req' = [req EXCEPT ![r] = [@ EXCEPT !.pc = "mail", !.id = c]]
  <2>1. PICK c \in Code :
             /\ age[c] = "unused" /\ age' = [age EXCEPT ![c] = "young"]
             /\ otp' = [otp EXCEPT ![req[r].purpose] = [code |-> c, attempts |-> 0]]
             /\ req' = [req EXCEPT ![r] = [@ EXCEPT !.pc = "mail", !.id = c]]
    BY <1>2
  <2> DEFINE q == [req[r] EXCEPT !.pc = "mail", !.id = c]
  <2>p. req[r] \in Request /\ "mail" \in Pc
    BY DEF TypeOK, Pc
  <2>2. q \in Request /\ q.pc = "mail" /\ Same(q, req[r]) /\ q.id = c
    BY <2>p DEF Request, Same
  <2>3. req' = [req EXCEPT ![r] = q]
    BY <2>1 DEF TypeOK
  <2> HIDE DEF q
  <2> QED
    BY <2>1, <2>2, <2>3 DEF SaveMoves
<1> QED
  BY <1>1, <1>2 DEF SaveMFAOTPCode

\* A request that has only moved on, or gone.
Goes(r, q, p) == q = Idle \/ (q.pc = p /\ Same(q, req[r]) /\ q.id = req[r].id)

\* Goto and Finish change nothing else of a request.
LEMMA GoesEffect ==
    ASSUME TypeOK, NEW r \in Req, NEW p \in Pc, Goto(r, p) \/ Finish(r)
    PROVE  \E q \in Request : req' = [req EXCEPT ![r] = q] /\ Goes(r, q, p)
<1>1. CASE Finish(r)
  BY <1>1, IdleType DEF Finish, Goes
<1>2. CASE Goto(r, p)
  <2> DEFINE q == [req[r] EXCEPT !.pc = p]
  <2>1. q \in Request /\ q.pc = p /\ Same(q, req[r]) /\ q.id = req[r].id
    BY LocalPc DEF TypeOK
  <2>2. req' = [req EXCEPT ![r] = q]
    BY <1>2 DEF Goto, TypeOK
  <2> HIDE DEF q
  <2> QED
    BY <2>1, <2>2 DEF Goes
<1> QED
  BY <1>1, <1>2

\* The request takes the metadata it read along to count an attempt.
LEMMA BumpEffect ==
    ASSUME TypeOK, NEW r \in Req, NEW m \in Meta,
           req' = [req EXCEPT ![r] = [@ EXCEPT !.pc = "bump", !.meta = m]]
    PROVE  \E q \in Request : /\ req' = [req EXCEPT ![r] = q] /\ q.pc = "bump"
                              /\ Same(q, req[r]) /\ q.meta = m
<1> DEFINE q == [req[r] EXCEPT !.pc = "bump", !.meta = m]
<1>p. req[r] \in Request /\ "bump" \in Pc
  BY DEF TypeOK, Pc
<1>1. q \in Request /\ q.pc = "bump" /\ Same(q, req[r]) /\ q.meta = m
  BY <1>p DEF Request, Same
<1>2. req' = [req EXCEPT ![r] = q]
  BY DEF TypeOK
<1> HIDE DEF q
<1> QED
  BY <1>1, <1>2

\* Metadata under a purpose that can be verified against, and the code given
\* is or is not the one.
Right(p, g) == otp[p] \in Meta /\ g.of = otp[p].code /\ g.of \in Code
Wrong(p, g) == otp[p] \in Meta /\ otp[p].attempts < MaxAttempts /\ g.of # otp[p].code

ReadMoves(r, q, o) ==
    /\ req' = [req EXCEPT ![r] = q]
    /\ \/ q = Idle /\ Calls(r, "get", o, log)
       \/ /\ q.pc = "completeEmail" /\ Same(q, req[r]) /\ q.id = req[r].id
          /\ Right("enroll", req[r].given) /\ Calls(r, "get", o, log)
       \/ /\ q.pc = "bump" /\ Same(q, req[r]) /\ q.meta = otp["enroll"]
          /\ Wrong("enroll", req[r].given)
          /\ Calls(r, "get", o, Guessed(otp["enroll"].code))

\* GetMFAOTPCode tells a right code from a wrong one, which counts.
LEMMA ReadEffect ==
    ASSUME TypeOK, NEW r \in Req, NEW o \in Outcome, GetMFAOTPCode(r, o)
    PROVE  \E q \in Request : ReadMoves(r, q, o)
<1> DEFINE m == otp["enroll"]
           right == req[r].given.of = m.code
<1>m. m \in Meta \cup {NoMeta}
  BY DEF TypeOK, Purpose
<1>1. CASE o = "ok" /\ Usable(m) /\ right
  <2>1. Goto(r, "completeEmail") /\ Calls(r, "get", o, log)
    BY <1>1 DEF GetMFAOTPCode, Calls
  <2> DEFINE q == [req[r] EXCEPT !.pc = "completeEmail"]
  <2>p. req[r] \in Request /\ "completeEmail" \in Pc
    BY DEF TypeOK, Pc
  <2>2. q \in Request /\ q.pc = "completeEmail" /\ Same(q, req[r]) /\ q.id = req[r].id
    BY <2>p, LocalPc
  <2>3. req' = [req EXCEPT ![r] = q]
    BY <2>1 DEF Goto, TypeOK
  <2>4. m \in Meta /\ m.code \in Code
    BY <1>m, <1>1 DEF Usable, Meta
  <2> HIDE DEF q
  <2> QED
    BY <1>1, <2>1, <2>2, <2>3, <2>4 DEF ReadMoves, Right
<1>2. CASE o = "ok" /\ Usable(m) /\ ~right
  <2>1. m \in Meta
    BY <1>m, <1>2 DEF Usable
  <2>2. /\ req' = [req EXCEPT ![r] = [@ EXCEPT !.pc = "bump", !.meta = m]]
        /\ Calls(r, "get", o, Guessed(m.code))
    BY <1>2 DEF GetMFAOTPCode, Calls
  <2>3. PICK q \in Request : /\ req' = [req EXCEPT ![r] = q] /\ q.pc = "bump"
                             /\ Same(q, req[r]) /\ q.meta = m
    BY <2>1, <2>2, BumpEffect
  <2> QED
    BY <1>2, <2>1, <2>2, <2>3 DEF ReadMoves, Wrong, Usable
<1>3. CASE ~(o = "ok" /\ Usable(m))
  <2>1. Finish(r) /\ Calls(r, "get", o, log)
    BY <1>3 DEF GetMFAOTPCode, Calls
  <2> QED
    BY <2>1, IdleType DEF ReadMoves, Finish
<1> QED
  BY <1>1, <1>2, <1>3

TryMoves(r, q, o) ==
    /\ req' = [req EXCEPT ![r] = q]
    /\ \/ q = Idle /\ Calls(r, "email", o, log)
       \/ q.pc = "recovery" /\ Same(q, req[r]) /\ Calls(r, "email", o, log)
       \/ /\ q.pc = "consume" /\ Same(q, req[r])
          /\ Right("login", req[r].given) /\ Calls(r, "email", o, log)
       \/ /\ q.pc = "bump" /\ Same(q, req[r]) /\ q.meta = otp["login"]
          /\ Wrong("login", req[r].given)
          /\ Calls(r, "email", o, Guessed(otp["login"].code))

\* CheckEmailCode tells a right code from a wrong one, which counts.
LEMMA TryEffect ==
    ASSUME TypeOK, NEW r \in Req, NEW o \in Outcome, CheckEmailCode(r, o)
    PROVE  \E q \in Request : TryMoves(r, q, o)
<1> DEFINE m == otp["login"]
           tried == "email" \in req[r].methods /\ email # NoEmail /\ Usable(m)
           right == req[r].given.of = m.code
<1>m. m \in Meta \cup {NoMeta}
  BY DEF TypeOK, Purpose
<1>1. CASE o = "ok" /\ tried /\ right
  <2>1. Goto(r, "consume") /\ Calls(r, "email", o, log)
    BY <1>1 DEF CheckEmailCode, Calls
  <2> DEFINE q == [req[r] EXCEPT !.pc = "consume"]
  <2>p. req[r] \in Request /\ "consume" \in Pc
    BY DEF TypeOK, Pc
  <2>2. q \in Request /\ q.pc = "consume" /\ Same(q, req[r])
    BY <2>p, LocalPc
  <2>3. req' = [req EXCEPT ![r] = q]
    BY <2>1 DEF Goto, TypeOK
  <2>4. m \in Meta /\ m.code \in Code
    BY <1>m, <1>1 DEF Usable, Meta
  <2> HIDE DEF q
  <2> QED
    BY <1>1, <2>1, <2>2, <2>3, <2>4 DEF TryMoves, Right
<1>2. CASE o = "ok" /\ tried /\ ~right
  <2>1. m \in Meta
    BY <1>m, <1>2 DEF Usable
  <2>2. /\ req' = [req EXCEPT ![r] = [@ EXCEPT !.pc = "bump", !.meta = m]]
        /\ Calls(r, "email", o, Guessed(m.code))
    BY <1>2 DEF CheckEmailCode, Calls
  <2>3. PICK q \in Request : /\ req' = [req EXCEPT ![r] = q] /\ q.pc = "bump"
                             /\ Same(q, req[r]) /\ q.meta = m
    BY <2>1, <2>2, BumpEffect
  <2> QED
    BY <1>2, <2>1, <2>2, <2>3 DEF TryMoves, Wrong, Usable
<1>3. CASE ~(o = "ok" /\ tried)
  <2>1. (Goto(r, "recovery") \/ Finish(r)) /\ Calls(r, "email", o, log)
    BY <1>3 DEF CheckEmailCode, Calls
  <2>2. PICK q \in Request : req' = [req EXCEPT ![r] = q] /\ Goes(r, q, "recovery")
    BY <2>1, GoesEffect DEF Pc
  <2> QED
    BY <2>1, <2>2 DEF TryMoves, Goes
<1> QED
  BY <1>1, <1>2, <1>3

ListMoves(r, q) ==
    req' = [req EXCEPT ![r] = q] /\ (q = Idle \/ (q.pc \in {"totp", "email"} /\ Same(q, req[r])))

\* ListEnabledMFAMethods goes on to the first of the methods, or refuses.
LEMMA ListEffect ==
    ASSUME TypeOK, NEW r \in Req, NEW o \in Outcome, ListEnabledMFAMethods(r, o)
    PROVE  \E q \in Request : ListMoves(r, q)
<1> DEFINE ms == req[r].methods \cup (IF email.on THEN {"email"} ELSE {})
<1>a. PICK asked \in SUBSET Factor \ {{}} :
         \/ req' = [req EXCEPT ![r] =
                      [@ EXCEPT !.methods = ms \cap asked,
                                !.pc = IF "totp" \in ms \cap asked
                                       THEN "totp" ELSE "email"]]
         \/ Finish(r)
  BY DEF ListEnabledMFAMethods
<1> DEFINE ns == ms \cap asked
           p == IF "totp" \in ns THEN "totp" ELSE "email"
           q == [req[r] EXCEPT !.methods = ns, !.pc = p]
<1>0. req[r] \in Request
  BY DEF TypeOK
<1>1. ns \in SUBSET Factor /\ p \in Pc /\ p \in {"totp", "email"}
  BY <1>0 DEF Request, Pc
<1>2. q \in Request /\ q.pc = p /\ Same(q, req[r])
  <2> HIDE DEF ns, p
  <2> QED
    BY <1>0, <1>1 DEF Request, Same
<1>3. req' = [req EXCEPT ![r] = q] \/ Finish(r)
  BY <1>a DEF TypeOK
<1> HIDE DEF q, p
<1> QED
  BY <1>1, <1>2, <1>3, IdleType DEF ListMoves, Finish

CheckMoves(r, q) ==
    /\ req' = [req EXCEPT ![r] = q]
    /\ \/ q = Idle
       \/ q.pc = "email" /\ Same(q, req[r])
       \/ /\ q.pc = "record" /\ Same(q, req[r]) /\ q.row = totp /\ totp \in Totp
          /\ req[r].given \in TotpCode
          /\ req[r].given.of = totp.secret /\ req[r].given.step > totp.step

\* CheckTOTP takes the row along that the code is valid for.
LEMMA CheckEffect ==
    ASSUME TypeOK, NEW r \in Req, NEW o \in Outcome, CheckTOTP(r, o)
    PROVE  \E q \in Request : CheckMoves(r, q)
<1>1. CASE Goto(r, "email") \/ Finish(r)
  <2>1. PICK q \in Request : req' = [req EXCEPT ![r] = q] /\ Goes(r, q, "email")
    BY <1>1, GoesEffect DEF Pc
  <2> QED
    BY <2>1 DEF CheckMoves, Goes
<1>2. CASE /\ totp # NoTotp /\ ValidateTOTPCode(totp, req[r].given)
           /\ req' = [req EXCEPT ![r] = [@ EXCEPT !.pc = "record", !.row = totp]]
  <2> DEFINE q == [req[r] EXCEPT !.pc = "record", !.row = totp]
  <2>1. totp \in Totp
    BY <1>2 DEF TypeOK
  <2>p. req[r] \in Request /\ "record" \in Pc
    BY DEF TypeOK, Pc
  <2>2. q \in Request /\ q.pc = "record" /\ Same(q, req[r]) /\ q.row = totp
    BY <2>1, <2>p DEF Request, Same
  <2>3. req' = [req EXCEPT ![r] = q]
    BY <1>2 DEF TypeOK
  <2>4. req[r].given.of = totp.secret /\ req[r].given.step > totp.step
    BY <1>2 DEF ValidateTOTPCode
  <2>5. req[r].given \in TotpCode
    <3>1. req[r].given \in Given /\ req[r].given.of \in Secret
      BY <2>1, <2>4 DEF TypeOK, Request, Totp
    <3> QED
      BY <3>1, MfaAssumption DEF Given, Plain, Junk
  <2> HIDE DEF q
  <2> QED
    BY <2>1, <2>2, <2>3, <2>4, <2>5 DEF CheckMoves
<1> QED
  BY <1>1, <1>2 DEF CheckTOTP

ProveMoves(r, q, g) ==
    /\ req' = [req EXCEPT ![r] = q] /\ q.pc = "completeTotp" /\ q.row = totp /\ q.given = g
    /\ totp \in Totp /\ q.purpose = "enroll" /\ q.late = FALSE
    /\ g.of = totp.secret /\ g.step > totp.step

\* VerifyMFAEnrollment takes the row along that the code is valid for.
LEMMA ProveEffect ==
    ASSUME TypeOK, NEW r \in Req, NEW g \in TotpCode, VerifyMFAEnrollment(r, g)
    PROVE  \E q \in Request : ProveMoves(r, q, g)
<1> DEFINE q == [Idle EXCEPT !.pc = "completeTotp", !.row = totp, !.given = g]
<1>1. totp \in Totp
  BY DEF VerifyMFAEnrollment, TypeOK
<1>2. q \in Request
  BY <1>1, IdleType DEF Request, Pc, Given
<1>3. q.pc = "completeTotp" /\ q.row = totp /\ q.given = g /\ q.purpose = "enroll" /\ q.late = FALSE
  BY DEF Idle
<1>4. req' = [req EXCEPT ![r] = q] /\ g.of = totp.secret /\ g.step > totp.step
  BY DEF VerifyMFAEnrollment, ValidateTOTPCode
<1> HIDE DEF q
<1> QED
  BY <1>1, <1>2, <1>3, <1>4 DEF ProveMoves

\* Authenticated keeps only the challenge.
LEMMA DoneEffect ==
    ASSUME TypeOK, NEW r \in Req, Authenticated(r)
    PROVE  \E q \in Request : req' = [req EXCEPT ![r] = q] /\ q.pc = "status" /\ q.late = FALSE
<1> DEFINE q == [Idle EXCEPT !.pc = "status", !.ch = req[r].ch]
<1>1. q \in Request
  BY IdleType DEF TypeOK, Request, Pc
<1>2. q.pc = "status" /\ q.late = FALSE
  BY DEF Idle
<1>3. req' = [req EXCEPT ![r] = q]
  BY DEF Authenticated
<1> HIDE DEF q
<1> QED
  BY <1>1, <1>2, <1>3

UnusedMoves(r, q) ==
    /\ req' = [req EXCEPT ![r] = q]
    /\ \/ q = Idle
       \/ /\ q.pc = "mark" /\ Same(q, req[r]) /\ req[r].given.of \in Recovery
          /\ recovery[req[r].given.of] # NoRecovery /\ ~recovery[req[r].given.of].used

\* GetUnusedMFARecoveryCode finds an unused row, or the login fails.
LEMMA UnusedEffect ==
    ASSUME TypeOK, NEW r \in Req, NEW o \in Outcome, GetUnusedMFARecoveryCode(r, o)
    PROVE  \E q \in Request : UnusedMoves(r, q)
<1> DEFINE x == req[r].given.of
<1>1. CASE o = "ok" /\ x \in Recovery /\ recovery[x] # NoRecovery /\ ~recovery[x].used
  <2>1. Goto(r, "mark")
    BY <1>1 DEF GetUnusedMFARecoveryCode
  <2> DEFINE q == [req[r] EXCEPT !.pc = "mark"]
  <2>p. req[r] \in Request /\ "mark" \in Pc
    BY DEF TypeOK, Pc
  <2>2. q \in Request /\ q.pc = "mark" /\ Same(q, req[r])
    BY <2>p, LocalPc
  <2>3. req' = [req EXCEPT ![r] = q]
    BY <2>1 DEF Goto, TypeOK
  <2> HIDE DEF q
  <2> QED
    BY <1>1, <2>2, <2>3 DEF UnusedMoves
<1>2. CASE ~(o = "ok" /\ x \in Recovery /\ recovery[x] # NoRecovery /\ ~recovery[x].used)
  <2>1. Finish(r)
    BY <1>2 DEF GetUnusedMFARecoveryCode
  <2> QED
    BY <2>1, IdleType DEF UnusedMoves, Finish
<1> QED
  BY <1>1, <1>2

-----------------------------------------------------------------------------
(* What the steps make of the log and of the rows *)

\* What the history of the codes becomes.
LEMMA LogTypes ==
    ASSUME log \in Log
    PROVE  /\ Blank(FALSE) \in Log /\ ~Blank(FALSE).quiet
           /\ \A c \in Code : /\ Guessed(c) \in Log /\ Guessed(c).quiet = log.quiet
                              /\ Guessed(c).used = log.used /\ Guessed(c).twice = log.twice
                              /\ Guessed(c).guesses = [log.guesses EXCEPT ![c] = @ + 1]
           /\ \A g \in Given : /\ Accepted(g) \in Log /\ Accepted(g).quiet = log.quiet
                               /\ Accepted(g).guesses = log.guesses
                               /\ Accepted(g).used = log.used \cup {g}
                               /\ Accepted(g).twice <=> log.twice \/ g \in log.used
<1>1. Blank(FALSE) \in Log /\ ~Blank(FALSE).quiet
  BY DEF Blank, Log
<1>2. ASSUME NEW c \in Code
      PROVE  /\ Guessed(c) \in Log /\ Guessed(c).quiet = log.quiet
             /\ Guessed(c).used = log.used /\ Guessed(c).twice = log.twice
             /\ Guessed(c).guesses = [log.guesses EXCEPT ![c] = @ + 1]
  <2>1. [log.guesses EXCEPT ![c] = @ + 1] \in [Code -> Nat]
    BY DEF Log
  <2> QED
    BY <2>1 DEF Guessed, Log
<1>3. ASSUME NEW g \in Given
      PROVE  /\ Accepted(g) \in Log /\ Accepted(g).quiet = log.quiet
             /\ Accepted(g).guesses = log.guesses
             /\ Accepted(g).used = log.used \cup {g}
             /\ Accepted(g).twice <=> log.twice \/ g \in log.used
  <2> DEFINE b == log.twice \/ g \in log.used
             u == log.used \cup {g}
  <2>1. b \in BOOLEAN /\ u \in SUBSET Given
    BY DEF Log
  <2>2. Accepted(g) = [log EXCEPT !.used = u, !.twice = b]
    BY DEF Accepted
  <2>3. u = log.used \cup {g} /\ (b <=> log.twice \/ g \in log.used)
    OBVIOUS
  <2> HIDE DEF b, u
  <2>4. /\ Accepted(g) \in Log /\ Accepted(g).quiet = log.quiet
        /\ Accepted(g).guesses = log.guesses /\ Accepted(g).used = u /\ Accepted(g).twice = b
    BY <2>1, <2>2 DEF Log
  <2> QED
    BY <2>3, <2>4
<1> QED
  BY <1>1, <1>2, <1>3

Rows == RecoveryRow \cup {NoRecovery}

\* WithoutCodesOf row by row.
LEMMA DropEffect ==
    ASSUME TypeOK, NEW id
    PROVE  /\ WithoutCodesOf(id) \in [Recovery -> Rows]
           /\ \A x \in Recovery : WithoutCodesOf(id)[x] =
                IF recovery[x].factor = id THEN NoRecovery ELSE recovery[x]
  BY DEF TypeOK, WithoutCodesOf, Rows

\* A batch of codes for factor id, one that was never issued, replaces the old.
Renewed(id) == \E x \in Recovery \ issued :
    /\ recovery' = [WithoutCodesOf(id) EXCEPT ![x] = [factor |-> id, used |-> FALSE]]
    /\ issued' = issued \cup {x}

Renews(id, x) ==
    /\ issued' = issued \cup {x} /\ recovery[x] = NoRecovery
    /\ recovery' \in [Recovery -> Rows] /\ recovery'[x] # NoRecovery
    /\ recovery'[x].factor = id
    /\ \A y \in Recovery \ {x} :
         recovery'[y] = IF recovery[y].factor = id THEN NoRecovery ELSE recovery[y]

\* A new batch takes no row of another factor away.
LEMMA RenewEffect ==
    ASSUME TypeOK, IssueInv, NEW id \in Secret \cup Code \cup Others, Renewed(id)
    PROVE  \E x \in Recovery \ issued : Renews(id, x)
<1>1. PICK x \in Recovery \ issued :
        /\ recovery' = [WithoutCodesOf(id) EXCEPT ![x] = [factor |-> id, used |-> FALSE]]
        /\ issued' = issued \cup {x}
  BY DEF Renewed
<1> DEFINE row == [factor |-> id, used |-> FALSE]
<1>2. row \in Rows /\ row.factor = id /\ row # NoRecovery
  BY MfaAssumption DEF Rows, RecoveryRow, NoRecovery
<1>3. recovery' = [WithoutCodesOf(id) EXCEPT ![x] = row]
  BY <1>1
<1>4. recovery[x] = NoRecovery
  BY <1>1 DEF IssueInv
<1> HIDE DEF row
<1>5. /\ recovery' \in [Recovery -> Rows] /\ recovery'[x] = row
      /\ \A y \in Recovery \ {x} :
           recovery'[y] = IF recovery[y].factor = id THEN NoRecovery ELSE recovery[y]
  BY <1>2, <1>3, DropEffect
<1> QED
  BY <1>1, <1>2, <1>4, <1>5 DEF Renews

CompleteMoves(r, q, o) ==
    /\ req' = [req EXCEPT ![r] = q]
    /\ \/ q = Idle /\ UNCHANGED <<email, recovery, issued>> /\ Calls(r, "completeEmail", o, log)
       \/ /\ q.pc = "delEnroll" /\ Same(q, req[r])
          /\ email \in EmailFactor /\ email' \in EmailFactor /\ email'.on /\ email'.id = email.id
          /\ \E x \in Recovery \ issued : Renews(email.id, x)
          /\ Calls(r, "completeEmail", o, Accepted(req[r].given))

\* CompleteOTPFactorEnrollment does all it has to or nothing.
LEMMA CompleteEffect ==
    ASSUME TypeOK, ControlInv, IssueInv, NEW r \in Req, NEW o \in Outcome,
           CompleteOTPFactorEnrollment(r, o)
    PROVE  \E q \in Request : CompleteMoves(r, q, o)
<1>a. At(r, "completeEmail")
  BY DEF CompleteOTPFactorEnrollment, Calls
<1>1. CASE o = "ok" /\ email.id = req[r].id /\ FreshCodes # {}
  <2>1. /\ Goto(r, "delEnroll") /\ email' = [email EXCEPT !.on = TRUE] /\ Renewed(email.id)
        /\ Calls(r, "completeEmail", o, Accepted(req[r].given))
    BY <1>1 DEF CompleteOTPFactorEnrollment, Calls, IssueRecoveryCodes, FreshCodes, Renewed
  <2> DEFINE q == [req[r] EXCEPT !.pc = "delEnroll"]
  <2>p. req[r] \in Request /\ "delEnroll" \in Pc
    BY DEF TypeOK, Pc
  <2>2. q \in Request /\ q.pc = "delEnroll" /\ Same(q, req[r])
    BY <2>p, LocalPc
  <2>3. req' = [req EXCEPT ![r] = q]
    BY <2>1 DEF Goto, TypeOK
  <2>4. email.id \in Code
    BY <1>1, <1>a DEF ControlInv, Locals, At
  <2>5. email \in EmailFactor
    BY <2>4, MfaAssumption DEF TypeOK, NoEmail
  <2>6. email' \in EmailFactor /\ email'.on /\ email'.id = email.id
    BY <2>1, <2>5 DEF EmailFactor
  <2>7. \E x \in Recovery \ issued : Renews(email.id, x)
    BY <2>1, <2>4, RenewEffect
  <2> HIDE DEF q
  <2> QED
    BY <2>1, <2>2, <2>3, <2>5, <2>6, <2>7 DEF CompleteMoves
<1>2. CASE ~(o = "ok" /\ email.id = req[r].id /\ FreshCodes # {})
  <2>1. Finish(r) /\ UNCHANGED <<email, recovery, issued>> /\ Calls(r, "completeEmail", o, log)
    BY <1>2 DEF CompleteOTPFactorEnrollment, Calls
  <2> QED
    BY <2>1, IdleType DEF CompleteMoves, Finish
<1> QED
  BY <1>1, <1>2

EnableMoves(r, o) ==
    \/ UNCHANGED <<totp, recovery, issued>> /\ Calls(r, "completeTotp", o, log)
    \/ /\ totp.id = req[r].row.id /\ totp \in Totp /\ totp' \in Totp
       /\ totp'.on /\ totp'.id = totp.id /\ totp'.secret = totp.secret
       /\ totp'.step = req[r].given.step
       /\ \E x \in Recovery \ issued : Renews(totp.id, x)
       /\ Calls(r, "completeTotp", o, Accepted(req[r].given))

\* CompleteMFAEnrollment does all it has to or nothing.
LEMMA EnableEffect ==
    ASSUME TypeOK, ControlInv, IssueInv, NEW r \in Req, NEW o \in Outcome,
           CompleteMFAEnrollment(r, o)
    PROVE  EnableMoves(r, o)
<1>a. At(r, "completeTotp")
  BY DEF CompleteMFAEnrollment, Calls
<1>1. CASE o = "ok" /\ totp.id = req[r].row.id /\ FreshCodes # {}
  <2>1. /\ totp' = [totp EXCEPT !.on = TRUE, !.step = req[r].given.step] /\ Renewed(totp.id)
        /\ Calls(r, "completeTotp", o, Accepted(req[r].given))
    BY <1>1 DEF CompleteMFAEnrollment, Calls, IssueRecoveryCodes, FreshCodes, Renewed
  <2>2. req[r].row \in Totp /\ req[r].given \in TotpCode
    BY <1>a DEF ControlInv, Locals, At
  <2>3. req[r].row.id \in Secret /\ req[r].given.step \in Step0
    BY <2>2, MfaAssumption DEF Totp, TotpCode, Step0
  <2>4. totp \in Totp
    BY <1>1, <2>3, MfaAssumption DEF TypeOK, NoTotp
  <2>5. /\ totp' \in Totp /\ totp'.on /\ totp'.id = totp.id /\ totp'.secret = totp.secret
        /\ totp'.step = req[r].given.step
    BY <2>1, <2>3, <2>4 DEF Totp
  <2>6. \E x \in Recovery \ issued : Renews(totp.id, x)
    BY <2>1, <2>4, RenewEffect DEF Totp
  <2> QED
    BY <1>1, <2>1, <2>4, <2>5, <2>6 DEF EnableMoves
<1>2. CASE ~(o = "ok" /\ totp.id = req[r].row.id /\ FreshCodes # {})
  BY <1>2 DEF CompleteMFAEnrollment, Calls, EnableMoves
<1> QED
  BY <1>1, <1>2

RecordMoves(r) ==
    /\ log' = Accepted(req[r].given) \/ ~log'.quiet
    /\ \/ totp' = totp /\ (log'.quiet => totp.id # req[r].row.id)
       \/ /\ totp.id = req[r].row.id /\ totp \in Totp /\ totp' \in Totp
          /\ totp'.id = totp.id /\ totp'.secret = totp.secret /\ totp'.on = totp.on
          /\ totp'.step = req[r].given.step

\* RecordTOTPSuccess moves the step of the row it read, if it is there.
LEMMA RecordEffect ==
    ASSUME TypeOK, ControlInv, NEW r \in Req, NEW o \in Outcome, RecordTOTPSuccess(r, o)
    PROVE  RecordMoves(r)
<1>f. ~Blank(FALSE).quiet
  BY DEF Blank
<1>a. At(r, "record") /\ (log' = Accepted(req[r].given) \/ ~log'.quiet)
  BY <1>f DEF RecordTOTPSuccess, Calls
<1>1. CASE o = "ok" /\ totp.id = req[r].row.id
  <2>1. totp' = [totp EXCEPT !.step = req[r].given.step]
    BY <1>1 DEF RecordTOTPSuccess
  <2>2. req[r].row \in Totp /\ req[r].given \in TotpCode
    BY <1>a DEF ControlInv, Locals, At
  <2>3. req[r].row.id \in Secret /\ req[r].given.step \in Step0
    BY <2>2, MfaAssumption DEF Totp, TotpCode, Step0
  <2>4. totp \in Totp
    BY <1>1, <2>3, MfaAssumption DEF TypeOK, NoTotp
  <2>5. /\ totp' \in Totp /\ totp'.on = totp.on
        /\ totp'.id = totp.id /\ totp'.secret = totp.secret
        /\ totp'.step = req[r].given.step
    BY <2>1, <2>3, <2>4 DEF Totp
  <2> QED
    BY <1>a, <1>1, <2>4, <2>5 DEF RecordMoves
<1>2. CASE ~(o = "ok" /\ totp.id = req[r].row.id)
  <2>1. totp' = totp
    BY <1>2 DEF RecordTOTPSuccess
  <2>2. log'.quiet => o = "ok"
    BY <1>f DEF RecordTOTPSuccess, Calls
  <2> QED
    BY <1>a, <1>2, <2>1, <2>2 DEF RecordMoves
<1> QED
  BY <1>1, <1>2

Inserts(s) ==
    /\ totp' \in Totp /\ totp'.secret = s /\ ~totp'.on
    /\ totp'.id = IF totp = NoTotp THEN s ELSE totp.id
    /\ issued' = issued \cup {s}

UpsertMoves ==
    \/ UNCHANGED <<totp, issued>>
    \/ \E s \in Secret \ issued : Inserts(s)

\* UpsertPendingTOTPFactor writes a new secret and keeps the id of a row that
\* is there.
LEMMA UpsertEffect ==
    ASSUME TypeOK, NEW r \in Req, NEW o \in Outcome, UpsertPendingTOTPFactor(r, o)
    PROVE  UpsertMoves
<1>1. CASE \E s \in Secret \ issued :
             /\ totp' = [id |-> IF totp = NoTotp THEN s ELSE totp.id,
                         secret |-> s, on |-> FALSE, step |-> 0]
             /\ issued' = issued \cup {s}
  <2>1. PICK s \in Secret \ issued :
          /\ totp' = [id |-> IF totp = NoTotp THEN s ELSE totp.id,
                      secret |-> s, on |-> FALSE, step |-> 0]
          /\ issued' = issued \cup {s}
    BY <1>1
  <2> DEFINE id == IF totp = NoTotp THEN s ELSE totp.id
  <2>2. id \in Secret /\ id = IF totp = NoTotp THEN s ELSE totp.id
    BY DEF TypeOK, Totp
  <2>3. totp' = [id |-> id, secret |-> s, on |-> FALSE, step |-> 0]
    BY <2>1
  <2> HIDE DEF id
  <2>4. totp' \in Totp /\ totp'.secret = s /\ ~totp'.on /\ totp'.id = id
    BY <2>2, <2>3, MfaAssumption DEF Totp, Step0
  <2> QED
    BY <2>1, <2>2, <2>4 DEF UpsertMoves, Inserts
<1>2. CASE UNCHANGED <<totp, issued>>
  BY <1>2 DEF UpsertMoves
<1> QED
  BY <1>1, <1>2 DEF UpsertPendingTOTPFactor

PendMoves(r) ==
    \/ email' = email
    \/ email' \in EmailFactor /\ ~email'.on

\* UpsertPendingOTPFactor leaves the row pending.
LEMMA PendEffect ==
    ASSUME TypeOK, ControlInv, NEW r \in Req, NEW o \in Outcome, UpsertPendingOTPFactor(r, o)
    PROVE  PendMoves(r)
<1> DEFINE id == IF email = NoEmail THEN req[r].id ELSE email.id
<1>1. At(r, "upsertEmail")
  BY DEF UpsertPendingOTPFactor, Calls
<1>2. id \in Code
  BY <1>1 DEF TypeOK, ControlInv, Locals, At, EmailFactor
<1>3. email' = email \/ email' = [id |-> id, on |-> FALSE]
  BY DEF UpsertPendingOTPFactor
<1> HIDE DEF id
<1>4. ASSUME email' = [id |-> id, on |-> FALSE] PROVE email' \in EmailFactor /\ ~email'.on
  BY <1>2, <1>4 DEF EmailFactor
<1> QED
  BY <1>3, <1>4 DEF PendMoves

MarkMoves(r) ==
    /\ log' = Accepted(req[r].given) \/ ~log'.quiet
    /\ \/ UNCHANGED <<recovery, spent>> /\ ~log'.quiet
       \/ /\ spent' = spent \cup {req[r].given.of}
          /\ recovery' \in [Recovery -> Rows]
          /\ \A x \in Recovery \ {req[r].given.of} : recovery'[x] = recovery[x]
          /\ \/ recovery' = recovery /\ recovery[req[r].given.of] = NoRecovery
             \/ /\ recovery'[req[r].given.of].factor = recovery[req[r].given.of].factor
                /\ recovery'[req[r].given.of].used
                /\ recovery[req[r].given.of] # NoRecovery

\* MarkMFARecoveryCodeUsed changes that row, if it is there, and no other.
LEMMA MarkEffect ==
    ASSUME TypeOK, ControlInv, NEW r \in Req, NEW o \in Outcome, MarkMFARecoveryCodeUsed(r, o)
    PROVE  MarkMoves(r)
<1> DEFINE x == req[r].given.of
<1>f. ~Blank(FALSE).quiet
  BY DEF Blank
<1>a. At(r, "mark") /\ (log' = Accepted(req[r].given) \/ ~log'.quiet) /\ (log'.quiet => o = "ok")
  BY <1>f DEF MarkMFARecoveryCodeUsed, Calls
<1>b. x \in Recovery
  BY <1>a DEF ControlInv, Locals, At
<1>1. CASE o # "ok"
  BY <1>a, <1>1 DEF MarkMFARecoveryCodeUsed, MarkMoves
<1>2. CASE o = "ok" /\ recovery[x] = NoRecovery
  <2>1. spent' = spent \cup {x} /\ recovery' = recovery
    BY <1>2 DEF MarkMFARecoveryCodeUsed
  <2>2. recovery \in [Recovery -> Rows]
    BY DEF TypeOK, Rows
  <2> QED
    BY <1>a, <1>2, <2>1, <2>2 DEF MarkMoves
<1>3. CASE o = "ok" /\ recovery[x] # NoRecovery
  <2>1. spent' = spent \cup {x} /\ recovery' = [recovery EXCEPT ![x].used = TRUE]
    BY <1>3 DEF MarkMFARecoveryCodeUsed
  <2>2. recovery[x] \in RecoveryRow
    BY <1>b, <1>3 DEF TypeOK
  <2> DEFINE row == [recovery[x] EXCEPT !.used = TRUE]
  <2>3. row \in RecoveryRow /\ row.used /\ row.factor = recovery[x].factor
    BY <2>2 DEF RecoveryRow
  <2>4. recovery' = [recovery EXCEPT ![x] = row]
    BY <2>1
  <2> HIDE DEF row
  <2>5. /\ recovery' \in [Recovery -> Rows] /\ recovery'[x] = row
        /\ \A y \in Recovery \ {x} : recovery'[y] = recovery[y]
    BY <1>b, <2>3, <2>4 DEF TypeOK, Rows
  <2> QED
    BY <1>a, <1>3, <2>1, <2>3, <2>5 DEF MarkMoves
<1> QED
  BY <1>1, <1>2, <1>3

RemoveMoves ==
    /\ totp' = totp \/ (totp' = NoTotp /\ ~totp.on)
    /\ email' = email \/ (email' = NoEmail /\ ~email.on)
    /\ recovery' \in [Recovery -> Rows]
    /\ \A x \in Recovery :
         \/ recovery'[x] = recovery[x]
         \/ /\ recovery'[x] = NoRecovery
            /\ \/ ~totp.on /\ recovery[x].factor = totp.id
               \/ ~email.on /\ recovery[x].factor = email.id

\* The clean-up takes pending factors and their codes.
LEMMA RemoveEffect == TypeOK /\ RemoveUnverifiedMFAFactors => RemoveMoves
<1> SUFFICES ASSUME TypeOK, RemoveUnverifiedMFAFactors PROVE RemoveMoves
  OBVIOUS
<1>1. PICK t, e \in BOOLEAN :
        LET dropTotp == t /\ totp # NoTotp /\ ~totp.on
            dropEmail == e /\ email # NoEmail /\ ~email.on
        IN /\ totp' = IF dropTotp THEN NoTotp ELSE totp
           /\ email' = IF dropEmail THEN NoEmail ELSE email
           /\ recovery' = [x \in Recovery |->
                IF \/ dropTotp /\ recovery[x].factor = totp.id
                   \/ dropEmail /\ recovery[x].factor = email.id
                THEN NoRecovery ELSE recovery[x]]
  BY DEF RemoveUnverifiedMFAFactors
<1>2. totp' = totp \/ (totp' = NoTotp /\ ~totp.on)
  BY <1>1
<1>3. email' = email \/ (email' = NoEmail /\ ~email.on)
  BY <1>1
<1>4. recovery' \in [Recovery -> Rows]
  BY <1>1 DEF TypeOK, Rows
<1>5. ASSUME NEW x \in Recovery
      PROVE  \/ recovery'[x] = recovery[x]
             \/ /\ recovery'[x] = NoRecovery
                /\ \/ ~totp.on /\ recovery[x].factor = totp.id
                   \/ ~email.on /\ recovery[x].factor = email.id
  BY <1>1
<1> QED
  BY <1>2, <1>3, <1>4, <1>5 DEF RemoveMoves

DropMoves(id) ==
    /\ recovery' \in [Recovery -> Rows]
    /\ \A x \in Recovery : recovery'[x] = IF recovery[x].factor = id THEN NoRecovery ELSE recovery[x]

\* DeleteTOTPFactor takes the factor and its codes.
LEMMA DropTotpEffect ==
    ASSUME TypeOK, NEW r \in Req, NEW o \in Outcome, DeleteTOTPFactor(r, o)
    PROVE  UNCHANGED <<totp, recovery>> \/ (totp' = NoTotp /\ DropMoves(totp.id))
  BY DropEffect DEF DeleteTOTPFactor, DropMoves

\* DeleteOTPFactor takes the factor and its codes.
LEMMA DropEmailEffect ==
    ASSUME TypeOK, NEW r \in Req, NEW o \in Outcome, DeleteOTPFactor(r, o)
    PROVE  UNCHANGED <<email, recovery>> \/ (email' = NoEmail /\ DropMoves(email.id))
  BY DropEffect DEF DeleteOTPFactor, DropMoves

CountMoves(r) ==
    /\ req[r].meta \in Meta
    /\ \/ otp' = otp /\ ~log'.quiet
       \/ \E m \in Meta : /\ m.code = req[r].meta.code /\ m.attempts = req[r].meta.attempts + 1
                          /\ otp' = [otp EXCEPT ![req[r].purpose] = m]

\* SaveFailedAttempt writes back what was read with one more attempt.
LEMMA CountEffect ==
    ASSUME TypeOK, ControlInv, NEW r \in Req, NEW o \in Outcome, SaveFailedAttempt(r, o)
    PROVE  CountMoves(r)
<1> DEFINE m == [req[r].meta EXCEPT !.attempts = @ + 1]
<1>f. ~Blank(FALSE).quiet
  BY DEF Blank
<1>1. At(r, "bump")
  BY DEF SaveFailedAttempt, Calls
<1>2. req[r].meta \in Meta /\ req[r].meta.attempts < MaxAttempts
  BY <1>1 DEF ControlInv, Locals, At
<1>3. m \in Meta /\ m.code = req[r].meta.code /\ m.attempts = req[r].meta.attempts + 1
  BY <1>2, MfaAssumption DEF Meta
<1>4. (otp' = otp /\ ~log'.quiet) \/ otp' = [otp EXCEPT ![req[r].purpose] = m]
  BY <1>f DEF SaveFailedAttempt, Calls
<1> HIDE DEF m
<1> QED
  BY <1>2, <1>3, <1>4 DEF CountMoves

\* DeleteMFAOTPCode and ConsumeEmailCode delete the code, or the call failed.
LEMMA DeleteEffect ==
    ASSUME NEW r \in Req, NEW o \in Outcome
    PROVE  /\ DeleteMFAOTPCode(r, o) =>
                \/ otp' = otp /\ ~log'.quiet
                \/ otp' = [otp EXCEPT !["enroll"] = NoMeta]
           /\ ConsumeEmailCode(r, o) =>
                \/ otp' = otp /\ ~log'.quiet
                \/ otp' = [otp EXCEPT !["login"] = NoMeta]
  BY DEF DeleteMFAOTPCode, ConsumeEmailCode, Calls, Blank

-----------------------------------------------------------------------------
(* Every step is of one of a few kinds *)

\* A step of request r that leaves it as q and a quiet history as l.
Frame(r, q, l) ==
    /\ req' = [req EXCEPT ![r] = q] /\ Locals(q)
    /\ \/ log' = Blank(FALSE)
       \/ log' = l /\ l.quiet /\ log.quiet /\ \A p \in Req \ {r} : req[p] = Idle

Sending == {"cooldown", "save", "mail", "upsertEmail"}

\* Nothing is written, and nothing found that the invariant speaks of.
Passes(r, q) ==
    /\ Frame(r, q, log)
    /\ UNCHANGED <<plan, now, age, totp, email, recovery, otp, issued, spent, proved>>
    /\ challenge' \in [Challenge -> {"none", "live", "gone"}]
    /\ req[r].pc \notin {"bump", "delEnroll"}
    /\ q.pc \notin {"completeTotp", "record", "completeEmail", "delEnroll", "bump", "consume", "mark"}
    /\ q.late => q.given.of \in spent
    /\ q.pc \in Sending /\ q.purpose = "enroll" =>
         ~email.on \/ (req[r].pc \in Sending /\ req[r].purpose = "enroll")
    /\ q.pc = "upsertTotp" => totp = NoTotp

\* A pending secret is proved.
Proves(r, q, g) ==
    /\ Frame(r, q, log) /\ ProveMoves(r, q, g) /\ req[r] = Idle
    /\ proved' = proved \cup {totp.secret}
    /\ UNCHANGED <<plan, now, age, totp, email, recovery, otp, challenge, issued, spent>>

\* A secret is stored, under a new id or the one that is there.
Upserts(r, s) ==
    /\ Frame(r, Idle, log) /\ At(r, "upsertTotp") /\ Inserts(s)
    /\ UNCHANGED <<plan, now, age, email, recovery, otp, challenge, spent, proved>>

\* The TOTP factor is switched on, with recovery code x.
Enables(r, x) ==
    /\ Frame(r, Idle, Accepted(req[r].given)) /\ At(r, "completeTotp")
    /\ totp.id = req[r].row.id /\ totp \in Totp /\ totp' \in Totp
    /\ totp'.on /\ totp'.id = totp.id /\ totp'.secret = totp.secret
    /\ totp'.step = req[r].given.step
    /\ Renews(totp.id, x)
    /\ UNCHANGED <<plan, now, age, email, otp, challenge, spent, proved>>

\* The email factor is switched on, with recovery code x.
Completes(r, q, x) ==
    /\ Frame(r, q, Accepted(req[r].given)) /\ At(r, "completeEmail")
    /\ q.pc = "delEnroll" /\ Same(q, req[r])
    /\ email \in EmailFactor /\ email' \in EmailFactor /\ email'.on /\ email'.id = email.id
    /\ Renews(email.id, x)
    /\ UNCHANGED <<plan, now, age, totp, otp, challenge, spent, proved>>

\* The TOTP factor is disabled.
DropsTotp(r) ==
    /\ Frame(r, Idle, log) /\ At(r, "deleteTotp")
    /\ totp' = NoTotp /\ DropMoves(totp.id)
    /\ UNCHANGED <<plan, now, age, email, otp, challenge, issued, spent, proved>>

\* The email factor is disabled.
DropsEmail(r) ==
    /\ Frame(r, Idle, log) /\ At(r, "deleteEmail")
    /\ email' = NoEmail /\ DropMoves(email.id)
    /\ UNCHANGED <<plan, now, age, totp, otp, challenge, issued, spent, proved>>

\* Code c is made and stored.
Saves(r, q, c) ==
    /\ Frame(r, q, log) /\ At(r, "save")
    /\ q.pc = "mail" /\ Same(q, req[r])
    /\ age[c] = "unused" /\ age' = [age EXCEPT ![c] = "young"]
    /\ otp' = [otp EXCEPT ![req[r].purpose] = [code |-> c, attempts |-> 0]]
    /\ UNCHANGED <<plan, now, totp, email, recovery, challenge, issued, spent, proved>>

\* A pending email factor is written.
Pends(r) ==
    /\ Frame(r, Idle, log) /\ At(r, "upsertEmail")
    /\ email' \in EmailFactor /\ ~email'.on
    /\ UNCHANGED <<plan, now, age, totp, recovery, otp, challenge, issued, spent, proved>>

\* The right mailed code is found.
Matches(r, q, p) ==
    /\ Frame(r, q, log) /\ req[r].pc \in {"get", "email"}
    /\ Right(p, req[r].given) /\ Same(q, req[r])
    /\ q.pc = IF p = "enroll" THEN "completeEmail" ELSE "consume"
    /\ UNCHANGED <<plan, now, age, totp, email, recovery, otp, challenge, issued, spent, proved>>

\* A wrong mailed code is found.
Misses(r, q, p) ==
    /\ Frame(r, q, Guessed(otp[p].code)) /\ req[r].pc \in {"get", "email"}
    /\ Wrong(p, req[r].given) /\ Same(q, req[r])
    /\ q.pc = "bump" /\ q.meta = otp[p] /\ q.purpose = p
    /\ UNCHANGED <<plan, now, age, totp, email, recovery, otp, challenge, issued, spent, proved>>

\* A wrong code is counted.
Counts(r, q) ==
    /\ Frame(r, q, log) /\ At(r, "bump")
    /\ q = Idle \/ (q.pc = "recovery" /\ Same(q, req[r]))
    /\ CountMoves(r)
    /\ UNCHANGED <<plan, now, age, totp, email, recovery, challenge, issued, spent, proved>>

\* The code of a completed enrolment goes.
Deletes(r) ==
    /\ Frame(r, Idle, log) /\ At(r, "delEnroll")
    /\ (otp' = otp /\ ~log'.quiet) \/ otp' = [otp EXCEPT !["enroll"] = NoMeta]
    /\ UNCHANGED <<plan, now, age, totp, email, recovery, challenge, issued, spent, proved>>

\* A valid TOTP code is found.
Checks(r, q) ==
    /\ Frame(r, q, log) /\ At(r, "totp")
    /\ q.pc = "record" /\ Same(q, req[r]) /\ q.row = totp /\ totp \in Totp
    /\ req[r].given.of = totp.secret /\ req[r].given.step > totp.step
    /\ UNCHANGED <<plan, now, age, totp, email, recovery, otp, challenge, issued, spent, proved>>

\* Its step is recorded.
Records(r, q) ==
    /\ Frame(r, q, Accepted(req[r].given)) /\ At(r, "record")
    /\ q.pc = "status" /\ ~q.late /\ RecordMoves(r)
    /\ UNCHANGED <<plan, now, age, email, recovery, otp, challenge, issued, spent, proved>>

\* The login's mailed code goes.
Consumes(r, q) ==
    /\ Frame(r, q, Accepted(req[r].given)) /\ At(r, "consume")
    /\ q.pc = "status" /\ ~q.late
    /\ (otp' = otp /\ ~log'.quiet) \/ otp' = [otp EXCEPT !["login"] = NoMeta]
    /\ UNCHANGED <<plan, now, age, totp, email, recovery, challenge, issued, spent, proved>>

\* An unused recovery code is found.
Finds(r, q) ==
    /\ Frame(r, q, log) /\ At(r, "recovery")
    /\ q.pc = "mark" /\ Same(q, req[r]) /\ req[r].given.of \in Recovery
    /\ recovery[req[r].given.of] # NoRecovery /\ ~recovery[req[r].given.of].used
    /\ UNCHANGED <<plan, now, age, totp, email, recovery, otp, challenge, issued, spent, proved>>

\* It is marked.
Marks(r, q) ==
    /\ Frame(r, q, Accepted(req[r].given)) /\ At(r, "mark")
    /\ q.pc = "status" /\ ~q.late /\ MarkMoves(r)
    /\ UNCHANGED <<plan, now, age, totp, email, otp, challenge, issued, proved>>

\* The clean-up.
Removes ==
    /\ RemoveMoves
    /\ UNCHANGED <<plan, now, age, otp, challenge, req, issued, spent, proved, log>>

\* Another account gets recovery code x.
Foreign(f, x) ==
    /\ Renews(f, x)
    /\ UNCHANGED <<plan, now, age, totp, email, otp, challenge, req, spent, proved, log>>

\* Time, challenges and stuttering.
Elapses ==
    /\ now' \in 1..MaxStep /\ challenge' \in [Challenge -> {"none", "live", "gone"}]
    /\ age' \in [Code -> {"unused", "young", "old", "expired"}]
    /\ \A c \in Code : age'[c] = "unused" <=> age[c] = "unused"
    /\ UNCHANGED <<plan, totp, email, recovery, otp, req, issued, spent, proved, log>>

Kinds ==
    \/ \E r \in Req, q \in Request :
         \/ Passes(r, q) \/ Counts(r, q) \/ Checks(r, q) \/ Records(r, q)
         \/ Consumes(r, q) \/ Finds(r, q) \/ Marks(r, q)
         \/ \E g \in TotpCode : Proves(r, q, g)
         \/ \E x \in Recovery \ issued : Completes(r, q, x)
         \/ \E c \in Code : Saves(r, q, c)
         \/ \E p \in Purpose : Matches(r, q, p) \/ Misses(r, q, p)
    \/ \E r \in Req :
         \/ DropsTotp(r) \/ DropsEmail(r) \/ Pends(r) \/ Deletes(r)
         \/ \E s \in Secret \ issued : Upserts(r, s)
         \/ \E x \in Recovery \ issued : Enables(r, x)
    \/ Removes \/ Elapses
    \/ \E f \in Others, x \in Recovery \ issued : Foreign(f, x)

\* A request's call.
LEMMA FrameCall ==
    ASSUME TypeOK, LoneInv, NEW r \in Req, NEW q, NEW o, NEW p, p # "idle", NEW l,
           Calls(r, p, o, l), l.quiet = log.quiet, req' = [req EXCEPT ![r] = q], Locals(q)
    PROVE  Frame(r, q, l)
<1>1. req[r] # Idle
  BY IdleType DEF Calls, At
<1>2. log' = Blank(FALSE) \/ (log' = l /\ log.quiet)
  BY DEF Calls
<1> QED
  BY <1>1, <1>2 DEF LoneInv, Frame

\* A request's arrival.
LEMMA FrameArrival ==
    ASSUME NEW r \in Req, NEW q, Arriving(r, log), req' = [req EXCEPT ![r] = q], Locals(q)
    PROVE  Frame(r, q, log)
<1>1. log' = Blank(FALSE) \/ (log' = log /\ log.quiet /\ Lone(r))
  BY DEF Arriving
<1> QED
  BY <1>1 DEF Frame, Lone

\* Every step is of one of these kinds.
LEMMA Steps == IInv /\ [Next]_vars => Kinds
<1> SUFFICES ASSUME IInv, [Next]_vars PROVE Kinds
  OBVIOUS
<1>0. TypeOK /\ ControlInv /\ IssueInv /\ LoneInv /\ SpentInv
  BY DEF IInv
<1>i. Idle.pc = "idle" /\ Idle \in Request /\ Idle.late = FALSE /\ Locals(Idle)
  BY IdleType DEF Locals
<1>a. /\ \A g \in Given : Accepted(g).quiet = log.quiet
      /\ \A c \in Code : Guessed(c).quiet = log.quiet
  BY <1>0, LogTypes DEF TypeOK
<1>g. \A r \in Req : req[r].given \in Given
  BY <1>0 DEF TypeOK, Request
<1>c. challenge \in [Challenge -> {"none", "live", "gone"}]
  BY <1>0 DEF TypeOK
<1>s. \A r \in Req : req[r].late => req[r].given.of \in spent
  BY <1>0 DEF SpentInv
<1>1. ASSUME NEW r \in Req, EnrollMFA(r) PROVE Kinds
  <2>1. PICK q \in Request : req' = [req EXCEPT ![r] = q] /\ Goes(r, q, "trigger")
    <3>1. Goto(r, "trigger")
      BY <1>1 DEF EnrollMFA, Goto
    <3> QED
      BY <1>0, <3>1, GoesEffect DEF Pc
  <2>2. req[r] = Idle
    BY <1>1 DEF EnrollMFA, Arriving
  <2>3. UNCHANGED <<plan, now, age, totp, email, recovery, otp, challenge, issued, spent,
                    proved>>
    BY <1>1 DEF EnrollMFA, clock, rows, redis, hist
  <2>4. Locals(q)
    BY <1>0, <1>i, <2>1, <2>2 DEF ControlInv, Locals, At, Goes, Same
  <2>5. Frame(r, q, log)
    BY <1>0, <1>1, <2>1, <2>4, FrameArrival DEF EnrollMFA
  <2>6. Passes(r, q)
    BY <1>0, <1>c, <1>i, <1>s, <2>1, <2>2, <2>3, <2>5 DEF Passes, Sending, At, Goes, Same
  <2> QED
    BY <2>6 DEF Kinds
<1>2. ASSUME NEW r \in Req, DisableMFA(r) PROVE Kinds
  <2>1. PICK q \in Request : req' = [req EXCEPT ![r] = q] /\ Goes(r, q, "deleteTotp")
    <3>1. Goto(r, "deleteTotp")
      BY <1>2 DEF DisableMFA, Goto
    <3> QED
      BY <1>0, <3>1, GoesEffect DEF Pc
  <2>2. req[r] = Idle
    BY <1>2 DEF DisableMFA, Arriving
  <2>3. UNCHANGED <<plan, now, age, totp, email, recovery, otp, challenge, issued, spent,
                    proved>>
    BY <1>2 DEF DisableMFA, clock, rows, redis, hist
  <2>4. Locals(q)
    BY <1>0, <1>i, <2>1, <2>2 DEF ControlInv, Locals, At, Goes, Same
  <2>5. Frame(r, q, log)
    BY <1>0, <1>2, <2>1, <2>4, FrameArrival DEF DisableMFA
  <2>6. Passes(r, q)
    BY <1>0, <1>c, <1>i, <1>s, <2>1, <2>2, <2>3, <2>5 DEF Passes, Sending, At, Goes, Same
  <2> QED
    BY <2>6 DEF Kinds
<1>3. ASSUME NEW r \in Req, EnrollEmailMFA(r) PROVE Kinds
  <2>1. PICK q \in Request : SendMoves(r, q, "enroll")
    BY <1>0, <1>3, SendEffect DEF Purpose, EnrollEmailMFA
  <2>2. req[r] = Idle
    BY <1>3 DEF EnrollEmailMFA, Arriving
  <2>3. UNCHANGED <<plan, now, age, totp, email, recovery, otp, challenge, issued, spent,
                    proved>>
    BY <1>3 DEF EnrollEmailMFA, clock, rows, redis, hist
  <2>a. ~email.on
    BY <1>3 DEF EnrollEmailMFA
  <2>4. Locals(q)
    BY <1>0, <1>i, <2>1, <2>2 DEF ControlInv, Locals, At, SendMoves
  <2>5. Frame(r, q, log)
    BY <1>0, <1>3, <2>1, <2>4, FrameArrival DEF EnrollEmailMFA, SendMoves
  <2>6. Passes(r, q)
    BY <1>0, <1>c, <1>i, <1>s, <2>1, <2>2, <2>3, <2>5, <2>a DEF Passes, Sending, At,
      SendMoves
  <2> QED
    BY <2>6 DEF Kinds
<1>4. ASSUME NEW r \in Req, DisableEmailMFA(r) PROVE Kinds
  <2>1. PICK q \in Request : req' = [req EXCEPT ![r] = q] /\ Goes(r, q, "deleteEmail")
    <3>1. Goto(r, "deleteEmail")
      BY <1>4 DEF DisableEmailMFA, Goto
    <3> QED
      BY <1>0, <3>1, GoesEffect DEF Pc
  <2>2. req[r] = Idle
    BY <1>4 DEF DisableEmailMFA, Arriving
  <2>3. UNCHANGED <<plan, now, age, totp, email, recovery, otp, challenge, issued, spent,
                    proved>>
    BY <1>4 DEF DisableEmailMFA, clock, rows, redis, hist
  <2>4. Locals(q)
    BY <1>0, <1>i, <2>1, <2>2 DEF ControlInv, Locals, At, Goes, Same
  <2>5. Frame(r, q, log)
    BY <1>0, <1>4, <2>1, <2>4, FrameArrival DEF DisableEmailMFA
  <2>6. Passes(r, q)
    BY <1>0, <1>c, <1>i, <1>s, <2>1, <2>2, <2>3, <2>5 DEF Passes, Sending, At, Goes, Same
  <2> QED
    BY <2>6 DEF Kinds
<1>5. ASSUME NEW r \in Req, NEW g \in TotpCode, VerifyMFAEnrollment(r, g) PROVE Kinds
  <2>1. PICK q \in Request : ProveMoves(r, q, g)
    BY <1>0, <1>5, ProveEffect
  <2>2. req[r] = Idle
    BY <1>5 DEF VerifyMFAEnrollment, Arriving
  <2>3. UNCHANGED <<plan, now, age, totp, email, recovery, otp, challenge, issued, spent>>
    BY <1>5 DEF VerifyMFAEnrollment, clock, rows, redis, hist
  <2>4. proved' = proved \cup {totp.secret}
    BY <1>5 DEF VerifyMFAEnrollment
  <2>5. Locals(q)
    BY <2>1 DEF ProveMoves, Locals
  <2>6. Frame(r, q, log)
    BY <1>5, <2>1, <2>5, FrameArrival DEF VerifyMFAEnrollment, ProveMoves
  <2> QED
    BY <1>5, <2>1, <2>2, <2>3, <2>4, <2>6 DEF Kinds, Proves
<1>6. ASSUME NEW r \in Req, NEW g \in Plain \cup {Junk}, VerifyEmailMFAEnrollment(r, g)
      PROVE  Kinds
  <2>1. PICK q \in Request : EnrollMoves(r, q, g)
    BY <1>0, <1>6, EnrollEffect
  <2>2. req[r] = Idle
    BY <1>6 DEF VerifyEmailMFAEnrollment, Arriving
  <2>3. UNCHANGED <<plan, now, age, totp, email, recovery, otp, challenge, issued, spent,
                    proved>>
    BY <1>6 DEF VerifyEmailMFAEnrollment, clock, rows, redis, hist
  <2>4. Locals(q)
    BY <1>0, <1>i, <2>1, <2>2 DEF ControlInv, Locals, At, EnrollMoves
  <2>5. Frame(r, q, log)
    BY <1>0, <1>6, <2>1, <2>4, FrameArrival DEF VerifyEmailMFAEnrollment, EnrollMoves
  <2>6. Passes(r, q)
    BY <1>0, <1>c, <1>i, <1>s, <2>1, <2>2, <2>3, <2>5 DEF Passes, Sending, At, EnrollMoves
  <2> QED
    BY <2>6 DEF Kinds
<1>7. ASSUME NEW r \in Req, NEW h \in Challenge, SendMFALoginCode(r, h) PROVE Kinds
  <2>1. PICK q \in Request : SendMoves(r, q, "login")
    BY <1>0, <1>7, SendEffect DEF Purpose, SendMFALoginCode
  <2>2. req[r] = Idle
    BY <1>7 DEF SendMFALoginCode, Arriving
  <2>3. UNCHANGED <<plan, now, age, totp, email, recovery, otp, challenge, issued, spent,
                    proved>>
    BY <1>7 DEF SendMFALoginCode, clock, rows, redis, hist
  <2>4. Locals(q)
    BY <1>0, <1>i, <2>1, <2>2 DEF ControlInv, Locals, At, SendMoves
  <2>5. Frame(r, q, log)
    BY <1>0, <1>7, <2>1, <2>4, FrameArrival DEF SendMFALoginCode, SendMoves
  <2>6. Passes(r, q)
    BY <1>0, <1>c, <1>i, <1>s, <2>1, <2>2, <2>3, <2>5 DEF Passes, Sending, At, SendMoves
  <2> QED
    BY <2>6 DEF Kinds
<1>8. ASSUME NEW r \in Req, NEW h \in Challenge, NEW g \in Given, VerifyMFALogin(r, h, g)
      PROVE  Kinds
  <2>1. PICK q \in Request : LoginMoves(r, q, g)
    BY <1>0, <1>8, LoginEffect
  <2>2. req[r] = Idle
    BY <1>8 DEF VerifyMFALogin, Arriving
  <2>3. UNCHANGED <<plan, now, age, totp, email, recovery, otp, challenge, issued, spent,
                    proved>>
    BY <1>8 DEF VerifyMFALogin, clock, rows, redis, hist
  <2>4. Locals(q)
    BY <1>0, <1>i, <2>1, <2>2 DEF ControlInv, Locals, At, LoginMoves
  <2>5. Frame(r, q, log)
    BY <1>0, <1>8, <2>1, <2>4, FrameArrival DEF VerifyMFALogin, LoginMoves
  <2>6. Passes(r, q)
    BY <1>0, <1>c, <1>i, <1>s, <2>1, <2>2, <2>3, <2>5 DEF Passes, Sending, At, LoginMoves
  <2> QED
    BY <2>6 DEF Kinds
<1>9. ASSUME NEW r \in Req, NEW o \in Outcome, UpsertPendingTOTPFactor(r, o) PROVE Kinds
  <2>1. req' = [req EXCEPT ![r] = Idle]
    BY <1>9 DEF UpsertPendingTOTPFactor, Finish
  <2>2. At(r, "upsertTotp")
    BY <1>9 DEF UpsertPendingTOTPFactor, Calls
  <2>3. UNCHANGED <<plan, now, age, email, recovery, otp, challenge, spent, proved>>
    BY <1>9 DEF UpsertPendingTOTPFactor, clock, rows, redis, hist
  <2>4. UpsertMoves
    BY <1>0, <1>9, UpsertEffect
  <2>5. Frame(r, Idle, log)
    BY <1>0, <1>i, <1>a, <1>g, <1>9, <2>1, FrameCall DEF UpsertPendingTOTPFactor
  <2>6. CASE UNCHANGED <<totp, issued>>
    <3>1. Passes(r, Idle)
      BY <1>i, <1>c, <2>2, <2>3, <2>5, <2>6 DEF Passes, At, Sending
    <3> QED
      BY <1>i, <3>1 DEF Kinds
  <2>7. ASSUME NEW s \in Secret \ issued, Inserts(s) PROVE Kinds
    BY <2>2, <2>3, <2>5, <2>7 DEF Kinds, Upserts
  <2> QED
    BY <2>4, <2>6, <2>7 DEF UpsertMoves
<1>10. ASSUME NEW r \in Req, NEW o \in Outcome, CompleteMFAEnrollment(r, o) PROVE Kinds
  <2>1. req' = [req EXCEPT ![r] = Idle]
    BY <1>10 DEF CompleteMFAEnrollment, Finish
  <2>2. At(r, "completeTotp")
    BY <1>10 DEF CompleteMFAEnrollment, Calls
  <2>3. UNCHANGED <<plan, now, age, email, otp, challenge, spent, proved>>
    BY <1>10 DEF CompleteMFAEnrollment, clock, rows, redis, hist
  <2>4. EnableMoves(r, o)
    BY <1>0, <1>10, EnableEffect
  <2>5. CASE UNCHANGED <<totp, recovery, issued>> /\ Calls(r, "completeTotp", o, log)
    <3>1. Frame(r, Idle, log)
      BY <1>0, <1>i, <2>1, <2>5, FrameCall
    <3>2. Passes(r, Idle)
      BY <1>i, <1>c, <2>2, <2>3, <2>5, <3>1 DEF Passes, At, Sending
    <3> QED
      BY <1>i, <3>2 DEF Kinds
  <2>6. ASSUME ~(UNCHANGED <<totp, recovery, issued>> /\ Calls(r, "completeTotp", o, log))
        PROVE  Kinds
    <3>1. Calls(r, "completeTotp", o, Accepted(req[r].given))
      BY <2>4, <2>6 DEF EnableMoves
    <3>2. Frame(r, Idle, Accepted(req[r].given))
      BY <1>0, <1>i, <1>a, <1>g, <2>1, <3>1, FrameCall
    <3>3. PICK x \in Recovery \ issued : Enables(r, x)
      BY <2>2, <2>3, <2>4, <2>6, <3>2 DEF EnableMoves, Enables
    <3> QED
      BY <3>3 DEF Kinds
  <2> QED
    BY <2>5, <2>6
<1>11. ASSUME NEW r \in Req, NEW o \in Outcome, DeleteTOTPFactor(r, o) PROVE Kinds
  <2>1. req' = [req EXCEPT ![r] = Idle]
    BY <1>11 DEF DeleteTOTPFactor, Finish
  <2>2. At(r, "deleteTotp")
    BY <1>11 DEF DeleteTOTPFactor, Calls
  <2>3. UNCHANGED <<plan, now, age, email, otp, challenge, issued, spent, proved>>
    BY <1>11 DEF DeleteTOTPFactor, clock, rows, redis, hist
  <2>4. UNCHANGED <<totp, recovery>> \/ (totp' = NoTotp /\ DropMoves(totp.id))
    BY <1>0, <1>11, DropTotpEffect
  <2>5. Frame(r, Idle, log)
    BY <1>0, <1>i, <1>a, <1>g, <1>11, <2>1, FrameCall DEF DeleteTOTPFactor
  <2>6. CASE UNCHANGED <<totp, recovery>>
    <3>1. Passes(r, Idle)
      BY <1>i, <1>c, <2>2, <2>3, <2>5, <2>6 DEF Passes, At, Sending
    <3> QED
      BY <1>i, <3>1 DEF Kinds
  <2>7. CASE totp' = NoTotp /\ DropMoves(totp.id)
    BY <2>2, <2>3, <2>5, <2>7 DEF Kinds, DropsTotp
  <2> QED
    BY <2>4, <2>6, <2>7
<1>12. ASSUME NEW r \in Req, NEW o \in Outcome, CheckCooldown(r, o) PROVE Kinds
  <2>1. PICK q \in Request : req' = [req EXCEPT ![r] = q] /\ Goes(r, q, "save")
    <3>1. Goto(r, "save") \/ Finish(r)
      BY <1>12 DEF CheckCooldown
    <3> QED
      BY <1>0, <3>1, GoesEffect DEF Pc
  <2>2. At(r, "cooldown")
    BY <1>12 DEF CheckCooldown, Calls
  <2>3. UNCHANGED <<plan, now, age, totp, email, recovery, otp, challenge, issued, spent,
                    proved>>
    BY <1>12 DEF CheckCooldown, clock, rows, redis, hist
  <2>4. Locals(q)
    BY <1>0, <1>i, <2>1, <2>2 DEF ControlInv, Locals, At, Goes, Same
  <2>5. Frame(r, q, log)
    BY <1>0, <1>12, <2>1, <2>4, FrameCall DEF CheckCooldown
  <2>6. Passes(r, q)
    BY <1>0, <1>c, <1>i, <1>s, <2>1, <2>2, <2>3, <2>5 DEF Passes, Sending, At, Goes, Same
  <2> QED
    BY <2>6 DEF Kinds
<1>13. ASSUME NEW r \in Req, NEW o \in Outcome, SaveMFAOTPCode(r, o) PROVE Kinds
  <2>1. PICK q \in Request : SaveMoves(r, q)
    BY <1>0, <1>13, SaveEffect
  <2>2. At(r, "save")
    BY <1>13 DEF SaveMFAOTPCode, Calls
  <2>3. UNCHANGED <<plan, now, totp, email, recovery, challenge, issued, spent, proved>>
    BY <1>13 DEF SaveMFAOTPCode, clock, rows, redis, hist
  <2>a. Calls(r, "save", o, log)
    BY <1>13 DEF SaveMFAOTPCode
  <2>4. CASE req' = [req EXCEPT ![r] = Idle] /\ UNCHANGED <<age, otp>>
    <3>1. Frame(r, Idle, log)
      BY <1>0, <1>i, <2>a, <2>4, FrameCall
    <3>2. Passes(r, Idle)
      BY <1>i, <1>c, <2>2, <2>3, <2>4, <3>1 DEF Passes, At, Sending
    <3> QED
      BY <1>i, <3>2 DEF Kinds
  <2>5. ASSUME NEW c \in Code, q.pc = "mail", q.id = c, Same(q, req[r]), age[c] = "unused",
               age' = [age EXCEPT ![c] = "young"], req' = [req EXCEPT ![r] = q],
               otp' = [otp EXCEPT ![req[r].purpose] = [code |-> c, attempts |-> 0]]
        PROVE  Kinds
    <3>1. Locals(q)
      BY <2>5 DEF Locals
    <3>2. Frame(r, q, log)
      BY <1>0, <2>a, <2>5, <3>1, FrameCall
    <3> QED
      BY <2>2, <2>3, <2>5, <3>2 DEF Kinds, Saves
  <2> QED
    BY <2>1, <2>4, <2>5 DEF SaveMoves
<1>14. ASSUME NEW r \in Req, NEW o \in Outcome, SendEmailVerificationEmail(r, o) PROVE Kinds
  <2>1. PICK q \in Request : req' = [req EXCEPT ![r] = q] /\ Goes(r, q, "upsertEmail")
    <3>1. Goto(r, "upsertEmail") \/ Finish(r)
      BY <1>14 DEF SendEmailVerificationEmail
    <3> QED
      BY <1>0, <3>1, GoesEffect DEF Pc
  <2>2. At(r, "mail")
    BY <1>14 DEF SendEmailVerificationEmail, Calls
  <2>3. UNCHANGED <<plan, now, age, totp, email, recovery, otp, challenge, issued, spent,
                    proved>>
    BY <1>14 DEF SendEmailVerificationEmail, clock, rows, redis, hist
  <2>a. q.pc = "upsertEmail" => req[r].purpose = "enroll"
    <3>1. req'[r].pc = q.pc
      BY <1>0, <2>1 DEF TypeOK
    <3>2. CASE req[r].purpose # "enroll"
      BY <1>0, <1>i, <1>14, <3>1, <3>2 DEF SendEmailVerificationEmail, TypeOK, Finish
    <3> QED
      BY <3>2
  <2>4. Locals(q)
    BY <1>0, <1>i, <2>1, <2>2, <2>a DEF ControlInv, Locals, At, Goes, Same
  <2>5. Frame(r, q, log)
    BY <1>0, <1>14, <2>1, <2>4, FrameCall DEF SendEmailVerificationEmail
  <2>6. Passes(r, q)
    BY <1>0, <1>c, <1>i, <1>s, <2>1, <2>2, <2>3, <2>5, <2>a DEF Passes, Sending, At, Goes,
      Same
  <2> QED
    BY <2>6 DEF Kinds
<1>15. ASSUME NEW r \in Req, NEW o \in Outcome, UpsertPendingOTPFactor(r, o) PROVE Kinds
  <2>1. req' = [req EXCEPT ![r] = Idle]
    BY <1>15 DEF UpsertPendingOTPFactor, Finish
  <2>2. At(r, "upsertEmail")
    BY <1>15 DEF UpsertPendingOTPFactor, Calls
  <2>3. UNCHANGED <<plan, now, age, totp, recovery, otp, challenge, issued, spent,
                    proved>>
    BY <1>15 DEF UpsertPendingOTPFactor, clock, rows, redis, hist
  <2>4. PendMoves(r)
    BY <1>0, <1>15, PendEffect
  <2>5. Frame(r, Idle, log)
    BY <1>0, <1>i, <1>a, <1>g, <1>15, <2>1, FrameCall DEF UpsertPendingOTPFactor
  <2>6. CASE email' = email
    <3>1. Passes(r, Idle)
      BY <1>i, <1>c, <2>2, <2>3, <2>5, <2>6 DEF Passes, At, Sending
    <3> QED
      BY <1>i, <3>1 DEF Kinds
  <2>7. CASE email' \in EmailFactor /\ ~email'.on
    BY <2>2, <2>3, <2>5, <2>7 DEF Kinds, Pends
  <2> QED
    BY <2>4, <2>6, <2>7 DEF PendMoves
<1>16. ASSUME NEW r \in Req, NEW o \in Outcome, GetMFAOTPCode(r, o) PROVE Kinds
  <2>1. PICK q \in Request : ReadMoves(r, q, o)
    BY <1>0, <1>16, ReadEffect
  <2>2. At(r, "get")
    BY <1>16 DEF GetMFAOTPCode, Calls
  <2>3. UNCHANGED <<plan, now, age, totp, email, recovery, otp, challenge, issued, spent,
                    proved>>
    BY <1>16 DEF GetMFAOTPCode, clock, rows, redis, hist
  <2>4. CASE req' = [req EXCEPT ![r] = Idle] /\ Calls(r, "get", o, log)
    <3>1. Frame(r, Idle, log)
      BY <1>0, <1>i, <2>4, FrameCall
    <3>2. Passes(r, Idle)
      BY <1>i, <1>c, <2>2, <2>3, <2>4, <3>1 DEF Passes, At, Sending
    <3> QED
      BY <1>i, <3>2 DEF Kinds
  <2>5. CASE /\ req' = [req EXCEPT ![r] = q] /\ q.pc = "completeEmail" /\ Same(q, req[r])
             /\ q.id = req[r].id /\ Right("enroll", req[r].given) /\ Calls(r, "get", o, log)
    <3>1. Locals(q)
      BY <1>0, <2>2, <2>5 DEF Locals, ControlInv, Same, Right, At
    <3>2. Frame(r, q, log)
      BY <1>0, <2>5, <3>1, FrameCall
    <3>3. Matches(r, q, "enroll")
      BY <2>2, <2>3, <2>5, <3>2 DEF Matches, At
    <3> QED
      BY <3>3 DEF Kinds, Purpose
  <2>6. CASE /\ req' = [req EXCEPT ![r] = q] /\ q.pc = "bump" /\ Same(q, req[r])
             /\ q.meta = otp["enroll"] /\ Wrong("enroll", req[r].given)
             /\ Calls(r, "get", o, Guessed(otp["enroll"].code))
    <3>1. Locals(q) /\ otp["enroll"].code \in Code /\ q.purpose = "enroll"
      BY <1>0, <2>2, <2>6 DEF Locals, ControlInv, Same, Wrong, Meta, At
    <3>2. Frame(r, q, Guessed(otp["enroll"].code))
      BY <1>0, <1>a, <2>6, <3>1, FrameCall
    <3>3. Misses(r, q, "enroll")
      BY <2>2, <2>3, <2>6, <3>1, <3>2 DEF Misses, At
    <3> QED
      BY <3>3 DEF Kinds, Purpose
  <2> QED
    BY <2>1, <2>4, <2>5, <2>6 DEF ReadMoves
<1>17. ASSUME NEW r \in Req, NEW o \in Outcome, SaveFailedAttempt(r, o) PROVE Kinds
  <2>1. PICK q \in Request : req' = [req EXCEPT ![r] = q] /\ Goes(r, q, "recovery")
    <3>1. Goto(r, "recovery") \/ Finish(r)
      BY <1>17 DEF SaveFailedAttempt
    <3> QED
      BY <1>0, <3>1, GoesEffect DEF Pc
  <2>2. At(r, "bump")
    BY <1>17 DEF SaveFailedAttempt, Calls
  <2>3. UNCHANGED <<plan, now, age, totp, email, recovery, challenge, issued, spent,
                    proved>>
    BY <1>17 DEF SaveFailedAttempt, clock, rows, redis, hist
  <2>4. CountMoves(r) /\ Calls(r, "bump", o, log)
    BY <1>0, <1>17, CountEffect DEF SaveFailedAttempt
  <2>5. Locals(q)
    BY <1>i, <2>1 DEF Goes, Locals
  <2>6. Frame(r, q, log)
    BY <1>0, <2>1, <2>4, <2>5, FrameCall
  <2> QED
    BY <2>1, <2>2, <2>3, <2>4, <2>6 DEF Kinds, Counts, Goes
<1>18. ASSUME NEW r \in Req, NEW o \in Outcome, CompleteOTPFactorEnrollment(r, o) PROVE Kinds
  <2>1. PICK q \in Request : CompleteMoves(r, q, o)
    BY <1>0, <1>18, CompleteEffect
  <2>2. At(r, "completeEmail")
    BY <1>18 DEF CompleteOTPFactorEnrollment, Calls
  <2>3. UNCHANGED <<plan, now, age, totp, otp, challenge, spent, proved>>
    BY <1>18 DEF CompleteOTPFactorEnrollment, clock, rows, redis, hist
  <2>4. CASE req' = [req EXCEPT ![r] = Idle] /\ UNCHANGED <<email, recovery, issued>>
             /\ Calls(r, "completeEmail", o, log)
    <3>1. Frame(r, Idle, log)
      BY <1>0, <1>i, <2>4, FrameCall
    <3>2. Passes(r, Idle)
      BY <1>i, <1>c, <2>2, <2>3, <2>4, <3>1 DEF Passes, At, Sending
    <3> QED
      BY <1>i, <3>2 DEF Kinds
  <2>5. ASSUME q.pc = "delEnroll", Same(q, req[r]), req' = [req EXCEPT ![r] = q],
               NEW x \in Recovery \ issued, Renews(email.id, x), email \in EmailFactor,
               email' \in EmailFactor, email'.on, email'.id = email.id,
               Calls(r, "completeEmail", o, Accepted(req[r].given))
        PROVE  Kinds
    <3>1. Locals(q)
      BY <1>0, <2>2, <2>5 DEF Locals, ControlInv, Same, At
    <3>2. Frame(r, q, Accepted(req[r].given))
      BY <1>0, <1>a, <1>g, <2>5, <3>1, FrameCall
    <3>3. Completes(r, q, x)
      BY <2>2, <2>3, <2>5, <3>2 DEF Completes
    <3> QED
      BY <3>3 DEF Kinds
  <2> QED
    BY <2>1, <2>4, <2>5 DEF CompleteMoves
<1>19. ASSUME NEW r \in Req, NEW o \in Outcome, DeleteMFAOTPCode(r, o) PROVE Kinds
  <2>1. req' = [req EXCEPT ![r] = Idle]
    BY <1>19 DEF DeleteMFAOTPCode, Finish
  <2>2. At(r, "delEnroll")
    BY <1>19 DEF DeleteMFAOTPCode, Calls
  <2>3. UNCHANGED <<plan, now, age, totp, email, recovery, challenge, issued, spent,
                    proved>>
    BY <1>19 DEF DeleteMFAOTPCode, clock, rows, redis, hist
  <2>4. (otp' = otp /\ ~log'.quiet) \/ otp' = [otp EXCEPT !["enroll"] = NoMeta]
    BY <1>0, <1>19, DeleteEffect
  <2>5. Frame(r, Idle, log)
    BY <1>0, <1>i, <1>a, <1>g, <1>19, <2>1, FrameCall DEF DeleteMFAOTPCode
  <2> QED
    BY <2>2, <2>3, <2>4, <2>5 DEF Kinds, Deletes
<1>20. ASSUME NEW r \in Req, NEW o \in Outcome, DeleteOTPFactor(r, o) PROVE Kinds
  <2>1. req' = [req EXCEPT ![r] = Idle]
    BY <1>20 DEF DeleteOTPFactor, Finish
  <2>2. At(r, "deleteEmail")
    BY <1>20 DEF DeleteOTPFactor, Calls
  <2>3. UNCHANGED <<plan, now, age, totp, otp, challenge, issued, spent, proved>>
    BY <1>20 DEF DeleteOTPFactor, clock, rows, redis, hist
  <2>4. UNCHANGED <<email, recovery>> \/ (email' = NoEmail /\ DropMoves(email.id))
    BY <1>0, <1>20, DropEmailEffect
  <2>5. Frame(r, Idle, log)
    BY <1>0, <1>i, <1>a, <1>g, <1>20, <2>1, FrameCall DEF DeleteOTPFactor
  <2>6. CASE UNCHANGED <<email, recovery>>
    <3>1. Passes(r, Idle)
      BY <1>i, <1>c, <2>2, <2>3, <2>5, <2>6 DEF Passes, At, Sending
    <3> QED
      BY <1>i, <3>1 DEF Kinds
  <2>7. CASE email' = NoEmail /\ DropMoves(email.id)
    BY <2>2, <2>3, <2>5, <2>7 DEF Kinds, DropsEmail
  <2> QED
    BY <2>4, <2>6, <2>7
<1>21. ASSUME NEW r \in Req, NEW o \in Outcome, ListEnabledMFAMethods(r, o) PROVE Kinds
  <2>1. PICK q \in Request : ListMoves(r, q)
    BY <1>0, <1>21, ListEffect
  <2>2. At(r, "listEmail")
    BY <1>21 DEF ListEnabledMFAMethods, Calls
  <2>3. UNCHANGED <<plan, now, age, totp, email, recovery, otp, challenge, issued, spent,
                    proved>>
    BY <1>21 DEF ListEnabledMFAMethods, clock, rows, redis, hist
  <2>4. Locals(q)
    BY <1>0, <1>i, <2>1, <2>2 DEF ControlInv, Locals, At, ListMoves, Same
  <2>5. Frame(r, q, log)
    BY <1>0, <1>21, <2>1, <2>4, FrameCall DEF ListEnabledMFAMethods, ListMoves
  <2>6. Passes(r, q)
    BY <1>0, <1>c, <1>i, <1>s, <2>1, <2>2, <2>3, <2>5 DEF Passes, Sending, At, ListMoves,
      Same
  <2> QED
    BY <2>6 DEF Kinds
<1>22. ASSUME NEW r \in Req, NEW o \in Outcome, CheckTOTP(r, o) PROVE Kinds
  <2>1. PICK q \in Request : CheckMoves(r, q)
    BY <1>0, <1>22, CheckEffect
  <2>2. At(r, "totp")
    BY <1>22 DEF CheckTOTP, Calls
  <2>3. UNCHANGED <<plan, now, age, totp, email, recovery, otp, challenge, issued, spent,
                    proved>>
    BY <1>22 DEF CheckTOTP, clock, rows, redis, hist
  <2>a. Calls(r, "totp", o, log)
    BY <1>22 DEF CheckTOTP
  <2>4. Locals(q)
    BY <1>0, <1>i, <2>1, <2>2 DEF CheckMoves, Locals, ControlInv, Same, At
  <2>5. Frame(r, q, log)
    BY <1>0, <2>a, <2>1, <2>4, FrameCall DEF CheckMoves
  <2>6. CASE q = Idle \/ (q.pc = "email" /\ Same(q, req[r]))
    <3>1. Passes(r, q)
      BY <1>i, <1>c, <1>s, <2>2, <2>3, <2>5, <2>6 DEF Passes, At, Sending, Same
    <3> QED
      BY <3>1 DEF Kinds
  <2>7. CASE ~(q = Idle \/ (q.pc = "email" /\ Same(q, req[r])))
    BY <2>1, <2>2, <2>3, <2>5, <2>7 DEF CheckMoves, Checks, Kinds
  <2> QED
    BY <2>6, <2>7
<1>23. ASSUME NEW r \in Req, NEW o \in Outcome, RecordTOTPSuccess(r, o) PROVE Kinds
  <2>1. PICK q \in Request : req' = [req EXCEPT ![r] = q] /\ q.pc = "status" /\ q.late = FALSE
    <3>1. Authenticated(r)
      BY <1>23 DEF RecordTOTPSuccess
    <3> QED
      BY <1>0, <3>1, DoneEffect
  <2>2. At(r, "record")
    BY <1>23 DEF RecordTOTPSuccess, Calls
  <2>3. UNCHANGED <<plan, now, age, email, recovery, otp, challenge, issued, spent,
                    proved>>
    BY <1>23 DEF RecordTOTPSuccess, clock, rows, redis, hist
  <2>4. RecordMoves(r)
    BY <1>0, <1>23, RecordEffect
  <2>5. Locals(q)
    BY <2>1 DEF Locals
  <2>6. Frame(r, q, Accepted(req[r].given))
    BY <1>0, <1>a, <1>g, <1>23, <2>1, <2>5, FrameCall DEF RecordTOTPSuccess
  <2> QED
    BY <2>1, <2>2, <2>3, <2>4, <2>6 DEF Kinds, Records
<1>24. ASSUME NEW r \in Req, NEW o \in Outcome, CheckEmailCode(r, o) PROVE Kinds
  <2>1. PICK q \in Request : TryMoves(r, q, o)
    BY <1>0, <1>24, TryEffect
  <2>2. At(r, "email")
    BY <1>24 DEF CheckEmailCode, Calls
  <2>3. UNCHANGED <<plan, now, age, totp, email, recovery, otp, challenge, issued, spent,
                    proved>>
    BY <1>24 DEF CheckEmailCode, clock, rows, redis, hist
  <2>4. CASE req' = [req EXCEPT ![r] = Idle] /\ Calls(r, "email", o, log)
    <3>1. Frame(r, Idle, log)
      BY <1>0, <1>i, <2>4, FrameCall
    <3>2. Passes(r, Idle)
      BY <1>i, <1>c, <2>2, <2>3, <2>4, <3>1 DEF Passes, At, Sending
    <3> QED
      BY <1>i, <3>2 DEF Kinds
  <2>7. CASE /\ req' = [req EXCEPT ![r] = q] /\ q.pc = "recovery" /\ Same(q, req[r])
             /\ Calls(r, "email", o, log)
    <3>1. Locals(q)
      BY <2>7 DEF Locals
    <3>2. Frame(r, q, log)
      BY <1>0, <2>7, <3>1, FrameCall
    <3>3. Passes(r, q)
      BY <1>c, <1>s, <2>2, <2>3, <2>7, <3>2 DEF Passes, At, Sending, Same
    <3> QED
      BY <3>3 DEF Kinds
  <2>5. CASE /\ req' = [req EXCEPT ![r] = q] /\ q.pc = "consume" /\ Same(q, req[r])
             /\ Right("login", req[r].given) /\ Calls(r, "email", o, log)
    <3>1. Locals(q)
      BY <1>0, <2>2, <2>5 DEF Locals, ControlInv, Same, Right, At
    <3>2. Frame(r, q, log)
      BY <1>0, <2>5, <3>1, FrameCall
    <3>3. Matches(r, q, "login")
      BY <2>2, <2>3, <2>5, <3>2 DEF Matches, At
    <3> QED
      BY <3>3 DEF Kinds, Purpose
  <2>6. CASE /\ req' = [req EXCEPT ![r] = q] /\ q.pc = "bump" /\ Same(q, req[r])
             /\ q.meta = otp["login"] /\ Wrong("login", req[r].given)
             /\ Calls(r, "email", o, Guessed(otp["login"].code))
    <3>1. Locals(q) /\ otp["login"].code \in Code /\ q.purpose = "login"
      BY <1>0, <2>2, <2>6 DEF Locals, ControlInv, Same, Wrong, Meta, At
    <3>2. Frame(r, q, Guessed(otp["login"].code))
      BY <1>0, <1>a, <2>6, <3>1, FrameCall
    <3>3. Misses(r, q, "login")
      BY <2>2, <2>3, <2>6, <3>1, <3>2 DEF Misses, At
    <3> QED
      BY <3>3 DEF Kinds, Purpose
  <2> QED
    BY <2>1, <2>4, <2>5, <2>6, <2>7 DEF TryMoves
<1>25. ASSUME NEW r \in Req, NEW o \in Outcome, ConsumeEmailCode(r, o) PROVE Kinds
  <2>1. PICK q \in Request : req' = [req EXCEPT ![r] = q] /\ q.pc = "status" /\ q.late = FALSE
    <3>1. Authenticated(r)
      BY <1>25 DEF ConsumeEmailCode
    <3> QED
      BY <1>0, <3>1, DoneEffect
  <2>2. At(r, "consume")
    BY <1>25 DEF ConsumeEmailCode, Calls
  <2>3. UNCHANGED <<plan, now, age, totp, email, recovery, challenge, issued, spent,
                    proved>>
    BY <1>25 DEF ConsumeEmailCode, clock, rows, redis, hist
  <2>4. (otp' = otp /\ ~log'.quiet) \/ otp' = [otp EXCEPT !["login"] = NoMeta]
    BY <1>0, <1>25, DeleteEffect
  <2>5. Locals(q)
    BY <2>1 DEF Locals
  <2>6. Frame(r, q, Accepted(req[r].given))
    BY <1>0, <1>a, <1>g, <1>25, <2>1, <2>5, FrameCall DEF ConsumeEmailCode
  <2> QED
    BY <2>1, <2>2, <2>3, <2>4, <2>6 DEF Kinds, Consumes
<1>26. ASSUME NEW r \in Req, NEW o \in Outcome, GetUnusedMFARecoveryCode(r, o) PROVE Kinds
  <2>1. PICK q \in Request : UnusedMoves(r, q)
    BY <1>0, <1>26, UnusedEffect
  <2>2. At(r, "recovery")
    BY <1>26 DEF GetUnusedMFARecoveryCode, Calls
  <2>3. UNCHANGED <<plan, now, age, totp, email, recovery, otp, challenge, issued, spent,
                    proved>>
    BY <1>26 DEF GetUnusedMFARecoveryCode, clock, rows, redis, hist
  <2>a. Calls(r, "recovery", o, log)
    BY <1>26 DEF GetUnusedMFARecoveryCode
  <2>4. Locals(q)
    BY <1>i, <2>1 DEF UnusedMoves, Locals, Same
  <2>5. Frame(r, q, log)
    BY <1>0, <2>a, <2>1, <2>4, FrameCall DEF UnusedMoves
  <2>6. CASE q = Idle
    <3>1. Passes(r, q)
      BY <1>i, <1>c, <2>2, <2>3, <2>5, <2>6 DEF Passes, At, Sending
    <3> QED
      BY <3>1 DEF Kinds
  <2>7. CASE q # Idle
    BY <2>1, <2>2, <2>3, <2>5, <2>7 DEF UnusedMoves, Finds, Kinds
  <2> QED
    BY <2>6, <2>7
<1>27. ASSUME NEW r \in Req, NEW o \in Outcome, MarkMFARecoveryCodeUsed(r, o) PROVE Kinds
  <2>1. PICK q \in Request : req' = [req EXCEPT ![r] = q] /\ q.pc = "status" /\ q.late = FALSE
    <3>1. Authenticated(r)
      BY <1>27 DEF MarkMFARecoveryCodeUsed
    <3> QED
      BY <1>0, <3>1, DoneEffect
  <2>2. At(r, "mark")
    BY <1>27 DEF MarkMFARecoveryCodeUsed, Calls
  <2>3. UNCHANGED <<plan, now, age, totp, email, otp, challenge, issued, proved>>
    BY <1>27 DEF MarkMFARecoveryCodeUsed, clock, rows, redis, hist
  <2>4. MarkMoves(r)
    BY <1>0, <1>27, MarkEffect
  <2>5. Locals(q)
    BY <2>1 DEF Locals
  <2>6. Frame(r, q, Accepted(req[r].given))
    BY <1>0, <1>a, <1>g, <1>27, <2>1, <2>5, FrameCall DEF MarkMFARecoveryCodeUsed
  <2> QED
    BY <2>1, <2>2, <2>3, <2>4, <2>6 DEF Kinds, Marks
<1>28. ASSUME NEW r \in Req, NEW o \in Outcome, RecheckStatus(r, o) PROVE Kinds
  <2>1. PICK q \in Request : req' = [req EXCEPT ![r] = q] /\ Goes(r, q, "unchallenge")
    <3>1. Goto(r, "unchallenge") \/ Finish(r)
      BY <1>28 DEF RecheckStatus
    <3> QED
      BY <1>0, <3>1, GoesEffect DEF Pc
  <2>2. At(r, "status")
    BY <1>28 DEF RecheckStatus, Calls
  <2>3. UNCHANGED <<plan, now, age, totp, email, recovery, otp, challenge, issued, spent,
                    proved>>
    BY <1>28 DEF RecheckStatus, clock, rows, redis, hist
  <2>4. Locals(q)
    BY <1>0, <1>i, <2>1, <2>2 DEF ControlInv, Locals, At, Goes, Same
  <2>5. Frame(r, q, log)
    BY <1>0, <1>28, <2>1, <2>4, FrameCall DEF RecheckStatus
  <2>6. Passes(r, q)
    BY <1>0, <1>c, <1>i, <1>s, <2>1, <2>2, <2>3, <2>5 DEF Passes, Sending, At, Goes, Same
  <2> QED
    BY <2>6 DEF Kinds
<1>29. ASSUME NEW r \in Req, NEW o \in Outcome, DeleteTemporarySession(r, o) PROVE Kinds
  <2>1. req' = [req EXCEPT ![r] = Idle]
    BY <1>29 DEF DeleteTemporarySession, Finish
  <2>2. At(r, "unchallenge")
    BY <1>29 DEF DeleteTemporarySession, Calls
  <2>3. UNCHANGED <<plan, now, age, totp, email, recovery, otp, issued, spent, proved>>
    BY <1>29 DEF DeleteTemporarySession, clock, rows, redis, hist
  <2>4. challenge' = challenge \/ challenge' = [challenge EXCEPT ![req[r].ch] = "gone"]
    BY <1>29 DEF DeleteTemporarySession
  <2>5. Frame(r, Idle, log)
    BY <1>0, <1>i, <1>a, <1>g, <1>29, <2>1, FrameCall DEF DeleteTemporarySession
  <2>6. Passes(r, Idle)
    BY <1>0, <1>i, <2>2, <2>3, <2>4, <2>5 DEF Passes, At, Sending, TypeOK
  <2> QED
    BY <1>i, <2>6 DEF Kinds
<1>30. CASE Tick
  <2>1. Elapses
    BY <1>0, <1>30, MfaAssumption DEF Tick, Elapses, TypeOK, rows, redis, hist, clock
  <2> QED
    BY <2>1 DEF Kinds
<1>31. CASE RemoveUnverifiedMFAFactors
  <2>1. UNCHANGED <<plan, now, age, otp, challenge, req, issued, spent, proved, log>>
    BY <1>31 DEF RemoveUnverifiedMFAFactors, clock, redis, hist
  <2>2. RemoveMoves
    BY <1>0, <1>31, RemoveEffect
  <2> QED
    BY <2>1, <2>2 DEF Kinds, Removes
<1>32. ASSUME NEW h \in Challenge, IssueChallenge(h) PROVE Kinds
  <2>1. Elapses
    BY <1>0, <1>32, MfaAssumption DEF IssueChallenge, Elapses, TypeOK, rows, redis, hist, clock
  <2> QED
    BY <2>1 DEF Kinds
<1>33. ASSUME NEW h \in Challenge, ChallengeLapses(h) PROVE Kinds
  <2>1. Elapses
    BY <1>0, <1>33, MfaAssumption DEF ChallengeLapses, Elapses, TypeOK, rows, redis, hist, clock
  <2> QED
    BY <2>1 DEF Kinds
<1>34. ASSUME NEW c \in Code, CodeAges(c) PROVE Kinds
  <2>1. Elapses
    BY <1>0, <1>34, MfaAssumption DEF CodeAges, Elapses, TypeOK, rows, redis, hist, clock
  <2> QED
    BY <2>1 DEF Kinds
<1>35. CASE UNCHANGED vars
  <2>1. Elapses
    BY <1>0, <1>35 DEF vars, Elapses, TypeOK
  <2> QED
    BY <2>1 DEF Kinds
<1>36. ASSUME NEW r \in Req, NEW o \in Outcome, PreventMultipleTOTP(r, o) PROVE Kinds
  <2>1. PICK q \in Request : req' = [req EXCEPT ![r] = q] /\ Goes(r, q, "upsertTotp")
    <3>1. Goto(r, "upsertTotp") \/ Finish(r)
      BY <1>36 DEF PreventMultipleTOTP
    <3> QED
      BY <1>0, <3>1, GoesEffect DEF Pc
  <2>2. At(r, "trigger")
    BY <1>36 DEF PreventMultipleTOTP, Calls
  <2>3. UNCHANGED <<plan, now, age, totp, email, recovery, otp, challenge, issued, spent,
                    proved>>
    BY <1>36 DEF PreventMultipleTOTP, clock, rows, redis, hist
  <2>a. q.pc = "upsertTotp" => totp = NoTotp
    <3>1. req'[r].pc = q.pc
      BY <1>0, <2>1 DEF TypeOK
    <3>2. CASE totp # NoTotp
      BY <1>0, <1>i, <1>36, <3>1, <3>2 DEF PreventMultipleTOTP, TypeOK, Finish
    <3> QED
      BY <3>2
  <2>4. Locals(q)
    BY <1>0, <1>i, <2>1, <2>2 DEF ControlInv, Locals, At, Goes, Same
  <2>5. Frame(r, q, log)
    BY <1>0, <1>36, <2>1, <2>4, FrameCall DEF PreventMultipleTOTP
  <2>6. Passes(r, q)
    BY <1>0, <1>c, <1>i, <1>s, <2>1, <2>2, <2>3, <2>5, <2>a DEF Passes, Sending, At, Goes,
      Same
  <2> QED
    BY <2>6 DEF Kinds
<1>37. ASSUME NEW f \in Others, OtherAccountEnrolls(f) PROVE Kinds
  <2>1. UNCHANGED <<plan, now, age, totp, email, otp, challenge, req, spent, proved, log>>
    BY <1>37 DEF OtherAccountEnrolls, clock, redis
  <2>2. Renewed(f)
    BY <1>37 DEF OtherAccountEnrolls, IssueRecoveryCodes, FreshCodes, Renewed
  <2>3. PICK x \in Recovery \ issued : Renews(f, x)
    BY <1>0, <2>2, RenewEffect
  <2> QED
    BY <2>1, <2>3 DEF Kinds, Foreign
<1> QED
  BY <1>1, <1>2, <1>3, <1>4, <1>5, <1>6, <1>7, <1>8, <1>9, <1>10, <1>11, <1>12, <1>13,
     <1>14, <1>15, <1>16, <1>17, <1>18, <1>19, <1>20, <1>21, <1>22, <1>23, <1>24, <1>25,
     <1>26, <1>27, <1>28, <1>29, <1>30, <1>31, <1>32, <1>33, <1>34, <1>35,
     <1>36, <1>37
  DEF Next, Arrive, Step, Environment

\* What has a type is not what stands for its absence, and kinds of codes differ.
LEMMA Constants ==
    /\ "enroll" \in Purpose /\ "login" \in Purpose
    /\ \A m \in Meta : m # NoMeta /\ m.code \in Code /\ m.attempts \in Nat
    /\ \A c \in Code : [code |-> c, attempts |-> 0] \in Meta
    /\ \A t \in Totp : t # NoTotp /\ t.secret \in Secret /\ t.id \in Secret
    /\ \A e \in EmailFactor : e # NoEmail /\ e.id \in Code
    /\ ~NoTotp.on /\ NoTotp.secret = None /\ NoTotp.id = None
    /\ \A f \in Others : f \notin Secret /\ f \notin Code /\ f # None
    /\ ~NoEmail.on /\ NoEmail.id = None
    /\ NoMeta.code = None /\ NoRecovery.factor = None /\ ~NoRecovery.used
    /\ None \notin Secret /\ None \notin Code /\ None \notin Recovery
    /\ Secret \cap Code = {} /\ Secret \cap Recovery = {} /\ Code \cap Recovery = {}
<1>1. \A m \in Meta : m # NoMeta /\ m.code \in Code /\ m.attempts \in Nat
  BY MfaAssumption DEF Meta, NoMeta
<1>2. \A t \in Totp : t # NoTotp /\ t.secret \in Secret /\ t.id \in Secret
  BY MfaAssumption DEF Totp, NoTotp
<1>3. \A e \in EmailFactor : e # NoEmail /\ e.id \in Code
  BY MfaAssumption DEF EmailFactor, NoEmail
<1>4. \A c \in Code : [code |-> c, attempts |-> 0] \in Meta
  BY MfaAssumption DEF Meta
<1> QED
  BY <1>1, <1>2, <1>3, <1>4, MfaAssumption
  DEF Purpose, NoTotp, NoEmail, NoMeta, NoRecovery

\* Every step leaves a request where a slot holds one.
LEMMA RequestStep == IInv /\ [Next]_vars => req' \in [Req -> Request]
<1> SUFFICES ASSUME IInv, [Next]_vars PROVE req' \in [Req -> Request]
  OBVIOUS
<1>0. TypeOK
  BY DEF IInv
<1>i. Idle.pc = "idle" /\ Idle \in Request /\ Idle.late = FALSE
  BY IdleType
<1> USE DEF TypeOK
<1>1. ASSUME NEW r \in Req, NEW q \in Request, Passes(r, q)
      PROVE  req' \in [Req -> Request]
  BY <1>0, <1>i, <1>1 DEF Passes, Frame
<1>2. ASSUME NEW r \in Req, NEW q \in Request, Counts(r, q)
      PROVE  req' \in [Req -> Request]
  BY <1>0, <1>i, <1>2 DEF Counts, Frame, CountMoves, Same
<1>3. ASSUME NEW r \in Req, NEW q \in Request, Checks(r, q)
      PROVE  req' \in [Req -> Request]
  BY <1>0, <1>i, <1>3 DEF Checks, Frame, Same
<1>4. ASSUME NEW r \in Req, NEW q \in Request, Records(r, q)
      PROVE  req' \in [Req -> Request]
  BY <1>0, <1>i, <1>4 DEF Records, Frame, RecordMoves
<1>5. ASSUME NEW r \in Req, NEW q \in Request, Consumes(r, q)
      PROVE  req' \in [Req -> Request]
  BY <1>0, <1>i, <1>5 DEF Consumes, Frame
<1>6. ASSUME NEW r \in Req, NEW q \in Request, Finds(r, q) PROVE req' \in [Req -> Request]
  BY <1>0, <1>i, <1>6 DEF Finds, Frame, Same
<1>7. ASSUME NEW r \in Req, NEW q \in Request, Marks(r, q) PROVE req' \in [Req -> Request]
  BY <1>0, <1>i, <1>7 DEF Marks, Frame, MarkMoves
<1>8. ASSUME NEW r \in Req, NEW q \in Request, NEW g \in TotpCode, Proves(r, q, g)
      PROVE  req' \in [Req -> Request]
  BY <1>0, <1>i, <1>8 DEF Proves, Frame, ProveMoves
<1>9. ASSUME NEW r \in Req, NEW q \in Request, NEW x \in Recovery \ issued, Completes(r, q, x)
      PROVE  req' \in [Req -> Request]
  BY <1>0, <1>i, <1>9 DEF Completes, Frame, Same, Renews
<1>10. ASSUME NEW r \in Req, NEW q \in Request, NEW c \in Code, Saves(r, q, c)
      PROVE  req' \in [Req -> Request]
  BY <1>0, <1>i, <1>10 DEF Saves, Frame, Same
<1>11. ASSUME NEW r \in Req, NEW q \in Request, NEW p \in Purpose, Matches(r, q, p)
      PROVE  req' \in [Req -> Request]
  BY <1>0, <1>i, <1>11 DEF Matches, Frame, Same, Right
<1>12. ASSUME NEW r \in Req, NEW q \in Request, NEW p \in Purpose, Misses(r, q, p)
      PROVE  req' \in [Req -> Request]
  BY <1>0, <1>i, <1>12 DEF Misses, Frame, Same, Wrong
<1>13. ASSUME NEW r \in Req, DropsTotp(r) PROVE req' \in [Req -> Request]
  BY <1>0, <1>i, <1>13 DEF DropsTotp, Frame, DropMoves
<1>14. ASSUME NEW r \in Req, DropsEmail(r) PROVE req' \in [Req -> Request]
  BY <1>0, <1>i, <1>14 DEF DropsEmail, Frame, DropMoves
<1>15. ASSUME NEW r \in Req, Pends(r) PROVE req' \in [Req -> Request]
  BY <1>0, <1>i, <1>15 DEF Pends, Frame
<1>16. ASSUME NEW r \in Req, Deletes(r) PROVE req' \in [Req -> Request]
  BY <1>0, <1>i, <1>16 DEF Deletes, Frame
<1>17. ASSUME NEW r \in Req, NEW s \in Secret \ issued, Upserts(r, s)
      PROVE  req' \in [Req -> Request]
  BY <1>0, <1>i, <1>17 DEF Upserts, Inserts, Frame
<1>18. ASSUME NEW r \in Req, NEW x \in Recovery \ issued, Enables(r, x)
      PROVE  req' \in [Req -> Request]
  BY <1>0, <1>i, <1>18 DEF Enables, Frame, Renews
<1>19. CASE Removes
  BY <1>0, <1>i, <1>19 DEF Removes, RemoveMoves
<1>20. CASE Elapses
  BY <1>0, <1>i, <1>20 DEF Elapses
<1>21. ASSUME NEW f \in Others, NEW x \in Recovery \ issued, Foreign(f, x)
      PROVE  req' \in [Req -> Request]
  BY <1>0, <1>i, <1>21 DEF Foreign, Renews
<1> QED
  BY Steps, <1>1, <1>2, <1>3, <1>4, <1>5, <1>6, <1>7, <1>8, <1>9, <1>10, <1>11, <1>12,
     <1>13, <1>14, <1>15, <1>16, <1>17, <1>18, <1>19, <1>20,
     <1>21
  DEF Kinds

\* Every step leaves a request with the locals its next call needs.
LEMMA ControlStep == IInv /\ [Next]_vars => ControlInv'
<1> SUFFICES ASSUME IInv, [Next]_vars PROVE ControlInv'
  OBVIOUS
<1>0. TypeOK /\ ControlInv
  BY DEF IInv
<1>i. Idle.pc = "idle" /\ Idle \in Request /\ Idle.late = FALSE
  BY IdleType
<1> USE DEF TypeOK, ControlInv
<1>1. ASSUME NEW r \in Req, NEW q \in Request, Passes(r, q) PROVE ControlInv'
  BY <1>0, <1>i, <1>1 DEF Passes, Frame
<1>2. ASSUME NEW r \in Req, NEW q \in Request, Counts(r, q) PROVE ControlInv'
  BY <1>0, <1>i, <1>2 DEF Counts, Frame, CountMoves, Same
<1>3. ASSUME NEW r \in Req, NEW q \in Request, Checks(r, q) PROVE ControlInv'
  BY <1>0, <1>i, <1>3 DEF Checks, Frame, Same
<1>4. ASSUME NEW r \in Req, NEW q \in Request, Records(r, q) PROVE ControlInv'
  BY <1>0, <1>i, <1>4 DEF Records, Frame, RecordMoves
<1>5. ASSUME NEW r \in Req, NEW q \in Request, Consumes(r, q) PROVE ControlInv'
  BY <1>0, <1>i, <1>5 DEF Consumes, Frame
<1>6. ASSUME NEW r \in Req, NEW q \in Request, Finds(r, q) PROVE ControlInv'
  BY <1>0, <1>i, <1>6 DEF Finds, Frame, Same
<1>7. ASSUME NEW r \in Req, NEW q \in Request, Marks(r, q) PROVE ControlInv'
  BY <1>0, <1>i, <1>7 DEF Marks, Frame, MarkMoves
<1>8. ASSUME NEW r \in Req, NEW q \in Request, NEW g \in TotpCode, Proves(r, q, g)
      PROVE  ControlInv'
  BY <1>0, <1>i, <1>8 DEF Proves, Frame, ProveMoves
<1>9. ASSUME NEW r \in Req, NEW q \in Request, NEW x \in Recovery \ issued, Completes(r, q, x)
      PROVE  ControlInv'
  BY <1>0, <1>i, <1>9 DEF Completes, Frame, Same, Renews
<1>10. ASSUME NEW r \in Req, NEW q \in Request, NEW c \in Code, Saves(r, q, c)
      PROVE  ControlInv'
  BY <1>0, <1>i, <1>10 DEF Saves, Frame, Same
<1>11. ASSUME NEW r \in Req, NEW q \in Request, NEW p \in Purpose, Matches(r, q, p)
      PROVE  ControlInv'
  BY <1>0, <1>i, <1>11 DEF Matches, Frame, Same, Right
<1>12. ASSUME NEW r \in Req, NEW q \in Request, NEW p \in Purpose, Misses(r, q, p)
      PROVE  ControlInv'
  BY <1>0, <1>i, <1>12 DEF Misses, Frame, Same, Wrong
<1>13. ASSUME NEW r \in Req, DropsTotp(r) PROVE ControlInv'
  BY <1>0, <1>i, <1>13 DEF DropsTotp, Frame, DropMoves
<1>14. ASSUME NEW r \in Req, DropsEmail(r) PROVE ControlInv'
  BY <1>0, <1>i, <1>14 DEF DropsEmail, Frame, DropMoves
<1>15. ASSUME NEW r \in Req, Pends(r) PROVE ControlInv'
  BY <1>0, <1>i, <1>15 DEF Pends, Frame
<1>16. ASSUME NEW r \in Req, Deletes(r) PROVE ControlInv'
  BY <1>0, <1>i, <1>16 DEF Deletes, Frame
<1>17. ASSUME NEW r \in Req, NEW s \in Secret \ issued, Upserts(r, s) PROVE ControlInv'
  BY <1>0, <1>i, <1>17 DEF Upserts, Inserts, Frame
<1>18. ASSUME NEW r \in Req, NEW x \in Recovery \ issued, Enables(r, x) PROVE ControlInv'
  BY <1>0, <1>i, <1>18 DEF Enables, Frame, Renews
<1>19. CASE Removes
  BY <1>0, <1>i, <1>19 DEF Removes, RemoveMoves
<1>20. CASE Elapses
  BY <1>0, <1>i, <1>20 DEF Elapses
<1>21. ASSUME NEW f \in Others, NEW x \in Recovery \ issued, Foreign(f, x)
      PROVE  ControlInv'
  BY <1>0, <1>i, <1>21 DEF Foreign, Renews
<1> QED
  BY Steps, <1>1, <1>2, <1>3, <1>4, <1>5, <1>6, <1>7, <1>8, <1>9, <1>10, <1>11, <1>12,
     <1>13, <1>14, <1>15, <1>16, <1>17, <1>18, <1>19, <1>20,
     <1>21
  DEF Kinds

\* Every step keeps the history within its type.
LEMMA LogStep == IInv /\ [Next]_vars => log' \in Log
<1> SUFFICES ASSUME IInv, [Next]_vars PROVE log' \in Log
  OBVIOUS
<1>0. TypeOK
  BY DEF IInv
<1>l. /\ Blank(FALSE) \in Log /\ log \in Log
      /\ \A c \in Code : Guessed(c) \in Log
      /\ \A g \in Given : Accepted(g) \in Log
  BY <1>0, LogTypes DEF TypeOK
<1>g. \A r \in Req : req[r].given \in Given
  BY <1>0 DEF TypeOK, Request
<1>1. ASSUME NEW r \in Req, NEW q \in Request, Passes(r, q) PROVE log' \in Log
  BY <1>l, <1>g, <1>1 DEF Passes, Frame
<1>2. ASSUME NEW r \in Req, NEW q \in Request, Counts(r, q) PROVE log' \in Log
  BY <1>l, <1>g, <1>2 DEF Counts, Frame, CountMoves, Same
<1>3. ASSUME NEW r \in Req, NEW q \in Request, Checks(r, q) PROVE log' \in Log
  BY <1>l, <1>g, <1>3 DEF Checks, Frame, Same
<1>4. ASSUME NEW r \in Req, NEW q \in Request, Records(r, q) PROVE log' \in Log
  BY <1>l, <1>g, <1>4 DEF Records, Frame, RecordMoves
<1>5. ASSUME NEW r \in Req, NEW q \in Request, Consumes(r, q) PROVE log' \in Log
  BY <1>l, <1>g, <1>5 DEF Consumes, Frame
<1>6. ASSUME NEW r \in Req, NEW q \in Request, Finds(r, q) PROVE log' \in Log
  BY <1>l, <1>g, <1>6 DEF Finds, Frame, Same
<1>7. ASSUME NEW r \in Req, NEW q \in Request, Marks(r, q) PROVE log' \in Log
  BY <1>l, <1>g, <1>7 DEF Marks, Frame, MarkMoves
<1>8. ASSUME NEW r \in Req, NEW q \in Request, NEW g \in TotpCode, Proves(r, q, g)
      PROVE  log' \in Log
  BY <1>l, <1>g, <1>8 DEF Proves, Frame, ProveMoves
<1>9. ASSUME NEW r \in Req, NEW q \in Request, NEW x \in Recovery \ issued, Completes(r, q, x)
      PROVE  log' \in Log
  BY <1>l, <1>g, <1>9 DEF Completes, Frame, Same, Renews
<1>10. ASSUME NEW r \in Req, NEW q \in Request, NEW c \in Code, Saves(r, q, c)
      PROVE  log' \in Log
  BY <1>l, <1>g, <1>10 DEF Saves, Frame, Same
<1>11. ASSUME NEW r \in Req, NEW q \in Request, NEW p \in Purpose, Matches(r, q, p)
      PROVE  log' \in Log
  BY <1>l, <1>g, <1>11 DEF Matches, Frame, Same, Right
<1>12. ASSUME NEW r \in Req, NEW q \in Request, NEW p \in Purpose, Misses(r, q, p)
      PROVE  log' \in Log
  BY <1>l, <1>g, <1>12 DEF Misses, Frame, Same, Wrong, Meta
<1>13. ASSUME NEW r \in Req, DropsTotp(r) PROVE log' \in Log
  BY <1>l, <1>g, <1>13 DEF DropsTotp, Frame, DropMoves
<1>14. ASSUME NEW r \in Req, DropsEmail(r) PROVE log' \in Log
  BY <1>l, <1>g, <1>14 DEF DropsEmail, Frame, DropMoves
<1>15. ASSUME NEW r \in Req, Pends(r) PROVE log' \in Log
  BY <1>l, <1>g, <1>15 DEF Pends, Frame
<1>16. ASSUME NEW r \in Req, Deletes(r) PROVE log' \in Log
  BY <1>l, <1>g, <1>16 DEF Deletes, Frame
<1>17. ASSUME NEW r \in Req, NEW s \in Secret \ issued, Upserts(r, s) PROVE log' \in Log
  BY <1>l, <1>g, <1>17 DEF Upserts, Inserts, Frame
<1>18. ASSUME NEW r \in Req, NEW x \in Recovery \ issued, Enables(r, x) PROVE log' \in Log
  BY <1>l, <1>g, <1>18 DEF Enables, Frame, Renews
<1>19. CASE Removes
  BY <1>l, <1>g, <1>19 DEF Removes, RemoveMoves
<1>20. CASE Elapses
  BY <1>l, <1>g, <1>20 DEF Elapses
<1>21. ASSUME NEW f \in Others, NEW x \in Recovery \ issued, Foreign(f, x)
      PROVE  log' \in Log
  BY <1>l, <1>g, <1>21 DEF Foreign, Renews
<1> QED
  BY Steps, <1>1, <1>2, <1>3, <1>4, <1>5, <1>6, <1>7, <1>8, <1>9, <1>10, <1>11, <1>12,
     <1>13, <1>14, <1>15, <1>16, <1>17, <1>18, <1>19, <1>20,
     <1>21
  DEF Kinds

\* A history is quiet only while requests do not overlap.
LEMMA LoneStep == IInv /\ [Next]_vars => LoneInv'
<1> SUFFICES ASSUME IInv, [Next]_vars PROVE LoneInv'
  OBVIOUS
<1>0. TypeOK /\ LoneInv
  BY DEF IInv
<1>b. ~Blank(FALSE).quiet
  BY DEF Blank
<1> USE DEF TypeOK, LoneInv
<1>1. ASSUME NEW r \in Req, NEW q \in Request, Passes(r, q) PROVE LoneInv'
  BY <1>0, <1>b, <1>1 DEF Passes, Frame
<1>2. ASSUME NEW r \in Req, NEW q \in Request, Counts(r, q) PROVE LoneInv'
  BY <1>0, <1>b, <1>2 DEF Counts, Frame, CountMoves, Same
<1>3. ASSUME NEW r \in Req, NEW q \in Request, Checks(r, q) PROVE LoneInv'
  BY <1>0, <1>b, <1>3 DEF Checks, Frame, Same
<1>4. ASSUME NEW r \in Req, NEW q \in Request, Records(r, q) PROVE LoneInv'
  BY <1>0, <1>b, <1>4 DEF Records, Frame, RecordMoves
<1>5. ASSUME NEW r \in Req, NEW q \in Request, Consumes(r, q) PROVE LoneInv'
  BY <1>0, <1>b, <1>5 DEF Consumes, Frame
<1>6. ASSUME NEW r \in Req, NEW q \in Request, Finds(r, q) PROVE LoneInv'
  BY <1>0, <1>b, <1>6 DEF Finds, Frame, Same
<1>7. ASSUME NEW r \in Req, NEW q \in Request, Marks(r, q) PROVE LoneInv'
  BY <1>0, <1>b, <1>7 DEF Marks, Frame, MarkMoves
<1>8. ASSUME NEW r \in Req, NEW q \in Request, NEW g \in TotpCode, Proves(r, q, g)
      PROVE  LoneInv'
  BY <1>0, <1>b, <1>8 DEF Proves, Frame
<1>9. ASSUME NEW r \in Req, NEW q \in Request, NEW x \in Recovery \ issued, Completes(r, q, x)
      PROVE  LoneInv'
  BY <1>0, <1>b, <1>9 DEF Completes, Frame, Same, Renews
<1>10. ASSUME NEW r \in Req, NEW q \in Request, NEW c \in Code, Saves(r, q, c)
      PROVE  LoneInv'
  BY <1>0, <1>b, <1>10 DEF Saves, Frame, Same
<1>11. ASSUME NEW r \in Req, NEW q \in Request, NEW p \in Purpose, Matches(r, q, p)
      PROVE  LoneInv'
  BY <1>0, <1>b, <1>11 DEF Matches, Frame, Same, Right
<1>12. ASSUME NEW r \in Req, NEW q \in Request, NEW p \in Purpose, Misses(r, q, p)
      PROVE  LoneInv'
  BY <1>0, <1>b, <1>12 DEF Misses, Frame, Same, Wrong
<1>13. ASSUME NEW r \in Req, DropsTotp(r) PROVE LoneInv'
  BY <1>0, <1>b, <1>13 DEF DropsTotp, Frame, DropMoves
<1>14. ASSUME NEW r \in Req, DropsEmail(r) PROVE LoneInv'
  BY <1>0, <1>b, <1>14 DEF DropsEmail, Frame, DropMoves
<1>15. ASSUME NEW r \in Req, Pends(r) PROVE LoneInv'
  BY <1>0, <1>b, <1>15 DEF Pends, Frame
<1>16. ASSUME NEW r \in Req, Deletes(r) PROVE LoneInv'
  BY <1>0, <1>b, <1>16 DEF Deletes, Frame
<1>17. ASSUME NEW r \in Req, NEW s \in Secret \ issued, Upserts(r, s) PROVE LoneInv'
  BY <1>0, <1>b, <1>17 DEF Upserts, Inserts, Frame
<1>18. ASSUME NEW r \in Req, NEW x \in Recovery \ issued, Enables(r, x) PROVE LoneInv'
  BY <1>0, <1>b, <1>18 DEF Enables, Frame, Renews
<1>19. CASE Removes
  BY <1>0, <1>b, <1>19 DEF Removes, RemoveMoves
<1>20. CASE Elapses
  BY <1>0, <1>b, <1>20 DEF Elapses
<1>21. ASSUME NEW f \in Others, NEW x \in Recovery \ issued, Foreign(f, x)
      PROVE  LoneInv'
  BY <1>0, <1>b, <1>21 DEF Foreign, Renews
<1> QED
  BY Steps, <1>1, <1>2, <1>3, <1>4, <1>5, <1>6, <1>7, <1>8, <1>9, <1>10, <1>11, <1>12,
     <1>13, <1>14, <1>15, <1>16, <1>17, <1>18, <1>19, <1>20,
     <1>21
  DEF Kinds

\* Every step keeps the stores and the other histories within their types.
LEMMA StoresStep == IInv /\ [Next]_vars => StoresOK'
<1> SUFFICES ASSUME IInv, [Next]_vars PROVE StoresOK'
  OBVIOUS
<1>0. TypeOK /\ ControlInv
  BY DEF IInv
<1>s. StoresOK
  BY <1>0 DEF TypeOK, StoresOK
<1>m. \A r \in Req : At(r, "mark") => req[r].given.of \in Recovery
  BY <1>0 DEF ControlInv, Locals, At
<1> USE DEF StoresOK
<1>1. ASSUME NEW r \in Req, NEW q \in Request, Passes(r, q) PROVE StoresOK'
  BY <1>0, <1>s, Constants, <1>1 DEF Passes
<1>2. ASSUME NEW r \in Req, NEW q \in Request, Counts(r, q) PROVE StoresOK'
  BY <1>0, <1>s, Constants, <1>2 DEF Counts, CountMoves, Same
<1>3. ASSUME NEW r \in Req, NEW q \in Request, Checks(r, q) PROVE StoresOK'
  BY <1>0, <1>s, Constants, <1>3 DEF Checks, Same
<1>4. ASSUME NEW r \in Req, NEW q \in Request, Records(r, q) PROVE StoresOK'
  BY <1>0, <1>s, Constants, <1>4 DEF Records, RecordMoves
<1>5. ASSUME NEW r \in Req, NEW q \in Request, Consumes(r, q) PROVE StoresOK'
  BY <1>0, <1>s, Constants, <1>5 DEF Consumes
<1>6. ASSUME NEW r \in Req, NEW q \in Request, Finds(r, q) PROVE StoresOK'
  BY <1>0, <1>s, Constants, <1>6 DEF Finds, Same
<1>7. ASSUME NEW r \in Req, NEW q \in Request, Marks(r, q) PROVE StoresOK'
  BY <1>0, <1>s, <1>m, <1>7 DEF Marks, MarkMoves, Rows
<1>8. ASSUME NEW r \in Req, NEW q \in Request, NEW g \in TotpCode, Proves(r, q, g)
      PROVE  StoresOK'
  BY <1>0, <1>s, Constants, <1>8 DEF Proves, ProveMoves
<1>9. ASSUME NEW r \in Req, NEW q \in Request, NEW x \in Recovery \ issued, Completes(r, q, x)
      PROVE  StoresOK'
  BY <1>0, <1>s, Constants, <1>9 DEF Completes, Same, Renews, Rows
<1>10. ASSUME NEW r \in Req, NEW q \in Request, NEW c \in Code, Saves(r, q, c)
      PROVE  StoresOK'
  BY <1>0, <1>s, Constants, <1>10 DEF Saves, Same
<1>11. ASSUME NEW r \in Req, NEW q \in Request, NEW p \in Purpose, Matches(r, q, p)
      PROVE  StoresOK'
  BY <1>0, <1>s, Constants, <1>11 DEF Matches, Same, Right
<1>12. ASSUME NEW r \in Req, NEW q \in Request, NEW p \in Purpose, Misses(r, q, p)
      PROVE  StoresOK'
  BY <1>0, <1>s, Constants, <1>12 DEF Misses, Same, Wrong
<1>13. ASSUME NEW r \in Req, DropsTotp(r) PROVE StoresOK'
  BY <1>0, <1>s, Constants, <1>13 DEF DropsTotp, DropMoves, Rows
<1>14. ASSUME NEW r \in Req, DropsEmail(r) PROVE StoresOK'
  BY <1>0, <1>s, Constants, <1>14 DEF DropsEmail, DropMoves, Rows
<1>15. ASSUME NEW r \in Req, Pends(r) PROVE StoresOK'
  BY <1>0, <1>s, Constants, <1>15 DEF Pends
<1>16. ASSUME NEW r \in Req, Deletes(r) PROVE StoresOK'
  BY <1>0, <1>s, Constants, <1>16 DEF Deletes
<1>17. ASSUME NEW r \in Req, NEW s \in Secret \ issued, Upserts(r, s) PROVE StoresOK'
  BY <1>0, <1>s, Constants, <1>17 DEF Upserts, Inserts
<1>18. ASSUME NEW r \in Req, NEW x \in Recovery \ issued, Enables(r, x) PROVE StoresOK'
  BY <1>0, <1>s, Constants, <1>18 DEF Enables, Renews, Rows
<1>19. CASE Removes
  BY <1>0, <1>s, Constants, <1>19 DEF Removes, RemoveMoves, Rows
<1>20. CASE Elapses
  BY <1>0, <1>s, Constants, <1>20 DEF Elapses
<1>21. ASSUME NEW f \in Others, NEW x \in Recovery \ issued, Foreign(f, x)
      PROVE  StoresOK'
  BY <1>0, <1>s, Constants, <1>21 DEF Foreign, Renews, Rows
<1> QED
  BY Steps, <1>1, <1>2, <1>3, <1>4, <1>5, <1>6, <1>7, <1>8, <1>9, <1>10, <1>11, <1>12,
     <1>13, <1>14, <1>15, <1>16, <1>17, <1>18, <1>19, <1>20,
     <1>21
  DEF Kinds

\* Every step keeps the types.
LEMMA TypeStep == IInv /\ [Next]_vars => TypeOK'
<1> SUFFICES ASSUME IInv, [Next]_vars PROVE TypeOK'
  OBVIOUS
<1>1. StoresOK' /\ req' \in [Req -> Request] /\ log' \in Log
  BY StoresStep, RequestStep, LogStep
<1> QED
  BY <1>1 DEF TypeOK, StoresOK

\* No code is stored or counted before it is made.
LEMMA CodeStep == IInv /\ [Next]_vars => CodeInv'
<1> SUFFICES ASSUME IInv, [Next]_vars PROVE CodeInv'
  OBVIOUS
<1>0. TypeOK /\ ControlInv /\ CodeInv
  BY DEF IInv
<1>i. Idle.pc = "idle" /\ Idle \in Request /\ Idle.late = FALSE
  BY IdleType
<1>o. \A p \in Purpose : otp[p] # NoMeta => otp[p].code \in Code
  BY <1>0, Constants DEF TypeOK
<1>m. \A r \in Req : At(r, "bump") => req[r].meta.code \in Code
  BY <1>0, Constants DEF ControlInv, Locals, At
<1> USE DEF TypeOK, CodeInv, At
<1>1. ASSUME NEW r \in Req, NEW q \in Request, Passes(r, q) PROVE CodeInv'
  BY <1>0, <1>i, Constants, <1>1 DEF Passes, Frame
<1>2. ASSUME NEW r \in Req, NEW q \in Request, Counts(r, q) PROVE CodeInv'
  BY <1>0, <1>i, Constants, <1>2 DEF Counts, Frame, CountMoves, Same
<1>3. ASSUME NEW r \in Req, NEW q \in Request, Checks(r, q) PROVE CodeInv'
  BY <1>0, <1>i, Constants, <1>3 DEF Checks, Frame, Same
<1>4. ASSUME NEW r \in Req, NEW q \in Request, Records(r, q) PROVE CodeInv'
  BY <1>0, <1>i, Constants, <1>4 DEF Records, Frame, RecordMoves
<1>5. ASSUME NEW r \in Req, NEW q \in Request, Consumes(r, q) PROVE CodeInv'
  BY <1>0, <1>i, Constants, <1>5 DEF Consumes, Frame
<1>6. ASSUME NEW r \in Req, NEW q \in Request, Finds(r, q) PROVE CodeInv'
  BY <1>0, <1>i, Constants, <1>6 DEF Finds, Frame, Same
<1>7. ASSUME NEW r \in Req, NEW q \in Request, Marks(r, q) PROVE CodeInv'
  BY <1>0, <1>i, Constants, <1>7 DEF Marks, Frame, MarkMoves
<1>8. ASSUME NEW r \in Req, NEW q \in Request, NEW g \in TotpCode, Proves(r, q, g)
      PROVE  CodeInv'
  BY <1>0, <1>i, Constants, <1>8 DEF Proves, Frame, ProveMoves
<1>9. ASSUME NEW r \in Req, NEW q \in Request, NEW x \in Recovery \ issued, Completes(r, q, x)
      PROVE  CodeInv'
  BY <1>0, <1>i, Constants, <1>9 DEF Completes, Frame, Same, Renews
<1>10. ASSUME NEW r \in Req, NEW q \in Request, NEW c \in Code, Saves(r, q, c)
      PROVE  CodeInv'
  BY <1>0, <1>i, Constants, <1>10 DEF Saves, Frame, Same
<1>11. ASSUME NEW r \in Req, NEW q \in Request, NEW p \in Purpose, Matches(r, q, p)
      PROVE  CodeInv'
  BY <1>0, <1>i, Constants, <1>11 DEF Matches, Frame, Same, Right
<1>12. ASSUME NEW r \in Req, NEW q \in Request, NEW p \in Purpose, Misses(r, q, p)
      PROVE  CodeInv'
  BY <1>0, <1>i, Constants, <1>12 DEF Misses, Frame, Same, Wrong
<1>13. ASSUME NEW r \in Req, DropsTotp(r) PROVE CodeInv'
  BY <1>0, <1>i, Constants, <1>13 DEF DropsTotp, Frame, DropMoves
<1>14. ASSUME NEW r \in Req, DropsEmail(r) PROVE CodeInv'
  BY <1>0, <1>i, Constants, <1>14 DEF DropsEmail, Frame, DropMoves
<1>15. ASSUME NEW r \in Req, Pends(r) PROVE CodeInv'
  BY <1>0, <1>i, Constants, <1>15 DEF Pends, Frame
<1>16. ASSUME NEW r \in Req, Deletes(r) PROVE CodeInv'
  BY <1>0, <1>i, Constants, <1>16 DEF Deletes, Frame
<1>17. ASSUME NEW r \in Req, NEW s \in Secret \ issued, Upserts(r, s) PROVE CodeInv'
  BY <1>0, <1>i, Constants, <1>17 DEF Upserts, Inserts, Frame
<1>18. ASSUME NEW r \in Req, NEW x \in Recovery \ issued, Enables(r, x) PROVE CodeInv'
  BY <1>0, <1>i, Constants, <1>18 DEF Enables, Frame, Renews
<1>19. CASE Removes
  BY <1>0, <1>i, Constants, <1>19 DEF Removes, RemoveMoves
<1>20. CASE Elapses
  BY <1>0, <1>o, <1>m, <1>20 DEF Elapses
<1>21. ASSUME NEW f \in Others, NEW x \in Recovery \ issued, Foreign(f, x)
      PROVE  CodeInv'
  BY <1>0, <1>i, Constants, <1>21 DEF Foreign, Renews
<1> QED
  BY Steps, <1>1, <1>2, <1>3, <1>4, <1>5, <1>6, <1>7, <1>8, <1>9, <1>10, <1>11, <1>12,
     <1>13, <1>14, <1>15, <1>16, <1>17, <1>18, <1>19, <1>20,
     <1>21
  DEF Kinds

\* What is stored was generated.
LEMMA IssueStep == IInv /\ [Next]_vars => IssueInv'
<1> SUFFICES ASSUME IInv, [Next]_vars PROVE IssueInv'
  OBVIOUS
<1>0. TypeOK /\ ControlInv /\ IssueInv
  BY DEF IInv
<1>i. Idle.pc = "idle" /\ Idle \in Request /\ Idle.late = FALSE
  BY IdleType
<1>w. \A r \in Req : req[r].pc \in {"completeTotp", "record"} =>
        /\ req[r].row.secret \in Secret /\ req[r].row.id \in Secret
        /\ req[r].row.secret \in issued /\ req[r].row.id \in issued
  BY <1>0, Constants DEF ControlInv, Locals, IssueInv
<1> USE DEF TypeOK, IssueInv, At
<1>1. ASSUME NEW r \in Req, NEW q \in Request, Passes(r, q) PROVE IssueInv'
  BY <1>0, <1>i, Constants, <1>1 DEF Passes, Frame
<1>2. ASSUME NEW r \in Req, NEW q \in Request, Counts(r, q) PROVE IssueInv'
  BY <1>0, <1>i, Constants, <1>2 DEF Counts, Frame, CountMoves, Same
<1>3. ASSUME NEW r \in Req, NEW q \in Request, Checks(r, q) PROVE IssueInv'
  BY <1>0, <1>i, <1>w, Constants, <1>3 DEF Checks, Frame, Same
<1>4. ASSUME NEW r \in Req, NEW q \in Request, Records(r, q) PROVE IssueInv'
  BY <1>0, <1>i, <1>w, Constants, <1>4 DEF Records, Frame, RecordMoves
<1>5. ASSUME NEW r \in Req, NEW q \in Request, Consumes(r, q) PROVE IssueInv'
  BY <1>0, <1>i, Constants, <1>5 DEF Consumes, Frame
<1>6. ASSUME NEW r \in Req, NEW q \in Request, Finds(r, q) PROVE IssueInv'
  BY <1>0, <1>i, Constants, <1>6 DEF Finds, Frame, Same
<1>7. ASSUME NEW r \in Req, NEW q \in Request, Marks(r, q) PROVE IssueInv'
  BY <1>0, <1>i, Constants, <1>7 DEF Marks, Frame, MarkMoves
<1>8. ASSUME NEW r \in Req, NEW q \in Request, NEW g \in TotpCode, Proves(r, q, g)
      PROVE  IssueInv'
  BY <1>0, <1>i, <1>w, Constants, <1>8 DEF Proves, Frame, ProveMoves
<1>9. ASSUME NEW r \in Req, NEW q \in Request, NEW x \in Recovery \ issued, Completes(r, q, x)
      PROVE  IssueInv'
  BY <1>0, <1>i, Constants, <1>9 DEF Completes, Frame, Same, Renews
<1>10. ASSUME NEW r \in Req, NEW q \in Request, NEW c \in Code, Saves(r, q, c)
      PROVE  IssueInv'
  BY <1>0, <1>i, Constants, <1>10 DEF Saves, Frame, Same
<1>11. ASSUME NEW r \in Req, NEW q \in Request, NEW p \in Purpose, Matches(r, q, p)
      PROVE  IssueInv'
  BY <1>0, <1>i, Constants, <1>11 DEF Matches, Frame, Same, Right
<1>12. ASSUME NEW r \in Req, NEW q \in Request, NEW p \in Purpose, Misses(r, q, p)
      PROVE  IssueInv'
  BY <1>0, <1>i, Constants, <1>12 DEF Misses, Frame, Same, Wrong
<1>13. ASSUME NEW r \in Req, DropsTotp(r) PROVE IssueInv'
  BY <1>0, <1>i, <1>w, Constants, <1>13 DEF DropsTotp, Frame, DropMoves
<1>14. ASSUME NEW r \in Req, DropsEmail(r) PROVE IssueInv'
  BY <1>0, <1>i, Constants, <1>14 DEF DropsEmail, Frame, DropMoves
<1>15. ASSUME NEW r \in Req, Pends(r) PROVE IssueInv'
  BY <1>0, <1>i, Constants, <1>15 DEF Pends, Frame
<1>16. ASSUME NEW r \in Req, Deletes(r) PROVE IssueInv'
  BY <1>0, <1>i, Constants, <1>16 DEF Deletes, Frame
<1>17. ASSUME NEW r \in Req, NEW s \in Secret \ issued, Upserts(r, s) PROVE IssueInv'
  BY <1>0, <1>i, <1>w, Constants, <1>17 DEF Upserts, Inserts, Frame
<1>18. ASSUME NEW r \in Req, NEW x \in Recovery \ issued, Enables(r, x) PROVE IssueInv'
  BY <1>0, <1>i, <1>w, Constants, <1>18 DEF Enables, Frame, Renews
<1>19. CASE Removes
  BY <1>0, <1>i, <1>w, Constants, <1>19 DEF Removes, RemoveMoves
<1>20. CASE Elapses
  BY <1>0, <1>i, Constants, <1>20 DEF Elapses
<1>21. ASSUME NEW f \in Others, NEW x \in Recovery \ issued, Foreign(f, x)
      PROVE  IssueInv'
  BY <1>0, <1>i, Constants, <1>21 DEF Foreign, Renews
<1> QED
  BY Steps, <1>1, <1>2, <1>3, <1>4, <1>5, <1>6, <1>7, <1>8, <1>9, <1>10, <1>11, <1>12,
     <1>13, <1>14, <1>15, <1>16, <1>17, <1>18, <1>19, <1>20,
     <1>21
  DEF Kinds

\* Only a proved secret is on its way to be enabled, or is.
LEMMA ProofStep == IInv /\ [Next]_vars => ProofInv' /\ SecretProved'
<1> SUFFICES ASSUME IInv, [Next]_vars PROVE ProofInv' /\ SecretProved'
  OBVIOUS
<1>0. TypeOK /\ ControlInv /\ IssueInv /\ ProofInv /\ SecretProved
  BY DEF IInv
<1>i. Idle.pc = "idle" /\ Idle \in Request /\ Idle.late = FALSE
  BY IdleType
<1>w. \A r \in Req : req[r].pc \in {"completeTotp", "record"} =>
        /\ req[r].row.secret \in Secret /\ req[r].row.id \in Secret
        /\ req[r].row.secret \in issued /\ req[r].row.id \in issued
  BY <1>0, Constants DEF ControlInv, Locals, IssueInv
<1>n. totp # NoTotp => totp.secret \in issued /\ totp.id \in issued
  BY <1>0 DEF IssueInv
<1> USE DEF TypeOK, ProofInv, SecretProved, At
<1>1. ASSUME NEW r \in Req, NEW q \in Request, Passes(r, q)
      PROVE  ProofInv' /\ SecretProved'
  BY <1>0, <1>i, Constants, <1>1 DEF Passes, Frame
<1>2. ASSUME NEW r \in Req, NEW q \in Request, Counts(r, q)
      PROVE  ProofInv' /\ SecretProved'
  BY <1>0, <1>i, Constants, <1>2 DEF Counts, Frame, CountMoves, Same
<1>3. ASSUME NEW r \in Req, NEW q \in Request, Checks(r, q)
      PROVE  ProofInv' /\ SecretProved'
  BY <1>0, <1>i, <1>w, <1>n, Constants, <1>3 DEF Checks, Frame, Same
<1>4. ASSUME NEW r \in Req, NEW q \in Request, Records(r, q)
      PROVE  ProofInv' /\ SecretProved'
  BY <1>0, <1>i, <1>w, <1>n, Constants, <1>4 DEF Records, Frame, RecordMoves
<1>5. ASSUME NEW r \in Req, NEW q \in Request, Consumes(r, q)
      PROVE  ProofInv' /\ SecretProved'
  BY <1>0, <1>i, Constants, <1>5 DEF Consumes, Frame
<1>6. ASSUME NEW r \in Req, NEW q \in Request, Finds(r, q)
      PROVE  ProofInv' /\ SecretProved'
  BY <1>0, <1>i, Constants, <1>6 DEF Finds, Frame, Same
<1>7. ASSUME NEW r \in Req, NEW q \in Request, Marks(r, q)
      PROVE  ProofInv' /\ SecretProved'
  BY <1>0, <1>i, Constants, <1>7 DEF Marks, Frame, MarkMoves
<1>8. ASSUME NEW r \in Req, NEW q \in Request, NEW g \in TotpCode, Proves(r, q, g)
      PROVE  ProofInv' /\ SecretProved'
  BY <1>0, <1>i, <1>w, <1>n, Constants, <1>8 DEF Proves, Frame, ProveMoves
<1>9. ASSUME NEW r \in Req, NEW q \in Request, NEW x \in Recovery \ issued, Completes(r, q, x)
      PROVE  ProofInv' /\ SecretProved'
  BY <1>0, <1>i, Constants, <1>9 DEF Completes, Frame, Same, Renews
<1>10. ASSUME NEW r \in Req, NEW q \in Request, NEW c \in Code, Saves(r, q, c)
      PROVE  ProofInv' /\ SecretProved'
  BY <1>0, <1>i, Constants, <1>10 DEF Saves, Frame, Same
<1>11. ASSUME NEW r \in Req, NEW q \in Request, NEW p \in Purpose, Matches(r, q, p)
      PROVE  ProofInv' /\ SecretProved'
  BY <1>0, <1>i, Constants, <1>11 DEF Matches, Frame, Same, Right
<1>12. ASSUME NEW r \in Req, NEW q \in Request, NEW p \in Purpose, Misses(r, q, p)
      PROVE  ProofInv' /\ SecretProved'
  BY <1>0, <1>i, Constants, <1>12 DEF Misses, Frame, Same, Wrong
<1>13. ASSUME NEW r \in Req, DropsTotp(r) PROVE ProofInv' /\ SecretProved'
  BY <1>0, <1>i, <1>w, <1>n, Constants, <1>13 DEF DropsTotp, Frame, DropMoves
<1>14. ASSUME NEW r \in Req, DropsEmail(r) PROVE ProofInv' /\ SecretProved'
  BY <1>0, <1>i, Constants, <1>14 DEF DropsEmail, Frame, DropMoves
<1>15. ASSUME NEW r \in Req, Pends(r) PROVE ProofInv' /\ SecretProved'
  BY <1>0, <1>i, Constants, <1>15 DEF Pends, Frame
<1>16. ASSUME NEW r \in Req, Deletes(r) PROVE ProofInv' /\ SecretProved'
  BY <1>0, <1>i, Constants, <1>16 DEF Deletes, Frame
<1>17. ASSUME NEW r \in Req, NEW s \in Secret \ issued, Upserts(r, s)
      PROVE  ProofInv' /\ SecretProved'
  BY <1>0, <1>i, <1>w, <1>n, Constants, <1>17 DEF Upserts, Inserts, Frame
<1>18. ASSUME NEW r \in Req, NEW x \in Recovery \ issued, Enables(r, x)
      PROVE  ProofInv' /\ SecretProved'
  BY <1>0, <1>i, <1>w, <1>n, Constants, <1>18 DEF Enables, Frame, Renews
<1>19. CASE Removes
  BY <1>0, <1>i, <1>w, <1>n, Constants, <1>19 DEF Removes, RemoveMoves
<1>20. CASE Elapses
  BY <1>0, <1>i, Constants, <1>20 DEF Elapses
<1>21. ASSUME NEW f \in Others, NEW x \in Recovery \ issued, Foreign(f, x)
      PROVE  ProofInv' /\ SecretProved'
  BY <1>0, <1>i, Constants, <1>21 DEF Foreign, Renews
<1> QED
  BY Steps, <1>1, <1>2, <1>3, <1>4, <1>5, <1>6, <1>7, <1>8, <1>9, <1>10, <1>11, <1>12,
     <1>13, <1>14, <1>15, <1>16, <1>17, <1>18, <1>19, <1>20,
     <1>21
  DEF Kinds

\* A factor is switched on with its codes, and keeps some.
LEMMA FallbackStep == IInv /\ [Next]_vars => FallbackExists'
<1> SUFFICES ASSUME IInv, [Next]_vars PROVE FallbackExists'
  OBVIOUS
<1>0. TypeOK /\ FallbackExists
  BY DEF IInv
<1> USE DEF TypeOK, FallbackExists, HasCodes
<1>1. ASSUME NEW r \in Req, NEW q \in Request, Passes(r, q) PROVE FallbackExists'
  BY <1>0, Constants, <1>1 DEF Passes
<1>2. ASSUME NEW r \in Req, NEW q \in Request, Counts(r, q) PROVE FallbackExists'
  BY <1>0, Constants, <1>2 DEF Counts, CountMoves, Same
<1>3. ASSUME NEW r \in Req, NEW q \in Request, Checks(r, q) PROVE FallbackExists'
  BY <1>0, Constants, <1>3 DEF Checks, Same
<1>4. ASSUME NEW r \in Req, NEW q \in Request, Records(r, q) PROVE FallbackExists'
  BY <1>0, Constants, <1>4 DEF Records, RecordMoves
<1>5. ASSUME NEW r \in Req, NEW q \in Request, Consumes(r, q) PROVE FallbackExists'
  BY <1>0, Constants, <1>5 DEF Consumes
<1>6. ASSUME NEW r \in Req, NEW q \in Request, Finds(r, q) PROVE FallbackExists'
  BY <1>0, Constants, <1>6 DEF Finds, Same
<1>7. ASSUME NEW r \in Req, NEW q \in Request, Marks(r, q) PROVE FallbackExists'
  BY <1>0, Constants, <1>7 DEF Marks, MarkMoves
<1>8. ASSUME NEW r \in Req, NEW q \in Request, NEW g \in TotpCode, Proves(r, q, g)
      PROVE  FallbackExists'
  BY <1>0, Constants, <1>8 DEF Proves, ProveMoves
<1>9. ASSUME NEW r \in Req, NEW q \in Request, NEW x \in Recovery \ issued, Completes(r, q, x)
      PROVE  FallbackExists'
  BY <1>0, Constants, <1>9 DEF Completes, Same, Renews
<1>10. ASSUME NEW r \in Req, NEW q \in Request, NEW c \in Code, Saves(r, q, c)
      PROVE  FallbackExists'
  BY <1>0, Constants, <1>10 DEF Saves, Same
<1>11. ASSUME NEW r \in Req, NEW q \in Request, NEW p \in Purpose, Matches(r, q, p)
      PROVE  FallbackExists'
  BY <1>0, Constants, <1>11 DEF Matches, Same, Right
<1>12. ASSUME NEW r \in Req, NEW q \in Request, NEW p \in Purpose, Misses(r, q, p)
      PROVE  FallbackExists'
  BY <1>0, Constants, <1>12 DEF Misses, Same, Wrong
<1>13. ASSUME NEW r \in Req, DropsTotp(r) PROVE FallbackExists'
  BY <1>0, Constants, <1>13 DEF DropsTotp, DropMoves
<1>14. ASSUME NEW r \in Req, DropsEmail(r) PROVE FallbackExists'
  BY <1>0, Constants, <1>14 DEF DropsEmail, DropMoves
<1>15. ASSUME NEW r \in Req, Pends(r) PROVE FallbackExists'
  BY <1>0, Constants, <1>15 DEF Pends
<1>16. ASSUME NEW r \in Req, Deletes(r) PROVE FallbackExists'
  BY <1>0, Constants, <1>16 DEF Deletes
<1>17. ASSUME NEW r \in Req, NEW s \in Secret \ issued, Upserts(r, s) PROVE FallbackExists'
  BY <1>0, Constants, <1>17 DEF Upserts, Inserts
<1>18. ASSUME NEW r \in Req, NEW x \in Recovery \ issued, Enables(r, x)
      PROVE  FallbackExists'
  BY <1>0, Constants, <1>18 DEF Enables, Renews
<1>19. CASE Removes
  BY <1>0, Constants, <1>19 DEF Removes, RemoveMoves
<1>20. CASE Elapses
  BY <1>0, Constants, <1>20 DEF Elapses
<1>21. ASSUME NEW f \in Others, NEW x \in Recovery \ issued, Foreign(f, x)
      PROVE  FallbackExists'
  BY <1>0, Constants, <1>21 DEF Foreign, Renews
<1> QED
  BY Steps, <1>1, <1>2, <1>3, <1>4, <1>5, <1>6, <1>7, <1>8, <1>9, <1>10, <1>11, <1>12,
     <1>13, <1>14, <1>15, <1>16, <1>17, <1>18, <1>19, <1>20,
     <1>21
  DEF Kinds

\* A recovery code marked used is gone for good.
LEMMA SpentStep == IInv /\ [Next]_vars => SpentInv' /\ RecoverySpent'
<1> SUFFICES ASSUME IInv, [Next]_vars PROVE SpentInv' /\ RecoverySpent'
  OBVIOUS
<1>0. TypeOK /\ ControlInv /\ IssueInv /\ SpentInv /\ RecoverySpent
  BY DEF IInv
<1>i. Idle.pc = "idle" /\ Idle \in Request /\ Idle.late = FALSE
  BY IdleType
<1> USE DEF TypeOK, IssueInv, SpentInv, RecoverySpent, At
<1>1. ASSUME NEW r \in Req, NEW q \in Request, Passes(r, q)
      PROVE  SpentInv' /\ RecoverySpent'
  BY <1>0, <1>i, Constants, <1>1 DEF Passes, Frame
<1>2. ASSUME NEW r \in Req, NEW q \in Request, Counts(r, q)
      PROVE  SpentInv' /\ RecoverySpent'
  BY <1>0, <1>i, Constants, <1>2 DEF Counts, Frame, CountMoves, Same
<1>3. ASSUME NEW r \in Req, NEW q \in Request, Checks(r, q)
      PROVE  SpentInv' /\ RecoverySpent'
  BY <1>0, <1>i, Constants, <1>3 DEF Checks, Frame, Same
<1>4. ASSUME NEW r \in Req, NEW q \in Request, Records(r, q)
      PROVE  SpentInv' /\ RecoverySpent'
  BY <1>0, <1>i, Constants, <1>4 DEF Records, Frame, RecordMoves
<1>5. ASSUME NEW r \in Req, NEW q \in Request, Consumes(r, q)
      PROVE  SpentInv' /\ RecoverySpent'
  BY <1>0, <1>i, Constants, <1>5 DEF Consumes, Frame
<1>6. ASSUME NEW r \in Req, NEW q \in Request, Finds(r, q)
      PROVE  SpentInv' /\ RecoverySpent'
  BY <1>0, <1>i, Constants, <1>6 DEF Finds, Frame, Same
<1>7. ASSUME NEW r \in Req, NEW q \in Request, Marks(r, q)
      PROVE  SpentInv' /\ RecoverySpent'
  BY <1>0, <1>i, Constants, <1>7 DEF Marks, Frame, MarkMoves
<1>8. ASSUME NEW r \in Req, NEW q \in Request, NEW g \in TotpCode, Proves(r, q, g)
      PROVE  SpentInv' /\ RecoverySpent'
  BY <1>0, <1>i, Constants, <1>8 DEF Proves, Frame, ProveMoves
<1>9. ASSUME NEW r \in Req, NEW q \in Request, NEW x \in Recovery \ issued, Completes(r, q, x)
      PROVE  SpentInv' /\ RecoverySpent'
  BY <1>0, <1>i, Constants, <1>9 DEF Completes, Frame, Same, Renews
<1>10. ASSUME NEW r \in Req, NEW q \in Request, NEW c \in Code, Saves(r, q, c)
      PROVE  SpentInv' /\ RecoverySpent'
  BY <1>0, <1>i, Constants, <1>10 DEF Saves, Frame, Same
<1>11. ASSUME NEW r \in Req, NEW q \in Request, NEW p \in Purpose, Matches(r, q, p)
      PROVE  SpentInv' /\ RecoverySpent'
  BY <1>0, <1>i, Constants, <1>11 DEF Matches, Frame, Same, Right
<1>12. ASSUME NEW r \in Req, NEW q \in Request, NEW p \in Purpose, Misses(r, q, p)
      PROVE  SpentInv' /\ RecoverySpent'
  BY <1>0, <1>i, Constants, <1>12 DEF Misses, Frame, Same, Wrong
<1>13. ASSUME NEW r \in Req, DropsTotp(r) PROVE SpentInv' /\ RecoverySpent'
  BY <1>0, <1>i, Constants, <1>13 DEF DropsTotp, Frame, DropMoves
<1>14. ASSUME NEW r \in Req, DropsEmail(r) PROVE SpentInv' /\ RecoverySpent'
  BY <1>0, <1>i, Constants, <1>14 DEF DropsEmail, Frame, DropMoves
<1>15. ASSUME NEW r \in Req, Pends(r) PROVE SpentInv' /\ RecoverySpent'
  BY <1>0, <1>i, Constants, <1>15 DEF Pends, Frame
<1>16. ASSUME NEW r \in Req, Deletes(r) PROVE SpentInv' /\ RecoverySpent'
  BY <1>0, <1>i, Constants, <1>16 DEF Deletes, Frame
<1>17. ASSUME NEW r \in Req, NEW s \in Secret \ issued, Upserts(r, s)
      PROVE  SpentInv' /\ RecoverySpent'
  BY <1>0, <1>i, Constants, <1>17 DEF Upserts, Inserts, Frame
<1>18. ASSUME NEW r \in Req, NEW x \in Recovery \ issued, Enables(r, x)
      PROVE  SpentInv' /\ RecoverySpent'
  BY <1>0, <1>i, Constants, <1>18 DEF Enables, Frame, Renews
<1>19. CASE Removes
  BY <1>0, <1>i, Constants, <1>19 DEF Removes, RemoveMoves
<1>20. CASE Elapses
  BY <1>0, <1>i, Constants, <1>20 DEF Elapses
<1>21. ASSUME NEW f \in Others, NEW x \in Recovery \ issued, Foreign(f, x)
      PROVE  SpentInv' /\ RecoverySpent'
  BY <1>0, <1>i, Constants, <1>21 DEF Foreign, Renews
<1> QED
  BY Steps, <1>1, <1>2, <1>3, <1>4, <1>5, <1>6, <1>7, <1>8, <1>9, <1>10, <1>11, <1>12,
     <1>13, <1>14, <1>15, <1>16, <1>17, <1>18, <1>19, <1>20,
     <1>21
  DEF Kinds

\* A step of a request that leaves the history quiet leaves no other request.
LEMMA QuietFrame ==
    ASSUME TypeOK, LoneInv', NEW r \in Req, NEW q, NEW l, Frame(r, q, l), log'.quiet
    PROVE  /\ log' = l /\ log.quiet /\ req'[r] = q
           /\ \A p \in Req \ {r} : req[p] = Idle /\ req'[p] = Idle
<1>1. log' = l /\ log.quiet /\ \A p \in Req \ {r} : req[p] = Idle
  <2>1. ~Blank(FALSE).quiet
    BY DEF Blank
  <2> QED
    BY <2>1 DEF Frame
<1> QED
  BY <1>1 DEF Frame, TypeOK

\* While requests do not overlap, no email factor is pending and on.
LEMMA PendingStep == IInv /\ [Next]_vars => PendingInv'
<1> SUFFICES ASSUME IInv, [Next]_vars, log'.quiet PROVE PendingInv'
  BY DEF PendingInv
<1>0. TypeOK /\ PendingInv
  BY DEF IInv
<1>i. Idle.pc = "idle" /\ Idle \in Request /\ Idle.late = FALSE
  BY IdleType
<1>q. LoneInv'
  BY LoneStep
<1> USE DEF PendingInv, Sending, At
<1>1. ASSUME NEW r \in Req, NEW q \in Request, Passes(r, q) PROVE PendingInv'
  <2>1. /\ log' = log /\ log.quiet /\ req'[r] = q
        /\ \A s \in Req \ {r} : req[s] = Idle /\ req'[s] = Idle
    BY <1>0, <1>1, LoneStep, QuietFrame DEF Passes
  <2> QED
    BY <1>0, <1>i, Constants, <1>1, <2>1 DEF Passes
<1>2. ASSUME NEW r \in Req, NEW q \in Request, Counts(r, q) PROVE PendingInv'
  <2>1. /\ log' = log /\ log.quiet /\ req'[r] = q
        /\ \A s \in Req \ {r} : req[s] = Idle /\ req'[s] = Idle
    BY <1>0, <1>2, LoneStep, QuietFrame DEF Counts
  <2> QED
    BY <1>0, <1>i, Constants, <1>2, <2>1 DEF Counts, CountMoves, Same
<1>3. ASSUME NEW r \in Req, NEW q \in Request, Checks(r, q) PROVE PendingInv'
  <2>1. /\ log' = log /\ log.quiet /\ req'[r] = q
        /\ \A s \in Req \ {r} : req[s] = Idle /\ req'[s] = Idle
    BY <1>0, <1>3, LoneStep, QuietFrame DEF Checks
  <2> QED
    BY <1>0, <1>i, Constants, <1>3, <2>1 DEF Checks, Same
<1>4. ASSUME NEW r \in Req, NEW q \in Request, Records(r, q) PROVE PendingInv'
  <2>1. /\ log' = Accepted(req[r].given) /\ log.quiet /\ req'[r] = q
        /\ \A s \in Req \ {r} : req[s] = Idle /\ req'[s] = Idle
    BY <1>0, <1>4, LoneStep, QuietFrame DEF Records
  <2> QED
    BY <1>0, <1>i, Constants, <1>4, <2>1 DEF Records, RecordMoves
<1>5. ASSUME NEW r \in Req, NEW q \in Request, Consumes(r, q) PROVE PendingInv'
  <2>1. /\ log' = Accepted(req[r].given) /\ log.quiet /\ req'[r] = q
        /\ \A s \in Req \ {r} : req[s] = Idle /\ req'[s] = Idle
    BY <1>0, <1>5, LoneStep, QuietFrame DEF Consumes
  <2> QED
    BY <1>0, <1>i, Constants, <1>5, <2>1 DEF Consumes
<1>6. ASSUME NEW r \in Req, NEW q \in Request, Finds(r, q) PROVE PendingInv'
  <2>1. /\ log' = log /\ log.quiet /\ req'[r] = q
        /\ \A s \in Req \ {r} : req[s] = Idle /\ req'[s] = Idle
    BY <1>0, <1>6, LoneStep, QuietFrame DEF Finds
  <2> QED
    BY <1>0, <1>i, Constants, <1>6, <2>1 DEF Finds, Same
<1>7. ASSUME NEW r \in Req, NEW q \in Request, Marks(r, q) PROVE PendingInv'
  <2>1. /\ log' = Accepted(req[r].given) /\ log.quiet /\ req'[r] = q
        /\ \A s \in Req \ {r} : req[s] = Idle /\ req'[s] = Idle
    BY <1>0, <1>7, LoneStep, QuietFrame DEF Marks
  <2> QED
    BY <1>0, <1>i, Constants, <1>7, <2>1 DEF Marks, MarkMoves
<1>8. ASSUME NEW r \in Req, NEW q \in Request, NEW g \in TotpCode, Proves(r, q, g)
      PROVE  PendingInv'
  <2>1. /\ log' = log /\ log.quiet /\ req'[r] = q
        /\ \A s \in Req \ {r} : req[s] = Idle /\ req'[s] = Idle
    BY <1>0, <1>8, LoneStep, QuietFrame DEF Proves
  <2> QED
    BY <1>0, <1>i, Constants, <1>8, <2>1 DEF Proves, ProveMoves
<1>9. ASSUME NEW r \in Req, NEW q \in Request, NEW x \in Recovery \ issued, Completes(r, q, x)
      PROVE  PendingInv'
  <2>1. /\ log' = Accepted(req[r].given) /\ log.quiet /\ req'[r] = q
        /\ \A s \in Req \ {r} : req[s] = Idle /\ req'[s] = Idle
    BY <1>0, <1>9, LoneStep, QuietFrame DEF Completes
  <2> QED
    BY <1>0, <1>i, Constants, <1>9, <2>1 DEF Completes, Same, Renews
<1>10. ASSUME NEW r \in Req, NEW q \in Request, NEW c \in Code, Saves(r, q, c)
      PROVE  PendingInv'
  <2>1. /\ log' = log /\ log.quiet /\ req'[r] = q
        /\ \A s \in Req \ {r} : req[s] = Idle /\ req'[s] = Idle
    BY <1>0, <1>10, LoneStep, QuietFrame DEF Saves
  <2> QED
    BY <1>0, <1>i, Constants, <1>10, <2>1 DEF Saves, Same
<1>11. ASSUME NEW r \in Req, NEW q \in Request, NEW p \in Purpose, Matches(r, q, p)
      PROVE  PendingInv'
  <2>1. /\ log' = log /\ log.quiet /\ req'[r] = q
        /\ \A s \in Req \ {r} : req[s] = Idle /\ req'[s] = Idle
    BY <1>0, <1>11, LoneStep, QuietFrame DEF Matches
  <2> QED
    BY <1>0, <1>i, Constants, <1>11, <2>1 DEF Matches, Same, Right
<1>12. ASSUME NEW r \in Req, NEW q \in Request, NEW p \in Purpose, Misses(r, q, p)
      PROVE  PendingInv'
  <2>1. /\ log' = Guessed(otp[p].code) /\ log.quiet /\ req'[r] = q
        /\ \A s \in Req \ {r} : req[s] = Idle /\ req'[s] = Idle
    BY <1>0, <1>12, LoneStep, QuietFrame DEF Misses
  <2> QED
    BY <1>0, <1>i, Constants, <1>12, <2>1 DEF Misses, Same, Wrong
<1>13. ASSUME NEW r \in Req, DropsTotp(r) PROVE PendingInv'
  <2>1. /\ log' = log /\ log.quiet /\ req'[r] = Idle
        /\ \A s \in Req \ {r} : req[s] = Idle /\ req'[s] = Idle
    BY <1>0, <1>13, LoneStep, QuietFrame DEF DropsTotp
  <2> QED
    BY <1>0, <1>i, Constants, <1>13, <2>1 DEF DropsTotp, DropMoves
<1>14. ASSUME NEW r \in Req, DropsEmail(r) PROVE PendingInv'
  <2>1. /\ log' = log /\ log.quiet /\ req'[r] = Idle
        /\ \A s \in Req \ {r} : req[s] = Idle /\ req'[s] = Idle
    BY <1>0, <1>14, LoneStep, QuietFrame DEF DropsEmail
  <2> QED
    BY <1>0, <1>i, Constants, <1>14, <2>1 DEF DropsEmail, DropMoves
<1>15. ASSUME NEW r \in Req, Pends(r) PROVE PendingInv'
  <2>1. /\ log' = log /\ log.quiet /\ req'[r] = Idle
        /\ \A s \in Req \ {r} : req[s] = Idle /\ req'[s] = Idle
    BY <1>0, <1>15, LoneStep, QuietFrame DEF Pends
  <2> QED
    BY <1>0, <1>i, Constants, <1>15, <2>1 DEF Pends
<1>16. ASSUME NEW r \in Req, Deletes(r) PROVE PendingInv'
  <2>1. /\ log' = log /\ log.quiet /\ req'[r] = Idle
        /\ \A s \in Req \ {r} : req[s] = Idle /\ req'[s] = Idle
    BY <1>0, <1>16, LoneStep, QuietFrame DEF Deletes
  <2> QED
    BY <1>0, <1>i, Constants, <1>16, <2>1 DEF Deletes
<1>17. ASSUME NEW r \in Req, NEW s \in Secret \ issued, Upserts(r, s) PROVE PendingInv'
  <2>1. /\ log' = log /\ log.quiet /\ req'[r] = Idle
        /\ \A p \in Req \ {r} : req[p] = Idle /\ req'[p] = Idle
    BY <1>0, <1>17, LoneStep, QuietFrame DEF Upserts
  <2> QED
    BY <1>0, <1>i, Constants, <1>17, <2>1 DEF Upserts, Inserts
<1>18. ASSUME NEW r \in Req, NEW x \in Recovery \ issued, Enables(r, x) PROVE PendingInv'
  <2>1. /\ log' = Accepted(req[r].given) /\ log.quiet /\ req'[r] = Idle
        /\ \A s \in Req \ {r} : req[s] = Idle /\ req'[s] = Idle
    BY <1>0, <1>18, LoneStep, QuietFrame DEF Enables
  <2> QED
    BY <1>0, <1>i, Constants, <1>18, <2>1 DEF Enables, Renews
<1>19. CASE Removes
  BY <1>0, <1>i, Constants, <1>19 DEF Removes, RemoveMoves
<1>20. CASE Elapses
  BY <1>0, <1>i, Constants, <1>20 DEF Elapses
<1>21. ASSUME NEW f \in Others, NEW x \in Recovery \ issued, Foreign(f, x)
      PROVE  PendingInv'
  BY <1>0, <1>i, Constants, <1>21 DEF Foreign, Renews
<1> QED
  BY Steps, <1>1, <1>2, <1>3, <1>4, <1>5, <1>6, <1>7, <1>8, <1>9, <1>10, <1>11, <1>12,
     <1>13, <1>14, <1>15, <1>16, <1>17, <1>18, <1>19, <1>20,
     <1>21
  DEF Kinds

\* A code accepted once stays out of reach.
LEMMA UsedStep == IInv /\ [Next]_vars => UsedInv'
<1> SUFFICES ASSUME IInv, [Next]_vars, log'.quiet PROVE UsedInv'
  BY DEF UsedInv
<1>0. TypeOK /\ ControlInv /\ CodeInv /\ IssueInv /\ UsedInv /\ FreshInv /\ QuietInv
  BY DEF IInv
<1>i. Idle.pc = "idle" /\ Idle \in Request /\ Idle.late = FALSE
  BY IdleType
<1>q. LoneInv'
  BY LoneStep
<1>t. /\ totp.step \in Nat /\ \A g \in Given : g.step \in Nat
      /\ \A g \in TotpCode : g.of \in Secret /\ g \in Given
      /\ \A r \in Req : req[r].given \in Given
  BY <1>0, MfaAssumption DEF TypeOK, Totp, NoTotp, Step0, Given, TotpCode, Plain, Junk, Request
<1>l. /\ log.used \subseteq Given
      /\ \A c \in Code : Guessed(c).used = log.used
      /\ \A g \in Given : Accepted(g).used = log.used \cup {g}
  <2>1. log.used \subseteq Given
    BY <1>0 DEF TypeOK, Log
  <2> QED
    BY <1>0, <2>1, LogTypes DEF TypeOK
<1> USE DEF UsedInv
<1>1. ASSUME NEW r \in Req, NEW q \in Request, Passes(r, q) PROVE UsedInv'
  <2>1. /\ log' = log /\ log.quiet /\ req'[r] = q
        /\ \A s \in Req \ {r} : req[s] = Idle /\ req'[s] = Idle
    BY <1>0, <1>1, LoneStep, QuietFrame DEF Passes
  <2> QED
    BY <1>0, <1>i, <1>t, <1>l, Constants, <1>1, <2>1 DEF Passes, Gone, At
<1>2. ASSUME NEW r \in Req, NEW q \in Request, Counts(r, q) PROVE UsedInv'
  <2>1. /\ log' = log /\ log.quiet /\ req'[r] = q
        /\ \A s \in Req \ {r} : req[s] = Idle /\ req'[s] = Idle
    BY <1>0, <1>2, LoneStep, QuietFrame DEF Counts
  <2>2. \A p \in Purpose : otp'[p].code = otp[p].code
    BY <1>0, <1>2, <2>1 DEF Counts, CountMoves, QuietInv, At, TypeOK, Request
  <2>3. ASSUME NEW g \in log.used PROVE Gone(g)'
    BY <1>0, <1>2, <2>1, <2>2, <2>3, Constants DEF Counts, Gone, At
  <2> QED
    BY <1>2, <2>1, <2>3 DEF Counts
<1>3. ASSUME NEW r \in Req, NEW q \in Request, Checks(r, q) PROVE UsedInv'
  <2>1. /\ log' = log /\ log.quiet /\ req'[r] = q
        /\ \A s \in Req \ {r} : req[s] = Idle /\ req'[s] = Idle
    BY <1>0, <1>3, LoneStep, QuietFrame DEF Checks
  <2> QED
    BY <1>0, <1>i, <1>t, <1>l, Constants, <1>3, <2>1 DEF Checks, Same, Gone, At
<1>4. ASSUME NEW r \in Req, NEW q \in Request, Records(r, q) PROVE UsedInv'
  <2>1. /\ log' = Accepted(req[r].given) /\ log.quiet /\ req'[r] = q
        /\ \A s \in Req \ {r} : req[s] = Idle /\ req'[s] = Idle
    BY <1>0, <1>4, LoneStep, QuietFrame DEF Records
  <2>2. log'.used = log.used \cup {req[r].given}
    BY <1>t, <1>l, <2>1
  <2>3. /\ req[r].given.of \in Secret /\ req[r].given.of \in issued
        /\ req[r].given.of = req[r].row.secret
        /\ totp.id = req[r].row.id => req[r].given.step > totp.step
        /\ totp.secret = req[r].row.secret => totp.id = req[r].row.id
    BY <1>0, <1>t, <1>4, <2>1 DEF Records, ControlInv, Locals, IssueInv, FreshInv, Fresh, At
  <2>4. ASSUME NEW g \in log.used PROVE Gone(g)'
    BY <1>0, <1>i, <1>t, <1>l, <1>4, <2>1, <2>3, <2>4, Constants DEF Records, RecordMoves, Gone, At
  <2>5. ASSUME NEW g, g = req[r].given PROVE Gone(g)'
    BY <1>0, <1>i, <1>t, <1>4, <2>1, <2>3, <2>5, Constants DEF Records, RecordMoves, Gone, At
  <2> QED
    BY <2>2, <2>4, <2>5
<1>5. ASSUME NEW r \in Req, NEW q \in Request, Consumes(r, q) PROVE UsedInv'
  <2>1. /\ log' = Accepted(req[r].given) /\ log.quiet /\ req'[r] = q
        /\ \A s \in Req \ {r} : req[s] = Idle /\ req'[s] = Idle
    BY <1>0, <1>5, LoneStep, QuietFrame DEF Consumes
  <2>2. log'.used = log.used \cup {req[r].given}
    BY <1>t, <1>l, <2>1
  <2>3. /\ req[r].given.of \in Code /\ age[req[r].given.of] # "unused"
        /\ otp["login"].code = req[r].given.of /\ otp["enroll"].code # req[r].given.of
    BY <1>0, <1>5, <2>1, Constants
    DEF Consumes, ControlInv, Locals, CodeInv, FreshInv, Fresh, QuietInv, At
  <2>4. ASSUME NEW g \in log.used PROVE Gone(g)'
    BY <1>0, <1>i, <1>t, <1>l, <1>5, <2>1, <2>3, <2>4, Constants DEF Consumes, TypeOK, Gone, At
  <2>5. ASSUME NEW g, g = req[r].given PROVE Gone(g)'
    BY <1>0, <1>i, <1>t, <1>5, <2>1, <2>3, <2>5, Constants DEF Consumes, TypeOK, Gone, At
  <2> QED
    BY <2>2, <2>4, <2>5
<1>6. ASSUME NEW r \in Req, NEW q \in Request, Finds(r, q) PROVE UsedInv'
  <2>1. /\ log' = log /\ log.quiet /\ req'[r] = q
        /\ \A s \in Req \ {r} : req[s] = Idle /\ req'[s] = Idle
    BY <1>0, <1>6, LoneStep, QuietFrame DEF Finds
  <2> QED
    BY <1>0, <1>i, <1>t, <1>l, Constants, <1>6, <2>1 DEF Finds, Same, Gone, At
<1>7. ASSUME NEW r \in Req, NEW q \in Request, Marks(r, q) PROVE UsedInv'
  <2>1. /\ log' = Accepted(req[r].given) /\ log.quiet /\ req'[r] = q
        /\ \A s \in Req \ {r} : req[s] = Idle /\ req'[s] = Idle
    BY <1>0, <1>7, LoneStep, QuietFrame DEF Marks
  <2>2. log'.used = log.used \cup {req[r].given}
    BY <1>t, <1>l, <2>1
  <2>3. req[r].given.of \in Recovery
    BY <1>0, <1>7 DEF Marks, ControlInv, Locals, At
  <2>4. ASSUME NEW g \in log.used PROVE Gone(g)'
    BY <1>0, <1>i, <1>t, <1>l, <1>7, <2>1, <2>3, <2>4, Constants DEF Marks, MarkMoves, Gone, At
  <2>5. ASSUME NEW g, g = req[r].given PROVE Gone(g)'
    BY <1>0, <1>i, <1>t, <1>7, <2>1, <2>3, <2>5, Constants DEF Marks, MarkMoves, Gone, At
  <2> QED
    BY <2>2, <2>4, <2>5
<1>8. ASSUME NEW r \in Req, NEW q \in Request, NEW g \in TotpCode, Proves(r, q, g)
      PROVE  UsedInv'
  <2>1. /\ log' = log /\ log.quiet /\ req'[r] = q
        /\ \A s \in Req \ {r} : req[s] = Idle /\ req'[s] = Idle
    BY <1>0, <1>8, LoneStep, QuietFrame DEF Proves
  <2> QED
    BY <1>0, <1>i, <1>t, <1>l, Constants, <1>8, <2>1 DEF Proves, ProveMoves, Gone, At
<1>9. ASSUME NEW r \in Req, NEW q \in Request, NEW x \in Recovery \ issued, Completes(r, q, x)
      PROVE  UsedInv'
  <2>1. /\ log' = Accepted(req[r].given) /\ log.quiet /\ req'[r] = q
        /\ \A s \in Req \ {r} : req[s] = Idle /\ req'[s] = Idle
    BY <1>0, <1>9, LoneStep, QuietFrame DEF Completes
  <2>2. log'.used = log.used \cup {req[r].given}
    BY <1>t, <1>l, <2>1
  <2>3. /\ req[r].given.of \in Code /\ age[req[r].given.of] # "unused"
        /\ otp["enroll"].code = req[r].given.of /\ otp["login"].code # req[r].given.of
    BY <1>0, <1>9, <2>1, Constants
    DEF Completes, ControlInv, Locals, CodeInv, FreshInv, Fresh, QuietInv, At
  <2>4. ASSUME NEW g \in log.used PROVE Gone(g)'
    BY <1>0, <1>i, <1>t, <1>l, <1>9, <2>1, <2>3, <2>4, Constants DEF Completes, Renews, Gone, At
  <2>5. ASSUME NEW g, g = req[r].given PROVE Gone(g)'
    BY <1>0, <1>i, <1>t, <1>9, <2>1, <2>3, <2>5, Constants DEF Completes, Renews, Gone, At
  <2> QED
    BY <2>2, <2>4, <2>5
<1>10. ASSUME NEW r \in Req, NEW q \in Request, NEW c \in Code, Saves(r, q, c)
      PROVE  UsedInv'
  <2>1. /\ log' = log /\ log.quiet /\ req'[r] = q
        /\ \A s \in Req \ {r} : req[s] = Idle /\ req'[s] = Idle
    BY <1>0, <1>10, LoneStep, QuietFrame DEF Saves
  <2> QED
    BY <1>0, <1>i, <1>t, <1>l, Constants, <1>10, <2>1 DEF Saves, Same, Gone, At
<1>11. ASSUME NEW r \in Req, NEW q \in Request, NEW p \in Purpose, Matches(r, q, p)
      PROVE  UsedInv'
  <2>1. /\ log' = log /\ log.quiet /\ req'[r] = q
        /\ \A s \in Req \ {r} : req[s] = Idle /\ req'[s] = Idle
    BY <1>0, <1>11, LoneStep, QuietFrame DEF Matches
  <2> QED
    BY <1>0, <1>i, <1>t, <1>l, Constants, <1>11, <2>1 DEF Matches, Same, Right, Gone, At
<1>12. ASSUME NEW r \in Req, NEW q \in Request, NEW p \in Purpose, Misses(r, q, p)
      PROVE  UsedInv'
  <2>1. /\ log' = Guessed(otp[p].code) /\ log.quiet /\ req'[r] = q
        /\ \A s \in Req \ {r} : req[s] = Idle /\ req'[s] = Idle
    BY <1>0, <1>12, LoneStep, QuietFrame DEF Misses
  <2> QED
    BY <1>0, <1>i, <1>t, <1>l, Constants, <1>12, <2>1 DEF Misses, Same, Wrong, Gone, At
<1>13. ASSUME NEW r \in Req, DropsTotp(r) PROVE UsedInv'
  <2>1. /\ log' = log /\ log.quiet /\ req'[r] = Idle
        /\ \A s \in Req \ {r} : req[s] = Idle /\ req'[s] = Idle
    BY <1>0, <1>13, LoneStep, QuietFrame DEF DropsTotp
  <2> QED
    BY <1>0, <1>i, <1>t, <1>l, Constants, <1>13, <2>1 DEF DropsTotp, DropMoves, Gone, At
<1>14. ASSUME NEW r \in Req, DropsEmail(r) PROVE UsedInv'
  <2>1. /\ log' = log /\ log.quiet /\ req'[r] = Idle
        /\ \A s \in Req \ {r} : req[s] = Idle /\ req'[s] = Idle
    BY <1>0, <1>14, LoneStep, QuietFrame DEF DropsEmail
  <2> QED
    BY <1>0, <1>i, <1>t, <1>l, Constants, <1>14, <2>1 DEF DropsEmail, DropMoves, Gone, At
<1>15. ASSUME NEW r \in Req, Pends(r) PROVE UsedInv'
  <2>1. /\ log' = log /\ log.quiet /\ req'[r] = Idle
        /\ \A s \in Req \ {r} : req[s] = Idle /\ req'[s] = Idle
    BY <1>0, <1>15, LoneStep, QuietFrame DEF Pends
  <2> QED
    BY <1>0, <1>i, <1>t, <1>l, Constants, <1>15, <2>1 DEF Pends, Gone, At
<1>16. ASSUME NEW r \in Req, Deletes(r) PROVE UsedInv'
  <2>1. /\ log' = log /\ log.quiet /\ req'[r] = Idle
        /\ \A s \in Req \ {r} : req[s] = Idle /\ req'[s] = Idle
    BY <1>0, <1>16, LoneStep, QuietFrame DEF Deletes
  <2>2. otp'["enroll"] = NoMeta /\ otp'["login"] = otp["login"]
    BY <1>0, <1>16, Constants DEF Deletes, TypeOK
  <2>3. ASSUME NEW g \in log.used PROVE Gone(g)'
    BY <1>0, <1>16, <2>1, <2>2, <2>3, Constants DEF Deletes, Gone, At
  <2> QED
    BY <1>16, <2>1, <2>3 DEF Deletes
<1>17. ASSUME NEW r \in Req, NEW s \in Secret \ issued, Upserts(r, s) PROVE UsedInv'
  <2>1. /\ log' = log /\ log.quiet /\ req'[r] = Idle
        /\ \A p \in Req \ {r} : req[p] = Idle /\ req'[p] = Idle
    BY <1>0, <1>17, LoneStep, QuietFrame DEF Upserts
  <2> QED
    BY <1>0, <1>i, <1>t, <1>l, Constants, <1>17, <2>1 DEF Upserts, Inserts, Gone, At
<1>18. ASSUME NEW r \in Req, NEW x \in Recovery \ issued, Enables(r, x) PROVE UsedInv'
  <2>1. /\ log' = Accepted(req[r].given) /\ log.quiet /\ req'[r] = Idle
        /\ \A s \in Req \ {r} : req[s] = Idle /\ req'[s] = Idle
    BY <1>0, <1>18, LoneStep, QuietFrame DEF Enables
  <2>2. log'.used = log.used \cup {req[r].given}
    BY <1>t, <1>l, <2>1
  <2>3. /\ req[r].given.of \in Secret /\ req[r].given.of \in issued
        /\ req[r].given.of = req[r].row.secret
        /\ totp.id = req[r].row.id => req[r].given.step > totp.step
        /\ totp.secret = req[r].row.secret => totp.id = req[r].row.id
    BY <1>0, <1>t, <1>18, <2>1 DEF Enables, ControlInv, Locals, IssueInv, FreshInv, Fresh, At
  <2>4. ASSUME NEW g \in log.used PROVE Gone(g)'
    BY <1>0, <1>i, <1>t, <1>l, <1>18, <2>1, <2>3, <2>4, Constants DEF Enables, Renews, Gone, At
  <2>5. ASSUME NEW g, g = req[r].given PROVE Gone(g)'
    BY <1>0, <1>i, <1>t, <1>18, <2>1, <2>3, <2>5, Constants DEF Enables, Renews, Gone, At
  <2> QED
    BY <2>2, <2>4, <2>5
<1>19. CASE Removes
  BY <1>0, <1>i, <1>t, <1>l, Constants, <1>19 DEF Removes, RemoveMoves, Gone, At
<1>20. CASE Elapses
  BY <1>0, <1>i, <1>t, <1>l, Constants, <1>20 DEF Elapses, Gone, At
<1>21. ASSUME NEW f \in Others, NEW x \in Recovery \ issued, Foreign(f, x)
      PROVE  UsedInv'
  BY <1>0, <1>i, <1>t, <1>l, Constants, <1>21 DEF Foreign, Renews, Gone, At
<1> QED
  BY Steps, <1>1, <1>2, <1>3, <1>4, <1>5, <1>6, <1>7, <1>8, <1>9, <1>10, <1>11, <1>12,
     <1>13, <1>14, <1>15, <1>16, <1>17, <1>18, <1>19, <1>20,
     <1>21
  DEF Kinds

\* What is about to be accepted was not accepted before.
LEMMA FreshStep == IInv /\ [Next]_vars => FreshInv'
<1> SUFFICES ASSUME IInv, [Next]_vars, log'.quiet PROVE FreshInv'
  BY DEF FreshInv
<1>0. TypeOK /\ ControlInv /\ SpentInv /\ UsedInv /\ FreshInv
  BY DEF IInv
<1>i. Idle.pc = "idle" /\ Idle \in Request /\ Idle.late = FALSE
  BY IdleType
<1>q. LoneInv'
  BY LoneStep
<1>t. /\ totp.step \in Nat /\ \A g \in Given : g.step \in Nat
      /\ \A g \in TotpCode : g.of \in Secret /\ g \in Given
      /\ \A r \in Req : req[r].given \in Given
  BY <1>0, MfaAssumption DEF TypeOK, Totp, NoTotp, Step0, Given, TotpCode, Plain, Junk, Request
<1>l. /\ log.used \subseteq Given
      /\ \A c \in Code : Guessed(c).used = log.used
      /\ \A g \in Given : Accepted(g).used = log.used \cup {g}
  <2>1. log.used \subseteq Given
    BY <1>0 DEF TypeOK, Log
  <2> QED
    BY <1>0, <2>1, LogTypes DEF TypeOK
<1> USE DEF FreshInv
<1>1. ASSUME NEW r \in Req, NEW q \in Request, Passes(r, q) PROVE FreshInv'
  <2>1. /\ log' = log /\ log.quiet /\ req'[r] = q
        /\ \A s \in Req \ {r} : req[s] = Idle /\ req'[s] = Idle
    BY <1>0, <1>1, LoneStep, QuietFrame DEF Passes
  <2> QED
    BY <1>0, <1>i, <1>t, <1>l, Constants, <1>1, <2>1 DEF Passes, Fresh, At
<1>2. ASSUME NEW r \in Req, NEW q \in Request, Counts(r, q) PROVE FreshInv'
  <2>1. /\ log' = log /\ log.quiet /\ req'[r] = q
        /\ \A s \in Req \ {r} : req[s] = Idle /\ req'[s] = Idle
    BY <1>0, <1>2, LoneStep, QuietFrame DEF Counts
  <2> QED
    BY <1>0, <1>i, <1>t, <1>l, Constants, <1>2, <2>1 DEF Counts, CountMoves, Same, Fresh,
      At
<1>3. ASSUME NEW r \in Req, NEW q \in Request, Checks(r, q) PROVE FreshInv'
  <2>1. /\ log' = log /\ log.quiet /\ req'[r] = q
        /\ \A s \in Req \ {r} : req[s] = Idle /\ req'[s] = Idle
    BY <1>0, <1>3, LoneStep, QuietFrame DEF Checks
  <2>2. req[r].given \notin log.used /\ req[r].given \in TotpCode
    BY <1>0, <1>t, <1>l, <1>3, <2>1, Constants DEF Checks, Frame, Locals, Same, UsedInv, Gone
  <2>3. Fresh(r)'
    BY <1>0, <1>i, <1>t, <1>l, <1>3, <2>1, <2>2, Constants DEF Checks, Same, Fresh, At
  <2>4. ASSUME NEW p \in Req \ {r} PROVE Fresh(p)'
    BY <1>i, <2>1 DEF Fresh, At
  <2> QED
    BY <2>3, <2>4
<1>4. ASSUME NEW r \in Req, NEW q \in Request, Records(r, q) PROVE FreshInv'
  <2>1. /\ log' = Accepted(req[r].given) /\ log.quiet /\ req'[r] = q
        /\ \A s \in Req \ {r} : req[s] = Idle /\ req'[s] = Idle
    BY <1>0, <1>4, LoneStep, QuietFrame DEF Records
  <2> QED
    BY <1>0, <1>i, <1>t, <1>l, Constants, <1>4, <2>1 DEF Records, RecordMoves, Fresh, At
<1>5. ASSUME NEW r \in Req, NEW q \in Request, Consumes(r, q) PROVE FreshInv'
  <2>1. /\ log' = Accepted(req[r].given) /\ log.quiet /\ req'[r] = q
        /\ \A s \in Req \ {r} : req[s] = Idle /\ req'[s] = Idle
    BY <1>0, <1>5, LoneStep, QuietFrame DEF Consumes
  <2> QED
    BY <1>0, <1>i, <1>t, <1>l, Constants, <1>5, <2>1 DEF Consumes, Fresh, At
<1>6. ASSUME NEW r \in Req, NEW q \in Request, Finds(r, q) PROVE FreshInv'
  <2>1. /\ log' = log /\ log.quiet /\ req'[r] = q
        /\ \A s \in Req \ {r} : req[s] = Idle /\ req'[s] = Idle
    BY <1>0, <1>6, LoneStep, QuietFrame DEF Finds
  <2>2. req[r].given \notin log.used
    BY <1>0, <1>6, <2>1 DEF Finds, SpentInv, UsedInv, Gone
  <2>3. Fresh(r)'
    BY <1>0, <1>i, <1>t, <1>l, <1>6, <2>1, <2>2, Constants DEF Finds, Same, Fresh, At
  <2>4. ASSUME NEW p \in Req \ {r} PROVE Fresh(p)'
    BY <1>i, <2>1 DEF Fresh, At
  <2> QED
    BY <2>3, <2>4
<1>7. ASSUME NEW r \in Req, NEW q \in Request, Marks(r, q) PROVE FreshInv'
  <2>1. /\ log' = Accepted(req[r].given) /\ log.quiet /\ req'[r] = q
        /\ \A s \in Req \ {r} : req[s] = Idle /\ req'[s] = Idle
    BY <1>0, <1>7, LoneStep, QuietFrame DEF Marks
  <2> QED
    BY <1>0, <1>i, <1>t, <1>l, Constants, <1>7, <2>1 DEF Marks, MarkMoves, Fresh, At
<1>8. ASSUME NEW r \in Req, NEW q \in Request, NEW g \in TotpCode, Proves(r, q, g)
      PROVE  FreshInv'
  <2>1. /\ log' = log /\ log.quiet /\ req'[r] = q
        /\ \A s \in Req \ {r} : req[s] = Idle /\ req'[s] = Idle
    BY <1>0, <1>8, LoneStep, QuietFrame DEF Proves
  <2>2. g \notin log.used
    BY <1>0, <1>t, <1>8, <2>1, Constants DEF Proves, ProveMoves, UsedInv, Gone
  <2>3. Fresh(r)'
    BY <1>0, <1>i, <1>t, <1>l, <1>8, <2>1, <2>2, Constants DEF Proves, ProveMoves, Fresh, At
  <2>4. ASSUME NEW s \in Req \ {r} PROVE Fresh(s)'
    BY <1>i, <2>1 DEF Fresh, At
  <2> QED
    BY <2>3, <2>4
<1>9. ASSUME NEW r \in Req, NEW q \in Request, NEW x \in Recovery \ issued, Completes(r, q, x)
      PROVE  FreshInv'
  <2>1. /\ log' = Accepted(req[r].given) /\ log.quiet /\ req'[r] = q
        /\ \A s \in Req \ {r} : req[s] = Idle /\ req'[s] = Idle
    BY <1>0, <1>9, LoneStep, QuietFrame DEF Completes
  <2> QED
    BY <1>0, <1>i, <1>t, <1>l, Constants, <1>9, <2>1 DEF Completes, Same, Renews, Fresh,
      At
<1>10. ASSUME NEW r \in Req, NEW q \in Request, NEW c \in Code, Saves(r, q, c)
      PROVE  FreshInv'
  <2>1. /\ log' = log /\ log.quiet /\ req'[r] = q
        /\ \A s \in Req \ {r} : req[s] = Idle /\ req'[s] = Idle
    BY <1>0, <1>10, LoneStep, QuietFrame DEF Saves
  <2> QED
    BY <1>0, <1>i, <1>t, <1>l, Constants, <1>10, <2>1 DEF Saves, Same, Fresh, At
<1>11. ASSUME NEW r \in Req, NEW q \in Request, NEW p \in Purpose, Matches(r, q, p)
      PROVE  FreshInv'
  <2>1. /\ log' = log /\ log.quiet /\ req'[r] = q
        /\ \A s \in Req \ {r} : req[s] = Idle /\ req'[s] = Idle
    BY <1>0, <1>11, LoneStep, QuietFrame DEF Matches
  <2>2. req[r].given \notin log.used
    BY <1>0, <1>i, <1>11, <2>1 DEF Matches, Right, Purpose, UsedInv, Gone, At
  <2>3. Fresh(r)'
    BY <1>0, <1>i, <1>t, <1>l, <1>11, <2>1, <2>2, Constants DEF Matches, Same, Right, Purpose, Fresh, At
  <2>4. ASSUME NEW s \in Req \ {r} PROVE Fresh(s)'
    BY <1>i, <2>1 DEF Fresh, At
  <2> QED
    BY <2>3, <2>4
<1>12. ASSUME NEW r \in Req, NEW q \in Request, NEW p \in Purpose, Misses(r, q, p)
      PROVE  FreshInv'
  <2>1. /\ log' = Guessed(otp[p].code) /\ log.quiet /\ req'[r] = q
        /\ \A s \in Req \ {r} : req[s] = Idle /\ req'[s] = Idle
    BY <1>0, <1>12, LoneStep, QuietFrame DEF Misses
  <2> QED
    BY <1>0, <1>i, <1>t, <1>l, Constants, <1>12, <2>1 DEF Misses, Same, Wrong, Fresh, At
<1>13. ASSUME NEW r \in Req, DropsTotp(r) PROVE FreshInv'
  <2>1. /\ log' = log /\ log.quiet /\ req'[r] = Idle
        /\ \A s \in Req \ {r} : req[s] = Idle /\ req'[s] = Idle
    BY <1>0, <1>13, LoneStep, QuietFrame DEF DropsTotp
  <2> QED
    BY <1>0, <1>i, <1>t, <1>l, Constants, <1>13, <2>1 DEF DropsTotp, DropMoves, Fresh, At
<1>14. ASSUME NEW r \in Req, DropsEmail(r) PROVE FreshInv'
  <2>1. /\ log' = log /\ log.quiet /\ req'[r] = Idle
        /\ \A s \in Req \ {r} : req[s] = Idle /\ req'[s] = Idle
    BY <1>0, <1>14, LoneStep, QuietFrame DEF DropsEmail
  <2> QED
    BY <1>0, <1>i, <1>t, <1>l, Constants, <1>14, <2>1 DEF DropsEmail, DropMoves, Fresh, At
<1>15. ASSUME NEW r \in Req, Pends(r) PROVE FreshInv'
  <2>1. /\ log' = log /\ log.quiet /\ req'[r] = Idle
        /\ \A s \in Req \ {r} : req[s] = Idle /\ req'[s] = Idle
    BY <1>0, <1>15, LoneStep, QuietFrame DEF Pends
  <2> QED
    BY <1>0, <1>i, <1>t, <1>l, Constants, <1>15, <2>1 DEF Pends, Fresh, At
<1>16. ASSUME NEW r \in Req, Deletes(r) PROVE FreshInv'
  <2>1. /\ log' = log /\ log.quiet /\ req'[r] = Idle
        /\ \A s \in Req \ {r} : req[s] = Idle /\ req'[s] = Idle
    BY <1>0, <1>16, LoneStep, QuietFrame DEF Deletes
  <2> QED
    BY <1>0, <1>i, <1>t, <1>l, Constants, <1>16, <2>1 DEF Deletes, Fresh, At
<1>17. ASSUME NEW r \in Req, NEW s \in Secret \ issued, Upserts(r, s) PROVE FreshInv'
  <2>1. /\ log' = log /\ log.quiet /\ req'[r] = Idle
        /\ \A p \in Req \ {r} : req[p] = Idle /\ req'[p] = Idle
    BY <1>0, <1>17, LoneStep, QuietFrame DEF Upserts
  <2> QED
    BY <1>0, <1>i, <1>t, <1>l, Constants, <1>17, <2>1 DEF Upserts, Inserts, Fresh, At
<1>18. ASSUME NEW r \in Req, NEW x \in Recovery \ issued, Enables(r, x) PROVE FreshInv'
  <2>1. /\ log' = Accepted(req[r].given) /\ log.quiet /\ req'[r] = Idle
        /\ \A s \in Req \ {r} : req[s] = Idle /\ req'[s] = Idle
    BY <1>0, <1>18, LoneStep, QuietFrame DEF Enables
  <2> QED
    BY <1>0, <1>i, <1>t, <1>l, Constants, <1>18, <2>1 DEF Enables, Renews, Fresh, At
<1>19. CASE Removes
  BY <1>0, <1>i, <1>t, <1>l, Constants, <1>19 DEF Removes, RemoveMoves, Fresh, At,
      ControlInv, Locals
<1>20. CASE Elapses
  BY <1>0, <1>i, <1>t, <1>l, Constants, <1>20 DEF Elapses, Fresh, At
<1>21. ASSUME NEW f \in Others, NEW x \in Recovery \ issued, Foreign(f, x)
      PROVE  FreshInv'
  BY <1>0, <1>i, <1>t, <1>l, Constants, <1>21 DEF Foreign, Renews, Fresh, At,
      ControlInv, Locals
<1> QED
  BY Steps, <1>1, <1>2, <1>3, <1>4, <1>5, <1>6, <1>7, <1>8, <1>9, <1>10, <1>11, <1>12,
     <1>13, <1>14, <1>15, <1>16, <1>17, <1>18, <1>19, <1>20,
     <1>21
  DEF Kinds

\* No step accepts a code that was accepted before.
LEMMA OnceStep == IInv /\ [Next]_vars => ~log'.twice
<1> SUFFICES ASSUME IInv, [Next]_vars PROVE ~log'.twice
  OBVIOUS
<1>0. TypeOK /\ FreshInv /\ SingleUse
  BY DEF IInv
<1>l. /\ ~log.twice /\ ~Blank(FALSE).twice
      /\ \A c \in Code : Guessed(c).twice = log.twice
      /\ \A g \in Given : Accepted(g).twice <=> log.twice \/ g \in log.used
  <2>1. ~log.twice /\ ~Blank(FALSE).twice
    BY <1>0 DEF SingleUse, Blank
  <2> QED
    BY <1>0, <2>1, LogTypes DEF TypeOK
<1>g. \A r \in Req : req[r].given \in Given
  BY <1>0 DEF TypeOK, Request
<1> USE DEF FreshInv, Fresh, At
<1>1. ASSUME NEW r \in Req, NEW q \in Request, Passes(r, q) PROVE ~log'.twice
  BY <1>0, <1>l, <1>g, <1>1 DEF Passes, Frame
<1>2. ASSUME NEW r \in Req, NEW q \in Request, Counts(r, q) PROVE ~log'.twice
  BY <1>0, <1>l, <1>g, <1>2 DEF Counts, Frame, CountMoves, Same
<1>3. ASSUME NEW r \in Req, NEW q \in Request, Checks(r, q) PROVE ~log'.twice
  BY <1>0, <1>l, <1>g, <1>3 DEF Checks, Frame, Same
<1>4. ASSUME NEW r \in Req, NEW q \in Request, Records(r, q) PROVE ~log'.twice
  BY <1>0, <1>l, <1>g, <1>4 DEF Records, Frame, RecordMoves
<1>5. ASSUME NEW r \in Req, NEW q \in Request, Consumes(r, q) PROVE ~log'.twice
  BY <1>0, <1>l, <1>g, <1>5 DEF Consumes, Frame
<1>6. ASSUME NEW r \in Req, NEW q \in Request, Finds(r, q) PROVE ~log'.twice
  BY <1>0, <1>l, <1>g, <1>6 DEF Finds, Frame, Same
<1>7. ASSUME NEW r \in Req, NEW q \in Request, Marks(r, q) PROVE ~log'.twice
  BY <1>0, <1>l, <1>g, <1>7 DEF Marks, Frame, MarkMoves
<1>8. ASSUME NEW r \in Req, NEW q \in Request, NEW g \in TotpCode, Proves(r, q, g)
      PROVE  ~log'.twice
  BY <1>0, <1>l, <1>g, <1>8 DEF Proves, Frame, ProveMoves
<1>9. ASSUME NEW r \in Req, NEW q \in Request, NEW x \in Recovery \ issued, Completes(r, q, x)
      PROVE  ~log'.twice
  BY <1>0, <1>l, <1>g, <1>9 DEF Completes, Frame, Same, Renews
<1>10. ASSUME NEW r \in Req, NEW q \in Request, NEW c \in Code, Saves(r, q, c)
      PROVE  ~log'.twice
  BY <1>0, <1>l, <1>g, <1>10 DEF Saves, Frame, Same
<1>11. ASSUME NEW r \in Req, NEW q \in Request, NEW p \in Purpose, Matches(r, q, p)
      PROVE  ~log'.twice
  BY <1>0, <1>l, <1>g, <1>11 DEF Matches, Frame, Same, Right
<1>12. ASSUME NEW r \in Req, NEW q \in Request, NEW p \in Purpose, Misses(r, q, p)
      PROVE  ~log'.twice
  BY <1>0, <1>l, <1>g, <1>12 DEF Misses, Frame, Same, Wrong, Meta
<1>13. ASSUME NEW r \in Req, DropsTotp(r) PROVE ~log'.twice
  BY <1>0, <1>l, <1>g, <1>13 DEF DropsTotp, Frame, DropMoves
<1>14. ASSUME NEW r \in Req, DropsEmail(r) PROVE ~log'.twice
  BY <1>0, <1>l, <1>g, <1>14 DEF DropsEmail, Frame, DropMoves
<1>15. ASSUME NEW r \in Req, Pends(r) PROVE ~log'.twice
  BY <1>0, <1>l, <1>g, <1>15 DEF Pends, Frame
<1>16. ASSUME NEW r \in Req, Deletes(r) PROVE ~log'.twice
  BY <1>0, <1>l, <1>g, <1>16 DEF Deletes, Frame
<1>17. ASSUME NEW r \in Req, NEW s \in Secret \ issued, Upserts(r, s) PROVE ~log'.twice
  BY <1>0, <1>l, <1>g, <1>17 DEF Upserts, Inserts, Frame
<1>18. ASSUME NEW r \in Req, NEW x \in Recovery \ issued, Enables(r, x) PROVE ~log'.twice
  BY <1>0, <1>l, <1>g, <1>18 DEF Enables, Frame, Renews
<1>19. CASE Removes
  BY <1>0, <1>l, <1>g, <1>19 DEF Removes, RemoveMoves
<1>20. CASE Elapses
  BY <1>0, <1>l, <1>g, <1>20 DEF Elapses
<1>21. ASSUME NEW f \in Others, NEW x \in Recovery \ issued, Foreign(f, x)
      PROVE  ~log'.twice
  BY <1>0, <1>l, <1>g, <1>21 DEF Foreign, Renews
<1> QED
  BY Steps, <1>1, <1>2, <1>3, <1>4, <1>5, <1>6, <1>7, <1>8, <1>9, <1>10, <1>11, <1>12,
     <1>13, <1>14, <1>15, <1>16, <1>17, <1>18, <1>19, <1>20,
     <1>21
  DEF Kinds

\* A code that has used up its attempts gets no other guess.
LEMMA GuessStep == IInv /\ [Next]_vars => QuietInv' /\ \A c \in Code : log'.guesses[c] =< MaxAttempts
<1> SUFFICES ASSUME IInv, [Next]_vars, log'.quiet PROVE QuietInv' /\ \A c \in Code : log'.guesses[c] =< MaxAttempts
  BY LoneStep, MfaAssumption DEF LoneInv, Blank, QuietInv
<1>0. TypeOK /\ ControlInv /\ CodeInv /\ QuietInv /\ SingleUse
  BY DEF IInv
<1>i. Idle.pc = "idle" /\ Idle \in Request /\ Idle.late = FALSE
  BY IdleType
<1>q. LoneInv'
  BY LoneStep
<1>b. \A c \in Code : log.guesses[c] \in Nat /\ log.guesses[c] =< MaxAttempts
  BY <1>0 DEF SingleUse, TypeOK, Log
<1>l. /\ \A c \in Code : Guessed(c).guesses = [log.guesses EXCEPT ![c] = @ + 1]
      /\ \A g \in Given : Accepted(g).guesses = log.guesses
  BY <1>0, LogTypes DEF TypeOK
<1>g. \A r \in Req : req[r].given \in Given /\ req[r].purpose \in Purpose
  BY <1>0 DEF TypeOK, Request
<1> USE DEF At
<1>1. ASSUME NEW r \in Req, NEW q \in Request, Passes(r, q)
      PROVE  QuietInv' /\ \A c \in Code : log'.guesses[c] =< MaxAttempts
  <2>1. /\ log' = log /\ log.quiet /\ req'[r] = q
        /\ \A s \in Req \ {r} : req[s] = Idle /\ req'[s] = Idle
    BY <1>0, <1>1, LoneStep, QuietFrame DEF Passes
  <2> QED
    BY <1>0, <1>i, <1>b, <1>l, <1>g, Constants, <1>1, <2>1 DEF Passes, QuietInv, TypeOK,
      CodeInv
<1>2. ASSUME NEW r \in Req, NEW q \in Request, Counts(r, q)
      PROVE  QuietInv' /\ \A c \in Code : log'.guesses[c] =< MaxAttempts
  <2>1. /\ log' = log /\ log.quiet /\ req'[r] = q
        /\ \A s \in Req \ {r} : req[s] = Idle /\ req'[s] = Idle
    BY <1>0, <1>2, LoneStep, QuietFrame DEF Counts
  <2> QED
    BY <1>0, <1>i, <1>b, <1>l, <1>g, Constants, <1>2, <2>1 DEF Counts, CountMoves, Same,
      QuietInv, TypeOK, CodeInv
<1>3. ASSUME NEW r \in Req, NEW q \in Request, Checks(r, q)
      PROVE  QuietInv' /\ \A c \in Code : log'.guesses[c] =< MaxAttempts
  <2>1. /\ log' = log /\ log.quiet /\ req'[r] = q
        /\ \A s \in Req \ {r} : req[s] = Idle /\ req'[s] = Idle
    BY <1>0, <1>3, LoneStep, QuietFrame DEF Checks
  <2> QED
    BY <1>0, <1>i, <1>b, <1>l, <1>g, Constants, <1>3, <2>1 DEF Checks, Same, QuietInv,
      TypeOK, CodeInv
<1>4. ASSUME NEW r \in Req, NEW q \in Request, Records(r, q)
      PROVE  QuietInv' /\ \A c \in Code : log'.guesses[c] =< MaxAttempts
  <2>1. /\ log' = Accepted(req[r].given) /\ log.quiet /\ req'[r] = q
        /\ \A s \in Req \ {r} : req[s] = Idle /\ req'[s] = Idle
    BY <1>0, <1>4, LoneStep, QuietFrame DEF Records
  <2> QED
    BY <1>0, <1>i, <1>b, <1>l, <1>g, Constants, <1>4, <2>1 DEF Records, RecordMoves,
      QuietInv, TypeOK, CodeInv
<1>5. ASSUME NEW r \in Req, NEW q \in Request, Consumes(r, q)
      PROVE  QuietInv' /\ \A c \in Code : log'.guesses[c] =< MaxAttempts
  <2>1. /\ log' = Accepted(req[r].given) /\ log.quiet /\ req'[r] = q
        /\ \A s \in Req \ {r} : req[s] = Idle /\ req'[s] = Idle
    BY <1>0, <1>5, LoneStep, QuietFrame DEF Consumes
  <2>2. /\ age' = age /\ otp' = [otp EXCEPT !["login"] = NoMeta]
        /\ req[r].pc = "consume" /\ q.pc = "status"
    BY <1>5 DEF Consumes, At
  <2>3. log'.guesses = log.guesses
    BY <1>l, <1>g, <2>1
  <2>4. \A s \in Req : req[s].pc # "bump" /\ req'[s].pc # "bump"
    BY <1>i, <2>1, <2>2
  <2>5. otp'["login"] = NoMeta /\ otp'["enroll"] = otp["enroll"]
    BY <1>0, <2>2 DEF TypeOK, Purpose
  <2>6. \A p \in Purpose : otp'[p] = NoMeta \/ otp'[p] = otp[p]
    BY <2>5 DEF Purpose
  <2> QED
    BY <1>0, <1>b, Constants, <2>1, <2>2, <2>3, <2>4, <2>5, <2>6
    DEF QuietInv, TypeOK, NoMeta, Meta, Purpose
<1>6. ASSUME NEW r \in Req, NEW q \in Request, Finds(r, q)
      PROVE  QuietInv' /\ \A c \in Code : log'.guesses[c] =< MaxAttempts
  <2>1. /\ log' = log /\ log.quiet /\ req'[r] = q
        /\ \A s \in Req \ {r} : req[s] = Idle /\ req'[s] = Idle
    BY <1>0, <1>6, LoneStep, QuietFrame DEF Finds
  <2> QED
    BY <1>0, <1>i, <1>b, <1>l, <1>g, Constants, <1>6, <2>1 DEF Finds, Same, QuietInv,
      TypeOK, CodeInv
<1>7. ASSUME NEW r \in Req, NEW q \in Request, Marks(r, q)
      PROVE  QuietInv' /\ \A c \in Code : log'.guesses[c] =< MaxAttempts
  <2>1. /\ log' = Accepted(req[r].given) /\ log.quiet /\ req'[r] = q
        /\ \A s \in Req \ {r} : req[s] = Idle /\ req'[s] = Idle
    BY <1>0, <1>7, LoneStep, QuietFrame DEF Marks
  <2>2. UNCHANGED <<age, otp>> /\ req[r].pc = "mark" /\ q.pc = "status"
    BY <1>7 DEF Marks
  <2>3. log'.guesses = log.guesses
    BY <1>l, <1>g, <2>1
  <2>4. \A s \in Req : req[s].pc # "bump" /\ req'[s].pc # "bump"
    BY <1>i, <2>1, <2>2
  <2> QED
    BY <1>0, <1>b, <2>1, <2>2, <2>3, <2>4 DEF QuietInv
<1>8. ASSUME NEW r \in Req, NEW q \in Request, NEW g \in TotpCode, Proves(r, q, g)
      PROVE  QuietInv' /\ \A c \in Code : log'.guesses[c] =< MaxAttempts
  <2>1. /\ log' = log /\ log.quiet /\ req'[r] = q
        /\ \A s \in Req \ {r} : req[s] = Idle /\ req'[s] = Idle
    BY <1>0, <1>8, LoneStep, QuietFrame DEF Proves
  <2> QED
    BY <1>0, <1>i, <1>b, <1>l, <1>g, Constants, <1>8, <2>1 DEF Proves, ProveMoves,
      QuietInv, TypeOK, CodeInv
<1>9. ASSUME NEW r \in Req, NEW q \in Request, NEW x \in Recovery \ issued, Completes(r, q, x)
      PROVE  QuietInv' /\ \A c \in Code : log'.guesses[c] =< MaxAttempts
  <2>1. /\ log' = Accepted(req[r].given) /\ log.quiet /\ req'[r] = q
        /\ \A s \in Req \ {r} : req[s] = Idle /\ req'[s] = Idle
    BY <1>0, <1>9, LoneStep, QuietFrame DEF Completes
  <2> QED
    BY <1>0, <1>i, <1>b, <1>l, <1>g, Constants, <1>9, <2>1 DEF Completes, Same, Renews,
      QuietInv, TypeOK, CodeInv
<1>10. ASSUME NEW r \in Req, NEW q \in Request, NEW x \in Code, Saves(r, q, x)
      PROVE  QuietInv' /\ \A c \in Code : log'.guesses[c] =< MaxAttempts
  <2>1. /\ log' = log /\ log.quiet /\ req'[r] = q
        /\ \A s \in Req \ {r} : req[s] = Idle /\ req'[s] = Idle
    BY <1>0, <1>10, LoneStep, QuietFrame DEF Saves
  <2> QED
    BY <1>0, <1>i, <1>b, <1>l, <1>g, Constants, <1>10, <2>1 DEF Saves, Same, QuietInv,
      TypeOK, CodeInv
<1>11. ASSUME NEW r \in Req, NEW q \in Request, NEW p \in Purpose, Matches(r, q, p)
      PROVE  QuietInv' /\ \A c \in Code : log'.guesses[c] =< MaxAttempts
  <2>1. /\ log' = log /\ log.quiet /\ req'[r] = q
        /\ \A s \in Req \ {r} : req[s] = Idle /\ req'[s] = Idle
    BY <1>0, <1>11, LoneStep, QuietFrame DEF Matches
  <2> QED
    BY <1>0, <1>i, <1>b, <1>l, <1>g, Constants, <1>11, <2>1 DEF Matches, Same, Right,
      QuietInv, TypeOK, CodeInv
<1>12. ASSUME NEW r \in Req, NEW q \in Request, NEW p \in Purpose, Misses(r, q, p)
      PROVE  QuietInv' /\ \A c \in Code : log'.guesses[c] =< MaxAttempts
  <2>1. /\ log' = Guessed(otp[p].code) /\ log.quiet /\ req'[r] = q
        /\ \A s \in Req \ {r} : req[s] = Idle /\ req'[s] = Idle
    BY <1>0, <1>12, LoneStep, QuietFrame DEF Misses
  <2>2. /\ otp[p] \in Meta /\ otp[p].code \in Code /\ otp[p].attempts < MaxAttempts
        /\ otp[p].attempts \in Nat /\ age[otp[p].code] # "unused"
        /\ log.guesses[otp[p].code] =< otp[p].attempts
    BY <1>0, <1>i, <1>12, <2>1, Constants DEF Misses, Wrong, CodeInv, QuietInv, At
  <2>3. \A c \in Code :
          log'.guesses[c] = IF c = otp[p].code THEN log.guesses[c] + 1 ELSE log.guesses[c]
    <3>1. log'.guesses = [log.guesses EXCEPT ![otp[p].code] = @ + 1]
      BY <1>l, <2>1, <2>2
    <3>2. log.guesses \in [Code -> Nat]
      BY <1>0 DEF TypeOK, Log
    <3> QED
      BY <2>2, <3>1, <3>2
  <2>4. UNCHANGED <<age, otp>> /\ At(r, "bump")' /\ req'[r].purpose = p /\ req'[r].meta = otp[p]
    BY <1>12, <2>1 DEF Misses, At
  <2>5. \A s \in Purpose \ {p} : otp[s] # NoMeta => otp[s].code # otp[p].code /\ otp[s].code \in Code
    BY <1>0, <2>1, <2>2, Constants DEF QuietInv, Purpose, TypeOK
  <2>6. \A s \in Req \ {r} : ~At(s, "bump") /\ ~At(s, "bump")'
    BY <1>i, <2>1 DEF At
  <2>7. ~At(r, "bump")
    BY <1>12 DEF Misses, At
  <2>8. \A c \in Code : log'.guesses[c] =< MaxAttempts
    BY <1>b, <2>2, <2>3, MfaAssumption
  <2>9. QuietInv'
    <3>1. \A c \in Code : age'[c] = "unused" => log'.guesses[c] = 0
      BY <1>0, <2>1, <2>2, <2>3, <2>4 DEF QuietInv
    <3>2. \A s \in Purpose : otp'[s] # NoMeta =>
            \/ log'.guesses[otp'[s].code] =< otp'[s].attempts
            \/ \E u \in Req : At(u, "bump")' /\ req'[u].purpose = s
      BY <1>0, <2>1, <2>3, <2>4, <2>5, <2>6, <2>7 DEF QuietInv
    <3>3. \A u \in Req : At(u, "bump")' =>
            /\ otp'[req'[u].purpose] = req'[u].meta
            /\ log'.guesses[req'[u].meta.code] =< req'[u].meta.attempts + 1
      BY <1>b, <2>2, <2>3, <2>4, <2>6
    <3>4. otp'["enroll"] # NoMeta => otp'["enroll"].code # otp'["login"].code
      BY <1>0, <2>1, <2>4 DEF QuietInv
    <3> QED
      BY <3>1, <3>2, <3>3, <3>4 DEF QuietInv
  <2> QED
    BY <2>8, <2>9
<1>13. ASSUME NEW r \in Req, DropsTotp(r)
      PROVE  QuietInv' /\ \A c \in Code : log'.guesses[c] =< MaxAttempts
  <2>1. /\ log' = log /\ log.quiet /\ req'[r] = Idle
        /\ \A s \in Req \ {r} : req[s] = Idle /\ req'[s] = Idle
    BY <1>0, <1>13, LoneStep, QuietFrame DEF DropsTotp
  <2> QED
    BY <1>0, <1>i, <1>b, <1>l, <1>g, Constants, <1>13, <2>1 DEF DropsTotp, DropMoves,
      QuietInv, TypeOK, CodeInv
<1>14. ASSUME NEW r \in Req, DropsEmail(r)
      PROVE  QuietInv' /\ \A c \in Code : log'.guesses[c] =< MaxAttempts
  <2>1. /\ log' = log /\ log.quiet /\ req'[r] = Idle
        /\ \A s \in Req \ {r} : req[s] = Idle /\ req'[s] = Idle
    BY <1>0, <1>14, LoneStep, QuietFrame DEF DropsEmail
  <2> QED
    BY <1>0, <1>i, <1>b, <1>l, <1>g, Constants, <1>14, <2>1 DEF DropsEmail, DropMoves,
      QuietInv, TypeOK, CodeInv
<1>15. ASSUME NEW r \in Req, Pends(r)
      PROVE  QuietInv' /\ \A c \in Code : log'.guesses[c] =< MaxAttempts
  <2>1. /\ log' = log /\ log.quiet /\ req'[r] = Idle
        /\ \A s \in Req \ {r} : req[s] = Idle /\ req'[s] = Idle
    BY <1>0, <1>15, LoneStep, QuietFrame DEF Pends
  <2> QED
    BY <1>0, <1>i, <1>b, <1>l, <1>g, Constants, <1>15, <2>1 DEF Pends, QuietInv, TypeOK,
      CodeInv
<1>16. ASSUME NEW r \in Req, Deletes(r)
      PROVE  QuietInv' /\ \A c \in Code : log'.guesses[c] =< MaxAttempts
  <2>1. /\ log' = log /\ log.quiet /\ req'[r] = Idle
        /\ \A s \in Req \ {r} : req[s] = Idle /\ req'[s] = Idle
    BY <1>0, <1>16, LoneStep, QuietFrame DEF Deletes
  <2> QED
    BY <1>0, <1>i, <1>b, <1>l, <1>g, Constants, <1>16, <2>1 DEF Deletes, QuietInv, TypeOK,
      CodeInv
<1>17. ASSUME NEW r \in Req, NEW s \in Secret \ issued, Upserts(r, s)
      PROVE  QuietInv' /\ \A c \in Code : log'.guesses[c] =< MaxAttempts
  <2>1. /\ log' = log /\ log.quiet /\ req'[r] = Idle
        /\ \A p \in Req \ {r} : req[p] = Idle /\ req'[p] = Idle
    BY <1>0, <1>17, LoneStep, QuietFrame DEF Upserts
  <2> QED
    BY <1>0, <1>i, <1>b, <1>l, <1>g, Constants, <1>17, <2>1 DEF Upserts, QuietInv, TypeOK, CodeInv
<1>18. ASSUME NEW r \in Req, NEW x \in Recovery \ issued, Enables(r, x)
      PROVE  QuietInv' /\ \A c \in Code : log'.guesses[c] =< MaxAttempts
  <2>1. /\ log' = Accepted(req[r].given) /\ log.quiet /\ req'[r] = Idle
        /\ \A s \in Req \ {r} : req[s] = Idle /\ req'[s] = Idle
    BY <1>0, <1>18, LoneStep, QuietFrame DEF Enables
  <2>2. UNCHANGED <<age, otp>> /\ req[r].pc = "completeTotp"
    BY <1>18 DEF Enables
  <2>3. log'.guesses = log.guesses
    BY <1>l, <1>g, <2>1
  <2>4. \A s \in Req : req[s].pc # "bump" /\ req'[s].pc # "bump"
    BY <1>i, <2>1, <2>2
  <2> QED
    BY <1>0, <1>b, <2>1, <2>2, <2>3, <2>4 DEF QuietInv
<1>19. CASE Removes
  BY <1>0, <1>i, <1>b, <1>l, <1>g, Constants, <1>19 DEF Removes, RemoveMoves, QuietInv,
      TypeOK, CodeInv
<1>20. CASE Elapses
  BY <1>0, <1>i, <1>b, <1>l, <1>g, Constants, <1>20 DEF Elapses, QuietInv, TypeOK, CodeInv
<1>21. ASSUME NEW f \in Others, NEW x \in Recovery \ issued, Foreign(f, x)
      PROVE  QuietInv' /\ \A c \in Code : log'.guesses[c] =< MaxAttempts
  BY <1>0, <1>i, <1>b, <1>l, <1>g, Constants, <1>21 DEF Foreign, Renews, QuietInv,
      TypeOK, CodeInv
<1> QED
  BY Steps, <1>1, <1>2, <1>3, <1>4, <1>5, <1>6, <1>7, <1>8, <1>9, <1>10, <1>11, <1>12,
     <1>13, <1>14, <1>15, <1>16, <1>17, <1>18, <1>19, <1>20,
     <1>21
  DEF Kinds

\* Every step preserves the invariant.
LEMMA IInvStep == IInv /\ [Next]_vars => IInv'
<1> SUFFICES ASSUME IInv, [Next]_vars PROVE IInv'
  OBVIOUS
<1>1. TypeOK' /\ ControlInv' /\ CodeInv' /\ IssueInv'
  BY TypeStep, ControlStep, CodeStep, IssueStep
<1>2. FallbackExists' /\ ProofInv' /\ SecretProved' /\ SpentInv' /\ RecoverySpent'
  BY FallbackStep, ProofStep, SpentStep
<1>3. LoneInv' /\ UsedInv' /\ FreshInv' /\ QuietInv' /\ PendingInv'
  BY LoneStep, UsedStep, FreshStep, GuessStep, PendingStep
<1>4. SingleUse'
  BY OnceStep, GuessStep DEF SingleUse
<1> QED
  BY <1>1, <1>2, <1>3, <1>4 DEF IInv

-----------------------------------------------------------------------------
(* Theorems *)

\* The inductive invariant holds in every reachable state.
THEOREM Invariance == Spec => []IInv
  BY InitIInv, IInvStep, PTL DEF Spec

\* Every variable keeps its type: rows, Redis keys, locals and histories.
THEOREM TypeCorrect == Spec => []TypeOK
<1>1. IInv => TypeOK
  BY DEF IInv
<1> QED
  BY <1>1, Invariance, PTL

\* However enrolments, disablings and clean-ups overlap and calls fail, a
\* factor that is on has recovery codes: the transactions of
\* CompleteMFAEnrollment and CompleteOTPFactorEnrollment write both or neither.
THEOREM FallbackKept == Spec => []FallbackExists
<1>1. IInv => FallbackExists
  BY DEF IInv
<1> QED
  BY <1>1, Invariance, PTL

\* However enrolments overlap, a TOTP factor that still has the secret of its
\* INSERT is on only if a valid code was shown for that secret:
\* CompleteMFAEnrollment means the row that VerifyMFAEnrollment read.
THEOREM SecretsAreProved == Spec => []SecretProved
<1>1. IInv => SecretProved
  BY DEF IInv
<1> QED
  BY <1>1, Invariance, PTL

\* However logins overlap, a login that begins after a recovery code was
\* marked used does not get past GetUnusedMFARecoveryCode with it.
THEOREM SpentStaysSpent == Spec => []RecoverySpent
<1>1. IInv => RecoverySpent
  BY DEF IInv
<1> QED
  BY <1>1, Invariance, PTL

\* As long as requests do not overlap and no call fails, no TOTP, mailed or
\* recovery code is accepted twice, by an enrolment or a login, and a mailed
\* code gets at most MaxAttempts wrong guesses.
THEOREM CodesAcceptedOnce == Spec => []SingleUse
<1>1. IInv => SingleUse
  BY DEF IInv
<1> QED
  BY <1>1, Invariance, PTL

OffByRequest ==
    /\ TurnsOff(totp) => ByStep("deleteTotp") \/ Overlapping("upsertTotp")
    /\ TurnsOff(email) => ByStep("deleteEmail") \/ Overlapping("upsertEmail")

\* No step but that of a disabling request, or of an enrolment that others
\* overlapped, switches a factor off.
LEMMA DisableStep == IInv /\ [Next]_vars => OffByRequest
<1> SUFFICES ASSUME IInv, [Next]_vars PROVE OffByRequest
  OBVIOUS
<1>0. TypeOK /\ ControlInv /\ PendingInv
  BY DEF IInv
<1>i. Idle.pc = "idle" /\ Idle \in Request /\ Idle.late = FALSE
  BY IdleType
<1> USE DEF TypeOK, OffByRequest, ByStep, ByRequest, Overlapping, TurnsOff, At
<1>1. ASSUME NEW r \in Req, NEW q \in Request, Passes(r, q)
      PROVE  OffByRequest
  BY <1>0, <1>i, Constants, <1>1 DEF Passes, Frame
<1>2. ASSUME NEW r \in Req, NEW q \in Request, Counts(r, q)
      PROVE  OffByRequest
  BY <1>0, <1>i, Constants, <1>2 DEF Counts, Frame, CountMoves, Same
<1>3. ASSUME NEW r \in Req, NEW q \in Request, Checks(r, q)
      PROVE  OffByRequest
  BY <1>0, <1>i, Constants, <1>3 DEF Checks, Frame, Same
<1>4. ASSUME NEW r \in Req, NEW q \in Request, Records(r, q)
      PROVE  OffByRequest
  BY <1>0, <1>i, Constants, <1>4 DEF Records, Frame, RecordMoves
<1>5. ASSUME NEW r \in Req, NEW q \in Request, Consumes(r, q)
      PROVE  OffByRequest
  BY <1>0, <1>i, Constants, <1>5 DEF Consumes, Frame
<1>6. ASSUME NEW r \in Req, NEW q \in Request, Finds(r, q)
      PROVE  OffByRequest
  BY <1>0, <1>i, Constants, <1>6 DEF Finds, Frame, Same
<1>7. ASSUME NEW r \in Req, NEW q \in Request, Marks(r, q)
      PROVE  OffByRequest
  BY <1>0, <1>i, Constants, <1>7 DEF Marks, Frame, MarkMoves
<1>8. ASSUME NEW r \in Req, NEW q \in Request, NEW g \in TotpCode, Proves(r, q, g)
      PROVE  OffByRequest
  BY <1>0, <1>i, Constants, <1>8 DEF Proves, Frame, ProveMoves
<1>9. ASSUME NEW r \in Req, NEW q \in Request, NEW x \in Recovery \ issued, Completes(r, q, x)
      PROVE  OffByRequest
  BY <1>0, <1>i, Constants, <1>9 DEF Completes, Frame, Same, Renews
<1>10. ASSUME NEW r \in Req, NEW q \in Request, NEW c \in Code, Saves(r, q, c)
      PROVE  OffByRequest
  BY <1>0, <1>i, Constants, <1>10 DEF Saves, Frame, Same
<1>11. ASSUME NEW r \in Req, NEW q \in Request, NEW p \in Purpose, Matches(r, q, p)
      PROVE  OffByRequest
  BY <1>0, <1>i, Constants, <1>11 DEF Matches, Frame, Same, Right
<1>12. ASSUME NEW r \in Req, NEW q \in Request, NEW p \in Purpose, Misses(r, q, p)
      PROVE  OffByRequest
  BY <1>0, <1>i, Constants, <1>12 DEF Misses, Frame, Same, Wrong
<1>13. ASSUME NEW r \in Req, DropsTotp(r)
      PROVE  OffByRequest
  BY <1>0, <1>i, Constants, <1>13 DEF DropsTotp, Frame, DropMoves
<1>14. ASSUME NEW r \in Req, DropsEmail(r)
      PROVE  OffByRequest
  BY <1>0, <1>i, Constants, <1>14 DEF DropsEmail, Frame, DropMoves
<1>15. ASSUME NEW r \in Req, Pends(r) PROVE OffByRequest
  <2>1. log'.quiet => ~email.on
    <3>1. ASSUME log'.quiet PROVE ~email.on
      <4>1. log.quiet
        BY <1>0, <1>15, <3>1, LoneStep, QuietFrame DEF Pends
      <4> QED
        BY <1>0, <1>15, <4>1 DEF Pends, PendingInv, ControlInv, Locals
    <3> QED
      BY <3>1
  <2>2. req[r].pc = "upsertEmail" /\ req'[r] = Idle /\ totp' = totp
    BY <1>0, <1>15 DEF Pends, Frame
  <2> QED
    BY <2>1, <2>2
<1>16. ASSUME NEW r \in Req, Deletes(r)
      PROVE  OffByRequest
  BY <1>0, <1>i, Constants, <1>16 DEF Deletes, Frame
<1>17. ASSUME NEW r \in Req, NEW s \in Secret \ issued, Upserts(r, s) PROVE OffByRequest
  <2>1. log'.quiet => ~totp.on
    <3>1. ASSUME log'.quiet PROVE ~totp.on
      <4>1. log.quiet
        BY <1>0, <1>17, <3>1, LoneStep, QuietFrame DEF Upserts
      <4> QED
        BY <1>0, <1>17, <4>1, Constants DEF Upserts, PendingInv
    <3> QED
      BY <3>1
  <2>2. req[r].pc = "upsertTotp" /\ req'[r] = Idle /\ email' = email
    BY <1>0, <1>17 DEF Upserts, Inserts, Frame
  <2> QED
    BY <2>1, <2>2
<1>18. ASSUME NEW r \in Req, NEW x \in Recovery \ issued, Enables(r, x)
      PROVE  OffByRequest
  BY <1>0, <1>i, Constants, <1>18 DEF Enables, Frame, Renews
<1>19. CASE Removes
  BY <1>0, <1>i, Constants, <1>19 DEF Removes, RemoveMoves
<1>20. CASE Elapses
  BY <1>0, <1>i, Constants, <1>20 DEF Elapses
<1>21. ASSUME NEW f \in Others, NEW x \in Recovery \ issued, Foreign(f, x)
      PROVE  OffByRequest
  BY <1>0, <1>i, Constants, <1>21 DEF Foreign, Renews
<1> QED
  BY Steps, <1>1, <1>2, <1>3, <1>4, <1>5, <1>6, <1>7, <1>8, <1>9, <1>10, <1>11, <1>12,
     <1>13, <1>14, <1>15, <1>16, <1>17, <1>18, <1>19, <1>20,
     <1>21
  DEF Kinds

\* However requests overlap, no login, no clean-up job and no late enrolment's
\* transaction switches a factor off: DeleteTOTPFactor and DeleteOTPFactor do,
\* which DisableMFA and DisableEmailMFA reach with the password, and, once
\* requests have overlapped or calls failed, the upsert of an enrolment.
THEOREM DisablingNeedsPassword == Spec => DisableNeedsPassword
<1>1. IInv /\ [Next]_vars => [OffByRequest]_vars
  BY DisableStep
<1> QED
  BY <1>1, Invariance, PTL DEF Spec, DisableNeedsPassword, OffByRequest
==============================================================================
