---------------------------- MODULE SignupProofs ----------------------------
(***************************************************************************)
(* Theorems about Signup, for any number of requests, emails, provider     *)
(* accounts, codes and tokens.  That accounts are proved, unique and the   *)
(* only ones sessions are issued on holds however requests overlap and     *)
(* calls fail; the bounds on a code hold for quiet histories.              *)
(***************************************************************************)
EXTENDS Signup, FiniteSetTheorems, TLAPS

\* Which locals a program counter has set.
ControlInv ==
    \A r \in Req :
        LET q == req[r] IN
        /\ q.pc # "idle" => q.email \in Email
        /\ q.pc \in {"bump", "token", "consume"} => q.meta \in Meta
        /\ q.pc = "bump" => q.meta.attempts < MaxAttempts
        /\ q.pc \in {"consume", "name", "createEmail", "deltemp"} => q.token \in Token
        /\ q.pc \in {"conflict", "candidate", "createSSO"} => q.sub \in Subject
        /\ q.pc = "issue" => q.key \in Email \cup Subject

\* The code stored under an email, and the one a request has read there, was
\* made for that email.
CodeInv ==
    /\ \A e \in Email : codes[e] # NoMeta =>
         owner[codes[e].code] = e /\ age[codes[e].code] # "unused"
    /\ \A r \in Req : req[r].pc \in {"bump", "token", "consume"} =>
         owner[req[r].meta.code] = req[r].email /\ age[req[r].meta.code] # "unused"

\* A request past the code, and every joiner token a client holds, is for an
\* email whose code was presented.
ProofInv ==
    /\ \A r \in Req : req[r].pc \in {"token", "consume", "name", "createEmail"} =>
         req[r].email \in proved
    /\ \A r \in Req : At(r, "consume") => subject[req[r].token] = req[r].email
    /\ \A t \in handed : subject[t] \in proved

\* Accounts and identities correspond one to one.
AccountInv ==
    /\ \A u, v \in users : u # v => u.email # v.email /\ u.name # v.name
    /\ \A i, j \in identities : i.key = j.key \/ i.user = j.user => i = j
    /\ \A u \in users : \E i \in identities : i.user = u.email
    /\ \A i \in identities : \E u \in users : u.email = i.user

\* A session about to be issued is for the account of the identity presented.
IssueInv == \A r \in Req : At(r, "issue") => [key |-> req[r].key, user |-> req[r].email] \in identities

\* While the history is quiet there is at most one request.
LoneInv ==
    /\ ~log.quiet => log = Blank(FALSE)
    /\ log.quiet => \A q, r \in Req : req[q] # Idle /\ req[r] # Idle => q = r

\* What a quiet history has seen of a code: nothing of an unused one; of a
\* stored one no more guesses than its metadata say, or will say once the
\* request that read it has saved it; and no token was given for it.
QuietInv == log.quiet =>
    /\ \A c \in Code : age[c] = "unused" => log.guesses[c] = 0 /\ log.passed[c] = 0
    /\ \A e \in Email : codes[e] # NoMeta =>
         /\ log.passed[codes[e].code] = 0
         /\ \/ log.guesses[codes[e].code] =< codes[e].attempts
            \/ \E r \in Req : At(r, "bump") /\ req[r].meta = codes[e]
    /\ \A r \in Req : req[r].pc \in {"bump", "token", "consume"} =>
         /\ log.passed[req[r].meta.code] = 0
         /\ codes[req[r].email] \in {req[r].meta, NoMeta}
    /\ \A r \in Req : At(r, "bump") =>
         log.guesses[req[r].meta.code] =< req[r].meta.attempts + 1

\* TypeOK but for the requests and the log.
StoresOK ==
    /\ codes \in [Email -> Meta \cup {NoMeta}]
    /\ age \in [Code -> {"unused", "young", "old", "expired"}]
    /\ owner \in [Code -> Email \cup {NoEmail}]
    /\ subject \in [Token -> Email \cup {NoEmail}]
    /\ live \subseteq Token /\ handed \subseteq Token
    /\ users \subseteq User /\ identities \subseteq Identity
    /\ blocked \subseteq Email /\ proved \subseteq Email
    /\ opened \subseteq Identity

IInv ==
    /\ TypeOK /\ ControlInv
    /\ CodeInv /\ ProofInv /\ AccountProved
    /\ AccountInv /\ IssueInv /\ SessionsOwned
    /\ LoneInv /\ QuietInv /\ CodeBounds

-----------------------------------------------------------------------------
\* The state of a free request slot is a request.
LEMMA IdleType == Idle \in Request /\ Idle.pc = "idle"
  BY SignupAssumption DEF Idle, Request, Pc, Username

\* The initial state satisfies the invariant.
LEMMA InitIInv == Init => IInv
<1> SUFFICES ASSUME Init PROVE IInv
  OBVIOUS
<1> USE SignupAssumption DEF Init, Idle
<1>1. TypeOK
  <2>1. req \in [Req -> Request]
    BY IdleType
  <2>2. log \in Log
    BY DEF Log, Blank
  <2> QED
    BY <2>1, <2>2 DEF TypeOK
<1>2. ControlInv /\ CodeInv /\ ProofInv /\ AccountProved
  BY DEF ControlInv, CodeInv, ProofInv, AccountProved, At
<1>3. AccountInv /\ IssueInv /\ SessionsOwned
  BY DEF AccountInv, IssueInv, SessionsOwned, At
<1>4. LoneInv /\ QuietInv /\ CodeBounds
  BY DEF LoneInv, QuietInv, CodeBounds, Blank, At
<1> QED
  BY <1>1, <1>2, <1>3, <1>4 DEF IInv

\* SSOLogin goes on with the account of an identity, or to make one.
LEMMA SSOEffect ==
    ASSUME TypeOK, NEW r \in Req, NEW s \in Subject, NEW e \in Email, SSOLogin(r, s, e)
    PROVE  \E q \in Request :
             /\ req' = [req EXCEPT ![r] = q] /\ q.pc \in {"issue", "conflict"} /\ q.email \in Email
             /\ q.pc = "issue" => /\ q.key \in Email \cup Subject
                                  /\ [key |-> q.key, user |-> q.email] \in identities
             /\ q.pc = "conflict" => q.sub \in Subject
<1>1. CASE \E i \in identities :
             /\ i.key = s
             /\ req' = [req EXCEPT ![r] = [Idle EXCEPT !.pc = "issue", !.email = i.user, !.key = s]]
  <2>1. PICK i \in identities :
          /\ i.key = s
          /\ req' = [req EXCEPT ![r] = [Idle EXCEPT !.pc = "issue", !.email = i.user, !.key = s]]
    BY <1>1
  <2> DEFINE q == [Idle EXCEPT !.pc = "issue", !.email = i.user, !.key = s]
  <2>2. i \in Identity /\ i.user \in Email /\ i = [key |-> s, user |-> i.user]
    BY <2>1 DEF TypeOK, Identity
  <2>3. q \in Request /\ q.pc = "issue" /\ q.email = i.user /\ q.key = s
    BY <2>2, IdleType DEF Request, Pc
  <2>4. req' = [req EXCEPT ![r] = q]
    BY <2>1
  <2> HIDE DEF q
  <2> QED
    BY <2>2, <2>3, <2>4
<1>2. CASE req' = [req EXCEPT ![r] = [Idle EXCEPT !.pc = "conflict", !.email = e, !.sub = s]]
  <2> DEFINE q == [Idle EXCEPT !.pc = "conflict", !.email = e, !.sub = s]
  <2>1. q \in Request /\ q.pc = "conflict" /\ q.email = e /\ q.sub = s
    BY IdleType DEF Request, Pc
  <2>2. req' = [req EXCEPT ![r] = q]
    BY <1>2
  <2> HIDE DEF q
  <2> QED
    BY <2>1, <2>2
<1> QED
  BY <1>1, <1>2 DEF SSOLogin

\* GenerateTemporaryJWT ends the request or gives it a token of its own.
LEMMA TokenEffect ==
    ASSUME TypeOK, NEW r \in Req, NEW o \in Outcome, GenerateTemporaryJWT(r, o)
    PROVE  \E q \in Request :
             /\ req' = [req EXCEPT ![r] = q] /\ q.pc \in {"idle", "consume"}
             /\ q.pc = "idle" => UNCHANGED subject
             /\ q.pc = "consume" =>
                  /\ q.token \in Token /\ subject[q.token] = NoEmail
                  /\ subject' = [subject EXCEPT ![q.token] = req[r].email]
                  /\ q.email = req[r].email /\ q.meta = req[r].meta
<1>1. CASE req' = [req EXCEPT ![r] = Idle] /\ UNCHANGED subject
  BY <1>1, IdleType
<1>2. CASE \E t \in Token :
             /\ subject[t] = NoEmail /\ subject' = [subject EXCEPT ![t] = req[r].email]
             /\ req' = [req EXCEPT ![r] = [@ EXCEPT !.pc = "consume", !.token = t]]
  <2>1. PICK t \in Token :
          /\ subject[t] = NoEmail /\ subject' = [subject EXCEPT ![t] = req[r].email]
          /\ req' = [req EXCEPT ![r] = [@ EXCEPT !.pc = "consume", !.token = t]]
    BY <1>2
  <2> DEFINE q == [req[r] EXCEPT !.pc = "consume", !.token = t]
  <2>2. /\ q \in Request /\ q.pc = "consume" /\ q.token = t
        /\ q.email = req[r].email /\ q.meta = req[r].meta
    BY ZenonT(60) DEF TypeOK, Request, Pc
  <2>3. req' = [req EXCEPT ![r] = q]
    BY <2>1
  <2> HIDE DEF q
  <2> QED
    BY <2>1, <2>2, <2>3
<1> QED
  BY <1>1, <1>2 DEF GenerateTemporaryJWT, Finish

\* The account and the identity of it that key k names are new.
Creates(e, n, k) ==
    /\ ~Taken(n) /\ ~EmailUsed(e) /\ ~Registered(k)
    /\ users' = users \cup {[email |-> e, name |-> n]}
    /\ identities' = identities \cup {[key |-> k, user |-> e]}

\* A request that creates an account goes on to issue a session for it.
LEMMA CreateEffect ==
    ASSUME TypeOK, NEW r \in Req, NEW k \in Email \cup Subject,
           \/ req' = [req EXCEPT ![r] = Idle] /\ UNCHANGED <<users, identities>>
           \/ /\ req' = [req EXCEPT ![r] = [@ EXCEPT !.pc = "issue", !.key = k]]
              /\ Creates(req[r].email, req[r].name, k)
    PROVE  \E q \in Request :
             /\ req' = [req EXCEPT ![r] = q] /\ q.pc \in {"idle", "issue"}
             /\ q.pc = "idle" => UNCHANGED <<users, identities>>
             /\ q.pc = "issue" => /\ q.key = k /\ q.email = req[r].email
                                  /\ Creates(req[r].email, req[r].name, k)
<1> DEFINE q == [req[r] EXCEPT !.pc = "issue", !.key = k]
<1>1. CASE req' = [req EXCEPT ![r] = Idle] /\ UNCHANGED <<users, identities>>
  BY <1>1, IdleType
<1>2. q \in Request /\ q.pc = "issue" /\ q.key = k /\ q.email = req[r].email
  BY ZenonT(60) DEF TypeOK, Request, Pc
<1>3. CASE req' = [req EXCEPT ![r] = q] /\ Creates(req[r].email, req[r].name, k)
  <2> HIDE DEF q
  <2> QED
    BY <1>2, <1>3
<1> QED
  BY <1>1, <1>3

\* CreateEmailUser makes an account with the email as the identity's key.
LEMMA EmailEffect ==
    ASSUME TypeOK, ControlInv, NEW r \in Req, NEW o \in Outcome, CreateEmailUser(r, o)
    PROVE  \E q \in Request :
             /\ req' = [req EXCEPT ![r] = q] /\ q.pc \in {"idle", "issue"}
             /\ q.pc = "idle" => UNCHANGED <<users, identities>>
             /\ q.pc = "issue" => /\ q.key = req[r].email /\ q.email = req[r].email
                                  /\ Creates(req[r].email, req[r].name, req[r].email)
<1>1. req[r].email \in Email
  BY DEF CreateEmailUser, Calls, At, ControlInv
<1>2. \/ req' = [req EXCEPT ![r] = Idle] /\ UNCHANGED <<users, identities>>
      \/ /\ req' = [req EXCEPT ![r] = [@ EXCEPT !.pc = "issue", !.key = req[r].email]]
         /\ Creates(req[r].email, req[r].name, req[r].email)
  BY DEF CreateEmailUser, Finish, Creates
<1> QED
  BY <1>1, <1>2, CreateEffect

\* CreateSSOUserAndIdentity makes one with the provider's subject.
LEMMA SubjectEffect ==
    ASSUME TypeOK, ControlInv, NEW r \in Req, NEW o \in Outcome, CreateSSOUserAndIdentity(r, o)
    PROVE  \E q \in Request :
             /\ req' = [req EXCEPT ![r] = q] /\ q.pc \in {"idle", "issue"}
             /\ q.pc = "idle" => UNCHANGED <<users, identities>>
             /\ q.pc = "issue" => /\ q.key = req[r].sub /\ q.email = req[r].email
                                  /\ Creates(req[r].email, req[r].name, req[r].sub)
<1>1. req[r].sub \in Subject
  BY DEF CreateSSOUserAndIdentity, Calls, At, ControlInv
<1>2. \/ req' = [req EXCEPT ![r] = Idle] /\ UNCHANGED <<users, identities>>
      \/ /\ req' = [req EXCEPT ![r] = [@ EXCEPT !.pc = "issue", !.key = req[r].sub]]
         /\ Creates(req[r].email, req[r].name, req[r].sub)
  BY DEF CreateSSOUserAndIdentity, Finish, Creates
<1> QED
  BY <1>1, <1>2, CreateEffect

\* Every step keeps the requests within their type.
LEMMA RequestStep == IInv /\ [Next]_vars => req' \in [Req -> Request]
<1> SUFFICES ASSUME IInv, [Next]_vars PROVE req' \in [Req -> Request]
  OBVIOUS
<1> USE DEF TypeOK, ControlInv, Request, Pc, Identity, redis, pg, hist, At, Goto, Finish,
            Calls, Arriving
<1>0. TypeOK /\ ControlInv
  BY DEF IInv
<1>i. Idle.pc = "idle" /\ Idle \in Request
  BY IdleType
<1>1. ASSUME NEW r \in Req, NEW e \in Email, StartEmailVerification(r, e)
      PROVE  req' \in [Req -> Request]
  BY <1>0, <1>i, SignupAssumption, <1>1 DEF StartEmailVerification
<1>2. ASSUME NEW r \in Req, NEW e \in Email, NEW c \in Code \cup {NoCode}, VerifyEmailCode(r, e, c)
      PROVE  req' \in [Req -> Request]
  BY <1>0, <1>i, SignupAssumption, <1>2, ZenonT(60) DEF VerifyEmailCode
<1>3. ASSUME NEW r \in Req, NEW t \in Token, NEW n \in Username, CompleteEmailJoin(r, t, n)
      PROVE  req' \in [Req -> Request]
  BY <1>0, <1>i, SignupAssumption, <1>3, ZenonT(60) DEF CompleteEmailJoin
<1>4. ASSUME NEW r \in Req, NEW s \in Subject, NEW e \in Email, SSOLogin(r, s, e)
      PROVE  req' \in [Req -> Request]
  <2>1. PICK q \in Request :
          /\ req' = [req EXCEPT ![r] = q] /\ q.pc \in {"issue", "conflict"} /\ q.email \in Email
          /\ q.pc = "issue" => /\ q.key \in Email \cup Subject
                               /\ [key |-> q.key, user |-> q.email] \in identities
          /\ q.pc = "conflict" => q.sub \in Subject
    BY <1>0, <1>4, SSOEffect
  <2> QED
    BY <1>0, <1>i, SignupAssumption, <1>4, <2>1 DEF SSOLogin
<1>5. ASSUME NEW r \in Req, NEW o \in Outcome, CheckCooldown(r, o)
      PROVE  req' \in [Req -> Request]
  BY <1>0, <1>i, SignupAssumption, <1>5 DEF CheckCooldown
<1>6. ASSUME NEW r \in Req, NEW o \in Outcome, SaveNewCode(r, o)
      PROVE  req' \in [Req -> Request]
  BY <1>0, <1>i, SignupAssumption, <1>6 DEF SaveNewCode
<1>7. ASSUME NEW r \in Req, NEW o \in Outcome, SendEmailVerificationEmail(r, o)
      PROVE  req' \in [Req -> Request]
  BY <1>0, <1>i, SignupAssumption, <1>7 DEF SendEmailVerificationEmail
<1>8. ASSUME NEW r \in Req, NEW o \in Outcome, SaveFailedAttempt(r, o)
      PROVE  req' \in [Req -> Request]
  BY <1>0, <1>i, SignupAssumption, <1>8 DEF SaveFailedAttempt
<1>9. ASSUME NEW r \in Req, NEW o \in Outcome, GenerateTemporaryJWT(r, o)
      PROVE  req' \in [Req -> Request]
  <2>1. PICK q \in Request :
          /\ req' = [req EXCEPT ![r] = q] /\ q.pc \in {"idle", "consume"}
          /\ q.pc = "idle" => UNCHANGED subject
          /\ q.pc = "consume" =>
               /\ q.token \in Token /\ subject[q.token] = NoEmail
               /\ subject' = [subject EXCEPT ![q.token] = req[r].email]
               /\ q.email = req[r].email /\ q.meta = req[r].meta
    BY <1>0, <1>9, TokenEffect
  <2> QED
    BY <1>0, <1>i, SignupAssumption, <1>9, <2>1 DEF GenerateTemporaryJWT
<1>10. ASSUME NEW r \in Req, NEW o \in Outcome, ConsumeCode(r, o)
      PROVE  req' \in [Req -> Request]
  BY <1>0, <1>i, SignupAssumption, <1>10 DEF ConsumeCode
<1>11. ASSUME NEW r \in Req, NEW o \in Outcome, UsernameExists(r, o)
      PROVE  req' \in [Req -> Request]
  BY <1>0, <1>i, SignupAssumption, <1>11 DEF UsernameExists
<1>12. ASSUME NEW r \in Req, NEW o \in Outcome, CreateEmailUser(r, o)
      PROVE  req' \in [Req -> Request]
  <2>1. PICK q \in Request :
          /\ req' = [req EXCEPT ![r] = q] /\ q.pc \in {"idle", "issue"}
          /\ q.pc = "idle" => UNCHANGED <<users, identities>>
          /\ q.pc = "issue" => /\ q.key = req[r].email /\ q.email = req[r].email
                               /\ Creates(req[r].email, req[r].name, req[r].email)
    BY <1>0, <1>12, EmailEffect
  <2> QED
    BY <1>0, <1>i, SignupAssumption, <1>12, <2>1 DEF CreateEmailUser
<1>13. ASSUME NEW r \in Req, NEW o \in Outcome, issueLoginSession(r, o)
      PROVE  req' \in [Req -> Request]
  BY <1>0, <1>i, SignupAssumption, <1>13 DEF issueLoginSession
<1>14. ASSUME NEW r \in Req, NEW o \in Outcome, DeleteTemporarySession(r, o)
      PROVE  req' \in [Req -> Request]
  BY <1>0, <1>i, SignupAssumption, <1>14 DEF DeleteTemporarySession
<1>15. ASSUME NEW r \in Req, NEW o \in Outcome, GetUserIDByEmail(r, o)
      PROVE  req' \in [Req -> Request]
  BY <1>0, <1>i, SignupAssumption, <1>15 DEF GetUserIDByEmail
<1>16. ASSUME NEW r \in Req, NEW o \in Outcome, TryCandidate(r, o)
      PROVE  req' \in [Req -> Request]
  <2>1. CASE req' = [req EXCEPT ![r].name = @ + 1] /\ req[r].name + 1 < NameTries
    <3>1. req[r].name + 1 \in Username
      BY <1>0, <2>1, SignupAssumption DEF Username
    <3> QED
      BY <1>0, <2>1, <3>1
  <2>2. CASE \E p \in Pc : req' = [req EXCEPT ![r].pc = p]
    BY <1>0, <2>2
  <2>3. CASE req' = [req EXCEPT ![r] = Idle]
    BY <1>0, <1>i, <2>3
  <2> QED
    BY <1>0, <1>16, <2>1, <2>2, <2>3 DEF TryCandidate
<1>17. ASSUME NEW r \in Req, NEW o \in Outcome, CreateSSOUserAndIdentity(r, o)
      PROVE  req' \in [Req -> Request]
  <2>1. PICK q \in Request :
          /\ req' = [req EXCEPT ![r] = q] /\ q.pc \in {"idle", "issue"}
          /\ q.pc = "idle" => UNCHANGED <<users, identities>>
          /\ q.pc = "issue" => /\ q.key = req[r].sub /\ q.email = req[r].email
                               /\ Creates(req[r].email, req[r].name, req[r].sub)
    BY <1>0, <1>17, SubjectEffect
  <2> QED
    BY <1>0, <1>i, SignupAssumption, <1>17, <2>1 DEF CreateSSOUserAndIdentity
<1>18. ASSUME NEW c \in Code, CodeAges(c) PROVE req' \in [Req -> Request]
  BY <1>0, <1>i, SignupAssumption, <1>18 DEF CodeAges
<1>19. ASSUME NEW e \in Email, CodeKeyLapses(e) PROVE req' \in [Req -> Request]
  BY <1>0, <1>i, SignupAssumption, <1>19 DEF CodeKeyLapses
<1>20. ASSUME NEW e \in Email, SetBlocked(e) PROVE req' \in [Req -> Request]
  BY <1>0, <1>i, SignupAssumption, <1>20 DEF SetBlocked
<1>21. ASSUME NEW t \in Token, TemporarySessionLapses(t) PROVE req' \in [Req -> Request]
  BY <1>0, <1>i, SignupAssumption, <1>21 DEF TemporarySessionLapses
<1>22. CASE UNCHANGED vars
  BY <1>0, <1>i, SignupAssumption, <1>22 DEF vars
<1> QED
  BY <1>1, <1>2, <1>3, <1>4, <1>5, <1>6, <1>7, <1>8, <1>9, <1>10, <1>11, <1>12, <1>13,
     <1>14, <1>15, <1>16, <1>17, <1>18, <1>19, <1>20, <1>21, <1>22
  DEF Next, Arrive, Step, Environment

\* Every step leaves a request with the locals its next call needs.
LEMMA ControlStep == IInv /\ [Next]_vars => ControlInv'
<1> SUFFICES ASSUME IInv, [Next]_vars PROVE ControlInv'
  OBVIOUS
<1> USE DEF TypeOK, ControlInv, Request, Identity, ProofInv, redis, pg, hist, At, Goto,
            Finish, Calls, Arriving
<1>0. TypeOK /\ ControlInv /\ ProofInv
  BY DEF IInv
<1>i. Idle.pc = "idle" /\ Idle \in Request
  BY IdleType
<1>1. ASSUME NEW r \in Req, NEW e \in Email, StartEmailVerification(r, e) PROVE ControlInv'
  BY <1>0, <1>i, SignupAssumption, <1>1 DEF StartEmailVerification
<1>2. ASSUME NEW r \in Req, NEW e \in Email, NEW c \in Code \cup {NoCode}, VerifyEmailCode(r, e, c)
      PROVE  ControlInv'
  BY <1>0, <1>i, SignupAssumption, <1>2 DEF VerifyEmailCode
<1>3. ASSUME NEW r \in Req, NEW t \in Token, NEW n \in Username, CompleteEmailJoin(r, t, n)
      PROVE  ControlInv'
  BY <1>0, <1>i, SignupAssumption, <1>3 DEF CompleteEmailJoin
<1>4. ASSUME NEW r \in Req, NEW s \in Subject, NEW e \in Email, SSOLogin(r, s, e)
      PROVE  ControlInv'
  <2>1. PICK q \in Request :
          /\ req' = [req EXCEPT ![r] = q] /\ q.pc \in {"issue", "conflict"} /\ q.email \in Email
          /\ q.pc = "issue" => /\ q.key \in Email \cup Subject
                               /\ [key |-> q.key, user |-> q.email] \in identities
          /\ q.pc = "conflict" => q.sub \in Subject
    BY <1>0, <1>4, SSOEffect
  <2> QED
    BY <1>0, <1>i, SignupAssumption, <1>4, <2>1, ZenonT(60) DEF SSOLogin
<1>5. ASSUME NEW r \in Req, NEW o \in Outcome, CheckCooldown(r, o) PROVE ControlInv'
  BY <1>0, <1>i, SignupAssumption, <1>5 DEF CheckCooldown
<1>6. ASSUME NEW r \in Req, NEW o \in Outcome, SaveNewCode(r, o) PROVE ControlInv'
  BY <1>0, <1>i, SignupAssumption, <1>6 DEF SaveNewCode
<1>7. ASSUME NEW r \in Req, NEW o \in Outcome, SendEmailVerificationEmail(r, o)
      PROVE  ControlInv'
  BY <1>0, <1>i, SignupAssumption, <1>7 DEF SendEmailVerificationEmail
<1>8. ASSUME NEW r \in Req, NEW o \in Outcome, SaveFailedAttempt(r, o) PROVE ControlInv'
  BY <1>0, <1>i, SignupAssumption, <1>8 DEF SaveFailedAttempt
<1>9. ASSUME NEW r \in Req, NEW o \in Outcome, GenerateTemporaryJWT(r, o) PROVE ControlInv'
  <2>1. PICK q \in Request :
          /\ req' = [req EXCEPT ![r] = q] /\ q.pc \in {"idle", "consume"}
          /\ q.pc = "idle" => UNCHANGED subject
          /\ q.pc = "consume" =>
               /\ q.token \in Token /\ subject[q.token] = NoEmail
               /\ subject' = [subject EXCEPT ![q.token] = req[r].email]
               /\ q.email = req[r].email /\ q.meta = req[r].meta
    BY <1>0, <1>9, TokenEffect
  <2> QED
    BY <1>0, <1>i, SignupAssumption, <1>9, <2>1, ZenonT(60) DEF GenerateTemporaryJWT
<1>10. ASSUME NEW r \in Req, NEW o \in Outcome, ConsumeCode(r, o) PROVE ControlInv'
  BY <1>0, <1>i, SignupAssumption, <1>10 DEF ConsumeCode
<1>11. ASSUME NEW r \in Req, NEW o \in Outcome, UsernameExists(r, o) PROVE ControlInv'
  BY <1>0, <1>i, SignupAssumption, <1>11 DEF UsernameExists
<1>12. ASSUME NEW r \in Req, NEW o \in Outcome, CreateEmailUser(r, o) PROVE ControlInv'
  <2>1. PICK q \in Request :
          /\ req' = [req EXCEPT ![r] = q] /\ q.pc \in {"idle", "issue"}
          /\ q.pc = "idle" => UNCHANGED <<users, identities>>
          /\ q.pc = "issue" => /\ q.key = req[r].email /\ q.email = req[r].email
                               /\ Creates(req[r].email, req[r].name, req[r].email)
    BY <1>0, <1>12, EmailEffect
  <2> QED
    BY <1>0, <1>i, SignupAssumption, <1>12, <2>1 DEF CreateEmailUser
<1>13. ASSUME NEW r \in Req, NEW o \in Outcome, issueLoginSession(r, o) PROVE ControlInv'
  BY <1>0, <1>i, SignupAssumption, <1>13 DEF issueLoginSession
<1>14. ASSUME NEW r \in Req, NEW o \in Outcome, DeleteTemporarySession(r, o) PROVE ControlInv'
  BY <1>0, <1>i, SignupAssumption, <1>14 DEF DeleteTemporarySession
<1>15. ASSUME NEW r \in Req, NEW o \in Outcome, GetUserIDByEmail(r, o) PROVE ControlInv'
  BY <1>0, <1>i, SignupAssumption, <1>15 DEF GetUserIDByEmail
<1>16. ASSUME NEW r \in Req, NEW o \in Outcome, TryCandidate(r, o) PROVE ControlInv'
  BY <1>0, <1>i, SignupAssumption, <1>16 DEF TryCandidate
<1>17. ASSUME NEW r \in Req, NEW o \in Outcome, CreateSSOUserAndIdentity(r, o) PROVE ControlInv'
  <2>1. PICK q \in Request :
          /\ req' = [req EXCEPT ![r] = q] /\ q.pc \in {"idle", "issue"}
          /\ q.pc = "idle" => UNCHANGED <<users, identities>>
          /\ q.pc = "issue" => /\ q.key = req[r].sub /\ q.email = req[r].email
                               /\ Creates(req[r].email, req[r].name, req[r].sub)
    BY <1>0, <1>17, SubjectEffect
  <2> QED
    BY <1>0, <1>i, SignupAssumption, <1>17, <2>1 DEF CreateSSOUserAndIdentity
<1>18. ASSUME NEW c \in Code, CodeAges(c) PROVE ControlInv'
  BY <1>0, <1>i, SignupAssumption, <1>18 DEF CodeAges
<1>19. ASSUME NEW e \in Email, CodeKeyLapses(e) PROVE ControlInv'
  BY <1>0, <1>i, SignupAssumption, <1>19 DEF CodeKeyLapses
<1>20. ASSUME NEW e \in Email, SetBlocked(e) PROVE ControlInv'
  BY <1>0, <1>i, SignupAssumption, <1>20 DEF SetBlocked
<1>21. ASSUME NEW t \in Token, TemporarySessionLapses(t) PROVE ControlInv'
  BY <1>0, <1>i, SignupAssumption, <1>21 DEF TemporarySessionLapses
<1>22. CASE UNCHANGED vars
  BY <1>0, <1>i, SignupAssumption, <1>22 DEF vars
<1> QED
  BY <1>1, <1>2, <1>3, <1>4, <1>5, <1>6, <1>7, <1>8, <1>9, <1>10, <1>11, <1>12, <1>13,
     <1>14, <1>15, <1>16, <1>17, <1>18, <1>19, <1>20, <1>21, <1>22
  DEF Next, Arrive, Step, Environment

\* What the history of the codes becomes.
LEMMA LogTypes ==
    ASSUME log \in Log
    PROVE  /\ Blank(FALSE) \in Log /\ ~Blank(FALSE).quiet
           /\ \A c \in Code : Guessed(c) \in Log /\ Passed(c) \in Log
           /\ \A c \in Code : Guessed(c).quiet = log.quiet /\ Passed(c).quiet = log.quiet
           /\ \A c \in Code : /\ Guessed(c).passed = log.passed
                              /\ Guessed(c).guesses = [log.guesses EXCEPT ![c] = @ + 1]
           /\ \A c \in Code : /\ Passed(c).guesses = log.guesses
                              /\ Passed(c).passed = [log.passed EXCEPT ![c] = @ + 1]
<1>1. Blank(FALSE) \in Log /\ ~Blank(FALSE).quiet
  BY DEF Blank, Log
<1>2. ASSUME NEW c \in Code
      PROVE  /\ [log.guesses EXCEPT ![c] = @ + 1] \in [Code -> Nat]
             /\ [log.passed EXCEPT ![c] = @ + 1] \in [Code -> Nat]
  BY DEF Log
<1>3. ASSUME NEW c \in Code
      PROVE  /\ Guessed(c) \in Log /\ Passed(c) \in Log
             /\ Guessed(c).quiet = log.quiet /\ Passed(c).quiet = log.quiet
             /\ Guessed(c).passed = log.passed /\ Passed(c).guesses = log.guesses
             /\ Guessed(c).guesses = [log.guesses EXCEPT ![c] = @ + 1]
             /\ Passed(c).passed = [log.passed EXCEPT ![c] = @ + 1]
  BY <1>2 DEF Guessed, Passed, Log
<1> QED
  BY <1>1, <1>3

\* Every step keeps the history within its type.
LEMMA LogStep == IInv /\ [Next]_vars => log' \in Log
<1> SUFFICES ASSUME IInv, [Next]_vars PROVE log' \in Log
  OBVIOUS
<1> USE DEF TypeOK, redis, pg, hist, At, Goto, Finish, Calls, Arriving
<1>0. TypeOK /\ ControlInv
  BY DEF IInv
<1>i. Idle.pc = "idle" /\ Idle \in Request
  BY IdleType
<1>l. /\ Blank(FALSE) \in Log
      /\ \A c \in Code : Guessed(c) \in Log /\ Passed(c) \in Log
  BY <1>0, LogTypes DEF TypeOK
<1>1. ASSUME NEW r \in Req, NEW e \in Email, StartEmailVerification(r, e) PROVE log' \in Log
  BY <1>0, <1>l, <1>1 DEF StartEmailVerification
<1>2. ASSUME NEW r \in Req, NEW e \in Email, NEW c \in Code \cup {NoCode}, VerifyEmailCode(r, e, c)
      PROVE  log' \in Log
  BY <1>0, <1>l, <1>2 DEF VerifyEmailCode, Meta
<1>3. ASSUME NEW r \in Req, NEW t \in Token, NEW n \in Username, CompleteEmailJoin(r, t, n)
      PROVE  log' \in Log
  BY <1>0, <1>l, <1>3 DEF CompleteEmailJoin
<1>4. ASSUME NEW r \in Req, NEW s \in Subject, NEW e \in Email, SSOLogin(r, s, e)
      PROVE  log' \in Log
  BY <1>0, <1>l, <1>4 DEF SSOLogin
<1>5. ASSUME NEW r \in Req, NEW o \in Outcome, CheckCooldown(r, o) PROVE log' \in Log
  BY <1>0, <1>l, <1>5 DEF CheckCooldown
<1>6. ASSUME NEW r \in Req, NEW o \in Outcome, SaveNewCode(r, o) PROVE log' \in Log
  BY <1>0, <1>l, <1>6 DEF SaveNewCode
<1>7. ASSUME NEW r \in Req, NEW o \in Outcome, SendEmailVerificationEmail(r, o)
      PROVE  log' \in Log
  BY <1>0, <1>l, <1>7 DEF SendEmailVerificationEmail
<1>8. ASSUME NEW r \in Req, NEW o \in Outcome, SaveFailedAttempt(r, o) PROVE log' \in Log
  BY <1>0, <1>l, <1>8 DEF SaveFailedAttempt
<1>9. ASSUME NEW r \in Req, NEW o \in Outcome, GenerateTemporaryJWT(r, o) PROVE log' \in Log
  BY <1>0, <1>l, <1>9 DEF GenerateTemporaryJWT
<1>10. ASSUME NEW r \in Req, NEW o \in Outcome, ConsumeCode(r, o) PROVE log' \in Log
  BY <1>0, <1>l, <1>10 DEF ConsumeCode, Meta, ControlInv
<1>11. ASSUME NEW r \in Req, NEW o \in Outcome, UsernameExists(r, o) PROVE log' \in Log
  BY <1>0, <1>l, <1>11 DEF UsernameExists
<1>12. ASSUME NEW r \in Req, NEW o \in Outcome, CreateEmailUser(r, o) PROVE log' \in Log
  BY <1>0, <1>l, <1>12 DEF CreateEmailUser
<1>13. ASSUME NEW r \in Req, NEW o \in Outcome, issueLoginSession(r, o) PROVE log' \in Log
  BY <1>0, <1>l, <1>13 DEF issueLoginSession
<1>14. ASSUME NEW r \in Req, NEW o \in Outcome, DeleteTemporarySession(r, o) PROVE log' \in Log
  BY <1>0, <1>l, <1>14 DEF DeleteTemporarySession
<1>15. ASSUME NEW r \in Req, NEW o \in Outcome, GetUserIDByEmail(r, o) PROVE log' \in Log
  BY <1>0, <1>l, <1>15 DEF GetUserIDByEmail
<1>16. ASSUME NEW r \in Req, NEW o \in Outcome, TryCandidate(r, o) PROVE log' \in Log
  BY <1>0, <1>l, <1>16 DEF TryCandidate
<1>17. ASSUME NEW r \in Req, NEW o \in Outcome, CreateSSOUserAndIdentity(r, o)
      PROVE  log' \in Log
  BY <1>0, <1>l, <1>17 DEF CreateSSOUserAndIdentity
<1>18. ASSUME NEW c \in Code, CodeAges(c) PROVE log' \in Log
  BY <1>0, <1>l, <1>18 DEF CodeAges
<1>19. ASSUME NEW e \in Email, CodeKeyLapses(e) PROVE log' \in Log
  BY <1>0, <1>l, <1>19 DEF CodeKeyLapses
<1>20. ASSUME NEW e \in Email, SetBlocked(e) PROVE log' \in Log
  BY <1>0, <1>l, <1>20 DEF SetBlocked
<1>21. ASSUME NEW t \in Token, TemporarySessionLapses(t) PROVE log' \in Log
  BY <1>0, <1>l, <1>21 DEF TemporarySessionLapses
<1>22. CASE UNCHANGED vars
  BY <1>0, <1>l, <1>22 DEF vars
<1> QED
  BY <1>1, <1>2, <1>3, <1>4, <1>5, <1>6, <1>7, <1>8, <1>9, <1>10, <1>11, <1>12, <1>13,
     <1>14, <1>15, <1>16, <1>17, <1>18, <1>19, <1>20, <1>21, <1>22
  DEF Next, Arrive, Step, Environment

\* Every step keeps the stores and the other histories within their types.
LEMMA StoresStep == IInv /\ [Next]_vars => StoresOK'
<1> SUFFICES ASSUME IInv, [Next]_vars PROVE StoresOK'
  OBVIOUS
<1> USE DEF TypeOK, StoresOK, ControlInv, Meta, Request, redis, pg, hist, At, Goto,
            Finish, Calls, Arriving
<1>0. TypeOK /\ ControlInv /\ StoresOK
  BY DEF IInv
<1>i. Idle.pc = "idle" /\ Idle \in Request
  BY IdleType
<1>1. ASSUME NEW r \in Req, NEW e \in Email, StartEmailVerification(r, e) PROVE StoresOK'
  BY <1>0, SignupAssumption, <1>1 DEF StartEmailVerification
<1>2. ASSUME NEW r \in Req, NEW e \in Email, NEW c \in Code \cup {NoCode}, VerifyEmailCode(r, e, c)
      PROVE  StoresOK'
  BY <1>0, SignupAssumption, <1>2 DEF VerifyEmailCode
<1>3. ASSUME NEW r \in Req, NEW t \in Token, NEW n \in Username, CompleteEmailJoin(r, t, n)
      PROVE  StoresOK'
  BY <1>0, SignupAssumption, <1>3 DEF CompleteEmailJoin
<1>4. ASSUME NEW r \in Req, NEW s \in Subject, NEW e \in Email, SSOLogin(r, s, e)
      PROVE  StoresOK'
  BY <1>0, SignupAssumption, <1>4 DEF SSOLogin
<1>5. ASSUME NEW r \in Req, NEW o \in Outcome, CheckCooldown(r, o) PROVE StoresOK'
  BY <1>0, SignupAssumption, <1>5 DEF CheckCooldown
<1>6. ASSUME NEW r \in Req, NEW o \in Outcome, SaveNewCode(r, o) PROVE StoresOK'
  <2>1. CASE \E c \in Code :
               /\ age[c] = "unused" /\ age' = [age EXCEPT ![c] = "young"]
               /\ owner' = [owner EXCEPT ![c] = req[r].email]
               /\ codes' = [codes EXCEPT ![req[r].email] = [code |-> c, attempts |-> 0]]
               /\ req' = [req EXCEPT ![r].pc = "mail"]
    <3>1. PICK c \in Code :
            /\ age[c] = "unused" /\ age' = [age EXCEPT ![c] = "young"]
            /\ owner' = [owner EXCEPT ![c] = req[r].email]
            /\ codes' = [codes EXCEPT ![req[r].email] = [code |-> c, attempts |-> 0]]
            /\ req' = [req EXCEPT ![r].pc = "mail"]
      BY <2>1
    <3>2. req[r].email \in Email /\ [code |-> c, attempts |-> 0] \in Meta
      BY <1>0, <1>6, SignupAssumption DEF SaveNewCode
    <3> QED
      BY <1>0, <1>6, <3>1, <3>2 DEF SaveNewCode
  <2>2. CASE UNCHANGED <<age, owner, codes>> /\ req' = [req EXCEPT ![r] = Idle]
    BY <1>0, <1>6, <2>2 DEF SaveNewCode
  <2> QED
    BY <1>6, <2>1, <2>2 DEF SaveNewCode
<1>7. ASSUME NEW r \in Req, NEW o \in Outcome, SendEmailVerificationEmail(r, o) PROVE StoresOK'
  BY <1>0, SignupAssumption, <1>7 DEF SendEmailVerificationEmail
<1>8. ASSUME NEW r \in Req, NEW o \in Outcome, SaveFailedAttempt(r, o) PROVE StoresOK'
  BY <1>0, SignupAssumption, <1>8 DEF SaveFailedAttempt
<1>9. ASSUME NEW r \in Req, NEW o \in Outcome, GenerateTemporaryJWT(r, o) PROVE StoresOK'
  <2>1. PICK q \in Request :
          /\ req' = [req EXCEPT ![r] = q] /\ q.pc \in {"idle", "consume"}
          /\ q.pc = "idle" => UNCHANGED subject
          /\ q.pc = "consume" =>
               /\ q.token \in Token /\ subject[q.token] = NoEmail
               /\ subject' = [subject EXCEPT ![q.token] = req[r].email]
               /\ q.email = req[r].email /\ q.meta = req[r].meta
    BY <1>0, <1>9, TokenEffect
  <2> QED
    BY <1>0, <1>i, SignupAssumption, <1>9, <2>1 DEF GenerateTemporaryJWT, Creates, Identity, User
<1>10. ASSUME NEW r \in Req, NEW o \in Outcome, ConsumeCode(r, o) PROVE StoresOK'
  BY <1>0, SignupAssumption, <1>10 DEF ConsumeCode
<1>11. ASSUME NEW r \in Req, NEW o \in Outcome, UsernameExists(r, o) PROVE StoresOK'
  BY <1>0, SignupAssumption, <1>11 DEF UsernameExists
<1>12. ASSUME NEW r \in Req, NEW o \in Outcome, CreateEmailUser(r, o) PROVE StoresOK'
  <2>1. PICK q \in Request :
          /\ req' = [req EXCEPT ![r] = q] /\ q.pc \in {"idle", "issue"}
          /\ q.pc = "idle" => UNCHANGED <<users, identities>>
          /\ q.pc = "issue" => /\ q.key = req[r].email /\ q.email = req[r].email
                               /\ Creates(req[r].email, req[r].name, req[r].email)
    BY <1>0, <1>12, EmailEffect
  <2> QED
    BY <1>0, <1>i, SignupAssumption, <1>12, <2>1 DEF CreateEmailUser, Creates, Identity, User
<1>13. ASSUME NEW r \in Req, NEW o \in Outcome, issueLoginSession(r, o) PROVE StoresOK'
  BY <1>0, SignupAssumption, <1>13 DEF issueLoginSession, Identity
<1>14. ASSUME NEW r \in Req, NEW o \in Outcome, DeleteTemporarySession(r, o) PROVE StoresOK'
  BY <1>0, SignupAssumption, <1>14 DEF DeleteTemporarySession
<1>15. ASSUME NEW r \in Req, NEW o \in Outcome, GetUserIDByEmail(r, o) PROVE StoresOK'
  BY <1>0, SignupAssumption, <1>15 DEF GetUserIDByEmail
<1>16. ASSUME NEW r \in Req, NEW o \in Outcome, TryCandidate(r, o) PROVE StoresOK'
  BY <1>0, SignupAssumption, <1>16 DEF TryCandidate
<1>17. ASSUME NEW r \in Req, NEW o \in Outcome, CreateSSOUserAndIdentity(r, o) PROVE StoresOK'
  <2>1. PICK q \in Request :
          /\ req' = [req EXCEPT ![r] = q] /\ q.pc \in {"idle", "issue"}
          /\ q.pc = "idle" => UNCHANGED <<users, identities>>
          /\ q.pc = "issue" => /\ q.key = req[r].sub /\ q.email = req[r].email
                               /\ Creates(req[r].email, req[r].name, req[r].sub)
    BY <1>0, <1>17, SubjectEffect
  <2> QED
    BY <1>0, <1>i, SignupAssumption, <1>17, <2>1 DEF CreateSSOUserAndIdentity, Creates, Identity, User
<1>18. ASSUME NEW c \in Code, CodeAges(c) PROVE StoresOK'
  BY <1>0, SignupAssumption, <1>18 DEF CodeAges
<1>19. ASSUME NEW e \in Email, CodeKeyLapses(e) PROVE StoresOK'
  BY <1>0, SignupAssumption, <1>19 DEF CodeKeyLapses
<1>20. ASSUME NEW e \in Email, SetBlocked(e) PROVE StoresOK'
  BY <1>0, SignupAssumption, <1>20 DEF SetBlocked
<1>21. ASSUME NEW t \in Token, TemporarySessionLapses(t) PROVE StoresOK'
  BY <1>0, SignupAssumption, <1>21 DEF TemporarySessionLapses
<1>22. CASE UNCHANGED vars
  BY <1>0, SignupAssumption, <1>22 DEF vars
<1> QED
  BY <1>1, <1>2, <1>3, <1>4, <1>5, <1>6, <1>7, <1>8, <1>9, <1>10, <1>11, <1>12, <1>13,
     <1>14, <1>15, <1>16, <1>17, <1>18, <1>19, <1>20, <1>21, <1>22
  DEF Next, Arrive, Step, Environment

\* Every step keeps the types.
LEMMA TypeStep == IInv /\ [Next]_vars => TypeOK'
  BY RequestStep, LogStep, StoresStep DEF TypeOK, StoresOK

\* A code keeps its owner, and is stored and read under it only.
LEMMA CodeStep == IInv /\ [Next]_vars => CodeInv'
<1> SUFFICES ASSUME IInv, [Next]_vars PROVE CodeInv'
  OBVIOUS
<1> USE DEF TypeOK, ControlInv, CodeInv, Meta, Request, redis, pg, hist, At, Goto, Finish,
            Calls, Arriving
<1>0. TypeOK /\ ControlInv /\ CodeInv
  BY DEF IInv
<1>i. Idle.pc = "idle" /\ Idle \in Request
  BY IdleType
<1>1. ASSUME NEW r \in Req, NEW e \in Email, StartEmailVerification(r, e) PROVE CodeInv'
  BY <1>0, <1>i, SignupAssumption, <1>1 DEF StartEmailVerification
<1>2. ASSUME NEW r \in Req, NEW e \in Email, NEW c \in Code \cup {NoCode}, VerifyEmailCode(r, e, c)
      PROVE  CodeInv'
  BY <1>0, <1>i, SignupAssumption, <1>2 DEF VerifyEmailCode
<1>3. ASSUME NEW r \in Req, NEW t \in Token, NEW n \in Username, CompleteEmailJoin(r, t, n)
      PROVE  CodeInv'
  BY <1>0, <1>i, SignupAssumption, <1>3 DEF CompleteEmailJoin
<1>4. ASSUME NEW r \in Req, NEW s \in Subject, NEW e \in Email, SSOLogin(r, s, e)
      PROVE  CodeInv'
  <2>1. PICK q \in Request :
          /\ req' = [req EXCEPT ![r] = q] /\ q.pc \in {"issue", "conflict"} /\ q.email \in Email
          /\ q.pc = "issue" => /\ q.key \in Email \cup Subject
                               /\ [key |-> q.key, user |-> q.email] \in identities
          /\ q.pc = "conflict" => q.sub \in Subject
    BY <1>0, <1>4, SSOEffect
  <2> QED
    BY <1>0, <1>i, SignupAssumption, <1>4, <2>1, ZenonT(60) DEF SSOLogin
<1>5. ASSUME NEW r \in Req, NEW o \in Outcome, CheckCooldown(r, o) PROVE CodeInv'
  BY <1>0, <1>i, SignupAssumption, <1>5 DEF CheckCooldown
<1>6. ASSUME NEW r \in Req, NEW o \in Outcome, SaveNewCode(r, o) PROVE CodeInv'
  <2>1. CASE \E c \in Code :
               /\ age[c] = "unused" /\ age' = [age EXCEPT ![c] = "young"]
               /\ owner' = [owner EXCEPT ![c] = req[r].email]
               /\ codes' = [codes EXCEPT ![req[r].email] = [code |-> c, attempts |-> 0]]
               /\ req' = [req EXCEPT ![r].pc = "mail"]
    <3>1. PICK c \in Code :
            /\ age[c] = "unused" /\ age' = [age EXCEPT ![c] = "young"]
            /\ owner' = [owner EXCEPT ![c] = req[r].email]
            /\ codes' = [codes EXCEPT ![req[r].email] = [code |-> c, attempts |-> 0]]
            /\ req' = [req EXCEPT ![r].pc = "mail"]
      BY <2>1
    <3>2. req[r].email \in Email /\ At(r, "save")
      BY <1>0, <1>6 DEF SaveNewCode
    <3>3. ASSUME NEW e \in Email, codes'[e] # NoMeta
          PROVE  owner'[codes'[e].code] = e /\ age'[codes'[e].code] # "unused"
      <4>1. CASE e = req[r].email
        BY <1>0, <3>1, <3>2, <4>1
      <4>2. CASE e # req[r].email
        BY <1>0, <3>1, <3>2, <3>3, <4>2 DEF NoMeta
      <4> QED
        BY <4>1, <4>2
    <3> QED
      BY <1>0, <3>1, <3>2, <3>3
  <2>2. CASE UNCHANGED <<age, owner, codes>> /\ req' = [req EXCEPT ![r] = Idle]
    BY <1>0, <1>i, <1>6, <2>2 DEF SaveNewCode
  <2> QED
    BY <1>6, <2>1, <2>2 DEF SaveNewCode
<1>7. ASSUME NEW r \in Req, NEW o \in Outcome, SendEmailVerificationEmail(r, o) PROVE CodeInv'
  BY <1>0, <1>i, SignupAssumption, <1>7 DEF SendEmailVerificationEmail
<1>8. ASSUME NEW r \in Req, NEW o \in Outcome, SaveFailedAttempt(r, o) PROVE CodeInv'
  BY <1>0, <1>i, SignupAssumption, <1>8 DEF SaveFailedAttempt
<1>9. ASSUME NEW r \in Req, NEW o \in Outcome, GenerateTemporaryJWT(r, o) PROVE CodeInv'
  <2>1. PICK q \in Request :
          /\ req' = [req EXCEPT ![r] = q] /\ q.pc \in {"idle", "consume"}
          /\ q.pc = "idle" => UNCHANGED subject
          /\ q.pc = "consume" =>
               /\ q.token \in Token /\ subject[q.token] = NoEmail
               /\ subject' = [subject EXCEPT ![q.token] = req[r].email]
               /\ q.email = req[r].email /\ q.meta = req[r].meta
    BY <1>0, <1>9, TokenEffect
  <2>2. UNCHANGED <<codes, owner, age>> /\ At(r, "token")
    BY <1>9 DEF GenerateTemporaryJWT
  <2> QED
    BY <1>0, <1>i, SignupAssumption, <2>1, <2>2
<1>10. ASSUME NEW r \in Req, NEW o \in Outcome, ConsumeCode(r, o) PROVE CodeInv'
  BY <1>0, <1>i, SignupAssumption, <1>10 DEF ConsumeCode
<1>11. ASSUME NEW r \in Req, NEW o \in Outcome, UsernameExists(r, o) PROVE CodeInv'
  BY <1>0, <1>i, SignupAssumption, <1>11 DEF UsernameExists
<1>12. ASSUME NEW r \in Req, NEW o \in Outcome, CreateEmailUser(r, o) PROVE CodeInv'
  <2>1. PICK q \in Request :
          /\ req' = [req EXCEPT ![r] = q] /\ q.pc \in {"idle", "issue"}
          /\ q.pc = "idle" => UNCHANGED <<users, identities>>
          /\ q.pc = "issue" => /\ q.key = req[r].email /\ q.email = req[r].email
                               /\ Creates(req[r].email, req[r].name, req[r].email)
    BY <1>0, <1>12, EmailEffect
  <2> QED
    BY <1>0, <1>i, SignupAssumption, <1>12, <2>1 DEF CreateEmailUser
<1>13. ASSUME NEW r \in Req, NEW o \in Outcome, issueLoginSession(r, o) PROVE CodeInv'
  BY <1>0, <1>i, SignupAssumption, <1>13, SMTT(30) DEF issueLoginSession
<1>14. ASSUME NEW r \in Req, NEW o \in Outcome, DeleteTemporarySession(r, o) PROVE CodeInv'
  BY <1>0, <1>i, SignupAssumption, <1>14 DEF DeleteTemporarySession
<1>15. ASSUME NEW r \in Req, NEW o \in Outcome, GetUserIDByEmail(r, o) PROVE CodeInv'
  BY <1>0, <1>i, SignupAssumption, <1>15 DEF GetUserIDByEmail
<1>16. ASSUME NEW r \in Req, NEW o \in Outcome, TryCandidate(r, o) PROVE CodeInv'
  BY <1>0, <1>i, SignupAssumption, <1>16 DEF TryCandidate
<1>17. ASSUME NEW r \in Req, NEW o \in Outcome, CreateSSOUserAndIdentity(r, o) PROVE CodeInv'
  <2>1. PICK q \in Request :
          /\ req' = [req EXCEPT ![r] = q] /\ q.pc \in {"idle", "issue"}
          /\ q.pc = "idle" => UNCHANGED <<users, identities>>
          /\ q.pc = "issue" => /\ q.key = req[r].sub /\ q.email = req[r].email
                               /\ Creates(req[r].email, req[r].name, req[r].sub)
    BY <1>0, <1>17, SubjectEffect
  <2> QED
    BY <1>0, <1>i, SignupAssumption, <1>17, <2>1 DEF CreateSSOUserAndIdentity
<1>18. ASSUME NEW c \in Code, CodeAges(c) PROVE CodeInv'
  BY <1>0, <1>i, SignupAssumption, <1>18 DEF CodeAges
<1>19. ASSUME NEW e \in Email, CodeKeyLapses(e) PROVE CodeInv'
  BY <1>0, <1>i, SignupAssumption, <1>19 DEF CodeKeyLapses
<1>20. ASSUME NEW e \in Email, SetBlocked(e) PROVE CodeInv'
  BY <1>0, <1>i, SignupAssumption, <1>20 DEF SetBlocked
<1>21. ASSUME NEW t \in Token, TemporarySessionLapses(t) PROVE CodeInv'
  BY <1>0, <1>i, SignupAssumption, <1>21 DEF TemporarySessionLapses
<1>22. CASE UNCHANGED vars
  BY <1>0, <1>i, SignupAssumption, <1>22 DEF vars
<1> QED
  BY <1>1, <1>2, <1>3, <1>4, <1>5, <1>6, <1>7, <1>8, <1>9, <1>10, <1>11, <1>12, <1>13,
     <1>14, <1>15, <1>16, <1>17, <1>18, <1>19, <1>20, <1>21, <1>22
  DEF Next, Arrive, Step, Environment

\* Only the owner's code leads to a token, and only a token to an account.
LEMMA ProofStep == IInv /\ [Next]_vars => ProofInv' /\ AccountProved'
<1> SUFFICES ASSUME IInv, [Next]_vars PROVE ProofInv' /\ AccountProved'
  OBVIOUS
<1> USE DEF TypeOK, ControlInv, CodeInv, ProofInv, AccountProved, Meta, Request, redis,
            pg, hist, At, Goto, Finish, Calls, Arriving
<1>0. TypeOK /\ ControlInv /\ CodeInv /\ ProofInv /\ AccountProved
  BY DEF IInv
<1>i. Idle.pc = "idle" /\ Idle \in Request
  BY IdleType
<1>1. ASSUME NEW r \in Req, NEW e \in Email, StartEmailVerification(r, e)
      PROVE  ProofInv' /\ AccountProved'
  BY <1>0, <1>i, SignupAssumption, <1>1 DEF StartEmailVerification
<1>2. ASSUME NEW r \in Req, NEW e \in Email, NEW c \in Code \cup {NoCode}, VerifyEmailCode(r, e, c)
      PROVE  ProofInv' /\ AccountProved'
  BY <1>0, <1>i, SignupAssumption, <1>2 DEF VerifyEmailCode
<1>3. ASSUME NEW r \in Req, NEW t \in Token, NEW n \in Username, CompleteEmailJoin(r, t, n)
      PROVE  ProofInv' /\ AccountProved'
  BY <1>0, <1>i, SignupAssumption, <1>3 DEF CompleteEmailJoin
<1>4. ASSUME NEW r \in Req, NEW s \in Subject, NEW e \in Email, SSOLogin(r, s, e)
      PROVE  ProofInv' /\ AccountProved'
  <2>1. PICK q \in Request :
          /\ req' = [req EXCEPT ![r] = q] /\ q.pc \in {"issue", "conflict"} /\ q.email \in Email
          /\ q.pc = "issue" => /\ q.key \in Email \cup Subject
                               /\ [key |-> q.key, user |-> q.email] \in identities
          /\ q.pc = "conflict" => q.sub \in Subject
    BY <1>0, <1>4, SSOEffect
  <2>2. UNCHANGED <<proved, subject, handed, identities>>
    BY <1>4 DEF SSOLogin
  <2> QED
    BY <1>0, <1>i, SignupAssumption, <2>1, <2>2
<1>5. ASSUME NEW r \in Req, NEW o \in Outcome, CheckCooldown(r, o)
      PROVE  ProofInv' /\ AccountProved'
  BY <1>0, <1>i, SignupAssumption, <1>5 DEF CheckCooldown
<1>6. ASSUME NEW r \in Req, NEW o \in Outcome, SaveNewCode(r, o)
      PROVE  ProofInv' /\ AccountProved'
  BY <1>0, <1>i, SignupAssumption, <1>6 DEF SaveNewCode
<1>7. ASSUME NEW r \in Req, NEW o \in Outcome, SendEmailVerificationEmail(r, o)
      PROVE  ProofInv' /\ AccountProved'
  BY <1>0, <1>i, SignupAssumption, <1>7 DEF SendEmailVerificationEmail
<1>8. ASSUME NEW r \in Req, NEW o \in Outcome, SaveFailedAttempt(r, o)
      PROVE  ProofInv' /\ AccountProved'
  BY <1>0, <1>i, SignupAssumption, <1>8 DEF SaveFailedAttempt
<1>9. ASSUME NEW r \in Req, NEW o \in Outcome, GenerateTemporaryJWT(r, o)
      PROVE  ProofInv' /\ AccountProved'
  <2>1. PICK q \in Request :
          /\ req' = [req EXCEPT ![r] = q] /\ q.pc \in {"idle", "consume"}
          /\ q.pc = "idle" => UNCHANGED subject
          /\ q.pc = "consume" =>
               /\ q.token \in Token /\ subject[q.token] = NoEmail
               /\ subject' = [subject EXCEPT ![q.token] = req[r].email]
               /\ q.email = req[r].email /\ q.meta = req[r].meta
    BY <1>0, <1>9, TokenEffect
  <2>2. UNCHANGED <<proved, handed, identities>> /\ At(r, "token")
    BY <1>9 DEF GenerateTemporaryJWT
  <2> QED
    BY <1>0, <1>i, SignupAssumption, <2>1, <2>2
<1>10. ASSUME NEW r \in Req, NEW o \in Outcome, ConsumeCode(r, o)
      PROVE  ProofInv' /\ AccountProved'
  BY <1>0, <1>i, SignupAssumption, <1>10 DEF ConsumeCode
<1>11. ASSUME NEW r \in Req, NEW o \in Outcome, UsernameExists(r, o)
      PROVE  ProofInv' /\ AccountProved'
  BY <1>0, <1>i, SignupAssumption, <1>11 DEF UsernameExists
<1>12. ASSUME NEW r \in Req, NEW o \in Outcome, CreateEmailUser(r, o)
      PROVE  ProofInv' /\ AccountProved'
  <2>1. PICK q \in Request :
          /\ req' = [req EXCEPT ![r] = q] /\ q.pc \in {"idle", "issue"}
          /\ q.pc = "idle" => UNCHANGED <<users, identities>>
          /\ q.pc = "issue" => /\ q.key = req[r].email /\ q.email = req[r].email
                               /\ Creates(req[r].email, req[r].name, req[r].email)
    BY <1>0, <1>12, EmailEffect
  <2> QED
    BY <1>0, <1>i, SignupAssumption, <1>12, <2>1 DEF CreateEmailUser, Creates
<1>13. ASSUME NEW r \in Req, NEW o \in Outcome, issueLoginSession(r, o)
      PROVE  ProofInv' /\ AccountProved'
  BY <1>0, <1>i, SignupAssumption, <1>13 DEF issueLoginSession
<1>14. ASSUME NEW r \in Req, NEW o \in Outcome, DeleteTemporarySession(r, o)
      PROVE  ProofInv' /\ AccountProved'
  BY <1>0, <1>i, SignupAssumption, <1>14 DEF DeleteTemporarySession
<1>15. ASSUME NEW r \in Req, NEW o \in Outcome, GetUserIDByEmail(r, o)
      PROVE  ProofInv' /\ AccountProved'
  BY <1>0, <1>i, SignupAssumption, <1>15 DEF GetUserIDByEmail
<1>16. ASSUME NEW r \in Req, NEW o \in Outcome, TryCandidate(r, o)
      PROVE  ProofInv' /\ AccountProved'
  BY <1>0, <1>i, SignupAssumption, <1>16 DEF TryCandidate
<1>17. ASSUME NEW r \in Req, NEW o \in Outcome, CreateSSOUserAndIdentity(r, o)
      PROVE  ProofInv' /\ AccountProved'
  <2>1. PICK q \in Request :
          /\ req' = [req EXCEPT ![r] = q] /\ q.pc \in {"idle", "issue"}
          /\ q.pc = "idle" => UNCHANGED <<users, identities>>
          /\ q.pc = "issue" => /\ q.key = req[r].sub /\ q.email = req[r].email
                               /\ Creates(req[r].email, req[r].name, req[r].sub)
    BY <1>0, <1>17, SubjectEffect
  <2> QED
    BY <1>0, <1>i, SignupAssumption, <1>17, <2>1 DEF CreateSSOUserAndIdentity, Creates
<1>18. ASSUME NEW c \in Code, CodeAges(c) PROVE ProofInv' /\ AccountProved'
  BY <1>0, <1>i, SignupAssumption, <1>18 DEF CodeAges
<1>19. ASSUME NEW e \in Email, CodeKeyLapses(e) PROVE ProofInv' /\ AccountProved'
  BY <1>0, <1>i, SignupAssumption, <1>19 DEF CodeKeyLapses
<1>20. ASSUME NEW e \in Email, SetBlocked(e) PROVE ProofInv' /\ AccountProved'
  BY <1>0, <1>i, SignupAssumption, <1>20 DEF SetBlocked
<1>21. ASSUME NEW t \in Token, TemporarySessionLapses(t) PROVE ProofInv' /\ AccountProved'
  BY <1>0, <1>i, SignupAssumption, <1>21 DEF TemporarySessionLapses
<1>22. CASE UNCHANGED vars
  BY <1>0, <1>i, SignupAssumption, <1>22 DEF vars
<1> QED
  BY <1>1, <1>2, <1>3, <1>4, <1>5, <1>6, <1>7, <1>8, <1>9, <1>10, <1>11, <1>12, <1>13,
     <1>14, <1>15, <1>16, <1>17, <1>18, <1>19, <1>20, <1>21, <1>22
  DEF Next, Arrive, Step, Environment

\* The unique indexes decide between requests that race.
LEMMA AccountStep == IInv /\ [Next]_vars => AccountInv'
<1> SUFFICES ASSUME IInv, [Next]_vars PROVE AccountInv'
  OBVIOUS
<1> USE DEF TypeOK, ControlInv, AccountInv, Taken, EmailUsed, Registered, redis, pg, hist,
            At, Goto, Finish, Calls, Arriving
<1>0. TypeOK /\ ControlInv /\ AccountInv
  BY DEF IInv
<1>i. Idle.pc = "idle" /\ Idle \in Request
  BY IdleType
<1>1. ASSUME NEW r \in Req, NEW e \in Email, StartEmailVerification(r, e) PROVE AccountInv'
  BY <1>0, <1>i, SignupAssumption, <1>1 DEF StartEmailVerification
<1>2. ASSUME NEW r \in Req, NEW e \in Email, NEW c \in Code \cup {NoCode}, VerifyEmailCode(r, e, c)
      PROVE  AccountInv'
  BY <1>0, <1>i, SignupAssumption, <1>2 DEF VerifyEmailCode
<1>3. ASSUME NEW r \in Req, NEW t \in Token, NEW n \in Username, CompleteEmailJoin(r, t, n)
      PROVE  AccountInv'
  BY <1>0, <1>i, SignupAssumption, <1>3 DEF CompleteEmailJoin
<1>4. ASSUME NEW r \in Req, NEW s \in Subject, NEW e \in Email, SSOLogin(r, s, e)
      PROVE  AccountInv'
  <2>1. PICK q \in Request :
          /\ req' = [req EXCEPT ![r] = q] /\ q.pc \in {"issue", "conflict"} /\ q.email \in Email
          /\ q.pc = "issue" => /\ q.key \in Email \cup Subject
                               /\ [key |-> q.key, user |-> q.email] \in identities
          /\ q.pc = "conflict" => q.sub \in Subject
    BY <1>0, <1>4, SSOEffect
  <2> QED
    BY <1>0, <1>i, SignupAssumption, <1>4, <2>1 DEF SSOLogin, Creates
<1>5. ASSUME NEW r \in Req, NEW o \in Outcome, CheckCooldown(r, o) PROVE AccountInv'
  BY <1>0, <1>i, SignupAssumption, <1>5 DEF CheckCooldown
<1>6. ASSUME NEW r \in Req, NEW o \in Outcome, SaveNewCode(r, o) PROVE AccountInv'
  BY <1>0, <1>i, SignupAssumption, <1>6 DEF SaveNewCode
<1>7. ASSUME NEW r \in Req, NEW o \in Outcome, SendEmailVerificationEmail(r, o)
      PROVE  AccountInv'
  BY <1>0, <1>i, SignupAssumption, <1>7 DEF SendEmailVerificationEmail
<1>8. ASSUME NEW r \in Req, NEW o \in Outcome, SaveFailedAttempt(r, o) PROVE AccountInv'
  BY <1>0, <1>i, SignupAssumption, <1>8 DEF SaveFailedAttempt
<1>9. ASSUME NEW r \in Req, NEW o \in Outcome, GenerateTemporaryJWT(r, o) PROVE AccountInv'
  <2>1. PICK q \in Request :
          /\ req' = [req EXCEPT ![r] = q] /\ q.pc \in {"idle", "consume"}
          /\ q.pc = "idle" => UNCHANGED subject
          /\ q.pc = "consume" =>
               /\ q.token \in Token /\ subject[q.token] = NoEmail
               /\ subject' = [subject EXCEPT ![q.token] = req[r].email]
               /\ q.email = req[r].email /\ q.meta = req[r].meta
    BY <1>0, <1>9, TokenEffect
  <2> QED
    BY <1>0, <1>i, SignupAssumption, <1>9, <2>1 DEF GenerateTemporaryJWT, Creates
<1>10. ASSUME NEW r \in Req, NEW o \in Outcome, ConsumeCode(r, o) PROVE AccountInv'
  BY <1>0, <1>i, SignupAssumption, <1>10 DEF ConsumeCode
<1>11. ASSUME NEW r \in Req, NEW o \in Outcome, UsernameExists(r, o) PROVE AccountInv'
  BY <1>0, <1>i, SignupAssumption, <1>11 DEF UsernameExists
<1>12. ASSUME NEW r \in Req, NEW o \in Outcome, CreateEmailUser(r, o) PROVE AccountInv'
  <2>1. PICK q \in Request :
          /\ req' = [req EXCEPT ![r] = q] /\ q.pc \in {"idle", "issue"}
          /\ q.pc = "idle" => UNCHANGED <<users, identities>>
          /\ q.pc = "issue" => /\ q.key = req[r].email /\ q.email = req[r].email
                               /\ Creates(req[r].email, req[r].name, req[r].email)
    BY <1>0, <1>12, EmailEffect
  <2> DEFINE u == [email |-> req[r].email, name |-> req[r].name]
             i == [key |-> req[r].email, user |-> req[r].email]
  <2>3. CASE UNCHANGED <<users, identities>>
    BY <1>0, <2>3
  <2>4. CASE Creates(req[r].email, req[r].name, req[r].email)
    <3>1. /\ users' = users \cup {u} /\ identities' = identities \cup {i}
          /\ u.email = req[r].email /\ u.name = req[r].name
          /\ i.key = req[r].email /\ i.user = req[r].email
      BY <2>4 DEF Creates
    <3>2. /\ \A v \in users : v.email # u.email /\ v.name # u.name
          /\ \A j \in identities : j.key # i.key
      BY <2>4, <3>1 DEF Creates
    <3>3. \A j \in identities : j.user # i.user
      BY <1>0, <3>1, <3>2
    <3> HIDE DEF u, i
    <3>4. \A v, w \in users' : v # w => v.email # w.email /\ v.name # w.name
      BY <1>0, <3>1, <3>2
    <3>5. \A j, k \in identities' : j.key = k.key \/ j.user = k.user => j = k
      BY <1>0, <3>1, <3>2, <3>3
    <3>6. /\ \A v \in users' : \E j \in identities' : j.user = v.email
          /\ \A j \in identities' : \E v \in users' : v.email = j.user
      BY <1>0, <3>1
    <3> QED
      BY <3>4, <3>5, <3>6
  <2> QED
    BY <2>1, <2>3, <2>4
<1>13. ASSUME NEW r \in Req, NEW o \in Outcome, issueLoginSession(r, o) PROVE AccountInv'
  BY <1>0, <1>i, SignupAssumption, <1>13 DEF issueLoginSession
<1>14. ASSUME NEW r \in Req, NEW o \in Outcome, DeleteTemporarySession(r, o) PROVE AccountInv'
  BY <1>0, <1>i, SignupAssumption, <1>14 DEF DeleteTemporarySession
<1>15. ASSUME NEW r \in Req, NEW o \in Outcome, GetUserIDByEmail(r, o) PROVE AccountInv'
  BY <1>0, <1>i, SignupAssumption, <1>15 DEF GetUserIDByEmail
<1>16. ASSUME NEW r \in Req, NEW o \in Outcome, TryCandidate(r, o) PROVE AccountInv'
  BY <1>0, <1>i, SignupAssumption, <1>16 DEF TryCandidate
<1>17. ASSUME NEW r \in Req, NEW o \in Outcome, CreateSSOUserAndIdentity(r, o) PROVE AccountInv'
  <2>1. PICK q \in Request :
          /\ req' = [req EXCEPT ![r] = q] /\ q.pc \in {"idle", "issue"}
          /\ q.pc = "idle" => UNCHANGED <<users, identities>>
          /\ q.pc = "issue" => /\ q.key = req[r].sub /\ q.email = req[r].email
                               /\ Creates(req[r].email, req[r].name, req[r].sub)
    BY <1>0, <1>17, SubjectEffect
  <2> DEFINE u == [email |-> req[r].email, name |-> req[r].name]
             i == [key |-> req[r].sub, user |-> req[r].email]
  <2>3. CASE UNCHANGED <<users, identities>>
    BY <1>0, <2>3
  <2>4. CASE Creates(req[r].email, req[r].name, req[r].sub)
    <3>1. /\ users' = users \cup {u} /\ identities' = identities \cup {i}
          /\ u.email = req[r].email /\ u.name = req[r].name
          /\ i.key = req[r].sub /\ i.user = req[r].email
      BY <2>4 DEF Creates
    <3>2. /\ \A v \in users : v.email # u.email /\ v.name # u.name
          /\ \A j \in identities : j.key # i.key
      BY <2>4, <3>1 DEF Creates
    <3>3. \A j \in identities : j.user # i.user
      BY <1>0, <3>1, <3>2
    <3> HIDE DEF u, i
    <3>4. \A v, w \in users' : v # w => v.email # w.email /\ v.name # w.name
      BY <1>0, <3>1, <3>2
    <3>5. \A j, k \in identities' : j.key = k.key \/ j.user = k.user => j = k
      BY <1>0, <3>1, <3>2, <3>3
    <3>6. /\ \A v \in users' : \E j \in identities' : j.user = v.email
          /\ \A j \in identities' : \E v \in users' : v.email = j.user
      BY <1>0, <3>1
    <3> QED
      BY <3>4, <3>5, <3>6
  <2> QED
    BY <2>1, <2>3, <2>4
<1>18. ASSUME NEW c \in Code, CodeAges(c) PROVE AccountInv'
  BY <1>0, <1>i, SignupAssumption, <1>18 DEF CodeAges
<1>19. ASSUME NEW e \in Email, CodeKeyLapses(e) PROVE AccountInv'
  BY <1>0, <1>i, SignupAssumption, <1>19 DEF CodeKeyLapses
<1>20. ASSUME NEW e \in Email, SetBlocked(e) PROVE AccountInv'
  BY <1>0, <1>i, SignupAssumption, <1>20 DEF SetBlocked
<1>21. ASSUME NEW t \in Token, TemporarySessionLapses(t) PROVE AccountInv'
  BY <1>0, <1>i, SignupAssumption, <1>21 DEF TemporarySessionLapses
<1>22. CASE UNCHANGED vars
  BY <1>0, <1>i, SignupAssumption, <1>22 DEF vars
<1> QED
  BY <1>1, <1>2, <1>3, <1>4, <1>5, <1>6, <1>7, <1>8, <1>9, <1>10, <1>11, <1>12, <1>13,
     <1>14, <1>15, <1>16, <1>17, <1>18, <1>19, <1>20, <1>21, <1>22
  DEF Next, Arrive, Step, Environment

\* Identities are never removed, and a session is for one of them.
LEMMA IssueStep == IInv /\ [Next]_vars => IssueInv' /\ SessionsOwned'
<1> SUFFICES ASSUME IInv, [Next]_vars PROVE IssueInv' /\ SessionsOwned'
  OBVIOUS
<1> USE DEF TypeOK, ControlInv, IssueInv, SessionsOwned, Request, redis, pg, hist, At,
            Goto, Finish, Calls, Arriving
<1>0. TypeOK /\ ControlInv /\ IssueInv /\ SessionsOwned
  BY DEF IInv
<1>i. Idle.pc = "idle" /\ Idle \in Request
  BY IdleType
<1>1. ASSUME NEW r \in Req, NEW e \in Email, StartEmailVerification(r, e)
      PROVE  IssueInv' /\ SessionsOwned'
  BY <1>0, <1>i, SignupAssumption, <1>1 DEF StartEmailVerification
<1>2. ASSUME NEW r \in Req, NEW e \in Email, NEW c \in Code \cup {NoCode}, VerifyEmailCode(r, e, c)
      PROVE  IssueInv' /\ SessionsOwned'
  BY <1>0, <1>i, SignupAssumption, <1>2 DEF VerifyEmailCode
<1>3. ASSUME NEW r \in Req, NEW t \in Token, NEW n \in Username, CompleteEmailJoin(r, t, n)
      PROVE  IssueInv' /\ SessionsOwned'
  BY <1>0, <1>i, SignupAssumption, <1>3 DEF CompleteEmailJoin
<1>4. ASSUME NEW r \in Req, NEW s \in Subject, NEW e \in Email, SSOLogin(r, s, e)
      PROVE  IssueInv' /\ SessionsOwned'
  <2>1. PICK q \in Request :
          /\ req' = [req EXCEPT ![r] = q] /\ q.pc \in {"issue", "conflict"} /\ q.email \in Email
          /\ q.pc = "issue" => /\ q.key \in Email \cup Subject
                               /\ [key |-> q.key, user |-> q.email] \in identities
          /\ q.pc = "conflict" => q.sub \in Subject
    BY <1>0, <1>4, SSOEffect
  <2> QED
    BY <1>0, <1>i, SignupAssumption, <1>4, <2>1 DEF SSOLogin, Creates
<1>5. ASSUME NEW r \in Req, NEW o \in Outcome, CheckCooldown(r, o)
      PROVE  IssueInv' /\ SessionsOwned'
  BY <1>0, <1>i, SignupAssumption, <1>5 DEF CheckCooldown
<1>6. ASSUME NEW r \in Req, NEW o \in Outcome, SaveNewCode(r, o)
      PROVE  IssueInv' /\ SessionsOwned'
  BY <1>0, <1>i, SignupAssumption, <1>6, SMTT(30) DEF SaveNewCode
<1>7. ASSUME NEW r \in Req, NEW o \in Outcome, SendEmailVerificationEmail(r, o)
      PROVE  IssueInv' /\ SessionsOwned'
  BY <1>0, <1>i, SignupAssumption, <1>7 DEF SendEmailVerificationEmail
<1>8. ASSUME NEW r \in Req, NEW o \in Outcome, SaveFailedAttempt(r, o)
      PROVE  IssueInv' /\ SessionsOwned'
  BY <1>0, <1>i, SignupAssumption, <1>8 DEF SaveFailedAttempt
<1>9. ASSUME NEW r \in Req, NEW o \in Outcome, GenerateTemporaryJWT(r, o)
      PROVE  IssueInv' /\ SessionsOwned'
  <2>1. PICK q \in Request :
          /\ req' = [req EXCEPT ![r] = q] /\ q.pc \in {"idle", "consume"}
          /\ q.pc = "idle" => UNCHANGED subject
          /\ q.pc = "consume" =>
               /\ q.token \in Token /\ subject[q.token] = NoEmail
               /\ subject' = [subject EXCEPT ![q.token] = req[r].email]
               /\ q.email = req[r].email /\ q.meta = req[r].meta
    BY <1>0, <1>9, TokenEffect
  <2> QED
    BY <1>0, <1>i, SignupAssumption, <1>9, <2>1 DEF GenerateTemporaryJWT, Creates
<1>10. ASSUME NEW r \in Req, NEW o \in Outcome, ConsumeCode(r, o)
      PROVE  IssueInv' /\ SessionsOwned'
  BY <1>0, <1>i, SignupAssumption, <1>10 DEF ConsumeCode
<1>11. ASSUME NEW r \in Req, NEW o \in Outcome, UsernameExists(r, o)
      PROVE  IssueInv' /\ SessionsOwned'
  BY <1>0, <1>i, SignupAssumption, <1>11 DEF UsernameExists
<1>12. ASSUME NEW r \in Req, NEW o \in Outcome, CreateEmailUser(r, o)
      PROVE  IssueInv' /\ SessionsOwned'
  <2>1. PICK q \in Request :
          /\ req' = [req EXCEPT ![r] = q] /\ q.pc \in {"idle", "issue"}
          /\ q.pc = "idle" => UNCHANGED <<users, identities>>
          /\ q.pc = "issue" => /\ q.key = req[r].email /\ q.email = req[r].email
                               /\ Creates(req[r].email, req[r].name, req[r].email)
    BY <1>0, <1>12, EmailEffect
  <2> QED
    BY <1>0, <1>i, SignupAssumption, <1>12, <2>1 DEF CreateEmailUser, Creates
<1>13. ASSUME NEW r \in Req, NEW o \in Outcome, issueLoginSession(r, o)
      PROVE  IssueInv' /\ SessionsOwned'
  BY <1>0, <1>i, SignupAssumption, <1>13 DEF issueLoginSession
<1>14. ASSUME NEW r \in Req, NEW o \in Outcome, DeleteTemporarySession(r, o)
      PROVE  IssueInv' /\ SessionsOwned'
  BY <1>0, <1>i, SignupAssumption, <1>14 DEF DeleteTemporarySession
<1>15. ASSUME NEW r \in Req, NEW o \in Outcome, GetUserIDByEmail(r, o)
      PROVE  IssueInv' /\ SessionsOwned'
  BY <1>0, <1>i, SignupAssumption, <1>15 DEF GetUserIDByEmail
<1>16. ASSUME NEW r \in Req, NEW o \in Outcome, TryCandidate(r, o)
      PROVE  IssueInv' /\ SessionsOwned'
  BY <1>0, <1>i, SignupAssumption, <1>16 DEF TryCandidate
<1>17. ASSUME NEW r \in Req, NEW o \in Outcome, CreateSSOUserAndIdentity(r, o)
      PROVE  IssueInv' /\ SessionsOwned'
  <2>1. PICK q \in Request :
          /\ req' = [req EXCEPT ![r] = q] /\ q.pc \in {"idle", "issue"}
          /\ q.pc = "idle" => UNCHANGED <<users, identities>>
          /\ q.pc = "issue" => /\ q.key = req[r].sub /\ q.email = req[r].email
                               /\ Creates(req[r].email, req[r].name, req[r].sub)
    BY <1>0, <1>17, SubjectEffect
  <2> QED
    BY <1>0, <1>i, SignupAssumption, <1>17, <2>1 DEF CreateSSOUserAndIdentity, Creates
<1>18. ASSUME NEW c \in Code, CodeAges(c) PROVE IssueInv' /\ SessionsOwned'
  BY <1>0, <1>i, SignupAssumption, <1>18 DEF CodeAges
<1>19. ASSUME NEW e \in Email, CodeKeyLapses(e) PROVE IssueInv' /\ SessionsOwned'
  BY <1>0, <1>i, SignupAssumption, <1>19 DEF CodeKeyLapses
<1>20. ASSUME NEW e \in Email, SetBlocked(e) PROVE IssueInv' /\ SessionsOwned'
  BY <1>0, <1>i, SignupAssumption, <1>20 DEF SetBlocked
<1>21. ASSUME NEW t \in Token, TemporarySessionLapses(t) PROVE IssueInv' /\ SessionsOwned'
  BY <1>0, <1>i, SignupAssumption, <1>21 DEF TemporarySessionLapses
<1>22. CASE UNCHANGED vars
  BY <1>0, <1>i, SignupAssumption, <1>22 DEF vars
<1> QED
  BY <1>1, <1>2, <1>3, <1>4, <1>5, <1>6, <1>7, <1>8, <1>9, <1>10, <1>11, <1>12, <1>13,
     <1>14, <1>15, <1>16, <1>17, <1>18, <1>19, <1>20, <1>21, <1>22
  DEF Next, Arrive, Step, Environment

\* A step of the only request leaves no other.
LEMMA LoneCall ==
    ASSUME TypeOK, LoneInv, NEW r \in Req, NEW o, NEW p, p # "idle", NEW l,
           Calls(r, p, o, l), l.quiet = log.quiet, \A q \in Req \ {r} : req'[q] = req[q]
    PROVE  LoneInv'
<1>1. req[r] # Idle
  BY IdleType DEF Calls, At
<1>2. log'.quiet => log.quiet /\ log' = l
  BY LogTypes DEF Calls, TypeOK
<1>3. ~log'.quiet => log' = Blank(FALSE)
  BY DEF Calls
<1> QED
  BY <1>1, <1>2, <1>3 DEF LoneInv, Blank

\* A request that arrives in a quiet history arrives alone.
LEMMA LoneArrival ==
    ASSUME TypeOK, LoneInv, NEW r \in Req, NEW l,
           Arriving(r, l), l.quiet = log.quiet, \A q \in Req \ {r} : req'[q] = req[q]
    PROVE  LoneInv'
<1>1. log'.quiet => Lone(r)
  BY LogTypes DEF Arriving, TypeOK
<1>2. ~log'.quiet => log' = Blank(FALSE)
  BY DEF Arriving
<1> QED
  BY <1>1, <1>2 DEF LoneInv, Blank, Lone

\* A history is quiet only while requests do not overlap.
LEMMA LoneStep == IInv /\ [Next]_vars => LoneInv'
<1> SUFFICES ASSUME IInv, [Next]_vars PROVE LoneInv'
  OBVIOUS
<1>0. TypeOK /\ LoneInv /\ ControlInv
  BY DEF IInv
<1>l. \A c \in Code : Guessed(c).quiet = log.quiet /\ Passed(c).quiet = log.quiet
  BY <1>0, LogTypes DEF TypeOK
<1>1. ASSUME NEW r \in Req, NEW e \in Email, StartEmailVerification(r, e) PROVE LoneInv'
  <2>1. \A q \in Req \ {r} : req'[q] = req[q]
    BY <1>0, <1>1 DEF StartEmailVerification, TypeOK
  <2>2. Arriving(r, log)
    BY <1>1 DEF StartEmailVerification
  <2> QED
    BY <1>0, <2>1, <2>2, LoneArrival
<1>2. ASSUME NEW r \in Req, NEW e \in Email, NEW c \in Code \cup {NoCode}, VerifyEmailCode(r, e, c)
      PROVE  LoneInv'
  <2> DEFINE l == IF c = codes[e].code THEN log ELSE Guessed(codes[e].code)
  <2>1. \A q \in Req \ {r} : req'[q] = req[q]
    BY <1>0, <1>2 DEF VerifyEmailCode, TypeOK
  <2>2. Arriving(r, l) /\ codes[e].code \in Code
    BY <1>0, <1>2 DEF VerifyEmailCode, TypeOK, Meta
  <2>3. l.quiet = log.quiet
    BY <1>l, <2>2
  <2> HIDE DEF l
  <2> QED
    BY <1>0, <2>1, <2>2, <2>3, LoneArrival
<1>3. ASSUME NEW r \in Req, NEW t \in Token, NEW n \in Username, CompleteEmailJoin(r, t, n)
      PROVE  LoneInv'
  <2>1. \A q \in Req \ {r} : req'[q] = req[q]
    BY <1>0, <1>3 DEF CompleteEmailJoin, TypeOK
  <2>2. Arriving(r, log)
    BY <1>3 DEF CompleteEmailJoin
  <2> QED
    BY <1>0, <2>1, <2>2, LoneArrival
<1>4. ASSUME NEW r \in Req, NEW s \in Subject, NEW e \in Email, SSOLogin(r, s, e)
      PROVE  LoneInv'
  <2>1. \A q \in Req \ {r} : req'[q] = req[q]
    BY <1>0, <1>4 DEF SSOLogin, TypeOK
  <2>2. Arriving(r, log)
    BY <1>4 DEF SSOLogin
  <2> QED
    BY <1>0, <2>1, <2>2, LoneArrival
<1>5. ASSUME NEW r \in Req, NEW o \in Outcome, CheckCooldown(r, o) PROVE LoneInv'
  <2>1. \A q \in Req \ {r} : req'[q] = req[q]
    BY <1>0, <1>5 DEF CheckCooldown, Goto, Finish, TypeOK
  <2>2. Calls(r, "cooldown", o, log)
    BY <1>5 DEF CheckCooldown
  <2> QED
    BY <1>0, <2>1, <2>2, LoneCall
<1>6. ASSUME NEW r \in Req, NEW o \in Outcome, SaveNewCode(r, o) PROVE LoneInv'
  <2>1. \A q \in Req \ {r} : req'[q] = req[q]
    BY <1>0, <1>6 DEF SaveNewCode, Goto, Finish, TypeOK
  <2>2. Calls(r, "save", o, log)
    BY <1>6 DEF SaveNewCode
  <2> QED
    BY <1>0, <2>1, <2>2, LoneCall
<1>7. ASSUME NEW r \in Req, NEW o \in Outcome, SendEmailVerificationEmail(r, o) PROVE LoneInv'
  <2>1. \A q \in Req \ {r} : req'[q] = req[q]
    BY <1>0, <1>7 DEF SendEmailVerificationEmail, Goto, Finish, TypeOK
  <2>2. Calls(r, "mail", o, log)
    BY <1>7 DEF SendEmailVerificationEmail
  <2> QED
    BY <1>0, <2>1, <2>2, LoneCall
<1>8. ASSUME NEW r \in Req, NEW o \in Outcome, SaveFailedAttempt(r, o) PROVE LoneInv'
  <2>1. \A q \in Req \ {r} : req'[q] = req[q]
    BY <1>0, <1>8 DEF SaveFailedAttempt, Goto, Finish, TypeOK
  <2>2. Calls(r, "bump", o, log)
    BY <1>8 DEF SaveFailedAttempt
  <2> QED
    BY <1>0, <2>1, <2>2, LoneCall
<1>9. ASSUME NEW r \in Req, NEW o \in Outcome, GenerateTemporaryJWT(r, o) PROVE LoneInv'
  <2>1. \A q \in Req \ {r} : req'[q] = req[q]
    BY <1>0, <1>9 DEF GenerateTemporaryJWT, Goto, Finish, TypeOK
  <2>2. Calls(r, "token", o, log)
    BY <1>9 DEF GenerateTemporaryJWT
  <2> QED
    BY <1>0, <2>1, <2>2, LoneCall
<1>10. ASSUME NEW r \in Req, NEW o \in Outcome, ConsumeCode(r, o) PROVE LoneInv'
  <2>1. \A q \in Req \ {r} : req'[q] = req[q]
    BY <1>0, <1>10 DEF ConsumeCode, Goto, Finish, TypeOK
  <2>2. Calls(r, "consume", o, Passed(req[r].meta.code))
    BY <1>10 DEF ConsumeCode
  <2> QED
    BY <1>0, <1>l, <1>10, <2>1, <2>2, LoneCall DEF Calls, At, ControlInv, Meta
<1>11. ASSUME NEW r \in Req, NEW o \in Outcome, UsernameExists(r, o) PROVE LoneInv'
  <2>1. \A q \in Req \ {r} : req'[q] = req[q]
    BY <1>0, <1>11 DEF UsernameExists, Goto, Finish, TypeOK
  <2>2. Calls(r, "name", o, log)
    BY <1>11 DEF UsernameExists
  <2> QED
    BY <1>0, <2>1, <2>2, LoneCall
<1>12. ASSUME NEW r \in Req, NEW o \in Outcome, CreateEmailUser(r, o) PROVE LoneInv'
  <2>1. \A q \in Req \ {r} : req'[q] = req[q]
    BY <1>0, <1>12 DEF CreateEmailUser, Goto, Finish, TypeOK
  <2>2. Calls(r, "createEmail", o, log)
    BY <1>12 DEF CreateEmailUser
  <2> QED
    BY <1>0, <2>1, <2>2, LoneCall
<1>13. ASSUME NEW r \in Req, NEW o \in Outcome, issueLoginSession(r, o) PROVE LoneInv'
  <2>1. \A q \in Req \ {r} : req'[q] = req[q]
    BY <1>0, <1>13 DEF issueLoginSession, Goto, Finish, TypeOK
  <2>2. Calls(r, "issue", o, log)
    BY <1>13 DEF issueLoginSession
  <2> QED
    BY <1>0, <2>1, <2>2, LoneCall
<1>14. ASSUME NEW r \in Req, NEW o \in Outcome, DeleteTemporarySession(r, o) PROVE LoneInv'
  <2>1. \A q \in Req \ {r} : req'[q] = req[q]
    BY <1>0, <1>14 DEF DeleteTemporarySession, Goto, Finish, TypeOK
  <2>2. Calls(r, "deltemp", o, log)
    BY <1>14 DEF DeleteTemporarySession
  <2> QED
    BY <1>0, <2>1, <2>2, LoneCall
<1>15. ASSUME NEW r \in Req, NEW o \in Outcome, GetUserIDByEmail(r, o) PROVE LoneInv'
  <2>1. \A q \in Req \ {r} : req'[q] = req[q]
    BY <1>0, <1>15 DEF GetUserIDByEmail, Goto, Finish, TypeOK
  <2>2. Calls(r, "conflict", o, log)
    BY <1>15 DEF GetUserIDByEmail
  <2> QED
    BY <1>0, <2>1, <2>2, LoneCall
<1>16. ASSUME NEW r \in Req, NEW o \in Outcome, TryCandidate(r, o) PROVE LoneInv'
  <2>1. \A q \in Req \ {r} : req'[q] = req[q]
    BY <1>0, <1>16 DEF TryCandidate, Goto, Finish, TypeOK
  <2>2. Calls(r, "candidate", o, log)
    BY <1>16 DEF TryCandidate
  <2> QED
    BY <1>0, <2>1, <2>2, LoneCall
<1>17. ASSUME NEW r \in Req, NEW o \in Outcome, CreateSSOUserAndIdentity(r, o) PROVE LoneInv'
  <2>1. \A q \in Req \ {r} : req'[q] = req[q]
    BY <1>0, <1>17 DEF CreateSSOUserAndIdentity, Goto, Finish, TypeOK
  <2>2. Calls(r, "createSSO", o, log)
    BY <1>17 DEF CreateSSOUserAndIdentity
  <2> QED
    BY <1>0, <2>1, <2>2, LoneCall
<1>18. ASSUME NEW c \in Code, CodeAges(c) PROVE LoneInv'
  BY <1>0, <1>18 DEF CodeAges, LoneInv
<1>19. ASSUME NEW e \in Email, CodeKeyLapses(e) PROVE LoneInv'
  BY <1>0, <1>19 DEF CodeKeyLapses, LoneInv
<1>20. ASSUME NEW e \in Email, SetBlocked(e) PROVE LoneInv'
  BY <1>0, <1>20 DEF SetBlocked, LoneInv
<1>21. ASSUME NEW t \in Token, TemporarySessionLapses(t) PROVE LoneInv'
  BY <1>0, <1>21 DEF TemporarySessionLapses, LoneInv
<1>22. CASE UNCHANGED vars
  BY <1>0, <1>22 DEF vars, LoneInv
<1> QED
  BY <1>1, <1>2, <1>3, <1>4, <1>5, <1>6, <1>7, <1>8, <1>9, <1>10, <1>11, <1>12, <1>13,
     <1>14, <1>15, <1>16, <1>17, <1>18, <1>19, <1>20, <1>21, <1>22
  DEF Next, Arrive, Step, Environment

\* A step of a quiet history is made by the only request, and works.
LEMMA QuietCall ==
    ASSUME TypeOK, LoneInv, NEW r \in Req, NEW o, NEW p, p # "idle", NEW l,
           Calls(r, p, o, l), log'.quiet
    PROVE  log.quiet /\ o = "ok" /\ log' = l /\ \A q \in Req \ {r} : req[q] = Idle
<1>1. req[r] # Idle
  BY IdleType DEF Calls, At
<1>2. log.quiet /\ o = "ok" /\ log' = l
  BY LogTypes DEF Calls, TypeOK
<1> QED
  BY <1>1, <1>2 DEF LoneInv

\* A request that arrives in a quiet history is the only one.
LEMMA QuietArrival ==
    ASSUME TypeOK, LoneInv, NEW r \in Req, NEW l, Arriving(r, l), log'.quiet
    PROVE  log.quiet /\ log' = l /\ \A q \in Req : req[q] = Idle
<1>1. log.quiet /\ log' = l /\ Lone(r)
  BY LogTypes DEF Arriving, TypeOK
<1> QED
  BY <1>1 DEF Lone, Arriving

\* One request at a time, every attempt at a code is counted and a right one is the last.
LEMMA QuietStep == IInv /\ [Next]_vars => QuietInv' /\ CodeBounds'
<1> SUFFICES ASSUME IInv, [Next]_vars PROVE QuietInv' /\ CodeBounds'
  OBVIOUS
<1>0. TypeOK /\ ControlInv /\ CodeInv /\ LoneInv /\ QuietInv /\ CodeBounds
  BY DEF IInv
<1>i. Idle.pc = "idle" /\ Idle \in Request
  BY IdleType
<1>b. MaxAttempts \in Nat \ {0} /\ NoCode \notin Code
  BY SignupAssumption
<1>n. CASE ~log'.quiet
  <2>1. log' = Blank(FALSE)
    BY <1>n, LoneStep DEF LoneInv
  <2> QED
    BY <1>b, <1>n, <2>1 DEF QuietInv, CodeBounds, Blank
<1> SUFFICES ASSUME log'.quiet PROVE QuietInv' /\ CodeBounds'
  BY <1>n
<1>q. log'.quiet
  OBVIOUS
<1> USE DEF TypeOK, ControlInv, CodeInv, QuietInv, CodeBounds, Request, Meta, Log, redis,
            pg, hist, At, Goto, Finish
<1>1. ASSUME NEW r \in Req, NEW e \in Email, StartEmailVerification(r, e)
      PROVE  QuietInv' /\ CodeBounds'
  <2>c. log.quiet /\ log' = log /\ \A q \in Req : req[q] = Idle
    BY <1>0, <1>q, <1>1, QuietArrival DEF StartEmailVerification
  <2> QED
    BY <1>0, <1>i, <1>b, <1>1, <2>c DEF StartEmailVerification
<1>2. ASSUME NEW r \in Req, NEW e \in Email, NEW c \in Code \cup {NoCode}, VerifyEmailCode(r, e, c)
      PROVE  QuietInv' /\ CodeBounds'
  <2> DEFINE m == codes[e]
             k == m.code
             l == IF c = k THEN log ELSE Guessed(k)
             p == IF c = k THEN "token" ELSE "bump"
             x == [Idle EXCEPT !.pc = p, !.email = e, !.meta = m]
  <2>1. /\ m # NoMeta /\ m \in Meta /\ k \in Code /\ m.attempts < MaxAttempts
        /\ UNCHANGED <<codes, age>> /\ owner[k] = e /\ age[k] # "unused"
    BY <1>0, <1>2 DEF VerifyEmailCode
  <2>2. log.quiet /\ log' = l /\ \A q \in Req : req[q] = Idle
    BY <1>0, <1>q, <1>2, QuietArrival DEF VerifyEmailCode
  <2>3. req' = [req EXCEPT ![r] = x] /\ x.pc = p /\ x.email = e /\ x.meta = m
    BY <1>2, <1>i DEF VerifyEmailCode
  <2>4. \A q \in Req : req[q].pc = "idle" /\ (q # r => req'[q].pc = "idle")
    BY <1>0, <1>i, <2>2, <2>3
  <2>5. req'[r].pc = p /\ req'[r].email = e /\ req'[r].meta = m
    BY <1>0, <2>3
  <2>6. /\ log'.passed = log.passed
        /\ log'.guesses = IF c = k THEN log.guesses ELSE [log.guesses EXCEPT ![k] = @ + 1]
    BY <1>0, <2>1, <2>2, LogTypes
  <2>7. log.passed[k] = 0 /\ log.guesses[k] =< m.attempts
    BY <1>0, <2>1, <2>2, <2>4
  <2> HIDE DEF m, k, l, x
  <2>8. \A d \in Code \ {k} : log'.guesses[d] = log.guesses[d]
    BY <1>0, <2>1, <2>6
  <2>9. log'.guesses[k] \in Nat /\ log'.guesses[k] =< IF c = k THEN m.attempts ELSE m.attempts + 1
    BY <1>0, <2>1, <2>6, <2>7
  <2>10. \A f \in Email : codes[f] # NoMeta /\ f # e => codes[f].code # k
    BY <1>0, <2>1
  <2>11. ASSUME NEW f \in Email, codes'[f] # NoMeta
         PROVE  /\ log'.passed[codes'[f].code] = 0
                /\ \/ log'.guesses[codes'[f].code] =< codes'[f].attempts
                   \/ \E q \in Req : req'[q].pc = "bump" /\ req'[q].meta = codes'[f]
    <3>1. CASE f = e
      BY <2>1, <2>5, <2>6, <2>7, <2>9, <3>1 DEF m, k
    <3>2. CASE f # e
      BY <1>0, <2>1, <2>2, <2>4, <2>6, <2>8, <2>10, <2>11, <3>2
    <3> QED
      BY <3>1, <3>2
  <2>12. QuietInv'
    BY <1>0, <2>1, <2>2, <2>4, <2>5, <2>6, <2>7, <2>8, <2>9, <2>11 DEF m, k
  <2>13. CodeBounds'
    BY <1>0, <1>b, <2>1, <2>6, <2>8, <2>9
  <2> QED
    BY <2>12, <2>13
<1>3. ASSUME NEW r \in Req, NEW t \in Token, NEW n \in Username, CompleteEmailJoin(r, t, n)
      PROVE  QuietInv' /\ CodeBounds'
  <2>c. log.quiet /\ log' = log /\ \A q \in Req : req[q] = Idle
    BY <1>0, <1>q, <1>3, QuietArrival DEF CompleteEmailJoin
  <2> QED
    BY <1>0, <1>i, <1>b, <1>3, <2>c DEF CompleteEmailJoin
<1>4. ASSUME NEW r \in Req, NEW s \in Subject, NEW e \in Email, SSOLogin(r, s, e)
      PROVE  QuietInv' /\ CodeBounds'
  <2>c. log.quiet /\ log' = log /\ \A q \in Req : req[q] = Idle
    BY <1>0, <1>q, <1>4, QuietArrival DEF SSOLogin
  <2>1. PICK q \in Request :
          /\ req' = [req EXCEPT ![r] = q] /\ q.pc \in {"issue", "conflict"} /\ q.email \in Email
          /\ q.pc = "issue" => /\ q.key \in Email \cup Subject
                               /\ [key |-> q.key, user |-> q.email] \in identities
          /\ q.pc = "conflict" => q.sub \in Subject
    BY <1>0, <1>4, SSOEffect
  <2>2. UNCHANGED <<codes, age>> /\ \A x \in Req : req[x].pc = "idle"
    BY <1>i, <1>4, <2>c DEF SSOLogin
  <2>3. \A x \in Req : req'[x].pc \notin {"bump", "token", "consume"}
    BY <1>0, <2>1, <2>2
  <2> QED
    BY <1>0, <2>c, <2>2, <2>3
<1>5. ASSUME NEW r \in Req, NEW o \in Outcome, CheckCooldown(r, o)
      PROVE  QuietInv' /\ CodeBounds'
  <2>c. log.quiet /\ o = "ok" /\ log' = log /\ \A q \in Req \ {r} : req[q] = Idle
    BY <1>0, <1>q, <1>5, QuietCall DEF CheckCooldown
  <2> QED
    BY <1>0, <1>i, <1>b, <1>5, <2>c, SMTT(30) DEF CheckCooldown, Calls
<1>6. ASSUME NEW r \in Req, NEW o \in Outcome, SaveNewCode(r, o) PROVE QuietInv' /\ CodeBounds'
  <2>c. log.quiet /\ o = "ok" /\ log' = log /\ \A q \in Req \ {r} : req[q] = Idle
    BY <1>0, <1>q, <1>6, QuietCall DEF SaveNewCode
  <2>d. At(r, "save") /\ \A q \in Req : req[q].pc # "bump"
    BY <1>i, <1>6, <2>c DEF SaveNewCode, Calls
  <2>1. CASE \E c \in Code :
               /\ age[c] = "unused" /\ age' = [age EXCEPT ![c] = "young"]
               /\ owner' = [owner EXCEPT ![c] = req[r].email]
               /\ codes' = [codes EXCEPT ![req[r].email] = [code |-> c, attempts |-> 0]]
               /\ req' = [req EXCEPT ![r].pc = "mail"]
    <3>1. PICK c \in Code :
            /\ age[c] = "unused" /\ age' = [age EXCEPT ![c] = "young"]
            /\ owner' = [owner EXCEPT ![c] = req[r].email]
            /\ codes' = [codes EXCEPT ![req[r].email] = [code |-> c, attempts |-> 0]]
            /\ req' = [req EXCEPT ![r].pc = "mail"]
      BY <2>1
    <3>2. req[r].email \in Email
      BY <1>0, <2>d
    <3>3. \A q \in Req : req'[q].pc \notin {"bump", "token", "consume"}
      BY <1>0, <1>i, <2>c, <3>1
    <3>4. log.guesses[c] = 0 /\ log.passed[c] = 0
      BY <1>0, <2>c, <3>1
    <3>5. ASSUME NEW e \in Email, codes'[e] # NoMeta
          PROVE  log.passed[codes'[e].code] = 0 /\ log.guesses[codes'[e].code] =< codes'[e].attempts
      <4>1. CASE e = req[r].email
        BY <1>0, <3>1, <3>2, <3>4, <4>1
      <4>2. CASE e # req[r].email
        BY <1>0, <2>c, <2>d, <3>1, <3>2, <3>5, <4>2
      <4> QED
        BY <4>1, <4>2
    <3> QED
      BY <1>0, <2>c, <3>1, <3>3, <3>5
  <2>2. CASE UNCHANGED <<age, owner, codes>> /\ req' = [req EXCEPT ![r] = Idle]
    BY <1>0, <1>i, <2>c, <2>2, <2>d
  <2> QED
    BY <1>6, <2>1, <2>2 DEF SaveNewCode
<1>7. ASSUME NEW r \in Req, NEW o \in Outcome, SendEmailVerificationEmail(r, o)
      PROVE  QuietInv' /\ CodeBounds'
  <2>c. log.quiet /\ o = "ok" /\ log' = log /\ \A q \in Req \ {r} : req[q] = Idle
    BY <1>0, <1>q, <1>7, QuietCall DEF SendEmailVerificationEmail
  <2> QED
    BY <1>0, <1>i, <1>b, <1>7, <2>c DEF SendEmailVerificationEmail, Calls
<1>8. ASSUME NEW r \in Req, NEW o \in Outcome, SaveFailedAttempt(r, o)
      PROVE  QuietInv' /\ CodeBounds'
  <2>c. log.quiet /\ o = "ok" /\ log' = log /\ \A q \in Req \ {r} : req[q] = Idle
    BY <1>0, <1>q, <1>8, QuietCall DEF SaveFailedAttempt
  <2> DEFINE m == req[r].meta
             x == req[r].email
             n == [m EXCEPT !.attempts = @ + 1]
  <2>1. At(r, "bump") /\ UNCHANGED age /\ codes' = [codes EXCEPT ![x] = n]
    BY <1>8, <2>c DEF SaveFailedAttempt, Calls
  <2>2. /\ x \in Email /\ m \in Meta /\ n.code = m.code /\ n.attempts = m.attempts + 1
        /\ owner[m.code] = x /\ log.passed[m.code] = 0 /\ log.guesses[m.code] =< m.attempts + 1
    BY <1>0, <2>c, <2>1
  <2>3. \A q \in Req : req'[q].pc = "idle"
    BY <1>0, <1>i, <1>8, <2>c DEF SaveFailedAttempt
  <2> HIDE DEF m, n, x
  <2>4. ASSUME NEW e \in Email, codes'[e] # NoMeta
        PROVE  log.passed[codes'[e].code] = 0 /\ log.guesses[codes'[e].code] =< codes'[e].attempts
    <3>1. CASE e = x
      BY <1>0, <2>1, <2>2, <3>1
    <3>2. CASE e # x
      <4>1. codes'[e] = codes[e] /\ codes[e].code # m.code
        BY <1>0, <2>1, <2>2, <2>4, <3>2
      <4>2. \A q \in Req : At(q, "bump") => req[q].meta # codes[e]
        BY <1>i, <2>c, <4>1 DEF m
      <4> QED
        BY <1>0, <2>c, <2>4, <4>1, <4>2
    <3> QED
      BY <3>1, <3>2
  <2> QED
    BY <1>0, <2>c, <2>1, <2>3, <2>4
<1>9. ASSUME NEW r \in Req, NEW o \in Outcome, GenerateTemporaryJWT(r, o)
      PROVE  QuietInv' /\ CodeBounds'
  <2>c. log.quiet /\ o = "ok" /\ log' = log /\ \A q \in Req \ {r} : req[q] = Idle
    BY <1>0, <1>q, <1>9, QuietCall DEF GenerateTemporaryJWT
  <2>1. PICK q \in Request :
          /\ req' = [req EXCEPT ![r] = q] /\ q.pc \in {"idle", "consume"}
          /\ q.pc = "idle" => UNCHANGED subject
          /\ q.pc = "consume" =>
               /\ q.token \in Token /\ subject[q.token] = NoEmail
               /\ subject' = [subject EXCEPT ![q.token] = req[r].email]
               /\ q.email = req[r].email /\ q.meta = req[r].meta
    BY <1>0, <1>9, TokenEffect
  <2>2. UNCHANGED <<codes, age>> /\ At(r, "token") /\ \A x \in Req : req[x].pc # "bump"
    BY <1>i, <1>9, <2>c DEF GenerateTemporaryJWT, Calls
  <2>3. \A x \in Req : /\ req'[x].pc # "bump"
                       /\ req'[x].pc \in {"token", "consume"} =>
                            x = r /\ req'[r].meta = req[r].meta /\ req'[r].email = req[r].email
    BY <1>0, <1>i, <2>c, <2>1, <2>2
  <2> QED
    BY <1>0, <2>c, <2>2, <2>3
<1>10. ASSUME NEW r \in Req, NEW o \in Outcome, ConsumeCode(r, o) PROVE QuietInv' /\ CodeBounds'
  <2>c. log.quiet /\ o = "ok" /\ log' = Passed(req[r].meta.code) /\ \A q \in Req \ {r} : req[q] = Idle
    BY <1>0, <1>q, <1>10, QuietCall DEF ConsumeCode
  <2> DEFINE k == req[r].meta.code
             x == req[r].email
  <2>1. At(r, "consume") /\ UNCHANGED age /\ codes' = [codes EXCEPT ![x] = NoMeta]
    BY <1>10, <2>c DEF ConsumeCode, Calls
  <2>2. x \in Email /\ k \in Code /\ owner[k] = x /\ age[k] # "unused" /\ log.passed[k] = 0
    BY <1>0, <2>c, <2>1
  <2>3. \A q \in Req : req'[q].pc = "idle" /\ req[q].pc # "bump"
    BY <1>0, <1>i, <1>10, <2>c, <2>1 DEF ConsumeCode
  <2>4. log'.guesses = log.guesses /\ log'.passed = [log.passed EXCEPT ![k] = @ + 1]
    BY <1>0, <2>2, <2>c, LogTypes
  <2> HIDE DEF k, x
  <2>5. ASSUME NEW e \in Email, codes'[e] # NoMeta
        PROVE  codes'[e] = codes[e] /\ codes[e].code # k
    BY <1>0, <2>1, <2>2, <2>5
  <2>6. \A c \in Code \ {k} : log'.passed[c] = log.passed[c]
    BY <1>0, <2>2, <2>4
  <2>7. log'.passed[k] = 1
    BY <1>0, <2>2, <2>4
  <2>8. QuietInv'
    BY <1>0, <2>c, <2>1, <2>2, <2>3, <2>4, <2>5, <2>6
  <2>9. CodeBounds'
    BY <1>0, <2>4, <2>6, <2>7
  <2> QED
    BY <2>8, <2>9
<1>11. ASSUME NEW r \in Req, NEW o \in Outcome, UsernameExists(r, o)
      PROVE  QuietInv' /\ CodeBounds'
  <2>c. log.quiet /\ o = "ok" /\ log' = log /\ \A q \in Req \ {r} : req[q] = Idle
    BY <1>0, <1>q, <1>11, QuietCall DEF UsernameExists
  <2> QED
    BY <1>0, <1>i, <1>b, <1>11, <2>c, SMTT(30) DEF UsernameExists, Calls
<1>12. ASSUME NEW r \in Req, NEW o \in Outcome, CreateEmailUser(r, o)
      PROVE  QuietInv' /\ CodeBounds'
  <2>c. log.quiet /\ o = "ok" /\ log' = log /\ \A q \in Req \ {r} : req[q] = Idle
    BY <1>0, <1>q, <1>12, QuietCall DEF CreateEmailUser
  <2>1. PICK q \in Request :
          /\ req' = [req EXCEPT ![r] = q] /\ q.pc \in {"idle", "issue"}
          /\ q.pc = "idle" => UNCHANGED <<users, identities>>
          /\ q.pc = "issue" => /\ q.key = req[r].email /\ q.email = req[r].email
                               /\ Creates(req[r].email, req[r].name, req[r].email)
    BY <1>0, <1>12, EmailEffect
  <2> QED
    BY <1>0, <1>i, <1>b, <1>12, <2>c, <2>1, SMTT(30) DEF CreateEmailUser, Calls
<1>13. ASSUME NEW r \in Req, NEW o \in Outcome, issueLoginSession(r, o)
      PROVE  QuietInv' /\ CodeBounds'
  <2>c. log.quiet /\ o = "ok" /\ log' = log /\ \A q \in Req \ {r} : req[q] = Idle
    BY <1>0, <1>q, <1>13, QuietCall DEF issueLoginSession
  <2>1. UNCHANGED <<codes, age>> /\ At(r, "issue") /\ \A q \in Req : req[q].pc # "bump"
    BY <1>i, <1>13, <2>c DEF issueLoginSession, Calls
  <2>2. req' = [req EXCEPT ![r].pc = "deltemp"] \/ req' = [req EXCEPT ![r] = Idle]
    BY <1>13 DEF issueLoginSession
  <2>3. \A q \in Req : req'[q].pc \notin {"bump", "token", "consume"}
    BY <1>0, <1>i, <2>c, <2>2
  <2> QED
    BY <1>0, <2>c, <2>1, <2>3
<1>14. ASSUME NEW r \in Req, NEW o \in Outcome, DeleteTemporarySession(r, o)
      PROVE  QuietInv' /\ CodeBounds'
  <2>c. log.quiet /\ o = "ok" /\ log' = log /\ \A q \in Req \ {r} : req[q] = Idle
    BY <1>0, <1>q, <1>14, QuietCall DEF DeleteTemporarySession
  <2> QED
    BY <1>0, <1>i, <1>b, <1>14, <2>c DEF DeleteTemporarySession, Calls
<1>15. ASSUME NEW r \in Req, NEW o \in Outcome, GetUserIDByEmail(r, o)
      PROVE  QuietInv' /\ CodeBounds'
  <2>c. log.quiet /\ o = "ok" /\ log' = log /\ \A q \in Req \ {r} : req[q] = Idle
    BY <1>0, <1>q, <1>15, QuietCall DEF GetUserIDByEmail
  <2> QED
    BY <1>0, <1>i, <1>b, <1>15, <2>c, SMTT(30) DEF GetUserIDByEmail, Calls
<1>16. ASSUME NEW r \in Req, NEW o \in Outcome, TryCandidate(r, o)
      PROVE  QuietInv' /\ CodeBounds'
  <2>c. log.quiet /\ o = "ok" /\ log' = log /\ \A q \in Req \ {r} : req[q] = Idle
    BY <1>0, <1>q, <1>16, QuietCall DEF TryCandidate
  <2> QED
    BY <1>0, <1>i, <1>b, <1>16, <2>c, SMTT(30) DEF TryCandidate, Calls
<1>17. ASSUME NEW r \in Req, NEW o \in Outcome, CreateSSOUserAndIdentity(r, o)
      PROVE  QuietInv' /\ CodeBounds'
  <2>c. log.quiet /\ o = "ok" /\ log' = log /\ \A q \in Req \ {r} : req[q] = Idle
    BY <1>0, <1>q, <1>17, QuietCall DEF CreateSSOUserAndIdentity
  <2>1. PICK q \in Request :
          /\ req' = [req EXCEPT ![r] = q] /\ q.pc \in {"idle", "issue"}
          /\ q.pc = "idle" => UNCHANGED <<users, identities>>
          /\ q.pc = "issue" => /\ q.key = req[r].sub /\ q.email = req[r].email
                               /\ Creates(req[r].email, req[r].name, req[r].sub)
    BY <1>0, <1>17, SubjectEffect
  <2> QED
    BY <1>0, <1>i, <1>b, <1>17, <2>c, <2>1 DEF CreateSSOUserAndIdentity, Calls
<1>18. ASSUME NEW c \in Code, CodeAges(c) PROVE QuietInv' /\ CodeBounds'
  BY <1>0, <1>b, <1>i, <1>18 DEF CodeAges
<1>19. ASSUME NEW e \in Email, CodeKeyLapses(e) PROVE QuietInv' /\ CodeBounds'
  BY <1>0, <1>b, <1>i, <1>19 DEF CodeKeyLapses
<1>20. ASSUME NEW e \in Email, SetBlocked(e) PROVE QuietInv' /\ CodeBounds'
  BY <1>0, <1>b, <1>i, <1>20 DEF SetBlocked
<1>21. ASSUME NEW t \in Token, TemporarySessionLapses(t) PROVE QuietInv' /\ CodeBounds'
  BY <1>0, <1>b, <1>i, <1>21 DEF TemporarySessionLapses
<1>22. CASE UNCHANGED vars
  BY <1>0, <1>b, <1>i, <1>22 DEF vars
<1> QED
  BY <1>1, <1>2, <1>3, <1>4, <1>5, <1>6, <1>7, <1>8, <1>9, <1>10, <1>11, <1>12, <1>13,
     <1>14, <1>15, <1>16, <1>17, <1>18, <1>19, <1>20, <1>21, <1>22
  DEF Next, Arrive, Step, Environment

-----------------------------------------------------------------------------
\* No step leaves the invariant.
LEMMA IInvStep == IInv /\ [Next]_vars => IInv'
  BY TypeStep, ControlStep, CodeStep, ProofStep, AccountStep, IssueStep, LoneStep, QuietStep
  DEF IInv

\* However signups, SSO logins, retries and time-outs interleave, the
\* inductive invariant holds.
THEOREM Invariance == Spec => []IInv
  BY InitIInv, IInvStep, PTL DEF Spec

\* Every store, every request's locals and the history keep their types.
THEOREM TypeCorrect == Spec => []TypeOK
<1>1. IInv => TypeOK
  BY DEF IInv
<1> QED
  BY Invariance, <1>1, PTL

\* No account with a password exists under an email whose own mailed code was
\* not presented, whichever requests overlap and calls fail.
THEOREM AccountsAreProved == Spec => []AccountProved
<1>1. IInv => AccountProved
  BY DEF IInv
<1> QED
  BY Invariance, <1>1, PTL

\* Racing signups and SSO logins for one email leave one account, under one
\* name, with one identity: the unique constraints and the transaction hold.
THEOREM AccountsAreUnique == Spec => []OneAccountEach
<1>1. IInv => OneAccountEach
  <2> SUFFICES ASSUME IInv PROVE OneAccountEach
    OBVIOUS
  <2>0. AccountInv
    BY DEF IInv
  <2>1. ASSUME NEW u \in users PROVE Cardinality({i \in identities : i.user = u.email}) = 1
    <3>1. PICK i \in identities : i.user = u.email
      BY <2>0 DEF AccountInv
    <3>2. {j \in identities : j.user = u.email} = {i}
      BY <2>0, <3>1 DEF AccountInv
    <3> QED
      BY <3>2, FS_Singleton
  <2> QED
    BY <2>0, <2>1 DEF OneAccountEach, AccountInv
<1> QED
  BY Invariance, <1>1, PTL

\* A session is only ever issued on the account that the identity presented
\* belongs to.
THEOREM SessionsAreOwned == Spec => []SessionsOwned
<1>1. IInv => SessionsOwned
  BY DEF IInv
<1> QED
  BY Invariance, <1>1, PTL

\* One request at a time and without failing calls, a mailed code is guessed
\* at no more than MaxAttempts times and accepted once.
THEOREM CodesAreBounded == Spec => []CodeBounds
<1>1. IInv => CodeBounds
  BY DEF IInv
<1> QED
  BY Invariance, <1>1, PTL
==============================================================================
