------------------------------- MODULE Signup -------------------------------
(***************************************************************************)
(* How accounts come into being: the three steps of signup by email        *)
(* (StartEmailVerification, VerifyEmailCode, CompleteEmailJoin) and        *)
(* SSOLogin.  The state is the verification codes and temporary sessions   *)
(* in Redis and the users and auth_identities rows in PostgreSQL; each     *)
(* store call of a request is one step.                                    *)
(*                                                                         *)
(* The metadata of a code is read, changed and saved as a whole, so a      *)
(* request writes back what it read, however old that has become.  How a   *)
(* session is issued in the two stores is the subject of Sessions; here it *)
(* is one step.                                                            *)
(***************************************************************************)
EXTENDS Naturals, FiniteSets

CONSTANTS
    Req,         \* request slots
    Email,
    Subject,     \* accounts at the SSO providers
    Code,        \* codes utils.GenerateCode can return
    Token,       \* joiner tokens GenerateTemporaryJWT can make
    NoEmail, NoSubject, NoCode, NoToken,
    MaxAttempts, \* OTPMeta.MaxAttempts, 5 in the code
    NameTries,   \* candidates generateUniqueUsernameFromEmail tries, 20 there
    Faults       \* TRUE: any store call, and the mail, may fail

ASSUME SignupAssumption ==
    /\ IsFiniteSet(Req)
    /\ NoEmail \notin Email /\ NoSubject \notin Subject
    /\ NoCode \notin Code /\ NoToken \notin Token
    /\ Email \cap Subject = {}
    /\ MaxAttempts \in Nat \ {0} /\ NameTries \in Nat \ {0}
    /\ Faults \in BOOLEAN

\* Name n is the base derived from an email's local part with suffix n, none
\* for 0; every email here has the same base, the case where names collide.
Username == 0..NameTries

VARIABLES
    codes,      \* codes[e]: the metadata under email_code:<e>, or NoMeta
    age,        \* age[c]: "unused", "young" (under a minute), "old", "expired"
    owner,      \* owner[c]: the email code c was made for
    subject,    \* subject[t]: the email joiner token t was made for
    live,       \* tokens whose temporary_session key exists
    users,      \* rows of users
    identities, \* rows of auth_identities
    blocked,    \* emails of the accounts banned, disabled or deleted
    req,        \* req[r]: the local state of request r
    handed,     \* history: joiner tokens returned to a client
    proved,     \* history: emails for which their own code was presented
    opened,     \* history: sessions issued, as identity key and account
    log         \* history: what became of each code, kept while it was quiet

redis == <<codes, subject, live>>
pg == <<users, identities, blocked>>
hist == <<handed, proved, opened>>
vars == <<codes, age, owner, subject, live, users, identities, blocked, req,
          handed, proved, opened, log>>

Meta == [code : Code, attempts : 0..MaxAttempts]
NoMeta == [code |-> NoCode, attempts |-> 0]

\* A user is known by its email: the unique index makes it a key.
User == [email : Email, name : Username]
Identity == [key : Email \cup Subject, user : Email]

Pc == {"idle", "cooldown", "save", "mail", "bump", "token", "consume",
       "name", "createEmail", "conflict", "candidate", "createSSO", "issue", "deltemp"}

Request == [pc : Pc, email : Email \cup {NoEmail}, meta : Meta \cup {NoMeta},
            token : Token \cup {NoToken}, sub : Subject \cup {NoSubject},
            name : Username, key : Email \cup Subject \cup {NoEmail}]

Idle == [pc |-> "idle", email |-> NoEmail, meta |-> NoMeta, token |-> NoToken,
         sub |-> NoSubject, name |-> 0, key |-> NoEmail]

At(r, p) == req[r].pc = p
Goto(r, p) == req' = [req EXCEPT ![r].pc = p]
Finish(r) == req' = [req EXCEPT ![r] = Idle]

\* The log of a quiet history, one without overlapping requests and failing
\* calls: wrong guesses at each code, joiner tokens handed out for it.
Log == [quiet : BOOLEAN, guesses : [Code -> Nat], passed : [Code -> Nat]]
Blank(q) == [quiet |-> q, guesses |-> [c \in Code |-> 0], passed |-> [c \in Code |-> 0]]
Guessed(c) == [log EXCEPT !.guesses[c] = @ + 1]
Passed(c) == [log EXCEPT !.passed[c] = @ + 1]

\* A store call either works or reports an error without effect.
Outcome == IF Faults THEN {"ok", "lost"} ELSE {"ok"}
Lone(r) == \A q \in Req \ {r} : req[q] = Idle
Arriving(r, l) == req[r] = Idle /\ log' = IF log.quiet /\ Lone(r) THEN l ELSE Blank(FALSE)
Calls(r, p, o, l) == At(r, p) /\ log' = IF log.quiet /\ o = "ok" THEN l ELSE Blank(FALSE)

Registered(e) == \E i \in identities : i.key = e
Taken(n) == \E u \in users : u.name = n
EmailUsed(e) == \E u \in users : u.email = e

-----------------------------------------------------------------------------
(* StartEmailVerification *)

\* IsEmailTaken asks auth_identities for an email identity only.
StartEmailVerification(r, e) ==
    /\ Arriving(r, log)
    /\ ~Registered(e)
    /\ req' = [req EXCEPT ![r] = [Idle EXCEPT !.pc = "cooldown", !.email = e]]
    /\ UNCHANGED <<age, owner, redis, pg, hist>>

\* An error of the lookup does not stop the request.
CheckCooldown(r, o) ==
    /\ Calls(r, "cooldown", o, log)
    /\ LET m == codes[req[r].email]
       IN IF o = "ok" /\ m # NoMeta /\ age[m.code] = "young"
          THEN Finish(r) ELSE Goto(r, "save")
    /\ UNCHANGED <<age, owner, redis, pg, hist>>

\* A fresh code with no attempts; the old entry is overwritten.
SaveNewCode(r, o) ==
    /\ Calls(r, "save", o, log)
    /\ \/ /\ o = "ok"
          /\ \E c \in Code :
               /\ age[c] = "unused"
               /\ age' = [age EXCEPT ![c] = "young"]
               /\ owner' = [owner EXCEPT ![c] = req[r].email]
               /\ codes' = [codes EXCEPT ![req[r].email] = [code |-> c, attempts |-> 0]]
          /\ Goto(r, "mail")
       \/ /\ o # "ok" \/ \A c \in Code : age[c] # "unused"
          /\ Finish(r)
          /\ UNCHANGED <<age, owner, codes>>
    /\ UNCHANGED <<subject, live, pg, hist>>

\* A mail that cannot be sent leaves the code, and its cooldown, in place.
SendEmailVerificationEmail(r, o) ==
    /\ Calls(r, "mail", o, log)
    /\ Finish(r)
    /\ UNCHANGED <<age, owner, redis, pg, hist>>

-----------------------------------------------------------------------------
(* VerifyEmailCode *)

\* Faulty variants: every code passes; one attempt too many.
VerifyAnyCode(r, e, c) ==
    /\ Arriving(r, log)
    /\ LET m == codes[e]
       IN /\ m # NoMeta /\ age[m.code] # "expired" /\ m.attempts < MaxAttempts
          /\ req' = [req EXCEPT ![r] = [Idle EXCEPT !.pc = "token", !.email = e, !.meta = m]]
          /\ proved' = IF c # NoCode /\ owner[c] = e THEN proved \cup {e} ELSE proved
    /\ UNCHANGED <<age, owner, redis, pg, handed, opened>>

VerifyUnbounded(r, e, c) ==
    LET m == codes[e]
    IN /\ m # NoMeta /\ age[m.code] # "expired" /\ m.attempts =< MaxAttempts /\ c # m.code
       /\ Arriving(r, Guessed(m.code))
       /\ req' = [req EXCEPT ![r] = [Idle EXCEPT !.pc = "bump", !.email = e, !.meta = m]]
       /\ UNCHANGED <<age, owner, redis, pg, hist>>

\* GetVerificationCode, and everything decided on the metadata it returns:
\* without an entry, past its expiry or out of attempts the answer is an
\* error and nothing changes.
VerifyEmailCode(r, e, c) ==
    LET m == codes[e]
        right == c = m.code
    IN /\ m # NoMeta /\ age[m.code] # "expired" /\ m.attempts < MaxAttempts
       /\ Arriving(r, IF right THEN log ELSE Guessed(m.code))
       /\ req' = [req EXCEPT ![r] = [Idle EXCEPT !.pc = IF right THEN "token" ELSE "bump",
                                                !.email = e, !.meta = m]]
       /\ proved' = IF right /\ owner[c] = e THEN proved \cup {e} ELSE proved
       /\ UNCHANGED <<age, owner, redis, pg, handed, opened>>

\* Faulty variant: the attempt is added to whatever the key holds by now.
IncrementAttempts(r, o) ==
    /\ Calls(r, "bump", o, log)
    /\ codes' = [codes EXCEPT ![req[r].email].attempts = @ + 1]
    /\ Finish(r)
    /\ UNCHANGED <<age, owner, subject, live, pg, hist>>

\* meta.Attempts++ and the whole metadata saved; an error is only logged.
SaveFailedAttempt(r, o) ==
    /\ Calls(r, "bump", o, log)
    /\ codes' = IF o = "ok"
                THEN [codes EXCEPT ![req[r].email] = [req[r].meta EXCEPT !.attempts = @ + 1]]
                ELSE codes
    /\ Finish(r)
    /\ UNCHANGED <<age, owner, subject, live, pg, hist>>

\* Running out of Token, the bound on them, is an error here.
GenerateTemporaryJWT(r, o) ==
    /\ Calls(r, "token", o, log)
    /\ \/ /\ o = "ok"
          /\ \E t \in Token :
               /\ subject[t] = NoEmail
               /\ subject' = [subject EXCEPT ![t] = req[r].email]
               /\ live' = live \cup {t}
               /\ req' = [req EXCEPT ![r] = [@ EXCEPT !.pc = "consume", !.token = t]]
       \/ /\ o # "ok" \/ \A t \in Token : subject[t] # NoEmail
          /\ Finish(r)
          /\ UNCHANGED <<subject, live>>
    /\ UNCHANGED <<age, owner, codes, pg, hist>>

\* DEL email_code:<email>; the token is returned even if that fails.
ConsumeCode(r, o) ==
    /\ Calls(r, "consume", o, Passed(req[r].meta.code))
    /\ codes' = IF o = "ok" THEN [codes EXCEPT ![req[r].email] = NoMeta] ELSE codes
    /\ handed' = handed \cup {req[r].token}
    /\ Finish(r)
    /\ UNCHANGED <<age, owner, subject, live, pg, proved, opened>>

-----------------------------------------------------------------------------
(* CompleteEmailJoin *)

\* VerifyAndParseTemporaryJWT: the email is the token's subject.
CompleteEmailJoin(r, t, n) ==
    /\ Arriving(r, log)
    /\ t \in handed \cap live
    /\ req' = [req EXCEPT ![r] = [Idle EXCEPT !.pc = "name", !.email = subject[t],
                                              !.token = t, !.name = n]]
    /\ UNCHANGED <<age, owner, redis, pg, hist>>

UsernameExists(r, o) ==
    /\ Calls(r, "name", o, log)
    /\ IF o = "ok" /\ ~Taken(req[r].name) THEN Goto(r, "createEmail") ELSE Finish(r)
    /\ UNCHANGED <<age, owner, redis, pg, hist>>

\* Faulty variant: no unique index on users.email.
CreateEmailUserAgain(r, o) ==
    /\ Calls(r, "createEmail", o, log)
    /\ ~Taken(req[r].name)
    /\ users' = users \cup {[email |-> req[r].email, name |-> req[r].name]}
    /\ identities' = identities \cup {[key |-> req[r].email, user |-> req[r].email]}
    /\ req' = [req EXCEPT ![r].pc = "issue", ![r].key = req[r].email]
    /\ UNCHANGED <<age, owner, redis, blocked, hist>>

\* One transaction: the name is checked again, then the unique indexes on
\* email, username and (provider, provider_user_id) decide.
CreateEmailUser(r, o) ==
    /\ Calls(r, "createEmail", o, log)
    /\ LET e == req[r].email
       IN IF o = "ok" /\ ~Taken(req[r].name) /\ ~EmailUsed(e) /\ ~Registered(e)
          THEN /\ users' = users \cup {[email |-> e, name |-> req[r].name]}
               /\ identities' = identities \cup {[key |-> e, user |-> e]}
               /\ req' = [req EXCEPT ![r] = [@ EXCEPT !.pc = "issue", !.key = e]]
          ELSE Finish(r) /\ UNCHANGED <<users, identities>>
    /\ UNCHANGED <<age, owner, redis, blocked, hist>>

\* GenerateUserTokens and CreateRefreshSession; on an error the account stays
\* and so does the joiner token.
issueLoginSession(r, o) ==
    /\ Calls(r, "issue", o, log)
    /\ opened' = IF o = "ok" THEN opened \cup {[key |-> req[r].key, user |-> req[r].email]}
                 ELSE opened
    /\ IF o = "ok" /\ req[r].token # NoToken THEN Goto(r, "deltemp") ELSE Finish(r)
    /\ UNCHANGED <<age, owner, redis, pg, handed, proved>>

\* The last call of a join; an error is only logged.
DeleteTemporarySession(r, o) ==
    /\ Calls(r, "deltemp", o, log)
    /\ live' = IF o = "ok" THEN live \ {req[r].token} ELSE live
    /\ Finish(r)
    /\ UNCHANGED <<age, owner, codes, subject, pg, hist>>

-----------------------------------------------------------------------------
(* SSOLogin with a verified ID token of subject s for email e *)

\* Faulty variant: an account with the claimed email is taken for the
\* subject's own.
SSOAutoLink(r, s, e) ==
    /\ Arriving(r, log)
    /\ IF EmailUsed(e)
       THEN req' = [req EXCEPT ![r] = [Idle EXCEPT !.pc = "issue", !.email = e, !.key = s]]
       ELSE req' = [req EXCEPT ![r] = [Idle EXCEPT !.pc = "conflict", !.email = e, !.sub = s]]
    /\ UNCHANGED <<age, owner, redis, pg, hist>>

\* GetIdentityByProvider: an account that is not usable is refused, whatever
\* email the claims carry the identity's account is meant.
SSOLogin(r, s, e) ==
    /\ Arriving(r, log)
    /\ \/ \E i \in identities :
            /\ i.key = s /\ i.user \notin blocked
            /\ req' = [req EXCEPT ![r] = [Idle EXCEPT !.pc = "issue", !.email = i.user,
                                                      !.key = s]]
       \/ /\ ~Registered(s)
          /\ req' = [req EXCEPT ![r] = [Idle EXCEPT !.pc = "conflict", !.email = e,
                                                    !.sub = s]]
    /\ UNCHANGED <<age, owner, redis, pg, hist>>

\* An account with this email exists: refused, not linked.
GetUserIDByEmail(r, o) ==
    /\ Calls(r, "conflict", o, log)
    /\ IF o = "ok" /\ ~EmailUsed(req[r].email) THEN Goto(r, "candidate") ELSE Finish(r)
    /\ UNCHANGED <<age, owner, redis, pg, hist>>

\* One probe of generateUniqueUsernameFromEmail.
TryCandidate(r, o) ==
    /\ Calls(r, "candidate", o, log)
    /\ LET n == req[r].name
       IN CASE o = "ok" /\ ~Taken(n) -> Goto(r, "createSSO")
            [] o = "ok" /\ Taken(n) /\ n + 1 < NameTries ->
                 req' = [req EXCEPT ![r].name = n + 1]
            [] OTHER -> Finish(r)
    /\ UNCHANGED <<age, owner, redis, pg, hist>>

\* One transaction; the unique indexes decide.
CreateSSOUserAndIdentity(r, o) ==
    /\ Calls(r, "createSSO", o, log)
    /\ LET e == req[r].email
           s == req[r].sub
       IN IF o = "ok" /\ ~Taken(req[r].name) /\ ~EmailUsed(e) /\ ~Registered(s)
          THEN /\ users' = users \cup {[email |-> e, name |-> req[r].name]}
               /\ identities' = identities \cup {[key |-> s, user |-> e]}
               /\ req' = [req EXCEPT ![r] = [@ EXCEPT !.pc = "issue", !.key = s]]
          ELSE Finish(r) /\ UNCHANGED <<users, identities>>
    /\ UNCHANGED <<age, owner, redis, blocked, hist>>

-----------------------------------------------------------------------------
(* Around the requests *)

\* A minute passes, then OTP_TTL.
CodeAges(c) ==
    /\ age[c] \in {"young", "old"}
    /\ age' = [age EXCEPT ![c] = IF @ = "young" THEN "old" ELSE "expired"]
    /\ UNCHANGED <<owner, redis, pg, req, hist, log>>

\* The key's own TTL, set anew at every save, is never the shorter one.
CodeKeyLapses(e) ==
    /\ codes[e] # NoMeta /\ age[codes[e].code] = "expired"
    /\ codes' = [codes EXCEPT ![e] = NoMeta]
    /\ UNCHANGED <<age, owner, subject, live, pg, req, hist, log>>

TemporarySessionLapses(t) ==
    /\ t \in live
    /\ live' = live \ {t}
    /\ UNCHANGED <<age, owner, codes, subject, pg, req, hist, log>>

\* Ban, disable or delete; unban and enable.
SetBlocked(e) ==
    /\ EmailUsed(e)
    /\ blocked' = IF e \in blocked THEN blocked \ {e} ELSE blocked \cup {e}
    /\ UNCHANGED <<age, owner, redis, users, identities, req, hist, log>>

-----------------------------------------------------------------------------
Init ==
    /\ codes = [e \in Email |-> NoMeta]
    /\ age = [c \in Code |-> "unused"] /\ owner = [c \in Code |-> NoEmail]
    /\ subject = [t \in Token |-> NoEmail] /\ live = {}
    /\ users = {} /\ identities = {} /\ blocked = {}
    /\ req = [r \in Req |-> Idle]
    /\ handed = {} /\ proved = {} /\ opened = {} /\ log = Blank(TRUE)

Arrive(r) ==
    \/ \E e \in Email : StartEmailVerification(r, e)
    \/ \E e \in Email, c \in Code \cup {NoCode} : VerifyEmailCode(r, e, c)
    \/ \E t \in Token, n \in Username : CompleteEmailJoin(r, t, n)
    \/ \E s \in Subject, e \in Email : SSOLogin(r, s, e)

Step(r) ==
    \E o \in Outcome :
        \/ CheckCooldown(r, o)
        \/ SaveNewCode(r, o)
        \/ SendEmailVerificationEmail(r, o)
        \/ SaveFailedAttempt(r, o)
        \/ GenerateTemporaryJWT(r, o)
        \/ ConsumeCode(r, o)
        \/ UsernameExists(r, o)
        \/ CreateEmailUser(r, o)
        \/ issueLoginSession(r, o)
        \/ DeleteTemporarySession(r, o)
        \/ GetUserIDByEmail(r, o)
        \/ TryCandidate(r, o)
        \/ CreateSSOUserAndIdentity(r, o)

Environment ==
    \/ \E c \in Code : CodeAges(c)
    \/ \E e \in Email : CodeKeyLapses(e) \/ SetBlocked(e)
    \/ \E t \in Token : TemporarySessionLapses(t)

Next == Environment \/ \E r \in Req : Arrive(r) \/ Step(r)

Spec == Init /\ [][Next]_vars

-----------------------------------------------------------------------------
(* Properties *)

TypeOK ==
    /\ codes \in [Email -> Meta \cup {NoMeta}]
    /\ age \in [Code -> {"unused", "young", "old", "expired"}]
    /\ owner \in [Code -> Email \cup {NoEmail}]
    /\ subject \in [Token -> Email \cup {NoEmail}]
    /\ live \subseteq Token /\ handed \subseteq Token
    /\ users \subseteq User /\ identities \subseteq Identity
    /\ blocked \subseteq Email /\ proved \subseteq Email
    /\ req \in [Req -> Request]
    /\ opened \subseteq Identity /\ log \in Log

\* Proof of the address: an account with a password exists only for an email
\* whose own code was presented, whatever requests raced and calls failed
\* between the code and the account.
AccountProved == \A i \in identities : i.key \in Email => i.key = i.user /\ i.user \in proved

\* Requests that race for one email, one name or one provider account leave
\* one account: no two rows share an email or a name, and every account has
\* exactly the one identity it was created with ("refused rather than
\* silently linked").
OneAccountEach ==
    /\ \A u, v \in users : u # v => u.email # v.email /\ u.name # v.name
    /\ \A u \in users : Cardinality({i \in identities : i.user = u.email}) = 1
    /\ \A i, j \in identities : i.key = j.key => i = j

\* Every session was issued on the account that owns the identity presented.
SessionsOwned == opened \subseteq identities

\* One request at a time and no failing call, a code gets MaxAttempts wrong
\* guesses ("bounded attempts") and passes once ("consumes the code so it
\* can't be reused").
CodeBounds == \A c \in Code : log.guesses[c] =< MaxAttempts /\ log.passed[c] =< 1
=============================================================================
