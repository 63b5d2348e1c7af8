------------------------------ MODULE Passkeys ------------------------------
(***************************************************************************)
(* Registering passkeys, logging in with them, renaming and removing them. *)
(* The state is the pending ceremonies in Redis (webauthn_reg:<user> and   *)
(* webauthn_login:<ceremony>) and the webauthn_credentials rows; each      *)
(* store call that matters to another request is one step.                 *)
(*                                                                         *)
(* Authenticators are modelled by what go-webauthn checks of them: a       *)
(* credential is made for one account in answer to one challenge, signs    *)
(* challenges, and counts its signatures.  A signed answer can be sent     *)
(* any number of times and in any order.  A ceremony and its challenge are *)
(* both random and made together; here they are one value.                 *)
(***************************************************************************)
EXTENDS Naturals, FiniteSets

CONSTANTS
    Req,       \* request slots
    User,
    Cred,      \* credential ids authenticators can make
    Challenge, \* challenges BeginRegistration and BeginDiscoverableLogin can make
    None,      \* no user, credential or challenge
    Anyone,    \* whom a login challenge is made for
    MaxCount,  \* bound on the signatures of one credential
    MaxRows,   \* bound on the rows inserted for one credential id
    Faults     \* TRUE: any store call may fail

ASSUME PasskeysAssumption ==
    /\ IsFiniteSet(Req)
    /\ None \notin User \cup Cred \cup Challenge
    /\ Anyone \notin User /\ Anyone # None
    /\ MaxCount \in Nat \ {0} /\ MaxRows \in Nat \ {0}
    /\ Faults \in BOOLEAN

VARIABLES
    holder, \* holder[h]: the user registration challenge h was made for, Anyone
            \* for a login challenge, None for one not made yet
    reg,    \* reg[u]: the challenge under webauthn_reg:<u>, or None
    live,   \* challenges whose webauthn_login key exists
    row,    \* row[c]: the row with credential_id c (the column is unique), or NoRow
    made,   \* rows inserted so far for each credential id
    answer, \* answer[c]: the registration challenge credential c was made for
    count,  \* count[c]: signatures credential c has made
    signed, \* the assertions authenticators have made
    req,    \* req[r]: the local state of request r
    log     \* history: what happened so far, kept while it was quiet

redis == <<holder, reg, live>>
rows == <<row, made>>
devices == <<answer, count, signed>>
vars == <<holder, reg, live, row, made, answer, count, signed, req, log>>

Count == 0..MaxCount
Assertion == [cred : Cred, ch : Challenge, count : Count]
NoAssertion == [cred |-> None, ch |-> None, count |-> 0]
Row == [id : 1..MaxRows, user : User, count : Count, warned : BOOLEAN, named : BOOLEAN]
NoRow == [id |-> 0, user |-> None, count |-> 0, warned |-> FALSE, named |-> FALSE]

Pc == {"idle", "saveReg", "saveLogin", "insert", "delReg", "load", "update",
       "delLogin", "issue", "own", "rename", "delete"}

Request == [pc : Pc, user : User \cup {None}, cred : Cred \cup {None},
            given : Assertion \cup {NoAssertion}, row : Row \cup {NoRow},
            removes : BOOLEAN]
Idle == [pc |-> "idle", user |-> None, cred |-> None, given |-> NoAssertion,
         row |-> NoRow, removes |-> FALSE]

At(r, p) == req[r].pc = p
Goto(r, p) == req' = [req EXCEPT ![r].pc = p]
Finish(r) == req' = [req EXCEPT ![r] = Idle]

\* The log of a quiet history, one without overlapping requests and failing
\* calls: sessions opened by each ceremony, credentials removed, and whether
\* one of those came back.
Log == [quiet : BOOLEAN, opened : [Challenge -> Nat], removed : SUBSET Cred, back : BOOLEAN]
Blank(q) == [quiet |-> q, opened |-> [h \in Challenge |-> 0], removed |-> {}, back |-> FALSE]

Lone(r) == \A q \in Req \ {r} : req[q] = Idle
Opened(h) == [log EXCEPT !.opened[h] = @ + 1]
Removed(c) == [log EXCEPT !.removed = @ \cup {c}]
Inserted(c) == [log EXCEPT !.back = @ \/ c \in log.removed]

\* A store call either works or reports an error without effect.
Outcome == IF Faults THEN {"ok", "lost"} ELSE {"ok"}
Arriving(r) == req[r] = Idle /\ log' = IF log.quiet /\ Lone(r) THEN log ELSE Blank(FALSE)
Calls(r, p, o, l) == At(r, p) /\ log' = IF log.quiet /\ o = "ok" THEN l ELSE Blank(FALSE)

-----------------------------------------------------------------------------
(* Registration *)

BeginPasskeyRegistration(r, u) ==
    /\ Arriving(r)
    /\ req' = [req EXCEPT ![r] = [Idle EXCEPT !.pc = "saveReg", !.user = u]]
    /\ UNCHANGED <<redis, rows, devices>>

\* The key holds one ceremony per user: the newest.
SaveWebAuthnRegistrationSession(r, o) ==
    /\ Calls(r, "saveReg", o, log)
    /\ \/ /\ o = "ok"
          /\ \E h \in Challenge :
               /\ holder[h] = None
               /\ holder' = [holder EXCEPT ![h] = req[r].user]
               /\ reg' = [reg EXCEPT ![req[r].user] = h]
       \/ /\ o # "ok" \/ \A h \in Challenge : holder[h] # None
          /\ UNCHANGED <<holder, reg>>
    /\ Finish(r)
    /\ UNCHANGED <<live, rows, devices>>

\* Faulty variant: the answer is not compared with the pending challenge.
FinishAnyRegistration(r, u, c) ==
    /\ Arriving(r)
    /\ answer[c] # None /\ reg[u] # None
    /\ req' = [req EXCEPT ![r] = [Idle EXCEPT !.pc = "insert", !.user = u, !.cred = c]]
    /\ UNCHANGED <<redis, rows, devices>>

\* GetWebAuthnRegistrationSession; webAuthn.FinishRegistration accepts an
\* answer to the pending challenge.
FinishPasskeyRegistration(r, u, c) ==
    /\ Arriving(r)
    /\ answer[c] # None /\ reg[u] = answer[c]
    /\ req' = [req EXCEPT ![r] = [Idle EXCEPT !.pc = "insert", !.user = u, !.cred = c]]
    /\ UNCHANGED <<redis, rows, devices>>

\* The unique index on credential_id refuses a second row.
CreateWebAuthnCredential(r, o) ==
    /\ Calls(r, "insert", o, Inserted(req[r].cred))
    /\ LET c == req[r].cred
       IN IF o = "ok" /\ row[c] = NoRow /\ made[c] < MaxRows
          THEN /\ made' = [made EXCEPT ![c] = @ + 1]
               /\ row' = [row EXCEPT ![c] = [id |-> made[c] + 1, user |-> req[r].user,
                                             count |-> 0, warned |-> FALSE, named |-> FALSE]]
               /\ Goto(r, "delReg")
          ELSE Finish(r) /\ UNCHANGED rows
    /\ UNCHANGED <<redis, devices>>

\* Faulty variant: the ceremony stays.
KeepRegistrationSession(r, o) ==
    /\ Calls(r, "delReg", o, log)
    /\ Finish(r)
    /\ UNCHANGED <<redis, rows, devices>>

\* Whichever ceremony the key holds by now; an error is only logged, as one
\* of the audit entry is.
DeleteWebAuthnRegistrationSession(r, o) ==
    /\ Calls(r, "delReg", o, log)
    /\ reg' = IF o = "ok" THEN [reg EXCEPT ![req[r].user] = None] ELSE reg
    /\ Finish(r)
    /\ UNCHANGED <<holder, live, rows, devices>>

-----------------------------------------------------------------------------
(* Login *)

BeginPasskeyLogin(r) ==
    /\ Arriving(r)
    /\ req' = [req EXCEPT ![r].pc = "saveLogin"]
    /\ UNCHANGED <<redis, rows, devices>>

SaveWebAuthnLoginSession(r, o) ==
    /\ Calls(r, "saveLogin", o, log)
    /\ \/ /\ o = "ok"
          /\ \E h \in Challenge :
               /\ holder[h] = None
               /\ holder' = [holder EXCEPT ![h] = Anyone]
               /\ live' = live \cup {h}
       \/ /\ o # "ok" \/ \A h \in Challenge : holder[h] # None
          /\ UNCHANGED <<holder, live>>
    /\ Finish(r)
    /\ UNCHANGED <<reg, rows, devices>>

\* GetWebAuthnLoginSession; the assertion answers its challenge.
FinishPasskeyLogin(r, a) ==
    /\ Arriving(r)
    /\ a.ch \in live
    /\ req' = [req EXCEPT ![r] = [Idle EXCEPT !.pc = "load", !.given = a]]
    /\ UNCHANGED <<redis, rows, devices>>

\* Faulty variant: the count presented is stored, whatever it is.
StoreCount(w, n) == [w EXCEPT !.count = n]

\* What the library does with the count: one that does not advance raises the
\* warning and is not stored.  Nothing here reads the warning.
UpdateCounter(w, n) == IF n > w.count THEN [w EXCEPT !.count = n] ELSE [w EXCEPT !.warned = TRUE]

\* The handler: the user handle names the account the credential was made
\* for, whose rows must hold the credential.  An account that is not usable is
\* refused after that.
loadWebAuthnUser(r, o) ==
    /\ Calls(r, "load", o, log)
    /\ LET a == req[r].given
           w == row[a.cred]
       IN \/ /\ o = "ok" /\ w # NoRow /\ w.user = holder[answer[a.cred]]
             /\ req' = [req EXCEPT ![r] = [@ EXCEPT !.pc = "update", !.user = w.user,
                                                !.row = UpdateCounter(w, a.count)]]
          \/ Finish(r)
    /\ UNCHANGED <<redis, rows, devices>>

\* Faulty variant: whatever row the credential id has by now.
UpdateByCredential(r, o) ==
    /\ Calls(r, "update", o, log)
    /\ row' = [row EXCEPT ![req[r].given.cred].count = req[r].row.count]
    /\ Goto(r, "delLogin")
    /\ UNCHANGED <<made, redis, devices>>

\* By row id, the credential as a whole; the name is a column of its own.  An
\* error is only logged.
UpdateWebAuthnCredential(r, o) ==
    /\ Calls(r, "update", o, log)
    /\ LET c == req[r].given.cred
           w == req[r].row
       IN row' = IF o = "ok" /\ row[c].id = w.id
                 THEN [row EXCEPT ![c] = [@ EXCEPT !.count = w.count, !.warned = w.warned]] ELSE row
    /\ Goto(r, "delLogin")
    /\ UNCHANGED <<made, redis, devices>>

\* Faulty variant: the ceremony stays.
KeepLoginSession(r, o) ==
    /\ Calls(r, "delLogin", o, log)
    /\ Goto(r, "issue")
    /\ UNCHANGED <<redis, rows, devices>>

\* An error is only logged.
DeleteWebAuthnLoginSession(r, o) ==
    /\ Calls(r, "delLogin", o, log)
    /\ live' = IF o = "ok" THEN live \ {req[r].given.ch} ELSE live
    /\ Goto(r, "issue")
    /\ UNCHANGED <<holder, reg, rows, devices>>

\* Straight to the session, past the MFA gate.
issueLoginSession(r, o) ==
    /\ Calls(r, "issue", o, Opened(req[r].given.ch))
    /\ Finish(r)
    /\ UNCHANGED <<redis, rows, devices>>

-----------------------------------------------------------------------------
(* Management *)

\* The name is not empty.
RenamePasskey(r, u, c) ==
    /\ Arriving(r)
    /\ req' = [req EXCEPT ![r] = [Idle EXCEPT !.pc = "own", !.user = u, !.cred = c]]
    /\ UNCHANGED <<redis, rows, devices>>

\* With the current password.
DeletePasskey(r, u, c) ==
    /\ Arriving(r)
    /\ req' = [req EXCEPT ![r] = [Idle EXCEPT !.pc = "own", !.user = u, !.cred = c,
                                              !.removes = TRUE]]
    /\ UNCHANGED <<redis, rows, devices>>

\* The request names a row by its id; an error means no.
userOwnsPasskey(r, o) ==
    /\ Calls(r, "own", o, log)
    /\ LET w == row[req[r].cred]
       IN IF o = "ok" /\ w # NoRow /\ w.user = req[r].user
          THEN req' = [req EXCEPT ![r] = [@ EXCEPT !.pc = IF req[r].removes THEN "delete"
                                                                   ELSE "rename",
                                                        !.row = w]]
          ELSE Finish(r)
    /\ UNCHANGED <<redis, rows, devices>>

Target(r) == /\ row[req[r].cred].id = req[r].row.id
             /\ row[req[r].cred].user = req[r].user

RenameWebAuthnCredential(r, o) ==
    /\ Calls(r, "rename", o, log)
    /\ row' = IF o = "ok" /\ Target(r) THEN [row EXCEPT ![req[r].cred].named = TRUE] ELSE row
    /\ Finish(r)
    /\ UNCHANGED <<made, redis, devices>>

DeleteWebAuthnCredential(r, o) ==
    /\ Calls(r, "delete", o, Removed(req[r].cred))
    /\ row' = IF o = "ok" /\ Target(r) THEN [row EXCEPT ![req[r].cred] = NoRow] ELSE row
    /\ Finish(r)
    /\ UNCHANGED <<made, redis, devices>>

-----------------------------------------------------------------------------
(* Around the requests *)

\* An authenticator makes a credential in answer to a registration challenge.
Attest(c, h) ==
    /\ answer[c] = None /\ holder[h] \in User
    /\ answer' = [answer EXCEPT ![c] = h]
    /\ UNCHANGED <<redis, rows, count, signed, req, log>>

\* It signs a login challenge.
Sign(c, h) ==
    /\ answer[c] # None /\ holder[h] = Anyone /\ count[c] < MaxCount
    /\ count' = [count EXCEPT ![c] = @ + 1]
    /\ signed' = signed \cup {[cred |-> c, ch |-> h, count |-> count[c] + 1]}
    /\ UNCHANGED <<redis, rows, answer, req, log>>

\* webauthnSessionTTL.
CeremonyLapses ==
    /\ \/ \E u \in User : reg[u] # None /\ reg' = [reg EXCEPT ![u] = None] /\ UNCHANGED live
       \/ \E h \in live : live' = live \ {h} /\ UNCHANGED reg
    /\ UNCHANGED <<holder, rows, devices, req, log>>

-----------------------------------------------------------------------------
Init ==
    /\ holder = [h \in Challenge |-> None] /\ reg = [u \in User |-> None] /\ live = {}
    /\ row = [c \in Cred |-> NoRow] /\ made = [c \in Cred |-> 0]
    /\ answer = [c \in Cred |-> None] /\ count = [c \in Cred |-> 0] /\ signed = {}
    /\ req = [r \in Req |-> Idle] /\ log = Blank(TRUE)

Arrive(r) ==
    \/ BeginPasskeyLogin(r)
    \/ \E a \in signed : FinishPasskeyLogin(r, a)
    \/ \E u \in User : BeginPasskeyRegistration(r, u)
    \/ \E u \in User, c \in Cred :
         FinishPasskeyRegistration(r, u, c) \/ RenamePasskey(r, u, c) \/ DeletePasskey(r, u, c)

Step(r) ==
    \E o \in Outcome :
        \/ SaveWebAuthnRegistrationSession(r, o)
        \/ CreateWebAuthnCredential(r, o)
        \/ DeleteWebAuthnRegistrationSession(r, o)
        \/ SaveWebAuthnLoginSession(r, o)
        \/ loadWebAuthnUser(r, o)
        \/ UpdateWebAuthnCredential(r, o)
        \/ DeleteWebAuthnLoginSession(r, o)
        \/ issueLoginSession(r, o)
        \/ userOwnsPasskey(r, o)
        \/ RenameWebAuthnCredential(r, o)
        \/ DeleteWebAuthnCredential(r, o)

Environment ==
    \/ CeremonyLapses
    \/ \E c \in Cred, h \in Challenge : Attest(c, h) \/ Sign(c, h)

Next == Environment \/ \E r \in Req : Arrive(r) \/ Step(r)

Spec == Init /\ [][Next]_vars

-----------------------------------------------------------------------------
(* Properties *)

TypeOK ==
    /\ holder \in [Challenge -> User \cup {None, Anyone}]
    /\ reg \in [User -> Challenge \cup {None}] /\ live \subseteq Challenge
    /\ row \in [Cred -> Row \cup {NoRow}] /\ made \in [Cred -> 0..MaxRows]
    /\ answer \in [Cred -> Challenge \cup {None}] /\ count \in [Cred -> Count]
    /\ signed \subseteq Assertion
    /\ req \in [Req -> Request] /\ log \in Log

\* A passkey on file belongs to the account whose registration ceremony it
\* was made in, whichever ceremonies overlap, are restarted or run out and
\* whichever answers are sent again.
PasskeyOwned ==
    \A c \in Cred : row[c] # NoRow => answer[c] # None /\ row[c].user = holder[answer[c]]

\* One request at a time and no failing call, a login ceremony opens one
\* session, however often its answer is sent.
CeremonyOnce == \A h \in Challenge : log.opened[h] =< 1

\* One request at a time and no failing call, a passkey that was removed does
\* not come back, however often its registration is sent again.
RemovedStaysRemoved == ~log.back

\* One request at a time, the stored count never goes back, in whichever order
\* assertions arrive.
CountAdvances ==
    [][log'.quiet => \A c \in Cred :
         row[c] # NoRow /\ row'[c] # NoRow /\ row'[c].id = row[c].id
            => row'[c].count >= row[c].count]_vars
=============================================================================
