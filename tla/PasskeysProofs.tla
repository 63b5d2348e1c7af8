--------------------------- MODULE PasskeysProofs ---------------------------
(***************************************************************************)
(* Theorems about Passkeys, for any number of requests, accounts,          *)
(* credentials and challenges.  However requests overlap and calls fail,   *)
(* every passkey on file belongs to the account whose ceremony it was made *)
(* in; as long as they do not, a ceremony opens one session, a removed     *)
(* passkey stays removed and the count on file never goes back.            *)
(***************************************************************************)
EXTENDS Passkeys, TLAPS

\* Which locals a program counter has set.
ControlInv ==
    \A r \in Req :
        LET q == req[r] IN
        /\ q.pc \in {"saveReg", "insert", "delReg", "own", "rename", "delete"} => q.user \in User
        /\ q.pc \in {"insert", "own", "rename", "delete"} => q.cred \in Cred
        /\ q.pc \in {"load", "update", "delLogin", "issue"} => q.given \in Assertion
        /\ q.pc \in {"update", "rename", "delete"} => q.row \in Row

\* A pending registration challenge was made for the user it is stored under,
\* and a credential answers a challenge that was made for some user.
HolderInv ==
    /\ \A u \in User : reg[u] # None => holder[reg[u]] = u
    /\ \A c \in Cred : answer[c] # None => holder[answer[c]] \in User

\* A credential about to be inserted answers a challenge made for the user it
\* is inserted for, even if that challenge is no longer the pending one.
InsertInv ==
    \A r \in Req : At(r, "insert") =>
        answer[req[r].cred] # None /\ holder[answer[req[r].cred]] = req[r].user

IInv == TypeOK /\ ControlInv /\ HolderInv /\ InsertInv /\ PasskeyOwned

-----------------------------------------------------------------------------
\* The initial state satisfies the invariant.
LEMMA InitIInv == Init => IInv
<1> SUFFICES ASSUME Init PROVE IInv
  OBVIOUS
<1> USE PasskeysAssumption DEF Init, Idle
<1>1. TypeOK
  BY DEF TypeOK, Request, Pc, Count, Log, Blank, NoAssertion, NoRow
<1>2. ControlInv /\ HolderInv /\ InsertInv /\ PasskeyOwned
  BY DEF ControlInv, HolderInv, InsertInv, PasskeyOwned, At
<1> QED
  BY <1>1, <1>2 DEF IInv

\* The log keeps its type, whatever is added to it.
LEMMA LogTypes ==
    ASSUME log \in Log
    PROVE  /\ Blank(FALSE) \in Log
           /\ \A h \in Challenge : Opened(h) \in Log
           /\ \A c \in Cred : Removed(c) \in Log /\ Inserted(c) \in Log
<1>1. Blank(FALSE) \in Log
  BY DEF Blank, Log
<1>2. ASSUME NEW h \in Challenge PROVE Opened(h) \in Log
  <2>1. log.opened[h] + 1 \in Nat /\ [log.opened EXCEPT ![h] = @ + 1] \in [Challenge -> Nat]
    BY DEF Log
  <2> QED
    BY <2>1 DEF Opened, Log
<1>3. ASSUME NEW c \in Cred PROVE Removed(c) \in Log /\ Inserted(c) \in Log
  <2>1. log.removed \cup {c} \in SUBSET Cred /\ (log.back \/ c \in log.removed) \in BOOLEAN
    BY DEF Log
  <2> QED
    BY <2>1 DEF Removed, Inserted, Log
<1> QED
  BY <1>1, <1>2, <1>3

\* loadWebAuthnUser ends the request, or goes on with a row it has read.
LEMMA LoadEffect ==
    ASSUME IInv, NEW r \in Req, NEW o \in Outcome, loadWebAuthnUser(r, o)
    PROVE  \E q \in Request :
             /\ req' = [req EXCEPT ![r] = q]
             /\ q.pc \in {"idle", "update"}
             /\ q.pc = "update" => q.given \in Assertion /\ q.row \in Row
             /\ q.pc = "update" => /\ q.given = req[r].given
                                  /\ q.row.count >= row[q.given.cred].count
<1> DEFINE w == row[req[r].given.cred]
           x == UpdateCounter(w, req[r].given.count)
           q == [req[r] EXCEPT !.pc = "update", !.user = w.user, !.row = x]
<1>1. req[r] \in Request /\ req[r].given \in Assertion
  BY DEF IInv, TypeOK, ControlInv, loadWebAuthnUser, Calls, At
<1>2. req[r].given.cred \in Cred /\ req[r].given.count \in Count
  BY <1>1 DEF Assertion
<1>3. w # NoRow => w \in Row
  BY <1>2 DEF IInv, TypeOK
<1>4. w # NoRow => w.user \in User /\ x \in Row /\ x.count >= w.count
  <2>1. w # NoRow => w.user \in User /\ x \in Row
    BY <1>2, <1>3 DEF UpdateCounter, Row
  <2>2. w # NoRow => w.count \in Nat /\ req[r].given.count \in Nat
    BY <1>2, <1>3, PasskeysAssumption DEF Row, Count
  <2>3. w # NoRow /\ req[r].given.count > w.count => x.count = req[r].given.count
    BY <1>3 DEF UpdateCounter, Row
  <2>4. w # NoRow /\ ~(req[r].given.count > w.count) => x.count = w.count
    BY <1>3 DEF UpdateCounter, Row
  <2> HIDE DEF w, x
  <2> QED
    BY <2>1, <2>2, <2>3, <2>4
<1>5. req' = [req EXCEPT ![r] = Idle] \/ (w # NoRow /\ req' = [req EXCEPT ![r] = q])
  BY DEF loadWebAuthnUser, Finish
<1>6. CASE req' = [req EXCEPT ![r] = Idle]
  <2>1. Idle \in Request /\ Idle.pc = "idle"
    BY DEF Idle, Request, Pc
  <2> QED
    BY <1>6, <2>1
<1>7. CASE w # NoRow /\ req' = [req EXCEPT ![r] = q]
  <2> HIDE DEF w, x
  <2>1. q \in Request /\ q.pc = "update" /\ q.given = req[r].given /\ q.row = x
    BY <1>1, <1>4, <1>7 DEF Request, Pc
  <2>2. w = row[req[r].given.cred]
    BY DEF w
  <2> HIDE DEF q
  <2> QED
    BY <1>1, <1>4, <1>7, <2>1, <2>2
<1> QED
  BY <1>5, <1>6, <1>7

\* userOwnsPasskey ends the request, or goes on with the row it has read.
LEMMA OwnEffect ==
    ASSUME IInv, NEW r \in Req, NEW o \in Outcome, userOwnsPasskey(r, o)
    PROVE  \E q \in Request :
             /\ req' = [req EXCEPT ![r] = q]
             /\ q.pc \in {"idle", "rename", "delete"}
             /\ q.pc # "idle" => q.user \in User /\ q.cred \in Cred /\ q.row \in Row
             /\ q.pc # "idle" => q.cred = req[r].cred /\ row[q.cred] # NoRow
<1> DEFINE w == row[req[r].cred]
           p == IF req[r].removes THEN "delete" ELSE "rename"
           q == [req[r] EXCEPT !.pc = p, !.row = w]
<1>1. req[r] \in Request /\ req[r].user \in User /\ req[r].cred \in Cred
  BY DEF IInv, TypeOK, ControlInv, userOwnsPasskey, Calls, At
<1>2. w # NoRow => w \in Row
  BY <1>1 DEF IInv, TypeOK
<1>3. p \in {"rename", "delete"}
  OBVIOUS
<1>4. req' = [req EXCEPT ![r] = Idle] \/ (w # NoRow /\ req' = [req EXCEPT ![r] = q])
  BY DEF userOwnsPasskey, Finish
<1>5. CASE req' = [req EXCEPT ![r] = Idle]
  <2>1. Idle \in Request /\ Idle.pc = "idle"
    BY DEF Idle, Request, Pc
  <2> QED
    BY <1>5, <2>1
<1>6. CASE w # NoRow /\ req' = [req EXCEPT ![r] = q]
  <2> HIDE DEF w, p
  <2>1. /\ q \in Request /\ q.pc = p
        /\ q.user = req[r].user /\ q.cred = req[r].cred /\ q.row = w
    BY <1>1, <1>2, <1>3, <1>6 DEF Request, Pc
  <2>2. w = row[req[r].cred]
    BY DEF w
  <2> HIDE DEF q
  <2> QED
    BY <1>1, <1>2, <1>3, <1>6, <2>1, <2>2
<1> QED
  BY <1>4, <1>5, <1>6

\* A step keeps the rows: a passkey on file may change, but not its owner.
Kept == \A c \in Cred : \/ row'[c] = row[c]
                        \/ /\ row[c] \in Row /\ row'[c] \in Row
                           /\ row'[c].user = row[c].user

\* UpdateWebAuthnCredential changes only a row that is there.
LEMMA UpdateEffect ==
    ASSUME IInv, NEW r \in Req, NEW o \in Outcome, UpdateWebAuthnCredential(r, o)
    PROVE  /\ row' \in [Cred -> Row \cup {NoRow}] /\ Kept
           /\ \A c \in Cred : \/ row'[c] = row[c]
                             \/ /\ c = req[r].given.cred
                                /\ row'[c].count = req[r].row.count
<1> DEFINE c == req[r].given.cred
           w == [row[c] EXCEPT !.count = req[r].row.count, !.warned = req[r].row.warned]
<1>1. c \in Cred /\ req[r].row \in Row
  BY DEF IInv, ControlInv, UpdateWebAuthnCredential, Calls, At, Assertion
<1>2. row \in [Cred -> Row \cup {NoRow}]
  BY DEF IInv, TypeOK
<1>3. row[c].id = req[r].row.id => row[c] \in Row
  BY <1>1, <1>2, PasskeysAssumption DEF Row, NoRow
<1>4. row[c].id = req[r].row.id => /\ w \in Row /\ w.user = row[c].user
                                   /\ w.count = req[r].row.count
  BY <1>1, <1>3 DEF Row
<1>5. row' = row \/ (row[c].id = req[r].row.id /\ row' = [row EXCEPT ![c] = w])
  BY DEF UpdateWebAuthnCredential
<1>6. c = req[r].given.cred
  OBVIOUS
<1> HIDE DEF c, w
<1> QED
  BY <1>1, <1>2, <1>3, <1>4, <1>5, <1>6 DEF Kept

\* RenameWebAuthnCredential changes only a row that is there.
LEMMA RenameEffect ==
    ASSUME IInv, NEW r \in Req, NEW o \in Outcome, RenameWebAuthnCredential(r, o)
    PROVE  /\ row' \in [Cred -> Row \cup {NoRow}] /\ Kept
           /\ \A c \in Cred : row'[c].count = row[c].count
<1> DEFINE c == req[r].cred
           w == [row[c] EXCEPT !.named = TRUE]
<1>1. c \in Cred /\ req[r].row \in Row
  BY DEF IInv, ControlInv, RenameWebAuthnCredential, Calls, At
<1>2. row \in [Cred -> Row \cup {NoRow}]
  BY DEF IInv, TypeOK
<1>3. Target(r) => row[c] \in Row
  BY <1>1, <1>2, PasskeysAssumption DEF Target, Row, NoRow
<1>4. Target(r) => w \in Row /\ w.user = row[c].user /\ w.count = row[c].count
  BY <1>3 DEF Row
<1>5. row' = row \/ (Target(r) /\ row' = [row EXCEPT ![c] = w])
  BY DEF RenameWebAuthnCredential
<1> HIDE DEF c, w
<1> QED
  BY <1>1, <1>2, <1>3, <1>4, <1>5 DEF Kept

\* Every step keeps the requests within their type.
LEMMA RequestStep == IInv /\ [Next]_vars => req' \in [Req -> Request]
<1> SUFFICES ASSUME IInv, [Next]_vars PROVE req' \in [Req -> Request]
  OBVIOUS
<1> USE DEF TypeOK, ControlInv, Request, Pc, At, Goto, Finish, Calls, Arriving
<1>0. TypeOK /\ ControlInv
  BY DEF IInv
<1>i. Idle \in Request
  BY DEF Idle, Request, Pc
<1>1. ASSUME NEW r \in Req, BeginPasskeyLogin(r) PROVE req' \in [Req -> Request]
  BY <1>0, <1>i, <1>1 DEF BeginPasskeyLogin
<1>2. ASSUME NEW r \in Req, NEW a \in signed, FinishPasskeyLogin(r, a)
      PROVE  req' \in [Req -> Request]
  BY <1>0, <1>i, <1>2 DEF FinishPasskeyLogin
<1>3. ASSUME NEW r \in Req, NEW u \in User, BeginPasskeyRegistration(r, u)
      PROVE  req' \in [Req -> Request]
  BY <1>0, <1>i, <1>3 DEF BeginPasskeyRegistration
<1>4. ASSUME NEW r \in Req, NEW u \in User, NEW c \in Cred, FinishPasskeyRegistration(r, u, c)
      PROVE  req' \in [Req -> Request]
  BY <1>0, <1>i, <1>4 DEF FinishPasskeyRegistration
<1>5. ASSUME NEW r \in Req, NEW u \in User, NEW c \in Cred, RenamePasskey(r, u, c)
      PROVE  req' \in [Req -> Request]
  BY <1>0, <1>i, <1>5 DEF RenamePasskey
<1>6. ASSUME NEW r \in Req, NEW u \in User, NEW c \in Cred, DeletePasskey(r, u, c)
      PROVE  req' \in [Req -> Request]
  BY <1>0, <1>i, <1>6 DEF DeletePasskey
<1>7. ASSUME NEW r \in Req, NEW o \in Outcome, SaveWebAuthnRegistrationSession(r, o)
      PROVE  req' \in [Req -> Request]
  BY <1>0, <1>i, <1>7 DEF SaveWebAuthnRegistrationSession
<1>8. ASSUME NEW r \in Req, NEW o \in Outcome, CreateWebAuthnCredential(r, o)
      PROVE  req' \in [Req -> Request]
  BY <1>0, <1>i, <1>8 DEF CreateWebAuthnCredential
<1>9. ASSUME NEW r \in Req, NEW o \in Outcome, DeleteWebAuthnRegistrationSession(r, o)
      PROVE  req' \in [Req -> Request]
  BY <1>0, <1>i, <1>9 DEF DeleteWebAuthnRegistrationSession
<1>10. ASSUME NEW r \in Req, NEW o \in Outcome, SaveWebAuthnLoginSession(r, o)
      PROVE  req' \in [Req -> Request]
  BY <1>0, <1>i, <1>10 DEF SaveWebAuthnLoginSession
<1>11. ASSUME NEW r \in Req, NEW o \in Outcome, loadWebAuthnUser(r, o)
      PROVE  req' \in [Req -> Request]
  <2>1. PICK q \in Request :
          /\ req' = [req EXCEPT ![r] = q]
          /\ q.pc \in {"idle", "update"}
          /\ q.pc = "update" => q.given \in Assertion /\ q.row \in Row
    BY <1>11, LoadEffect
  <2> QED
    BY <1>0, <2>1
<1>12. ASSUME NEW r \in Req, NEW o \in Outcome, UpdateWebAuthnCredential(r, o)
      PROVE  req' \in [Req -> Request]
  BY <1>0, <1>i, <1>12 DEF UpdateWebAuthnCredential
<1>13. ASSUME NEW r \in Req, NEW o \in Outcome, DeleteWebAuthnLoginSession(r, o)
      PROVE  req' \in [Req -> Request]
  BY <1>0, <1>i, <1>13 DEF DeleteWebAuthnLoginSession
<1>14. ASSUME NEW r \in Req, NEW o \in Outcome, issueLoginSession(r, o)
      PROVE  req' \in [Req -> Request]
  BY <1>0, <1>i, <1>14 DEF issueLoginSession
<1>15. ASSUME NEW r \in Req, NEW o \in Outcome, userOwnsPasskey(r, o)
      PROVE  req' \in [Req -> Request]
  <2>1. PICK q \in Request :
          /\ req' = [req EXCEPT ![r] = q]
          /\ q.pc \in {"idle", "rename", "delete"}
          /\ q.pc # "idle" => q.user \in User /\ q.cred \in Cred /\ q.row \in Row
    BY <1>15, OwnEffect
  <2> QED
    BY <1>0, <2>1
<1>16. ASSUME NEW r \in Req, NEW o \in Outcome, RenameWebAuthnCredential(r, o)
      PROVE  req' \in [Req -> Request]
  BY <1>0, <1>i, <1>16 DEF RenameWebAuthnCredential
<1>17. ASSUME NEW r \in Req, NEW o \in Outcome, DeleteWebAuthnCredential(r, o)
      PROVE  req' \in [Req -> Request]
  BY <1>0, <1>i, <1>17 DEF DeleteWebAuthnCredential
<1>18. CASE CeremonyLapses
  BY <1>0, <1>i, <1>18 DEF CeremonyLapses, redis
<1>19. ASSUME NEW c \in Cred, NEW h \in Challenge, Attest(c, h) PROVE req' \in [Req -> Request]
  BY <1>0, <1>i, <1>19 DEF Attest
<1>20. ASSUME NEW c \in Cred, NEW h \in Challenge, Sign(c, h) PROVE req' \in [Req -> Request]
  BY <1>0, <1>i, <1>20 DEF Sign
<1>21. CASE UNCHANGED vars
  BY <1>0, <1>i, <1>21 DEF vars
<1> QED
  BY <1>1, <1>2, <1>3, <1>4, <1>5, <1>6, <1>7, <1>8,
     <1>9, <1>10, <1>11, <1>12, <1>13, <1>14, <1>15, <1>16,
     <1>17, <1>18, <1>19, <1>20, <1>21
  DEF Next, Arrive, Step, Environment

\* Every step keeps the log within its type.
LEMMA LogStep == IInv /\ [Next]_vars => log' \in Log
<1> SUFFICES ASSUME IInv, [Next]_vars PROVE log' \in Log
  OBVIOUS
<1> USE DEF TypeOK, ControlInv, At, Calls, Arriving, Assertion
<1>0. TypeOK /\ ControlInv
  BY DEF IInv
<1>l. log \in Log
  BY <1>0
<1>1. ASSUME NEW r \in Req, BeginPasskeyLogin(r) PROVE log' \in Log
  BY <1>0, <1>l, LogTypes, <1>1 DEF BeginPasskeyLogin
<1>2. ASSUME NEW r \in Req, NEW a \in signed, FinishPasskeyLogin(r, a) PROVE log' \in Log
  BY <1>0, <1>l, LogTypes, <1>2 DEF FinishPasskeyLogin
<1>3. ASSUME NEW r \in Req, NEW u \in User, BeginPasskeyRegistration(r, u) PROVE log' \in Log
  BY <1>0, <1>l, LogTypes, <1>3 DEF BeginPasskeyRegistration
<1>4. ASSUME NEW r \in Req, NEW u \in User, NEW c \in Cred, FinishPasskeyRegistration(r, u, c)
      PROVE  log' \in Log
  BY <1>0, <1>l, LogTypes, <1>4 DEF FinishPasskeyRegistration
<1>5. ASSUME NEW r \in Req, NEW u \in User, NEW c \in Cred, RenamePasskey(r, u, c)
      PROVE  log' \in Log
  BY <1>0, <1>l, LogTypes, <1>5 DEF RenamePasskey
<1>6. ASSUME NEW r \in Req, NEW u \in User, NEW c \in Cred, DeletePasskey(r, u, c)
      PROVE  log' \in Log
  BY <1>0, <1>l, LogTypes, <1>6 DEF DeletePasskey
<1>7. ASSUME NEW r \in Req, NEW o \in Outcome, SaveWebAuthnRegistrationSession(r, o)
      PROVE  log' \in Log
  BY <1>0, <1>l, LogTypes, <1>7 DEF SaveWebAuthnRegistrationSession
<1>8. ASSUME NEW r \in Req, NEW o \in Outcome, CreateWebAuthnCredential(r, o)
      PROVE  log' \in Log
  BY <1>0, <1>l, LogTypes, <1>8 DEF CreateWebAuthnCredential
<1>9. ASSUME NEW r \in Req, NEW o \in Outcome, DeleteWebAuthnRegistrationSession(r, o)
      PROVE  log' \in Log
  BY <1>0, <1>l, LogTypes, <1>9 DEF DeleteWebAuthnRegistrationSession
<1>10. ASSUME NEW r \in Req, NEW o \in Outcome, SaveWebAuthnLoginSession(r, o)
      PROVE  log' \in Log
  BY <1>0, <1>l, LogTypes, <1>10 DEF SaveWebAuthnLoginSession
<1>11. ASSUME NEW r \in Req, NEW o \in Outcome, loadWebAuthnUser(r, o) PROVE log' \in Log
  BY <1>0, <1>l, LogTypes, <1>11 DEF loadWebAuthnUser
<1>12. ASSUME NEW r \in Req, NEW o \in Outcome, UpdateWebAuthnCredential(r, o)
      PROVE  log' \in Log
  BY <1>0, <1>l, LogTypes, <1>12 DEF UpdateWebAuthnCredential
<1>13. ASSUME NEW r \in Req, NEW o \in Outcome, DeleteWebAuthnLoginSession(r, o)
      PROVE  log' \in Log
  BY <1>0, <1>l, LogTypes, <1>13 DEF DeleteWebAuthnLoginSession
<1>14. ASSUME NEW r \in Req, NEW o \in Outcome, issueLoginSession(r, o) PROVE log' \in Log
  BY <1>0, <1>l, LogTypes, <1>14 DEF issueLoginSession
<1>15. ASSUME NEW r \in Req, NEW o \in Outcome, userOwnsPasskey(r, o) PROVE log' \in Log
  BY <1>0, <1>l, LogTypes, <1>15 DEF userOwnsPasskey
<1>16. ASSUME NEW r \in Req, NEW o \in Outcome, RenameWebAuthnCredential(r, o)
      PROVE  log' \in Log
  BY <1>0, <1>l, LogTypes, <1>16 DEF RenameWebAuthnCredential
<1>17. ASSUME NEW r \in Req, NEW o \in Outcome, DeleteWebAuthnCredential(r, o)
      PROVE  log' \in Log
  BY <1>0, <1>l, LogTypes, <1>17 DEF DeleteWebAuthnCredential
<1>18. CASE CeremonyLapses
  BY <1>0, <1>l, LogTypes, <1>18 DEF CeremonyLapses
<1>19. ASSUME NEW c \in Cred, NEW h \in Challenge, Attest(c, h) PROVE log' \in Log
  BY <1>0, <1>l, LogTypes, <1>19 DEF Attest
<1>20. ASSUME NEW c \in Cred, NEW h \in Challenge, Sign(c, h) PROVE log' \in Log
  BY <1>0, <1>l, LogTypes, <1>20 DEF Sign
<1>21. CASE UNCHANGED vars
  BY <1>0, <1>l, LogTypes, <1>21 DEF vars
<1> QED
  BY <1>1, <1>2, <1>3, <1>4, <1>5, <1>6, <1>7, <1>8,
     <1>9, <1>10, <1>11, <1>12, <1>13, <1>14, <1>15, <1>16,
     <1>17, <1>18, <1>19, <1>20, <1>21
  DEF Next, Arrive, Step, Environment

\* Every step keeps the stores within their types.
LEMMA StoreStep == IInv /\ [Next]_vars => TypeOK'
<1> SUFFICES ASSUME IInv, [Next]_vars PROVE TypeOK'
  OBVIOUS
<1> USE DEF TypeOK, redis, rows, devices
<1>0. TypeOK /\ ControlInv
  BY DEF IInv
<1>r. req' \in [Req -> Request] /\ log' \in Log
  BY RequestStep, LogStep
<1>1. ASSUME NEW r \in Req, BeginPasskeyLogin(r) PROVE TypeOK'
  BY <1>0, <1>r, PasskeysAssumption, <1>1 DEF BeginPasskeyLogin
<1>2. ASSUME NEW r \in Req, NEW a \in signed, FinishPasskeyLogin(r, a) PROVE TypeOK'
  BY <1>0, <1>r, PasskeysAssumption, <1>2 DEF FinishPasskeyLogin
<1>3. ASSUME NEW r \in Req, NEW u \in User, BeginPasskeyRegistration(r, u)
      PROVE  TypeOK'
  BY <1>0, <1>r, PasskeysAssumption, <1>3 DEF BeginPasskeyRegistration
<1>4. ASSUME NEW r \in Req, NEW u \in User, NEW c \in Cred, FinishPasskeyRegistration(r, u, c)
      PROVE  TypeOK'
  BY <1>0, <1>r, PasskeysAssumption, <1>4 DEF FinishPasskeyRegistration
<1>5. ASSUME NEW r \in Req, NEW u \in User, NEW c \in Cred, RenamePasskey(r, u, c)
      PROVE  TypeOK'
  BY <1>0, <1>r, PasskeysAssumption, <1>5 DEF RenamePasskey
<1>6. ASSUME NEW r \in Req, NEW u \in User, NEW c \in Cred, DeletePasskey(r, u, c)
      PROVE  TypeOK'
  BY <1>0, <1>r, PasskeysAssumption, <1>6 DEF DeletePasskey
<1>7. ASSUME NEW r \in Req, NEW o \in Outcome, SaveWebAuthnRegistrationSession(r, o)
      PROVE  TypeOK'
  <2>1. req[r].user \in User
    BY <1>0, <1>7 DEF SaveWebAuthnRegistrationSession, Calls, At, ControlInv
  <2> QED
    BY <1>0, <1>r, <1>7, <2>1 DEF SaveWebAuthnRegistrationSession
<1>8. ASSUME NEW r \in Req, NEW o \in Outcome, CreateWebAuthnCredential(r, o)
      PROVE  TypeOK'
  <2> DEFINE c == req[r].cred
             w == [id |-> made[c] + 1, user |-> req[r].user, count |-> 0,
                   warned |-> FALSE, named |-> FALSE]
  <2>1. c \in Cred /\ req[r].user \in User
    BY <1>0, <1>8 DEF CreateWebAuthnCredential, Calls, At, ControlInv
  <2>2. made[c] < MaxRows => made[c] + 1 \in 1..MaxRows /\ made[c] + 1 \in 0..MaxRows
    BY <1>0, <2>1, PasskeysAssumption
  <2>3. made[c] < MaxRows => w \in Row
    BY <2>1, <2>2, PasskeysAssumption DEF Row, Count
  <2>4. \/ made' = made /\ row' = row
        \/ /\ made[c] < MaxRows
           /\ made' = [made EXCEPT ![c] = made[c] + 1] /\ row' = [row EXCEPT ![c] = w]
    BY <1>8 DEF CreateWebAuthnCredential
  <2>5. made' \in [Cred -> 0..MaxRows] /\ row' \in [Cred -> Row \cup {NoRow}]
    BY <1>0, <2>1, <2>2, <2>3, <2>4
  <2> QED
    BY <1>0, <1>r, <1>8, <2>5 DEF CreateWebAuthnCredential
<1>9. ASSUME NEW r \in Req, NEW o \in Outcome, DeleteWebAuthnRegistrationSession(r, o)
      PROVE  TypeOK'
  BY <1>0, <1>r, PasskeysAssumption, <1>9 DEF DeleteWebAuthnRegistrationSession
<1>10. ASSUME NEW r \in Req, NEW o \in Outcome, SaveWebAuthnLoginSession(r, o)
      PROVE  TypeOK'
  BY <1>0, <1>r, PasskeysAssumption, <1>10 DEF SaveWebAuthnLoginSession
<1>11. ASSUME NEW r \in Req, NEW o \in Outcome, loadWebAuthnUser(r, o) PROVE TypeOK'
  BY <1>0, <1>r, PasskeysAssumption, <1>11 DEF loadWebAuthnUser
<1>12. ASSUME NEW r \in Req, NEW o \in Outcome, UpdateWebAuthnCredential(r, o)
      PROVE  TypeOK'
  BY <1>0, <1>r, <1>12, UpdateEffect DEF UpdateWebAuthnCredential
<1>13. ASSUME NEW r \in Req, NEW o \in Outcome, DeleteWebAuthnLoginSession(r, o)
      PROVE  TypeOK'
  BY <1>0, <1>r, PasskeysAssumption, <1>13 DEF DeleteWebAuthnLoginSession
<1>14. ASSUME NEW r \in Req, NEW o \in Outcome, issueLoginSession(r, o) PROVE TypeOK'
  BY <1>0, <1>r, PasskeysAssumption, <1>14 DEF issueLoginSession
<1>15. ASSUME NEW r \in Req, NEW o \in Outcome, userOwnsPasskey(r, o) PROVE TypeOK'
  BY <1>0, <1>r, PasskeysAssumption, <1>15 DEF userOwnsPasskey
<1>16. ASSUME NEW r \in Req, NEW o \in Outcome, RenameWebAuthnCredential(r, o)
      PROVE  TypeOK'
  BY <1>0, <1>r, <1>16, RenameEffect DEF RenameWebAuthnCredential
<1>17. ASSUME NEW r \in Req, NEW o \in Outcome, DeleteWebAuthnCredential(r, o)
      PROVE  TypeOK'
  BY <1>0, <1>r, PasskeysAssumption, <1>17 DEF DeleteWebAuthnCredential
<1>18. CASE CeremonyLapses
  BY <1>0, <1>r, PasskeysAssumption, <1>18 DEF CeremonyLapses
<1>19. ASSUME NEW c \in Cred, NEW h \in Challenge, Attest(c, h) PROVE TypeOK'
  BY <1>0, <1>r, PasskeysAssumption, <1>19 DEF Attest
<1>20. ASSUME NEW c \in Cred, NEW h \in Challenge, Sign(c, h) PROVE TypeOK'
  <2>1. count[c] + 1 \in Count
    BY <1>0, <1>20, PasskeysAssumption DEF Sign, Count
  <2>2. [cred |-> c, ch |-> h, count |-> count[c] + 1] \in Assertion
    BY <2>1 DEF Assertion
  <2> QED
    BY <1>0, <1>r, <1>20, <2>1, <2>2 DEF Sign
<1>21. CASE UNCHANGED vars
  BY <1>0, <1>r, PasskeysAssumption, <1>21 DEF vars
<1> QED
  BY <1>1, <1>2, <1>3, <1>4, <1>5, <1>6, <1>7, <1>8,
     <1>9, <1>10, <1>11, <1>12, <1>13, <1>14, <1>15, <1>16,
     <1>17, <1>18, <1>19, <1>20, <1>21
  DEF Next, Arrive, Step, Environment

\* Every step leaves a request with the locals its next call needs.
LEMMA ControlStep == IInv /\ [Next]_vars => ControlInv'
<1> SUFFICES ASSUME IInv, [Next]_vars PROVE ControlInv'
  OBVIOUS
<1> USE DEF TypeOK, ControlInv, Request, At, Goto, Finish, Calls, Arriving
<1>0. TypeOK /\ ControlInv
  BY DEF IInv
<1>i. Idle.pc = "idle" /\ Idle \in Request
  BY DEF Idle, Request, Pc
<1>1. ASSUME NEW r \in Req, BeginPasskeyLogin(r) PROVE ControlInv'
  BY <1>0, <1>i, <1>1 DEF BeginPasskeyLogin
<1>2. ASSUME NEW r \in Req, NEW a \in signed, FinishPasskeyLogin(r, a) PROVE ControlInv'
  BY <1>0, <1>i, <1>2 DEF FinishPasskeyLogin
<1>3. ASSUME NEW r \in Req, NEW u \in User, BeginPasskeyRegistration(r, u) PROVE ControlInv'
  BY <1>0, <1>i, <1>3 DEF BeginPasskeyRegistration
<1>4. ASSUME NEW r \in Req, NEW u \in User, NEW c \in Cred, FinishPasskeyRegistration(r, u, c)
      PROVE  ControlInv'
  BY <1>0, <1>i, <1>4 DEF FinishPasskeyRegistration
<1>5. ASSUME NEW r \in Req, NEW u \in User, NEW c \in Cred, RenamePasskey(r, u, c)
      PROVE  ControlInv'
  BY <1>0, <1>i, <1>5 DEF RenamePasskey
<1>6. ASSUME NEW r \in Req, NEW u \in User, NEW c \in Cred, DeletePasskey(r, u, c)
      PROVE  ControlInv'
  BY <1>0, <1>i, <1>6 DEF DeletePasskey
<1>7. ASSUME NEW r \in Req, NEW o \in Outcome, SaveWebAuthnRegistrationSession(r, o)
      PROVE  ControlInv'
  BY <1>0, <1>i, <1>7 DEF SaveWebAuthnRegistrationSession
<1>8. ASSUME NEW r \in Req, NEW o \in Outcome, CreateWebAuthnCredential(r, o) PROVE ControlInv'
  BY <1>0, <1>i, <1>8 DEF CreateWebAuthnCredential
<1>9. ASSUME NEW r \in Req, NEW o \in Outcome, DeleteWebAuthnRegistrationSession(r, o)
      PROVE  ControlInv'
  BY <1>0, <1>i, <1>9 DEF DeleteWebAuthnRegistrationSession
<1>10. ASSUME NEW r \in Req, NEW o \in Outcome, SaveWebAuthnLoginSession(r, o) PROVE ControlInv'
  BY <1>0, <1>i, <1>10 DEF SaveWebAuthnLoginSession
<1>11. ASSUME NEW r \in Req, NEW o \in Outcome, loadWebAuthnUser(r, o) PROVE ControlInv'
  <2>1. PICK q \in Request :
          /\ req' = [req EXCEPT ![r] = q]
          /\ q.pc \in {"idle", "update"}
          /\ q.pc = "update" => q.given \in Assertion /\ q.row \in Row
    BY <1>11, LoadEffect
  <2> QED
    BY <1>0, <2>1
<1>12. ASSUME NEW r \in Req, NEW o \in Outcome, UpdateWebAuthnCredential(r, o) PROVE ControlInv'
  BY <1>0, <1>i, <1>12 DEF UpdateWebAuthnCredential
<1>13. ASSUME NEW r \in Req, NEW o \in Outcome, DeleteWebAuthnLoginSession(r, o)
      PROVE  ControlInv'
  BY <1>0, <1>i, <1>13 DEF DeleteWebAuthnLoginSession
<1>14. ASSUME NEW r \in Req, NEW o \in Outcome, issueLoginSession(r, o) PROVE ControlInv'
  BY <1>0, <1>i, <1>14 DEF issueLoginSession
<1>15. ASSUME NEW r \in Req, NEW o \in Outcome, userOwnsPasskey(r, o) PROVE ControlInv'
  <2>1. PICK q \in Request :
          /\ req' = [req EXCEPT ![r] = q]
          /\ q.pc \in {"idle", "rename", "delete"}
          /\ q.pc # "idle" => q.user \in User /\ q.cred \in Cred /\ q.row \in Row
    BY <1>15, OwnEffect
  <2> QED
    BY <1>0, <2>1
<1>16. ASSUME NEW r \in Req, NEW o \in Outcome, RenameWebAuthnCredential(r, o) PROVE ControlInv'
  BY <1>0, <1>i, <1>16 DEF RenameWebAuthnCredential
<1>17. ASSUME NEW r \in Req, NEW o \in Outcome, DeleteWebAuthnCredential(r, o) PROVE ControlInv'
  BY <1>0, <1>i, <1>17 DEF DeleteWebAuthnCredential
<1>18. CASE CeremonyLapses
  BY <1>0, <1>i, <1>18 DEF CeremonyLapses
<1>19. ASSUME NEW c \in Cred, NEW h \in Challenge, Attest(c, h) PROVE ControlInv'
  BY <1>0, <1>i, <1>19 DEF Attest
<1>20. ASSUME NEW c \in Cred, NEW h \in Challenge, Sign(c, h) PROVE ControlInv'
  BY <1>0, <1>i, <1>20 DEF Sign
<1>21. CASE UNCHANGED vars
  BY <1>0, <1>i, <1>21 DEF vars
<1> QED
  BY <1>1, <1>2, <1>3, <1>4, <1>5, <1>6, <1>7, <1>8,
     <1>9, <1>10, <1>11, <1>12, <1>13, <1>14, <1>15, <1>16,
     <1>17, <1>18, <1>19, <1>20, <1>21
  DEF Next, Arrive, Step, Environment

\* A challenge keeps its holder; only a fresh one is stored.
LEMMA HolderStep == IInv /\ [Next]_vars => HolderInv'
<1> SUFFICES ASSUME IInv, [Next]_vars PROVE HolderInv'
  OBVIOUS
<1> USE DEF TypeOK, HolderInv, redis, rows, devices
<1>0. TypeOK /\ ControlInv /\ HolderInv
  BY DEF IInv
<1>1. ASSUME NEW r \in Req, BeginPasskeyLogin(r) PROVE HolderInv'
  BY <1>0, PasskeysAssumption, <1>1 DEF BeginPasskeyLogin
<1>2. ASSUME NEW r \in Req, NEW a \in signed, FinishPasskeyLogin(r, a) PROVE HolderInv'
  BY <1>0, PasskeysAssumption, <1>2 DEF FinishPasskeyLogin
<1>3. ASSUME NEW r \in Req, NEW u \in User, BeginPasskeyRegistration(r, u) PROVE HolderInv'
  BY <1>0, PasskeysAssumption, <1>3 DEF BeginPasskeyRegistration
<1>4. ASSUME NEW r \in Req, NEW u \in User, NEW c \in Cred, FinishPasskeyRegistration(r, u, c)
      PROVE  HolderInv'
  BY <1>0, PasskeysAssumption, <1>4 DEF FinishPasskeyRegistration
<1>5. ASSUME NEW r \in Req, NEW u \in User, NEW c \in Cred, RenamePasskey(r, u, c)
      PROVE  HolderInv'
  BY <1>0, PasskeysAssumption, <1>5 DEF RenamePasskey
<1>6. ASSUME NEW r \in Req, NEW u \in User, NEW c \in Cred, DeletePasskey(r, u, c)
      PROVE  HolderInv'
  BY <1>0, PasskeysAssumption, <1>6 DEF DeletePasskey
<1>7. ASSUME NEW r \in Req, NEW o \in Outcome, SaveWebAuthnRegistrationSession(r, o)
      PROVE  HolderInv'
  BY <1>0, PasskeysAssumption, <1>7 DEF SaveWebAuthnRegistrationSession, ControlInv, Calls, At
<1>8. ASSUME NEW r \in Req, NEW o \in Outcome, CreateWebAuthnCredential(r, o) PROVE HolderInv'
  BY <1>0, PasskeysAssumption, <1>8 DEF CreateWebAuthnCredential
<1>9. ASSUME NEW r \in Req, NEW o \in Outcome, DeleteWebAuthnRegistrationSession(r, o)
      PROVE  HolderInv'
  BY <1>0, PasskeysAssumption, <1>9 DEF DeleteWebAuthnRegistrationSession, ControlInv, Calls, At
<1>10. ASSUME NEW r \in Req, NEW o \in Outcome, SaveWebAuthnLoginSession(r, o) PROVE HolderInv'
  BY <1>0, PasskeysAssumption, <1>10 DEF SaveWebAuthnLoginSession, ControlInv, Calls, At
<1>11. ASSUME NEW r \in Req, NEW o \in Outcome, loadWebAuthnUser(r, o) PROVE HolderInv'
  BY <1>0, PasskeysAssumption, <1>11 DEF loadWebAuthnUser
<1>12. ASSUME NEW r \in Req, NEW o \in Outcome, UpdateWebAuthnCredential(r, o) PROVE HolderInv'
  BY <1>0, PasskeysAssumption, <1>12 DEF UpdateWebAuthnCredential
<1>13. ASSUME NEW r \in Req, NEW o \in Outcome, DeleteWebAuthnLoginSession(r, o)
      PROVE  HolderInv'
  BY <1>0, PasskeysAssumption, <1>13 DEF DeleteWebAuthnLoginSession
<1>14. ASSUME NEW r \in Req, NEW o \in Outcome, issueLoginSession(r, o) PROVE HolderInv'
  BY <1>0, PasskeysAssumption, <1>14 DEF issueLoginSession
<1>15. ASSUME NEW r \in Req, NEW o \in Outcome, userOwnsPasskey(r, o) PROVE HolderInv'
  BY <1>0, PasskeysAssumption, <1>15 DEF userOwnsPasskey
<1>16. ASSUME NEW r \in Req, NEW o \in Outcome, RenameWebAuthnCredential(r, o) PROVE HolderInv'
  BY <1>0, PasskeysAssumption, <1>16 DEF RenameWebAuthnCredential
<1>17. ASSUME NEW r \in Req, NEW o \in Outcome, DeleteWebAuthnCredential(r, o) PROVE HolderInv'
  BY <1>0, PasskeysAssumption, <1>17 DEF DeleteWebAuthnCredential
<1>18. CASE CeremonyLapses
  BY <1>0, PasskeysAssumption, <1>18 DEF CeremonyLapses
<1>19. ASSUME NEW c \in Cred, NEW h \in Challenge, Attest(c, h) PROVE HolderInv'
  BY <1>0, PasskeysAssumption, <1>19 DEF Attest
<1>20. ASSUME NEW c \in Cred, NEW h \in Challenge, Sign(c, h) PROVE HolderInv'
  BY <1>0, PasskeysAssumption, <1>20 DEF Sign
<1>21. CASE UNCHANGED vars
  BY <1>0, PasskeysAssumption, <1>21 DEF vars
<1> QED
  BY <1>1, <1>2, <1>3, <1>4, <1>5, <1>6, <1>7, <1>8,
     <1>9, <1>10, <1>11, <1>12, <1>13, <1>14, <1>15, <1>16,
     <1>17, <1>18, <1>19, <1>20, <1>21
  DEF Next, Arrive, Step, Environment

\* The answer accepted was one to the pending challenge.
LEMMA InsertStep == IInv /\ [Next]_vars => InsertInv'
<1> SUFFICES ASSUME IInv, [Next]_vars PROVE InsertInv'
  OBVIOUS
<1> USE DEF TypeOK, ControlInv, HolderInv, InsertInv, Request, redis, rows, devices, At, Goto, Finish, Calls,
           Arriving
<1>0. TypeOK /\ ControlInv /\ HolderInv /\ InsertInv
  BY DEF IInv
<1>i. Idle.pc = "idle" /\ Idle \in Request
  BY DEF Idle, Request, Pc
<1>1. ASSUME NEW r \in Req, BeginPasskeyLogin(r) PROVE InsertInv'
  BY <1>0, <1>i, PasskeysAssumption, <1>1 DEF BeginPasskeyLogin
<1>2. ASSUME NEW r \in Req, NEW a \in signed, FinishPasskeyLogin(r, a) PROVE InsertInv'
  BY <1>0, <1>i, PasskeysAssumption, <1>2 DEF FinishPasskeyLogin
<1>3. ASSUME NEW r \in Req, NEW u \in User, BeginPasskeyRegistration(r, u) PROVE InsertInv'
  BY <1>0, <1>i, PasskeysAssumption, <1>3 DEF BeginPasskeyRegistration
<1>4. ASSUME NEW r \in Req, NEW u \in User, NEW c \in Cred, FinishPasskeyRegistration(r, u, c)
      PROVE  InsertInv'
  BY <1>0, <1>i, PasskeysAssumption, <1>4 DEF FinishPasskeyRegistration
<1>5. ASSUME NEW r \in Req, NEW u \in User, NEW c \in Cred, RenamePasskey(r, u, c)
      PROVE  InsertInv'
  BY <1>0, <1>i, PasskeysAssumption, <1>5 DEF RenamePasskey
<1>6. ASSUME NEW r \in Req, NEW u \in User, NEW c \in Cred, DeletePasskey(r, u, c)
      PROVE  InsertInv'
  BY <1>0, <1>i, PasskeysAssumption, <1>6 DEF DeletePasskey
<1>7. ASSUME NEW r \in Req, NEW o \in Outcome, SaveWebAuthnRegistrationSession(r, o)
      PROVE  InsertInv'
  BY <1>0, <1>i, PasskeysAssumption, <1>7 DEF SaveWebAuthnRegistrationSession
<1>8. ASSUME NEW r \in Req, NEW o \in Outcome, CreateWebAuthnCredential(r, o) PROVE InsertInv'
  BY <1>0, <1>i, PasskeysAssumption, <1>8 DEF CreateWebAuthnCredential
<1>9. ASSUME NEW r \in Req, NEW o \in Outcome, DeleteWebAuthnRegistrationSession(r, o)
      PROVE  InsertInv'
  BY <1>0, <1>i, PasskeysAssumption, <1>9 DEF DeleteWebAuthnRegistrationSession
<1>10. ASSUME NEW r \in Req, NEW o \in Outcome, SaveWebAuthnLoginSession(r, o) PROVE InsertInv'
  BY <1>0, <1>i, PasskeysAssumption, <1>10 DEF SaveWebAuthnLoginSession
<1>11. ASSUME NEW r \in Req, NEW o \in Outcome, loadWebAuthnUser(r, o) PROVE InsertInv'
  <2>1. PICK q \in Request :
          /\ req' = [req EXCEPT ![r] = q]
          /\ q.pc \in {"idle", "update"}
          /\ q.pc = "update" => q.given \in Assertion /\ q.row \in Row
    BY <1>11, LoadEffect
  <2>2. UNCHANGED <<holder, answer>>
    BY <1>11 DEF loadWebAuthnUser, rows, devices, redis
  <2> QED
    BY <1>0, <2>1, <2>2
<1>12. ASSUME NEW r \in Req, NEW o \in Outcome, UpdateWebAuthnCredential(r, o) PROVE InsertInv'
  BY <1>0, <1>i, PasskeysAssumption, <1>12 DEF UpdateWebAuthnCredential
<1>13. ASSUME NEW r \in Req, NEW o \in Outcome, DeleteWebAuthnLoginSession(r, o)
      PROVE  InsertInv'
  BY <1>0, <1>i, PasskeysAssumption, <1>13 DEF DeleteWebAuthnLoginSession
<1>14. ASSUME NEW r \in Req, NEW o \in Outcome, issueLoginSession(r, o) PROVE InsertInv'
  BY <1>0, <1>i, PasskeysAssumption, <1>14 DEF issueLoginSession
<1>15. ASSUME NEW r \in Req, NEW o \in Outcome, userOwnsPasskey(r, o) PROVE InsertInv'
  <2>1. PICK q \in Request :
          /\ req' = [req EXCEPT ![r] = q]
          /\ q.pc \in {"idle", "rename", "delete"}
          /\ q.pc # "idle" => q.user \in User /\ q.cred \in Cred /\ q.row \in Row
    BY <1>15, OwnEffect
  <2>2. UNCHANGED <<holder, answer>>
    BY <1>15 DEF userOwnsPasskey, rows, devices, redis
  <2> QED
    BY <1>0, <2>1, <2>2
<1>16. ASSUME NEW r \in Req, NEW o \in Outcome, RenameWebAuthnCredential(r, o) PROVE InsertInv'
  BY <1>0, <1>i, PasskeysAssumption, <1>16 DEF RenameWebAuthnCredential
<1>17. ASSUME NEW r \in Req, NEW o \in Outcome, DeleteWebAuthnCredential(r, o) PROVE InsertInv'
  BY <1>0, <1>i, PasskeysAssumption, <1>17 DEF DeleteWebAuthnCredential
<1>18. CASE CeremonyLapses
  BY <1>0, <1>i, PasskeysAssumption, <1>18 DEF CeremonyLapses
<1>19. ASSUME NEW c \in Cred, NEW h \in Challenge, Attest(c, h) PROVE InsertInv'
  BY <1>0, <1>i, PasskeysAssumption, <1>19 DEF Attest
<1>20. ASSUME NEW c \in Cred, NEW h \in Challenge, Sign(c, h) PROVE InsertInv'
  BY <1>0, <1>i, PasskeysAssumption, <1>20 DEF Sign
<1>21. CASE UNCHANGED vars
  BY <1>0, <1>i, PasskeysAssumption, <1>21 DEF vars
<1> QED
  BY <1>1, <1>2, <1>3, <1>4, <1>5, <1>6, <1>7, <1>8,
     <1>9, <1>10, <1>11, <1>12, <1>13, <1>14, <1>15, <1>16,
     <1>17, <1>18, <1>19, <1>20, <1>21
  DEF Next, Arrive, Step, Environment

\* A row is inserted for the holder of the challenge its credential answers.
LEMMA OwnedStep == IInv /\ [Next]_vars => PasskeyOwned'
<1> SUFFICES ASSUME IInv, [Next]_vars PROVE PasskeyOwned'
  OBVIOUS
<1> USE DEF TypeOK, HolderInv, PasskeyOwned, redis, rows, devices
<1>0. TypeOK /\ ControlInv /\ HolderInv /\ InsertInv /\ PasskeyOwned
  BY DEF IInv
<1>1. ASSUME NEW r \in Req, BeginPasskeyLogin(r) PROVE PasskeyOwned'
  BY <1>0, PasskeysAssumption, <1>1 DEF BeginPasskeyLogin
<1>2. ASSUME NEW r \in Req, NEW a \in signed, FinishPasskeyLogin(r, a) PROVE PasskeyOwned'
  BY <1>0, PasskeysAssumption, <1>2 DEF FinishPasskeyLogin
<1>3. ASSUME NEW r \in Req, NEW u \in User, BeginPasskeyRegistration(r, u) PROVE PasskeyOwned'
  BY <1>0, PasskeysAssumption, <1>3 DEF BeginPasskeyRegistration
<1>4. ASSUME NEW r \in Req, NEW u \in User, NEW c \in Cred, FinishPasskeyRegistration(r, u, c)
      PROVE  PasskeyOwned'
  BY <1>0, PasskeysAssumption, <1>4 DEF FinishPasskeyRegistration
<1>5. ASSUME NEW r \in Req, NEW u \in User, NEW c \in Cred, RenamePasskey(r, u, c)
      PROVE  PasskeyOwned'
  BY <1>0, PasskeysAssumption, <1>5 DEF RenamePasskey
<1>6. ASSUME NEW r \in Req, NEW u \in User, NEW c \in Cred, DeletePasskey(r, u, c)
      PROVE  PasskeyOwned'
  BY <1>0, PasskeysAssumption, <1>6 DEF DeletePasskey
<1>7. ASSUME NEW r \in Req, NEW o \in Outcome, SaveWebAuthnRegistrationSession(r, o)
      PROVE  PasskeyOwned'
  BY <1>0, PasskeysAssumption, <1>7 DEF SaveWebAuthnRegistrationSession
<1>8. ASSUME NEW r \in Req, NEW o \in Outcome, CreateWebAuthnCredential(r, o)
      PROVE  PasskeyOwned'
  <2>1. /\ req[r].cred \in Cred /\ answer[req[r].cred] # None
        /\ holder[answer[req[r].cred]] = req[r].user
    BY <1>0, <1>8 DEF CreateWebAuthnCredential, Calls, At, ControlInv, InsertInv
  <2>2. \/ row' = row
        \/ row' = [row EXCEPT ![req[r].cred] =
                      [id |-> made[req[r].cred] + 1, user |-> req[r].user,
                       count |-> 0, warned |-> FALSE, named |-> FALSE]]
    BY <1>8 DEF CreateWebAuthnCredential
  <2>3. UNCHANGED <<holder, answer>>
    BY <1>8 DEF CreateWebAuthnCredential
  <2> QED
    BY <1>0, <2>1, <2>2, <2>3
<1>9. ASSUME NEW r \in Req, NEW o \in Outcome, DeleteWebAuthnRegistrationSession(r, o)
      PROVE  PasskeyOwned'
  BY <1>0, PasskeysAssumption, <1>9 DEF DeleteWebAuthnRegistrationSession
<1>10. ASSUME NEW r \in Req, NEW o \in Outcome, SaveWebAuthnLoginSession(r, o)
      PROVE  PasskeyOwned'
  BY <1>0, PasskeysAssumption, <1>10 DEF SaveWebAuthnLoginSession
<1>11. ASSUME NEW r \in Req, NEW o \in Outcome, loadWebAuthnUser(r, o) PROVE PasskeyOwned'
  BY <1>0, PasskeysAssumption, <1>11 DEF loadWebAuthnUser
<1>12. ASSUME NEW r \in Req, NEW o \in Outcome, UpdateWebAuthnCredential(r, o)
      PROVE  PasskeyOwned'
  <2>1. UNCHANGED <<holder, answer>>
    BY <1>12 DEF UpdateWebAuthnCredential
  <2>2. NoRow \notin Row
    BY PasskeysAssumption DEF NoRow, Row
  <2> QED
    BY <1>0, <1>12, <2>1, <2>2, UpdateEffect DEF Kept
<1>13. ASSUME NEW r \in Req, NEW o \in Outcome, DeleteWebAuthnLoginSession(r, o)
      PROVE  PasskeyOwned'
  BY <1>0, PasskeysAssumption, <1>13 DEF DeleteWebAuthnLoginSession
<1>14. ASSUME NEW r \in Req, NEW o \in Outcome, issueLoginSession(r, o) PROVE PasskeyOwned'
  BY <1>0, PasskeysAssumption, <1>14 DEF issueLoginSession
<1>15. ASSUME NEW r \in Req, NEW o \in Outcome, userOwnsPasskey(r, o) PROVE PasskeyOwned'
  BY <1>0, PasskeysAssumption, <1>15 DEF userOwnsPasskey
<1>16. ASSUME NEW r \in Req, NEW o \in Outcome, RenameWebAuthnCredential(r, o)
      PROVE  PasskeyOwned'
  <2>1. UNCHANGED <<holder, answer>>
    BY <1>16 DEF RenameWebAuthnCredential
  <2>2. NoRow \notin Row
    BY PasskeysAssumption DEF NoRow, Row
  <2> QED
    BY <1>0, <1>16, <2>1, <2>2, RenameEffect DEF Kept
<1>17. ASSUME NEW r \in Req, NEW o \in Outcome, DeleteWebAuthnCredential(r, o)
      PROVE  PasskeyOwned'
  BY <1>0, PasskeysAssumption, <1>17 DEF DeleteWebAuthnCredential
<1>18. CASE CeremonyLapses
  BY <1>0, PasskeysAssumption, <1>18 DEF CeremonyLapses
<1>19. ASSUME NEW c \in Cred, NEW h \in Challenge, Attest(c, h) PROVE PasskeyOwned'
  BY <1>0, PasskeysAssumption, <1>19 DEF Attest
<1>20. ASSUME NEW c \in Cred, NEW h \in Challenge, Sign(c, h) PROVE PasskeyOwned'
  BY <1>0, PasskeysAssumption, <1>20 DEF Sign
<1>21. CASE UNCHANGED vars
  BY <1>0, PasskeysAssumption, <1>21 DEF vars
<1> QED
  BY <1>1, <1>2, <1>3, <1>4, <1>5, <1>6, <1>7, <1>8,
     <1>9, <1>10, <1>11, <1>12, <1>13, <1>14, <1>15, <1>16,
     <1>17, <1>18, <1>19, <1>20, <1>21
  DEF Next, Arrive, Step, Environment

-----------------------------------------------------------------------------
\* Every step preserves the invariant.
LEMMA IInvStep == IInv /\ [Next]_vars => IInv'
  BY StoreStep, ControlStep, HolderStep, InsertStep, OwnedStep DEF IInv

\* The invariant holds in every reachable state.
THEOREM Invariance == Spec => []IInv
  BY InitIInv, IInvStep, PTL DEF Spec

\* Every reachable state of the ceremonies and credentials is well typed.
THEOREM TypeCorrect == Spec => []TypeOK
<1>1. IInv => TypeOK
  BY DEF IInv
<1> QED
  BY Invariance, <1>1, PTL

\* Every passkey on file belongs to the account in whose registration ceremony
\* it was made, whichever ceremonies were restarted, finished twice or had run
\* out between FinishRegistration and the INSERT.
THEOREM PasskeysAreOwned == Spec => []PasskeyOwned
<1>1. IInv => PasskeyOwned
  BY DEF IInv
<1> QED
  BY Invariance, <1>1, PTL

-----------------------------------------------------------------------------
(* Quiet histories: requests do not overlap and no call fails *)

\* While the history is quiet there is at most one request.
LoneInv ==
    /\ ~log.quiet => log = Blank(FALSE)
    /\ log.quiet => \A q, r \in Req : req[q] # Idle /\ req[r] # Idle => q = r

\* A ceremony that has opened a session is gone and its challenge is not made
\* again; one that is being answered has opened none.
OpenInv == log.quiet =>
    /\ \A h \in live : holder[h] # None
    /\ \A h \in Challenge : log.opened[h] # 0 => h \notin live /\ holder[h] # None
    /\ \A r \in Req : req[r].pc \in {"load", "update", "delLogin", "issue"} =>
         holder[req[r].given.ch] # None /\ log.opened[req[r].given.ch] = 0
    /\ \A r \in Req : At(r, "issue") => req[r].given.ch \notin live

\* The challenge credential c was made for is no longer pending.
Settled(c) == answer[c] # None /\ \A u \in User : reg[u] # answer[c]

\* A passkey that was removed, or is about to be, cannot be registered with its
\* old answer; the ceremony of one on file is gone or about to be deleted.
RemovedInv == log.quiet =>
    /\ \A c \in log.removed : Settled(c)
    /\ \A r \in Req : req[r].pc \in {"rename", "delete"} => Settled(req[r].cred)
    /\ \A r \in Req : At(r, "insert") => req[r].cred \notin log.removed
    /\ \A c \in Cred, u \in User : row[c] # NoRow /\ reg[u] = answer[c] =>
         \E r \in Req : At(r, "delReg") /\ req[r].user = u

\* The count about to be stored is no smaller than the one on file.
CountInv == log.quiet =>
    \A r \in Req : At(r, "update") => req[r].row.count >= row[req[r].given.cred].count

QInv ==
    /\ IInv /\ LoneInv /\ OpenInv /\ RemovedInv /\ CountInv
    /\ CeremonyOnce /\ RemovedStaysRemoved

-----------------------------------------------------------------------------
(* What a request becomes, and what the history *)

\* Idle is a request, and a row on file is not what stands for none.
LEMMA Constants == Idle \in Request /\ Idle.pc = "idle" /\ NoRow \notin Row
<1>1. Idle \in Request /\ Idle.pc = "idle"
  BY DEF Idle, Request, Pc
<1>2. NoRow \notin Row
  BY PasskeysAssumption DEF NoRow, Row
<1> QED
  BY <1>1, <1>2

\* The fields of a history after each kind of event.
LEMMA LogFields ==
    ASSUME log \in Log
    PROVE  /\ ~Blank(FALSE).quiet /\ ~Blank(FALSE).back
           /\ \A h \in Challenge : Blank(FALSE).opened[h] = 0
           /\ \A h \in Challenge :
                /\ Opened(h).quiet = log.quiet /\ Opened(h).removed = log.removed
                /\ Opened(h).back = log.back
                /\ \A i \in Challenge :
                     Opened(h).opened[i] = IF i = h THEN log.opened[i] + 1 ELSE log.opened[i]
           /\ \A c \in Cred :
                /\ Removed(c).quiet = log.quiet /\ Removed(c).opened = log.opened
                /\ Removed(c).removed = log.removed \cup {c} /\ Removed(c).back = log.back
                /\ Inserted(c).quiet = log.quiet /\ Inserted(c).opened = log.opened
                /\ Inserted(c).removed = log.removed
                /\ Inserted(c).back <=> log.back \/ c \in log.removed
<1>1. /\ ~Blank(FALSE).quiet /\ ~Blank(FALSE).back
      /\ \A h \in Challenge : Blank(FALSE).opened[h] = 0
  BY DEF Blank
<1>2. ASSUME NEW h \in Challenge
      PROVE  /\ Opened(h).quiet = log.quiet /\ Opened(h).removed = log.removed
             /\ Opened(h).back = log.back
             /\ \A i \in Challenge :
                  Opened(h).opened[i] = IF i = h THEN log.opened[i] + 1 ELSE log.opened[i]
  <2>1. log.opened \in [Challenge -> Nat]
    BY DEF Log
  <2>2. Opened(h).opened = [log.opened EXCEPT ![h] = @ + 1]
    BY DEF Opened, Log
  <2>3. /\ Opened(h).quiet = log.quiet /\ Opened(h).removed = log.removed
        /\ Opened(h).back = log.back
    BY DEF Opened, Log
  <2> QED
    BY <2>1, <2>2, <2>3
<1>3. ASSUME NEW c \in Cred
      PROVE  /\ Removed(c).quiet = log.quiet /\ Removed(c).opened = log.opened
             /\ Removed(c).removed = log.removed \cup {c} /\ Removed(c).back = log.back
  BY DEF Removed, Log
<1>4. ASSUME NEW c \in Cred
      PROVE  /\ Inserted(c).quiet = log.quiet /\ Inserted(c).opened = log.opened
             /\ Inserted(c).removed = log.removed
             /\ Inserted(c).back <=> log.back \/ c \in log.removed
  <2> DEFINE b == log.back \/ c \in log.removed
  <2>1. Inserted(c) = [log EXCEPT !.back = b] /\ (b <=> log.back \/ c \in log.removed)
    BY DEF Inserted
  <2> HIDE DEF b
  <2> QED
    BY <2>1 DEF Log
<1> QED
  BY <1>1, <1>2, <1>3, <1>4

Moves(r, q, p) ==
    /\ req' = [req EXCEPT ![r] = q] /\ q.pc = p
    /\ q.user = req[r].user /\ q.cred = req[r].cred /\ q.given = req[r].given

\* Goto changes nothing else of a request.
LEMMA GotoEffect ==
    ASSUME TypeOK, NEW r \in Req, NEW p \in Pc, Goto(r, p)
    PROVE  \E q \in Request : Moves(r, q, p)
<1> DEFINE q == [req[r] EXCEPT !.pc = p]
<1>1. req[r] \in Request
  BY DEF TypeOK
<1>2. /\ q \in Request /\ q.pc = p
      /\ q.user = req[r].user /\ q.cred = req[r].cred /\ q.given = req[r].given
  BY <1>1 DEF Request
<1>3. req' = [req EXCEPT ![r] = q]
  BY DEF Goto
<1> HIDE DEF q
<1> QED
  BY <1>2, <1>3 DEF Moves

\* A step of the only request r that leaves it as q and the history as l.
Alone(r, q, l) ==
    /\ log' = l /\ log.quiet /\ req'[r] = q
    /\ \A s \in Req \ {r} : req[s] = Idle /\ req'[s] = Idle

\* A call in a quiet history works, and nobody else is there.
LEMMA QuietCall ==
    ASSUME TypeOK, LoneInv, NEW r \in Req, NEW q, NEW p, p # "idle", NEW o, NEW l,
           Calls(r, p, o, l), log'.quiet, req' = [req EXCEPT ![r] = q]
    PROVE  Alone(r, q, l) /\ o = "ok" /\ At(r, p)
<1>1. ~Blank(FALSE).quiet
  BY DEF Blank
<1>2. log' = l /\ log.quiet /\ o = "ok"
  BY <1>1 DEF Calls
<1>3. req[r] # Idle
  BY Constants DEF Calls, At
<1>4. \A s \in Req \ {r} : req[s] = Idle
  BY <1>2, <1>3 DEF LoneInv
<1>5. At(r, p)
  BY DEF Calls
<1> QED
  BY <1>2, <1>4, <1>5 DEF Alone, TypeOK

\* A request that arrives in a quiet history is alone.
LEMMA QuietArrival ==
    ASSUME TypeOK, NEW r \in Req, NEW q, Arriving(r), log'.quiet, req' = [req EXCEPT ![r] = q]
    PROVE  Alone(r, q, log) /\ req[r] = Idle
<1>1. ~Blank(FALSE).quiet
  BY DEF Blank
<1>2. log' = log /\ log.quiet /\ Lone(r) /\ req[r] = Idle
  BY <1>1 DEF Arriving
<1> QED
  BY <1>2 DEF Alone, Lone, TypeOK

-----------------------------------------------------------------------------
(* Every step of a quiet history is of one of a few kinds *)

\* Nothing is written, and nothing found that the invariant speaks of.
Passes(r, q) ==
    /\ Alone(r, q, log) /\ req[r].pc # "delReg"
    /\ q.pc \in {"idle", "saveReg", "saveLogin", "own"}
    /\ UNCHANGED <<holder, reg, live, row, answer>>

\* A registration is answered with credential q.cred.
Registers(r, q) ==
    /\ Alone(r, q, log) /\ req[r] = Idle /\ q.pc = "insert"
    /\ answer[q.cred] # None /\ \E u \in User : reg[u] = answer[q.cred]
    /\ UNCHANGED <<holder, reg, live, row, answer>>

\* A registration begins with challenge h.
Begins(r, h) ==
    /\ Alone(r, Idle, log) /\ At(r, "saveReg") /\ holder[h] = None
    /\ holder' = [holder EXCEPT ![h] = req[r].user]
    /\ reg' = [reg EXCEPT ![req[r].user] = h]
    /\ UNCHANGED <<live, row, answer>>

\* A credential is inserted, or refused.
Inserts(r, q) ==
    /\ Alone(r, q, Inserted(req[r].cred)) /\ At(r, "insert")
    /\ \/ q = Idle /\ row' = row
       \/ /\ q.pc = "delReg" /\ q.user = req[r].user
          /\ row[req[r].cred] = NoRow /\ \E w : row' = [row EXCEPT ![req[r].cred] = w]
    /\ UNCHANGED <<holder, reg, live, answer>>

\* The registration ceremony goes.
Clears(r) ==
    /\ Alone(r, Idle, log) /\ At(r, "delReg")
    /\ reg' = [reg EXCEPT ![req[r].user] = None]
    /\ UNCHANGED <<holder, live, row, answer>>

\* A login begins with challenge h.
Starts(r, h) ==
    /\ Alone(r, Idle, log) /\ At(r, "saveLogin") /\ holder[h] = None
    /\ holder' = [holder EXCEPT ![h] = Anyone]
    /\ live' = live \cup {h}
    /\ UNCHANGED <<reg, row, answer>>

\* A login is answered.
Answers(r, q) ==
    /\ Alone(r, q, log) /\ req[r] = Idle /\ q.pc = "load" /\ q.given.ch \in live
    /\ UNCHANGED <<holder, reg, live, row, answer>>

\* The credential is found.
Loads(r, q) ==
    /\ Alone(r, q, log) /\ At(r, "load") /\ q.pc = "update" /\ q.given = req[r].given
    /\ q.row.count >= row[q.given.cred].count
    /\ UNCHANGED <<holder, reg, live, row, answer>>

\* Its count is stored.
Updates(r, q) ==
    /\ Alone(r, q, log) /\ At(r, "update") /\ q.pc = "delLogin" /\ q.given = req[r].given
    /\ row' \in [Cred -> Row \cup {NoRow}] /\ Kept
    /\ \A c \in Cred : \/ row'[c] = row[c]
                       \/ c = req[r].given.cred /\ row'[c].count = req[r].row.count
    /\ UNCHANGED <<holder, reg, live, answer>>

\* The login ceremony goes.
Ends(r, q) ==
    /\ Alone(r, q, log) /\ At(r, "delLogin") /\ q.pc = "issue" /\ q.given = req[r].given
    /\ live' = live \ {req[r].given.ch}
    /\ UNCHANGED <<holder, reg, row, answer>>

\* The session is opened.
Opens(r) ==
    /\ Alone(r, Idle, Opened(req[r].given.ch)) /\ At(r, "issue")
    /\ UNCHANGED <<holder, reg, live, row, answer>>

\* A passkey to rename or remove is found.
Owns(r, q) ==
    /\ Alone(r, q, log) /\ At(r, "own") /\ q.pc \in {"rename", "delete"}
    /\ q.cred = req[r].cred /\ row[q.cred] # NoRow
    /\ UNCHANGED <<holder, reg, live, row, answer>>

\* It is renamed.
Renames(r) ==
    /\ Alone(r, Idle, log) /\ At(r, "rename")
    /\ row' \in [Cred -> Row \cup {NoRow}] /\ Kept
    /\ \A c \in Cred : row'[c].count = row[c].count
    /\ UNCHANGED <<holder, reg, live, answer>>

\* It is removed.
Deletes(r) ==
    /\ Alone(r, Idle, Removed(req[r].cred)) /\ At(r, "delete")
    /\ row' = row \/ row' = [row EXCEPT ![req[r].cred] = NoRow]
    /\ UNCHANGED <<holder, reg, live, answer>>

\* Ceremonies lapse, authenticators act.
Elapses ==
    /\ UNCHANGED <<holder, row, req, log>> /\ live' \subseteq live
    /\ \A u \in User : reg'[u] = reg[u] \/ reg'[u] = None
    /\ \A c \in Cred : answer'[c] = answer[c] \/ answer[c] = None
    /\ \A c \in Cred, u \in User : answer[c] # None => (reg'[u] = answer[c] => reg[u] = answer[c])

Kinds ==
    \/ \E r \in Req, q \in Request :
         \/ Passes(r, q) \/ Registers(r, q) \/ Inserts(r, q) \/ Answers(r, q)
         \/ Loads(r, q) \/ Updates(r, q) \/ Ends(r, q) \/ Owns(r, q)
    \/ \E r \in Req : Clears(r) \/ Opens(r) \/ Renames(r) \/ Deletes(r)
    \/ \E r \in Req, h \in Challenge : Begins(r, h) \/ Starts(r, h)
    \/ Elapses

\* Every step that leaves the history quiet is of one of these kinds.
LEMMA Steps == QInv /\ [Next]_vars /\ log'.quiet => Kinds
<1> SUFFICES ASSUME QInv, [Next]_vars, log'.quiet PROVE Kinds
  OBVIOUS
<1>0. IInv /\ TypeOK /\ ControlInv /\ LoneInv
  BY DEF QInv, IInv
<1>i. Idle.pc = "idle" /\ Idle \in Request
  BY Constants
<1>1. ASSUME NEW r \in Req, BeginPasskeyLogin(r) PROVE Kinds
  <2> DEFINE q == [req[r] EXCEPT !.pc = "saveLogin"]
  <2>1. q \in Request /\ q.pc = "saveLogin"
    BY <1>0, <1>1 DEF Request, Pc, TypeOK
  <2>2. req' = [req EXCEPT ![r] = q] /\ UNCHANGED <<holder, reg, live, row, answer>>
    BY <1>0, <1>1 DEF BeginPasskeyLogin, redis, rows, devices
  <2> HIDE DEF q
  <2>3. Alone(r, q, log) /\ req[r] = Idle
    BY <1>0, <1>1, <2>2, QuietArrival DEF BeginPasskeyLogin
  <2>4. Passes(r, q)
    BY <1>i, <1>1, <2>1, <2>2, <2>3 DEF BeginPasskeyLogin, Passes
  <2> QED
    BY <2>1, <2>4 DEF Kinds
<1>2. ASSUME NEW r \in Req, NEW a \in signed, FinishPasskeyLogin(r, a) PROVE Kinds
  <2> DEFINE q == [Idle EXCEPT !.pc = "load", !.given = a]
  <2>1. q \in Request /\ q.pc = "load" /\ q.given = a
    BY <1>0, <1>2, PasskeysAssumption DEF Idle, Request, Pc, TypeOK
  <2>2. req' = [req EXCEPT ![r] = q] /\ UNCHANGED <<holder, reg, live, row, answer>>
    BY <1>0, <1>2 DEF FinishPasskeyLogin, redis, rows, devices
  <2> HIDE DEF q
  <2>3. Alone(r, q, log) /\ req[r] = Idle
    BY <1>0, <1>2, <2>2, QuietArrival DEF FinishPasskeyLogin
  <2>4. Answers(r, q)
    BY <1>i, <1>2, <2>1, <2>2, <2>3 DEF FinishPasskeyLogin, Answers
  <2> QED
    BY <2>1, <2>4 DEF Kinds
<1>3. ASSUME NEW r \in Req, NEW u \in User, BeginPasskeyRegistration(r, u) PROVE Kinds
  <2> DEFINE q == [Idle EXCEPT !.pc = "saveReg", !.user = u]
  <2>1. q \in Request /\ q.pc = "saveReg"
    BY <1>0, <1>3 DEF Idle, Request, Pc, TypeOK
  <2>2. req' = [req EXCEPT ![r] = q] /\ UNCHANGED <<holder, reg, live, row, answer>>
    BY <1>0, <1>3 DEF BeginPasskeyRegistration, redis, rows, devices
  <2> HIDE DEF q
  <2>3. Alone(r, q, log) /\ req[r] = Idle
    BY <1>0, <1>3, <2>2, QuietArrival DEF BeginPasskeyRegistration
  <2>4. Passes(r, q)
    BY <1>i, <1>3, <2>1, <2>2, <2>3 DEF BeginPasskeyRegistration, Passes
  <2> QED
    BY <2>1, <2>4 DEF Kinds
<1>4. ASSUME NEW r \in Req, NEW u \in User, NEW c \in Cred, FinishPasskeyRegistration(r, u, c)
      PROVE  Kinds
  <2> DEFINE q == [Idle EXCEPT !.pc = "insert", !.user = u, !.cred = c]
  <2>1. q \in Request /\ q.pc = "insert" /\ q.cred = c
    BY <1>0, <1>4 DEF Idle, Request, Pc, TypeOK
  <2>2. req' = [req EXCEPT ![r] = q] /\ UNCHANGED <<holder, reg, live, row, answer>>
    BY <1>0, <1>4 DEF FinishPasskeyRegistration, redis, rows, devices
  <2> HIDE DEF q
  <2>3. Alone(r, q, log) /\ req[r] = Idle
    BY <1>0, <1>4, <2>2, QuietArrival DEF FinishPasskeyRegistration
  <2>4. Registers(r, q)
    BY <1>i, <1>4, <2>1, <2>2, <2>3 DEF FinishPasskeyRegistration, Registers
  <2> QED
    BY <2>1, <2>4 DEF Kinds
<1>5. ASSUME NEW r \in Req, NEW u \in User, NEW c \in Cred, RenamePasskey(r, u, c) PROVE Kinds
  <2> DEFINE q == [Idle EXCEPT !.pc = "own", !.user = u, !.cred = c]
  <2>1. q \in Request /\ q.pc = "own"
    BY <1>0, <1>5 DEF Idle, Request, Pc, TypeOK
  <2>2. req' = [req EXCEPT ![r] = q] /\ UNCHANGED <<holder, reg, live, row, answer>>
    BY <1>0, <1>5 DEF RenamePasskey, redis, rows, devices
  <2> HIDE DEF q
  <2>3. Alone(r, q, log) /\ req[r] = Idle
    BY <1>0, <1>5, <2>2, QuietArrival DEF RenamePasskey
  <2>4. Passes(r, q)
    BY <1>i, <1>5, <2>1, <2>2, <2>3 DEF RenamePasskey, Passes
  <2> QED
    BY <2>1, <2>4 DEF Kinds
<1>6. ASSUME NEW r \in Req, NEW u \in User, NEW c \in Cred, DeletePasskey(r, u, c) PROVE Kinds
  <2> DEFINE q == [Idle EXCEPT !.pc = "own", !.user = u, !.cred = c, !.removes = TRUE]
  <2>1. q \in Request /\ q.pc = "own"
    BY <1>0, <1>6 DEF Idle, Request, Pc, TypeOK
  <2>2. req' = [req EXCEPT ![r] = q] /\ UNCHANGED <<holder, reg, live, row, answer>>
    BY <1>0, <1>6 DEF DeletePasskey, redis, rows, devices
  <2> HIDE DEF q
  <2>3. Alone(r, q, log) /\ req[r] = Idle
    BY <1>0, <1>6, <2>2, QuietArrival DEF DeletePasskey
  <2>4. Passes(r, q)
    BY <1>i, <1>6, <2>1, <2>2, <2>3 DEF DeletePasskey, Passes
  <2> QED
    BY <2>1, <2>4 DEF Kinds
<1>7. ASSUME NEW r \in Req, NEW o \in Outcome, SaveWebAuthnRegistrationSession(r, o)
      PROVE  Kinds
  <2>1. req' = [req EXCEPT ![r] = Idle]
    BY <1>7 DEF SaveWebAuthnRegistrationSession, Finish
  <2>2. Alone(r, Idle, log) /\ o = "ok" /\ At(r, "saveReg")
    BY <1>0, <1>7, <2>1, QuietCall DEF SaveWebAuthnRegistrationSession
  <2>3. UNCHANGED <<live, row, answer>>
    BY <1>7 DEF SaveWebAuthnRegistrationSession, rows, devices
  <2>4. CASE UNCHANGED <<holder, reg>>
    <3>1. Passes(r, Idle)
      BY <1>i, <2>2, <2>3, <2>4 DEF Passes, At
    <3> QED
      BY <1>i, <3>1 DEF Kinds
  <2>5. ASSUME NEW h \in Challenge, holder[h] = None,
               holder' = [holder EXCEPT ![h] = req[r].user],
               reg' = [reg EXCEPT ![req[r].user] = h]
        PROVE  Kinds
    BY <2>2, <2>3, <2>5 DEF Begins, Kinds
  <2> QED
    BY <1>7, <2>4, <2>5 DEF SaveWebAuthnRegistrationSession
<1>8. ASSUME NEW r \in Req, NEW o \in Outcome, CreateWebAuthnCredential(r, o) PROVE Kinds
  <2>1. CASE Goto(r, "delReg")
    <3>1. PICK q \in Request : Moves(r, q, "delReg")
      BY <1>0, <2>1, GotoEffect DEF Pc
    <3>2. Alone(r, q, Inserted(req[r].cred)) /\ At(r, "insert")
      BY <1>0, <1>8, <3>1, QuietCall DEF CreateWebAuthnCredential, Moves
    <3>3. Idle # q
      BY <1>i, <3>1 DEF Moves
    <3>4. req' # [req EXCEPT ![r] = Idle]
      BY <1>0, <3>1, <3>3 DEF Moves, TypeOK
    <3>5. Inserts(r, q)
      BY <1>8, <3>1, <3>2, <3>4
      DEF CreateWebAuthnCredential, Finish, Inserts, Moves, redis, devices
    <3> QED
      BY <3>5 DEF Kinds
  <2>2. CASE Finish(r) /\ UNCHANGED rows
    <3>1. Alone(r, Idle, Inserted(req[r].cred)) /\ At(r, "insert")
      BY <1>0, <1>8, <2>2, QuietCall DEF CreateWebAuthnCredential, Finish
    <3>2. Inserts(r, Idle)
      BY <1>8, <2>2, <3>1 DEF CreateWebAuthnCredential, Inserts, rows, redis, devices
    <3> QED
      BY <1>i, <3>2 DEF Kinds
  <2> QED
    BY <1>8, <2>1, <2>2 DEF CreateWebAuthnCredential
<1>9. ASSUME NEW r \in Req, NEW o \in Outcome, DeleteWebAuthnRegistrationSession(r, o)
      PROVE  Kinds
  <2>1. req' = [req EXCEPT ![r] = Idle]
    BY <1>9 DEF DeleteWebAuthnRegistrationSession, Finish
  <2>2. Alone(r, Idle, log) /\ o = "ok" /\ At(r, "delReg")
    BY <1>0, <1>9, <2>1, QuietCall DEF DeleteWebAuthnRegistrationSession
  <2>3. Clears(r)
    BY <1>0, <1>9, <2>2 DEF DeleteWebAuthnRegistrationSession, Clears, redis, rows, devices
  <2> QED
    BY <2>3 DEF Kinds
<1>10. ASSUME NEW r \in Req, NEW o \in Outcome, SaveWebAuthnLoginSession(r, o) PROVE Kinds
  <2>1. req' = [req EXCEPT ![r] = Idle]
    BY <1>10 DEF SaveWebAuthnLoginSession, Finish
  <2>2. Alone(r, Idle, log) /\ o = "ok" /\ At(r, "saveLogin")
    BY <1>0, <1>10, <2>1, QuietCall DEF SaveWebAuthnLoginSession
  <2>3. UNCHANGED <<reg, row, answer>>
    BY <1>10 DEF SaveWebAuthnLoginSession, rows, devices
  <2>4. CASE UNCHANGED <<holder, live>>
    <3>1. Passes(r, Idle)
      BY <1>i, <2>2, <2>3, <2>4 DEF Passes, At
    <3> QED
      BY <1>i, <3>1 DEF Kinds
  <2>5. ASSUME NEW h \in Challenge, holder[h] = None,
               holder' = [holder EXCEPT ![h] = Anyone], live' = live \cup {h}
        PROVE  Kinds
    BY <2>2, <2>3, <2>5 DEF Starts, Kinds
  <2> QED
    BY <1>10, <2>4, <2>5 DEF SaveWebAuthnLoginSession
<1>11. ASSUME NEW r \in Req, NEW o \in Outcome, loadWebAuthnUser(r, o) PROVE Kinds
  <2>1. PICK q \in Request : 
          /\ req' = [req EXCEPT ![r] = q] /\ q.pc \in {"idle", "update"}
          /\ q.pc = "update" => /\ q.given = req[r].given
                               /\ q.row.count >= row[q.given.cred].count
    BY <1>0, <1>11, LoadEffect
  <2>2. Alone(r, q, log) /\ o = "ok" /\ At(r, "load")
    BY <1>0, <1>11, <2>1, QuietCall DEF loadWebAuthnUser
  <2>3. UNCHANGED <<holder, reg, live, row, answer>>
    BY <1>11 DEF loadWebAuthnUser, redis, rows, devices
  <2>4. CASE q.pc = "idle"
    BY <2>2, <2>3, <2>4 DEF Passes, Kinds, At
  <2>5. CASE q.pc # "idle"
    BY <2>1, <2>2, <2>3, <2>5 DEF Loads, Kinds
  <2> QED
    BY <2>4, <2>5
<1>12. ASSUME NEW r \in Req, NEW o \in Outcome, UpdateWebAuthnCredential(r, o) PROVE Kinds
  <2>1. PICK q \in Request : Moves(r, q, "delLogin")
    BY <1>0, <1>12, GotoEffect DEF UpdateWebAuthnCredential, Pc
  <2>2. Alone(r, q, log) /\ o = "ok" /\ At(r, "update")
    BY <1>0, <1>12, <2>1, QuietCall DEF UpdateWebAuthnCredential, Moves
  <2>3. Updates(r, q)
    BY <1>0, <1>12, <2>1, <2>2, UpdateEffect DEF UpdateWebAuthnCredential, Updates, Moves, redis, rows, devices
  <2> QED
    BY <2>3 DEF Kinds
<1>13. ASSUME NEW r \in Req, NEW o \in Outcome, DeleteWebAuthnLoginSession(r, o) PROVE Kinds
  <2>1. PICK q \in Request : Moves(r, q, "issue")
    BY <1>0, <1>13, GotoEffect DEF DeleteWebAuthnLoginSession, Pc
  <2>2. Alone(r, q, log) /\ o = "ok" /\ At(r, "delLogin")
    BY <1>0, <1>13, <2>1, QuietCall DEF DeleteWebAuthnLoginSession, Moves
  <2>3. Ends(r, q)
    BY <1>0, <1>13, <2>1, <2>2 DEF DeleteWebAuthnLoginSession, Ends, Moves, redis, rows, devices
  <2> QED
    BY <2>3 DEF Kinds
<1>14. ASSUME NEW r \in Req, NEW o \in Outcome, issueLoginSession(r, o) PROVE Kinds
  <2>1. req' = [req EXCEPT ![r] = Idle]
    BY <1>14 DEF issueLoginSession, Finish
  <2>2. Alone(r, Idle, Opened(req[r].given.ch)) /\ o = "ok" /\ At(r, "issue")
    BY <1>0, <1>14, <2>1, QuietCall DEF issueLoginSession
  <2>3. Opens(r)
    BY <1>0, <1>14, <2>2 DEF issueLoginSession, Opens, redis, rows, devices
  <2> QED
    BY <2>3 DEF Kinds
<1>15. ASSUME NEW r \in Req, NEW o \in Outcome, userOwnsPasskey(r, o) PROVE Kinds
  <2>1. PICK q \in Request : 
          /\ req' = [req EXCEPT ![r] = q] /\ q.pc \in {"idle", "rename", "delete"}
          /\ q.pc # "idle" => q.cred = req[r].cred /\ row[q.cred] # NoRow
    BY <1>0, <1>15, OwnEffect
  <2>2. Alone(r, q, log) /\ o = "ok" /\ At(r, "own")
    BY <1>0, <1>15, <2>1, QuietCall DEF userOwnsPasskey
  <2>3. UNCHANGED <<holder, reg, live, row, answer>>
    BY <1>15 DEF userOwnsPasskey, redis, rows, devices
  <2>4. CASE q.pc = "idle"
    BY <2>2, <2>3, <2>4 DEF Passes, Kinds, At
  <2>5. CASE q.pc # "idle"
    BY <2>1, <2>2, <2>3, <2>5 DEF Owns, Kinds
  <2> QED
    BY <2>4, <2>5
<1>16. ASSUME NEW r \in Req, NEW o \in Outcome, RenameWebAuthnCredential(r, o) PROVE Kinds
  <2>1. req' = [req EXCEPT ![r] = Idle]
    BY <1>16 DEF RenameWebAuthnCredential, Finish
  <2>2. Alone(r, Idle, log) /\ o = "ok" /\ At(r, "rename")
    BY <1>0, <1>16, <2>1, QuietCall DEF RenameWebAuthnCredential
  <2>3. Renames(r)
    BY <1>0, <1>16, <2>2, RenameEffect DEF RenameWebAuthnCredential, Renames, redis, rows, devices
  <2> QED
    BY <2>3 DEF Kinds
<1>17. ASSUME NEW r \in Req, NEW o \in Outcome, DeleteWebAuthnCredential(r, o) PROVE Kinds
  <2>1. req' = [req EXCEPT ![r] = Idle]
    BY <1>17 DEF DeleteWebAuthnCredential, Finish
  <2>2. Alone(r, Idle, Removed(req[r].cred)) /\ o = "ok" /\ At(r, "delete")
    BY <1>0, <1>17, <2>1, QuietCall DEF DeleteWebAuthnCredential
  <2>3. Deletes(r)
    BY <1>0, <1>17, <2>2 DEF DeleteWebAuthnCredential, Deletes, redis, rows, devices
  <2> QED
    BY <2>3 DEF Kinds
<1>18. CASE CeremonyLapses
  <2>1. Elapses
    BY <1>0, <1>18, PasskeysAssumption DEF CeremonyLapses, Elapses, TypeOK, redis, rows, devices
  <2> QED
    BY <2>1 DEF Kinds
<1>19. ASSUME NEW c \in Cred, NEW h \in Challenge, Attest(c, h) PROVE Kinds
  <2>1. Elapses
    BY <1>0, <1>19, PasskeysAssumption DEF Attest, Elapses, TypeOK, redis, rows, devices
  <2> QED
    BY <2>1 DEF Kinds
<1>20. ASSUME NEW c \in Cred, NEW h \in Challenge, Sign(c, h) PROVE Kinds
  <2>1. Elapses
    BY <1>0, <1>20, PasskeysAssumption DEF Sign, Elapses, TypeOK, redis, rows, devices
  <2> QED
    BY <2>1 DEF Kinds
<1>21. CASE UNCHANGED vars
  <2>1. Elapses
    BY <1>0, <1>21, PasskeysAssumption DEF vars, Elapses, TypeOK, redis, rows, devices
  <2> QED
    BY <2>1 DEF Kinds
<1> QED
  BY <1>1, <1>2, <1>3, <1>4, <1>5, <1>6, <1>7, <1>8, <1>9, <1>10, <1>11, <1>12, <1>13,
     <1>14, <1>15, <1>16, <1>17, <1>18, <1>19, <1>20, <1>21
  DEF Next, Arrive, Step, Environment

\* A history that is not quiet says nothing.
LEMMA NoiseStep == QInv /\ [Next]_vars => (~log'.quiet => log' = Blank(FALSE))
<1> SUFFICES ASSUME QInv, [Next]_vars PROVE (~log'.quiet => log' = Blank(FALSE))
  OBVIOUS
<1> USE DEF Arriving, Calls, At, LoneInv
<1>0. TypeOK /\ LoneInv
  BY DEF QInv, IInv
<1>c. /\ \A r \in Req : At(r, "issue") => req[r].given.ch \in Challenge
      /\ \A r \in Req : req[r].pc \in {"insert", "delete"} => req[r].cred \in Cred
  BY DEF QInv, IInv, ControlInv, At, Assertion
<1>l. /\ \A h \in Challenge : Opened(h).quiet = log.quiet
      /\ \A c \in Cred : Removed(c).quiet = log.quiet /\ Inserted(c).quiet = log.quiet
  BY <1>0, LogFields DEF TypeOK
<1>1. ASSUME NEW r \in Req, BeginPasskeyLogin(r) PROVE (~log'.quiet => log' = Blank(FALSE))
  BY <1>0, <1>c, <1>l, <1>1 DEF BeginPasskeyLogin
<1>2. ASSUME NEW r \in Req, NEW a \in signed, FinishPasskeyLogin(r, a)
      PROVE  (~log'.quiet => log' = Blank(FALSE))
  BY <1>0, <1>c, <1>l, <1>2 DEF FinishPasskeyLogin
<1>3. ASSUME NEW r \in Req, NEW u \in User, BeginPasskeyRegistration(r, u)
      PROVE  (~log'.quiet => log' = Blank(FALSE))
  BY <1>0, <1>c, <1>l, <1>3 DEF BeginPasskeyRegistration
<1>4. ASSUME NEW r \in Req, NEW u \in User, NEW c \in Cred, FinishPasskeyRegistration(r, u, c)
      PROVE  (~log'.quiet => log' = Blank(FALSE))
  BY <1>0, <1>c, <1>l, <1>4 DEF FinishPasskeyRegistration
<1>5. ASSUME NEW r \in Req, NEW u \in User, NEW c \in Cred, RenamePasskey(r, u, c)
      PROVE  (~log'.quiet => log' = Blank(FALSE))
  BY <1>0, <1>c, <1>l, <1>5 DEF RenamePasskey
<1>6. ASSUME NEW r \in Req, NEW u \in User, NEW c \in Cred, DeletePasskey(r, u, c)
      PROVE  (~log'.quiet => log' = Blank(FALSE))
  BY <1>0, <1>c, <1>l, <1>6 DEF DeletePasskey
<1>7. ASSUME NEW r \in Req, NEW o \in Outcome, SaveWebAuthnRegistrationSession(r, o)
      PROVE  (~log'.quiet => log' = Blank(FALSE))
  BY <1>0, <1>c, <1>l, <1>7 DEF SaveWebAuthnRegistrationSession
<1>8. ASSUME NEW r \in Req, NEW o \in Outcome, CreateWebAuthnCredential(r, o)
      PROVE  (~log'.quiet => log' = Blank(FALSE))
  BY <1>0, <1>c, <1>l, <1>8 DEF CreateWebAuthnCredential
<1>9. ASSUME NEW r \in Req, NEW o \in Outcome, DeleteWebAuthnRegistrationSession(r, o)
      PROVE  (~log'.quiet => log' = Blank(FALSE))
  BY <1>0, <1>c, <1>l, <1>9 DEF DeleteWebAuthnRegistrationSession
<1>10. ASSUME NEW r \in Req, NEW o \in Outcome, SaveWebAuthnLoginSession(r, o)
      PROVE  (~log'.quiet => log' = Blank(FALSE))
  BY <1>0, <1>c, <1>l, <1>10 DEF SaveWebAuthnLoginSession
<1>11. ASSUME NEW r \in Req, NEW o \in Outcome, loadWebAuthnUser(r, o)
      PROVE  (~log'.quiet => log' = Blank(FALSE))
  BY <1>0, <1>c, <1>l, <1>11 DEF loadWebAuthnUser
<1>12. ASSUME NEW r \in Req, NEW o \in Outcome, UpdateWebAuthnCredential(r, o)
      PROVE  (~log'.quiet => log' = Blank(FALSE))
  BY <1>0, <1>c, <1>l, <1>12 DEF UpdateWebAuthnCredential
<1>13. ASSUME NEW r \in Req, NEW o \in Outcome, DeleteWebAuthnLoginSession(r, o)
      PROVE  (~log'.quiet => log' = Blank(FALSE))
  BY <1>0, <1>c, <1>l, <1>13 DEF DeleteWebAuthnLoginSession
<1>14. ASSUME NEW r \in Req, NEW o \in Outcome, issueLoginSession(r, o)
      PROVE  (~log'.quiet => log' = Blank(FALSE))
  BY <1>0, <1>c, <1>l, <1>14 DEF issueLoginSession
<1>15. ASSUME NEW r \in Req, NEW o \in Outcome, userOwnsPasskey(r, o)
      PROVE  (~log'.quiet => log' = Blank(FALSE))
  BY <1>0, <1>c, <1>l, <1>15 DEF userOwnsPasskey
<1>16. ASSUME NEW r \in Req, NEW o \in Outcome, RenameWebAuthnCredential(r, o)
      PROVE  (~log'.quiet => log' = Blank(FALSE))
  BY <1>0, <1>c, <1>l, <1>16 DEF RenameWebAuthnCredential
<1>17. ASSUME NEW r \in Req, NEW o \in Outcome, DeleteWebAuthnCredential(r, o)
      PROVE  (~log'.quiet => log' = Blank(FALSE))
  BY <1>0, <1>c, <1>l, <1>17 DEF DeleteWebAuthnCredential
<1>18. CASE CeremonyLapses
  BY <1>0, <1>c, <1>l, <1>18 DEF CeremonyLapses
<1>19. ASSUME NEW c \in Cred, NEW h \in Challenge, Attest(c, h)
      PROVE  (~log'.quiet => log' = Blank(FALSE))
  BY <1>0, <1>c, <1>l, <1>19 DEF Attest
<1>20. ASSUME NEW c \in Cred, NEW h \in Challenge, Sign(c, h)
      PROVE  (~log'.quiet => log' = Blank(FALSE))
  BY <1>0, <1>c, <1>l, <1>20 DEF Sign
<1>21. CASE UNCHANGED vars
  BY <1>0, <1>c, <1>l, <1>21 DEF vars
<1> QED
  BY <1>1, <1>2, <1>3, <1>4, <1>5, <1>6, <1>7, <1>8, <1>9, <1>10, <1>11, <1>12, <1>13,
     <1>14, <1>15, <1>16, <1>17, <1>18, <1>19, <1>20, <1>21
  DEF Next, Arrive, Step, Environment

\* A history stays quiet only while requests do not overlap.
LEMMA LoneStep == QInv /\ [Next]_vars => LoneInv'
<1> SUFFICES ASSUME QInv, [Next]_vars, log'.quiet PROVE LoneInv'
  BY NoiseStep DEF LoneInv
<1>1. ASSUME NEW r \in Req, NEW q, NEW l, Alone(r, q, l) PROVE LoneInv'
  BY <1>1 DEF Alone, LoneInv
<1>2. CASE Elapses
  BY <1>2 DEF Elapses, QInv, LoneInv
<1> QED
  BY Steps, <1>1, <1>2
  DEF Kinds, Passes, Registers, Begins, Inserts, Clears, Starts, Answers, Loads, Updates,
      Ends, Opens, Owns, Renames, Deletes

\* A ceremony is deleted before its session is opened, and not made again.
LEMMA OpenStep == QInv /\ [Next]_vars => OpenInv' /\ CeremonyOnce'
<1> SUFFICES ASSUME QInv, [Next]_vars, log'.quiet PROVE OpenInv' /\ CeremonyOnce'
  <2>1. ASSUME QInv, [Next]_vars, ~log'.quiet
        PROVE  ~log'.back /\ \A h \in Challenge : log'.opened[h] = 0
    BY <2>1, NoiseStep DEF Blank
  <2> QED
    BY <2>1 DEF OpenInv, CeremonyOnce
<1>0. TypeOK /\ ControlInv /\ OpenInv /\ CeremonyOnce
  BY DEF QInv, IInv
<1>l. \A h \in Challenge : log.opened[h] \in Nat
  BY <1>0 DEF TypeOK, Log
<1>f. /\ \A h \in Challenge :
           /\ Opened(h).removed = log.removed /\ Opened(h).back = log.back
           /\ \A i \in Challenge :
                Opened(h).opened[i] = IF i = h THEN log.opened[i] + 1 ELSE log.opened[i]
      /\ \A c \in Cred :
           /\ Removed(c).opened = log.opened /\ Inserted(c).opened = log.opened
           /\ Removed(c).removed = log.removed \cup {c} /\ Removed(c).back = log.back
           /\ Inserted(c).removed = log.removed
           /\ Inserted(c).back <=> log.back \/ c \in log.removed
  BY <1>0, LogFields DEF TypeOK
<1>c. /\ \A r \in Req : req[r].pc \in {"load", "update", "delLogin", "issue"} =>
           req[r].given.ch \in Challenge /\ req[r].given.cred \in Cred
      /\ \A r \in Req : req[r].pc \in {"insert", "own", "rename", "delete"} => req[r].cred \in Cred
      /\ \A r \in Req : req[r].pc \in {"saveReg", "insert", "delReg"} => req[r].user \in User
  BY <1>0 DEF ControlInv, Assertion
<1>i. Idle.pc = "idle" /\ NoRow \notin Row
  BY Constants
<1> USE DEF OpenInv, CeremonyOnce, TypeOK, At
<1>1. ASSUME NEW r \in Req, NEW q \in Request, Passes(r, q)
      PROVE  OpenInv' /\ CeremonyOnce'
  BY <1>0, <1>l, <1>f, <1>c, <1>i, PasskeysAssumption, <1>1 DEF Passes, Alone
<1>2. ASSUME NEW r \in Req, NEW q \in Request, Registers(r, q)
      PROVE  OpenInv' /\ CeremonyOnce'
  BY <1>0, <1>l, <1>f, <1>c, <1>i, PasskeysAssumption, <1>2 DEF Registers, Alone
<1>3. ASSUME NEW r \in Req, NEW q \in Request, Inserts(r, q)
      PROVE  OpenInv' /\ CeremonyOnce'
  BY <1>0, <1>l, <1>f, <1>c, <1>i, PasskeysAssumption, <1>3, SMTT(30) DEF Inserts, Alone
<1>4. ASSUME NEW r \in Req, NEW q \in Request, Answers(r, q)
      PROVE  OpenInv' /\ CeremonyOnce'
  BY <1>0, <1>l, <1>f, <1>c, <1>i, PasskeysAssumption, <1>4 DEF Answers, Alone
<1>5. ASSUME NEW r \in Req, NEW q \in Request, Loads(r, q) PROVE OpenInv' /\ CeremonyOnce'
  BY <1>0, <1>l, <1>f, <1>c, <1>i, PasskeysAssumption, <1>5 DEF Loads, Alone
<1>6. ASSUME NEW r \in Req, NEW q \in Request, Updates(r, q)
      PROVE  OpenInv' /\ CeremonyOnce'
  BY <1>0, <1>l, <1>f, <1>c, <1>i, PasskeysAssumption, <1>6 DEF Updates, Alone
<1>7. ASSUME NEW r \in Req, NEW q \in Request, Ends(r, q) PROVE OpenInv' /\ CeremonyOnce'
  BY <1>0, <1>l, <1>f, <1>c, <1>i, PasskeysAssumption, <1>7 DEF Ends, Alone
<1>8. ASSUME NEW r \in Req, NEW q \in Request, Owns(r, q) PROVE OpenInv' /\ CeremonyOnce'
  BY <1>0, <1>l, <1>f, <1>c, <1>i, PasskeysAssumption, <1>8 DEF Owns, Alone
<1>9. ASSUME NEW r \in Req, Clears(r) PROVE OpenInv' /\ CeremonyOnce'
  BY <1>0, <1>l, <1>f, <1>c, <1>i, PasskeysAssumption, <1>9 DEF Clears, Alone
<1>10. ASSUME NEW r \in Req, Opens(r) PROVE OpenInv' /\ CeremonyOnce'
  <2>1. req[r].given.ch \in Challenge
    BY <1>c, <1>10 DEF Opens
  <2>2. /\ log.quiet /\ log.opened[req[r].given.ch] = 0 /\ holder[req[r].given.ch] # None
        /\ req[r].given.ch \notin live
    BY <1>0, <1>10 DEF Opens, Alone
  <2>3. \A h \in Challenge :
          log'.opened[h] = IF h = req[r].given.ch THEN log.opened[h] + 1 ELSE log.opened[h]
    BY <1>f, <1>10, <2>1 DEF Opens, Alone
  <2>4. \A s \in Req : req'[s] = Idle
    BY <1>10 DEF Opens, Alone
  <2>5. UNCHANGED <<live, holder>>
    BY <1>10 DEF Opens
  <2> QED
    BY <1>0, <1>i, <2>1, <2>2, <2>3, <2>4, <2>5
<1>11. ASSUME NEW r \in Req, Renames(r) PROVE OpenInv' /\ CeremonyOnce'
  BY <1>0, <1>l, <1>f, <1>c, <1>i, PasskeysAssumption, <1>11 DEF Renames, Alone
<1>12. ASSUME NEW r \in Req, Deletes(r) PROVE OpenInv' /\ CeremonyOnce'
  <2>1. log.quiet /\ log'.opened = log.opened /\ UNCHANGED <<holder, live>>
    BY <1>f, <1>c, <1>12 DEF Deletes, Alone
  <2>2. \A s \in Req : req'[s] = Idle
    BY <1>12 DEF Deletes, Alone
  <2> QED
    BY <1>0, <1>i, <2>1, <2>2
<1>13. ASSUME NEW r \in Req, NEW h \in Challenge, Begins(r, h)
      PROVE  OpenInv' /\ CeremonyOnce'
  <2>1. log.quiet /\ log'.opened = log.opened /\ live' = live
    BY <1>13 DEF Begins, Alone
  <2>2. req[r].user # None /\ \A i \in Challenge : holder'[i] # None <=> holder[i] # None \/ i = h
    BY <1>0, <1>c, PasskeysAssumption, <1>13 DEF Begins
  <2>3. \A s \in Req : req'[s] = Idle
    BY <1>13 DEF Begins, Alone
  <2> QED
    BY <1>0, <1>i, <2>1, <2>2, <2>3
<1>14. ASSUME NEW r \in Req, NEW h \in Challenge, Starts(r, h)
      PROVE  OpenInv' /\ CeremonyOnce'
  BY <1>0, <1>l, <1>f, <1>c, <1>i, PasskeysAssumption, <1>14, SMTT(30) DEF Starts, Alone
<1>15. CASE Elapses
  BY <1>0, <1>l, <1>f, <1>c, <1>i, PasskeysAssumption, <1>15 DEF Elapses
<1> QED
  BY Steps, <1>1, <1>2, <1>3, <1>4, <1>5, <1>6, <1>7, <1>8, <1>9, <1>10, <1>11, <1>12,
     <1>13, <1>14, <1>15
  DEF Kinds

\* A passkey is on file, or removed, only after its ceremony was deleted.
LEMMA RemovedStep == QInv /\ [Next]_vars => RemovedInv' /\ ~log'.back
<1> SUFFICES ASSUME QInv, [Next]_vars, log'.quiet PROVE RemovedInv' /\ ~log'.back
  <2>1. ASSUME QInv, [Next]_vars, ~log'.quiet
        PROVE  ~log'.back /\ \A h \in Challenge : log'.opened[h] = 0
    BY <2>1, NoiseStep DEF Blank
  <2> QED
    BY <2>1 DEF RemovedInv
<1>0. TypeOK /\ ControlInv /\ HolderInv /\ InsertInv /\ PasskeyOwned /\ RemovedInv /\ ~log.back
  BY DEF QInv, IInv, RemovedStaysRemoved
<1>l. \A h \in Challenge : log.opened[h] \in Nat
  BY <1>0 DEF TypeOK, Log
<1>f. /\ \A h \in Challenge :
           /\ Opened(h).removed = log.removed /\ Opened(h).back = log.back
           /\ \A i \in Challenge :
                Opened(h).opened[i] = IF i = h THEN log.opened[i] + 1 ELSE log.opened[i]
      /\ \A c \in Cred :
           /\ Removed(c).opened = log.opened /\ Inserted(c).opened = log.opened
           /\ Removed(c).removed = log.removed \cup {c} /\ Removed(c).back = log.back
           /\ Inserted(c).removed = log.removed
           /\ Inserted(c).back <=> log.back \/ c \in log.removed
  BY <1>0, LogFields DEF TypeOK
<1>c. /\ \A r \in Req : req[r].pc \in {"load", "update", "delLogin", "issue"} =>
           req[r].given.ch \in Challenge /\ req[r].given.cred \in Cred
      /\ \A r \in Req : req[r].pc \in {"insert", "own", "rename", "delete"} => req[r].cred \in Cred
      /\ \A r \in Req : req[r].pc \in {"saveReg", "insert", "delReg"} => req[r].user \in User
  BY <1>0 DEF ControlInv, Assertion
<1>i. Idle.pc = "idle" /\ NoRow \notin Row
  BY Constants
<1>p. /\ \A c \in Cred : row[c] # NoRow => answer[c] # None
      /\ \A c \in Cred : answer[c] # None => answer[c] \in Challenge /\ holder[answer[c]] \in User
      /\ \A c \in Cred, u \in User : answer[c] # None /\ reg[u] = answer[c] => holder[answer[c]] = u
  BY <1>0 DEF PasskeyOwned, HolderInv, TypeOK
<1>r. log.removed \subseteq Cred
  BY <1>0 DEF TypeOK, Log
<1> USE DEF RemovedInv, Settled, TypeOK, At
<1>1. ASSUME NEW r \in Req, NEW q \in Request, Passes(r, q)
      PROVE  RemovedInv' /\ ~log'.back
  BY <1>0, <1>i, <1>1 DEF Passes, Alone
<1>2. ASSUME NEW r \in Req, NEW q \in Request, Registers(r, q)
      PROVE  RemovedInv' /\ ~log'.back
  BY <1>0, <1>i, <1>2 DEF Registers, Alone
<1>3. ASSUME NEW r \in Req, NEW q \in Request, Inserts(r, q)
      PROVE  RemovedInv' /\ ~log'.back
  <2>1. /\ req[r].cred \in Cred /\ answer[req[r].cred] # None
        /\ holder[answer[req[r].cred]] = req[r].user /\ req[r].cred \notin log.removed
    BY <1>0, <1>c, <1>3 DEF Inserts, Alone, InsertInv
  <2>2. log'.removed = log.removed /\ ~log'.back
    BY <1>0, <1>f, <1>3, <2>1 DEF Inserts, Alone
  <2>3. \A c \in Cred \ {req[r].cred} : row'[c] = row[c]
    BY <1>0, <1>3 DEF Inserts
  <2>4. \A u \in User : reg[u] = answer[req[r].cred] => u = req[r].user
    BY <1>p, <2>1
  <2>5. \A c \in Cred, u \in User : row'[c] # NoRow /\ reg'[u] = answer'[c] =>
          \E s \in Req : At(s, "delReg")' /\ req'[s].user = u
    <3>1. CASE q = Idle
      BY <1>0, <1>i, <1>3, <3>1 DEF Inserts, Alone
    <3>2. CASE q # Idle
      BY <1>0, <1>i, <1>3, <2>1, <2>3, <2>4, <3>2 DEF Inserts, Alone
    <3> QED
      BY <3>1, <3>2
  <2>6. \A s \in Req : req'[s].pc \notin {"rename", "delete", "insert"}
    BY <1>i, <1>3 DEF Inserts, Alone
  <2>7. \A c \in log'.removed : Settled(c)'
    BY <1>0, <1>3, <2>2 DEF Inserts, Alone
  <2> QED
    BY <2>2, <2>5, <2>6, <2>7
<1>4. ASSUME NEW r \in Req, NEW q \in Request, Answers(r, q)
      PROVE  RemovedInv' /\ ~log'.back
  BY <1>0, <1>i, <1>4 DEF Answers, Alone
<1>5. ASSUME NEW r \in Req, NEW q \in Request, Loads(r, q) PROVE RemovedInv' /\ ~log'.back
  BY <1>0, <1>i, <1>5 DEF Loads, Alone
<1>6. ASSUME NEW r \in Req, NEW q \in Request, Updates(r, q)
      PROVE  RemovedInv' /\ ~log'.back
  <2>1. \A c \in Cred : row'[c] # NoRow => row[c] # NoRow
    BY <1>0, <1>i, <1>6 DEF Updates, Kept
  <2> QED
    BY <1>0, <1>i, <1>r, <1>6, <2>1 DEF Updates, Alone
<1>7. ASSUME NEW r \in Req, NEW q \in Request, Ends(r, q) PROVE RemovedInv' /\ ~log'.back
  <2>1. UNCHANGED <<reg, row, answer>> /\ log' = log /\ log.quiet
    BY <1>7 DEF Ends, Alone
  <2>2. \A s \in Req : ~At(s, "delReg") /\ req'[s].pc \notin {"rename", "delete", "insert"}
    BY <1>i, <1>7 DEF Ends, Alone
  <2> QED
    BY <1>0, <2>1, <2>2
<1>8. ASSUME NEW r \in Req, NEW q \in Request, Owns(r, q) PROVE RemovedInv' /\ ~log'.back
  <2>1. \A s \in Req : ~At(s, "delReg")
    BY <1>i, <1>8 DEF Owns, Alone
  <2>2. req[r].cred \in Cred
    BY <1>c, <1>8 DEF Owns
  <2>3. Settled(req[r].cred)
    BY <1>0, <1>p, <1>8, <2>1, <2>2 DEF Owns, Alone
  <2> QED
    BY <1>0, <1>i, <1>r, <1>8, <2>1, <2>3 DEF Owns, Alone
<1>9. ASSUME NEW r \in Req, Clears(r) PROVE RemovedInv' /\ ~log'.back
  <2>1. /\ req[r].user \in User /\ reg'[req[r].user] = None
        /\ \A u \in User \ {req[r].user} : reg'[u] = reg[u]
    BY <1>0, <1>c, <1>9 DEF Clears
  <2>2. \A c \in Cred : Settled(c) => Settled(c)'
    BY <1>0, <1>9, <2>1 DEF Clears
  <2> QED
    BY <1>0, <1>i, <1>p, <1>r, <1>9, <2>1, <2>2 DEF Clears, Alone
<1>10. ASSUME NEW r \in Req, Opens(r) PROVE RemovedInv' /\ ~log'.back
  BY <1>0, <1>f, <1>c, <1>i, <1>r, <1>10, SMTT(30) DEF Opens, Alone
<1>11. ASSUME NEW r \in Req, Renames(r) PROVE RemovedInv' /\ ~log'.back
  <2>1. \A c \in Cred : row'[c] # NoRow => row[c] # NoRow
    BY <1>0, <1>i, <1>11 DEF Renames, Kept
  <2> QED
    BY <1>0, <1>i, <1>r, <1>11, <2>1 DEF Renames, Alone
<1>12. ASSUME NEW r \in Req, Deletes(r) PROVE RemovedInv' /\ ~log'.back
  <2>1. req[r].cred \in Cred /\ Settled(req[r].cred)
    BY <1>0, <1>c, <1>12 DEF Deletes, Alone
  <2>2. log'.removed = log.removed \cup {req[r].cred} /\ ~log'.back
    BY <1>0, <1>f, <1>12, <2>1 DEF Deletes, Alone
  <2>3. \A c \in Cred : row'[c] # NoRow => row[c] # NoRow
    BY <1>0, <1>12, <2>1 DEF Deletes
  <2> QED
    BY <1>0, <1>i, <1>12, <2>1, <2>2, <2>3 DEF Deletes, Alone
<1>13. ASSUME NEW r \in Req, NEW h \in Challenge, Begins(r, h)
      PROVE  RemovedInv' /\ ~log'.back
  <2>1. /\ req[r].user \in User /\ reg'[req[r].user] = h
        /\ \A u \in User \ {req[r].user} : reg'[u] = reg[u]
    BY <1>0, <1>c, <1>13 DEF Begins
  <2>2. \A c \in Cred : answer[c] # None => answer[c] # h
    BY <1>p, <1>13, PasskeysAssumption DEF Begins
  <2>3. \A c \in Cred : Settled(c) => Settled(c)'
    BY <1>0, <1>13, <2>1, <2>2 DEF Begins
  <2> QED
    BY <1>0, <1>i, <1>p, <1>r, <1>13, <2>1, <2>2, <2>3 DEF Begins, Alone
<1>14. ASSUME NEW r \in Req, NEW h \in Challenge, Starts(r, h)
      PROVE  RemovedInv' /\ ~log'.back
  <2>1. UNCHANGED <<reg, row, answer>> /\ log' = log /\ log.quiet
    BY <1>14 DEF Starts, Alone
  <2>2. \A s \in Req : ~At(s, "delReg") /\ req'[s].pc \notin {"rename", "delete", "insert"}
    BY <1>i, <1>14 DEF Starts, Alone
  <2> QED
    BY <1>0, <2>1, <2>2
<1>15. CASE Elapses
  <2>1. \A c \in Cred : Settled(c) => Settled(c)'
    BY <1>0, <1>15 DEF Elapses
  <2> QED
    BY <1>0, <1>c, <1>p, <1>r, <1>15, <2>1 DEF Elapses
<1> QED
  BY Steps, <1>1, <1>2, <1>3, <1>4, <1>5, <1>6, <1>7, <1>8, <1>9, <1>10, <1>11, <1>12,
     <1>13, <1>14, <1>15
  DEF Kinds

\* What was read is what is on file.
LEMMA CountStep == QInv /\ [Next]_vars => CountInv'
<1> SUFFICES ASSUME QInv, [Next]_vars, log'.quiet PROVE CountInv'
  BY DEF CountInv
<1>0. TypeOK /\ ControlInv /\ CountInv
  BY DEF QInv, IInv
<1>c. /\ \A r \in Req : req[r].pc \in {"load", "update", "delLogin", "issue"} =>
           req[r].given.ch \in Challenge /\ req[r].given.cred \in Cred
      /\ \A r \in Req : req[r].pc \in {"insert", "own", "rename", "delete"} => req[r].cred \in Cred
      /\ \A r \in Req : req[r].pc \in {"saveReg", "insert", "delReg"} => req[r].user \in User
  BY <1>0 DEF ControlInv, Assertion
<1>i. Idle.pc = "idle" /\ NoRow \notin Row
  BY Constants
<1> USE DEF CountInv, TypeOK, At
<1>1. ASSUME NEW r \in Req, NEW q \in Request, Passes(r, q) PROVE CountInv'
  BY <1>0, <1>c, <1>i, <1>1 DEF Passes, Alone
<1>2. ASSUME NEW r \in Req, NEW q \in Request, Registers(r, q) PROVE CountInv'
  BY <1>0, <1>c, <1>i, <1>2 DEF Registers, Alone
<1>3. ASSUME NEW r \in Req, NEW q \in Request, Inserts(r, q) PROVE CountInv'
  BY <1>0, <1>c, <1>i, <1>3 DEF Inserts, Alone
<1>4. ASSUME NEW r \in Req, NEW q \in Request, Answers(r, q) PROVE CountInv'
  BY <1>0, <1>c, <1>i, <1>4 DEF Answers, Alone
<1>5. ASSUME NEW r \in Req, NEW q \in Request, Loads(r, q) PROVE CountInv'
  BY <1>0, <1>c, <1>i, <1>5 DEF Loads, Alone
<1>6. ASSUME NEW r \in Req, NEW q \in Request, Updates(r, q) PROVE CountInv'
  BY <1>0, <1>c, <1>i, <1>6 DEF Updates, Alone
<1>7. ASSUME NEW r \in Req, NEW q \in Request, Ends(r, q) PROVE CountInv'
  BY <1>0, <1>c, <1>i, <1>7 DEF Ends, Alone
<1>8. ASSUME NEW r \in Req, NEW q \in Request, Owns(r, q) PROVE CountInv'
  BY <1>0, <1>c, <1>i, <1>8 DEF Owns, Alone
<1>9. ASSUME NEW r \in Req, Clears(r) PROVE CountInv'
  BY <1>0, <1>c, <1>i, <1>9 DEF Clears, Alone
<1>10. ASSUME NEW r \in Req, Opens(r) PROVE CountInv'
  BY <1>0, <1>c, <1>i, <1>10 DEF Opens, Alone
<1>11. ASSUME NEW r \in Req, Renames(r) PROVE CountInv'
  BY <1>0, <1>c, <1>i, <1>11 DEF Renames, Alone
<1>12. ASSUME NEW r \in Req, Deletes(r) PROVE CountInv'
  BY <1>0, <1>c, <1>i, <1>12 DEF Deletes, Alone
<1>13. ASSUME NEW r \in Req, NEW h \in Challenge, Begins(r, h) PROVE CountInv'
  BY <1>0, <1>c, <1>i, <1>13 DEF Begins, Alone
<1>14. ASSUME NEW r \in Req, NEW h \in Challenge, Starts(r, h) PROVE CountInv'
  BY <1>0, <1>c, <1>i, <1>14 DEF Starts, Alone
<1>15. CASE Elapses
  BY <1>0, <1>c, <1>i, <1>15 DEF Elapses
<1> QED
  BY Steps, <1>1, <1>2, <1>3, <1>4, <1>5, <1>6, <1>7, <1>8, <1>9, <1>10, <1>11, <1>12,
     <1>13, <1>14, <1>15
  DEF Kinds

\* The initial state satisfies the invariant of quiet histories.
LEMMA InitQInv == Init => QInv
<1> SUFFICES ASSUME Init PROVE QInv
  OBVIOUS
<1>1. req = [r \in Req |-> Idle] /\ Idle.pc = "idle"
  BY Constants DEF Init
<1>2. /\ log.quiet /\ log.removed = {} /\ ~log.back
      /\ \A h \in Challenge : log.opened[h] = 0
  BY DEF Init, Blank
<1>3. live = {} /\ row = [c \in Cred |-> NoRow]
  BY DEF Init
<1>4. LoneInv /\ OpenInv /\ RemovedInv /\ CountInv /\ CeremonyOnce /\ RemovedStaysRemoved
  BY <1>1, <1>2, <1>3
  DEF LoneInv, OpenInv, RemovedInv, CountInv, CeremonyOnce, RemovedStaysRemoved, At
<1> QED
  BY <1>4, InitIInv DEF QInv

\* Every step preserves the invariant of quiet histories.
LEMMA QInvStep == QInv /\ [Next]_vars => QInv'
<1> SUFFICES ASSUME QInv, [Next]_vars PROVE QInv'
  OBVIOUS
<1>1. IInv'
  BY IInvStep DEF QInv
<1> QED
  BY <1>1, LoneStep, OpenStep, RemovedStep, CountStep DEF QInv, RemovedStaysRemoved

\* What CountAdvances says of one step.
Advances ==
    log'.quiet => \A c \in Cred :
        row[c] # NoRow /\ row'[c] # NoRow /\ row'[c].id = row[c].id
           => row'[c].count >= row[c].count

\* No step of a quiet history stores a smaller count.
LEMMA AdvanceStep == QInv /\ [Next]_vars => Advances
<1> SUFFICES ASSUME QInv, [Next]_vars, log'.quiet PROVE Advances
  BY DEF Advances
<1>0. TypeOK /\ ControlInv /\ CountInv
  BY DEF QInv, IInv
<1>c. /\ \A r \in Req : req[r].pc \in {"load", "update", "delLogin", "issue"} =>
           req[r].given.ch \in Challenge /\ req[r].given.cred \in Cred
      /\ \A r \in Req : req[r].pc \in {"insert", "own", "rename", "delete"} => req[r].cred \in Cred
      /\ \A r \in Req : req[r].pc \in {"saveReg", "insert", "delReg"} => req[r].user \in User
  BY <1>0 DEF ControlInv, Assertion
<1>i. Idle.pc = "idle" /\ NoRow \notin Row
  BY Constants
<1>n. \A c \in Cred : row[c].count \in Nat
  BY <1>0, PasskeysAssumption DEF TypeOK, Row, NoRow, Count
<1> USE DEF Advances, CountInv, TypeOK, At
<1>1. ASSUME NEW r \in Req, NEW q \in Request, Passes(r, q) PROVE Advances
  BY <1>0, <1>c, <1>i, <1>n, <1>1 DEF Passes, Alone
<1>2. ASSUME NEW r \in Req, NEW q \in Request, Registers(r, q) PROVE Advances
  BY <1>0, <1>c, <1>i, <1>n, <1>2 DEF Registers, Alone
<1>3. ASSUME NEW r \in Req, NEW q \in Request, Inserts(r, q) PROVE Advances
  BY <1>0, <1>c, <1>i, <1>n, <1>3 DEF Inserts, Alone
<1>4. ASSUME NEW r \in Req, NEW q \in Request, Answers(r, q) PROVE Advances
  BY <1>0, <1>c, <1>i, <1>n, <1>4 DEF Answers, Alone
<1>5. ASSUME NEW r \in Req, NEW q \in Request, Loads(r, q) PROVE Advances
  BY <1>0, <1>c, <1>i, <1>n, <1>5 DEF Loads, Alone
<1>6. ASSUME NEW r \in Req, NEW q \in Request, Updates(r, q) PROVE Advances
  BY <1>0, <1>c, <1>i, <1>n, <1>6 DEF Updates, Alone
<1>7. ASSUME NEW r \in Req, NEW q \in Request, Ends(r, q) PROVE Advances
  BY <1>0, <1>c, <1>i, <1>n, <1>7 DEF Ends, Alone
<1>8. ASSUME NEW r \in Req, NEW q \in Request, Owns(r, q) PROVE Advances
  BY <1>0, <1>c, <1>i, <1>n, <1>8 DEF Owns, Alone
<1>9. ASSUME NEW r \in Req, Clears(r) PROVE Advances
  BY <1>0, <1>c, <1>i, <1>n, <1>9 DEF Clears, Alone
<1>10. ASSUME NEW r \in Req, Opens(r) PROVE Advances
  BY <1>0, <1>c, <1>i, <1>n, <1>10 DEF Opens, Alone
<1>11. ASSUME NEW r \in Req, Renames(r) PROVE Advances
  BY <1>0, <1>c, <1>i, <1>n, <1>11 DEF Renames, Alone
<1>12. ASSUME NEW r \in Req, Deletes(r) PROVE Advances
  BY <1>0, <1>c, <1>i, <1>n, <1>12 DEF Deletes, Alone
<1>13. ASSUME NEW r \in Req, NEW h \in Challenge, Begins(r, h) PROVE Advances
  BY <1>0, <1>c, <1>i, <1>n, <1>13 DEF Begins, Alone
<1>14. ASSUME NEW r \in Req, NEW h \in Challenge, Starts(r, h) PROVE Advances
  BY <1>0, <1>c, <1>i, <1>n, <1>14 DEF Starts, Alone
<1>15. CASE Elapses
  BY <1>0, <1>c, <1>i, <1>n, <1>15 DEF Elapses
<1> QED
  BY Steps, <1>1, <1>2, <1>3, <1>4, <1>5, <1>6, <1>7, <1>8, <1>9, <1>10, <1>11, <1>12,
     <1>13, <1>14, <1>15
  DEF Kinds

-----------------------------------------------------------------------------
\* The invariant of quiet histories holds in every reachable state.
THEOREM QuietInvariance == Spec => []QInv
  BY InitQInv, QInvStep, PTL DEF Spec

\* As long as requests do not overlap and no call fails, a login ceremony opens
\* one session, however often its answer is sent: FinishPasskeyLogin deletes
\* the ceremony before it issues the session.
THEOREM CeremoniesOpenOne == Spec => []CeremonyOnce
<1>1. QInv => CeremonyOnce
  BY DEF QInv
<1> QED
  BY QuietInvariance, <1>1, PTL

\* As long as requests do not overlap and no call fails, a passkey that
\* DeletePasskey removed does not come back, however often the answer it was
\* registered with is sent.
THEOREM RemovalIsFinal == Spec => []RemovedStaysRemoved
<1>1. QInv => RemovedStaysRemoved
  BY DEF QInv
<1> QED
  BY QuietInvariance, <1>1, PTL

\* As long as requests do not overlap and no call fails, no step makes the
\* count on file smaller, in whichever order assertions are sent.
THEOREM CountsAdvance == Spec => CountAdvances
<1>1. QInv /\ [Next]_vars => [Advances]_vars
  BY AdvanceStep
<1>2. [Advances]_vars <=>
        [log'.quiet => \A c \in Cred :
           row[c] # NoRow /\ row'[c] # NoRow /\ row'[c].id = row[c].id
              => row'[c].count >= row[c].count]_vars
  BY DEF Advances
<1> QED
  BY <1>1, <1>2, QuietInvariance, PTL DEF Spec, CountAdvances
=============================================================================
