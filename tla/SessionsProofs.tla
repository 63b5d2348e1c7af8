--------------------------- MODULE SessionsProofs ---------------------------
(***************************************************************************)
(* Theorems about Sessions, for any number of requests, accounts, session  *)
(* ids and tokens, and for every outcome of every store call.              *)
(***************************************************************************)
EXTENDS Sessions, TLAPS

Mint == {"setSession", "setRefresh", "writeRow"}

\* Which operation a program counter belongs to, and the locals it has set.
ControlInv ==
    \A r \in Req :
        LET q == req[r] IN
        /\ q.pc = "idle" <=> q.op = "none"
        /\ q.pc \in Mint => q.op \in {"login", "refresh"}
        /\ q.pc \in {"undo", "record"} => q.op = "login"
        /\ q.pc \in {"getRefresh", "getRow", "getUser"} => q.op = "refresh"
        /\ q.pc \in {"del", "revoke"} => q.op \in {"refresh", "logout"}
        /\ q.pc \in {"list", "stmt", "commit", "clear"} => q.op \in BulkOps
        /\ q.op \in {"login", "refresh", "logout"} => q.sid \in usedSid
        /\ q.op \in BulkOps \ {"change"} => q.sid = NoSid
        /\ q.op # "none" => q.user \in User
        /\ q.op = "login" => q.old = NoToken
        /\ q.op = "refresh" => q.old \in Token

\* A session id that was not handed out has left no trace, and a login that
\* has not inserted its row is alone with its id.
SidInv ==
    /\ \A s \in Sid : rowState[s] # "none" => s \in usedSid
    /\ \A r \in Req : req[r].op = "login" /\ req[r].pc \in Mint =>
          /\ rowState[req[r].sid] = "none"
          /\ \A q \in Req \ {r} : req[q].op = "login" /\ req[q].pc \in Mint
                                    => req[q].sid # req[r].sid

\* What is known of every token Postgres has seen, and of the token a row holds.
StoredInv ==
    /\ delivered \subseteq stored
    /\ \A t \in stored : /\ tokSid[t] \in Sid
                         /\ rowState[tokSid[t]] # "none"
                         /\ rowUser[tokSid[t]] = tokUser[t]
    /\ \A s \in Sid : rowState[s] # "none" =>
          /\ rowUser[s] \in User
          /\ rowHash[s] \in stored
          /\ tokSid[rowHash[s]] = s

\* What is known of the token a request has just minted.
NewInv ==
    \A r \in Req :
        LET q == req[r] IN
        /\ q.pc \in {"writeRow", "record"} =>
              /\ q.new \in Token
              /\ tokSid[q.new] = q.sid
              /\ tokUser[q.new] = q.user
              /\ parent[q.new] = q.old
        /\ q.pc = "writeRow" => q.new \notin stored
        /\ q.pc = "record" => q.new \in stored

\* Two requests never hold the same unsaved token.
NewDistinct ==
    \A r, q \in Req :
        At(r, "writeRow") /\ At(q, "writeRow") /\ r # q => req[r].new # req[q].new

\* A refresh works on a row of the account its JWT named, and once past the
\* row check it holds a token of that very session.
RefreshInv ==
    \A r \in Req : req[r].op = "refresh" =>
        LET q == req[r] IN
        /\ rowState[q.sid] # "none"
        /\ rowUser[q.sid] = q.user
        /\ q.pc \in {"getUser"} \cup Mint => q.old \in stored /\ tokSid[q.old] = q.sid

\* Every row a bulk revocation has locked belongs to its target; a blocking
\* one misses only rows inserted since, and a refresh past the user check is
\* for a usable account unless its row is revoked or such a late one.
BlockInv ==
    /\ \A r \in Req : At(r, "commit") =>
          /\ \A s \in req[r].held : rowState[s] # "none" /\ rowUser[s] = req[r].user
          /\ req[r].op \in BlockOps =>
                ActiveSessions(req[r].user) \subseteq req[r].held \cup late
    /\ \A r \in Req : req[r].op = "refresh" /\ req[r].pc \in Mint =>
          \/ rowState[req[r].sid] # "active"
          \/ Usable(req[r].user)
          \/ req[r].sid \in late

IInv == /\ TypeOK /\ ControlInv /\ SidInv /\ StoredInv /\ NewInv /\ NewDistinct
        /\ RefreshInv /\ BlockInv
-----------------------------------------------------------------------------
(* IInv is inductive: one lemma per conjunct, one step per action *)

\* Every step keeps the requests within their type.
LEMMA RequestTypeStep == IInv /\ [Next]_vars => (req' \in [Req -> Request])
<1> SUFFICES ASSUME IInv, [Next]_vars PROVE (req' \in [Req -> Request])
  OBVIOUS
<1> USE DEF Request, Op, Pc, Idle, At
<1>0. req \in [Req -> Request]
      /\ tokSid \in [Token -> Sid \cup {NoSid}] /\ tokUser \in [Token -> User \cup {NoUser}]
  BY DEF IInv, TypeOK
<1>1. ASSUME NEW r \in Req, NEW u \in User, IssueStart(r, u)
      PROVE  (req' \in [Req -> Request])
  <2>1. PICK s \in Sid \ usedSid :
          req' = [req EXCEPT ![r] = [Idle EXCEPT !.op = "login", !.pc = "setSession",
                                                 !.sid = s, !.user = u]]
    BY <1>1 DEF IssueStart
  <2> QED
    BY <1>0, <2>1
<1>2. ASSUME NEW r \in Req, NEW a \in Token, NEW t \in Token,
             RefreshStart(r, a, t)
      PROVE  (req' \in [Req -> Request])
  BY <1>0, <1>2 DEF RefreshStart, minting
<1>3. ASSUME NEW r \in Req, NEW a \in Token, LogoutStart(r, a)
      PROVE  (req' \in [Req -> Request])
  BY <1>0, <1>3 DEF LogoutStart, VerifyAndParseJWT, minting
<1>4. ASSUME NEW r \in Req, NEW u \in User, NEW b \in Bulk, BulkStart(r, u, b)
      PROVE  (req' \in [Req -> Request])
  <2>1. PICK s \in Sid \cup {NoSid} :
          req' = [req EXCEPT ![r] = [Idle EXCEPT !.op = b, !.pc = "list",
                                                 !.sid = s, !.user = u]]
    BY <1>4 DEF BulkStart
  <2>2. b \in Op
    BY ConstAssumption DEF BulkOps, BlockOps
  <2> QED
    BY <1>0, <2>1, <2>2
<1>5. ASSUME NEW r \in Req, NEW o \in Outcomes, GenerateSession(r, o)
      PROVE  (req' \in [Req -> Request])
  BY <1>0, <1>5 DEF GenerateSession, Proceed, Goto, Finish, Applied, minting
<1>6. ASSUME NEW r \in Req, NEW o \in Outcomes, StoreRefresh(r, o)
      PROVE  (req' \in [Req -> Request])
  BY <1>0, <1>6 DEF StoreRefresh, Finish, Applied, Fresh, minting
<1>7. ASSUME NEW r \in Req, NEW o \in Outcomes, CreateRefreshSession(r, o)
      PROVE  (req' \in [Req -> Request])
  BY <1>0, <1>7 DEF CreateRefreshSession, Applied, Goto, minting
<1>8. ASSUME NEW r \in Req, NEW o \in Outcomes, UndoSession(r, o)
      PROVE  (req' \in [Req -> Request])
  BY <1>0, <1>8 DEF UndoSession, DropKeys, Applied, Finish, minting
<1>9. ASSUME NEW r \in Req, NEW o \in Outcomes, RotateRefreshSession(r, o)
      PROVE  (req' \in [Req -> Request])
  BY <1>0, <1>9 DEF RotateRefreshSession, Applied, Finish, minting
<1>10. ASSUME NEW r \in Req, NEW o \in Outcomes, DeleteSession(r, o)
      PROVE  (req' \in [Req -> Request])
  BY <1>0, <1>10 DEF DeleteSession, DropKeys, Applied, Goto, minting
<1>11. ASSUME NEW r \in Req, NEW o \in Outcomes, RevokeSession(r, o)
      PROVE  (req' \in [Req -> Request])
  BY <1>0, <1>11 DEF RevokeSession, RevokeRow, Applied, Finish, minting
<1>12. ASSUME NEW r \in Req, NEW o \in Outcomes, ListActiveSessionIDs(r, o)
      PROVE  (req' \in [Req -> Request])
  <2> DEFINE S == IF o = "ok" THEN ActiveSessions(req[r].user) \ {req[r].sid} ELSE {}
  <2>1. S \in SUBSET Sid
    BY DEF ActiveSessions
  <2>2. req' = [req EXCEPT ![r].pc = "stmt", ![r].todo = S]
    BY <1>12 DEF ListActiveSessionIDs
  <2> HIDE DEF S
  <2>3. [req[r] EXCEPT !.pc = "stmt", !.todo = S] \in Request
    BY <1>0, <2>1, ZenonT(60)
  <2>4. req' = [req EXCEPT ![r] = [req[r] EXCEPT !.pc = "stmt", !.todo = S]]
    BY <1>0, <2>2
  <2> QED
    BY <1>0, <2>3, <2>4
<1>13. ASSUME NEW r \in Req, NEW o \in Outcomes, Commit(r, o)
      PROVE  (req' \in [Req -> Request])
  BY <1>0, <1>13 DEF Commit, SetAccount, Applied, Finish, minting
<1>14. ASSUME NEW r \in Req, NEW s \in Sid, NEW o \in Outcomes,
             ClearKeys(r, s, o)
      PROVE  (req' \in [Req -> Request])
  BY <1>0, <1>14 DEF ClearKeys, DropKeys, Applied, minting
<1>15. ASSUME NEW r \in Req, ReturnLogin(r)
      PROVE  (req' \in [Req -> Request])
  BY <1>0, <1>15 DEF ReturnLogin, Finish, minting
<1>16. ASSUME NEW r \in Req, GetRefreshKey(r)
      PROVE  (req' \in [Req -> Request])
  BY <1>0, <1>16 DEF GetRefreshKey, Goto, Finish, minting
<1>17. ASSUME NEW r \in Req, GetRefreshSession(r)
      PROVE  (req' \in [Req -> Request])
  BY <1>0, <1>17 DEF GetRefreshSession, Goto, Finish, minting
<1>18. ASSUME NEW r \in Req, GetUserByID(r)
      PROVE  (req' \in [Req -> Request])
  BY <1>0, <1>18 DEF GetUserByID, Goto, minting
<1>19. ASSUME NEW r \in Req, RevokeAllUserSessions(r)
      PROVE  (req' \in [Req -> Request])
  <2> DEFINE S == ActiveSessions(req[r].user) \ {req[r].sid}
  <2>1. S \in SUBSET Sid
    BY DEF ActiveSessions
  <2>2. req' = [req EXCEPT ![r].pc = "commit", ![r].held = S]
    BY <1>19 DEF RevokeAllUserSessions
  <2> HIDE DEF S
  <2>3. [req[r] EXCEPT !.pc = "commit", !.held = S] \in Request
    BY <1>0, <2>1, ZenonT(60)
  <2>4. req' = [req EXCEPT ![r] = [req[r] EXCEPT !.pc = "commit", !.held = S]]
    BY <1>0, <2>2
  <2> QED
    BY <1>0, <2>3, <2>4
<1>20. ASSUME NEW u \in User, Reinstate(u)
      PROVE  (req' \in [Req -> Request])
  BY <1>0, <1>20 DEF Reinstate, minting
<1>21. ASSUME NEW s \in Sid, CronRevoke(s)
      PROVE  (req' \in [Req -> Request])
  BY <1>0, <1>21 DEF CronRevoke, RevokeRow, minting
<1>22. ASSUME NEW s \in Sid, SessionKeyExpires(s) \/ RefreshKeyExpires(s)
      PROVE  (req' \in [Req -> Request])
  BY <1>0, <1>22 DEF SessionKeyExpires, RefreshKeyExpires, minting
<1>23. ASSUME NEW r \in Req,
             RandomTokenFails(r) \/ ReadFails(r) \/ BulkDone(r) \/ Crash(r)
      PROVE  (req' \in [Req -> Request])
  BY <1>0, <1>23 DEF RandomTokenFails, ReadFails, BulkDone, Crash, Finish,
     minting
<1>24. CASE UNCHANGED vars
  BY <1>0, <1>24 DEF vars
<1> QED
  BY <1>1, <1>2, <1>3, <1>4, <1>5, <1>6, <1>7, <1>8, <1>9, <1>10, <1>11,
     <1>12, <1>13, <1>14, <1>15, <1>16, <1>17, <1>18, <1>19, <1>20, <1>21,
     <1>22, <1>23, <1>24 DEF Next, Arrive, Step, Environment

\* TypeOK without the requests.
StoreTypeOK ==
    /\ status \in [User -> {"active", "disabled", "banned"}]
    /\ deleted \subseteq User
    /\ rowState \in [Sid -> {"none", "active", "revoked"}]
    /\ rowUser \in [Sid -> User \cup {NoUser}]
    /\ rowHash \in [Sid -> Token \cup {NoToken}]
    /\ rSession \subseteq Sid
    /\ rRefresh \in [Sid -> Token \cup {NoToken}]
    /\ usedSid \subseteq Sid
    /\ tokSid \in [Token -> Sid \cup {NoSid}]
    /\ tokUser \in [Token -> User \cup {NoUser}]
    /\ parent \in [Token -> Token \cup {NoToken}]
    /\ stored \subseteq Token
    /\ delivered \subseteq Token
    /\ late \subseteq Sid
    /\ loggedOut \subseteq Sid

\* Every step keeps the stores and the histories within their types.
LEMMA StoreTypeStep == IInv /\ [Next]_vars => StoreTypeOK'
<1> SUFFICES ASSUME IInv, [Next]_vars PROVE StoreTypeOK'
  OBVIOUS
<1> USE DEF StoreTypeOK, Request, At
<1>0. req \in [Req -> Request] /\ StoreTypeOK /\ ControlInv /\ NewInv
  BY DEF IInv, TypeOK, StoreTypeOK
<1>1. ASSUME NEW r \in Req, NEW u \in User, IssueStart(r, u)
      PROVE  StoreTypeOK'
  BY <1>0, <1>1 DEF IssueStart, acct, rows, redis, minting, hist
<1>2. ASSUME NEW r \in Req, NEW a \in Token, NEW t \in Token,
             RefreshStart(r, a, t)
      PROVE  StoreTypeOK'
  BY <1>0, <1>2 DEF RefreshStart, acct, rows, redis, minting, hist
<1>3. ASSUME NEW r \in Req, NEW a \in Token, LogoutStart(r, a)
      PROVE  StoreTypeOK'
  BY <1>0, <1>3 DEF LogoutStart, VerifyAndParseJWT, acct, rows, redis,
     minting, hist
<1>4. ASSUME NEW r \in Req, NEW u \in User, NEW b \in Bulk, BulkStart(r, u, b)
      PROVE  StoreTypeOK'
  BY <1>0, <1>4 DEF BulkStart, acct, rows, redis, minting, hist
<1>5. ASSUME NEW r \in Req, NEW o \in Outcomes, GenerateSession(r, o)
      PROVE  StoreTypeOK'
  BY <1>0, <1>5 DEF GenerateSession, Proceed, Goto, Finish, Applied, acct,
     rows, redis, minting, hist, ControlInv, NewInv, Mint
<1>6. ASSUME NEW r \in Req, NEW o \in Outcomes, StoreRefresh(r, o)
      PROVE  StoreTypeOK'
  BY <1>0, <1>6 DEF StoreRefresh, Finish, Applied, Fresh, acct, rows, redis,
     minting, hist, ControlInv, NewInv, Mint
<1>7. ASSUME NEW r \in Req, NEW o \in Outcomes, CreateRefreshSession(r, o)
      PROVE  StoreTypeOK'
  <2>1. /\ UNCHANGED <<status, deleted, rSession, rRefresh, usedSid, tokSid, tokUser,
                      parent, delivered, loggedOut>>
        /\ late' \subseteq Sid
    BY <1>0, <1>7 DEF CreateRefreshSession, acct, redis, minting, ControlInv
  <2>2. CASE Applied(o)
    BY <1>0, <1>7, <2>1, <2>2 DEF CreateRefreshSession, ControlInv, NewInv
  <2>3. CASE ~Applied(o)
    BY <1>0, <1>7, <2>1, <2>3 DEF CreateRefreshSession, rows
  <2> QED
    BY <2>2, <2>3
<1>8. ASSUME NEW r \in Req, NEW o \in Outcomes, UndoSession(r, o)
      PROVE  StoreTypeOK'
  BY <1>0, <1>8 DEF UndoSession, DropKeys, Applied, Finish, acct, rows, redis,
     minting, hist, ControlInv
<1>9. ASSUME NEW r \in Req, NEW o \in Outcomes, RotateRefreshSession(r, o)
      PROVE  StoreTypeOK'
  BY <1>0, <1>9 DEF RotateRefreshSession, Applied, Finish, acct, rows, redis,
     minting, hist, ControlInv, NewInv, Mint
<1>10. ASSUME NEW r \in Req, NEW o \in Outcomes, DeleteSession(r, o)
      PROVE  StoreTypeOK'
  BY <1>0, <1>10 DEF DeleteSession, DropKeys, Applied, Goto, acct, rows,
     redis, minting, hist, ControlInv
<1>11. ASSUME NEW r \in Req, NEW o \in Outcomes, RevokeSession(r, o)
      PROVE  StoreTypeOK'
  BY <1>0, <1>11 DEF RevokeSession, RevokeRow, Applied, Finish, acct, rows,
     redis, minting, hist, ControlInv, NewInv, Mint
<1>12. ASSUME NEW r \in Req, NEW o \in Outcomes, ListActiveSessionIDs(r, o)
      PROVE  StoreTypeOK'
  BY <1>0, <1>12 DEF ListActiveSessionIDs, ActiveSessions, acct, rows, redis,
     minting, hist
<1>13. ASSUME NEW r \in Req, NEW o \in Outcomes, Commit(r, o)
      PROVE  StoreTypeOK'
  BY <1>0, <1>13 DEF Commit, SetAccount, Applied, Finish, acct, rows, redis,
     minting, hist, ControlInv, NewInv, Mint
<1>14. ASSUME NEW r \in Req, NEW s \in Sid, NEW o \in Outcomes,
             ClearKeys(r, s, o)
      PROVE  StoreTypeOK'
  BY <1>0, <1>14 DEF ClearKeys, DropKeys, Applied, acct, rows, redis, minting,
     hist
<1>15. ASSUME NEW r \in Req, ReturnLogin(r)
      PROVE  StoreTypeOK'
  BY <1>0, <1>15 DEF ReturnLogin, Finish, acct, rows, redis, minting, hist,
     ControlInv, NewInv, Mint
<1>16. ASSUME NEW r \in Req, GetRefreshKey(r)
      PROVE  StoreTypeOK'
  BY <1>0, <1>16 DEF GetRefreshKey, Goto, Finish, acct, rows, redis, minting,
     hist
<1>17. ASSUME NEW r \in Req, GetRefreshSession(r)
      PROVE  StoreTypeOK'
  BY <1>0, <1>17 DEF GetRefreshSession, Goto, Finish, acct, rows, redis,
     minting, hist
<1>18. ASSUME NEW r \in Req, GetUserByID(r)
      PROVE  StoreTypeOK'
  BY <1>0, <1>18 DEF GetUserByID, Goto, acct, rows, redis, minting, hist
<1>19. ASSUME NEW r \in Req, RevokeAllUserSessions(r)
      PROVE  StoreTypeOK'
  BY <1>0, <1>19 DEF RevokeAllUserSessions, ActiveSessions, acct, rows, redis,
     minting, hist
<1>20. ASSUME NEW u \in User, Reinstate(u)
      PROVE  StoreTypeOK'
  BY <1>0, <1>20 DEF Reinstate, acct, rows, redis, minting, hist
<1>21. ASSUME NEW s \in Sid, CronRevoke(s)
      PROVE  StoreTypeOK'
  BY <1>0, <1>21 DEF CronRevoke, RevokeRow, acct, rows, redis, minting, hist
<1>22. ASSUME NEW s \in Sid, SessionKeyExpires(s) \/ RefreshKeyExpires(s)
      PROVE  StoreTypeOK'
  BY <1>0, <1>22 DEF SessionKeyExpires, RefreshKeyExpires, acct, rows, redis,
     minting, hist
<1>23. ASSUME NEW r \in Req,
             RandomTokenFails(r) \/ ReadFails(r) \/ BulkDone(r) \/ Crash(r)
      PROVE  StoreTypeOK'
  BY <1>0, <1>23 DEF RandomTokenFails, ReadFails, BulkDone, Crash, Finish,
     acct, rows, redis, minting, hist
<1>24. CASE UNCHANGED vars
  BY <1>0, <1>24 DEF vars
<1> QED
  BY <1>1, <1>2, <1>3, <1>4, <1>5, <1>6, <1>7, <1>8, <1>9, <1>10, <1>11,
     <1>12, <1>13, <1>14, <1>15, <1>16, <1>17, <1>18, <1>19, <1>20, <1>21,
     <1>22, <1>23, <1>24 DEF Next, Arrive, Step, Environment

\* Every step keeps operation, program counter and locals consistent.
LEMMA ControlStep == IInv /\ [Next]_vars => ControlInv'
<1> SUFFICES ASSUME IInv, [Next]_vars PROVE ControlInv'
  OBVIOUS
<1> USE DEF ControlInv, Request, Op, Pc, Mint, BulkOps, BlockOps, Idle, At
<1>0. req \in [Req -> Request] /\ ControlInv
  BY DEF IInv, TypeOK
<1>0a. \A a \in delivered : tokSid[a] \in usedSid /\ tokUser[a] \in User
  BY ConstAssumption DEF IInv, TypeOK, SidInv, StoredInv
<1>1. ASSUME NEW r \in Req, NEW u \in User, IssueStart(r, u)
      PROVE  ControlInv'
  BY <1>0, <1>1, ConstAssumption DEF IssueStart, minting
<1>2. ASSUME NEW r \in Req, NEW a \in Token, NEW t \in Token,
             RefreshStart(r, a, t)
      PROVE  ControlInv'
  BY <1>0, <1>2, <1>0a DEF RefreshStart, minting
<1>3. ASSUME NEW r \in Req, NEW a \in Token, LogoutStart(r, a)
      PROVE  ControlInv'
  BY <1>0, <1>3, <1>0a DEF LogoutStart, VerifyAndParseJWT, minting
<1>4. ASSUME NEW r \in Req, NEW u \in User, NEW b \in Bulk, BulkStart(r, u, b)
      PROVE  ControlInv'
  BY <1>0, <1>4, ConstAssumption DEF BulkStart, minting
<1>5. ASSUME NEW r \in Req, NEW o \in Outcomes, GenerateSession(r, o)
      PROVE  ControlInv'
  BY <1>0, <1>5 DEF GenerateSession, Proceed, Goto, Finish, Applied, minting
<1>6. ASSUME NEW r \in Req, NEW o \in Outcomes, StoreRefresh(r, o)
      PROVE  ControlInv'
  BY <1>0, <1>6 DEF StoreRefresh, Finish, Applied, Fresh, minting
<1>7. ASSUME NEW r \in Req, NEW o \in Outcomes, CreateRefreshSession(r, o)
      PROVE  ControlInv'
  BY <1>0, <1>7 DEF CreateRefreshSession, Applied, Goto, minting
<1>8. ASSUME NEW r \in Req, NEW o \in Outcomes, UndoSession(r, o)
      PROVE  ControlInv'
  BY <1>0, <1>8 DEF UndoSession, DropKeys, Applied, Finish, minting
<1>9. ASSUME NEW r \in Req, NEW o \in Outcomes, RotateRefreshSession(r, o)
      PROVE  ControlInv'
  BY <1>0, <1>9 DEF RotateRefreshSession, Applied, Finish, minting
<1>10. ASSUME NEW r \in Req, NEW o \in Outcomes, DeleteSession(r, o)
      PROVE  ControlInv'
  BY <1>0, <1>10 DEF DeleteSession, DropKeys, Applied, Goto, minting
<1>11. ASSUME NEW r \in Req, NEW o \in Outcomes, RevokeSession(r, o)
      PROVE  ControlInv'
  BY <1>0, <1>11 DEF RevokeSession, RevokeRow, Applied, Finish, minting
<1>12. ASSUME NEW r \in Req, NEW o \in Outcomes, ListActiveSessionIDs(r, o)
      PROVE  ControlInv'
  BY <1>0, <1>12 DEF ListActiveSessionIDs, ActiveSessions, minting
<1>13. ASSUME NEW r \in Req, NEW o \in Outcomes, Commit(r, o)
      PROVE  ControlInv'
  BY <1>0, <1>13 DEF Commit, SetAccount, Applied, Finish, minting
<1>14. ASSUME NEW r \in Req, NEW s \in Sid, NEW o \in Outcomes,
             ClearKeys(r, s, o)
      PROVE  ControlInv'
  BY <1>0, <1>14 DEF ClearKeys, DropKeys, Applied, minting
<1>15. ASSUME NEW r \in Req, ReturnLogin(r)
      PROVE  ControlInv'
  BY <1>0, <1>15 DEF ReturnLogin, Finish, minting
<1>16. ASSUME NEW r \in Req, GetRefreshKey(r)
      PROVE  ControlInv'
  BY <1>0, <1>16 DEF GetRefreshKey, Goto, Finish, minting
<1>17. ASSUME NEW r \in Req, GetRefreshSession(r)
      PROVE  ControlInv'
  BY <1>0, <1>17, SMTT(30) DEF GetRefreshSession, Goto, Finish, minting
<1>18. ASSUME NEW r \in Req, GetUserByID(r)
      PROVE  ControlInv'
  BY <1>0, <1>18 DEF GetUserByID, Goto, minting
<1>19. ASSUME NEW r \in Req, RevokeAllUserSessions(r)
      PROVE  ControlInv'
  BY <1>0, <1>19 DEF RevokeAllUserSessions, ActiveSessions, minting
<1>20. ASSUME NEW u \in User, Reinstate(u)
      PROVE  ControlInv'
  BY <1>0, <1>20 DEF Reinstate, minting
<1>21. ASSUME NEW s \in Sid, CronRevoke(s)
      PROVE  ControlInv'
  BY <1>0, <1>21 DEF CronRevoke, RevokeRow, minting
<1>22. ASSUME NEW s \in Sid, SessionKeyExpires(s) \/ RefreshKeyExpires(s)
      PROVE  ControlInv'
  BY <1>0, <1>22 DEF SessionKeyExpires, RefreshKeyExpires, minting
<1>23. ASSUME NEW r \in Req,
             RandomTokenFails(r) \/ ReadFails(r) \/ BulkDone(r) \/ Crash(r)
      PROVE  ControlInv'
  BY <1>0, <1>23 DEF RandomTokenFails, ReadFails, BulkDone, Crash, Finish,
     minting
<1>24. CASE UNCHANGED vars
  BY <1>0, <1>24 DEF vars
<1> QED
  BY <1>1, <1>2, <1>3, <1>4, <1>5, <1>6, <1>7, <1>8, <1>9, <1>10, <1>11,
     <1>12, <1>13, <1>14, <1>15, <1>16, <1>17, <1>18, <1>19, <1>20, <1>21,
     <1>22, <1>23, <1>24 DEF Next, Arrive, Step, Environment

\* Session ids stay unique: a login that has no row yet is alone with its id.
LEMMA SidStep == IInv /\ [Next]_vars => SidInv'
<1> SUFFICES ASSUME IInv, [Next]_vars PROVE SidInv'
  OBVIOUS
<1> USE DEF ControlInv, SidInv, Request, Op, Pc, Mint, Idle, At, BulkOps, BlockOps
<1>0. req \in [Req -> Request] /\ ControlInv /\ SidInv
      /\ rowState \in [Sid -> {"none", "active", "revoked"}] /\ usedSid \subseteq Sid
  BY DEF IInv, TypeOK
<1>1. ASSUME NEW r \in Req, NEW u \in User, IssueStart(r, u)
      PROVE  SidInv'
  BY <1>0, <1>1 DEF IssueStart, rows, minting
<1>2. ASSUME NEW r \in Req, NEW a \in Token, NEW t \in Token,
             RefreshStart(r, a, t)
      PROVE  SidInv'
  BY <1>0, <1>2 DEF RefreshStart, rows, minting
<1>3. ASSUME NEW r \in Req, NEW a \in Token, LogoutStart(r, a)
      PROVE  SidInv'
  BY <1>0, <1>3 DEF LogoutStart, VerifyAndParseJWT, rows, minting
<1>4. ASSUME NEW r \in Req, NEW u \in User, NEW b \in Bulk, BulkStart(r, u, b)
      PROVE  SidInv'
  BY <1>0, <1>4 DEF BulkStart, rows, minting
<1>5. ASSUME NEW r \in Req, NEW o \in Outcomes, GenerateSession(r, o)
      PROVE  SidInv'
  BY <1>0, <1>5 DEF GenerateSession, Proceed, Goto, Finish, Applied, rows,
     minting
<1>6. ASSUME NEW r \in Req, NEW o \in Outcomes, StoreRefresh(r, o)
      PROVE  SidInv'
  BY <1>0, <1>6, SMTT(30) DEF StoreRefresh, Finish, Applied, Fresh, rows, minting
<1>7. ASSUME NEW r \in Req, NEW o \in Outcomes, CreateRefreshSession(r, o)
      PROVE  SidInv'
  BY <1>0, <1>7 DEF CreateRefreshSession, Applied, Goto, rows, minting
<1>8. ASSUME NEW r \in Req, NEW o \in Outcomes, UndoSession(r, o)
      PROVE  SidInv'
  BY <1>0, <1>8 DEF UndoSession, DropKeys, Applied, Finish, rows, minting
<1>9. ASSUME NEW r \in Req, NEW o \in Outcomes, RotateRefreshSession(r, o)
      PROVE  SidInv'
  BY <1>0, <1>9 DEF RotateRefreshSession, Applied, Finish, rows, minting
<1>10. ASSUME NEW r \in Req, NEW o \in Outcomes, DeleteSession(r, o)
      PROVE  SidInv'
  BY <1>0, <1>10 DEF DeleteSession, DropKeys, Applied, Goto, rows, minting
<1>11. ASSUME NEW r \in Req, NEW o \in Outcomes, RevokeSession(r, o)
      PROVE  SidInv'
  BY <1>0, <1>11 DEF RevokeSession, RevokeRow, Applied, Finish, rows, minting
<1>12. ASSUME NEW r \in Req, NEW o \in Outcomes, ListActiveSessionIDs(r, o)
      PROVE  SidInv'
  BY <1>0, <1>12 DEF ListActiveSessionIDs, ActiveSessions, rows, minting
<1>13. ASSUME NEW r \in Req, NEW o \in Outcomes, Commit(r, o)
      PROVE  SidInv'
  BY <1>0, <1>13 DEF Commit, SetAccount, Applied, Finish, rows, minting
<1>14. ASSUME NEW r \in Req, NEW s \in Sid, NEW o \in Outcomes,
             ClearKeys(r, s, o)
      PROVE  SidInv'
  BY <1>0, <1>14 DEF ClearKeys, DropKeys, Applied, rows, minting
<1>15. ASSUME NEW r \in Req, ReturnLogin(r)
      PROVE  SidInv'
  BY <1>0, <1>15 DEF ReturnLogin, Finish, rows, minting
<1>16. ASSUME NEW r \in Req, GetRefreshKey(r)
      PROVE  SidInv'
  BY <1>0, <1>16 DEF GetRefreshKey, Goto, Finish, rows, minting
<1>17. ASSUME NEW r \in Req, GetRefreshSession(r)
      PROVE  SidInv'
  BY <1>0, <1>17 DEF GetRefreshSession, Goto, Finish, rows, minting
<1>18. ASSUME NEW r \in Req, GetUserByID(r)
      PROVE  SidInv'
  BY <1>0, <1>18 DEF GetUserByID, Goto, rows, minting
<1>19. ASSUME NEW r \in Req, RevokeAllUserSessions(r)
      PROVE  SidInv'
  BY <1>0, <1>19 DEF RevokeAllUserSessions, ActiveSessions, rows, minting
<1>20. ASSUME NEW u \in User, Reinstate(u)
      PROVE  SidInv'
  BY <1>0, <1>20 DEF Reinstate, rows, minting
<1>21. ASSUME NEW s \in Sid, CronRevoke(s)
      PROVE  SidInv'
  BY <1>0, <1>21 DEF CronRevoke, RevokeRow, rows, minting
<1>22. ASSUME NEW s \in Sid, SessionKeyExpires(s) \/ RefreshKeyExpires(s)
      PROVE  SidInv'
  BY <1>0, <1>22 DEF SessionKeyExpires, RefreshKeyExpires, rows, minting
<1>23. ASSUME NEW r \in Req,
             RandomTokenFails(r) \/ ReadFails(r) \/ BulkDone(r) \/ Crash(r)
      PROVE  SidInv'
  BY <1>0, <1>23 DEF RandomTokenFails, ReadFails, BulkDone, Crash, Finish,
     rows, minting
<1>24. CASE UNCHANGED vars
  BY <1>0, <1>24 DEF vars
<1> QED
  BY <1>1, <1>2, <1>3, <1>4, <1>5, <1>6, <1>7, <1>8, <1>9, <1>10, <1>11,
     <1>12, <1>13, <1>14, <1>15, <1>16, <1>17, <1>18, <1>19, <1>20, <1>21,
     <1>22, <1>23, <1>24 DEF Next, Arrive, Step, Environment

\* Stored tokens stay backed by a row of their account.
LEMMA StoredStep == IInv /\ [Next]_vars => StoredInv'
<1> SUFFICES ASSUME IInv, [Next]_vars PROVE StoredInv'
  OBVIOUS
<1> USE DEF TypeOK, ControlInv, StoredInv, Request, Op, Pc, Mint, Idle, At
<1>0. TypeOK /\ ControlInv /\ SidInv /\ StoredInv /\ NewInv /\ RefreshInv
  BY DEF IInv, TypeOK
<1>1. ASSUME NEW r \in Req, NEW u \in User, IssueStart(r, u)
      PROVE  StoredInv'
  BY <1>0, <1>1 DEF IssueStart, rows, minting, hist
<1>2. ASSUME NEW r \in Req, NEW a \in Token, NEW t \in Token,
             RefreshStart(r, a, t)
      PROVE  StoredInv'
  BY <1>0, <1>2 DEF RefreshStart, rows, minting, hist
<1>3. ASSUME NEW r \in Req, NEW a \in Token, LogoutStart(r, a)
      PROVE  StoredInv'
  BY <1>0, <1>3 DEF LogoutStart, VerifyAndParseJWT, rows, minting, hist
<1>4. ASSUME NEW r \in Req, NEW u \in User, NEW b \in Bulk, BulkStart(r, u, b)
      PROVE  StoredInv'
  BY <1>0, <1>4 DEF BulkStart, rows, minting, hist
<1>5. ASSUME NEW r \in Req, NEW o \in Outcomes, GenerateSession(r, o)
      PROVE  StoredInv'
  BY <1>0, <1>5 DEF GenerateSession, Proceed, Goto, Finish, Applied, rows,
     minting, hist
<1>6. ASSUME NEW r \in Req, NEW o \in Outcomes, StoreRefresh(r, o)
      PROVE  StoredInv'
  BY <1>0, <1>6, ConstAssumption DEF StoreRefresh, Finish, Applied, Fresh,
     rows, minting, hist
<1>7. ASSUME NEW r \in Req, NEW o \in Outcomes, CreateRefreshSession(r, o)
      PROVE  StoredInv'
  BY <1>0, <1>7 DEF CreateRefreshSession, Applied, Goto, rows, minting, hist,
     SidInv, NewInv, RefreshInv
<1>8. ASSUME NEW r \in Req, NEW o \in Outcomes, UndoSession(r, o)
      PROVE  StoredInv'
  BY <1>0, <1>8 DEF UndoSession, DropKeys, Applied, Finish, rows, minting,
     hist
<1>9. ASSUME NEW r \in Req, NEW o \in Outcomes, RotateRefreshSession(r, o)
      PROVE  StoredInv'
  BY <1>0, <1>9 DEF RotateRefreshSession, Applied, Finish, rows, minting,
     hist, SidInv, NewInv, RefreshInv
<1>10. ASSUME NEW r \in Req, NEW o \in Outcomes, DeleteSession(r, o)
      PROVE  StoredInv'
  BY <1>0, <1>10 DEF DeleteSession, DropKeys, Applied, Goto, rows, minting,
     hist
<1>11. ASSUME NEW r \in Req, NEW o \in Outcomes, RevokeSession(r, o)
      PROVE  StoredInv'
  BY <1>0, <1>11 DEF RevokeSession, RevokeRow, Applied, Finish, rows, minting,
     hist
<1>12. ASSUME NEW r \in Req, NEW o \in Outcomes, ListActiveSessionIDs(r, o)
      PROVE  StoredInv'
  BY <1>0, <1>12 DEF ListActiveSessionIDs, ActiveSessions, rows, minting, hist
<1>13. ASSUME NEW r \in Req, NEW o \in Outcomes, Commit(r, o)
      PROVE  StoredInv'
  BY <1>0, <1>13 DEF Commit, SetAccount, Applied, Finish, rows, minting, hist
<1>14. ASSUME NEW r \in Req, NEW s \in Sid, NEW o \in Outcomes,
             ClearKeys(r, s, o)
      PROVE  StoredInv'
  BY <1>0, <1>14 DEF ClearKeys, DropKeys, Applied, rows, minting, hist
<1>15. ASSUME NEW r \in Req, ReturnLogin(r)
      PROVE  StoredInv'
  BY <1>0, <1>15, ConstAssumption DEF ReturnLogin, Finish, rows, minting,
     hist, SidInv, NewInv, RefreshInv
<1>16. ASSUME NEW r \in Req, GetRefreshKey(r)
      PROVE  StoredInv'
  BY <1>0, <1>16 DEF GetRefreshKey, Goto, Finish, rows, minting, hist
<1>17. ASSUME NEW r \in Req, GetRefreshSession(r)
      PROVE  StoredInv'
  BY <1>0, <1>17 DEF GetRefreshSession, Goto, Finish, rows, minting, hist
<1>18. ASSUME NEW r \in Req, GetUserByID(r)
      PROVE  StoredInv'
  BY <1>0, <1>18 DEF GetUserByID, Goto, rows, minting, hist
<1>19. ASSUME NEW r \in Req, RevokeAllUserSessions(r)
      PROVE  StoredInv'
  BY <1>0, <1>19 DEF RevokeAllUserSessions, ActiveSessions, rows, minting,
     hist
<1>20. ASSUME NEW u \in User, Reinstate(u)
      PROVE  StoredInv'
  BY <1>0, <1>20 DEF Reinstate, rows, minting, hist
<1>21. ASSUME NEW s \in Sid, CronRevoke(s)
      PROVE  StoredInv'
  BY <1>0, <1>21 DEF CronRevoke, RevokeRow, rows, minting, hist
<1>22. ASSUME NEW s \in Sid, SessionKeyExpires(s) \/ RefreshKeyExpires(s)
      PROVE  StoredInv'
  BY <1>0, <1>22 DEF SessionKeyExpires, RefreshKeyExpires, rows, minting, hist
<1>23. ASSUME NEW r \in Req,
             RandomTokenFails(r) \/ ReadFails(r) \/ BulkDone(r) \/ Crash(r)
      PROVE  StoredInv'
  BY <1>0, <1>23 DEF RandomTokenFails, ReadFails, BulkDone, Crash, Finish,
     rows, minting, hist
<1>24. CASE UNCHANGED vars
  BY <1>0, <1>24 DEF vars
<1> QED
  BY <1>1, <1>2, <1>3, <1>4, <1>5, <1>6, <1>7, <1>8, <1>9, <1>10, <1>11,
     <1>12, <1>13, <1>14, <1>15, <1>16, <1>17, <1>18, <1>19, <1>20, <1>21,
     <1>22, <1>23, <1>24 DEF Next, Arrive, Step, Environment

\* A minted token stays bound to its request until it is saved.
LEMMA NewStep == IInv /\ [Next]_vars => NewInv'
<1> SUFFICES ASSUME IInv, [Next]_vars PROVE NewInv'
  OBVIOUS
<1> USE DEF TypeOK, ControlInv, NewInv, Request, Op, Pc, Mint, Idle, At
<1>0. TypeOK /\ ControlInv /\ StoredInv /\ NewInv /\ NewDistinct
  BY DEF IInv, TypeOK
<1>1. ASSUME NEW r \in Req, NEW u \in User, IssueStart(r, u)
      PROVE  NewInv'
  BY <1>0, <1>1 DEF IssueStart, minting, hist
<1>2. ASSUME NEW r \in Req, NEW a \in Token, NEW t \in Token,
             RefreshStart(r, a, t)
      PROVE  NewInv'
  BY <1>0, <1>2 DEF RefreshStart, minting, hist
<1>3. ASSUME NEW r \in Req, NEW a \in Token, LogoutStart(r, a)
      PROVE  NewInv'
  BY <1>0, <1>3 DEF LogoutStart, VerifyAndParseJWT, minting, hist
<1>4. ASSUME NEW r \in Req, NEW u \in User, NEW b \in Bulk, BulkStart(r, u, b)
      PROVE  NewInv'
  BY <1>0, <1>4 DEF BulkStart, minting, hist
<1>5. ASSUME NEW r \in Req, NEW o \in Outcomes, GenerateSession(r, o)
      PROVE  NewInv'
  BY <1>0, <1>5 DEF GenerateSession, Proceed, Goto, Finish, Applied, minting,
     hist
<1>6. ASSUME NEW r \in Req, NEW o \in Outcomes, StoreRefresh(r, o)
      PROVE  NewInv'
  BY <1>0, <1>6, ConstAssumption DEF StoreRefresh, Finish, Applied, Fresh,
     minting, hist, StoredInv, NewDistinct
<1>7. ASSUME NEW r \in Req, NEW o \in Outcomes, CreateRefreshSession(r, o)
      PROVE  NewInv'
  BY <1>0, <1>7 DEF CreateRefreshSession, Applied, Goto, minting, hist,
     StoredInv, NewDistinct
<1>8. ASSUME NEW r \in Req, NEW o \in Outcomes, UndoSession(r, o)
      PROVE  NewInv'
  BY <1>0, <1>8 DEF UndoSession, DropKeys, Applied, Finish, minting, hist
<1>9. ASSUME NEW r \in Req, NEW o \in Outcomes, RotateRefreshSession(r, o)
      PROVE  NewInv'
  BY <1>0, <1>9 DEF RotateRefreshSession, Applied, Finish, minting, hist,
     StoredInv, NewDistinct
<1>10. ASSUME NEW r \in Req, NEW o \in Outcomes, DeleteSession(r, o)
      PROVE  NewInv'
  BY <1>0, <1>10 DEF DeleteSession, DropKeys, Applied, Goto, minting, hist
<1>11. ASSUME NEW r \in Req, NEW o \in Outcomes, RevokeSession(r, o)
      PROVE  NewInv'
  BY <1>0, <1>11 DEF RevokeSession, RevokeRow, Applied, Finish, minting, hist
<1>12. ASSUME NEW r \in Req, NEW o \in Outcomes, ListActiveSessionIDs(r, o)
      PROVE  NewInv'
  BY <1>0, <1>12 DEF ListActiveSessionIDs, ActiveSessions, minting, hist
<1>13. ASSUME NEW r \in Req, NEW o \in Outcomes, Commit(r, o)
      PROVE  NewInv'
  BY <1>0, <1>13 DEF Commit, SetAccount, Applied, Finish, minting, hist
<1>14. ASSUME NEW r \in Req, NEW s \in Sid, NEW o \in Outcomes,
             ClearKeys(r, s, o)
      PROVE  NewInv'
  BY <1>0, <1>14 DEF ClearKeys, DropKeys, Applied, minting, hist
<1>15. ASSUME NEW r \in Req, ReturnLogin(r)
      PROVE  NewInv'
  BY <1>0, <1>15 DEF ReturnLogin, Finish, minting, hist
<1>16. ASSUME NEW r \in Req, GetRefreshKey(r)
      PROVE  NewInv'
  BY <1>0, <1>16 DEF GetRefreshKey, Goto, Finish, minting, hist
<1>17. ASSUME NEW r \in Req, GetRefreshSession(r)
      PROVE  NewInv'
  BY <1>0, <1>17 DEF GetRefreshSession, Goto, Finish, minting, hist
<1>18. ASSUME NEW r \in Req, GetUserByID(r)
      PROVE  NewInv'
  BY <1>0, <1>18 DEF GetUserByID, Goto, minting, hist
<1>19. ASSUME NEW r \in Req, RevokeAllUserSessions(r)
      PROVE  NewInv'
  BY <1>0, <1>19 DEF RevokeAllUserSessions, ActiveSessions, minting, hist
<1>20. ASSUME NEW u \in User, Reinstate(u)
      PROVE  NewInv'
  BY <1>0, <1>20 DEF Reinstate, minting, hist
<1>21. ASSUME NEW s \in Sid, CronRevoke(s)
      PROVE  NewInv'
  BY <1>0, <1>21 DEF CronRevoke, RevokeRow, minting, hist
<1>22. ASSUME NEW s \in Sid, SessionKeyExpires(s) \/ RefreshKeyExpires(s)
      PROVE  NewInv'
  BY <1>0, <1>22 DEF SessionKeyExpires, RefreshKeyExpires, minting, hist
<1>23. ASSUME NEW r \in Req,
             RandomTokenFails(r) \/ ReadFails(r) \/ BulkDone(r) \/ Crash(r)
      PROVE  NewInv'
  BY <1>0, <1>23 DEF RandomTokenFails, ReadFails, BulkDone, Crash, Finish,
     minting, hist
<1>24. CASE UNCHANGED vars
  BY <1>0, <1>24 DEF vars
<1> QED
  BY <1>1, <1>2, <1>3, <1>4, <1>5, <1>6, <1>7, <1>8, <1>9, <1>10, <1>11,
     <1>12, <1>13, <1>14, <1>15, <1>16, <1>17, <1>18, <1>19, <1>20, <1>21,
     <1>22, <1>23, <1>24 DEF Next, Arrive, Step, Environment

\* Two requests never come to hold the same unsaved token.
LEMMA NewDistinctStep == IInv /\ [Next]_vars => NewDistinct'
<1> SUFFICES ASSUME IInv, [Next]_vars PROVE NewDistinct'
  OBVIOUS
<1> USE DEF NewDistinct, Request, Op, Pc, Idle, At
<1>0. req \in [Req -> Request] /\ tokSid \in [Token -> Sid \cup {NoSid}] /\ usedSid \subseteq Sid
      /\ ControlInv /\ NewInv /\ NewDistinct
  BY DEF IInv, TypeOK
<1>1. ASSUME NEW r \in Req, NEW u \in User, IssueStart(r, u)
      PROVE  NewDistinct'
  BY <1>0, <1>1 DEF IssueStart, minting
<1>2. ASSUME NEW r \in Req, NEW a \in Token, NEW t \in Token,
             RefreshStart(r, a, t)
      PROVE  NewDistinct'
  BY <1>0, <1>2 DEF RefreshStart, minting
<1>3. ASSUME NEW r \in Req, NEW a \in Token, LogoutStart(r, a)
      PROVE  NewDistinct'
  BY <1>0, <1>3 DEF LogoutStart, VerifyAndParseJWT, minting
<1>4. ASSUME NEW r \in Req, NEW u \in User, NEW b \in Bulk, BulkStart(r, u, b)
      PROVE  NewDistinct'
  BY <1>0, <1>4 DEF BulkStart, minting
<1>5. ASSUME NEW r \in Req, NEW o \in Outcomes, GenerateSession(r, o)
      PROVE  NewDistinct'
  BY <1>0, <1>5 DEF GenerateSession, Proceed, Goto, Finish, Applied, minting
<1>6. ASSUME NEW r \in Req, NEW o \in Outcomes, StoreRefresh(r, o)
      PROVE  NewDistinct'
  BY <1>0, <1>6, ConstAssumption DEF StoreRefresh, Finish, Applied, Fresh,
     minting, ControlInv, NewInv, Mint
<1>7. ASSUME NEW r \in Req, NEW o \in Outcomes, CreateRefreshSession(r, o)
      PROVE  NewDistinct'
  BY <1>0, <1>7 DEF CreateRefreshSession, Applied, Goto, minting
<1>8. ASSUME NEW r \in Req, NEW o \in Outcomes, UndoSession(r, o)
      PROVE  NewDistinct'
  BY <1>0, <1>8 DEF UndoSession, DropKeys, Applied, Finish, minting
<1>9. ASSUME NEW r \in Req, NEW o \in Outcomes, RotateRefreshSession(r, o)
      PROVE  NewDistinct'
  BY <1>0, <1>9 DEF RotateRefreshSession, Applied, Finish, minting
<1>10. ASSUME NEW r \in Req, NEW o \in Outcomes, DeleteSession(r, o)
      PROVE  NewDistinct'
  BY <1>0, <1>10 DEF DeleteSession, DropKeys, Applied, Goto, minting
<1>11. ASSUME NEW r \in Req, NEW o \in Outcomes, RevokeSession(r, o)
      PROVE  NewDistinct'
  BY <1>0, <1>11 DEF RevokeSession, RevokeRow, Applied, Finish, minting
<1>12. ASSUME NEW r \in Req, NEW o \in Outcomes, ListActiveSessionIDs(r, o)
      PROVE  NewDistinct'
  BY <1>0, <1>12 DEF ListActiveSessionIDs, ActiveSessions, minting
<1>13. ASSUME NEW r \in Req, NEW o \in Outcomes, Commit(r, o)
      PROVE  NewDistinct'
  BY <1>0, <1>13 DEF Commit, SetAccount, Applied, Finish, minting
<1>14. ASSUME NEW r \in Req, NEW s \in Sid, NEW o \in Outcomes,
             ClearKeys(r, s, o)
      PROVE  NewDistinct'
  BY <1>0, <1>14 DEF ClearKeys, DropKeys, Applied, minting
<1>15. ASSUME NEW r \in Req, ReturnLogin(r)
      PROVE  NewDistinct'
  BY <1>0, <1>15 DEF ReturnLogin, Finish, minting
<1>16. ASSUME NEW r \in Req, GetRefreshKey(r)
      PROVE  NewDistinct'
  BY <1>0, <1>16 DEF GetRefreshKey, Goto, Finish, minting
<1>17. ASSUME NEW r \in Req, GetRefreshSession(r)
      PROVE  NewDistinct'
  BY <1>0, <1>17 DEF GetRefreshSession, Goto, Finish, minting
<1>18. ASSUME NEW r \in Req, GetUserByID(r)
      PROVE  NewDistinct'
  BY <1>0, <1>18 DEF GetUserByID, Goto, minting
<1>19. ASSUME NEW r \in Req, RevokeAllUserSessions(r)
      PROVE  NewDistinct'
  BY <1>0, <1>19 DEF RevokeAllUserSessions, ActiveSessions, minting
<1>20. ASSUME NEW u \in User, Reinstate(u)
      PROVE  NewDistinct'
  BY <1>0, <1>20 DEF Reinstate, minting
<1>21. ASSUME NEW s \in Sid, CronRevoke(s)
      PROVE  NewDistinct'
  BY <1>0, <1>21 DEF CronRevoke, RevokeRow, minting
<1>22. ASSUME NEW s \in Sid, SessionKeyExpires(s) \/ RefreshKeyExpires(s)
      PROVE  NewDistinct'
  BY <1>0, <1>22 DEF SessionKeyExpires, RefreshKeyExpires, minting
<1>23. ASSUME NEW r \in Req,
             RandomTokenFails(r) \/ ReadFails(r) \/ BulkDone(r) \/ Crash(r)
      PROVE  NewDistinct'
  BY <1>0, <1>23 DEF RandomTokenFails, ReadFails, BulkDone, Crash, Finish,
     minting
<1>24. CASE UNCHANGED vars
  BY <1>0, <1>24 DEF vars
<1> QED
  BY <1>1, <1>2, <1>3, <1>4, <1>5, <1>6, <1>7, <1>8, <1>9, <1>10, <1>11,
     <1>12, <1>13, <1>14, <1>15, <1>16, <1>17, <1>18, <1>19, <1>20, <1>21,
     <1>22, <1>23, <1>24 DEF Next, Arrive, Step, Environment

\* A refresh stays bound to its row, its account and its chain of tokens.
LEMMA RefreshStep == IInv /\ [Next]_vars => RefreshInv'
<1> SUFFICES ASSUME IInv, [Next]_vars PROVE RefreshInv'
  OBVIOUS
<1> USE DEF TypeOK, ControlInv, RefreshInv, Request, Op, Pc, Mint, Idle, At
<1>0. TypeOK /\ ControlInv /\ SidInv /\ StoredInv /\ RefreshInv
  BY DEF IInv, TypeOK
<1>1. ASSUME NEW r \in Req, NEW u \in User, IssueStart(r, u)
      PROVE  RefreshInv'
  BY <1>0, <1>1 DEF IssueStart, rows, minting, hist
<1>2. ASSUME NEW r \in Req, NEW a \in Token, NEW t \in Token,
             RefreshStart(r, a, t)
      PROVE  RefreshInv'
  BY <1>0, <1>2 DEF RefreshStart, rows, minting, hist, StoredInv, SidInv
<1>3. ASSUME NEW r \in Req, NEW a \in Token, LogoutStart(r, a)
      PROVE  RefreshInv'
  BY <1>0, <1>3 DEF LogoutStart, VerifyAndParseJWT, rows, minting, hist
<1>4. ASSUME NEW r \in Req, NEW u \in User, NEW b \in Bulk, BulkStart(r, u, b)
      PROVE  RefreshInv'
  BY <1>0, <1>4, ConstAssumption DEF BulkStart, rows, minting, hist, BulkOps,
     BlockOps
<1>5. ASSUME NEW r \in Req, NEW o \in Outcomes, GenerateSession(r, o)
      PROVE  RefreshInv'
  BY <1>0, <1>5, SMTT(30) DEF GenerateSession, Proceed, Goto, Finish, Applied, rows,
     minting, hist
<1>6. ASSUME NEW r \in Req, NEW o \in Outcomes, StoreRefresh(r, o)
      PROVE  RefreshInv'
  BY <1>0, <1>6, ConstAssumption DEF StoreRefresh, Finish, Applied, Fresh,
     rows, minting, hist, StoredInv, SidInv
<1>7. ASSUME NEW r \in Req, NEW o \in Outcomes, CreateRefreshSession(r, o)
      PROVE  RefreshInv'
  BY <1>0, <1>7 DEF CreateRefreshSession, Applied, Goto, rows, minting, hist,
     StoredInv, SidInv
<1>8. ASSUME NEW r \in Req, NEW o \in Outcomes, UndoSession(r, o)
      PROVE  RefreshInv'
  BY <1>0, <1>8 DEF UndoSession, DropKeys, Applied, Finish, rows, minting,
     hist
<1>9. ASSUME NEW r \in Req, NEW o \in Outcomes, RotateRefreshSession(r, o)
      PROVE  RefreshInv'
  BY <1>0, <1>9 DEF RotateRefreshSession, Applied, Finish, rows, minting,
     hist, StoredInv, SidInv
<1>10. ASSUME NEW r \in Req, NEW o \in Outcomes, DeleteSession(r, o)
      PROVE  RefreshInv'
  BY <1>0, <1>10 DEF DeleteSession, DropKeys, Applied, Goto, rows, minting,
     hist
<1>11. ASSUME NEW r \in Req, NEW o \in Outcomes, RevokeSession(r, o)
      PROVE  RefreshInv'
  BY <1>0, <1>11 DEF RevokeSession, RevokeRow, Applied, Finish, rows, minting,
     hist
<1>12. ASSUME NEW r \in Req, NEW o \in Outcomes, ListActiveSessionIDs(r, o)
      PROVE  RefreshInv'
  BY <1>0, <1>12 DEF ListActiveSessionIDs, ActiveSessions, rows, minting, hist
<1>13. ASSUME NEW r \in Req, NEW o \in Outcomes, Commit(r, o)
      PROVE  RefreshInv'
  BY <1>0, <1>13 DEF Commit, SetAccount, Applied, Finish, rows, minting, hist
<1>14. ASSUME NEW r \in Req, NEW s \in Sid, NEW o \in Outcomes,
             ClearKeys(r, s, o)
      PROVE  RefreshInv'
  BY <1>0, <1>14 DEF ClearKeys, DropKeys, Applied, rows, minting, hist
<1>15. ASSUME NEW r \in Req, ReturnLogin(r)
      PROVE  RefreshInv'
  BY <1>0, <1>15 DEF ReturnLogin, Finish, rows, minting, hist
<1>16. ASSUME NEW r \in Req, GetRefreshKey(r)
      PROVE  RefreshInv'
  BY <1>0, <1>16 DEF GetRefreshKey, Goto, Finish, rows, minting, hist
<1>17. ASSUME NEW r \in Req, GetRefreshSession(r)
      PROVE  RefreshInv'
  BY <1>0, <1>17 DEF GetRefreshSession, Goto, Finish, rows, minting, hist,
     StoredInv, SidInv
<1>18. ASSUME NEW r \in Req, GetUserByID(r)
      PROVE  RefreshInv'
  BY <1>0, <1>18 DEF GetUserByID, Goto, rows, minting, hist
<1>19. ASSUME NEW r \in Req, RevokeAllUserSessions(r)
      PROVE  RefreshInv'
  BY <1>0, <1>19 DEF RevokeAllUserSessions, ActiveSessions, rows, minting,
     hist
<1>20. ASSUME NEW u \in User, Reinstate(u)
      PROVE  RefreshInv'
  BY <1>0, <1>20 DEF Reinstate, rows, minting, hist
<1>21. ASSUME NEW s \in Sid, CronRevoke(s)
      PROVE  RefreshInv'
  BY <1>0, <1>21 DEF CronRevoke, RevokeRow, rows, minting, hist
<1>22. ASSUME NEW s \in Sid, SessionKeyExpires(s) \/ RefreshKeyExpires(s)
      PROVE  RefreshInv'
  BY <1>0, <1>22 DEF SessionKeyExpires, RefreshKeyExpires, rows, minting, hist
<1>23. ASSUME NEW r \in Req,
             RandomTokenFails(r) \/ ReadFails(r) \/ BulkDone(r) \/ Crash(r)
      PROVE  RefreshInv'
  <2>1. Finish(r) /\ UNCHANGED <<acct, rows, minting, hist>>
    BY <1>23 DEF RandomTokenFails, ReadFails, BulkDone, Crash
  <2> QED
    BY <1>0, <2>1 DEF Finish, acct, rows, minting, hist
<1>24. CASE UNCHANGED vars
  BY <1>0, <1>24 DEF vars
<1> QED
  BY <1>1, <1>2, <1>3, <1>4, <1>5, <1>6, <1>7, <1>8, <1>9, <1>10, <1>11,
     <1>12, <1>13, <1>14, <1>15, <1>16, <1>17, <1>18, <1>19, <1>20, <1>21,
     <1>22, <1>23, <1>24 DEF Next, Arrive, Step, Environment

\* Blocking an account catches every refresh in flight on its rows.
LEMMA BlockStep == IInv /\ [Next]_vars => BlockInv'
<1> SUFFICES ASSUME IInv, [Next]_vars PROVE BlockInv'
  OBVIOUS
<1> USE DEF TypeOK, ControlInv, BlockInv, Request, Op, Pc, Mint, Idle, At, ActiveSessions, Usable, BulkOps, BlockOps
<1>0. TypeOK /\ ControlInv /\ SidInv /\ RefreshInv /\ BlockInv
  BY DEF IInv, TypeOK
<1>1. ASSUME NEW r \in Req, NEW u \in User, IssueStart(r, u)
      PROVE  BlockInv'
  BY <1>0, <1>1 DEF IssueStart, acct, rows, hist
<1>2. ASSUME NEW r \in Req, NEW a \in Token, NEW t \in Token,
             RefreshStart(r, a, t)
      PROVE  BlockInv'
  BY <1>0, <1>2 DEF RefreshStart, acct, rows, hist
<1>3. ASSUME NEW r \in Req, NEW a \in Token, LogoutStart(r, a)
      PROVE  BlockInv'
  BY <1>0, <1>3 DEF LogoutStart, VerifyAndParseJWT, acct, rows, hist
<1>4. ASSUME NEW r \in Req, NEW u \in User, NEW b \in Bulk, BulkStart(r, u, b)
      PROVE  BlockInv'
  BY <1>0, <1>4 DEF BulkStart, acct, rows, hist
<1>5. ASSUME NEW r \in Req, NEW o \in Outcomes, GenerateSession(r, o)
      PROVE  BlockInv'
  BY <1>0, <1>5, SMTT(30) DEF GenerateSession, Proceed, Goto, Finish, Applied, acct,
     rows, hist
<1>6. ASSUME NEW r \in Req, NEW o \in Outcomes, StoreRefresh(r, o)
      PROVE  BlockInv'
  BY <1>0, <1>6, SMTT(30) DEF StoreRefresh, Finish, Applied, Fresh, acct, rows, hist
<1>7. ASSUME NEW r \in Req, NEW o \in Outcomes, CreateRefreshSession(r, o)
      PROVE  BlockInv'
  BY <1>0, <1>7 DEF CreateRefreshSession, Applied, Goto, acct, rows, hist,
     SidInv, RefreshInv
<1>8. ASSUME NEW r \in Req, NEW o \in Outcomes, UndoSession(r, o)
      PROVE  BlockInv'
  BY <1>0, <1>8 DEF UndoSession, DropKeys, Applied, Finish, acct, rows, hist
<1>9. ASSUME NEW r \in Req, NEW o \in Outcomes, RotateRefreshSession(r, o)
      PROVE  BlockInv'
  BY <1>0, <1>9 DEF RotateRefreshSession, Applied, Finish, acct, rows, hist
<1>10. ASSUME NEW r \in Req, NEW o \in Outcomes, DeleteSession(r, o)
      PROVE  BlockInv'
  BY <1>0, <1>10 DEF DeleteSession, DropKeys, Applied, Goto, acct, rows, hist
<1>11. ASSUME NEW r \in Req, NEW o \in Outcomes, RevokeSession(r, o)
      PROVE  BlockInv'
  BY <1>0, <1>11 DEF RevokeSession, RevokeRow, Applied, Finish, acct, rows,
     hist
<1>12. ASSUME NEW r \in Req, NEW o \in Outcomes, ListActiveSessionIDs(r, o)
      PROVE  BlockInv'
  BY <1>0, <1>12 DEF ListActiveSessionIDs, ActiveSessions, acct, rows, hist
<1>13. ASSUME NEW r \in Req, NEW o \in Outcomes, Commit(r, o)
      PROVE  BlockInv'
  BY <1>0, <1>13, SMTT(30) DEF Commit, SetAccount, Applied, Finish, acct, rows, hist,
     SidInv, RefreshInv
<1>14. ASSUME NEW r \in Req, NEW s \in Sid, NEW o \in Outcomes,
             ClearKeys(r, s, o)
      PROVE  BlockInv'
  BY <1>0, <1>14 DEF ClearKeys, DropKeys, Applied, acct, rows, hist
<1>15. ASSUME NEW r \in Req, ReturnLogin(r)
      PROVE  BlockInv'
  BY <1>0, <1>15 DEF ReturnLogin, Finish, acct, rows, hist
<1>16. ASSUME NEW r \in Req, GetRefreshKey(r)
      PROVE  BlockInv'
  BY <1>0, <1>16, SMTT(30) DEF GetRefreshKey, Goto, Finish, acct, rows, hist
<1>17. ASSUME NEW r \in Req, GetRefreshSession(r)
      PROVE  BlockInv'
  <2>1. CASE Finish(r)
    BY <1>0, <1>17, <2>1 DEF GetRefreshSession, Finish, acct, rows, hist
  <2>2. CASE Goto(r, "getUser")
    BY <1>0, <1>17, <2>2 DEF GetRefreshSession, Goto, acct, rows, hist
  <2>3. CASE Goto(r, "del")
    BY <1>0, <1>17, <2>3 DEF GetRefreshSession, Goto, acct, rows, hist
  <2> QED
    BY <1>17, <2>1, <2>2, <2>3 DEF GetRefreshSession
<1>18. ASSUME NEW r \in Req, GetUserByID(r)
      PROVE  BlockInv'
  BY <1>0, <1>18 DEF GetUserByID, Goto, acct, rows, hist
<1>19. ASSUME NEW r \in Req, RevokeAllUserSessions(r)
      PROVE  BlockInv'
  <2> DEFINE S == ActiveSessions(req[r].user) \ {req[r].sid}
  <2>1. /\ req'[r].pc = "commit" /\ req'[r].held = S
        /\ req'[r].op = req[r].op /\ req'[r].user = req[r].user
        /\ \A q \in Req \ {r} : req'[q] = req[q]
    BY <1>0, <1>19 DEF RevokeAllUserSessions
  <2>2. UNCHANGED <<status, deleted, rowState, rowUser, late>>
    BY <1>19 DEF RevokeAllUserSessions, acct, rows, hist
  <2>3. req[r].op \in BlockOps => S = ActiveSessions(req[r].user)
    BY <1>0, ConstAssumption DEF RevokeAllUserSessions
  <2> QED
    BY <1>0, <2>1, <2>2, <2>3
<1>20. ASSUME NEW u \in User, Reinstate(u)
      PROVE  BlockInv'
  BY <1>0, <1>20 DEF Reinstate, acct, rows, hist
<1>21. ASSUME NEW s \in Sid, CronRevoke(s)
      PROVE  BlockInv'
  BY <1>0, <1>21 DEF CronRevoke, RevokeRow, acct, rows, hist
<1>22. ASSUME NEW s \in Sid, SessionKeyExpires(s) \/ RefreshKeyExpires(s)
      PROVE  BlockInv'
  BY <1>0, <1>22 DEF SessionKeyExpires, RefreshKeyExpires, acct, rows, hist
<1>23. ASSUME NEW r \in Req,
             RandomTokenFails(r) \/ ReadFails(r) \/ BulkDone(r) \/ Crash(r)
      PROVE  BlockInv'
  <2>1. Finish(r) /\ UNCHANGED <<acct, rows, minting, hist>>
    BY <1>23 DEF RandomTokenFails, ReadFails, BulkDone, Crash
  <2> QED
    BY <1>0, <2>1 DEF Finish, acct, rows, minting, hist
<1>24. CASE UNCHANGED vars
  BY <1>0, <1>24 DEF vars
<1> QED
  BY <1>1, <1>2, <1>3, <1>4, <1>5, <1>6, <1>7, <1>8, <1>9, <1>10, <1>11,
     <1>12, <1>13, <1>14, <1>15, <1>16, <1>17, <1>18, <1>19, <1>20, <1>21,
     <1>22, <1>23, <1>24 DEF Next, Arrive, Step, Environment

-----------------------------------------------------------------------------
(* The invariant, and what follows from it *)

\* The strengthened invariant IInv holds in every reachable state of Sessions.
THEOREM Invariance == Spec => []IInv
<1>1. Init => IInv
  BY ConstAssumption
     DEF Init, IInv, TypeOK, ControlInv, SidInv, StoredInv, NewInv, NewDistinct,
         RefreshInv, BlockInv, Request, Op, Pc, Idle, At, Mint, BulkOps, BlockOps
<1>2. IInv /\ [Next]_vars => IInv'
  <2> SUFFICES ASSUME IInv, [Next]_vars PROVE IInv'
    OBVIOUS
  <2>1. TypeOK'
    BY RequestTypeStep, StoreTypeStep DEF TypeOK, StoreTypeOK
  <2> QED
    BY <2>1, ControlStep, SidStep, StoredStep, NewStep, NewDistinctStep,
       RefreshStep, BlockStep DEF IInv
<1> QED
  BY <1>1, <1>2, PTL DEF Spec

\* Every variable keeps its type, whatever requests arrive and calls fail.
THEOREM TypeCorrect == Spec => []TypeOK
<1>1. IInv => TypeOK
  BY DEF IInv
<1> QED
  BY <1>1, Invariance, PTL

\* Login, join and refresh return a token pair only when Postgres holds it, in
\* a row of the account the JWT names.
THEOREM PairsAreDurable == Spec => []DeliveredBacked
<1>1. IInv => DeliveredBacked
  BY DEF IInv, StoredInv, DeliveredBacked
<1> QED
  BY <1>1, Invariance, PTL

\* The only actions that hand out a pair.
LEMMA DeliverySteps ==
    ASSUME IInv, Next, NEW t \in delivered' \ delivered
    PROVE  \E r \in Req :
              /\ t = req[r].new
              /\ \/ ReturnLogin(r)
                 \/ \E o \in Outcomes :
                       RotateRefreshSession(r, o) /\ rowState[req[r].sid] = "active"
<1> USE DEF hist
<1>1. ~Environment
  BY DEF Environment, Reinstate, CronRevoke, SessionKeyExpires, RefreshKeyExpires, Crash
<1>2. \A r \in Req : ~Arrive(r)
  BY DEF Arrive, IssueStart, RefreshStart, LogoutStart, BulkStart
<1>3. PICK r \in Req : Step(r)
  BY <1>1, <1>2 DEF Next
<1>4. ReturnLogin(r) \/ \E o \in Outcomes : RotateRefreshSession(r, o)
  BY <1>3 DEF Step, GenerateSession, StoreRefresh, CreateRefreshSession, UndoSession,
              DeleteSession, RevokeSession, ListActiveSessionIDs, Commit, ClearKeys,
              RandomTokenFails, GetRefreshKey, GetRefreshSession, GetUserByID,
              ReadFails, RevokeAllUserSessions, BulkDone
<1>5. ASSUME NEW o \in Outcomes, RotateRefreshSession(r, o)
      PROVE  t = req[r].new /\ rowState[req[r].sid] = "active"
  BY <1>5 DEF RotateRefreshSession
<1>6. ReturnLogin(r) => t = req[r].new
  BY DEF ReturnLogin
<1> QED
  BY <1>4, <1>5, <1>6

\* RefreshToken hands out a pair only while the row is active, and only for a
\* usable account (or a row inserted behind the back of a blocking transaction):
\* the re-check in the UPDATE's WHERE clause closes the window left by the
\* reads, because a ban revokes the rows in the transaction that sets the status.
THEOREM RefreshIsGuarded == Spec => RefreshGuarded
<1> DEFINE Guarded == \A t \in delivered' \ delivered :
                         parent[t] # NoToken =>
                            /\ rowState[tokSid[t]] = "active"
                            /\ \/ Usable(rowUser[tokSid[t]])
                               \/ tokSid[t] \in late
<1>1. IInv /\ [Next]_vars => [Guarded]_vars
  <2> SUFFICES ASSUME IInv, Next, NEW t \in delivered' \ delivered,
                      parent[t] # NoToken
               PROVE  /\ rowState[tokSid[t]] = "active"
                      /\ Usable(rowUser[tokSid[t]]) \/ tokSid[t] \in late
    OBVIOUS
  <2>1. PICK r \in Req :
           /\ t = req[r].new
           /\ \/ ReturnLogin(r)
              \/ \E o \in Outcomes :
                    RotateRefreshSession(r, o) /\ rowState[req[r].sid] = "active"
    BY DeliverySteps
  <2>2. ~ReturnLogin(r)
    BY <2>1 DEF IInv, ControlInv, NewInv, ReturnLogin, At
  <2>3. req[r].pc = "writeRow" /\ req[r].op = "refresh"
    BY <2>1, <2>2 DEF RotateRefreshSession, At
  <2>4. tokSid[t] = req[r].sid
    BY <2>1, <2>3 DEF IInv, NewInv
  <2> QED
    BY <2>1, <2>2, <2>3, <2>4 DEF IInv, BlockInv, RefreshInv, Mint
<1> QED
  BY <1>1, Invariance, PTL DEF Spec, RefreshGuarded

\* A step of any kind leaves a dead session dead.
LEMMA DeadStep ==
    ASSUME IInv, [Next]_vars, NEW s0 \in Sid, Dead(s0)
    PROVE  Dead(s0)'
<1> USE DEF Dead, Rotating, Request, Op, Pc, Mint, Idle, At
<1>0. /\ req \in [Req -> Request] /\ rRefresh \in [Sid -> Token \cup {NoToken}]
      /\ rowState \in [Sid -> {"none", "active", "revoked"}] /\ ControlInv /\ SidInv
  BY DEF IInv, TypeOK
<1>1. ASSUME NEW r \in Req, NEW u \in User, IssueStart(r, u)
      PROVE  Dead(s0)'
  BY <1>0, <1>1 DEF IssueStart, rows, redis
<1>2. ASSUME NEW r \in Req, NEW a \in Token, NEW t \in Token,
             RefreshStart(r, a, t)
      PROVE  Dead(s0)'
  BY <1>0, <1>2 DEF RefreshStart, rows, redis
<1>3. ASSUME NEW r \in Req, NEW a \in Token, LogoutStart(r, a)
      PROVE  Dead(s0)'
  BY <1>0, <1>3 DEF LogoutStart, VerifyAndParseJWT, rows, redis
<1>4. ASSUME NEW r \in Req, NEW u \in User, NEW b \in Bulk, BulkStart(r, u, b)
      PROVE  Dead(s0)'
  BY <1>0, <1>4, ConstAssumption DEF BulkStart, rows, redis, BulkOps, BlockOps
<1>5. ASSUME NEW r \in Req, NEW o \in Outcomes, GenerateSession(r, o)
      PROVE  Dead(s0)'
  BY <1>0, <1>5 DEF GenerateSession, Proceed, Goto, Finish, Applied, rows,
     redis, ControlInv, SidInv
<1>6. ASSUME NEW r \in Req, NEW o \in Outcomes, StoreRefresh(r, o)
      PROVE  Dead(s0)'
  BY <1>0, <1>6 DEF StoreRefresh, Finish, Applied, Fresh, rows, redis,
     ControlInv, SidInv
<1>7. ASSUME NEW r \in Req, NEW o \in Outcomes, CreateRefreshSession(r, o)
      PROVE  Dead(s0)'
  BY <1>0, <1>7 DEF CreateRefreshSession, Applied, Goto, rows, redis,
     ControlInv, SidInv
<1>8. ASSUME NEW r \in Req, NEW o \in Outcomes, UndoSession(r, o)
      PROVE  Dead(s0)'
  BY <1>0, <1>8 DEF UndoSession, DropKeys, Applied, Finish, rows, redis
<1>9. ASSUME NEW r \in Req, NEW o \in Outcomes, RotateRefreshSession(r, o)
      PROVE  Dead(s0)'
  BY <1>0, <1>9 DEF RotateRefreshSession, Applied, Finish, rows, redis
<1>10. ASSUME NEW r \in Req, NEW o \in Outcomes, DeleteSession(r, o)
      PROVE  Dead(s0)'
  BY <1>0, <1>10 DEF DeleteSession, DropKeys, Applied, Goto, rows, redis
<1>11. ASSUME NEW r \in Req, NEW o \in Outcomes, RevokeSession(r, o)
      PROVE  Dead(s0)'
  BY <1>0, <1>11 DEF RevokeSession, RevokeRow, Applied, Finish, rows, redis
<1>12. ASSUME NEW r \in Req, NEW o \in Outcomes, ListActiveSessionIDs(r, o)
      PROVE  Dead(s0)'
  BY <1>0, <1>12 DEF ListActiveSessionIDs, ActiveSessions, rows, redis
<1>13. ASSUME NEW r \in Req, NEW o \in Outcomes, Commit(r, o)
      PROVE  Dead(s0)'
  BY <1>0, <1>13 DEF Commit, SetAccount, Applied, Finish, rows, redis
<1>14. ASSUME NEW r \in Req, NEW s \in Sid, NEW o \in Outcomes,
             ClearKeys(r, s, o)
      PROVE  Dead(s0)'
  BY <1>0, <1>14 DEF ClearKeys, DropKeys, Applied, rows, redis
<1>15. ASSUME NEW r \in Req, ReturnLogin(r)
      PROVE  Dead(s0)'
  BY <1>0, <1>15 DEF ReturnLogin, Finish, rows, redis
<1>16. ASSUME NEW r \in Req, GetRefreshKey(r)
      PROVE  Dead(s0)'
  BY <1>0, <1>16 DEF GetRefreshKey, Goto, Finish, rows, redis
<1>17. ASSUME NEW r \in Req, GetRefreshSession(r)
      PROVE  Dead(s0)'
  BY <1>0, <1>17 DEF GetRefreshSession, Goto, Finish, rows, redis
<1>18. ASSUME NEW r \in Req, GetUserByID(r)
      PROVE  Dead(s0)'
  BY <1>0, <1>18 DEF GetUserByID, Goto, rows, redis
<1>19. ASSUME NEW r \in Req, RevokeAllUserSessions(r)
      PROVE  Dead(s0)'
  BY <1>0, <1>19 DEF RevokeAllUserSessions, ActiveSessions, rows, redis
<1>20. ASSUME NEW u \in User, Reinstate(u)
      PROVE  Dead(s0)'
  BY <1>0, <1>20 DEF Reinstate, rows, redis
<1>21. ASSUME NEW s \in Sid, CronRevoke(s)
      PROVE  Dead(s0)'
  BY <1>0, <1>21 DEF CronRevoke, RevokeRow, rows, redis
<1>22. ASSUME NEW s \in Sid, SessionKeyExpires(s) \/ RefreshKeyExpires(s)
      PROVE  Dead(s0)'
  BY <1>0, <1>22 DEF SessionKeyExpires, RefreshKeyExpires, rows, redis
<1>23. ASSUME NEW r \in Req,
             RandomTokenFails(r) \/ ReadFails(r) \/ BulkDone(r) \/ Crash(r)
      PROVE  Dead(s0)'
  BY <1>0, <1>23 DEF RandomTokenFails, ReadFails, BulkDone, Crash, Finish,
     rows, redis
<1>24. CASE UNCHANGED vars
  BY <1>0, <1>24 DEF vars
<1> QED
  BY <1>1, <1>2, <1>3, <1>4, <1>5, <1>6, <1>7, <1>8, <1>9, <1>10, <1>11,
     <1>12, <1>13, <1>14, <1>15, <1>16, <1>17, <1>18, <1>19, <1>20, <1>21,
     <1>22, <1>23, <1>24 DEF Next, Arrive, Step, Environment
\* No request, cron job or failure brings back a session that is revoked in
\* Postgres and gone from Redis with no rotation in flight.
THEOREM DeadForever == Spec => DeadStaysDead
<1>1. IInv /\ [Next]_vars => [\A s \in Sid : Dead(s) => Dead(s)']_vars
  BY DeadStep
<1> QED
  BY <1>1, Invariance, PTL DEF Spec, DeadStaysDead

\* Every step of Sessions is a step of the contract or leaves it alone.
LEMMA ContractStep == IInv /\ [Next]_vars => [Contract!CNext]_(Contract!cvars)
<1> SUFFICES ASSUME IInv, [Next]_vars PROVE [Contract!CNext]_(Contract!cvars)
  OBVIOUS
<1> USE DEF Contract!cvars, ChainOf, ParentOf
<1>0. TypeOK
  BY DEF IInv
<1>a. \A t \in stored : tokSid[t] \in Sid
  BY DEF IInv, StoredInv
<1>1. ASSUME NEW r \in Req, NEW u \in User, IssueStart(r, u)
      PROVE  [Contract!CNext]_(Contract!cvars)
  BY <1>1 DEF IssueStart, rows, minting, hist
<1>2. ASSUME NEW r \in Req, NEW a \in Token, NEW t \in Token,
             RefreshStart(r, a, t)
      PROVE  [Contract!CNext]_(Contract!cvars)
  BY <1>2 DEF RefreshStart, rows, minting, hist
<1>3. ASSUME NEW r \in Req, NEW a \in Token, LogoutStart(r, a)
      PROVE  [Contract!CNext]_(Contract!cvars)
  BY <1>3 DEF LogoutStart, rows, minting, hist
<1>4. ASSUME NEW r \in Req, NEW u \in User, NEW b \in Bulk, BulkStart(r, u, b)
      PROVE  [Contract!CNext]_(Contract!cvars)
  BY <1>4 DEF BulkStart, rows, minting, hist
<1>5. ASSUME NEW r \in Req, NEW o \in Outcomes, GenerateSession(r, o)
      PROVE  [Contract!CNext]_(Contract!cvars)
  BY <1>5 DEF GenerateSession, rows, minting, hist
<1>6. ASSUME NEW r \in Req, NEW o \in Outcomes, StoreRefresh(r, o)
      PROVE  [Contract!CNext]_(Contract!cvars)
  <2>1. PICK t \in Fresh : /\ tokSid' = [tokSid EXCEPT ![t] = req[r].sid]
                           /\ parent' = [parent EXCEPT ![t] = req[r].old]
    BY <1>6 DEF StoreRefresh
  <2>2. t \notin stored
    BY <1>a, <2>1, ConstAssumption DEF Fresh
  <2>3. UNCHANGED <<rowState, rowUser, rowHash, stored>>
    BY <1>6 DEF StoreRefresh, rows, hist
  <2>4. \A x \in stored : tokSid'[x] = tokSid[x] /\ parent'[x] = parent[x]
    BY <1>0, <2>1, <2>2 DEF TypeOK
  <2> QED
    BY <2>3, <2>4
<1>7. ASSUME NEW r \in Req, NEW o \in Outcomes, CreateRefreshSession(r, o)
      PROVE  [Contract!CNext]_(Contract!cvars)
  <2> DEFINE s == req[r].sid
              t == req[r].new
  <2>1. CASE Applied(o)
    <3>1. /\ s \in Sid /\ t \in Token /\ req[r].user \in User
          /\ rowState[s] = "none" /\ t \notin stored /\ tokSid[t] = s
          /\ parent[t] = NoToken
      BY <1>0, <1>7 DEF CreateRefreshSession, At, IInv, TypeOK, ControlInv, SidInv, NewInv, Mint
    <3>2. /\ rowState' = [rowState EXCEPT ![s] = "active"]
          /\ rowUser' = [rowUser EXCEPT ![s] = req[r].user]
          /\ rowHash' = [rowHash EXCEPT ![s] = t]
          /\ stored' = stored \cup {t} /\ tokSid' = tokSid /\ parent' = parent
      BY <1>7, <2>1 DEF CreateRefreshSession, minting
    <3>3. \A x \in stored : tokSid[x] # s
      BY <3>1 DEF IInv, StoredInv
    <3>4. [q \in Sid |-> ChainOf(q)]' = [[q \in Sid |-> ChainOf(q)] EXCEPT ![s] = {t}]
      BY <3>1, <3>2, <3>3
    <3>5. Contract!Unused(t)
      BY <3>1 DEF Contract!Unused
    <3>5a. [x \in Token |-> ParentOf(x)]' = [x \in Token |-> ParentOf(x)]
      BY <3>1, <3>2
    <3>6. Contract!Open(s, req[r].user, t)
      BY <3>1, <3>2, <3>4, <3>5, <3>5a DEF Contract!Open
    <3>7. \E c \in Sid, u \in User, x \in Token : Contract!Open(c, u, x)
      BY <3>1, <3>6 DEF Contract!Open
    <3> QED
      BY <3>7 DEF Contract!CNext
  <2>2. CASE ~Applied(o)
    BY <1>7, <2>2 DEF CreateRefreshSession, rows, minting
  <2> QED
    BY <2>1, <2>2
<1>8. ASSUME NEW r \in Req, NEW o \in Outcomes, UndoSession(r, o)
      PROVE  [Contract!CNext]_(Contract!cvars)
  BY <1>8 DEF UndoSession, rows, minting, hist
<1>9. ASSUME NEW r \in Req, NEW o \in Outcomes, RotateRefreshSession(r, o)
      PROVE  [Contract!CNext]_(Contract!cvars)
  <2> DEFINE s == req[r].sid
              t == req[r].new
  <2>1. CASE Applied(o) /\ rowState[s] = "active"
    <3>1. /\ s \in Sid /\ t \in Token /\ t \notin stored /\ tokSid[t] = s
          /\ req[r].old \in Token /\ req[r].old \in stored /\ tokSid[req[r].old] = s
          /\ parent[t] = req[r].old
      BY <1>0, <1>9 DEF RotateRefreshSession, At, IInv, TypeOK, ControlInv, RefreshInv, NewInv, Mint
    <3>2. /\ rowHash' = [rowHash EXCEPT ![s] = t]
          /\ stored' = stored \cup {t} /\ tokSid' = tokSid
          /\ UNCHANGED <<rowState, rowUser, parent>>
      BY <1>9, <2>1 DEF RotateRefreshSession, minting
    <3>3. [q \in Sid |-> ChainOf(q)]'
             = [[q \in Sid |-> ChainOf(q)] EXCEPT ![s] = @ \cup {t}]
      BY <3>1, <3>2
    <3>4. Contract!Unused(t)
      BY <3>1 DEF Contract!Unused
    <3>4a. [x \in Token |-> ParentOf(x)]'
             = [[x \in Token |-> ParentOf(x)] EXCEPT ![t] = req[r].old]
      BY <3>1, <3>2
    <3>5. Contract!Rotate(s, req[r].old, t)
      BY <2>1, <3>1, <3>2, <3>3, <3>4, <3>4a DEF Contract!Rotate
    <3>6. \E c \in Sid, p \in Token, x \in Token : Contract!Rotate(c, p, x)
      BY <3>1, <3>5, ZenonT(60) DEF Contract!Rotate
    <3> QED
      BY <3>6 DEF Contract!CNext
  <2>2. CASE ~(Applied(o) /\ rowState[s] = "active")
    BY <1>9, <2>2 DEF RotateRefreshSession, minting
  <2> QED
    BY <2>1, <2>2
<1>10. ASSUME NEW r \in Req, NEW o \in Outcomes, DeleteSession(r, o)
      PROVE  [Contract!CNext]_(Contract!cvars)
  BY <1>10 DEF DeleteSession, rows, minting, hist
<1>11. ASSUME NEW r \in Req, NEW o \in Outcomes, RevokeSession(r, o)
      PROVE  [Contract!CNext]_(Contract!cvars)
  <2>1. \/ req[r].sid \in Sid /\ rowUser[req[r].sid] \in User
        \/ rowState[req[r].sid] # "active"
    BY <1>0, <1>11 DEF RevokeSession, At, IInv, TypeOK, StoredInv, ControlInv
  <2>2. UNCHANGED <<rowUser, rowHash, stored, tokSid, parent>>
    BY <1>11 DEF RevokeSession, minting, hist
  <2>3. CASE rowState[req[r].sid] = "active" /\ rowState' # rowState
    <3>1. Contract!Revoke(rowUser[req[r].sid], {req[r].sid})
      BY <1>0, <1>11, <2>2, <2>3 DEF TypeOK, RevokeSession, RevokeRow, Contract!Revoke
    <3> QED
      BY <2>1, <2>3, <3>1 DEF Contract!CNext
  <2>4. CASE rowState' = rowState
    BY <2>2, <2>4
  <2> QED
    BY <1>0, <1>11, <2>3, <2>4 DEF TypeOK, RevokeSession, RevokeRow
<1>12. ASSUME NEW r \in Req, NEW o \in Outcomes, ListActiveSessionIDs(r, o)
      PROVE  [Contract!CNext]_(Contract!cvars)
  BY <1>12 DEF ListActiveSessionIDs, rows, minting, hist
<1>13. ASSUME NEW r \in Req, NEW o \in Outcomes, Commit(r, o)
      PROVE  [Contract!CNext]_(Contract!cvars)
  <2> DEFINE S == {s \in req[r].held : rowState[s] = "active"}
  <2>1. UNCHANGED <<rowUser, rowHash, stored, tokSid, parent>>
    BY <1>13 DEF Commit, minting, hist
  <2>2. CASE Applied(o)
    <3>1. /\ req[r].user \in User /\ S \in SUBSET Sid
          /\ \A s \in S : rowState[s] = "active" /\ rowUser[s] = req[r].user
      BY <1>0, <1>13 DEF Commit, At, IInv, TypeOK, Request, ControlInv, BlockInv, BulkOps, BlockOps
    <3>2. rowState' = [s \in Sid |-> IF s \in S THEN "revoked" ELSE rowState[s]]
      BY <1>0, <1>13, <2>2 DEF Commit, TypeOK
    <3>3. Contract!Revoke(req[r].user, S)
      BY <2>1, <3>1, <3>2 DEF Contract!Revoke
    <3> QED
      BY <3>1, <3>3 DEF Contract!CNext
  <2>3. CASE ~Applied(o)
    BY <1>13, <2>1, <2>3 DEF Commit
  <2> QED
    BY <2>2, <2>3
<1>14. ASSUME NEW r \in Req, NEW s \in Sid, NEW o \in Outcomes,
             ClearKeys(r, s, o)
      PROVE  [Contract!CNext]_(Contract!cvars)
  BY <1>14 DEF ClearKeys, rows, minting, hist
<1>15. ASSUME NEW r \in Req, ReturnLogin(r)
      PROVE  [Contract!CNext]_(Contract!cvars)
  BY <1>15 DEF ReturnLogin, rows, minting, hist
<1>16. ASSUME NEW r \in Req, GetRefreshKey(r)
      PROVE  [Contract!CNext]_(Contract!cvars)
  BY <1>16 DEF GetRefreshKey, rows, minting, hist
<1>17. ASSUME NEW r \in Req, GetRefreshSession(r)
      PROVE  [Contract!CNext]_(Contract!cvars)
  BY <1>17 DEF GetRefreshSession, rows, minting, hist
<1>18. ASSUME NEW r \in Req, GetUserByID(r)
      PROVE  [Contract!CNext]_(Contract!cvars)
  BY <1>18 DEF GetUserByID, rows, minting, hist
<1>19. ASSUME NEW r \in Req, RevokeAllUserSessions(r)
      PROVE  [Contract!CNext]_(Contract!cvars)
  BY <1>19 DEF RevokeAllUserSessions, rows, minting, hist
<1>20. ASSUME NEW u \in User, Reinstate(u)
      PROVE  [Contract!CNext]_(Contract!cvars)
  BY <1>20 DEF Reinstate, rows, minting, hist
<1>21. ASSUME NEW s \in Sid, CronRevoke(s)
      PROVE  [Contract!CNext]_(Contract!cvars)
  <2>1. \/ s \in Sid /\ rowUser[s] \in User
        \/ rowState[s] # "active"
    BY <1>0 DEF IInv, TypeOK, StoredInv
  <2>2. UNCHANGED <<rowUser, rowHash, stored, tokSid, parent>>
    BY <1>21 DEF CronRevoke, minting, hist
  <2>3. CASE rowState[s] = "active" /\ rowState' # rowState
    <3>1. Contract!Revoke(rowUser[s], {s})
      BY <1>0, <1>21, <2>2, <2>3 DEF TypeOK, CronRevoke, RevokeRow, Contract!Revoke
    <3> QED
      BY <2>1, <2>3, <3>1 DEF Contract!CNext
  <2>4. CASE rowState' = rowState
    BY <2>2, <2>4
  <2> QED
    BY <1>0, <1>21, <2>3, <2>4 DEF TypeOK, CronRevoke, RevokeRow
<1>22. ASSUME NEW s \in Sid, SessionKeyExpires(s) \/ RefreshKeyExpires(s)
      PROVE  [Contract!CNext]_(Contract!cvars)
  BY <1>22 DEF SessionKeyExpires, RefreshKeyExpires, rows, minting, hist
<1>23. ASSUME NEW r \in Req,
             RandomTokenFails(r) \/ ReadFails(r) \/ BulkDone(r) \/ Crash(r)
      PROVE  [Contract!CNext]_(Contract!cvars)
  BY <1>23 DEF RandomTokenFails, ReadFails, BulkDone, Crash, rows, minting,
     hist
<1>24. CASE UNCHANGED vars
  BY <1>24 DEF vars
<1> QED
  BY <1>1, <1>2, <1>3, <1>4, <1>5, <1>6, <1>7, <1>8, <1>9, <1>10, <1>11,
     <1>12, <1>13, <1>14, <1>15, <1>16, <1>17, <1>18, <1>19, <1>20, <1>21,
     <1>22, <1>23, <1>24 DEF Next, Arrive, Step, Environment

\* The two-store implementation, with its overlapping requests, failing calls,
\* crashes and key expiry, implements the session contract on table sessions.
THEOREM ImplementsContract == Spec => ContractSpec
<1>1. Init => Contract!CInit
  BY DEF Init, Contract!CInit, ChainOf, ParentOf
<1> QED
  BY <1>1, ContractStep, Invariance, PTL DEF Spec, ContractSpec, Contract!CSpec

-----------------------------------------------------------------------------
(* Bulk revocation: the snapshot, the selection and the keys *)

\* A row, once inserted, keeps its owner, and a revoked row stays revoked.
LEMMA RowsAreMonotone ==
    IInv /\ [Next]_vars =>
        \A s \in Sid : /\ rowState[s] = "revoked" => rowState'[s] = "revoked"
                       /\ rowState[s] # "none" => /\ rowState'[s] # "none"
                                                  /\ rowUser'[s] = rowUser[s]
<1> SUFFICES ASSUME IInv, [Next]_vars, NEW s \in Sid
             PROVE  /\ rowState[s] = "revoked" => rowState'[s] = "revoked"
                    /\ rowState[s] # "none" => /\ rowState'[s] # "none"
                                               /\ rowUser'[s] = rowUser[s]
  OBVIOUS
<1>0. rowState \in [Sid -> {"none", "active", "revoked"}] /\ rowUser \in [Sid -> User \cup {NoUser}]
  BY DEF IInv, TypeOK
<1>1. CASE \E c \in Sid, u \in User, t \in Token : Contract!Open(c, u, t)
  BY <1>0, <1>1 DEF Contract!Open
<1>2. CASE \E c \in Sid, p \in Token, t \in Token : Contract!Rotate(c, p, t)
  BY <1>0, <1>2 DEF Contract!Rotate
<1>3. CASE \E u \in User, S \in SUBSET Sid : Contract!Revoke(u, S)
  BY <1>0, <1>3 DEF Contract!Revoke
<1>4. CASE UNCHANGED Contract!cvars
  BY <1>4 DEF Contract!cvars
<1> QED
  BY <1>1, <1>2, <1>3, <1>4, ContractStep DEF Contract!CNext

\* Every session in the snapshot of a bulk operation is one of its target, not
\* the one it spares, and is either selected by the transaction or revoked
\* already; after the commit it is revoked.
ClearInv ==
    \A r \in Req : \A s \in req[r].todo :
        /\ req[r].pc \in {"stmt", "commit", "clear"} =>
              s # req[r].sid /\ rowState[s] # "none" /\ rowUser[s] = req[r].user
        /\ req[r].pc = "commit" => s \in req[r].held \/ rowState[s] = "revoked"
        /\ req[r].pc = "clear" => rowState[s] = "revoked"

\* Every step preserves ClearInv.
LEMMA ClearStep == IInv /\ ClearInv /\ [Next]_vars => ClearInv'
<1> SUFFICES ASSUME IInv, ClearInv, [Next]_vars PROVE ClearInv'
  OBVIOUS
<1> USE DEF At
<1>0. /\ req \in [Req -> Request]
      /\ \A r \in Req : req[r].todo \subseteq Sid /\ req[r].held \subseteq Sid
      /\ rowState \in [Sid -> {"none", "active", "revoked"}]
  BY DEF IInv, TypeOK, Request
<1>m. \A s \in Sid : /\ rowState[s] = "revoked" => rowState'[s] = "revoked"
                     /\ rowState[s] # "none" => /\ rowState'[s] # "none"
                                                /\ rowUser'[s] = rowUser[s]
  BY RowsAreMonotone
<1>k. ASSUME NEW q \in Req,
             \/ req'[q] = req[q]
             \/ req'[q].pc \notin {"stmt", "commit", "clear"}
      PROVE  \A s \in req'[q].todo :
               /\ req'[q].pc \in {"stmt", "commit", "clear"} =>
                     s # req'[q].sid /\ rowState'[s] # "none" /\ rowUser'[s] = req'[q].user
               /\ req'[q].pc = "commit" => s \in req'[q].held \/ rowState'[s] = "revoked"
               /\ req'[q].pc = "clear" => rowState'[s] = "revoked"
  BY <1>0, <1>m, <1>k DEF ClearInv
<1>j. ASSUME \A q \in Req : \/ req'[q] = req[q]
                            \/ req'[q].pc \notin {"stmt", "commit", "clear"}
      PROVE  ClearInv'
  BY <1>j, <1>k DEF ClearInv
<1>f. ASSUME NEW r \in Req, Finish(r)
      PROVE  ClearInv'
  BY <1>0, <1>f, <1>j DEF Finish, Idle
<1>g. ASSUME NEW r \in Req, NEW p \in Pc \ {"stmt", "commit", "clear"}, Goto(r, p)
      PROVE  ClearInv'
  BY <1>0, <1>g, <1>j DEF Goto, Request
<1>1. ASSUME NEW r \in Req, NEW u \in User, IssueStart(r, u)
      PROVE  ClearInv'
  BY <1>0, <1>1, <1>j DEF IssueStart, Idle
<1>2. ASSUME NEW r \in Req, NEW a \in Token, NEW t \in Token, RefreshStart(r, a, t)
      PROVE  ClearInv'
  BY <1>0, <1>2, <1>j DEF RefreshStart, Idle
<1>3. ASSUME NEW r \in Req, NEW a \in Token, LogoutStart(r, a)
      PROVE  ClearInv'
  BY <1>0, <1>3, <1>j DEF LogoutStart, Idle
<1>4. ASSUME NEW r \in Req, NEW u \in User, NEW b \in Bulk, BulkStart(r, u, b)
      PROVE  ClearInv'
  BY <1>0, <1>4, <1>j DEF BulkStart, Idle
<1>5. ASSUME NEW r \in Req, NEW o \in Outcomes, GenerateSession(r, o)
      PROVE  ClearInv'
  BY <1>5, <1>f, <1>g DEF GenerateSession, Pc, Proceed
<1>6. ASSUME NEW r \in Req, NEW o \in Outcomes, StoreRefresh(r, o)
      PROVE  ClearInv'
  <2>1. CASE o = "ok"
    <3>1. PICK t \in Fresh : req' = [req EXCEPT ![r].pc = "writeRow", ![r].new = t]
      BY <1>6, <2>1 DEF StoreRefresh
    <3> QED
      BY <1>0, <1>j, <3>1 DEF Request
  <2>2. CASE o # "ok"
    BY <1>6, <1>f, <2>2 DEF StoreRefresh
  <2> QED
    BY <2>1, <2>2
<1>7. ASSUME NEW r \in Req, NEW o \in Outcomes, CreateRefreshSession(r, o)
      PROVE  ClearInv'
  BY <1>0, <1>7, <1>j DEF CreateRefreshSession, Goto
<1>8. ASSUME NEW r \in Req, NEW o \in Outcomes, UndoSession(r, o)
      PROVE  ClearInv'
  BY <1>0, <1>8, <1>j DEF UndoSession, Finish, Idle
<1>9. ASSUME NEW r \in Req, NEW o \in Outcomes, RotateRefreshSession(r, o)
      PROVE  ClearInv'
  BY <1>0, <1>9, <1>j DEF RotateRefreshSession, Finish, Idle
<1>10. ASSUME NEW r \in Req, NEW o \in Outcomes, DeleteSession(r, o)
      PROVE  ClearInv'
  BY <1>0, <1>10, <1>j DEF DeleteSession, Goto
<1>11. ASSUME NEW r \in Req, NEW o \in Outcomes, RevokeSession(r, o)
      PROVE  ClearInv'
  BY <1>0, <1>11, <1>j DEF RevokeSession, Finish, Idle
<1>12. ASSUME NEW r \in Req, NEW o \in Outcomes, ListActiveSessionIDs(r, o)
      PROVE  ClearInv'
  <2>1. /\ req'[r].todo \subseteq ActiveSessions(req[r].user) \ {req[r].sid}
        /\ req'[r].pc = "stmt" /\ req'[r].sid = req[r].sid /\ req'[r].user = req[r].user
    BY <1>0, <1>12 DEF ListActiveSessionIDs, Request
  <2>2. \A s \in req'[r].todo :
          s # req'[r].sid /\ rowState'[s] # "none" /\ rowUser'[s] = req'[r].user
    BY <2>1, <1>m DEF ActiveSessions
  <2>3. \A q \in Req \ {r} : req'[q] = req[q]
    BY <1>0, <1>12 DEF ListActiveSessionIDs
  <2> QED
    BY <1>k, <2>1, <2>2, <2>3 DEF ClearInv
<1>13. ASSUME NEW r \in Req, RevokeAllUserSessions(r)
      PROVE  ClearInv'
  <2>1. /\ req'[r].pc = "commit" /\ req'[r].sid = req[r].sid
        /\ req'[r].user = req[r].user /\ req'[r].todo = req[r].todo
        /\ req'[r].held = ActiveSessions(req[r].user) \ {req[r].sid}
        /\ req[r].pc = "stmt"
    BY <1>0, <1>13 DEF RevokeAllUserSessions, Request
  <2>2. \A s \in req[r].todo :
          /\ s \in Sid /\ s # req[r].sid /\ rowState[s] # "none" /\ rowUser[s] = req[r].user
    BY <1>0, <2>1 DEF ClearInv
  <2>3. \A s \in req[r].todo : s \in req'[r].held \/ rowState[s] = "revoked"
    BY <1>0, <2>1, <2>2 DEF ActiveSessions
  <2>4. \A q \in Req \ {r} : req'[q] = req[q]
    BY <1>0, <1>13 DEF RevokeAllUserSessions
  <2> QED
    BY <1>k, <1>m, <2>1, <2>2, <2>3, <2>4 DEF ClearInv
<1>14. ASSUME NEW r \in Req, NEW o \in Outcomes, Commit(r, o)
      PROVE  ClearInv'
  <2>1. \A q \in Req \ {r} : req'[q] = req[q]
    BY <1>0, <1>14 DEF Commit, Finish
  <2>2. CASE o = "ok"
    <3>1. /\ req'[r].pc = "clear" /\ req'[r].sid = req[r].sid
          /\ req'[r].user = req[r].user /\ req'[r].todo = req[r].todo
          /\ req[r].pc = "commit"
      BY <1>0, <1>14, <2>2 DEF Commit, Request
    <3>2. \A s \in Sid : s \in req[r].held /\ rowState[s] = "active" => rowState'[s] = "revoked"
      BY <1>14, <2>2 DEF Commit, Applied
    <3>3. \A s \in req[r].todo :
            /\ s \in Sid /\ s # req[r].sid /\ rowState[s] # "none" /\ rowUser[s] = req[r].user
            /\ s \in req[r].held \/ rowState[s] = "revoked"
      BY <1>0, <3>1 DEF ClearInv
    <3>4. \A s \in req[r].todo : rowState'[s] = "revoked"
      BY <1>0, <1>m, <3>2, <3>3
    <3> QED
      BY <1>k, <1>m, <2>1, <3>1, <3>3, <3>4 DEF ClearInv
  <2>3. CASE o # "ok"
    BY <1>j, <1>0, <1>14, <2>1, <2>3 DEF Commit, Finish, Idle
  <2> QED
    BY <2>2, <2>3
<1>15. ASSUME NEW r \in Req, NEW s \in Sid, NEW o \in Outcomes, ClearKeys(r, s, o)
      PROVE  ClearInv'
  <2>1. \A q \in Req \ {r} : req'[q] = req[q]
    BY <1>0, <1>15 DEF ClearKeys
  <2>2. /\ req'[r].pc = "clear" /\ req'[r].sid = req[r].sid /\ req'[r].user = req[r].user
        /\ req'[r].todo \subseteq req[r].todo /\ req[r].pc = "clear"
    BY <1>0, <1>15 DEF ClearKeys, Request
  <2>3. \A c \in req'[r].todo :
          /\ c # req'[r].sid /\ rowState'[c] # "none" /\ rowUser'[c] = req'[r].user
          /\ rowState'[c] = "revoked"
    BY <1>0, <1>m, <2>2 DEF ClearInv
  <2> QED
    BY <1>k, <2>1, <2>2, <2>3 DEF ClearInv
<1>16. ASSUME NEW r \in Req, ReturnLogin(r)
      PROVE  ClearInv'
  BY <1>0, <1>16, <1>j DEF ReturnLogin, Finish, Idle
<1>17. ASSUME NEW r \in Req, GetRefreshKey(r)
      PROVE  ClearInv'
  BY <1>17, <1>f, <1>g DEF GetRefreshKey, Pc
<1>18. ASSUME NEW r \in Req, GetRefreshSession(r)
      PROVE  ClearInv'
  BY <1>18, <1>f, <1>g DEF GetRefreshSession, Pc
<1>19. ASSUME NEW r \in Req, GetUserByID(r)
      PROVE  ClearInv'
  BY <1>0, <1>19, <1>j DEF GetUserByID, Goto
<1>20. ASSUME NEW r \in Req,
             RandomTokenFails(r) \/ ReadFails(r) \/ BulkDone(r) \/ Crash(r)
      PROVE  ClearInv'
  BY <1>0, <1>20, <1>j DEF RandomTokenFails, ReadFails, BulkDone, Crash, Finish, Idle
<1>21. ASSUME NEW s \in Sid,
             CronRevoke(s) \/ SessionKeyExpires(s) \/ RefreshKeyExpires(s)
      PROVE  ClearInv'
  <2>1. req' = req
    BY <1>21 DEF CronRevoke, SessionKeyExpires, RefreshKeyExpires
  <2> QED
    BY <1>j, <2>1
<1>22. ASSUME NEW u \in User, Reinstate(u)
      PROVE  ClearInv'
  <2>1. req' = req
    BY <1>22 DEF Reinstate
  <2> QED
    BY <1>j, <2>1
<1>23. CASE UNCHANGED vars
  BY <1>j, <1>23 DEF vars
<1> QED
  BY <1>1, <1>2, <1>3, <1>4, <1>5, <1>6, <1>7, <1>8, <1>9, <1>10, <1>11, <1>12, <1>13, <1>14, <1>15, <1>16, <1>17, <1>18, <1>19, <1>20, <1>21, <1>22, <1>23
     DEF Next, Arrive, Step, Environment

\* Ban, disable, delete, force-logout, reset and change delete the Redis keys
\* of revoked sessions only, however logins, refreshes and other bulk
\* operations on the account interleave with them.
THEOREM KeysClearedLast == Spec => []ClearsOnlyRevoked
<1>1. Init => ClearInv
  BY DEF Init, Idle, ClearInv
<1>2. ClearInv => ClearsOnlyRevoked
  BY DEF ClearInv, ClearsOnlyRevoked, At
<1> QED
  BY <1>1, <1>2, ClearStep, Invariance, PTL DEF Spec
=============================================================================
