------------------------------ MODULE Sessions ------------------------------
(***************************************************************************)
(* The session lifecycle of the service across its two stores.             *)
(*                                                                         *)
(* Postgres holds one row per session (rowState, rowUser, rowHash); Redis  *)
(* holds the keys session:<id> (rSession) and refresh:<id> (rRefresh).     *)
(* Every HTTP request is a goroutine and every store call it makes is one  *)
(* atomic step, so requests interleave between any two calls.  The         *)
(* transactions run at Postgres' default READ COMMITTED level: the UPDATE  *)
(* that revokes a user's sessions fixes and locks the rows it hits, and    *)
(* its effect becomes visible at the commit, a later step.                 *)
(*                                                                         *)
(* A refresh token and its hash are one value: SHA-256 of 256 random bits  *)
(* is taken to be injective.  The token also names the pair it was minted  *)
(* in, so that "access token t" is the JWT signed next to refresh token t. *)
(***************************************************************************)
CONSTANTS
    Req,      \* request slots: how many requests can be in flight at once
    User,     \* accounts
    Sid,      \* session ids that uuid.NewString can return
    Token,    \* refresh tokens that auth.RandomToken can return
    NoSid, NoUser, NoToken,
    Outcomes, \* what a store call may do, see Outcome
    Bulk      \* the bulk revocations that arrive, a subset of BulkOps

\* "ok": applied and reported so.  "lost": an error, nothing applied.
\* "late": applied, but the caller sees an error (deadline, lost reply).
Outcome == {"ok", "lost", "late"}

\* Operations that revoke a user's sessions; the first three also block the user.
BlockOps == {"ban", "disable", "delete"}
BulkOps == BlockOps \cup {"force", "reset", "change"}

ASSUME ConstAssumption ==
    /\ NoSid \notin Sid
    /\ NoUser \notin User
    /\ NoToken \notin Token
    /\ Outcomes \subseteq Outcome
    /\ "ok" \in Outcomes
    /\ Bulk \subseteq BulkOps

VARIABLES
    status, deleted,            \* users.status ("offline" behaves as "active"),
                                \* users.deleted_at
    rowState, rowUser, rowHash, \* table sessions
    rSession, rRefresh,         \* Redis keys session:<id>, refresh:<id>
    usedSid,                    \* session ids handed out so far
    req,                        \* req[r]: the local state of request r
    tokSid, tokUser, parent,    \* per minted pair: its JWT's claims, and the
                                \* refresh token presented to obtain it
    stored,                     \* history: tokens ever written to rowHash
    delivered,                  \* history: pairs returned to a client
    late,                       \* history: rows inserted while a blocking
                                \* transaction of their owner was committing
    loggedOut                   \* history: sessions Logout reported closed

acct == <<status, deleted>>
rows == <<rowState, rowUser, rowHash>>
redis == <<rSession, rRefresh>>
minting == <<usedSid, tokSid, tokUser, parent>>
hist == <<stored, delivered, late, loggedOut>>
vars == <<status, deleted, rowState, rowUser, rowHash, rSession, rRefresh,
          usedSid, req, tokSid, tokUser, parent, stored, delivered, late,
          loggedOut>>

-----------------------------------------------------------------------------
(* Requests *)

Op == {"none", "login", "refresh", "logout"} \cup BulkOps
Pc == {"idle", "setSession", "setRefresh", "writeRow", "undo", "record",
       "getRefresh", "getRow", "getUser", "del", "revoke",
       "list", "stmt", "commit", "clear"}

\* old: the refresh token presented; new: the one just minted; todo: the
\* snapshot of session ids to delete from Redis; held: row locks.
Request == [op : Op, pc : Pc, sid : Sid \cup {NoSid}, user : User \cup {NoUser},
            old : Token \cup {NoToken}, new : Token \cup {NoToken},
            todo : SUBSET Sid, held : SUBSET Sid]

Idle == [op |-> "none", pc |-> "idle", sid |-> NoSid, user |-> NoUser,
         old |-> NoToken, new |-> NoToken, todo |-> {}, held |-> {}]

At(r, p) == req[r].pc = p
Goto(r, p) == req' = [req EXCEPT ![r].pc = p]
Finish(r) == req' = [req EXCEPT ![r] = Idle]

\* Continue at p if the call succeeded, else return the error to the client.
Proceed(r, o, p) == IF o = "ok" THEN Goto(r, p) ELSE Finish(r)

Applied(o) == o # "lost"

-----------------------------------------------------------------------------
(* Reading the stores *)

\* The account checks shared by login, refresh, reset and change.
Usable(u) == u \notin deleted /\ status[u] \notin {"banned", "disabled"}

\* ListActiveSessionIDs, and the rows RevokeAllUserSessions selects.
ActiveSessions(u) == {s \in Sid : rowState[s] = "active" /\ rowUser[s] = u}

\* A row locked by an uncommitted bulk revocation: other writers wait.
Locked(s) == \E r \in Req : At(r, "commit") /\ s \in req[r].held

\* The middleware admits an access token while its session key exists.
\* The JWT's own expiry is not modelled: it only shrinks this set.
VerifyAndParseJWT(a) == a \in delivered /\ tokSid[a] \in rSession

Fresh == {t \in Token : tokSid[t] = NoSid}

-----------------------------------------------------------------------------
(* Issuing a session: the tail of every login and of email join *)

\* The credentials of u were just verified and u was usable when read.
IssueStart(r, u) ==
    /\ req[r] = Idle
    /\ Usable(u)
    /\ \E s \in Sid \ usedSid :
         /\ usedSid' = usedSid \cup {s}
         /\ req' = [req EXCEPT ![r] =
                      [Idle EXCEPT !.op = "login", !.pc = "setSession",
                                   !.sid = s, !.user = u]]
    /\ UNCHANGED <<acct, rows, redis, tokSid, tokUser, parent, hist>>

\* SET session:<id>, for a new session and for a rotation alike.
GenerateSession(r, o) ==
    /\ At(r, "setSession")
    /\ rSession' = IF Applied(o) THEN rSession \cup {req[r].sid} ELSE rSession
    /\ Proceed(r, o, "setRefresh")
    /\ UNCHANGED <<acct, rows, rRefresh, minting, hist>>

\* A fresh refresh token is drawn and its hash SET at refresh:<id>.  Running
\* out of Token, the bound on minted tokens, takes RandomToken's error path.
StoreRefresh(r, o) ==
    /\ At(r, "setRefresh")
    /\ \E t \in Fresh :
         /\ tokSid' = [tokSid EXCEPT ![t] = req[r].sid]
         /\ tokUser' = [tokUser EXCEPT ![t] = req[r].user]
         /\ parent' = [parent EXCEPT ![t] = req[r].old]
         /\ rRefresh' = IF Applied(o) THEN [rRefresh EXCEPT ![req[r].sid] = t]
                                      ELSE rRefresh
         /\ IF o = "ok"
            THEN req' = [req EXCEPT ![r].pc = "writeRow", ![r].new = t]
            ELSE Finish(r)
    /\ UNCHANGED <<acct, rows, rSession, usedSid, hist>>

\* Faulty variant: the error of the INSERT is ignored.
CreateRefreshSessionUnchecked(r, o) ==
    /\ At(r, "writeRow") /\ req[r].op = "login"
    /\ IF Applied(o)
       THEN /\ rowState' = [rowState EXCEPT ![req[r].sid] = "active"]
            /\ rowUser' = [rowUser EXCEPT ![req[r].sid] = req[r].user]
            /\ rowHash' = [rowHash EXCEPT ![req[r].sid] = req[r].new]
            /\ stored' = stored \cup {req[r].new}
       ELSE UNCHANGED <<rows, stored>>
    /\ Goto(r, "record")
    /\ UNCHANGED <<acct, redis, minting, delivered, late, loggedOut>>

\* INSERT INTO sessions; an error is answered by deleting the Redis keys.
CreateRefreshSession(r, o) ==
    /\ At(r, "writeRow") /\ req[r].op = "login"
    /\ LET s == req[r].sid IN
         IF Applied(o)
         THEN /\ rowState' = [rowState EXCEPT ![s] = "active"]
              /\ rowUser' = [rowUser EXCEPT ![s] = req[r].user]
              /\ rowHash' = [rowHash EXCEPT ![s] = req[r].new]
              /\ stored' = stored \cup {req[r].new}
              /\ late' = IF \E b \in Req : /\ At(b, "commit")
                                           /\ req[b].op \in BlockOps
                                           /\ req[b].user = req[r].user
                         THEN late \cup {s} ELSE late
         ELSE UNCHANGED <<rows, stored, late>>
    /\ Goto(r, IF o = "ok" THEN "record" ELSE "undo")
    /\ UNCHANGED <<acct, redis, minting, delivered, loggedOut>>

\* DEL session:<id> refresh:<id>
DropKeys(s, o) ==
    IF Applied(o)
    THEN /\ rSession' = rSession \ {s}
         /\ rRefresh' = [rRefresh EXCEPT ![s] = NoToken]
    ELSE UNCHANGED redis

UndoSession(r, o) ==
    /\ At(r, "undo")
    /\ DropKeys(req[r].sid, o)
    /\ Finish(r)
    /\ UNCHANGED <<acct, rows, minting, hist>>

\* recordLoginAttempt never fails the login; the pair goes to the client.
ReturnLogin(r) ==
    /\ At(r, "record")
    /\ delivered' = delivered \cup {req[r].new}
    /\ Finish(r)
    /\ UNCHANGED <<acct, rows, redis, minting, stored, late, loggedOut>>

RandomTokenFails(r) ==
    /\ At(r, "setRefresh")
    /\ Fresh = {}
    /\ Finish(r)
    /\ UNCHANGED <<acct, rows, redis, minting, hist>>

-----------------------------------------------------------------------------
(* RefreshToken *)

\* The session is named by any JWT the client holds, expired or not; the
\* token presented may be from any generation of any session.
RefreshStart(r, a, t) ==
    /\ req[r] = Idle
    /\ a \in delivered /\ t \in delivered
    /\ req' = [req EXCEPT ![r] =
                 [Idle EXCEPT !.op = "refresh", !.pc = "getRefresh",
                              !.sid = tokSid[a], !.user = tokUser[a], !.old = t]]
    /\ UNCHANGED <<acct, rows, redis, minting, hist>>

GetRefreshKey(r) ==
    /\ At(r, "getRefresh")
    /\ LET h == rRefresh[req[r].sid] IN
         \/ h = NoToken /\ Finish(r)
         \/ h = req[r].old /\ Goto(r, "getRow")
         \/ h \notin {NoToken, req[r].old} /\ Goto(r, "del")
    /\ UNCHANGED <<acct, rows, redis, minting, hist>>

\* Faulty variant: the revoked column is not looked at.
GetRefreshSessionRevoked(r) ==
    /\ At(r, "getRow")
    /\ LET s == req[r].sid IN
         IF rowState[s] = "none" THEN Finish(r)
         ELSE Goto(r, IF rowUser[s] = req[r].user /\ rowHash[s] = req[r].old
                      THEN "getUser" ELSE "del")
    /\ UNCHANGED <<acct, rows, redis, minting, hist>>

GetRefreshSession(r) ==
    /\ At(r, "getRow")
    /\ LET s == req[r].sid
           valid == /\ rowState[s] = "active"
                    /\ rowUser[s] = req[r].user
                    /\ rowHash[s] = req[r].old
       IN IF rowState[s] = "none" THEN Finish(r)
          ELSE Goto(r, IF valid THEN "getUser" ELSE "del")
    /\ UNCHANGED <<acct, rows, redis, minting, hist>>

GetUserByID(r) ==
    /\ At(r, "getUser")
    /\ Goto(r, IF Usable(req[r].user) THEN "setSession" ELSE "del")
    /\ UNCHANGED <<acct, rows, redis, minting, hist>>

\* Faulty variant: the UPDATE lacks "AND revoked = FALSE".
RotateRevoked(r, o) ==
    /\ At(r, "writeRow") /\ req[r].op = "refresh"
    /\ ~Locked(req[r].sid)
    /\ IF Applied(o)
       THEN /\ rowHash' = [rowHash EXCEPT ![req[r].sid] = req[r].new]
            /\ stored' = stored \cup {req[r].new}
            /\ delivered' = IF o = "ok" THEN delivered \cup {req[r].new}
                                        ELSE delivered
       ELSE UNCHANGED <<rowHash, stored, delivered>>
    /\ Finish(r)
    /\ UNCHANGED <<acct, rowState, rowUser, redis, minting, late, loggedOut>>

\* UPDATE ... WHERE id AND revoked = FALSE RETURNING: no row is an error, and
\* the Redis keys written before are left as they are.
RotateRefreshSession(r, o) ==
    /\ At(r, "writeRow") /\ req[r].op = "refresh"
    /\ ~Locked(req[r].sid)
    /\ IF Applied(o) /\ rowState[req[r].sid] = "active"
       THEN /\ rowHash' = [rowHash EXCEPT ![req[r].sid] = req[r].new]
            /\ stored' = stored \cup {req[r].new}
            /\ delivered' = IF o = "ok" THEN delivered \cup {req[r].new}
                                        ELSE delivered
       ELSE UNCHANGED <<rowHash, stored, delivered>>
    /\ Finish(r)
    /\ UNCHANGED <<acct, rowState, rowUser, redis, minting, late, loggedOut>>

\* An error from Redis or Postgres while reading: the request ends.
ReadFails(r) ==
    /\ "lost" \in Outcomes
    /\ req[r].pc \in {"getRefresh", "getRow", "getUser"}
    /\ Finish(r)
    /\ UNCHANGED <<acct, rows, redis, minting, hist>>

-----------------------------------------------------------------------------
(* Logout, and revokeCompromisedSession: the keys first, then the row *)

LogoutStart(r, a) ==
    /\ req[r] = Idle
    /\ VerifyAndParseJWT(a)
    /\ req' = [req EXCEPT ![r] =
                 [Idle EXCEPT !.op = "logout", !.pc = "del",
                              !.sid = tokSid[a], !.user = tokUser[a]]]
    /\ UNCHANGED <<acct, rows, redis, minting, hist>>

\* Faulty variant: returns once the keys are gone.
DeleteSessionRedisOnly(r, o) ==
    /\ At(r, "del")
    /\ DropKeys(req[r].sid, o)
    /\ Finish(r)
    /\ UNCHANGED <<acct, rows, minting, hist>>

\* A failed DEL is only logged.
DeleteSession(r, o) ==
    /\ At(r, "del")
    /\ DropKeys(req[r].sid, o)
    /\ Goto(r, "revoke")
    /\ UNCHANGED <<acct, rows, minting, hist>>

\* Faulty variant: the row is deleted, not marked.
RevokeRowDeletes(s) == rowState' = [rowState EXCEPT ![s] = "none"]

RevokeRow(s) ==
    rowState' = [rowState EXCEPT ![s] = IF @ = "active" THEN "revoked" ELSE @]

RevokeSession(r, o) ==
    /\ At(r, "revoke")
    /\ ~Locked(req[r].sid)
    /\ IF Applied(o) THEN RevokeRow(req[r].sid) ELSE UNCHANGED rowState
    /\ loggedOut' = IF o = "ok" /\ req[r].op = "logout"
                    THEN loggedOut \cup {req[r].sid} ELSE loggedOut
    /\ Finish(r)
    /\ UNCHANGED <<acct, rowUser, rowHash, redis, minting, stored, delivered, late>>

-----------------------------------------------------------------------------
(* Bulk revocation: ban, disable, delete, force-logout, reset, change.     *)
(* For "change" the request's own session (sid) is spared.                 *)

BulkStart(r, u, b) ==
    /\ req[r] = Idle
    /\ b \in {"reset", "change"} => Usable(u)
    /\ \E s \in Sid \cup {NoSid} :
         /\ IF b = "change"
            THEN \E a \in delivered : /\ VerifyAndParseJWT(a)
                                      /\ tokUser[a] = u /\ tokSid[a] = s
            ELSE s = NoSid
         /\ req' = [req EXCEPT ![r] = [Idle EXCEPT !.op = b, !.pc = "list",
                                                   !.sid = s, !.user = u]]
    /\ UNCHANGED <<acct, rows, redis, minting, hist>>

\* Faulty variant: the caller's own session is added.
ListWithOwn(r, o) ==
    /\ At(r, "list")
    /\ req' = [req EXCEPT ![r].pc = "stmt",
                          ![r].todo = ActiveSessions(req[r].user) \cup {req[r].sid}]
    /\ UNCHANGED <<acct, rows, redis, minting, hist>>

\* The snapshot taken before the transaction; an error leaves it empty.
ListActiveSessionIDs(r, o) ==
    /\ At(r, "list")
    /\ req' = [req EXCEPT ![r].pc = "stmt",
                          ![r].todo = IF o = "ok"
                                      THEN ActiveSessions(req[r].user) \ {req[r].sid}
                                      ELSE {}]
    /\ UNCHANGED <<acct, rows, redis, minting, hist>>

\* Inside the transaction: the UPDATE selects and locks the active rows.
RevokeAllUserSessions(r) ==
    /\ At(r, "stmt")
    /\ req' = [req EXCEPT ![r].pc = "commit",
                          ![r].held = ActiveSessions(req[r].user) \ {req[r].sid}]
    /\ UNCHANGED <<acct, rows, redis, minting, hist>>

\* SetUserStatus and SoftDeleteUser leave a soft-deleted account alone.
SetAccount(u, b) ==
    /\ status' = IF u \notin deleted /\ b \in {"ban", "disable"}
                 THEN [status EXCEPT ![u] = IF b = "ban" THEN "banned" ELSE "disabled"]
                 ELSE status
    /\ deleted' = IF b = "delete" THEN deleted \cup {u} ELSE deleted

\* Faulty variant: the keys are cleared although the transaction failed.
CommitUnchecked(r, o) ==
    /\ At(r, "commit")
    /\ IF Applied(o)
       THEN /\ rowState' = [s \in Sid |->
                              IF s \in req[r].held /\ rowState[s] = "active"
                              THEN "revoked" ELSE rowState[s]]
            /\ SetAccount(req[r].user, req[r].op)
       ELSE UNCHANGED <<acct, rowState>>
    /\ req' = [req EXCEPT ![r].pc = "clear", ![r].held = {}]
    /\ UNCHANGED <<rowUser, rowHash, redis, minting, hist>>

Commit(r, o) ==
    /\ At(r, "commit")
    /\ IF Applied(o)
       THEN /\ rowState' = [s \in Sid |->
                              IF s \in req[r].held /\ rowState[s] = "active"
                              THEN "revoked" ELSE rowState[s]]
            /\ SetAccount(req[r].user, req[r].op)
       ELSE UNCHANGED <<acct, rowState>>
    /\ IF o = "ok" THEN req' = [req EXCEPT ![r].pc = "clear", ![r].held = {}]
                   ELSE Finish(r)
    /\ UNCHANGED <<rowUser, rowHash, redis, minting, hist>>

\* The loop over the snapshot; a failed DEL is only logged.
ClearKeys(r, s, o) ==
    /\ At(r, "clear") /\ s \in req[r].todo
    /\ DropKeys(s, o)
    /\ req' = [req EXCEPT ![r].todo = @ \ {s}]
    /\ UNCHANGED <<acct, rows, minting, hist>>

BulkDone(r) ==
    /\ At(r, "clear") /\ req[r].todo = {}
    /\ Finish(r)
    /\ UNCHANGED <<acct, rows, redis, minting, hist>>

\* UnbanUser and EnableUser: active, whatever the status was.
Reinstate(u) ==
    /\ u \notin deleted /\ status[u] # "active"
    /\ status' = [status EXCEPT ![u] = "active"]
    /\ UNCHANGED <<deleted, rows, redis, minting, req, hist>>

-----------------------------------------------------------------------------
(* Outside the requests *)

\* cmd/cron: revoke_expired_sessions and revoke_old_sessions, Postgres only.
\* A session kept alive by refreshes is revoked 30 days after its creation,
\* with live Redis keys; each row the UPDATE hits is a step of its own.
CronRevoke(s) ==
    /\ rowState[s] = "active" /\ ~Locked(s)
    /\ RevokeRow(s)
    /\ UNCHANGED <<acct, rowUser, rowHash, redis, minting, req, hist>>

\* TTL expiry, eviction or a flush of Redis: any key may vanish at any time.
SessionKeyExpires(s) ==
    /\ s \in rSession
    /\ rSession' = rSession \ {s}
    /\ UNCHANGED <<acct, rows, rRefresh, minting, req, hist>>

RefreshKeyExpires(s) ==
    /\ rRefresh[s] # NoToken
    /\ rRefresh' = [rRefresh EXCEPT ![s] = NoToken]
    /\ UNCHANGED <<acct, rows, rSession, minting, req, hist>>

\* The process dies or the handler panics: an open transaction rolls back.
Crash(r) ==
    /\ "lost" \in Outcomes
    /\ req[r] # Idle
    /\ Finish(r)
    /\ UNCHANGED <<acct, rows, redis, minting, hist>>

-----------------------------------------------------------------------------
Init ==
    /\ status = [u \in User |-> "active"]
    /\ deleted = {}
    /\ rowState = [s \in Sid |-> "none"]
    /\ rowUser = [s \in Sid |-> NoUser]
    /\ rowHash = [s \in Sid |-> NoToken]
    /\ rSession = {}
    /\ rRefresh = [s \in Sid |-> NoToken]
    /\ usedSid = {}
    /\ req = [r \in Req |-> Idle]
    /\ tokSid = [t \in Token |-> NoSid]
    /\ tokUser = [t \in Token |-> NoUser]
    /\ parent = [t \in Token |-> NoToken]
    /\ stored = {} /\ delivered = {} /\ late = {} /\ loggedOut = {}

Arrive(r) ==
    \/ \E u \in User : IssueStart(r, u)
    \/ \E a, t \in Token : RefreshStart(r, a, t)
    \/ \E a \in Token : LogoutStart(r, a)
    \/ \E u \in User, b \in Bulk : BulkStart(r, u, b)

\* One step of a request in flight.
Step(r) ==
    \/ \E o \in Outcomes :
         \/ GenerateSession(r, o)
         \/ StoreRefresh(r, o)
         \/ CreateRefreshSession(r, o)
         \/ UndoSession(r, o)
         \/ RotateRefreshSession(r, o)
         \/ DeleteSession(r, o)
         \/ RevokeSession(r, o)
         \/ ListActiveSessionIDs(r, o)
         \/ Commit(r, o)
         \/ \E s \in Sid : ClearKeys(r, s, o)
    \/ ReturnLogin(r)
    \/ RandomTokenFails(r)
    \/ GetRefreshKey(r)
    \/ GetRefreshSession(r)
    \/ GetUserByID(r)
    \/ ReadFails(r)
    \/ RevokeAllUserSessions(r)
    \/ BulkDone(r)

Environment ==
    \/ \E u \in User : Reinstate(u)
    \/ \E s \in Sid : CronRevoke(s)
    \/ \E s \in Sid : SessionKeyExpires(s)
    \/ \E s \in Sid : RefreshKeyExpires(s)
    \/ \E r \in Req : Crash(r)

Next == Environment \/ \E r \in Req : Arrive(r) \/ Step(r)

Spec == Init /\ [][Next]_vars

\* A goroutine that was started is scheduled until it returns, and its store
\* calls return: every client call has a deadline.  Nobody has to send
\* requests, so arrivals and the environment are not fair.
FairSpec == Spec /\ \A r \in Req : WF_vars(Step(r))

-----------------------------------------------------------------------------
(* Properties *)

TypeOK ==
    /\ status \in [User -> {"active", "disabled", "banned"}]
    /\ deleted \subseteq User
    /\ rowState \in [Sid -> {"none", "active", "revoked"}]
    /\ rowUser \in [Sid -> User \cup {NoUser}]
    /\ rowHash \in [Sid -> Token \cup {NoToken}]
    /\ rSession \subseteq Sid
    /\ rRefresh \in [Sid -> Token \cup {NoToken}]
    /\ usedSid \subseteq Sid
    /\ req \in [Req -> Request]
    /\ tokSid \in [Token -> Sid \cup {NoSid}]
    /\ tokUser \in [Token -> User \cup {NoUser}]
    /\ parent \in [Token -> Token \cup {NoToken}]
    /\ stored \subseteq Token
    /\ delivered \subseteq Token
    /\ late \subseteq Sid
    /\ loggedOut \subseteq Sid

\* A pair is returned to a client only when its refresh token had reached
\* Postgres, in a row of the account its JWT names: the session survives a
\* Redis flush, and RefreshToken's user check can only fail on a forged id.
DeliveredBacked ==
    \A t \in delivered :
        /\ t \in stored
        /\ rowState[tokSid[t]] # "none"
        /\ rowUser[tokSid[t]] = tokUser[t]

\* RefreshToken never hands out a pair for a session that is revoked in
\* Postgres at that moment, nor for an account that is banned, disabled or
\* deleted at that moment, although it read both earlier and wrote Redis in
\* between.  The only exception is a row inserted while the transaction
\* blocking its owner had already selected the rows to revoke.
RefreshGuarded ==
    [][\A t \in delivered' \ delivered :
          parent[t] # NoToken =>
             /\ rowState[tokSid[t]] = "active"
             /\ \/ Usable(rowUser[tokSid[t]])
                \/ tokSid[t] \in late]_vars

\* A session is dead when it is revoked, has no keys in Redis, and no refresh
\* that passed the row check is still in flight for it.
Rotating(r, s) ==
    /\ req[r].op = "refresh" /\ req[r].sid = s
    /\ req[r].pc \in {"getUser", "setSession", "setRefresh", "writeRow"}

Dead(s) ==
    /\ rowState[s] = "revoked"
    /\ s \notin rSession
    /\ rRefresh[s] = NoToken
    /\ \A r \in Req : ~Rotating(r, s)

\* Nothing the service does brings a dead session back: neither its access
\* tokens nor its refresh tokens work again.  (A login that inserted its row
\* has written its keys before, and no id is issued twice.)
DeadStaysDead == [][\A s \in Sid : Dead(s) => Dead(s)']_vars

\* A bulk operation deletes the Redis keys of a session only once its row is
\* revoked: the snapshot it read before the transaction holds no session that
\* the transaction's own selection missed, and a transaction that failed logs
\* nobody out.
ClearsOnlyRevoked ==
    \A r \in Req : At(r, "clear") =>
        \A s \in req[r].todo : rowState[s] = "revoked"

\* The sessions table keeps the promise of SessionContract.
ChainOf(s) == {t \in stored : tokSid[t] = s}
ParentOf(t) == IF t \in stored THEN parent[t] ELSE NoToken
Contract == INSTANCE SessionContract WITH
    state <- rowState, owner <- rowUser, current <- rowHash,
    chain <- [s \in Sid |-> ChainOf(s)],
    from <- [t \in Token |-> ParentOf(t)]
ContractSpec == Contract!CSpec

\* Once RefreshToken or Logout has decided to close a session, its row is
\* revoked in the end, whatever the other requests do to it.
ReuseRevokes ==
    \A s \in Sid : (\E r \in Req : At(r, "del") /\ req[r].sid = s)
                     ~> (rowState[s] = "revoked")

\* Logout: the session is gone from Redis "immediately (so the access token
\* stops working right away)".
LogoutStopsAccess ==
    \A a \in delivered : tokSid[a] \in loggedOut => ~VerifyAndParseJWT(a)
=============================================================================
