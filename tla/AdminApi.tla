------------------------------ MODULE AdminApi ------------------------------
(***************************************************************************)
(* The admin API: who may call it, whom it may touch, and in whose name    *)
(* the audit triggers record what it did.  The state is the role, status   *)
(* and deletion of every account, the sessions with the roles their access *)
(* tokens carry, and app.actor_id on the pooled connections.               *)
(*                                                                         *)
(* Authorization is by the role claim of an access token, as old as the    *)
(* login or refresh it was made at and good until it expires, even when a  *)
(* later refresh has made another: the middleware asks Redis only whether  *)
(* session:<id> exists.  The protection of admins is by a row read before  *)
(* the transaction, backed by trg_prevent_admin_demotion inside it.  Which *)
(* refresh token a session takes is the subject of Sessions and left out,  *)
(* as are the listings, which change nothing.  Banned and disabled are one *)
(* status: nothing tells them apart.                                       *)
(***************************************************************************)
EXTENDS Naturals, FiniteSets

CONSTANTS
    Req,     \* request slots
    User,
    Founder, \* the accounts that are admins from the start, provisioned by hand
    Sess,    \* session ids
    Conn,    \* pooled connections
    None,    \* no user, session, connection or actor
    Faults   \* TRUE: any store call may fail

\* app.actor_id reads NULL until it is set on a connection for the first time,
\* and as the empty string after the transaction that set it; the cast of the
\* empty string to UUID fails.
Unset == "unset"
Empty == "empty"
Fails == "fails"

ASSUME AdminApiAssumption ==
    /\ IsFiniteSet(Req) /\ Founder \subseteq User
    /\ None \notin User \cup Sess \cup Conn
    /\ \A u \in User \cup {None} : u \notin {Unset, Empty, Fails}
    /\ Conn # {} /\ Faults \in BOOLEAN

VARIABLES
    role,    \* users.role
    usable,  \* users.status is neither banned nor disabled
    deleted, \* users.deleted_at is set
    sess,    \* sess[s]: the session, or NoSession
    guc,     \* guc[k]: app.actor_id on connection k
    req,     \* req[r]: the local state of request r
    wrong    \* history: an audit entry named someone else than who made the change

users == <<role, usable, deleted>>
vars == <<role, usable, deleted, sess, guc, req, wrong>>

Role == {"user", "moderator", "admin"}
roleRank == [x \in Role |-> CASE x = "user" -> 0 [] x = "moderator" -> 1 [] x = "admin" -> 2]

\* tokens: the role claims of its unexpired access tokens; keys: which of
\* session:<id> and refresh:<id> exist; revoked: sessions.revoked.
Key == {"session", "refresh"}
Session == [user : User, tokens : SUBSET Role, keys : SUBSET Key, revoked : BOOLEAN]
NoSession == [user |-> None, tokens |-> {}, keys |-> {}, revoked |-> FALSE]

\* The routes that write, and the role each is registered with (faulty
\* variant: moderator for all).
Op == {"block", "restore", "logout", "reset", "role", "delete"}
minModerator(op) == "moderator"
min(op) == IF op \in {"role", "delete"} THEN "admin" ELSE "moderator"
Revokes(op) == op \in {"block", "logout", "delete"}

Pc == {"idle", "open", "refresh", "row", "load", "list", "tx", "write", "drop", "create",
       "note", "mail"}

\* conn: the connection of the transaction.  late (history): the target was
\* an admin when the request began.
Request == [pc : Pc, actor : User \cup {None}, sid : Sess \cup {None}, claim : Role,
            op : Op, target : User \cup {None}, new : Role, listed : SUBSET Sess,
            conn : Conn \cup {None}, late : BOOLEAN]
Idle == [pc |-> "idle", actor |-> None, sid |-> None, claim |-> "user", op |-> "logout",
         target |-> None, new |-> "user", listed |-> {}, conn |-> None, late |-> FALSE]

At(r, p) == req[r].pc = p
Goto(r, p) == req' = [req EXCEPT ![r].pc = p]
Finish(r) == req' = [req EXCEPT ![r] = Idle]

\* A store call either works or reports an error without effect.
Outcome == IF Faults THEN {"ok", "lost"} ELSE {"ok"}

Usable(u) == usable[u] /\ ~deleted[u]

-----------------------------------------------------------------------------
(* Where the role claim comes from *)

\* A login, by whichever way: the row with role and status is read first.
Login(r, u) ==
    /\ req[r] = Idle /\ Usable(u)
    /\ req' = [req EXCEPT ![r] = [Idle EXCEPT !.pc = "open", !.actor = u, !.claim = role[u]]]
    /\ UNCHANGED <<users, sess, guc, wrong>>

\* An id nothing refers to any more stands for the next fresh one.
Unused(s) ==
    /\ sess[s].tokens = {} /\ sess[s].keys = {}
    /\ \A r \in Req : req[r].sid # s /\ s \notin req[r].listed

\* Keys, row and reply; of a pair that is not delivered nothing can be used.
issueLoginSession(r, o) ==
    /\ At(r, "open")
    /\ \/ /\ o = "ok"
          /\ \E s \in Sess :
               /\ Unused(s)
               /\ sess' = [sess EXCEPT ![s] = [user |-> req[r].actor, tokens |-> {req[r].claim},
                                               keys |-> Key, revoked |-> FALSE]]
       \/ /\ o # "ok" \/ \A s \in Sess : ~Unused(s)
          /\ UNCHANGED sess
    /\ Finish(r)
    /\ UNCHANGED <<users, guc, wrong>>

StartRefresh(r, s, claim) ==
    req' = [req EXCEPT ![r] = [Idle EXCEPT !.pc = "refresh", !.actor = sess[s].user,
                                           !.sid = s, !.claim = claim]]

\* Faulty variants: the new token repeats a claim of the old ones; neither the
\* keys nor the row are looked at.
RefreshKeepsClaim(r, s) ==
    /\ req[r] = Idle
    /\ "refresh" \in sess[s].keys /\ ~sess[s].revoked /\ Usable(sess[s].user)
    /\ \E c \in sess[s].tokens : StartRefresh(r, s, c)
    /\ UNCHANGED <<users, sess, guc, wrong>>
RefreshUnknown(r, s) ==
    /\ req[r] = Idle
    /\ StartRefresh(r, s, IF sess[s].user = None THEN "user" ELSE role[sess[s].user])
    /\ UNCHANGED <<users, sess, guc, wrong>>

\* The checks of the keys, the row and the user, who is read again with the role.
RefreshToken(r, s) ==
    /\ req[r] = Idle
    /\ "refresh" \in sess[s].keys /\ ~sess[s].revoked /\ Usable(sess[s].user)
    /\ StartRefresh(r, s, role[sess[s].user])
    /\ UNCHANGED <<users, sess, guc, wrong>>

\* Both keys are set, whatever has happened to the session meanwhile; an error
\* of the second call leaves the first key.
RotateSessionTokens(r, o) ==
    /\ At(r, "refresh")
    /\ \E set \in IF o = "ok" THEN {Key} ELSE {{}, {"session"}} :
          sess' = [sess EXCEPT ![req[r].sid].keys = @ \cup set]
    /\ IF o = "ok" THEN Goto(r, "row") ELSE Finish(r)
    /\ UNCHANGED <<users, guc, wrong>>

\* A revoked row is not updated and nothing is returned; otherwise the client
\* gets one more token.  The old ones are none the worse for it.
RotateRefreshSession(r, o) ==
    /\ At(r, "row")
    /\ sess' = IF o = "ok" /\ ~sess[req[r].sid].revoked
               THEN [sess EXCEPT ![req[r].sid].tokens = @ \cup {req[r].claim}] ELSE sess
    /\ Finish(r)
    /\ UNCHANGED <<users, guc, wrong>>

-----------------------------------------------------------------------------
(* The admin requests *)

\* JWTMiddleware with an unexpired token of an existing session, requireRole
\* with the route's minimum, and the part of loadAdminTarget that asks no
\* store: nobody targets himself.
requireRole(r, s, c, op, t, new) ==
    /\ req[r] = Idle
    /\ "session" \in sess[s].keys /\ c \in sess[s].tokens
    /\ roleRank[c] >= roleRank[min(op)]
    /\ t # sess[s].user
    /\ op # "role" => new = "user"
    /\ req' = [req EXCEPT ![r] = [Idle EXCEPT !.pc = "load", !.actor = sess[s].user, !.op = op,
                                              !.target = t, !.new = new,
                                              !.late = role[t] = "admin"]]
    /\ UNCHANGED <<users, sess, guc, wrong>>

NextPc(op) == IF Revokes(op) THEN "list" ELSE IF op = "reset" THEN "create" ELSE "tx"

\* Faulty variant: the target's role is not looked at.
loadAnyTarget(r, o) ==
    /\ At(r, "load")
    /\ Goto(r, NextPc(req[r].op))
    /\ UNCHANGED <<users, sess, guc, wrong>>

\* GetUserByIDAdmin, deleted accounts included; an admin is refused, and so is
\* the role of admin.
loadAdminTarget(r, o) ==
    /\ At(r, "load")
    /\ IF o = "ok" /\ role[req[r].target] # "admin" /\ req[r].new # "admin"
       THEN Goto(r, NextPc(req[r].op)) ELSE Finish(r)
    /\ UNCHANGED <<users, sess, guc, wrong>>

\* An error is only logged: the list is empty then.
ListActiveSessionIDs(r, o) ==
    /\ At(r, "list")
    /\ req' = [req EXCEPT ![r] = [@ EXCEPT
         !.pc = "tx",
         !.listed = {s \in Sess : o = "ok" /\ sess[s].user = req[r].target /\ ~sess[s].revoked}]]
    /\ UNCHANGED <<users, sess, guc, wrong>>

\* BeginTx on a connection nobody uses, and set_config with is_local there.
InPool(k) == \A r \in Req : req[r].conn # k

SetActorID(r, o) ==
    /\ At(r, "tx")
    /\ \E k \in Conn :
         /\ InPool(k)
         /\ \/ /\ o = "ok"
               /\ guc' = [guc EXCEPT ![k] = req[r].actor]
               /\ req' = [req EXCEPT ![r] = [@ EXCEPT !.pc = "write", !.conn = k]]
            \/ /\ o # "ok"
               /\ guc' \in {guc, [guc EXCEPT ![k] = Empty]}
               /\ Finish(r)
    /\ UNCHANGED <<users, sess, wrong>>

\* Faulty variant: the setting outlives the transaction.
SessionWideActor(k) == UNCHANGED guc

\* Commit or rollback: what is_local leaves on the connection.
EndTx(k) == guc' = [guc EXCEPT ![k] = Empty]

\* NULLIF(..., '') and the cast.
NullIf(v) == IF v = Empty THEN Unset ELSE v
Cast(v) == CASE v = Unset -> None [] v = Empty -> Fails [] OTHER -> v

\* Whom the audit triggers name for a statement on the connection (faulty
\* variant: as they were before migration 007).
UnguardedActor(k) == Cast(guc[k])
CurrentActor(k) == Cast(NullIf(guc[k]))

\* Faulty variant: the update does not meet trg_prevent_admin_demotion.
UntriggeredRow(op, t, new) ==
    /\ role' = IF op = "role" /\ ~deleted[t] THEN [role EXCEPT ![t] = new] ELSE role
    /\ usable' = IF op \in {"block", "restore"} /\ ~deleted[t]
                 THEN [usable EXCEPT ![t] = op = "restore"] ELSE usable
    /\ deleted' = IF op = "delete" THEN [deleted EXCEPT ![t] = TRUE] ELSE deleted

\* SetUserStatus, SetUserRole and SoftDeleteUser leave a deleted row alone;
\* the trigger fails an update that would take the role of admin away.
UpdateRow(op, t, new) ==
    /\ op = "role" /\ ~deleted[t] => role[t] # "admin"
    /\ role' = IF op = "role" /\ ~deleted[t] THEN [role EXCEPT ![t] = new] ELSE role
    /\ usable' = IF op \in {"block", "restore"} /\ ~deleted[t]
                 THEN [usable EXCEPT ![t] = op = "restore"] ELSE usable
    /\ deleted' = IF op = "delete" THEN [deleted EXCEPT ![t] = TRUE] ELSE deleted

\* log_user_update: a status or a role that may have changed.
Triggers(op, t) == op \in {"block", "restore", "role"} /\ ~deleted[t]

\* The rest of the transaction of setUserStatusAction, ForceLogoutUser,
\* ChangeUserRole and DeleteUser: the row with the trigger's audit entry, the
\* sessions, and an entry that names the actor itself.  One that is rolled
\* back leaves nothing but the connection the setting was made on.
WithActor(r, o) ==
    /\ At(r, "write")
    /\ EndTx(req[r].conn)
    /\ LET op == req[r].op
           t == req[r].target
       IN \/ /\ o = "ok" /\ UpdateRow(op, t, req[r].new)
             /\ sess' = [s \in Sess |-> IF Revokes(op) /\ sess[s].user = t
                                        THEN [sess[s] EXCEPT !.revoked = TRUE] ELSE sess[s]]
             /\ wrong' = (wrong \/ (Triggers(op, t) /\ CurrentActor(req[r].conn) # req[r].actor))
             /\ IF Revokes(op)
                THEN req' = [req EXCEPT ![r] = [@ EXCEPT !.pc = "drop", !.conn = None]]
                ELSE Finish(r)
          \/ /\ o # "ok" \/ (op = "role" /\ ~deleted[t] /\ role[t] = "admin")
             /\ Finish(r)
             /\ UNCHANGED <<users, sess, wrong>>

\* DeleteSession for each session listed; errors are only logged.
DeleteSessions(r, o) ==
    /\ At(r, "drop")
    /\ sess' = [s \in Sess |-> IF o = "ok" /\ s \in req[r].listed
                               THEN [sess[s] EXCEPT !.keys = {}] ELSE sess[s]]
    /\ Finish(r)
    /\ UNCHANGED <<users, guc, wrong>>

\* AdminResetUserPassword; what becomes of the token is in Credentials.
CreatePasswordReset(r, o) ==
    /\ At(r, "create")
    /\ IF o = "ok" THEN Goto(r, "note") ELSE Finish(r)
    /\ UNCHANGED <<users, sess, guc, wrong>>

\* Its audit entry, outside any transaction, names the actor itself; an error
\* is only logged.
CreateAuditLog(r, o) ==
    /\ At(r, "note")
    /\ Goto(r, "mail")
    /\ UNCHANGED <<users, sess, guc, wrong>>

SendPasswordResetEmail(r, o) ==
    /\ At(r, "mail")
    /\ Finish(r)
    /\ UNCHANGED <<users, sess, guc, wrong>>

-----------------------------------------------------------------------------
(* Around the requests *)

\* A statement of a user on his own rows that fires an audit trigger (a
\* password change, a failed login, an MFA factor), on any free connection.
SelfService ==
    /\ \E k \in Conn : InPool(k) /\ wrong' = (wrong \/ CurrentActor(k) # None)
    /\ UNCHANGED <<users, sess, guc, req>>

\* Direct database access; the trigger keeps it from demoting an admin.
ProvisionAdmin(u) ==
    /\ role[u] # "admin" /\ ~deleted[u]
    /\ role' = [role EXCEPT ![u] = "admin"]
    /\ UNCHANGED <<usable, deleted, sess, guc, req, wrong>>

AccessTokenExpires(s, c) ==
    /\ c \in sess[s].tokens
    /\ sess' = [sess EXCEPT ![s].tokens = @ \ {c}]
    /\ UNCHANGED <<users, guc, req, wrong>>

\* Logout, revokeCompromisedSession or the session's own expiry.
SessionEnds(s) ==
    /\ sess[s].keys # {}
    /\ sess' = [sess EXCEPT ![s] = [@ EXCEPT !.keys = {}, !.revoked = TRUE]]
    /\ UNCHANGED <<users, guc, req, wrong>>

-----------------------------------------------------------------------------
Init ==
    /\ role = [u \in User |-> IF u \in Founder THEN "admin" ELSE "user"]
    /\ usable = [u \in User |-> TRUE] /\ deleted = [u \in User |-> FALSE]
    /\ sess = [s \in Sess |-> NoSession] /\ guc = [k \in Conn |-> Unset]
    /\ req = [r \in Req |-> Idle] /\ wrong = FALSE

Arrive(r) ==
    \/ \E u \in User : Login(r, u)
    \/ \E s \in Sess : RefreshToken(r, s)
    \/ \E s \in Sess, c \in Role, op \in Op, t \in User, new \in Role :
         requireRole(r, s, c, op, t, new)

Step(r) ==
    \E o \in Outcome :
        \/ issueLoginSession(r, o)
        \/ RotateSessionTokens(r, o)
        \/ RotateRefreshSession(r, o)
        \/ loadAdminTarget(r, o)
        \/ ListActiveSessionIDs(r, o)
        \/ SetActorID(r, o)
        \/ WithActor(r, o)
        \/ DeleteSessions(r, o)
        \/ CreatePasswordReset(r, o)
        \/ CreateAuditLog(r, o)
        \/ SendPasswordResetEmail(r, o)

Environment ==
    \/ SelfService
    \/ \E u \in User : ProvisionAdmin(u)
    \/ \E s \in Sess, c \in Role : AccessTokenExpires(s, c)
    \/ \E s \in Sess : SessionEnds(s)

Next == Environment \/ \E r \in Req : Arrive(r) \/ Step(r)

\* Requests are bounded by RequestTimeout and access tokens by their TTL;
\* nobody has to send a request.
Fairness ==
    /\ \A r \in Req : WF_vars(Step(r))
    /\ \A s \in Sess, c \in Role : WF_vars(AccessTokenExpires(s, c))

Spec == Init /\ [][Next]_vars
FairSpec == Spec /\ Fairness

-----------------------------------------------------------------------------
(* Properties *)

TypeOK ==
    /\ role \in [User -> Role]
    /\ usable \in [User -> BOOLEAN] /\ deleted \in [User -> BOOLEAN]
    /\ sess \in [Sess -> Session \cup {NoSession}]
    /\ guc \in [Conn -> User \cup {Unset, Empty}]
    /\ req \in [Req -> Request] /\ wrong \in BOOLEAN

Admins == {u \in User : role[u] = "admin"}

\* "there is no API path - at any role - that can ever create or remove an
\* admin": whatever is read before and written after an account is
\* provisioned, only ProvisionAdmin changes who is an admin.
AdminsOnlyProvisioned ==
    [][Admins' # Admins => Admins \subseteq Admins' /\ req' = req]_vars

\* The role claim may be stale, yet whoever changes a role or deletes an
\* account is an admin at that moment, because nobody stops being one.
AdminOnlyByAdmins ==
    \A r \in Req : ~At(r, "idle") /\ req[r].op \in {"role", "delete"}
        => role[req[r].actor] = "admin"

\* "refuses to touch any account that already has the admin role": a request
\* against an account that was an admin when it began gets nowhere.
AdminProtected == \A r \in Req : req[r].late => At(r, "load")

\* "Every admin write is attributed ... to the actual admin": the entry a
\* trigger writes inside an admin's transaction names that admin and nobody
\* else, and on the connections admins have used no change of a user on his own
\* rows is attributed to one of them, or fails.  (The entry of an admin's
\* password reset is a statement of its own, and is missing if that fails.)
Attributed == ~wrong

\* A demotion takes effect: once an account stays an ordinary user, a time
\* comes from which on no access token of it says otherwise, though the
\* tokens of before live on through every refresh and a refresh that read the
\* old role may still deliver one.
DemotionTakesEffect ==
    \A u \in User :
        <>[](role[u] = "user") =>
            <>[](\A s \in Sess : sess[s].user = u => sess[s].tokens \subseteq {"user"})
=============================================================================
