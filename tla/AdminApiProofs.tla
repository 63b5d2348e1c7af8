--------------------------- MODULE AdminApiProofs ---------------------------
(***************************************************************************)
(* Theorems about AdminApi, for any number of requests, accounts, sessions *)
(* and connections: nobody gains or loses the role of admin through the    *)
(* API, the stale claims and stale reads it works with do no harm, and     *)
(* what a trigger records inside an admin's transaction names that admin,  *)
(* while a connection given back to the pool names nobody.                 *)
(***************************************************************************)
EXTENDS AdminApi, TLAPS

\* Which locals a program counter has set.
ControlInv ==
    \A r \in Req :
        LET q == req[r] IN
        /\ q.pc = "idle" => q = Idle
        /\ q.pc # "idle" => q.actor \in User
        /\ q.pc \notin {"idle", "open", "refresh", "row"} => q.target \in User
        /\ q.pc \in {"open", "refresh", "row"} => q.op = "logout" /\ ~q.late

\* A refresh holds a session of its actor: the id is not given away meanwhile.
SidInv ==
    \A r \in Req :
        req[r].pc \in {"refresh", "row"} => req[r].sid \in Sess /\ sess[req[r].sid].user = req[r].actor

\* A token, or one about to be delivered, says admin only for an admin.
ClaimInv ==
    /\ \A s \in Sess : "admin" \in sess[s].tokens => role[sess[s].user] = "admin"
    /\ \A r \in Req : req[r].claim = "admin" => role[req[r].actor] = "admin"

\* Past loadAdminTarget no request carries the role of admin to give, and a
\* target that was an admin still is one.
TargetInv ==
    \A r \in Req :
        /\ req[r].pc \in {"list", "tx", "write"} => req[r].new # "admin"
        /\ req[r].late => role[req[r].target] = "admin"

\* A transaction has a connection of its own that names its actor; those in the
\* pool name nobody.
PoolInv ==
    /\ \A r \in Req : IF At(r, "write") THEN req[r].conn \in Conn /\ guc[req[r].conn] = req[r].actor
                                        ELSE req[r].conn = None
    /\ \A r, q \in Req : At(r, "write") /\ At(q, "write") /\ req[r].conn = req[q].conn => r = q
    /\ \A k \in Conn : guc[k] \in {Unset, Empty} \/ \E r \in Req : At(r, "write") /\ req[r].conn = k

IInv == TypeOK /\ ControlInv /\ SidInv /\ ClaimInv /\ TargetInv /\ AdminOnlyByAdmins
        /\ AdminProtected /\ PoolInv /\ Attributed

-----------------------------------------------------------------------------
\* The initial state satisfies the invariant.
LEMMA InitIInv == Init => IInv
<1> SUFFICES ASSUME Init PROVE IInv
  OBVIOUS
<1> USE AdminApiAssumption DEF Init, Idle, NoSession
<1>1. TypeOK
  BY DEF TypeOK, Role, Session, Request, Pc, Op, Unset, Empty
<1>2. ControlInv /\ SidInv /\ ClaimInv /\ TargetInv
  BY DEF ControlInv, SidInv, ClaimInv, TargetInv
<1>3. AdminOnlyByAdmins /\ AdminProtected
  BY DEF AdminOnlyByAdmins, AdminProtected, At
<1>4. PoolInv /\ Attributed
  BY DEF PoolInv, Attributed, At
<1> QED
  BY <1>1, <1>2, <1>3, <1>4 DEF IInv

\* What the types say of a session in use.
LEMMA SessionUsed ==
    ASSUME TypeOK, NEW s \in Sess,
           sess[s].user \in User \/ sess[s].tokens # {} \/ sess[s].keys # {}
    PROVE  sess[s] \in Session /\ sess[s].user \in User /\ sess[s].tokens \in SUBSET Role
           /\ sess[s].keys \in SUBSET Key
<1>1. sess[s] \in Session \cup {NoSession}
  BY DEF TypeOK
<1>2. NoSession.user = None /\ NoSession.tokens = {} /\ NoSession.keys = {}
  BY DEF NoSession
<1>3. sess[s] \in Session
  BY <1>1, <1>2, AdminApiAssumption
<1> QED
  BY <1>3 DEF Session

\* The request goes on to p with everything it has found out so far.
Proceeds(r, p) ==
    /\ req'[r].pc = p
    /\ req'[r].actor = req[r].actor /\ req'[r].sid = req[r].sid /\ req'[r].claim = req[r].claim
    /\ req'[r].op = req[r].op /\ req'[r].target = req[r].target /\ req'[r].new = req[r].new
    /\ req'[r].late = req[r].late

\* What the calls with an effect elsewhere do to the requests.
LEMMA Proceeding ==
    ASSUME TypeOK, NEW r \in Req, NEW o \in Outcome
    PROVE  /\ RotateSessionTokens(r, o) \/ loadAdminTarget(r, o) \/ SetActorID(r, o)
              \/ WithActor(r, o) \/ CreatePasswordReset(r, o)
              => \A q \in Req : q # r => req'[q] = req[q]
           /\ RotateSessionTokens(r, o) => req'[r] = Idle \/ Proceeds(r, "row")
           /\ loadAdminTarget(r, o) =>
                req'[r] = Idle
                \/ (req[r].new # "admin" /\ role[req[r].target] # "admin"
                    /\ \E p \in {"list", "tx", "create"} : Proceeds(r, p))
           /\ SetActorID(r, o) => req'[r] = Idle \/ Proceeds(r, "write")
           /\ WithActor(r, o) => req'[r] = Idle \/ (Proceeds(r, "drop") /\ req'[r].conn = None)
           /\ CreatePasswordReset(r, o) => req'[r] = Idle \/ Proceeds(r, "note")
<1> USE DEF TypeOK, Goto, Finish, Proceeds
<1>1. req[r] \in Request /\ r \in DOMAIN req
  OBVIOUS
<1>2. ASSUME NEW p, req' = [req EXCEPT ![r].pc = p]
      PROVE  (\A q \in Req : q # r => req'[q] = req[q]) /\ Proceeds(r, p)
  BY <1>1, <1>2 DEF Request
<1>3. ASSUME NEW p, NEW k, req' = [req EXCEPT ![r] = [@ EXCEPT !.pc = p, !.conn = k]]
      PROVE  (\A q \in Req : q # r => req'[q] = req[q]) /\ Proceeds(r, p) /\ req'[r].conn = k
  BY <1>1, <1>3 DEF Request
<1>4. ASSUME req' = [req EXCEPT ![r] = Idle]
      PROVE  (\A q \in Req : q # r => req'[q] = req[q]) /\ req'[r] = Idle
  BY <1>1, <1>4
<1> HIDE DEF TypeOK, Proceeds
<1>5. ASSUME RotateSessionTokens(r, o)
      PROVE  (\A q \in Req : q # r => req'[q] = req[q]) /\ (req'[r] = Idle \/ Proceeds(r, "row"))
  BY <1>2, <1>4, <1>5 DEF RotateSessionTokens
<1>6. ASSUME loadAdminTarget(r, o)
      PROVE  /\ \A q \in Req : q # r => req'[q] = req[q]
             /\ \/ req'[r] = Idle
                \/ /\ req[r].new # "admin" /\ role[req[r].target] # "admin"
                   /\ \E p \in {"list", "tx", "create"} : Proceeds(r, p)
  <2>1. NextPc(req[r].op) \in {"list", "tx", "create"}
    BY DEF NextPc
  <2> QED
    BY <1>2, <1>4, <1>6, <2>1 DEF loadAdminTarget
<1>7. ASSUME SetActorID(r, o)
      PROVE  (\A q \in Req : q # r => req'[q] = req[q]) /\ (req'[r] = Idle \/ Proceeds(r, "write"))
  BY <1>3, <1>4, <1>7 DEF SetActorID
<1>8. ASSUME WithActor(r, o)
      PROVE  /\ \A q \in Req : q # r => req'[q] = req[q]
             /\ req'[r] = Idle \/ (Proceeds(r, "drop") /\ req'[r].conn = None)
  BY <1>3, <1>4, <1>8 DEF WithActor
<1>9. ASSUME CreatePasswordReset(r, o)
      PROVE  (\A q \in Req : q # r => req'[q] = req[q]) /\ (req'[r] = Idle \/ Proceeds(r, "note"))
  BY <1>2, <1>4, <1>9 DEF CreatePasswordReset
<1> QED
  BY <1>5, <1>6, <1>7, <1>8, <1>9

\* A transaction only revokes.
LEMMA SessionsKept ==
    ASSUME TypeOK, NEW r \in Req, NEW o \in Outcome, WithActor(r, o), NEW s \in Sess
    PROVE  sess'[s].user = sess[s].user /\ sess'[s].tokens = sess[s].tokens
<1>1. sess[s] \in Session \cup {NoSession}
  BY DEF TypeOK
<1>2. sess'[s] = sess[s] \/ sess'[s] = [sess[s] EXCEPT !.revoked = TRUE]
  BY DEF WithActor, TypeOK
<1> QED
  BY <1>1, <1>2 DEF Session, NoSession

\* There are no keys to delete where there is no session.
LEMMA NoSessionDropped == [NoSession EXCEPT !.keys = {}] = NoSession
<1> DEFINE Only == [user : {None}, tokens : {{}}, keys : {{}}, revoked : {FALSE}]
<1>1. NoSession \in Only
  BY DEF NoSession
<1>2. [NoSession EXCEPT !.keys = {}] \in Only
  BY <1>1
<1>3. ASSUME NEW x \in Only PROVE x = NoSession
  BY DEF NoSession
<1> QED
  BY <1>2, <1>3

\* Every step keeps the types.
LEMMA TypeStep == IInv /\ [Next]_vars => TypeOK'
<1> SUFFICES ASSUME IInv, [Next]_vars PROVE TypeOK'
  OBVIOUS
<1> USE DEF users, At, Goto, Finish
<1>0. TypeOK /\ ControlInv /\ SidInv /\ PoolInv
  BY DEF IInv
<1>i. Idle \in Request
  BY AdminApiAssumption DEF Idle, Request, Role, Pc, Op
<1>1. ASSUME NEW r \in Req, NEW u \in User, Login(r, u) PROVE TypeOK'
  BY <1>0, <1>i, <1>1 DEF Login, TypeOK, Request, Pc
<1>2. ASSUME NEW r \in Req, NEW s \in Sess, RefreshToken(r, s) PROVE TypeOK'
  <2>1. sess[s].user \in User /\ role[sess[s].user] \in Role
    BY <1>0, <1>2, SessionUsed DEF RefreshToken, TypeOK
  <2>2. [Idle EXCEPT !.pc = "refresh", !.actor = sess[s].user, !.sid = s,
                     !.claim = role[sess[s].user]] \in Request
    BY <1>i, <2>1 DEF Request, Pc
  <2> QED
    BY <1>0, <1>2, <2>2 DEF RefreshToken, StartRefresh, TypeOK
<1>3. ASSUME NEW r \in Req, NEW s \in Sess, NEW c \in Role, NEW op \in Op, NEW t \in User,
             NEW new \in Role, requireRole(r, s, c, op, t, new)
      PROVE  TypeOK'
  <2>1. sess[s].user \in User /\ (role[t] = "admin") \in BOOLEAN
    BY <1>0, <1>3, SessionUsed DEF requireRole
  <2>2. [Idle EXCEPT !.pc = "load", !.actor = sess[s].user, !.op = op, !.target = t,
                     !.new = new, !.late = role[t] = "admin"] \in Request
    BY <1>i, <2>1 DEF Request, Pc
  <2> QED
    BY <1>0, <1>3, <2>2 DEF requireRole, TypeOK
<1>4. ASSUME NEW r \in Req, NEW o \in Outcome, issueLoginSession(r, o) PROVE TypeOK'
  <2>1. [user |-> req[r].actor, tokens |-> {req[r].claim}, keys |-> Key, revoked |-> FALSE]
          \in Session
    BY <1>0, <1>4 DEF issueLoginSession, TypeOK, ControlInv, Request, Session
  <2> QED
    BY <1>0, <1>i, <1>4, <2>1 DEF issueLoginSession, TypeOK
<1>5. ASSUME NEW r \in Req, NEW o \in Outcome, RotateSessionTokens(r, o) PROVE TypeOK'
  <2>1. req[r].sid \in Sess /\ sess[req[r].sid] \in Session
    BY <1>0, <1>5, SessionUsed DEF RotateSessionTokens, SidInv, ControlInv
  <2>2. PICK ks \in SUBSET Key : sess' = [sess EXCEPT ![req[r].sid].keys = @ \cup ks]
    BY <1>5 DEF RotateSessionTokens, Key
  <2>3. [sess[req[r].sid] EXCEPT !.keys = @ \cup ks] \in Session
    BY <2>1 DEF Session
  <2>4. sess' \in [Sess -> Session \cup {NoSession}]
    BY <1>0, <2>1, <2>2, <2>3 DEF TypeOK
  <2>5. req' \in [Req -> Request]
    <3>1. [req[r] EXCEPT !.pc = "row"] \in Request
      BY <1>0 DEF TypeOK, Request, Pc
    <3> QED
      BY <1>0, <1>i, <1>5, <3>1 DEF RotateSessionTokens, TypeOK
  <2> QED
    BY <1>0, <1>5, <2>4, <2>5 DEF RotateSessionTokens, TypeOK
<1>6. ASSUME NEW r \in Req, NEW o \in Outcome, RotateRefreshSession(r, o) PROVE TypeOK'
  <2>1. req[r].sid \in Sess /\ sess[req[r].sid] \in Session /\ req[r].claim \in Role
    BY <1>0, <1>6, SessionUsed DEF RotateRefreshSession, SidInv, ControlInv, TypeOK, Request
  <2>2. [sess[req[r].sid] EXCEPT !.tokens = @ \cup {req[r].claim}] \in Session
    BY <2>1 DEF Session
  <2> QED
    BY <1>0, <1>i, <1>6, <2>1, <2>2 DEF RotateRefreshSession, TypeOK
<1>7. ASSUME NEW r \in Req, NEW o \in Outcome, loadAdminTarget(r, o) PROVE TypeOK'
  BY <1>0, <1>i, <1>7, SMTT(30) DEF loadAdminTarget, NextPc, TypeOK, Request, Pc
<1>8. ASSUME NEW r \in Req, NEW o \in Outcome, ListActiveSessionIDs(r, o) PROVE TypeOK'
  <2>1. PICK l \in SUBSET Sess : req' = [req EXCEPT ![r] = [@ EXCEPT !.pc = "tx", !.listed = l]]
    BY <1>8 DEF ListActiveSessionIDs
  <2>2. [req[r] EXCEPT !.pc = "tx", !.listed = l] \in Request
    BY <1>0, ZenonT(60) DEF TypeOK, Request, Pc
  <2>3. UNCHANGED <<users, sess, guc, wrong>>
    BY <1>8 DEF ListActiveSessionIDs
  <2> QED
    BY <1>0, <2>1, <2>2, <2>3 DEF TypeOK
<1>9. ASSUME NEW r \in Req, NEW o \in Outcome, SetActorID(r, o) PROVE TypeOK'
  <2>1. req[r].actor \in User /\ req[r] \in Request
    BY <1>0, <1>9 DEF SetActorID, ControlInv, TypeOK
  <2>2. \A k \in Conn : [req[r] EXCEPT !.pc = "write", !.conn = k] \in Request
    BY <2>1 DEF Request, Pc
  <2>3. req' \in [Req -> Request]
    BY <1>0, <1>i, <1>9, <2>2 DEF SetActorID, TypeOK
  <2>4. guc' \in [Conn -> User \cup {Unset, Empty}]
    BY <1>0, <1>9, <2>1 DEF SetActorID, TypeOK
  <2> QED
    BY <1>0, <1>9, <2>3, <2>4 DEF SetActorID, TypeOK
<1>10. ASSUME NEW r \in Req, NEW o \in Outcome, WithActor(r, o) PROVE TypeOK'
  <2> USE <1>0, <1>10 DEF WithActor
  <2>1. guc' \in [Conn -> User \cup {Unset, Empty}]
    BY DEF EndTx, TypeOK
  <2>2. [req[r] EXCEPT !.pc = "drop", !.conn = None] \in Request
    <3> HIDE <1>0, <1>10 DEF WithActor
    <3>1. req[r] \in Request
      BY <1>0 DEF TypeOK
    <3> QED
      BY <3>1 DEF Request, Pc
  <2>3. req' \in [Req -> Request]
    BY <1>i, <2>2 DEF TypeOK
  <2>4. role' \in [User -> Role] /\ usable' \in [User -> BOOLEAN] /\ deleted' \in [User -> BOOLEAN]
    BY ZenonT(60) DEF TypeOK, UpdateRow, ControlInv, Request
  <2>5. sess' \in [Sess -> Session \cup {NoSession}]
    <3>1. ASSUME NEW s \in Sess, sess[s].user = req[r].target
          PROVE  [sess[s] EXCEPT !.revoked = TRUE] \in Session
      <4>1. sess[s] \in Session
        BY <3>1, SessionUsed DEF ControlInv
      <4> QED
        BY <4>1 DEF Session
    <3> QED
      BY <3>1 DEF TypeOK
  <2>6. wrong' \in BOOLEAN
    BY DEF TypeOK
  <2> QED
    BY <2>1, <2>3, <2>4, <2>5, <2>6 DEF TypeOK
<1>11. ASSUME NEW r \in Req, NEW o \in Outcome, DeleteSessions(r, o) PROVE TypeOK'
  <2>1. ASSUME NEW s \in Sess PROVE [sess[s] EXCEPT !.keys = {}] \in Session \cup {NoSession}
    <3>1. CASE sess[s] \in Session
      BY <3>1 DEF Session
    <3>2. CASE sess[s] = NoSession
      BY <3>2, NoSessionDropped
    <3> QED
      BY <1>0, <3>1, <3>2 DEF TypeOK
  <2> QED
    BY <1>0, <1>i, <1>11, <2>1 DEF DeleteSessions, TypeOK
<1>12. ASSUME NEW r \in Req, NEW o \in Outcome, CreatePasswordReset(r, o) PROVE TypeOK'
  <2>1. [req[r] EXCEPT !.pc = "note"] \in Request
    BY <1>0 DEF TypeOK, Request, Pc
  <2> QED
    BY <1>0, <1>i, <1>12, <2>1 DEF CreatePasswordReset, TypeOK
<1>13. ASSUME NEW r \in Req, NEW o \in Outcome, CreateAuditLog(r, o) PROVE TypeOK'
  <2>1. [req[r] EXCEPT !.pc = "mail"] \in Request
    BY <1>0 DEF TypeOK, Request, Pc
  <2> QED
    BY <1>0, <1>i, <1>13, <2>1 DEF CreateAuditLog, TypeOK
<1>14. ASSUME NEW r \in Req, NEW o \in Outcome, SendPasswordResetEmail(r, o) PROVE TypeOK'
  BY <1>0, <1>i, <1>14 DEF SendPasswordResetEmail, TypeOK
<1>15. CASE SelfService
  BY <1>0, <1>i, <1>15 DEF SelfService, TypeOK
<1>16. ASSUME NEW u \in User, ProvisionAdmin(u) PROVE TypeOK'
  BY <1>0, <1>i, <1>16 DEF ProvisionAdmin, TypeOK, Role
<1>17. ASSUME NEW s \in Sess, NEW c \in Role, AccessTokenExpires(s, c) PROVE TypeOK'
  <2>1. sess[s] \in Session
    BY <1>0, <1>17, SessionUsed DEF AccessTokenExpires
  <2>2. [sess[s] EXCEPT !.tokens = @ \ {c}] \in Session
    BY <2>1 DEF Session
  <2> QED
    BY <1>0, <1>17, <2>2 DEF AccessTokenExpires, TypeOK
<1>18. ASSUME NEW s \in Sess, SessionEnds(s) PROVE TypeOK'
  <2>1. sess[s] \in Session
    BY <1>0, <1>18, SessionUsed DEF SessionEnds
  <2>2. [sess[s] EXCEPT !.keys = {}, !.revoked = TRUE] \in Session
    BY <2>1 DEF Session
  <2> QED
    BY <1>0, <1>18, <2>2 DEF SessionEnds, TypeOK
<1>19. CASE UNCHANGED vars
  BY <1>0, <1>i, <1>19 DEF vars, TypeOK
<1> QED
  BY <1>1, <1>2, <1>3, <1>4, <1>5, <1>6, <1>7, <1>8, <1>9, <1>10,
     <1>11, <1>12, <1>13, <1>14, <1>15, <1>16, <1>17, <1>18, <1>19
  DEF Next, Arrive, Step, Environment

-----------------------------------------------------------------------------
(* The role of admin *)

\* Only ProvisionAdmin changes who is an admin, and it only adds one: the
\* transaction of a role change meets a target that is none (the trigger), and
\* its new role is none either (loadAdminTarget).
LEMMA AdminsStep ==
    IInv /\ [Next]_vars =>
        (Admins' # Admins => Admins \subseteq Admins' /\ UNCHANGED req)
<1> SUFFICES ASSUME IInv, [Next]_vars, Admins' # Admins
             PROVE  Admins \subseteq Admins' /\ UNCHANGED req
  OBVIOUS
<1>0. TypeOK /\ ControlInv /\ TargetInv
  BY DEF IInv
<1>1. ASSUME NEW r \in Req, NEW o \in Outcome, WithActor(r, o) PROVE Admins' = Admins
  <2>1. CASE UNCHANGED role
    BY <2>1 DEF Admins
  <2>2. CASE UpdateRow(req[r].op, req[r].target, req[r].new)
    <3>1. req[r].target \in User /\ req[r].new # "admin"
      BY <1>0, <1>1 DEF WithActor, At, ControlInv, TargetInv
    <3>2. role' = role \/ (role[req[r].target] # "admin"
                           /\ role' = [role EXCEPT ![req[r].target] = req[r].new])
      BY <2>2 DEF UpdateRow
    <3> QED
      BY <1>0, <3>1, <3>2 DEF Admins, TypeOK
  <2> QED
    BY <1>1, <2>1, <2>2 DEF WithActor, users
<1>2. ASSUME NEW u \in User, ProvisionAdmin(u) PROVE Admins \subseteq Admins' /\ UNCHANGED req
  BY <1>0, <1>2 DEF ProvisionAdmin, Admins, TypeOK
<1>3. CASE UNCHANGED role
  BY <1>3 DEF Admins
<1>4. ASSUME NEW r \in Req, Arrive(r) PROVE UNCHANGED role
  BY <1>4 DEF Arrive, Login, RefreshToken, requireRole, users
<1>5. ASSUME NEW r \in Req, Step(r), \A o \in Outcome : ~WithActor(r, o) PROVE UNCHANGED role
  BY <1>5 DEF Step, issueLoginSession, RotateSessionTokens, RotateRefreshSession,
     loadAdminTarget, ListActiveSessionIDs, SetActorID, DeleteSessions, CreatePasswordReset,
     CreateAuditLog, SendPasswordResetEmail, users
<1>6. ASSUME Environment, \A u \in User : ~ProvisionAdmin(u) PROVE UNCHANGED role
  BY <1>6 DEF Environment, SelfService, AccessTokenExpires, SessionEnds, users
<1>7. CASE UNCHANGED vars
  BY <1>7, <1>3 DEF vars
<1> QED
  BY <1>1, <1>2, <1>3, <1>4, <1>5, <1>6, <1>7 DEF Next

\* Nobody stops being an admin.
LEMMA AdminsStay ==
    ASSUME IInv, [Next]_vars, NEW u \in User, role[u] = "admin" PROVE role'[u] = "admin"
<1>1. Admins \subseteq Admins'
  BY AdminsStep
<1> QED
  BY <1>1 DEF Admins


-----------------------------------------------------------------------------
(* The rest of the invariant: one lemma per conjunct, one step per action *)

\* Every step leaves a request with the locals its next call needs.
LEMMA ControlStep == IInv /\ [Next]_vars => ControlInv'
<1> SUFFICES ASSUME IInv, [Next]_vars PROVE ControlInv'
  OBVIOUS
<1> USE DEF TypeOK, ControlInv, Request, users, At, Goto, Finish
<1>0. TypeOK /\ ControlInv
  BY DEF IInv
<1>i. Idle.pc = "idle" /\ ~Idle.late /\ Idle.op = "logout"
  BY DEF Idle
<1>1. ASSUME NEW r \in Req, NEW u \in User, Login(r, u) PROVE ControlInv'
  BY <1>0, <1>i, <1>1 DEF Login
<1>2. ASSUME NEW r \in Req, NEW s \in Sess, RefreshToken(r, s) PROVE ControlInv'
  <2>1. sess[s].user \in User
    BY <1>0, <1>2, SessionUsed DEF RefreshToken
  <2> QED
    BY <1>0, <1>i, <1>2, <2>1 DEF RefreshToken, StartRefresh
<1>3. ASSUME NEW r \in Req, NEW s \in Sess, NEW c \in Role, NEW op \in Op, NEW t \in User,
             NEW new \in Role, requireRole(r, s, c, op, t, new)
      PROVE  ControlInv'
  <2>1. sess[s].user \in User
    BY <1>0, <1>3, SessionUsed DEF requireRole
  <2> QED
    BY <1>0, <1>i, <1>3, <2>1 DEF requireRole
<1>4. ASSUME NEW r \in Req, NEW o \in Outcome, issueLoginSession(r, o) PROVE ControlInv'
  BY <1>0, <1>i, <1>4 DEF issueLoginSession
<1>5. ASSUME NEW r \in Req, NEW o \in Outcome, RotateSessionTokens(r, o) PROVE ControlInv'
  <2>1. (\A q \in Req : q # r => req'[q] = req[q]) /\ (req'[r] = Idle \/ Proceeds(r, "row"))
    BY <1>0, <1>5, Proceeding
  <2> QED
    BY <1>0, <1>i, <1>5, <2>1 DEF RotateSessionTokens, Proceeds
<1>6. ASSUME NEW r \in Req, NEW o \in Outcome, RotateRefreshSession(r, o) PROVE ControlInv'
  BY <1>0, <1>i, <1>6 DEF RotateRefreshSession
<1>7. ASSUME NEW r \in Req, NEW o \in Outcome, loadAdminTarget(r, o) PROVE ControlInv'
  <2>1. /\ \A q \in Req : q # r => req'[q] = req[q]
        /\ req'[r] = Idle \/ \E p \in {"list", "tx", "create"} : Proceeds(r, p)
    BY <1>0, <1>7, Proceeding
  <2>2. req[r].pc = "load"
    BY <1>7 DEF loadAdminTarget
  <2>3. CASE req'[r] = Idle
    BY <1>0, <1>i, <2>1, <2>3
  <2>4. ASSUME NEW p \in {"list", "tx", "create"}, Proceeds(r, p) PROVE ControlInv'
    BY <1>0, <2>1, <2>2, <2>4 DEF Proceeds
  <2> QED
    BY <2>1, <2>3, <2>4
<1>8. ASSUME NEW r \in Req, NEW o \in Outcome, ListActiveSessionIDs(r, o) PROVE ControlInv'
  BY <1>0, <1>i, <1>8 DEF ListActiveSessionIDs
<1>9. ASSUME NEW r \in Req, NEW o \in Outcome, SetActorID(r, o) PROVE ControlInv'
  <2>1. (\A q \in Req : q # r => req'[q] = req[q]) /\ (req'[r] = Idle \/ Proceeds(r, "write"))
    BY <1>0, <1>9, Proceeding
  <2> QED
    BY <1>0, <1>i, <1>9, <2>1 DEF SetActorID, Proceeds
<1>10. ASSUME NEW r \in Req, NEW o \in Outcome, WithActor(r, o) PROVE ControlInv'
  <2>1. (\A q \in Req : q # r => req'[q] = req[q]) /\ (req'[r] = Idle \/ Proceeds(r, "drop"))
    BY <1>0, <1>10, Proceeding
  <2> QED
    BY <1>0, <1>i, <1>10, <2>1 DEF WithActor, Proceeds
<1>11. ASSUME NEW r \in Req, NEW o \in Outcome, DeleteSessions(r, o) PROVE ControlInv'
  BY <1>0, <1>i, <1>11 DEF DeleteSessions
<1>12. ASSUME NEW r \in Req, NEW o \in Outcome, CreatePasswordReset(r, o) PROVE ControlInv'
  <2>1. (\A q \in Req : q # r => req'[q] = req[q]) /\ (req'[r] = Idle \/ Proceeds(r, "note"))
    BY <1>0, <1>12, Proceeding
  <2> QED
    BY <1>0, <1>i, <1>12, <2>1 DEF CreatePasswordReset, Proceeds
<1>13. ASSUME NEW r \in Req, NEW o \in Outcome, CreateAuditLog(r, o) PROVE ControlInv'
  BY <1>0, <1>i, <1>13 DEF CreateAuditLog
<1>14. ASSUME NEW r \in Req, NEW o \in Outcome, SendPasswordResetEmail(r, o) PROVE ControlInv'
  BY <1>0, <1>i, <1>14 DEF SendPasswordResetEmail
<1>15. CASE SelfService
  BY <1>0, <1>i, <1>15 DEF SelfService
<1>16. ASSUME NEW u \in User, ProvisionAdmin(u) PROVE ControlInv'
  BY <1>0, <1>i, <1>16 DEF ProvisionAdmin
<1>17. ASSUME NEW s \in Sess, NEW c \in Role, AccessTokenExpires(s, c) PROVE ControlInv'
  BY <1>0, <1>i, <1>17 DEF AccessTokenExpires
<1>18. ASSUME NEW s \in Sess, SessionEnds(s) PROVE ControlInv'
  BY <1>0, <1>i, <1>18 DEF SessionEnds
<1>19. CASE UNCHANGED vars
  BY <1>0, <1>i, <1>19 DEF vars
<1> QED
  BY <1>1, <1>2, <1>3, <1>4, <1>5, <1>6, <1>7, <1>8, <1>9, <1>10,
     <1>11, <1>12, <1>13, <1>14, <1>15, <1>16, <1>17, <1>18, <1>19
  DEF Next, Arrive, Step, Environment

\* Only an id that no request holds is given to a new session.
LEMMA SidStep == IInv /\ [Next]_vars => SidInv'
<1> SUFFICES ASSUME IInv, [Next]_vars PROVE SidInv'
  OBVIOUS
<1> USE DEF TypeOK, SidInv, Request, users, At, Goto, Finish
<1>0. TypeOK /\ SidInv
  BY DEF IInv
<1>i. Idle.pc = "idle"
  BY DEF Idle
<1>u. ASSUME NEW s \in Sess, NEW ks, NEW ts, NEW b
      PROVE  /\ [sess[s] EXCEPT !.keys = ks].user = sess[s].user
             /\ [sess[s] EXCEPT !.tokens = ts].user = sess[s].user
             /\ [sess[s] EXCEPT !.revoked = b].user = sess[s].user
             /\ [sess[s] EXCEPT !.keys = ks, !.revoked = b].user = sess[s].user
  BY <1>0 DEF Session, NoSession
<1>1. ASSUME NEW r \in Req, NEW u \in User, Login(r, u) PROVE SidInv'
  BY <1>0, <1>i, <1>1 DEF Login
<1>2. ASSUME NEW r \in Req, NEW s \in Sess, RefreshToken(r, s) PROVE SidInv'
  BY <1>0, <1>i, <1>2 DEF RefreshToken, StartRefresh
<1>3. ASSUME NEW r \in Req, NEW s \in Sess, NEW c \in Role, NEW op \in Op, NEW t \in User,
             NEW new \in Role, requireRole(r, s, c, op, t, new)
      PROVE  SidInv'
  BY <1>0, <1>i, <1>3 DEF requireRole
<1>4. ASSUME NEW r \in Req, NEW o \in Outcome, issueLoginSession(r, o) PROVE SidInv'
  <2>1. \A q \in Req : q # r /\ req[q].sid \in Sess => sess'[req[q].sid] = sess[req[q].sid]
    BY <1>0, <1>4 DEF issueLoginSession, Unused
  <2> QED
    BY <1>0, <1>i, <1>4, <2>1 DEF issueLoginSession
<1>5. ASSUME NEW r \in Req, NEW o \in Outcome, RotateSessionTokens(r, o) PROVE SidInv'
  <2>1. \A s \in Sess : sess'[s].user = sess[s].user
    BY <1>0, <1>u, <1>5 DEF RotateSessionTokens
  <2> QED
    BY <1>0, <1>i, <1>5, <2>1 DEF RotateSessionTokens
<1>6. ASSUME NEW r \in Req, NEW o \in Outcome, RotateRefreshSession(r, o) PROVE SidInv'
  <2>1. \A s \in Sess : sess'[s].user = sess[s].user
    BY <1>0, <1>u, <1>6 DEF RotateRefreshSession
  <2> QED
    BY <1>0, <1>i, <1>6, <2>1 DEF RotateRefreshSession
<1>7. ASSUME NEW r \in Req, NEW o \in Outcome, loadAdminTarget(r, o) PROVE SidInv'
  <2>1. NextPc(req[r].op) \in {"list", "tx", "create"}
    BY DEF NextPc
  <2> QED
    BY <1>0, <1>i, <1>7, <2>1 DEF loadAdminTarget
<1>8. ASSUME NEW r \in Req, NEW o \in Outcome, ListActiveSessionIDs(r, o) PROVE SidInv'
  BY <1>0, <1>i, <1>8 DEF ListActiveSessionIDs
<1>9. ASSUME NEW r \in Req, NEW o \in Outcome, SetActorID(r, o) PROVE SidInv'
  <2>1. (\A q \in Req : q # r => req'[q] = req[q]) /\ (req'[r] = Idle \/ Proceeds(r, "write"))
    BY <1>0, <1>9, Proceeding
  <2> QED
    BY <1>0, <1>i, <1>9, <2>1 DEF SetActorID, Proceeds
<1>10. ASSUME NEW r \in Req, NEW o \in Outcome, WithActor(r, o) PROVE SidInv'
  <2>1. \A s \in Sess : sess'[s].user = sess[s].user
    BY <1>0, <1>10, SessionsKept
  <2>2. (\A q \in Req : q # r => req'[q] = req[q]) /\ req'[r].pc \in {"idle", "drop"}
    BY <1>0, <1>i, <1>10, Proceeding DEF Proceeds
  <2> QED
    BY <1>0, <2>1, <2>2
<1>11. ASSUME NEW r \in Req, NEW o \in Outcome, DeleteSessions(r, o) PROVE SidInv'
  <2>1. \A s \in Sess : sess'[s].user = sess[s].user
    BY <1>0, <1>u, <1>11 DEF DeleteSessions
  <2> QED
    BY <1>0, <1>i, <1>11, <2>1 DEF DeleteSessions
<1>12. ASSUME NEW r \in Req, NEW o \in Outcome, CreatePasswordReset(r, o) PROVE SidInv'
  <2>1. (\A q \in Req : q # r => req'[q] = req[q]) /\ (req'[r] = Idle \/ Proceeds(r, "note"))
    BY <1>0, <1>12, Proceeding
  <2> QED
    BY <1>0, <1>i, <1>12, <2>1 DEF CreatePasswordReset, Proceeds
<1>13. ASSUME NEW r \in Req, NEW o \in Outcome, CreateAuditLog(r, o) PROVE SidInv'
  BY <1>0, <1>i, <1>13 DEF CreateAuditLog
<1>14. ASSUME NEW r \in Req, NEW o \in Outcome, SendPasswordResetEmail(r, o) PROVE SidInv'
  BY <1>0, <1>i, <1>14 DEF SendPasswordResetEmail
<1>15. CASE SelfService
  BY <1>0, <1>i, <1>15 DEF SelfService
<1>16. ASSUME NEW u \in User, ProvisionAdmin(u) PROVE SidInv'
  BY <1>0, <1>i, <1>16 DEF ProvisionAdmin
<1>17. ASSUME NEW s \in Sess, NEW c \in Role, AccessTokenExpires(s, c) PROVE SidInv'
  <2>1. \A z \in Sess : sess'[z].user = sess[z].user
    BY <1>0, <1>u, <1>17 DEF AccessTokenExpires
  <2> QED
    BY <1>0, <1>i, <1>17, <2>1 DEF AccessTokenExpires
<1>18. ASSUME NEW s \in Sess, SessionEnds(s) PROVE SidInv'
  <2>1. \A z \in Sess : sess'[z].user = sess[z].user
    BY <1>0, <1>u, <1>18 DEF SessionEnds
  <2> QED
    BY <1>0, <1>i, <1>18, <2>1 DEF SessionEnds
<1>19. CASE UNCHANGED vars
  BY <1>0, <1>i, <1>19 DEF vars
<1> QED
  BY <1>1, <1>2, <1>3, <1>4, <1>5, <1>6, <1>7, <1>8, <1>9, <1>10,
     <1>11, <1>12, <1>13, <1>14, <1>15, <1>16, <1>17, <1>18, <1>19
  DEF Next, Arrive, Step, Environment

\* A claim is copied from the row, and nobody stops being an admin.
LEMMA ClaimStep == IInv /\ [Next]_vars => ClaimInv'
<1> SUFFICES ASSUME IInv, [Next]_vars PROVE ClaimInv'
  OBVIOUS
<1> USE DEF TypeOK, ClaimInv, users, At, Goto, Finish
<1>0. TypeOK /\ ControlInv /\ SidInv /\ ClaimInv
  BY DEF IInv
<1>i. Idle.claim = "user"
  BY DEF Idle
<1>a. \A u \in User : role[u] = "admin" => role'[u] = "admin"
  BY AdminsStay
<1>s. \A s \in Sess : "admin" \in sess[s].tokens => sess[s].user \in User
  BY <1>0, SessionUsed
<1>q. \A r \in Req : req[r].claim = "admin" => req[r].actor \in User
  BY <1>0, <1>i DEF TypeOK, Request, ControlInv
\* What is left to show of a step that adds no token.
<1>k. ASSUME \A s \in Sess : sess'[s].tokens \subseteq sess[s].tokens /\ sess'[s].user = sess[s].user,
             \A q \in Req : req'[q].claim = "user"
                             \/ (req'[q].claim = req[q].claim /\ req'[q].actor = req[q].actor)
      PROVE  ClaimInv'
  BY <1>0, <1>a, <1>s, <1>q, <1>k
<1>u. ASSUME NEW s \in Sess, NEW ks, NEW b
      PROVE  /\ [sess[s] EXCEPT !.keys = ks].user = sess[s].user
             /\ [sess[s] EXCEPT !.keys = ks].tokens = sess[s].tokens
             /\ [sess[s] EXCEPT !.revoked = b].user = sess[s].user
             /\ [sess[s] EXCEPT !.revoked = b].tokens = sess[s].tokens
             /\ [sess[s] EXCEPT !.keys = ks, !.revoked = b].user = sess[s].user
             /\ [sess[s] EXCEPT !.keys = ks, !.revoked = b].tokens = sess[s].tokens
  BY <1>0 DEF Session, NoSession
<1>1. ASSUME NEW r \in Req, NEW u \in User, Login(r, u) PROVE ClaimInv'
  BY <1>0, <1>i, <1>a, <1>s, <1>q, <1>1 DEF Login
<1>2. ASSUME NEW r \in Req, NEW s \in Sess, RefreshToken(r, s) PROVE ClaimInv'
  BY <1>0, <1>i, <1>a, <1>s, <1>q, <1>2 DEF RefreshToken, StartRefresh
<1>3. ASSUME NEW r \in Req, NEW s \in Sess, NEW c \in Role, NEW op \in Op, NEW t \in User,
             NEW new \in Role, requireRole(r, s, c, op, t, new)
      PROVE  ClaimInv'
  BY <1>0, <1>i, <1>a, <1>s, <1>q, <1>3 DEF requireRole
<1>4. ASSUME NEW r \in Req, NEW o \in Outcome, issueLoginSession(r, o) PROVE ClaimInv'
  BY <1>0, <1>i, <1>a, <1>s, <1>q, <1>4 DEF issueLoginSession
<1>5. ASSUME NEW r \in Req, NEW o \in Outcome, RotateSessionTokens(r, o) PROVE ClaimInv'
  <2>1. \A z \in Sess : sess'[z].tokens \subseteq sess[z].tokens /\ sess'[z].user = sess[z].user
    BY <1>0, <1>u, <1>5 DEF RotateSessionTokens
  <2>2. \A q \in Req : req'[q].claim = "user"
                       \/ (req'[q].claim = req[q].claim /\ req'[q].actor = req[q].actor)
    BY <1>0, <1>i, <1>5, Proceeding DEF Proceeds
  <2> QED
    BY <1>k, <2>1, <2>2
<1>6. ASSUME NEW r \in Req, NEW o \in Outcome, RotateRefreshSession(r, o) PROVE ClaimInv'
  <2>1. req[r].sid \in Sess /\ sess[req[r].sid].user = req[r].actor
    BY <1>0, <1>6 DEF RotateRefreshSession, SidInv
  <2>2. ASSUME NEW z \in Sess
        PROVE  /\ sess'[z].user = sess[z].user
               /\ \/ sess'[z].tokens = sess[z].tokens
                  \/ z = req[r].sid /\ sess'[z].tokens = sess[z].tokens \cup {req[r].claim}
    BY <1>0, <1>6, <2>1 DEF RotateRefreshSession, Session, NoSession
  <2>3. \A z \in Sess : "admin" \in sess'[z].tokens => role'[sess'[z].user] = "admin"
    BY <1>0, <1>a, <1>s, <1>q, <2>1, <2>2
  <2>4. \A q \in Req : req'[q].claim = "admin" => role'[req'[q].actor] = "admin"
    BY <1>0, <1>i, <1>a, <1>q, <1>6 DEF RotateRefreshSession
  <2> QED
    BY <2>3, <2>4
<1>7. ASSUME NEW r \in Req, NEW o \in Outcome, loadAdminTarget(r, o) PROVE ClaimInv'
  <2>1. \A z \in Sess : sess'[z].tokens \subseteq sess[z].tokens /\ sess'[z].user = sess[z].user
    BY <1>0, <1>u, <1>7 DEF loadAdminTarget
  <2>2. \A q \in Req : req'[q].claim = "user"
                       \/ (req'[q].claim = req[q].claim /\ req'[q].actor = req[q].actor)
    BY <1>0, <1>i, <1>7, Proceeding DEF Proceeds
  <2> QED
    BY <1>k, <2>1, <2>2
<1>8. ASSUME NEW r \in Req, NEW o \in Outcome, ListActiveSessionIDs(r, o) PROVE ClaimInv'
  <2>1. \A z \in Sess : sess'[z].tokens \subseteq sess[z].tokens /\ sess'[z].user = sess[z].user
    BY <1>0, <1>u, <1>8 DEF ListActiveSessionIDs
  <2>2. \A q \in Req : req'[q].claim = "user"
                       \/ (req'[q].claim = req[q].claim /\ req'[q].actor = req[q].actor)
    BY <1>0, <1>i, <1>8 DEF ListActiveSessionIDs, Request
  <2> QED
    BY <1>k, <2>1, <2>2
<1>9. ASSUME NEW r \in Req, NEW o \in Outcome, SetActorID(r, o) PROVE ClaimInv'
  <2>1. \A z \in Sess : sess'[z].tokens \subseteq sess[z].tokens /\ sess'[z].user = sess[z].user
    BY <1>0, <1>u, <1>9 DEF SetActorID
  <2>2. \A q \in Req : req'[q].claim = "user"
                       \/ (req'[q].claim = req[q].claim /\ req'[q].actor = req[q].actor)
    BY <1>0, <1>i, <1>9, Proceeding DEF Proceeds
  <2> QED
    BY <1>k, <2>1, <2>2
<1>10. ASSUME NEW r \in Req, NEW o \in Outcome, WithActor(r, o) PROVE ClaimInv'
  <2>1. \A z \in Sess : sess'[z].tokens \subseteq sess[z].tokens /\ sess'[z].user = sess[z].user
    BY <1>0, <1>10, SessionsKept
  <2>2. \A q \in Req : req'[q].claim = "user"
                       \/ (req'[q].claim = req[q].claim /\ req'[q].actor = req[q].actor)
    BY <1>0, <1>i, <1>10, Proceeding DEF Proceeds
  <2> QED
    BY <1>k, <2>1, <2>2
<1>11. ASSUME NEW r \in Req, NEW o \in Outcome, DeleteSessions(r, o) PROVE ClaimInv'
  <2>1. \A z \in Sess : sess'[z].tokens \subseteq sess[z].tokens /\ sess'[z].user = sess[z].user
    BY <1>0, <1>u, <1>11 DEF DeleteSessions
  <2>2. \A q \in Req : req'[q].claim = "user"
                       \/ (req'[q].claim = req[q].claim /\ req'[q].actor = req[q].actor)
    BY <1>0, <1>i, <1>11 DEF DeleteSessions, Request
  <2> QED
    BY <1>k, <2>1, <2>2
<1>12. ASSUME NEW r \in Req, NEW o \in Outcome, CreatePasswordReset(r, o) PROVE ClaimInv'
  <2>1. \A z \in Sess : sess'[z].tokens \subseteq sess[z].tokens /\ sess'[z].user = sess[z].user
    BY <1>0, <1>u, <1>12 DEF CreatePasswordReset
  <2>2. \A q \in Req : req'[q].claim = "user"
                       \/ (req'[q].claim = req[q].claim /\ req'[q].actor = req[q].actor)
    BY <1>0, <1>i, <1>12, Proceeding DEF Proceeds
  <2> QED
    BY <1>k, <2>1, <2>2
<1>13. ASSUME NEW r \in Req, NEW o \in Outcome, CreateAuditLog(r, o) PROVE ClaimInv'
  <2>1. \A z \in Sess : sess'[z].tokens \subseteq sess[z].tokens /\ sess'[z].user = sess[z].user
    BY <1>0, <1>u, <1>13 DEF CreateAuditLog
  <2>2. \A q \in Req : req'[q].claim = "user"
                       \/ (req'[q].claim = req[q].claim /\ req'[q].actor = req[q].actor)
    BY <1>0, <1>i, <1>13 DEF CreateAuditLog, Request
  <2> QED
    BY <1>k, <2>1, <2>2
<1>14. ASSUME NEW r \in Req, NEW o \in Outcome, SendPasswordResetEmail(r, o) PROVE ClaimInv'
  <2>1. \A z \in Sess : sess'[z].tokens \subseteq sess[z].tokens /\ sess'[z].user = sess[z].user
    BY <1>0, <1>u, <1>14 DEF SendPasswordResetEmail
  <2>2. \A q \in Req : req'[q].claim = "user"
                       \/ (req'[q].claim = req[q].claim /\ req'[q].actor = req[q].actor)
    BY <1>0, <1>i, <1>14 DEF SendPasswordResetEmail, Request
  <2> QED
    BY <1>k, <2>1, <2>2
<1>15. CASE SelfService
  BY <1>0, <1>i, <1>a, <1>s, <1>q, <1>15 DEF SelfService
<1>16. ASSUME NEW u \in User, ProvisionAdmin(u) PROVE ClaimInv'
  BY <1>0, <1>i, <1>a, <1>s, <1>q, <1>16 DEF ProvisionAdmin
<1>17. ASSUME NEW s \in Sess, NEW c \in Role, AccessTokenExpires(s, c) PROVE ClaimInv'
  <2>1. \A z \in Sess : sess'[z].tokens \subseteq sess[z].tokens /\ sess'[z].user = sess[z].user
    BY <1>0, <1>17 DEF AccessTokenExpires, Session, NoSession
  <2>2. \A q \in Req : req'[q].claim = "user"
                       \/ (req'[q].claim = req[q].claim /\ req'[q].actor = req[q].actor)
    BY <1>0, <1>i, <1>17 DEF AccessTokenExpires, Request
  <2> QED
    BY <1>k, <2>1, <2>2
<1>18. ASSUME NEW s \in Sess, SessionEnds(s) PROVE ClaimInv'
  <2>1. \A z \in Sess : sess'[z].tokens \subseteq sess[z].tokens /\ sess'[z].user = sess[z].user
    BY <1>0, <1>u, <1>18 DEF SessionEnds
  <2>2. \A q \in Req : req'[q].claim = "user"
                       \/ (req'[q].claim = req[q].claim /\ req'[q].actor = req[q].actor)
    BY <1>0, <1>i, <1>18 DEF SessionEnds, Request
  <2> QED
    BY <1>k, <2>1, <2>2
<1>19. CASE UNCHANGED vars
  BY <1>0, <1>i, <1>a, <1>s, <1>q, <1>19 DEF vars
<1> QED
  BY <1>1, <1>2, <1>3, <1>4, <1>5, <1>6, <1>7, <1>8, <1>9, <1>10,
     <1>11, <1>12, <1>13, <1>14, <1>15, <1>16, <1>17, <1>18, <1>19
  DEF Next, Arrive, Step, Environment

\* loadAdminTarget refuses the role of admin; an admin stays one.
LEMMA TargetStep == IInv /\ [Next]_vars => TargetInv'
<1> SUFFICES ASSUME IInv, [Next]_vars PROVE TargetInv'
  OBVIOUS
<1> USE DEF TypeOK, TargetInv, Request, users, At, Goto, Finish
<1>0. TypeOK /\ ControlInv /\ TargetInv
  BY DEF IInv
<1>i. Idle.pc = "idle" /\ ~Idle.late
  BY DEF Idle
<1>a. \A u \in User : role[u] = "admin" => role'[u] = "admin"
  BY AdminsStay
<1>t. \A r \in Req : req[r].late => req[r].target \in User
  BY <1>0, <1>i DEF ControlInv, TypeOK, Request, Pc
<1>1. ASSUME NEW r \in Req, NEW u \in User, Login(r, u) PROVE TargetInv'
  BY <1>0, <1>i, <1>a, <1>t, <1>1 DEF Login
<1>2. ASSUME NEW r \in Req, NEW s \in Sess, RefreshToken(r, s) PROVE TargetInv'
  BY <1>0, <1>i, <1>a, <1>t, <1>2 DEF RefreshToken, StartRefresh
<1>3. ASSUME NEW r \in Req, NEW s \in Sess, NEW c \in Role, NEW op \in Op, NEW t \in User,
             NEW new \in Role, requireRole(r, s, c, op, t, new)
      PROVE  TargetInv'
  BY <1>0, <1>i, <1>a, <1>t, <1>3 DEF requireRole
<1>4. ASSUME NEW r \in Req, NEW o \in Outcome, issueLoginSession(r, o) PROVE TargetInv'
  BY <1>0, <1>i, <1>a, <1>t, <1>4 DEF issueLoginSession
<1>5. ASSUME NEW r \in Req, NEW o \in Outcome, RotateSessionTokens(r, o) PROVE TargetInv'
  <2>1. (\A q \in Req : q # r => req'[q] = req[q]) /\ (req'[r] = Idle \/ Proceeds(r, "row"))
    BY <1>0, <1>5, Proceeding
  <2> QED
    BY <1>0, <1>i, <1>a, <1>t, <1>5, <2>1 DEF RotateSessionTokens, Proceeds
<1>6. ASSUME NEW r \in Req, NEW o \in Outcome, RotateRefreshSession(r, o) PROVE TargetInv'
  BY <1>0, <1>i, <1>a, <1>t, <1>6 DEF RotateRefreshSession
<1>7. ASSUME NEW r \in Req, NEW o \in Outcome, loadAdminTarget(r, o) PROVE TargetInv'
  BY <1>0, <1>i, <1>a, <1>t, <1>7 DEF loadAdminTarget
<1>8. ASSUME NEW r \in Req, NEW o \in Outcome, ListActiveSessionIDs(r, o) PROVE TargetInv'
  BY <1>0, <1>i, <1>a, <1>t, <1>8 DEF ListActiveSessionIDs
<1>9. ASSUME NEW r \in Req, NEW o \in Outcome, SetActorID(r, o) PROVE TargetInv'
  <2>1. (\A q \in Req : q # r => req'[q] = req[q]) /\ (req'[r] = Idle \/ Proceeds(r, "write"))
    BY <1>0, <1>9, Proceeding
  <2> QED
    BY <1>0, <1>i, <1>a, <1>t, <1>9, <2>1 DEF SetActorID, Proceeds
<1>10. ASSUME NEW r \in Req, NEW o \in Outcome, WithActor(r, o) PROVE TargetInv'
  <2>1. (\A q \in Req : q # r => req'[q] = req[q]) /\ (req'[r] = Idle \/ Proceeds(r, "drop"))
    BY <1>0, <1>10, Proceeding
  <2> QED
    BY <1>0, <1>i, <1>a, <1>t, <1>10, <2>1 DEF WithActor, Proceeds
<1>11. ASSUME NEW r \in Req, NEW o \in Outcome, DeleteSessions(r, o) PROVE TargetInv'
  BY <1>0, <1>i, <1>a, <1>t, <1>11 DEF DeleteSessions
<1>12. ASSUME NEW r \in Req, NEW o \in Outcome, CreatePasswordReset(r, o) PROVE TargetInv'
  <2>1. (\A q \in Req : q # r => req'[q] = req[q]) /\ (req'[r] = Idle \/ Proceeds(r, "note"))
    BY <1>0, <1>12, Proceeding
  <2> QED
    BY <1>0, <1>i, <1>a, <1>t, <1>12, <2>1 DEF CreatePasswordReset, Proceeds
<1>13. ASSUME NEW r \in Req, NEW o \in Outcome, CreateAuditLog(r, o) PROVE TargetInv'
  BY <1>0, <1>i, <1>a, <1>t, <1>13 DEF CreateAuditLog
<1>14. ASSUME NEW r \in Req, NEW o \in Outcome, SendPasswordResetEmail(r, o) PROVE TargetInv'
  BY <1>0, <1>i, <1>a, <1>t, <1>14 DEF SendPasswordResetEmail
<1>15. CASE SelfService
  BY <1>0, <1>i, <1>a, <1>t, <1>15 DEF SelfService
<1>16. ASSUME NEW u \in User, ProvisionAdmin(u) PROVE TargetInv'
  BY <1>0, <1>i, <1>a, <1>t, <1>16 DEF ProvisionAdmin
<1>17. ASSUME NEW s \in Sess, NEW c \in Role, AccessTokenExpires(s, c) PROVE TargetInv'
  BY <1>0, <1>i, <1>a, <1>t, <1>17 DEF AccessTokenExpires
<1>18. ASSUME NEW s \in Sess, SessionEnds(s) PROVE TargetInv'
  BY <1>0, <1>i, <1>a, <1>t, <1>18 DEF SessionEnds
<1>19. CASE UNCHANGED vars
  BY <1>0, <1>i, <1>a, <1>t, <1>19 DEF vars
<1> QED
  BY <1>1, <1>2, <1>3, <1>4, <1>5, <1>6, <1>7, <1>8, <1>9, <1>10,
     <1>11, <1>12, <1>13, <1>14, <1>15, <1>16, <1>17, <1>18, <1>19
  DEF Next, Arrive, Step, Environment

\* The claim that passed requireRole was true and stays so.
LEMMA ByAdminsStep == IInv /\ [Next]_vars => AdminOnlyByAdmins'
<1> SUFFICES ASSUME IInv, [Next]_vars PROVE AdminOnlyByAdmins'
  OBVIOUS
<1> USE DEF TypeOK, AdminOnlyByAdmins, Request, users, At, Goto, Finish
<1>0. TypeOK /\ ControlInv /\ ClaimInv /\ AdminOnlyByAdmins
  BY DEF IInv
<1>i. Idle.pc = "idle" /\ Idle.op = "logout"
  BY DEF Idle
<1>a. \A u \in User : role[u] = "admin" => role'[u] = "admin"
  BY AdminsStay
<1>u. \A r \in Req : req[r].pc # "idle" => req[r].actor \in User
  BY <1>0 DEF ControlInv
<1>1. ASSUME NEW r \in Req, NEW u \in User, Login(r, u) PROVE AdminOnlyByAdmins'
  BY <1>0, <1>i, <1>a, <1>u, <1>1 DEF Login
<1>2. ASSUME NEW r \in Req, NEW s \in Sess, RefreshToken(r, s) PROVE AdminOnlyByAdmins'
  BY <1>0, <1>i, <1>a, <1>u, <1>2 DEF RefreshToken, StartRefresh
<1>3. ASSUME NEW r \in Req, NEW s \in Sess, NEW c \in Role, NEW op \in Op, NEW t \in User,
             NEW new \in Role, requireRole(r, s, c, op, t, new)
      PROVE  AdminOnlyByAdmins'
  <2>1. sess[s].user \in User
    BY <1>0, <1>3, SessionUsed DEF requireRole
  <2>2. op \in {"role", "delete"} => c = "admin"
    BY <1>3 DEF requireRole, min, roleRank, Role
  <2>3. op \in {"role", "delete"} => role[sess[s].user] = "admin"
    BY <1>0, <1>3, <2>2 DEF ClaimInv, requireRole
  <2> QED
    BY <1>0, <1>a, <1>u, <1>3, <2>1, <2>3 DEF requireRole, Idle
<1>4. ASSUME NEW r \in Req, NEW o \in Outcome, issueLoginSession(r, o) PROVE AdminOnlyByAdmins'
  BY <1>0, <1>i, <1>a, <1>u, <1>4 DEF issueLoginSession
<1>5. ASSUME NEW r \in Req, NEW o \in Outcome, RotateSessionTokens(r, o) PROVE AdminOnlyByAdmins'
  <2>1. (\A q \in Req : q # r => req'[q] = req[q]) /\ (req'[r] = Idle \/ Proceeds(r, "row"))
    BY <1>0, <1>5, Proceeding
  <2> QED
    BY <1>0, <1>i, <1>a, <1>u, <1>5, <2>1 DEF RotateSessionTokens, Proceeds
<1>6. ASSUME NEW r \in Req, NEW o \in Outcome, RotateRefreshSession(r, o) PROVE AdminOnlyByAdmins'
  BY <1>0, <1>i, <1>a, <1>u, <1>6 DEF RotateRefreshSession
<1>7. ASSUME NEW r \in Req, NEW o \in Outcome, loadAdminTarget(r, o) PROVE AdminOnlyByAdmins'
  BY <1>0, <1>i, <1>a, <1>u, <1>7 DEF loadAdminTarget
<1>8. ASSUME NEW r \in Req, NEW o \in Outcome, ListActiveSessionIDs(r, o) PROVE AdminOnlyByAdmins'
  BY <1>0, <1>i, <1>a, <1>u, <1>8 DEF ListActiveSessionIDs
<1>9. ASSUME NEW r \in Req, NEW o \in Outcome, SetActorID(r, o) PROVE AdminOnlyByAdmins'
  <2>1. (\A q \in Req : q # r => req'[q] = req[q]) /\ (req'[r] = Idle \/ Proceeds(r, "write"))
    BY <1>0, <1>9, Proceeding
  <2> QED
    BY <1>0, <1>i, <1>a, <1>u, <1>9, <2>1 DEF SetActorID, Proceeds
<1>10. ASSUME NEW r \in Req, NEW o \in Outcome, WithActor(r, o) PROVE AdminOnlyByAdmins'
  <2>1. (\A q \in Req : q # r => req'[q] = req[q]) /\ (req'[r] = Idle \/ Proceeds(r, "drop"))
    BY <1>0, <1>10, Proceeding
  <2> QED
    BY <1>0, <1>i, <1>a, <1>u, <1>10, <2>1 DEF WithActor, Proceeds
<1>11. ASSUME NEW r \in Req, NEW o \in Outcome, DeleteSessions(r, o) PROVE AdminOnlyByAdmins'
  BY <1>0, <1>i, <1>a, <1>u, <1>11 DEF DeleteSessions
<1>12. ASSUME NEW r \in Req, NEW o \in Outcome, CreatePasswordReset(r, o) PROVE AdminOnlyByAdmins'
  <2>1. (\A q \in Req : q # r => req'[q] = req[q]) /\ (req'[r] = Idle \/ Proceeds(r, "note"))
    BY <1>0, <1>12, Proceeding
  <2> QED
    BY <1>0, <1>i, <1>a, <1>u, <1>12, <2>1 DEF CreatePasswordReset, Proceeds
<1>13. ASSUME NEW r \in Req, NEW o \in Outcome, CreateAuditLog(r, o) PROVE AdminOnlyByAdmins'
  BY <1>0, <1>i, <1>a, <1>u, <1>13 DEF CreateAuditLog
<1>14. ASSUME NEW r \in Req, NEW o \in Outcome, SendPasswordResetEmail(r, o) PROVE AdminOnlyByAdmins'
  BY <1>0, <1>i, <1>a, <1>u, <1>14 DEF SendPasswordResetEmail
<1>15. CASE SelfService
  BY <1>0, <1>i, <1>a, <1>u, <1>15 DEF SelfService
<1>16. ASSUME NEW u \in User, ProvisionAdmin(u) PROVE AdminOnlyByAdmins'
  BY <1>0, <1>i, <1>a, <1>u, <1>16 DEF ProvisionAdmin
<1>17. ASSUME NEW s \in Sess, NEW c \in Role, AccessTokenExpires(s, c) PROVE AdminOnlyByAdmins'
  BY <1>0, <1>i, <1>a, <1>u, <1>17 DEF AccessTokenExpires
<1>18. ASSUME NEW s \in Sess, SessionEnds(s) PROVE AdminOnlyByAdmins'
  BY <1>0, <1>i, <1>a, <1>u, <1>18 DEF SessionEnds
<1>19. CASE UNCHANGED vars
  BY <1>0, <1>i, <1>a, <1>u, <1>19 DEF vars
<1> QED
  BY <1>1, <1>2, <1>3, <1>4, <1>5, <1>6, <1>7, <1>8, <1>9, <1>10,
     <1>11, <1>12, <1>13, <1>14, <1>15, <1>16, <1>17, <1>18, <1>19
  DEF Next, Arrive, Step, Environment

\* loadAdminTarget reads a target that was an admin as one.
LEMMA ProtectedStep == IInv /\ [Next]_vars => AdminProtected'
<1> SUFFICES ASSUME IInv, [Next]_vars PROVE AdminProtected'
  OBVIOUS
<1> USE DEF TypeOK, TargetInv, AdminProtected, Request, users, At, Goto, Finish
<1>0. TypeOK /\ ControlInv /\ TargetInv /\ AdminProtected
  BY DEF IInv
<1>i. Idle.pc = "idle" /\ ~Idle.late
  BY DEF Idle
<1>1. ASSUME NEW r \in Req, NEW u \in User, Login(r, u) PROVE AdminProtected'
  BY <1>0, <1>i, <1>1 DEF Login
<1>2. ASSUME NEW r \in Req, NEW s \in Sess, RefreshToken(r, s) PROVE AdminProtected'
  BY <1>0, <1>i, <1>2 DEF RefreshToken, StartRefresh
<1>3. ASSUME NEW r \in Req, NEW s \in Sess, NEW c \in Role, NEW op \in Op, NEW t \in User,
             NEW new \in Role, requireRole(r, s, c, op, t, new)
      PROVE  AdminProtected'
  BY <1>0, <1>i, <1>3 DEF requireRole
<1>4. ASSUME NEW r \in Req, NEW o \in Outcome, issueLoginSession(r, o) PROVE AdminProtected'
  BY <1>0, <1>i, <1>4 DEF issueLoginSession
<1>5. ASSUME NEW r \in Req, NEW o \in Outcome, RotateSessionTokens(r, o) PROVE AdminProtected'
  <2>1. (\A q \in Req : q # r => req'[q] = req[q]) /\ (req'[r] = Idle \/ Proceeds(r, "row"))
    BY <1>0, <1>5, Proceeding
  <2> QED
    BY <1>0, <1>i, <1>5, <2>1 DEF RotateSessionTokens, Proceeds
<1>6. ASSUME NEW r \in Req, NEW o \in Outcome, RotateRefreshSession(r, o) PROVE AdminProtected'
  BY <1>0, <1>i, <1>6 DEF RotateRefreshSession
<1>7. ASSUME NEW r \in Req, NEW o \in Outcome, loadAdminTarget(r, o) PROVE AdminProtected'
  BY <1>0, <1>i, <1>7 DEF loadAdminTarget
<1>8. ASSUME NEW r \in Req, NEW o \in Outcome, ListActiveSessionIDs(r, o) PROVE AdminProtected'
  BY <1>0, <1>i, <1>8 DEF ListActiveSessionIDs
<1>9. ASSUME NEW r \in Req, NEW o \in Outcome, SetActorID(r, o) PROVE AdminProtected'
  <2>1. (\A q \in Req : q # r => req'[q] = req[q]) /\ (req'[r] = Idle \/ Proceeds(r, "write"))
    BY <1>0, <1>9, Proceeding
  <2> QED
    BY <1>0, <1>i, <1>9, <2>1 DEF SetActorID, Proceeds
<1>10. ASSUME NEW r \in Req, NEW o \in Outcome, WithActor(r, o) PROVE AdminProtected'
  <2>1. (\A q \in Req : q # r => req'[q] = req[q]) /\ (req'[r] = Idle \/ Proceeds(r, "drop"))
    BY <1>0, <1>10, Proceeding
  <2> QED
    BY <1>0, <1>i, <1>10, <2>1 DEF WithActor, Proceeds
<1>11. ASSUME NEW r \in Req, NEW o \in Outcome, DeleteSessions(r, o) PROVE AdminProtected'
  BY <1>0, <1>i, <1>11 DEF DeleteSessions
<1>12. ASSUME NEW r \in Req, NEW o \in Outcome, CreatePasswordReset(r, o) PROVE AdminProtected'
  <2>1. (\A q \in Req : q # r => req'[q] = req[q]) /\ (req'[r] = Idle \/ Proceeds(r, "note"))
    BY <1>0, <1>12, Proceeding
  <2> QED
    BY <1>0, <1>i, <1>12, <2>1 DEF CreatePasswordReset, Proceeds
<1>13. ASSUME NEW r \in Req, NEW o \in Outcome, CreateAuditLog(r, o) PROVE AdminProtected'
  BY <1>0, <1>i, <1>13 DEF CreateAuditLog
<1>14. ASSUME NEW r \in Req, NEW o \in Outcome, SendPasswordResetEmail(r, o) PROVE AdminProtected'
  BY <1>0, <1>i, <1>14 DEF SendPasswordResetEmail
<1>15. CASE SelfService
  BY <1>0, <1>i, <1>15 DEF SelfService
<1>16. ASSUME NEW u \in User, ProvisionAdmin(u) PROVE AdminProtected'
  BY <1>0, <1>i, <1>16 DEF ProvisionAdmin
<1>17. ASSUME NEW s \in Sess, NEW c \in Role, AccessTokenExpires(s, c) PROVE AdminProtected'
  BY <1>0, <1>i, <1>17 DEF AccessTokenExpires
<1>18. ASSUME NEW s \in Sess, SessionEnds(s) PROVE AdminProtected'
  BY <1>0, <1>i, <1>18 DEF SessionEnds
<1>19. CASE UNCHANGED vars
  BY <1>0, <1>i, <1>19 DEF vars
<1> QED
  BY <1>1, <1>2, <1>3, <1>4, <1>5, <1>6, <1>7, <1>8, <1>9, <1>10,
     <1>11, <1>12, <1>13, <1>14, <1>15, <1>16, <1>17, <1>18, <1>19
  DEF Next, Arrive, Step, Environment

-----------------------------------------------------------------------------
(* In whose name changes are recorded *)

\* A transaction takes a connection from the pool, names its actor there, and
\* gives it back with the setting gone.
LEMMA PoolStep == IInv /\ [Next]_vars => PoolInv'
<1> SUFFICES ASSUME IInv, [Next]_vars PROVE PoolInv'
  OBVIOUS
<1> USE AdminApiAssumption DEF TypeOK, Request, users, At, Goto, Finish
<1>0. TypeOK /\ ControlInv /\ PoolInv
  BY DEF IInv
<1>i. Idle.pc = "idle" /\ Idle.conn = None
  BY DEF Idle
\* What is left to show of a step outside the transactions.
<1>k. ASSUME guc' = guc,
             \A q \in Req : /\ At(q, "write")' <=> At(q, "write")
                            /\ At(q, "write") => req'[q] = req[q]
                            /\ ~At(q, "write") => req'[q].conn = None
      PROVE  PoolInv'
  BY <1>0, <1>k DEF PoolInv
<1>1. ASSUME NEW r \in Req, NEW u \in User, Login(r, u) PROVE PoolInv'
  <2>1. \A q \in Req : /\ At(q, "write")' <=> At(q, "write")
                       /\ At(q, "write") => req'[q] = req[q]
                       /\ ~At(q, "write") => req'[q].conn = None
    BY <1>0, <1>i, <1>1 DEF Login, PoolInv
  <2> QED
    BY <1>k, <1>1, <2>1 DEF Login
<1>2. ASSUME NEW r \in Req, NEW s \in Sess, RefreshToken(r, s) PROVE PoolInv'
  <2>1. \A q \in Req : /\ At(q, "write")' <=> At(q, "write")
                       /\ At(q, "write") => req'[q] = req[q]
                       /\ ~At(q, "write") => req'[q].conn = None
    BY <1>0, <1>i, <1>2 DEF RefreshToken, StartRefresh, PoolInv
  <2> QED
    BY <1>k, <1>2, <2>1 DEF RefreshToken
<1>3. ASSUME NEW r \in Req, NEW s \in Sess, NEW c \in Role, NEW op \in Op, NEW t \in User,
             NEW new \in Role, requireRole(r, s, c, op, t, new)
      PROVE  PoolInv'
  <2>1. \A q \in Req : /\ At(q, "write")' <=> At(q, "write")
                       /\ At(q, "write") => req'[q] = req[q]
                       /\ ~At(q, "write") => req'[q].conn = None
    BY <1>0, <1>i, <1>3 DEF requireRole, PoolInv
  <2> QED
    BY <1>k, <1>3, <2>1 DEF requireRole
<1>4. ASSUME NEW r \in Req, NEW o \in Outcome, issueLoginSession(r, o) PROVE PoolInv'
  <2>1. \A q \in Req : /\ At(q, "write")' <=> At(q, "write")
                       /\ At(q, "write") => req'[q] = req[q]
                       /\ ~At(q, "write") => req'[q].conn = None
    BY <1>0, <1>i, <1>4 DEF issueLoginSession, PoolInv
  <2> QED
    BY <1>k, <1>4, <2>1 DEF issueLoginSession
<1>5. ASSUME NEW r \in Req, NEW o \in Outcome, RotateSessionTokens(r, o) PROVE PoolInv'
  <2>1. \A q \in Req : /\ At(q, "write")' <=> At(q, "write")
                       /\ At(q, "write") => req'[q] = req[q]
                       /\ ~At(q, "write") => req'[q].conn = None
    BY <1>0, <1>i, <1>5 DEF RotateSessionTokens, PoolInv
  <2> QED
    BY <1>k, <1>5, <2>1 DEF RotateSessionTokens
<1>6. ASSUME NEW r \in Req, NEW o \in Outcome, RotateRefreshSession(r, o) PROVE PoolInv'
  <2>1. \A q \in Req : /\ At(q, "write")' <=> At(q, "write")
                       /\ At(q, "write") => req'[q] = req[q]
                       /\ ~At(q, "write") => req'[q].conn = None
    BY <1>0, <1>i, <1>6 DEF RotateRefreshSession, PoolInv
  <2> QED
    BY <1>k, <1>6, <2>1 DEF RotateRefreshSession
<1>7. ASSUME NEW r \in Req, NEW o \in Outcome, loadAdminTarget(r, o) PROVE PoolInv'
  <2>0. NextPc(req[r].op) \in {"list", "tx", "create"}
    BY DEF NextPc
  <2>1. \A q \in Req : /\ At(q, "write")' <=> At(q, "write")
                       /\ At(q, "write") => req'[q] = req[q]
                       /\ ~At(q, "write") => req'[q].conn = None
    BY <1>0, <1>i, <1>7, <2>0 DEF loadAdminTarget, PoolInv
  <2> QED
    BY <1>k, <1>7, <2>1 DEF loadAdminTarget
<1>8. ASSUME NEW r \in Req, NEW o \in Outcome, ListActiveSessionIDs(r, o) PROVE PoolInv'
  <2>1. \A q \in Req : /\ At(q, "write")' <=> At(q, "write")
                       /\ At(q, "write") => req'[q] = req[q]
                       /\ ~At(q, "write") => req'[q].conn = None
    BY <1>0, <1>i, <1>8 DEF ListActiveSessionIDs, PoolInv
  <2> QED
    BY <1>k, <1>8, <2>1 DEF ListActiveSessionIDs
<1>9. ASSUME NEW r \in Req, NEW o \in Outcome, SetActorID(r, o) PROVE PoolInv'
  <2>1. req[r].actor \in User /\ ~At(r, "write")
    BY <1>0, <1>9 DEF SetActorID, ControlInv
  <2>2. PICK k \in Conn :
          /\ InPool(k)
          /\ \/ /\ guc' = [guc EXCEPT ![k] = req[r].actor]
                /\ req' = [req EXCEPT ![r] = [@ EXCEPT !.pc = "write", !.conn = k]]
             \/ /\ guc' \in {guc, [guc EXCEPT ![k] = Empty]}
                /\ req' = [req EXCEPT ![r] = Idle]
    BY <1>9 DEF SetActorID
  <2>3. \A q \in Req : req[q].conn # k
    BY <2>2 DEF InPool
  <2>4. CASE req' = [req EXCEPT ![r] = Idle] /\ guc' \in {guc, [guc EXCEPT ![k] = Empty]}
    BY <1>0, <1>i, <2>1, <2>3, <2>4 DEF PoolInv
  <2>5. CASE /\ guc' = [guc EXCEPT ![k] = req[r].actor]
             /\ req' = [req EXCEPT ![r] = [@ EXCEPT !.pc = "write", !.conn = k]]
    <3>1. \A q \in Req : q # r => req'[q] = req[q]
      BY <1>0, <2>5
    <3>2. req'[r].pc = "write" /\ req'[r].conn = k /\ req'[r].actor = req[r].actor
      BY <1>0, <2>5
    <3>3. guc'[k] = req[r].actor /\ \A j \in Conn : j # k => guc'[j] = guc[j]
      BY <1>0, <2>5
    <3>4. \A q \in Req : IF At(q, "write")' THEN req'[q].conn \in Conn /\ guc'[req'[q].conn] = req'[q].actor
                                              ELSE req'[q].conn = None
      BY <1>0, <2>3, <3>1, <3>2, <3>3 DEF PoolInv
    <3>5. \A p, q \in Req : At(p, "write")' /\ At(q, "write")' /\ req'[p].conn = req'[q].conn => p = q
      BY <1>0, <2>3, <3>1, <3>2 DEF PoolInv
    <3>6. \A j \in Conn : guc'[j] \in {Unset, Empty} \/ \E q \in Req : At(q, "write")' /\ req'[q].conn = j
      <4>1. ASSUME NEW j \in Conn, j # k, guc[j] \notin {Unset, Empty}
            PROVE  \E q \in Req : At(q, "write")' /\ req'[q].conn = j
        <5>1. PICK q \in Req : At(q, "write") /\ req[q].conn = j
          BY <1>0, <4>1 DEF PoolInv
        <5> QED
          BY <2>1, <3>1, <5>1
      <4> QED
        BY <3>2, <3>3, <4>1
    <3> QED
      BY <3>4, <3>5, <3>6 DEF PoolInv
  <2> QED
    BY <2>2, <2>4, <2>5
<1>10. ASSUME NEW r \in Req, NEW o \in Outcome, WithActor(r, o) PROVE PoolInv'
  <2>1. At(r, "write") /\ req[r].conn \in Conn
    BY <1>0, <1>10 DEF WithActor, PoolInv
  <2>2. guc' = [guc EXCEPT ![req[r].conn] = Empty]
    BY <1>10 DEF WithActor, EndTx
  <2>3. (\A q \in Req : q # r => req'[q] = req[q]) /\ req'[r].pc # "write" /\ req'[r].conn = None
    BY <1>0, <1>i, <1>10, Proceeding DEF Proceeds
  <2>4. \A q \in Req : q # r /\ At(q, "write") => guc'[req[q].conn] = guc[req[q].conn]
    BY <1>0, <2>1, <2>2 DEF PoolInv
  <2> QED
    BY <1>0, <2>1, <2>2, <2>3, <2>4 DEF PoolInv
<1>11. ASSUME NEW r \in Req, NEW o \in Outcome, DeleteSessions(r, o) PROVE PoolInv'
  <2>1. \A q \in Req : /\ At(q, "write")' <=> At(q, "write")
                       /\ At(q, "write") => req'[q] = req[q]
                       /\ ~At(q, "write") => req'[q].conn = None
    BY <1>0, <1>i, <1>11 DEF DeleteSessions, PoolInv
  <2> QED
    BY <1>k, <1>11, <2>1 DEF DeleteSessions
<1>12. ASSUME NEW r \in Req, NEW o \in Outcome, CreatePasswordReset(r, o) PROVE PoolInv'
  <2>1. \A q \in Req : /\ At(q, "write")' <=> At(q, "write")
                       /\ At(q, "write") => req'[q] = req[q]
                       /\ ~At(q, "write") => req'[q].conn = None
    BY <1>0, <1>i, <1>12 DEF CreatePasswordReset, PoolInv
  <2> QED
    BY <1>k, <1>12, <2>1 DEF CreatePasswordReset
<1>13. ASSUME NEW r \in Req, NEW o \in Outcome, CreateAuditLog(r, o) PROVE PoolInv'
  <2>1. \A q \in Req : /\ At(q, "write")' <=> At(q, "write")
                       /\ At(q, "write") => req'[q] = req[q]
                       /\ ~At(q, "write") => req'[q].conn = None
    BY <1>0, <1>i, <1>13 DEF CreateAuditLog, PoolInv
  <2> QED
    BY <1>k, <1>13, <2>1 DEF CreateAuditLog
<1>14. ASSUME NEW r \in Req, NEW o \in Outcome, SendPasswordResetEmail(r, o) PROVE PoolInv'
  <2>1. \A q \in Req : /\ At(q, "write")' <=> At(q, "write")
                       /\ At(q, "write") => req'[q] = req[q]
                       /\ ~At(q, "write") => req'[q].conn = None
    BY <1>0, <1>i, <1>14 DEF SendPasswordResetEmail, PoolInv
  <2> QED
    BY <1>k, <1>14, <2>1 DEF SendPasswordResetEmail
<1>15. CASE SelfService
  <2>1. \A q \in Req : /\ At(q, "write")' <=> At(q, "write")
                       /\ At(q, "write") => req'[q] = req[q]
                       /\ ~At(q, "write") => req'[q].conn = None
    BY <1>0, <1>i, <1>15 DEF SelfService, PoolInv
  <2> QED
    BY <1>k, <1>15, <2>1 DEF SelfService
<1>16. ASSUME NEW u \in User, ProvisionAdmin(u) PROVE PoolInv'
  <2>1. \A q \in Req : /\ At(q, "write")' <=> At(q, "write")
                       /\ At(q, "write") => req'[q] = req[q]
                       /\ ~At(q, "write") => req'[q].conn = None
    BY <1>0, <1>i, <1>16 DEF ProvisionAdmin, PoolInv
  <2> QED
    BY <1>k, <1>16, <2>1 DEF ProvisionAdmin
<1>17. ASSUME NEW s \in Sess, NEW c \in Role, AccessTokenExpires(s, c) PROVE PoolInv'
  <2>1. \A q \in Req : /\ At(q, "write")' <=> At(q, "write")
                       /\ At(q, "write") => req'[q] = req[q]
                       /\ ~At(q, "write") => req'[q].conn = None
    BY <1>0, <1>i, <1>17 DEF AccessTokenExpires, PoolInv
  <2> QED
    BY <1>k, <1>17, <2>1 DEF AccessTokenExpires
<1>18. ASSUME NEW s \in Sess, SessionEnds(s) PROVE PoolInv'
  <2>1. \A q \in Req : /\ At(q, "write")' <=> At(q, "write")
                       /\ At(q, "write") => req'[q] = req[q]
                       /\ ~At(q, "write") => req'[q].conn = None
    BY <1>0, <1>i, <1>18 DEF SessionEnds, PoolInv
  <2> QED
    BY <1>k, <1>18, <2>1 DEF SessionEnds
<1>19. CASE UNCHANGED vars
  <2>1. \A q \in Req : /\ At(q, "write")' <=> At(q, "write")
                       /\ At(q, "write") => req'[q] = req[q]
                       /\ ~At(q, "write") => req'[q].conn = None
    BY <1>0, <1>i, <1>19 DEF vars, PoolInv
  <2> QED
    BY <1>k, <1>19, <2>1 DEF vars
<1> QED
  BY <1>1, <1>2, <1>3, <1>4, <1>5, <1>6, <1>7, <1>8, <1>9, <1>10,
     <1>11, <1>12, <1>13, <1>14, <1>15, <1>16, <1>17, <1>18, <1>19
  DEF Next, Arrive, Step, Environment

\* The triggers name the actor of the transaction, and nobody outside one.
LEMMA AttributedStep == IInv /\ [Next]_vars => Attributed'
<1> SUFFICES ASSUME IInv, [Next]_vars PROVE Attributed'
  OBVIOUS
<1> USE DEF Attributed, users
<1>0. TypeOK /\ ControlInv /\ PoolInv /\ Attributed
  BY DEF IInv
<1>1. ASSUME NEW r \in Req, NEW u \in User, Login(r, u) PROVE Attributed'
  BY <1>0, <1>1 DEF Login
<1>2. ASSUME NEW r \in Req, NEW s \in Sess, RefreshToken(r, s) PROVE Attributed'
  BY <1>0, <1>2 DEF RefreshToken
<1>3. ASSUME NEW r \in Req, NEW s \in Sess, NEW c \in Role, NEW op \in Op, NEW t \in User,
             NEW new \in Role, requireRole(r, s, c, op, t, new)
      PROVE  Attributed'
  BY <1>0, <1>3 DEF requireRole
<1>4. ASSUME NEW r \in Req, NEW o \in Outcome, issueLoginSession(r, o) PROVE Attributed'
  BY <1>0, <1>4 DEF issueLoginSession
<1>5. ASSUME NEW r \in Req, NEW o \in Outcome, RotateSessionTokens(r, o) PROVE Attributed'
  BY <1>0, <1>5 DEF RotateSessionTokens
<1>6. ASSUME NEW r \in Req, NEW o \in Outcome, RotateRefreshSession(r, o) PROVE Attributed'
  BY <1>0, <1>6 DEF RotateRefreshSession
<1>7. ASSUME NEW r \in Req, NEW o \in Outcome, loadAdminTarget(r, o) PROVE Attributed'
  BY <1>0, <1>7 DEF loadAdminTarget
<1>8. ASSUME NEW r \in Req, NEW o \in Outcome, ListActiveSessionIDs(r, o) PROVE Attributed'
  BY <1>0, <1>8 DEF ListActiveSessionIDs
<1>9. ASSUME NEW r \in Req, NEW o \in Outcome, SetActorID(r, o) PROVE Attributed'
  BY <1>0, <1>9 DEF SetActorID
<1>10. ASSUME NEW r \in Req, NEW o \in Outcome, WithActor(r, o) PROVE Attributed'
  <2>1. req[r].actor \in User /\ guc[req[r].conn] = req[r].actor
    BY <1>0, <1>10 DEF WithActor, PoolInv, ControlInv, At
  <2>2. CurrentActor(req[r].conn) = req[r].actor
    BY <2>1, AdminApiAssumption DEF CurrentActor, NullIf, Cast
  <2> QED
    BY <1>0, <1>10, <2>2 DEF WithActor
<1>11. ASSUME NEW r \in Req, NEW o \in Outcome, DeleteSessions(r, o) PROVE Attributed'
  BY <1>0, <1>11 DEF DeleteSessions
<1>12. ASSUME NEW r \in Req, NEW o \in Outcome, CreatePasswordReset(r, o) PROVE Attributed'
  BY <1>0, <1>12 DEF CreatePasswordReset
<1>13. ASSUME NEW r \in Req, NEW o \in Outcome, CreateAuditLog(r, o) PROVE Attributed'
  BY <1>0, <1>13 DEF CreateAuditLog
<1>14. ASSUME NEW r \in Req, NEW o \in Outcome, SendPasswordResetEmail(r, o) PROVE Attributed'
  BY <1>0, <1>14 DEF SendPasswordResetEmail
<1>15. CASE SelfService
  <2>1. PICK k \in Conn : InPool(k) /\ wrong' = (wrong \/ CurrentActor(k) # None)
    BY <1>15 DEF SelfService
  <2>2. guc[k] \in {Unset, Empty}
    BY <1>0, <2>1 DEF PoolInv, InPool
  <2>3. CurrentActor(k) = None
    BY <2>2 DEF CurrentActor, NullIf, Cast, Unset, Empty
  <2> QED
    BY <1>0, <2>1, <2>3
<1>16. ASSUME NEW u \in User, ProvisionAdmin(u) PROVE Attributed'
  BY <1>0, <1>16 DEF ProvisionAdmin
<1>17. ASSUME NEW s \in Sess, NEW c \in Role, AccessTokenExpires(s, c) PROVE Attributed'
  BY <1>0, <1>17 DEF AccessTokenExpires
<1>18. ASSUME NEW s \in Sess, SessionEnds(s) PROVE Attributed'
  BY <1>0, <1>18 DEF SessionEnds
<1>19. CASE UNCHANGED vars
  BY <1>0, <1>19 DEF vars
<1> QED
  BY <1>1, <1>2, <1>3, <1>4, <1>5, <1>6, <1>7, <1>8, <1>9, <1>10,
     <1>11, <1>12, <1>13, <1>14, <1>15, <1>16, <1>17, <1>18, <1>19
  DEF Next, Arrive, Step, Environment

-----------------------------------------------------------------------------
\* The invariant holds in every reachable state.
THEOREM Invariance == Spec => []IInv
<1>1. IInv /\ [Next]_vars => IInv'
  BY TypeStep, ControlStep, SidStep, ClaimStep, TargetStep, ByAdminsStep, ProtectedStep, PoolStep,
     AttributedStep DEF IInv
<1> QED
  BY InitIInv, <1>1, PTL DEF Spec

\* Every reachable state of the admin API is well typed.
THEOREM TypeCorrect == Spec => []TypeOK
<1>1. IInv => TypeOK
  BY DEF IInv
<1> QED
  BY Invariance, <1>1, PTL

\* Whoever is about to change a role or delete an account is an admin then,
\* although requireRole looked at a claim that may be as old as the last
\* refresh.
THEOREM OnlyAdminsAct == Spec => []AdminOnlyByAdmins
<1>1. IInv => AdminOnlyByAdmins
  BY DEF IInv
<1> QED
  BY Invariance, <1>1, PTL

\* A request against an account that was an admin when it began never gets
\* past loadAdminTarget.
THEOREM AdminsAreProtected == Spec => []AdminProtected
<1>1. IInv => AdminProtected
  BY DEF IInv
<1> QED
  BY Invariance, <1>1, PTL

\* No request of the API creates or removes an admin, whatever was provisioned
\* between its reads and its transaction.
THEOREM NoAdminByApi == Spec => AdminsOnlyProvisioned
<1>1. IInv /\ [Next]_vars =>
        [Admins' # Admins => Admins \subseteq Admins' /\ req' = req]_vars
  BY AdminsStep
<1> QED
  BY Invariance, <1>1, PTL DEF Spec, AdminsOnlyProvisioned

\* However admin transactions and users' own changes share the pool, and
\* whichever of them fail, what a trigger records in an admin's transaction
\* names that admin, and what it records outside one names nobody and does not
\* fail on what the transactions before have left on the connection.
THEOREM ChangesAreAttributed == Spec => []Attributed
<1>1. IInv => Attributed
  BY DEF IInv
<1> QED
  BY Invariance, <1>1, PTL
=============================================================================
