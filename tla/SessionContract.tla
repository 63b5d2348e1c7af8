--------------------------- MODULE SessionContract ---------------------------
(***************************************************************************)
(* What the service promises about a login session, stated without the     *)
(* two stores, the requests or their steps.  A session is opened once for  *)
(* one account, its refresh token is replaced while it is open, and it is  *)
(* closed for good.  The sessions table of Postgres is where the promise   *)
(* is kept ("Postgres alone is the source of truth for whether a session   *)
(* is revoked", internal/db/postgres/password_resets.go); module Sessions  *)
(* is shown to implement this specification.                               *)
(***************************************************************************)
CONSTANTS User, Sid, Token, NoUser, NoToken

VARIABLES
    state,   \* state[s]: "none" before it is opened, then "active", then "revoked"
    owner,   \* owner[s]: the account the session belongs to
    current, \* current[s]: the refresh token the session accepts
    chain,   \* chain[s]: every token that was ever current[s]
    from     \* from[t]: the token that was presented to obtain t

cvars == <<state, owner, current, chain, from>>

CInit ==
    /\ state = [s \in Sid |-> "none"]
    /\ owner = [s \in Sid |-> NoUser]
    /\ current = [s \in Sid |-> NoToken]
    /\ chain = [s \in Sid |-> {}]
    /\ from = [t \in Token |-> NoToken]

\* A token that was never current anywhere: tokens are not recycled, neither
\* within a session nor across sessions.
Unused(t) == \A s \in Sid : t \notin chain[s]

Open(s, u, t) ==
    /\ state[s] = "none"
    /\ Unused(t)
    /\ state' = [state EXCEPT ![s] = "active"]
    /\ owner' = [owner EXCEPT ![s] = u]
    /\ current' = [current EXCEPT ![s] = t]
    /\ chain' = [chain EXCEPT ![s] = {t}]
    /\ UNCHANGED from

\* The token is replaced only on presentation of a token p of this very
\* session, so the tokens of a session form one tree.  p need not be the
\* current one: two refreshes that overlap may both have been checked
\* against the same token.
Rotate(s, p, t) ==
    /\ state[s] = "active"
    /\ p \in chain[s]
    /\ Unused(t)
    /\ current' = [current EXCEPT ![s] = t]
    /\ chain' = [chain EXCEPT ![s] = @ \cup {t}]
    /\ from' = [from EXCEPT ![t] = p]
    /\ UNCHANGED <<state, owner>>

\* One statement or transaction closes any set of open sessions of an account.
Revoke(u, S) ==
    /\ \A s \in S : state[s] = "active" /\ owner[s] = u
    /\ state' = [s \in Sid |-> IF s \in S THEN "revoked" ELSE state[s]]
    /\ UNCHANGED <<owner, current, chain, from>>

CNext ==
    \/ \E s \in Sid, u \in User, t \in Token : Open(s, u, t)
    \/ \E s \in Sid, p \in Token, t \in Token : Rotate(s, p, t)
    \/ \E u \in User, S \in SUBSET Sid : Revoke(u, S)

CSpec == CInit /\ [][CNext]_cvars
=============================================================================
