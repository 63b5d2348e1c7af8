# Verification of golang-auth-api

TLA+ specifications of the authentication service in `src/`, the TLC
configurations that check them on small instances, and TLAPS proofs of their
main properties for every instance.

| file | what it is |
| --- | --- |
| `SessionContract.tla` | what the service promises about a login session, abstractly |
| `Sessions.tla` | the session lifecycle across Postgres and Redis, call by call |
| `SessionsProofs.tla` | theorems about `Sessions` and their proofs |
| `Credentials.tla` | the password of one account: login, lockout, MFA gate, rehash, reset, change |
| `Signup.tla` | how accounts come into being: signup by email, and SSO login |
| `Mfa.tla` | the second factors of one account: enrolment, codes, recovery, the second login step |
| `Passkeys.tla` | WebAuthn ceremonies, credentials, sign counters |
| `AdminApi.tla` | roles, whom an admin may touch, attribution in the audit log |
| `CredentialsProofs.tla`, `SignupProofs.tla`, `MfaProofs.tla`, `PasskeysProofs.tla`, `AdminApiProofs.tla` | theorems about those modules and their proofs |
| `MC*.tla` | instances for TLC (symmetry sets only) |
| `*.cfg` | one configuration per run |
| `PROJECT.json` | components, runs, mutants, source map, findings, hazards, theorems |

A definition whose comment says "Faulty variant" is not part of a
specification. It is a plausible bug in the definition below it, and
`PROJECT.json` records which property it breaks when put in its place.

## 1. Inventory

The service is an HTTP API in Go. Each request runs in a goroutine, calls a
handler, which calls one function of `internal/services`. There is no shared
memory between requests that the protocol depends on: all state is in Postgres
(queries in `db/queries`, transactions in `internal/db/postgres`) and in Redis.
Concurrency is therefore between *store calls*: any number of requests, and
any number of server processes, interleave between any two of their calls. A
separate program, `cmd/cron`, runs the SQL maintenance functions.

| component | state | operations | what makes it correct |
| --- | --- | --- | --- |
| Session issuance, refresh, logout | table `sessions`; Redis `session:<id>`, `refresh:<id>` | `issueLoginSession`, `RefreshToken`, `revokeCompromisedSession`, `Logout`, `VerifyAndParseJWT` | a pair given out is durable; a revoked session or blocked account gets no new pair; reuse of a rotated token closes the session; what is closed stays closed |
| Bulk revocation | the same, and `users.status`, `users.deleted_at` | ban, disable, delete, force-logout, reset, change | revocation is decided by the transaction; Redis keys are cleared only for sessions it closed |
| Login and lockout | `auth_identities.password_hash`, `failed_attempts`, `locked_at` | `Login` | guesses before the lock are bounded; the MFA gate fails closed; the rehash brings back no password but its own login's |
| Password reset and change | `password_resets`, `password_hash`, `sessions` | `RequestPasswordReset`, `AdminResetUserPassword`, `ResetPassword`, `ChangePassword` | a token works once; no session opened with the old password remains, and only a login already under way opens another |
| Maintenance job | the tables above | `revoke_expired_sessions`, `revoke_old_sessions`, `remove_expired_password_resets`, retention | only what is due is touched |
| Email signup | Redis `email_code:<email>`, `temporary_session:<id>`; `users`, `auth_identities` | start, verify code, complete join | attempts are counted; a code and a joiner token are used once; one account per email and username |
| MFA | `mfa_factors`, `mfa_recovery_codes`; Redis codes and challenges | enrol, verify, disable, `VerifyMFALogin` | a code is accepted once; only a proven secret is enabled |
| Passkeys | `webauthn_credentials`; Redis ceremonies | begin and finish of registration and login | a ceremony is finished once; a credential belongs to one account |
| SSO login | `auth_identities` of provider type | `SSOLogin` on a verified ID token | one account per provider subject; no takeover by email |
| Admin API | `users.status`, `users.role`, `audit_logs` | ban ... set role, reset, audit list | admins are not targets; every change is attributed |
| Audit triggers, HTTP plumbing, cryptography, configuration, mail | (none of the protocol's) | | taken as given, see section 7 |

How the parts meet: every kind of login ends in `issueLoginSession` (or the
same sequence in `CompleteEmailJoin`), which writes Redis first and Postgres
last. The middleware looks at Redis only; `RefreshToken` looks at Redis, then
at the row, then at the account, and writes Redis, then Postgres. Logout and
reuse detection delete the Redis keys and then revoke the row. The bulk
operations read the list of open sessions, run one transaction, and delete the
listed keys afterwards. The cron job revokes rows and does not know Redis.

What is hard in this code:

* *check, then act, across calls*: the refresh, the rehash, the reset token,
  the lock, the signup code and the TOTP step are all read in one call and
  written in a later one, without a condition on what was read;
* *two stores without a common transaction*: every write sequence can stop in
  the middle (error, deadline, lost reply, crash), and the order in which the
  stores are written differs between operations;
* *READ COMMITTED*: the UPDATE that revokes an account's sessions does not see
  a row inserted before its commit;
* *time*: Redis keys expire on their own, locks and resets lapse, the cron job
  revokes at any moment.

The hazards, each at its line, are in `PROJECT.json`.

## 2. Modules and the code

### Sessions

State: `rowState`, `rowUser`, `rowHash` are the table `sessions`
(`"none"` is "no row"); `rSession` and `rRefresh` the two kinds of Redis keys;
`status` and `deleted` the columns of `users` the flows look at. `req[r]` is
the local state of the request in slot `r`: which operation (`op`), which store
call comes next (`pc`) and the handler's local variables. `tokSid`, `tokUser`
and `parent` record what each minted pair's JWT says and which refresh token
was presented for it. `stored`, `delivered`, `late` and `loggedOut` are history
variables: the specification never branches on them except that a client can
present only what was `delivered` to it.

Each action is one store call with the code that follows it up to the next
call, including the early returns. `o` is the outcome of the call: `"ok"`,
`"lost"` (an error, nothing applied) or `"late"` (applied, but the caller sees
an error). `Crash` ends a request anywhere, and an open transaction with it.

| code | actions |
| --- | --- |
| `issueLoginSession`, end of `CompleteEmailJoin` | `IssueStart`, `GenerateSession`, `StoreRefresh` (`RandomTokenFails`), `CreateRefreshSession`, `UndoSession`, `ReturnLogin` |
| `RefreshToken` | `RefreshStart`, `GetRefreshKey`, `GetRefreshSession`, `GetUserByID`, (`ReadFails`), `GenerateSession`, `StoreRefresh`, `RotateRefreshSession` |
| `revokeCompromisedSession`, `Logout` | `LogoutStart`, `DeleteSession`, `RevokeSession` |
| ban, disable, delete, force-logout, reset, change | `BulkStart`, `ListActiveSessionIDs`, `RevokeAllUserSessions` (the UPDATE, which locks its rows), `Commit`, `ClearKeys` (one per key), `BulkDone` |
| unban, enable | `Reinstate` |
| `cmd/cron` | `CronRevoke` |
| Redis expiry, eviction | `SessionKeyExpires`, `RefreshKeyExpires` |

Abstractions: a refresh token and its SHA-256 are one value; a refresh request
may combine any JWT the client was given (expired ones are accepted there) with
any refresh token it was given, of any session and generation; the account
checks of the various logins are the guard of `IssueStart`, after which the
status can change. The status `offline` behaves as `active` in every check.
The expiry of a JWT is left out, which only lets more tokens in. Row locks are
explicit: `RotateRefreshSession`, `RevokeSession` and `CronRevoke` wait for a
bulk transaction that has hit the row. Of the two bulk transactions that meet
on a row the later one changes nothing there, as the `revoked = FALSE` of its
UPDATE is evaluated again.

### SessionContract

One session seen from outside: opened once for one account with an unused
token, its token replaced only while it is open and only on presentation of a
token of that very session, closed for good. `Sessions` maps onto it by its
table `sessions` (source of truth for revocation by the code's own comments),
with `chain[s]` the tokens ever stored for `s` and `from` their parents.

### Credentials

One account. `hash` is the password and whether its argon2 parameters and
pepper are the current ones; `failed`, `lock` (`"over"`: `locked_at` is set
but `LoginLockDuration` has passed); `mfa` the enabled factors; `resets` the
rows of `password_resets`; `open` and `challenges` the passwords that open
sessions and live MFA challenges were obtained with. Login decides everything
that depends on the row it read (`LoginRead`), and later steps use that
decision however old it is: `IncrementFailedLoginAttempts`,
`LockAuthIdentity`, `ResetFailedLoginAttempts`, the two queries of
`listEnabledMFAMethods`, then either `GenerateTemporaryJWT` (a factor was
found: the login ends with a challenge) or `Rehash` and `issueLoginSession`.
The second step is `VerifyMFALogin`, `CheckSecondFactor` (which code passes is
the subject of `Mfa`), `RecheckStatus`, `DeleteTemporarySession`,
`issueLoginSession`. The reset flow is `RequestPasswordReset`,
`GetLatestPasswordResetForUser` (the cooldown), `CreatePasswordReset`,
`SendPasswordResetEmail`, `GetActivePasswordReset`, `CheckOwner`,
`CompletePasswordReset`; an admin's reset enters at `CreatePasswordReset`. How
sessions are written in the two stores is the subject of `Sessions`, so here
issuing and revoking are one step.

Neither a reset nor a change knows the logins that are past their comparison or
the challenges in Redis. `carried` (a history variable) records their passwords
at the moment a new one is set, and the properties say that these are the only
old passwords that can come back or open a session afterwards.

### Signup

Two ways to an account share one module because they meet in the same unique
indexes. `codes[e]` is what Redis holds under `email_code:<e>`; `age` is the
time since a code was made, in the three classes the code tells apart;
`subject` and `live` are the joiner tokens and their `temporary_session` keys;
`users` and `identities` are the rows. A request is a sequence of store calls:

| code | actions |
| --- | --- |
| `StartEmailVerification` | `StartEmailVerification` (`IsEmailTaken`), `CheckCooldown`, `SaveNewCode`, `SendEmailVerificationEmail` |
| `VerifyEmailCode` | `VerifyEmailCode` (read and decide), `SaveFailedAttempt` or `GenerateTemporaryJWT`, `ConsumeCode` |
| `CompleteEmailJoin` | `CompleteEmailJoin`, `UsernameExists`, `CreateEmailUser`, `issueLoginSession`, `DeleteTemporarySession` |
| `SSOLogin` | `SSOLogin`, `GetUserIDByEmail`, `TryCandidate` (one probe for a free name), `CreateSSOUserAndIdentity`, `issueLoginSession` |
| time, admins | `CodeAges`, `CodeKeyLapses`, `TemporarySessionLapses`, `SetBlocked` |

All emails derive the same base name, which is the case in which the probes
collide. An account has its email for a key, which the unique index allows.

### Mfa

One account, and the recovery codes of `Others`. `totp` and `email` are its rows
in `mfa_factors`, `recovery` the recovery codes (a batch is one code, all
written and deleted together), `otp`
the mailed codes by purpose, `challenge` the `mfa_pending` sessions. A TOTP
code is the pair of a secret and a time step, `now` the current step, so drift
and replay are arithmetic on steps. `plan` is which factors the owner enrols.

| code | actions |
| --- | --- |
| `EnrollMFA` | `EnrollMFA`, `PreventMultipleTOTP` (the trigger's query), `UpsertPendingTOTPFactor` (INSERT or DO UPDATE) |
| `VerifyMFAEnrollment` | `VerifyMFAEnrollment`, `CompleteMFAEnrollment` (one transaction) |
| `DisableMFA`, `DisableEmailMFA` | the same, `DeleteTOTPFactor`, `DeleteOTPFactor` |
| `EnrollEmailMFA`, `SendMFALoginCode` | the same, `CheckCooldown`, `SaveMFAOTPCode`, `SendEmailVerificationEmail`, `UpsertPendingOTPFactor` |
| `VerifyEmailMFAEnrollment` | the same, `GetMFAOTPCode`, `SaveFailedAttempt`, `CompleteOTPFactorEnrollment`, `DeleteMFAOTPCode` |
| `VerifyMFALogin` | `VerifyMFALogin` and `ListEnabledMFAMethods` (the two queries), `CheckTOTP`, `RecordTOTPSuccess`, `CheckEmailCode`, `ConsumeEmailCode`, `GetUnusedMFARecoveryCode`, `MarkMFARecoveryCodeUsed`, `RecheckStatus`, `DeleteTemporarySession` |
| `Login`'s gate, time, `cmd/cron` | `IssueChallenge`, `ChallengeLapses`, `Tick`, `CodeAges`, `RemoveUnverifiedMFAFactors`; `OtherAccountEnrolls` |

The password an enrolled user gives to disable a factor is right in every
request that arrives; a wrong one changes nothing here. `MfaAssumption` says
that secrets, mailed codes and recovery codes are different things, so no code
of one kind is accepted as one of another. The trigger that forbids a second
TOTP row and the arbitration of the conflict are two steps: at READ COMMITTED
another enrolment's row can be committed between them, and is then overwritten
under its id, with a new secret and `enabled = FALSE`. The lookup of a recovery
code has no user filter, so an unused code of another account passes as well.
An enrolment counts as having
accepted its code when its transaction has changed the row: one that finds the
row gone returns an error and enables nothing.

### Passkeys

`reg[u]` is the one registration ceremony Redis keeps per user, `live` the
login ceremonies, `row` the table `webauthn_credentials` by credential id.
Authenticators are part of the environment: `Attest` makes a credential in
answer to a registration challenge, `Sign` an assertion with the next count,
and either can be sent any number of times, in any order, to any request.
`UpdateCounter` is what go-webauthn does with the count; the service stores
the result and does not look at the warning. `BeginPasskeyRegistration` to
`DeleteWebAuthnRegistrationSession` are the registration, `BeginPasskeyLogin`
to `issueLoginSession` the login, `RenamePasskey` and `DeletePasskey` with
`userOwnsPasskey` the management; each row of the table has an `id`, because
updates go by it and a credential id can be registered again.

### AdminApi

Every account's role, status and deletion; sessions with their two Redis keys
and the role claims of all their unexpired access tokens; `guc`, the setting
`app.actor_id` on each pooled connection. `Login` and `RefreshToken` read the
role, `RotateSessionTokens` sets the keys whatever has happened meanwhile,
`RotateRefreshSession` delivers a token if the row is not revoked. A refresh
takes no older token away: the middleware asks for the session key only.
`requireRole` looks at the claim and at nothing else, `loadAdminTarget` reads
the target's row. The transaction is two steps, `SetActorID` (BEGIN and
`set_config` on a connection from the pool) and `WithActor` (the update with the
trigger `trg_prevent_admin_demotion`, the audit trigger, the sessions, COMMIT or
ROLLBACK), so that other requests run on other connections in between.
`EndTx` is what `is_local` leaves behind: the empty string, whose cast to UUID
fails unless `NULLIF` comes first (`CurrentActor`, migration 007). `SelfService`
is any statement of a user that fires an audit trigger, on any connection of
the pool. `wrong` records that an entry named, or would have failed on, anyone
but the one who made the change. `ProvisionAdmin` is the manual database access
by which the repository's README says admins are made.

### Quiet histories

Several of the promises hold for requests that do not overlap and fail for
some that do, because a value is read in one call and written back in another.
`Signup`, `Mfa` and `Passkeys` therefore keep a `log` (a history variable no
action reads): what was accepted, guessed or removed, for as long as no two
requests overlapped and no store call failed. The first overlap or failure
blanks it for good. The properties on `log` are thus checked for every quiet
prefix, in the same run in which the other properties are checked with
overlap and failures.

## 3. Runs that pass

| run | instance | what it shows |
| --- | --- | --- |
| `SessionsSafety` | 2 requests, 1 account, 1 session, 2 tokens, every operation, every outcome, crashes, expiry (about 640 000 states) | `TypeOK`; `DeliveredBacked`: a pair reaches a client only once its token is in Postgres under the right account; `RefreshGuarded`: the rotation never hands out a pair for a session revoked, or an account blocked, at that very moment; `DeadStaysDead`; `ClearsOnlyRevoked`; `ContractSpec` |
| `SessionsLiveness` | as `SessionsSafety` with reliable calls, ban and change | `ReuseRevokes`: a session that reuse detection or logout decided to close ends up revoked |
| `CredentialsConcurrent` | 2 requests: logins with and without challenge, resets asked for by an admin; failing calls, factors and status switched (about 2.7 million states) | `TypeOK`; `GuessBound`: at most `MaxFailed - 1 + |Req|` wrong passwords are compared before the lock holds, when the counting calls succeed; `MfaNotSkipped`: a factor enabled throughout a login's checks is never missed |
| `CredentialsOverlap` | 2 requests: login with and without challenge, request of a reset, reset, change, rehash (about 5.3 million states) | `OldPasswordOnlyByRehash`: the stored password is the one last set, or that of a login that could still rehash when it was set; `OldSessionOnlyByPendingLogin`: an open session has the password last set, or that of a login or challenge pending when it was set; `ResetBound`: a token sets at most one password per request in flight |
| `Signup` | 2 requests, 2 emails, 1 provider account, 1 code, 2 joiner tokens, failing calls (about 1.35 million states) | with overlap: `AccountProved`, `OneAccountEach`, `SessionsOwned`; quiet: `CodeBounds` |
| `MfaTotp` | 2 requests, 2 secrets, 2 recovery codes, one other account, 2 time steps, failing calls (about 830 000 states) | with overlap: `FallbackExists`, `RecoverySpent`, `SecretProved`, `DisableNeedsPassword`; quiet: `SingleUse` |
| `MfaEmail` | 2 requests, 2 mailed codes, 2 recovery codes (about 680 000 states) | with overlap: `TypeOK`, `FallbackExists`, `DisableNeedsPassword`; quiet: `SingleUse` |
| `Passkeys` | 2 requests, 2 users, 1 credential registered up to twice, 3 challenges, failing calls (about 1.1 million states) | with overlap: `PasskeyOwned`; quiet: `CeremonyOnce`, `RemovedStaysRemoved`, `CountAdvances` |
| `AdminApi` | 2 requests, 2 accounts, 1 session, 2 connections, failing calls (about 860 000 states) | `AdminOnlyByAdmins`, `AdminProtected`, `AdminsOnlyProvisioned`, `Attributed`, and under fairness `DemotionTakesEffect` |

### Bounds

`Req` is the number of requests in flight at once, not in all: a slot is used
again. Two are enough for every race in section 4, and a third only matters
for the lock, whose bound depends on it. One session is enough for what
concerns a single row and its keys, since no action of `Sessions` looks at two
rows except through one account's set of open sessions; for several sessions
and accounts, among them a password change that spares one session of many,
there are the theorems of section 5. Two tokens give a first pair and one
rotation; running out of tokens takes the error path of `RandomToken`, so the bound is a
behaviour of the code and not a deadlock. `FailedBound` stops wrong passwords
from arriving; it is above every value `GuessBound` can need
(`MaxFailed - 1 + |Req|`), so the limit of the counter is never what stops the
guesses. `CredentialsOverlap` has `FailedBound = 0`, that is, no wrong passwords, and
calls that succeed: a failing call only ends a request earlier, and the theorems
of section 5 about the same properties include both.

`Signup` has two emails so that names collide between accounts, two tokens so
that two joins for one email race, and `NameTries = 2`, a probe that fails and
one more. `MfaTotp` has two secrets, an enrolment and the next one after a
disable or a clean-up, and two steps, so a code of the step before, of now and
of the step after exist. `Passkeys` has one credential, since rows of different
credentials never meet; it can be registered, removed and registered again
(`MaxRows = 2`), and its three challenges are shared by registrations and
logins. The attempt limits are 2 and 1 instead of 5. `AdminApi` has one
session and two connections: one that a transaction holds and one that the
other request, or a user, runs on meanwhile. In these modules running
out of a bounded supply takes the path of the failing call.
The proofs of section 5 do not depend on any bound.
Symmetry is used only in runs without liveness, and the values are
interchangeable in every definition. Deadlock is checked in the runs of
`Sessions`, `Credentials` and `AdminApi`. In `Signup`, `Mfa` and `Passkeys`
every request can always take its next step, but the codes, secrets and
challenges run out, after which nothing has to arrive any more: there it is
switched off.

### Fairness

`FairSpec` has weak fairness on `Step(r)` for every request: the Go scheduler
runs every goroutine, and every store call ends, since the request's context
carries `config.RequestTimeout` and the handlers do not wait on anything else.
Weak fairness is enough although rows can be locked: `RevokeSession` waits
only for a bulk transaction that is at its commit, which is itself a fair step.
Arrivals, the cron job, expiry and status changes are never forced to happen.
`ReuseRevokes` is checked for calls that succeed; when the final UPDATE fails
or the process dies, the code logs the failure and does not try again, so no
such promise exists.

`AdminApi` has weak fairness on `Step(r)` for the same reason, and on
`AccessTokenExpires(s, c)`, as access tokens have a finite lifetime. Nobody is
forced to send a request, so `DemotionTakesEffect` holds although the demoted
user may refresh without end: each refresh reads the role again, and the old
tokens, which no refresh invalidates, expire.

## 4. Runs that are violated

These state what a comment or the repository's README says; TLC finds the
shortest behaviour of the code in which it does not hold. The quotations are
in `PROJECT.json`.

| run | statement | what happens |
| --- | --- | --- |
| `LogoutRace` | `LogoutStopsAccess` | a refresh that passed its checks sets `session:<id>` after logout deleted it; its UPDATE then finds the row revoked and the key stays |
| `EnrollRestart` | `EnrollRestarts` | an abandoned TOTP enrolment leaves a pending row; the next `EnrollMFA` fails, because the BEFORE INSERT trigger against a second TOTP row runs before the `ON CONFLICT` clause |
| `ChallengeOutlivesReset` | `NoOldCredential` | a login with the old password ends in an MFA challenge; the reset revokes the sessions and leaves the challenge; `VerifyMFALogin` re-checks the status only and opens a session (one request at a time, no failure needed) |

More races follow from reading in one call and writing in another. They have
no run of their own; each is an exception that a property above makes, or what
keeps it from holding with overlap, and is listed at its line under the hazards:

* two refreshes with one token are both compared before either rotates, and
  both return a pair, after which Redis and Postgres may hold different tokens;
* a session revoked by the cron job is no longer listed, so a later reset
  leaves its Redis key until the access token expires;
* the rehash of a login overwrites the password a reset has just set, and a
  login that read the account before a reset inserts its session after it
  (the exceptions of `OldPasswordOnlyByRehash`, `OldSessionOnlyByPendingLogin`);
* two resets with one token both find it unused (`ResetBound`);
* `LockAuthIdentity` can land after a successful login cleared the counter, and
  locks an account with no failed attempt on record;
* overlapping wrong guesses at a signup or MFA code are counted once, and a
  stale save brings a consumed code back (`CodeBounds`, `SingleUse`);
* two logins with one TOTP code, recovery code or passkey assertion can both
  succeed (`SingleUse`, `CeremonyOnce`);
* an enrolment that began before the factor was on switches it off when it gets
  to its upsert, by email always, by TOTP when it was past the trigger (the
  exception in `DisableNeedsPassword`);
* two TOTP enrolments pass the trigger together; a code of the first secret is
  checked, the second upsert replaces the secret under the same id, and the row
  is enabled by its id with a secret nobody proved (`SecretProved` speaks of
  the secret a row was created with);
* a ban or deletion goes through although its target was provisioned as an
  admin after it was loaded: the trigger protects the role only.

Not races: the audit entry of an admin's password reset is a statement of its
own whose error is only logged, so the link can be mailed with nothing in the
audit log, while the repository's README says that every admin write is
attributed there (`Attributed` is about the writes inside `WithActor`). And
`GetUnusedMFARecoveryCode` looks a code up by its hash alone, so an
unused recovery code of any other account passes this account's second step.
The holder of that other account knows it, so the randomness of the codes does
not help. No line of the repository says whose codes are accepted, hence there
is no run that refutes one.

A locked account is answered `AccountLocked` before the password is compared,
although the comment on `Login` promises the same error for every rejection;
answers are not part of the model.

What remains true in spite of these races is what the runs check with
concurrency: accounts are proved and owned, factors never without a
fallback, passkeys owned, admins protected; and a refresh never produces a usable pair
for a session or account that is closed at that moment, so a session that comes
back in Redis lasts no longer than the lifetime of one access token.

## 5. What is proved

`SessionsProofs` holds, for any sets `Req`, `User`, `Sid`, `Token`, any
`Outcomes` containing `"ok"` and any `Bulk`, from `ConstAssumption` alone (the
placeholders `NoSid`, `NoUser`, `NoToken` are not elements of their sets):

| theorem | statement |
| --- | --- |
| `Invariance` | `Spec => []IInv` |
| `TypeCorrect` | `Spec => []TypeOK` |
| `PairsAreDurable` | `Spec => []DeliveredBacked` |
| `RefreshIsGuarded` | `Spec => RefreshGuarded` |
| `DeadForever` | `Spec => DeadStaysDead` |
| `KeysClearedLast` | `Spec => []ClearsOnlyRevoked` |
| `ImplementsContract` | `Spec => ContractSpec` |

None of the properties is inductive, so `IInv` adds what the argument needs:

* `ControlInv`: which operation a program counter belongs to, and which locals
  it has set; without it no step knows what its locals mean;
* `SidInv`: an id not handed out has no row, and two logins that have not
  inserted never share an id; hence an INSERT never meets a row;
* `StoredInv`: every token Postgres has seen belongs to a session with a row of
  the account its JWT names, and a row holds one of its own tokens;
* `NewInv`, `NewDistinct`: a minted, unsaved token carries the claims of its
  request and is nobody else's; hence tokens enter the contract unused;
* `RefreshInv`: a refresh works on a row of the account in its JWT, and past
  the row check it holds a token of that very session; hence `Rotate`'s
  condition on the token presented;
* `BlockInv`: a transaction about to block an account has selected all its open
  sessions except those inserted since (`late`), and a refresh past the account
  check is for a usable account unless its row is closed or such a late one.
  This is what makes `RefreshGuarded` true although the status is read three
  calls before the pair is handed out: blocking an account and revoking its
  rows are one commit, and the UPDATE of the rotation requires an open row.

There is one lemma per conjunct and in it one step per action. `ClearInv`, used
for `KeysClearedLast`, says in addition that before the commit each listed
session is locked by the request or already revoked; with `RowsAreMonotone` (a
row only goes from none to active to revoked) the listed sessions are revoked
when the keys are cleared.

The exception `late` in `RefreshGuarded` is real: at READ COMMITTED the UPDATE
of a ban does not see a row that a login inserts before the ban commits.

`CredentialsProofs` holds for any finite set of requests, any passwords and
reset tokens and any limit, from `CredentialsAssumption` alone:

| theorem | statement |
| --- | --- |
| `Invariance` | `Spec => []IInv` |
| `TypeCorrect` | `Spec => []TypeOK` |
| `LockoutBound` | `Spec => []GuessBound` |
| `GateHolds` | `Spec => []MfaNotSkipped` |
| `OldPasswordsReturnByRehash` | `Spec => []OldPasswordOnlyByRehash` |
| `OldSessionsEnd` | `Spec => []OldSessionOnlyByPendingLogin` |
| `ResetTokenBound` | `Spec => []ResetBound` |

`GuessBound` is an argument about cardinalities: `GuessInv` says that, while
the account is not locked, every wrong guess is counted in `failed` or belongs
to one of the requests between comparison and lock (`Guessing`), and `CountInv`
that the requests still to count (`Counting`) fit under `FailedBound`. A step
of one request changes these sets by one element (`Membership`, from the
library's theorems on finite sets). `GateInv` says what a login knows at the
gate: each factor it did not find was off at some moment since its first read.

The last three hold with any overlap and failing calls. `CarryInv` follows the
old passwords along: a password on its way through a login, or in a challenge,
is the one set last or was recorded in `carried` when that one was set, and a
login can rehash an older one only if it could at that moment. `TokenInv` is
again about cardinalities: the passwords a token has set and the requests that
still hold it (`Resetting`) are together no more than `Req`, and no request
takes up a token that has been used.

`SignupProofs` holds for any requests, emails, provider accounts, codes, tokens
and limits, from `SignupAssumption` alone:

| theorem | statement |
| --- | --- |
| `Invariance` | `Spec => []IInv` |
| `TypeCorrect` | `Spec => []TypeOK` |
| `AccountsAreProved` | `Spec => []AccountProved` |
| `AccountsAreUnique` | `Spec => []OneAccountEach` |
| `SessionsAreOwned` | `Spec => []SessionsOwned` |
| `CodesAreBounded` | `Spec => []CodeBounds` |

The account comes three requests after the code, so `IInv` follows the proof of
the address along: `CodeInv` (a code stored or read was made for that email),
`ProofInv` (a request past the code, and a joiner token in a client's hands, is
for a proved email). `AccountInv` is what the unique indexes and the
transaction give: accounts and identities correspond one to one; `IssueInv`
carries it to the session about to be issued. For quiet histories `LoneInv`
says there is at most one request, and `QuietInv` that no more guesses at a
stored code were made than its metadata say, or will say once the request that
read them has saved them.

`MfaProofs` holds for any requests, secrets, codes, challenges, time steps and
limits, from `MfaAssumption` alone:

| theorem | statement |
| --- | --- |
| `Invariance` | `Spec => []IInv` |
| `TypeCorrect` | `Spec => []TypeOK` |
| `FallbackKept` | `Spec => []FallbackExists` |
| `SecretsAreProved` | `Spec => []SecretProved` |
| `SpentStaysSpent` | `Spec => []RecoverySpent` |
| `CodesAcceptedOnce` | `Spec => []SingleUse` |
| `DisablingNeedsPassword` | `Spec => DisableNeedsPassword` |

With overlap and failures: `IssueInv` (what is stored or about to be was
generated, hence is not generated again), `ProofInv` (the secret a request
compared its code with was proved, and if the row it is about to enable still
has its first secret it is that one) and `SpentInv` (a recovery code marked used stays marked
until its row goes, and is never issued again). For quiet histories: `UsedInv`,
every accepted code is `Gone`, that is, the step of a TOTP code is past, a
mailed code deleted or about to be, a recovery code marked; `FreshInv`, what a
request is about to accept was not accepted yet and is still what it was
compared with; `QuietInv` as in `SignupProofs`; `PendingInv`, an email
enrolment on its way to the upsert found the factor off. The module has more
than thirty actions and fifteen conjuncts. The lemma `Steps` therefore first
shows that every step is of one of twenty kinds (a request moves on, counts a
wrong guess, stores a code, time elapses, ...), each a formula that says what
the step does to the variables; the lemmas about the conjuncts have one case
per kind.

`AdminApiProofs` holds for any requests, accounts, sessions, connections and
founding admins, from `AdminApiAssumption` alone:

| theorem | statement |
| --- | --- |
| `Invariance` | `Spec => []IInv` |
| `TypeCorrect` | `Spec => []TypeOK` |
| `OnlyAdminsAct` | `Spec => []AdminOnlyByAdmins` |
| `AdminsAreProtected` | `Spec => []AdminProtected` |
| `NoAdminByApi` | `Spec => AdminsOnlyProvisioned` |
| `ChangesAreAttributed` | `Spec => []Attributed` |

`requireRole` trusts a claim and `loadAdminTarget` a read that may both be old
when the transaction runs. What makes them safe is that the role of admin is
never taken away by the API, so `IInv` adds `ControlInv` (which locals are
set), `SidInv` (a refresh in flight has a session of its own user), `ClaimInv` (a token, or one about to be written, says admin only for an
admin) and `TargetInv` (past `loadAdminTarget` no request carries the role of
admin to give, and a target that was an admin is one still). The lemma
`AdminsStay` says that no step ends an admin's role; the stale claims and reads
about admins are therefore still true when they are used. The same cannot be
said of moderators, and `DemotionTakesEffect` says what holds instead.

`ChangesAreAttributed` rests on `PoolInv`: a transaction past `SetActorID` has a
connection of its own on which the setting names its actor, and on every other
connection the setting is unset or the empty string, as `set_config` was local
to its transaction. Hence the entry written in `WithActor` names the admin, and
`NULLIF` keeps the cast of a user's own statement from failing.

`PasskeysProofs` holds for any requests, accounts, credentials, challenges and
bounds, from `PasskeysAssumption` alone:

| theorem | statement |
| --- | --- |
| `Invariance` | `Spec => []IInv` |
| `TypeCorrect` | `Spec => []TypeOK` |
| `PasskeysAreOwned` | `Spec => []PasskeyOwned` |
| `QuietInvariance` | `Spec => []QInv` |
| `CeremoniesOpenOne` | `Spec => []CeremonyOnce` |
| `RemovalIsFinal` | `Spec => []RemovedStaysRemoved` |
| `CountsAdvance` | `Spec => CountAdvances` |

`PasskeyOwned` speaks of rows only; the INSERT comes one call after the
ceremony was read, when the ceremony may have been replaced or have lapsed.
`IInv` adds `ControlInv`, `HolderInv` (a pending challenge was made for the
user it is stored under, and what a credential answers was made for a user) and
`InsertInv` (a credential about to be inserted answers a challenge made for the
user it is inserted for).

The other three are about quiet histories. `QInv` adds `LoneInv`; `OpenInv` (a
ceremony that opened a session is gone, one being answered has opened none);
`RemovedInv` (the challenge a removed passkey answers is pending for nobody,
which takes that the ceremony of a passkey on file is gone or about to be
deleted); `CountInv` (the count about to be stored is no smaller than the one
on file, since `UpdateCounter` only moves forward). Steps that make noise blank
the log; the quiet ones are sorted into kinds as in `MfaProofs`.

Checked by TLC only: `ReuseRevokes` and `DemotionTakesEffect`, as liveness under
fairness is out of the prover's reach; and the statements of section 4, which do
not hold. Every other property of every run is a theorem. Each inductive invariant was checked by TLC on the instances
of section 3 before it was proved.

## 6. Plan

Done: `SessionContract`, `Sessions`, `Credentials`, `Signup`, `Mfa`, `Passkeys`
and `AdminApi`, each with its proofs. Next, in this order:

1. An abstract specification of an account (password, lock, open sessions,
   logins pending) that `Credentials` implements with overlap, with the
   refinement proved from `CarryInv`.
2. Action properties with overlap: what a single step may do to a code's
   attempts in `Signup` and `Mfa`, and to the lock in `Credentials`.

## 7. Not modelled

* Cryptography (argon2, SHA-256, JWT signatures, AES for TOTP secrets): exact.
* HTTP plumbing, logging, JSON, validation of formats: requests that are
  refused for their form change no state.
* Rate limiting: a library's counter in front of the handlers; it only removes
  behaviours.
* The contents of the audit log and of `logins`: written inside steps that are
  modelled, never read by the flows. Whom an entry names is in `AdminApi`.
* The verification of ID tokens, attestations and assertions: done by
  libraries, taken as exact.
* Operations that only read: the admin's listings, `ListPasskeys`, the MFA
  status, and the retention of login logs, whose rows nothing reads.
* More than one account in `Credentials`, and in `Mfa` more of the other
  accounts than their recovery codes, which are the only rows looked up without
  a user.
* Out of the prover's reach, and left to TLC: liveness under fairness.
