# A TLA+ model of modular-node-starter

This directory models the stateful core of the starter: the handlers of
`src/src/modules` and `src/src/core` that keep their state in PostgreSQL
through Prisma. The modules are checked with TLC on small instances, and every
safety property of a passing run is also proved with TLAPS for every value of the
constants.

The starter is an Express application. A request is an `async` function; two
requests interleave at every `await`, and several processes may share one
database. There is no state in memory that matters (the user-context cache is a
shim that does nothing), so what can go wrong is what can go wrong between the
database calls of handlers that overlap, die, or arrive in an order nobody
tested. The models therefore take one **database call with the synchronous code
around it** as one action, and the tables as the shared variables.

Two facts about the environment are used throughout and are the only ones:

- an interactive `$transaction` of Prisma runs at PostgreSQL's default
  isolation, READ COMMITTED. `findUnique` and `findFirst` take no lock, so other
  handlers may commit between a transaction's read and its write. An `UPDATE` of a
  row another open transaction has changed waits for it and evaluates its `WHERE`
  again;
- `pg_advisory_xact_lock` excludes other holders of the same key until the
  transaction ends, and queues the waiters.

## Inventory

| component | state | operations | what makes it correct |
| --- | --- | --- | --- |
| sessions (`auth.service.ts` login/refresh/logout/reset, `auth.repository.ts` 335-432) | `refresh_tokens`: used, revoked, family, address, expiry | issue, consume and rotate, reuse detection, logout, revoke all, deletion with the account | one successor per token; reuse or reset ends the family for good; the lineage is never broken |
| OTP codes (`auth.repository.ts` 31-330) | `otp_codes`: pending, used, invalidated | send, resend with throttling, consume | one pending code per purpose, accepted once, only the newest; throttle holds under overlap |
| login protection (`core/auth/login-protection.ts`) | `login_attempts`: count, window, lock | `isLocked`, `recordFailedAttempt`, `clearAttempts` | no failure lost, guesses bounded, a lockout lasts |
| staff invites (`admin.service.ts`, `admin.repository.ts`, `auth.repository.ts` 506-545) | `user_invites`, `user_invite_roles` | invite (replacing earlier ones), accept, creation of the account | accepted once; the account gets the selected roles and no other |
| accounts (`auth.service.ts` register/verify/login/social, `users.repository.ts`) | `users` with verification flags, `auth_identities` | register, verify, password login, social login with provisioning and linking, delete | nobody enters an account whose contact was not vouched for; a social login enters the linked account |
| password reset tokens (`auth.repository.ts` 446-495) | `password_reset_tokens` | issue (revoking earlier ones), consume | a one-time token; the newest only |
| roles and permissions (`roles.service.ts`, `roles.repository.ts`) | `roles`, `permissions`, `role_permissions`, `user_roles` | create, delete, assign, revoke | foreign keys hold; changes are audited |
| access control (`auth.middleware.ts`, `user-context.ts`, `middleware.ts`, `can.ts`) | none; a context read per request | `requireAuth`, `authorize`, `requireRole`, `can*` | a decision rests on rights the user had while the request ran |
| audit log (`core/audit`) | `audit_logs`, append-only | `writeAuditLog`, not awaited | an entry tells of a change that happened |
| provisioning (`prisma/seed.ts`, the role lookups of register and first social login) | `roles`, `permissions` and their grants, `user_roles`, the super administrator | seed, which may die and be run again; look up a role by name, grant it later | an undisturbed run of the seed leaves all it promises; no account is made without a role |
| listings (`common/helpers`, `findAllUsers`, `findAllRoles`, `findAllPermissions`) | none; the tables change between two pages | parse page, filter and search; find, count, answer with links | a window the database can serve; a walk shows each row once unless the rows before it moved |
| environment: mail, rate limiter, validators, config, logger, response helpers, server start and stop | none that the rest reads | | |

How they interact. All handlers share the `users` row: deleting it cascades to
tokens, identities, reset tokens and `user_roles` while other handlers still
hold its id. Deleting a role cascades to `user_roles` and `user_invite_roles`.
A reset revokes sessions; a redeemed code verifies an account or yields a reset
token; a failed password goes to the login protection; an accepted invite
creates an account with roles. Codes and invites belong to an address, not to an
account, and outlive it.

What is hard: handlers that read, then write without a condition; transactions
that lock different scopes but touch the same rows; rows deleted between two
calls of a handler; two tables changed by two statements; time read at one
moment and compared at another; handlers that die between two commits. The
hazards in `PROJECT.json` list each of these at its line.

## Modules

| module | models | composes |
| --- | --- | --- |
| `OneTimeToken` | what every redeemable credential promises: issued once, redeemed at most once, never after it was voided or erased | - |
| `RefreshTokens` | sessions | implements `OneTimeToken` (one request at a time) |
| `OtpCodes` | the codes of one target and their three transactions | implements `OneTimeToken` |
| `LoginProtection` | the attempts table and the three functions login calls | - |
| `Invites` | invites against role deletion, account deletion and registration | implements `OneTimeToken` |
| `Accounts` | how an account comes to be and is entered, with the answers of the providers | takes a code as what `OtpCodes` shows of it |
| `PasswordReset` | reset tokens, their issue and their use | implements `OneTimeToken` (for tokens nobody races for); its view of the sessions is in `RefreshTokens` |
| `AccessControl` | roles, permissions, the context a request is judged by, the audit rows | - |
| `Provisioning` | the seed, the roles new accounts get, and the administrators who change them meanwhile | takes the requests of `AccessControl` as single steps |
| `Listing` | a client that walks the pages of users, roles or permissions | extends `Provisioning`: the tables change under the walk |
| `RefreshTokensProofs`, `OtpCodesProofs`, `LoginProtectionProofs`, `InvitesProofs`, `AccountsProofs`, `PasswordResetProofs`, `AccessControlProofs` | theorems about the module they name | |
| `ProvisioningProofs` | theorems about `Provisioning` and `Listing` | |
| `MC*` | instances for TLC | |

In every module `req[r]` (in `OtpCodes` `tx[r]`, in `LoginProtection` `pc[r]`
with its companions) is the handler running in slot `r`: its program counter
names the *next* database call, the other fields are the local variables that
survive an `await`. A handler that ends returns to the idle record, so a slot
serves any number of requests one after the other.

**RefreshTokens.** A refresh token is the JWT `{sub, iat, exp}` without `jti`,
so its identity is the pair of user and second; the table is keyed by it, as the
unique `tokenHash` is. `refreshTokens` is `StartRefresh` (signature and expiry),
`ReadRecord` (the `findUnique` of `consumeRefreshToken` and the verdict computed
from it: reuse, foreign address, expired, good), `RevokeFamily`, `RevokeToken` or
`MarkUsed` (the update by `tokenHash` alone), `LookupUser`, `Rotate` (signing and
`storeRefreshToken`) and `Reply`. The history variables `parent`, `provedBy`,
`grants` and `condemned` are written by no code and read by no guard.

**OtpCodes.** `Lock` is `lockOtpScope`. A send, a resend and a consumption then
run one action per statement; changes are kept in the transaction (`dirty`)
until `Create` or `Use` commits, and `Untouched` is the row lock an `UPDATE` waits
for. A resend may name no purpose, locks the scope `ANY`, and goes on with the
purpose of the code it finds.

**LoginProtection.** Only `recordFailedAttempt` takes the advisory lock. `Purge`
and `Clear` are the two `deleteMany` without it. An update of a row that is gone
throws (`thrown`, answered with 500). `early` and `tally` are history.

**Invites.** `Snapshot`/`Invalidate`/`Create` are the statements of
`createUserInvite`: the rows the `updateMany` sees when it starts, the ones it
still changes once their locks are free, and the insert with the commit.
`StartAccept`/`MarkUsed` are `consumeUserInvite` with its conditional
`updateMany`; `FindUser`/`CreateUser` the rest of `acceptInvite`. An invite is
live, accepted (`grants`) or replaced; both set `usedAt` in the code. What became
of an accepted one is history: `fruit` (its account was made), `rivaled` (its
e-mail had another account), `died` (its handler did not get that far).

**Accounts.** `CreateRow` is the unique constraint on the contact. `Link` and
`Recheck` are `linkSocialIdentity` with its two unique constraints and the
treatment of `P2002`. `contact` is one e-mail or one phone per account, the
channel it registered with. `proved` collects the contacts that were vouched for
by a redeemed code, an accepted invite or a provider. How a code reaches the
address is the caller's matter: the handlers return it to the controller. A
provider's answer is the set `T` of what is as it should be in it, with at most
one thing missing; `LoginWithGoogle`, `LoginWithFacebook` and the calls of
`social-auth-provider.service.ts` say which of it the code asks for, `Vouches` what
an answer must say for the e-mail to belong to the one who logs in.

**PasswordReset.** `StartVerify` is `verifyPasswordResetOtp` with a redeemed
code; `Revoke` and `Create` are the two statements of
`storePasswordResetToken`, which share no transaction. `Read` and `MarkUsed` are
`consumePasswordResetToken`: the row is found unused, unrevoked and unexpired, and
then marked by its id alone. `FindUser` and `SetPassword` are the rest of
`resetPassword` up to the password. `grants` counts the acceptances of a token, `raced`
holds the tokens that were spent or replaced while another reset had read them unspent
and not yet marked them; both are history.

**AccessControl.** A request of `roles.routes` goes through `Start` (the users
row of `requireAuth`), `ReadRoles` and `ReadPermissions` (the relations of the
nested `select`, which Prisma reads in one statement each, and `authorize`), then
the look-up and the write of its service. `TableTakes` is what the constraints of
the schema say of the write; a refused one is answered 409, 404 or 500 and
changes nothing. Deletions cascade. A change of a role's permissions still calls
`findUserIdsByRoleId` before the audit row is sent (`Holders`), so a failure there
loses the entry. `held` and `granted` are the rights that existed at some time
since the request began, `done` counts what was committed: history only.

**Provisioning.** A row of `roles` or `permissions` is its unique name with a
count of how often it was made, because ids never come back. The seed sends the
permission upserts at once (`UpsertPermission` in any order), then role by role
the role and its grants, then the super administrator and its role; it keeps the
ids it was given, so a row deleted meanwhile breaks a foreign key and ends it.
`SeedDies` is a kill anywhere; what was committed stays and the next run starts
over. `FindRoles`/`CreateAccount` are the two calls of register and of a first
social login.

**Listing.** `ParsePage`, `ParsePerPage`, `QueryAllowed` and `Kept` are
`parsePaginationQuery` and `parseFilterSearch` with the filter configuration of
the user list; a value is represented by what the code tells apart in it. A page
is `FindMany` (where, order by, skip, take) and `Count`, two statements of one
`$transaction`. `Ordered` gives every order the database may return, so rows that
tie on `createdAt` may be shown in another order on every page. The client goes
on with the same filters (`AskNext`) or by `links.next` (`FollowLink`).

## Runs

All runs finish within two minutes on two workers. `CHECK_DEADLOCK FALSE` is
set everywhere because a clock, a number of rows or a number of users is bounded:
at the bound the model, not the program, has nothing left to do. That handlers do
not block each other is checked as liveness instead.

| run | instance | shows |
| --- | --- | --- |
| `refresh_serial` | 1 user, 1 slot, 2 addresses, 3 seconds, 1 reset | the promises of the comments hold when requests do not overlap: `OneSuccessor`, `ReuseKillsFamily`, `ResetEndsSessions`, and tokens implement `OneTimeToken` |
| `refresh_concurrent` | 1 user, 2 slots, crashes | what survives overlap: `Lineage`, `OverIsForever` (a session that is over never reopens), `GrantsBoundedByOverlap` |
| `refresh_double_spend` | 2 slots | violated: one token, two successors |
| `refresh_same_second` | 1 slot | violated: a rotation in the second of an earlier issue spends its token and stores none |
| `otp_named` | 1 purpose, 2 slots, 2 addresses, 3 codes, 4 ticks | every resend names its purpose: one pending code (`OnePendingPerPurpose`), throttled resends (`ResendThrottled`), only the newest accepted (`NewestIsAccepted`) |
| `otp_any` | 1 purpose, resends without purpose, 2 slots, 3 codes, 3 ticks | whatever the locks fail to exclude, two pending codes were made under two locks (`OnePendingPerLock`), codes are one-time tokens and every request gets its lock and ends |
| `login` | 1 identifier, 3 slots, 3 attempts, 5 ticks | `NoLostAttempt`, `GuessesBounded`, `LockoutLasts`, every login is answered |
| `invites` | 1 e-mail, 1 role, 2 slots, 3 invites, 3 ticks | `InvitedRoles`, `SpentInvitesBearFruit` (a spent invite comes to nothing only by a crash, another account of its e-mail or a deleted role), `LiveInvitesBounded`, invites are one-time tokens |
| `accounts` | 2 e-mails, 1 phone, 2 Google subjects and 1 of Facebook, 2 slots, 2 users, every answer with one thing missing | `EnteredIsProved`, `SocialEntersLinked` |
| `password_reset` | 1 user, 2 slots, 3 tokens, 3 seconds | a token nobody races for is a `OneTimeToken`; what the update by id alone and the missing transaction leave of the rest: `SpentForGood`, `LiveTokensBounded` |
| `access_control` | administrator and editor, 2 slots, 8 kinds of request, 2 changes | `RightsWereHeld`, `GrantsAccounted` (each success is one change), `AuditNeverInvents` |
| `listing` | 2 e-mails, 2 users, 2 roles, 1 permission, 1 slot, 2 values of `createdAt`, 2 changes, 6 queries | `SeedDelivers`, `AccountsHaveRoles`, `WalkShowsEachOnce`, and in its `TypeOK` the window asked of the database |

Why these bounds are enough. Two overlapping handlers are what every
read-then-write hazard of this code needs; the login protection has three
because a stale delete needs one login that reads, one that renews and one that
deletes. One target, user or identifier suffices where rows of different ones
share neither a lock nor a statement; two users appear where one contact or
subject can pass from one account to another. In `access_control` the requests aim at the
role and the permission the editor's own rights rest on, and two changes are what
it takes to grant and revoke, or to change one half of a context between the
reading of the other and its own. In `listing` the page sizes are 1 and 2 (given
by -1, nothing and 3, of which the last is cut to the maximum), so that a walk of
two accounts or two roles has more than one page; the page asked for is missing,
negative or beyond the largest offset; two of the six queries are refused. Two
changes are what it takes to remove a row before and one after the page a client
is on, or to delete a role and make it again. The seed's two roles and one
permission let it die between any two of its statements and be run over what an
earlier run left. Clocks reach past every lifetime
in the module (TTL, cooldown, window, lockout), each of which is at least one
tick, so that expiry happens inside a run. The attempt limit is 3 instead of 5,
the window and throttle limits are 1 or 2: the code compares with them and does
nothing else. Symmetry is used only in runs without liveness.

Every property of a passing run has a mutant in `PROJECT.json`: a definition
replaced by one with a plausible bug, under which the same run fails.

### Fairness

Liveness is stated where waiting is: `OtpCodes` and `LoginProtection` assume
strong fairness of each handler's steps (`FairSpec`), because a step may wait for
an advisory or row lock and PostgreSQL queues the waiters, so that none is
overtaken for ever; and because the event loop resumes a handler whose call
returned, and every call returns or throws (Prisma's transaction timeout,
`Crash`). Under it `EveryRequestEnds` and `EveryLoginEnds` say that no handler is
left waiting by one that was refused, failed or died. Nothing is assumed of
clients, of the clock or of crashes. The handlers of the other modules wait for
nobody but the row locks of one transaction; that each call returns would be the
whole of such a property, so none is stated.

### Divergences the violated runs show

- `auth.repository.ts:401` marks a token used by its hash alone, after reading
  it: overlapping refreshes fork the session (README: "replayed tokens are
  rejected"). The same window lets a rotation in flight outlive the revocation of
  its family and of a reset; `ReuseKillsFamily` and `ResetEndsSessions` therefore
  hold only in the serial run, and `OverIsForever` and `GrantsBoundedByOverlap`
  say what is left: the exceptions end with the requests that overlap.
- `auth.repository.ts:344`: two tokens of one user signed in one second are one
  string; the second insert breaks the unique hash after the old token was spent.

Seen while modelling, without a violated run: a resend without purpose locks
another scope than the sender of the purpose it resends (`auth.repository.ts:37`),
so that "concurrent requests" are serialized (its comment at line 25) only scope by
scope, which is what `OnePendingPerLock` states; the expiry of a code is taken before the
wait for the lock (a parameter of the transaction, `auth.repository.ts:167`), so a later code may
expire first, and `ResendThrottled` compares a resent code with the one before it
and with no older one; overlapping invitations do not
see each other's row (`admin.repository.ts:29`), so "prevent parallel valid invites"
holds one request at a time (`OneInviteValid`) and `LiveInvitesBounded` otherwise; overlapping
verifications leave several valid reset tokens (`auth.repository.ts:456`); a "one-time"
reset token (`auth.repository.ts:440`) is accepted by every reset that
overlaps, also after it was replaced (`auth.repository.ts:485`), which is why
the refinement excepts the tokens in `raced`; the flag of the e-mail decides for phones
too (`auth.service.ts:539`), so a phone account is asked to verify at every login;
the context `loadUserContext` returns "in a single query" mixes moments, so a
request may use a role it lost while it ran together with a permission that role
got later; `resetPassword` is two
statements, and a crash between them leaves new password and old sessions;
`isLocked` deletes by identifier on a reading that may be old (`LockoutLasts`
names the only logins that can use it); an invite is spent before its account is
created; a login before verification replaces the pending code by one nobody
receives (`StoreOtp`); an account linked to a provider is refused a password
login also after it set a password (`auth.service.ts:535`), though the answer
offers that way; `deleteRole` accepts the default role, after which every first
social login is answered 500 until the seed runs again; the seed takes an account
that has the super administrator's e-mail as it is, with its password; `links.next`
drops filter and search (`pagination.ts:31`); a single date given for `createdAt` is accepted and
filters nothing (`users.repository.ts:111`); the role filter does not know the seeded
`super_admin` (`admin.controller.ts:52`); the API comments document `limit`, the code
reads `perPage` (`admin.controller.ts:39`); accounts of one millisecond have no order
(`createdAt` ties), so a page boundary among them shows one twice and another never.

## Proofs

Each theorem holds for every value of the constants that satisfies the named
assumption of the module, so also for every bound. In each module `Init => IInv`
and `IInv /\ [Next]_vars => IInv'` are lemmas with one step per action, and the
theorems follow from them; an action property follows from `IInv` by the same case
split.

| module | assumption | theorems |
| --- | --- | --- |
| `RefreshTokensProofs` | `ConstantsAssumption`: finitely many slots | `TypeCorrect`, `LineageHolds`, `SessionsEndForGood` (`OverIsForever`), `FlagsAreFinal` (`SpentIsFinal`), `AcceptancesBounded` (`GrantsBoundedByOverlap`); with one slot (`OneAtATime`) also `RotationIsSingle` (`OneSuccessor`), `ReuseIsFatal` (`ReuseKillsFamily`), `TokensAreOneTime` (the refinement of `OneTimeToken`), `TokensGrantOnce`; with one slot and no crash `ResetEnds` (`ResetEndsSessions`) |
| `OtpCodesProofs` | `OtpAssumption`: finitely many slots, positive lifetime, cooldown and limits | `TypeCorrect`, `PendingApart` (`OnePendingPerLock`), `CodesAreOneTime` (the refinement of `OneTimeToken`), `CodesGrantOnce`; with `ResendScopes \subseteq Purposes` also `OnePending`, `NewestAccepted`, `ResendsThrottled` |
| `LoginProtectionProofs` | `LoginAssumption`: finitely many slots, a maximum of at least 2 | `TypeCorrect`, `NoAttemptLost`, `GuessesAreBounded`, `LockoutsLast` |
| `InvitesProofs` | `InvitesAssumption` | `TypeCorrect`, `InvitedRolesHold`, `NoInviteWasted` (`SpentInvitesBearFruit`), `InvitesAreOneTime` (the refinement), `InvitesGrantOnce`, for finitely many slots `ValidInvitesBounded`, and with one slot (`OneAtATime`) `OneInviteValid` (`OneValidInvite`) |
| `AccountsProofs` | `AccountsAssumption` | `TypeCorrect`, `EnteredAreProved`, `SocialLoginsEnterLinked` (`SocialEntersLinked`) |
| `PasswordResetProofs` | `ResetAssumption`: finitely many slots | `TypeCorrect`, `AcceptancesBounded`, `ValidTokensBounded`, `SpentStaysSpent`, `TokensAreOneTime` (the refinement of `OneTimeToken`), `TokensAcceptedOnce` (`AcceptedOnce`), and with one slot (`OneAtATime`) `NobodyRacesAlone` |
| `AccessControlProofs` | `AccessAssumption`: finitely many slots, a seed that satisfies the schema, operations on a grant told apart by kind, role and permission | `TypeCorrect`, `AdmittedByRightsHeld` (`RightsWereHeld`), `EveryGrantAccounted` (`GrantsAccounted`), `AuditIsTrue` (`AuditNeverInvents`) |
| `ProvisioningProofs` | `ProvisioningAssumption` | `ProvTypeCorrect`, `SeedAlwaysDelivers`, `AccountsAlwaysHaveRoles` |
| `ProvisioningProofs`, of `Listing` | also `ListingAssumption`: numbers or none as page and perPage, a place in the alphabet for every name | `WalksOnlyRead` (`Spec => ProvSpec`), `TypeCorrect`, `WalksShowEachOnce` (`WalkShowsEachOnce`) |

Why the properties are not inductive as they stand, and what is added:

**Sessions.** When `Rotate` stores a successor, that the predecessor is stored,
used and of the same family is a fact about the row the handler read several
calls ago. `KnowsItsRow` says what each handler still knows of it (unless the
account was deleted, in which case the insert fails), and `RowsAreLive` that rows
have an account and are not from the future, which gives the strict order of
issue times. A family without an active token and without a rotation in flight is
changed by no action that could activate a token of it, since `Store` needs either
a fresh family or a handler that the definition of `Over` excludes.
`GrantsBoundedByOverlap` holds because a token that is used is read as such: the
requests about to mark it (`Bounded`) only become fewer. The promises of the
comments hold when requests run one after the other, and the theorems say so in
their hypothesis: `OneAtATime` is one slot, which serves any number of requests and
may crash between any two calls. Then what the slot read still holds when it
writes (`Alone`): the token it is about to rotate is active, or used with no
successor. That gives `OneSuccessor` and `ReuseKillsFamily` as one invariant
(`Serial`), and makes every step one of `OneTimeToken` or invisible. `ResetEnds`
(`Fresh`) also needs that nothing dies between the password and the revocation: the
two are separate statements, and a crash there leaves the old sessions, as said
above.

**OTP codes.** One transaction per lock (`Exclusive`) is what the code relies on.
With it, the rows a sender saw when its `updateMany` started still hold all rivals
of the code it will insert (`RowsKnown`), because whoever could add one waits for
the same lock; so a code is never inserted beside a pending one made under that
lock (`NewestPerLock`). `ScopesTrue` says which locks there are: when every resend
names its purpose the lock is the purpose, and the pending code is one, the
newest. An unnamed resend takes a lock of its own, which is why three theorems
have the premise and `OnePendingPerLock` is what remains without it. `DirtyApart`
(no row is changed by two open transactions) makes each commit one step of
`OneTimeToken`. `ResendsThrottled` needs a second invariant, `Throttling`: what a
resend read of the latest code and the count in its window still holds when it
inserts.

**Login protection.** `Exclusive` again, and `NextIsRight`: the count a
transaction read is the count it writes on, unless the row was deleted between.
`OnlyEarly`: under a lockout in force only logins run that were past `isLocked`
before it began. `GuessesBounded` counts the failures still to come with those
recorded, so a recorded failure moves from one side to the other.

**Invites.** `KnowsItsInvite` says that the roles a handler carries from the read
are those selected, less some that were deleted, and that the invite it spent is
its own; `RowsAreTrue` and `Origins` tie the rows to what was selected. For the
refinement, `Holding`: the rows an open transaction has changed are unused and
changed by it alone. `ValidInvitesBounded` rests on `Attributed`: there is a way to
name for each invite the slot that made it such that no two valid invites of an
e-mail have the same, and a handler about to insert holds its own valid ones;
a function that is one to one into the slots is then the bound, and with one slot
(`OneInviteValid`) the promise of the comment.

**Accounts.** `RowsAreVouched` (a verified, linked or entered account has a contact
somebody vouched for) needs `HandlersRely`: what a handler found out in an earlier
call, from a code, a provider or a verified row, and acts on in a later one,
although rows may be deleted and made in between. For social logins `Links`
follows the identity found at the start: the pair stays in `auth_identities` as
long as its account exists, so the account the handler goes on with is that one,
or the identity was lost with its account; a handler without one goes on only when
it inserted the pair or read it after the unique violation.

**Password resets.** `KnowsItsToken` and `GrantedIsUsed` bound the acceptances:
once a token was accepted only those who had read it before can accept it.
`Attributed` is the invariant of invites, for tokens. `InHand` says
that a token some reset is about to mark is unspent, or was raced for: the history
`raced` is written by whoever spends or replaces a token while another reset is
between its read and its update. So an acceptance of a token outside it redeems a
live token (one that is raced for counts as void in the view, from the step that
begins the race), and what the refinement excepts is the window between read and
update and nothing more. With one slot `raced` stays empty.

**Access control.** `Follows` says what a request may have seen: the roles it read
are among those `held` since it began, and while it still reads, the roles its actor
has now and the grants in the table are in its histories, so every commit that comes
between two reads is written down by the step that makes it. `RowsExist` and `Unique`
are the foreign keys and the unique names; `Seasoned` says that nothing was ever
assigned to, or revoked from, a role or a permission that is yet to be created. For
`GrantsAccounted` a pair's assignments and revocations are the ones of one operation
each, which the assumption on `Ops` says, and every commit of one flips the pair.
For `AuditNeverInvents` a commit counts before its audit row is owed, and each step
of the row (owed, on its way, written) moves one unit along.

**Seed.** `SeedOnTrack`: a run of the seed that nothing disturbed has, at each of
its statements, everything the statements before promised, whatever rows earlier
runs left.

**Walks.** `Covered` is how many rows the pages shown so far had room for. Of a row
that was listed all along and ties with none, `WalkOnTrack` says: as long as nothing
ahead of it left, it was shown or stands at or beyond `Covered`; as long as nothing
ahead of it arrived, it was not shown or was shown once and stands before it. A
change of the tables moves the row only by what left or arrived ahead of it, which
is a comparison of two finite sets; `PlaceInOrder` says that in each order the
database may choose the row stands right behind the rows that precede it, so a page
shows it exactly when its place is in the window; and `LastPage` that the last page
leaves no room beyond. The names need not be finitely many: `FiniteRows`, that the
rows are, is part of the invariant.

**One-time tokens.** For `OtpCodes`, `Invites`, `PasswordReset` and, one request at
a time, `RefreshTokens`, every step maps to a step or a stutter of `OneTimeToken`, and each
of its steps keeps `Accounted`, so no credential is accepted twice (`CodesGrantOnce`,
`InvitesGrantOnce`, `TokensGrantOnce`, `TokensAcceptedOnce`).

Model-checked only: the two liveness properties, `EveryRequestEnds` and
`EveryLoginEnds`, since liveness under fairness is out of the prover's reach. Each
safety property of a passing run, and each refinement, is stated by a theorem.

## What is left

`AccessControl` and `Provisioning` could share their tables of roles; today each
takes the other's requests as single steps. No theorem says that a seed or a walk
ends: that needs fairness of the process that runs it, which the code does not
promise.

## Not modelled

Passwords, hashes, JWT signatures and random tokens are data: a credential is
right or wrong, a token is its identity. Mail is called by no handler. The
rate limiter keeps its counts in memory per process and is configuration of a
library; validators and the environment schema accept or reject before a handler
runs. The user-context cache does nothing. Formatting of answers, errors and log
lines has no state. The server's start and shutdown are pure I/O; what a stop does
to a handler is `Crash`. The HTTP requests to the providers are modelled as their
answers (`Accounts`).

Three hazards have no property: two of the entrances of an account registered by
phone (`auth.service.ts:539` and `:547`) and the links of a filtered list
(`pagination.ts:31`). The models contain the behaviour; what should hold instead is
said nowhere in the repository.
