# A verification project for profile-community

TLA+ models of the parts of this repository that are hard to test, TLC runs
that check them on small instances, and proofs, checked by TLAPS, that hold for
every value of the constants. Paths below are relative to the repository's root
(`src/` is the checkout). To run: `tlc -config X.cfg M`, `tlapm M_proofs.tla`.

## 1. The system

profile-community lets its members publish a profile page. Two NestJS
applications run as Cloudflare Workers over one D1 (SQLite) database and one KV
store: **apps/api**, a GraphQL API for the member site and the administration
console, and **apps/public-api**, a REST API for members' API keys. The two front
ends (apps/client, apps/admin) keep a session cookie, and the form that is open.

What makes it hard is what it does *not* have:

* **No transactions.** D1 offers none to the ORM
  (`apps/api/src/infrastructure/mikro-orm.config.ts:94-110`). Every update is a
  `findOne`, an assignment and a `flush` of the columns that differ from the
  loaded row; every service reads, awaits, decides, awaits and writes. Any other
  request may run at any await, and the worker may die there.
* **No atomic read-modify-write in KV.** Taking a one-time token or challenge is
  a get and a delete, renewing a session is a get and a put
  (`kv-valkey-client.ts:19-34`).
* **No serialisation** but the Durable Object that counts one key's requests, the
  primary keys and the unique indexes.

### Inventory

| Component | State | Operations | What is hard, and what makes it right |
|---|---|---|---|
| Rate limit of an API key (public-api) | window of hits, block, alarm per key; the threshold in app_settings | guard: read threshold, count, pass or 429; alarm; setRateLimit | window edges, rounding, threshold changed between read and count, late alarm. Never more than the threshold in a window; Retry-After is honest; nothing that counts is forgotten |
| Users table | users: status, verification, address and normal form, password, session epoch | load / assign / flush; partial unique index | two writers mix columns. Status and verification agree; an address and its normal form belong together |
| User accounts (`user.service.ts`) | one-time tokens and sessions in KV, the cookie of a browser | register, resend, verify, change of address, withdraw, API keys, login, logout, password change and reset | links opened late, twice or after the account changed; logout while another tab renews. A verified address was proven; a logout holds, and a withdrawal until the account is revived; a reset ends earlier sessions (it does not, section 3) |
| Moderation (`moderation.service.ts`) | suspensions, unfreeze requests, API keys, reports | freeze, review, revoke, delete icon, review of reports | two reviewers, half-done freezes and approvals. An approval takes effect; a freeze leaves no active key |
| Administrator sessions | KV entries with a sliding lifetime, createdAt | create, resolve with renewal, logout | a renewal puts back what was dropped. Every session ends |
| Administrator accounts | admins: role, status | create, change role, disable, seed, login | the count of super_admins is stale when used. One active super_admin remains |
| Passkeys | challenges in KV, credentials with a counter | register, log in, delete | a challenge taken twice, a counter going back, a deleted passkey coming back with a late write |
| Profiles (both APIs) | profiles (handle, visibility, icon, names, derived search name), sns_links | content, visibility, handle, links; PUT/PATCH/DELETE; icon deletion; page of a handle; list by cursor and by offset | whole-record saves undo each other; links deleted and inserted apart; freeze or hiding during an edit or a visit; the order of the list moves while it is read |
| Console content | policies, announcements, help articles, inquiries, mailings | create, edit, publish, delete, move on, send | publication in two updates; forms older than the row; mail sent one by one and marked at the end |
| Public REST guards | API keys with scope and status | key, owner, limit, scope | a key made while its owner is frozen; a last use written after the key was revoked |
| Audit log | append-only records | record, list | an operation that fails before its record |
| GraphQL layer, front ends | the session cookie, the form that is open | one call each | a form sends what it was opened with |
| Mail, hashing, text validation | none | pure functions, external calls | not modelled, see section 7 |

How they interact: the status of a user, written by accounts and moderation, is
read by the viewer lookup, the profile editor, the publication gate, the list
and the API-key guard, each at a moment of its own. Moderation writes the rows that
accounts write, and reaches into profiles and keys. The limiter is called by the
guard after the key and its owner were looked up. The parts of the console have tables
of their own and meet only in the audit log, which nobody reads back but the list of it.

## 2. Modules

| Module | Role |
|---|---|
| `SlidingWindowQuota` | abstract: what a key owner is promised about the limit |
| `RateLimiter` | the guard, `applyRateLimitHit`, the Durable Object, its alarm, the threshold |
| `ApiAccess` | API keys and the guards of public-api in their order, over OwnerStatus |
| `UserSessions` | login, sessions, logout, password change and reset, with the cookie of the site |
| `ProfileList` | the list of public profiles, read page by page while profiles move |
| `Access` | RateLimiter, ApiAccess, UserSessions and ProfileList side by side |
| `UserTable` | rows of `users`, load / assign / flush, the index; requests between awaits |
| `Accounts` | `UserService` and the tokens (extends UserTable) |
| `Moderation` | freeze, review, suspensions, keys (extends UserTable) |
| `UserSystem` | Accounts and Moderation over one table: the composed specification |
| `OwnerStatus` | abstract: what other parts may rely on about a user's status |
| `Profiles` | both profile services, links, icon deletion and the visitor, over OwnerStatus |
| `AdminSessions` | `ValkeyAdminSessionStore` over the KV adapter |
| `AdminAccounts` | login, principals, roles, the lockout rules (extends AdminSessions) |
| `Passkeys` | `AdminWebauthnService`: challenges, credentials, counters, authenticators |
| `Policies` | versions of terms and privacy policy, and their publication |
| `Announcements` | announcements, and the form of the console that edits them |
| `HelpArticles` | help articles and their addresses |
| `Cases` | inquiries, reports and their entries in the audit log |
| `Mailings` | notifications, their recipients and the mails |
| `Console` | the six modules above side by side |
| `X_proofs` | theorems about X: RateLimiter, UserSystem, AdminAccounts, Profiles, Access (with ApiAccess, UserSessions, ProfileList), Passkeys, Policies, Console (with Mailings, Announcements, HelpArticles, Cases) |
| `MCX` | the instances of X for TLC: definitions of constants, symmetry |

Two abstract specifications are implemented by detailed ones: `RateLimiter` implements
`SlidingWindowQuota` (`QuotaSpec`), and `UserSystem` implements `OwnerStatus`
(`OwnerStatusSpec`). `Profiles` and `ApiAccess` are built on `OwnerStatus`, so what is shown
of them holds with the account code as it is, and would hold with any other that
implements `OwnerStatus`.

**Composition.** `UserSystem` is a true composition: its parts write one table, and
their steps interleave. `Access` and `Console` put parts together that share no table, store or
Durable Object; what a part needs of another (an owner's status, the
answer of the limiter) it lets happen at any moment. Steps of such parts commute, so every
property of one part holds in all interleavings once it holds where that part alone
moves. `atWork` picks the part at the start; without it TLC would multiply the
state spaces and see nothing new. That this loses nothing of a part is proved: a behaviour of `Access` or
`Console` is one of each part (`PartsRun`, `ConsoleParts`).

### Conventions

`req[r]` (`call`, `guard`, `publisher`, `sender`, `clerk`, `agent`, `handler`, `at`, `saving` in the
other modules) is the local state of a request between two awaits: its `pc` names
the await it is at. One action is the code from one await to the next. A request dies by
`Abort` (error of D1, KV or mail; worker evicted). History variables (those under *History*) only
remember; no guard reads them. `overlapped`, `crossed`, `disturbed`, `overtaken` hold the requests whose row another
request wrote after they had read it; `raced` and `shared` the one-time values two
requests got before either deleted them. A property that excuses them says that the
operation is right when that did not happen. So it separates what the code
gets wrong one operation at a time (nothing, in those properties) from what it gets wrong
because it has no transactions.

An operator with the comment *mutant* is a plausible mistake in the operator
after it. No specification uses it; replacing the one by the other must
violate the property it was made for, which shows that the property sees that code.

### Code and actions

* **RateLimiter.** `ReadLimit` is `ApiKeyThrottlerGuard.canActivate` up to the
  threshold; `CountRequest` is `increment` with `ApplyRateLimitHit`, the
  alarm and the guard's answer, or the loss of that answer. Hits are a set of named
  times: the code uses only their number, ages and oldest. `Alarm` may be late.
* **ApiAccess.** `FindByKeyHash`, `FindOwner`, `Throttle`, `CheckScope`, `Serve` are the guards
  of one request; `TouchLastUsed` is the update nobody awaits. `FreezeUser` -> `SetFrozen` ->
  `RevokeAllForUser`; `CreateApiKey` -> `InsertApiKey`; `RevokeApiKey`; `ChangeStatus` is any
  other step of the owner that `OwnerStatus` admits.
* **UserSessions.** `Login` -> `VerifyPassword` -> `CreateSession` -> `SetSession` (the cookie).
  A request with a cookie: `Ask` -> `ResolveSession` -> `RenewGet` -> `RenewPut` -> `FindUser` -> `Serve`,
  `StorePassword` or `Withdraw`. `Logout`. `RequestPasswordReset`, `OpenResetLink` (get),
  `DeleteToken`, `FindOwner`, `ResetPassword`. `Revive` is `verifyEmail` on a link opened after the withdrawal.
* **ProfileList.** `Edit` reads and stamps, `CheckHandle` stamps again, `SaveLoad` and `SaveFlush` are `save`;
  the saved time is the stamp or the time of the flush, for the entity declares an `onUpdate` too.
  `CursorPage` is `listPublicProfiles` of both services, `OffsetPage` and `CountProfiles` are the two queries of
  `listPublicProfilesOffset`. `OpenList` starts a walk.
* **UserTable.** `LoadRow` and `FlushRow` are the two halves of `update` and
  `setStatus`; `Column` is the ORM's test for a dirty column. `Writing(u, set, next)`
  is a request about to write.
* **Accounts.** `Register`, `CreateWithProfile`, `SendVerificationEmail`;
  `RequestEmailChange`, `SendEmailChangeConfirmation`; `OpenLink` (get),
  `DeleteToken` (delete), `ConfirmEmailChange`; `Withdraw`; `ExpireToken`.
* **Moderation.** `FreezeUser` -> row -> `CreateSuspension` -> `RevokeAllForUser`;
  `ReviewUnfreezeRequest` -> `FindReview` -> `SetReviewed` -> row -> `LiftSuspension`; `CreateApiKey` ->
  `InsertApiKey`; `RevokeApiKey`.
* **AdminSessions, AdminAccounts.** `ResolveSession`, `RenewGet`, `RenewPut`,
  `DropSession`, `LoadPrincipal`: authentication of one request. `ChangeRole` or
  `DisableAdmin` -> `CountSupers` -> `SaveLoad` -> `SaveFlush`. A session's
  absolute age is the set `old`; its idle time is `ttl`.
* **Profiles.** `ResolveViewer` or `Authenticate` admits a request. `EditOwn` reads
  the profile and builds the record, `CheckHandle` looks for the handle,
  `SaveLoad` and `SaveFlush` are `save`, and `DeleteLinks` and `InsertLinks` are
  `replaceForProfile`. `DeleteIcon` is `clearIcon`, which loads and flushes
  without a record. `FindByHandle` and `Gate` are the two reads of
  `getPublicProfileByHandle`. A link is named by the request that stored it and its place.
* **Passkeys.** `StartRegistration`, `StartAuthentication` put a challenge; `Sign` is the
  authenticator; `FinishRegistration` and `FinishAuthentication` get the challenge, `TakeDelete` deletes
  it; then `SavePasskey`, or `FindAdmin` -> `VerifyAnswer` -> `UpdateSignCount` -> `OpenSession`.
  `DeletePasskey`, `Disable`, `ExpireChallenge`.
* **Policies.** `CreateVersion` (reads the greatest version) -> `InsertVersion`; `FindPolicy` ->
  `WithdrawAll` -> `PublishOne` -> `RecordPublished`. `Current` is what visitors are shown.
* **Announcements.** `OpenPage` and `ClosePage` are the console, `LocalInput` is the cut of a date to the minute by its form; `Create`, `Update`, `Publish`, `Unpublish` and `Remove`
  read the record, `FindRow` and `Flush` are `save`, `Delete` is the deletion.
* **HelpArticles.** `FindBySlug`, `FindArticle` are the reads of `upsert`, `SetStatus` is the other operation;
  `FindRow` and `FlushArticle` save, and the unique address may refuse.
* **Cases.** `ReportProfile`; `FindCase` checks the transition, `LoadReport` and
  `SetCaseStatus` write it, `RecordCase` is the entry of the audit log.
* **Mailings.** `CreateDraft`; `Send` -> `ListRecipients` -> `Mail` or `MailFails`, one recipient after
  another -> `SaveSent` -> `RecordSent`. `ChangeUser` is any step of a recipient.

## 3. Runs

| Run | Module, cfg | Checks | Shows |
|---|---|---|---|
| access | MCAccess | AccessTypeOK, BlockOutlastsWindow, QuotaSpec, RetryAfterHonoured; NoServiceAfterLeaving, RevokedForGood, FreezeRevokesKeys; LogoutHolds, ResetLinkUsedOnce, WithdrawnStaysOut; EachShownOnce | the limiter keeps its promise under concurrent guards, threshold changes, lost answers and late alarms; who has left or was revoked gets past no guard; logout, reset and, until the account is revived, withdrawal hold against requests in flight; a walk through the list shows each profile once |
| users | MCUserSystem | TypeOK, VerifiedMatchesStatus, EmailProven, OwnerStatusSpec | links, address changes, withdrawal, freeze and review interleave and die anywhere |
| users_live | MCUserSystem, MCUserSystemLive.cfg | ApprovalTakesEffect | a recorded approval reaches its user if no request dies, with two users of one address |
| admins | MCAdminAccounts | TypeOK, LockoutNeedsOverlap, RevivalNeedsOverlap, SessionsEnd | lockout rules, whole-record saves, sessions |
| profiles | MCProfiles | TypeOK, LostUpdateNeedsOverlap, LeakNeedsOverlap, EditsStopAtFreeze, MixedLinksNeedOverlap | edits of both APIs, moderators and visitors at once |
| console | MCConsole | TypeOK; ChallengeUsedOnce, CounterFallsOnlyToOverlap, DeletedStaysDeleted; LonePublicationTakesEffect; OnlyWhatWasAsked, DeletedOnlyAsDraft; EditsKeepTheRest; LogTellsStatus; MailedOnce, SentMeansMailed, OptOutsRespected | two administrators at once in every part of the console, with requests that die at every await and mail that fails |
| withdrawn | MCUserSystem, MCWithdrawn.cfg | WithdrawnIsTerminal | **violated** |
| decision | MCUserSystem, MCDecision.cfg | DecisionIsFinal | **violated** |
| norm | MCUserSystem, MCNorm.cfg | NormMatchesEmail | **violated** |
| lockout | MCAdminAccounts, MCLockout.cfg | SuperAdminRemains | **violated** |
| links | MCProfiles, MCLinks.cfg | LinksBounded | **violated** |
| in_force | MCPolicies | ExactlyOneInForce | **violated** |

The six violations are disagreements between the code and a document or comment:

* **withdrawn** (`user.service.ts:191`): a confirmation link opened after the
  withdrawal makes the account ACTIVE; `user-status.ts:14` calls WITHDRAWN terminal.
  No concurrency is needed. The same update, on a link still outstanding, lifts a freeze, while
  `docs/service/features/00-common-rules.md:68` knows only the approval.
* **decision** (`moderation.service.ts:151`): two reviewers see PENDING and the
  second decision replaces the first; `moderation.ts:52-53`.
* **norm** (`user.repository.ts:87`): two overlapping confirmations leave the
  address of one and the normal form of the other; `01-data-model.md:291`.
* **lockout** (`admin-account.service.ts:86`): two super_admins remove each other;
  `docs/service/features/07-admin-console.md:33`.
* **links** (`sns-link.repository.ts:31`): two replacements leave both lists, beyond
  the ten of `01-data-model.md:328`.
* **in_force** (`content.repositories.ts:177`): a publication withdraws all versions of a policy in one
  update and publishes one in the next. If it dies in between, none is in force until somebody publishes again
  (the run's counterexample); two publications that overlap leave two, and visitors are then shown the one with the greater
  version. `docs/service/features/08-content-and-comms.md:71` says that exactly one always is, and the
  comment at `content.repositories.ts:176` that only one is. The moment between the two updates is left out of the property, though
  a visitor may see it too.

Other differences between code and documents were met while modelling; they are statements about
one line, which a run would only repeat:

* Withdrawal leaves API keys active (`user.service.ts:369`; `docs/GUIDES/db/01-data-model.md:659` says they
  are revoked). They are of no use to anybody: `NoServiceAfterLeaving`.
* A session opened before a reset or change of the password is served after it: both write a new `sessionEpoch`
  and nothing reads it (`viewer.provider.ts:25`; `user.service.ts:229` and `:266` say that those sessions end).
* A session of a user who has withdrawn stays in its store (`user.service.ts:353-373` ends none) and is served again once a
  late confirmation link has revived the account (run *withdrawn*); `WithdrawnStaysOut` is therefore about the time until then.
* The form of an announcement cuts dates to the minute and always sends them (`announcements.tsx:16-24`, `:47`): editing the title of one
  that was published at once also moves its `publishStartAt`, to an earlier second. `OnlyWhatWasAsked` says that no more than that happens.
* A reset link is consumed before the new password meets the policy (`user.service.ts:221`, `:227`): a
  refused password costs the link.
* The list of past versions of a policy contains drafts (`policy-document-view.tsx:15`).
* The site pages its list by OFFSET (`profile.service.ts:127`, `client.ts:181`), which
  `docs/GUIDES/api/00-overview.md:73` and `01-graphql-internal.md:56` rule out; profiles that move are then
  skipped or repeated, which `EachShownOnce` therefore asks of the cursor only.
* The cookie of the site keeps its first lifetime while the session behind it is renewed
  (`session.ts:21`).

### Bounds, and why they are enough

* *Two requests* in every part. Each hazard listed is between one request and one
  that comes between two of its steps; a third would only repeat the second, which may
  start again after it ends. The proofs are for any number.
* *access*: one key of the limiter (keys share only the threshold), window of 3 ticks, 2 ticks
  to a second so that rounding matters, thresholds 1 and 2, `MaxTime` 9 (three
  windows: window, block and alarm each pass at least once), `MaxHits` 5 (a full
  window, a block and the hits after it). One user with two API keys, one that is revoked
  and one that is made late. Two browsers and two session ids, so that a session is logged out or its user
  withdraws in one while the other is in use; one reset link and one password (no property of the run is about which password).
  Three profiles, two edits (one that overtakes the other), pages of one or two, three moments: a page
  boundary falls between profiles of one moment and of two. The part alone holds with three edits too.
* *users*: one user with two addresses and two outstanding links: every property of
  the run is about one row and its writers. *users_live*: two users and one
  address, where the index refuses. Ids (of users, suspensions, requests, keys)
  are used once, as ULIDs are; tokens and session ids are random: in AdminSessions and Accounts one that is no
  longer held may be drawn again, in UserSessions each is drawn once, so that a reset can be followed.
* *admins*: two administrators, the smallest number with a last one; two
  idle periods, so that a renewal is distinguishable from an expiry.
* *profiles*: two users whose first handles the other may take; one name part, one
  name, at most one link (a list is told from another by who stored it);
  `MaxOps` 2: two operations besides registrations and status changes, which are
  not bounded. An icon is uploaded before the first operation.
* *console*: two credentials of one administrator with three challenges, which two
  overlapping logins and one registration need; `MaxCount` 2; two types of policy with three versions in
  all (a publication of the other type must not touch it); one announcement with one form, and three times with two of them in one minute, so that a
  date is cut or is not; two help articles that compete for
  two addresses; one inquiry and one report; two recipients of one notification with at
  most two mails each and two changes.
* *in_force*: one type with two versions, two administrators.
* Symmetry is used only where no liveness property is checked.
* `CHECK_DEADLOCK FALSE`: in *users_live* because ids run out and no request dies, so
  everything may be done; in *admins* and *lockout* because nothing happens after the
  last administrator is gone; in *access* and *console* because their parts stop at a bound, or when the user has left.

### Fairness

`UndisturbedSpec` (users_live): no request dies and the one that is at its row, at
the review or at the lift goes on: the runtime resumes a handler when its
await is settled. With a crash between `setReviewed` and `setStatus` an approval is
lost; that is a hazard of PROJECT.json, and the code promises nothing about it.
`FairSpec` (admins): a request goes on with its renewal, drop or creation, and time
passes for every session. Nothing is assumed about users, clients or administrators
starting anything. The other parts have no liveness to promise: no code retries, repairs or
resumes what a request has left half done.

## 4. Proofs

All for any number of users, requests, keys, sessions, handles, profiles, administrators, credentials,
versions, announcements, articles, cases and notifications. The assumptions are
the named ASSUMEs of the modules (`LimiterAssumption`, `UserAssumption`, `TokenAssumption`,
`ModerationAssumption`, `SessionAssumption`, `AdminAssumption`, `ProfileAssumption`, `AccessAssumption`,
`KeyAssumption`, `PasskeyAssumption`, `PolicyAssumption`, `MailingAssumption`, `ConsoleAssumption`): special values differ from
real ones, ids of two tables differ, thresholds and window are positive, bounds are numbers, normalising twice is
normalising once, and the profiles of the list are finitely many, as the rows of a table are (pages and offsets count them). TLC evaluates each of them in a run.

Every proof goes the same way: none of the properties is inductive alone, so an invariant says what each
request in flight may rely on, a lemma per action shows that it is kept, and the property is a conjunct or a consequence
of it. A theorem about a part is carried to `Access` or `Console` by `PartsRun` or `ConsoleParts`, so that it is about the
definition the run checks. The invariants were checked by TLC on the runs' instances before they were proved.

* **RateLimiter_proofs.** `LimiterInv` relates, per key, the storage, the alarm and
  the history: hits are finitely many and in order, a request let through inside the
  window is still stored, the alarm comes after window and block, a block
  ends when its hits have left the window, no promise is earlier than the block.
  The quota needs that the alarm deletes nothing, which needs the alarm's time, which needs the block's. From
  it: `TypeCorrect`, `BlocksOutlastWindow`, `AlarmsForgetNothing`,
  `RetryAfterIsHonoured`, and the refinement `LimiterImplementsQuota`. The abstract quota holds a request to the threshold in force
  when its guard read it (`QAsk`), so the count of a request is right for that one and not for any other; that the limiter counts under it,
  and not under one configured before or after, is part of what is proved. What the quota amounts to over
  time is `NoWindowOverfilled`: in no window of its length, wherever it begins, does a key get more requests through than
  the largest threshold allows, though the threshold changes between a guard's read and its count.
* **UserSystem_proofs.** `SystemInv` says what each request in flight may rely on: what
  it will write is allowed for the row (`WriteOK`), the row it loaded is not newer
  than the table (`LoadedOK`), an outstanding link proves the address it went to. The
  proof rests on what no step takes back (`Grows`): rows stay, a verified
  user stays verified, an address changes only to a proven one. From it: `TypeCorrect`,
  `StatusesVerified`, `EmailsProven`, and `AccountsImplementOwnerStatus`, which needs it
  because a freeze may be written long after its check. `SoloInv` is about one request at a time: it finds the row and the
  review as it read them, and writes both columns of an address or neither; from it `OneAtATimeNorm` and `OneAtATimeDecision`.
* **AdminAccounts_proofs.** `AccountInv`: what an operation that no save has overlapped
  read is still so, and saving its record is `Safe` (another super_admin is
  there; a disabled record stays disabled). From it `LockoutsNeedOverlap` and
  `RevivalsNeedOverlap`, and `OneAtATimeNoLockout`.
* **Profiles_proofs.** `ProfileInv`: until another write comes between, the row that was read is the row, and
  the record to save is that row with what was asked for (`AloneOK`); until its owner's
  status changes, the owner may still edit (`PromptOK`); a profile that was found is
  there (`Present`). Lemma `KeepsOthers` says which of it a step of another
  leaves alone. From it `UpdatesAreLostOnlyToOverlap`, `PagesLeakOnlyToOverlap`,
  `EditsStop`, `LinksAreReplaced`.
* **Access_proofs.** Three invariants.
  * `ApiKeyInv`: a request that has found its key while the owner is
    ACTIVE has seen that (`AdmissionOK`), which a request past `FindOwner` needs; only keys that exist
    have been revoked (`RevokedExist`), so that an insertion revives none. From it
    `LeaversAreRefused`, `RevocationsHold`, `FreezesRevokeKeys`.
  * `SessionInv`: ids in use have been drawn, so that a new session is no old one (`SidsKnown`); a request about
    to put back a session that was logged out was under way before, and the session is noted (`RenewalsNoted`);
    a token two requests did not get is held by one and set no password before (`TokenOK`); a request that started after the withdrawal, with no revival since, stops
    at the lookup of the user (`StartsOK`). From it `LogoutsHold`, `ResetLinksAreUsedOnce`, `WithdrawnUsersStayOut`.
  * `ListInv`: an edit that no other overtook does not move its profile down and knows the row it flushes
    to (`EditOK`); a walk by cursor has all it still owes behind the cursor, and nothing it has shown but what an overtaken edit
    moved down (`CursorOK`); one by offset, while nothing moves, has shown the beginning of the list, as far as its offset (`OffsetOK`). That a page of a
    finite set holds its first members, as many as the page takes, is proved with the cardinality theorems of the
    library (`FirstComesFirst`, `FirstOfFew`, `LastOfIsLast`, `Ranks`), without induction over
    data. From it `ProfilesAreShownOnce`, for any page size.
* **Passkeys_proofs.** `PasskeyInv`: a challenge that was not raced is held by one request at most, is no longer kept
  once that request has deleted it, and is held by nobody once it was used (`TakenOnce`); an authenticator
  answers one registration of a credential (`Registered`), so a credential that has or had a row has used up its challenge (`SavedOnce`); a login
  that was not overtaken finds a counter not above its own (`CountOK`). From it `ChallengesAreUsedOnce`,
  `DeletionsHold` and `CountersFallOnlyToOverlap`.
* **Policies_proofs.** `PolicyInv`: between its two updates a publication nobody overlapped finds no version of its type in force, and then
  its own only (`AloneOK`); rows that were found stay (`RowsFound`); no version is beyond its row's place (`VersionsOK`), without which
  `createVersion` would leave its type. From it `PublicationsTakeEffect`, and
  `OneAtATimePolicies`: publications that do not overlap never leave two versions of a policy in force.
* **Console_proofs.** Four invariants.
  * `MailingInv`: a notification without trouble is sent by one request, which has mailed whom it has taken off its list
    and nobody else (`CalmOK`, `ListOK`); who is on a list wanted the mail or has changed since (`WantedOK`). From it
    `NobodyIsMailedTwice`, `SentReachesAll`, `OptOutsAreRespected`.
  * `NoticeInv`: what a request that nobody disturbed holds of an announcement agrees with the row in every column
    it was not asked to change, and what it wants to delete is no published row (`RequestsRight`). An update starts from a
    form, so a form that is not stale shows the row, its date to the minute (`FormsFollow`); a creation writes a row without
    disturbing anybody, so nobody works on an id that was not given away (`IdsFresh`). From it `NoticesAreWrittenAsAsked`, `NoticesAreDeletedAsDrafts`.
  * `HelpInv`: the same of a help article (`RightArticle`), of which a row that was loaded never goes
    (`LoadedStays`), or the flush would have nothing to compare with. From it `ArticleEditsKeepTheRest`.
  * `CaseInv`: a request that nobody crossed knows the status before its write, and the status it has written after it (`RightCase`); the
    case has been opened, and a status is one of its kind (`CasesOpen`), without which a report of later could find an entry already made. From it
    `CasesAreLogged`.

## 5. Only model-checked

`ApprovalTakesEffect` and `SessionsEnd` are liveness under fairness, which the prover
does not do. Every other property of the passing runs is proved. `AlarmForgetsNothing` is proved and not run. The six violations are
counterexamples. Three of them need requests that overlap, and what the documents say of one request at a time is proved:
`OneAtATimeNoLockout` (lockout), `OneAtATimeDecision` (decision) and `OneAtATimeNorm` (norm), each under the hypothesis that
`Requests` has one element at most. Nothing of the kind holds of withdrawn; of in_force half of it does (`OneAtATimePolicies`), since a crash leaves no version. Of links it would say little, since
the model names a link by the request that made it.

## 6. What a reader should know of the abstractions

* KV is read and written as if at one place. Cloudflare KV may return an old value for
  some time after a write; a link could then be used more often than modelled. Every
  property of a consumed link holds for two requests that consume it together, which
  is the same effect within the model.
* `Date.now()` is monotone.
* Accounts: whoever is logged in may start an operation at any time; who is logged in is the matter of
  UserSessions, where the user's status is only live or withdrawn, and a withdrawn one may be revived at any moment.
  The form that files an unfreeze request, and the upload of icons, have no code
  in `src/` that writes the record; they are external actions.
* An address is a value and `Norm` a function on addresses; the runs use two
  spellings of one address where it matters (norm).
* Profiles: `nameDisplayOrder`, `occupation` and `bio` are saved like the names. Moderators and
  owners read the status once, as the code does; `StatusChanges` is any step that `OwnerStatus` admits.
* ProfileList: the profiles are there from the start and published at one moment; what makes one appear is an edit or its owner. A
  search narrows the list by content, which no action tells apart. An icon that is already gone is cleared again, which the code would not write.
* Administrators are named by their addresses, which are unique and never change.
* ApiAccess: what the limiter answers is open; RateLimiter says when it may refuse.
* Passkeys: a signature is an answer that names its challenge and its counter; an answer once given may be sent any number of times. The counter of
  an authenticator grows with each signature, or stays 0.
* Policies, announcements, help articles: a text is a value, and titles, bodies and categories are
  handled alike; of the two dates of an announcement one is modelled, since both go the same way. Mailings: a mail that was taken by the mail service arrives.
* Results of a request that nobody reads again (the returned record, the audit entry elsewhere than in Cases, headers
  other than Retry-After) are left out.

## 7. Not modelled

* **Text and input validation**: pure functions over strings, with no state; what passes is a value of the models.
* **Mail and hashing**: external calls; a lost mail is a token nobody uses, except in Mailings, where mails are counted.
* **GraphQL resolvers and REST controllers**: each calls one operation, which is the action; argument
  types, presenters and the conversion of errors are left out. **Front ends**: rendering; what keeps state (the session
  cookie, the form of an announcement, the walk through the list) is in UserSessions, Announcements and ProfileList. The form of a
  help article (`help.tsx:17-33`) keeps what it was opened with too, and always sends its `status`: in HelpArticles a status that is sent is
  one that was asked for, so what an old form undoes is not told apart there from what an administrator wants.
* **Lists of the console, counts, the test mail**: read only, or change no state.
* **`compiled-functions.js`** of both applications: generated code of the ORM, a quarter of the repository's lines.

The modelled lines are those of services, stores, repositories, guards and domain rules that hold state or decide; most of
the rest is of the kinds above. PROJECT.json lists every component with its reason.

## 8. Plan

Done, in the order of importance: RateLimiter; UserTable, Accounts, Moderation,
UserSystem; AdminSessions, AdminAccounts; OwnerStatus, Profiles; UserSessions, ApiAccess; Policies, Mailings,
Passkeys, Announcements, HelpArticles, Cases; ProfileList; the proofs of all their safety and action properties.

Next, in this order:

1. UserSessions over UserTable instead of a status of its own, so that freezing and late confirmations meet sessions.
2. The text functions (`display-name`, `handle`) as operators against reference
   definitions over bounded inputs, where a property of the modules above rests on them.
