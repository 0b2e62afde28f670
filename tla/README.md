# nuchi in TLA+

nuchi is a personal finance application: a Next.js frontend (`src/app`, `src/components`, `src/features`, `src/lib`) over a Go
API (`src/backend`) over PostgreSQL, with SMTP for mail. This directory holds its formal specification: TLA+ modules translated
from the source, the TLC configurations that check them on small instances, and TLAPS proofs about them. All line numbers are
those of the files under `src/`; `PROJECT.json` maps each definition to its lines.

Read `AuthSessions.tla` first. Then `AuthAtomic.tla`, which says in two pages what it implements; then `Finance.tla` and
`FinanceAtomic.tla`, built the same way. The modules of the browser are short and independent of one another: begin with
`BrowserSession.tla`, whose server is the one of `AuthAtomic`, and `CsvImport.tla`, which implements `BatchUpload.tla`;
`Dashboard.tla` puts those of the dashboard together, and `MCBrowser.tla` says on which instances they are checked. The proofs are
in the modules whose names end in `_proofs`; section 7 tells each argument before you read it.

Contents: 1 inventory · 2 plan · 3 the database as modelled · 4 modules and code · 5 runs · 6 fairness · 7 proofs ·
8 findings · 9 what is not modelled

## 1. Inventory

### Authentication API — `backend/internal/http/auth.go`
- **State**: table `users` (email, password hash, `email_verified_at`), and three token tables (`refresh_tokens`,
  `password_reset_tokens`, `email_verification_tokens`), each row live, used/revoked or expired.
- **Operations**: RegisterUser, LoginUser, RefreshSession, LogoutUser, VerifyEmail, RequestPasswordReset (with
  issuePasswordResetToken), ConfirmPasswordReset; sendAsync mails a link from a goroutine after COMMIT.
- **Interacts with** the database (one transaction per request, or single statements on the pool for login and logout), the
  mailer, and the browser through the refresh cookie and the mailed links.
- **Hard**: concurrent requests over the same token rows; the cap and the invalidation of reset links spread over several
  statements; row locks taken in different orders; a commit whose answer is lost; mails that never arrive.
- **Correct when**: a refresh token is redeemed once, so that a login never forks; an ended login stays ended; a reset ends the
  sessions that existed; a user has one working reset link and asks for at most three an hour; a link is never spent without
  the effect it stands for; every request is answered.

### Accounts, categories and transactions API — `backend/internal/http/{accounts,categories,transactions,transactions_bulk}.go`
- **State**: tables `accounts`, `categories` (owner, case-insensitive name, unique per owner) and `transactions` (account,
  category or NULL, and data that no rule relates), with foreign keys that cascade or set NULL, under row level security.
- **Operations**: create, rename/replace, delete and bulk delete of each; bulk create of transactions; reads.
- **Interacts with** the user-bound transaction helper (`WithUserTx`), the limiter (before transaction mutations), the browser.
- **Hard**: reference checks that are stale when the row is written; a policy and a foreign key that look at different
  snapshots; cascades that collide with updates; UPDATE/DELETE that re-check a row after a lock wait; unique names under
  overlapping renames and deletes; deadlocks; all-or-nothing batches.
- **Correct when**: no transaction refers to a missing or foreign row; names stay unique; each request is one atomic step; the
  answer given for a lost race is the documented one; every request is answered.

### Mutation rate limiter — `backend/internal/ratelimit/mutation.go`, `allowMutation` in `transactions.go`
- **State**: one map, from user and action to the timestamps of admitted requests; the time of the last sweep; one mutex.
- **Operations**: Allow, with pruning of one key and a periodic sweep of all.
- **Hard**: boundaries (a timestamp exactly one window old, whole seconds), and forgetting exactly what no longer matters.
- **Correct when**: no window holds more than the limit, a caller that waits as told is admitted, idle keys go, and no answer
  depends on what was forgotten.

### User-bound transactions — `backend/internal/db/rls.go`, `resources.go`, migrations 00003 and 00004
- **State**: `app.user_id`, set locally in a transaction on a pooled connection. **Operations**: WithUserTx begins, binds,
  runs the handler's function, commits or rolls back; VerifyRLSActive refuses to start as a role that bypasses the policies.
- **Correct when**: no statement runs under another request's user, whatever fails. The shape (begin, one outcome, rollback on
  every error or panic) and the policies are in `Finance`; that the binding ends with the transaction is PostgreSQL's SET LOCAL.

### Browser session and API client — `lib/api/{authenticated-fetch,token-store}.ts`, `lib/auth/*`, guard, sign-in page
- **State**: per tab an access token in memory, a status, the page shown, a shared refresh in flight and a shared bootstrap;
  per browser the cookie jar with one single-use refresh cookie.
- **Operations**: fetch with one refresh and one retry on 401, bootstrapSession, login, logout, the two redirects.
- **Interacts with** RefreshSession, LoginUser and LogoutUser of the authentication API, and with every query through the wrapper.
- **Hard**: a refresh in flight when the user logs out; two refresh paths that do not know of each other; tabs that share a
  cookie whose token works once; a response lost after the server committed; queries that wait for a refresh of another query.
- **Correct when**: a tab presents its one token once however many queries fail together, so that the browser holds the live token
  unless different requests overlap or an answer that renews it is lost; only a sign-out or an answer without a token ends a
  session in a tab; a sign-out is reported as complete only if it was; every load and every query ends.

### Emailed-link pages — `app/(auth)/{verify-email,sign-up,forgot-password,reset-password}`, `lib/auth/session-requests.ts`
- **State**: a memo of one verification request, the outcome shown with the token it is for, three forms.
- **Operations**: visit (effects run twice, tokens change), try again; submit, show the answer.
- **Hard**: single-use links asked for twice; late answers of a link that was left; a 5xx after the link was spent.
- **Correct when**: what a page says of a link is so, its button really tries again, and no form stays locked.

### CSV import — `app/(dashboard)/transactions/*`, `lib/transaction-import.ts`, `lib/chunk-items.ts`, `use-select-account.tsx`
- **State**: the screen, the file, the mapping, the promise of the account dialog, the loop of each submission.
- **Operations**: upload, map, cancel, continue, choose the account, post the chunks in order, name the rows at fault.
- **Hard**: a chunk that fails after others are stored, or whose answer is lost; a second submission while one runs; a dialog
  that belongs to a file no longer shown; three ways to number a row.
- **Correct when**: each reported success stored each row once, a failure leaves a prefix of the file, the rows named are at fault.

### Query cache and hooks — `providers/query-provider.tsx`, `features/*/api/use-*.ts`
- **State**: per list the cached answer, whether it is stale, its fetch; per hook its request.
- **Operations**: thirteen mutations, each with the lists its success invalidates; visit, focus, age.
- **Hard**: a change that shows in lists of other features; an invalidation that meets a fetch under way.
- **Correct when**: a list that passes for fresh is, but for known reasons, and a page catches up with a reported change.

### Tables, sheets, forms and filters — `components/{data-table,select,date-filter,account-filter}.tsx`, `hooks/use-confirm.tsx`, `features/*/components/*`
- **State**: ticks and dialogs by position; the open row, its detail, the mounted form, one request for the sheet; the query
  string and the navigation under way.
- **Operations**: tick, delete behind a dialog; open, type, save, delete, close; make an account from within a form; filter.
- **Hard**: a list refreshed under a choice; the answer of an earlier save in a later form; a save that waited for the network;
  an API, a picker and a browser that disagree on what a day is.
- **Correct when**: what is deleted was chosen, forms start from the truth, what was typed reaches its row and its day, the header
  names the range that is shown.

### Development script — `scripts/dev-local.ts`
- **State**: its stage, two children, a binary in a temporary directory. **Operations**: set up, build, start, watch, stop.
- **Hard**: signals and exits between any two steps, a child that cannot be started, a binary that cannot be removed.
- **Correct when**: neither a process nor the binary is left behind, but in the cases section 8 names; and the end of one child
  brings the other down.

### Remaining components
- **Summary and date ranges** (`summary.go`, `daterange.go`): reads of one REPEATABLE READ snapshot. `parseDateRange` is in
  `DateFilter`, from the side of the page; the rest is pure arithmetic.
- **Mail** (`internal/mail`): SMTP I/O; its outcome is a choice in `AuthSessions`.
- **Access tokens, hashing, ids, middleware, configuration, health, generated code, charts and cards**: no state, or
  cryptography, I/O and rendering. `PROJECT.json` lists each with its reason.

`PROJECT.json` also lists the **hazards**: the places where this code could go wrong in a way a test would hardly reach, each at
its line, with the properties that would notice.

## 2. Plan

| # | modules | status |
|---|---|---|
| 1 | `AuthSessions` implements `AuthAtomic` | every property proved but liveness |
| 2 | `MutationRateLimiter` implements `SlidingWindow` | every property proved |
| 3 | `Finance` implements `FinanceAtomic` | every property proved but liveness |
| 4 | `BrowserSession` over the endpoints of `AuthAtomic` | every property proved but liveness |
| 5 | `CsvImport` implements `BatchUpload` | every property proved but liveness |
| 6 | `QueryCache`, `DataTable`, `EditSheet`, `NewSheet`, `DateFilter`, `TransactionDates`, put together in `Dashboard` | every property proved but liveness |
| 7 | `EmailLinks` | every property proved but liveness |
| 8 | `DevStack` | every property proved but liveness |

Each component has its own module of proofs, named after it; `Dashboard_proofs` has those of the six components of the dashboard.
No module uses RECURSIVE operators, which would put it out of the provers' reach. What the proofs leave to the runs is in section 7.

## 3. The database as modelled

Most of what can go wrong happens between two statements, so a request is a sequence of actions, one per statement that reads
or writes shared state, and the database behaves as PostgreSQL does under READ COMMITTED:

- A statement sees what was committed when it began. What a transaction writes is kept in its slot and reaches the tables in
  its commit action; a failure forgets it. A crash of the server is every open request failing.
- An UPDATE or DELETE over several rows is an action that takes the snapshot and one that visits each row, in any order; a row
  another transaction has written is waited for and then looked at again in its committed version. The re-check of a query
  with a join compares with the joined row of the *snapshot*, which matters in `VisitTransaction`.
- Row locks follow the conflict table of PostgreSQL: FOR KEY SHARE (foreign keys), FOR NO KEY UPDATE (an UPDATE of other
  columns), FOR UPDATE (explicit, DELETE, or an UPDATE of a column in a unique index). A rename to the very same bytes would take
  the weaker lock; the model takes the stronger one always.
- A unique index makes a writer wait for an open transaction that may take or free the value.
- The deadlock detector aborts some member of a waiting circle; which one is open.
- In a policy, WITH CHECK looks at references in the statement's snapshot, before any foreign key is checked. Foreign key checks
  and cascades bypass the policies and look at the newest committed rows.
- `users` is not locked by the creation of accounts in `Finance` (nothing there deletes or renames users).

Names in `Finance` are classes of names equal up to case, as `citext` compares them. Identifiers and tokens are
random: the model takes a fresh one from a pool, and the pool bounds the run. Creation times of reset tokens count from their
commit; the source uses the start of the inserting transaction, which differs only by the time it waited.

Arrivals that change nothing (malformed bodies, wrong passwords, unknown tokens, requests refused by validation or by the
limiter, reads) are not actions.

## 4. Modules and code

### `AuthSessions` (auth.go) and `AuthAtomic`
`registered`, `verified`, `password` are the columns of `users`; `status`, `expired`, `recent` the rows of the token tables;
`mailed` the links that reached a mailbox; `root` is a history variable, the login a refresh token descends from. `txn[r]` is
the request of goroutine `r`: endpoint, next statement, arguments, the lock on the users row, the token rows it has marked
(`kill`), those its current statement still visits (`todo`).

| endpoint | actions, in order |
|---|---|
| RegisterUser 199 | CreateUser, CommitRegister |
| LoginUser 304 | VerifyLogin (no transaction), MintSession (on the pool) |
| RefreshSession 406 | BeginRefresh, ConsumeRefreshToken, CreateRefreshToken, CommitRefresh |
| LogoutUser 518 | BeginLogout, ConsumeLogout (on the pool) |
| VerifyEmail 597 | BeginVerify, ConsumeEmailVerificationToken, MarkUserEmailVerified, CommitVerify |
| RequestPasswordReset 661, issuePasswordResetToken 715 | BeginIssue, LockUser, CountRecentPasswordResetTokens, InvalidateUserPasswordResetTokens + VisitRow, CommitIssue |
| ConfirmPasswordReset 796 | BeginConfirm, ConsumePasswordResetToken, UpdateUserPassword, InvalidateUserPasswordResetTokens + VisitRow, RevokeAllUserRefreshTokens + VisitRow, CommitConfirm |
| any | ConsumeRejected (no row matched), Fail, DeadlockAbort; Expire and Age for time |

`SendAsync` leaves open whether the mail arrives: SMTP may fail, the process may stop before the goroutine ran (shutdown does
not wait for it), or the COMMIT may have been reported as failed, after which the handler does not send.

`AuthAtomic` has one action per endpoint and no requests. `AuthSessions` implements it with its tables as they are
(`Atomic == INSTANCE AuthAtomic`, property `AtomicEffects`): commits map to steps, all else stutters. Its one weak step is
`Confirm`, which ends *some* sessions: the code does no better (section 8).

### `MutationRateLimiter` (mutation.go) and `SlidingWindow`
`requests` is the map, a slice being the set of its elements with their ranks; `lastCleanup` the sweep time; `now` the clock.
`Allow(k)` is one action because the whole call holds the mutex: sweep if due, prune, then admit (`Accept`) or answer the
seconds to wait (`Reject`, rounded as in `allowMutation`). `granted` and `retryAt` are history. `SlidingWindow` is a limiter that
remembers every admitted request; the real one implements it (`AnswersAsIfUnpruned`), so pruning and sweeping are invisible.
A behaviour is one life of the process. The arithmetic is in whole ticks; the source rounds a floating point quotient.

### `Finance` (accounts, categories, transactions, bulk) and `FinanceAtomic`
`name`, `account`, `category` are the tables: a row that does not exist yet has `None`, a deleted one `Gone`. `request[r]` is the
request of goroutine `r`; `seen` is what its snapshot showed of the references, `todo` what its statement still visits, `locked`
the rows it has written and `shared` those it holds FOR KEY SHARE. `answer` is the status answered in the last step.

| endpoint | actions, in order |
|---|---|
| POST transactions, bulk-create | BeginCreate, CheckAccounts, CheckCategories, InsertTransactions, CheckReference (per row and reference), CommitTransactions |
| PATCH transaction | BeginUpdate, CheckAccounts, CheckCategories, FindTransactions, VisitTransaction, WriteUpdate, CheckReference, CommitTransactions |
| DELETE transaction, bulk-delete | BeginDelete or BeginBulkDelete, FindTransactions, VisitTransaction, CommitDelete |
| POST account or category | BeginCreateResource, ClaimName, CommitName |
| PATCH account or category | BeginRename, FindResources, VisitResource, Cascade (row found or 404), ClaimName, CommitName |
| DELETE account or category, bulk-delete | BeginDeleteResource or BeginBulkDeleteResources, FindResources, VisitResource, Cascade, VisitTransaction, CommitDeleteResources |
| any | Fail, DeadlockAbort |

Accounts and categories have the same handlers in the source (they differ in the cascade), and are the two halves of one set
`Resource` here. `FinanceAtomic` has one action per kind of request; `Finance` implements it (`AtomicTables`).

### `BrowserSession` (session, API client, guard, sign-in page)
`jar` is the browser's refresh cookie, `token`, `status`, `path` and `call` are of each tab; `live` and `logins` are the server: a
login is a chain of refresh tokens of which the newest is live, and each endpoint is one step, as in `AuthAtomic`. A request is
*sent* with the cookie of that moment, *served* and *delivered* by three actions, so that any two may cross; `Lose` drops it
before or after it was served. An answer is `granted`, `refused`, `failed` (a 5xx, of the handler before it did anything, or in
place of the answer to what was done: a COMMIT reported as failed, Next's proxy without its API) or `cut` (a 2xx whose body is no
use, its Set-Cookie applied). `expected`, `closed` and `astray` are history: the login the user is in, the sign-outs reported as
complete, and whether the live token may be one the browser never got, since two *different* requests overlapped or an answer that
renewed the cookie did not arrive. Queries that share a refresh, requests lost before they were served, a 5xx before anything was
done and bodies cut off leave it FALSE, and a sign-in resets it.

| code | actions |
|---|---|
| SessionProvider's mount, bootstrapSession | Load, Serve, DeliverBootstrap, Lose |
| createAuthenticatedFetch, refreshOnce | Fetch, DeliverQuery (401: start or join the refresh), DeliverRefresh (waiters resume), Lose |
| login, logout, applySession, UserButton | Login, Logout, DeliverLogin, DeliverLogout |
| SessionGuard, sign-in page, safeRedirectTarget | GuardRedirects, SignInRedirects |
| time | Expire |

The list queries are those of the sheets, which the root layout mounts outside the guard: they go out without a token while the
bootstrap is under way. That is what finding 5 is about.

### `EmailLinks` (verify-email, sign-up, forgot-password, reset-password)
`cache` is the entry of `verifyOnce`, `hears` the requests whose effect was not cleaned up, `settled` the outcome tagged with
its token. A visit mounts the page or changes its token and keeps its state; `SettleAsk` also answers an effect that met a promise
already settled. The forms are `editing`, `submitting`, `answered`, `done`. `muddled` records the two known ways to be told a
link failed although it worked: the answer was lost after it took effect, or the user went to another link and came back.

### `CsvImport` and `BatchUpload` (the import)
One record per call of `onSubmitImport`; the screen is separate, since Cancel stops no submission. `ServeChunk` stores a chunk
whole or refuses it whole, as `Finance` says the endpoint does. `BatchUpload` is the promise (rows in order, each once per upload,
complete only when all are there). `CsvImport` implements it with
`Batches == INSTANCE BatchUpload WITH reached <- ..., outcome <- ..., stored <- stored`: what an upload has reached (`Reached`)
is what the page counts plus the chunk whose answer is on its way. The refinement is proved, not only checked (section 7).

### `QueryCache` (the hooks)
Each hook is two sets: the lists its request *affects*, by the API's statements and foreign keys, and those its success
*invalidates*, from its source. The cache does what TanStack Query does with these options: invalidating marks a list stale and
restarts its fetch only if a page shows it, and not the fetch that brings its first data. `excused` records the gaps that leave
a list wrong and fresh: a fetch that went on, an answer lost, an invalidation that is not in the code.

### `DataTable`, `EditSheet`, `NewSheet`
`DataTable` keeps ticks and dialogs as positions, as the code does, and looks rows up when a dialog is confirmed; `meant` is what
the user pointed at. `EditSheet` is one module for the three sheets, which differ in the detail key a save invalidates, in whether
a row can be deleted from them, and in whether they wait for the lists of two selects. An action that changes what is shown ends
with `Render`, which decides whether the form is mounted, kept or gone: there is none while the detail has no data and is being
read, or a list is (`choices`), for the first time or again after that failed. A request made off line waits, and takes the id
that is open when it is made. `OtherWrites` is every writer that is not this sheet: another tab, or in this one the deletion of
the category or account of a transaction, which invalidates lists and not the detail (use-delete-category.ts:24). `unsure` are the
rows whose detail went stale unnoticed, and a form remembers if it is of one. `NewSheet` has the same gate over its two lists; its
hooks belong to the sheet and the select's promise to one form; accounts are made from it and deleted elsewhere.

### `DateFilter` and `TransactionDates`
`DateFilter`: days are numbers, months a table (`MonthStart`), the presets the date-fns calls of `onPresetSelect`, and `Asked` and
`Accepted` the rules of `parseDateRange` in the API. Its instants are half days, midnight and the rest, which tells what matters:
a row is stored at the midnight of its day, an omitted `from` keeps the time of day of now. `Listed` is what that shows. Both
filters write the whole query string from the parameters they see; `going` is the navigation under way. `TransactionDates`:
instants are half hours, `Offset` is the browser's zone with a day whose midnight does not exist, and the conversions of
`transaction-date.ts` are modelled by what they compute.

### `DevStack`
`stage` is where `main` is, or how the script ended before `main` settled: killed by a signal before the handlers are there, hung up
(SIGHUP has no handler), or crashed (a child process that cannot be started emits an error, to which only `watchProcess`
listens). `child` are the two processes, which exit on their own and are heard of later. `Conclude` is the catch and the finally
together, which run without an await between them; its `Unlink` may fail (`stuck`), which the code swallows. `late` are the
children that were started after `stopChildren`.

### `Dashboard` and `MCBrowser`
`Dashboard` puts the components of the dashboard together. They share no state, and each keeps its specification; what is new are
the properties that speak of forms of two kinds: `FormsShowTheTruth`, `FormsKeepWhatIsTyped`, `SavesAreMeant`. `Nothing` declares
`None`, the one constant the browser's modules have in common.

One run checks all components that share no variables: in `MCBrowser`, `part` names the instance a behaviour is about, the variables
of the others stay as they are, and `Parts` chooses the instances. It extends every component, so that the properties it checks
are the very ones the theorems state. A component that is checked on several instances (`OneTab` and `TwoTabs`; the pages of
emailed links; the three sheets; every hook by itself) is instantiated for the others, with its variables and different
constants. A property of a component is asked in the behaviours of its instances.

Operators whose comment calls them a faulty variant are used by no specification: each is a plausible mistake in one
definition, and putting it there makes TLC report the property named with it in `PROJECT.json`.

## 5. Runs

The largest takes about three and a half minutes on two cores. Deadlock checking is off in each (`CHECK_DEADLOCK FALSE`): once the
tokens or ids are issued and nobody asks for anything, the system rests, and so do a page nobody uses, a script that has ended and
a limiter whose clock is at its bound. Requests that wait for each other are covered by `DeadlocksArePairs`,
`DeadlocksNeedDeletes` and `EveryRequestAnswered`.

| run | module, bounds | states | question |
|---|---|---|---|
| `reset_requests` | `AuthSessions`; 2 requests at a time, 3 reset tokens, cap 2, all tokens may expire or age | 199,907 | Do issuing and confirming keep one working link and the cap, spend links only with effect, and finish? (`OneLiveResetToken`, `ResetCap`, `ResetLinkSpentWithEffect`, `EveryRequestAnswered`) |
| `sessions` | 3 requests, 4 refresh tokens, 1 reset token | 186,950 | Do racing refreshes, logouts and a reset keep logins from forking or coming back? (`LoginsDoNotFork`, `EndedLoginsStayEnded`, `ResetRevokesPriorSessions`, `DeadlocksArePairs`) |
| `every_endpoint` | all seven endpoints from an empty database, 2 requests | 100,761 | Is each an atomic step, one account per address, no link burned? (`TypeOK`, `LinksAreHonoured`, `AtomicEffects`) |
| `reset_vs_refresh` | 2 requests | violation | Does a reset end the *login*, not only the tokens it saw? (`ResetEndsPriorLogins`) |
| `reset_vs_login` | 2 requests | violation | Is a session only created for the current password? (`SessionsUseCurrentPassword`) |
| `finance_transactions` | 2 users with accounts of their own, 3 accounts, 1 category (foreign to one user), 1 transaction, bulk deletes of 2 | 403,910 | Do references stay sound while they are deleted, and is row level security only the backstop? (`TypeOK`, `SoundReferences`, `BackstopOnlyRaces`, `AtomicTables`) |
| `finance_locks` | 1 user, 2 accounts, 2 transactions | 216,000 | Are names unique, which circles can form, is every request answered, deadlocks included? (`NamesUnique`, `DeadlocksNeedDeletes`, `AtomicTables`, `EveryRequestAnswered`) |
| `finance_race` | 1 transaction | violation | Does a lost reference always give a 404? (`ReferenceRacesAre404`) |
| `finance_moved` | 1 transaction | violation | Is "not found" only answered for what is not there? (`NotFoundMeansGone`) |
| `components` | `MCBrowser`, all instances below | 242,131 | The limiter and every component of the browser, one at a time (21 properties). |
| `reload` | `MCBrowser`, one tab, nothing is lost | violation | Does a reload keep a session that nobody ended? (`ReloadKeepsSession`) |
| `sign_up_again` | `MCBrowser`, sign-up | violation | Does signing up again renew a link? (`SignUpAgainRenews`) |

The instances of `components`:

| instance | bounds | states | properties |
|---|---|---|---|
| Limiter | 2 budgets, window 3, limit 2, sweep every 3, 2 ticks a second, 5 ticks | 50,700 | `WindowCap`, `RetryHonoured`, `StaleKeysSwept`, `AnswersAsIfUnpruned` |
| OneTab | 1 tab (a second stays closed), 2 queries, 1 login, 1 load, 1 answer a 5xx or cut off, lossy network | 37,800 | `SessionKept`, `SignOutTruthful`, `OnlyAnswersSignOut`, `LoadingEnds`, `EverythingSettles` |
| Again | 1 tab, 1 query, 2 logins, 1 load, 1 expiry, lossy network, a `?redirect=` to another site | 19,800 | `SessionKept`, `SignOutTruthful`, `OnlyAnswersSignOut`, `LoadingEnds` |
| TwoTabs | 2 tabs, no queries, 3 loads, 1 login, lossy network | 16,500 | as Again |
| Import | files of 3 and of 5 rows (one refused), one malformed, one unreadable; chunks of 2, 2 submissions | 5,400 | `ImportSound`, `ImportIsBatchUpload`, `EverythingSettles` |
| Verify, SignUp, Forgot | 2 links, 3 visits, 3 requests; two forms at a time | 6,200, 1,700, 2,500 | `OutcomesAreTrue`, `EverythingSettles` |
| Lists, and each hook | the list of transactions under two hooks and two pages; each hook with its own list and the transactions | 1,500, 80 each | `StaleExplained`, `PageCatchesUp` |
| Table | 2 rows, 1 change from elsewhere, a filter | 29,000 | `DeletedWereMeant` |
| AccountSheet, CategorySheet, TransactionSheet | 2 rows, 1 request, 1 outage (category); for the transaction 1 row, 1 change by another writer, lists that fail | 7,500, 33,700, 2,900 | `FormsShowTheTruth`, `FormsKeepWhatIsTyped`, `SavesAreMeant` |
| Fresh | 2 forms, 1 submission, 1 account made, any deleted, lists that fail | 6,400 | `FormsShowTheTruth`, `FormsKeepWhatIsTyped` |
| Filters, EveryDay | two days, UTC a day ahead or behind, at midnight or past it, 2 navigations; every day of two years, one a leap year | 2,400, 5,800 | `FiltersHold` |
| Dates | three days, zones from -12 to +14 with a half-hour one, each day without a midnight, one journey | 2,500 | `SavesAreMeant` |
| Script | 3 signals | 293 | `StackComesDown`, `EverythingSettles` |

`PartsTypeOK` is the type invariant of each.

Why these bounds are enough to be interesting:
- **Request slots.** A slot serves any number of requests, so two slots give every interleaving of two requests, in any order
  and with any history. `sessions` has three, the fewest for a circle that is not a pair and for two losers of one token.
- **Tokens and ids.** Three reset tokens with a cap of two: a third request meets the cap, or passes it after one has aged. Four
  refresh tokens: a chain of three rotations, or two logins that rotate in parallel.
- **Users.** Token rows are never shared between users and all locks are on rows of one user, so one user suffices for
  `AuthSessions`; in `Finance`, policies tell users apart, and `finance_transactions` has two.
- **Rows.** In `finance_transactions` one transaction is created, moved between two accounts and deleted, by itself or with its
  account; what several transactions add (batches, cascades over two rows, circles) is in `finance_locks`.
- **Limiter.** Five ticks are more than a window and a sweep, and a second does not divide the window, so that rounding shows.
- **Tabs.** Two queries are the fewest that share a refresh; two tabs the fewest that share a jar, and with three loads one of
  them is reloaded while the other spends the cookie. One answer that is a 5xx or cut off is enough to lose a session or to keep it.
- **Import.** Three chunks, the last one short, with a row that is refused in it; two submissions can run at once.
- **Links.** Two, since the memo has one entry; three requests let a link be left, another tried, and the first come back to.
- **Forms.** Two openings: an answer can come to the form after the one it was asked for.
- **Hooks.** No list's cache depends on another's, so a list at a time is all there is; two hooks are enough for the answer of one
  to meet the fetch caused by the other.
- **Symmetry** is used only for slots, budgets and rows no definition names, and in no run with a liveness property.

## 6. Fairness

Safety runs use `Spec`. `EveryRequestAnswered` is checked under `FairSpec` of `AuthSessions` and of `Finance`:
- weak fairness of `Statement(r)`: a goroutine whose next statement can proceed executes it;
- weak fairness of `DeadlockAbort(r)`: PostgreSQL runs the detector after `deadlock_timeout` and aborts a member of a circle;
- `Pause`: from some time on nobody arrives and nothing fails.

Nothing is assumed of clients, of mail or of expiry. `Pause` is there because a row lock can starve: FOR UPDATE waits as long as
overlapping weaker lockers keep coming, and weak fairness gives no more than that. What the property then says is that no
set of row locks the system can reach leaves a request stuck. It is not implied by the
detector alone: a handler path that answers without ending its transaction, and so keeps its locks, makes it false.

`components` uses `BrowserFairSpec`. All of it is weak fairness of steps the machine takes by itself, and a loss is as good as an
answer for each: the request is not in flight any more. Nothing is assumed of users.
- `FairSession`: the bootstrap and the shared refresh are served and delivered (`fetch` settles), and the effects of the guard
  and of the sign-in page run after a render. It is what `LoadingEnds` and the first half of `EverythingSettles` rest on.
- `FairImport`, `FairEmails`: a chunk, a verification and a form's request are served and delivered. `SettleAsk` is the
  microtask of a promise. For an import that is each of its chunks, so that the submission as a whole comes to an end.
- `FairCaches`: the fetch of a list is served and delivered.
- `FairScript`: a child that was told to stop exits, and the exit of a child is heard of as long as the script lives. A child that
  was *not* told may run for ever.

## 7. Proofs

Every proof is checked by TLAPS to the last leaf. The theorems hold for every value of the constants that satisfies the
assumptions, so for any number of users, rows, tokens, links, tabs, files, hooks, days and concurrent requests:

| module | assumptions | say |
|---|---|---|
| `AuthSessions` | `TokensAssumption`, `ParametersAssumption`, `NoneAssumption` | the token tables are disjoint, each row has one owner, reset rows are finite; the cap is at least one, seeded users are users |
| `MutationRateLimiter` | `LimiterAssumption` | window, limit and second are positive, the clock is discrete |
| `Finance` | `FinanceAssumption`, `InitialAssumption` | ids of different tables differ, each account and category has one owner; the tables begin with unique names and sound references |
| `BrowserSession` | `SessionAssumption` | kinds of calls, cookies and the values for "none" differ |
| `CsvImport` | `ImportAssumption` | files have rows, a chunk has at least one |
| `EmailLinks` | `LinksAssumption` | verification links and reset links differ, seeded links are verification links, forms are among the three pages, bounds are numbers |
| `QueryCache` | `CacheAssumption` | the changes are among the hooks of the source |
| `DataTable` | `TableAssumption` | the first rows are rows, the bound is a number |
| `EditSheet`, `NewSheet` | `EditAssumption`, `NewAssumption` | bounds are numbers |
| `DateFilter` | `FilterAssumption` | the presets are the page's, the clock of the server is at most a day ahead or behind |
| `DateFilter` | `CalendarAssumption` | see below |
| `TransactionDates` | `DatesAssumption` | days and zones are numbers |
| `DevStack` | `StackAssumption` | the bound is a number |

Most also say that the value which stands for nothing (`None`) is not one of the values it is told from, as it is with the
browser's `null`; a proof knows nothing else of it. The bounds may be any numbers.

`CalendarAssumption` is the only one with content: `MonthStart` gives whole years of months of 28 to 31 days, a year has 365 or
366, and every day it can be today has a full year before it in the table. Day 0 is the first of 2023, and today is not before it,
which makes "All time" too long a range from any day. Nothing is said of which months are short or which years are leap years, so
the theorem holds of more calendars than there are. The bound on the server's clock is the code's own: browser and API differ by a
zone, which is less than a day.

TLC evaluates all of them in every run of `MCAuthSessions`, `MCFinance` and `MCBrowser`, those of the instances included
(`Constants`).

| theorem | says |
|---|---|
| **AuthSessions_proofs** `TypeCorrect` | `TypeOK`, including which statement an endpoint can be at with which arguments |
| `OneLiveLink` | a user never has two working reset links |
| `CapHolds` | never more than the cap of reset tokens in the last hour |
| `LoginsNeverFork` | at most one live token per login |
| `EndedLoginsNeverReturn` | no step revives an ended login (an action property) |
| `EndpointsAreAtomic` | `AuthSessions` implements `AuthAtomic` |
| `LinksHonoured` | a mailed link is backed by a committed token |
| `LinksSpentWithEffect`, `ResetsRevokePriorSessions` | two action properties of the commits |
| `DeadlocksPaired` | every circle of waiting requests has an issue and a confirmation of one user that wait for each other |
| **MutationRateLimiter_proofs** `AtMostLimitPerWindow`, `RetryAfterSuffices`, `IdleKeysGo` | the three invariants of the limiter |
| `PruningInvisible` | `MutationRateLimiter` implements `SlidingWindow` |
| **Finance_proofs** `TypeCorrect` | `TypeOK` |
| `ReferencesStaySound`, `NamesStayUnique` | the two invariants of the tables |
| `RequestsAreAtomic` | `Finance` implements `FinanceAtomic` |
| `PolicyIsBackstop` | the policy refuses a write only if a reference was deleted meanwhile (an action property) |
| `OnlyDeletesDeadlock` | `DeadlocksNeedDeletes`, for circles of any length |
| **BrowserSession_proofs** `TypeCorrect` | `TypeOK` |
| `SignOutsAreTruthful`, `SessionIsKept` | the two invariants of the session |
| `NetworkNeverSignsOut` | `OnlyAnswersSignOut` (an action property) |
| **CsvImport_proofs** `ImportsAreSound` | `ImportSound` |
| `ImportsUploadBatches` | `CsvImport` implements `BatchUpload` |
| **EmailLinks_proofs** `OutcomesHold` | `OutcomesAreTrue`: two invariants and the action property of Try again |
| **Dashboard_proofs** `StaleListsExplained` | `StaleExplained` |
| `OnlyChosenRowsDeleted` | `DeletedWereMeant` (an action property) |
| `FormsAreTrue` | `FormsShowTheTruth`, from `StaleFormsExplained` of the edit sheets and `TheChoiceIsShown` of the new one |
| `NothingTypedIsLost` | `FormsKeepWhatIsTyped` (two action properties), from `OnlyTheUserDiscards` and `NewFormsKept` |
| `WhatIsMeantIsSaved` | `SavesAreMeant` (two action properties), from `SavesLand` and `DaysKept` |
| `TheFiltersHold` | `FiltersHold` |
| **DevStack_proofs** `TheStackComesDown` | `StackComesDown` |
| `LinksTyped`, `ListsTyped`, `TableTyped`, `EditSheetTyped`, `NewSheetTyped`, `FiltersTyped`, `DatesTyped`, `StackTyped` | the type invariants of these components |

A theorem about two components has both specifications as its hypothesis, since neither assumes anything of the other's state.

**Resets** (`AuthSessions_proofs`, from here on). Neither property is inductive: the cap is checked and prior links are collected
long before the new row is inserted. `ResetInv` adds what carries them there: at most one request holds a user's row FOR UPDATE
(`Exclusive`), and a request past the count has that lock, still sees fewer than the cap, and, when about to insert, has marked or
has yet to visit every live link (`Prepared`). Most actions are "quiet" (no reset token becomes live or recent) and are settled by
one lemma; the argument proper is in the steps of `LockUser`, the count, the invalidation, `VisitRow` and `CommitIssue`.

**Logins**. `LoginInv` says how a request owns the rows it will change: rows it marked are live and no other's, the row it will
insert is fresh and no other's, a refresh inserts only after it has marked the token presented (`SlotsInv`); and roots lead to
issued tokens (`Rooted`). With it, each kind of step (arrival, marking, one per commit) is a lemma that gives both the invariant
and the action property.

**Effects**, on top of the two. A commit acts on what its earlier statements have read and marked, so that the abstract step is
only the right one if these marks are. `EffectInv` says, by endpoint and statement, which rows a request has marked, which it has
yet to visit and which lock it holds (`Phase`); that what the arrival checked cannot have been undone, and that a confirmation has
found, marked or still to visit every session it is to end (`Grounds`); and that requests of one user hold compatible locks
(`Apart`). One lemma per commit then gives the step of `AuthAtomic` together with both action properties. For deadlocks, `Phase`
bounds what each statement can wait for and what it can hold. In any circle some issue holds its user's row FOR UPDATE
(`BlockedIssue`); it can only wait for a reset token of that user, and who has marked that one is a confirmation which has not
locked the user yet and so waits for the issue. This covers circles of any number of requests, where a run has three.

**Limiter** (`MutationRateLimiter_proofs`). `LimiterInv` relates what is kept to what was ever admitted: every timestamp that
still counts is kept (`Pruned`), ranks and times agree (`Ordered`), and a promise rests on how many will still count by then
(`Promised`). What a call sees is then exactly what the unpruned limiter sees, which gives the refinement.

**Finance** (`Finance_proofs`). `SoundReferences` is not inductive: a reference is looked up, shown to the policy and checked by
the foreign key at three different moments, and only the last one locks it. `Inv` says of a request `x`: which rows it has locked
and has yet to visit (`Agenda`), that these are still what they were (`Held`), that ids it generated are nobody's (`Fresh`); that
references which passed the lookup existed and, if the snapshot no longer shows them, are deleted (`LookedUp`, from which
`PolicyIsBackstop` follows); that each reference it will write is checked and locked, still to be checked, or the one the row has
already (`Referred`); that a delete has locked, or on its list, every transaction that refers to its rows (`Cascading`); and that
a name it found free stays so (`Claimed`). Of two requests it says that their locks are compatible, and that they claim neither
the same ids nor the same names (`Apart`). A reference written past a delete would need the writer to hold the row FOR KEY SHARE
and the deleter FOR UPDATE. Each action is a lemma which gives the invariant and the step of `FinanceAtomic` together.
`OnlyDeletesDeadlock` goes through whom a request that deletes at most one transaction can wait for (`Waiting`): in a circle
without a delete of several rows and with one rename at most, nobody can be at a name or a reference, so that all would be
updating or deleting single transactions and wait with empty hands.

**Browser session** (`BrowserSession_proofs`). The properties speak of the jar and the server, but a token spends most of its life
in a request or an answer. `Inv` follows it there: every token held, sent or answered was given out (`Genuine`), so that a login
that is over receives none; what a sign-out's answer claims to have ended has ended already (`Ended`); a bootstrap in flight means
a page without a form or a menu (`Bootstrapping`); the answer to a sign-in is alone in knowing the login it began (`Private`), which
is why it mends whatever went astray before. While the live token has not gone astray there is at most one cookie request, it
carries the jar's token, and an answer brings the live one of the expected login or is a failure without a cookie; but for an answer
under way that brings it, the jar holds the live token (`Kept`). None of this assumes that requests arrive, that the server can
serve them or that bodies are whole. `OnlyAnswersSignOut` is read off `Kept` at the step that delivers a refresh.

**Import** (`CsvImport_proofs`). The bounds of `ImportSound` do not say which attempt has stored which rows, so that a step of one
attempt could hide a loss of another. `Inv` counts exactly: a row is stored as often as there are attempts that have reached it
(`Storing`), the chunk accepted but not yet heard of included. Sets of attempts are finite, and a chunk adds its attempt to these
sets for its rows and no others; that is all the arithmetic there is. The steps of `BatchUpload` are read off the same lemmas.

**Emailed links** (`EmailLinks_proofs`). What the page shows says nothing by itself of the link: between the server's answer and
the screen are the memo, requests that nobody hears any more, and effects that ran twice. `LinksInv` follows every request ever
made: one that was answered "ok" has spent its link (`AskInv`); of the requests for one link all but one have failed, and of the
link the page is at all but the remembered one (`OnlyOne`, `OthersFailed`), unless the user came back to a link or an answer was
lost (`muddled`); a spent link has the request that spent it (`SpentInv`). The memo is about the link at the page and only its
request is heard (`MemoInv`), so what is shown is an answer to a request for that very link (`SettledInv`), and a failure of a
spent link would need two requests that did not fail. Try again is a real request because a failure is never what the memo holds.

**Lists** (`Dashboard_proofs`, from here on). That a cached list is right or excused does not survive the arrival of an answer,
which replaces it with what was true when it was served. `CacheInv` asks the same excuse of the answer under way.
`HooksInvalidate` compares the two sets of all thirteen hooks: what a request changes its success invalidates, but for the
transactions after two bulk deletes.

**Table**. A selection is by position, a deletion by row. `ChoicesLie` says which rows the positions hold: unless the list moved
under a choice, a ticked position has a row that was ticked, and the menu's dialog is over the row it was opened for.

**Edit sheets**. A form keeps the values it was mounted with, while detail, cache and row go on without it, and other writers
change the row at any time. `EditInv` relates the four copies of a row, the server's, the cached detail, the answer under way and
the form: a detail that is not marked stale, and an answer that is to replace one, is the row or has a known reason (`DetailInv`: a
save whose answer is still to come, or the row is in `unsure`); the form started from the row's values or is flagged, as being read
again or as unsure; it is of the open row, is there only while nothing it waits for is loading, and has nothing typed in it while a
request is out (`FormInv`, why the success of an earlier save can close no newer text); a request is for the row it was made for or
has waited (`SavingInv`). `Render` ends every action after which React shows something else, so that two lemmas, `FormKept` for the
invariant and `FormGone` for what was typed, say what these can do to the form.

**New sheet**. `ChoiceIsShown` is nearly inductive. An account may leave the list under a form that has chosen it, and then only
because it was deleted; `NewInv` adds that ids in the list were made already, so that an account about to be made is new to it, and
that nothing is typed while the form is being submitted. `EntryShown` is what opening, closing and loading do to the form.

**Filters**. `FiltersCompose` needs where the navigation under way goes as well (`FilterInv`). The weight is in `PresetsAccepted`,
for every day of every calendar: `MonthOf` says that a day has exactly one month, `YearRange` that twelve months from a January
are the year (remainders of the index by 12), `MonthsBefore` that some months before a day is a day of the month that many
before, and `PresetRanges` bounds each preset by 366 days. `LabelHolds` is the arithmetic
of half days: from which midnight the API lists, and to which, against the days that the header names.

**Dates**. `DatesInv` says that the day the form's instant falls on, where the browser is now, is the day its user means, unless
the zone changed under it. `MidnightOfDay` is the arithmetic: a local midnight, or the first instant of a day without one,
converted there and back is the same day, for any offset.

**Script** (`DevStack_proofs`). `StackInv` says at which stages a binary or a child can be there, that a binary which outlives `main`
could not be removed, and that after `stopChildren` whatever still runs was started late.

**Only model-checked**: liveness (`EveryRequestAnswered`, `EverythingSettles`, `LoadingEnds`, `PageCatchesUp`), which is out of
this prover's reach with fairness and ENABLED; and `PartsTypeOK`, which collects the type invariants of all instances of
`components`: of each component the type invariant is a theorem, for all constants, but the union of the instances is not what the
theorems are about. Induction over data and RECURSIVE operators are beyond the provers too, and nothing here needs them. The six
runs of section 8 are counterexamples and have no theorem.

## 8. Findings

Each is a run that ends in a counterexample to what the repository says of itself.

1. `reset_vs_refresh`. A refresh that has consumed its token and not committed is waited for by the reset's revocation, but the
   successor it inserts is not in that statement's snapshot (auth.go:862). It is live afterwards: the session survives the reset,
   against auth.go:794 and docs/product/auth.md:63. What does hold, and is checked, is `ResetRevokesPriorSessions`: every *token*
   that was live when the link was consumed is dead.
2. `reset_vs_login`. A login verifies the password outside any transaction and inserts its refresh token later (auth.go:343, 377). A
   reset that commits in between leaves a session that was authenticated with the old password (docs/product/auth.md:60).
3. `finance_race`. transactions.go:173 promises that a reference deleted between lookup and write is answered 404. If the
   delete commits before the write takes its snapshot, the policy of migration 00004 rejects the row (SQLSTATE 42501)
   before any foreign key is checked, and the answer is a 500. `BackstopOnlyRaces` shows this is the only way to get there.
4. `finance_moved`. A delete or update that waits for a move of the same transaction to another account of the same user finds
   that the row no longer matches the account its snapshot joined it with, and answers 404 for a row the user still owns, against
   transactions.go:35.
5. `reload`. The bootstrap and the fetch wrapper each share their own refresh, but not with each other. The queries of the sheets,
   mounted beside the guard (layout.tsx:38), go out before the bootstrap has a token; their 401 starts a second refresh with the
   cookie the bootstrap has presented, and the one that comes second clears cookie and token: a reload of a live session ends on
   /sign-in, which is what session-requests.ts:46-51 says cannot happen. `SessionKept` and `OnlyAnswersSignOut` say what does
   hold: without such an overlap, and unless an answer that renewed the cookie is lost, the browser keeps the live token, and the
   server never refuses it.
6. `sign_up_again`. docs/product/auth.md:37, sign-up/page.tsx:82 and verify-email/page.tsx:91 promise a fresh link to who signs up
   again with the same address. The API answers 409 for any address that has a user (auth.go:267), so that one whose mail was lost or
   whose link has expired can neither log in nor register.

Some properties that hold carry an exception which is worth knowing; each names it in its comment:
- a tab is signed out by *any* answer to its refresh that brings no token, also by a 5xx or a body cut off, while the session lives
  and a reload would resume it (`OnlyAnswersSignOut`, authenticated-fetch.ts:106);
- an answer that renewed the cookie and is lost, or is replaced by a 5xx after the COMMIT, takes the session with it: the browser is
  left with a token that was spent (`SessionKept`);
- a list stays wrong and fresh after a bulk delete of accounts or categories, which does not invalidate the transactions
  (`StaleExplained`), and so does one whose first fetch was under way when it was invalidated;
- rows are deleted that nobody chose if the list moves under the ticks or the dialog (`DeletedWereMeant`);
- an import submitted again after a failure stores its first chunks twice (`ImportSound`);
- a save that waited for the network goes to the row that is open by then (`SavesAreMeant`);
- a form starts from values that are no longer the row's when another writer changed it, also when the category or account of a
  transaction was deleted in the same tab, which leaves the detail cached as fresh; saving it writes them back (`FormsShowTheTruth`);
- what was typed is lost when a detail or a list of a select that could not be read is read again, on focus for instance: the sheet
  shows its spinner in place of the form (`FormsKeepWhatIsTyped`, new-transaction-sheet.tsx:72, edit-transaction-sheet.tsx:75);
- a filter set before the navigation of the other is over undoes it, and "All time" is always refused; without a `from` in the
  address the API lists from the time of day of now, so that the rows of the first day the header names are missing, and either
  end is off by a day where UTC and the browser's clock are on different days (`FiltersHold`, daterange.go:67);
- a child that `bun dev` starts after a signal is never told to stop; the binary stays if it cannot be removed, if the API cannot be
  started, or if the terminal is closed, which also leaves the children untold (`StackComesDown`).

## 9. Not modelled, and why

- Hashing, JWT and token formats, ids: cryptography without state. A password and its hash are one; an access token expires by
  itself and takes no part in the properties of the server.
- SMTP, HTTP routing, configuration, health, generated code: I/O.
- Amounts, payees, notes, currency: no rule of the modelled code relates them to other state.
- Summary: read only, in one snapshot. Its sums (which a thousand amounts of 2^53 overflow, summary.sql:13), percentages, periods and
  buckets are pure functions of it, where a unit test reaches as far as a model.
- The binding of `app.user_id` to a pooled connection (rls.go:65): SET LOCAL ends with the transaction, and the code adds no
  state that a model could get wrong.
- Clocks of the reset cap (auth.go:735): it compares the start of the inserting transaction with a time taken by the
  application; the model counts from the commit, which differs by the time the transaction waited.
- Restart of the limiter (mutation.go:71) or several instances of the server: each has its own budgets, and the source says so.
- Paging, sorting, charts, cards, navigation, wording: rendering. Two sheets open at once, or two hooks of different sheets in flight,
  are combinations of `EditSheet`, `NewSheet` and `QueryCache` that no run composes. They meet in the lists, where `QueryCache` has
  every order of two hooks, and in the rows: what one sheet or table does to a row that another has open is `OtherWrites` of
  `EditSheet` and `DeleteElsewhere` of `NewSheet`, which may happen at any time, whatever the lists do meanwhile.
- `lib/transaction-route-utils.ts`: the limiter and date helpers the Go API replaced; no route calls the limiter any more.
- `scripts/validate-openapi.ts`: compares files.
