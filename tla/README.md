# all-Mail: a TLA+ verification project

This directory holds TLA+ models of all-Mail, the TLC configurations that check
them, and proofs checked by TLAPS. Paths below are relative to `src/`; every
definition that models code is mapped to its source lines in `PROJECT.json`.

## The system

all-Mail is a self-hosted mail management service. A Cloudflare Email Worker
receives mail for hosted domains and posts it, signed, to the core; the core
stores it in PostgreSQL, shows it to mailbox users in a portal, forwards it by a
background worker, sends mail, and manages external (Gmail, Outlook, IMAP)
accounts for administrators and API-key clients. Its processes are the gateway
(`allmail api`), the business API (`allmail business-api`), two workers
(`allmail worker forwarding|retention`), and the one-shot `allmail init`; they
share PostgreSQL and Redis and talk HTTP.

| Component | State | Operations | What is hard |
| --- | --- | --- | --- |
| Forwarding worker (`core/internal/jobs/forwarding*.go`) | rows of `mailbox_forward_jobs` (status, attempts, `next_attempt_at`, `claim_token`, `lease_expires_at`), `portal_state` of messages, an advisory lock session, the claims of the running batch | claim, load, send, mark skipped/failed/sent, release; requeue by an administrator | leases that expire under live workers, lost answers after a commit, retries of a mail that was already sent, settings that change between attempts |
| Worker runtime (`core/internal/jobs/runner.go`, `core/internal/doctor`) | the supervisor's loop, timer, active run, result channel, heartbeat file | start, finish, cancel, health check, heartbeat, shutdown | select races between signal, health tick, timer and result; a run that outlives the shutdown timeout |
| Log retention (`core/internal/jobs/retention.go`) | `api_logs`, a transaction-scoped advisory lock | bounded batches of deletes | two cleaners at once, a batch limit, a failed batch |
| Ingress (`cloudflare/workers/allmail-edge`, `core/internal/businessapi/ingress_*.go`) | Redis replay reservations, `inbound_messages`, forward jobs, the edge worker's spooled message | sign, post, reserve, store, release | retried and duplicated deliveries, failures between reservation and commit, settings read outside the transaction |
| Outbound mail (`send_handlers.go`, `send_store.go`, `core/internal/provider`) | `outbound_messages` rows PENDING, SENT, FAILED | create, send, complete, delete | a crash or a deletion between the send and its record |
| Mailbox and domain management (`domain_*.go`, `mailbox_*.go`, `forwarding_job_*.go`) | domains, mailboxes, aliases, memberships, messages, jobs | create, update, delete, requeue, cursor listing | cascades over rows a worker holds, soft deletes |
| API keys (`api_key_*.go`) | keys, permissions, allocation rows, usage counters | authenticate, rate limit, allocate, assign, release | two allocations of one account, counters and windows |
| Authentication (`auth*.go`, `login_protection.go`, `mailbox_auth*.go`, `totp.go`) | administrators, mailbox users, session versions, login counters in Redis, pending TOTP secrets | sign-in, two-factor, change of password, revocation, sign-out | a session used while it is revoked, parallel failed logins, a code used twice |
| OAuth binding (`mail_oauth_*.go`) | one-time states and results in Redis, provider configuration, account tokens | start, callback, poll, refresh | a callback delivered twice, a lost result, two refreshes of one token |
| External mail access (`mail_account_*.go`, `mail_provider_*.go`, `external_*.go`) | `email_accounts` rows and their encrypted credentials, remote mailboxes | read, send, clear, check, import, export | several providers with fall-backs, read-modify-write of account rows |
| Initialisation (`core/internal/{initialize,migrate,schema,secretstate}`) | schema version tables, the secret file and its lock, the bootstrap administrator | preflight, migrate, create roles, import, persist secrets | a crash between two steps, two runs at once, rollback of a partly written state |
| Gateway (`core/internal/httpapi`, `routeownership`, `readiness`) | the route manifest, in-memory counters | route, proxy, readiness | little state; concurrency of counters |
| Web console (`web`) | the hooks of each page; the request runtime's cache, pending table, epoch and aborts; two identity stores, two cookies, the route | load, filter, tick, open and close dialogs, write, sign in and out, import | answers in any order, closures that see an older state, spinners of overtaken requests, an identity that changes under a request |
| Gmail helper (`gmail_oauth`), CLI and scripts (`bin`, `scripts`) | a local token file | one-shot commands | outside the running system |

## Layout

| Module | Lines of the system | Role |
| --- | --- | --- |
| `ForwardingLifecycle` | what an administrator sees of a forwarding job | abstract specification |
| `ForwardingJobs` | `jobs/forwarding.go`, `jobs/forwarding_store.go`, requeue, domain deletion, the provider behind its idempotency key | the queue; implements `ForwardingLifecycle` (`Lifecycle`, `ImplementsLifecycle`) |
| `ForwardingJobs_proofs` | | the inductive invariant of `ForwardingJobs` and six theorems; the reach of a lease while deadlines are kept; every way a row may change, two action properties and the refinement of `ForwardingLifecycle` |
| `WorkerRuntime` | `jobs/runner.go`, `doctor/doctor.go` | the supervisor both workers live in, and the doctor that judges it |
| `WorkerRuntime_proofs` | | its inductive invariant and five theorems |
| `Ingress` | the Email Worker's `index.ts`, `email.ts`, `ingress.ts`; `ingress_handler.go`, `ingress_store.go`, the reservation of `redis_rate_limit.go` | receiving mail |
| `Ingress_proofs` | | its inductive invariant and six theorems |
| `Initialization` | `initialize/*.go`, `secretstate.go`, `schema.go`, `migrate.go`, the change of the bootstrap password in `auth_handlers.go` | `allmail init` beside an API |
| `Initialization_proofs` | | its inductive invariant and five theorems |
| `Allocation` | `AllocateEmail`, `ResetEmailAllocations`, `UpdateAssignedEmails`, `AllocateDomainMailbox` | allocation by API keys |
| `OutboundSend` | `send_handlers.go`, `send_store.go`, the sending half of `mailbox_portal_*.go`, `provider/resend.go` | mail sent by hand |
| `BusinessApi` | | the two kinds of concurrent requests above in one machine |
| `BusinessApi_proofs` | | the inductive invariants of both, and seven theorems |
| `ConsoleApi` | `web/src/api/*.ts` | the table of the console's endpoints: how long each answer is cached, what each write drops |
| `RequestRuntime` | `web/src/api/core.ts` | the request runtime over that table |
| `RequestRuntime_proofs` | | its inductive invariant and four theorems |
| `ConsolePage` | React hooks, `requestData` | what pages share: state, continuations that wait, answers in any order |
| `ListPages`, `DomainsPage`, `MailboxesPage`, `ApiKeysPage` | the pages of these names under `web/src/pages` (`ListPages`: forwarding jobs, domain messages, operation logs, administrators, portal users, sending configurations) | one machine per page |
| `EmailsPage`, `EmailAccount`, `MailDialog`, `ImportWorkflow` | `emails/index.tsx`, `emails/ImportWorkflow.tsx`, `emails/importPreview.ts` | the table of external mailboxes and its dialogs |
| `PortalPages` | `mail-portal/*` | inbox, settings and overview of a mailbox user |
| `ConsoleSession` | `App.tsx`, sign-in pages, shells, settings, both stores; `auth*.go` and `mailbox_auth*.go` as far as versions and cookies go | the way in and out |
| `Console` | | composes the pages and states their properties |
| `Console_proofs` | | the inductive invariants of four pages, and four theorems; what each call owes to the spinners of its page, followed on nine of the pages |
| `ConsoleSpinners_proofs` | | the same on the other eight, and the theorem that nothing spins for ever |
| `MC*` | | symmetry sets and the definitions that give constants their values |

Every module has the same layout: constants with named assumptions, variables
with the state of the code they stand for, `Init`, one action per operation,
`Next`, the specifications, a type invariant (in the proof module where only the
proofs use it), then the properties with the line of code
or documentation they are about. A definition marked *Mutant* is a plausible bug
of the definition that follows it; `PROJECT.json` pairs each property with one
that TLC finds it violated under. No run uses a mutant.

## How the models correspond to the code

### Forwarding queue

`job` is the table (`NONE` before the message arrived, `ERASED` after its domain
was deleted), `run[w]` the volatile state of a process: its claim token, what
remains of its claims with the previous status of each, the job loaded, the
attempt count `Load` returned, and what `process` decided. Instants are relative
to now (`next`, `lease` count down, `age` counts up from the `now` a run began
with), so the state space is finite without a bound on time.

- `Claim` is the one `UPDATE ... FROM claimable`. It takes every due row or a full
  batch; which rows a full batch takes is left open (the code orders them). With a
  fault the rows are claimed and the answer is lost.
- The claim's clock is the `now` of `runOnce`, taken right before the statement;
  the model has them at one instant.
- `Load` reads row and settings in one query and does what `process` does up to
  its first effect. The settings are one value per job (`route`): blocked,
  changed, sealed (a key that does not decrypt), or the profile the request body
  is built from; they change at any time.
- The provider (external) takes a request when it likes, or loses it. The first
  body it accepts under an idempotency key is the mail; a retry with another body
  is refused (409), one with the same body is answered with the first result.
- `Mark` is `MarkSkipped`, `MarkFailed` and `MarkSent` with `requireClaim`: the
  guarded write, a claim that was lost, and a commit whose answer is lost.
- `Release` runs under a context of its own (five seconds), so `Prompt` gives it
  `Grace` beyond the run's deadline.
- `Stop`, `Crash`, `LoseLock` are the ways a process and its owner lock come
  apart. `EraseJob` is guarded by blocked settings since `DeleteDomain` requires
  the mailboxes to be gone.

`Spec` makes no assumption about time: a lease may run out under a live worker,
and the token fence alone must keep the results right. `TimedSpec` lets time pass
only while every run is within its deadline (Go's contexts cancel its calls), and
shows what the lease is for.

### Worker runtime

One process after another, in a container where they share a pid and a
heartbeat file. `loop` is where `runWorker` is (its select, a health check,
waiting for an active run before it quits); `run` is the goroutine, which may
ignore its context (a fault), and whose start may fail to be published (another).
Each case of the select is an action, in any order when several are ready. `Prompt`
lets time pass only when the loop has nothing ready to do, except in a health check and
while it waits for the run, which have their own limits, and in the closes that
`RunForwarding` defers, which have none. `CloseStore` is the first of them: `pgxpool`
waits for the connections in use, so for a run that was given up and still holds one it
may wait for ever. `Exit` is the second, `ownerLock.Close` under a background context: on
a broken connection it ends when TCP gives up. Until then the process is there, and so
is its owner lock. `Doctor` is the verdict of `doctor.go` on the file.
`lastRun` and `missed` are history variables, which no action reads.

The configuration checks that the doctor waits for two heartbeats
(`MaxAgeAssumption`). What `DoctorIsRight` needs beyond it, and the defaults of both
workers keep, is not validated: a health check shorter than a heartbeat and within the
doctor's skew (`HealthAssumption`; 5 seconds, 15 and 5). Nothing is assumed of the order of the run
limit and the bound on the file's age, which differs between the workers (forwarding: 120
and 90 seconds, retention: 60 and 90): a run whose start was not published is found by
the file's age alone, so `OverdueRunIsReported` speaks of a run past both.

### Ingress

An attempt is one run of the Email Worker and the request it makes; the request
lives on when the worker gives up. Mails that share a delivery key are one mail.
The worker writes the raw object under that key, posts, and compensates after
the answer. The handler reserves the key (SET NX, a lost answer included),
resolves endpoint, domain and mailbox outside the transaction, stores message
and job in one transaction (a lost answer included), and frees its reservation
if it failed; it may die anywhere. Reservations expire at any time: no bound on
the time of a request is assumed. Signature and payload validation, which end a
request before it changes anything, are the `refused` answer together with a
disabled endpoint.

### Initialisation

Each write of `allmail init` is a step, and the run may end before any of them:
the master file, the staged credential, the credential on the API's volume, each
migration, the role passwords, the URL files, the import, the credential file,
the administrator, the exported key, the removal of the legacy bundle. Files are
replaced atomically (temporary file and rename), so a write is one step.
`ENCRYPTION_KEY` stands for `JWT_SECRET` as well, one role password for the
three (they are resolved and written alike), and an administrator for a password
and whether it must be changed; the username is left out. The layout is that of
the Compose files, where the API sees the bootstrap credential on a volume of its
own. Beside the run an API may be up with the key and URL it has loaded: it
encrypts, changes the administrator's password and removes the credential file,
in two steps as the code does.

What the operator gives is not trusted to agree with anything. A key that only the
environment gave is not persisted (`Master`), so the next run has nothing to compare
another with; `used` remembers the keys that runs resolved, and `KeyIsSettled` says that
one is persisted or that they were all the same. `Staged` lays the environment's
`ADMIN_PASSWORD` over a bundle's; `overlaid` remembers which it replaced. Both are history
variables, which no action reads.

### Allocation

Requests are transactions over `email_usage` (or `domain_mailbox_usage`) and row
locks. PostgreSQL's READ COMMITTED is modelled as far as the code leans on it and
as the module's header says: a statement's snapshot, `FOR UPDATE SKIP LOCKED`
that keeps the locks it took before one that fails (the domain's row is locked
with the mailbox's), the recheck of a row's own columns when it is locked, waits
for an uncommitted insert or delete of the same unique key and for the row a
foreign key names, and deadlock detection. That one transaction of a cycle is aborted is PostgreSQL's doing
(`AbortDeadlocked`, external): `SomeoneMoves` says that nothing stays blocked, not that the
cycle of two updates in map order does not form. The key's scope, with groups, batch
tags and selectors folded into it, is drawn for each request since an
administrator may change it at any time. A statement that only deletes takes its
row locks in one step. `UpdateAssignedEmails` has no counterpart for domain
mailboxes: `Pools` draws whether the pool is one of accounts (no domain) or of
mailboxes, and `Begin` offers the update to accounts only. `avoid` and `kept`
serve the properties: what earlier answers to the same key had given, and
whether a release by somebody else overtook the request.

### Outbound mail

A request is one run of `deliverOutboundMessage` with what its caller loads first:
the configuration and, for a portal user, the rights. Rights, configuration and
domain change at any time, so that what was loaded may be stale when the row is
inserted: the insert looks again at what a portal user may do, and at no more than
its foreign keys for an administrator. The request's context ends with its caller or
its timeout, and cuts short every call but the last: the outcome is written under
`context.WithoutCancel`. A call that is cut short may or may not have had its effect.
The provider is external and takes a mail when it likes while the request is under
way. Rows are deleted singly or with the domain, at any status. A crash takes every
handler; nothing looks at their rows again.

### The business API

`BusinessApi` lets a behaviour be one of allocation or one of sending: the two share
no table, so that their interleavings add nothing.

### Request runtime of the console

A flight is one GET on its way, an attempt one write. `cache`, `pending` and the
epoch are those of `core.ts`; the epoch appears as a flag of each flight (`alive`:
nothing has been reset since it left), since the code only ever compares it with
the captured one. `saw` records which writes the server had committed when it
served a flight, and serves the properties. The two resets are the code's: the
identity in a store changed, and everything goes; or a write was answered that
names prefixes, and the entries they match go from the cache, the epoch ends and
nothing in flight is shared any more. `ConsoleApi` is
the table of endpoints, with paths as sequences of segments, so that a prefix
drops exactly what the code's `startsWith` drops; the run takes endpoints of it.

### Pages of the console

A page is a record of its hooks (`ui`) and the sequence of its requests that
wait (`calls`). An answer to any of them lands as success or failure, with
whatever the server may answer, and runs its continuation to the next `await`. A
call carries what its handler's closure had captured; a continuation that reads
a ref or a functional update reads `ui`. Each behaviour is one page from its mount
on, because a page keeps nothing when it is left. The file of the external
mailboxes is four machines, a table and three dialogs, which meet only in the
reload of the list. Text, layout, validation messages and the options of selects
are left out; where a form decides what is sent, it is modelled by that.

`ConsoleSession` has both sides of the console in one tab: guards and redirects,
sign-in with and without a second factor, enrolment, a change of password,
sign-out, the session check of the shells, and the response interceptor. The API
behind it is each account's session version and the cookie it last set.

## The runs

All passing runs together fire every action. Bounds are constants of the `.cfg`
files; `MaxFaults` counts the failed calls, lost answers, crashes and lost
connections of a behaviour.

| Run | Question | Bounds, and why they are enough |
| --- | --- | --- |
| `forwarding_race` | What does the token fence promise whatever the timing? (`TypeOK`, `OneHolder`, `LoadedCountIsCurrent`, `SentWasAccepted`, `HiddenWhenMoved`, `SettledIsFinal`, `ClaimIsExclusive`) | two processes and one job are what a race needs; three tokens leave each process a stale one while the row has another; two profiles let a retry carry another body; two faults make a lost lock and a lost answer |
| `forwarding_batch` | Is any job of a batch stranded, and does the queue implement its lifecycle? (`OpenJobsStayClaimable`, `ImplementsLifecycle`) | two jobs, one per mode, in one batch: settled, current and remaining claims at once |
| `forwarding_settles` | Does the lease cover a run that keeps its deadlines, and is every job settled in the end? (`LiveClaimsHold`, `EveryJobSettles`) | lease = run timeout + grace, the least that the configuration check accepts; three attempts, the real doubling of the backoff up to its cap; two faults; no symmetry |
| `worker_runtime` | Is the doctor right, does the supervisor return in time, and does it run again after every end of a run? (`DoctorIsRight`, `OverdueRunIsReported`, `OwnFileVouches`, `QuitsInTime`, `LateStartsAreBounded`, `RunsRecur`) | every duration differs where the order of two timers matters, and they are ordered as the retention worker's: a pause longer than the file may be old, a run limit shorter than it; three faults: a stuck run, a failed write and a lost connection together |
| `ingress_store` | Is a mail stored once, is a reservation freed by its holder only, and what takes a raw object away? (`StoredOnce`, `AcceptedIsStored`, `ReservationHasReason`, `ReleasesOnlyOwn`, `RawObjectGoesByRefusal`) | three attempts: one at work, one whose reservation expired, one that comes anew; two faults |
| `ingress_replay`, `ingress_compensation` | violated: `ReplayedIsStored`, `RawObjectIsKept` | two attempts |
| `init_kept` | What do two initializers and an API do to nothing, to an older installation (files combined or split) and to a restored database, and does trying again lead to a complete installation? (`ExportedKeyOpensAll`, `UrlsOpenDatabase`, `UnusedCredentialIsKept`, `ExportedKeyIsStable`, `RetriesComplete`) | two runs, two values of everything generated, two kills, an environment that changes between runs: no key, the old one or another, no password or another than the old bundle's (the bundle's own does what none does); no symmetry |
| `init_overlay` | violated: `BootstrapCredentialIsMigrated` | one run, one bundle, one other password |
| `api_requests` | Does the next call get another mailbox, is what was saved what is assigned, does every request end; is a message PENDING for a reason, and does the history account for every mail and every answer? (`NextCallDiffers`, `SavedIsOccupied`, `SomeoneMoves`, `PendingHasReason`, `MailIsAccounted`) | three requests (an answer, a release and a call; or one answered and two at once), two accounts or two mailboxes of one domain, one key: usage rows of another key are other rows; an administrator's mail and a portal user's, two faults and one change of rights between load and insert |
| `console_requests` | Is what a page gets from the cache or shares in flight its own, fresh, and alive? (`AnswersShowWrites`, `AnswersAreOwn`, `SharedIsInFlight`) | three endpoints, of which two writes drop different ones; two GETs in flight, of which one can be overtaken; two writes; two identities |
| `console_pages` | Does any page keep a spinner, show an older answer or another mail, import a mailbox twice or bring a session back? (`QuietIsIdle`, `LatestShown`, `MailOfClick`, `MailboxOnce`, `StoreHasCookie`) | two requests of the user in flight besides those that continuations add: an answer overtakes another, and both meet a third in a reload; one row, which is edited, deleted and filtered away (two requests about two rows differ from two about one only where the code compares ids, which the page's state keeps); an unset and a set filter; three lines of import, for a mailbox named three times |

Deadlock is checked in `worker_runtime`. The other systems really stop: all jobs
erased and both processes down for want of tokens, all attempts and requests
over, all versions of an account used up.

`SomeoneMoves` is how `api_requests` says that every request ends: a request under
way takes a bounded number of steps, so if one of those under way can always go
on, all of them end.

### Fairness

- `forwarding_settles`: time passes (`WF(Prompt /\ Tick)`); Docker restarts a
  worker that stopped (`WF(Start)`); a process goes on with its run (`WF(Step)`:
  a goroutine is scheduled, and every call it makes has a time-out). Nothing is
  assumed of the provider, of the administrator, or of the settings; faults are
  bounded, which says that they do not go on for ever. `EveryJobSettles` excepts a
  job that an administrator requeues for ever.
- `worker_runtime`: the loop serves what is ready, time passes, and a run that
  obeys its context returns. The close of the pool ends unless a run that was given up
  holds a connection; that of the owner lock ends, if only when TCP gives up on it.
- `init_kept`: the operator runs the initializer again, and a run that is not
  killed goes on (`WF(Step)` of each run). `RetriesComplete` excepts behaviours in
  which it is the operator's turn again and again: keys that contradict each other,
  none beside a database, one that does not open it.

## Disagreements with the documentation

Three runs are expected to find their property violated; each property states
what a document or a test says.

| Run | Says | Does |
| --- | --- | --- |
| `ingress_replay` | `index.test.ts:84`: a replay is an accepted duplicate | a reservation is not yet a stored mail (`index.ts:39`): when its holder fails, the mail is lost |
| `ingress_compensation` | `CLOUDFLARE-DEPLOY.md:175`: the complete message remains in R2 | a later refusal deletes the object that the stored message names (`index.ts:89`) |
| `init_overlay` | `SECURITY-BOUNDARIES.md:27`: the initializer migrates an unconsumed bootstrap credential, rejects conflicts | another `ADMIN_PASSWORD` of the environment is laid over the bundle's (`secretstate.go:209`), matches no administrator and is removed (`bootstrap_admin.go:84`), and the bundle after it: the only copy of the password is lost |

The models have more behaviours that a document rules out or a user would not
expect. No run is kept
for them; the properties of the passing runs are stated, or their constants
chosen, so that they say what does hold.

- A process whose owner lock was lost claims jobs until its next health tick
  (`runner.go:289`), although an archived plan says that it must not.
  `LateStartsAreBounded`, `OneHolder` and `LiveClaimsHold` say why it is harmless.
- A key that only the environment gave is not persisted, so another one on a later
  run is no conflict (`secretstate.go:131`). It is refused if it does not open what is
  encrypted by then, and exported otherwise; what a live API or the import encrypts with
  the earlier key between that check and the export nobody can read afterwards.
  `docs/advanced-runtime.md:60` has the initializer keep "persisted secret values", which
  it does: `ExportedKeyIsStable` says that the exported key changes in this case only, and
  `ExportedKeyOpensAll` that everything stays readable in all others (`KeyIsSettled`). The
  run gives two keys, so both sides of the case are in it.
- No line that the server rejects in an import is among those the page offers to edit
  and send again: the server names it by its quoted text
  (`mail_account_import_export.go:93`), the page looks for a number
  (`importPreview.ts:343`; `importPreview.test.ts:81` tests it with numbers). In
  `ImportWorkflow`, `Failure` of such a `Complaint` has no line.
- Two allocations of one key at once may be answered with the same account: the
  second one's snapshot is older than the commit of the first, and its insert does
  nothing (`api_key_store.go:651`). `NextCallDiffers`, and the theorem
  `LaterCallsDiffer`, are about calls that follow an answer.
- An allocation of a mailbox locks its domain's row too, so a concurrent one finds
  the whole domain locked and is refused as if it were exhausted
  (`domain_store.go:68`).
- A process that dies between the row of an outgoing message and its outcome leaves
  the row PENDING for ever, whether or not the mail left (`send_handlers.go:230`):
  nothing sweeps such rows. So does a database call that fails, and a caller that hangs
  up during the insert, when it commits all the same (`send_handlers.go:230`): the caller is
  refused, no mail is sent, and the row stays PENDING. `PendingHasReason` says that these
  are all: once the send has begun, no caller that leaves strands its row.
- A row of an administrator's mail is inserted although the sending configuration
  loaded for it has been deleted or the mailbox disabled since (`send_store.go:271`);
  the insert looks again at a portal user's rights only. `MailIsAccounted` claims
  entitlement for portal users.
- A batch of the external mailboxes works on what is ticked when it is confirmed,
  not when its dialog was opened (`emails/index.tsx:1589`).
- Details that arrive late fill the form of a dialog that was opened for another
  row since (`emails/index.tsx:2160`, `mailbox-users/index.tsx:148`), and the answer
  to a late delete replaces the list of another folder (`emails/index.tsx:3273`).

## What is proved

The proof modules are checked by TLAPS. Their theorems hold for every value of
the constants that satisfies the named assumptions of the component's module; TLC
evaluates these assumptions in every run.

### The forwarding queue

`ForwardingJobs_proofs`, for all jobs, processes, tokens, profiles, attempt limits,
backoffs, batch sizes, leases and fault bounds:

- `TypeCorrect`: `Spec => []TypeOK`; its content is that attempts never pass
  `MaxAttempts`.
- `Fencing`: `Spec => []OneHolder`.
- `NoStrandedJob`: `Spec => []OpenJobsStayClaimable`.
- `CountIsCurrent`: `Spec => []LoadedCountIsCurrent`.
- `SentIsReal`: `Spec => []SentWasAccepted`.
- `HiddenIsMoved`: `Spec => []HiddenWhenMoved`.

The argument is one inductive invariant, `IInv`. None of these facts is inductive
alone. That a settled attempt stays within the limit needs
`OpenJobsStayClaimable` (an open job has an attempt left) and, so that the choice
between a retry and the end is made by the right count, `LoadedCountIsCurrent`.
That holds only because at most one process has the row's token, which takes
`TokensDistinct` (a claim draws a token no row and no process has) and `RowShape`
(a row has a token exactly while it is RUNNING, so a requeued or settled row is
out of reach of every late writer). `RunShape` ties a process's token to its
claims and its loaded job to them, `ResultsAreReal` carries the provider's answer
to the write that records it, and `HiddenWhenMoved` needs to know that nothing
takes SENT back. `NextInv` has one lemma per action (`ClaimInv`, `LoadInv`,
`AnswerInv`, `MarkInv`, `ReleaseInv`, `TickInv`, ...).

A second part of the module adds what a step may do to a row (`RowStep`,
`RowSteps`), and two more invariants: a lease counts down on RUNNING rows only
(`LeaseShape`), and the provider is asked only for jobs that exist (`WireShape`).

- `SettledStays`: `Spec => SettledIsFinal`.
- `ClaimsAreExclusive`: `Spec => ClaimIsExclusive`.
- `Refinement`: `Spec => ImplementsLifecycle`. Each action maps to one of the
  lifecycle, or to none: `EnvironmentMoves`, `MarkMoves`, `ProcessMoves`,
  `ProviderMoves`, `TickMoves`. A retry is a lifecycle retry because the count the
  worker read is the row's; a SENT job is in `mailed` because of `ResultsAreReal`.

`Spec` assumes nothing of time, so these hold for `TimedSpec` too.

One more theorem of the module is about `TimedSpec`:

- `LiveClaims`: `TimedSpec => []LiveClaimsHold`, if `Grace` is not 0. It is the sum
  of the shutdown timeout and the heartbeat interval, which the configuration
  requires to be positive (`config.go:178`). The invariant is `LeasesCover`: what is
  left of the lease of a claim and the age of its run make up the whole lease, so
  that until its deadline nobody else finds the row due.

### Receiving mail

`Ingress_proofs`, for all mails, attempts, mailboxes and numbers of faults:
`TypeCorrect`, `MailIsStoredOnce` (`StoredOnce`), `AcceptedMailIsStored`
(`AcceptedIsStored`), `NoIdleReservation` (`ReservationHasReason`),
`OnlyRefusalsCompensate` (`RawObjectGoesByRefusal`) and `OnlyOwnIsReleased`
(`ReleasesOnlyOwn`). The invariant adds to these what an attempt has done at each
stage (`Stages`: above all that an answer is final once the handler is done, since
a handler that dies may replace an answer it had not sent yet), that a row names a
raw object its own attempt wrote (`RowsNameTheirOwn`), and that an object that was
written and is gone was taken by a refused attempt (`GoneByRefusal`).

### The worker runtime

`WorkerRuntime_proofs`, for all durations that keep the assumptions, any number of
faults and any run: `NoForeignVoucher` (`OwnFileVouches`), `ShutdownIsBounded`
(`QuitsInTime`), `NoLateStart` (`LateStartsAreBounded`), `OverdueRunsAreReported`
(`OverdueRunIsReported`) and `DoctorTellsTheTruth` (`DoctorIsRight`). What is bounded at
shutdown is the supervisor's return; the end of the process is not, and the second half of
`QuitsInTime` follows from the file: nothing is published any more, so it grows old
(`FileGrowsOld`). The bounds on
the clocks are not inductive alone: how long ago the connection broke is bounded by
where the loop is and by the phase of its tickers (`LossIsFound`), and that by
`CheckIsInPhase`, since a health check starts with the tick and ends before the next.
`SignalIsServed` is its counterpart for the signal. The doctor is right because the
snapshot tells the age of the run and the outcome of the last (`SnapshotIsTrue`, for
which `CancelHasSignal` rules out a "canceled" run without a signal), the file tells
what the snapshot does or is older than the run (`FileIsTrue`), and a run that obeys
is never much past its deadline, even when its result waits for a health check
(`RunIsInTime`).

### Initialisation

`Initialization_proofs`, for any number of runs, kills and generated values:

- `UrlsOpen`: `Spec => []UrlsOpenDatabase`.
- `KeyOpens`: `Spec => []ExportedKeyOpensAll`, and `KeyIsStable`:
  `Spec => ExportedKeyIsStable`.
- `CredentialIsKept`: `Spec => []UnusedCredentialIsKept`.
- `TypeCorrect`: `Spec => []TypeOK`.

None of them assumes anything of what the operator gives: the two cases in which the
code gives way to the environment are in the properties (`KeyIsSettled`, `overlaid`). At
most one run is at work (`Alone`, the state lock), so the invariant speaks of what the dead
left behind. `SecretAgreed`: the master file has the role password before the roles
do, and the roles before the URL files. `KeyAgreed`: every key in anybody's hands, the
runs', the export's, the API's, is the persisted one or, where none is persisted,
one that the operator has given to a run; and whoever has one past the migration made
sure that there is a database, so that no other is ever generated. So a run that
generates a key finds no other at work, and any other run can only unsettle the key.
`KeyOpensAll` then carries the check of the ciphers past an API that goes on encrypting.
`CredentialKept` says in which file the password of a pending administrator is, place by
place of the run: in the bundle until it is staged, staged until it is moved, and on the API's volume from then on,
unless another was laid over it.

### Allocation

Of the allocating half of `BusinessApi_proofs`, for all keys, accounts, scopes and
numbers of requests:

- `LaterCallsDiffer`: `PoolSpec => []NextCallDiffers`, about an allocation whose statement
  begins after another was answered; two that overlap may share a member.
- `SavedIsWritten`: `PoolSpec => []SavedIsOccupied`.
- `PoolTypeCorrect`: `PoolSpec => []PoolTypeOK`.
- `PartsRun`: `ApiSpec => Spec /\ PoolSpec`, which carries the theorems of both halves
  to the machine the run checks.

An allocation is safe because what it may still choose (`left`) never meets what was
given to its key before (`avoid`), and because what it gave is in the table from its
commit on (`AllocationSound`). An update is exact because, at every place between
its reading and its commit, what it has inserted, is inserting and has left adds up to
what was missing, and what it removed is what was too much (`UpdateSound`); both hold
as long as no other commit touches the key, which `kept` records.

### Outbound mail

The sending half of `BusinessApi_proofs`, for all sets of requests and numbers of
faults and changes: `SendTypeCorrect`, `NoStrandedRow` (`PendingHasReason`) and
`HistoryIsTrue` (`MailIsAccounted`). The invariant adds where a row stands at each
place of its handler (`RowFollowsHandler`), and that a message id is the provider's
word for a mail it took (`IdIsReal`).

### The console's request runtime

`RequestRuntime_proofs`, for all endpoints, identities and numbers of requests:
`TypeCorrect`, `SharedIsAlive` (`SharedIsInFlight`), `NoForeignAnswer`
(`AnswersAreOwn`) and `NoStaleAnswer` (`AnswersShowWrites`). What the cache and the
pending table hold is right because it comes from a flight of the current epoch:
such a flight was asked by the identity in the store (`LiveIsOwn`) and, once
served, shows every write whose answer began an epoch (`LiveShowsWrites`);
`CacheIsOwn` and `CacheShowsWrites` say the same of what such a flight left behind.

### The console's pages

`Console_proofs` and `ConsoleSpinners_proofs`, for any number of requests that wait, any
rows, filters, lines and accounts:

- `LatestAnswerIsShown`: `Spec => []LatestShown`.
- `ClickedMailIsShown`: `Spec => []MailOfClick`.
- `NobodyComesBack`: `Spec => []StoreHasCookie`.
- `MailboxIsImportedOnce`: `Spec => []MailboxOnce`.
- `NothingSpinsForEver`: `Spec => []QuietIsIdle`.

Each of the first four is about one page, so each has an invariant of that page. All of them
say something of every request that waits, wherever it stands: the first section of
the module turns the operations on the sequence of requests (`Joined`, `Appended`,
`Dropped`, `Mapped`) into what they do to the set of them.

- The table (`EmailsIInv`): a question that is not late is the one asked last
  (`EmailInTime`); and one such waits, or the last answer was an error, or the rows
  are its answer. The second half is what a write that asks again with what it was
  clicked under could break: it asks, so the question it asks is the last one.
- The mail (`MailsIInv`): an answer that is not late is about the mail that is opened.
- The session (`SessionIInv`): a bootstrap whose page is still there is the one shown,
  and the cookie it went with has not been dropped since (`Bootstraps`): whoever signs
  out, or is found to be signed out, leaves the page, and the answer to a check of a
  page that was left is ignored.
- The import (`ImportIInv`): what a waiting import asks for was chosen at its click, and
  of two lines that pass, the later would have been a duplicate (`ReadyDistinct`). No
  invariant of the lines is needed, wherever they came from.

`QuietIsIdle` is about all of the pages, and only says what holds when nothing waits,
which no step preserves. Its invariant says what holds in between. `Ends(p, c)` is what a
call `c` of page `p` still has to end: the spinners its `finally` takes off, the row whose
button turns until it is answered, and those that the requests of its continuation will
end (the list that a deletion asks for ends the deletion's row). `Kept(p)` is that every
spinner and every row that turns (`Spinning`) is owed by some call that waits (`Owed`).
For each page there are four kinds of steps to follow: a handler that turns a spinner asks
for what ends it (`PlainSpins` and its like); an answer that takes a spinner off owes no
more than that, and whatever else it owed is taken over by what it asks; a question that
overtakes others of its kind (`Numbered`: they are late and end nothing) owes itself what
they did; and what is closed or left takes its spinners with it. Four machines need more:

- the forwarding jobs (`JobsKept`): a requeue that waits remembers the row it was clicked on,
  which is not null, so that the reload or the detail it asks for owes its button (`JobForm`);
- the external mailboxes (`EmailsKept`): the tools of a batch and the rows they work on
  have names apart (`RowsAssumption`), and a question keeps the tool that asked it (`EmailForm`);
- the inbox (`InboxKept`): its list is not asked for until a mailbox is selected, so until
  then its spinner, which turns from the mount on, is owed by nobody;
- the tab (`SessionKept`): only what the page that is shown asked for can end its
  spinners, so the argument takes `SessionIInv` as well.

`PageKept` puts the pages together; TLC checked `Kept(page)` on the instance of
`console_pages` before it was proved.

The constants of `Console` have six assumptions: no filter is a filter (`FiltersAssumption`), no cookie is a null (`NoneAssumption`), the
accounts of an instance have the columns that are read (`AccountsAssumption`), only the
pages that exist are mounted (`PagesAssumption`), no row's identifier is the name of a tool
(`RowsAssumption`), and null is none of the values that a field which may be null has
otherwise (`NullAssumption`). `Merged` and `Rest` in `ConsolePage` write out `@@` of module
TLC and `RemoveAt` of `SequencesExt`: the prover knows no definition of the first, and each
of the instances of a page would carry a copy of everything the second comes with.

### Only model-checked

- Out of the prover's reach: the liveness properties (`EveryJobSettles`, `RunsRecur`,
  `RetriesComplete`), and `SomeoneMoves`, which is about ENABLED.

## What is not modelled, and why

- The login lockout in Redis, OAuth states in the core,
  rows of external accounts, log retention, the rate limits in Redis: see the plan.
  Their hazards are in `PROJECT.json`. The pages that call them are modelled.
- Domain, mailbox and group management in the core: single-transaction CRUD. Its
  effects on the other components are actions of theirs.
- Of the console: the dashboard and the API documentation (charts and text, one
  load each), provider constants, theme, language, and the options of selects.
- Provider clients, the gateway, configuration, helpers and scripts: protocol I/O
  or pure validation, with no state to get wrong.
- Within the modelled components: deletion of messages, mailboxes and domains
  under an ingress request; creation, edit and deletion of keys and accounts under
  an allocation; installations without an isolated bootstrap file; two hosts with
  two state directories; more than one administrator; two tabs of the console.

## Plan

Modules in the order of what matters most to a user's mail and to an operator.

1. `ForwardingJobs`, `ForwardingLifecycle` and their proofs: done.
2. `WorkerRuntime`: done.
3. `Ingress` and its proofs: done. Its `Store` creates the job that
   `ForwardingJobs!CreateJob` starts from; both are one transaction with the message.
4. `Initialization`, `Allocation` and their proofs: done.
5. The console, page by page, its request runtime and its session, with proofs: done.
6. `OutboundSend` and its proofs, `WorkerRuntime_proofs`: done.
7. The lockout (`login_protection.go`), counted in parallel by separate calls of
   Redis.
8. `OAuthBinding` (`mail_oauth_*.go`): a state used once, a result polled for,
   refreshes that race.
9. `LogRetention` (`retention.go`), and `AccountState` (`mail_account_state.go`):
   batches under a lock; read-modify-write of shared rows.

Every invariant and action property that a run checks is proved, `SomeoneMoves` excepted.
Theorems still worth proving come with the modules above.
