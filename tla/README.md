# Verification of the Go API starter

TLA+ models of this repository's account, session, profile, request and process
logic, the TLC runs that check them on small instances, and TLAPS proofs of their
safety for every instance. `PROJECT.json` lists components, runs, findings,
hazards, theorems and, per definition, the source lines it translates.

## 1. The system

A Fiber HTTP server over PostgreSQL (pgx pool, sqlc statements) with an optional
Redis stream for background jobs.

| Component | State it keeps | Operations | Talks to |
| :-- | :-- | :-- | :-- |
| Schema and statements (`db/sqitch`, `db/sqlc`) | tables `users`, `user_tokens`; UNIQUE e-mail and tokens; foreign key with ON DELETE CASCADE | one SQL statement each; no transactions (`WithTx` is never called) | every service |
| Session middleware (`middlewares/auth.go`) | none of its own; a goroutine per expired token | authorise a bearer token, clean up an expired one | statements, fiber's request contexts |
| Auth service (`services/auth.go`) | none | Register, Login, Refresh, Logout, issueTokens | statements, bcrypt, crypto/rand |
| User service (`services/users.go`) | none | GetMe, UpdateMe, DeleteMe | statements, SmartExecutor |
| Last-active job (`core/jobs`) | `last_active_stream` in Redis, the client | InitRedis, enqueue, synchronous fallback | Redis, statements |
| Validation (`middlewares/validator.go`, `services/models`) | `c.Locals("body")` | defaults, normalise, validate | routes |
| Logging and errors (`middlewares/logging.go`, `core/errors.go`) | `c.Locals("_err")`, the log | ErrorResponse, SetError, the log line | every handler |
| Start-up, environment, probes (`setup`, `env`, `main.go`) | the process and its environment | SetupApp, StartApp, mode switches, `/healthz`, `/readyz` | all |
| Pool (`db/sqlc/connection_pool.go`) | pgxpool | option resolution, ping, close, acquire and release | PostgreSQL |
| Migrations, generated docs, k8s, tools, test harness | | | |

What is hard here. Every handler is a sequence of separately committed
statements, so other requests run between them; errors of several statements are
dropped; one `is_active` flag ends both the access and the refresh token; the
clean-up goroutine outlives the request whose context and buffers it uses; the
process may die between the two statements of a refresh; the job queue has a
producer and no consumer; each mode check loads `.env` again, may end the process,
and may answer differently from the one before it; all handlers share one small
pool; the status is logged before Fiber's own error handler could change it.
`PROJECT.json` lists each hazard at its line.

What makes each part correct. Store: one account per e-mail, no session without
account. Middleware: only a live token is served, for its own account, and only
expired tokens are cleaned up. Auth: a session is issued for the proven account
only; a refresh token buys one pair; ended sessions stay ended; logout ends them
all; everyone is answered. Users and jobs: deletions are final, names change on
request only, no touch is dropped and all are executed. Validation: a handler sees
its own request's body in normal form, and one mailbox is one account. Logging: the
log has the status the client got, and every 5xx its cause. Start-up: nothing is
served unprepared, outages never end a serving process, and it comes back, for good
unless clean-up goroutines keep panicking. Pool:
nobody starves and connections are returned.

## 2. Modules

| Module | Models | State |
| :-- | :-- | :-- |
| `Store` | schema and statements | `users`, `users_id_seq`, `tokens` |
| `Requests` (extends `Store`) | request slots, routes, `UserAuthMiddleware`, its goroutine, process death | `now`, `pc`, `req`, `answer`, `cleanup` and three history variables |
| `AuthService`, `UserService` (extend `Requests`) | the handlers, one action per statement | |
| `Sessions` | the abstract specification: accounts opened and closed once, pairs unused, live, ended | `accounts`, `known`, `session`, `owner` |
| `Api` | composition of the handlers, their properties, the inductive invariant, and the refinement mapping to `Sessions` | |
| `Profile` | GET/PUT/DELETE `/users/me` with SmartExecutor, JobExecutor and the Redis stream | `profiles`, `stream`, `syncMode`, `now`, `pc`, `req`, `answer` and two history variables |
| `Environment` | `env.go`: environment, `.env`, modes | `environ`, `dotenv` |
| `Pool` (extends `Environment`) | `connection_pool.go` and pgxpool | `maxConns`, `waiting`, `holding` |
| `Server` (extends `Pool`) | SetupApp, StartApp, the life of the process, its requests' mode reads and pool turns, its clean-up goroutines | `deployed`, `stage`, `client`, `logging`, `opts`, `up`, `pc` and the history variable `turned` |
| `Validation` | `ValidateBody` and the request structs, as operators | |
| `Pipeline` (extends `Validation`, `Store`) | a request through CORS, logging, authorisation, validation, handler, and back | `logging`, `pc`, `ctx`, `answer`, over `Store` |
| `MCApi`, `MCProfile`, `MCServer`, `MCPipeline` | instances for TLC | |
| `ApiProofs`, `CauseProofs`, `SessionsTheorems`, `SessionsProofs`, `ServerProofs`, `ValidationProofs`, `PipelineProofs`, `ProfileProofs` | TLAPS proofs | |

### Sessions (`Store` to `Api`, `Sessions`)

- `pc[p]` names the next database or Redis call of the handler in slot `p`;
  everything between two calls is local to the handler and belongs to the step
  before or after it. Bcrypt is part of `CheckEmail` and `CheckPassword`.
- `req[p]` is the parsed body, the bearer token and the locals (`uid` is
  `c.Locals("userID")`, `user.ID` or `tokenRecord.UserID`, whichever is set).
- A pair is one element of `Pair`: the access and the refresh token of a row are
  minted together, both UNIQUE, and never compared with each other. A bcrypt hash
  is the password it verifies; that `CompareHashAndPassword` ignores what a longer
  password has beyond 72 bytes is left out. `TooLong` are the passwords bcrypt refuses.
- `cleanup` holds the goroutines that have not run. Two with the same slot and
  token are one element, which loses nothing: the UPDATE is idempotent.
- `minted`, `delivered` and `loggedOut` are history: which pairs were issued in
  exchange for which, which ones reached a client, and which ones an answered
  logout covered. Only input guards and properties read them. Clients present
  delivered tokens or none; an unknown token behaves like none.
- `answer` is the status of the last step, so a property can speak of it.
- The refinement mapping of `Api!ImplementsSessions`: the open accounts are the
  ids in `users`, the known ones are `1..users_id_seq`; a pair is unused until it
  is in `minted`, live while `GetUserTokenByAccessToken` would return its row, ended afterwards;
  its owner is the one recorded when it was minted. Expiry is no step of the
  abstract specification, which has no clock: an expired pair counts as live until its flag goes.

### Profiles (`Profile`)

It keeps the columns of `users` that `Store` leaves out and starts behind the
middleware: the account is the one the token was mapped to, and another slot may
delete it at any later step.

### The process (`Environment`, `Pool`, `Server`)

- `stage` is the next step of `main`. Start-up is cut before every load of `.env`, the
  two plain ones (`setup.go:22`, `connection_pool.go:37`) and one per mode read, so an edit or
  an outage may come between any two of them. A mode read that only decides what is
  printed is a `ReadMode`: it still may find an invalid `BACKEND_ENV`. `opts` are
  NewDBWithOptions' locals, read after the load at :37 and used after the one at :67.
  `log.Fatal`, an unrecovered panic and a return from `main` are all `Exit`, which
  empties the memory of the process.
- `deployed` is the environment each incarnation starts with, `environ` the one it
  has after loading `.env` so and so often, `dotenv` the file, which may be edited
  at any time. `REDIS` and `POSTGRES` each stand for variables that are
  needed as a group. Variables that are set to the empty string are not modelled:
  for godotenv they are set, for `os.Getenv` they are not.
- `up` is what is reachable: PostgreSQL, Redis, port 3000.
- A slot is a request and, after the middleware found an expired token, the clean-up
  goroutine it started. Of a handler only the mode reads (`Touch`, `EnqueueLastActive`, the
  log line of a failed touch), its call of Redis and its turns in the pool remain: the
  middleware's look-up, the touch, and any number of further statements; `/readyz` is
  one turn. The goroutine takes a turn of its own (`Cleanup`) or finds its request's
  context released (`Panic`, the fault `panic` of `Requests`) and ends the process.
- `turned` is history: the slots at `EnqueueLastActive` during whose stay there an edit
  turned `BACKEND_ENV` of `.env` to test. Only `DropsNeedAnEdit` reads it.
- pgxpool hands a connection to the first waiter. This is library behaviour,
  modelled as the handlers rely on it, as is its refusal of a pool of no connections.
- `Modulus` is 2^32: `int32(maxConns)` wraps. In test mode `Listen` runs in a
  goroutine while `main` returns, so the binary exits; the tests call the app
  themselves and are not in this model.

### The request (`Validation`, `Pipeline`)

- A text is its word with the two things normalisation removes, letter case and
  surrounding blanks. `Runes` and `Bytes` give a word's length as `validate` and as
  bcrypt count it.
- A struct is a function from its fields to kind and tags, so `ValidStruct` and
  `NormalizeFields` read tags as `validator.go` does. `ApplyDefaults` is modelled
  for strings only; no struct here has a `default` tag.
- `ctx[p]` is the `fiber.Ctx`: route, parsed body, locals, status, the error the
  chain returned. `failed`, `since` and `line` are history. Tokens are
  nondeterministic here, since module `Api` follows them (`Pair` is empty): the
  middleware maps a request to any account or refuses it.

### Faults

They are constants, so that a run says exactly which ones it assumes. In
`Requests`: a statement fails (`error`), takes effect with its reply lost
(`lost`), the process dies (`crash`), the clean-up goroutine meets a released
context, whose nil `RequestCtx` makes pgxpool panic and, with nobody to recover
it, ends the process (`panic`), or its token string sees the header bytes of a
later request (`reuse`: fiber documents that strings from `c.Get` are valid only
within the handler). `panic` and `reuse` are outcomes of library code outside
this repository, modelled from how the middleware uses it; `Server` has the panic
too, always possible there. In `Profile`: XADD fails (`redis`) or loses its reply
(`redisLost`), Redis restarts empty (`flush`; `k8s/redis.yaml` has no volume). In
`Pipeline`: `error`. In `Server` outages and edits are always possible.

Each definition headed "Broken variant" is a plausible mistake in the operator
that follows it. Nothing refers to them; replacing the operator by the variant
shows that the run named in `PROJECT.json` notices.

## 3. Runs

| Run | Question | Result |
| :-- | :-- | :-- |
| `api_safety` | Do accounts and sessions stay consistent with every fault at once? | holds |
| `api_causes` | Does a session end only for its own cause, is a logout final, and is every step one of the abstract sessions? (no `error`, no `reuse`) | holds |
| `api_liveness` | Is every request answered unless its process dies, and every token noticed as expired deactivated unless restarts keep coming in between? (`lost`, `crash`, `panic`; no `error`) | holds |
| `profile` | In either mode, is no touch dropped, are deletions final and names changed on request only? (no `error`) | holds |
| `server` | While services come and go and `.env` is edited: is only a prepared process serving, does nothing end it but an invalid `BACKEND_ENV` or the panic of a clean-up goroutine, does a start-up that finds what it needs succeed, does the server serve again and again once configuration and services settle, and for good once no goroutine panics, is a touch dropped only when an edit turned the mode during its request, is no connection kept, does every slot get one? | holds |
| `pipeline` | Do bodies, accounts, statuses and log lines of concurrent requests belong together, with texts around every limit? | holds |
| `refresh_dies_with_access` | Does a refresh token live for its own TTL? | violated: cleaning up the access token ends it |
| `wrong_token_cleaned_up` | Does the goroutine deactivate the token it was started for? | violated under `reuse` |
| `double_refresh` | Is a refresh token single-use? | violated by two concurrent refreshes |
| `refresh_races_logout` | Does a logout end every session? | violated by a refresh in flight |
| `logout_ignores_error` | Is an answered logout final? | violated when the UPDATE fails |
| `jobs_never_consumed` | Are enqueued touches executed? | violated: nothing reads the stream |

The findings in `PROJECT.json` quote the comment, doc or test each violated
property states. `EndsForCause` and `LogoutIsFinal` occur twice: they hold in
`api_causes` and fail when the one fault that breaks them is added, which pins down
the cause. `RefreshIsSingleUse` and `NoSessionSurvivesLogout` fail only between requests
that overlap: `CauseProofs` proves both for one request at a time, and that even
overlapping requests buy no more pairs than there are slots; `api_safety` checks
(`ExchangedOnlyIfLive`) and `ApiProofs` proves that a refresh that arrives after the
exchange or the logout is refused.

More disagreements between code and docs or expectations were met. They can be read off one
action and have no run of their own:

- the loser of a registration race is answered 500, not 409 (`Pipeline!InsertUser`;
  `No500Alone` allows exactly this);
- `/auth/logout` ends every session of the account: `services/auth.go:147` says so
  ("deactivates all tokens for the current user"), while its API description at :150 says
  "Invalidates the current session token". The code follows the former, and so does
  `EndsForCause`: it lets a logout through any session of the account end a session.
  By :150 the other sessions would have to go on, and do not (`AuthService!Logout`);
- a token noticed as expired stays live if the clean-up's UPDATE fails (its error is
  dropped, `middlewares/auth.go:37`), or if the process dies first, be it by the
  goroutine's own panic, until it is presented again. `ExpiredTokenEnds` excepts an
  endless repetition of the latter and does not hold with the fault `error`;
- an edit of `.env` between two loads of one start-up can end it at
  `connection_pool.go:87` although the file is now complete: what was read
  at :37 is not read again after :67. `ConfiguredStartsUp` requires that no edit lies
  between what was read and what would be read now (`Untainted`); the restart repairs it;
- requests to unknown routes are logged as INFO 200 and answered 404, because the
  log line is written before Fiber's error handler runs, and CORS preflights are
  not logged (`Pipeline!Log`; `LogsTheAnswer` excludes both);
- a process deployed with `BACKEND_ENV=test` exits at once (`Server!StartApp`);
- a touch is dropped if the mode turns synchronous between SmartExecutor's and
  EnqueueLastActive's reads of it (`Server!EnqueueLastActive`); `DropsNeedAnEdit` says
  that this takes an edit of `.env` to test mode between these two reads, and a
  deployment that sets neither `BACKEND_ENV` nor `ASYNC_MODE=true`;
- the Kubernetes readiness probe asks `/healthz`, not `/readyz`, so traffic is sent
  to a pod whose database is gone.

### Bounds

Two slots are the smallest number with a race; each property relates at most two
handlers and one goroutine. In `Api`, one e-mail makes every registration collide;
`api_causes` has two, since one account's sessions must not end for another's
sake. `MaxUsers = 2` allows deletion and re-registration. Two pairs give two sessions of
one account or a session and its replacement; runs about chains of refreshes use
three. In the passing runs `MaxTime` is one past the longest TTL, so each token can
expire. TTLs are 0 and 1 instead of hours and days: only the order of expiry and clock matters.
`PairsLeft`, `IdsLeft` and `RoomForJob` accept a request that inserts only while
room is left for all such requests in flight; those that insert nothing are always
accepted, so no run of `Api` can stop. `CHECK_DEADLOCK FALSE` appears only in
`JobsNeverConsumed.cfg`, where the single account may be deleted.

`server`: pools of 1 and 2 connections for two slots, so that one waits and none
does; `Modulus` 8 with `Wrapped` 13 gives a negative `int32`. The four deployments
and five files of `MCServer` cover each way a start-up ends and each change an edit
may make, one that adds POSTGRES after `connection_pool.go:37` included.

`profile`: two accounts and two names, so that a wrong one differs from the right one.

`pipeline`: one mailbox typed plainly, in capitals and padded, a word that is no
mailbox, and a blank; words of 7 and 8 characters around `min=8` (a padded word of 7
passes), one of 40 characters and 80 bytes, valid but too long for bcrypt, one of 256 around
`max=255`. With one mailbox every pair of registrations meets.

Symmetry (slots, pairs, accounts, names) is used in safety runs only.

### Fairness

`Api!Fairness` is weak fairness of each slot's handler and of each clean-up
goroutine: Go runs every runnable goroutine, and PostgreSQL ends every statement
(`statement_timeout` and `lock_timeout` in the DSN). Arrivals, faults and the clock owe
nothing. `Profile!FairSpec` assumes the same of its handlers; there is no fairness
for a consumer of the stream because there is no consumer. `Server!Fairness` adds
the start-up code, the pool handing a free connection to the first waiter, and the
supervisor that restarts an exited process (`k8s/backend-deployment.yaml` is a Deployment,
whose pods are always restarted). `EventuallyServes` assumes that
configuration and services settle; outages and edits owe nothing. Even then a clean-up
goroutine may panic at any time, so it promises service again and again, and for good
only if the panics stop. `Pipeline` states
safety only.

## 4. Proofs

All theorems hold for all constants that satisfy the named assumptions; TLC
evaluates these on each run. Each module's argument is the same rely/guarantee one: no
property is inductive, because what a handler may assume before its next step
depends on what its earlier steps read. The inductive invariant says, per slot, what
the handler has established for its next step; one lemma shows that the steps of
others preserve it, given the little such a step can do to shared state; then each
action needs only its effect on the tables and on its own slot.

`ApiProofs` (`FaultsAssumption`, `MaxUsersAssumption`, `TTLAssumption`, `MaxTimeAssumption`,
`NoneAssumption`; the faults are arbitrary):

- `Invariance`: `Spec => []Inv`, and from it `TypeCorrect`, `EmailsAreUnique`,
  `SessionsHaveOwners`, `IssuesToTheProvenAccount`, `ServesTheTokensOwner`,
  `ExchangesLiveTokens`;
- `EndedIsFinal`: `Spec => DeadStaysDead`;
- `LogoutEndsSessions`: `Spec => []LogoutIsFinal` if `"error" \notin Faults`.

`Inv` adds `StoreInv` (ids lie below the sequence, every row's pair is in the history
with the same owner) and `SlotInv(p)`. Every step is `Monotone` (ids are not reused,
rows and issued pairs do not change owner, dead pairs do not revive) and
`OthersKeep` uses that; there is one `...Keeps` lemma per statement.

`SessionsProofs`, `ApiImplementsSessions`: `Spec => ImplementsSessions`, with no
assumption about faults. Under `Inv` each statement maps to one abstract step or to
a stutter; DELETE with its cascade is `CloseAccount`. `SessionsTheorems` proves of the
abstract specification that live sessions have accounts and that nothing comes back.

`CauseProofs`, `SessionsEndForCause`: `Spec => EndsForCause` if
`"reuse" \notin Faults`; without it a goroutine's token is the one noticed as expired.
`wrong_token_cleaned_up` shows that the hypothesis is needed, as `logout_ignores_error` does for
`LogoutEndsSessions`.

`CauseProofs` also bounds what a replayed refresh token buys, if `"error" \notin Faults`:

- `ReplaysAreBounded`: at most one pair per slot, for finitely many slots. The
  invariant `Purchases` counts, for each pair, the pairs bought with it (`Kids`) and the
  slots past the look-up (`Buyers`). While the pair is live nothing has been bought and
  every buyer still has to run the UPDATE; the first UPDATE closes the set of buyers,
  and each INSERT turns a buyer into a kid, so the sum never grows past the slots. With
  `error` it does grow: an UPDATE that fails leaves the token live for later requests.
- `SequentialRefreshIsSingleUse`: with one slot `RefreshIsSingleUse` holds.
- `SequentialLogoutEndsHeirs`: with one slot `NoSessionSurvivesLogout` holds; `HeirsInv`
  adds that an exchange stays within one account and that no logged-out token is
  being exchanged.

Clean-ups, ticks, lost replies, crashes, panics and reused buffers may still come
between the steps of the one slot. The first of these is no run: two slots can exceed
their bound only with four pairs, a state space too large for one of these runs.

`ServerProofs` (`EnvironmentAssumption`, `PoolAssumption`, `EnvironsAssumption`):
`ServerTypeCorrect`, `ServesOnlyPrepared`, `ConnectionsAreReturned`, `ServingContinues`,
`TouchesAreDroppedByEditsOnly`, `ConfiguredStartUpSucceeds`. The environment of a process
only fills up (`Inherits`), so a variable once read keeps its value: a process that skipped Redis or the
logging middleware had read test mode, reads it again in `StartApp`, and never serves.
`IInv` adds what each start-up step leaves for the following ones, NewDB's locals included
(`Prepared`), that outside service no slot is busy and the pool is empty (`Quiet`), and
that a touch sent out in an asynchronous mode finds that mode until `.env` is turned, by
whomever it is loaded meanwhile (`StillAsync`). `EnvironmentAssumption` tells the unset value from the values the
code compares with; `PoolAssumption` says among others that the default pool size is
not one that wraps, which 10 and 2^32 satisfy.

`ValidationProofs` (`WordAssumption`, `NilAssumption`) is about the operators alone.
`PreparedTwice`: normalising is idempotent for any struct without a `default` tag. With
a default it is not: the default is applied before blanks are trimmed, so a second
pass fills in what the first one left empty. `RegisteredMayLogIn`: LoginRequest's rules
accept what RegisterRequest's did, and both normalise a mailbox alike.

`PipelineProofs` (also `TextAssumption`, `MailboxAssumption`, `PipelineFaults`,
`MaxUsersAssumption`): `PipelineTypeCorrect`,
`MailboxesHaveOneAccount`, `BodiesAreOwn`, `OwnersLogIn`, `FiveHundredsAreExcused`,
`LogIsTrue`, `FailuresAreLogged`. `SlotInv` is what the request has established: its
context, that its body is the normal form of what was sent, which account it acts for
and why that one may be gone, and which status may carry an error; `Admitted` is what
validation guarantees of every stored row, and `OwnersLogIn` combines it with
`RegisteredMayLogIn`. `MailboxAssumption`
only says that the set of texts is closed under the normal form.

`ProfileProofs` (`ProfileAssumption`): `ProfileTypeCorrect`, `NoTouchIsDropped` (if
`"error" \notin Faults`), `DeletionIsFinal`, `NamesChangeOnPurpose`. The bound on the stream
needs `Room`, the entries reserved by the GETs in flight, hence finitely many slots;
`Busy` says that a handler at work acts for an account.

Only model-checked: liveness (`Answered`, `ExpiredTokenEnds`, `EventuallyServes`,
`NoStarvation`; the prover handles neither fairness nor ENABLED). Proofs by
induction over data and about RECURSIVE operators are out of the prover's reach as
well; no module here declares one.

## 5. Not modelled

- Migrations: SQL scripts run by sqitch, not by this program. The schema they deploy is in `Store`.
- Generated API docs, manifests, scripts and the test harness: no state of the
  program. Their claims are the source of findings and of the faults of Redis.
- `LogError`, `LogInfo`, `LogDebug` and all wording: output only; the mode read in
  the log line of a failed touch, which may end the process, is in `Server!Apply`.
- Minimum pool size, connection lifetimes, the text of the DSN: parameters handed
  to pgxpool.
- Defaults of boolean and integer fields: no struct has such a field.
- `EnqueueJob` and `ForceSync`: nothing calls them.
- Order of touches: `last_active_at` may move backwards when two touches overtake each other; neither
  code nor docs order them, and nothing reads the column.
- Probe timeouts and shutdown by signal: a killed process is the `crash` fault and
  `Exit`.

What remains to be done: one composition in which the mode changes while profile
touches are under way (`Server` and `Profile` over one stream), and a consumer of
`last_active_stream` as soon as the code has one.
