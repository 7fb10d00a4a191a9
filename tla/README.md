# Verification of asibot

TLA+ models of the asibot MCP server, TLC configurations that check them on
small instances, and TLAPS proofs of what should hold for every instance.
The implementation is `src/asibot/` of the repository (in `PROJECT.json`:
`src/src/asibot/...`); every definition names the lines it models in the `map`
of `PROJECT.json`.

## 1. The system

asibot is one Python process: an asyncio event loop that serves MCP tool calls
over HTTP, a second thread with the dashboard, and background tasks. A tool
call authenticates its session, checks permissions, asks a cache for a token or
a pool for an HTTP client, and talks to a SaaS API through `safe_request`, which
a circuit breaker per service guards. Users, sessions and unfinished sign-ins
are rows in PostgreSQL; credentials and preferences are encrypted files.

| Component | Source | State | Operations | Talks to |
|---|---|---|---|---|
| Circuit breaker, retries | `circuit_breaker.py`, `token_store.safe_request` | state, failure counter, probe slots, time of opening; attempt and flag of each call | can_execute, record_success, record_failure, reset, the retry loop | every connector |
| Users and API keys | `auth.py`, `db_postgres.py` | `users` table | create_user, get_user_by_key, rotate_key, set_role | sign-in, sessions, dashboard |
| Sessions, authentication | `user_session.py`, `session_store.py` | session store (memory or Redis), `sessions` table, failures per key | require_user, put/get/delete, invalidate_user_sessions | users, every tool |
| Device-code sign-in | `server.py`, `db_postgres.py` | `_pending_setups`, its lock, polling tasks, `pending_setups` table, rate window | asibot_setup, asibot_connect, asibot_setup_status, the task's callbacks, cleanup | users, credentials |
| HTTP client pool | `http_pool.py` | OrderedDict of clients, its lock, last use | get_base_client, cleanup_idle, close_all | every connector |
| S2S token cache | `token_store.get_s2s_token` | OrderedDicts of tokens and of locks | get_s2s_token | Zoom, Paylocity |
| Microsoft Graph auth | `connectors/microsoft.py` | client per user, tokens in files | get_client, refresh | credentials, pool |
| Encrypted files, master key | `crypto.py`, `token_store.py` | key file and its backup, two or three files per user, the key cached by the process | save, load, rotate_key, re-encryption of plain files | connectors, file migration |
| Rate limits | `token_store.py`, `distributed_cache.py` | sliding windows per user and service, Redis buckets | check, cleanup | every tool |
| Pagination | `connectors/pagination.py` | locals of four generators and of collect | follow pages | connectors |
| Permissions, connectors | `token_store.py`, `connectors/*` | preferences, credentials | check_permission, require_service, require_graph_client, 302 tools | everything above |
| Dashboard | `dashboard*.py` | dashboard tokens shared by two threads | create, verify, revoke, pages | users, audit log |
| Audit, metrics | `audit.py`, `metrics` | append-only log | record | every tool |
| Schema, migrations | `db.py`, `db_postgres.py`, `migrate.py` | `_backend` and its lock, schema version, tables, files renamed | _get_backend, initialize, migrate v1..v5, file migration | PostgreSQL |
| Configuration, validation | `config.py`, `validation` | none | pure checks | everything |

What is hard about it, and what a test would hardly reach: calls of one event
loop interleave at every `await`, so anything checked before one may be stale
after it (a key looked up and rotated, a first user counted and inserted, a
lockout checked and recorded); bounded dicts drop what is still in use (locks,
clients, sessions); writes to PostgreSQL are fire-and-forget tasks that reorder
and get lost; restarts lose tasks and memory but not rows; clocks expire the
same thing at different times; a machine may stop between any two writes of a
key rotation, and a server between any two statements of a migration; settings
change while a tool that has read them goes on awaiting. `PROJECT.json` lists each of these under
`hazards`, with the line and the properties that would catch it.

## 2. The modules

| Module | Models | Variables = code | Actions = code |
|---|---|---|---|
| `CircuitBreaker` | one service's breaker and the calls of `safe_request` against it | `state`, `consecutiveFailures`, `halfOpenAttempts`, `openedAgo` are the breaker's fields (the last as elapsed time); `call` the locals `attempt` and `is_server_or_network_error` | `Start` = can_execute and the first request, `Respond` = one answer up to the next await (success, retry, give-up, ValueError, uncaught exception), `NextAttempt` = end of the sleep, `Reset`, `Tick` |
| `Sessions` | require_user, the store, the table's writes, lockout, asibot_rotate_key | `cached`, `age` the store; `rowAge`, `writes` the table and its scheduled tasks; `failures` = `_auth_failures`; `keyVersion` = `users.api_key`; `client` the key each client sends | `StartCached/StartLookup/StartLimited` = require_user to its await, `Select`, `ResumeKnown/ResumeUnknown`, `Update`, `Invalidate`, `ApplyWrite/LoseWrite`, `Restart` |
| `PendingSetups` | device-code sign-in | `mem` = `_pending_setups`, `row` the table, `holder` the lock, `task`, `codeAge`, `stores` the polling task and its scheduled write, `recent` the rate window | `StartSetup, EnterSetup, StartTask` = asibot_setup in its three awaits; `Poll*`, `SignedIn`, `SetOutcome` the task; `Ask, Look, Load*, Report` = asibot_setup_status; `Cleanup`, `Cancel`, `Restart` |
| `Accounts` | create_user under overlapping sign-ins | `users` the table, `flow` the locals | one action per statement awaited, `Abort` |
| `HttpPool` | the pool and the calls that use its clients | `pool`, `pooled`, `idle`, `open`, `holder`, `toEvict` | `Ask, Reuse, Evict, Create` = get_base_client, one step per aclose; `CleanupStart/Close/End` = cleanup_idle |
| `SingleFlight` | abstract: what a cache of fetched values promises, and what it gives up when it loses track of a caller | `fetching`, `usable`, `lost` | `Begin`, `End`, `Forget`, `LoseTrack`, `Return` |
| `OrderedDict` | the OrderedDicts of the pool and of the token cache | none | `MovedToEnd` = move_to_end, `Without` = popitem and del |
| `S2STokens` | get_s2s_token; implements `SingleFlight` | `locks`, `lock`, `tokens`, `left` the two OrderedDicts | `FindLock/CreateLock`, `ReturnCached`, `StartFetch`, `Store`, `Fail` |
| `ConnectorTools`, `WorkplaceTools`, `BusinessTools` | the 302 tools of the 23 connector modules, each as a service, a level and the steps of its body | none | a definition per tool |
| `ToolCalls` | what the steps do: check_permission with the rate limit, require_service and require_graph_client, credentials read again, requests with their retries; and the settings a user changes meanwhile | `prefs`, `connected` the two files; `rate` = `_service_rate`; `call` a tool's locals | `Deny/Throttle/Admit` = check_permission to its next await, `GetClient` = build_client or ensure_auth, `Read*`, `Succeed/Transient/Reject/BreakerRefuses` = safe_request, `Interrupt` = a call cancelled at an await, `Break` = an exception after a request, `Enable/Disable/SetMode/Connect/Disconnect` = the asibot_* tools, `CleanupRateLimits` |
| `Pagination` | collect and the four page generators | `offset`, `page`, `got`, `limit`, `size` the locals; `count`, `full` the service | one action per generator and page, `Fail` |
| `UserFiles` | crypto.py with its local key file, the stores of token_store.py and migrate.py in the server; rotate_key in a process beside it | `disk`, `bak` the files; `cached` = `_cached_master_key` and `_fernet` of the server; `mig` the migration's locals; `rot` rotate_key's; `user` the row | `Read`, `SetServicePrefs`, `SetCredentials`, `RemoveCredentials` = the stores; `Check/Pick/Copy/Fail/Backup/Finish` = the migration between its awaits; `Restart`; `StartRotation/ReadFile/WriteBackup/WriteKey/WriteFile` = rotate_key, `CutRotation` its end at any of them |
| `Database` | _get_backend, init_db_backend, initialize and its migrations, in several servers | `backend` = `_backend`, `init` the initialize under way, `request` the callers, `have`, `created`, `version`, `promoted` the tables | one action per statement, `Ask/Acquire/Cancel` = _get_backend, `Start`, `Stop`, `Fail` |

`MC<Module>` gives each module its model values and symmetry for TLC;
`<Module>Proofs` holds its theorems. `PendingSetups` and `Accounts` are proved about
together in `SignInProofs`, `S2STokens` and `HttpPool` in `CachesProofs`; the second of
each pair prefixes names the first has too (`AccountsTypeOK`, `PoolSpec`). The granularity is the same everywhere: a
coroutine runs from one `await` to the next in one step, and a statement sent to
PostgreSQL takes effect in a step of its own wherever its result is used after
the await. History variables (`probes`, `replied`, `revoked`,
`reports`, `seen`, `sent`, `hits`, `admissions`, `owed`, `skipped`, `orderly`, `lost`,
`behind`, `late`, `faults`) are not in the code, nor is `ended` (how the last call of a slot ended); no guard reads them but `Unused`, which takes a setup id that was never used.

Modelling decisions worth knowing:

- One server process, the in-memory session store, one breaker, one loop.
- `openedAgo`, ages and lifetimes are ticks that saturate one past the limit the
  code compares them with; the failure counter saturates at the threshold.
  Nothing in the code tells larger values apart.
- The `sessions` lookup between the store and the key reads an sqlite file in
  which the program never creates the table: it always answers None.
- Lockout buckets are the first eight characters of a key. The model counts per
  key, that is, keys differ there.
- `asibot_setup_status` without an id asks for some setup of the dict; `Ask`
  lets it be any.
- The pool of database connections may belong to a loop that has ended
  (`_async_init` runs on a loop of its own), so every write may fail at every
  time. The periodic cleanups start with the first asibot_setup, and the pruning
  of expired rows at startup is cancelled with the loop that starts it: no
  property relies on either.
- `db.py` builds its backend without `read_url`, so users and sessions are read
  from the primary, and no replica lag is modelled.
- Not called by anything and so not modelled: `set_role`, dashboard token
  creation and revocation, `load_sessions_from_db`. `CircuitBreaker.reset` and
  `crypto.rotate_key` are modelled: they are the operator's, run from the shell
  or as the runbook shows.
- `ToolCalls` takes one service and one user: tools of different services share
  nothing that is in it. The breaker, the pool and the token cache are modules of
  their own and decide here only whether a step succeeds. Two calls meet in the
  settings and in the window, both of which one step reads and writes, so a slot
  that is reused meets every settings change and every earlier admission.
- A `try` around a request whose handler goes on is a step of its own
  (`tryget`, `each`); a step that formats what was read is left out.
- A call of `ToolCalls` may be cancelled wherever it awaits (`Interrupt`), and
  any request may be followed by an exception nobody catches (`Break`), with the
  request carried out or not: the `r.json()` of a changing tool is not in a `try`
  (zoom.py:325, hubspot.py:331, jira.py:210), and safe_request passes on all but
  httpx errors and ValueError.
- In `UserFiles` a store is a sequence of writes that the process may stop at any
  of, leaving a file as it was or opened and empty. rotate_key has no caller: it
  is run from a shell (deploy/backup-restore.md:55) and so is a process of its
  own, one at a time, that reads and writes one file per step while the server
  goes on between them. It clears its own caches and not the server's, which
  keeps its key until it is restarted. A read or write of one file is not
  interleaved with another of that file. The order in which rotate_key meets the
  files is the directory's: any order. A machine that stops is `Restart`, or a
  save that is cut, and `CutRotation`, one after the other.
- `orderly` is true until a rotation is cut off or finds the server with a key in
  memory, and while no call of the server falls into one: it is the runbook's
  procedure, "Stop the Asibot service (prevent writes during rotation)" and
  "Restart Asibot" (deploy/runbook.md:544, 575). `behind` becomes true when a
  rotation begins while the server still has the key of before the last one.
- `Database` takes a statement to commit when it is answered. A `DO` block that
  looks and adds is two steps, as two sessions may both look before one adds.
  The six columns of `_migrate_v2`, each looked for and added like the others, are
  one item: a server that stops between two of them is one that stops before or
  after the item, and the version is recorded after all of them.

## 3. The runs

Passing runs:

| Run | Shows | Instance |
|---|---|---|
| breaker_check | counter and state agree in every order of late outcomes (`CounterMatchesState`), no more probes than slots (`ProbeLimit`), the state moves only along its cycle and each opening restarts the timeout (`StateCycle`), an open circuit admits a call again (`OpenAdmitsAgain`), a half-open one is decided unless a probe ends unrecorded (`ProbesDecide`) | 3 callers, threshold 2, timeout 2, 2 slots, 1 retry, all answers |
| sessions_check | the store stays within `max_sessions`; nobody whose key was never issued gets into store or table; a session ended by a rotation never returns (`RevokedStaysOut`); a lockout is exceeded by fewer than the calls in flight (`OvershootBounded`) | 2 sessions over a store of 1, 2 calls, 2 rotations, restarts |
| setups_safety | one outcome per setup, a completion told once and lost only to expiry or a restart | 2 setups, 2 calls, room for 1 |
| setups_progress | the lock is let go, and waiting ends, restarts and failed writes included | 1 setup, 2 calls |
| accounts_check | users without an administrator never exist; a sign-in shows the stored key | 2 emails, 3 sign-ins |
| pool_check | the pool holds exactly the open clients, and a call that asks is answered | 3 services, pool of 2, 2 calls |
| s2s_check | get_s2s_token implements `SingleFlight`, its dicts stay within their limit while entries in use are dropped, and a call returns | 2 keys, dicts of 1, 3 calls |
| tools_check | whatever the user changes meanwhile, a request is sent only by a call during which the service was connected and enabled, and a change only when it was writable (`ReachedAsAllowed`); a success was carried out, a refusal was not, and no change is made more often than it was attempted, whatever is cancelled or raises (`AnswersAreTrue`); no window holds more admissions than the limit (`RateHeld`) | all 302 tools, 1 retry, limit 2 in a window of 1, clock to 2 |
| pagination_check | an answer is a prefix of the listing (`PrefixOfListing`), complete if the service fills its pages and none fails (`CompleteIfServed`), and no page is asked for needlessly (`PagesBounded`) | up to 6 items, pages of 1 to 3, at most 4 pages, limits from -1 to 5 |
| files_check | a file opens with the key or its backup at whatever write a rotation stops and whatever the server saves beside it, if it is restarted between two (`OneKeyAway`); what was stored stays in its file but for writes cut off and overwriting by who could not open it or read it earlier, which stopping the server for rotations prevents (`StoredIsRead`); a file is put aside only when its entries are rows (`RenamedMeansCopied`) | 1 service, 3 keys (two rotations after a first key), any earlier installation |
| database_check | a recorded version is true of the tables (`VersionMeansSchema`); of servers that start together one finishes and promotes (`OneUpgrades`); a request gets a backend or an exception (`RequestsAnswered`) | 2 servers, 2 requests each, 2 foreign keys, from every version |

One run TLC refutes, because a docstring and a comment say something else than
the code does (quoted under `findings`): in database_ready a request is handed a
backend whose initialize has not returned, by the fast path of `_get_backend`.

Why the bounds are enough to be interesting: every limit is below the number of
things that compete for it (callers over slots, sessions over the store, setups
over the dict, keys over the S2S dicts, calls over the rate
limit, items over the page), every timeout can elapse between any two
steps of a call, and two rotations, failures or setups may follow one another.
Bounds that are not the code's: `MaxVersion` and
`MaxKey` (rotations; two follow one another), `MaxClock` (two windows), `MaxCount`
(a listing longer than limit, page and `MaxPages` pages of one), the numbers of slots for
calls (reused for ever; sign-ins in `Accounts` are used once, as each has a key of
its own), reports saturating at 2, expiry at one tick past the limit. Symmetry is
used in runs of safety properties only.

Deadlock is checked in every run but those of `Accounts`, which ends when every
sign-in has ended, and of `Pagination`, which ends with the listing.

### Divergences read off the models

These were met while modelling and are visible in the actions named. All but
`_get_backend`'s are described here only.

- Breaker: a probe that ends in a 4xx, a 429 or an exception gives no slot back:
  the circuit stays half open and refuses every call, where README.md:391 says
  "half-open probe → close on success" (`GiveUp`; `ProbesDecide` names the case).
- Sessions: a lookup answered before a rotation's UPDATE resumes after its reply
  and the old key goes on working (server.py:800 "The old key stops working
  immediately."): `ResumeKnown` after `Invalidate`.
- Setups: nobody polls a stored setup after a restart (server.py:231 "persisted so
  server restarts don't lose in-flight OAuth flows"): `LoadFound`.
- Accounts: two people who sign in first both become administrators (auth.py:18
  "the first user gets 'admin', subsequent users get 'user'"): `Count`.
- `sessions`: nothing reads `absolute_session_ttl` (config.py:50 "hard cap"): `Hit`
  refreshes the only timestamp. Rows are written and never read back
  (user_session.py:10 "survive server restarts"): `Restart`. The DELETE of a
  rotation may overtake an INSERT and leave a live row of an ended session
  (user_session.py:197): `ApplyWrite`. More failures than `_AUTH_FAIL_MAX` are
  recorded, `OvershootBounded` says how many.
- Breaker: a network error of an earlier attempt makes a final 4xx count
  (token_store.py:228): `flag` in `GiveUp`. A call admitted before the circuit
  opened may fail later and reopen it under the probe (circuit_breaker.py:123).
- Setups: an entry lives 900 s, a Google device code 1800 s by default
  (server.py:236, 627), so status can forget a setup that is still polled:
  `Cleaned` against `codeAge`. Outcomes and loaded rows enter a full dict
  (server.py:206): `SetOutcome`, `LoadFound`. The row of a failed setup may be
  written after it was reported and deleted (server.py:329): `StoreFailed`.
- Roles: create_user is called without a role and group membership is asked by
  nobody (README.md:269).
- Pool: the cleanup closes a client in use, as a client's time is that of the last
  request for it (http_pool.py:122): `CleanupClose`.
- S2S: a dropped lock lets two calls fetch one token (token_store.py:328):
  `CreateLock`.
- Tools: asibot_disable answers "No … tools will respond until re-enabled", yet a
  call already admitted goes on, which is why `ReachedAsAllowed` speaks of the
  time of the call. gdrive_read_file calls `client.get` on a PooledClient that has
  only `request` (`Direct`). Zoom and Paylocity read the credentials again after
  an await and raise KeyError when they are gone (`ReadToken`). A change whose
  answer was lost is sent again by safe_request, up to `MaxRetries` more times.
  A changing tool whose answer cannot be parsed raises after the change was made,
  and one that is cancelled between two attempts may have made it: neither an
  error nor an exception says whether it was (`Break`, `Interrupt`).
- Pagination: a failed page is answered as a shorter listing (`Fail`); a service
  that caps the page size below the one asked for ends an offset listing early
  (`Short`); tools that do not clamp `limit` drop the last items for a negative
  one (`Answer`). A service that repeats a cursor is asked up to the page limit.
- Files: users.json, the .bak files and the rows are not re-encrypted by
  rotate_key (crypto.py:227 "re-encrypt all user data files"). After a rotation
  that was interrupted the next one skips the files of the old key and overwrites
  its only copy; `OneKeyAway` excepts what the rotation itself reports as failed.
  A file that cannot be opened reads as empty and the next save overwrites it
  (`Load`, `Save`), as after an interrupted rotation (crypto.py:272).
- Rotation beside a running server: crypto.py:279 "Reset cached Fernet and master
  key so it picks up the new key" resets the process that rotates. The server
  goes on with the key it has (crypto.py:170): it reads the new files as empty,
  saves under the old key, which after its restart read as empty in turn, and
  what it saved between the rotation's read and write of a file is overwritten
  (`WriteFile`). A second rotation takes the old key out of the backup: hence
  `behind` in `OneKeyAway` and `orderly` in `StoredIsRead`.
- File migration: token_store.py reads files only, so credentials whose file has
  been renamed are gone for their user: `Backup` resets `owed`. Entries stored
  while their file is being copied end up in the .bak only: `late`. A migration
  that was stopped is not taken up again, as needs_migration looks for users.json
  and for an empty table: `Check`. An unreadable users.json migrates as empty and
  is renamed: `Pick`.
- Schema: the base schema indexes a column that an `audit_log` of version 1 does
  not have, so such a database is never initialized and `_migrate_v2` is not
  reached: `Schema`. A server that stops between adding `users.role` and the
  promotion leaves nobody an administrator (db_postgres.py:343 "first user set to
  admin"), which is why `OneUpgrades` speaks of runs without faults. After a
  failed initialize `_backend` stays assigned and every later request raises:
  `Fail`, `Got`.
- Microsoft: get_client reads the token before it awaits the lock and may write
  an older one into the shared client; overlapping refreshes use one refresh
  token; a failed refresh closes a client that others use (microsoft.py:99-190).
- Tool tracking: server.py:76 calls `audit._infer_service` and keywords that do not
  exist; `main` uses `distributed_cache` without importing it.
- Replicas: runbook.md:290 calls them stateless with sessions in PostgreSQL; the
  session store is in memory.

### Fairness

| Assumed | Because |
|---|---|
| WF of `Tick` (breaker, setups) | clocks advance |
| WF of a request's end (`Respond`, `Store`/`Fail`) | httpx clients are created with a 30 s timeout |
| WF of `CleanupClose`, `CleanupEnd` | closing a client ends |
| WF of `NextAttempt`, `StartTask`, `Report`, `Load*`, `SignedIn`, `PollTimedOut` | a sleep ends, the provider and PostgreSQL answer or fail, the polling loop compares the clock on each round |
| WF of `Proceed`/`Fail` per server and of `Acquire` per request (`Database`) | a statement is answered, fails or times out; asyncio.Lock wakes its waiters first in, first out |
| SF of what waits for an `asyncio.Lock` (`EnterSetup`, `Look`, `SetOutcome`; `Reuse`/`Evict`/`Create`; `ReturnCached`/`StartFetch`) | asyncio.Lock wakes its waiters first in, first out |

Nobody is obliged to call a tool, to sign in or to retry, and no cleanup or
restart is obliged to happen.

## 4. The proofs

All theorems hold for every value of the constants that satisfies the module's
one named assumption (positive limits, sentinels that are no members).

`CircuitBreakerProofs`: `TypeCorrect`, `CounterAgrees`, `ProbesLimited`,
`CycleOnly`. `CounterMatchesState` alone is inductive only together with the
types. `ProbeLimit` is not: it needs that the callers in `probes` are no more
than `halfOpenAttempts`, as a probe that ends silently leaves both where they
are, and that slots are counted in `half_open` only.

`SessionsProofs`: `SessionsTypeCorrect`, `StoreStaysBounded`, `IssuedOnly`,
`RevocationFinal`, `FailuresBounded`. `OnlyIssuedKeys` needs the same of lookups
answered "known" and of INSERTs in flight, and that what a SELECT finds is the
user's present key, which is an issued one. `RevokedStaysOut` needs that no call of a revoked session is
between the answer of its SELECT and its resumption, which holds as revoked
sessions carry an old key for good: their SELECT can only answer "unknown".
`OvershootBounded` needs that the failures of a key together with the calls
that may still add one stay below the limit plus the number of slots. The
store's bound needs the cardinality of what `put_session` keeps.

`SignInProofs`: `SetupsTypeCorrect`, `CompletionToldOnce`, `OneOutcomeTold`,
`CompletionAlwaysKept` about `PendingSetups`. `OneOutcome` needs that all evidence of how
a setup ended (its task, its entry, its row and the write on its way there, a call about
to report it, what was reported) agrees (`OneEnd`). `CompleteOnce` needs that a
completion is in one place at a time: the entry, or a call that has taken it out, or
the user (`CompleteHeldOnce`), which in turn needs what each call may hold at each of
its awaits (`CallsOK`). `CompletionKept`, an action property, follows from the code of
each step given the types.
About `Accounts`: `AccountsTypeCorrect`, `AdminAlways`, `ShownKeyValid`.
`AdminExists` is not inductive: a sign-in about to insert the role `user` must
have counted somebody, and who was counted is still there, as rows are never
changed or deleted.

`ToolCallsProofs`: `ToolsTypeCorrect`, `AlwaysAllowed`, `AnswersAlwaysTrue`,
`RateAlwaysHeld`, for every set of tools of which `ToolAssumption` is true: no
step of a tool but a check of its arguments comes before its admission, and a
change is the last step of a tool that writes. `tools_check` evaluates that assumption on the 302
tools. `ReachedAsAllowed` needs that a call past its admission was admitted
(`Allowed`), and that what a call has `seen` includes what is so now
(`UpToDate`), as that is what it is admitted by. `AnswersAreTrue` needs that while a call
runs its change was carried out at most once per attempt made before the one
under way, and never before the step that makes it (`Counted`); cancelling the
call keeps what was made (`InterruptStep`), and an exception after the request
adds at most the attempt under way (`BreakStep`).
`RateHeld` needs `Window`: the list the code keeps is the end of the history of
admissions, in order, and what it has dropped had expired.

`DatabaseProofs`: `DatabaseTypeCorrect`, `VersionAlwaysTrue`,
`SomebodyUpgrades`, for any number of servers, requests and foreign keys.
`VersionMeansSchema` needs what a server in the middle of initialize relies on
(`Begun`: every item is there or still ahead of it). `OneUpgrades` needs a server
that nobody can stop: a server is stopped by another that has added the same
item since it looked, and that other is then past its own statement (`Leader`).
`Owned` says that a lock not held and a server not starting mean no initialize
under way, without which a new one could overwrite it.

`CachesProofs` begins with lemmas on the operations of an OrderedDict, which hold
each key once, and goes on with the two modules that use it.
`S2STypeCorrect` and `ImplementsSingleFlight` are the refinement
that `s2s_check` checks on an instance. A call whose lock was dropped is `lost`
in the abstract cache and must not turn up again, although a lock is made anew
for its key: every lock differs from those that calls still have, and no lock
is left for a key that is not in the dict (`Locked`). That a new lock can always
be told from the others is a counting argument on `Callers`.
`PoolTypeCorrect` (with the limit of the pool) and
`PoolHoldsOpen` are about the pool. `PooledIffOpen` needs that a pooled client is one of
its own key (`Pooled`), and that the lock is with the one who evicts or cleans up, so
that what it is about to close is still in the pool and the key it makes room
for still is not (`PoolLocked`).

`UserFilesProofs`: `FilesTypeCorrect`, `OneKeyAlwaysAway`, `StoredAlwaysRead`,
`CopiedBeforeRenamed`, for any services and any number of keys, from
`FilesAssumption` (the user's entry of users.json is no service, and there may be a key).
What is on disk and what is owed agree at all times (`DataKept`), which is the first
part of `StoredIsRead`. `OneKeyAway` is not inductive: a rotation about to write a file
needs what it holds to be under the key that the key file has by then, and a server that
has not been restarted is about to save under its own. So the invariant says of every
encrypted file not reported, and of the key the server has cached, that it is `Near`:
its key is in the key file or the backup, and in the key file alone when the backup is
about to be replaced, which depends on how far the rotation is (`Replacing`, `KeysNear`,
`RotationOK`). The rest of `StoredIsRead` is about orderly rotations: as long as
they are, every file but those the rotation has yet to write opens with the key that
the server would use, and what the rotation has in memory is what is in the file (`InOrder`). `RenamedMeansCopied`
needs that what can be read of the file being copied is a row, still to be copied or
stored since (`CopyCovers`). A store is a sequence of writes, so the proof rests on what
a sequence, or the part of one before a stop, leaves on disk (`AfterFacts`, `AfterBoth`,
`CutFacts`), and `ServeStep` says once for all calls and the migration which sequences
keep the invariant; `RotationStep` says what is left to show for a step of rotate_key.

`PaginationProofs`: `ListingIsPrefix`, `ListingIsComplete`, `ListingIsBounded`, for
listings, limits and pages of any size. While a listing goes on, the next page
begins where the results end, whether the offset counts items or pages (`GoesOn`), which
holds because only a full page is followed by another: a page is then as long as the
step of the offset. A limit that is not positive ends a listing with its first page.

Every invariant and every safety property of a step that a run checks is proved. Only
model-checked are the liveness properties (`OpenAdmitsAgain`, `ProbesDecide`,
`LockReleased`, `WaitingEnds`, `AskIsAnswered`, `CallReturns`, `RequestsAnswered`), as
the prover has no rules for fairness and ENABLED, the one refuted by
`database_ready`, and that `ToolAssumption` is true of the 302 tools, which TLC evaluates.

## 5. Not modelled, and the plan

Each component without a module is listed in `PROJECT.json` with the reason.
What is worth modelling next, in this order:

1. `MicrosoftAuth`: overlapping calls of one user refresh one refresh token; the
   token file is read before the lock is awaited; three ways to close a client
   in use. The refresh should implement `SingleFlight`. With it
   microsoft_token.json, a third file like the two of `UserFiles`.
2. Proofs of what the liveness runs rest on: that a call which waits for the lock of the
   pool, of the setups or of the backend waits for one that can take a step.
3. The Redis buckets of `distributed_cache.py` against the sliding window, which
   they should implement up to a factor of two; the KMS and Vault providers.
4. `Sessions` with several server processes: the runbook calls replicas
   stateless, the session store is in memory.
5. The audit log's fallbacks, and the dashboard's tokens, once something creates
   one: `create_token` has no caller.

Pages, tool formatting, configuration checks and metrics are I/O or arithmetic on
single values without interacting state, and stay out.
