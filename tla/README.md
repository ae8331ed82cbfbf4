# Moulinator in TLA+

Moulinator runs the tests of students' repositories. An API (NestJS, Postgres,
Redis) accepts a request to test a commit, packs the commit into a tarball, asks
Jenkins to run a pipeline on it, and follows the pipeline through signed
webhooks. This directory models the parts of it that are hard to get right by
testing: the life of a run under everything that writes it at the same time; one
build with its webhooks and its firewall rules, retried, overtaken and stopped
anywhere; the sessions of a user whose tabs refresh, log out and log in beside
each other; and the smaller parts where requests meet over shared rows, a cached
value or a page's state.

Paths below are relative to the repository; `core/...`, `webhooks/...`,
`runs/...`, `auth/...` and the like are under `apps/api/src/`.

## 1. Inventory

### Components

| Component | State | Operations | Talks to | Hard | Correct when |
|---|---|---|---|---|---|
| Runs orchestrator `core/runs/runs.orchestrator.ts` | none of its own; writes `TestRun`, artifacts, audit | `triggerRun`, `cancelRun`, `markRunningAsError` | Postgres, GitHub, object store, Jenkins client, aborts queue | awaits between two transactions; fence under an advisory lock; catch block after a trigger that worked; read, abort, update | one active run per user; every write is a transition of the state machine; a cancel is answered and stops the build |
| Webhook receiver `webhooks/jenkins/` | `webhook_events` | `build_started`, `heartbeat`, `build_completed`, `build_errored` | Postgres, aborts queue (after commit, by `setImmediate`) | read of the row before a conditional update; retries, duplicates; late events | an event takes effect once and only where the state machine allows; cases commit with the verdict |
| Reaper `core/runs/runs.reaper.ts` | repeatable job in Redis | `sweep`: stale running rows, stuck queued rows, orphans | Postgres, aborts queue | rows change between scan and update; a throw ends the sweep | every run ends; builds of unfinished runs are aborted |
| Aborts queue `core/runs/aborts.queue.ts` | BullMQ jobs, one id per run | `enqueue` (two forms), `process` | Jenkins client | replaced jobs, failed set, worker death | only finished runs are aborted; aborts are not lost |
| Jenkins client `core/jenkins/jenkins.client.ts` | cached CSRF crumb | `triggerBuild`, `abortBuild` | Jenkins | 404 as success; stale crumb; a trigger that throws after it took effect | an abort reported as done is done |
| Pipeline `Jenkinsfile` | the build, its agent, network and container | stages, heartbeat loop, `emitWebhook`, `post` | API, object store, firewall | six attempts per webhook; abort during any stage and during the clean-up; docker commands that fail unseen; one build at a time | an event is taken as delivered only when it is settled; the container runs behind its rules; the build ends and, unless stopped or failing while it does, cleans up |
| Runs service `runs/runs.service.ts`, `common/pagination.ts` | none | `trigger`, `cancel`, `get`, lists with a cursor | orchestrator, Postgres | its own check precedes that of the orchestrator; runs are created while a client walks the list | a walk gives every run once |
| Refresh tokens `core/auth/refresh-token.service.ts` | `refresh_tokens` | `issue`, `verify`, `rotate`, `revoke` | Postgres | concurrent rotations; reuse detection that throws in its transaction; `revoke` reads before its transaction | chains of rotations end; a revoked token stays so; reuse ends all sessions |
| Authentication `auth/` | the cookie | signup, login, `refresh`, `logout` | refresh tokens | verify and rotate are separate; a failure after the rotation has committed | a logout answered 204 revokes its token; the cookie left in the browser is not one already exchanged |
| Credentials `credentials/` | `github_credentials` | create (replaces), delete | GitHub, crypto | concurrent creates; a create that fails half-way, or after its commit | an older credential is gone once a create has committed, and the user is never left without |
| Repositories, projects, contributions `repos/`, `projects/`, `contributions/` | `repositories`, `project_definitions`, `test_contributions` | create, update, delete (cascades to runs) | Postgres | a check in one statement, the change in a later one; deleting under an active run | nothing refers to what is gone |
| Firewall `scripts/firewall.sh` | iptables chains and hooks | apply, cleanup, a process per request | Docker | both at once; the network gone under a handler; commands whose failure is not looked at | an apply answered ok has put the rules asked for in force |
| Web client `apps/web/src/api/client.ts`, `src/auth/`, `middleware.ts` | access token and refresh in flight of each tab; marker cookie of the browser | requests with one retry, `tryRefresh`, start of a page, logout | API | several 401s at once; two tabs, one cookie; answers out of order | a tab never spends a token twice; no call waits for ever |
| Page of a run `runs/[id]/page.tsx`, `useRun`, `useRunResults` | what it shows, its polls and timer | polls, cancel, results | API | two chains of polls over one timer; answers overtaken; closing with a request on its way | a page that has stopped polling shows how the run ended; polling ends |
| Pages of lists: credentials, repos, repos/id, contribute, admin/projects; `useAsync` | the list, its loads, a form | load, create, edit, delete, filter | API | loads answered out of order; forms closed with a request on its way | what a page shows has what it had done when it asked |
| Artifacts, users, audit, crypto, storage, GitHub client | rows, objects | single statements, pure functions | | | |

`PROJECT.json` gives every component its status, with the reason where it is not
modelled, and lists the hazards line by line.

### How they interact

```
 user ──POST /runs──▶ triggerRun ──buildWithParameters──▶ Jenkins queue ─▶ build
      ──DELETE────▶ cancelRun ──────stop/cancelQueue──────────▲             │
                        │ markRunningAsError                  │             │
                        ▼                                     │             │
   reaper (60 s) ─▶ aborts queue ──worker──────stop───────────┘             │
                        ▲ setImmediate                                      │
                        └────────────── webhook handlers ◀──signed events───┘
 All of them write TestRun rows, by updateMany ... where status = expected
 (the second transaction of triggerRun and nothing else updates by id alone).

 build: stages ─▶ emitWebhook ─curl, 6 attempts, one key─▶ handle: event row │ transaction
           │ ◀──200, 404, 409, 410, 422, or nothing───────────┘
           └─ socat: apply, cleanup ─▶ sidecar, a handler each ─▶ iptables
           └─ docker run, killer, docker rm ─▶ job container on the build's network

 tab 1: calls ─401─▶ one shared tryRefresh ─▶ /auth/refresh: verify │ rotate
 tab 2: the same, with a promise of its own        │ /auth/logout: verify │ revoke
        both send and receive one cookie, mou_rt ──┘ /auth/login:  issue
                                                     all on refresh_tokens
```

## 2. Modules

| Module | Models | Uses |
|---|---|---|
| `RunStatus` | statuses, verdicts, kinds of URL, ownership | |
| `RunStateMachine` | the promise: transition table, one active run per user, cases with the verdict | `RunStatus` |
| `AbortsQueue` | the BullMQ queue: state and operations | `RunStatus` |
| `RunLifecycle` | orchestrator, webhook handlers, reaper, abort worker, builds, time, crashes | `AbortsQueue`; `INSTANCE RunStateMachine` |
| `RefreshTokens` | the `refresh_tokens` rows of a user and the operations of `RefreshTokenService` | |
| `Sessions` | `/auth/refresh`, `/auth/logout`, `/auth/login`, the browser's cookies, the web client in its tabs | `RefreshTokens` |
| `Deliveries` | the promise of the webhook contract about one event: settled at most once, delivered only when settled | |
| `WebhookReceiver` | `handle` and its event handlers behind the idempotency table, for the events of one build | |
| `WebhookDelivery` | `emitWebhook` at the other end of the wire | `WebhookReceiver`; `INSTANCE Deliveries WITH` the event rows |
| `Firewall` | the sidecar's handlers for one build network | |
| `Pipeline` | one build: stages, post section, container, killer, aborts | `WebhookDelivery`, `Firewall` |
| `Credentials` | the credentials of a user: create in a transaction, delete | |
| `Catalogue` | projects, repositories, contributions, the foreign keys between them and to runs | |
| `RunList` | `listForRepo` and the cursor | |
| `RunPage` | the page of a run | |
| `ListPage` | the pages that show a list and change it | |
| `JenkinsCrumb` | requests to Jenkins with the shared crumb | |
| `MCRunLifecycle`, `MCSessions`, `MCPipeline` | constants for TLC | |
| `MCParts` | the parts from `Credentials` to `JenkinsCrumb` side by side, one of them active in a behaviour | |
| `RunStateMachineProofs` | theorem about the state machine | `TLAPS` |
| `RunLifecycleTyping`, `RunLifecycleProofs` | theorems about the lifecycle | `TLAPS` |
| `SessionsProofs` | theorems about the sessions | `TLAPS` |
| `WebhookDeliveryProofs` | the delivery of webhooks implements `Deliveries`; step lemmas for `PipelineProofs` | `TLAPS` |
| `PipelineProofs` | theorems about a build | `WebhookDeliveryProofs` |
| `PartsProofs` | theorems about `Credentials`, `Catalogue` and `JenkinsCrumb` | `TLAPS` |
| `PagesProofs` | theorems about `RunList`, `RunPage` and `ListPage`, and about the parts put side by side | `MCParts`, `PartsProofs` |

Operators marked *Mistake* are plausible bugs, used nowhere in the
specifications: each property is known to fail when one of them takes the place
of the definition below it.

### State of `RunLifecycle` and the code

| Variable | In the code |
|---|---|
| `status`, `url`, `overdue` | columns `status`, `jenkins_build_url` (null, the queue item's, the build's), whether `timeout_at` has passed |
| `cases` | what the `TestCaseResult` rows of the run amount to |
| `signal` | age of `heartbeat_at`, or of `started_at` before the first heartbeat: fresh or stale |
| `trig` | where `triggerRun` is |
| `job`, `hook` | the Jenkins build; for each event, its webhook request: sent, read (holding the status read), answered, lost |
| `deferred` | `setImmediate` callbacks that will call `enqueue(run, url)` |
| `cancel`, `cancelUrl` | where `cancelRun` is and the URL it read |
| `sweep`, `picked` | which scan of the sweep is being worked through, and why it picked each row |
| `jobState`, `jobUrl`, `attempts` | the abort job of the run |
| `crashes` | bound: crashes and failed sweeps so far |

A step of the model is what nobody can interrupt: a transaction that starts with
its conditional update, or the code between two awaits. Two places need more:

- Webhook transactions read the row first. At READ COMMITTED another
  transaction can commit between the read and the conditional update, so
  `WebhookRead` and the handlers are separate steps, and `hook` remembers what
  was read.
- The fence's transaction counts and then inserts, with the advisory lock held
  from before the count until the commit: `TriggerCount` and `TriggerCreate`,
  with the lock held while `trig = "counted"`.

Handlers that write in several statements of one transaction are one action, the
webhook's answer included; a transaction that throws is `WebhookFails`,
`TriggerRecordFails`, `TriggerCatchFails` or `SweepThrows`.

### State of `RefreshTokens` and `Sessions` and the code

| Variable | In the code |
|---|---|
| `issued`, `revoked`, `replacedBy`, `expired` | the rows `1 .. issued`; `revoked_at` set; `replaced_by`; `expires_at` passed. A row stands for the token with its `jti` |
| `jar`, `marker` | the cookies `mou_rt` and `moulinator_session` of the browser |
| `access`, `inFlight` | of each tab: the access token in memory (none, fresh, old) and the call whose `tryRefresh` set `refreshInFlight` |
| `call`, `cookie`, `answer` | where each API call is; the token that its `/auth/refresh` presented, and the one in the answer |
| `out`, `outCookie`, `login`, `loginAnswer` | the logout and login request of each tab |
| `lost`, `spentBy` | history: an answer carrying a change of the cookie was lost; which tabs have rotated a token |

A request is split at the awaits after which other requests matter:
`verify`, the read in `rotate`'s transaction and its commit (two rotations can
read the same row at READ COMMITTED), the read of `revoke` before its
transaction, the audit entries that follow a commit. The cookie is what the
browser attached when the request left; an answer sets it when it arrives.

### State of the build's modules and the code

| Variable | In the code |
|---|---|
| `run`, `results` (`WebhookReceiver`) | `TestRun.status`, or `gone` once deleted; how often `TestCaseResult` rows were stored |
| `row` | the `webhook_events` row of each event: none, open (`processed_at` null), or what was done when it was set |
| `request` | each attempt's HTTP request: sent, past the first read (with what it found), in its transaction (with the status it read), answered with a code, lost |
| `outcome`, `attempt` (`WebhookDelivery`) | what `emitWebhook` has concluded; the attempt it is making |
| `report` | the harness's `result.json` |
| `network`, `chain`, `allowed`, `hooks` (`Firewall`) | the Docker network; the `MOUL_` chain, what it ends in, whether it accepts hosts; the chains that jump to it |
| `handler` | the place in `firewall.sh` that the handler of each request has reached |
| `failed`, `undone` | history: the places of `firewall.sh` whose command failed by itself; the steps of the post section that were cut off or failed |
| `stage`, `result` (`Pipeline`) | the stage or post step; `currentBuild.result` |
| `heartbeat`, `container`, `resp` | the background loop, the job container; what socat returned for each request |

A request reads its event row outside any transaction, then inserts it in one:
`Lookup` and `Begin` are separate steps, and `Begin` waits for another request's
uncommitted insert of the same key (`RowHeld`). The conditional update of a
handler locks the run until the commit, so the rest is one step. Every iptables
command is a step, because the build does not wait for a handler that takes too
long. Declarative pipelines run `always` before `aborted` and `failure`, in
whatever order they are written, so the clean-up precedes `build_errored`. When a
build is stopped while `always` runs, the rest of `always` does not take place, the
result becomes aborted, and the next condition runs (`AbortPost`, `CutAt`).

### The other parts

- `Credentials`: each statement of `create`'s transaction sees what is committed
  when it starts; `deleteMany` waits for rows that another transaction deletes
  (`LockedFor`) and does not see rows committed meanwhile.
- `Catalogue`: `request` remembers what the first read of an operation found; the
  statement that acts comes later. A project recreated under its old slug is
  another row. A repository's run and its build are separate: deleting the
  repository removes the run and leaves the build.
- `RunList`: a run is a pair of `created_at` and ulid; `walked` is what a client has
  been given. Runs may be inserted anywhere in the order meanwhile.
- `RunPage`: `polls` has one entry per chain of request, timer, request; `timer` is
  the single field that only remembers the last.
- `ListPage`: `loads` are the requests of `useAsync` on their way, each with what the
  page had made and unmade when it asked, `requests` the changes; `current` records
  whether the answer shown is that of the newest load, `seen` what its asker knew.
- `JenkinsCrumb`: `crumb` is the client's field, read, cleared and set between the
  awaits of concurrent requests; `protected` says whether Jenkins checks it, and does
  not change.

### Faults

In the build's modules, any request or answer may be lost (`TimeOut`), a
transaction may throw (`RollBack`), the run may be ended or deleted by someone
else, any stage may fail, the sidecar may be slow or dead, each of its commands may
fail by itself (`Runs`, up to `MaxFailures` places), `docker rm -f` and
`docker network rm` may fail, and the build may be stopped in any stage (`Abort`)
and, again or for the first time, in its post section (`AbortPost`). In the other
parts, requests fail and answers are lost or overtaken where the code can meet
that.

In `Sessions`, `Faults` holds any of `server` (a statement fails or the process
dies), `network` (an answer is lost) and `expiry` (refresh tokens expire).

In `RunLifecycle`, `Faults` selects what may go wrong (`FaultKinds` in the module): calls of
`triggerRun`, database transactions, refused parameters, other pins, failing
stages, undelivered webhooks, dead agents, failing abort calls of `cancelRun` and of the
worker. `Crash` kills
the API at any point: calls in progress, open transactions and `setImmediate`
callbacks are lost; the repeatable sweep and the abort jobs are in Redis and come
back. `MaxCrashes` bounds crashes.

## 3. Runs

| Run | Instance | Shows |
|---|---|---|
| `lifecycle` | 1 run, 1 cancel, all faults, 1 crash, 2 attempts; 1.7 million states | refinement, no abort of an active run, cases stored with the verdict they justify, frozen terminal rows, a cancel under the build's URL stops the build, and the inductive invariant |
| `two_runs` | 2 runs of a user, no faults; 3.4 million states | the fence against every stage of another run |
| `liveness` | 1 run, 1 cancel, all faults but failing abort calls of the worker, 1 crash, 1 attempt; 0.9 million states | every run ends; builds of runs that did not finish are stopped, those whose `build_started` came after the end included once their abort is queued under their URL; a cancel is answered |
| `sessions` | 2 tabs, one with 2 calls, 3 tokens, `server` and `network` faults; 1.5 million states | chains of rotations end; a logout answered 204 has revoked its token; the jar keeps an exchanged token only while the answer with its successor is on its way or was lost; no tab is refused a token that it has spent itself |
| `session_liveness` | 1 tab, 2 calls, 4 tokens, all faults; 0.6 million states | every call settles |
| `build` | 1 build, 2 attempts per event, 1 retry in all; 4.2 million states | the two ends of the wire implement `Deliveries`; an unprocessed event row is a lost start of a run that has ended; results are stored once, a run is passed only with a passing report and failed only with a failing one; a delivered end means an ended run |
| `clean_up` | 1 build, 1 attempt per event, 1 command of the sidecar failing by itself, docker commands failing, aborts anywhere; 2.1 million states | until the clean-up is asked for, the container runs behind its rules, but for a `DOCKER-USER` hook that failed unnoticed; what an ended build leaves is due to steps cut off or failed; every build ends |
| `parts` | the parts one at a time: 3 creates and 2 removals; 2 projects of one slug, 2 repositories, 1 contribution, 2 requests; 3 ids, 2 times, pages of 1 and 2; 3 chains of polls; 2 rows, 2 filters, 2 loads; 2 posts, 2 changes of the crumb; 1.9 million states | an older credential goes and some credential stays; nothing dangles; a walk is complete; pages show what they have done and settle on the truth, and polling ends; a request to Jenkins takes effect once and is retried with a fresh crumb |

Why the bounds suffice: runs share nothing but the user's lock, the single
executor and the reaper's loop, which treats rows one by one, so one run with
one cancel shows every race over a row, and two runs show the fence and the
executor. A second crash finds the system in a state it can also reach after the
first, since a crash empties all the memory there is. Two attempts give both a retry
and a final failure. For safety the proofs below remove the bounds. No state
constraint and no symmetry is used. Deadlock is checked for every run of
`RunLifecycle`, where the reaper's tick never stops.

For `Sessions`, two tabs and two calls in one of them are the least that show a
shared promise and a shared cookie at once. `MaxTokens` bounds the rows and
`RowLeft` starts nothing that could be left without a row to insert; three rows
are a login and two rotations, which may be of one token, four a longer chain.
Calls and requests are used again and again. Deadlock is not checked: when the
rows are used up, or the user does nothing more, the system may stop.

For the build, two attempts of one event are the least at which a retry meets its
predecessor in the receiver, and a third finds nothing a second does not: the
receiver keeps one row per key, and a request only tells whether that row was
there, open or processed. `MaxRetries` = 1 lets any one event be retried.
Six attempts, 15 and 90 minutes are bounds of this kind, not values that
matter. `clean_up` asks about the container and the rules, which no retry touches, so
one attempt is enough; `MaxFailures` = 1 lets any one command of the sidecar fail,
beside any number of failures in the post section, and the proofs have no bound.
Two runs take the place of one because retries and failures multiply each other's
states and neither set of properties speaks of both. For `parts`: a third create shows a transaction that begins between two
others; two projects of one slug show the deletion of a recreated one; the limits
are 0 (the default), 1 and one above the maximum; a third chain of polls and a
second load are beyond what one timer field and one answer can hide. Parts run
one at a time because they share no state. Deadlock is not checked for `build`,
`clean_up` and `parts`: a build ends, and users may do nothing more.

Fairness is weak, and only on what the process schedules for itself: time limits
pass, the 60-second sweep goes on (`SweepScan`, `SweepRow`, `SweepDone`), the
worker takes jobs and its Jenkins call returns, `setImmediate` callbacks run, a
`cancelRun` that was called continues. Users and Jenkins get no fairness: a
build may hang for ever, a webhook may never come. `liveness` leaves out failing
abort calls of the worker because after `MaxAttempts` failures nobody tries again
(see `failed_abort_stays`); the abort call of a cancel may fail. In `Sessions` a request that was sent is processed
and answered, or fails (`CallContinues`); logins, logouts, expiry and new
calls are up to users and clocks. In `Pipeline` the build's own steps are fair
(`BuildStep`): every one is a shell command that ends, curl and socat give up
after a time, and the killer removes the container after `timeout_seconds` (its
`docker rm -f` is taken to work; if it does not, the 90 minutes of the build's
options stop it: `Abort`);
nothing is assumed of the harness, the API, the sidecar or the user. In
`RunPage` the polls of the browser and their answers are fair
(`RunPageProgress`); `PollingEnds` says nothing while requests still fail.

### What the code does that the documents do not say

Each of these runs checks one statement of a document or a comment, and TLC
finds a behaviour against it. `PROJECT.json` quotes the statement.

| Run | Behaviour |
|---|---|
| `cancel_misses_build` | `build_started` is handled before the second transaction of `triggerRun`, which then puts the queue item's URL back. A cancel posts `cancelQueue` for an item that no longer exists, takes the 404 for success and marks the run cancelled; the build goes on |
| `failed_abort_stays` | a job in the failed set keeps its id: the sweep's re-enqueue is a no-op from then on |
| `reuse_rolled_back` | the rotation of a token already rotated revokes all sessions and then throws inside the transaction: nothing is revoked |
| `allowlist_ignored` | `jq`'s `.hermetic // true` takes its right side for `false` too: a project with an allowlist gets a hermetic chain, and the apply is answered ok |

Smaller differences that are not runs; the model follows the code in each:

- `docs/run-state-machine.md` gives a stale heartbeat as the condition of the timeout; the sweep
  evaluates it when it scans, and a heartbeat that commits before the update
  does not save the run (`SweepRow`).
- `docs/webhook-contract.md` takes a 410 for "the run ended". A run whose build
  never sent `build_started` is still queued: an event that needs it started is
  dropped with a 410 too, and the run waits for its time limit (`ProcessEvent`).
- `docs/run-state-machine.md` and `docs/webhook-contract.md` call a run passed when
  all its cases passed; the code, when none of them failed or errored, so that
  skipped cases, or none at all, pass too (`StatusOf`).
- `docs/run-state-machine.md` wants every transition audited with it; `cancelRun`
  writes its audit entry after the update, and a crash between the two leaves a
  cancelled run without one (the audit log is left out of the model).
- A late `build_started` enqueues an abort under the build's URL. If the worker is
  just then at the job under the queue item's URL, `remove` fails, `add` finds the
  id in use, and the build's URL is dropped, although the comment in
  `aborts.queue.ts` says that the newer URL replaces the older (`EnqueueAsserted`).
  `OrphanBuildsStopped` therefore starts where the URL has reached the job or the row.
- The `catch` of `triggerRun` also runs when Jenkins accepted the build and the
  second transaction failed: it audits a failed trigger.
- Declarative runs `always` before `aborted` and `failure`
  (`docs/phase-1-devops.md` says otherwise): the wipe of `always` is over when
  the others write their JSON into the workspace (`Pipeline`).
- The header of `firewall.sh` promises that a container without its rules cannot
  start. `set -e` is off inside the `if` around `apply_rules`: a failing insert
  into `DOCKER-USER` is not noticed when the one into `INPUT` succeeds, and the
  apply is answered ok. `ContainerConfined` names that exception.
- The `Jenkinsfile` cleans up in `always`. A build stopped while `always` runs, or a
  failing `docker rm -f ... || true`, leaves its container and network behind;
  `EndedBuildLeavesNothing` says exactly when.
- The clean-up of the firewall comes before `docker rm -f`: the container of an
  aborted build may run on for a moment without rules. `ContainerConfined` says
  nothing once the clean-up has been asked for.
- The client waits half a second for the answer of a clean-up; hooks may stay
  when the network is removed before the handler has inspected it (`Firewall`).
- A create of a credential whose audit entry fails is answered with an error
  although it has committed (`AuditCreate`). Two overlapping creates leave two rows, although a comment in
  `credentials.service.ts` says that one remains (`Credentials`).
- Deleting a repository with an active run frees the user's fence while the build
  goes on; the page promises that recorded runs are kept, the schema cascades
  (`Catalogue`).
- `useRun` starts no timer when its first request fails, and the effect's
  clean-up stops only the timer it knows (`RunPage`). On the lists the answer
  that comes last wins, whichever filter it was for (`ListPage`).
- `JenkinsClient` sends a request refused with a 403 again with a fresh crumb; when
  the issuer gives none it sends the stale one again (`JenkinsCrumb`).

## 4. Proofs

Every invariant, action property and refinement that a passing run checks is
also a theorem, checked by TLAPS, for any users, runs, tabs, requests, rows,
faults, number of crashes and attempts; liveness stays with TLC. The
assumptions (`OwnerAssumption`, `AttemptsAssumption` and the like, one in each
module with constants) only type the constants.

- `MachineSafety`: the state machine keeps one active run per user and stores
  cases exactly with their verdict.
- `SessionsTyped`, `RotationChainsEnd`, `LogoutEndsSession`, `JarIsCurrent`,
  `OwnTabRefused`: `TypeOK`, `ChainsEnd`, `LogoutRevokesToken`, `CookieCurrent`
  and `NeverRefusedByOwnTab` of `Sessions`, for any number of tabs, calls and
  tokens and any faults.
- `TypeCorrect`: `Spec => []TypeOK`, with one step per action
  (`RunLifecycleTyping`).
- `Lifecycle`: the inductive invariant `LifecycleInv`, and from it `Fence`
  (`OneActiveRunPerUser`), `AbortsSafe` (`AbortsOnlyTerminalRuns`), `Frozen`
  (`TerminalRowsFrozen`), `Refinement` (`RefinesStateMachine`), `Results`
  (`ResultsMatchVerdict`) and `CancelsStop` (`CancelStopsBuild`).
- `DeliveryImplementsDeliveries` and `BuildImplementsDeliveries`: `SettledOnce`,
  the refinement of `Deliveries`, for sender and receiver alone and within a
  build, for any number of attempts and retries.
- `BuildTyped`, `OpenRowsEnded`, `ResultsJustified`, `FinalEventsEndRuns`,
  `Confinement`, `NothingLeft`: `TypeOK` and all other invariants of `build` and
  `clean_up`, for any number of failing commands and aborts.
- `Replacing`, `OneLeft`, `References`, `CrumbRetries`, `FreshRetries`:
  `SupersededGone`, `NeverLeftWithout`, `NoDanglingRow`, `TakenOnce` and
  `RetryIsFresh`, for any number of concurrent requests.
- `PageSettles`, `WalkGivesAll`, `PageShowsOwnChanges`:
  `SettledPageIsCurrent`, `WalkComplete` and `OwnChangesShown`, for any number of polls, loads, rows and limits.
- `PartsApart`: a behaviour of `MCParts` is a behaviour of the own specification of
  each part (`CredentialsSpec`, `RunListSpec`, ...). So what is proved of each holds
  of the specification that the run `parts` checks: `PartsTyped`, `PartsHold`.

The argument. `RowSteps` shows that every step but the fence's insert leaves
`status` and `cases` alone or takes one row along the table (`Onward` for each
row). It needs no invariant beyond types: each writer's update is
conditional. The rest is about what lets the *other* steps be right:

- `FenceInv`: while a `triggerRun` holds the lock its user has no active run. It
  is why the insert is the abstract `Create`, and it needs the lock
  (`trig[s] = "counted" => s = r`).
- `StartInv`: a build has a row, an unstarted build has sent nothing, and a
  running row has had `build_started` answered. It is why a mismatch of pins
  with the transaction still open cannot concern a running run.
- `SnapshotInv`: a row that a cancel read as running, or a scan picked as an
  orphan, has at least not gone back. Since rows only move onward, an old
  reading stays good enough.
- `AbortsOnlyTerminalRuns` then holds for every caller of `enqueue`:
  the sweep and `markRunningAsError` by `SnapshotInv`, the webhook handlers by
  `StartInv`.
- `StopInv`: a build's URL, on the row or read from it by a cancel, is that of a
  build that has begun, and after the abort under it the build is stopping. No
  step takes a build back (`BuildsGoOn`), so what the abort has done still holds
  when `cancelRun` writes the row, several awaits later: `CancelStopsBuild`.

For the sessions, `StoreSteps` reduces every step of every actor to what it does
to the rows: nothing, an insertion, or a rotation, revocation or expiry of a row
that *exists*, which is why the type invariant says that a request past its
verification is about a row. `ChainsEnd` is inductive over these. A row that is
not valid never becomes valid (`SpentStaysSpent`); with `CookiesIssued`, that
the cookies of the browser name rows that exist, so that no later insertion can
make a refused token good, this gives `LogoutRevokesToken`, although `revoke`
acts on a row it read before.

`CookieCurrent` needs to know where a token can be. `TokensInv`: one that has been
in the jar, in a request or spent (`Seen`) is in no answer under way, and each
token is in one answer at most. So the answer that arrives brings a token
that nobody can have exchanged yet, and a rotation that exchanges the jar's
token is itself a change of the cookie under way (`ChangeUnderWay`).
`NeverRefusedByOwnTab` needs that a tab's refreshes come one after another:
`OneRefresh` (the one under way is that of the call which `inFlight` names),
`JarReplaced` (a token the tab has spent leaves the jar with that refresh's
answer) and from them `PresentsUnspent`.

For the delivery of webhooks, `DeliveryInv` says what makes the unique key and
`processed_at` enough. `FreshAlone`: a transaction that will insert the row of its
event finds none when it commits, and there is one such transaction. `OpenFound`:
a request that found a row without `processed_at` is a `build_started` of a run
that has ended, so what it commits adds nothing (`CommitSettles`).
`RunningStarted` excludes that a build_started loses its update to a running run.
`ReportedRunEnds` needs the order of the stages as well: `EventsInOrder` shows
that no final event is under way when `build_started` is delivered, so none has
read the run as queued (`FinalEventsEnd`).

For the firewall, `AskedInOrder` ties the place of each handler to the stage of the
build and `RulesInPlace` the chain to the place of the apply handler, until the
clean-up is asked for; together they give `ContainerConfined`. `TidyInv` follows the
host's tables: none of the build's rules are there before the apply (`NoRulesYet`), the
network stands until the clean-up has been answered (`NetworkStands`), and, unless
the apply was given up or one of the clean-up's commands failed, how far the clean-up
has come (`CleanedSoFar`) decides what it has removed (`RulesGone`, `HostCleared`).

`CredentialsInv` follows the superseded rows through the statements of `create`
(`InSight`); `CrumbInv` says that a crumb told to a retry is no older than its
refusal, since Jenkins's crumb only moves on.

For the page of a run, `AsksAgain`: while it shows a status that is not final, some
chain of polls will ask again, and not as the first request of a refetch, whose
failure ends its chain; and a final status that was read anywhere is the run's
last (`EndedIsLast`).

For the list of runs, `SortedExists` shows that a finite set of rows has a
descending enumeration, without induction: the place of a row is one more than the
number of newer ones, which maps the set injectively, hence onto, into `1..n`.
`PageProperties` follows for one page: its rows are the newest behind the cursor,
and each other one is behind the next cursor. `WalkInv` carries this
along the walk: the cursor is the last row given, and each row there was at the
start has been given or is behind it. Only the finiteness of the table is assumed
(`RunListInit`).

For the pages that change a list, `LoadsKnow`: the answer of every load on its way,
overtaken ones included, reflects through its filter what the page had done when
that load was asked for, and with `ShownKnows` so does what the page shows. They
need `RowsOnce` (a row that is gone does not return, so no later answer can show what
the page has deleted) and `LoadsFollow` (one load at most is the newest, and none
once data is its answer), which gives the case of a page at rest.

Only model-checked: liveness, which is out of the prover's reach with its fairness
and `ENABLED`: `EveryRunEnds`, `OrphanBuildsStopped`, `CancelAnswered`,
`CallsSettle`, `BuildEnds` and `PollingEnds`.

## 5. Abstractions

- In `RunLifecycle` a webhook with one idempotency key takes effect once.
  `WebhookDelivery` justifies it: `SettledOnce` is its refinement of
  `Deliveries`, and `OpenRowMeansEnded` says that the one key that can be
  processed twice belongs to a run that ended in between.
- `enqueue` is one step, although it makes up to three calls to Redis.
- The audit log is left out of `RunLifecycle`: nothing reads it, entries are written in
  the transaction of the transition or after it, and one that fails after a
  cancel's update changes only the answer.
- One build per run: Jenkins does not restart a build.
- In `RunLifecycle` the stages of the pipeline are the single state `building`;
  `Pipeline` has them one by one, for one build.
- `Credentials`, `Catalogue`, `RunList`, `RunPage`, `ListPage` and
  `JenkinsCrumb` run one at a time in `parts`: they share no state with one
  another, and what they share with a run is an input chosen freely.
- Ciphers, the text of parameters and the contents of files are left out, as are
  the log-in and dashboard pages, the delete button of `repos/[id]`, the results a run's
  page shows, the projects offered in forms, and the upload and deletion of archives.
- The reaper's scans have no `take: 100` and no 24-hour window.
- A heartbeat is an action of the API alone; it may carry an old time.
- `Sessions` is about one user and one browser, whose requests reach the path the
  cookie is set for (`/auth`). A request is lost before the API sees it or its
  answer is lost. The cookie of an answer and `setTokens` take effect in one
  step. A tab is reloaded, and its login form used, when it has nothing under
  way. Sign-up is a login: both end in `issue`.
- `CookieCurrent` is about tokens that were exchanged. `reuse_rolled_back` shows that a
  reuse detection revokes nothing today; one that committed would, by design,
  revoke the token in the jar, and the property would hold all the same.
- Fields of a request that is over are reset, so that states do not differ in
  what nobody reads any more.
- Jenkins, BullMQ's redelivery and process crashes are outside the repository
  and modelled from how the code uses them.

## 6. Plan

Done: the run state machine, the lifecycle that implements it, the sessions, the
webhook receiver and the contract it implements, the pipeline with the firewall
sidecar, credentials, the catalogue of projects, repositories and contributions,
the run list and the pages, the crumb of the Jenkins client.

1. `AbortsEnqueue`: `enqueue` as its separate calls to Redis, with two callers
   and a worker, shown to implement `AbortsQueue`'s one-step operations.
2. What a logout means for the other calls of its tab: a refresh that was under way
   sets the tokens again (`AuthProvider.tsx`). The model has the steps; the
   documents state no promise to check.

Run a check with `tlc -workers 2 -config Lifecycle.cfg MCRunLifecycle.tla` and a
proof with `tlapm RunLifecycleProofs.tla`.
