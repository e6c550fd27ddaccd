# A TLA+ verification project for Apiome

Apiome is a platform for API specifications: a REST service (`apiome-rest`, Python,
PostgreSQL), a mock server (`apiome-mock`), an agent gateway (`apiome-mcp`), web
frontends, a CLI and migrations. Most of the REST service is request handlers over
single transactions. The parts that are hard to get right are its **background
pipelines** (queues in PostgreSQL tables which several replicas work on, leases, external
registries that answer late, retries by machines and by people) and the few places where
**requests meet over rows** that they read in one transaction and write in another.

This project models

* the longest pipeline end to end: *a version is published, jobs are queued, a worker claims
  one, releases an SDK package to npm or PyPI under a version number claimed in a ledger,
  and pushes it to git*;
* the sweep that delivers webhooks, with its two queues;
* one revision of a project: its draft lock, the changes made to it and its publication;
* the sessions of the mock server, in the store its replicas share;
* the quotas of an agent key, as the processes of the agent gateway enforce them.

Paths below are relative to `src/apiome-rest/src/app/` unless they say otherwise.

## 1. Inventory

### 1.1 Modelled

| Component | Source | State it keeps | Operations |
|---|---|---|---|
| SDK publish pipeline | `sdk_publish_pipeline.py`, `sdk_registry_client.py`, `sdk_publish_*` statements of `database.py`, `V256__sdk_package_publishing_4495.sql` | table `sdk_publish_runs` (status, regen counter, release); the registry itself | `publish()`: refuse, rehearse, claim a number, build, upload, close the row |
| SDK auto-regen queue | `sdk_regen_worker.py`, `sdk_regen_policy.py`, `sdk_regen_subscriptions.py`, `sdk_regen_*` statements of `database.py`, `V258__sdk_regen_on_publish_4497.sql` | tables `sdk_regen_subscriptions`, `sdk_regen_jobs` (status, attempts, `next_attempt_at`, `claimed_at`, `claim_token`, progress of the steps) | enqueue, subscribe, lease sweep, claim, run steps, save progress, close, alert, retry |
| Regen routes (in part) | `sdk_regen_routes.py` | none of its own | the retry route's check and its requeue; subscription changes |
| SDK git delivery (as the queue sees it) | `sdk_git_delivery_pipeline.py` | a branch per job; its own ledger | a push, then a pull request, then a result |
| Push and export webhook delivery | `push_webhook_delivery.py`, `export_webhook_delivery_pipeline.py`, the sweep of `main.py`, their statements of `database.py` | `push_webhook_delivery_events` and `_attempts`, `export_webhook_delivery_runs` | enqueue, claim, POST, record, record an internal error, take a stale row back, (de)activate a subscription |
| Draft locks, source applies and publication (in part) | `draft_lock_routes.py`, `source_review_routes.py`, `versions_routes.py`, `classes_routes.py`, their methods of `database.py` | `version_draft_lock`, a row of `versions` with its classes, captured schemas, inbox rows and audit rows | acquire, renew, release; edit a class; apply a reviewed source change; publish, unpublish |
| Mock server sessions | `apiome-mock/src/apiome_mock/postgres_session_store.py`, used by `stateful_handler.py`, `lifecycle.py`, `scenarios.py` | `mock_session_state`: a row per resource of a session | allocate an id, read, put, delete, reset, expire |
| Agent quotas | `apiome-mcp/src/apiome_mcp/agent_quotas.py`, the rows of `agent_invocations.py` | per process: the cached caps of a tenant, a key's counter of the day and its token bucket; shared: table `agent_invocations` and the tenant's license | `admit()` with the two reads it awaits; a call's row is written; the license changes |
| Persistence layer (in part) | `database.py` | one class with the statements of the whole service | those of the components above |

How they interact. The version-publish route hands `enqueue_sdk_regen_run` to a
background task. `main.py` runs `process_sdk_regen_sweep` on a timer in every replica. A
tick dead-letters claims past their lease and alerts them, then claims jobs one at a time
and runs each in a thread; the job's registry step calls `publish()`, the same function the
publish routes call, and its git step pins the delivery to the counter `publish()`
returned. Nothing is shared in memory: claims, leases and numbers are rows, and every
statement commits by itself. `main.py` runs the webhook sweep in the same way; among the
events it sends are the alerts of dead-lettered jobs. The draft lock guards the source
applies of a revision, and its publication is the event that queues jobs. The mock server
and the agent gateway share only the database with all of this.

Which behaviours are hard here:

* the next number is *read* by one statement and *claimed* by another, so concurrent calls
  race on a partial unique index;
* an upload has a timeout, and the registry may have stored it all the same, may store it
  later, or never;
* closing a row is best effort: a process may die, or the write may fail and only be logged;
* a worker can outlive its lease: the sweep dead-letters its job, a person retries it,
  another worker claims it, and then the first one closes its attempt;
* settings (mode, dry run, active) change between two attempts of one job, and inside one;
* a dead letter is committed by one statement and alerted by a later call;
* a webhook is sent between two transactions, its answer may be lost, and so may be the
  answer to the commit that records it;
* reading the database clock, or a version's classes, goes through `execute_query`, which
  commits (`database.py:452`): a lock is judged in one transaction and written in another,
  and a publication is two transactions;
* the mock store counts rows without locking them, and locks a session's rows in any order;
* an agent call reads the clock once and then awaits the database twice, while other calls
  of its process change the counters it will be judged by.

What makes the SDK components correct: version numbers are exclusive and never go
backwards; the ledger and the job's row say of the registry only what is true there; a
claim is held by one worker, and a claim that was given up never speaks for the job again;
work that is done is neither forgotten nor repeated by machines; jobs of one subscription
keep their order; everything queued comes to an end; what failed for good is alerted. Of
webhooks: one worker at a time, no more attempts than the budget, an outcome that is true
and stays. Of a revision: one editor holds the lock, a change replaces the document it was
reviewed against, a published revision is not rewritten and its collaborators are told. Of
sessions: caps hold as far as requests that count without locking can keep them, ids are
not given twice, and requests that wait for each other's rows end. Of quotas: nobody is
refused a call the cap allows, a process keeps to the caps by what it knows, and a new
license applies in time.

### 1.2 Not modelled yet, or not at all

| Component | Where | State, and what would make it correct | Plan |
|---|---|---|---|
| Repository refresh, MCP discovery | `repository_refresh_sweep.py`, `mcp_discovery_sweep.py`, `database.py:19002,24065` | advisory locks (single flight), failure counts, auto-pause | planned |
| Export automation | `export_auto_worker.py`, `export_auto.py`, `database.py:37133-37300` | a second leased queue with the regen queue's shape | planned, against `JobLifecycle` |
| Git delivery ledger and GitHub client | `sdk_git_delivery_*.py` | delivery rows, branch and pull request | planned |
| CLI login | `cli_login_store.py` | one-time codes with an expiry | small; if time allows |
| Smaller locks and sweeps | `database.py:20812` (file scans), `20068` (secret rotation), `23554` (digests), `29094` (job retention), `32845` (verification schedules), `39016` (reviews), `40089`, `41445` (draft sync) | single statements guarded by status | not planned: a single conditional statement each |
| Import/export engines, lint, catalogue, versions, governance | `import_pipeline.py`, `versions_routes.py`, ... | sequential transformations and single-transaction handlers | out of scope: data, not control |
| Mock requests, callbacks, rate limits | `apiome-mock/.../handler.py`, `callback_dispatch.py`, `rate_limit.py` | in-process windows and queues of one server | not planned |
| Agent gateway tools | `apiome-mcp/.../server.py` | stateless tools over the catalogue | out of scope |
| GitHub client | `sdk_git_delivery_github.py` | HTTP calls; their effects are left open in `SdkRegen` | with the delivery ledger |
| Frontends, CLI, migrations, deployment, docs | `apiome-ui`, `apiome-browse`, `apiome-cli`, `apiome-db`, ... | presentation and one-off scripts | out of scope |

## 2. Modules

```
JobLifecycle      abstract: what a leased queue promises about one row
   ^ implemented by
SdkRegen          the queue, with the registry step left open ("any outcome")
   ^ implemented by
SdkRelease        SdkRegen + SdkPublish: the registry step really calls publish()
   | instantiates
SdkPublish        publish(), its ledger, the registry

WebhookDelivery   the webhook sweep, with both queues
DraftRevision     one revision: lock, changes, publication
MockSession       the resources of the mock server's sessions
   ^ extended by
MockSessionIds    ... with a history of the ids it allocates

AgentQuota        the caps of an agent key in several processes

MC...             model values, symmetry and constraints for TLC
..._proofs        theorems and proofs about the module of that name
```

### SdkPublish

One release series of one package, which is the scope of a counter. `ledger` is
`sdk_publish_runs`; `registry` maps a counter to the row whose upload it stored; `upload` is
the fate of each row's only request; `call` is the program counter and locals of each
thread inside `publish()`. One action per step between two points where others can act:

| Action | Code |
|---|---|
| `Refuse`, `Begin`, `DryRun` | `publish()` up to the claim; `_dry_run` |
| `ReadCounter`, `ClaimWins`, `ClaimLoses` | `_claim`: `next_sdk_publish_counter`, then `insert_sdk_publish_run` against the partial unique index, counting up at most `MAX_CLAIM_ATTEMPTS` times |
| `BuildFails`, `SendUpload` | the package build, and the request leaving |
| `RegistryAnswers` | external: stores once, conflicts, rejects, or 5xx/429, at any time after the request left, even if nobody waits any more |
| `CloseAnswered`, `Timeout` | `_receipt_from` and `_finish`; the timeout branch of the client |
| `Breaks` | an exception `publish()` does not expect (a failed statement): the row stays as it is |
| `Return`, `Crash` | the caller goes on; the process dies |

`FinishRow` takes a Boolean because the closing write may fail and is only logged. An upload
the registry answers 5xx *after* storing it behaves like `Timeout` (same status, same
outcome), so `RegistryAnswers` does not list it again. `floor` is auxiliary: it remembers
the largest number released when the call began.

### SdkRegen

`sub` and `job` are the two tables; `worker` is the program counter and locals of each
thread in `process_sdk_regen_sweep`/`run_claimed_job`; `pull` is the version the branch of a
job asks for (branch names carry the version line, so branches of two publishes differ);
`event` and `revision` are the publishes; `asked` holds retry requests between the route's
check and its statement. Booleans stand for clock comparisons: `due` for `next_attempt_at <=
now`, `expired` for a claim older than the lease; `LeaseExpires` and `BackoffElapses` flip
them at any time, so no assumption is made on durations. `alerted` and `settled` are
auxiliary.

Every SQL statement is one atomic step, as in the code, where each commits on its own.
`Tick` is `reap_stale_sdk_regen_jobs`; `Claim` is `claim_next_sdk_regen_job` (the code's
`ORDER BY` picks one claimable row, the model any: it has more behaviours, not fewer);
`Start` to `GitReturn` are `_execute` with its steps; `SaveProgress` is
`_save_registry_progress`; `Finish` is the close-out with `decide_after_failure`;
`AlertReaped` and `Alert` are `notify_dead_lettered`; `AskRetry` and `Requeue` are the retry
route. `ReapFails`, `ClaimFails`, `FinishFails`, the failing disjunct of `SaveProgress`,
`DropEnqueue` and `Crash` are the faults. The kill switch makes a tick do nothing, which is
a stutter and has no action.

`Enqueue` takes its place in the queue in the step that commits it. In the code
`created_at` is the start of the statement's transaction, so two inserts that cross could be
ordered the other way; the model does not have that case.

### SdkRelease

Workers are publishers and jobs are releases. `CallPublish` is `RegistryStart` together
with `publish()`'s first step, `TakeOutcome` its return, `WorkerDies` takes the call along.
All other steps belong to one of the two components, with the other unchanged. There is one
package, as a counter is one package's. `WorkersTellTheTruth`, `PublishesOnce` and
`PublishesAreRationed` complete `ReleaseInvariant` to what the proofs need.

### WebhookDelivery

`row` holds the rows of both queues; `worker` the thread of a sweep (which goes through the
push queue, then the export queue) or of a request, between its claim and its close-out;
`posts` and `taken` are histories of what was sent and what the receiver took.

| Action | Code |
|---|---|
| `Enqueue`, `StartDelivery`, `Toggle` | `enqueue_push_webhook_delivery` and `_insert_direct_delivery`; `start_delivery`, whose thread makes the first attempt; `update_push_webhook_subscription` |
| `Tick`, `Claim`, `NextQueue` | the sweep; `get_next_due_push_webhook_delivery`, `claim_next_due_export_webhook_delivery` |
| `Post`, `NotSent` | the request, with silence for a lost answer; a secret or a URL that is refused |
| `Record`, `RecordRejected` | `finalize_push_webhook_delivery_attempt`, `record_export_webhook_delivery_attempt`; the unique index on attempts |
| `RecordFails`, `RecordUnconfirmed`, `AttemptBreaks`, `Crash` | exceptions, after which the sweep records an internal error; a commit whose answer is lost |
| `FallsDue`, `GoesStale`, `OutlivesClaim` | time: the backoff, and `stale_after_seconds` of a row nobody works on, or somebody slow does |

### DraftRevision

`version` is the revision (its document up to its fingerprint), `lock` its row in
`version_draft_lock`, `lease` what each editor was last told, `call` the request a replica
serves. A request is one action for each of its transactions: `AcquireBegin`/`AcquireEnd`
and `RenewBegin`/`RenewEnd` are split where `_draft_lock_now` commits, `ApplyBegin`/`ApplyEnd`
are the first read and the commit of `apply_source_change_set`, which holds the version row
in between (`VersionRowFree` makes the others wait), and `PublishAsk`, `PublishBegin`,
`PublishEnd` are the route's check, the `UPDATE` with the reading of the classes, and the
captured schemas with the inbox rows. `version.schema` says
which document the schemas captured for its present classes describe: `PublishEnd` writes
those of the document that `PublishBegin` read, over any there are (`Captured`); an apply makes
new classes, so that afterwards none are captured, and a publication that read the old ones
(`applies` has moved on) writes schemas of classes that are gone. Properties of the classes are
read just after the commit of `PublishBegin`; the model reads them in it, as only a canvas
edit could come between. `Edit` is a class update, one statement that asks for
nothing. `Release` and `Unpublish` are single transactions, `RunsOut` and `RowRunsOut` are
time, `Fail` the death of a request, which rolls its open transaction back. `overlapped`,
`edited`, `waiting` and `bypassed` are histories the properties speak of.

### MockSession and MockSessionIds

`row` is the ids of each session's committed rows; `call` is a request of the mock server,
which calls one or two methods of the store. A method is a transaction; under READ COMMITTED
it sees what is committed when a statement begins, takes row locks one at a time (`Lock`, in
any order) and waits for those of others (`LockedAway`). Rows deleted meanwhile are passed
over, and rows inserted later under the same id are not seen (`Forgetting`). `Allocate` is
`next_integer_id`, whose id is put by a later transaction (`Judge`, `Insert`, `CommitPut`);
`Reset`, `Clear`, `Seed`, `CommitReset` are `replace_session`; `Expire` is the purge every
method begins with, as a step that commits at once (section 5); `Abort` is the database
breaking a deadlock. The session key, bodies and sizes are left out, and a session has one collection.

### AgentQuota

One agent key. `limits`, `usage` and `bucket` are what each process keeps of it in memory;
`counter` holds the counters, named by the call that opened them, since a call that waits
keeps its counter while its process may open another; `tier` is the license in the
database, and `call` the program counter and locals of each `admit()`, together with its row
in `agent_invocations` once that is written. `late` and `changed` are histories.

`admit()` runs on an event loop: it is interrupted only where it awaits. So `Arrive` goes from
its start to the await of the caps, of the count, or to its end (`Proceed`, `Judge`,
`Throttle`, `Admitted` are its sections), `LimitsAnswered` and `LimitsFail` from the answer on
(`limits_for`), `CountAnswered` and `CountFails` from the second one (`_usage_for`).
`ReadLimits` and `CountCalls` are the moments at which the database reads, so that answers
may be overtaken. `Record` writes the row when the call has ended; a row that is lost, and a
process that stops, are calls that take no further step, and a restarted process is another
`Process`. The clock is read once, at the start of `admit()`, and everything afterwards goes
by that reading, as in the code.

## 3. What TLC checks

`tlc -config X.cfg M`. Distinct states, and times with two TLC workers.

| Run | Size | Question |
|---|---|---|
| `SdkPublishCalls` | 872k states, 52 s | 2 callers, 3 rows: numbers exclusive and increasing, ledger true to the registry; every call comes back though the registry owes nothing; inductive invariant |
| `SdkRegenOneJob` | 782k, 37 s | 1 job, 2 workers, settings that switch between git only, rehearsal and real, a retry, a fault: lifecycle, budget, tokens, memory; success means every step was done; a dead letter without a fault is alerted or about to be; inductive invariant |
| `SdkRegenQueueEnds` | 431k, 33 s | 2 publishes, a worker with a batch of two, a fault: nothing is overtaken, every job ends, none blocks its successor for ever |
| `SdkReleaseOneJob` | 325k, 35 s | 2 workers on one job, one past its lease: row and registry agree, pull requests are installable, machines never repeat a publish they know of, the branch strays only through a late worker; the composition implements `RegenSpec` |
| `WebhookDeliveries` | 731k, 54 s | a push event and an export delivery, 2 workers: claims, budget, outcomes; everything ends but a push event whose worker is gone; inductive invariant |
| `DraftRevisions` | 1,380k, 26 s | 2 replicas, 2 editors: what the version row's lock keeps apart although a draft lock is judged and written in two transactions; schemas and inbox rows of what is published; inductive invariant |
| `MockSessions` | 197k, 30 s | 2 requests, 3 sessions: caps are exceeded by no more than the requests at once bring; every request ends, deadlocks included; inductive invariant |
| `AgentQuotas` | 949k, 66 s | 2 processes, 3 calls, a midnight, a change of license, lost rows and failed reads: what a process counts is one day's calls and none twice, refusals are earned, its own caps and rate hold but for calls that waited; inductive invariant |
| `SdkRegenLostAlert`, `SdkReleaseTwice`, `DraftUnannounced`, `MockIdsAgain` | | documented claims the code does not keep, see 3.3 |

Every property of a passing run has a mutant: a plausible mistake in the code (a token not
compared, a status not checked, an index that forgets in-progress rows, ...) under which TLC
finds the property violated. The mutated forms stand beside what they mutate, marked
as mutants; no specification uses them.

Each component has one invariant that begins with its types and goes on to what is needed to
prove the rest (`PublishInvariant`, `RegenInvariant`, ...); it is checked as a whole, and so
are the three invariants of the composition, as `ReleaseInvariant`. Properties that are
theorems and follow from a checked invariant in one step have no run of their own
(`UploadsAreClaimed`, `DoneIsFinal`, `AttemptBudget`, `GitIsLast`, `OneHolderPerToken`,
`DeliveredWasTaken`).

### 3.1 Bounds

`MaxCounter` and `Run` bound the numbers and the publishes of a series; `MaxClaimAttempts` is
2, enough to lose once and win, and to give up (the code: 5). Two callers and three rows are
the fewest with which a number can be freed below one that is released, and then be asked
for again. `MaxAttempts` is 2: one attempt that backs off and a last one (the code: 4, for
jobs and for webhooks).
`MaxRetries` is 1, so that a job can be dead-lettered, retried and closed by both its first
and its second holder. `MaxSubChanges` is 1 or 2: a subscription is made, then changed.
`Settings` are the settings a change may choose: in `SdkRegenOneJob` git only, rehearsal and
real publishing with git, in the others one or two of them. `MaxFaults` is 1, one crash or
one failed write at any point. In `SdkReleaseOneJob` the constraint `OneTrouble` allows one
manual retry or one fault, not both: a late worker needs the first, a lost alert the second.
There and in `SdkRegenOneJob` (`RetriedOnce`) a job that a person retries was dead-lettered by
its lease at its first attempt, and gets one more: the first holder may then still close,
next to the second one or after it.
Tokens are as many as claims can be open or remembered. A worker takes a token nobody holds;
since the model reuses tokens that left every row and every worker, there is always one: three
in `SdkReleaseOneJob`, where the row and the other worker hold two when a worker claims.

`WebhookDeliveries`: `MaxLate` is 1, one attempt that outlives its claim or one commit whose
answer is lost; `MaxToggles` is 1, one deactivation; `Batch` is 1, so that a tick ends with
work left over. The two queues meet only in their workers, so one row of each is enough to
have both at once. `DraftRevisions`: two of everything, `MaxEdits` 1 and `MaxApplies` 2: two
applies and a canvas edit between them. `MockSessions` (`OneLarge`): the first session has
three ids with a cap of one, so that the bound on resources, twice the cap, could be broken;
the cap on sessions is one with three sessions, for the same reason.

`AgentQuotas`: `DayLength` is 2 and `MaxTime` 2, a day of two ticks and the first of the next, so
that a call can wait within its day and over midnight, and a bucket can be refilled past its
burst; `LimitsTtl` and `UsageTtl` are 1, so that both caches serve calls and both expire
before midnight and after it. Three calls are a first one, one that
waits and one that comes meanwhile, on the process of the first or on the other. The license
may change at tick 1 (`ChangeTimes`), in the middle of what is cached. One of the three
tiers has a daily cap of one and a rate of one, one a rate only, one neither; the constraint
`Licenses` has a tenant begin on one that has a rate and change to the first or the last, so
that caps are lowered, raised and lifted. The exceptions
in `OwnCallsCapped`, `RateKept` and `TierAppliesInTime` all occur within these bounds: without
any of them TLC finds the property violated.

The proofs of section 4 use none of these bounds.

Liveness is stated as what happens again and again (`[]<>`: a call is idle, a job is not
active), which for requests and jobs that end says the same as that each leads to its end.
No run of a liveness property uses symmetry or a constraint. `CHECK_DEADLOCK FALSE` is for models that use up
what they have: in `SdkPublishCalls` a row id is used once, so when all rows are used and the
callers are idle nothing happens any more; `AgentQuotas` stops when its clock and its calls
have ended.

### 3.2 Fairness

`PublishFairness`: weak fairness of the steps of a call and of its return. `publish()` is
straight-line code with a bounded loop and a request with a timeout, so a thread that does
not die keeps moving. Nothing is assumed of the registry.

`RegenFairness`: weak fairness of each worker's own progress, of leases running out and of
backoffs ending. Workers are timers in every replica, and each call they make comes back:
`publish()` by the property `CallsReturn`, the git step by its client's timeouts. Nothing is
assumed of people or faults, and a worker that crashes starts ticking again, as the
service's process manager restarts it.

`WebhookFairSpec`: weak fairness of each worker's own work, of backoffs and of the staleness
of rows nobody works on, for the same reasons; a POST has a timeout. `MockFairSpec`: strong
fairness of requests that are half way, since PostgreSQL grants a row lock to those who wait
for it in turn, and weak fairness of `Abort`, its deadlock detector. `DraftSpec` has none. `QuotaSpec` has no fairness: an `admit()` whose database
never answers waits, and nothing is claimed of it.

### 3.3 Findings

Four statements of the documentation are not what the code does; each has a run that ends
in a violation, and PROJECT.json quotes the lines.

1. *Dead letters are alerted* (`SdkRegenLostAlert`). The dead letter is committed first and
   alerted by the same process later; a crash between loses the alert for good.
2. *A retry never publishes a second version of one publish* (`SdkReleaseTwice`). It takes two
   failures: an upload times out although it is stored, and the write that closes its ledger
   row fails, which is only logged. The row then stays `in_progress` and keeps its number, the
   queue retries the timeout by itself under the next one, and both uploads land. If the
   row *is* closed as failed its number is free, the retry takes the same one, the registry
   answers that it has it, and there is one version.
3. *A published version always has its inbox rows* (`DraftUnannounced`). They are written in
   a second transaction, since reading the classes commits the first.
4. *Ids are monotonic within a session* (`MockIdsAgain`). The shared store takes the highest
   row there is, so an id that is allocated and not put, as the counter of a scenario's
   sequence is, is allocated again.

What does hold instead: `DeadLettersAlertedUnlessFault`; `OnlyPeopleRepublish`, which counts
the publishes the ledger *knows* of; `AnnouncedUnlessFault`; `ResourceOvershoot`.

The models show some smaller things the documentation does not promise in as many words,
or that follow from the above; they have no run:

* a `failed` row of the ledger may have published (the upload timed out and was stored), and
  its number goes to the next release, which is then told that it is already published
  although the registry holds another revision (`AlreadyPublishedExists` says only that some
  row uploaded it);
* a push event whose worker dies, or whose close-out and its substitute both fail, stays in
  `processing` (`Stranded`), though `push_webhook_delivery.py:293-294` says an exception must
  not leave it there; only exceptions that can be recorded do not;
* an export delivery that is slow is taken over after `stale_after_seconds`, so that two
  replicas send one attempt (`KeptApart`; `database.py:36045` has it that they never do), and
  the one that is late can reopen what the other closed
  (`ExportOutcomeIsFinalUnlessLate`);
* the schemas a publication captures are those of the classes it read before it committed, so
  that a canvas edit between its transactions leaves older ones with a published revision,
  over newer ones if another publication had captured them (`bypassed` in
  `SchemasAreOfTheDocument`);
* two editors hold a draft lock at once when two lock calls cross (`LeaseIsExclusive`), and a
  canvas edit that comes while a source change is applied is lost (`AppliedToItsBase`);
* two resets of one session at once leave the rows of both seeds (`ResourceOvershoot`);
* a call that waits for the caps over midnight puts a counter of yesterday back, and the next
  call of today opens one that has forgotten what this process let through today
  (`OwnCallsCapped`), though
  `apiome-mcp/docs/AGENT_QUOTAS.md:42-43` has it that a process never counts fewer
  calls than it admitted today;
* a token bucket is paid twice for the time between two calls when the later one's clock
  reading reaches it first (`RateKept` allows for the time waited), and a failed read of the
  caps puts older ones, or the Free ones, in the place of newer ones (`TierAppliesInTime`
  excepts what was not read).

## 4. What is proved

`tlapm M_proofs.tla` proves everything below of module `M`, for every value of the constants
that satisfies its named assumption: `PublishAssumption` (the two "none" values are not rows
or releases, at least one claim attempt, `MaxCounter` a natural number), `RegenAssumption`
(the "none" values, a package and an event exist, at least one attempt and a batch of at
least one, settings are modes with a dry-run flag), `WebhookAssumption` (the queues are
disjoint, workers are finitely many, at least one attempt and a batch of at least one),
`DraftAssumption` (the "none" values), `MockAssumption` (finitely many requests, caps of
at least one), `ReleaseAssumption` (one package: a single ecosystem, whose counters are
`0..MaxCounter`; the "none" values), with the assumptions of both components, and
`QuotaAssumption` (finitely many calls, the "none" values, the Free tier is one, a day takes
time; caps, rates and lifetimes are natural numbers). Bounds are natural numbers. No other set
is assumed to be finite. The layout is the same in all: types; one lemma per action or group
of alike actions; a lemma on `Next` gathers them; then the properties. Where a property counts
(attempts, rows, calls, sessions), the count is bounded through one lemma per way in which
it can change, and the lemmas on finite sets do the rest.

**SdkPublish.** `PublishInvariant` is inductive (`InvariantHolds`). None of the properties is
inductive alone. `UploadsExclusive` needs that a call that uploads has an `in_progress` row
of its own (`CallsOwnRows`, `CallsMatchRows`) and that the index keeps claimed numbers apart
(`ClaimsUnique`). `PublishedIsOwn` and `AlreadyPublishedExists` need the story that registry,
requests and rows tell together (`RowsMatchRegistry`), for an answer is read long after it
was given. `NumbersFollowReleases` needs the release the floor was taken from to be there
still when the maximum is read (`FloorsHold`). From it follow `UploadsAreExclusive`,
`PublishedStaysOwn`, `AlreadyPublishedIsThere`, `UploadsWereClaimed`, `NumbersGrow` and the
action property `DoneStaysDone`.

**SdkRegen.** `RegenInvariant` is inductive (`RegenInvariantHolds`). Its parts are: each row by
itself (`RowSound`), each worker by itself (`WorkerSound`), and the pair of a worker and the
row whose claim it holds (`ClaimSound`): while the claim is open they agree on the attempt,
and what the row says is published the worker knows and will not redo. The last part is why
a late close-out can be accepted without blanking anything, and it needs `OneHolderPerToken`.
From it follow `BudgetIsKept`, `SuccessIsEarned`, `GitComesLast`, `OrderIsKept`,
`TokensAreExclusive`, the action property `PublishedIsNeverForgotten`, and `LifecycleHolds`:
every step of the queue is a step of `JobLifecycle` or a stutter, under the mapping of
status, `lost` and `claim_token` to `phase` and `holder`. `DeadLettersAreAlerted` has an
invariant of its own, `AlertInvariant`: without a fault, what a sweep has reaped and not yet
alerted it still holds, and whoever closed a job as dead is about to alert it.

**SdkRelease.** The inductive invariant is `WholeInvariant`, the invariants of both components
and `ReleaseInvariant` (`WholeInvariantHolds`). Every step of the composition is one of a
component, so its invariant is preserved by that component's lemmas; `QueueIsImplemented` is
the refinement of `RegenSpec`, for which the outcome `publish()` returns must be one the
queue's mode allows (`CallMatches`). With it what is proved of `RegenSpec` holds here (its
safety properties and `LifecycleImplemented`, in `QueueStaysSound`). `PipelineIsImplemented` is
the other side: its steps are steps of `publish()`, whose callers the workers are, and
`PipelineStaysSound` carries every safety theorem of `SdkPublish` over to the calls they make.
What ties the two together is `TellsTheTruth`: what a row, a worker or a call about to return
says was published is on the registry. It goes from the registry's answer through the ledger,
the receipt and the worker to the row, so all four are in the invariant
(`WorkersTellTheTruth`), and gives `RowsTellTheTruth` and `PullsAreInstallable`.
`PublishesAreAskedFor` counts permissions (`Rationed`): the published rows of a job, the
attempts of it that may yet publish, the attempt the queue may yet make, and the retry a
person may yet get are never more than one and one for each retry. `BranchesStrayOnlyLate`
follows from the claim: who still has it pushes the version its row says.

**WebhookDelivery.** `WebhookInvariant` is inductive (`WebhookInvariantHolds`). Push events
need that a worker either makes the attempt that comes next, alone (`PushClaimUnique`), or
one that is on record already (`PushAttemptSound`): so a second record of an attempt after a
lost answer is stopped by the attempts table, and `posts` never runs ahead of the count.
Export deliveries need a count: every worker on one but the holder of a claim that is not
stale is there through a late attempt (`ExportClaimsBounded`). From it follow `ClaimsKeepApart`,
`PushBudgetIsKept`, `DeliveredIsTaken`, and the action properties `PushOutcomesAreFinal` and
`ExportOutcomesAreFinal`. `ExportOverrunIsBounded` needs a second count, `ExportRoom`: what is
counted, the attempts that will be, those of them whose failure has the delivery tried again,
and the attempt the sweep may begin, are within the budget and two for every late attempt.
It is proved over the first part (`ClaimsSound`), which is inductive by itself.

**DraftRevision.** `DraftInvariant` is inductive (`DraftInvariantHolds`). Its core is
`ApplySound`: while an apply is under way the revision is a draft, its document is the one
the apply read unless a canvas edit came, and the lock is nobody else's unless that user's
lock call was half way when the apply began. It holds because lock calls and publications
take the version row first. From it follow `AppliesReplaceTheirBase`, `AppliesHonourTheLock`
and `PublishedStaysAsItIs`; `LeasesSound` gives `LeasesAreExclusive`;
`PublishedRevisionsAreAnnounced` is a part of it; and `SchemasFollowTheDocument` needs
`CaptureSound` and `SchemasSound`: a publication under way either read classes that are gone
since, or what it will write is what the document says, unless an edit came past it, and
what is published has its schemas or such a publication to write them.

**MockSession.** `MockInvariant` is inductive (`MockInvariantHolds`). Its first part counts the
sessions that have rows together with those that a request has been allowed to open
(`Opened`), for the cap is judged against the first and exceeded by the second. From it follow
`MockTypesHold`, which says too that no row is written by two open transactions, and
`SessionsAreBounded`. Its second part is for `ResourcesAreBounded`. A reset deletes only the
rows its statement saw, so two resets may leave both seeds, and rows put meanwhile besides:
`RoomFor` says, of *any* set of the resets under way, that the rows they would leave, a
seed for each, and the rows that are about to be added fit in one cap for each request. That
it is any set makes it inductive: a reset that commits leaves what the set with it would
have left, and its seed. A put is judged by the committed rows alone, which are then
fewer than one cap, and every other request that resets or adds has its own.

**AgentQuota.** `QuotaInvariant` is inductive (`QuotaInvariantHolds`). It ties each counter to
the calls it let through: it belongs to the call that opened it (`CountersAreOpened`), has
counted every call it let through (`CountsItsCalls`), none twice and none of another
day (`CountsNothingTwice`, `CountsOwnDay`), and so lets no more through than the cap
(`CapsAreKept`). `RefusalsAreEarned` follows from the one side, that it never counts too
much. `OwnCallsAreCapped` needs in addition that a process opens a second counter for a day
only after a late one took it back (`CountersAreFew`), and that a union of so many sets has at
most so many times their elements. `TiersApplyInTime` follows from `TiersAreFresh`.

`RatesAreKept` needs the account of each bucket (`BucketsArePaid`). The rate limit of a token
bucket is usually argued from its clock, and here the clock goes back: a call brings the
reading it took before it awaited the database, and the next call is paid for the same time
once more. So the account does not run to now but to the reading the bucket was last paid up
to: of the calls since any moment `from`, those let through and the tokens that are left are
within the rate times the burst of one, the time from `from` to that reading, and the time
the calls had waited. A call that comes with an older reading takes the second down by
no more than it adds to the third, which is why every step keeps it, and the reading is never
beyond now. It holds for the highest rate among those calls, as a license may change between
them. Waiting times are not added up but counted (`Waits` is the set of ticks each call had
waited), so that the sum of a set needs no induction over it: `WaitsJoin` says by how much
the count grows when a call comes.

**Only model-checked.** Liveness (`CallsReturn`, `JobsEnd`, `DeliveriesEnd`,
`SessionRequestsEnd`), which is beyond the prover. Every other property of a passing run is
stated by a theorem.

## 5. Left out of the modelled parts

*SDK.* Building the package, rendering, run logs, attempt logs, error texts and paging; which
package name and version string a counter becomes (a series and a counter determine it);
credentials; several series of one package, which never share a number; the git tree, the
GitHub client and the delivery's ledger; the crossing of two enqueue commits.

*Webhooks.* Payloads, signatures, and the lengths of backoffs, which only decide when a row
falls due.

*Revisions.* All row locks but the one on the version's row: those on the draft lock, classes and
captured schemas, and the key-share locks of foreign keys other than the version's. They
only make requests wait, so that the model allows more interleavings than the database does;
but nothing is said of requests that wait for each other. Creating and deleting classes, the other documents of a revision, the checks of
the publish route (they read), and administrators as users of their own: a forced release
is a release.

*Sessions.* Bodies and the byte cap, which is judged like the count of resources; several
collections of one session, which share its caps but not its ids; the store of one process.
The purge of what has expired runs at the beginning of every method's transaction, over all
sessions, and keeps the rows it deletes locked until the method commits; the model
commits it at once, so that `SessionRequestsEnd` says nothing of requests that wait for each
other's purges.

*Quotas.* That at most 50,000 buckets are kept and idle ones are dropped (a full bucket and none
are the same), fractional rates, the texts and retry times of refusals, several keys of one
tenant (they share its caps only).

*Everywhere.* A sweep opens a `Database`, and so a connection, of its own in its thread and
closes it. But the module's own one (`database.py:42321`) serves the handlers on the event loop,
the threads that routes start, and sweeps' threads as far as they call modules that use it, such
as `sdk_publish_pipeline.py:46`: a statement of one can commit or roll back a transaction
another has open on it. The models give each process its own connection and one request at a
time, so that they say nothing of two requests of one process that meet there.

## 6. Plan

1. (done) `SdkPublish`, `SdkRegen`, `JobLifecycle`, `SdkRelease`, their runs, and the proofs of
   both components' invariants and of the lifecycle refinement.
2. (done) `WebhookDelivery`, `DraftRevision`, `MockSession`, their runs, and the proofs of
   their invariants and of the safety properties that follow.
3. (done) `AgentQuota` and its run.
4. Model: `RepositoryRefresh` (advisory locks, auto-pause), `ExportAuto` against `JobLifecycle`,
   the delivery ledger under `SdkRegen`'s git step, and `Notify` composed with
   `WebhookDelivery`: whether an alert arrives.
5. (done) Proofs: the composition and its refinement of the queue, `AgentQuota`, the alerts of
   dead letters, and the bounds that count (`ExportOverrun`, `ResourceOvershoot`).
6. (done) Proofs: what is proved of `SdkPublish` over the calls that workers make, and the token
   buckets of `AgentQuota`.
7. Prove: `ExportAuto` implements `JobLifecycle`, once it is modelled.
