------------------------------- MODULE SdkRegen -------------------------------
(***************************************************************************)
(* The auto-regen queue (apiome-rest/src/app/sdk_regen_worker.py, its      *)
(* policy, and the sdk_regen_* statements of database.py): a version       *)
(* publish queues one job per active subscription; replicas of a periodic  *)
(* worker reap lost claims, claim jobs under a lease and a claim token,    *)
(* run their registry and git steps, and close the attempt; people retry   *)
(* dead letters and change subscriptions meanwhile.                        *)
(*                                                                         *)
(* Each SQL statement is one atomic step; between two statements a worker  *)
(* may crash, be overtaken by its lease, or find the row changed.  What    *)
(* the registry and git steps do is left open here (any outcome): module   *)
(* SdkRelease runs the publish pipeline in their place.                    *)
(***************************************************************************)
EXTENDS Naturals, FiniteSets

CONSTANTS
    Worker,         \* threads running process_sdk_regen_sweep, over all replicas
    Event,          \* version publishes, each of a revision of its own
    Ecosystem,      \* npm, pypi
    Token,          \* claim tokens (UUIDs; one is fresh when no row or worker holds it)
    Counter,        \* regen counters
    NoToken, NoCounter,
    Settings,       \* the subscription settings people choose: <<mode, dryRun>>
    MaxAttempts,    \* MAX_ATTEMPTS
    BatchSize,      \* sdk_regen_batch_size
    MaxRetries,     \* bound: manual retries of dead letters
    MaxSubChanges,  \* bound: changes of subscriptions
    MaxFaults       \* bound: crashes and failed database writes

ASSUME RegenAssumption ==
    /\ NoToken \notin Token
    /\ NoCounter \notin Counter
    /\ Event # {}
    /\ Ecosystem # {}
    /\ Settings \subseteq {"registry", "git", "registry_and_git"} \X BOOLEAN
    /\ MaxAttempts \in Nat \ {0}
    /\ BatchSize \in Nat \ {0}

VARIABLES
    event,      \* event -> has its revision been published, and its jobs queued
    revision,   \* event -> state of the revision it published
    sub,        \* sdk_regen_subscriptions: ecosystem -> its one subscription
    job,        \* sdk_regen_jobs: <<event, ecosystem>> -> row
    asked,      \* jobs whose retry request has passed the route's checks
    worker,     \* worker -> what it is doing
    pull,       \* job -> the version on the branch its last delivery pushed
    queued,     \* how many events have queued their jobs: the next created_at
    bounds      \* what is spent of MaxRetries, MaxSubChanges and MaxFaults

regenVars == <<event, revision, sub, job, asked, worker, pull, queued, bounds>>

Job == Event \X Ecosystem

Active    == {"pending", "running", "retrying"}
Claimable == {"pending", "retrying"}
Terminal  == {"succeeded", "dead_letter", "cancelled"}
Statuses  == Active \union Terminal \union {"absent"}

PublishDone     == {"published", "already_published"}
PublishStatuses == PublishDone \union {"none", "failed", "dry_run"}
GitStatuses     == {"none", "delivered", "failed"}
Modes           == {"registry", "git", "registry_and_git"}

\* What an attempt comes to before the policy judges it.
Results == {"none", "succeeded", "cancelled", "transient", "permanent"}

WorkerPhases == {"idle", "reaping", "claiming", "starting", "registry", "publishing",
                 "saving", "git", "closing", "alerting"}

Sub      == [id : Nat, active : BOOLEAN, mode : Modes, dryRun : BOOLEAN]
Progress == [publish : PublishStatuses, counter : Counter \union {NoCounter},
             git : GitStatuses]

\* settled (auxiliary): the job has reached a terminal status at least once.
JobRow == [status   : Statuses,
           born     : Nat,
           sub      : Nat,
           mode     : Modes,
           dryRun   : BOOLEAN,
           attempts : Nat,
           due      : BOOLEAN,
           expired  : BOOLEAN,
           token    : Token \union {NoToken},
           lost     : BOOLEAN,
           done     : Progress,
           alerted  : BOOLEAN,
           settled  : BOOLEAN]

WorkerState == [pc      : WorkerPhases,
                left    : Nat,
                reaped  : SUBSET (Job \X (Token \union {NoToken})),
                job     : Job,
                token   : Token \union {NoToken},
                attempt : Nat,
                sub     : Sub,
                done    : Progress,
                result  : Results]

NoSub    == [id |-> 0, active |-> FALSE, mode |-> "registry", dryRun |-> FALSE]
Nothing  == [publish |-> "none", counter |-> NoCounter, git |-> "none"]
NoJobRow == [status |-> "absent", born |-> 0, sub |-> 0, mode |-> "registry",
             dryRun |-> FALSE, attempts |-> 0, due |-> FALSE, expired |-> FALSE,
             token |-> NoToken, lost |-> FALSE, done |-> Nothing,
             alerted |-> FALSE, settled |-> FALSE]

AnyJob     == CHOOSE j \in Job : TRUE
IdleWorker == [pc |-> "idle", left |-> 0, reaped |-> {}, job |-> AnyJob,
               token |-> NoToken, attempt |-> 0, sub |-> NoSub, done |-> Nothing,
               result |-> "none"]

RegenTypeOK ==
    /\ event \in [Event -> {"none", "published", "queued", "dropped"}]
    /\ revision \in [Event -> {"draft", "published", "withdrawn"}]
    /\ sub \in [Ecosystem -> Sub]
    /\ job \in [Job -> JobRow]
    /\ asked \in SUBSET Job
    /\ worker \in [Worker -> WorkerState]
    /\ pull \in [Job -> Counter \union {NoCounter}]
    /\ queued \in Nat
    /\ bounds \in [retries : Nat, subs : Nat, faults : Nat]

RegenInit ==
    /\ event = [k \in Event |-> "none"]
    /\ revision = [k \in Event |-> "draft"]
    /\ sub = [e \in Ecosystem |-> NoSub]
    /\ job = [j \in Job |-> NoJobRow]
    /\ asked = {}
    /\ worker = [w \in Worker |-> IdleWorker]
    /\ pull = [j \in Job |-> NoCounter]
    /\ queued = 0
    /\ bounds = [retries |-> 0, subs |-> 0, faults |-> 0]

-----------------------------------------------------------------------------
(* Publishing a version, and what it queues. *)

Spent(kind) == bounds' = [bounds EXCEPT ![kind] = @ + 1]
Fault       == bounds.faults < MaxFaults /\ Spent("faults")

\* A version is published; a background task is to queue its jobs.
PublishVersion(k) ==
    /\ event[k] = "none"
    /\ event' = [event EXCEPT ![k] = "published"]
    /\ revision' = [revision EXCEPT ![k] = "published"]
    /\ UNCHANGED <<sub, job, asked, worker, pull, queued, bounds>>

\* enqueue_sdk_regen_run: one pending job per subscription active now, in one
\* statement.  Background tasks of two publishes may run in either order.
Enqueue(k) ==
    LET rows == {<<k, e>> : e \in {d \in Ecosystem : sub[d].active}} IN
    /\ event[k] = "published"
    /\ event' = [event EXCEPT ![k] = "queued"]
    /\ job' = [j \in Job |->
                 IF j \in rows
                 THEN [NoJobRow EXCEPT !.status = "pending", !.due = TRUE, !.born = queued,
                                       !.sub = sub[j[2]].id, !.mode = sub[j[2]].mode,
                                       !.dryRun = sub[j[2]].dryRun]
                 ELSE job[j]]
    /\ queued' = queued + 1
    /\ UNCHANGED <<revision, sub, asked, worker, pull, bounds>>

\* Queueing fails, or the process dies before the task runs: no job, no retry.
DropEnqueue(k) ==
    /\ event[k] = "published"
    /\ Fault
    /\ event' = [event EXCEPT ![k] = "dropped"]
    /\ UNCHANGED <<revision, sub, job, asked, worker, pull, queued>>

\* The revision is unpublished or deleted.
Withdraw(k) ==
    /\ revision[k] = "published"
    /\ revision' = [revision EXCEPT ![k] = "withdrawn"]
    /\ UNCHANGED <<event, sub, job, asked, worker, pull, queued, bounds>>

-----------------------------------------------------------------------------
(* Subscriptions. *)

ChangeSub == bounds.subs < MaxSubChanges /\ Spent("subs")

\* upsert_sdk_regen_subscription: a new row, or the same row with other settings.
PutSubscription(e, setting, active) ==
    /\ ChangeSub
    /\ sub' = [sub EXCEPT ![e] = [id     |-> IF @.id = 0 THEN bounds.subs + 1 ELSE @.id,
                                  active |-> active,
                                  mode   |-> setting[1], dryRun |-> setting[2]]]
    /\ UNCHANGED <<event, revision, job, asked, worker, pull, queued>>

\* set_sdk_regen_subscription_active
SetActive(e, active) ==
    /\ ChangeSub
    /\ sub[e].id # 0
    /\ sub' = [sub EXCEPT ![e].active = active]
    /\ UNCHANGED <<event, revision, job, asked, worker, pull, queued>>

\* delete_sdk_regen_subscription: its jobs stay, with no subscription.
Unsubscribe(e) ==
    /\ ChangeSub
    /\ sub[e].id # 0
    /\ sub' = [sub EXCEPT ![e] = NoSub]
    /\ job' = [j \in Job |-> IF job[j].sub = sub[e].id THEN [job[j] EXCEPT !.sub = 0]
                             ELSE job[j]]
    /\ UNCHANGED <<event, revision, asked, worker, pull, queued>>

-----------------------------------------------------------------------------
(* Time: a lease runs out while a claim is open, a backoff comes to its end. *)

LeaseExpires(j) ==
    /\ job[j].status = "running"
    /\ ~job[j].expired
    /\ job' = [job EXCEPT ![j].expired = TRUE]
    /\ UNCHANGED <<event, revision, sub, asked, worker, pull, queued, bounds>>

BackoffElapses(j) ==
    /\ job[j].status = "retrying"
    /\ ~job[j].due
    /\ job' = [job EXCEPT ![j].due = TRUE]
    /\ UNCHANGED <<event, revision, sub, asked, worker, pull, queued, bounds>>

-----------------------------------------------------------------------------
(* The policy (sdk_regen_policy.py). *)

RegistryStepDone(status, dryRun) == status \in PublishDone \/ (dryRun /\ status = "dry_run")
GitStepDone(status)              == status = "delivered"
IncludesRegistry(mode)           == mode \in {"registry", "registry_and_git"}
IncludesGit(mode)                == mode \in {"git", "registry_and_git"}

\* decide_after_failure, and the terminal statuses run_claimed_job chooses itself.
StatusAfter(result, attempt) ==
    CASE result \in {"succeeded", "cancelled"}                -> result
      [] result = "transient" /\ attempt < MaxAttempts        -> "retrying"
      [] OTHER                                                -> "dead_letter"

\* Mutants of NeedsRegistry: every attempt runs the step; a rehearsal counts as the step
\* whatever is wanted now.
NeedsRegistryAgain(w) == IncludesRegistry(worker[w].sub.mode)
NeedsRegistryOnce(w) == /\ IncludesRegistry(worker[w].sub.mode)
                        /\ ~RegistryStepDone(worker[w].done.publish, TRUE)

\* Which steps _execute still has to run.
NeedsRegistry(w) == /\ IncludesRegistry(worker[w].sub.mode)
                    /\ ~RegistryStepDone(worker[w].done.publish, worker[w].sub.dryRun)
NeedsGit(mode, done) == IncludesGit(mode) /\ ~GitStepDone(done.git)

-----------------------------------------------------------------------------
(* One tick of the worker: reap, then claim and run jobs one at a time. *)

\* A claim open past its lease.
IsStale(j) == job[j].status = "running" /\ job[j].expired

\* reap_stale_sdk_regen_jobs, first statement of a tick: every stale claim is
\* dead-lettered, and keeps its token.
Tick(w) ==
    LET stale == {j \in Job : IsStale(j)} IN
    /\ worker[w].pc = "idle"
    /\ job' = [j \in Job |->
                 IF j \in stale
                 THEN [job[j] EXCEPT !.status = "dead_letter", !.due = FALSE, !.lost = TRUE,
                                     !.expired = FALSE, !.settled = TRUE]
                 ELSE job[j]]
    /\ worker' = [worker EXCEPT ![w] =
                    [IdleWorker EXCEPT !.pc = IF stale = {} THEN "claiming" ELSE "reaping",
                                       !.left = BatchSize,
                                       !.reaped = {<<j, job[j].token>> : j \in stale}]]
    /\ UNCHANGED <<event, revision, sub, asked, pull, queued, bounds>>

\* The sweep's statement fails, and the tick goes on without it.
ReapFails(w) ==
    /\ worker[w].pc = "idle"
    /\ Fault
    /\ worker' = [worker EXCEPT ![w] = [IdleWorker EXCEPT !.pc = "claiming", !.left = BatchSize]]
    /\ UNCHANGED <<event, revision, sub, job, asked, pull, queued>>

\* Mutant of Notify: only what the lease sweep dead-lettered is alerted.
NotifyLost(j, t) ==
    job' = IF job[j].token = t /\ job[j].lost THEN [job EXCEPT ![j].alerted = TRUE] ELSE job

\* notify_dead_lettered, for the attempt whose claim had token t.
Notify(j, t) ==
    job' = IF job[j].token = t THEN [job EXCEPT ![j].alerted = TRUE] ELSE job

AlertReaped(w) ==
    /\ worker[w].pc = "reaping"
    /\ \E x \in worker[w].reaped :
         /\ Notify(x[1], x[2])
         /\ worker' = [worker EXCEPT ![w].reaped = @ \ {x},
                                     ![w].pc = IF worker[w].reaped = {x} THEN "claiming"
                                               ELSE "reaping"]
    /\ UNCHANGED <<event, revision, sub, asked, pull, queued, bounds>>

\* i comes before j in the same subscription.
Earlier(i, j) ==
    /\ job[j].sub # 0
    /\ job[i].sub = job[j].sub
    /\ job[i].born < job[j].born

\* Mutants of IsClaimable: a job that is backing off no longer holds back the next; one
\* that was dead-lettered does.
ClaimableWhileRetrying(j) ==
    /\ job[j].status \in Claimable
    /\ job[j].due
    /\ ~\E i \in Job : Earlier(i, j) /\ job[i].status \in {"pending", "running"}
ClaimableAfterSuccess(j) ==
    /\ job[j].status \in Claimable
    /\ job[j].due
    /\ ~\E i \in Job : Earlier(i, j) /\ job[i].status \in Active \union {"dead_letter"}

\* The WHERE clause of claim_next_sdk_regen_job.
IsClaimable(j) ==
    /\ job[j].status \in Claimable
    /\ job[j].due
    /\ ~\E i \in Job : Earlier(i, j) /\ job[i].status \in Active

HeldTokens == {job[j].token : j \in Job} \union {worker[w].token : w \in Worker}
                \union UNION {{x[2] : x \in worker[w].reaped} : w \in Worker}

FreshTokens == Token \ HeldTokens

\* claim_next_sdk_regen_job: the row becomes running under a fresh token; the
\* worker gets the row and the subscription as it is now.
Claim(w, j) ==
    LET t == CHOOSE x \in FreshTokens : TRUE
        s == IF job[j].sub = sub[j[2]].id THEN sub[j[2]] ELSE NoSub
        n == job[j].attempts + 1 IN
    /\ worker[w].pc = "claiming"
    /\ worker[w].left > 0
    /\ IsClaimable(j)
    /\ FreshTokens # {}
    /\ job' = [job EXCEPT ![j] = [job[j] EXCEPT !.status = "running", !.attempts = n,
                                                !.due = FALSE, !.expired = FALSE, !.token = t,
                                                !.alerted = FALSE]]
    /\ worker' = [worker EXCEPT ![w] =
                    [worker[w] EXCEPT !.pc = "starting", !.left = worker[w].left - 1, !.job = j,
                                      !.token = t, !.attempt = n, !.done = job[j].done,
                                      !.sub = s]]
    /\ UNCHANGED <<event, revision, sub, asked, pull, queued, bounds>>

\* The claim's statement fails, and the tick ends.
ClaimFails(w) ==
    /\ worker[w].pc = "claiming"
    /\ worker[w].left > 0
    /\ Fault
    /\ worker' = [worker EXCEPT ![w] = IdleWorker]
    /\ UNCHANGED <<event, revision, sub, job, asked, pull, queued>>

\* The batch is spent, or nothing is due.
EndTick(w) ==
    /\ worker[w].pc = "claiming"
    /\ worker[w].left = 0 \/ ~\E j \in Job : IsClaimable(j)
    /\ worker' = [worker EXCEPT ![w] = IdleWorker]
    /\ UNCHANGED <<event, revision, sub, job, asked, pull, queued, bounds>>

GoTo(w, pc)       == worker' = [worker EXCEPT ![w].pc = pc]
Conclude(w, done, result) ==
    worker' = [worker EXCEPT ![w].pc = "closing", ![w].done = done, ![w].result = result]

\* _apply_subscription and _load_revision: a removed or disabled subscription or a
\* withdrawn revision cancels the job; loading the model may fail either way.
Start(w) ==
    LET me == worker[w] IN
    /\ me.pc = "starting"
    /\ IF ~me.sub.active \/ revision[me.job[1]] # "published"
       THEN Conclude(w, me.done, "cancelled")
       ELSE \/ \E result \in {"transient", "permanent"} : Conclude(w, me.done, result)
            \/ NeedsRegistry(w) /\ GoTo(w, "registry")
            \/ /\ ~NeedsRegistry(w)
               /\ IF NeedsGit(me.sub.mode, me.done) THEN GoTo(w, "git")
                  ELSE Conclude(w, me.done, "succeeded")
    /\ UNCHANGED <<event, revision, sub, job, asked, pull, queued, bounds>>

\* _registry_step forgets what an earlier attempt recorded, and calls publish() ...
RegistryStart(w) ==
    /\ worker[w].pc = "registry"
    /\ worker' = [worker EXCEPT ![w].pc = "publishing", ![w].done.publish = "none",
                                ![w].done.counter = NoCounter]
    /\ UNCHANGED <<event, revision, sub, job, asked, pull, queued, bounds>>

\* ... which returns an outcome, with the counter it claimed, or raises.
RegistryReturn(w, outcome, c) ==
    LET me   == worker[w]
        done == [me.done EXCEPT
                   !.publish = IF outcome \in PublishDone \union {"dry_run"} THEN outcome
                               ELSE "failed",
                   !.counter = IF outcome \in PublishDone THEN c ELSE NoCounter] IN
    /\ me.pc = "publishing"
    /\ CASE outcome \in {"failed_retryable", "unavailable"} -> Conclude(w, done, "transient")
         [] outcome \in {"failed_final", "refused"}         -> Conclude(w, done, "permanent")
         [] OTHER ->
              IF IncludesGit(me.sub.mode)
              THEN worker' = [worker EXCEPT ![w].pc = "saving", ![w].done = done]
              ELSE Conclude(w, done, "succeeded")
    /\ UNCHANGED <<event, revision, sub, job, asked, pull, queued, bounds>>

PublishOutcomes(dryRun) ==
    IF dryRun THEN {"dry_run", "refused"}
    ELSE PublishDone \union {"failed_retryable", "failed_final", "refused", "unavailable"}

\* Mutant of ClaimHolds: the token is not compared.
ClaimHeldByAny(w) == job[worker[w].job].status = "running"

\* The claim this worker was given is still the row's claim, and open.
ClaimHolds(w) ==
    /\ job[worker[w].job].token = worker[w].token
    /\ job[worker[w].job].status = "running"

\* _save_registry_progress, before the git step starts: writes while the claim
\* holds, and a failure of the write is only logged.
SaveProgress(w) ==
    LET me == worker[w] IN
    /\ me.pc = "saving"
    /\ \/ /\ job' = IF ClaimHolds(w)
                   THEN [job EXCEPT ![me.job].done.publish = me.done.publish,
                                    ![me.job].done.counter = me.done.counter]
                   ELSE job
          /\ UNCHANGED bounds
       \/ Fault /\ UNCHANGED job
    /\ IF NeedsGit(me.sub.mode, me.done) THEN GoTo(w, "git")
       ELSE Conclude(w, me.done, "succeeded")
    /\ UNCHANGED <<event, revision, sub, asked, pull, queued>>

\* The counter a delivery is pinned to: the one the registry step claimed.
Pinned(done) == IF done.publish \in PublishDone THEN done.counter ELSE NoCounter

\* _git_step pushes the branch (force-updating it) before it opens the pull request.
GitPush(w) ==
    /\ worker[w].pc = "git"
    /\ pull' = [pull EXCEPT ![worker[w].job] = Pinned(worker[w].done)]
    /\ UNCHANGED <<event, revision, sub, job, asked, worker, queued, bounds>>

\* Mutant of GitReturn: the delivery is recorded as soon as its branch is pushed.
GitReturnEarly(w, result) ==
    /\ worker[w].pc = "git"
    /\ Conclude(w, [worker[w].done EXCEPT !.git = "delivered"], result)
    /\ pull' = [pull EXCEPT ![worker[w].job] = Pinned(worker[w].done)]
    /\ UNCHANGED <<event, revision, sub, job, asked, queued, bounds>>

\* _git_step ends: delivered, refused, or no delivery target is configured.
GitReturn(w, result) ==
    LET me == worker[w] IN
    /\ me.pc = "git"
    /\ IF result = "succeeded"
       THEN /\ Conclude(w, [me.done EXCEPT !.git = "delivered"], result)
            /\ pull' = [pull EXCEPT ![me.job] = Pinned(me.done)]
       ELSE /\ \E git \in {"none", "failed"} : Conclude(w, [me.done EXCEPT !.git = git], result)
            /\ UNCHANGED pull
    /\ UNCHANGED <<event, revision, sub, job, asked, queued, bounds>>

\* A claim nobody has closed, though the sweep may presume it lost.
ClaimOpen(row) == row.status = "running" \/ (row.status = "dead_letter" /\ row.lost)

\* Mutants of CloseAccepted: the token is not compared; the state of the claim is not.
CloseAnyClaim(w) == ClaimOpen(job[worker[w].job])
CloseWhenever(w) == job[worker[w].job].token = worker[w].token

\* finish_sdk_regen_job_attempt accepts the close-out of the row's own claim while
\* it is open, or was only presumed lost.
CloseAccepted(w) ==
    /\ job[worker[w].job].token = worker[w].token
    /\ ClaimOpen(job[worker[w].job])

\* After an attempt the worker goes on with its batch.
NextInBatch(w) == [IdleWorker EXCEPT !.pc = "claiming", !.left = worker[w].left]

\* The row an accepted close-out leaves: everything the worker knows, judged.
ClosedRow(w) ==
    LET me     == worker[w]
        row    == job[me.job]
        status == StatusAfter(me.result, me.attempt) IN
    [row EXCEPT !.status = status, !.due = FALSE, !.expired = FALSE, !.lost = FALSE,
                !.done = me.done,
                !.mode = IF me.sub.active THEN me.sub.mode ELSE row.mode,
                !.dryRun = IF me.sub.active THEN me.sub.dryRun ELSE row.dryRun,
                !.settled = row.settled \/ status \in Terminal]

\* run_claimed_job closes the attempt.
Finish(w) ==
    /\ worker[w].pc = "closing"
    /\ \/ /\ CloseAccepted(w)
          /\ job' = [job EXCEPT ![worker[w].job] = ClosedRow(w)]
          /\ IF ClosedRow(w).status = "dead_letter" THEN GoTo(w, "alerting")
             ELSE worker' = [worker EXCEPT ![w] = NextInBatch(w)]
       \/ /\ ~CloseAccepted(w)
          /\ worker' = [worker EXCEPT ![w] = NextInBatch(w)]
          /\ UNCHANGED job
    /\ UNCHANGED <<event, revision, sub, asked, pull, queued, bounds>>

\* The close-out cannot be written: the row stays running until its lease ends.
FinishFails(w) ==
    /\ worker[w].pc = "closing"
    /\ Fault
    /\ worker' = [worker EXCEPT ![w] = NextInBatch(w)]
    /\ UNCHANGED <<event, revision, sub, job, asked, pull, queued>>

\* The dead letter it wrote is alerted.
Alert(w) ==
    /\ worker[w].pc = "alerting"
    /\ Notify(worker[w].job, worker[w].token)
    /\ worker' = [worker EXCEPT ![w] = NextInBatch(w)]
    /\ UNCHANGED <<event, revision, sub, asked, pull, queued, bounds>>

\* The process dies, and its sweep starts again with nothing in memory.
Crash(w) ==
    /\ worker[w].pc # "idle"
    /\ Fault
    /\ worker' = [worker EXCEPT ![w] = IdleWorker]
    /\ UNCHANGED <<event, revision, sub, job, asked, pull, queued>>

-----------------------------------------------------------------------------
(* A person retries a dead letter. *)

\* retry_regen_job: the route reads the job and its subscription ...
AskRetry(j) ==
    /\ bounds.retries < MaxRetries /\ Spent("retries")
    /\ job[j].status = "dead_letter"
    /\ job[j].sub # 0
    /\ sub[j[2]].active
    /\ asked' = asked \union {j}
    /\ UNCHANGED <<event, revision, sub, job, worker, pull, queued>>

\* ... and retry_sdk_regen_job requeues it if it is still dead-lettered.
Requeue(j) ==
    /\ j \in asked
    /\ asked' = asked \ {j}
    /\ job' = IF job[j].status = "dead_letter"
              THEN [job EXCEPT ![j] = [@ EXCEPT !.status = "pending", !.attempts = 0,
                                               !.due = TRUE, !.lost = FALSE]]
              ELSE job
    /\ UNCHANGED <<event, revision, sub, worker, pull, queued, bounds>>

-----------------------------------------------------------------------------

PublishingNext == \E k \in Event : PublishVersion(k) \/ Enqueue(k) \/ DropEnqueue(k) \/ Withdraw(k)

PeopleNext ==
    \/ \E e \in Ecosystem :
         \/ \E setting \in Settings, active \in BOOLEAN : PutSubscription(e, setting, active)
         \/ \E active \in BOOLEAN : SetActive(e, active)
         \/ Unsubscribe(e)
    \/ \E j \in Job : AskRetry(j) \/ Requeue(j)

TimeNext == \E j \in Job : LeaseExpires(j) \/ BackoffElapses(j)

\* What a worker does by itself, apart from calling publish().
WorkerStep(w) ==
    \/ Tick(w) \/ ReapFails(w) \/ AlertReaped(w)
    \/ (\E j \in Job : Claim(w, j)) \/ ClaimFails(w) \/ EndTick(w)
    \/ Start(w) \/ SaveProgress(w) \/ GitPush(w)
    \/ \E result \in {"succeeded", "transient", "permanent"} : GitReturn(w, result)
    \/ Finish(w) \/ FinishFails(w) \/ Alert(w)

\* publish(), with any outcome it can have.
AnyPublish(w) ==
    \/ RegistryStart(w)
    \/ \E outcome \in PublishOutcomes(worker[w].sub.dryRun), c \in Counter :
         RegistryReturn(w, outcome, c)

RegenNext ==
    \/ PublishingNext
    \/ PeopleNext
    \/ TimeNext
    \/ \E w \in Worker : WorkerStep(w) \/ AnyPublish(w) \/ Crash(w)

RegenSpec == RegenInit /\ [][RegenNext]_regenVars

\* Workers run on a timer and every call they make comes back, so one that does not
\* crash moves on; time passes.  People owe nothing, and neither do faults.
WorkerProgress(w) ==
    \/ Tick(w) \/ AlertReaped(w) \/ (\E j \in Job : Claim(w, j)) \/ EndTick(w)
    \/ Start(w) \/ SaveProgress(w) \/ Finish(w) \/ Alert(w)
    \/ \E result \in {"succeeded", "transient", "permanent"} : GitReturn(w, result)
    \/ AnyPublish(w)

RegenFairness ==
    /\ \A w \in Worker : WF_regenVars(WorkerProgress(w))
    /\ \A j \in Job : WF_regenVars(LeaseExpires(j)) /\ WF_regenVars(BackoffElapses(j))

RegenFairSpec == RegenSpec /\ RegenFairness

-----------------------------------------------------------------------------

\* The phase of JobLifecycle a row is in.
PhaseOf(row) ==
    CASE row.status = "absent"                                -> "absent"
      [] row.status \in Claimable                             -> "waiting"
      [] row.status = "running"                               -> "held"
      [] row.status = "dead_letter"                           -> IF row.lost THEN "presumed_lost"
                                                                 ELSE "failed"
      [] OTHER                                                -> "final"

Life == INSTANCE JobLifecycle WITH
    phase  <- [j \in Job |-> PhaseOf(job[j])],
    holder <- [j \in Job |-> job[j].token]

\* The queue implements the lifecycle: over all interleavings of sweeps, late
\* workers and retries, a row only ever moves the way its claim allows
\* (claim_next_, finish_, reap_stale_, retry_sdk_regen_job).
LifecycleImplemented == Life!LifeSpec

\* No two attempts ever carry one token, so what a worker writes can only reach the
\* row through the claim it was given (claim_next_sdk_regen_job, claim_token).
OneHolderPerToken ==
    \A w, v \in Worker :
        /\ w # v
        /\ worker[w].token # NoToken
        => worker[w].token # worker[v].token

\* A job is claimed at most MaxAttempts times between two manual retries, and one that
\* backs off still has an attempt to spend, whatever closed or reaped its attempts
\* (decide_after_failure, claim_next_, retry_sdk_regen_job).
AttemptBudget ==
    /\ \A j \in Job : job[j].attempts <= MaxAttempts
    /\ \A j \in Job : job[j].status = "retrying" => job[j].attempts < MaxAttempts

\* A version the job's row says is published stays on the row, with its number: no
\* retry, late worker or skipped step ever blanks or replaces it
\* (JobProgress.from_row, _save_registry_progress, finish_sdk_regen_job_attempt).
PublishedIsRemembered ==
    [][\A j \in Job : job[j].done.publish \in PublishDone =>
          /\ job'[j].done.publish = job[j].done.publish
          /\ job'[j].done.counter = job[j].done.counter]_regenVars

\* A job closed as succeeded did every step of the mode it ran with, in whichever
\* attempts and under whichever settings those steps were done (_execute).
SucceededDidEverything ==
    \A j \in Job : job[j].status = "succeeded" =>
        /\ IncludesRegistry(job[j].mode) => RegistryStepDone(job[j].done.publish, job[j].dryRun)
        /\ IncludesGit(job[j].mode) => GitStepDone(job[j].done.git)

\* A job with work ahead of it never has a finished git step: the step is the last
\* one, so a job that did it is closed, and git_step_done never skips anything.
GitIsLast ==
    \A j \in Job : job[j].status \in Claimable => ~GitStepDone(job[j].done.git)

\* A job is first claimed only after every job queued before it for the same
\* subscription has come to an end at least once: nothing that is only waiting,
\* running or backing off is overtaken (claim_next_sdk_regen_job).
NothingOvertaken ==
    \A i, j \in Job :
        Earlier(i, j) /\ job[j].token # NoToken => job[i].settled

-----------------------------------------------------------------------------
(* Why the invariants above hold: the inductive invariant SdkRegen_proofs proves. *)

\* A row by itself: it is empty before its event queues it, younger than the next one,
\* settled once it has ended, within its budget, and its finished steps fit its status.
RowSound(j, row) ==
    /\ event[j[1]] # "queued" => row.status = "absent"
    /\ row.status = "absent" => row.token = NoToken /\ row.sub = 0 /\ row.done = Nothing
    /\ row.status # "absent" => row.born < queued
    /\ row.status \in Terminal => row.settled
    /\ row.attempts <= MaxAttempts
    /\ row.status \in Claimable => row.attempts < MaxAttempts
    /\ row.status \in Active \union {"dead_letter"} => ~GitStepDone(row.done.git)
    /\ row.status = "succeeded" =>
         /\ IncludesRegistry(row.mode) => RegistryStepDone(row.done.publish, row.dryRun)
         /\ IncludesGit(row.mode) => GitStepDone(row.done.git)

\* A worker by itself: in an attempt it holds a token, and it has done what comes before
\* the step it is at.
WorkerSound(me) ==
    LET registryDone == IncludesRegistry(me.sub.mode) =>
                          RegistryStepDone(me.done.publish, me.sub.dryRun)
        succeeding   == me.pc = "closing" /\ me.result = "succeeded" IN
    /\ me.pc \notin {"idle", "reaping", "claiming"} => me.token # NoToken
    /\ me.pc \in {"registry", "publishing", "saving", "git"} => me.sub.active
    /\ me.pc \in {"saving", "git"} => registryDone
    /\ succeeding => /\ me.sub.active
                     /\ registryDone
                     /\ IncludesGit(me.sub.mode) => GitStepDone(me.done.git)
    /\ GitStepDone(me.done.git) => succeeding

\* A worker and its row, while the worker's claim is the row's and is open: they agree on
\* the attempt, and what the row says is published the worker knows and does not redo.
ClaimSound(me, row) ==
    me.token # NoToken /\ row.token = me.token /\ ClaimOpen(row) =>
       /\ me.attempt = row.attempts
       /\ row.done.publish \in PublishDone =>
             /\ me.pc \notin {"registry", "publishing"}
             /\ me.done.publish = row.done.publish
             /\ me.done.counter = row.done.counter

RegenInvariant ==
    /\ RegenTypeOK
    /\ \A j \in Job : RowSound(j, job[j])
    /\ \A w \in Worker : WorkerSound(worker[w]) /\ ClaimSound(worker[w], job[worker[w].job])
    /\ OneHolderPerToken
    /\ NothingOvertaken

-----------------------------------------------------------------------------
(* What the documentation says, and the code does not do; and what ends. *)

\* A worker is about to alert that job j is dead-lettered.
Alerting(j) ==
    \E w \in Worker :
        \/ worker[w].pc = "alerting" /\ worker[w].job = j /\ worker[w].token = job[j].token
        \/ <<j, job[j].token>> \in worker[w].reaped

\* sdk_regen_policy.py:17-18 says of a dead letter that it is visible, alerted, and
\* retried only by a person: its alert has been sent, or a worker is about to send it.
DeadLettersAlerted ==
    \A j \in Job : job[j].status = "dead_letter" => job[j].alerted \/ Alerting(j)

\* ... which holds as long as no process dies and no write fails: refused, failed and
\* expired attempts, and changes of the subscription meanwhile, never lose an alert.
DeadLettersAlertedUnlessFault == bounds.faults = 0 => DeadLettersAlerted

\* Every job that is queued, backing off or running comes to an end, whatever crashes,
\* as long as some worker keeps ticking (sweep, lease and attempt budget together).  No
\* statement makes a row absent again, so what is not active any more has ended.
JobsEnd == \A j \in Job : []<>(job[j].status \notin Active)
=============================================================================
