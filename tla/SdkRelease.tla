------------------------------ MODULE SdkRelease ------------------------------
(***************************************************************************)
(* An automatic release end to end: the workers of SdkRegen run their      *)
(* registry step by calling publish() of SdkPublish                        *)
(* (sdk_regen_worker.py, _registry_step), so a claim on a job, a claim on  *)
(* a version number and an upload that may outlive both are open at once.  *)
(*                                                                         *)
(* One package is released: the publishes of SdkRegen are the releases of  *)
(* SdkPublish, and every worker is a publisher.                            *)
(***************************************************************************)
EXTENDS SdkRegen

CONSTANTS Run, NoRun, NoRelease, MaxCounter, MaxClaimAttempts

VARIABLES ledger, registry, upload, call

Pub == INSTANCE SdkPublish WITH Publisher <- Worker, Release <- Job

releaseVars == <<regenVars, ledger, registry, upload, call>>
publishVars == <<ledger, registry, upload, call>>

ASSUME ReleaseAssumption ==
    /\ Counter = 0..MaxCounter
    /\ \E e \in Ecosystem : Ecosystem = {e}
    /\ NoRun \notin Run
    /\ NoRelease \notin Job
    /\ MaxCounter \in Nat
    /\ MaxClaimAttempts \in Nat \ {0}

ReleaseInit == RegenInit /\ Pub!PublishInit

\* _registry_step calls publish(), rehearsing if the subscription says so.
CallPublish(w) ==
    LET j == worker[w].job IN
    /\ RegistryStart(w)
    /\ \/ Pub!Refuse(w, j)
       \/ IF worker[w].sub.dryRun THEN Pub!DryRun(w, j) ELSE Pub!Begin(w, j)

\* publish() returns, with the counter of the row it claimed if it claimed one.
TakeOutcome(w) ==
    LET r == call[w].run IN
    /\ Pub!Return(w)
    /\ RegistryReturn(w, call[w].outcome, IF r = NoRun THEN NoCounter ELSE ledger[r].counter)

\* A worker that dies takes the call it is in with it, and nothing else.
WorkerDies(w) ==
    /\ Crash(w)
    /\ IF call[w].pc = "idle" THEN UNCHANGED publishVars ELSE Pub!Crash(w)

ReleaseNext ==
    \/ \E w \in Worker : CallPublish(w) \/ TakeOutcome(w) \/ WorkerDies(w)
    \/ UNCHANGED publishVars /\ (PublishingNext \/ PeopleNext \/ TimeNext
                                   \/ \E w \in Worker : WorkerStep(w))
    \/ UNCHANGED regenVars /\ ((\E w \in Worker : Pub!CallStep(w) \/ Pub!Breaks(w))
                                 \/ \E r \in Run : Pub!RegistryAnswers(r))

ReleaseSpec == ReleaseInit /\ [][ReleaseNext]_releaseVars

-----------------------------------------------------------------------------

\* A worker is inside publish() exactly while its call is open, the call is for the
\* job the worker holds, and it rehearses only for a subscription that says so.
CallMatches(w) ==
    /\ (worker[w].pc = "publishing") <=> (call[w].pc # "idle")
    /\ call[w].pc # "idle" => call[w].release = worker[w].job
    /\ call[w].pc \in {"counting", "claiming", "building", "uploading"} => ~worker[w].sub.dryRun
    /\ call[w].pc = "returning" => call[w].outcome \in PublishOutcomes(worker[w].sub.dryRun)

CallsMatch == \A w \in Worker : CallMatches(w)

\* Both components keep their types, and the threads of one are the calls of the other.
ReleaseTypeOK == RegenTypeOK /\ Pub!PublishTypeOK /\ CallsMatch

\* Seen from the queue, the publish pipeline is only one of the outcomes SdkRegen
\* leaves open: everything shown of the queue holds of the composition.
RegenImplemented == RegenSpec

\* What progress done of job j says was published is what the registry holds: that
\* version, and, if it says the job published it, put there by an upload of this very job.
TellsTheTruth(j, done) ==
    /\ done.publish \in PublishDone => /\ done.counter \in Counter
                                      /\ registry[done.counter] # NoRun
    /\ done.publish = "published" => ledger[registry[done.counter]].release = j

\* What a job's row says was published is on the registry, whichever attempts, late
\* workers and lost answers there were (_registry_step, _save_registry_progress, publish).
RowTellsTheTruth == \A j \in Job : TellsTheTruth(j, job[j].done)

\* A delivery pinned to a version is only ever pushed once the registry has that
\* version: the pull request never asks for a package nobody can install (_git_step).
PullIsInstallable == \A j \in Job : pull[j] # NoCounter => registry[pull[j]] # NoRun

\* A worker at the push whose claim is no longer the row's, or no longer open.
LateAt(j) ==
    \E w \in Worker :
        /\ worker[w].pc = "git"
        /\ worker[w].job = j
        /\ worker[w].token # job[j].token \/ job[j].status # "running"

\* The branch of a delivery is force-updated whatever it holds (_git_step, update_branch).
\* Once the row says which version was published, the branch is only ever set to another
\* one by a worker whose lease ran out, never by the attempt that holds the claim.
BranchStraysOnlyLate ==
    [][\A j \in Job :
          /\ job[j].done.publish \in PublishDone
          /\ pull'[j] # pull[j]
          /\ pull'[j] # job[j].done.counter
          => LateAt(j)]_releaseVars

PublishedRows(j) == {r \in Run : ledger[r].status = "published" /\ ledger[r].release = j}

\* The ledger records a second publish of one job only after a person asked for one:
\* retries the queue makes by itself never repeat a publish that succeeded (_execute,
\* decide_after_failure, reap_stale_sdk_regen_jobs).
OnlyPeopleRepublish ==
    \A j \in Job : Cardinality(PublishedRows(j)) <= 1 + bounds.retries

-----------------------------------------------------------------------------
(* Why the invariants above hold: with those of the two components, ReleaseInvariant is    *)
(* the inductive invariant SdkRelease_proofs proves.                                       *)

\* The call a worker is in claims its row for the release it was called for, and the version
\* it is about to return is on the registry.
CallTellsTheTruth(w) ==
    LET r == call[w].run IN
    /\ call[w].pc \in {"building", "uploading"} => ledger[r].release = call[w].release
    /\ call[w].pc = "returning" /\ call[w].outcome \in PublishDone =>
          /\ r \in Run
          /\ ledger[r].status # "unused"
          /\ registry[ledger[r].counter] # NoRun
          /\ call[w].outcome = "published" => /\ registry[ledger[r].counter] = r
                                             /\ ledger[r].release = call[w].release

\* What a worker knows of its job, and what its call is about to tell it, is true as well.
WorkersTellTheTruth ==
    \A w \in Worker : TellsTheTruth(worker[w].job, worker[w].done) /\ CallTellsTheTruth(w)

\* A worker at the registry step knows of no version its job has published.
PublishesOnce ==
    \A w \in Worker :
        worker[w].pc \in {"registry", "publishing"} => worker[w].done.publish \notin PublishDone

\* An attempt of job j that may still publish: nothing was published when it began, nor by
\* itself since.
MayPublish(w, j) ==
    /\ worker[w].job = j
    /\ worker[w].pc \notin {"idle", "reaping", "claiming", "alerting"}
    /\ worker[w].done.publish \notin PublishDone
    /\ call[w].pc = "returning" => call[w].outcome \notin PublishDone

\* The next attempt of job j, which no person has to ask for, may publish.
WillPublish(j) == /\ job[j].status \in Claimable \union {"absent"}
                  /\ job[j].done.publish \notin PublishDone

\* A job gets one attempt that may publish, and one more for each retry a person asks for:
\* every attempt hands the permission back or uses it up.
Count(condition) == IF condition THEN 1 ELSE 0

OpenAttempts(j) == {w \in Worker : MayPublish(w, j)}

Rationed(j) ==
    /\ IsFiniteSet(PublishedRows(j)) /\ IsFiniteSet(OpenAttempts(j))
    /\ Cardinality(PublishedRows(j)) + Cardinality(OpenAttempts(j))
         + Count(WillPublish(j)) + Count(j \in asked) <= 1 + bounds.retries

PublishesAreRationed == \A j \in Job : Rationed(j)

\* What the two components know of each other in every reachable state: the calls of one
\* are the steps of the other; the job's row, the registry and the pull request agree; and
\* no publish is repeated unasked (_registry_step, _save_registry_progress, _git_step).
ReleaseInvariant ==
    /\ ReleaseTypeOK
    /\ RowTellsTheTruth
    /\ PullIsInstallable
    /\ WorkersTellTheTruth
    /\ PublishesOnce
    /\ PublishesAreRationed

-----------------------------------------------------------------------------
(* What the documentation says, and the code does not do. *)

\* sdk_regen_worker.py:36-37 and sdk_regen_policy.py:26-28 promise one version per
\* publish: no two versions on the registry come from one job.
\* It takes an upload that times out although it is stored, and a closing write that fails too
\* (_finish): the row keeps its number, and the retry claims the next one.
OneVersionPerPublish ==
    \A r, q \in Run :
        /\ r # q
        /\ upload[r] = "stored"
        /\ upload[q] = "stored"
        => ledger[r].release # ledger[q].release
=============================================================================
