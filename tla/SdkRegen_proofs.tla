---------------------------- MODULE SdkRegen_proofs ----------------------------
(***************************************************************************)
(* Proofs about SdkRegen, for any number of workers, publishes, packages,  *)
(* tokens, attempts and faults: RegenInvariant is inductive, every safety  *)
(* property of the queue follows from it, the queue implements             *)
(* JobLifecycle, a version recorded as published is never forgotten, and   *)
(* no dead letter loses its alert unless a process died or a write failed. *)
(***************************************************************************)
EXTENDS SdkRegen, TLAPS

\* The job an idle worker is typed with exists: there is an event and a package.
LEMMA AnyJobType == AnyJob \in Job
<1> PICK k \in Event, e \in Ecosystem : TRUE
  BY RegenAssumption
<1>1. <<k, e>> \in Job
  BY DEF Job
<1> QED
  BY <1>1 DEF AnyJob

\* An absent subscription is one.
LEMMA NoSubType == NoSub \in Sub
BY DEF NoSub, Sub, Modes

\* The progress of a job that has done nothing.
LEMMA NothingType == Nothing \in Progress
BY DEF Nothing, Progress, PublishStatuses, GitStatuses

\* The row before its insert.
LEMMA NoJobRowType == NoJobRow \in JobRow
BY NothingType DEF NoJobRow, JobRow, Statuses, Modes

\* A worker between ticks.
LEMMA IdleWorkerType == IdleWorker \in WorkerState
BY AnyJobType, NoSubType, NothingType DEF IdleWorker, WorkerState, WorkerPhases, Results

\* Types hold initially.
LEMMA RegenTypeInit == RegenInit => RegenTypeOK
BY NoSubType, NoJobRowType, IdleWorkerType DEF RegenInit, RegenTypeOK

\* A worker that changes phase only.
LEMMA GoToType ==
  ASSUME RegenTypeOK, NEW w \in Worker, NEW pc \in WorkerPhases, GoTo(w, pc)
  PROVE  worker' \in [Worker -> WorkerState]
BY DEF RegenTypeOK, GoTo, WorkerState

\* A worker whose attempt has come to a result.
LEMMA ConcludeType ==
  ASSUME RegenTypeOK, NEW w \in Worker, NEW done \in Progress, NEW result \in Results,
         Conclude(w, done, result)
  PROVE  worker' \in [Worker -> WorkerState]
<1>1. "closing" \in WorkerPhases
  BY DEF WorkerPhases
<1>2. worker \in [Worker -> WorkerState]
  BY DEF RegenTypeOK
<1>3. [worker[w] EXCEPT !.pc = "closing", !.done = done, !.result = result] \in WorkerState
  BY <1>1, <1>2 DEF WorkerState
<1> QED
  BY <1>2, <1>3 DEF Conclude

\* A worker that goes on with its batch.
LEMMA NextInBatchType ==
  ASSUME RegenTypeOK, NEW w \in Worker
  PROVE  NextInBatch(w) \in WorkerState
<1>1. worker[w].left \in Nat
  BY DEF RegenTypeOK, WorkerState
<1>2. "claiming" \in WorkerPhases
  BY DEF WorkerPhases
<1> QED
  BY <1>1, <1>2, IdleWorkerType DEF NextInBatch, WorkerState

\* The statuses run_claimed_job can give a job.
LEMMA StatusAfterType ==
  ASSUME NEW result \in Results, NEW attempt
  PROVE  StatusAfter(result, attempt) \in {"succeeded", "cancelled", "retrying", "dead_letter"}
BY DEF StatusAfter, Results

\* Publishing, people and time change rows and subscriptions, and no worker.
LEMMA OutsideTypeStep ==
  ASSUME RegenTypeOK, PublishingNext \/ PeopleNext \/ TimeNext
  PROVE  RegenTypeOK'
<1>0. \A kind \in {"retries", "subs", "faults"} :
        Spent(kind) => bounds' \in [retries : Nat, subs : Nat, faults : Nat]
  BY DEF RegenTypeOK, Spent
<1>1. ASSUME NEW k \in Event, PublishVersion(k) \/ Withdraw(k)
      PROVE  RegenTypeOK'
  BY <1>1 DEF RegenTypeOK, PublishVersion, Withdraw
<1>2. ASSUME NEW k \in Event, Enqueue(k)
      PROVE  RegenTypeOK'
  <2>1. ASSUME NEW j \in Job
        PROVE  [NoJobRow EXCEPT !.status = "pending", !.due = TRUE, !.born = queued,
                                !.sub = sub[j[2]].id, !.mode = sub[j[2]].mode,
                                !.dryRun = sub[j[2]].dryRun] \in JobRow
    <3>1. sub[j[2]] \in Sub /\ queued \in Nat
      BY DEF RegenTypeOK, Job
    <3>2. sub[j[2]].id \in Nat /\ sub[j[2]].mode \in Modes /\ sub[j[2]].dryRun \in BOOLEAN
      BY <3>1 DEF Sub
    <3>3. "pending" \in Statuses
      BY DEF Statuses, Active
    <3> QED
      BY <3>1, <3>2, <3>3, NoJobRowType DEF JobRow
  <2>2. job' \in [Job -> JobRow]
    BY <1>2, <2>1 DEF RegenTypeOK, Enqueue
  <2>3. queued' \in Nat
    <3>1. queued' = queued + 1
      BY <1>2 DEF Enqueue
    <3>2. queued \in Nat
      BY DEF RegenTypeOK
    <3> QED
      BY <3>1, <3>2
  <2>4. event' \in [Event -> {"none", "published", "queued", "dropped"}]
    BY <1>2 DEF RegenTypeOK, Enqueue
  <2>5. UNCHANGED <<revision, sub, asked, worker, pull, bounds>>
    BY <1>2 DEF Enqueue
  <2> QED
    BY <2>2, <2>3, <2>4, <2>5 DEF RegenTypeOK
<1>3. ASSUME NEW k \in Event, DropEnqueue(k)
      PROVE  RegenTypeOK'
  BY <1>0, <1>3 DEF RegenTypeOK, DropEnqueue, Fault
<1>4. ASSUME NEW e \in Ecosystem, NEW setting \in Settings, NEW active \in BOOLEAN,
             PutSubscription(e, setting, active)
      PROVE  RegenTypeOK'
  <2>1. setting[1] \in Modes /\ setting[2] \in BOOLEAN
    BY RegenAssumption DEF Modes
  <2>2. bounds.subs + 1 \in Nat /\ sub[e].id \in Nat
    BY DEF RegenTypeOK, Sub
  <2>3. sub' \in [Ecosystem -> Sub]
    BY <1>4, <2>1, <2>2 DEF RegenTypeOK, PutSubscription, Sub
  <2> QED
    BY <1>0, <1>4, <2>3 DEF RegenTypeOK, PutSubscription, ChangeSub
<1>5. ASSUME NEW e \in Ecosystem, NEW active \in BOOLEAN, SetActive(e, active)
      PROVE  RegenTypeOK'
  <2>1. sub' \in [Ecosystem -> Sub]
    BY <1>5 DEF RegenTypeOK, SetActive, Sub
  <2> QED
    BY <1>0, <1>5, <2>1 DEF RegenTypeOK, SetActive, ChangeSub
<1>6. ASSUME NEW e \in Ecosystem, Unsubscribe(e)
      PROVE  RegenTypeOK'
  <2>1. \A j \in Job : [job[j] EXCEPT !.sub = 0] \in JobRow
    BY DEF RegenTypeOK, JobRow
  <2>2. job' \in [Job -> JobRow]
    BY <1>6, <2>1 DEF RegenTypeOK, Unsubscribe
  <2>3. sub' \in [Ecosystem -> Sub]
    BY <1>6, NoSubType DEF RegenTypeOK, Unsubscribe
  <2> QED
    BY <1>0, <1>6, <2>2, <2>3 DEF RegenTypeOK, Unsubscribe, ChangeSub
<1>7. ASSUME NEW j \in Job, LeaseExpires(j) \/ BackoffElapses(j)
      PROVE  RegenTypeOK'
  <2>0. job \in [Job -> JobRow]
    BY DEF RegenTypeOK
  <2>1. [job[j] EXCEPT !.expired = TRUE] \in JobRow /\ [job[j] EXCEPT !.due = TRUE] \in JobRow
    BY <2>0 DEF JobRow
  <2>2. job' \in [Job -> JobRow]
    BY <1>7, <2>0, <2>1 DEF LeaseExpires, BackoffElapses
  <2> QED
    BY <1>7, <2>2 DEF RegenTypeOK, LeaseExpires, BackoffElapses
<1>8. ASSUME NEW j \in Job, AskRetry(j)
      PROVE  RegenTypeOK'
  BY <1>0, <1>8 DEF RegenTypeOK, AskRetry
<1>9. ASSUME NEW j \in Job, Requeue(j)
      PROVE  RegenTypeOK'
  <2>1. "pending" \in Statuses
    BY DEF Statuses, Active
  <2>2. [job[j] EXCEPT !.status = "pending", !.attempts = 0, !.due = TRUE, !.lost = FALSE]
          \in JobRow
    <3>1. job[j] \in JobRow
      BY DEF RegenTypeOK
    <3> QED
      BY <2>1, <3>1 DEF JobRow
  <2>3. job' \in [Job -> JobRow]
    BY <1>9, <2>2 DEF RegenTypeOK, Requeue
  <2> QED
    BY <1>9, <2>3 DEF RegenTypeOK, Requeue
<1> QED
  BY <1>1, <1>2, <1>3, <1>4, <1>5, <1>6, <1>7, <1>8, <1>9
  DEF PublishingNext, PeopleNext, TimeNext

\* The record a worker holds keeps its type through the updates of the steps below.
LEMMA WorkerFields ==
  ASSUME RegenTypeOK, NEW w \in Worker
  PROVE  /\ worker[w] \in WorkerState
         /\ worker[w].job \in Job
         /\ worker[w].left \in Nat
         /\ worker[w].attempt \in Nat
         /\ worker[w].sub \in Sub
         /\ worker[w].done \in Progress
         /\ worker[w].result \in Results
         /\ worker[w].token \in Token \union {NoToken}
         /\ worker[w].reaped \subseteq (Job \X (Token \union {NoToken}))
BY DEF RegenTypeOK, WorkerState

\* The fields of a row have their types.
LEMMA RowFields ==
  ASSUME RegenTypeOK, NEW j \in Job
  PROVE  /\ job[j] \in JobRow
         /\ job[j].status \in Statuses
         /\ job[j].attempts \in Nat
         /\ job[j].token \in Token \union {NoToken}
         /\ job[j].done \in Progress
         /\ job[j].mode \in Modes
         /\ job[j].dryRun \in BOOLEAN
         /\ job[j].settled \in BOOLEAN
         /\ job[j].lost \in BOOLEAN
BY DEF RegenTypeOK, JobRow

\* A step that moves one worker and maybe the rows, and leaves the rest alone.
LEMMA WorkerMoves ==
  ASSUME RegenTypeOK, NEW w \in Worker, NEW me \in WorkerState,
         worker' = [worker EXCEPT ![w] = me], job' \in [Job -> JobRow],
         bounds' \in [retries : Nat, subs : Nat, faults : Nat],
         UNCHANGED <<event, revision, sub, asked, pull, queued>>
  PROVE  RegenTypeOK'
BY DEF RegenTypeOK

\* Spending one of the bounds keeps their type.
LEMMA BoundsType ==
  ASSUME RegenTypeOK, Fault \/ UNCHANGED bounds
  PROVE  bounds' \in [retries : Nat, subs : Nat, faults : Nat]
BY DEF RegenTypeOK, Fault, Spent

\* Alerting a job keeps the rows' type.
LEMMA NotifyType ==
  ASSUME RegenTypeOK, NEW j \in Job, NEW t, Notify(j, t)
  PROVE  job' \in [Job -> JobRow]
<1>1. [job[j] EXCEPT !.alerted = TRUE] \in JobRow
  BY RowFields DEF JobRow
<1>2. job \in [Job -> JobRow]
  BY DEF RegenTypeOK
<1> QED
  BY <1>1, <1>2 DEF Notify

\* The sweep's part of a tick.
LEMMA SweepTypeStep ==
  ASSUME RegenTypeOK, NEW w \in Worker,
         Tick(w) \/ ReapFails(w) \/ AlertReaped(w) \/ ClaimFails(w) \/ EndTick(w)
  PROVE  RegenTypeOK'
<1>0. job \in [Job -> JobRow] /\ worker \in [Worker -> WorkerState]
  BY DEF RegenTypeOK
<1>1. CASE Tick(w)
  <2> DEFINE stale == {j \in Job : IsStale(j)}
             me == [IdleWorker EXCEPT !.pc = IF stale = {} THEN "claiming" ELSE "reaping",
                                      !.left = BatchSize,
                                      !.reaped = {<<j, job[j].token>> : j \in stale}]
  <2>1. \A j \in Job : [job[j] EXCEPT !.status = "dead_letter", !.due = FALSE, !.lost = TRUE,
                                      !.expired = FALSE, !.settled = TRUE] \in JobRow
    <3>1. "dead_letter" \in Statuses
      BY DEF Statuses, Terminal
    <3> QED
      BY <3>1, RowFields DEF JobRow
  <2>2. job' \in [Job -> JobRow]
    BY <1>0, <1>1, <2>1 DEF Tick
  <2>3. {<<j, job[j].token>> : j \in stale} \in SUBSET (Job \X (Token \union {NoToken}))
    BY RowFields
  <2>4. me \in WorkerState
    <3>1. BatchSize \in Nat
      BY RegenAssumption
    <3>2. (IF stale = {} THEN "claiming" ELSE "reaping") \in WorkerPhases
      BY DEF WorkerPhases
    <3> HIDE DEF stale
    <3> QED
      BY <2>3, <3>1, <3>2, IdleWorkerType DEF WorkerState
  <2>5. worker' = [worker EXCEPT ![w] = me]
          /\ UNCHANGED <<event, revision, sub, asked, pull, queued, bounds>>
    BY <1>1 DEF Tick
  <2> HIDE DEF me
  <2> QED
    BY <2>2, <2>4, <2>5, WorkerMoves, BoundsType
<1>2. CASE ReapFails(w)
  <2> DEFINE me == [IdleWorker EXCEPT !.pc = "claiming", !.left = BatchSize]
  <2>1. me \in WorkerState
    <3>1. BatchSize \in Nat /\ "claiming" \in WorkerPhases
      BY RegenAssumption DEF WorkerPhases
    <3> QED
      BY <3>1, IdleWorkerType DEF WorkerState
  <2>2. /\ worker' = [worker EXCEPT ![w] = me] /\ job' = job /\ Fault
        /\ UNCHANGED <<event, revision, sub, asked, pull, queued>>
    BY <1>2 DEF ReapFails
  <2> HIDE DEF me
  <2> QED
    BY <1>0, <2>1, <2>2, WorkerMoves, BoundsType
<1>3. CASE AlertReaped(w)
  <2> PICK x \in worker[w].reaped :
         /\ Notify(x[1], x[2])
         /\ worker' = [worker EXCEPT ![w].reaped = @ \ {x},
                                     ![w].pc = IF worker[w].reaped = {x} THEN "claiming"
                                               ELSE "reaping"]
    BY <1>3 DEF AlertReaped
  <2> DEFINE pc == IF worker[w].reaped = {x} THEN "claiming" ELSE "reaping"
             left == worker[w].reaped \ {x}
             me == [worker[w] EXCEPT !.reaped = left, !.pc = pc]
  <2>1. x[1] \in Job /\ left \in SUBSET (Job \X (Token \union {NoToken}))
    BY WorkerFields
  <2>2. job' \in [Job -> JobRow]
    BY <2>1, NotifyType
  <2>3. me \in WorkerState
    <3>1. pc \in WorkerPhases
      BY DEF WorkerPhases
    <3> HIDE DEF pc, left
    <3> QED
      BY <2>1, <3>1, WorkerFields DEF WorkerState
  <2>4. worker' = [worker EXCEPT ![w] = me]
    OBVIOUS
  <2>5. UNCHANGED <<event, revision, sub, asked, pull, queued, bounds>>
    BY <1>3 DEF AlertReaped
  <2> HIDE DEF me
  <2> QED
    BY <2>2, <2>3, <2>4, <2>5, WorkerMoves, BoundsType
<1>4. CASE ClaimFails(w) \/ EndTick(w)
  BY <1>0, <1>4, IdleWorkerType, WorkerMoves, BoundsType DEF ClaimFails, EndTick
<1> QED
  BY <1>1, <1>2, <1>3, <1>4

\* Types after claim_next_sdk_regen_job.
LEMMA ClaimTypeStep ==
  ASSUME RegenTypeOK, NEW w \in Worker, NEW j \in Job, Claim(w, j)
  PROVE  RegenTypeOK'
<1> DEFINE t == CHOOSE x \in FreshTokens : TRUE
           s2 == IF job[j].sub = sub[j[2]].id THEN sub[j[2]] ELSE NoSub
           left == worker[w].left - 1
           n == job[j].attempts + 1
           row == [job[j] EXCEPT !.status = "running", !.attempts = n, !.due = FALSE,
                                 !.expired = FALSE, !.token = t, !.alerted = FALSE]
           me == [worker[w] EXCEPT !.pc = "starting", !.left = left, !.job = j, !.token = t,
                                   !.attempt = n, !.done = job[j].done, !.sub = s2]
<1>1. t \in Token
  BY DEF Claim, FreshTokens
<1>2. n \in Nat
  BY RowFields
<1>3. left \in Nat
  BY WorkerFields DEF Claim
<1>4. s2 \in Sub
  BY NoSubType DEF RegenTypeOK, Job
<1>5. "running" \in Statuses /\ "starting" \in WorkerPhases
  BY DEF Statuses, Active, WorkerPhases
<1>6. /\ job' = [job EXCEPT ![j] = row]
      /\ worker' = [worker EXCEPT ![w] = me]
      /\ UNCHANGED <<event, revision, sub, asked, pull, queued, bounds>>
  BY DEF Claim
<1> HIDE DEF t, s2, n, left
<1>7. row \in JobRow
  BY <1>1, <1>2, <1>5, RowFields DEF JobRow
<1>8. me \in WorkerState
  BY <1>1, <1>2, <1>3, <1>4, <1>5, RowFields, WorkerFields DEF WorkerState
<1> HIDE DEF row, me
<1>9. job' \in [Job -> JobRow]
  BY <1>6, <1>7 DEF RegenTypeOK
<1> QED
  BY <1>6, <1>8, <1>9, WorkerMoves, BoundsType

\* A worker's record after a GoTo or a Conclude, with the rows as they were.
LEMMA WorkerTurns ==
  ASSUME RegenTypeOK, worker' \in [Worker -> WorkerState], job' \in [Job -> JobRow],
         pull' \in [Job -> Counter \union {NoCounter}],
         bounds' \in [retries : Nat, subs : Nat, faults : Nat],
         UNCHANGED <<event, revision, sub, asked, queued>>
  PROVE  RegenTypeOK'
BY DEF RegenTypeOK

\* Types after an attempt starts.
LEMMA StartTypeStep ==
  ASSUME RegenTypeOK, NEW w \in Worker, Start(w)
  PROVE  RegenTypeOK'
<1>1. worker' \in [Worker -> WorkerState]
  <2>1. worker[w].done \in Progress /\ {"cancelled", "transient", "permanent", "succeeded"}
            \subseteq Results
    BY WorkerFields DEF Results
  <2>2. "registry" \in WorkerPhases /\ "git" \in WorkerPhases
    BY DEF WorkerPhases
  <2> QED
    BY <2>1, <2>2, ConcludeType, GoToType DEF Start
<1> QED
  BY <1>1, WorkerTurns DEF Start, RegenTypeOK

\* Types after publish() is called.
LEMMA RegistryStartTypeStep ==
  ASSUME RegenTypeOK, NEW w \in Worker, RegistryStart(w)
  PROVE  RegenTypeOK'
<1> DEFINE done == [worker[w].done EXCEPT !.publish = "none", !.counter = NoCounter]
           me == [worker[w] EXCEPT !.pc = "publishing", !.done = done]
<1>1. done \in Progress
  BY WorkerFields DEF Progress, PublishStatuses
<1>2. worker' = [worker EXCEPT ![w] = me]
  BY DEF RegistryStart
<1> HIDE DEF done
<1>3. "publishing" \in WorkerPhases
  BY DEF WorkerPhases
<1>4. me \in WorkerState
  BY <1>1, <1>3, WorkerFields DEF WorkerState
<1>5. /\ job' = job
      /\ UNCHANGED <<event, revision, sub, asked, pull, queued, bounds>>
  BY DEF RegistryStart
<1>6. job \in [Job -> JobRow]
  BY DEF RegenTypeOK
<1> HIDE DEF me
<1> QED
  BY <1>2, <1>4, <1>5, <1>6, WorkerMoves, BoundsType

\* Types after publish() returns, with any outcome it has.
LEMMA RegistryReturnTypeStep ==
  ASSUME RegenTypeOK, NEW w \in Worker, NEW outcome, NEW c,
         outcome \in PublishDone => c \in Counter,
         RegistryReturn(w, outcome, c)
  PROVE  RegenTypeOK'
<1> DEFINE publish == IF outcome \in PublishDone \union {"dry_run"} THEN outcome ELSE "failed"
           counter == IF outcome \in PublishDone THEN c ELSE NoCounter
           done == [worker[w].done EXCEPT !.publish = publish, !.counter = counter]
           me == [worker[w] EXCEPT !.pc = "saving", !.done = done]
<1>1. publish \in PublishStatuses /\ counter \in Counter \union {NoCounter}
  BY DEF PublishStatuses, PublishDone
<1>2. \/ \E result \in Results : Conclude(w, done, result)
      \/ worker' = [worker EXCEPT ![w] = me]
  BY DEF RegistryReturn, Results
<1> HIDE DEF publish, counter
<1>3. done \in Progress
  BY <1>1, WorkerFields DEF Progress
<1> HIDE DEF done
<1>4. worker' \in [Worker -> WorkerState]
  <2>1. "saving" \in WorkerPhases
    BY DEF WorkerPhases
  <2>2. me \in WorkerState
    BY <1>3, <2>1, WorkerFields DEF WorkerState
  <2>3. worker \in [Worker -> WorkerState]
    BY DEF RegenTypeOK
  <2> HIDE DEF me
  <2> QED
    BY <1>2, <1>3, <2>2, <2>3, ConcludeType
<1> QED
  BY <1>4, WorkerTurns DEF RegistryReturn, RegenTypeOK

\* Types after _save_registry_progress.
LEMMA SaveProgressTypeStep ==
  ASSUME RegenTypeOK, NEW w \in Worker, SaveProgress(w)
  PROVE  RegenTypeOK'
<1> DEFINE me == worker[w]
           done == [job[me.job].done EXCEPT !.publish = me.done.publish,
                                            !.counter = me.done.counter]
           row == [job[me.job] EXCEPT !.done = done]
<1>1. me.job \in Job /\ me.done \in Progress
  BY WorkerFields
<1>2. done \in Progress
  BY <1>1, RowFields DEF Progress
<1>3. job' = job \/ job' = [job EXCEPT ![me.job] = row]
  <2>1. job' = job \/ job' = [job EXCEPT ![me.job].done.publish = me.done.publish,
                                        ![me.job].done.counter = me.done.counter]
    BY DEF SaveProgress
  <2>2. [job EXCEPT ![me.job].done.publish = me.done.publish,
                    ![me.job].done.counter = me.done.counter] = [job EXCEPT ![me.job] = row]
    OBVIOUS
  <2> QED
    BY <2>1, <2>2
<1>4. (\E result \in {"succeeded"} : Conclude(w, me.done, result)) \/ GoTo(w, "git")
  BY DEF SaveProgress
<1>5. UNCHANGED <<event, revision, sub, asked, pull, queued>> /\ (Fault \/ UNCHANGED bounds)
  BY DEF SaveProgress
<1> HIDE DEF done
<1>6. row \in JobRow
  BY <1>1, <1>2, RowFields DEF JobRow
<1>7. job' \in [Job -> JobRow]
  BY <1>1, <1>3, <1>6 DEF RegenTypeOK
<1>8. worker' \in [Worker -> WorkerState]
  <2>1. "succeeded" \in Results /\ "git" \in WorkerPhases
    BY DEF Results, WorkerPhases
  <2> QED
    BY <1>1, <1>4, <2>1, ConcludeType, GoToType
<1>9. pull' \in [Job -> Counter \union {NoCounter}]
  BY <1>5 DEF RegenTypeOK
<1> QED
  BY <1>5, <1>7, <1>8, <1>9, WorkerTurns, BoundsType

\* A delivery is pinned to a counter or to none.
LEMMA PinnedType ==
  ASSUME NEW done \in Progress
  PROVE  Pinned(done) \in Counter \union {NoCounter}
BY DEF Pinned, Progress

\* Types after a push and after the delivery returns.
LEMMA GitTypeStep ==
  ASSUME RegenTypeOK, NEW w \in Worker,
         GitPush(w) \/ \E result \in {"succeeded", "transient", "permanent"} : GitReturn(w, result)
  PROVE  RegenTypeOK'
<1>0. /\ worker[w].done \in Progress
      /\ pull \in [Job -> Counter \union {NoCounter}]
      /\ worker \in [Worker -> WorkerState]
  BY WorkerFields DEF RegenTypeOK
<1>1. pull' \in [Job -> Counter \union {NoCounter}]
  BY <1>0, PinnedType DEF GitPush, GitReturn
<1>2. worker' \in [Worker -> WorkerState]
  <2>1. CASE GitPush(w)
    BY <1>0, <2>1 DEF GitPush
  <2>2. ASSUME NEW result \in {"succeeded", "transient", "permanent"}, GitReturn(w, result)
        PROVE  worker' \in [Worker -> WorkerState]
    <3>1. \A git \in {"delivered", "none", "failed"} :
             [worker[w].done EXCEPT !.git = git] \in Progress
      BY <1>0 DEF Progress, GitStatuses
    <3>2. result \in Results
      BY DEF Results
    <3>3. \E git \in {"delivered", "none", "failed"} :
             Conclude(w, [worker[w].done EXCEPT !.git = git], result)
      BY <2>2 DEF GitReturn
    <3> QED
      BY <3>1, <3>2, <3>3, ConcludeType
  <2> QED
    BY <2>1, <2>2
<1>3. UNCHANGED <<event, revision, sub, job, asked, queued, bounds>>
  BY DEF GitPush, GitReturn
<1> QED
  BY <1>1, <1>2, <1>3, WorkerTurns DEF RegenTypeOK

\* The row an attempt is closed with.
LEMMA ClosedRowType ==
  ASSUME RegenTypeOK, NEW w \in Worker
  PROVE  ClosedRow(w) \in JobRow
<1> DEFINE me == worker[w]
           row == job[me.job]
           status == StatusAfter(me.result, me.attempt)
           mode == IF me.sub.active THEN me.sub.mode ELSE row.mode
           dryRun == IF me.sub.active THEN me.sub.dryRun ELSE row.dryRun
           settled == row.settled \/ status \in Terminal
<1>1. row \in JobRow /\ me.done \in Progress /\ me.sub \in Sub /\ me.result \in Results
  BY WorkerFields, RowFields
<1>2. status \in Statuses
  BY <1>1, StatusAfterType DEF Statuses, Active, Terminal
<1>3. mode \in Modes /\ dryRun \in BOOLEAN
  BY <1>1 DEF JobRow, Sub
<1>4. settled \in BOOLEAN
  OBVIOUS
<1>5. ClosedRow(w) = [row EXCEPT !.status = status, !.due = FALSE, !.expired = FALSE,
                                 !.lost = FALSE, !.done = me.done, !.mode = mode,
                                 !.dryRun = dryRun, !.settled = settled]
  BY DEF ClosedRow
<1> HIDE DEF status, mode, dryRun, settled, row, me
<1> QED
  BY <1>1, <1>2, <1>3, <1>4, <1>5 DEF JobRow

\* Types after the close-out of an attempt.
LEMMA FinishTypeStep ==
  ASSUME RegenTypeOK, NEW w \in Worker, Finish(w)
  PROVE  RegenTypeOK'
<1>0. /\ worker \in [Worker -> WorkerState] /\ job \in [Job -> JobRow]
      /\ "alerting" \in WorkerPhases
  BY DEF RegenTypeOK, WorkerPhases
<1>2. job' \in [Job -> JobRow]
  BY <1>0, ClosedRowType DEF Finish
<1>3. worker' \in [Worker -> WorkerState]
  <2>1. GoTo(w, "alerting") \/ worker' = [worker EXCEPT ![w] = NextInBatch(w)]
    BY DEF Finish
  <2> QED
    BY <1>0, <2>1, GoToType, NextInBatchType
<1>4. UNCHANGED <<event, revision, sub, asked, pull, queued, bounds>>
  BY DEF Finish
<1> QED
  BY <1>2, <1>3, <1>4, WorkerTurns DEF RegenTypeOK

\* Types after the steps that only leave an attempt: a failed write, an alert, a crash.
LEMMA LeaveTypeStep ==
  ASSUME RegenTypeOK, NEW w \in Worker, FinishFails(w) \/ Alert(w) \/ Crash(w)
  PROVE  RegenTypeOK'
<1>1. job' \in [Job -> JobRow]
  <2>1. job \in [Job -> JobRow]
    BY DEF RegenTypeOK
  <2> QED
    BY <2>1, NotifyType, WorkerFields DEF FinishFails, Alert, Crash
<1>2. \E me \in WorkerState : worker' = [worker EXCEPT ![w] = me]
  BY NextInBatchType, IdleWorkerType DEF FinishFails, Alert, Crash
<1>3. Fault \/ UNCHANGED bounds
  BY DEF FinishFails, Alert, Crash
<1>4. UNCHANGED <<event, revision, sub, asked, pull, queued>>
  BY DEF FinishFails, Alert, Crash
<1> QED
  BY <1>1, <1>2, <1>3, <1>4, WorkerMoves, BoundsType

\* Every step keeps the types.
LEMMA RegenTypeStep == RegenTypeOK /\ [RegenNext]_regenVars => RegenTypeOK'
<1> SUFFICES ASSUME RegenTypeOK, [RegenNext]_regenVars PROVE RegenTypeOK'
  OBVIOUS
<1>1. CASE UNCHANGED regenVars
  BY <1>1 DEF regenVars, RegenTypeOK
<1>2. CASE PublishingNext \/ PeopleNext \/ TimeNext
  BY <1>2, OutsideTypeStep
<1>3. ASSUME NEW w \in Worker, WorkerStep(w)
      PROVE  RegenTypeOK'
  BY <1>3, SweepTypeStep, ClaimTypeStep, StartTypeStep, SaveProgressTypeStep, GitTypeStep,
     FinishTypeStep, LeaveTypeStep DEF WorkerStep
<1>4. ASSUME NEW w \in Worker, AnyPublish(w)
      PROVE  RegenTypeOK'
  BY <1>4, RegistryStartTypeStep, RegistryReturnTypeStep DEF AnyPublish
<1>5. ASSUME NEW w \in Worker, Crash(w)
      PROVE  RegenTypeOK'
  BY <1>5, LeaveTypeStep
<1> QED
  BY <1>1, <1>2, <1>3, <1>4, <1>5 DEF RegenNext

\* Rows, workers, subscriptions and deliveries keep their types.
THEOREM RegenTypesHold == RegenSpec => []RegenTypeOK
<1> QED
  BY RegenTypeInit, RegenTypeStep, PTL DEF RegenSpec

-----------------------------------------------------------------------------
(* The inductive invariant. *)

\* What a step that claims nothing leaves of a row: its place in the queue, its claim,
\* and that it has settled.
RowFollows(row, new) ==
    /\ new.born = row.born
    /\ new.sub \in {0, row.sub}
    /\ new.token = row.token
    /\ row.settled => new.settled

\* The claim is closed, or nothing of it has changed.
ClaimFollows(row, new) ==
    /\ new.token = row.token
    /\ ClaimOpen(new) => /\ ClaimOpen(row)
                         /\ new.attempts = row.attempts
                         /\ new.done = row.done

\* The inductive invariant holds initially.
LEMMA InvariantInit == RegenInit => RegenInvariant
<1> SUFFICES ASSUME RegenInit PROVE RegenInvariant
  OBVIOUS
<1>1. RegenTypeOK
  BY RegenTypeInit
<1>2. ASSUME NEW j \in Job PROVE RowSound(j, job[j])
  <2>1. job[j] = NoJobRow /\ event[j[1]] = "none"
    BY DEF RegenInit, Job
  <2> QED
    BY <2>1, RegenAssumption
    DEF NoJobRow, RowSound, Terminal, Claimable, Active
<1>3. ASSUME NEW w \in Worker
      PROVE  WorkerSound(worker[w]) /\ ClaimSound(worker[w], job[worker[w].job])
  <2>1. worker[w] = IdleWorker
    BY DEF RegenInit
  <2> QED
    BY <2>1 DEF IdleWorker, Nothing, WorkerSound, ClaimSound, GitStepDone
<1>4. OneHolderPerToken
  BY DEF RegenInit, IdleWorker, OneHolderPerToken
<1>5. NothingOvertaken
  BY DEF RegenInit, NoJobRow, NothingOvertaken
<1> QED
  BY <1>1, <1>2, <1>3, <1>4, <1>5 DEF RegenInvariant

\* A worker and a row that follow an earlier pair agree if that pair did.
LEMMA ClaimStays ==
  ASSUME NEW me, NEW row, NEW new, ClaimSound(me, row), ClaimFollows(row, new)
  PROVE  ClaimSound(me, new)
BY DEF ClaimSound, ClaimFollows

\* Rows that follow earlier rows are overtaken only if those were.
LEMMA OvertakenStays ==
  ASSUME RegenInvariant, \A j \in Job : RowFollows(job[j], job'[j])
  PROVE  NothingOvertaken'
<1> SUFFICES ASSUME NEW i \in Job, NEW j \in Job, Earlier(i, j)', job'[j].token # NoToken
             PROVE  job'[i].settled
  BY DEF NothingOvertaken
<1>1. Earlier(i, j) /\ job[j].token # NoToken
  BY DEF Earlier, RowFollows
<1>2. job[i].settled
  BY <1>1 DEF RegenInvariant, NothingOvertaken
<1> QED
  BY <1>2 DEF RowFollows

\* Rows that follow sound rows, with their order kept, are sound.
LEMMA RowsStay ==
  ASSUME RegenInvariant, job' = job, queued' = queued,
         \A k \in Event : event[k] = "queued" => event'[k] = "queued"
  PROVE  /\ \A j \in Job : RowSound(j, job[j])'
         /\ NothingOvertaken'
<1>1. ASSUME NEW j \in Job PROVE RowSound(j, job[j])'
  <2>1. RowSound(j, job[j]) /\ j[1] \in Event
    BY DEF RegenInvariant, Job
  <2> QED
    BY <2>1 DEF RowSound
<1>2. NothingOvertaken'
  BY OvertakenStays DEF RowFollows
<1> QED
  BY <1>1, <1>2

\* A step in which no worker takes a new token.
LEMMA WithoutClaim ==
  ASSUME RegenInvariant, RegenTypeOK',
         \A j \in Job : RowSound(j, job[j])',
         NothingOvertaken',
         \A v \in Worker : /\ worker'[v].token \in {NoToken, worker[v].token}
                           /\ WorkerSound(worker'[v])
                           /\ ClaimSound(worker'[v], job'[worker'[v].job])
  PROVE  RegenInvariant'
<1>1. OneHolderPerToken'
  BY DEF RegenInvariant, OneHolderPerToken
<1> QED
  BY <1>1 DEF RegenInvariant

\* ... in which only worker w moves, and the rows stay.
LEMMA WorkerAlone ==
  ASSUME RegenInvariant, RegenTypeOK', NEW w \in Worker, NEW me,
         worker' = [worker EXCEPT ![w] = me],
         me.token \in {NoToken, worker[w].token},
         WorkerSound(me), ClaimSound(me, job[me.job]),
         UNCHANGED <<event, job, queued>>
  PROVE  RegenInvariant'
<1>1. \A j \in Job : RowSound(j, job[j])'
  BY RowsStay
<1>2. NothingOvertaken'
  BY RowsStay
<1>3. worker \in [Worker -> WorkerState]
  BY DEF RegenInvariant, RegenTypeOK
<1>4. ASSUME NEW v \in Worker
      PROVE  /\ worker'[v].token \in {NoToken, worker[v].token}
             /\ WorkerSound(worker'[v])
             /\ ClaimSound(worker'[v], job'[worker'[v].job])
  BY <1>3 DEF RegenInvariant
<1> QED
  BY <1>1, <1>2, <1>4, WithoutClaim

\* ... in which workers stay, and every claim is closed or as it was.
LEMMA RowsAlone ==
  ASSUME RegenInvariant, RegenTypeOK', worker' = worker,
         \A j \in Job : RowSound(j, job[j])',
         NothingOvertaken',
         \A j \in Job : ClaimFollows(job[j], job'[j])
  PROVE  RegenInvariant'
<1>1. ASSUME NEW v \in Worker
      PROVE  /\ WorkerSound(worker'[v])
             /\ ClaimSound(worker'[v], job'[worker'[v].job])
  BY ClaimStays, WorkerFields DEF RegenInvariant
<1> QED
  BY <1>1, WithoutClaim

-----------------------------------------------------------------------------
(* Publishing, people and time. *)

\* Publishing, people, time and the retry route keep the invariant.
LEMMA OutsideInvariantStep ==
  ASSUME RegenInvariant, PublishingNext \/ PeopleNext \/ TimeNext
  PROVE  RegenInvariant'
<1>0. RegenTypeOK'
  BY OutsideTypeStep DEF RegenInvariant
<1>1. /\ job \in [Job -> JobRow]
      /\ event \in [Event -> {"none", "published", "queued", "dropped"}]
      /\ RegenTypeOK
  BY DEF RegenInvariant, RegenTypeOK
<1>2. worker' = worker
  BY DEF PublishingNext, PeopleNext, TimeNext, PublishVersion, Enqueue, DropEnqueue, Withdraw,
         PutSubscription, SetActive, Unsubscribe, AskRetry, Requeue, LeaseExpires, BackoffElapses
<1>3. ASSUME job' = job, queued' = queued,
             \A k \in Event : event[k] = "queued" => event'[k] = "queued"
      PROVE  RegenInvariant'
  BY <1>0, <1>2, <1>3, RowsStay, RowsAlone DEF ClaimFollows
<1>4. ASSUME NEW k \in Event, PublishVersion(k) \/ DropEnqueue(k) \/ Withdraw(k)
      PROVE  RegenInvariant'
  BY <1>1, <1>3, <1>4 DEF PublishVersion, DropEnqueue, Withdraw
<1>5. ASSUME NEW k \in Event, Enqueue(k)
      PROVE  RegenInvariant'
  <2>1. ASSUME NEW j \in Job
        PROVE  \/ job'[j] = job[j]
               \/ /\ j[1] = k
                  /\ job[j].status = "absent"
                  /\ job'[j].status = "pending"
                  /\ job'[j].token = NoToken
                  /\ job'[j].born = queued
                  /\ job'[j].attempts = 0
                  /\ job'[j].done = Nothing
    <3>1. CASE job'[j] = job[j]
      BY <3>1
    <3>2. CASE job'[j] # job[j]
      <4>1. /\ j[1] = k
            /\ job'[j] = [NoJobRow EXCEPT !.status = "pending", !.due = TRUE, !.born = queued,
                                          !.sub = sub[j[2]].id, !.mode = sub[j[2]].mode,
                                          !.dryRun = sub[j[2]].dryRun]
        <5> DEFINE rows == {<<k, e>> : e \in {d \in Ecosystem : sub[d].active}}
        <5>1. j \in rows
          BY <1>5, <3>2 DEF Enqueue
        <5>2. j[1] = k
          BY <5>1
        <5>3. job'[j] = [NoJobRow EXCEPT !.status = "pending", !.due = TRUE, !.born = queued,
                                         !.sub = sub[j[2]].id, !.mode = sub[j[2]].mode,
                                         !.dryRun = sub[j[2]].dryRun]
          BY <1>5, <5>1 DEF Enqueue
        <5> QED
          BY <5>2, <5>3
      <4>2. job[j].status = "absent"
        BY <1>5, <4>1 DEF RegenInvariant, RowSound, Enqueue
      <4> QED
        BY <4>1, <4>2 DEF NoJobRow
    <3> QED
      BY <3>1, <3>2
  <2>2. /\ queued \in Nat /\ queued' = queued + 1
        /\ event' = [event EXCEPT ![k] = "queued"]
    BY <1>1, <1>5 DEF Enqueue, RegenTypeOK
  <2>3. ASSUME NEW j \in Job PROVE RowSound(j, job[j])'
    <3>1. RowSound(j, job[j]) /\ job[j].born \in Nat /\ j[1] \in Event
      BY <1>1 DEF RegenInvariant, JobRow, Job
    <3>2. CASE job'[j] = job[j]
      <4>1. event'[j[1]] # "queued" => event[j[1]] # "queued"
        BY <1>1, <2>2, <3>1
      <4>2. job[j].born < queued => job[j].born < queued'
        BY <2>2, <3>1
      <4> QED
        BY <3>1, <3>2, <4>1, <4>2 DEF RowSound
    <3>3. CASE job'[j] # job[j]
      <4>1. event'[j[1]] = "queued" /\ queued < queued'
        BY <1>1, <2>1, <2>2, <3>1, <3>3
      <4>2. job'[j].done.git = "none"
        BY <2>1, <3>3 DEF Nothing
      <4>3. 0 < MaxAttempts /\ 0 <= MaxAttempts
        BY RegenAssumption
      <4> QED
        BY <2>1, <3>3, <4>1, <4>2, <4>3 DEF RowSound, Terminal, GitStepDone
    <3> QED
      BY <3>2, <3>3
  <2>4. NothingOvertaken'
    <3> SUFFICES ASSUME NEW i \in Job, NEW j \in Job, Earlier(i, j)', job'[j].token # NoToken
                 PROVE  job'[i].settled
      BY DEF NothingOvertaken
    <3>1. job'[j] = job[j] /\ job[j].status # "absent" /\ job[j].born < queued
      BY <2>1 DEF RegenInvariant, RowSound
    <3>2. job[j].born \in Nat
      BY <1>1 DEF JobRow
    <3>3. job'[i].born # queued
      BY <2>2, <3>1, <3>2 DEF Earlier
    <3>4. job'[i] = job[i]
      BY <2>1, <3>3
    <3> QED
      BY <3>1, <3>4 DEF RegenInvariant, NothingOvertaken, Earlier
  <2>5. ASSUME NEW j \in Job PROVE ClaimFollows(job[j], job'[j])
    <3>1. job[j].status = "absent" => job[j].token = NoToken
      BY DEF RegenInvariant, RowSound
    <3> QED
      BY <2>1, <3>1 DEF ClaimFollows, ClaimOpen
  <2> QED
    BY <1>0, <1>2, <2>3, <2>4, <2>5, RowsAlone
<1>6. ASSUME NEW e \in Ecosystem, NEW setting, NEW active,
             PutSubscription(e, setting, active) \/ SetActive(e, active)
      PROVE  RegenInvariant'
  BY <1>3, <1>6 DEF PutSubscription, SetActive
<1>7. ASSUME UNCHANGED <<event, queued>>,
             \A j \in Job : /\ RowSound(j, job'[j])
                            /\ RowFollows(job[j], job'[j])
                            /\ ClaimFollows(job[j], job'[j])
      PROVE  RegenInvariant'
  <2>1. \A j \in Job : RowSound(j, job[j])'
    BY <1>7 DEF RowSound
  <2> QED
    BY <1>0, <1>2, <1>7, <2>1, OvertakenStays, RowsAlone
<1>8. ASSUME NEW e \in Ecosystem, Unsubscribe(e)
      PROVE  RegenInvariant'
  <2>1. ASSUME NEW j \in Job
        PROVE  \/ job'[j] = job[j]
               \/ job'[j] = [job[j] EXCEPT !.sub = 0]
    BY <1>8 DEF Unsubscribe
  <2>2. ASSUME NEW j \in Job
        PROVE  RowSound(j, job'[j]) /\ RowFollows(job[j], job'[j]) /\ ClaimFollows(job[j], job'[j])
    <3>1. RowSound(j, job[j]) /\ job[j] \in JobRow
      BY <1>1 DEF RegenInvariant
    <3> QED
      BY <2>1, <3>1 DEF RowSound, RowFollows, ClaimFollows, ClaimOpen, JobRow
  <2> QED
    BY <1>7, <1>8, <2>2 DEF Unsubscribe
<1>9. ASSUME NEW j \in Job, LeaseExpires(j) \/ BackoffElapses(j)
      PROVE  RegenInvariant'
  <2>1. ASSUME NEW i \in Job
        PROVE  \/ job'[i] = job[i]
               \/ job'[i] = [job[i] EXCEPT !.expired = TRUE]
               \/ job'[i] = [job[i] EXCEPT !.due = TRUE]
    BY <1>1, <1>9 DEF LeaseExpires, BackoffElapses
  <2>2. ASSUME NEW i \in Job
        PROVE  RowSound(i, job'[i]) /\ RowFollows(job[i], job'[i]) /\ ClaimFollows(job[i], job'[i])
    <3>1. RowSound(i, job[i]) /\ job[i] \in JobRow
      BY <1>1 DEF RegenInvariant
    <3>2. CASE job'[i] = job[i]
      BY <3>1, <3>2 DEF RowFollows, ClaimFollows
    <3>3. CASE job'[i] = [job[i] EXCEPT !.expired = TRUE]
      BY <3>1, <3>3 DEF RowSound, RowFollows, ClaimFollows, ClaimOpen, JobRow
    <3>4. CASE job'[i] = [job[i] EXCEPT !.due = TRUE]
      BY <3>1, <3>4 DEF RowSound, RowFollows, ClaimFollows, ClaimOpen, JobRow
    <3> QED
      BY <2>1, <3>2, <3>3, <3>4
  <2> QED
    BY <1>7, <1>9, <2>2 DEF LeaseExpires, BackoffElapses
<1>10. ASSUME NEW j \in Job, AskRetry(j)
       PROVE  RegenInvariant'
  BY <1>3, <1>10 DEF AskRetry
<1>11. ASSUME NEW j \in Job, Requeue(j)
       PROVE  RegenInvariant'
  <2>1. ASSUME NEW i \in Job
        PROVE  \/ job'[i] = job[i]
               \/ /\ job[i].status = "dead_letter"
                  /\ job'[i] = [job[i] EXCEPT !.status = "pending", !.attempts = 0,
                                              !.due = TRUE, !.lost = FALSE]
    BY <1>1, <1>11 DEF Requeue
  <2>2. ASSUME NEW i \in Job
        PROVE  RowSound(i, job'[i]) /\ RowFollows(job[i], job'[i]) /\ ClaimFollows(job[i], job'[i])
    <3>1. RowSound(i, job[i]) /\ job[i] \in JobRow
      BY <1>1 DEF RegenInvariant
    <3>2. 0 < MaxAttempts /\ 0 <= MaxAttempts
      BY RegenAssumption
    <3>3. CASE job'[i] = job[i]
      BY <3>1, <3>3 DEF RowSound, RowFollows, ClaimFollows
    <3>4. CASE job'[i] # job[i]
      <4>1. /\ job[i].status = "dead_letter" /\ job'[i].status = "pending"
            /\ job'[i].attempts = 0 /\ job'[i].born = job[i].born /\ job'[i].sub = job[i].sub
            /\ job'[i].token = job[i].token /\ job'[i].settled = job[i].settled
            /\ job'[i].done = job[i].done
        BY <2>1, <3>1, <3>4 DEF JobRow
      <4>2. RowSound(i, job'[i])
        BY <3>1, <3>2, <4>1 DEF RowSound, Terminal, Claimable, Active
      <4>3. RowFollows(job[i], job'[i]) /\ ClaimFollows(job[i], job'[i])
        BY <4>1 DEF RowFollows, ClaimFollows, ClaimOpen
      <4> QED
        BY <4>2, <4>3
    <3> QED
      BY <3>3, <3>4
  <2> QED
    BY <1>7, <1>11, <2>2 DEF Requeue
<1> QED
  BY <1>4, <1>5, <1>6, <1>8, <1>9, <1>10, <1>11 DEF PublishingNext, PeopleNext, TimeNext

-----------------------------------------------------------------------------
(* The worker. *)

\* Worker w moves and rows change, and every claim is closed or as it was.
LEMMA WorkerAndRows ==
  ASSUME RegenInvariant, RegenTypeOK', NEW w \in Worker, NEW me,
         worker' = [worker EXCEPT ![w] = me],
         me.token \in {NoToken, worker[w].token},
         WorkerSound(me), ClaimSound(me, job'[me.job]),
         UNCHANGED <<event, queued>>,
         \A j \in Job : /\ RowSound(j, job'[j])
                        /\ RowFollows(job[j], job'[j])
                        /\ ClaimFollows(job[j], job'[j])
  PROVE  RegenInvariant'
<1>1. \A j \in Job : RowSound(j, job[j])'
  BY DEF RowSound
<1>2. NothingOvertaken'
  BY OvertakenStays
<1>3. worker \in [Worker -> WorkerState]
  BY DEF RegenInvariant, RegenTypeOK
<1>4. ASSUME NEW v \in Worker
      PROVE  /\ worker'[v].token \in {NoToken, worker[v].token}
             /\ WorkerSound(worker'[v])
             /\ ClaimSound(worker'[v], job'[worker'[v].job])
  <2>1. CASE v = w
    BY <1>3, <2>1
  <2>2. CASE v # w
    <3>1. worker'[v] = worker[v] /\ worker[v].job \in Job
      BY <1>3, <2>2 DEF WorkerState
    <3>2. WorkerSound(worker[v]) /\ ClaimSound(worker[v], job[worker[v].job])
      BY DEF RegenInvariant
    <3> QED
      BY <3>1, <3>2, ClaimStays
  <2> QED
    BY <2>1, <2>2
<1> QED
  BY <1>1, <1>2, <1>4, WithoutClaim

\* A worker between two attempts.
LEMMA BetweenAttempts ==
  ASSUME NEW me, NEW row, me.token = NoToken, me.pc \in {"idle", "reaping", "claiming"},
         me.done = Nothing
  PROVE  WorkerSound(me) /\ ClaimSound(me, row)
BY DEF WorkerSound, ClaimSound, Nothing, GitStepDone

\* A worker that goes on with its batch holds no claim.
LEMMA NextInBatchFields ==
  ASSUME NEW w \in Worker
  PROVE  /\ NextInBatch(w).token = NoToken
         /\ NextInBatch(w).pc = "claiming"
         /\ NextInBatch(w).done = Nothing
BY DEF NextInBatch, IdleWorker

\* An idle worker holds no claim.
LEMMA IdleFields ==
  /\ IdleWorker.token = NoToken
  /\ IdleWorker.pc = "idle"
  /\ IdleWorker.done = Nothing
BY DEF IdleWorker

\* A row that is only alerted.
LEMMA AlertedRow ==
  ASSUME RegenInvariant, NEW i \in Job, NEW t, Notify(i, t), NEW j \in Job
  PROVE  /\ RowSound(j, job'[j])
         /\ RowFollows(job[j], job'[j])
         /\ ClaimFollows(job[j], job'[j])
<1>1. /\ RowSound(j, job[j]) /\ job[j] \in JobRow
      /\ job \in [Job -> JobRow]
  BY DEF RegenInvariant, RegenTypeOK
<1>2. job'[j] = job[j] \/ job'[j] = [job[j] EXCEPT !.alerted = TRUE]
  BY <1>1 DEF Notify
<1> QED
  BY <1>1, <1>2 DEF RowSound, RowFollows, ClaimFollows, ClaimOpen, JobRow

\* The lease sweep keeps the invariant: what it dead-letters keeps its token.
LEMMA TickInvariantStep ==
  ASSUME RegenInvariant, RegenTypeOK', NEW w \in Worker, Tick(w)
  PROVE  RegenInvariant'
<1> DEFINE stale == {j \in Job : IsStale(j)}
           me == [IdleWorker EXCEPT !.pc = IF stale = {} THEN "claiming" ELSE "reaping",
                                    !.left = BatchSize,
                                    !.reaped = {<<j, job[j].token>> : j \in stale}]
<1>1. /\ worker' = [worker EXCEPT ![w] = me]
      /\ UNCHANGED <<event, queued>>
  BY DEF Tick
<1>2. me.token = NoToken /\ me.pc \in {"reaping", "claiming"} /\ me.done = Nothing
  BY DEF IdleWorker
<1>3. ASSUME NEW j \in Job
      PROVE  /\ RowSound(j, job'[j])
             /\ RowFollows(job[j], job'[j])
             /\ ClaimFollows(job[j], job'[j])
  <2>1. RowSound(j, job[j]) /\ job[j] \in JobRow
    BY DEF RegenInvariant, RegenTypeOK
  <2>2. CASE job'[j] = job[j]
    BY <2>1, <2>2 DEF RowSound, RowFollows, ClaimFollows
  <2>3. CASE job'[j] # job[j]
    <3>1. /\ job[j].status = "running"
          /\ job'[j] = [job[j] EXCEPT !.status = "dead_letter", !.due = FALSE, !.lost = TRUE,
                                      !.expired = FALSE, !.settled = TRUE]
      BY <2>3 DEF Tick, IsStale
    <3>2. /\ job'[j].status = "dead_letter" /\ job'[j].settled
          /\ job'[j].attempts = job[j].attempts /\ job'[j].born = job[j].born
          /\ job'[j].sub = job[j].sub /\ job'[j].token = job[j].token
          /\ job'[j].done = job[j].done
      BY <2>1, <3>1 DEF JobRow
    <3>3. RowSound(j, job'[j])
      BY <2>1, <3>1, <3>2 DEF RowSound, Claimable, Active
    <3>4. RowFollows(job[j], job'[j]) /\ ClaimFollows(job[j], job'[j])
      BY <3>1, <3>2 DEF RowFollows, ClaimFollows, ClaimOpen
    <3> QED
      BY <3>3, <3>4
  <2> QED
    BY <2>2, <2>3
<1> HIDE DEF me
<1> QED
  BY <1>1, <1>2, <1>3, BetweenAttempts, WorkerAndRows

\* The steps of a tick that leave the rows as they are, or alert one.
LEMMA SweepInvariantStep ==
  ASSUME RegenInvariant, RegenTypeOK', NEW w \in Worker,
         \/ ReapFails(w) \/ ClaimFails(w) \/ EndTick(w) \/ AlertReaped(w)
         \/ FinishFails(w) \/ Alert(w) \/ Crash(w)
  PROVE  RegenInvariant'
<1>1. CASE ReapFails(w)
  <2> DEFINE me == [IdleWorker EXCEPT !.pc = "claiming", !.left = BatchSize]
  <2>1. worker' = [worker EXCEPT ![w] = me] /\ UNCHANGED <<event, job, queued>>
    BY <1>1 DEF ReapFails
  <2>2. me.token = NoToken /\ me.pc = "claiming" /\ me.done = Nothing
    BY DEF IdleWorker
  <2> HIDE DEF me
  <2> QED
    BY <2>1, <2>2, BetweenAttempts, WorkerAlone
<1>2. CASE ClaimFails(w) \/ EndTick(w) \/ Crash(w)
  <2>1. worker' = [worker EXCEPT ![w] = IdleWorker] /\ UNCHANGED <<event, job, queued>>
    BY <1>2 DEF ClaimFails, EndTick, Crash
  <2> QED
    BY <2>1, IdleFields, BetweenAttempts, WorkerAlone
<1>3. CASE AlertReaped(w)
  <2>1. PICK x \in worker[w].reaped :
         /\ Notify(x[1], x[2])
         /\ worker' = [worker EXCEPT ![w].reaped = @ \ {x},
                                     ![w].pc = IF worker[w].reaped = {x} THEN "claiming"
                                               ELSE "reaping"]
    BY <1>3 DEF AlertReaped
  <2> DEFINE pc == IF worker[w].reaped = {x} THEN "claiming" ELSE "reaping"
             left == worker[w].reaped \ {x}
             me == [worker[w] EXCEPT !.reaped = left, !.pc = pc]
  <2>2. /\ worker[w] \in WorkerState /\ x[1] \in Job
        /\ WorkerSound(worker[w]) /\ ClaimSound(worker[w], job[worker[w].job])
    BY WorkerFields DEF RegenInvariant
  <2>3. worker' = [worker EXCEPT ![w] = me] /\ UNCHANGED <<event, queued>>
    BY <1>3, <2>1 DEF AlertReaped
  <2>4. worker[w].pc = "reaping" /\ pc \in {"claiming", "reaping"}
    BY <1>3 DEF AlertReaped
  <2> HIDE DEF pc, left
  <2>5. /\ me.token = worker[w].token /\ me.done = worker[w].done /\ me.pc = pc
        /\ me.job = worker[w].job /\ me.attempt = worker[w].attempt
    BY <2>2 DEF WorkerState
  <2> HIDE DEF me
  <2>6. WorkerSound(me)
    BY <2>2, <2>4, <2>5 DEF WorkerSound
  <2>7. \A j \in Job : /\ RowSound(j, job'[j])
                       /\ RowFollows(job[j], job'[j])
                       /\ ClaimFollows(job[j], job'[j])
    BY <2>1, <2>2, AlertedRow
  <2>8. ClaimSound(me, job[me.job])
    BY <2>2, <2>4, <2>5 DEF ClaimSound
  <2>9. ClaimSound(me, job'[me.job])
    BY <2>2, <2>5, <2>7, <2>8, ClaimStays DEF WorkerState
  <2> QED
    BY <2>3, <2>5, <2>6, <2>7, <2>9, WorkerAndRows
<1>4. CASE FinishFails(w)
  <2>1. worker' = [worker EXCEPT ![w] = NextInBatch(w)] /\ UNCHANGED <<event, job, queued>>
    BY <1>4 DEF FinishFails
  <2> QED
    BY <2>1, NextInBatchFields, BetweenAttempts, WorkerAlone
<1>5. CASE Alert(w)
  <2>1. /\ worker' = [worker EXCEPT ![w] = NextInBatch(w)] /\ UNCHANGED <<event, queued>>
        /\ Notify(worker[w].job, worker[w].token) /\ worker[w].job \in Job
    BY <1>5, WorkerFields DEF Alert, RegenInvariant
  <2> QED
    BY <2>1, AlertedRow, NextInBatchFields, BetweenAttempts, WorkerAndRows
<1> QED
  BY <1>1, <1>2, <1>3, <1>4, <1>5

\* A claim keeps the invariant: its token is fresh, and nothing earlier is open.
LEMMA ClaimInvariantStep ==
  ASSUME RegenInvariant, RegenTypeOK', NEW w \in Worker, NEW j \in Job, Claim(w, j)
  PROVE  RegenInvariant'
<1> DEFINE t == CHOOSE x \in FreshTokens : TRUE
           s2 == IF job[j].sub = sub[j[2]].id THEN sub[j[2]] ELSE NoSub
           left == worker[w].left - 1
           n == job[j].attempts + 1
           row == [job[j] EXCEPT !.status = "running", !.attempts = n, !.due = FALSE,
                                 !.expired = FALSE, !.token = t, !.alerted = FALSE]
           me == [worker[w] EXCEPT !.pc = "starting", !.left = left, !.job = j, !.token = t,
                                   !.attempt = n, !.done = job[j].done, !.sub = s2]
<1>1. /\ job' = [job EXCEPT ![j] = row] /\ worker' = [worker EXCEPT ![w] = me]
      /\ UNCHANGED <<event, queued>> /\ IsClaimable(j)
  BY DEF Claim
<1>2. /\ job \in [Job -> JobRow] /\ worker \in [Worker -> WorkerState]
      /\ RowSound(j, job[j])
  BY DEF RegenInvariant, RegenTypeOK
<1>3. t \in Token /\ t \notin HeldTokens /\ t # NoToken
  <2>1. t \in FreshTokens
    BY DEF Claim
  <2> QED
    BY <2>1, RegenAssumption DEF FreshTokens
<1>4. (\A i \in Job : job[i].token # t) /\ (\A v \in Worker : worker[v].token # t)
  BY <1>3 DEF HeldTokens
<1> HIDE DEF t, s2, left, n
<1>5. /\ row.status = "running" /\ row.attempts = n /\ row.token = t /\ row.sub = job[j].sub
      /\ row.born = job[j].born /\ row.done = job[j].done /\ row.settled = job[j].settled
  BY <1>2 DEF JobRow
<1>6. /\ me.pc = "starting" /\ me.token = t /\ me.attempt = n /\ me.done = job[j].done
      /\ me.job = j
  BY <1>2 DEF WorkerState
<1> HIDE DEF row, me
<1>7. job[j].attempts < MaxAttempts /\ ~GitStepDone(job[j].done.git) /\ job[j].status # "absent"
      /\ event[j[1]] = "queued" /\ job[j].born < queued
  BY <1>1, <1>2 DEF IsClaimable, RowSound, Active, Claimable
<1>8. ASSUME NEW i \in Job PROVE RowSound(i, job[i])'
  <2>1. CASE i = j
    <3>1. n <= MaxAttempts
      BY <1>2, <1>7, RegenAssumption DEF n, JobRow
    <3> QED
      BY <1>1, <1>2, <1>5, <1>7, <2>1, <3>1 DEF RowSound, Terminal, Claimable
  <2>2. CASE i # j
    BY <1>1, <1>2, <2>2 DEF RowSound, RegenInvariant
  <2> QED
    BY <2>1, <2>2
<1>9. ASSUME NEW v \in Worker
      PROVE  WorkerSound(worker'[v]) /\ ClaimSound(worker'[v], job'[worker'[v].job])
  <2>1. CASE v = w
    <3>1. WorkerSound(me)
      BY <1>3, <1>6, <1>7 DEF WorkerSound
    <3>2. ClaimSound(me, row)
      BY <1>5, <1>6 DEF ClaimSound
    <3> QED
      BY <1>1, <1>2, <1>6, <2>1, <3>1, <3>2
  <2>2. CASE v # w
    <3>1. /\ worker'[v] = worker[v] /\ worker[v].job \in Job
          /\ WorkerSound(worker[v]) /\ ClaimSound(worker[v], job[worker[v].job])
      BY <1>1, <1>2, <2>2 DEF RegenInvariant, WorkerState
    <3>2. CASE worker[v].job = j
      BY <1>1, <1>2, <1>4, <1>5, <3>1, <3>2 DEF ClaimSound
    <3>3. CASE worker[v].job # j
      BY <1>1, <1>2, <3>1, <3>3
    <3> QED
      BY <3>2, <3>3
  <2> QED
    BY <2>1, <2>2
<1>10. OneHolderPerToken'
  <2> SUFFICES ASSUME NEW v \in Worker, NEW u \in Worker, v # u, worker'[v].token # NoToken
               PROVE  worker'[v].token # worker'[u].token
    BY DEF OneHolderPerToken
  <2> QED
    BY <1>1, <1>2, <1>4, <1>6 DEF RegenInvariant, OneHolderPerToken
<1>11. NothingOvertaken'
  <2> SUFFICES ASSUME NEW i \in Job, NEW i2 \in Job, Earlier(i, i2)', job'[i2].token # NoToken
               PROVE  job'[i].settled
    BY DEF NothingOvertaken
  <2>1. Earlier(i, i2) /\ job'[i].settled = job[i].settled
    BY <1>1, <1>2, <1>5 DEF Earlier
  <2>2. CASE i2 = j
    <3>1. job[i].status \notin Active /\ job[i].sub # 0
      BY <1>1, <2>1, <2>2 DEF IsClaimable, Earlier
    <3>2. RowSound(i, job[i]) /\ job[i].status \in Statuses
      BY <1>2 DEF RegenInvariant, JobRow
    <3>3. job[i].settled
      BY <3>1, <3>2 DEF RowSound, Statuses
    <3> QED
      BY <2>1, <3>3
  <2>3. CASE i2 # j
    BY <1>1, <1>2, <2>1, <2>3 DEF RegenInvariant, NothingOvertaken
  <2> QED
    BY <2>2, <2>3
<1> QED
  BY <1>8, <1>9, <1>10, <1>11 DEF RegenInvariant

\* A worker that only changes phase, or concludes its attempt: what the new record must
\* satisfy for the invariant to be kept.
LEMMA WorkerGoesOn ==
  ASSUME RegenInvariant, RegenTypeOK', NEW w \in Worker, NEW pc, NEW done, NEW result,
         worker' = [worker EXCEPT ![w] = [worker[w] EXCEPT !.pc = pc, !.done = done,
                                                           !.result = result]],
         WorkerSound([worker[w] EXCEPT !.pc = pc, !.done = done, !.result = result]),
         \/ job[worker[w].job].done.publish \notin PublishDone
         \/ /\ pc \notin {"registry", "publishing"}
            /\ done.publish = worker[w].done.publish
            /\ done.counter = worker[w].done.counter,
         UNCHANGED <<event, job, queued>>
  PROVE  RegenInvariant'
<1> DEFINE me == [worker[w] EXCEPT !.pc = pc, !.done = done, !.result = result]
<1>1. worker[w] \in WorkerState /\ ClaimSound(worker[w], job[worker[w].job])
  BY WorkerFields DEF RegenInvariant
<1>2. /\ me.token = worker[w].token /\ me.job = worker[w].job /\ me.attempt = worker[w].attempt
      /\ me.pc = pc /\ me.done = done
  BY <1>1 DEF WorkerState
<1>3. worker' = [worker EXCEPT ![w] = me] /\ WorkerSound(me)
  OBVIOUS
<1> HIDE DEF me
<1>4. ClaimSound(me, job[me.job])
  BY <1>1, <1>2 DEF ClaimSound
<1> QED
  BY <1>2, <1>3, <1>4, WorkerAlone

\* Changing phase keeps the worker's claim.
LEMMA GoToGoesOn ==
  ASSUME RegenInvariant, NEW w \in Worker, NEW pc, GoTo(w, pc)
  PROVE  worker' = [worker EXCEPT ![w] = [worker[w] EXCEPT !.pc = pc, !.done = worker[w].done,
                                                           !.result = worker[w].result]]
<1>1. worker[w] \in WorkerState
  BY WorkerFields DEF RegenInvariant
<1>2. [worker[w] EXCEPT !.pc = pc]
         = [worker[w] EXCEPT !.pc = pc, !.done = worker[w].done, !.result = worker[w].result]
  BY <1>1 DEF WorkerState
<1> QED
  BY <1>2 DEF GoTo

\* Reaching a result keeps the worker's claim.
LEMMA ConcludeGoesOn ==
  ASSUME NEW w \in Worker, NEW done, NEW result, Conclude(w, done, result)
  PROVE  worker' = [worker EXCEPT ![w] = [worker[w] EXCEPT !.pc = "closing", !.done = done,
                                                           !.result = result]]
BY DEF Conclude

\* What WorkerSound asks of a record built by the two lemmas above.
LEMMA GoesOnSound ==
  ASSUME RegenInvariant, NEW w \in Worker, NEW pc, NEW done, NEW result,
         worker[w].pc \notin {"idle", "reaping", "claiming"},
         pc \in {"registry", "publishing", "saving", "git"} => worker[w].sub.active,
         pc \in {"saving", "git"} \/ (pc = "closing" /\ result = "succeeded") =>
           (IncludesRegistry(worker[w].sub.mode) =>
              RegistryStepDone(done.publish, worker[w].sub.dryRun)),
         pc = "closing" /\ result = "succeeded" =>
           /\ worker[w].sub.active
           /\ IncludesGit(worker[w].sub.mode) => GitStepDone(done.git),
         GitStepDone(done.git) => pc = "closing" /\ result = "succeeded"
  PROVE  WorkerSound([worker[w] EXCEPT !.pc = pc, !.done = done, !.result = result])
<1> DEFINE me == [worker[w] EXCEPT !.pc = pc, !.done = done, !.result = result]
<1>1. worker[w] \in WorkerState /\ worker[w].token # NoToken
  BY WorkerFields DEF RegenInvariant, WorkerSound
<1>2. /\ me.token = worker[w].token /\ me.pc = pc /\ me.done = done /\ me.result = result
      /\ me.sub = worker[w].sub
  BY <1>1 DEF WorkerState
<1> HIDE DEF me
<1>3. WorkerSound(me)
  BY <1>1, <1>2 DEF WorkerSound
<1> QED
  BY <1>3 DEF me

\* Choosing the first step of an attempt keeps the invariant.
LEMMA StartInvariantStep ==
  ASSUME RegenInvariant, RegenTypeOK', NEW w \in Worker, Start(w)
  PROVE  RegenInvariant'
<1> DEFINE me == worker[w]
<1>1. me \in WorkerState /\ me.pc = "starting" /\ UNCHANGED <<event, job, queued>>
  BY WorkerFields DEF Start, RegenInvariant
<1>2. WorkerSound(me) /\ ClaimSound(me, job[me.job])
  BY DEF RegenInvariant
<1>3. ~GitStepDone(me.done.git)
  BY <1>1, <1>2 DEF WorkerSound
<1>4. ASSUME NEW result \in {"cancelled", "transient", "permanent"}, Conclude(w, me.done, result)
      PROVE  RegenInvariant'
  <2>1. WorkerSound([worker[w] EXCEPT !.pc = "closing", !.done = me.done, !.result = result])
    BY <1>1, <1>3, GoesOnSound
  <2>2. worker' = [worker EXCEPT ![w] = [worker[w] EXCEPT !.pc = "closing", !.done = me.done,
                                                          !.result = result]]
    BY <1>4 DEF Conclude
  <2> QED
    BY <1>1, <2>1, <2>2, WorkerGoesOn
<1>5. CASE me.sub.active /\ NeedsRegistry(w) /\ GoTo(w, "registry")
  <2>1. /\ IncludesRegistry(me.sub.mode)
        /\ ~RegistryStepDone(me.done.publish, me.sub.dryRun)
    BY <1>5 DEF NeedsRegistry
  <2>2. worker' = [worker EXCEPT ![w] = [worker[w] EXCEPT !.pc = "registry", !.done = me.done,
                                                          !.result = me.result]]
    BY <1>5, GoToGoesOn
  <2>3. WorkerSound([worker[w] EXCEPT !.pc = "registry", !.done = me.done, !.result = me.result])
    BY <1>1, <1>3, <1>5, GoesOnSound
  <2>4. worker' = [worker EXCEPT ![w] = [worker[w] EXCEPT !.pc = "registry"]]
    BY <1>5 DEF GoTo
  <2> DEFINE new == [worker[w] EXCEPT !.pc = "registry"]
  <2>5. /\ new.token = me.token /\ new.job = me.job /\ new.pc = "registry"
        /\ new.done = me.done /\ new.attempt = me.attempt
        /\ new = [worker[w] EXCEPT !.pc = "registry", !.done = me.done, !.result = me.result]
    BY <1>1 DEF WorkerState
  <2> HIDE DEF new
  <2>6. ClaimSound(new, job[new.job])
    BY <1>2, <2>1, <2>5 DEF ClaimSound, RegistryStepDone
  <2> QED
    BY <1>1, <2>3, <2>4, <2>5, <2>6, WorkerAlone DEF new
<1>6. CASE me.sub.active /\ ~NeedsRegistry(w) /\ NeedsGit(me.sub.mode, me.done) /\ GoTo(w, "git")
  <2>1. IncludesRegistry(me.sub.mode) => RegistryStepDone(me.done.publish, me.sub.dryRun)
    BY <1>6 DEF NeedsRegistry
  <2>2. WorkerSound([worker[w] EXCEPT !.pc = "git", !.done = me.done, !.result = me.result])
    BY <1>1, <1>3, <1>6, <2>1, GoesOnSound
  <2> QED
    BY <1>1, <1>6, <2>2, GoToGoesOn, WorkerGoesOn
<1>7. CASE /\ me.sub.active /\ ~NeedsRegistry(w) /\ ~NeedsGit(me.sub.mode, me.done)
           /\ Conclude(w, me.done, "succeeded")
  <2>1. /\ IncludesRegistry(me.sub.mode) => RegistryStepDone(me.done.publish, me.sub.dryRun)
        /\ IncludesGit(me.sub.mode) => GitStepDone(me.done.git)
    BY <1>7 DEF NeedsRegistry, NeedsGit
  <2>2. WorkerSound([worker[w] EXCEPT !.pc = "closing", !.done = me.done, !.result = "succeeded"])
    BY <1>1, <1>3, <1>7, <2>1, GoesOnSound
  <2> QED
    BY <1>1, <1>7, <2>2, ConcludeGoesOn, WorkerGoesOn
<1> QED
  BY <1>4, <1>5, <1>6, <1>7 DEF Start

\* Calling publish() keeps the invariant.
LEMMA RegistryStartInvariantStep ==
  ASSUME RegenInvariant, RegenTypeOK', NEW w \in Worker, RegistryStart(w)
  PROVE  RegenInvariant'
<1> DEFINE done == [worker[w].done EXCEPT !.publish = "none", !.counter = NoCounter]
           me == [worker[w] EXCEPT !.pc = "publishing", !.done = done]
<1>1. /\ worker[w] \in WorkerState /\ worker[w].done \in Progress /\ worker[w].pc = "registry"
      /\ WorkerSound(worker[w]) /\ ClaimSound(worker[w], job[worker[w].job])
  BY WorkerFields DEF RegistryStart, RegenInvariant
<1>2. worker' = [worker EXCEPT ![w] = me] /\ UNCHANGED <<event, job, queued>>
  BY DEF RegistryStart
<1>3. done.git = worker[w].done.git
  BY <1>1 DEF Progress
<1> HIDE DEF done
<1>4. /\ me.token = worker[w].token /\ me.job = worker[w].job /\ me.pc = "publishing"
      /\ me.done = done /\ me.attempt = worker[w].attempt /\ me.sub = worker[w].sub
  BY <1>1 DEF WorkerState
<1> HIDE DEF me
<1>5. WorkerSound(me)
  BY <1>1, <1>3, <1>4 DEF WorkerSound
<1>6. ClaimSound(me, job[me.job])
  BY <1>1, <1>4 DEF ClaimSound
<1> QED
  BY <1>2, <1>4, <1>5, <1>6, WorkerAlone

\* Whatever publish() returns keeps the invariant.
LEMMA RegistryReturnInvariantStep ==
  ASSUME RegenInvariant, RegenTypeOK', NEW w \in Worker, NEW outcome, NEW c,
         outcome = "dry_run" => worker[w].sub.dryRun,
         outcome \in PublishDone \union {"dry_run", "failed_retryable", "unavailable",
                                         "failed_final", "refused"},
         RegistryReturn(w, outcome, c)
  PROVE  RegenInvariant'
<1> DEFINE me == worker[w]
           publish == IF outcome \in PublishDone \union {"dry_run"} THEN outcome ELSE "failed"
           counter == IF outcome \in PublishDone THEN c ELSE NoCounter
           done == [me.done EXCEPT !.publish = publish, !.counter = counter]
<1>1. /\ me \in WorkerState /\ me.done \in Progress /\ me.pc = "publishing"
      /\ WorkerSound(me) /\ ClaimSound(me, job[me.job]) /\ UNCHANGED <<event, job, queued>>
  BY WorkerFields DEF RegistryReturn, RegenInvariant
<1>2. \/ outcome \in {"failed_retryable", "unavailable"} /\ Conclude(w, done, "transient")
      \/ outcome \in {"failed_final", "refused"} /\ Conclude(w, done, "permanent")
      \/ /\ outcome \in PublishDone \union {"dry_run"}
         /\ IncludesGit(me.sub.mode)
         /\ worker' = [worker EXCEPT ![w].pc = "saving", ![w].done = done]
      \/ /\ outcome \in PublishDone \union {"dry_run"}
         /\ ~IncludesGit(me.sub.mode)
         /\ Conclude(w, done, "succeeded")
  BY DEF RegistryReturn, PublishDone
<1>3. done.git = me.done.git /\ done.publish = publish
  BY <1>1 DEF Progress
<1>4. outcome \in PublishDone \union {"dry_run"} =>
         RegistryStepDone(done.publish, me.sub.dryRun)
  BY <1>3 DEF RegistryStepDone
<1> HIDE DEF done, publish, counter
<1>5. me.sub.active /\ ~GitStepDone(done.git)
  BY <1>1, <1>3 DEF WorkerSound
<1> DEFINE New(pc, result) == [me EXCEPT !.pc = pc, !.done = done, !.result = result]
<1>6. ASSUME NEW pc, NEW result,
             pc # "closing" \/ result # "succeeded" \/
               (~IncludesGit(me.sub.mode) /\ outcome \in PublishDone \union {"dry_run"}),
             pc \in {"saving", "git"} => outcome \in PublishDone \union {"dry_run"},
             worker' = [worker EXCEPT ![w] = New(pc, result)]
      PROVE  RegenInvariant'
  <2> DEFINE new == New(pc, result)
  <2>1. WorkerSound(new)
    BY <1>1, <1>4, <1>5, <1>6, GoesOnSound
  <2>2. new.token = me.token /\ new.job = me.job /\ new.attempt = me.attempt
    BY <1>1 DEF WorkerState
  <2>3. worker' = [worker EXCEPT ![w] = new]
    BY <1>6
  <2> HIDE DEF new
  <2>4. ClaimSound(new, job[new.job])
    BY <1>1, <2>2 DEF ClaimSound
  <2> QED
    BY <1>1, <2>1, <2>2, <2>3, <2>4, WorkerAlone
<1>7. [me EXCEPT !.pc = "saving", !.done = done] = New("saving", me.result)
  BY <1>1 DEF WorkerState
<1>8. worker' = [worker EXCEPT ![w].pc = "saving", ![w].done = done]
        => worker' = [worker EXCEPT ![w] = New("saving", me.result)]
  <2> DEFINE new == [me EXCEPT !.pc = "saving", !.done = done]
  <2>1. worker' = [worker EXCEPT ![w].pc = "saving", ![w].done = done]
          => worker' = [worker EXCEPT ![w] = new]
    OBVIOUS
  <2>2. new = New("saving", me.result)
    BY <1>7
  <2> HIDE DEF new, New
  <2> QED
    BY <2>1, <2>2
<1>9. ASSUME NEW result, Conclude(w, done, result)
      PROVE  worker' = [worker EXCEPT ![w] = New("closing", result)]
  BY <1>9 DEF Conclude
<1> HIDE DEF New, me
<1>10. ASSUME NEW result \in {"transient", "permanent"}, Conclude(w, done, result)
       PROVE  RegenInvariant'
  <2>1. worker' = [worker EXCEPT ![w] = New("closing", result)]
    BY <1>9, <1>10
  <2> QED
    BY <1>6, <2>1
<1>11. ASSUME outcome \in PublishDone \union {"dry_run"},
              worker' = [worker EXCEPT ![w].pc = "saving", ![w].done = done]
       PROVE  RegenInvariant'
  <2>1. worker' = [worker EXCEPT ![w] = New("saving", me.result)]
    BY <1>8, <1>11
  <2> QED
    BY <1>6, <1>11, <2>1
<1>12. ASSUME outcome \in PublishDone \union {"dry_run"}, ~IncludesGit(me.sub.mode),
              Conclude(w, done, "succeeded")
       PROVE  RegenInvariant'
  <2>1. worker' = [worker EXCEPT ![w] = New("closing", "succeeded")]
    BY <1>9, <1>12
  <2> QED
    BY <1>6, <1>12, <2>1
<1> QED
  BY <1>2, <1>10, <1>11, <1>12

\* The steps between registry and git write what the worker knows into its own row.
LEMMA SaveProgressInvariantStep ==
  ASSUME RegenInvariant, RegenTypeOK', NEW w \in Worker, SaveProgress(w)
  PROVE  RegenInvariant'
<1> DEFINE me == worker[w]
           done == [job[me.job].done EXCEPT !.publish = me.done.publish,
                                            !.counter = me.done.counter]
           row == [job[me.job] EXCEPT !.done = done]
<1>1. /\ me \in WorkerState /\ me.job \in Job /\ me.done \in Progress /\ me.pc = "saving"
      /\ WorkerSound(me) /\ ClaimSound(me, job[me.job]) /\ UNCHANGED <<event, queued>>
  BY WorkerFields DEF SaveProgress, RegenInvariant
<1>2. /\ job \in [Job -> JobRow] /\ worker \in [Worker -> WorkerState]
      /\ job[me.job].done \in Progress /\ RowSound(me.job, job[me.job])
  BY <1>1, RowFields DEF RegenInvariant, RegenTypeOK
<1>3. \/ job' = job
      \/ ClaimHolds(w) /\ job' = [job EXCEPT ![me.job] = row]
  <2>1. \/ job' = job
        \/ ClaimHolds(w) /\ job' = [job EXCEPT ![me.job].done.publish = me.done.publish,
                                              ![me.job].done.counter = me.done.counter]
    BY DEF SaveProgress
  <2>2. [job EXCEPT ![me.job].done.publish = me.done.publish,
                    ![me.job].done.counter = me.done.counter] = [job EXCEPT ![me.job] = row]
    OBVIOUS
  <2> QED
    BY <2>1, <2>2
<1>4. /\ done.publish = me.done.publish /\ done.counter = me.done.counter
      /\ done.git = job[me.job].done.git
  BY <1>2 DEF Progress
<1> HIDE DEF done
<1>5. /\ row.status = job[me.job].status /\ row.token = job[me.job].token /\ row.done = done
      /\ row.attempts = job[me.job].attempts /\ row.born = job[me.job].born
      /\ row.sub = job[me.job].sub /\ row.settled = job[me.job].settled
      /\ row.lost = job[me.job].lost
  BY <1>2 DEF JobRow
<1> HIDE DEF row
<1>6. ASSUME NEW j \in Job PROVE RowSound(j, job[j])' /\ RowFollows(job[j], job'[j])
  <2>0. RowSound(j, job[j])
    BY DEF RegenInvariant
  <2>1. CASE job'[j] = job[j]
    BY <1>1, <2>0, <2>1 DEF RowSound, RowFollows
  <2>2. CASE job'[j] # job[j]
    <3>1. j = me.job /\ job'[j] = row /\ job[j].status = "running"
      BY <1>2, <1>3, <2>2 DEF ClaimHolds
    <3> QED
      BY <1>1, <1>4, <1>5, <2>0, <3>1 DEF RowSound, RowFollows, Claimable, Terminal
  <2> QED
    BY <2>1, <2>2
<1>7. NothingOvertaken'
  BY <1>6, OvertakenStays
<1>8. ASSUME NEW v \in Worker, worker'[v] = worker[v], v # w
      PROVE  /\ WorkerSound(worker'[v])
             /\ ClaimSound(worker'[v], job'[worker'[v].job])
  <2>1. /\ worker[v].job \in Job /\ WorkerSound(worker[v])
        /\ ClaimSound(worker[v], job[worker[v].job])
    BY <1>2 DEF RegenInvariant, WorkerState
  <2>2. CASE job'[worker[v].job] = job[worker[v].job]
    BY <1>8, <2>1, <2>2
  <2>3. CASE job'[worker[v].job] # job[worker[v].job]
    <3>1. /\ worker[v].job = me.job /\ job'[me.job] = row
          /\ job[me.job].token = me.token
      BY <1>2, <1>3, <2>1, <2>3 DEF ClaimHolds
    <3>2. me.token # NoToken /\ me.token # worker[v].token
      BY <1>1, <1>8 DEF WorkerSound, RegenInvariant, OneHolderPerToken
    <3> QED
      BY <1>5, <1>8, <2>1, <3>1, <3>2 DEF ClaimSound
  <2> QED
    BY <2>2, <2>3
<1>9. ASSUME NEW pc, NEW result,
             \/ pc = "git"
             \/ /\ pc = "closing" /\ result = "succeeded"
                /\ ~NeedsGit(me.sub.mode, me.done),
             worker' = [worker EXCEPT ![w] = [me EXCEPT !.pc = pc, !.done = me.done,
                                                        !.result = result]]
      PROVE  RegenInvariant'
  <2> DEFINE new == [me EXCEPT !.pc = pc, !.done = me.done, !.result = result]
  <2>1. /\ me.sub.active /\ ~GitStepDone(me.done.git)
        /\ IncludesRegistry(me.sub.mode) => RegistryStepDone(me.done.publish, me.sub.dryRun)
    BY <1>1 DEF WorkerSound
  <2>2. WorkerSound(new)
    BY <1>1, <1>9, <2>1, GoesOnSound DEF NeedsGit
  <2>3. /\ new.token = me.token /\ new.job = me.job /\ new.attempt = me.attempt
        /\ new.done = me.done /\ new.pc = pc
    BY <1>1 DEF WorkerState
  <2>4. worker' = [worker EXCEPT ![w] = new]
    BY <1>9
  <2> HIDE DEF new
  <2>5. ClaimSound(new, job'[new.job])
    <3>1. CASE job'[me.job] = job[me.job]
      BY <1>1, <1>9, <2>3, <3>1 DEF ClaimSound
    <3>2. CASE job'[me.job] # job[me.job]
      <4>1. job'[me.job] = row /\ ClaimHolds(w)
        BY <1>1, <1>2, <1>3, <3>2
      <4> QED
        BY <1>1, <1>4, <1>5, <1>9, <2>3, <4>1 DEF ClaimSound, ClaimOpen, ClaimHolds
    <3> QED
      BY <3>1, <3>2
  <2>6. ASSUME NEW v \in Worker
        PROVE  /\ worker'[v].token \in {NoToken, worker[v].token}
               /\ WorkerSound(worker'[v])
               /\ ClaimSound(worker'[v], job'[worker'[v].job])
    <3>1. CASE v = w
      BY <1>2, <2>2, <2>3, <2>4, <2>5, <3>1
    <3>2. CASE v # w
      BY <1>2, <1>8, <2>4, <3>2
    <3> QED
      BY <3>1, <3>2
  <2> QED
    BY <1>6, <1>7, <2>6, WithoutClaim
<1>10. CASE GoTo(w, "git")
  <2>1. worker' = [worker EXCEPT ![w] = [me EXCEPT !.pc = "git", !.done = me.done,
                                                   !.result = me.result]]
    BY <1>10, GoToGoesOn
  <2> QED
    BY <1>9, <2>1
<1>11. CASE Conclude(w, me.done, "succeeded") /\ ~NeedsGit(me.sub.mode, me.done)
  <2>1. worker' = [worker EXCEPT ![w] = [me EXCEPT !.pc = "closing", !.done = me.done,
                                                   !.result = "succeeded"]]
    BY <1>11 DEF Conclude
  <2> QED
    BY <1>9, <1>11, <2>1
<1> QED
  BY <1>10, <1>11 DEF SaveProgress

\* A push and the end of a delivery keep the invariant.
LEMMA GitInvariantStep ==
  ASSUME RegenInvariant, RegenTypeOK', NEW w \in Worker,
         GitPush(w) \/ \E result \in {"succeeded", "transient", "permanent"} : GitReturn(w, result)
  PROVE  RegenInvariant'
<1> DEFINE me == worker[w]
<1>1. /\ me \in WorkerState /\ me.done \in Progress /\ me.pc = "git"
      /\ WorkerSound(me) /\ UNCHANGED <<event, job, queued>>
  BY WorkerFields DEF GitPush, GitReturn, RegenInvariant
<1>2. CASE GitPush(w)
  <2>1. worker' = worker /\ NothingOvertaken' /\ \A j \in Job : RowSound(j, job[j])'
    BY <1>1, <1>2, RowsStay DEF GitPush
  <2> QED
    BY <1>1, <2>1, RowsAlone DEF ClaimFollows
<1>3. ASSUME NEW result \in {"succeeded", "transient", "permanent"},
             NEW git \in {"delivered", "none", "failed"},
             git = "delivered" <=> result = "succeeded",
             Conclude(w, [me.done EXCEPT !.git = git], result)
      PROVE  RegenInvariant'
  <2> DEFINE done == [me.done EXCEPT !.git = git]
  <2>1. /\ done.git = git /\ done.publish = me.done.publish /\ done.counter = me.done.counter
    BY <1>1 DEF Progress
  <2>2. Conclude(w, done, result)
    BY <1>3
  <2>3. worker' = [worker EXCEPT ![w] = [worker[w] EXCEPT !.pc = "closing", !.done = done,
                                                          !.result = result]]
    BY <2>2 DEF Conclude
  <2> HIDE DEF done
  <2>4. WorkerSound([worker[w] EXCEPT !.pc = "closing", !.done = done, !.result = result])
    <3>1. /\ me.sub.active
          /\ IncludesRegistry(me.sub.mode) => RegistryStepDone(me.done.publish, me.sub.dryRun)
      BY <1>1 DEF WorkerSound
    <3>2. GitStepDone(done.git) <=> result = "succeeded"
      BY <1>3, <2>1 DEF GitStepDone
    <3> QED
      BY <1>1, <2>1, <3>1, <3>2, GoesOnSound
  <2> QED
    BY <1>1, <2>1, <2>3, <2>4, WorkerGoesOn
<1>4. ASSUME NEW result \in {"succeeded", "transient", "permanent"}, GitReturn(w, result)
      PROVE  RegenInvariant'
  <2>1. CASE result = "succeeded"
    BY <1>3, <1>4, <2>1 DEF GitReturn
  <2>2. CASE result # "succeeded"
    BY <1>3, <1>4, <2>2 DEF GitReturn
  <2> QED
    BY <2>1, <2>2
<1> QED
  BY <1>2, <1>4

\* The close-out keeps the invariant, accepted or refused.
LEMMA FinishInvariantStep ==
  ASSUME RegenInvariant, RegenTypeOK', NEW w \in Worker, Finish(w)
  PROVE  RegenInvariant'
<1> DEFINE me == worker[w]
           row == job[me.job]
           new == ClosedRow(w)
           status == StatusAfter(me.result, me.attempt)
<1>1. /\ me \in WorkerState /\ me.job \in Job /\ me.pc = "closing" /\ me.result \in Results
      /\ WorkerSound(me) /\ ClaimSound(me, row) /\ RowSound(me.job, row)
      /\ UNCHANGED <<event, queued>> /\ me.attempt \in Nat
  BY WorkerFields DEF Finish, RegenInvariant
<1>2. /\ job \in [Job -> JobRow] /\ worker \in [Worker -> WorkerState] /\ row \in JobRow
  BY <1>1 DEF RegenInvariant, RegenTypeOK
<1>3. CASE /\ ~CloseAccepted(w) /\ worker' = [worker EXCEPT ![w] = NextInBatch(w)]
           /\ job' = job
  BY <1>1, <1>3, NextInBatchFields, BetweenAttempts, WorkerAlone
<1>4. CASE /\ CloseAccepted(w) /\ job' = [job EXCEPT ![me.job] = new]
           /\ IF new.status = "dead_letter" THEN GoTo(w, "alerting")
              ELSE worker' = [worker EXCEPT ![w] = NextInBatch(w)]
  <2>1. /\ new.status = status /\ ~new.lost /\ new.done = me.done /\ new.born = row.born
        /\ new.sub = row.sub /\ new.token = row.token /\ new.attempts = row.attempts
        /\ new.settled = (row.settled \/ status \in Terminal)
        /\ me.sub.active => new.mode = me.sub.mode /\ new.dryRun = me.sub.dryRun
    BY <1>2 DEF ClosedRow, JobRow
  <2>2. me.attempt = row.attempts /\ row.status # "absent"
    BY <1>1, <1>4 DEF CloseAccepted, ClaimOpen, ClaimSound, WorkerSound
  <2>3. /\ status \in {"succeeded", "cancelled", "retrying", "dead_letter"}
        /\ status = "retrying" => me.attempt < MaxAttempts
        /\ status = "succeeded" <=> me.result = "succeeded"
    BY <1>1 DEF StatusAfter, Results
  <2>4. me.result # "succeeded" => ~GitStepDone(me.done.git)
    BY <1>1 DEF WorkerSound
  <2> HIDE DEF status, new
  <2>5. RowSound(me.job, new)
    <3>1. status = "succeeded" =>
            /\ IncludesRegistry(new.mode) => RegistryStepDone(new.done.publish, new.dryRun)
            /\ IncludesGit(new.mode) => GitStepDone(new.done.git)
      BY <1>1, <2>1, <2>3 DEF WorkerSound
    <3>2. new.settled = (row.settled \/ new.status \in Terminal)
      BY <2>1
    <3>3. /\ event[me.job[1]] = "queued" /\ row.born < queued /\ row.attempts <= MaxAttempts
      BY <1>1, <2>2 DEF RowSound
    <3>4. new.status \in Terminal => new.settled
      BY <3>2
    <3>5. new.status \in Active \union {"dead_letter"} => ~GitStepDone(new.done.git)
      BY <2>1, <2>3, <2>4 DEF Active
    <3>6. new.status \in Claimable => new.attempts < MaxAttempts
      BY <2>1, <2>2, <2>3 DEF Claimable
    <3> QED
      BY <2>1, <2>3, <3>1, <3>3, <3>4, <3>5, <3>6 DEF RowSound
  <2>6. RowFollows(row, new)
    <3>1. row.settled => new.settled
      BY <2>1
    <3> QED
      BY <2>1, <3>1 DEF RowFollows
  <2>7. ClaimFollows(row, new)
    BY <2>1, <2>3 DEF ClaimFollows, ClaimOpen
  <2>8. ASSUME NEW j \in Job
        PROVE  /\ RowSound(j, job'[j])
               /\ RowFollows(job[j], job'[j])
               /\ ClaimFollows(job[j], job'[j])
    <3>1. CASE j = me.job
      BY <1>2, <1>4, <2>5, <2>6, <2>7, <3>1
    <3>2. CASE j # me.job
      BY <1>2, <1>4, <3>2 DEF RowFollows, ClaimFollows, RegenInvariant
    <3> QED
      BY <3>1, <3>2
  <2>9. CASE new.status = "dead_letter"
    <3> DEFINE turned == [me EXCEPT !.pc = "alerting", !.done = me.done, !.result = me.result]
    <3>1. worker' = [worker EXCEPT ![w] = turned]
      BY <1>4, <2>9, GoToGoesOn
    <3>2. WorkerSound(turned)
      BY <1>1, <2>1, <2>3, <2>4, <2>9, GoesOnSound
    <3>3. turned.token = me.token /\ turned.job = me.job
      BY <1>1 DEF WorkerState
    <3> HIDE DEF turned
    <3>4. job'[turned.job] = new
      BY <1>1, <1>2, <1>4, <3>3
    <3>5. ClaimSound(turned, job'[turned.job])
      BY <2>1, <2>3, <2>9, <3>4 DEF ClaimSound, ClaimOpen
    <3> QED
      BY <1>1, <2>8, <3>1, <3>2, <3>3, <3>5, WorkerAndRows
  <2>10. CASE new.status # "dead_letter"
    BY <1>1, <1>4, <2>8, <2>10, NextInBatchFields, BetweenAttempts, WorkerAndRows
  <2> QED
    BY <2>9, <2>10
<1> QED
  BY <1>3, <1>4 DEF Finish

\* Every step keeps the inductive invariant.
LEMMA InvariantStep == RegenInvariant /\ [RegenNext]_regenVars => RegenInvariant'
<1> SUFFICES ASSUME RegenInvariant, [RegenNext]_regenVars PROVE RegenInvariant'
  OBVIOUS
<1>0. RegenTypeOK'
  BY RegenTypeStep DEF RegenInvariant
<1>1. CASE UNCHANGED regenVars
  BY <1>0, <1>1, RowsStay, RowsAlone DEF regenVars, ClaimFollows
<1>2. CASE PublishingNext \/ PeopleNext \/ TimeNext
  BY <1>2, OutsideInvariantStep
<1>3. ASSUME NEW w \in Worker, WorkerStep(w)
      PROVE  RegenInvariant'
  BY <1>0, <1>3, TickInvariantStep, SweepInvariantStep, ClaimInvariantStep, StartInvariantStep,
     SaveProgressInvariantStep, GitInvariantStep, FinishInvariantStep DEF WorkerStep
<1>4. ASSUME NEW w \in Worker, AnyPublish(w)
      PROVE  RegenInvariant'
  <2>1. ASSUME NEW outcome \in PublishOutcomes(worker[w].sub.dryRun), NEW c \in Counter,
               RegistryReturn(w, outcome, c)
        PROVE  RegenInvariant'
    <3>1. /\ outcome = "dry_run" => worker[w].sub.dryRun
          /\ outcome \in PublishDone \union {"dry_run", "failed_retryable", "unavailable",
                                             "failed_final", "refused"}
      BY DEF PublishOutcomes, PublishDone
    <3> QED
      BY <1>0, <2>1, <3>1, RegistryReturnInvariantStep
  <2> QED
    BY <1>0, <1>4, <2>1, RegistryStartInvariantStep DEF AnyPublish
<1>5. ASSUME NEW w \in Worker, Crash(w)
      PROVE  RegenInvariant'
  BY <1>0, <1>5, SweepInvariantStep
<1> QED
  BY <1>1, <1>2, <1>3, <1>4, <1>5 DEF RegenNext

\* The whole inductive invariant holds in every state.
THEOREM RegenInvariantHolds == RegenSpec => []RegenInvariant
<1> QED
  BY InvariantInit, InvariantStep, PTL DEF RegenSpec

\* No two attempts ever carry one token, however many workers, crashes and late answers
\* (claim_next_sdk_regen_job, claim_token).
THEOREM TokensAreExclusive == RegenSpec => []OneHolderPerToken
<1>1. RegenInvariant => OneHolderPerToken
  BY DEF RegenInvariant
<1> QED
  BY <1>1, RegenInvariantHolds, PTL

\* Nothing queued for a subscription is overtaken before it has come to an end
\* (the NOT EXISTS clause of claim_next_sdk_regen_job).
THEOREM OrderIsKept == RegenSpec => []NothingOvertaken
<1>1. RegenInvariant => NothingOvertaken
  BY DEF RegenInvariant
<1> QED
  BY <1>1, RegenInvariantHolds, PTL

\* The attempt budget is never exceeded, and a job that backs off still has an attempt
\* (decide_after_failure against the attempts the claims counted).
THEOREM BudgetIsKept == RegenSpec => []AttemptBudget
<1>1. RegenInvariant => AttemptBudget
  BY DEF RegenInvariant, RowSound, AttemptBudget, Claimable
<1> QED
  BY <1>1, RegenInvariantHolds, PTL

\* A job closed as succeeded did every step of the mode it ran with (_execute).
THEOREM SuccessIsEarned == RegenSpec => []SucceededDidEverything
<1>1. RegenInvariant => SucceededDidEverything
  BY DEF RegenInvariant, RowSound, SucceededDidEverything
<1> QED
  BY <1>1, RegenInvariantHolds, PTL

\* A job with work ahead of it never has a finished git step (_execute, decide_after_failure).
THEOREM GitComesLast == RegenSpec => []GitIsLast
<1>1. RegenInvariant => GitIsLast
  BY DEF RegenInvariant, RowSound, GitIsLast, Claimable, Active
<1> QED
  BY <1>1, RegenInvariantHolds, PTL

-----------------------------------------------------------------------------
(* The queue implements JobLifecycle, step by step. *)

\* The abstract phase of each status.
LEMMA PhaseValues ==
  ASSUME NEW row, row.status \in Statuses
  PROVE  /\ PhaseOf(row) = "absent" <=> row.status = "absent"
         /\ PhaseOf(row) = "waiting" <=> row.status \in Claimable
         /\ PhaseOf(row) = "held" <=> row.status = "running"
         /\ PhaseOf(row) = "presumed_lost" <=> row.status = "dead_letter" /\ row.lost
         /\ PhaseOf(row) = "failed" <=> row.status = "dead_letter" /\ ~row.lost
         /\ PhaseOf(row) = "final" <=> row.status \in {"succeeded", "cancelled"}
         /\ PhaseOf(row) \in {"absent", "waiting", "held", "presumed_lost", "failed", "final"}
<1>1. CASE row.status = "absent"
  BY <1>1 DEF PhaseOf, Claimable
<1>2. CASE row.status \in Claimable
  BY <1>2 DEF PhaseOf, Claimable
<1>3. CASE row.status = "running"
  BY <1>3 DEF PhaseOf, Claimable
<1>4. CASE row.status = "dead_letter"
  BY <1>4 DEF PhaseOf, Claimable
<1>5. CASE row.status \in {"succeeded", "cancelled"}
  BY <1>5 DEF PhaseOf, Claimable
<1> QED
  BY <1>1, <1>2, <1>3, <1>4, <1>5 DEF Statuses, Active, Terminal, Claimable

\* Initial states map to initial states.
LEMMA LifecycleInit == RegenInit => Life!LifeInit
<1> SUFFICES ASSUME RegenInit PROVE Life!LifeInit
  OBVIOUS
<1>1. \A j \in Job : job[j].status = "absent" /\ job[j].token = NoToken
  BY DEF RegenInit, NoJobRow
<1>2. \A j \in Job : PhaseOf(job[j]) = "absent"
  BY <1>1, PhaseValues DEF Statuses
<1> QED
  BY <1>1, <1>2 DEF Life!LifeInit

\* A step that changes no phase and no token is a stutter of the lifecycle.
LEMMA LifecycleStutters ==
  ASSUME \A j \in Job : /\ PhaseOf(job'[j]) = PhaseOf(job[j])
                        /\ job'[j].token = job[j].token
  PROVE  UNCHANGED Life!lifeVars
BY DEF Life!lifeVars

\* One row moves between phases, and every token stays.
LEMMA LifecycleMoves ==
  ASSUME NEW j \in Job, NEW from, PhaseOf(job[j]) \in from,
         \A i \in Job : /\ i # j => PhaseOf(job'[i]) = PhaseOf(job[i])
                        /\ job'[i].token = job[i].token
  PROVE  /\ Life!Move(j, from, PhaseOf(job'[j]))
         /\ [i \in Job |-> job'[i].token] = [i \in Job |-> job[i].token]
BY DEF Life!Move

\* Every step of the queue is a step of the lifecycle, or a stutter.
LEMMA LifecycleStep ==
  RegenInvariant /\ RegenInvariant' /\ [RegenNext]_regenVars => [Life!LifeNext]_Life!lifeVars
<1> SUFFICES ASSUME RegenInvariant, RegenInvariant', [RegenNext]_regenVars
             PROVE  Life!LifeNext \/ UNCHANGED Life!lifeVars
  BY DEF Life!lifeVars
<1>0. /\ job \in [Job -> JobRow] /\ job' \in [Job -> JobRow]
      /\ \A j \in Job : /\ job[j] \in JobRow /\ job[j].status \in Statuses
                        /\ job'[j] \in JobRow /\ job'[j].status \in Statuses
  BY DEF RegenInvariant, RegenTypeOK, JobRow
<1>1. ASSUME job' = job
      PROVE  UNCHANGED Life!lifeVars
  BY <1>1, LifecycleStutters
<1>2. ASSUME \A j \in Job : /\ job'[j].status = job[j].status
                            /\ job'[j].lost = job[j].lost
                            /\ job'[j].token = job[j].token
      PROVE  UNCHANGED Life!lifeVars
  <2>1. \A j \in Job : PhaseOf(job'[j]) = PhaseOf(job[j])
    BY <1>2 DEF PhaseOf
  <2> QED
    BY <1>2, <2>1, LifecycleStutters
<1>3. ASSUME NEW k \in Event, Enqueue(k)
      PROVE  Life!Add
  <2> DEFINE js == {j \in Job : job'[j] # job[j]}
  <2>1. ASSUME NEW j \in js
        PROVE  /\ job[j].status = "absent" /\ job'[j].status = "pending"
               /\ job[j].token = NoToken /\ job'[j].token = NoToken
    <3> DEFINE rows == {<<k, e>> : e \in {d \in Ecosystem : sub[d].active}}
    <3>1. j \in Job /\ j \in rows
      BY <1>3 DEF Enqueue
    <3>2. j[1] = k
      BY <3>1
    <3>3. job[j].status = "absent" /\ job[j].token = NoToken
      BY <1>3, <3>1, <3>2 DEF Enqueue, RegenInvariant, RowSound
    <3>4. job'[j] = [NoJobRow EXCEPT !.status = "pending", !.due = TRUE, !.born = queued,
                                     !.sub = sub[j[2]].id, !.mode = sub[j[2]].mode,
                                     !.dryRun = sub[j[2]].dryRun]
      BY <1>3, <3>1 DEF Enqueue
    <3>5. job'[j].status = "pending" /\ job'[j].token = NoToken
      BY <3>4 DEF NoJobRow
    <3> QED
      BY <3>3, <3>5
  <2>2. \A j \in js : PhaseOf(job[j]) = "absent" /\ PhaseOf(job'[j]) = "waiting"
    BY <1>0, <2>1, PhaseValues DEF Claimable
  <2>3. \A j \in Job : job'[j].token = job[j].token
    BY <2>1
  <2>4. [j \in Job |-> PhaseOf(job'[j])]
          = [j \in Job |-> IF j \in js THEN "waiting" ELSE PhaseOf(job[j])]
    BY <2>2
  <2>5. js \in SUBSET {j \in Job : PhaseOf(job[j]) = "absent"}
    BY <2>2
  <2> HIDE DEF js
  <2> QED
    BY <2>3, <2>4, <2>5 DEF Life!Add
<1>4. ASSUME NEW w \in Worker, Tick(w)
      PROVE  Life!Presume
  <2> DEFINE js == {j \in Job : IsStale(j)}
  <2>1. ASSUME NEW j \in js
        PROVE  /\ job[j].status = "running" /\ job'[j].status = "dead_letter" /\ job'[j].lost
               /\ job'[j].token = job[j].token
    <3>1. job'[j] = [job[j] EXCEPT !.status = "dead_letter", !.due = FALSE, !.lost = TRUE,
                                   !.expired = FALSE, !.settled = TRUE]
      BY <1>4 DEF Tick
    <3> QED
      BY <1>0, <3>1 DEF IsStale, JobRow
  <2>2. ASSUME NEW j \in Job, j \notin js
        PROVE  job'[j] = job[j]
    BY <1>4, <2>2 DEF Tick
  <2>3. \A j \in js : PhaseOf(job[j]) = "held" /\ PhaseOf(job'[j]) = "presumed_lost"
    BY <1>0, <2>1, PhaseValues
  <2>4. [j \in Job |-> PhaseOf(job'[j])]
          = [j \in Job |-> IF j \in js THEN "presumed_lost" ELSE PhaseOf(job[j])]
    BY <2>2, <2>3
  <2>5. \A j \in Job : job'[j].token = job[j].token
    BY <2>1, <2>2
  <2>6. js \in SUBSET {j \in Job : PhaseOf(job[j]) = "held"}
    BY <2>3
  <2> HIDE DEF js
  <2> QED
    BY <2>4, <2>5, <2>6 DEF Life!Presume
<1>5. ASSUME NEW w \in Worker, NEW j \in Job, Claim(w, j)
      PROVE  Life!Take(j)
  <2> DEFINE t == CHOOSE x \in FreshTokens : TRUE
  <2>1. t \in Token /\ t \notin HeldTokens
    <3>1. t \in FreshTokens
      BY <1>5 DEF Claim
    <3> QED
      BY <3>1 DEF FreshTokens
  <2>2. \A i \in Job : job[i].token # t
    BY <2>1 DEF HeldTokens
  <2>3. /\ job[j].status \in Claimable
        /\ job' = [job EXCEPT ![j] = [job[j] EXCEPT !.status = "running",
                                         !.attempts = job[j].attempts + 1, !.due = FALSE,
                                         !.expired = FALSE, !.token = t, !.alerted = FALSE]]
    BY <1>5 DEF Claim, IsClaimable
  <2> HIDE DEF t
  <2>4. /\ job'[j].status = "running" /\ job'[j].token = t
        /\ \A i \in Job : i # j => job'[i] = job[i]
    BY <1>0, <2>3 DEF JobRow
  <2>5. PhaseOf(job[j]) = "waiting" /\ PhaseOf(job'[j]) = "held"
    BY <1>0, <2>3, <2>4, PhaseValues
  <2>6. [i \in Job |-> PhaseOf(job'[i])] = [[i \in Job |-> PhaseOf(job[i])] EXCEPT ![j] = "held"]
    BY <2>4, <2>5
  <2>7. [i \in Job |-> job'[i].token] = [[i \in Job |-> job[i].token] EXCEPT ![j] = t]
    BY <2>4
  <2> QED
    BY <2>1, <2>2, <2>5, <2>6, <2>7 DEF Life!Take, Life!Move
<1>6. ASSUME NEW w \in Worker, Finish(w)
      PROVE  (\E j \in Job : Life!Settle(j)) \/ UNCHANGED Life!lifeVars
  <2> DEFINE j == worker[w].job
  <2>1. CASE ~CloseAccepted(w)
    BY <1>1, <1>6, <2>1 DEF Finish
  <2>2. CASE CloseAccepted(w)
    <3>1. /\ j \in Job /\ worker[w].result \in Results
          /\ job' = [job EXCEPT ![j] = ClosedRow(w)]
          /\ ClaimOpen(job[j])
      BY <1>6, <2>2, WorkerFields DEF Finish, CloseAccepted, RegenInvariant
    <3>2. /\ ClosedRow(w).status \in {"succeeded", "cancelled", "retrying", "dead_letter"}
          /\ ClosedRow(w).lost = FALSE /\ ClosedRow(w).token = job[j].token
      BY <1>0, <3>1, StatusAfterType DEF ClosedRow, JobRow
    <3>3. /\ job'[j] = ClosedRow(w)
          /\ \A i \in Job : i # j => job'[i] = job[i]
      BY <1>0, <3>1
    <3>4. PhaseOf(job[j]) \in {"held", "presumed_lost"}
      BY <1>0, <3>1, PhaseValues DEF ClaimOpen
    <3>5. PhaseOf(job'[j]) \in {"waiting", "failed", "final"}
      BY <1>0, <3>1, <3>2, <3>3, PhaseValues DEF Claimable
    <3>6. \A i \in Job : job'[i].token = job[i].token
      BY <3>2, <3>3
    <3> HIDE DEF j
    <3>7. /\ Life!Move(j, {"held", "presumed_lost"}, PhaseOf(job'[j]))
          /\ [i \in Job |-> job'[i].token] = [i \in Job |-> job[i].token]
      BY <3>1, <3>3, <3>4, <3>6, LifecycleMoves
    <3>8. Life!Settle(j)
      BY <3>5, <3>7 DEF Life!Settle, Life!Open
    <3> QED
      BY <3>1, <3>8
  <2> QED
    BY <2>1, <2>2
<1>7. ASSUME NEW j \in Job, Requeue(j)
      PROVE  Life!PutBack(j) \/ UNCHANGED Life!lifeVars
  <2>1. CASE job[j].status # "dead_letter"
    BY <1>1, <1>7, <2>1 DEF Requeue
  <2>2. CASE job[j].status = "dead_letter"
    <3>1. job' = [job EXCEPT ![j] = [job[j] EXCEPT !.status = "pending", !.attempts = 0,
                                                  !.due = TRUE, !.lost = FALSE]]
      BY <1>7, <2>2 DEF Requeue
    <3>2. /\ job'[j].status = "pending" /\ job'[j].token = job[j].token
          /\ \A i \in Job : i # j => job'[i] = job[i]
      BY <1>0, <3>1 DEF JobRow
    <3>3. PhaseOf(job[j]) \in {"failed", "presumed_lost"}
      BY <1>0, <2>2, PhaseValues
    <3>4. PhaseOf(job'[j]) = "waiting"
      BY <1>0, <3>2, PhaseValues DEF Claimable
    <3>5. /\ Life!Move(j, {"failed", "presumed_lost"}, PhaseOf(job'[j]))
          /\ [i \in Job |-> job'[i].token] = [i \in Job |-> job[i].token]
      BY <3>2, <3>3, LifecycleMoves
    <3> QED
      BY <3>4, <3>5 DEF Life!PutBack
  <2> QED
    BY <2>1, <2>2
<1>8. ASSUME NEW e \in Ecosystem, Unsubscribe(e)
      PROVE  UNCHANGED Life!lifeVars
  <2>1. \A j \in Job : job'[j] = job[j] \/ job'[j] = [job[j] EXCEPT !.sub = 0]
    BY <1>8 DEF Unsubscribe
  <2> QED
    BY <1>0, <1>2, <2>1 DEF JobRow
<1>9. ASSUME NEW j \in Job, LeaseExpires(j) \/ BackoffElapses(j)
      PROVE  UNCHANGED Life!lifeVars
  <2>1. \A i \in Job : \/ job'[i] = job[i]
                       \/ job'[i] = [job[i] EXCEPT !.expired = TRUE]
                       \/ job'[i] = [job[i] EXCEPT !.due = TRUE]
    BY <1>0, <1>9 DEF LeaseExpires, BackoffElapses
  <2> QED
    BY <1>0, <1>2, <2>1 DEF JobRow
<1>10. ASSUME NEW j \in Job, NEW t, Notify(j, t)
       PROVE  UNCHANGED Life!lifeVars
  <2>1. \A i \in Job : job'[i] = job[i] \/ job'[i] = [job[i] EXCEPT !.alerted = TRUE]
    BY <1>0, <1>10 DEF Notify
  <2> QED
    BY <1>0, <1>2, <2>1 DEF JobRow
<1>11. ASSUME NEW w \in Worker, SaveProgress(w)
       PROVE  UNCHANGED Life!lifeVars
  <2> DEFINE row == [job[worker[w].job] EXCEPT !.done.publish = worker[w].done.publish,
                                               !.done.counter = worker[w].done.counter]
  <2>1. job' = job \/ job' = [job EXCEPT ![worker[w].job] = row]
    BY <1>11 DEF SaveProgress
  <2>2. worker[w].job \in Job
    BY WorkerFields DEF RegenInvariant
  <2>3. /\ row.status = job[worker[w].job].status /\ row.lost = job[worker[w].job].lost
        /\ row.token = job[worker[w].job].token
    BY <1>0, <2>2 DEF JobRow
  <2> HIDE DEF row
  <2> QED
    BY <1>0, <1>2, <2>1, <2>2, <2>3
<1>12. CASE PublishingNext \/ PeopleNext \/ TimeNext
  BY <1>1, <1>3, <1>7, <1>8, <1>9, <1>12
  DEF PublishingNext, PeopleNext, TimeNext, PublishVersion, DropEnqueue, Withdraw,
      PutSubscription, SetActive, AskRetry, Life!LifeNext
<1>13. ASSUME NEW w \in Worker, WorkerStep(w)
       PROVE  Life!LifeNext \/ UNCHANGED Life!lifeVars
  <2>1. CASE Tick(w) \/ (\E j \in Job : Claim(w, j)) \/ Finish(w)
    BY <1>4, <1>5, <1>6, <2>1 DEF Life!LifeNext
  <2>2. CASE ReapFails(w) \/ ClaimFails(w) \/ EndTick(w) \/ Start(w) \/ FinishFails(w)
    BY <1>1, <2>2 DEF ReapFails, ClaimFails, EndTick, Start, FinishFails
  <2>3. CASE GitPush(w) \/ \E result \in {"succeeded", "transient", "permanent"} :
                              GitReturn(w, result)
    BY <1>1, <2>3 DEF GitPush, GitReturn
  <2>4. CASE AlertReaped(w) \/ Alert(w)
    <3>1. worker[w].job \in Job /\ \A x \in worker[w].reaped : x[1] \in Job
      BY WorkerFields DEF RegenInvariant
    <3> QED
      BY <1>10, <2>4, <3>1 DEF AlertReaped, Alert
  <2> QED
    BY <1>11, <1>13, <2>1, <2>2, <2>3, <2>4 DEF WorkerStep
<1>14. ASSUME NEW w \in Worker, AnyPublish(w) \/ Crash(w)
       PROVE  UNCHANGED Life!lifeVars
  BY <1>1, <1>14 DEF AnyPublish, RegistryStart, RegistryReturn, Crash
<1>15. CASE UNCHANGED regenVars
  BY <1>1, <1>15 DEF regenVars
<1> QED
  BY <1>12, <1>13, <1>14, <1>15 DEF RegenNext

\* The queue implements the abstract lifecycle: a row moves only the way its claim allows
\* (claim_next_, finish_, reap_stale_, retry_sdk_regen_job).
THEOREM LifecycleHolds == RegenSpec => LifecycleImplemented
<1> QED
  BY LifecycleInit, LifecycleStep, RegenInvariantHolds, PTL
  DEF RegenSpec, LifecycleImplemented, Life!LifeSpec

-----------------------------------------------------------------------------
(* What is published stays recorded. *)

DoneKept(j) ==
    job[j].done.publish \in PublishDone =>
        /\ job'[j].done.publish = job[j].done.publish
        /\ job'[j].done.counter = job[j].done.counter

\* No step blanks or replaces what a row says was published.
LEMMA DoneKeptStep ==
  RegenInvariant /\ [RegenNext]_regenVars => [\A j \in Job : DoneKept(j)]_regenVars
<1> SUFFICES ASSUME RegenInvariant, [RegenNext]_regenVars
             PROVE  \A j \in Job : DoneKept(j)
  OBVIOUS
<1>0. /\ job \in [Job -> JobRow]
      /\ \A j \in Job : job[j] \in JobRow /\ job[j].done \in Progress
  BY DEF RegenInvariant, RegenTypeOK, JobRow
<1>1. ASSUME \A j \in Job : job'[j].done = job[j].done
      PROVE  \A j \in Job : DoneKept(j)
  BY <1>1 DEF DoneKept
<1>2. ASSUME NEW k \in Event, Enqueue(k)
      PROVE  \A j \in Job : DoneKept(j)
  <2>1. ASSUME NEW j \in Job, job'[j] # job[j]
        PROVE  job[j].done = Nothing
    <3> DEFINE rows == {<<k, e>> : e \in {d \in Ecosystem : sub[d].active}}
    <3>1. j \in rows
      BY <1>2, <2>1 DEF Enqueue
    <3>2. j[1] = k
      BY <3>1
    <3> QED
      BY <1>2, <3>2 DEF Enqueue, RegenInvariant, RowSound
  <2>2. Nothing.publish \notin PublishDone
    BY DEF Nothing, PublishDone
  <2> QED
    BY <2>1, <2>2 DEF DoneKept
<1>3. ASSUME NEW w \in Worker, SaveProgress(w)
      PROVE  \A j \in Job : DoneKept(j)
  <2> DEFINE me == worker[w]
             done == [job[me.job].done EXCEPT !.publish = me.done.publish,
                                              !.counter = me.done.counter]
             row == [job[me.job] EXCEPT !.done = done]
  <2>1. /\ me \in WorkerState /\ me.job \in Job /\ me.done \in Progress /\ me.pc = "saving"
        /\ WorkerSound(me) /\ ClaimSound(me, job[me.job])
    BY <1>3, WorkerFields DEF SaveProgress, RegenInvariant
  <2>2. job' = job \/ (ClaimHolds(w) /\ job' = [job EXCEPT ![me.job] = row])
    <3>1. \/ job' = job
          \/ ClaimHolds(w) /\ job' = [job EXCEPT ![me.job].done.publish = me.done.publish,
                                                ![me.job].done.counter = me.done.counter]
      BY <1>3 DEF SaveProgress
    <3>2. [job EXCEPT ![me.job].done.publish = me.done.publish,
                      ![me.job].done.counter = me.done.counter] = [job EXCEPT ![me.job] = row]
      OBVIOUS
    <3> QED
      BY <3>1, <3>2
  <2>3. done.publish = me.done.publish /\ done.counter = me.done.counter
    BY <1>0, <2>1 DEF Progress
  <2> HIDE DEF done
  <2>4. row.done = done
    BY <1>0, <2>1 DEF JobRow
  <2> HIDE DEF row
  <2>5. CASE job' = job
    BY <1>1, <2>5
  <2>6. CASE ClaimHolds(w) /\ job' = [job EXCEPT ![me.job] = row]
    <3>1. job[me.job].done.publish \in PublishDone =>
            /\ me.done.publish = job[me.job].done.publish
            /\ me.done.counter = job[me.job].done.counter
      BY <2>1, <2>6 DEF ClaimHolds, ClaimSound, ClaimOpen, WorkerSound
    <3>2. DoneKept(me.job)
      BY <1>0, <2>1, <2>3, <2>4, <2>6, <3>1 DEF DoneKept
    <3>3. \A j \in Job : j # me.job => job'[j] = job[j]
      BY <1>0, <2>6
    <3> QED
      BY <3>2, <3>3 DEF DoneKept
  <2> QED
    BY <2>2, <2>5, <2>6
<1>4. ASSUME NEW w \in Worker, Finish(w)
      PROVE  \A j \in Job : DoneKept(j)
  <2> DEFINE me == worker[w]
  <2>1. /\ me.job \in Job /\ me.pc = "closing" /\ WorkerSound(me)
        /\ ClaimSound(me, job[me.job])
    BY <1>4, WorkerFields DEF Finish, RegenInvariant
  <2>2. CASE job' = job
    BY <1>1, <2>2
  <2>3. CASE CloseAccepted(w) /\ job' = [job EXCEPT ![me.job] = ClosedRow(w)]
    <3>1. job[me.job].done.publish \in PublishDone =>
            /\ me.done.publish = job[me.job].done.publish
            /\ me.done.counter = job[me.job].done.counter
      BY <2>1, <2>3 DEF CloseAccepted, ClaimSound, WorkerSound
    <3>2. ClosedRow(w).done = me.done
      BY <1>0, <2>1 DEF ClosedRow, JobRow
    <3>3. DoneKept(me.job)
      BY <1>0, <2>1, <2>3, <3>1, <3>2 DEF DoneKept
    <3>4. \A j \in Job : j # me.job => job'[j] = job[j]
      BY <1>0, <2>3
    <3> QED
      BY <3>3, <3>4 DEF DoneKept
  <2> QED
    BY <1>4, <2>2, <2>3 DEF Finish
<1>5. ASSUME NEW w \in Worker, Tick(w)
      PROVE  \A j \in Job : DoneKept(j)
  <2>1. \A j \in Job : \/ job'[j] = job[j]
                       \/ job'[j] = [job[j] EXCEPT !.status = "dead_letter", !.due = FALSE,
                                                   !.lost = TRUE, !.expired = FALSE,
                                                   !.settled = TRUE]
    BY <1>5 DEF Tick
  <2>2. ASSUME NEW j \in Job
        PROVE  job'[j].done = job[j].done
    <3>1. job[j] \in JobRow
      BY <1>0
    <3> QED
      BY <2>1, <3>1 DEF JobRow
  <2> QED
    BY <1>1, <2>2
<1>6. ASSUME NEW w \in Worker, NEW j \in Job, Claim(w, j)
      PROVE  \A i \in Job : DoneKept(i)
  <2> DEFINE t == CHOOSE x \in FreshTokens : TRUE
             row == [job[j] EXCEPT !.status = "running", !.attempts = job[j].attempts + 1,
                                   !.due = FALSE, !.expired = FALSE, !.token = t,
                                   !.alerted = FALSE]
  <2>1. job' = [job EXCEPT ![j] = row]
    BY <1>6 DEF Claim
  <2> HIDE DEF t
  <2>2. row.done = job[j].done
    BY <1>0 DEF JobRow
  <2> HIDE DEF row
  <2> QED
    BY <1>0, <1>1, <2>1, <2>2
<1>7. ASSUME NEW j \in Job, NEW t, Notify(j, t)
      PROVE  \A i \in Job : DoneKept(i)
  <2>1. \A i \in Job : job'[i] = job[i] \/ job'[i] = [job[i] EXCEPT !.alerted = TRUE]
    BY <1>0, <1>7 DEF Notify
  <2>2. ASSUME NEW i \in Job
        PROVE  job'[i].done = job[i].done
    <3>1. job[i] \in JobRow
      BY <1>0
    <3> QED
      BY <2>1, <3>1 DEF JobRow
  <2> QED
    BY <1>1, <2>2
<1>8. ASSUME NEW e \in Ecosystem, Unsubscribe(e)
      PROVE  \A j \in Job : DoneKept(j)
  <2>1. \A j \in Job : job'[j] = job[j] \/ job'[j] = [job[j] EXCEPT !.sub = 0]
    BY <1>8 DEF Unsubscribe
  <2>2. ASSUME NEW j \in Job
        PROVE  job'[j].done = job[j].done
    <3>1. job[j] \in JobRow
      BY <1>0
    <3> QED
      BY <2>1, <3>1 DEF JobRow
  <2> QED
    BY <1>1, <2>2
<1>9. ASSUME NEW j \in Job, LeaseExpires(j) \/ BackoffElapses(j) \/ Requeue(j)
      PROVE  \A i \in Job : DoneKept(i)
  <2>1. \A i \in Job : \/ job'[i] = job[i]
                       \/ job'[i] = [job[i] EXCEPT !.expired = TRUE]
                       \/ job'[i] = [job[i] EXCEPT !.due = TRUE]
                       \/ job'[i] = [job[i] EXCEPT !.status = "pending", !.attempts = 0,
                                                   !.due = TRUE, !.lost = FALSE]
    BY <1>0, <1>9 DEF LeaseExpires, BackoffElapses, Requeue
  <2>2. ASSUME NEW i \in Job
        PROVE  job'[i].done = job[i].done
    <3>1. job[i] \in JobRow
      BY <1>0
    <3> QED
      BY <2>1, <3>1 DEF JobRow
  <2> QED
    BY <1>1, <2>2
<1>10. CASE PublishingNext \/ PeopleNext \/ TimeNext
  BY <1>1, <1>2, <1>8, <1>9, <1>10
  DEF PublishingNext, PeopleNext, TimeNext, PublishVersion, DropEnqueue, Withdraw,
      PutSubscription, SetActive, AskRetry
<1>11. ASSUME NEW w \in Worker, WorkerStep(w)
       PROVE  \A j \in Job : DoneKept(j)
  <2>1. CASE ReapFails(w) \/ ClaimFails(w) \/ EndTick(w) \/ Start(w) \/ FinishFails(w)
    BY <1>1, <2>1 DEF ReapFails, ClaimFails, EndTick, Start, FinishFails
  <2>2. CASE GitPush(w) \/ \E result \in {"succeeded", "transient", "permanent"} :
                              GitReturn(w, result)
    BY <1>1, <2>2 DEF GitPush, GitReturn
  <2>3. CASE AlertReaped(w) \/ Alert(w)
    <3>1. worker[w].job \in Job /\ \A x \in worker[w].reaped : x[1] \in Job
      BY WorkerFields DEF RegenInvariant
    <3> QED
      BY <1>7, <2>3, <3>1 DEF AlertReaped, Alert
  <2> QED
    BY <1>3, <1>4, <1>5, <1>6, <1>11, <2>1, <2>2, <2>3 DEF WorkerStep
<1>12. ASSUME NEW w \in Worker, AnyPublish(w) \/ Crash(w)
       PROVE  \A j \in Job : DoneKept(j)
  BY <1>1, <1>12 DEF AnyPublish, RegistryStart, RegistryReturn, Crash
<1>13. CASE UNCHANGED regenVars
  BY <1>1, <1>13 DEF regenVars
<1> QED
  BY <1>10, <1>11, <1>12, <1>13 DEF RegenNext

\* A version the job's row says is published stays on the row, with its number
\* (JobProgress.from_row, _save_registry_progress, finish_sdk_regen_job_attempt).
THEOREM PublishedIsNeverForgotten == RegenSpec => PublishedIsRemembered
<1>1. [][\A j \in Job : DoneKept(j)]_regenVars => PublishedIsRemembered
  BY PTL DEF PublishedIsRemembered, DoneKept
<1> QED
  BY <1>1, DoneKeptStep, RegenInvariantHolds, PTL DEF RegenSpec

-----------------------------------------------------------------------------
(* Every dead letter is alerted, as long as nothing dies and no write fails. *)

\* What a worker has reaped and not yet alerted is only held while it alerts.
ReapedWhileReaping == \A w \in Worker : worker[w].reaped # {} => worker[w].pc = "reaping"

AlertInvariant == bounds.faults = 0 => ReapedWhileReaping /\ DeadLettersAlerted

\* A row that is not newly dead-lettered keeps what its alert is about.
AlertStays(j) ==
    job'[j].status = "dead_letter" =>
        /\ job[j].status = "dead_letter"
        /\ job'[j].token = job[j].token
        /\ job[j].alerted => job'[j].alerted

\* A worker that does not send an alert keeps those it owes.
DutyStays(w) ==
    /\ worker[w].reaped \subseteq worker'[w].reaped
    /\ worker[w].pc = "alerting" => /\ worker'[w].pc = "alerting"
                                    /\ worker'[w].job = worker[w].job
                                    /\ worker'[w].token = worker[w].token

\* Nothing un-spends a fault.
LEMMA FaultsStay ==
  ASSUME RegenTypeOK, [RegenNext]_regenVars, bounds'.faults = 0
  PROVE  bounds.faults = 0
<1>1. bounds \in [retries : Nat, subs : Nat, faults : Nat]
  BY DEF RegenTypeOK
<1>2. ASSUME NEW kind \in {"retries", "subs", "faults"}, Spent(kind)
      PROVE  bounds.faults = 0
  BY <1>1, <1>2 DEF Spent
<1>3. ASSUME Fault \/ UNCHANGED bounds
      PROVE  bounds.faults = 0
  BY <1>2, <1>3 DEF Fault
<1>4. CASE PublishingNext \/ PeopleNext \/ TimeNext
  BY <1>2, <1>3, <1>4
  DEF PublishingNext, PeopleNext, TimeNext, PublishVersion, Enqueue, DropEnqueue, Withdraw,
      PutSubscription, SetActive, Unsubscribe, ChangeSub, AskRetry, Requeue, LeaseExpires,
      BackoffElapses
<1>5. ASSUME NEW w \in Worker, WorkerStep(w)
      PROVE  bounds.faults = 0
  BY <1>3, <1>5
  DEF WorkerStep, Tick, ReapFails, AlertReaped, Claim, ClaimFails, EndTick, Start, SaveProgress,
      GitPush, GitReturn, Finish, FinishFails, Alert
<1>6. ASSUME NEW w \in Worker, AnyPublish(w) \/ Crash(w)
      PROVE  bounds.faults = 0
  BY <1>3, <1>6 DEF AnyPublish, RegistryStart, RegistryReturn, Crash
<1> QED
  BY <1>3, <1>4, <1>5, <1>6 DEF RegenNext, regenVars

\* A fault spends the bound.
LEMMA FaultSpends ==
  ASSUME RegenTypeOK, Fault
  PROVE  bounds'.faults # 0
BY DEF RegenTypeOK, Fault, Spent

\* A step that dead-letters nothing and alerts nothing loses no alert.
LEMMA AlertsStay ==
  ASSUME DeadLettersAlerted, \A j \in Job : AlertStays(j), \A w \in Worker : DutyStays(w)
  PROVE  DeadLettersAlerted'
<1> SUFFICES ASSUME NEW j \in Job, job'[j].status = "dead_letter", ~job'[j].alerted
             PROVE  Alerting(j)'
  BY DEF DeadLettersAlerted
<1>1. Alerting(j) /\ job'[j].token = job[j].token
  BY DEF AlertStays, DeadLettersAlerted
<1>2. PICK w \in Worker :
        \/ worker[w].pc = "alerting" /\ worker[w].job = j /\ worker[w].token = job[j].token
        \/ <<j, job[j].token>> \in worker[w].reaped
  BY <1>1 DEF Alerting
<1>3. DutyStays(w)
  OBVIOUS
<1> QED
  BY <1>1, <1>2, <1>3 DEF Alerting, DutyStays

\* One worker moves, and owed nothing before.
LEMMA OneMoves ==
  ASSUME RegenTypeOK, ReapedWhileReaping, NEW w \in Worker, NEW me,
         worker' = [worker EXCEPT ![w] = me],
         worker[w].pc \notin {"reaping", "alerting"}
  PROVE  \A v \in Worker : DutyStays(v)
<1>1. worker \in [Worker -> WorkerState] /\ worker[w].reaped = {}
  BY DEF RegenTypeOK, ReapedWhileReaping
<1>2. \A v \in Worker : v # w => worker'[v] = worker[v]
  BY <1>1
<1> QED
  BY <1>1, <1>2 DEF DutyStays

\* Publishing, people and time dead-letter nothing, and send no alert.
LEMMA OutsideAlerts ==
  ASSUME RegenTypeOK, ReapedWhileReaping, DeadLettersAlerted,
         PublishingNext \/ PeopleNext \/ TimeNext
  PROVE  DeadLettersAlerted' /\ ReapedWhileReaping'
<1>0. /\ job \in [Job -> JobRow]
      /\ \A j \in Job : job[j] \in JobRow
  BY DEF RegenTypeOK
<1>1. UNCHANGED worker
  BY DEF PublishingNext, PeopleNext, TimeNext, PublishVersion, Enqueue, DropEnqueue, Withdraw,
      PutSubscription, SetActive, Unsubscribe, AskRetry, Requeue, LeaseExpires, BackoffElapses
<1>2. (\A w \in Worker : DutyStays(w)) /\ ReapedWhileReaping'
  BY <1>1 DEF DutyStays, ReapedWhileReaping
<1>3. ASSUME NEW k \in Event, Enqueue(k), NEW j \in Job
      PROVE  AlertStays(j)
  <2>1. \/ job'[j] = job[j]
        \/ job'[j] = [NoJobRow EXCEPT !.status = "pending", !.due = TRUE, !.born = queued,
                                      !.sub = sub[j[2]].id, !.mode = sub[j[2]].mode,
                                      !.dryRun = sub[j[2]].dryRun]
    BY <1>3 DEF Enqueue
  <2> QED
    BY <2>1, NoJobRowType DEF AlertStays, JobRow
<1>4. ASSUME NEW e \in Ecosystem, Unsubscribe(e), NEW j \in Job
      PROVE  AlertStays(j)
  <2>1. job'[j] = job[j] \/ job'[j] = [job[j] EXCEPT !.sub = 0]
    BY <1>4 DEF Unsubscribe
  <2> QED
    BY <1>0, <2>1 DEF AlertStays, JobRow
<1>5. ASSUME NEW i \in Job, LeaseExpires(i) \/ BackoffElapses(i) \/ Requeue(i), NEW j \in Job
      PROVE  AlertStays(j)
  <2>1. \/ job'[j] = job[j]
        \/ job'[j] = [job[j] EXCEPT !.expired = TRUE]
        \/ job'[j] = [job[j] EXCEPT !.due = TRUE]
        \/ job'[j] = [job[j] EXCEPT !.status = "pending", !.attempts = 0, !.due = TRUE,
                                    !.lost = FALSE]
    BY <1>0, <1>5 DEF LeaseExpires, BackoffElapses, Requeue
  <2> QED
    BY <1>0, <2>1 DEF AlertStays, JobRow
<1>6. ASSUME UNCHANGED job, NEW j \in Job
      PROVE  AlertStays(j)
  BY <1>6 DEF AlertStays
<1>7. \A j \in Job : AlertStays(j)
  BY <1>3, <1>4, <1>5, <1>6
  DEF PublishingNext, PeopleNext, TimeNext, PublishVersion, DropEnqueue, Withdraw,
      PutSubscription, SetActive, AskRetry
<1> QED
  BY <1>2, <1>7, AlertsStay

\* A step of one worker that owes no alert, and leaves it owing none, and dead-letters nothing.
LEMMA QuietAlerts ==
  ASSUME RegenTypeOK, ReapedWhileReaping, DeadLettersAlerted, NEW w \in Worker, NEW me,
         worker' = [worker EXCEPT ![w] = me], me.reaped = {},
         worker[w].pc \notin {"reaping", "alerting"},
         \A j \in Job : AlertStays(j)
  PROVE  DeadLettersAlerted' /\ ReapedWhileReaping'
<1>1. \A v \in Worker : DutyStays(v)
  BY OneMoves
<1>2. worker \in [Worker -> WorkerState]
  BY DEF RegenTypeOK
<1>3. ReapedWhileReaping'
  BY <1>2 DEF ReapedWhileReaping
<1> QED
  BY <1>1, <1>3, AlertsStay

\* The sweep dead-letters the claims it reaps, and owes an alert for each of them.
LEMMA TickAlerts ==
  ASSUME RegenTypeOK, ReapedWhileReaping, DeadLettersAlerted, NEW w \in Worker, Tick(w)
  PROVE  DeadLettersAlerted' /\ ReapedWhileReaping'
<1> DEFINE stale == {j \in Job : IsStale(j)}
           reaped == {<<j, job[j].token>> : j \in stale}
           pc == IF stale = {} THEN "claiming" ELSE "reaping"
           me == [IdleWorker EXCEPT !.pc = pc, !.left = BatchSize, !.reaped = reaped]
<1>1. worker' = [worker EXCEPT ![w] = me] /\ worker[w].pc = "idle"
  BY DEF Tick
<1>2. /\ worker \in [Worker -> WorkerState] /\ job \in [Job -> JobRow]
      /\ \A j \in Job : job[j] \in JobRow
  BY DEF RegenTypeOK
<1>3. reaped # {} => pc = "reaping"
  OBVIOUS
<1>4. \A j \in stale : <<j, job[j].token>> \in reaped
  OBVIOUS
<1>5. me.reaped = reaped /\ me.pc = pc
  BY DEF IdleWorker
<1>6. ASSUME NEW j \in Job
      PROVE  IF j \in stale THEN job'[j].token = job[j].token ELSE job'[j] = job[j]
  <2>1. job'[j] = IF j \in stale
                  THEN [job[j] EXCEPT !.status = "dead_letter", !.due = FALSE, !.lost = TRUE,
                                      !.expired = FALSE, !.settled = TRUE]
                  ELSE job[j]
    BY DEF Tick
  <2> HIDE DEF stale
  <2> QED
    BY <1>2, <2>1 DEF JobRow
<1> HIDE DEF stale, reaped, pc, me
<1>7. \A v \in Worker : DutyStays(v)
  BY <1>1, OneMoves
<1>8. worker'[w] = me /\ \A v \in Worker : v # w => worker'[v] = worker[v]
  BY <1>1, <1>2
<1>9. ReapedWhileReaping'
  BY <1>3, <1>5, <1>8 DEF ReapedWhileReaping
<1>10. ASSUME NEW j \in Job, job'[j].status = "dead_letter", ~job'[j].alerted
       PROVE  Alerting(j)'
  <2>1. CASE j \in stale
    <3>1. <<j, job'[j].token>> \in worker'[w].reaped
      BY <1>4, <1>5, <1>6, <1>8, <2>1
    <3> QED
      BY <3>1 DEF Alerting
  <2>2. CASE j \notin stale
    <3>1. Alerting(j) /\ job'[j] = job[j]
      BY <1>6, <1>10, <2>2 DEF DeadLettersAlerted
    <3>2. PICK v \in Worker :
            \/ worker[v].pc = "alerting" /\ worker[v].job = j /\ worker[v].token = job[j].token
            \/ <<j, job[j].token>> \in worker[v].reaped
      BY <3>1 DEF Alerting
    <3>3. DutyStays(v)
      BY <1>7
    <3> QED
      BY <3>1, <3>2, <3>3 DEF Alerting, DutyStays
  <2> QED
    BY <2>1, <2>2
<1> QED
  BY <1>9, <1>10 DEF DeadLettersAlerted

\* A worker that sends the alert of job i under token t, and owes every other one still.
LEMMA NotifyAlerts ==
  ASSUME RegenTypeOK, DeadLettersAlerted, NEW w \in Worker, NEW i \in Job, NEW t, Notify(i, t),
         \A v \in Worker : v # w => worker'[v] = worker[v],
         \A j \in Job : \/ j = i /\ t = job[j].token
                        \/ <<j, job[j].token>> \in worker[w].reaped =>
                             <<j, job[j].token>> \in worker'[w].reaped,
         \A j \in Job : \/ j = i /\ t = job[j].token
                        \/ ~( /\ worker[w].pc = "alerting" /\ worker[w].job = j
                              /\ worker[w].token = job[j].token )
  PROVE  DeadLettersAlerted'
<1>1. job \in [Job -> JobRow] /\ \A j \in Job : job[j] \in JobRow
  BY DEF RegenTypeOK
<1>2. ASSUME NEW j \in Job
      PROVE  /\ job'[j].status = job[j].status
             /\ job'[j].token = job[j].token
             /\ job'[j].alerted = IF j = i /\ t = job[j].token THEN TRUE ELSE job[j].alerted
  <2>1. job'[j] = IF j = i /\ t = job[j].token THEN [job[j] EXCEPT !.alerted = TRUE] ELSE job[j]
    BY <1>1 DEF Notify
  <2> QED
    BY <1>1, <2>1 DEF JobRow
<1>3. ASSUME NEW j \in Job, job'[j].status = "dead_letter", ~job'[j].alerted
      PROVE  Alerting(j)'
  <2>1. Alerting(j) /\ ~(j = i /\ t = job[j].token) /\ job'[j].token = job[j].token
    BY <1>2, <1>3 DEF DeadLettersAlerted
  <2>2. PICK v \in Worker :
          \/ worker[v].pc = "alerting" /\ worker[v].job = j /\ worker[v].token = job[j].token
          \/ <<j, job[j].token>> \in worker[v].reaped
    BY <2>1 DEF Alerting
  <2> QED
    BY <2>1, <2>2 DEF Alerting
<1> QED
  BY <1>3 DEF DeadLettersAlerted

\* An alert that is sent reaches the row it is about, and no other.
LEMMA SendAlerts ==
  ASSUME RegenTypeOK, ReapedWhileReaping, DeadLettersAlerted, NEW w \in Worker,
         AlertReaped(w) \/ Alert(w)
  PROVE  DeadLettersAlerted' /\ ReapedWhileReaping'
<1>0. worker \in [Worker -> WorkerState] /\ worker[w] \in WorkerState
  BY DEF RegenTypeOK
<1>1. CASE AlertReaped(w)
  <2>1. PICK x \in worker[w].reaped :
         /\ Notify(x[1], x[2])
         /\ worker' = [worker EXCEPT ![w].reaped = @ \ {x},
                                     ![w].pc = IF worker[w].reaped = {x} THEN "claiming"
                                               ELSE "reaping"]
    BY <1>1 DEF AlertReaped
  <2> DEFINE pc == IF worker[w].reaped = {x} THEN "claiming" ELSE "reaping"
             left == worker[w].reaped \ {x}
             me == [worker[w] EXCEPT !.reaped = left, !.pc = pc]
  <2>2. worker' = [worker EXCEPT ![w] = me]
    BY <2>1
  <2>3. left # {} => pc = "reaping"
    OBVIOUS
  <2>4. x \in Job \X (Token \union {NoToken})
    BY WorkerFields
  <2>5. \A j \in Job : \/ j = x[1] /\ x[2] = job[j].token
                       \/ <<j, job[j].token>> \in worker[w].reaped => <<j, job[j].token>> \in left
    BY <2>4
  <2> HIDE DEF pc, left
  <2>6. me.reaped = left /\ me.pc = pc
    BY <1>0 DEF WorkerState
  <2> HIDE DEF me
  <2>7. worker'[w] = me /\ \A v \in Worker : v # w => worker'[v] = worker[v]
    BY <1>0, <2>2
  <2>8. ReapedWhileReaping'
    BY <2>3, <2>6, <2>7 DEF ReapedWhileReaping
  <2>9. worker[w].pc # "alerting"
    BY <1>1 DEF AlertReaped
  <2>10. x[1] \in Job /\ Notify(x[1], x[2])
    BY <2>1, <2>4
  <2>11. DeadLettersAlerted'
    BY <2>5, <2>6, <2>7, <2>9, <2>10, NotifyAlerts
  <2> QED
    BY <2>8, <2>11
<1>2. CASE Alert(w)
  <2>1. /\ worker' = [worker EXCEPT ![w] = NextInBatch(w)]
        /\ Notify(worker[w].job, worker[w].token)
        /\ worker[w].pc = "alerting"
    BY <1>2 DEF Alert
  <2>2. worker[w].reaped = {} /\ worker[w].job \in Job
    BY <2>1, WorkerFields DEF ReapedWhileReaping
  <2>3. NextInBatch(w).reaped = {}
    BY DEF NextInBatch, IdleWorker
  <2>4. worker'[w] = NextInBatch(w) /\ \A v \in Worker : v # w => worker'[v] = worker[v]
    BY <1>0, <2>1
  <2>5. ReapedWhileReaping'
    BY <2>3, <2>4 DEF ReapedWhileReaping
  <2>6. DeadLettersAlerted'
    BY <2>1, <2>2, <2>4, NotifyAlerts
  <2> QED
    BY <2>5, <2>6
<1> QED
  BY <1>1, <1>2

\* The close-out that dead-letters a job leaves its worker with the alert to send.
LEMMA FinishAlerts ==
  ASSUME RegenTypeOK, ReapedWhileReaping, DeadLettersAlerted, NEW w \in Worker, Finish(w)
  PROVE  DeadLettersAlerted' /\ ReapedWhileReaping'
<1> DEFINE me == worker[w]
           row == ClosedRow(w)
<1>0. /\ worker \in [Worker -> WorkerState] /\ me \in WorkerState
      /\ job \in [Job -> JobRow] /\ me.job \in Job /\ job[me.job] \in JobRow
      /\ me.pc = "closing" /\ me.reaped = {}
  BY WorkerFields DEF RegenTypeOK, Finish, ReapedWhileReaping
<1>1. NextInBatch(w).reaped = {} /\ [me EXCEPT !.pc = "alerting"].reaped = {}
  BY <1>0 DEF NextInBatch, IdleWorker, WorkerState
<1>2. CASE UNCHANGED job /\ worker' = [worker EXCEPT ![w] = NextInBatch(w)]
  <2>1. \A j \in Job : AlertStays(j)
    BY <1>2 DEF AlertStays
  <2> QED
    BY <1>0, <1>1, <1>2, <2>1, QuietAlerts
<1>3. CASE /\ job' = [job EXCEPT ![me.job] = row]
           /\ row.status # "dead_letter"
           /\ worker' = [worker EXCEPT ![w] = NextInBatch(w)]
  <2>1. \A j \in Job : AlertStays(j)
    BY <1>0, <1>3 DEF AlertStays
  <2> QED
    BY <1>0, <1>1, <1>3, <2>1, QuietAlerts
<1>4. CASE /\ job' = [job EXCEPT ![me.job] = row]
           /\ CloseAccepted(w)
           /\ worker' = [worker EXCEPT ![w].pc = "alerting"]
  <2>1. row.token = job[me.job].token /\ job[me.job].token = me.token
    BY <1>0, <1>4 DEF ClosedRow, CloseAccepted, JobRow
  <2> HIDE DEF row
  <2>2. /\ worker'[w].pc = "alerting" /\ worker'[w].job = me.job /\ worker'[w].token = me.token
        /\ worker'[w].reaped = {}
        /\ \A v \in Worker : v # w => worker'[v] = worker[v]
    BY <1>0, <1>4 DEF WorkerState
  <2>3. ReapedWhileReaping'
    BY <2>2 DEF ReapedWhileReaping
  <2>4. job'[me.job] = row /\ \A j \in Job : j # me.job => job'[j] = job[j]
    BY <1>0, <1>4
  <2>5. ASSUME NEW j \in Job, job'[j].status = "dead_letter", ~job'[j].alerted
        PROVE  Alerting(j)'
    <3>1. CASE j = me.job
      BY <2>1, <2>2, <2>4, <3>1 DEF Alerting
    <3>2. CASE j # me.job
      <4>1. Alerting(j) /\ job'[j] = job[j]
        BY <2>4, <2>5, <3>2 DEF DeadLettersAlerted
      <4>2. PICK v \in Worker :
              \/ worker[v].pc = "alerting" /\ worker[v].job = j /\ worker[v].token = job[j].token
              \/ <<j, job[j].token>> \in worker[v].reaped
        BY <4>1 DEF Alerting
      <4>3. v # w
        BY <1>0, <4>2
      <4> QED
        BY <2>2, <4>1, <4>2, <4>3 DEF Alerting
    <3> QED
      BY <3>1, <3>2
  <2> QED
    BY <2>3, <2>5 DEF DeadLettersAlerted
<1> QED
  BY <1>2, <1>3, <1>4 DEF Finish, GoTo

\* A worker inside its attempt dead-letters nothing, and has no alert to send.
LEMMA AttemptAlerts ==
  ASSUME RegenTypeOK, ReapedWhileReaping, DeadLettersAlerted, NEW w \in Worker,
         \/ EndTick(w)
         \/ \E j \in Job : Claim(w, j)
         \/ Start(w) \/ AnyPublish(w) \/ SaveProgress(w) \/ GitPush(w)
         \/ \E result \in {"succeeded", "transient", "permanent"} : GitReturn(w, result)
  PROVE  DeadLettersAlerted' /\ ReapedWhileReaping'
<1> DEFINE me == worker[w]
<1>0. /\ worker \in [Worker -> WorkerState] /\ me \in WorkerState
      /\ job \in [Job -> JobRow] /\ me.job \in Job
      /\ \A j \in Job : job[j] \in JobRow /\ job[j].done \in Progress
  BY WorkerFields, RowFields DEF RegenTypeOK
<1>1. /\ me.pc \notin {"reaping", "alerting"}
      /\ me.reaped = {}
  BY DEF EndTick, Claim, Start, AnyPublish, RegistryStart, RegistryReturn, SaveProgress, GitPush,
         GitReturn, ReapedWhileReaping
<1>2. ASSUME NEW pc, GoTo(w, pc), \A j \in Job : AlertStays(j)
      PROVE  DeadLettersAlerted' /\ ReapedWhileReaping'
  <2>1. [me EXCEPT !.pc = pc].reaped = {}
    BY <1>0, <1>1 DEF WorkerState
  <2> QED
    BY <1>1, <1>2, <2>1, QuietAlerts DEF GoTo
<1>3. ASSUME NEW done, NEW result, Conclude(w, done, result), \A j \in Job : AlertStays(j)
      PROVE  DeadLettersAlerted' /\ ReapedWhileReaping'
  <2>1. [me EXCEPT !.pc = "closing", !.done = done, !.result = result].reaped = {}
    BY <1>0, <1>1 DEF WorkerState
  <2> QED
    BY <1>1, <1>3, <2>1, QuietAlerts DEF Conclude
<1>4. ASSUME UNCHANGED job
      PROVE  \A j \in Job : AlertStays(j)
  BY <1>4 DEF AlertStays
<1>5. CASE EndTick(w)
  <2>1. worker' = [worker EXCEPT ![w] = IdleWorker] /\ UNCHANGED job
    BY <1>5 DEF EndTick
  <2>2. IdleWorker.reaped = {}
    BY DEF IdleWorker
  <2> QED
    BY <1>1, <1>4, <2>1, <2>2, QuietAlerts
<1>6. ASSUME NEW i \in Job, Claim(w, i)
      PROVE  DeadLettersAlerted' /\ ReapedWhileReaping'
  <2> DEFINE t == CHOOSE x \in FreshTokens : TRUE
             s == IF job[i].sub = sub[i[2]].id THEN sub[i[2]] ELSE NoSub
             n == job[i].attempts + 1
             row == [job[i] EXCEPT !.status = "running", !.attempts = n, !.due = FALSE,
                                   !.expired = FALSE, !.token = t, !.alerted = FALSE]
             new == [me EXCEPT !.pc = "starting", !.left = me.left - 1, !.job = i, !.token = t,
                               !.attempt = n, !.done = job[i].done, !.sub = s]
  <2>1. job' = [job EXCEPT ![i] = row] /\ worker' = [worker EXCEPT ![w] = new]
    BY <1>6 DEF Claim
  <2> HIDE DEF t, s, n
  <2>2. new.reaped = {} /\ row.status = "running"
    BY <1>0, <1>1 DEF WorkerState, JobRow
  <2> HIDE DEF row, new
  <2>3. \A j \in Job : AlertStays(j)
    BY <1>0, <2>1, <2>2 DEF AlertStays
  <2> QED
    BY <1>1, <2>1, <2>2, <2>3, QuietAlerts
<1>7. CASE Start(w)
  BY <1>2, <1>3, <1>4, <1>7 DEF Start
<1>8. CASE RegistryStart(w)
  <2> DEFINE done == [me.done EXCEPT !.publish = "none", !.counter = NoCounter]
             new == [me EXCEPT !.pc = "publishing", !.done = done]
  <2>1. worker' = [worker EXCEPT ![w] = new] /\ UNCHANGED job
    BY <1>8 DEF RegistryStart
  <2> HIDE DEF done
  <2>2. new.reaped = {}
    BY <1>0, <1>1 DEF WorkerState
  <2> HIDE DEF new
  <2> QED
    BY <1>1, <1>4, <2>1, <2>2, QuietAlerts
<1>9. ASSUME NEW outcome, NEW c, RegistryReturn(w, outcome, c)
      PROVE  DeadLettersAlerted' /\ ReapedWhileReaping'
  <2> DEFINE done == [me.done EXCEPT
                        !.publish = IF outcome \in PublishDone \union {"dry_run"} THEN outcome
                                    ELSE "failed",
                        !.counter = IF outcome \in PublishDone THEN c ELSE NoCounter]
             new == [me EXCEPT !.pc = "saving", !.done = done]
  <2>1. /\ UNCHANGED job
        /\ \/ \E result \in Results : Conclude(w, done, result)
           \/ worker' = [worker EXCEPT ![w] = new]
    BY <1>9 DEF RegistryReturn, Results
  <2> HIDE DEF done
  <2>2. new.reaped = {}
    BY <1>0, <1>1 DEF WorkerState
  <2> HIDE DEF new
  <2> QED
    BY <1>1, <1>3, <1>4, <2>1, <2>2, QuietAlerts
<1>10. CASE SaveProgress(w)
  <2> DEFINE done == [job[me.job].done EXCEPT !.publish = me.done.publish,
                                              !.counter = me.done.counter]
             row == [job[me.job] EXCEPT !.done = done]
  <2>1. job' = job \/ (ClaimHolds(w) /\ job' = [job EXCEPT ![me.job] = row])
    <3>1. [job EXCEPT ![me.job].done.publish = me.done.publish,
                      ![me.job].done.counter = me.done.counter] = [job EXCEPT ![me.job] = row]
      OBVIOUS
    <3> QED
      BY <1>10, <3>1 DEF SaveProgress
  <2> HIDE DEF done
  <2>2. row.status = job[me.job].status
    BY <1>0 DEF JobRow
  <2> HIDE DEF row
  <2>3. \A j \in Job : AlertStays(j)
    BY <1>0, <2>1, <2>2 DEF AlertStays, ClaimHolds
  <2> QED
    BY <1>2, <1>3, <1>10, <2>3 DEF SaveProgress
<1>11. CASE GitPush(w)
  <2>1. UNCHANGED <<job, worker>>
    BY <1>11 DEF GitPush
  <2>2. \A v \in Worker : DutyStays(v)
    BY <2>1 DEF DutyStays
  <2> QED
    BY <1>4, <2>1, <2>2, AlertsStay DEF ReapedWhileReaping
<1>12. ASSUME NEW result, GitReturn(w, result)
       PROVE  DeadLettersAlerted' /\ ReapedWhileReaping'
  <2>1. UNCHANGED job /\ \E done : Conclude(w, done, result)
    BY <1>12 DEF GitReturn
  <2> QED
    BY <1>3, <1>4, <2>1
<1> QED
  BY <1>5, <1>6, <1>7, <1>8, <1>9, <1>10, <1>11, <1>12 DEF AnyPublish

\* Every step keeps every dead letter alerted, or spends a fault.
LEMMA AlertStep == RegenTypeOK /\ AlertInvariant /\ [RegenNext]_regenVars => AlertInvariant'
<1> SUFFICES ASSUME RegenTypeOK, AlertInvariant, [RegenNext]_regenVars, bounds'.faults = 0
             PROVE  DeadLettersAlerted' /\ ReapedWhileReaping'
  BY DEF AlertInvariant
<1>1. ReapedWhileReaping /\ DeadLettersAlerted
  BY FaultsStay DEF AlertInvariant
<1>2. ~Fault
  BY FaultSpends
<1>3. CASE PublishingNext \/ PeopleNext \/ TimeNext
  BY <1>1, <1>3, OutsideAlerts
<1>4. ASSUME NEW w \in Worker, WorkerStep(w)
      PROVE  DeadLettersAlerted' /\ ReapedWhileReaping'
  BY <1>1, <1>2, <1>4, TickAlerts, SendAlerts, FinishAlerts, AttemptAlerts
  DEF WorkerStep, ReapFails, ClaimFails, FinishFails
<1>5. ASSUME NEW w \in Worker, AnyPublish(w) \/ Crash(w)
      PROVE  DeadLettersAlerted' /\ ReapedWhileReaping'
  BY <1>1, <1>2, <1>5, AttemptAlerts DEF Crash
<1>6. CASE UNCHANGED regenVars
  BY <1>1, <1>6 DEF regenVars, DeadLettersAlerted, Alerting, ReapedWhileReaping
<1> QED
  BY <1>3, <1>4, <1>5, <1>6 DEF RegenNext

\* Nothing is dead-lettered at the start.
LEMMA AlertInit == RegenInit => AlertInvariant
BY AnyJobType DEF RegenInit, AlertInvariant, DeadLettersAlerted, ReapedWhileReaping, IdleWorker, NoJobRow

\* A job is only ever dead-lettered with its alert sent, or in the hands of a worker that is
\* about to send it, unless a process died or a write failed (notify_dead_lettered,
\* reap_stale_sdk_regen_jobs, run_claimed_job).
THEOREM DeadLettersAreAlerted == RegenSpec => []DeadLettersAlertedUnlessFault
<1>1. AlertInvariant => DeadLettersAlertedUnlessFault
  BY DEF AlertInvariant, DeadLettersAlertedUnlessFault
<1> QED
  BY <1>1, AlertInit, AlertStep, RegenTypesHold, PTL DEF RegenSpec
=============================================================================
