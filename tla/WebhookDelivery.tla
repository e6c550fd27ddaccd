--------------------------- MODULE WebhookDelivery ---------------------------
(***************************************************************************)
(* The webhook delivery sweep (apiome-rest/src/app/main.py), which makes   *)
(* the due attempts of two queues: push events (push_webhook_delivery.py,  *)
(* push_webhook_delivery_events) and export deliveries                     *)
(* (export_webhook_delivery_pipeline.py, export_webhook_delivery_runs).    *)
(* Every replica runs the sweep; an export delivery's first attempt is     *)
(* made by the request that asked for it.                                  *)
(*                                                                         *)
(* A claim and a close-out are one SQL transaction each; the POST happens  *)
(* between them, so an attempt may crash, be given up for dead while it is *)
(* still under way, or fail to be written.  The two queues differ: a push  *)
(* event is never taken back from a worker and its attempts are unique in  *)
(* a table of their own, an export delivery is taken back once it is       *)
(* stale, and its close-out is unconditional.                              *)
(***************************************************************************)
EXTENDS Naturals, FiniteSets

CONSTANTS
    Worker,       \* sweep threads and request threads, over all replicas
    Push,         \* push_webhook_delivery_events
    Direct,       \* those of Push sent to a URL of their own, with no subscription
    Export,       \* export_webhook_delivery_runs
    NoDelivery,
    MaxAttempts,  \* WEBHOOK_MAX_DELIVERY_ATTEMPTS, and the default of max_attempts
    Batch,        \* max_events and max_runs of one tick
    MaxFaults,    \* bound: crashes, failed writes and internal errors
    MaxLate,      \* bound: attempts that outlive stale_after_seconds, and commits whose
                  \* answer is lost
    MaxToggles    \* bound: activations and deactivations of subscriptions

ASSUME WebhookAssumption ==
    /\ Direct \subseteq Push
    /\ Push \intersect Export = {}
    /\ NoDelivery \notin Push \union Export
    /\ IsFiniteSet(Worker)
    /\ MaxAttempts \in Nat \ {0}
    /\ Batch \in Nat \ {0}
    /\ MaxFaults \in Nat
    /\ MaxLate \in Nat
    /\ MaxToggles \in Nat

Delivery == Push \union Export

VARIABLES
    row,     \* delivery -> its row
    active,  \* push event -> is its subscription active (always so for a direct URL)
    worker,  \* worker -> what it is doing
    posts,   \* history: delivery -> how many times its body was sent
    taken,   \* history: the deliveries whose receiver took the body
    bounds   \* what is spent of MaxFaults, MaxLate and MaxToggles

webhookVars == <<row, active, worker, posts, taken, bounds>>

Waiting  == {"pending", "retrying"}
Ended    == {"delivered", "dead_letter", "failed"}
Statuses == Waiting \union {"processing", "delivering"} \union Ended \union {"absent"}

\* tried: the attempt numbers in push_webhook_delivery_attempts.
Row == [status : Statuses, count : Nat, due : BOOLEAN, stale : BOOLEAN, tried : SUBSET Nat]

Results == {"none", "ok", "retryable", "final", "internal", "inactive"}

WorkerState == [pc : {"idle", "sweep", "send", "record"},
                queue : {"push", "export", "request"},
                left : 0..Batch,
                at : Delivery \union {NoDelivery},
                number : Nat,
                result : Results]

NoRow == [status |-> "absent", count |-> 0, due |-> FALSE, stale |-> FALSE, tried |-> {}]
Idle  == [pc |-> "idle", queue |-> "push", left |-> 0, at |-> NoDelivery,
          number |-> 0, result |-> "none"]

WebhookTypeOK ==
    /\ row \in [Delivery -> Row]
    /\ active \in [Push -> BOOLEAN]
    /\ worker \in [Worker -> WorkerState]
    /\ posts \in [Delivery -> Nat]
    /\ taken \in SUBSET Delivery
    /\ bounds \in [faults : 0..MaxFaults, late : 0..MaxLate, toggles : 0..MaxToggles]

WebhookInit ==
    /\ row = [d \in Delivery |-> NoRow]
    /\ active = [e \in Push |-> TRUE]
    /\ worker = [w \in Worker |-> Idle]
    /\ posts = [d \in Delivery |-> 0]
    /\ taken = {}
    /\ bounds = [faults |-> 0, late |-> 0, toggles |-> 0]

Attempting(w, d) == worker[w].pc \in {"send", "record"} /\ worker[w].at = d

SpendFault == bounds.faults < MaxFaults /\ bounds' = [bounds EXCEPT !.faults = @ + 1]
SpendLate  == bounds.late < MaxLate /\ bounds' = [bounds EXCEPT !.late = @ + 1]

-----------------------------------------------------------------------------
(* Queueing *)

\* enqueue_push_webhook_delivery, which refuses an inactive subscription, and
\* _insert_direct_delivery.
Enqueue(e) ==
    /\ row[e].status = "absent"
    /\ active[e]
    /\ row' = [row EXCEPT ![e] = [NoRow EXCEPT !.status = "pending", !.due = TRUE]]
    /\ UNCHANGED <<active, worker, posts, taken, bounds>>

\* start_delivery: the row is inserted as delivering, and the same thread goes on
\* to make the first attempt.
StartDelivery(w, d) ==
    /\ worker[w].pc = "idle"
    /\ row[d].status = "absent"
    /\ row' = [row EXCEPT ![d] = [NoRow EXCEPT !.status = "delivering"]]
    /\ worker' = [worker EXCEPT ![w] =
                    [Idle EXCEPT !.pc = "send", !.queue = "request", !.at = d, !.number = 1]]
    /\ UNCHANGED <<active, posts, taken, bounds>>

\* update_push_webhook_subscription.
Toggle(e) ==
    /\ bounds.toggles < MaxToggles
    /\ active' = [active EXCEPT ![e] = ~ @]
    /\ bounds' = [bounds EXCEPT !.toggles = @ + 1]
    /\ UNCHANGED <<row, worker, posts, taken>>

-----------------------------------------------------------------------------
(* Time *)

\* next_retry_at or next_attempt_at has passed.
FallsDue(d) ==
    /\ row[d].status = "retrying"
    /\ ~ row[d].due
    /\ row' = [row EXCEPT ![d].due = TRUE]
    /\ UNCHANGED <<active, worker, posts, taken, bounds>>

\* A delivering row has not been touched for stale_after_seconds.
Stales(d) ==
    /\ row[d].status = "delivering"
    /\ ~ row[d].stale
    /\ row' = [row EXCEPT ![d].stale = TRUE]
    /\ UNCHANGED <<active, worker, posts, taken>>

\* ... because nobody is working on it any more,
GoesStale(d) ==
    /\ \A w \in Worker : ~ Attempting(w, d)
    /\ Stales(d)
    /\ UNCHANGED bounds

\* ... or because its attempt is slow.
OutlivesClaim(d) ==
    /\ \E w \in Worker : Attempting(w, d)
    /\ Stales(d)
    /\ SpendLate

-----------------------------------------------------------------------------
(* The sweep *)

Tick(w) ==
    /\ worker[w].pc = "idle"
    /\ worker' = [worker EXCEPT ![w] = [Idle EXCEPT !.pc = "sweep", !.left = Batch]]
    /\ UNCHANGED <<row, active, posts, taken, bounds>>

\* Mutant of DuePush: an event in processing is taken back as soon as it is due.
DuePushWhateverTaken(e) ==
    /\ row[e].status \in Waiting \union {"processing"}
    /\ row[e].due
    /\ row[e].count < MaxAttempts

\* The WHERE of get_next_due_push_webhook_delivery ...
DuePush(e) ==
    /\ row[e].status \in Waiting
    /\ row[e].due
    /\ row[e].count < MaxAttempts

\* Mutants of DueExport: a claim that was not given up for dead is taken back; a stale one
\* is not.
DueExportTaken(d) ==
    \/ row[d].status \in Waiting /\ row[d].due
    \/ row[d].status = "delivering"
DueExportFresh(d) == row[d].status \in Waiting /\ row[d].due

\* ... and of claim_next_due_export_webhook_delivery.
DueExport(d) ==
    \/ row[d].status \in Waiting /\ row[d].due
    \/ row[d].status = "delivering" /\ row[d].stale

DueIn(queue) ==
    IF queue = "push" THEN {e \in Push : DuePush(e)} ELSE {d \in Export : DueExport(d)}

\* Mutant of NextNumber: the count itself, which starts from no attempt.
SameNumber(d) == row[d].count

\* The number of the attempt is judged by the count as it was when the row was claimed.
NextNumber(d) == row[d].count + 1

\* A claim (FOR UPDATE SKIP LOCKED) and what the delivery function does at once with
\* the row it got: an event whose subscription is inactive is not sent.
Claim(w, d) ==
    /\ worker[w].pc = "sweep"
    /\ worker[w].left > 0
    /\ d \in DueIn(worker[w].queue)
    /\ row' = [row EXCEPT ![d].status = IF d \in Push THEN "processing" ELSE "delivering",
                          ![d].stale = FALSE]
    /\ LET sends == d \in Push => active[d]
       IN  worker' = [worker EXCEPT
                        ![w].pc = IF sends THEN "send" ELSE "record",
                        ![w].left = @ - 1,
                        ![w].at = d,
                        ![w].number = NextNumber(d),
                        ![w].result = IF sends THEN "none" ELSE "inactive"]
    /\ UNCHANGED <<active, posts, taken, bounds>>

\* Nothing more is due, or the batch is used up: after the push queue the export queue,
\* then sleep.
NextQueue(w) ==
    /\ worker[w].pc = "sweep"
    /\ worker[w].left = 0 \/ DueIn(worker[w].queue) = {}
    /\ worker' = [worker EXCEPT ![w] =
                    IF @.queue = "push"
                    THEN [Idle EXCEPT !.pc = "sweep", !.queue = "export", !.left = Batch]
                    ELSE Idle]
    /\ UNCHANGED <<row, active, posts, taken, bounds>>

-----------------------------------------------------------------------------
(* One attempt *)

Answered(w, result) ==
    worker' = [worker EXCEPT ![w].pc = "record", ![w].result = result]

\* The POST.  Without an answer (timeout, broken connection) the receiver may have
\* taken the body all the same.
Post(w) ==
    /\ worker[w].pc = "send"
    /\ \E answer \in {"2xx", "5xx", "4xx", "silence"} :
         /\ posts' = [posts EXCEPT ![worker[w].at] = @ + 1]
         /\ \/ answer \in {"2xx", "silence"} /\ taken' = taken \union {worker[w].at}
            \/ answer # "2xx" /\ taken' = taken
         /\ Answered(w, CASE answer = "2xx" -> "ok"
                          [] answer = "4xx" -> "final"
                          [] OTHER -> "retryable")
    /\ UNCHANGED <<row, active, bounds>>

\* Nothing is sent: the signing secret of a subscription cannot be decrypted, or the
\* SSRF guard refuses a direct URL or an export's URL.
NotSent(w) ==
    /\ worker[w].pc = "send"
    /\ Answered(w, IF worker[w].at \in Export THEN "final" ELSE "retryable")
    /\ UNCHANGED <<row, active, posts, taken, bounds>>

\* deliver_one_due_event: every failure but an inactive subscription is retried while
\* attempts are left.
PushOutcome(w) ==
    CASE worker[w].result = "ok" -> "delivered"
      [] worker[w].result = "inactive" -> "dead_letter"
      [] OTHER -> IF worker[w].number >= MaxAttempts THEN "dead_letter" ELSE "retrying"

\* Mutant of ExportOutcome: one attempt too many.
ExportOutcomeOneMore(w) ==
    IF worker[w].result = "ok" THEN "delivered"
    ELSE IF worker[w].result \in {"retryable", "internal"} /\ worker[w].number <= MaxAttempts
         THEN "retrying"
         ELSE "failed"

\* attempt_delivery: only failures that may pass are retried.
ExportOutcome(w) ==
    IF worker[w].result = "ok" THEN "delivered"
    ELSE IF worker[w].result \in {"retryable", "internal"} /\ worker[w].number < MaxAttempts
         THEN "retrying"
         ELSE "failed"

\* Mutant of Recordable: the table takes the same number twice.
RecordableAgain(w) == worker[w].pc = "record"

\* The INSERT into push_webhook_delivery_attempts, unique per event and number.
Recordable(w) == worker[w].at \in Export \/ worker[w].number \notin row[worker[w].at].tried

\* finalize_push_webhook_delivery_attempt: the event takes the attempt's number as its count;
\* record_export_webhook_delivery_attempt: the run counts one more.  Both name the row only.
Closed(w) ==
    LET d == worker[w].at
        old == row[d]
    IN  IF d \in Push
        THEN [old EXCEPT !.status = PushOutcome(w), !.count = worker[w].number,
                         !.due = FALSE, !.tried = @ \union {worker[w].number}]
        ELSE [old EXCEPT !.status = ExportOutcome(w), !.count = @ + 1,
                         !.due = FALSE, !.stale = FALSE]

Released(w) ==
    IF worker[w].queue = "request" THEN Idle
    ELSE [worker[w] EXCEPT !.pc = "sweep", !.at = NoDelivery, !.number = 0, !.result = "none"]

Record(w) ==
    /\ worker[w].pc = "record"
    /\ Recordable(w)
    /\ row' = [row EXCEPT ![worker[w].at] = Closed(w)]
    /\ worker' = [worker EXCEPT ![w] = Released(w)]
    /\ UNCHANGED <<active, posts, taken, bounds>>

\* An exception out of the attempt: the sweep tries to record an internal error in its
\* place, and only logs it when that fails too; a request leaves the row delivering.
Raises(w) ==
    worker' = [worker EXCEPT ![w] =
                 IF @.queue = "request" \/ @.result = "internal"
                 THEN Released(w)
                 ELSE [@ EXCEPT !.pc = "record", !.result = "internal"]]

\* The database rejects an attempt it already has,
RecordRejected(w) ==
    /\ worker[w].pc = "record"
    /\ ~ Recordable(w)
    /\ Raises(w)
    /\ UNCHANGED <<row, active, posts, taken, bounds>>

\* ... fails,
RecordFails(w) ==
    /\ worker[w].pc = "record"
    /\ Raises(w)
    /\ SpendFault
    /\ UNCHANGED <<row, active, posts, taken>>

\* ... or commits and loses the connection before it says so.
RecordUnconfirmed(w) ==
    /\ worker[w].pc = "record"
    /\ Recordable(w)
    /\ row' = [row EXCEPT ![worker[w].at] = Closed(w)]
    /\ Raises(w)
    /\ SpendLate
    /\ UNCHANGED <<active, posts, taken>>

\* Something unforeseen in the attempt itself.
AttemptBreaks(w) ==
    /\ worker[w].pc = "send"
    /\ Raises(w)
    /\ SpendFault
    /\ UNCHANGED <<row, active, posts, taken>>

\* The process dies, or the claim itself raises and the tick is over.
Crash(w) ==
    /\ worker[w].pc # "idle"
    /\ worker' = [worker EXCEPT ![w] = Idle]
    /\ SpendFault
    /\ UNCHANGED <<row, active, posts, taken>>

-----------------------------------------------------------------------------
Work(w) ==
    \/ Tick(w)
    \/ \E d \in Delivery : Claim(w, d)
    \/ NextQueue(w)
    \/ Post(w)
    \/ NotSent(w)
    \/ Record(w)
    \/ RecordRejected(w)

Fault(w) ==
    \/ RecordFails(w)
    \/ RecordUnconfirmed(w)
    \/ AttemptBreaks(w)
    \/ Crash(w)

WebhookNext ==
    \/ \E e \in Push : Enqueue(e)
    \/ \E w \in Worker, d \in Export : StartDelivery(w, d)
    \/ \E e \in Push \ Direct : Toggle(e)
    \/ \E d \in Delivery : FallsDue(d)
    \/ \E d \in Export : GoesStale(d) \/ OutlivesClaim(d)
    \/ \E w \in Worker : Work(w) \/ Fault(w)

WebhookSpec == WebhookInit /\ [][WebhookNext]_webhookVars

\* The sweep ticks for ever and every call in it returns (the POST has a timeout), and
\* time passes.  Nobody need queue anything, and faults need not happen.
WebhookFairSpec ==
    /\ WebhookSpec
    /\ \A w \in Worker : WF_webhookVars(Work(w))
    /\ \A d \in Delivery : WF_webhookVars(FallsDue(d))
    /\ \A d \in Export : WF_webhookVars(GoesStale(d))

-----------------------------------------------------------------------------
(* Properties *)

\* The workers whose attempt of d can still be recorded.
Holders(d) == {w \in Worker : Attempting(w, d) /\ Recordable(w)}

\* Nobody sends a push event that another worker is sending or has still to record, and an
\* export delivery has more than one worker only through attempts that outlived their
\* claim or whose record was not confirmed: the claims of both queues (database.py) keep
\* replicas apart, and the attempts table stops the one that comes back.
KeptApart ==
    /\ \A e \in Push : Cardinality(Holders(e)) <= 1
    /\ \A d \in Export : Cardinality(Holders(d)) <= 1 + bounds.late

\* However attempts fail, crash or are recorded twice, a push event is never sent more
\* often than the budget of the policy, and the attempts on record are exactly those counted.
PushBudget ==
    \A e \in Push :
        /\ posts[e] <= MaxAttempts
        /\ row[e].count <= MaxAttempts
        /\ row[e].tried = 1..row[e].count

\* A push event that was delivered or dead-lettered stays so: no second worker, and no
\* second record of the same attempt after a lost answer, takes it back.
PushOutcomeIsFinal ==
    [][\A e \in Push : row[e].status \in Ended => row'[e] = row[e]]_webhookVars

\* An export delivery is closed unconditionally: its outcome can be undone, but only by
\* an attempt that was given up for dead, or recorded twice.
ExportOutcomeIsFinalUnlessLate ==
    [][\A d \in Export : row[d].status \in Ended /\ bounds.late = 0 => row'[d] = row[d]]_webhookVars

\* What is recorded as delivered was taken by the receiver.
DeliveredWasTaken ==
    \A d \in Delivery : row[d].status = "delivered" => d \in taken

\* An attempt that was given up for dead and comes back can reopen an export delivery that
\* was closed, and cost it attempts beyond max_attempts: at most two for each such attempt.
ExportOverrun ==
    \A d \in Export : row[d].count <= MaxAttempts + 2 * bounds.late

\* A push event that nobody is working on and that is left in processing.
Stranded(e) ==
    /\ e \in Push
    /\ row[e].status = "processing"
    /\ Holders(e) = {}

\* Every delivery that was queued comes to its end, if need be through the sweep taking a
\* stale export delivery back; only a push event whose worker died, or could not write
\* at all, is left where it was.
DeliveriesEnd ==
    \A d \in Delivery :
        <>[](row[d].status \in Ended \union {"absent"} \/ Stranded(d))
-----------------------------------------------------------------------------
(* The inductive invariant of the safety properties *)

\* The workers who will record an attempt of d.
Attempters(d) == {w \in Worker : Attempting(w, d)}

\* A push event by itself: its attempts are counted, and it is sent at most once more while
\* it is being processed.
PushSound(e) ==
    /\ row[e].status # "delivering"
    /\ row[e].tried = 1..row[e].count
    /\ row[e].count <= MaxAttempts
    /\ row[e].status \in Waiting \union {"processing"} => row[e].count < MaxAttempts
    /\ row[e].status = "absent" => row[e].count = 0
    /\ posts[e] <= row[e].count + (IF row[e].status = "processing" THEN 1 ELSE 0)

\* A worker on a push event: either it is the one that makes the next attempt, or its attempt
\* is on record already.
PushAttemptSound(w, e) ==
    Attempting(w, e) =>
        /\ worker[w].number \in 1..row[e].count + 1
        /\ worker[w].number = row[e].count + 1 => row[e].status = "processing"
        /\ worker[w].pc = "send" => worker[w].number = row[e].count + 1 /\ posts[e] <= row[e].count

PushClaimUnique(e) ==
    \A w, v \in Worker :
        /\ Attempting(w, e) /\ worker[w].number = row[e].count + 1
        /\ Attempting(v, e) /\ worker[v].number = row[e].count + 1
        => w = v

\* Nobody has a claim on the export delivery that the sweep would respect.
Unclaimed(d) == ~ (row[d].status = "delivering" /\ ~ row[d].stale)

\* Every worker on an export delivery but one is there through a late attempt.
ExportClaimsBounded(d) ==
    Cardinality(Attempters(d)) + (IF Unclaimed(d) THEN 1 ELSE 0) <= 1 + bounds.late

\* A worker is on a delivery while it attempts one, and knows it as taken only if it was.
WorkerSound(w) ==
    /\ worker[w].pc \in {"send", "record"} => worker[w].at \in Delivery
    /\ worker[w].pc = "record" /\ worker[w].result = "ok" => worker[w].at \in taken

\* Those of them whose attempt, if it fails, leaves the export delivery to be tried again.
Hopeful(d) == {w \in Attempters(d) : worker[w].number < MaxAttempts}

\* The sweep may yet take the export delivery, now or when its claim is stale.
Reclaimable(d) == row[d].status \notin Ended /\ (Unclaimed(d) \/ Attempters(d) = {})

\* The attempts that may still be counted, each hopeful one with the one that it may lead to,
\* are within the budget and two for every late attempt.
ExportRoom(d) ==
    /\ row[d].status = "absent" => row[d].count = 0
    /\ row[d].count + Cardinality(Attempters(d)) + Cardinality(Hopeful(d))
           + (IF Reclaimable(d) THEN 1 ELSE 0) <= MaxAttempts + 2 * bounds.late

\* Who is on which delivery, and what was taken of it.
ClaimsSound ==
    /\ WebhookTypeOK
    /\ \A e \in Push : PushSound(e) /\ PushClaimUnique(e)
    /\ \A w \in Worker, e \in Push : PushAttemptSound(w, e)
    /\ \A d \in Export : ExportClaimsBounded(d)
    /\ \A w \in Worker : WorkerSound(w)
    /\ DeliveredWasTaken

\* The claims, counts and outcomes of both queues, in every reachable state: what the
\* properties above follow from.
WebhookInvariant == ClaimsSound /\ \A d \in Export : ExportRoom(d)
=============================================================================
