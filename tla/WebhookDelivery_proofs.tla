------------------------ MODULE WebhookDelivery_proofs ------------------------
(***************************************************************************)
(* Proofs about WebhookDelivery, for any finite set of workers, any events *)
(* and deliveries, and any budgets: WebhookInvariant is inductive, and the *)
(* safety properties of both queues follow from it.                        *)
(***************************************************************************)
EXTENDS WebhookDelivery, FiniteSetTheorems, TLAPS

-----------------------------------------------------------------------------
(* What the steps do *)

\* The fields of a worker.
LEMMA WorkerFields ==
  ASSUME WebhookTypeOK, NEW w \in Worker
  PROVE  /\ worker[w] \in WorkerState
         /\ worker[w].pc \in {"idle", "sweep", "send", "record"}
         /\ worker[w].queue \in {"push", "export", "request"}
         /\ worker[w].left \in 0..Batch
         /\ worker[w].at \in Delivery \union {NoDelivery}
         /\ worker[w].number \in Nat
         /\ worker[w].result \in Results
BY DEF WebhookTypeOK, WorkerState

\* The fields of a row.
LEMMA RowFields ==
  ASSUME WebhookTypeOK, NEW d \in Delivery
  PROVE  /\ row[d] \in Row
         /\ row[d].status \in Statuses
         /\ row[d].count \in Nat
         /\ row[d].due \in BOOLEAN
         /\ row[d].stale \in BOOLEAN
         /\ row[d].tried \in SUBSET Nat
BY DEF WebhookTypeOK, Row

\* An idle worker is a worker.
LEMMA IdleType == Idle \in WorkerState /\ Idle.pc = "idle"
BY WebhookAssumption DEF Idle, WorkerState, Results

\* A batch is a batch.
LEMMA BatchType == Batch \in 0..Batch
BY WebhookAssumption

\* Faults and late attempts are counted within their bounds.
LEMMA SpendType ==
  ASSUME WebhookTypeOK
  PROVE  /\ SpendFault => /\ bounds' \in [faults : 0..MaxFaults, late : 0..MaxLate, toggles : 0..MaxToggles]
                          /\ bounds'.late = bounds.late
         /\ SpendLate => /\ bounds' \in [faults : 0..MaxFaults, late : 0..MaxLate, toggles : 0..MaxToggles]
                         /\ bounds'.late = bounds.late + 1
BY WebhookAssumption DEF WebhookTypeOK, SpendFault, SpendLate

\* A worker that is done with an attempt is on no delivery.
LEMMA ReleasedType ==
  ASSUME WebhookTypeOK, NEW w \in Worker
  PROVE  Released(w) \in WorkerState /\ Released(w).pc \in {"idle", "sweep"}
<1> DEFINE x == [worker[w] EXCEPT !.pc = "sweep", !.at = NoDelivery, !.number = 0, !.result = "none"]
<1>1. x \in WorkerState /\ x.pc = "sweep"
  BY WorkerFields DEF WorkerState, Results
<1> QED
  BY <1>1, IdleType DEF Released

\* An exception out of an attempt ends it, or leaves an internal error to be recorded.
LEMMA RaisesEffect ==
  ASSUME WebhookTypeOK, NEW w \in Worker, Raises(w)
  PROVE  /\ worker' \in [Worker -> WorkerState]
         /\ \A v \in Worker \ {w} : worker'[v] = worker[v]
         /\ \/ worker'[w].pc \in {"idle", "sweep"}
            \/ /\ worker'[w].pc = "record"
               /\ worker'[w].at = worker[w].at
               /\ worker'[w].number = worker[w].number
               /\ worker'[w].result = "internal"
<1> DEFINE y == [worker[w] EXCEPT !.pc = "record", !.result = "internal"]
           x == IF worker[w].queue = "request" \/ worker[w].result = "internal"
                THEN Released(w) ELSE y
<1>1. y \in WorkerState /\ y.pc = "record" /\ y.result = "internal"
      /\ y.at = worker[w].at /\ y.number = worker[w].number
  BY WorkerFields DEF WorkerState, Results
<1>2. x \in WorkerState /\ (x = Released(w) \/ x = y)
  BY <1>1, ReleasedType
<1>3. worker \in [Worker -> WorkerState]
  BY DEF WebhookTypeOK
<1>4. worker' = [worker EXCEPT ![w] = x]
  BY DEF Raises
<1> HIDE DEF x, y
<1>5. worker' \in [Worker -> WorkerState] /\ worker'[w] = x
      /\ \A v \in Worker \ {w} : worker'[v] = worker[v]
  BY <1>2, <1>3, <1>4
<1> QED
  BY <1>1, <1>2, <1>5, ReleasedType

\* An answer leaves its result to be recorded.
LEMMA AnsweredEffect ==
  ASSUME WebhookTypeOK, NEW w \in Worker, NEW result \in Results, Answered(w, result)
  PROVE  /\ worker' \in [Worker -> WorkerState]
         /\ \A v \in Worker \ {w} : worker'[v] = worker[v]
         /\ worker'[w].pc = "record"
         /\ worker'[w].at = worker[w].at
         /\ worker'[w].number = worker[w].number
         /\ worker'[w].result = result
<1> DEFINE y == [worker[w] EXCEPT !.pc = "record", !.result = result]
<1>1. y \in WorkerState /\ y.pc = "record" /\ y.result = result
      /\ y.at = worker[w].at /\ y.number = worker[w].number
  BY WorkerFields DEF WorkerState
<1>2. worker \in [Worker -> WorkerState]
  BY DEF WebhookTypeOK
<1>3. worker' = [worker EXCEPT ![w] = y]
  BY DEF Answered
<1> HIDE DEF y
<1> QED
  BY <1>1, <1>2, <1>3

\* A step in which worker w sends nothing and writes no row: it may give up its attempt, or
\* have something else than a delivery to record.
Quiet(w) ==
    /\ UNCHANGED <<row, active, posts, taken>>
    /\ bounds' \in [faults : 0..MaxFaults, late : 0..MaxLate, toggles : 0..MaxToggles]
    /\ bounds'.late = bounds.late
    /\ worker' \in [Worker -> WorkerState]
    /\ \A v \in Worker \ {w} : worker'[v] = worker[v]
    /\ \/ worker'[w].pc \in {"idle", "sweep"}
       \/ /\ worker[w].pc \in {"send", "record"}
          /\ worker'[w].pc = "record"
          /\ worker'[w].at = worker[w].at
          /\ worker'[w].number = worker[w].number
          /\ worker'[w].result # "ok"

\* Ticks, changes of queue, attempts that send nothing and faults are quiet.
LEMMA QuietSteps ==
  ASSUME WebhookTypeOK, NEW w \in Worker,
         \/ Tick(w) \/ NextQueue(w) \/ NotSent(w) \/ RecordRejected(w)
         \/ RecordFails(w) \/ AttemptBreaks(w) \/ Crash(w)
  PROVE  Quiet(w)
<1>0. worker \in [Worker -> WorkerState]
      /\ bounds \in [faults : 0..MaxFaults, late : 0..MaxLate, toggles : 0..MaxToggles]
  BY DEF WebhookTypeOK
<1>1. CASE Tick(w)
  <2> DEFINE x == [Idle EXCEPT !.pc = "sweep", !.left = Batch]
  <2>1. x \in WorkerState /\ x.pc = "sweep"
    BY IdleType, BatchType DEF WorkerState
  <2>2. worker' = [worker EXCEPT ![w] = x] /\ UNCHANGED <<row, active, posts, taken, bounds>>
    BY <1>1 DEF Tick
  <2> HIDE DEF x
  <2> QED
    BY <1>0, <2>1, <2>2 DEF Quiet
<1>2. CASE NextQueue(w)
  <2> DEFINE y == [Idle EXCEPT !.pc = "sweep", !.queue = "export", !.left = Batch]
             x == IF worker[w].queue = "push" THEN y ELSE Idle
  <2>1. y \in WorkerState /\ y.pc = "sweep"
    BY IdleType, BatchType DEF WorkerState
  <2>2. worker' = [worker EXCEPT ![w] = x] /\ UNCHANGED <<row, active, posts, taken, bounds>>
    BY <1>2 DEF NextQueue
  <2>3. x \in WorkerState /\ x.pc \in {"idle", "sweep"}
    BY <2>1, IdleType
  <2> HIDE DEF x, y
  <2> QED
    BY <1>0, <2>2, <2>3 DEF Quiet
<1>3. CASE NotSent(w)
  <2> DEFINE result == IF worker[w].at \in Export THEN "final" ELSE "retryable"
  <2>1. result \in Results /\ result # "ok"
    BY DEF Results
  <2>2. Answered(w, result) /\ UNCHANGED <<row, active, posts, taken, bounds>> /\ worker[w].pc = "send"
    BY <1>3 DEF NotSent
  <2> HIDE DEF result
  <2> QED
    BY <1>0, <2>1, <2>2, AnsweredEffect DEF Quiet
<1>4. CASE RecordRejected(w)
  BY <1>0, <1>4, RaisesEffect DEF Quiet, RecordRejected
<1>5. CASE RecordFails(w) \/ AttemptBreaks(w)
  BY <1>0, <1>5, RaisesEffect, SpendType DEF Quiet, RecordFails, AttemptBreaks
<1>6. CASE Crash(w)
  BY <1>0, <1>6, IdleType, SpendType DEF Quiet, Crash
<1> QED
  BY <1>1, <1>2, <1>3, <1>4, <1>5, <1>6

\* A claim, or the beginning of a request: worker w, who was on no delivery, begins the
\* attempt of d that comes next.
Begins(w, d) ==
    /\ UNCHANGED <<active, posts, taken, bounds>>
    /\ worker[w].pc \in {"idle", "sweep"}
    /\ worker' \in [Worker -> WorkerState]
    /\ \A v \in Worker \ {w} : worker'[v] = worker[v]
    /\ worker'[w].pc \in {"send", "record"}
    /\ worker'[w].at = d
    /\ d \in Push => worker'[w].number = row[d].count + 1
    /\ worker'[w].result # "ok"
    /\ row' \in [Delivery -> Row]
    /\ \A c \in Delivery \ {d} : row'[c] = row[c]
    /\ row'[d].status = IF d \in Push THEN "processing" ELSE "delivering"
    /\ row'[d].stale = FALSE
    /\ d \in Push => row'[d].count = row[d].count /\ row'[d].tried = row[d].tried

\* Claims are taken on what is due.
LEMMA ClaimBegins ==
  ASSUME WebhookTypeOK, NEW w \in Worker, NEW d \in Delivery, Claim(w, d)
  PROVE  /\ Begins(w, d)
         /\ d \in Push => DuePush(d)
         /\ d \in Export => DueExport(d)
         /\ worker'[w].number = row[d].count + 1 /\ row'[d].count = row[d].count
<1>0. /\ worker \in [Worker -> WorkerState] /\ worker[w].pc = "sweep"
      /\ row \in [Delivery -> Row] /\ row[d].count \in Nat
  BY RowFields DEF WebhookTypeOK, Claim
<1>1. (d \in Push => DuePush(d)) /\ (d \in Export => DueExport(d))
  BY WebhookAssumption DEF Claim, DueIn
<1> DEFINE sends  == d \in Push => active[d]
           status == IF d \in Push THEN "processing" ELSE "delivering"
           x == [worker[w] EXCEPT !.pc = IF sends THEN "send" ELSE "record", !.left = @ - 1,
                                  !.at = d, !.number = NextNumber(d),
                                  !.result = IF sends THEN "none" ELSE "inactive"]
           y == [row[d] EXCEPT !.status = status, !.stale = FALSE]
<1>2. worker' = [worker EXCEPT ![w] = x]
  BY <1>0 DEF Claim
<1>3. row' = [row EXCEPT ![d] = y]
  BY <1>0 DEF Claim
<1>4. /\ x \in WorkerState /\ x.pc \in {"send", "record"} /\ x.at = d
      /\ x.number = row[d].count + 1 /\ x.result # "ok"
  <2> DEFINE pc     == IF sends THEN "send" ELSE "record"
             left   == worker[w].left - 1
             number == NextNumber(d)
             result == IF sends THEN "none" ELSE "inactive"
  <2>1. worker[w].left > 0
    BY DEF Claim
  <2>2. left \in 0..Batch
    BY <2>1, WorkerFields, WebhookAssumption
  <2>3. number \in Nat /\ number = row[d].count + 1
    BY <1>0 DEF NextNumber
  <2>4. pc \in {"send", "record"} /\ result \in Results /\ result # "ok"
    BY DEF Results
  <2>5. worker[w] \in WorkerState
    BY WorkerFields
  <2>6. x = [worker[w] EXCEPT !.pc = pc, !.left = left, !.at = d, !.number = number, !.result = result]
    OBVIOUS
  <2> HIDE DEF sends, pc, left, number, result, x
  <2> QED
    BY <2>2, <2>3, <2>4, <2>5, <2>6 DEF WorkerState
<1>5. /\ y \in Row /\ y.status = status /\ y.stale = FALSE
      /\ y.count = row[d].count /\ y.tried = row[d].tried
  BY RowFields DEF Row, Statuses, Waiting, Ended
<1>6. UNCHANGED <<active, posts, taken, bounds>>
  BY DEF Claim
<1> HIDE DEF x, y
<1> QED
  BY <1>0, <1>1, <1>2, <1>3, <1>4, <1>5, <1>6 DEF Begins

\* A request begins the first attempt of the export delivery it queues.
LEMMA StartBegins ==
  ASSUME WebhookTypeOK, NEW w \in Worker, NEW d \in Export, StartDelivery(w, d)
  PROVE  /\ Begins(w, d) /\ row[d].status = "absent"
         /\ worker'[w].number = 1 /\ row'[d].count = 0
<1>0. /\ worker \in [Worker -> WorkerState] /\ worker[w].pc = "idle" /\ d \in Delivery
      /\ row \in [Delivery -> Row] /\ row[d].status = "absent" /\ d \notin Push
  BY WebhookAssumption DEF WebhookTypeOK, StartDelivery, Delivery
<1> DEFINE x == [Idle EXCEPT !.pc = "send", !.queue = "request", !.at = d, !.number = 1]
           y == [NoRow EXCEPT !.status = "delivering"]
<1>1. x \in WorkerState /\ x.pc = "send" /\ x.at = d /\ x.result # "ok" /\ x.number = 1
  <2>1. d \in Delivery \union {NoDelivery}
    BY <1>0
  <2> HIDE DEF WebhookTypeOK
  <2>2. Idle \in WorkerState
    BY IdleType
  <2>3. "request" \in {"push", "export", "request"} /\ 1 \in Nat
    OBVIOUS
  <2> QED
    BY <2>1, <2>2, <2>3 DEF Idle, WorkerState
<1>2. y \in Row /\ y.status = "delivering" /\ y.stale = FALSE /\ y.count = 0
  BY DEF NoRow, Row, Statuses
<1>3. /\ worker' = [worker EXCEPT ![w] = x] /\ row' = [row EXCEPT ![d] = y]
      /\ UNCHANGED <<active, posts, taken, bounds>>
  BY DEF StartDelivery
<1> HIDE DEF x, y
<1> QED
  BY <1>0, <1>1, <1>2, <1>3 DEF Begins

\* What closing a push attempt makes of its event.
LEMMA ClosedPush ==
  ASSUME WebhookTypeOK, NEW w \in Worker, NEW d \in Push, worker[w].at = d
  PROVE  /\ Closed(w) \in Row
         /\ Closed(w).status \in {"delivered", "dead_letter", "retrying"}
         /\ Closed(w).status = "delivered" => worker[w].result = "ok"
         /\ Closed(w).status = "retrying" => worker[w].number < MaxAttempts
         /\ Closed(w).count = worker[w].number
         /\ Closed(w).tried = row[d].tried \union {worker[w].number}
<1> DEFINE status == PushOutcome(w)
           number == worker[w].number
           tried  == row[d].tried \union {number}
           p      == [row[d] EXCEPT !.status = status, !.count = number,
                                    !.due = FALSE, !.tried = tried]
<1>1. /\ status \in {"delivered", "dead_letter", "retrying"}
      /\ status = "delivered" => worker[w].result = "ok"
      /\ status = "retrying" => number < MaxAttempts
  BY WorkerFields, WebhookAssumption DEF PushOutcome
<1>2. d \in Delivery
  BY DEF Delivery
<1>3. row[d] \in Row /\ number \in Nat /\ tried \in SUBSET Nat /\ status \in Statuses
  BY <1>1, <1>2, RowFields, WorkerFields DEF Statuses, Waiting, Ended
<1>4. Closed(w) = p
  BY DEF Closed
<1>5. tried = row[d].tried \union {worker[w].number} /\ number = worker[w].number
  OBVIOUS
<1> HIDE DEF status, tried, number
<1>6. p \in Row /\ p.status = status /\ p.count = number /\ p.tried = tried
  BY <1>3 DEF Row
<1> HIDE DEF p
<1> QED
  BY <1>1, <1>4, <1>5, <1>6

\* What closing an export attempt makes of its delivery.
LEMMA ClosedExport ==
  ASSUME WebhookTypeOK, NEW w \in Worker, NEW d \in Export, worker[w].at = d
  PROVE  /\ Closed(w) \in Row
         /\ Closed(w).status \in {"delivered", "failed", "retrying"}
         /\ Closed(w).status = "delivered" => worker[w].result = "ok"
         /\ Closed(w).status = "retrying" => worker[w].number < MaxAttempts
         /\ Closed(w).count = row[d].count + 1
<1> DEFINE status == ExportOutcome(w)
           count  == row[d].count + 1
           x      == [row[d] EXCEPT !.status = status, !.count = count,
                                    !.due = FALSE, !.stale = FALSE]
<1>1. /\ status \in {"delivered", "failed", "retrying"}
      /\ status = "delivered" => worker[w].result = "ok"
      /\ status = "retrying" => worker[w].number < MaxAttempts
  BY DEF ExportOutcome
<1>2. d \in Delivery /\ d \notin Push
  BY WebhookAssumption DEF Delivery, WebhookAssumption
<1>3. row[d] \in Row /\ count \in Nat /\ status \in Statuses
  BY <1>1, <1>2, RowFields DEF Statuses, Waiting, Ended
<1>4. Closed(w) = x
  BY <1>2 DEF Closed
<1>5. count = row[d].count + 1
  OBVIOUS
<1> HIDE DEF status, count
<1>6. x \in Row /\ x.status = status /\ x.count = count
  BY <1>3 DEF Row
<1> HIDE DEF x
<1> QED
  BY <1>1, <1>4, <1>5, <1>6

\* ... and of either.
LEMMA ClosedType ==
  ASSUME WebhookTypeOK, NEW w \in Worker, NEW d \in Delivery, worker[w].at = d
  PROVE  /\ Closed(w) \in Row
         /\ Closed(w).status \in {"delivered", "dead_letter", "failed", "retrying"}
         /\ Closed(w).status = "delivered" => worker[w].result = "ok"
BY ClosedPush, ClosedExport DEF Delivery

\* The record of an attempt: the row is closed, and the worker is done with the attempt or,
\* if it was not told, has an internal error to record.
Records(w) ==
    /\ UNCHANGED <<active, posts, taken>>
    /\ worker[w].pc = "record"
    /\ Recordable(w)
    /\ bounds' \in [faults : 0..MaxFaults, late : 0..MaxLate, toggles : 0..MaxToggles]
    /\ worker' \in [Worker -> WorkerState]
    /\ \A v \in Worker \ {w} : worker'[v] = worker[v]
    /\ \/ worker'[w].pc \in {"idle", "sweep"} /\ bounds'.late = bounds.late
       \/ /\ bounds'.late = bounds.late + 1
          /\ \/ worker'[w].pc \in {"idle", "sweep"}
             \/ /\ worker'[w].pc = "record"
                /\ worker'[w].at = worker[w].at
                /\ worker'[w].number = worker[w].number
                /\ worker'[w].result # "ok"
    /\ row' \in [Delivery -> Row]
    /\ \A c \in Delivery \ {worker[w].at} : row'[c] = row[c]
    /\ row'[worker[w].at] = Closed(w)

\* Confirmed or not, a record is one.
LEMMA RecordSteps ==
  ASSUME WebhookTypeOK, NEW w \in Worker, worker[w].at \in Delivery,
         Record(w) \/ RecordUnconfirmed(w)
  PROVE  Records(w)
<1>1. /\ row' = [row EXCEPT ![worker[w].at] = Closed(w)]
      /\ row \in [Delivery -> Row] /\ worker \in [Worker -> WorkerState]
      /\ bounds \in [faults : 0..MaxFaults, late : 0..MaxLate, toggles : 0..MaxToggles]
      /\ worker[w].pc = "record" /\ Recordable(w) /\ UNCHANGED <<active, posts, taken>>
  BY DEF WebhookTypeOK, Record, RecordUnconfirmed
<1>2. /\ row' \in [Delivery -> Row] /\ row'[worker[w].at] = Closed(w)
      /\ \A c \in Delivery \ {worker[w].at} : row'[c] = row[c]
  BY <1>1, ClosedType
<1>3. CASE Record(w)
  BY <1>1, <1>2, <1>3, ReleasedType DEF Records, Record
<1>4. CASE RecordUnconfirmed(w)
  BY <1>1, <1>2, <1>4, RaisesEffect, SpendType DEF Records, RecordUnconfirmed
<1> QED
  BY <1>3, <1>4

\* A POST: the body of the delivery the worker is on goes out once more, and its receiver
\* has taken it if it says so.
Sends(w) ==
    /\ UNCHANGED <<row, active, bounds>>
    /\ worker[w].pc = "send"
    /\ posts' = [posts EXCEPT ![worker[w].at] = @ + 1]
    /\ taken' \in {taken, taken \union {worker[w].at}}
    /\ worker' \in [Worker -> WorkerState]
    /\ \A v \in Worker \ {w} : worker'[v] = worker[v]
    /\ worker'[w].pc = "record"
    /\ worker'[w].at = worker[w].at
    /\ worker'[w].number = worker[w].number
    /\ worker'[w].result = "ok" => worker[w].at \in taken'

\* The POST of the model is one.
LEMMA PostSends ==
  ASSUME WebhookTypeOK, NEW w \in Worker, Post(w)
  PROVE  Sends(w)
<1>1. PICK answer \in {"2xx", "5xx", "4xx", "silence"} :
        /\ posts' = [posts EXCEPT ![worker[w].at] = @ + 1]
        /\ \/ answer \in {"2xx", "silence"} /\ taken' = taken \union {worker[w].at}
           \/ answer # "2xx" /\ taken' = taken
        /\ Answered(w, CASE answer = "2xx" -> "ok"
                          [] answer = "4xx" -> "final"
                          [] OTHER -> "retryable")
  BY DEF Post
<1> DEFINE result == CASE answer = "2xx" -> "ok"
                       [] answer = "4xx" -> "final"
                       [] OTHER -> "retryable"
<1>2. result \in Results /\ (result = "ok" => answer = "2xx")
  BY DEF Results
<1>3. Answered(w, result)
  BY <1>1
<1> HIDE DEF result
<1>4. worker[w].pc = "send" /\ UNCHANGED <<row, active, bounds>>
  BY DEF Post
<1> QED
  BY <1>1, <1>2, <1>3, <1>4, AnsweredEffect DEF Sends

-----------------------------------------------------------------------------
(* Who is on which delivery *)

\* How many workers there can be in a set that grows or shrinks by one.
LEMMA WorkerSets ==
  ASSUME NEW S \in SUBSET Worker, NEW T \in SUBSET Worker
  PROVE  /\ Cardinality(S) \in Nat /\ Cardinality(T) \in Nat
         /\ S \subseteq T => Cardinality(S) <= Cardinality(T)
         /\ \A w : S \subseteq T \union {w} => Cardinality(S) <= Cardinality(T) + 1
         /\ \A w \in T : S \subseteq T \ {w} => Cardinality(S) <= Cardinality(T) - 1
         /\ S = {} => Cardinality(S) = 0
<1>1. IsFiniteSet(S) /\ IsFiniteSet(T)
  BY WebhookAssumption, FS_Subset DEF WebhookAssumption
<1>2. Cardinality(S) \in Nat /\ Cardinality(T) \in Nat
  BY <1>1, FS_CardinalityType
<1>3. S \subseteq T => Cardinality(S) <= Cardinality(T)
  BY <1>1, FS_Subset
<1>4. ASSUME NEW w, S \subseteq T \union {w}
      PROVE  Cardinality(S) <= Cardinality(T) + 1
  <2>0. /\ IsFiniteSet(T \union {w})
        /\ Cardinality(T \union {w}) = IF w \in T THEN Cardinality(T) ELSE Cardinality(T) + 1
    BY <1>1, FS_AddElement
  <2>1. IsFiniteSet(T \union {w}) /\ Cardinality(T \union {w}) <= Cardinality(T) + 1
    BY <1>2, <2>0
  <2>2. Cardinality(S) <= Cardinality(T \union {w}) /\ Cardinality(T \union {w}) \in Nat
    BY <1>4, <2>1, FS_Subset, FS_CardinalityType
  <2> QED
    BY <1>2, <2>1, <2>2
<1>5. ASSUME NEW w \in T, S \subseteq T \ {w}
      PROVE  Cardinality(S) <= Cardinality(T) - 1
  <2>1. IsFiniteSet(T \ {w}) /\ Cardinality(T \ {w}) = Cardinality(T) - 1
    BY <1>1, FS_RemoveElement
  <2> QED
    BY <1>5, <2>1, FS_Subset
<1>6. S = {} => Cardinality(S) = 0
  BY FS_EmptySet
<1> QED
  BY <1>2, <1>3, <1>4, <1>5, <1>6

\* Attempters are workers.
LEMMA AttemptersAreWorkers ==
  ASSUME NEW d
  PROVE  Attempters(d) \in SUBSET Worker /\ Attempters(d)' \in SUBSET Worker
BY DEF Attempters

\* Nothing is sent and nothing is written: the claims can only be given up.
LEMMA QuietKeeps ==
  ASSUME ClaimsSound, NEW w \in Worker, Quiet(w)
  PROVE  ClaimsSound'
<1> USE DEF ClaimsSound
<1>1. WebhookTypeOK'
  BY DEF Quiet, WebhookTypeOK
<1>2. ASSUME NEW v \in Worker, NEW d \in Delivery, Attempting(v, d)'
      PROVE  Attempting(v, d) /\ worker'[v].number = worker[v].number
             /\ (worker'[v].pc = "send" => worker[v].pc = "send")
  BY <1>2 DEF Quiet, Attempting
<1>3. ASSUME NEW e \in Push
      PROVE  PushSound(e)' /\ PushClaimUnique(e)'
  <2>1. e \in Delivery /\ UNCHANGED <<row, posts>>
    BY DEF Quiet, Delivery
  <2> QED
    BY <1>2, <2>1 DEF PushSound, PushClaimUnique
<1>4. ASSUME NEW v \in Worker, NEW e \in Push
      PROVE  PushAttemptSound(v, e)'
  <2>1. e \in Delivery /\ UNCHANGED <<row, posts>>
    BY DEF Quiet, Delivery
  <2> QED
    BY <1>2, <2>1 DEF PushAttemptSound
<1>5. ASSUME NEW d \in Export
      PROVE  ExportClaimsBounded(d)'
  <2>1. d \in Delivery /\ UNCHANGED row /\ bounds'.late = bounds.late
    BY DEF Quiet, Delivery
  <2>2. Attempters(d)' \subseteq Attempters(d)
    BY <1>2, <2>1 DEF Attempters
  <2>3. Cardinality(Attempters(d)') <= Cardinality(Attempters(d))
        /\ Cardinality(Attempters(d)') \in Nat /\ Cardinality(Attempters(d)) \in Nat
    BY <2>2, WorkerSets, AttemptersAreWorkers
  <2>4. bounds.late \in Nat
    BY WebhookAssumption DEF WebhookTypeOK
  <2> QED
    BY <2>1, <2>3, <2>4 DEF ExportClaimsBounded, Unclaimed
<1>6. ASSUME NEW v \in Worker
      PROVE  WorkerSound(v)'
  BY DEF Quiet, WorkerSound
<1>7. DeliveredWasTaken'
  BY DEF Quiet, DeliveredWasTaken
<1> QED
  BY <1>1, <1>3, <1>4, <1>5, <1>6, <1>7

\* A worker begins an attempt of a delivery that nobody else has a claim on.
LEMMA BeginsKeeps ==
  ASSUME ClaimsSound, NEW w \in Worker, NEW d \in Delivery, Begins(w, d),
         d \in Push => DuePush(d), d \in Export => Unclaimed(d)
  PROVE  ClaimsSound'
<1> USE DEF ClaimsSound
<1>1. WebhookTypeOK'
  BY DEF Begins, WebhookTypeOK
<1>2. ASSUME NEW v \in Worker, NEW c \in Delivery, Attempting(v, c)'
      PROVE  \/ v = w /\ c = d
             \/ v # w /\ Attempting(v, c) /\ worker'[v] = worker[v]
  BY <1>2 DEF Begins, Attempting
<1>3. ASSUME NEW e \in Push
      PROVE  PushSound(e)'
  <2>1. e \in Delivery /\ posts' = posts /\ row[e].count \in Nat /\ posts[e] \in Nat
    BY RowFields DEF Begins, Delivery, WebhookTypeOK
  <2>2. CASE e # d
    BY <2>1, <2>2 DEF PushSound, Begins
  <2>3. CASE e = d
    <3>1. /\ row'[e].status = "processing" /\ row'[e].count = row[e].count
          /\ row'[e].tried = row[e].tried
      BY <2>3 DEF Begins
    <3>2. row[e].status \in Waiting /\ row[e].count < MaxAttempts
      BY <2>3 DEF DuePush
    <3> QED
      BY <2>1, <3>1, <3>2 DEF PushSound, Waiting
  <2> QED
    BY <2>2, <2>3
<1>4. ASSUME NEW e \in Push, NEW v \in Worker
      PROVE  PushAttemptSound(v, e)'
  <2>1. e \in Delivery /\ posts' = posts /\ row[e].count \in Nat /\ posts[e] \in Nat
    BY RowFields DEF Begins, Delivery, WebhookTypeOK
  <2>2. SUFFICES ASSUME Attempting(v, e)'
                 PROVE  PushAttemptSound(v, e)'
    BY DEF PushAttemptSound
  <2>3. CASE v = w /\ e = d
    <3>1. /\ worker'[v].number = row[e].count + 1 /\ row'[e].status = "processing"
          /\ row'[e].count = row[e].count
      BY <2>3 DEF Begins
    <3>2. posts[e] <= row[e].count
      BY <2>1, <2>3 DEF PushSound, DuePush, Waiting
    <3> QED
      BY <2>1, <3>1, <3>2 DEF PushAttemptSound
  <2>4. CASE v # w /\ Attempting(v, e) /\ worker'[v] = worker[v]
    <3>1. PushAttemptSound(v, e)
      OBVIOUS
    <3>2. CASE e # d
      BY <2>1, <2>4, <3>1, <3>2 DEF PushAttemptSound, Begins
    <3>3. CASE e = d
      <4>1. row[e].status # "processing"
        BY <3>3 DEF DuePush, Waiting
      <4>2. worker[v].number # row[e].count + 1 /\ worker[v].number \in 1..row[e].count + 1
            /\ worker[v].pc # "send"
        BY <2>4, <3>1, <4>1 DEF PushAttemptSound
      <4>3. row'[e].count = row[e].count
        BY <3>3 DEF Begins
      <4> QED
        BY <2>1, <2>4, <4>2, <4>3 DEF PushAttemptSound
    <3> QED
      BY <3>2, <3>3
  <2> QED
    BY <1>2, <2>1, <2>2, <2>3, <2>4
<1>5. ASSUME NEW e \in Push
      PROVE  PushClaimUnique(e)'
  <2>1. e \in Delivery /\ row'[e].count = row[e].count
    BY DEF Begins, Delivery
  <2>2. SUFFICES ASSUME NEW u \in Worker, NEW v \in Worker,
                        Attempting(u, e)', worker'[u].number = row[e].count + 1,
                        Attempting(v, e)', worker'[v].number = row[e].count + 1
                 PROVE  u = v
    BY <2>1 DEF PushClaimUnique
  <2>3. ASSUME NEW x \in Worker, x # w, Attempting(x, e)', worker'[x].number = row[e].count + 1
        PROVE  e # d
    <3>1. Attempting(x, e) /\ worker[x].number = row[e].count + 1
      BY <1>2, <2>1, <2>3
    <3>2. row[e].status = "processing"
      BY <3>1 DEF PushAttemptSound
    <3> QED
      BY <3>2 DEF DuePush, Waiting
  <2>4. CASE u # w /\ v # w
    BY <1>2, <2>1, <2>2, <2>4 DEF PushClaimUnique
  <2>5. CASE u = w \/ v = w
    BY <1>2, <2>1, <2>2, <2>3, <2>5
  <2> QED
    BY <2>4, <2>5
<1>6. ASSUME NEW c \in Export
      PROVE  ExportClaimsBounded(c)'
  <2>1. c \in Delivery /\ bounds' = bounds /\ bounds.late \in Nat /\ c \notin Push
    BY WebhookAssumption DEF Begins, Delivery, WebhookTypeOK
  <2>2. CASE c # d
    <3>1. Attempters(c)' \subseteq Attempters(c) /\ row'[c] = row[c]
      BY <1>2, <2>1, <2>2 DEF Attempters, Begins
    <3>2. Cardinality(Attempters(c)') <= Cardinality(Attempters(c))
          /\ Cardinality(Attempters(c)') \in Nat /\ Cardinality(Attempters(c)) \in Nat
      BY <3>1, WorkerSets, AttemptersAreWorkers
    <3> QED
      BY <2>1, <3>1, <3>2 DEF ExportClaimsBounded, Unclaimed
  <2>3. CASE c = d
    <3>1. Attempters(c)' \subseteq Attempters(c) \union {w}
      BY <1>2, <2>1, <2>3 DEF Attempters
    <3>2. Cardinality(Attempters(c)') <= Cardinality(Attempters(c)) + 1
          /\ Cardinality(Attempters(c)') \in Nat /\ Cardinality(Attempters(c)) \in Nat
      BY <3>1, WorkerSets, AttemptersAreWorkers
    <3>3. Unclaimed(c) /\ ~ Unclaimed(c)'
      BY <2>1, <2>3 DEF Unclaimed, Begins
    <3> QED
      BY <2>1, <3>2, <3>3 DEF ExportClaimsBounded
  <2> QED
    BY <2>2, <2>3
<1>7. ASSUME NEW v \in Worker
      PROVE  WorkerSound(v)'
  BY DEF Begins, WorkerSound
<1>8. DeliveredWasTaken'
  BY DEF Begins, DeliveredWasTaken
<1> QED
  BY <1>1, <1>3, <1>4, <1>5, <1>6, <1>7, <1>8

\* The body of a delivery is sent.
LEMMA SendsKeeps ==
  ASSUME ClaimsSound, NEW w \in Worker, Sends(w)
  PROVE  ClaimsSound'
<1> USE DEF ClaimsSound
<1> DEFINE d == worker[w].at
<1>0. d \in Delivery /\ Attempting(w, d)
  BY DEF WorkerSound, Sends, Attempting
<1>1. WebhookTypeOK'
  <2>1. posts' \in [Delivery -> Nat] /\ taken' \subseteq Delivery
    BY <1>0 DEF Sends, WebhookTypeOK
  <2> QED
    BY <2>1 DEF Sends, WebhookTypeOK
<1>2. ASSUME NEW v \in Worker, NEW c \in Delivery
      PROVE  /\ Attempting(v, c)' <=> Attempting(v, c)
             /\ worker'[v].number = worker[v].number
             /\ worker'[v].pc = "send" => v # w /\ worker[v].pc = "send"
  BY DEF Sends, Attempting
<1>3. ASSUME NEW c \in Delivery
      PROVE  /\ row'[c] = row[c] /\ row[c].count \in Nat /\ posts[c] \in Nat
             /\ c # d => posts'[c] = posts[c]
             /\ c = d => posts'[c] = posts[c] + 1
  BY <1>0, RowFields DEF Sends, WebhookTypeOK
<1>4. d \in Push => /\ worker[w].number = row[d].count + 1 /\ row[d].status = "processing"
                    /\ posts[d] <= row[d].count
  BY <1>0 DEF PushAttemptSound, Sends
<1>5. ASSUME NEW e \in Push
      PROVE  PushSound(e)' /\ PushClaimUnique(e)'
  <2>1. e \in Delivery
    BY DEF Delivery
  <2>2. PushSound(e)'
    BY <1>3, <1>4, <2>1 DEF PushSound
  <2>3. PushClaimUnique(e)'
    BY <1>2, <1>3, <2>1 DEF PushClaimUnique
  <2> QED
    BY <2>2, <2>3
<1>6. ASSUME NEW v \in Worker, NEW e \in Push
      PROVE  PushAttemptSound(v, e)'
  <2>1. e \in Delivery
    BY DEF Delivery
  <2>2. SUFFICES ASSUME Attempting(v, e)'
                 PROVE  PushAttemptSound(v, e)'
    BY DEF PushAttemptSound
  <2>3. PushAttemptSound(v, e) /\ Attempting(v, e)
    BY <1>2, <2>1, <2>2
  <2>4. ASSUME worker'[v].pc = "send"
        PROVE  e # d
    <3>1. v # w /\ worker[v].number = row[e].count + 1
      BY <1>2, <2>1, <2>3, <2>4 DEF PushAttemptSound
    <3> QED
      BY <1>0, <1>4, <2>3, <3>1 DEF PushClaimUnique
  <2> QED
    BY <1>2, <1>3, <2>1, <2>3, <2>4 DEF PushAttemptSound
<1>7. ASSUME NEW c \in Export
      PROVE  ExportClaimsBounded(c)'
  <2>1. c \in Delivery /\ row' = row /\ bounds' = bounds
    BY DEF Delivery, Sends
  <2>2. Attempters(c)' = Attempters(c)
    BY <1>2, <2>1 DEF Attempters
  <2> QED
    BY <2>1, <2>2 DEF ExportClaimsBounded, Unclaimed
<1>8. ASSUME NEW v \in Worker
      PROVE  WorkerSound(v)'
  BY <1>0 DEF Sends, WorkerSound
<1>9. DeliveredWasTaken'
  BY DEF Sends, DeliveredWasTaken
<1> QED
  BY <1>1, <1>5, <1>6, <1>7, <1>8, <1>9

\* The record of a push attempt: it is the next one.
LEMMA RecordedPush ==
  ASSUME ClaimsSound, NEW w \in Worker, Records(w),
         NEW d \in Push, worker[w].at = d
  PROVE  /\ worker[w].number = row[d].count + 1
         /\ row'[d].count = row[d].count + 1
         /\ row'[d].tried = row[d].tried \union {row[d].count + 1}
         /\ row[d].status = "processing"
         /\ row'[d].status = "retrying" => row[d].count + 1 < MaxAttempts
<1>1. d \in Delivery /\ d \notin Export /\ Attempting(w, d)
  BY WebhookAssumption DEF WebhookAssumption, Delivery, Records, Attempting
<1>2. worker[w].number \notin row[d].tried
  BY <1>1 DEF Records, Recordable
<1>3. PushAttemptSound(w, d) /\ PushSound(d) /\ WebhookTypeOK
  BY DEF ClaimsSound
<1>4. worker[w].number \in 1..row[d].count + 1 /\ row[d].tried = 1..row[d].count
  BY <1>1, <1>3 DEF PushAttemptSound, PushSound
<1>5. row[d].count \in Nat
  BY <1>1, <1>3, RowFields
<1>6. worker[w].number = row[d].count + 1
  BY <1>2, <1>4, <1>5
<1>7. row[d].status = "processing"
  BY <1>1, <1>3, <1>6 DEF PushAttemptSound
<1>8. row'[d] = Closed(w)
  BY <1>1 DEF Records
<1>9. /\ Closed(w).count = worker[w].number
      /\ Closed(w).tried = row[d].tried \union {worker[w].number}
      /\ Closed(w).status = "retrying" => worker[w].number < MaxAttempts
  BY <1>3, ClosedPush
<1>10. row'[d].count = row[d].count + 1
  BY <1>6, <1>8, <1>9
<1>11. row'[d].tried = row[d].tried \union {row[d].count + 1}
  BY <1>6, <1>8, <1>9, Zenon
<1>12. row'[d].status = "retrying" => row[d].count + 1 < MaxAttempts
  BY <1>6, <1>8, <1>9
<1> QED
  BY <1>6, <1>7, <1>10, <1>11, <1>12

\* An attempt is recorded.
LEMMA RecordsKeeps ==
  ASSUME ClaimsSound, NEW w \in Worker, Records(w),
         NEW d \in Delivery, worker[w].at = d
  PROVE  ClaimsSound'
<1> USE DEF ClaimsSound
<1>0. d \in Delivery /\ Attempting(w, d)
  BY DEF Records, Attempting
<1>1. WebhookTypeOK'
  BY DEF Records, WebhookTypeOK
<1>2. ASSUME NEW v \in Worker, NEW c \in Delivery, Attempting(v, c)'
      PROVE  /\ Attempting(v, c)
             /\ worker'[v].number = worker[v].number
             /\ worker'[v].pc = "send" => v # w /\ worker[v].pc = "send"
  BY <1>2 DEF Records, Attempting
<1>3. ASSUME NEW c \in Delivery
      PROVE  /\ row[c].count \in Nat /\ posts[c] \in Nat /\ posts'[c] = posts[c]
             /\ c # d => row'[c] = row[c]
  BY <1>0, RowFields DEF Records, WebhookTypeOK
<1>4. /\ row'[d].status \in {"delivered", "dead_letter", "failed", "retrying"}
      /\ row'[d].status = "delivered" => worker[w].result = "ok"
  BY <1>0, ClosedType DEF Records
<1>5. ASSUME d \in Push
      PROVE  /\ worker[w].number = row[d].count + 1
             /\ row'[d].count = row[d].count + 1
             /\ row[d].status = "processing"
             /\ row'[d].status = "retrying" => row[d].count + 1 < MaxAttempts
  BY <1>5, RecordedPush
<1>6. ASSUME NEW e \in Push
      PROVE  PushSound(e)'
  <2>1. e \in Delivery
    BY DEF Delivery
  <2>2. CASE e # d
    BY <1>3, <2>1, <2>2 DEF PushSound
  <2>3. CASE e = d
    <3>1. PushSound(e) /\ row[e].status = "processing"
      BY <1>5, <2>3
    <3>2. /\ row[e].tried = 1..row[e].count /\ row[e].count < MaxAttempts
          /\ posts[e] <= row[e].count + 1
      BY <3>1 DEF PushSound
    <3>3. /\ row'[e].count = row[e].count + 1
          /\ row'[e].tried = row[e].tried \union {row[e].count + 1}
      BY <2>3, RecordedPush
    <3>4. /\ row[e].count \in Nat /\ posts'[e] = posts[e] /\ posts[e] \in Nat
      BY <1>3, <2>1
    <3>5. row'[e].tried = 1..row'[e].count
      <4>1. (1..row[e].count) \union {row[e].count + 1} = 1..row[e].count + 1
        BY <3>4
      <4> QED
        BY <3>2, <3>3, <4>1, Zenon
    <3>6. row'[e].count <= MaxAttempts /\ posts'[e] <= row'[e].count /\ row'[e].count # 0
      BY <3>2, <3>3, <3>4, WebhookAssumption
    <3>7. row'[e].status \in {"delivered", "dead_letter", "failed", "retrying"}
      BY <1>4, <2>3
    <3>8. row'[e].status = "retrying" => row'[e].count < MaxAttempts
      BY <1>5, <2>3, <3>3
    <3>9. /\ row'[e].status # "delivering"
          /\ row'[e].status \in Waiting \union {"processing"} => row'[e].count < MaxAttempts
          /\ row'[e].status # "absent" /\ row'[e].status # "processing"
      BY <3>7, <3>8 DEF Waiting
    <3>10. row'[e].count \in Nat /\ posts'[e] \in Nat
      BY <3>3, <3>4
    <3>11. posts'[e] <= row'[e].count + (IF row'[e].status = "processing" THEN 1 ELSE 0)
      BY <3>6, <3>9, <3>10
    <3> QED
      BY <3>5, <3>6, <3>9, <3>11 DEF PushSound
  <2> QED
    BY <2>2, <2>3
<1>7. ASSUME NEW v \in Worker, NEW e \in Push, Attempting(v, e)'
      PROVE  /\ PushAttemptSound(v, e)'
             /\ e = d => worker'[v].number # row'[e].count + 1
  <2>1. e \in Delivery /\ PushAttemptSound(v, e) /\ Attempting(v, e)
    BY <1>2, <1>7 DEF Delivery
  <2>2. CASE e # d
    BY <1>2, <1>3, <1>7, <2>1, <2>2 DEF PushAttemptSound
  <2>3. CASE e = d
    <3>1. worker[v].number \in 1..row[e].count + 1 /\ worker'[v].number = worker[v].number
          /\ row'[e].count = row[e].count + 1
      <4>1. worker'[v].number = worker[v].number
        BY <1>2, <1>7, <2>1
      <4>2. row'[e].count = row[e].count + 1
        BY <1>5, <2>3
      <4> QED
        BY <2>1, <4>1, <4>2 DEF PushAttemptSound
    <3>2. worker'[v].pc # "send"
      <4>1. SUFFICES ASSUME worker'[v].pc = "send"
                     PROVE  FALSE
        OBVIOUS
      <4>2. v # w /\ worker[v].pc = "send"
        BY <1>2, <1>7, <2>1, <4>1
      <4>3. worker[v].number = row[e].count + 1
        BY <2>1, <4>2 DEF PushAttemptSound
      <4>4. worker[w].number = row[e].count + 1 /\ Attempting(w, e)
        BY <1>0, <1>5, <2>3
      <4> QED
        BY <2>1, <4>2, <4>3, <4>4 DEF PushClaimUnique
    <3>3. row[e].count \in Nat
      BY <1>3, <2>1
    <3> QED
      BY <3>1, <3>2, <3>3 DEF PushAttemptSound
  <2> QED
    BY <2>2, <2>3
<1>8. ASSUME NEW v \in Worker, NEW e \in Push
      PROVE  PushAttemptSound(v, e)'
  BY <1>7 DEF PushAttemptSound
<1>9. ASSUME NEW e \in Push
      PROVE  PushClaimUnique(e)'
  <2>1. SUFFICES ASSUME NEW u \in Worker, NEW v \in Worker,
                        Attempting(u, e)', worker'[u].number = row'[e].count + 1,
                        Attempting(v, e)', worker'[v].number = row'[e].count + 1
                 PROVE  u = v
    BY DEF PushClaimUnique
  <2>2. e \in Delivery /\ e # d
    BY <1>7, <2>1 DEF Delivery
  <2> QED
    BY <1>2, <1>3, <2>1, <2>2 DEF PushClaimUnique
<1>10. ASSUME NEW c \in Export
       PROVE  ExportClaimsBounded(c)'
  <2>1. c \in Delivery /\ bounds.late \in Nat
    BY WebhookAssumption DEF Delivery, WebhookTypeOK
  <2>2. Attempters(c)' \subseteq Attempters(c)
    BY <1>2, <2>1 DEF Attempters
  <2>3. Cardinality(Attempters(c)') <= Cardinality(Attempters(c))
        /\ Cardinality(Attempters(c)') \in Nat /\ Cardinality(Attempters(c)) \in Nat
    BY <2>2, WorkerSets, AttemptersAreWorkers
  <2>4. CASE c # d
    <3>1. Unclaimed(c)' <=> Unclaimed(c)
      BY <1>3, <2>1, <2>4 DEF Unclaimed
    <3>2. bounds'.late \in {bounds.late, bounds.late + 1}
      BY DEF Records
    <3> QED
      BY <2>1, <2>3, <3>1, <3>2 DEF ExportClaimsBounded
  <2>5. CASE c = d /\ worker'[w].pc \in {"idle", "sweep"}
    <3>1. Attempters(c)' \subseteq Attempters(c) \ {w} /\ w \in Attempters(c)
      BY <1>0, <2>2, <2>5 DEF Attempters, Attempting
    <3>2. Cardinality(Attempters(c)') <= Cardinality(Attempters(c)) - 1
      BY <3>1, WorkerSets, AttemptersAreWorkers
    <3>3. bounds'.late \in {bounds.late, bounds.late + 1}
      BY DEF Records
    <3> QED
      BY <2>1, <2>3, <3>2, <3>3 DEF ExportClaimsBounded
  <2>6. CASE c = d /\ bounds'.late = bounds.late + 1
    BY <2>1, <2>3, <2>6 DEF ExportClaimsBounded
  <2> QED
    BY <2>4, <2>5, <2>6 DEF Records
<1>11. ASSUME NEW v \in Worker
       PROVE  WorkerSound(v)'
  BY DEF Records, WorkerSound
<1>12. DeliveredWasTaken'
  <2>1. SUFFICES ASSUME NEW c \in Delivery, row'[c].status = "delivered"
                 PROVE  c \in taken
    BY DEF DeliveredWasTaken, Records
  <2>2. CASE c # d
    BY <1>3, <2>1, <2>2 DEF DeliveredWasTaken
  <2>3. CASE c = d
    BY <1>4, <2>1, <2>3 DEF WorkerSound, Records
  <2> QED
    BY <2>2, <2>3
<1> QED
  BY <1>1, <1>6, <1>8, <1>9, <1>10, <1>11, <1>12

\* A step that changes one row, and neither sends nor claims anything.
LEMMA RowStepKeeps ==
  ASSUME ClaimsSound, NEW d \in Delivery, NEW new \in Row,
         row' = [row EXCEPT ![d] = new], UNCHANGED <<active, worker, posts, taken>>,
         bounds' \in [faults : 0..MaxFaults, late : 0..MaxLate, toggles : 0..MaxToggles],
         new.status = "delivered" => row[d].status = "delivered",
         d \in Push => /\ new.count = row[d].count /\ new.tried = row[d].tried
                       /\ new.status = row[d].status \/ (row[d].status = "absent" /\ new.status = "pending"),
         bounds'.late >= bounds.late,
         d \in Export => \/ ~ new.stale /\ new.status = "delivering"
                         \/ new.stale = row[d].stale /\ new.status = row[d].status
                         \/ Attempters(d) = {}
                         \/ bounds'.late = bounds.late + 1
  PROVE  ClaimsSound'
<1> USE DEF ClaimsSound
<1>1. WebhookTypeOK'
  BY DEF WebhookTypeOK
<1>2. row'[d] = new /\ \A c \in Delivery \ {d} : row'[c] = row[c]
  BY DEF WebhookTypeOK
<1>3. ASSUME NEW e \in Push
      PROVE  /\ e \in Delivery /\ row'[e].count = row[e].count /\ row'[e].tried = row[e].tried
             /\ \/ row'[e].status = row[e].status
                \/ row[e].status = "absent" /\ row'[e].status = "pending"
             /\ row[e].count \in Nat /\ posts[e] \in Nat
  <2>1. e \in Delivery
    BY DEF Delivery
  <2>2. row[e].count \in Nat /\ posts[e] \in Nat
    BY <2>1, RowFields DEF WebhookTypeOK
  <2>3. CASE e = d
    <3>1. d \in Push /\ row'[e] = new /\ row[e] = row[d]
      BY <1>2, <2>3
    <3>2. /\ new.count = row[d].count /\ new.tried = row[d].tried
          /\ new.status = row[d].status \/ (row[d].status = "absent" /\ new.status = "pending")
      BY <3>1
    <3> HIDE DEF ClaimsSound
    <3> QED
      BY <2>1, <2>2, <3>1, <3>2, Zenon
  <2>4. CASE e # d
    <3>1. row'[e] = row[e]
      BY <1>2, <2>1, <2>4
    <3> QED
      BY <2>1, <2>2, <3>1
  <2> QED
    BY <2>3, <2>4
<1>4. ASSUME NEW e \in Push
      PROVE  PushSound(e)'
  <2>0. PushSound(e)
    OBVIOUS
  <2>1. CASE row'[e].status = row[e].status
    <3>1. /\ row'[e].count = row[e].count /\ row'[e].tried = row[e].tried /\ posts'[e] = posts[e]
      BY <1>3
    <3> QED
      BY <2>0, <2>1, <3>1, Zenon DEF PushSound
  <2>2. CASE row[e].status = "absent" /\ row'[e].status = "pending"
    <3>1. /\ row'[e].count = row[e].count /\ row'[e].tried = row[e].tried /\ posts'[e] = posts[e]
      BY <1>3
    <3>2. /\ row[e].count = 0 /\ row[e].tried = 1..row[e].count
          /\ posts[e] <= row[e].count + (IF row[e].status = "processing" THEN 1 ELSE 0)
      BY <2>0, <2>2 DEF PushSound
    <3>3. posts'[e] <= row'[e].count + (IF row'[e].status = "processing" THEN 1 ELSE 0)
      BY <1>3, <2>2, <3>1, <3>2
    <3>4. row'[e].tried = 1..row'[e].count
      BY <3>1, <3>2, Zenon
    <3>5. row'[e].count = 0 /\ row'[e].count < MaxAttempts /\ row'[e].count <= MaxAttempts
      BY <3>1, <3>2, WebhookAssumption
    <3> QED
      BY <2>2, <3>3, <3>4, <3>5 DEF PushSound
  <2> QED
    BY <1>3, <2>1, <2>2
<1>5. ASSUME NEW e \in Push
      PROVE  PushClaimUnique(e)'
  BY <1>3 DEF PushClaimUnique, Attempting
<1>6. ASSUME NEW v \in Worker, NEW e \in Push
      PROVE  PushAttemptSound(v, e)'
  BY <1>3 DEF PushAttemptSound, Attempting
<1>7. ASSUME NEW c \in Export
      PROVE  ExportClaimsBounded(c)'
  <2>1. /\ c \in Delivery /\ bounds.late \in Nat /\ bounds'.late \in Nat
        /\ Attempters(c)' = Attempters(c)
    BY WebhookAssumption DEF Delivery, WebhookTypeOK, Attempters, Attempting
  <2>2. Cardinality(Attempters(c)) \in Nat
    BY WorkerSets, AttemptersAreWorkers
  <2>3. CASE Unclaimed(c)' => Unclaimed(c)
    BY <2>1, <2>2, <2>3 DEF ExportClaimsBounded
  <2>4. CASE c = d /\ Attempters(c) = {}
    BY <2>1, <2>4, WorkerSets, AttemptersAreWorkers DEF ExportClaimsBounded
  <2>5. CASE c = d /\ bounds'.late = bounds.late + 1
    BY <2>1, <2>2, <2>5 DEF ExportClaimsBounded
  <2> QED
    BY <1>2, <2>1, <2>3, <2>4, <2>5 DEF Unclaimed
<1>8. ASSUME NEW v \in Worker
      PROVE  WorkerSound(v)'
  BY DEF WorkerSound
<1>9. DeliveredWasTaken'
  BY <1>2 DEF DeliveredWasTaken
<1> QED
  BY <1>1, <1>4, <1>5, <1>6, <1>7, <1>8, <1>9

\* Queueing and the passing of time are such steps.
LEMMA RowStepsKeep ==
  ASSUME ClaimsSound,
         \/ \E e \in Push : Enqueue(e)
         \/ \E d \in Delivery : FallsDue(d)
         \/ \E d \in Export : GoesStale(d) \/ OutlivesClaim(d)
  PROVE  ClaimsSound'
<1>0. WebhookTypeOK
  BY DEF ClaimsSound
<1>1. ASSUME NEW e \in Push, Enqueue(e)
      PROVE  ClaimsSound'
  <2> DEFINE new == [NoRow EXCEPT !.status = "pending", !.due = TRUE]
  <2>1. /\ new \in Row /\ new.status = "pending" /\ new.count = 0 /\ new.tried = {}
    BY DEF NoRow, Row, Statuses, Waiting
  <2>2. /\ row' = [row EXCEPT ![e] = new] /\ row[e].status = "absent"
        /\ UNCHANGED <<active, worker, posts, taken, bounds>>
    BY <1>1 DEF Enqueue
  <2> HIDE DEF new
  <2>3. e \in Delivery /\ e \notin Export
    BY WebhookAssumption DEF Delivery, WebhookAssumption
  <2>4. row[e].count = 0 /\ row[e].tried = {}
    <3>1. PushSound(e)
      BY DEF ClaimsSound
    <3>2. row[e].count = 0 /\ row[e].tried = 1..row[e].count
      BY <2>2, <3>1 DEF PushSound
    <3> QED
      BY <3>2
  <2>5. bounds \in [faults : 0..MaxFaults, late : 0..MaxLate, toggles : 0..MaxToggles]
        /\ bounds.late >= bounds.late
    BY <1>0, WebhookAssumption DEF WebhookTypeOK
  <2> QED
    BY <2>1, <2>2, <2>3, <2>4, <2>5, RowStepKeeps
<1>2. ASSUME NEW d \in Delivery, FallsDue(d)
      PROVE  ClaimsSound'
  <2> DEFINE new == [row[d] EXCEPT !.due = TRUE]
  <2>1. /\ new \in Row /\ new.status = row[d].status /\ new.count = row[d].count
        /\ new.tried = row[d].tried /\ new.stale = row[d].stale
    BY <1>0, RowFields DEF Row
  <2>2. row' = [row EXCEPT ![d] = new] /\ UNCHANGED <<active, worker, posts, taken, bounds>>
    BY <1>2 DEF FallsDue
  <2> HIDE DEF new
  <2>3. bounds \in [faults : 0..MaxFaults, late : 0..MaxLate, toggles : 0..MaxToggles]
        /\ bounds.late >= bounds.late
    BY <1>0, WebhookAssumption DEF WebhookTypeOK
  <2> QED
    BY <2>1, <2>2, <2>3, RowStepKeeps
<1>3. ASSUME NEW d \in Export, GoesStale(d) \/ OutlivesClaim(d)
      PROVE  ClaimsSound'
  <2> DEFINE new == [row[d] EXCEPT !.stale = TRUE]
  <2>1. d \in Delivery /\ d \notin Push
    BY WebhookAssumption DEF Delivery, WebhookAssumption
  <2>2. /\ new \in Row /\ new.status = row[d].status
    BY <1>0, <2>1, RowFields DEF Row
  <2>3. row' = [row EXCEPT ![d] = new] /\ UNCHANGED <<active, worker, posts, taken>>
    BY <1>3 DEF GoesStale, OutlivesClaim, Stales
  <2> HIDE DEF new
  <2>4. bounds.late \in Nat
        /\ bounds \in [faults : 0..MaxFaults, late : 0..MaxLate, toggles : 0..MaxToggles]
    BY <1>0, WebhookAssumption DEF WebhookTypeOK
  <2>5. CASE GoesStale(d)
    <3>1. bounds' = bounds /\ Attempters(d) = {}
      BY <2>5 DEF GoesStale, Attempters
    <3>2. bounds'.late >= bounds.late
      BY <2>4, <3>1
    <3> QED
      BY <2>1, <2>2, <2>3, <2>4, <3>1, <3>2, RowStepKeeps
  <2>6. CASE OutlivesClaim(d)
    <3>1. bounds'.late = bounds.late + 1
          /\ bounds' \in [faults : 0..MaxFaults, late : 0..MaxLate, toggles : 0..MaxToggles]
      BY <1>0, <2>6, SpendType DEF OutlivesClaim
    <3>2. bounds'.late >= bounds.late
      BY <2>4, <3>1
    <3> QED
      BY <2>1, <2>2, <2>3, <2>4, <3>1, <3>2, RowStepKeeps
  <2> QED
    BY <1>3, <2>5, <2>6
<1> QED
  BY <1>1, <1>2, <1>3

\* Activating and deactivating a subscription touches no delivery.
LEMMA ToggleKeeps ==
  ASSUME ClaimsSound, NEW e \in Push, Toggle(e)
  PROVE  ClaimsSound'
<1> USE DEF ClaimsSound
<1>1. /\ bounds' \in [faults : 0..MaxFaults, late : 0..MaxLate, toggles : 0..MaxToggles]
      /\ bounds'.late = bounds.late
      /\ active' \in [Push -> BOOLEAN]
      /\ UNCHANGED <<row, worker, posts, taken>>
  BY WebhookAssumption DEF WebhookTypeOK, Toggle
<1>2. WebhookTypeOK'
  BY <1>1 DEF WebhookTypeOK
<1>3. \A x \in Push : PushSound(x)' /\ PushClaimUnique(x)'
  BY <1>1 DEF PushSound, PushClaimUnique, Attempting
<1>4. \A v \in Worker, x \in Push : PushAttemptSound(v, x)'
  BY <1>1 DEF PushAttemptSound, Attempting
<1>5. ASSUME NEW d \in Export
      PROVE  ExportClaimsBounded(d)'
  <2>1. Attempters(d)' = Attempters(d) /\ (Unclaimed(d)' <=> Unclaimed(d))
    BY <1>1 DEF Attempters, Attempting, Unclaimed
  <2> QED
    BY <1>1, <2>1 DEF ExportClaimsBounded
<1>6. (\A v \in Worker : WorkerSound(v)') /\ DeliveredWasTaken'
  BY <1>1 DEF WorkerSound, DeliveredWasTaken
<1> QED
  BY <1>2, <1>3, <1>4, <1>5, <1>6

\* Nothing happening changes nothing.
LEMMA StutterKeeps ==
  ASSUME ClaimsSound, UNCHANGED webhookVars
  PROVE  ClaimsSound'
BY DEF webhookVars, ClaimsSound, WebhookTypeOK, PushSound, PushClaimUnique, PushAttemptSound,
       ExportClaimsBounded, Attempters, Attempting, Unclaimed, WorkerSound, DeliveredWasTaken

\* The invariant holds at the start,
LEMMA ClaimsSoundInit == WebhookInit => ClaimsSound
<1> SUFFICES ASSUME WebhookInit
             PROVE  ClaimsSound
  OBVIOUS
<1>1. NoRow \in Row /\ NoRow.status = "absent" /\ NoRow.count = 0 /\ NoRow.tried = {}
  BY DEF NoRow, Row, Statuses
<1>2. /\ \A d \in Delivery : row[d] = NoRow /\ posts[d] = 0
      /\ \A w \in Worker : worker[w].pc = "idle"
      /\ bounds.late = 0 /\ taken = {}
  BY IdleType DEF WebhookInit
<1>3. WebhookTypeOK
  BY <1>1, IdleType, WebhookAssumption DEF WebhookInit, WebhookTypeOK
<1>4. ASSUME NEW e \in Push
      PROVE  PushSound(e) /\ PushClaimUnique(e)
  <2>1. row[e] = NoRow /\ posts[e] = 0
    BY <1>2 DEF Delivery
  <2>2. 1..0 = {}
    OBVIOUS
  <2>3. row[e].tried = 1..row[e].count
    BY <1>1, <2>1, <2>2, Zenon
  <2>4. row[e].count = 0 /\ row[e].status = "absent" /\ MaxAttempts \in Nat
    BY <1>1, <2>1, WebhookAssumption
  <2>5. PushSound(e)
    BY <2>1, <2>3, <2>4 DEF PushSound, Waiting
  <2> QED
    BY <1>2, <2>5 DEF PushClaimUnique, Attempting
<1>5. \A w \in Worker, e \in Push : PushAttemptSound(w, e)
  BY <1>2 DEF PushAttemptSound, Attempting
<1>6. ASSUME NEW d \in Export
      PROVE  ExportClaimsBounded(d)
  <2>1. Attempters(d) = {}
    BY <1>2 DEF Attempters, Attempting
  <2>2. Cardinality(Attempters(d)) = 0
    BY <2>1, FS_EmptySet
  <2> QED
    BY <1>2, <2>2 DEF ExportClaimsBounded
<1>7. (\A w \in Worker : WorkerSound(w)) /\ DeliveredWasTaken
  BY <1>1, <1>2 DEF WorkerSound, DeliveredWasTaken
<1> QED
  BY <1>3, <1>4, <1>5, <1>6, <1>7 DEF ClaimsSound

\* ... and every step keeps it.
LEMMA ClaimsSoundStep == ClaimsSound /\ [WebhookNext]_webhookVars => ClaimsSound'
<1> SUFFICES ASSUME ClaimsSound, [WebhookNext]_webhookVars
             PROVE  ClaimsSound'
  OBVIOUS
<1>0. WebhookTypeOK
  BY DEF ClaimsSound
<1>1. CASE \/ \E e \in Push : Enqueue(e)
           \/ \E d \in Delivery : FallsDue(d)
           \/ \E d \in Export : GoesStale(d) \/ OutlivesClaim(d)
  BY <1>1, RowStepsKeep
<1>2. ASSUME NEW w \in Worker, NEW d \in Export, StartDelivery(w, d)
      PROVE  ClaimsSound'
  <2>1. Begins(w, d) /\ row[d].status = "absent"
    BY <1>0, <1>2, StartBegins
  <2>2. d \in Delivery /\ d \notin Push /\ Unclaimed(d)
    BY <2>1, WebhookAssumption DEF Delivery, WebhookAssumption, Unclaimed
  <2> QED
    BY <2>1, <2>2, BeginsKeeps
<1>3. ASSUME NEW e \in Push, Toggle(e)
      PROVE  ClaimsSound'
  BY <1>3, ToggleKeeps
<1>4. ASSUME NEW w \in Worker, NEW d \in Delivery, Claim(w, d)
      PROVE  ClaimsSound'
  <2>1. /\ Begins(w, d)
        /\ d \in Push => DuePush(d)
        /\ d \in Export => DueExport(d)
    BY <1>0, <1>4, ClaimBegins
  <2>2. d \in Export => Unclaimed(d)
    BY <2>1 DEF DueExport, Unclaimed, Waiting
  <2> QED
    BY <2>1, <2>2, BeginsKeeps
<1>5. ASSUME NEW w \in Worker,
             \/ Tick(w) \/ NextQueue(w) \/ NotSent(w) \/ RecordRejected(w)
             \/ RecordFails(w) \/ AttemptBreaks(w) \/ Crash(w)
      PROVE  ClaimsSound'
  BY <1>0, <1>5, QuietSteps, QuietKeeps
<1>6. ASSUME NEW w \in Worker, Post(w)
      PROVE  ClaimsSound'
  BY <1>0, <1>6, PostSends, SendsKeeps
<1>7. ASSUME NEW w \in Worker, Record(w) \/ RecordUnconfirmed(w)
      PROVE  ClaimsSound'
  <2>1. WorkerSound(w) /\ worker[w].pc = "record"
    BY <1>7 DEF ClaimsSound, Record, RecordUnconfirmed
  <2>2. worker[w].at \in Delivery
    BY <2>1 DEF WorkerSound
  <2>3. Records(w)
    BY <1>0, <1>7, <2>2, RecordSteps
  <2> QED
    BY <2>2, <2>3, RecordsKeeps
<1>8. CASE UNCHANGED webhookVars
  BY <1>8, StutterKeeps
<1> QED
  BY <1>1, <1>2, <1>3, <1>4, <1>5, <1>6, <1>7, <1>8 DEF WebhookNext, Work, Fault

-----------------------------------------------------------------------------
(* How often an export delivery may still be attempted *)

\* The hopeful are attempters.
LEMMA HopefulAreWorkers ==
  ASSUME NEW d
  PROVE  /\ Hopeful(d) \subseteq Attempters(d) /\ Hopeful(d) \in SUBSET Worker
         /\ Hopeful(d)' \subseteq Attempters(d)' /\ Hopeful(d)' \in SUBSET Worker
BY DEF Hopeful, Attempters

\* The bound on late attempts counts them.
LEMMA LateIsNumber ==
  /\ WebhookTypeOK => bounds.late \in Nat
  /\ WebhookTypeOK' => bounds'.late \in Nat
BY WebhookAssumption DEF WebhookTypeOK

\* Room is kept where nobody begins and nothing is counted: attempts may be given up, and the
\* delivery may become free for another when they are, or when one is late.
LEMMA RoomKept ==
  ASSUME ClaimsSound, ClaimsSound', NEW d \in Export, ExportRoom(d),
         row'[d].count = row[d].count, row'[d].status = "absent" => row[d].status = "absent",
         Attempters(d)' \subseteq Attempters(d), Hopeful(d)' \subseteq Hopeful(d),
         bounds'.late >= bounds.late,
         \/ Reclaimable(d)' => Reclaimable(d)
         \/ Attempters(d)' # Attempters(d)
         \/ bounds'.late >= bounds.late + 1
  PROVE  ExportRoom(d)'
<1> DEFINE a == Cardinality(Attempters(d))
           b == Cardinality(Attempters(d)')
           g == Cardinality(Hopeful(d))
           h == Cardinality(Hopeful(d)')
<1>1. /\ bounds.late \in Nat /\ bounds'.late \in Nat /\ row[d].count \in Nat
      /\ MaxAttempts \in Nat
  BY LateIsNumber, RowFields, WebhookAssumption DEF ClaimsSound, Delivery
<1>2. /\ a \in Nat /\ b \in Nat /\ g \in Nat /\ h \in Nat
      /\ b <= a /\ h <= g
  BY WorkerSets, AttemptersAreWorkers, HopefulAreWorkers
<1>3. Attempters(d)' # Attempters(d) => b <= a - 1
  <2> SUFFICES ASSUME Attempters(d)' # Attempters(d) PROVE b <= a - 1
    OBVIOUS
  <2>1. PICK w \in Attempters(d) : Attempters(d)' \subseteq Attempters(d) \ {w}
    OBVIOUS
  <2> QED
    BY <2>1, WorkerSets, AttemptersAreWorkers
<1>4. row[d].count + a + g + (IF Reclaimable(d) THEN 1 ELSE 0) <= MaxAttempts + 2 * bounds.late
  BY DEF ExportRoom
<1> HIDE DEF a, b, g, h
<1>5. row'[d].count + b + h + (IF Reclaimable(d)' THEN 1 ELSE 0) <= MaxAttempts + 2 * bounds'.late
  <2>1. CASE Reclaimable(d)' => Reclaimable(d)
    BY <1>1, <1>2, <1>4, <2>1
  <2>2. CASE b <= a - 1
    BY <1>1, <1>2, <1>4, <2>2
  <2>3. CASE bounds'.late >= bounds.late + 1
    BY <1>1, <1>2, <1>4, <2>3
  <2> QED
    BY <1>3, <2>1, <2>2, <2>3
<1> QED
  BY <1>5 DEF ExportRoom, b, h

\* ... so it is where the row stays, and the attempters of the delivery are no others.
LEMMA RoomAsBefore ==
  ASSUME ClaimsSound, ClaimsSound', NEW d \in Export, ExportRoom(d), row'[d] = row[d],
         \A v \in Worker : Attempting(v, d)' => /\ Attempting(v, d)
                                               /\ worker'[v].number = worker[v].number,
         bounds'.late >= bounds.late
  PROVE  ExportRoom(d)'
<1>1. Attempters(d)' \subseteq Attempters(d)
  BY DEF Attempters
<1>2. Hopeful(d)' \subseteq Hopeful(d)
  BY DEF Hopeful, Attempters
<1>3. (Reclaimable(d)' => Reclaimable(d)) \/ Attempters(d)' # Attempters(d)
  BY DEF Reclaimable, Unclaimed
<1> QED
  BY <1>1, <1>2, <1>3, RoomKept

\* An attempt that begins takes the room of the delivery's being free, or is early enough.
LEMMA RoomBegins ==
  ASSUME ClaimsSound, ClaimsSound', NEW w \in Worker, NEW d \in Delivery, Begins(w, d),
         d \in Export => /\ Unclaimed(d) /\ row[d].status \notin Ended
                         /\ worker'[w].number = row[d].count + 1
                         /\ row'[d].count = row[d].count,
         NEW c \in Export, ExportRoom(c)
  PROVE  ExportRoom(c)'
<1>1. c \in Delivery /\ c \notin Push
  BY WebhookAssumption DEF Delivery, WebhookAssumption
<1>2. /\ worker[w].pc \in {"idle", "sweep"}
      /\ \A v \in Worker \ {w} : worker'[v] = worker[v]
      /\ worker'[w].pc \in {"send", "record"} /\ worker'[w].at = d
      /\ bounds' = bounds /\ bounds.late \in Nat
  BY LateIsNumber DEF Begins, ClaimsSound
<1>3. CASE c # d
  <2>1. row'[c] = row[c] /\ bounds'.late >= bounds.late
    BY <1>1, <1>2, <1>3 DEF Begins
  <2>2. \A v \in Worker : Attempting(v, c)' => /\ Attempting(v, c)
                                              /\ worker'[v].number = worker[v].number
    BY <1>2, <1>3 DEF Attempting
  <2> QED
    BY <2>1, <2>2, RoomAsBefore
<1>4. CASE c = d
  <2> DEFINE a == Cardinality(Attempters(c))
             b == Cardinality(Attempters(c)')
             g == Cardinality(Hopeful(c))
             h == Cardinality(Hopeful(c)')
  <2>1. /\ row'[c].status = "delivering" /\ row'[c].stale = FALSE
        /\ row'[c].count = row[c].count /\ worker'[w].number = row[c].count + 1
        /\ row[c].status \notin Ended /\ Unclaimed(c)
    BY <1>1, <1>4 DEF Begins
  <2>2. /\ w \in Attempters(c)' /\ Attempters(c)' \subseteq Attempters(c) \union {w}
        /\ Hopeful(c)' \subseteq Hopeful(c) \union {w}
        /\ worker'[w].number >= MaxAttempts => Hopeful(c)' \subseteq Hopeful(c)
    <3>1. w \in Attempters(c)' /\ Attempters(c)' \subseteq Attempters(c) \union {w}
      BY <1>2, <1>4 DEF Attempters, Attempting
    <3>2. Hopeful(c)' \subseteq Hopeful(c) \union {w}
      BY <1>2, <1>4 DEF Hopeful, Attempters, Attempting
    <3>3. worker'[w].number >= MaxAttempts => w \notin Hopeful(c)'
      <4>1. worker'[w].number \in Nat /\ MaxAttempts \in Nat
        BY WebhookAssumption DEF ClaimsSound, WebhookTypeOK, WorkerState
      <4> QED
        BY <4>1 DEF Hopeful
    <3> QED
      BY <3>1, <3>2, <3>3
  <2>3. /\ a \in Nat /\ b \in Nat /\ g \in Nat /\ h \in Nat
        /\ b <= a + 1 /\ h <= b
        /\ worker'[w].number >= MaxAttempts => h <= g
    BY <2>2, WorkerSets, AttemptersAreWorkers, HopefulAreWorkers
  <2>4. Reclaimable(c) /\ ~ Reclaimable(c)'
    BY <2>1, <2>2 DEF Reclaimable, Unclaimed
  <2>5. row[c].count + a + g + 1 <= MaxAttempts + 2 * bounds.late
    BY <2>4 DEF ExportRoom
  <2>6. b <= 1 + bounds.late
    <3>1. ~ Unclaimed(c)' /\ ExportClaimsBounded(c)'
      BY <2>1 DEF Unclaimed, ClaimsSound
    <3> QED
      BY <1>2, <2>3, <3>1 DEF ExportClaimsBounded
  <2>7. row[c].count \in Nat /\ MaxAttempts \in Nat
    BY <1>1, RowFields, WebhookAssumption DEF ClaimsSound
  <2> HIDE DEF a, b, g, h
  <2>8. row'[c].count + b + h <= MaxAttempts + 2 * bounds'.late
    <3>1. CASE row[c].count + 1 >= MaxAttempts
      BY <1>2, <2>1, <2>3, <2>5, <2>7, <3>1
    <3>2. CASE row[c].count + 1 < MaxAttempts
      BY <1>2, <2>1, <2>3, <2>6, <2>7, <3>2
    <3> QED
      BY <2>7, <3>1, <3>2
  <2>9. row'[c].count + b + h + (IF Reclaimable(c)' THEN 1 ELSE 0)
          <= MaxAttempts + 2 * bounds'.late
    <3>1. row'[c].count + b + h \in Nat
      BY <2>1, <2>3, <2>7
    <3> QED
      BY <2>4, <2>8, <3>1
  <2> QED
    BY <2>1, <2>9 DEF ExportRoom, b, h
<1> QED
  BY <1>3, <1>4

\* An attempt that is recorded leaves its room to be counted in, and that of its hope to be
\* taken again; a late one brings room for both.
LEMMA RoomRecords ==
  ASSUME ClaimsSound, ClaimsSound', NEW w \in Worker, Records(w), worker[w].at \in Delivery,
         NEW d \in Export, ExportRoom(d)
  PROVE  ExportRoom(d)'
<1>1. /\ d \in Delivery /\ d \notin Push /\ MaxAttempts \in Nat
      /\ bounds.late \in Nat /\ bounds'.late \in Nat
      /\ row[d].count \in Nat /\ WebhookTypeOK
  BY WebhookAssumption, LateIsNumber, RowFields DEF Delivery, WebhookAssumption, ClaimsSound
<1>2. \A v \in Worker : Attempting(v, d)' => /\ Attempting(v, d)
                                            /\ worker'[v].number = worker[v].number
  BY DEF Records, Attempting
<1>3. bounds'.late = bounds.late \/ bounds'.late = bounds.late + 1
  BY DEF Records
<1>4. CASE worker[w].at # d
  <2>1. row'[d] = row[d]
    BY <1>1, <1>4 DEF Records
  <2>2. bounds'.late >= bounds.late
    BY <1>1, <1>3
  <2> QED
    BY <1>2, <2>1, <2>2, RoomAsBefore
<1>5. CASE worker[w].at = d
  <2> DEFINE a == Cardinality(Attempters(d))
             b == Cardinality(Attempters(d)')
             g == Cardinality(Hopeful(d))
             h == Cardinality(Hopeful(d)')
             free  == IF Reclaimable(d) THEN 1 ELSE 0
             free2 == IF Reclaimable(d)' THEN 1 ELSE 0
  <2>1. /\ row'[d].count = row[d].count + 1
        /\ row'[d].status \in {"delivered", "failed", "retrying"}
        /\ row'[d].status = "retrying" => worker[w].number < MaxAttempts
    BY <1>1, <1>5, ClosedExport DEF Records
  <2>2. Attempters(d)' \subseteq Attempters(d) /\ Hopeful(d)' \subseteq Hopeful(d)
    BY <1>2 DEF Attempters, Hopeful
  <2>3. /\ w \in Attempters(d)
        /\ row'[d].status = "retrying" => w \in Hopeful(d)
    BY <1>5, <2>1 DEF Records, Attempters, Attempting, Hopeful
  <2>4. /\ a \in Nat /\ b \in Nat /\ g \in Nat /\ h \in Nat /\ b <= a /\ h <= g
    BY <2>2, WorkerSets, AttemptersAreWorkers, HopefulAreWorkers
  <2>5. row[d].count + a + g + free <= MaxAttempts + 2 * bounds.late
    BY DEF ExportRoom
  <2>6. free \in 0..1 /\ free2 \in 0..1 /\ (row'[d].status # "retrying" => free2 = 0)
    BY <2>1 DEF Reclaimable, Ended
  <2>7. bounds'.late = bounds.late => b <= a - 1 /\ (row'[d].status = "retrying" => h <= g - 1)
    <3> SUFFICES ASSUME bounds'.late = bounds.late
                 PROVE  b <= a - 1 /\ (row'[d].status = "retrying" => h <= g - 1)
      OBVIOUS
    <3>1. worker'[w].pc \in {"idle", "sweep"}
      BY <1>1 DEF Records
    <3>2. w \notin Attempters(d)' /\ w \notin Hopeful(d)'
      BY <3>1 DEF Attempters, Hopeful, Attempting
    <3>3. /\ Attempters(d)' \subseteq Attempters(d) \ {w}
          /\ Hopeful(d)' \subseteq Hopeful(d) \ {w}
      BY <2>2, <3>2
    <3> QED
      BY <2>3, <3>3, WorkerSets, AttemptersAreWorkers, HopefulAreWorkers
  <2> HIDE DEF a, b, g, h, free, free2
  <2>8. row'[d].count + b + h + free2 <= MaxAttempts + 2 * bounds'.late
    <3>1. CASE bounds'.late = bounds.late + 1
      BY <1>1, <2>1, <2>4, <2>5, <2>6, <3>1
    <3>2. CASE bounds'.late = bounds.late /\ row'[d].status = "retrying"
      BY <1>1, <2>1, <2>4, <2>5, <2>6, <2>7, <3>2
    <3>3. CASE bounds'.late = bounds.late /\ row'[d].status # "retrying"
      BY <1>1, <2>1, <2>4, <2>5, <2>6, <2>7, <3>3
    <3> QED
      BY <1>3, <3>1, <3>2, <3>3
  <2> QED
    BY <2>1, <2>8 DEF ExportRoom, b, h, free2
<1> QED
  BY <1>4, <1>5

\* The passing of time leaves room.
LEMMA RoomInTime ==
  ASSUME ClaimsSound, ClaimsSound', NEW d \in Delivery,
         FallsDue(d) \/ (d \in Export /\ (GoesStale(d) \/ OutlivesClaim(d))),
         NEW c \in Export, ExportRoom(c)
  PROVE  ExportRoom(c)'
<1>1. /\ c \in Delivery /\ row \in [Delivery -> Row] /\ WebhookTypeOK
      /\ bounds.late \in Nat /\ bounds'.late \in Nat
  BY LateIsNumber DEF Delivery, ClaimsSound, WebhookTypeOK
<1>2. Attempters(c)' = Attempters(c) /\ Hopeful(c)' = Hopeful(c)
  <2>1. worker' = worker
    BY DEF FallsDue, GoesStale, OutlivesClaim, Stales
  <2> QED
    BY <2>1 DEF Attempters, Hopeful, Attempting
<1>3. CASE FallsDue(d)
  <2> DEFINE new == [row[d] EXCEPT !.due = TRUE]
  <2>1. row' = [row EXCEPT ![d] = new] /\ bounds' = bounds
    BY <1>3 DEF FallsDue
  <2>2. new.status = row[d].status /\ new.count = row[d].count /\ new.stale = row[d].stale
    BY <1>1 DEF Row
  <2> HIDE DEF new
  <2>3. /\ row'[c].status = row[c].status /\ row'[c].count = row[c].count
        /\ row'[c].stale = row[c].stale
    BY <1>1, <2>1, <2>2
  <2>4. Reclaimable(c)' => Reclaimable(c)
    BY <1>2, <2>3 DEF Reclaimable, Unclaimed
  <2> QED
    BY <1>1, <1>2, <2>1, <2>3, <2>4, RoomKept
<1>4. CASE d \in Export /\ (GoesStale(d) \/ OutlivesClaim(d))
  <2> DEFINE new == [row[d] EXCEPT !.stale = TRUE]
  <2>1. row' = [row EXCEPT ![d] = new] /\ row[d].status = "delivering"
    BY <1>4 DEF GoesStale, OutlivesClaim, Stales
  <2>2. new.status = row[d].status /\ new.count = row[d].count
    BY <1>1 DEF Row
  <2> HIDE DEF new
  <2>3. /\ row'[c].status = row[c].status /\ row'[c].count = row[c].count
        /\ c # d => row'[c] = row[c]
    BY <1>1, <2>1, <2>2
  <2>4. CASE GoesStale(d)
    <3>1. bounds' = bounds /\ Attempters(d) = {}
      BY <2>4 DEF GoesStale, Attempters
    <3>2. Reclaimable(c)' => Reclaimable(c)
      <4>1. CASE c = d
        BY <2>1, <3>1, <4>1 DEF Reclaimable, Ended
      <4>2. CASE c # d
        BY <1>2, <2>3, <4>2 DEF Reclaimable, Unclaimed
      <4> QED
        BY <4>1, <4>2
    <3> QED
      BY <1>1, <1>2, <2>3, <3>1, <3>2, RoomKept
  <2>5. CASE OutlivesClaim(d)
    <3>1. bounds'.late = bounds.late + 1
      BY <1>1, <2>5, SpendType DEF OutlivesClaim
    <3> QED
      BY <1>1, <1>2, <2>3, <3>1, RoomKept
  <2> QED
    BY <1>4, <2>4, <2>5
<1> QED
  BY <1>3, <1>4

-----------------------------------------------------------------------------
(* The invariant *)

\* The invariant holds at the start,
LEMMA WebhookInvariantInit == WebhookInit => WebhookInvariant
<1> SUFFICES ASSUME WebhookInit, NEW d \in Export
             PROVE  ExportRoom(d)
  BY ClaimsSoundInit DEF WebhookInvariant
<1>1. row[d] = NoRow /\ NoRow.count = 0 /\ bounds.late = 0
  BY DEF WebhookInit, Delivery, NoRow
<1>2. Attempters(d) = {} /\ Hopeful(d) = {}
  BY IdleType DEF WebhookInit, Attempters, Hopeful, Attempting
<1>3. Cardinality(Attempters(d)) = 0 /\ Cardinality(Hopeful(d)) = 0
  BY <1>2, FS_EmptySet
<1>4. MaxAttempts \in Nat /\ MaxAttempts >= 1
  BY WebhookAssumption
<1> QED
  BY <1>1, <1>3, <1>4 DEF ExportRoom

\* ... and every step keeps it.
LEMMA WebhookInvariantStep == WebhookInvariant /\ [WebhookNext]_webhookVars => WebhookInvariant'
<1> SUFFICES ASSUME ClaimsSound, ClaimsSound', [WebhookNext]_webhookVars,
                    NEW d \in Export, ExportRoom(d)
             PROVE  ExportRoom(d)'
  BY ClaimsSoundStep DEF WebhookInvariant
<1>0. WebhookTypeOK /\ d \in Delivery /\ bounds.late \in Nat
  BY LateIsNumber DEF ClaimsSound, Delivery
<1>1. ASSUME NEW c \in Delivery,
             FallsDue(c) \/ (c \in Export /\ (GoesStale(c) \/ OutlivesClaim(c)))
      PROVE  ExportRoom(d)'
  BY <1>1, RoomInTime
<1>2. ASSUME NEW w \in Worker, NEW c \in Export, StartDelivery(w, c)
      PROVE  ExportRoom(d)'
  <2>1. /\ Begins(w, c) /\ row[c].status = "absent"
        /\ worker'[w].number = 1 /\ row'[c].count = 0
    BY <1>0, <1>2, StartBegins
  <2>2. c \in Delivery /\ Unclaimed(c) /\ row[c].status \notin Ended
    BY <2>1 DEF Delivery, Unclaimed, Ended
  <2>3. CASE c = d
    <3>1. row[c].count = 0
      BY <2>1, <2>3 DEF ExportRoom
    <3> QED
      BY <2>1, <2>2, <3>1, RoomBegins
  <2>4. CASE c # d
    <3>1. row'[d] = row[d] /\ bounds'.late >= bounds.late
      BY <1>0, <2>1, <2>4 DEF Begins
    <3>2. \A v \in Worker : Attempting(v, d)' => /\ Attempting(v, d)
                                                /\ worker'[v].number = worker[v].number
      BY <2>1, <2>4 DEF Begins, Attempting
    <3> QED
      BY <3>1, <3>2, RoomAsBefore
  <2> QED
    BY <2>3, <2>4
<1>3. ASSUME NEW w \in Worker, NEW c \in Delivery, Claim(w, c)
      PROVE  ExportRoom(d)'
  <2>1. /\ Begins(w, c)
        /\ c \in Export => DueExport(c)
        /\ worker'[w].number = row[c].count + 1 /\ row'[c].count = row[c].count
    BY <1>0, <1>3, ClaimBegins
  <2>2. c \in Export => Unclaimed(c) /\ row[c].status \notin Ended
    BY <2>1 DEF DueExport, Unclaimed, Waiting, Ended
  <2> QED
    BY <2>1, <2>2, RoomBegins
<1>4. ASSUME NEW w \in Worker, Quiet(w) \/ Sends(w)
      PROVE  ExportRoom(d)'
  <2>1. row' = row /\ bounds'.late >= bounds.late
    BY <1>0, <1>4 DEF Quiet, Sends
  <2>2. \A v \in Worker : Attempting(v, d)' => /\ Attempting(v, d)
                                              /\ worker'[v].number = worker[v].number
    BY <1>4 DEF Quiet, Sends, Attempting
  <2> QED
    BY <2>1, <2>2, RoomAsBefore
<1>5. ASSUME NEW w \in Worker, Record(w) \/ RecordUnconfirmed(w)
      PROVE  ExportRoom(d)'
  <2>1. WorkerSound(w) /\ worker[w].pc = "record"
    BY <1>5 DEF ClaimsSound, Record, RecordUnconfirmed
  <2>2. worker[w].at \in Delivery
    BY <2>1 DEF WorkerSound
  <2>3. Records(w)
    BY <1>0, <1>5, <2>2, RecordSteps
  <2> QED
    BY <2>2, <2>3, RoomRecords
<1>6. ASSUME NEW e \in Push, Enqueue(e) \/ Toggle(e)
      PROVE  ExportRoom(d)'
  <2>1. e # d
    BY WebhookAssumption
  <2>2. row'[d] = row[d] /\ worker' = worker
    BY <1>0, <1>6, <2>1 DEF Enqueue, Toggle, WebhookTypeOK
  <2>3. bounds'.late >= bounds.late
    BY <1>0, <1>6 DEF Enqueue, Toggle, WebhookTypeOK
  <2>4. \A v \in Worker : Attempting(v, d)' => /\ Attempting(v, d)
                                              /\ worker'[v].number = worker[v].number
    BY <2>2 DEF Attempting
  <2> QED
    BY <2>2, <2>3, <2>4, RoomAsBefore
<1>7. CASE UNCHANGED webhookVars
  <2>1. row' = row /\ worker' = worker /\ bounds'.late >= bounds.late
    BY <1>0, <1>7 DEF webhookVars
  <2>2. \A v \in Worker : Attempting(v, d)' => /\ Attempting(v, d)
                                              /\ worker'[v].number = worker[v].number
    BY <2>1 DEF Attempting
  <2> QED
    BY <2>1, <2>2, RoomAsBefore
<1>8. ASSUME NEW w \in Worker, Work(w) \/ Fault(w)
      PROVE  ExportRoom(d)'
  BY <1>0, <1>3, <1>4, <1>5, <1>8, QuietSteps, PostSends DEF Work, Fault
<1>9. ASSUME NEW c \in Export, GoesStale(c) \/ OutlivesClaim(c)
      PROVE  ExportRoom(d)'
  BY <1>1, <1>9 DEF Delivery
<1> QED
  BY <1>1, <1>2, <1>6, <1>7, <1>8, <1>9 DEF WebhookNext

-----------------------------------------------------------------------------
(* The theorems *)

\* The inductive invariant holds in every reachable state.
THEOREM WebhookInvariantHolds == WebhookSpec => []WebhookInvariant
<1> QED
  BY WebhookInvariantInit, WebhookInvariantStep, PTL DEF WebhookSpec

\* Rows, workers and histories keep their types.
THEOREM WebhookTypesHold == WebhookSpec => []WebhookTypeOK
<1>1. WebhookInvariant => WebhookTypeOK
  BY DEF WebhookInvariant, ClaimsSound
<1> QED
  BY <1>1, WebhookInvariantHolds, PTL

\* However many replicas sweep, a push event has one worker at most, and an export delivery
\* one more for each attempt that outlived its claim or whose record was not confirmed.
THEOREM ClaimsKeepApart == WebhookSpec => []KeptApart
<1>1. WebhookInvariant => KeptApart
  <2> SUFFICES ASSUME ClaimsSound
               PROVE  KeptApart
    BY DEF WebhookInvariant
  <2> USE DEF ClaimsSound
  <2>1. ASSUME NEW e \in Push
        PROVE  Cardinality(Holders(e)) <= 1
    <3>1. e \notin Export /\ e \in Delivery
      BY WebhookAssumption DEF WebhookAssumption, Delivery
    <3>2. ASSUME NEW w \in Holders(e)
          PROVE  w \in Worker /\ Attempting(w, e) /\ worker[w].number = row[e].count + 1
      <4>1. w \in Worker /\ Attempting(w, e) /\ worker[w].number \notin row[e].tried
        BY <3>1 DEF Holders, Recordable, Attempting
      <4>2. worker[w].number \in 1..row[e].count + 1 /\ row[e].tried = 1..row[e].count
        BY <4>1 DEF PushAttemptSound, PushSound
      <4>3. row[e].count \in Nat
        BY <3>1, RowFields
      <4> QED
        BY <4>1, <4>2, <4>3
    <3>3. \A w, v \in Holders(e) : w = v
      BY <3>2 DEF PushClaimUnique
    <3>4. CASE Holders(e) = {}
      BY <3>4, FS_EmptySet
    <3>5. CASE Holders(e) # {}
      <4>1. PICK w \in Holders(e) : TRUE
        BY <3>5
      <4>2. Holders(e) = {w}
        BY <3>3, <4>1
      <4> QED
        BY SMTT(30), <4>2, FS_Singleton
    <3> QED
      BY <3>4, <3>5
  <2>2. ASSUME NEW d \in Export
        PROVE  Cardinality(Holders(d)) <= 1 + bounds.late
    <3>1. Holders(d) \subseteq Attempters(d) /\ Holders(d) \in SUBSET Worker
      BY DEF Holders, Attempters
    <3>2. /\ Cardinality(Holders(d)) <= Cardinality(Attempters(d))
          /\ Cardinality(Holders(d)) \in Nat /\ Cardinality(Attempters(d)) \in Nat
      BY <3>1, WorkerSets, AttemptersAreWorkers
    <3>3. bounds.late \in Nat
      BY WebhookAssumption DEF WebhookTypeOK
    <3> QED
      BY <3>2, <3>3 DEF ExportClaimsBounded
  <2> QED
    BY <2>1, <2>2 DEF KeptApart
<1> QED
  BY <1>1, WebhookInvariantHolds, PTL

\* A push event is sent and counted within its budget, whatever crashes or is recorded twice.
THEOREM PushBudgetIsKept == WebhookSpec => []PushBudget
<1>1. WebhookInvariant => PushBudget
  <2> SUFFICES ASSUME WebhookInvariant, NEW e \in Push
               PROVE  /\ posts[e] <= MaxAttempts /\ row[e].count <= MaxAttempts
                      /\ row[e].tried = 1..row[e].count
    BY DEF PushBudget
  <2>1. PushSound(e) /\ e \in Delivery
    BY DEF WebhookInvariant, ClaimsSound, Delivery
  <2>2. row[e].count \in Nat /\ posts[e] \in Nat
    BY <2>1, RowFields DEF WebhookInvariant, ClaimsSound, WebhookTypeOK
  <2>3. row[e].tried = 1..row[e].count
    BY <2>1 DEF PushSound
  <2>4. /\ posts[e] <= row[e].count + (IF row[e].status = "processing" THEN 1 ELSE 0)
        /\ row[e].count <= MaxAttempts
        /\ row[e].status = "processing" => row[e].count < MaxAttempts
    BY <2>1 DEF PushSound
  <2> QED
    BY <2>2, <2>3, <2>4, WebhookAssumption
<1> QED
  BY <1>1, WebhookInvariantHolds, PTL

\* An export delivery is attempted within its budget, but for two attempts more for each that
\* outlived its claim or whose record was not confirmed: the late one, counted beside the one
\* that took over from it, and the one that its failure asks for when it is recorded.
THEOREM ExportOverrunIsBounded == WebhookSpec => []ExportOverrun
<1>1. WebhookInvariant => ExportOverrun
  <2> SUFFICES ASSUME WebhookInvariant, NEW d \in Export
               PROVE  row[d].count <= MaxAttempts + 2 * bounds.late
    BY DEF ExportOverrun
  <2>1. WebhookTypeOK /\ ExportRoom(d) /\ d \in Delivery
    BY DEF WebhookInvariant, ClaimsSound, Delivery
  <2>2. Cardinality(Attempters(d)) \in Nat /\ Cardinality(Hopeful(d)) \in Nat
    <3>1. Attempters(d) \in SUBSET Worker /\ Hopeful(d) \in SUBSET Worker
      BY AttemptersAreWorkers, HopefulAreWorkers
    <3> QED
      BY <3>1, WorkerSets
  <2>3. row[d].count \in Nat /\ bounds.late \in Nat /\ MaxAttempts \in Nat
    BY <2>1, RowFields, LateIsNumber, WebhookAssumption
  <2> QED
    BY <2>1, <2>2, <2>3 DEF ExportRoom
<1> QED
  BY <1>1, WebhookInvariantHolds, PTL

\* What is recorded as delivered was taken by its receiver.
THEOREM DeliveredIsTaken == WebhookSpec => []DeliveredWasTaken
<1>1. WebhookInvariant => DeliveredWasTaken
  BY DEF WebhookInvariant, ClaimsSound
<1> QED
  BY <1>1, WebhookInvariantHolds, PTL

\* Only the record of an attempt changes a delivery that has come to its end.
LEMMA OnlyRecordsReopen ==
  ASSUME WebhookInvariant, [WebhookNext]_webhookVars,
         NEW d \in Delivery, row[d].status \in Ended, row'[d] # row[d]
  PROVE  \E w \in Worker : worker[w].at = d /\ Records(w)
<1>0. /\ WebhookTypeOK /\ row \in [Delivery -> Row]
      /\ row[d].status \in {"delivered", "dead_letter", "failed"}
  BY DEF WebhookInvariant, ClaimsSound, WebhookTypeOK, Ended
<1>1. ASSUME NEW e \in Push, Enqueue(e)
      PROVE  FALSE
  BY <1>0, <1>1 DEF Enqueue
<1>2. ASSUME NEW e \in Delivery, FallsDue(e)
      PROVE  FALSE
  BY <1>0, <1>2 DEF FallsDue
<1>3. ASSUME NEW e \in Export, GoesStale(e) \/ OutlivesClaim(e)
      PROVE  FALSE
  BY <1>0, <1>3 DEF GoesStale, OutlivesClaim, Stales
<1>4. ASSUME NEW w \in Worker, NEW e \in Export, StartDelivery(w, e)
      PROVE  FALSE
  BY <1>0, <1>4 DEF StartDelivery
<1>5. ASSUME NEW w \in Worker, NEW c \in Delivery, Claim(w, c)
      PROVE  FALSE
  <2>1. /\ Begins(w, c)
        /\ c \in Push => DuePush(c)
        /\ c \in Export => DueExport(c)
    BY <1>0, <1>5, ClaimBegins
  <2>2. row[c].status \notin {"delivered", "dead_letter", "failed"}
    BY <2>1 DEF DuePush, DueExport, Waiting, Delivery
  <2> QED
    BY <1>0, <2>1, <2>2 DEF Begins
<1>6. ASSUME NEW w \in Worker,
             \/ Tick(w) \/ NextQueue(w) \/ NotSent(w) \/ RecordRejected(w)
             \/ RecordFails(w) \/ AttemptBreaks(w) \/ Crash(w)
      PROVE  FALSE
  BY <1>0, <1>6, QuietSteps DEF Quiet
<1>7. ASSUME NEW w \in Worker, Post(w)
      PROVE  FALSE
  BY <1>7 DEF Post
<1>8. ASSUME NEW e \in Push, Toggle(e)
      PROVE  FALSE
  BY <1>8 DEF Toggle
<1>9. ASSUME NEW w \in Worker, Record(w) \/ RecordUnconfirmed(w)
      PROVE  worker[w].at = d /\ Records(w)
  <2>1. WorkerSound(w) /\ worker[w].pc = "record"
    BY <1>9 DEF WebhookInvariant, ClaimsSound, Record, RecordUnconfirmed
  <2>2. worker[w].at \in Delivery
    BY <2>1 DEF WorkerSound
  <2>3. Records(w)
    BY <1>0, <1>9, <2>2, RecordSteps
  <2> QED
    BY <2>3 DEF Records
<1>10. CASE UNCHANGED webhookVars
  BY <1>10 DEF webhookVars
<1> QED
  BY <1>1, <1>2, <1>3, <1>4, <1>5, <1>6, <1>7, <1>8, <1>9, <1>10 DEF WebhookNext, Work, Fault

\* A push event that has come to its end is never touched again.
THEOREM PushOutcomesAreFinal == WebhookSpec => PushOutcomeIsFinal
<1> DEFINE Kept == \A e \in Push : row[e].status \in Ended => row'[e] = row[e]
<1>1. WebhookInvariant /\ [WebhookNext]_webhookVars => Kept
  <2> SUFFICES ASSUME WebhookInvariant, [WebhookNext]_webhookVars,
                      NEW e \in Push, row[e].status \in Ended, row'[e] # row[e]
               PROVE  FALSE
    OBVIOUS
  <2>1. e \in Delivery
    BY DEF Delivery
  <2>2. PICK w \in Worker : worker[w].at = e /\ Records(w)
    BY <2>1, OnlyRecordsReopen
  <2>3. row[e].status = "processing"
    BY <2>2, RecordedPush DEF WebhookInvariant
  <2> QED
    BY <2>3 DEF Ended
<1> HIDE DEF Kept
<1>2. [][Kept]_webhookVars <=> PushOutcomeIsFinal
  BY DEF PushOutcomeIsFinal, Kept
<1> QED
  BY <1>1, <1>2, WebhookInvariantHolds, PTL DEF WebhookSpec

\* As long as no attempt outlives its claim and every record is confirmed, neither is an
\* export delivery.
THEOREM ExportOutcomesAreFinal == WebhookSpec => ExportOutcomeIsFinalUnlessLate
<1> DEFINE Kept == \A d \in Export : row[d].status \in Ended /\ bounds.late = 0 => row'[d] = row[d]
<1>1. WebhookInvariant /\ [WebhookNext]_webhookVars => Kept
  <2> SUFFICES ASSUME WebhookInvariant, [WebhookNext]_webhookVars,
                      NEW d \in Export, row[d].status \in Ended, bounds.late = 0, row'[d] # row[d]
               PROVE  FALSE
    OBVIOUS
  <2>1. d \in Delivery
    BY DEF Delivery
  <2>2. PICK w \in Worker : worker[w].at = d /\ Records(w)
    BY <2>1, OnlyRecordsReopen
  <2>3. w \in Attempters(d) /\ Unclaimed(d)
    BY <2>2 DEF Attempters, Attempting, Records, Unclaimed, Ended
  <2>4. Cardinality(Attempters(d) \ {w}) <= Cardinality(Attempters(d)) - 1
        /\ Cardinality(Attempters(d) \ {w}) \in Nat /\ Cardinality(Attempters(d)) \in Nat
    <3>1. Attempters(d) \in SUBSET Worker /\ Attempters(d) \ {w} \in SUBSET Worker
      BY AttemptersAreWorkers
    <3> QED
      BY <2>3, <3>1, WorkerSets
  <2>5. Cardinality(Attempters(d)) + 1 <= 1
    BY <2>3 DEF WebhookInvariant, ClaimsSound, ExportClaimsBounded
  <2> QED
    BY <2>4, <2>5
<1> HIDE DEF Kept
<1>2. [][Kept]_webhookVars <=> ExportOutcomeIsFinalUnlessLate
  BY DEF ExportOutcomeIsFinalUnlessLate, Kept
<1> QED
  BY <1>1, <1>2, WebhookInvariantHolds, PTL DEF WebhookSpec
=============================================================================
