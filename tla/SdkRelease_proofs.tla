-------------------------- MODULE SdkRelease_proofs --------------------------
(***************************************************************************)
(* Proofs about SdkRelease, for any number of workers, publishes, ledger   *)
(* rows, tokens and faults: the composition implements the queue of        *)
(* SdkRegen, keeps the invariants of both components, and ReleaseInvariant *)
(* on top of them.                                                         *)
(***************************************************************************)
EXTENDS SdkRelease, SdkRegen_proofs, FiniteSetTheorems

\* The proofs of the publish pipeline, for the calls of the workers.
PubProofs == INSTANCE SdkPublish_proofs WITH Publisher <- Worker, Release <- Job

-----------------------------------------------------------------------------
(* Pub and PubProofs are two instances of one module, for the same constants and      *)
(* variables: what PubProofs proves holds of Pub.                                     *)

\* The constants of the composition are as SdkPublish asks.
LEMMA PublishAssumed == PubProofs!PublishAssumption
BY ReleaseAssumption DEF PubProofs!PublishAssumption

\* The types are the same, before and after a step.
LEMMA SameTypes ==
  /\ Pub!PublishTypeOK <=> PubProofs!PublishTypeOK
  /\ Pub!PublishTypeOK' <=> PubProofs!PublishTypeOK'
BY DEF Pub!PublishTypeOK, PubProofs!PublishTypeOK, Pub!RunStatuses, PubProofs!RunStatuses,
       Pub!ClaimedStatuses, PubProofs!ClaimedStatuses, Pub!DoneStatuses, PubProofs!DoneStatuses,
       Pub!Numbers, PubProofs!Numbers, Pub!UploadStates, PubProofs!UploadStates,
       Pub!CallPhases, PubProofs!CallPhases, Pub!Outcomes, PubProofs!Outcomes

\* So are the other parts of the invariant.
LEMMA SameInvariant ==
  /\ Pub!PublishInvariant <=> PubProofs!PublishInvariant
  /\ Pub!PublishInvariant' <=> PubProofs!PublishInvariant'
<1>1. /\ Pub!CallsOwnRows <=> PubProofs!CallsOwnRows
      /\ Pub!CallsOwnRows' <=> PubProofs!CallsOwnRows'
  BY DEF Pub!CallsOwnRows, PubProofs!CallsOwnRows
<1>2. /\ Pub!CallsMatchRows <=> PubProofs!CallsMatchRows
      /\ Pub!CallsMatchRows' <=> PubProofs!CallsMatchRows'
  BY DEF Pub!CallsMatchRows, PubProofs!CallsMatchRows
<1>3. /\ Pub!ClaimsUnique <=> PubProofs!ClaimsUnique
      /\ Pub!ClaimsUnique' <=> PubProofs!ClaimsUnique'
  BY DEF Pub!ClaimsUnique, PubProofs!ClaimsUnique,
         Pub!ClaimedStatuses, PubProofs!ClaimedStatuses, Pub!DoneStatuses, PubProofs!DoneStatuses
<1>4. /\ Pub!RowsMatchRegistry <=> PubProofs!RowsMatchRegistry
      /\ Pub!RowsMatchRegistry' <=> PubProofs!RowsMatchRegistry'
  BY DEF Pub!RowsMatchRegistry, PubProofs!RowsMatchRegistry, Pub!Numbers, PubProofs!Numbers
<1>5. /\ Pub!FloorsHold <=> PubProofs!FloorsHold
      /\ Pub!FloorsHold' <=> PubProofs!FloorsHold'
  BY DEF Pub!FloorsHold, PubProofs!FloorsHold, Pub!DoneNumbers, PubProofs!DoneNumbers,
         Pub!DoneStatuses, PubProofs!DoneStatuses
<1> QED
  BY <1>1, <1>2, <1>3, <1>4, <1>5, SameTypes
  DEF Pub!PublishInvariant, PubProofs!PublishInvariant

\* And so are the steps.
LEMMA SameSteps ==
  ASSUME NEW w, NEW j, NEW r
  PROVE  /\ Pub!Begin(w, j) <=> PubProofs!Begin(w, j)
         /\ Pub!Refuse(w, j) <=> PubProofs!Refuse(w, j)
         /\ Pub!DryRun(w, j) <=> PubProofs!DryRun(w, j)
         /\ Pub!CallStep(w) <=> PubProofs!CallStep(w)
         /\ Pub!Breaks(w) <=> PubProofs!Breaks(w)
         /\ Pub!Return(w) <=> PubProofs!Return(w)
         /\ Pub!Crash(w) <=> PubProofs!Crash(w)
         /\ Pub!RegistryAnswers(r) <=> PubProofs!RegistryAnswers(r)
<1> USE DEF Pub!CallOf, PubProofs!CallOf, Pub!NoCall, PubProofs!NoCall, Pub!Returning,
            PubProofs!Returning
<1>1. /\ Pub!ClaimedNumbers = PubProofs!ClaimedNumbers
      /\ Pub!DoneNumbers = PubProofs!DoneNumbers
      /\ Pub!Numbers = PubProofs!Numbers
  BY DEF Pub!ClaimedNumbers, PubProofs!ClaimedNumbers, Pub!DoneNumbers, PubProofs!DoneNumbers,
         Pub!ClaimedStatuses, PubProofs!ClaimedStatuses, Pub!DoneStatuses, PubProofs!DoneStatuses,
         Pub!Numbers, PubProofs!Numbers
<1>2. \A n, s : Pub!IsSuccessor(n, s) <=> PubProofs!IsSuccessor(n, s)
  BY DEF Pub!IsSuccessor, PubProofs!IsSuccessor
<1>3. /\ \A q : Pub!IsFreshRun(q) <=> PubProofs!IsFreshRun(q)
      /\ \A n : Pub!IsNextCounter(n) <=> PubProofs!IsNextCounter(n)
  BY <1>1, <1>2 DEF Pub!IsFreshRun, PubProofs!IsFreshRun, Pub!IsNextCounter,
                    PubProofs!IsNextCounter
<1>4. Pub!Begin(w, j) <=> PubProofs!Begin(w, j)
  BY <1>1, <1>2, <1>3 DEF Pub!Begin, PubProofs!Begin
<1>5. Pub!Refuse(w, j) <=> PubProofs!Refuse(w, j)
  BY DEF Pub!Refuse, PubProofs!Refuse
<1>6. Pub!DryRun(w, j) <=> PubProofs!DryRun(w, j)
  BY <1>1, <1>3 DEF Pub!DryRun, PubProofs!DryRun
<1>7. Pub!ReadCounter(w) <=> PubProofs!ReadCounter(w)
  BY <1>1, <1>3 DEF Pub!ReadCounter, PubProofs!ReadCounter
<1>8. /\ Pub!ClaimWins(w) <=> PubProofs!ClaimWins(w)
      /\ Pub!ClaimLoses(w) <=> PubProofs!ClaimLoses(w)
  BY <1>1 DEF Pub!ClaimWins, PubProofs!ClaimWins, Pub!ClaimLoses, PubProofs!ClaimLoses
<1>9. \A q, status, recorded :
        Pub!FinishRow(q, status, recorded) <=> PubProofs!FinishRow(q, status, recorded)
  BY DEF Pub!FinishRow, PubProofs!FinishRow
<1>10. \A answer : /\ Pub!StatusOf(answer) = PubProofs!StatusOf(answer)
                   /\ Pub!OutcomeOf(answer) = PubProofs!OutcomeOf(answer)
  BY DEF Pub!StatusOf, PubProofs!StatusOf, Pub!OutcomeOf, PubProofs!OutcomeOf
<1>11. /\ Pub!BuildFails(w) <=> PubProofs!BuildFails(w)
       /\ Pub!CloseAnswered(w) <=> PubProofs!CloseAnswered(w)
       /\ Pub!Timeout(w) <=> PubProofs!Timeout(w)
  BY <1>9, <1>10 DEF Pub!BuildFails, PubProofs!BuildFails, Pub!CloseAnswered,
                     PubProofs!CloseAnswered, Pub!Timeout, PubProofs!Timeout
<1>12. Pub!SendUpload(w) <=> PubProofs!SendUpload(w)
  BY DEF Pub!SendUpload, PubProofs!SendUpload
<1>13. Pub!CallStep(w) <=> PubProofs!CallStep(w)
  BY <1>7, <1>8, <1>11, <1>12 DEF Pub!CallStep, PubProofs!CallStep
<1>14. /\ Pub!Breaks(w) <=> PubProofs!Breaks(w)
       /\ Pub!Return(w) <=> PubProofs!Return(w)
       /\ Pub!Crash(w) <=> PubProofs!Crash(w)
       /\ Pub!RegistryAnswers(r) <=> PubProofs!RegistryAnswers(r)
  BY DEF Pub!Breaks, PubProofs!Breaks, Pub!Return, PubProofs!Return, Pub!Crash, PubProofs!Crash,
         Pub!RegistryAnswers, PubProofs!RegistryAnswers
<1> QED
  BY <1>4, <1>5, <1>6, <1>13, <1>14

\* The inductive step of the publish pipeline, with its calls made by the workers.
LEMMA PublishKept ==
  ASSUME Pub!PublishInvariant, Pub!PublishNext \/ UNCHANGED publishVars
  PROVE  Pub!PublishInvariant'
<1>1. Pub!PublishNext => PubProofs!PublishNext
  BY SameSteps DEF Pub!PublishNext, PubProofs!PublishNext
<1>2. [PubProofs!PublishNext]_(PubProofs!pubVars)
  BY <1>1 DEF publishVars, PubProofs!pubVars
<1> QED
  BY <1>2, SameInvariant, PublishAssumed, PubProofs!PublishInvariantStep

\* It holds initially.
LEMMA PublishStarts == Pub!PublishInit => Pub!PublishInvariant
<1>1. Pub!PublishInit => PubProofs!PublishInit
  BY DEF Pub!PublishInit, PubProofs!PublishInit, Pub!CallOf, PubProofs!CallOf, Pub!NoCall,
         PubProofs!NoCall, Pub!Numbers, PubProofs!Numbers
<1> QED
  BY <1>1, SameInvariant, PublishAssumed, PubProofs!PublishInvariantInit

\* Every step of the composition is a step of the publish pipeline, or none.
LEMMA PublishMoves ==
  ASSUME RegenTypeOK, [ReleaseNext]_releaseVars
  PROVE  Pub!PublishNext \/ UNCHANGED publishVars
<1>1. ASSUME NEW w \in Worker, CallPublish(w)
      PROVE  Pub!PublishNext
  <2>1. worker[w].job \in Job
    BY WorkerFields
  <2> QED
    BY <1>1, <2>1 DEF CallPublish, Pub!PublishNext
<1>2. ASSUME NEW w \in Worker, TakeOutcome(w) \/ WorkerDies(w)
      PROVE  Pub!PublishNext \/ UNCHANGED publishVars
  BY <1>2 DEF TakeOutcome, WorkerDies, Pub!PublishNext
<1>3. ASSUME NEW w \in Worker, Pub!CallStep(w) \/ Pub!Breaks(w)
      PROVE  Pub!PublishNext
  BY <1>3 DEF Pub!PublishNext
<1>4. ASSUME NEW r \in Run, Pub!RegistryAnswers(r)
      PROVE  Pub!PublishNext
  BY <1>4 DEF Pub!PublishNext
<1>5. CASE UNCHANGED releaseVars
  BY <1>5 DEF releaseVars, publishVars
<1> QED
  BY <1>1, <1>2, <1>3, <1>4, <1>5 DEF ReleaseNext

-----------------------------------------------------------------------------
(* What one call and one row of the ledger can do in a step. *)

\* The numbers of the ledger are the counters of the queue.
LEMMA NumbersAreCounters == Pub!Numbers = Counter /\ 0 \in Counter /\ Counter \subseteq Nat
BY ReleaseAssumption DEF Pub!Numbers

\* The fields of a call have their types ...
LEMMA CallFields ==
  ASSUME Pub!PublishTypeOK, NEW w \in Worker
  PROVE  /\ call[w].pc \in {"idle", "counting", "claiming", "building", "uploading", "returning"}
         /\ call[w].run \in Run \union {NoRun}
         /\ call[w].release \in Job \union {NoRelease}
         /\ call[w].outcome \in Pub!Outcomes \union {"none"}
         /\ DOMAIN call = Worker /\ call = [v \in Worker |-> call[v]]
BY DEF Pub!PublishTypeOK, Pub!CallPhases

\* ... and so have those of a row of the ledger.
LEMMA LedgerFields ==
  ASSUME Pub!PublishTypeOK, NEW r \in Run
  PROVE  /\ ledger[r].counter \in Counter
         /\ ledger[r].release \in Job \union {NoRelease}
         /\ ledger[r] \in [status : Pub!RunStatuses, counter : Pub!Numbers,
                           release : Job \union {NoRelease}]
         /\ DOMAIN ledger = Run /\ ledger = [q \in Run |-> ledger[q]]
BY NumbersAreCounters DEF Pub!PublishTypeOK

\* A row that closes keeps everything but its status.
LEMMA RowCloses ==
  ASSUME Pub!PublishTypeOK, NEW q \in Run, NEW status, NEW recorded,
         Pub!FinishRow(q, status, recorded), NEW r \in Run
  PROVE  \/ ledger'[r] = ledger[r]
         \/ /\ r = q
            /\ ledger'[r].status = status
            /\ ledger'[r].counter = ledger[r].counter
            /\ ledger'[r].release = ledger[r].release
<1>1. ledger[q] \in [status : Pub!RunStatuses, counter : Pub!Numbers,
                     release : Job \union {NoRelease}]
      /\ DOMAIN ledger = Run
  BY LedgerFields
<1>2. ledger' = ledger \/ ledger' = [ledger EXCEPT ![q] = [ledger[q] EXCEPT !.status = status]]
  BY DEF Pub!FinishRow
<1> QED
  BY <1>1, <1>2

\* A row of the ledger is written when it is claimed or rehearsed, and closed once, as
\* published only by the call whose own upload was stored.
LEMMA LedgerMoves ==
  ASSUME Pub!PublishInvariant, Pub!PublishNext \/ UNCHANGED publishVars, NEW r \in Run
  PROVE  \/ ledger'[r] = ledger[r]
         \/ /\ ledger[r].status = "unused"
            /\ ledger'[r].status \in {"dry_run", "in_progress"}
         \/ /\ ledger[r].status = "in_progress"
            /\ ledger'[r].status \in {"failed", "already_published", "published"}
            /\ ledger'[r].counter = ledger[r].counter
            /\ ledger'[r].release = ledger[r].release
            /\ ledger'[r].status = "published" =>
                 \E w \in Worker : /\ Pub!CloseAnswered(w)
                                  /\ call[w].run = r
                                  /\ upload[r] = "stored"
<1>0. Pub!PublishTypeOK
  BY DEF Pub!PublishInvariant
<1>1. DOMAIN ledger = Run /\ ledger = [q \in Run |-> ledger[q]]
  BY <1>0, LedgerFields
<1>2. ASSUME NEW w \in Worker, NEW j \in Job, Pub!DryRun(w, j)
      PROVE  ledger'[r] = ledger[r]
               \/ (ledger[r].status = "unused" /\ ledger'[r].status = "dry_run")
  BY <1>1, <1>2 DEF Pub!DryRun, Pub!IsFreshRun
<1>3. ASSUME NEW w \in Worker, Pub!ClaimWins(w)
      PROVE  ledger'[r] = ledger[r]
               \/ (ledger[r].status = "unused" /\ ledger'[r].status = "in_progress")
  <2>1. call[w].run \in Run /\ ledger[call[w].run].status = "unused"
    BY <1>3 DEF Pub!ClaimWins, Pub!PublishInvariant, Pub!CallsOwnRows, Pub!CallsMatchRows
  <2> QED
    BY <1>1, <1>3, <2>1 DEF Pub!ClaimWins
<1>4. ASSUME NEW w \in Worker, Pub!BuildFails(w) \/ Pub!Timeout(w)
      PROVE  \/ ledger'[r] = ledger[r]
             \/ /\ ledger[r].status = "in_progress" /\ ledger'[r].status = "failed"
                /\ ledger'[r].counter = ledger[r].counter
                /\ ledger'[r].release = ledger[r].release
  <2>1. call[w].run \in Run /\ ledger[call[w].run].status = "in_progress"
    BY <1>4 DEF Pub!BuildFails, Pub!Timeout, Pub!PublishInvariant, Pub!CallsOwnRows,
                Pub!CallsMatchRows
  <2>2. PICK recorded \in BOOLEAN : Pub!FinishRow(call[w].run, "failed", recorded)
    BY <1>4 DEF Pub!BuildFails, Pub!Timeout
  <2> QED
    BY <1>0, <2>1, <2>2, RowCloses
<1>5. ASSUME NEW w \in Worker, Pub!CloseAnswered(w)
      PROVE  \/ ledger'[r] = ledger[r]
             \/ /\ ledger[r].status = "in_progress"
                /\ ledger'[r].status \in {"failed", "already_published", "published"}
                /\ ledger'[r].counter = ledger[r].counter
                /\ ledger'[r].release = ledger[r].release
                /\ call[w].run = r
                /\ ledger'[r].status = "published" => upload[r] = "stored"
  <2>1. call[w].run \in Run /\ ledger[call[w].run].status = "in_progress"
    BY <1>5 DEF Pub!CloseAnswered, Pub!PublishInvariant, Pub!CallsOwnRows, Pub!CallsMatchRows
  <2>2. PICK recorded \in BOOLEAN :
          Pub!FinishRow(call[w].run, Pub!StatusOf(upload[call[w].run]), recorded)
    BY <1>5 DEF Pub!CloseAnswered
  <2>3. \A answer : /\ Pub!StatusOf(answer) \in {"failed", "already_published", "published"}
                    /\ Pub!StatusOf(answer) = "published" => answer = "stored"
    BY DEF Pub!StatusOf
  <2> QED
    BY <1>0, <2>1, <2>2, <2>3, RowCloses
<1>6. ASSUME UNCHANGED ledger
      PROVE  ledger'[r] = ledger[r]
  BY <1>6
<1>7. CASE UNCHANGED publishVars
  BY <1>6, <1>7 DEF publishVars
<1>8. CASE \E q \in Run : Pub!RegistryAnswers(q)
  BY <1>6, <1>8 DEF Pub!RegistryAnswers
<1>9. ASSUME NEW w \in Worker, NEW j \in Job, Pub!Begin(w, j) \/ Pub!Refuse(w, j)
      PROVE  ledger'[r] = ledger[r]
  BY <1>6, <1>9 DEF Pub!Begin, Pub!Refuse
<1>10. ASSUME NEW w \in Worker,
              \/ Pub!ReadCounter(w) \/ Pub!ClaimLoses(w) \/ Pub!SendUpload(w)
              \/ Pub!Breaks(w) \/ Pub!Return(w) \/ Pub!Crash(w)
       PROVE  ledger'[r] = ledger[r]
  BY <1>6, <1>10 DEF Pub!ReadCounter, Pub!ClaimLoses, Pub!SendUpload, Pub!Breaks, Pub!Return,
                     Pub!Crash
<1> QED
  BY <1>2, <1>3, <1>4, <1>5, <1>7, <1>8, <1>9, <1>10 DEF Pub!PublishNext, Pub!CallStep

\* What the registry has, it keeps.
LEMMA RegistryStays ==
  ASSUME Pub!PublishInvariant, Pub!PublishNext \/ UNCHANGED publishVars,
         NEW c \in Counter, registry[c] # NoRun
  PROVE  registry'[c] = registry[c]
<1>1. DOMAIN registry = Counter
  BY NumbersAreCounters DEF Pub!PublishInvariant, Pub!PublishTypeOK
<1>2. ASSUME NEW r \in Run, Pub!RegistryAnswers(r)
      PROVE  registry'[c] = registry[c]
  BY <1>1, <1>2 DEF Pub!RegistryAnswers
<1>3. CASE UNCHANGED publishVars
  BY <1>3 DEF publishVars
<1>4. ASSUME NEW w \in Worker,
             \/ \E j \in Job : Pub!Begin(w, j) \/ Pub!Refuse(w, j) \/ Pub!DryRun(w, j)
             \/ Pub!CallStep(w) \/ Pub!Breaks(w) \/ Pub!Return(w) \/ Pub!Crash(w)
      PROVE  registry' = registry
  BY <1>4
  DEF Pub!Begin, Pub!Refuse, Pub!DryRun, Pub!CallStep, Pub!ReadCounter, Pub!ClaimWins,
      Pub!ClaimLoses, Pub!BuildFails, Pub!SendUpload, Pub!CloseAnswered, Pub!Timeout, Pub!Breaks,
      Pub!Return, Pub!Crash
<1> QED
  BY <1>2, <1>3, <1>4 DEF Pub!PublishNext

\* TellsTheTruth after a step, of progress that is known before it.
TruthAfter(j, done) ==
    /\ done.publish \in PublishDone => /\ done.counter \in Counter
                                      /\ registry'[done.counter] # NoRun
    /\ done.publish = "published" => ledger'[registry'[done.counter]].release = j

\* What was published stays true: the version stays, and so does the job that uploaded it.
LEMMA TruthStays ==
  ASSUME Pub!PublishInvariant, Pub!PublishNext \/ UNCHANGED publishVars,
         NEW j, NEW done, TellsTheTruth(j, done)
  PROVE  TruthAfter(j, done)
<1> SUFFICES ASSUME done.publish \in PublishDone
             PROVE  /\ registry'[done.counter] # NoRun
                    /\ done.publish = "published" =>
                         ledger'[registry'[done.counter]].release = j
  BY DEF TellsTheTruth, TruthAfter, PublishDone
<1> DEFINE r == registry[done.counter]
<1>1. done.counter \in Counter /\ r # NoRun
  BY DEF TellsTheTruth
<1>2. r \in Run
  BY <1>1, NumbersAreCounters DEF Pub!PublishInvariant, Pub!PublishTypeOK
<1>3. ledger[r].status # "unused"
  BY <1>1, <1>2, NumbersAreCounters DEF Pub!PublishInvariant, Pub!RowsMatchRegistry
<1>4. registry'[done.counter] = r
  BY <1>1, RegistryStays
<1>5. ledger'[r].release = ledger[r].release
  BY <1>2, <1>3, LedgerMoves
<1> QED
  BY <1>1, <1>4, <1>5 DEF TellsTheTruth

\* A call that does not move keeps telling the truth.
LEMMA CallTruthStays ==
  ASSUME Pub!PublishInvariant, Pub!PublishNext \/ UNCHANGED publishVars,
         NEW w \in Worker, CallTellsTheTruth(w), call'[w] = call[w]
  PROVE  CallTellsTheTruth(w)'
<1> DEFINE r == call[w].run
<1>1. CASE call[w].pc \in {"building", "uploading"}
  <2>1. r \in Run /\ ledger[r].status = "in_progress"
    BY <1>1 DEF Pub!PublishInvariant, Pub!CallsOwnRows, Pub!CallsMatchRows
  <2>2. ledger'[r].release = ledger[r].release
    BY <2>1, LedgerMoves
  <2> QED
    BY <1>1, <2>2 DEF CallTellsTheTruth
<1>2. CASE call[w].pc = "returning" /\ call[w].outcome \in PublishDone
  <2>1. r \in Run /\ ledger[r].status # "unused" /\ registry[ledger[r].counter] # NoRun
    BY <1>2 DEF CallTellsTheTruth
  <2>2. /\ ledger'[r].status # "unused"
        /\ ledger'[r].counter = ledger[r].counter
        /\ ledger'[r].release = ledger[r].release
    BY <2>1, LedgerMoves
  <2>3. registry'[ledger[r].counter] = registry[ledger[r].counter]
    <3>1. ledger[r].counter \in Counter
      BY <2>1, LedgerFields DEF Pub!PublishInvariant
    <3> QED
      BY <2>1, <3>1, RegistryStays
  <2> QED
    BY <1>2, <2>1, <2>2, <2>3 DEF CallTellsTheTruth
<1>3. CASE call[w].pc \notin {"building", "uploading", "returning"}
           \/ (call[w].pc = "returning" /\ call[w].outcome \notin PublishDone)
  BY <1>3 DEF CallTellsTheTruth
<1> QED
  BY <1>1, <1>2, <1>3

\* A record of a call, and what it becomes.
LEMMA OneCallMoves ==
  ASSUME Pub!PublishTypeOK, NEW w \in Worker, NEW c, call' = [call EXCEPT ![w] = c]
  PROVE  call'[w] = c /\ \A v \in Worker : v # w => call'[v] = call[v]
BY CallFields

\* What a call returns, as a record.
LEMMA ReturningFields ==
  ASSUME NEW rel, NEW r, NEW outcome
  PROVE  /\ Pub!Returning(rel, r, outcome).pc = "returning"
         /\ Pub!Returning(rel, r, outcome).release = rel
         /\ Pub!Returning(rel, r, outcome).run = r
         /\ Pub!Returning(rel, r, outcome).outcome = outcome
BY DEF Pub!Returning, Pub!CallOf

\* A call that is over.
LEMMA CallReturns ==
  ASSUME Pub!PublishTypeOK, NEW w \in Worker, NEW rel, NEW r, NEW outcome,
         call' = [call EXCEPT ![w] = Pub!Returning(rel, r, outcome)]
  PROVE  /\ call'[w].pc = "returning"
         /\ call'[w].release = rel
         /\ call'[w].run = r
         /\ call'[w].outcome = outcome
         /\ \A v \in Worker : v # w => call'[v] = call[v]
<1> DEFINE c == Pub!Returning(rel, r, outcome)
<1>1. c.pc = "returning" /\ c.release = rel /\ c.run = r /\ c.outcome = outcome
  BY ReturningFields
<1>2. call' = [call EXCEPT ![w] = c]
  OBVIOUS
<1> HIDE DEF c
<1> QED
  BY <1>1, <1>2, OneCallMoves

\* The steps of publish() that start a call or end it.
LEMMA CallStarts ==
  ASSUME Pub!PublishTypeOK, NEW w \in Worker, NEW j \in Job,
         Pub!Begin(w, j) \/ Pub!Refuse(w, j) \/ Pub!DryRun(w, j)
  PROVE  /\ call[w].pc = "idle"
         /\ call'[w].release = j
         /\ \/ Pub!Begin(w, j) /\ call'[w].pc = "counting"
            \/ Pub!Refuse(w, j) /\ call'[w].pc = "returning" /\ call'[w].outcome = "refused"
            \/ Pub!DryRun(w, j) /\ call'[w].pc = "returning" /\ call'[w].outcome = "dry_run"
         /\ \A v \in Worker : v # w => call'[v] = call[v]
<1>1. CASE Pub!Begin(w, j)
  <2>1. PICK r \in Run, n \in 0..(MaxCounter + 1) :
          call' = [call EXCEPT ![w] = Pub!CallOf("counting", j, r, n, "none")]
    BY <1>1 DEF Pub!Begin
  <2>2. /\ Pub!CallOf("counting", j, r, n, "none").pc = "counting"
        /\ Pub!CallOf("counting", j, r, n, "none").release = j
    BY DEF Pub!CallOf
  <2> QED
    BY <1>1, <2>1, <2>2, OneCallMoves DEF Pub!Begin
<1>2. CASE Pub!Refuse(w, j)
  <2>1. call[w].pc = "idle" /\ call' = [call EXCEPT ![w] = Pub!Returning(j, NoRun, "refused")]
    BY <1>2 DEF Pub!Refuse
  <2> QED
    BY ZenonT(60), <1>2, <2>1, CallReturns
<1>3. CASE Pub!DryRun(w, j)
  <2>1. call[w].pc = "idle" /\ call' = [call EXCEPT ![w] = Pub!Returning(j, NoRun, "dry_run")]
    BY <1>3 DEF Pub!DryRun
  <2> QED
    BY ZenonT(60), <1>3, <2>1, CallReturns
<1> QED
  BY <1>1, <1>2, <1>3

\* The steps that leave a thread without a call.
LEMMA CallEnds ==
  ASSUME Pub!PublishTypeOK, NEW w \in Worker, Pub!Return(w) \/ Pub!Crash(w)
  PROVE  /\ call'[w].pc = "idle"
         /\ \A v \in Worker : v # w => call'[v] = call[v]
<1>1. Pub!NoCall.pc = "idle"
  BY DEF Pub!NoCall, Pub!CallOf
<1> QED
  BY <1>1, OneCallMoves DEF Pub!Return, Pub!Crash

\* The steps publish() takes in between: the call stays the call for its release, and
\* returns what publish() can return when it does not rehearse.
LEMMA CallGoesOn ==
  ASSUME Pub!PublishInvariant, NEW w \in Worker, Pub!CallStep(w) \/ Pub!Breaks(w)
  PROVE  /\ call[w].pc \in {"counting", "claiming", "building", "uploading"}
         /\ call'[w].pc \in {"claiming", "building", "uploading", "returning"}
         /\ call'[w].release = call[w].release
         /\ call'[w].pc # "returning" => call'[w].run = call[w].run
         /\ call'[w].pc = "returning" => call'[w].outcome \in PublishOutcomes(FALSE)
         /\ \A v \in Worker : v # w => call'[v] = call[v]
<1>0. Pub!PublishTypeOK /\ call[w].pc \in Pub!CallPhases
  BY DEF Pub!PublishInvariant, Pub!PublishTypeOK
<1>1. DOMAIN call = Worker
      /\ call[w] \in [pc : Pub!CallPhases, release : Job \union {NoRelease},
                      run : Run \union {NoRun}, next : Nat, tries : 0..MaxClaimAttempts,
                      floor : Nat, outcome : Pub!Outcomes \union {"none"}]
  BY <1>0 DEF Pub!PublishTypeOK
<1>2. CASE Pub!ReadCounter(w) \/ Pub!ClaimWins(w) \/ Pub!SendUpload(w)
  <2>1. CASE Pub!ReadCounter(w)
    BY <1>1, <2>1 DEF Pub!ReadCounter
  <2>2. CASE Pub!ClaimWins(w)
    BY <1>1, <2>2 DEF Pub!ClaimWins
  <2>3. CASE Pub!SendUpload(w)
    BY <1>1, <2>3 DEF Pub!SendUpload
  <2> QED
    BY <1>2, <2>1, <2>2, <2>3
<1>3. ASSUME NEW r, NEW outcome, outcome \in PublishOutcomes(FALSE),
             call' = [call EXCEPT ![w] = Pub!Returning(call[w].release, r, outcome)],
             call[w].pc \in {"counting", "claiming", "building", "uploading"}
      PROVE  /\ call[w].pc \in {"counting", "claiming", "building", "uploading"}
             /\ call'[w].pc = "returning"
             /\ call'[w].release = call[w].release
             /\ call'[w].outcome \in PublishOutcomes(FALSE)
             /\ \A v \in Worker : v # w => call'[v] = call[v]
  <2> DEFINE rel == call[w].release
  <2>1. call' = [call EXCEPT ![w] = Pub!Returning(rel, r, outcome)]
    BY <1>3
  <2> HIDE DEF rel
  <2>2. Pub!PublishTypeOK
    BY <1>0
  <2>3. /\ call'[w].pc = "returning"
        /\ call'[w].release = rel
        /\ call'[w].run = r
        /\ call'[w].outcome = outcome
        /\ \A v \in Worker : v # w => call'[v] = call[v]
    BY <2>1, <2>2, CallReturns
  <2> QED
    BY <1>3, <2>3 DEF rel
<1>4. /\ "refused" \in PublishOutcomes(FALSE) /\ "unavailable" \in PublishOutcomes(FALSE)
      /\ "failed_retryable" \in PublishOutcomes(FALSE)
      /\ "failed_final" \in PublishOutcomes(FALSE)
      /\ \A answer : Pub!OutcomeOf(answer) \in PublishOutcomes(FALSE)
  BY DEF PublishOutcomes, PublishDone, Pub!OutcomeOf
<1>5. CASE Pub!ClaimLoses(w)
  <2>1. CASE call' = [call EXCEPT ![w].next = call[w].next + 1, ![w].tries = call[w].tries + 1]
    BY <1>1, <1>5, <2>1 DEF Pub!ClaimLoses
  <2>2. CASE call' = [call EXCEPT ![w] = Pub!Returning(call[w].release, NoRun, "unavailable")]
    BY <1>3, <1>4, <1>5, <2>2 DEF Pub!ClaimLoses
  <2> QED
    BY <1>5, <2>1, <2>2 DEF Pub!ClaimLoses
<1>6. CASE Pub!BuildFails(w) \/ Pub!CloseAnswered(w) \/ Pub!Timeout(w) \/ Pub!Breaks(w)
  BY ZenonT(60), <1>3, <1>4, <1>6 DEF Pub!BuildFails, Pub!CloseAnswered, Pub!Timeout, Pub!Breaks
<1> QED
  BY <1>2, <1>5, <1>6 DEF Pub!CallStep

\* A call whose upload is answered returns the outcome of the answer.
LEMMA CallCloses ==
  ASSUME Pub!PublishTypeOK, NEW w \in Worker, Pub!CloseAnswered(w)
  PROVE  /\ call[w].pc = "uploading" /\ call'[w].pc = "returning"
         /\ call'[w].run = call[w].run
         /\ call'[w].release = call[w].release
         /\ call'[w].outcome = Pub!OutcomeOf(upload[call[w].run])
         /\ \A v \in Worker : v # w => call'[v] = call[v]
         /\ UNCHANGED <<registry, upload>>
<1> DEFINE rel == call[w].release
           r == call[w].run
           outcome == Pub!OutcomeOf(upload[r])
<1>1. /\ call[w].pc = "uploading"
      /\ call' = [call EXCEPT ![w] = Pub!Returning(rel, r, outcome)]
      /\ UNCHANGED <<registry, upload>>
  BY DEF Pub!CloseAnswered
<1> HIDE DEF rel, outcome, r
<1>2. /\ call'[w].pc = "returning"
      /\ call'[w].release = rel
      /\ call'[w].run = r
      /\ call'[w].outcome = outcome
      /\ \A v \in Worker : v # w => call'[v] = call[v]
  BY <1>1, CallReturns
<1> QED
  BY <1>1, <1>2 DEF rel, r, outcome

\* Every step of the publish pipeline leaves every call telling the truth.
LEMMA CallTruthStep ==
  ASSUME Pub!PublishInvariant, Pub!PublishNext \/ UNCHANGED publishVars,
         \A w \in Worker : CallTellsTheTruth(w)
  PROVE  \A w \in Worker : CallTellsTheTruth(w)'
<1>0. Pub!PublishTypeOK
  BY DEF Pub!PublishInvariant
<1>1. CASE UNCHANGED call
  BY <1>1, CallTruthStays
<1>2. ASSUME NEW w \in Worker, CallTellsTheTruth(w)',
             \A v \in Worker : v # w => call'[v] = call[v]
      PROVE  \A v \in Worker : CallTellsTheTruth(v)'
  BY <1>2, CallTruthStays
<1>3. ASSUME NEW w \in Worker, call'[w].pc \notin {"building", "uploading"},
             call'[w].pc = "returning" => call'[w].outcome \notin PublishDone
      PROVE  CallTellsTheTruth(w)'
  BY <1>3 DEF CallTellsTheTruth
<1>4. ASSUME NEW w \in Worker, NEW j \in Job,
             Pub!Begin(w, j) \/ Pub!Refuse(w, j) \/ Pub!DryRun(w, j)
      PROVE  \A v \in Worker : CallTellsTheTruth(v)'
  <2>1. "refused" \notin PublishDone /\ "dry_run" \notin PublishDone
    BY DEF PublishDone
  <2> QED
    BY <1>0, <1>2, <1>3, <1>4, <2>1, CallStarts
<1>5. ASSUME NEW w \in Worker, Pub!Return(w) \/ Pub!Crash(w)
      PROVE  \A v \in Worker : CallTellsTheTruth(v)'
  BY <1>0, <1>2, <1>3, <1>5, CallEnds
<1>6. ASSUME NEW w \in Worker, Pub!CallStep(w) \/ Pub!Breaks(w)
      PROVE  \A v \in Worker : CallTellsTheTruth(v)'
  <2> DEFINE r == call[w].run
  <2>0. DOMAIN ledger = Run /\ r \in Run
    <3>1. call[w].pc \in {"counting", "claiming", "building", "uploading"}
      BY <1>6, CallGoesOn
    <3> QED
      BY <1>0, <3>1, LedgerFields DEF Pub!PublishInvariant, Pub!CallsOwnRows
  <2>1. CASE Pub!ReadCounter(w) \/ Pub!ClaimLoses(w) \/ Pub!BuildFails(w) \/ Pub!Timeout(w)
               \/ Pub!Breaks(w)
    <3>1. /\ call'[w].pc \notin {"building", "uploading"}
          /\ call'[w].pc = "returning" => call'[w].outcome \notin PublishDone
      BY <1>0, <2>1, OneCallMoves, ReturningFields
      DEF Pub!ReadCounter, Pub!ClaimLoses, Pub!BuildFails, Pub!Timeout, Pub!Breaks, PublishDone,
          Pub!PublishTypeOK
    <3> QED
      BY <1>2, <1>3, <1>6, <3>1, CallGoesOn
  <2>2. CASE Pub!ClaimWins(w)
    <3>1. /\ ledger'[r].release = call[w].release
          /\ call'[w].pc = "building" /\ call'[w].run = r
          /\ call'[w].release = call[w].release
      BY <1>0, <2>0, <2>2 DEF Pub!ClaimWins, Pub!PublishTypeOK
    <3>2. CallTellsTheTruth(w)'
      BY <3>1 DEF CallTellsTheTruth
    <3> QED
      BY <1>2, <1>6, <3>2, CallGoesOn
  <2>3. CASE Pub!SendUpload(w)
    <3>1. /\ UNCHANGED ledger
          /\ call[w].pc = "building"
          /\ call'[w].pc = "uploading" /\ call'[w].run = r
          /\ call'[w].release = call[w].release
      BY <1>0, <2>3 DEF Pub!SendUpload, Pub!PublishTypeOK
    <3>2. CallTellsTheTruth(w)'
      BY <3>1 DEF CallTellsTheTruth
    <3> QED
      BY <1>2, <1>6, <3>2, CallGoesOn
  <2>4. CASE Pub!CloseAnswered(w)
    <3>1. /\ call[w].pc = "uploading"
          /\ call'[w].pc = "returning" /\ call'[w].run = r
          /\ call'[w].release = call[w].release
          /\ call'[w].outcome = Pub!OutcomeOf(upload[r])
          /\ UNCHANGED <<registry, upload>>
      BY <1>0, <2>4, CallCloses
    <3>2. /\ ledger[r].status = "in_progress"
          /\ ledger[r].release = call[w].release
          /\ upload[r] = "stored" => registry[ledger[r].counter] = r
          /\ upload[r] = "present" => registry[ledger[r].counter] # NoRun
      BY <2>0, <3>1 DEF Pub!PublishInvariant, Pub!CallsMatchRows, Pub!RowsMatchRegistry,
                        CallTellsTheTruth
    <3>3. /\ ledger'[r].status # "unused"
          /\ ledger'[r].counter = ledger[r].counter
          /\ ledger'[r].release = ledger[r].release
      BY <2>0, <3>2, LedgerMoves
    <3>4. /\ Pub!OutcomeOf(upload[r]) \in PublishDone => upload[r] \in {"stored", "present"}
          /\ Pub!OutcomeOf(upload[r]) = "published" => upload[r] = "stored"
      BY DEF Pub!OutcomeOf, PublishDone
    <3>5. r # NoRun
      BY <2>0, ReleaseAssumption
    <3>6. CallTellsTheTruth(w)'
      BY <2>0, <3>1, <3>2, <3>3, <3>4, <3>5 DEF CallTellsTheTruth
    <3> QED
      BY <1>2, <1>6, <3>6, CallGoesOn
  <2> QED
    BY <1>6, <2>1, <2>2, <2>3, <2>4 DEF Pub!CallStep
<1>7. ASSUME NEW r \in Run, Pub!RegistryAnswers(r)
      PROVE  UNCHANGED call
  BY <1>7 DEF Pub!RegistryAnswers
<1> QED
  BY <1>1, <1>4, <1>5, <1>6, <1>7 DEF Pub!PublishNext, publishVars

-----------------------------------------------------------------------------
(* The composition is the queue, with publish() for its registry step. *)

\* Every step of the composition is a step of the queue, or none.
LEMMA QueueMoves ==
  ASSUME RegenTypeOK, Pub!PublishTypeOK, CallsMatch, WorkersTellTheTruth,
         [ReleaseNext]_releaseVars
  PROVE  [RegenNext]_regenVars
<1>1. ASSUME NEW w \in Worker, CallPublish(w)
      PROVE  RegenNext
  BY <1>1 DEF CallPublish, AnyPublish, RegenNext
<1>2. ASSUME NEW w \in Worker, TakeOutcome(w)
      PROVE  RegenNext
  <2> DEFINE outcome == call[w].outcome
             r == call[w].run
             c == IF r = NoRun THEN NoCounter ELSE ledger[r].counter
  <2>1. /\ call[w].pc = "returning"
        /\ RegistryReturn(w, outcome, c)
    BY <1>2 DEF TakeOutcome, Pub!Return
  <2>2. outcome \in PublishOutcomes(worker[w].sub.dryRun)
    BY <2>1 DEF CallsMatch, CallMatches
  <2>3. CASE outcome \in PublishDone
    <3>1. r \in Run
      BY <2>1, <2>3 DEF WorkersTellTheTruth, CallTellsTheTruth
    <3>2. r # NoRun
      BY <3>1, ReleaseAssumption
    <3>3. c \in Counter
      BY <3>1, <3>2, LedgerFields
    <3> QED
      BY <2>1, <2>2, <3>3 DEF AnyPublish, RegenNext
  <2>4. CASE outcome \notin PublishDone
    <3> HIDE DEF c, outcome
    <3>1. RegistryReturn(w, outcome, 0)
      BY <2>1, <2>4 DEF RegistryReturn
    <3> QED
      BY <2>2, <3>1, NumbersAreCounters DEF AnyPublish, RegenNext
  <2> QED
    BY <2>3, <2>4
<1>3. ASSUME NEW w \in Worker, WorkerDies(w) \/ WorkerStep(w)
      PROVE  RegenNext
  BY <1>3 DEF WorkerDies, RegenNext
<1>4. CASE PublishingNext \/ PeopleNext \/ TimeNext
  BY <1>4 DEF RegenNext
<1>5. CASE UNCHANGED releaseVars
  BY <1>5 DEF releaseVars
<1> QED
  BY <1>1, <1>2, <1>3, <1>4, <1>5 DEF ReleaseNext

\* What publishing, people and time leave alone: the workers, and what a row says was done.
\* A row that may be claimed again was already, or a person asked for it.
LEMMA OutsideEffects ==
  ASSUME RegenInvariant, PublishingNext \/ PeopleNext \/ TimeNext
  PROVE  /\ UNCHANGED <<worker, pull>>
         /\ \A j \in Job : /\ job'[j].done = job[j].done
                           /\ WillPublish(j)' => WillPublish(j) \/ Requeue(j)
<1>0. /\ job \in [Job -> JobRow]
      /\ \A j \in Job : job[j] \in JobRow
  BY DEF RegenInvariant, RegenTypeOK
<1>1. UNCHANGED <<worker, pull>>
  BY DEF PublishingNext, PeopleNext, TimeNext, PublishVersion, Enqueue, DropEnqueue, Withdraw,
      PutSubscription, SetActive, Unsubscribe, AskRetry, Requeue, LeaseExpires, BackoffElapses
<1>2. ASSUME NEW k \in Event, Enqueue(k), NEW j \in Job
      PROVE  /\ job'[j].done = job[j].done
             /\ WillPublish(j)' => WillPublish(j)
  <2>1. CASE job'[j] = job[j]
    BY <2>1 DEF WillPublish
  <2>2. CASE job'[j] # job[j]
    <3> DEFINE rows == {<<k, e>> : e \in {d \in Ecosystem : sub[d].active}}
    <3>1. /\ j \in rows
          /\ job'[j] = [NoJobRow EXCEPT !.status = "pending", !.due = TRUE, !.born = queued,
                                        !.sub = sub[j[2]].id, !.mode = sub[j[2]].mode,
                                        !.dryRun = sub[j[2]].dryRun]
      BY <1>2, <2>2 DEF Enqueue
    <3>2. j[1] = k
      BY <3>1
    <3>3. job[j].status = "absent" /\ job[j].done = Nothing
      BY <1>2, <3>2 DEF Enqueue, RegenInvariant, RowSound
    <3>4. job'[j].done = Nothing
      BY <3>1 DEF NoJobRow
    <3> QED
      BY <3>3, <3>4 DEF WillPublish
  <2> QED
    BY <2>1, <2>2
<1>3. ASSUME NEW e \in Ecosystem, Unsubscribe(e), NEW j \in Job
      PROVE  job'[j].done = job[j].done /\ job'[j].status = job[j].status
  <2>1. job'[j] = job[j] \/ job'[j] = [job[j] EXCEPT !.sub = 0]
    BY <1>3 DEF Unsubscribe
  <2> QED
    BY <1>0, <2>1 DEF JobRow
<1>4. ASSUME NEW i \in Job, LeaseExpires(i) \/ BackoffElapses(i), NEW j \in Job
      PROVE  job'[j].done = job[j].done /\ job'[j].status = job[j].status
  <2>1. \/ job'[j] = job[j]
        \/ job'[j] = [job[j] EXCEPT !.expired = TRUE]
        \/ job'[j] = [job[j] EXCEPT !.due = TRUE]
    BY <1>0, <1>4 DEF LeaseExpires, BackoffElapses
  <2> QED
    BY <1>0, <2>1 DEF JobRow
<1>5. ASSUME NEW i \in Job, Requeue(i), NEW j \in Job
      PROVE  /\ job'[j].done = job[j].done
             /\ j # i => job'[j].status = job[j].status
  <2>1. \/ job'[j] = job[j]
        \/ j = i /\ job'[j] = [job[j] EXCEPT !.status = "pending", !.attempts = 0,
                                             !.due = TRUE, !.lost = FALSE]
    BY <1>0, <1>5 DEF Requeue
  <2> QED
    BY <1>0, <2>1 DEF JobRow
<1>6. ASSUME NEW j \in Job, job'[j].done = job[j].done, job'[j].status = job[j].status
      PROVE  WillPublish(j)' => WillPublish(j)
  BY <1>6 DEF WillPublish
<1>7. ASSUME UNCHANGED job
      PROVE  \A j \in Job : /\ job'[j].done = job[j].done
                            /\ WillPublish(j)' => WillPublish(j)
  BY <1>7 DEF WillPublish
<1>8. ASSUME NEW i \in Job, Requeue(i), NEW j \in Job
      PROVE  /\ job'[j].done = job[j].done
             /\ WillPublish(j)' => WillPublish(j) \/ Requeue(j)
  BY <1>5, <1>6, <1>8
<1>9. \A j \in Job : /\ job'[j].done = job[j].done
                     /\ WillPublish(j)' => WillPublish(j) \/ Requeue(j)
  <2>1. CASE PublishingNext
    BY <1>2, <1>7, <2>1 DEF PublishingNext, PublishVersion, DropEnqueue, Withdraw
  <2>2. CASE PeopleNext
    BY <1>3, <1>6, <1>7, <1>8, <2>2 DEF PeopleNext, PutSubscription, SetActive, AskRetry
  <2>3. CASE TimeNext
    BY <1>4, <1>6, <2>3 DEF TimeNext
  <2> QED
    BY <2>1, <2>2, <2>3
<1> QED
  BY <1>1, <1>9

\* A worker between attempts, or done with one.
Unoccupied == {"idle", "reaping", "claiming", "alerting"}

\* What a step of its own does to a worker's knowledge: it forgets it, keeps it, or takes the
\* row's with a claim.  It never enters the registry step knowing of a published version.
LEMMA WorkerEffects ==
  ASSUME RegenInvariant, NEW w \in Worker, WorkerStep(w) \/ Crash(w)
  PROVE  /\ \A v \in Worker : v # w => worker'[v] = worker[v]
         /\ worker'[w].pc # "publishing"
         /\ WorkerStep(w) => worker[w].pc # "publishing"
         /\ worker'[w].pc = "registry" => worker'[w].done.publish \notin PublishDone
         /\ \/ worker'[w].pc \in Unoccupied /\ worker'[w].done = Nothing
            \/ /\ worker'[w].job = worker[w].job
               /\ worker'[w].done.publish = worker[w].done.publish
               /\ worker'[w].done.counter = worker[w].done.counter
               /\ worker'[w].pc \in Unoccupied \/ worker[w].pc \notin Unoccupied
            \/ \E j \in Job : /\ Claim(w, j)
                              /\ worker'[w].job = j
                              /\ worker'[w].done = job[j].done
<1> DEFINE me == worker[w]
<1>0. /\ RegenTypeOK
      /\ worker \in [Worker -> WorkerState] /\ me \in WorkerState /\ me.done \in Progress
  BY WorkerFields DEF RegenInvariant, RegenTypeOK
<1>1. ASSUME NEW new, worker' = [worker EXCEPT ![w] = new]
      PROVE  worker'[w] = new /\ \A v \in Worker : v # w => worker'[v] = worker[v]
  BY <1>0, <1>1
<1>2. CASE Tick(w) \/ ReapFails(w) \/ ClaimFails(w) \/ EndTick(w) \/ FinishFails(w) \/ Crash(w)
  <2>1. PICK new : /\ worker' = [worker EXCEPT ![w] = new]
                   /\ new.pc \in {"idle", "reaping", "claiming"}
                   /\ new.done = Nothing
    <3>1. CASE Tick(w)
      <4> DEFINE stale == {j \in Job : IsStale(j)}
                 pc == IF stale = {} THEN "claiming" ELSE "reaping"
                 reaped == {<<j, job[j].token>> : j \in stale}
                 new == [IdleWorker EXCEPT !.pc = pc, !.left = BatchSize, !.reaped = reaped]
      <4>1. worker' = [worker EXCEPT ![w] = new]
        BY <3>1 DEF Tick
      <4>2. pc \in {"reaping", "claiming"}
        OBVIOUS
      <4> HIDE DEF pc, reaped
      <4>3. new.pc = pc /\ new.done = Nothing
        BY DEF IdleWorker
      <4> QED
        BY <4>1, <4>2, <4>3
    <3>2. CASE ReapFails(w)
      <4> DEFINE new == [IdleWorker EXCEPT !.pc = "claiming", !.left = BatchSize]
      <4>1. worker' = [worker EXCEPT ![w] = new]
        BY <3>2 DEF ReapFails
      <4>2. new.pc = "claiming" /\ new.done = Nothing
        BY DEF IdleWorker
      <4> QED
        BY <4>1, <4>2
    <3>3. CASE ClaimFails(w) \/ EndTick(w) \/ Crash(w)
      BY <3>3, IdleFields DEF ClaimFails, EndTick, Crash
    <3>4. CASE FinishFails(w)
      BY <3>4, NextInBatchFields DEF FinishFails
    <3> QED
      BY <1>2, <3>1, <3>2, <3>3, <3>4
  <2>2. worker[w].pc # "publishing" \/ Crash(w)
    BY <1>2 DEF Tick, ReapFails, ClaimFails, EndTick, FinishFails
  <2>3. WorkerStep(w) => worker[w].pc # "publishing"
    BY DEF WorkerStep, Tick, ReapFails, AlertReaped, Claim, ClaimFails, EndTick, Start,
           SaveProgress, GitPush, GitReturn, Finish, FinishFails, Alert
  <2> QED
    BY <1>1, <2>1, <2>3 DEF Unoccupied
<1>3. ASSUME NEW new, worker' = [worker EXCEPT ![w] = new], me.pc # "publishing",
             new.pc \in Unoccupied, new.job = me.job, new.done = me.done
      PROVE  /\ \A v \in Worker : v # w => worker'[v] = worker[v]
             /\ worker'[w].pc # "publishing" /\ worker[w].pc # "publishing"
             /\ worker'[w].pc # "registry"
             /\ worker'[w].pc \in Unoccupied /\ worker'[w].job = worker[w].job
             /\ worker'[w].done = worker[w].done
  BY <1>1, <1>3 DEF Unoccupied
<1>4. CASE AlertReaped(w)
  <2>1. PICK x \in me.reaped :
          worker' = [worker EXCEPT ![w].reaped = me.reaped \ {x},
                                   ![w].pc = IF me.reaped = {x} THEN "claiming" ELSE "reaping"]
    BY <1>4 DEF AlertReaped
  <2> DEFINE left == me.reaped \ {x}
             pc == IF me.reaped = {x} THEN "claiming" ELSE "reaping"
             new == [me EXCEPT !.reaped = left, !.pc = pc]
  <2>2. new.pc = pc /\ new.job = me.job /\ new.done = me.done
    BY <1>0 DEF WorkerState
  <2>3. worker' = [worker EXCEPT ![w] = new]
    BY <2>1
  <2> HIDE DEF new
  <2>4. me.pc = "reaping" /\ pc \in Unoccupied
    BY <1>4 DEF AlertReaped, Unoccupied
  <2> QED
    BY <1>3, <2>2, <2>3, <2>4
<1>5. ASSUME NEW j \in Job, Claim(w, j)
      PROVE  /\ \A v \in Worker : v # w => worker'[v] = worker[v]
             /\ worker[w].pc = "claiming" /\ worker'[w].pc = "starting"
             /\ worker'[w].job = j /\ worker'[w].done = job[j].done
  <2> DEFINE t == CHOOSE x \in FreshTokens : TRUE
             s == IF job[j].sub = sub[j[2]].id THEN sub[j[2]] ELSE NoSub
             n == job[j].attempts + 1
             new == [me EXCEPT !.pc = "starting", !.left = me.left - 1, !.job = j, !.token = t,
                               !.attempt = n, !.done = job[j].done, !.sub = s]
  <2>1. worker' = [worker EXCEPT ![w] = new] /\ me.pc = "claiming"
    BY <1>5 DEF Claim
  <2> HIDE DEF t, s, n
  <2>2. new.pc = "starting" /\ new.job = j /\ new.done = job[j].done
    BY <1>0 DEF WorkerState
  <2> HIDE DEF new
  <2> QED
    BY <1>1, <2>1, <2>2
<1>6. ASSUME NEW pc, NEW done, NEW result,
             worker' = [worker EXCEPT ![w] = [me EXCEPT !.pc = pc, !.done = done,
                                                        !.result = result]]
      PROVE  /\ worker'[w].pc = pc /\ worker'[w].job = me.job /\ worker'[w].done = done
             /\ \A v \in Worker : v # w => worker'[v] = worker[v]
  <2> DEFINE new == [me EXCEPT !.pc = pc, !.done = done, !.result = result]
  <2>1. new.pc = pc /\ new.job = me.job /\ new.done = done
    BY <1>0 DEF WorkerState
  <2>2. worker' = [worker EXCEPT ![w] = new]
    BY <1>6
  <2> HIDE DEF new
  <2> QED
    BY <1>1, <2>1, <2>2
<1>7. ASSUME NEW pc, GoTo(w, pc)
      PROVE  /\ worker'[w].pc = pc /\ worker'[w].job = me.job /\ worker'[w].done = me.done
             /\ \A v \in Worker : v # w => worker'[v] = worker[v]
  <2> DEFINE done == me.done
             result == me.result
  <2>1. worker' = [worker EXCEPT ![w] = [me EXCEPT !.pc = pc, !.done = done,
                                                   !.result = result]]
    BY <1>7, GoToGoesOn
  <2> HIDE DEF done, result
  <2>2. /\ worker'[w].pc = pc /\ worker'[w].job = me.job /\ worker'[w].done = done
        /\ \A v \in Worker : v # w => worker'[v] = worker[v]
    BY <1>6, <2>1
  <2> QED
    BY <2>2 DEF done
<1>8. ASSUME NEW done, NEW result, Conclude(w, done, result)
      PROVE  /\ worker'[w].pc = "closing" /\ worker'[w].job = me.job /\ worker'[w].done = done
             /\ \A v \in Worker : v # w => worker'[v] = worker[v]
  <2>1. worker' = [worker EXCEPT ![w] = [me EXCEPT !.pc = "closing", !.done = done,
                                                   !.result = result]]
    BY ZenonT(60), <1>8, ConcludeGoesOn
  <2> QED
    BY <1>6, <2>1
<1>9. CASE Start(w)
  <2>1. me.pc = "starting"
    BY <1>9 DEF Start
  <2>2. \/ \E result : Conclude(w, me.done, result)
        \/ NeedsRegistry(w) /\ GoTo(w, "registry")
        \/ GoTo(w, "git")
    BY <1>9 DEF Start
  <2>3. NeedsRegistry(w) => me.done.publish \notin PublishDone
    BY DEF NeedsRegistry, RegistryStepDone
  <2> QED
    BY <1>7, <1>8, <2>1, <2>2, <2>3 DEF Unoccupied
<1>10. CASE SaveProgress(w)
  <2>1. me.pc = "saving"
    BY <1>10 DEF SaveProgress
  <2>2. GoTo(w, "git") \/ Conclude(w, me.done, "succeeded")
    BY <1>10 DEF SaveProgress
  <2> QED
    BY <1>7, <1>8, <2>1, <2>2 DEF Unoccupied
<1>11. CASE GitPush(w)
  BY <1>11 DEF GitPush, Unoccupied
<1>12. ASSUME NEW result, GitReturn(w, result)
       PROVE  /\ worker'[w].pc = "closing" /\ worker'[w].job = me.job /\ me.pc = "git"
              /\ worker'[w].done.publish = me.done.publish
              /\ worker'[w].done.counter = me.done.counter
              /\ \A v \in Worker : v # w => worker'[v] = worker[v]
  <2>1. me.pc = "git" /\ \E git : Conclude(w, [me.done EXCEPT !.git = git], result)
    BY <1>12 DEF GitReturn
  <2>2. PICK git : Conclude(w, [me.done EXCEPT !.git = git], result)
    BY <2>1
  <2> DEFINE done == [me.done EXCEPT !.git = git]
  <2>3. done.publish = me.done.publish /\ done.counter = me.done.counter
    BY <1>0 DEF Progress
  <2> HIDE DEF done
  <2>4. Conclude(w, done, result)
    BY <2>2 DEF done
  <2> QED
    BY <1>8, <2>1, <2>3, <2>4
<1>13. CASE Finish(w)
  <2>1. me.pc = "closing"
    BY <1>13 DEF Finish
  <2>2. GoTo(w, "alerting") \/ worker' = [worker EXCEPT ![w] = NextInBatch(w)]
    BY <1>13 DEF Finish
  <2> QED
    BY <1>1, <1>7, <2>1, <2>2, NextInBatchFields DEF Unoccupied
<1>14. CASE Alert(w)
  BY <1>1, <1>14, NextInBatchFields DEF Alert, Unoccupied
<1> QED
  BY <1>2, <1>3, <1>4, <1>5, <1>9, <1>10, <1>11, <1>12, <1>13, <1>14
  DEF WorkerStep, Unoccupied

\* What a worker's step does to a row and its delivery: what the row says was done is kept,
\* or becomes what the worker knows, while its claim is open or as it closes it.
LEMMA RowEffects ==
  ASSUME RegenInvariant, NEW w \in Worker, WorkerStep(w) \/ Crash(w) \/ AnyPublish(w), NEW j \in Job
  PROVE  /\ \/ /\ job'[j].done = job[j].done
               /\ WillPublish(j)' => WillPublish(j)
            \/ /\ worker[w].job = j
               /\ job'[j].done.publish = worker[w].done.publish
               /\ job'[j].done.counter = worker[w].done.counter
               /\ ~WillPublish(j)' \/ Finish(w)
         /\ pull'[j] = pull[j] \/ (worker[w].job = j /\ pull'[j] = Pinned(worker[w].done))
<1> DEFINE me == worker[w]
<1>0. /\ job \in [Job -> JobRow] /\ me.job \in Job
      /\ \A i \in Job : job[i] \in JobRow /\ job[i].done \in Progress
      /\ pull \in [Job -> Counter \union {NoCounter}]
  BY WorkerFields, RowFields DEF RegenInvariant, RegenTypeOK
<1>1. ASSUME UNCHANGED job
      PROVE  job'[j].done = job[j].done /\ (WillPublish(j)' => WillPublish(j))
  BY <1>1 DEF WillPublish
<1>2. ASSUME job'[j].done = job[j].done, job'[j].status = job[j].status
      PROVE  WillPublish(j)' => WillPublish(j)
  BY <1>2 DEF WillPublish
<1>3. ASSUME job'[j].status \notin {"pending", "retrying", "absent"}
      PROVE  ~WillPublish(j)'
  BY <1>3 DEF WillPublish, Claimable
<1>4. CASE Tick(w)
  <2>1. \/ job'[j] = job[j]
        \/ job'[j] = [job[j] EXCEPT !.status = "dead_letter", !.due = FALSE, !.lost = TRUE,
                                    !.expired = FALSE, !.settled = TRUE]
    BY <1>4 DEF Tick
  <2>2. /\ job'[j].done = job[j].done
        /\ job'[j].status = job[j].status \/ job'[j].status = "dead_letter"
    BY <1>0, <2>1 DEF JobRow
  <2> QED
    BY <1>2, <1>3, <1>4, <2>2 DEF Tick
<1>5. ASSUME NEW i \in Job, NEW t, Notify(i, t)
      PROVE  job'[j].done = job[j].done /\ job'[j].status = job[j].status
  <2>1. job'[j] = job[j] \/ job'[j] = [job[j] EXCEPT !.alerted = TRUE]
    BY <1>0, <1>5 DEF Notify
  <2> QED
    BY <1>0, <2>1 DEF JobRow
<1>6. CASE AlertReaped(w) \/ Alert(w)
  <2>1. \A x \in me.reaped : x[1] \in Job
    BY WorkerFields DEF RegenInvariant
  <2> QED
    BY <1>0, <1>2, <1>5, <1>6, <2>1 DEF AlertReaped, Alert
<1>7. ASSUME NEW i \in Job, Claim(w, i)
      PROVE  /\ job'[j].done = job[j].done
             /\ WillPublish(j)' => WillPublish(j)
             /\ UNCHANGED pull
  <2> DEFINE t == CHOOSE x \in FreshTokens : TRUE
             n == job[i].attempts + 1
             row == [job[i] EXCEPT !.status = "running", !.attempts = n, !.due = FALSE,
                                   !.expired = FALSE, !.token = t, !.alerted = FALSE]
  <2>1. job' = [job EXCEPT ![i] = row] /\ UNCHANGED pull
    BY <1>7 DEF Claim
  <2> HIDE DEF t, n
  <2>2. row.done = job[i].done /\ row.status = "running"
    BY <1>0 DEF JobRow
  <2> HIDE DEF row
  <2>3. CASE j = i
    BY <1>0, <1>3, <2>1, <2>2, <2>3
  <2>4. CASE j # i
    BY <1>0, <1>2, <2>1, <2>4
  <2> QED
    BY <2>3, <2>4
<1>8. CASE SaveProgress(w)
  <2> DEFINE done == [job[me.job].done EXCEPT !.publish = me.done.publish,
                                              !.counter = me.done.counter]
             row == [job[me.job] EXCEPT !.done = done]
  <2>1. /\ job' = job \/ (ClaimHolds(w) /\ job' = [job EXCEPT ![me.job] = row])
        /\ UNCHANGED pull
    <3>1. [job EXCEPT ![me.job].done.publish = me.done.publish,
                      ![me.job].done.counter = me.done.counter] = [job EXCEPT ![me.job] = row]
      OBVIOUS
    <3> QED
      BY <1>8, <3>1 DEF SaveProgress
  <2>2. done.publish = me.done.publish /\ done.counter = me.done.counter
    BY <1>0 DEF Progress
  <2> HIDE DEF done
  <2>3. row.done = done /\ row.status = job[me.job].status
    BY <1>0 DEF JobRow
  <2> HIDE DEF row
  <2>4. CASE UNCHANGED job
    BY <1>1, <2>1, <2>4
  <2>5. CASE ClaimHolds(w) /\ job' = [job EXCEPT ![me.job] = row] /\ j = me.job
    <3>1. job'[j] = row /\ row.status = "running"
      BY <1>0, <2>3, <2>5 DEF ClaimHolds
    <3> QED
      BY <1>3, <2>1, <2>2, <2>3, <2>5, <3>1
  <2>6. CASE job' = [job EXCEPT ![me.job] = row] /\ j # me.job
    <3>1. job'[j] = job[j]
      BY <1>0, <2>6
    <3> QED
      BY <1>2, <2>1, <3>1
  <2> QED
    BY <2>1, <2>4, <2>5, <2>6
<1>9. CASE Finish(w)
  <2>1. CASE UNCHANGED job
    BY <1>1, <1>9, <2>1 DEF Finish
  <2>2. CASE job' = [job EXCEPT ![me.job] = ClosedRow(w)]
    <3>1. ClosedRow(w).done = me.done
      BY <1>0 DEF ClosedRow, JobRow
    <3>2. CASE j = me.job
      BY <1>0, <1>9, <2>2, <3>1, <3>2 DEF Finish
    <3>3. CASE j # me.job
      <4>1. job'[j] = job[j]
        BY <1>0, <2>2, <3>3
      <4> QED
        BY <1>2, <1>9, <4>1 DEF Finish
    <3> QED
      BY <3>2, <3>3
  <2> QED
    BY <1>9, <2>1, <2>2 DEF Finish
<1>10. CASE GitPush(w) \/ \E result \in {"succeeded", "transient", "permanent"} :
                             GitReturn(w, result)
  <2>1. /\ UNCHANGED job
        /\ pull' = pull \/ pull' = [pull EXCEPT ![me.job] = Pinned(me.done)]
    BY <1>10 DEF GitPush, GitReturn
  <2>2. pull'[j] = pull[j] \/ (me.job = j /\ pull'[j] = Pinned(me.done))
    BY <1>0, <2>1
  <2> QED
    BY <1>1, <2>1, <2>2
<1>11. CASE \/ ReapFails(w) \/ ClaimFails(w) \/ EndTick(w) \/ Start(w) \/ FinishFails(w)
            \/ Crash(w) \/ AnyPublish(w)
  <2>1. UNCHANGED <<job, pull>>
    BY <1>11 DEF ReapFails, ClaimFails, EndTick, Start, FinishFails, Crash, AnyPublish,
                 RegistryStart, RegistryReturn
  <2> QED
    BY <1>1, <2>1
<1> QED
  BY <1>4, <1>6, <1>7, <1>8, <1>9, <1>10, <1>11 DEF WorkerStep, Tick, AlertReaped, Alert

\* What the registry step does to its worker.
LEMMA RegistryEffects ==
  ASSUME RegenTypeOK, NEW w \in Worker
  PROVE  /\ RegistryStart(w) =>
              /\ worker[w].pc = "registry" /\ worker'[w].pc = "publishing"
              /\ worker'[w].job = worker[w].job /\ worker'[w].sub = worker[w].sub
              /\ worker'[w].done.publish = "none"
              /\ \A v \in Worker : v # w => worker'[v] = worker[v]
         /\ \A outcome, c : RegistryReturn(w, outcome, c) =>
              /\ worker[w].pc = "publishing" /\ worker'[w].pc \in {"saving", "closing"}
              /\ worker'[w].job = worker[w].job
              /\ worker'[w].done.publish \in PublishDone \union {"dry_run", "failed"}
              /\ outcome \in PublishDone => worker'[w].done.publish = outcome
              /\ worker'[w].done.publish \in PublishDone =>
                    worker'[w].done.publish = outcome /\ worker'[w].done.counter = c
              /\ \A v \in Worker : v # w => worker'[v] = worker[v]
<1> DEFINE me == worker[w]
<1>0. worker \in [Worker -> WorkerState] /\ me \in WorkerState /\ me.done \in Progress
  BY WorkerFields DEF RegenTypeOK
<1>1. ASSUME RegistryStart(w)
      PROVE  /\ worker[w].pc = "registry" /\ worker'[w].pc = "publishing"
             /\ worker'[w].job = worker[w].job /\ worker'[w].sub = worker[w].sub
             /\ worker'[w].done.publish = "none"
             /\ \A v \in Worker : v # w => worker'[v] = worker[v]
  <2> DEFINE done == [me.done EXCEPT !.publish = "none", !.counter = NoCounter]
             new == [me EXCEPT !.pc = "publishing", !.done = done]
  <2>1. worker' = [worker EXCEPT ![w] = new] /\ me.pc = "registry"
    BY <1>1 DEF RegistryStart
  <2>2. done.publish = "none"
    BY <1>0 DEF Progress
  <2> HIDE DEF done
  <2>3. new.pc = "publishing" /\ new.job = me.job /\ new.sub = me.sub /\ new.done = done
    BY <1>0 DEF WorkerState
  <2> HIDE DEF new
  <2> QED
    BY <1>0, <2>1, <2>2, <2>3
<1>2. ASSUME NEW outcome, NEW c, RegistryReturn(w, outcome, c)
      PROVE  /\ worker[w].pc = "publishing" /\ worker'[w].pc \in {"saving", "closing"}
             /\ worker'[w].job = worker[w].job
             /\ worker'[w].done.publish \in PublishDone \union {"dry_run", "failed"}
             /\ outcome \in PublishDone => worker'[w].done.publish = outcome
             /\ worker'[w].done.publish \in PublishDone =>
                   worker'[w].done.publish = outcome /\ worker'[w].done.counter = c
             /\ \A v \in Worker : v # w => worker'[v] = worker[v]
  <2> DEFINE publish == IF outcome \in PublishDone \union {"dry_run"} THEN outcome ELSE "failed"
             counter == IF outcome \in PublishDone THEN c ELSE NoCounter
             done == [me.done EXCEPT !.publish = publish, !.counter = counter]
             saving == [me EXCEPT !.pc = "saving", !.done = done]
  <2>1. /\ me.pc = "publishing"
        /\ \/ \E result : Conclude(w, done, result)
           \/ worker' = [worker EXCEPT ![w] = saving]
    BY <1>2 DEF RegistryReturn
  <2>2. /\ publish \in PublishDone \union {"dry_run", "failed"}
        /\ outcome \in PublishDone => publish = outcome
        /\ publish \in PublishDone => publish = outcome /\ counter = c
    BY DEF PublishDone
  <2> HIDE DEF publish, counter
  <2>3. done.publish = publish /\ done.counter = counter
    BY <1>0 DEF Progress
  <2> HIDE DEF done
  <2>4. CASE worker' = [worker EXCEPT ![w] = saving]
    <3>1. saving.pc = "saving" /\ saving.job = me.job /\ saving.done = done
      BY <1>0 DEF WorkerState
    <3> HIDE DEF saving
    <3> QED
      BY <1>0, <2>1, <2>2, <2>3, <2>4, <3>1
  <2>5. ASSUME NEW result, Conclude(w, done, result)
        PROVE  /\ worker'[w].pc = "closing" /\ worker'[w].job = me.job /\ worker'[w].done = done
               /\ \A v \in Worker : v # w => worker'[v] = worker[v]
    <3> DEFINE closing == [me EXCEPT !.pc = "closing", !.done = done, !.result = result]
    <3>1. worker' = [worker EXCEPT ![w] = closing]
      BY ZenonT(60), <2>5, ConcludeGoesOn
    <3>2. closing.pc = "closing" /\ closing.job = me.job /\ closing.done = done
      BY <1>0 DEF WorkerState
    <3> HIDE DEF closing
    <3> QED
      BY <1>0, <3>1, <3>2
  <2>6. CASE \E result : Conclude(w, done, result)
    BY <2>1, <2>2, <2>3, <2>5, <2>6
  <2> QED
    BY <2>1, <2>4, <2>6
<1> QED
  BY <1>1, <1>2

\* Every step keeps the calls of one component the threads of the other.
LEMMA CallsMatchStep ==
  ASSUME RegenInvariant, Pub!PublishInvariant, CallsMatch, [ReleaseNext]_releaseVars
  PROVE  CallsMatch'
<1>0. RegenTypeOK /\ Pub!PublishTypeOK
  BY DEF RegenInvariant, Pub!PublishInvariant
<1>1. ASSUME NEW w \in Worker, worker'[w] = worker[w], call'[w] = call[w]
      PROVE  CallMatches(w)'
  BY <1>1 DEF CallsMatch, CallMatches
<1>2. ASSUME NEW w \in Worker, worker'[w].pc # "publishing", call'[w].pc = "idle"
      PROVE  CallMatches(w)'
  BY <1>2 DEF CallMatches
<1>3. ASSUME NEW w \in Worker, CallPublish(w)
      PROVE  CallsMatch'
  <2> DEFINE j == worker[w].job
  <2>1. /\ j \in Job /\ worker[w].sub.dryRun \in BOOLEAN
    BY <1>0, WorkerFields DEF Sub
  <2>2. /\ worker'[w].pc = "publishing" /\ worker'[w].job = j /\ worker'[w].sub = worker[w].sub
        /\ \A v \in Worker : v # w => worker'[v] = worker[v]
    BY <1>0, <1>3, RegistryEffects DEF CallPublish
  <2>3. \/ Pub!Refuse(w, j)
        \/ worker[w].sub.dryRun /\ Pub!DryRun(w, j)
        \/ ~worker[w].sub.dryRun /\ Pub!Begin(w, j)
    BY <1>3 DEF CallPublish
  <2>4. /\ call'[w].release = j
        /\ \/ call'[w].pc = "returning" /\ call'[w].outcome = "refused"
           \/ /\ worker[w].sub.dryRun
              /\ call'[w].pc = "returning" /\ call'[w].outcome = "dry_run"
           \/ ~worker[w].sub.dryRun /\ call'[w].pc = "counting"
        /\ \A v \in Worker : v # w => call'[v] = call[v]
    <3>1. CASE Pub!Refuse(w, j)
      <4>1. call' = [call EXCEPT ![w] = Pub!Returning(j, NoRun, "refused")]
        BY <3>1 DEF Pub!Refuse
      <4> HIDE DEF j
      <4>2. /\ call'[w].pc = "returning"
            /\ call'[w].release = j
            /\ call'[w].run = NoRun
            /\ call'[w].outcome = "refused"
            /\ \A v \in Worker : v # w => call'[v] = call[v]
        BY <1>0, <4>1, CallReturns
      <4> QED
        BY <4>2
    <3>2. CASE worker[w].sub.dryRun /\ Pub!DryRun(w, j)
      <4>1. call' = [call EXCEPT ![w] = Pub!Returning(j, NoRun, "dry_run")]
        BY <3>2 DEF Pub!DryRun
      <4> HIDE DEF j
      <4>2. /\ call'[w].pc = "returning"
            /\ call'[w].release = j
            /\ call'[w].run = NoRun
            /\ call'[w].outcome = "dry_run"
            /\ \A v \in Worker : v # w => call'[v] = call[v]
        BY <1>0, <4>1, CallReturns
      <4> QED
        BY <3>2, <4>2
    <3>3. CASE ~worker[w].sub.dryRun /\ Pub!Begin(w, j)
      <4>1. PICK r \in Run, n \in 0..(MaxCounter + 1) :
              call' = [call EXCEPT ![w] = Pub!CallOf("counting", j, r, n, "none")]
        BY <3>3 DEF Pub!Begin
      <4>2. /\ Pub!CallOf("counting", j, r, n, "none").pc = "counting"
            /\ Pub!CallOf("counting", j, r, n, "none").release = j
        BY DEF Pub!CallOf
      <4> QED
        BY <1>0, <3>3, <4>1, <4>2, OneCallMoves
    <3> QED
      BY <2>3, <3>1, <3>2, <3>3
  <2>5. CallMatches(w)'
    BY <2>1, <2>2, <2>4 DEF CallMatches, PublishOutcomes
  <2> QED
    BY <1>1, <2>2, <2>4, <2>5 DEF CallsMatch
<1>4. ASSUME NEW w \in Worker, TakeOutcome(w)
      PROVE  CallsMatch'
  <2> DEFINE c == IF call[w].run = NoRun THEN NoCounter ELSE ledger[call[w].run].counter
  <2>1. Pub!Return(w) /\ RegistryReturn(w, call[w].outcome, c)
    BY <1>4 DEF TakeOutcome
  <2> HIDE DEF c
  <2>2. /\ worker'[w].pc \in {"saving", "closing"}
        /\ \A v \in Worker : v # w => worker'[v] = worker[v]
    BY <1>0, <2>1, RegistryEffects
  <2> QED
    BY <1>0, <1>1, <1>2, <2>1, <2>2, CallEnds DEF CallsMatch
<1>5. ASSUME NEW w \in Worker, WorkerDies(w)
      PROVE  CallsMatch'
  <2>1. /\ worker'[w].pc # "publishing"
        /\ \A v \in Worker : v # w => worker'[v] = worker[v]
    BY <1>5, WorkerEffects DEF WorkerDies
  <2>2. /\ call'[w].pc = "idle"
        /\ \A v \in Worker : v # w => call'[v] = call[v]
    BY <1>0, <1>5, CallEnds DEF WorkerDies, publishVars
  <2> QED
    BY <1>1, <1>2, <2>1, <2>2 DEF CallsMatch
<1>6. ASSUME NEW w \in Worker, WorkerStep(w), UNCHANGED publishVars
      PROVE  CallsMatch'
  <2>1. /\ worker[w].pc # "publishing" /\ worker'[w].pc # "publishing"
        /\ \A v \in Worker : v # w => worker'[v] = worker[v]
    BY <1>6, WorkerEffects
  <2>2. call[w].pc = "idle" /\ UNCHANGED call
    BY <1>6, <2>1 DEF CallsMatch, CallMatches, publishVars
  <2> QED
    BY <1>1, <1>2, <2>1, <2>2 DEF CallsMatch
<1>7. CASE UNCHANGED <<worker, call>>
  BY <1>1, <1>7 DEF CallsMatch
<1>8. CASE UNCHANGED publishVars /\ (PublishingNext \/ PeopleNext \/ TimeNext)
  BY <1>7, <1>8, OutsideEffects DEF publishVars
<1>9. ASSUME NEW w \in Worker, UNCHANGED regenVars, Pub!CallStep(w) \/ Pub!Breaks(w)
      PROVE  CallsMatch'
  <2>1. /\ call[w].pc \in {"counting", "claiming", "building", "uploading"}
        /\ call'[w].pc \in {"claiming", "building", "uploading", "returning"}
        /\ call'[w].release = call[w].release
        /\ call'[w].pc = "returning" => call'[w].outcome \in PublishOutcomes(FALSE)
        /\ \A v \in Worker : v # w => call'[v] = call[v]
    BY <1>9, CallGoesOn
  <2>2. UNCHANGED worker
    BY <1>9 DEF regenVars
  <2>3. /\ worker[w].pc = "publishing" /\ call[w].release = worker[w].job
        /\ worker[w].sub.dryRun = FALSE
    <3>1. worker[w].sub.dryRun \in BOOLEAN
      BY <1>0, WorkerFields DEF Sub
    <3> QED
      BY <2>1, <3>1 DEF CallsMatch, CallMatches
  <2>4. CallMatches(w)'
    BY <2>1, <2>2, <2>3 DEF CallMatches
  <2> QED
    BY <1>1, <2>1, <2>2, <2>4 DEF CallsMatch
<1>10. CASE UNCHANGED regenVars /\ \E r \in Run : Pub!RegistryAnswers(r)
  BY <1>7, <1>10 DEF regenVars, Pub!RegistryAnswers
<1>11. CASE UNCHANGED releaseVars
  BY <1>7, <1>11 DEF releaseVars, regenVars
<1> QED
  BY <1>3, <1>4, <1>5, <1>6, <1>8, <1>9, <1>10, <1>11 DEF ReleaseNext

-----------------------------------------------------------------------------
(* Rows, workers, calls and pull requests tell the truth. *)

\* Progress that says nothing was published is true, and so is a copy of true progress.
LEMMA TruthCopied ==
  /\ \A j, done : done.publish \notin PublishDone => TruthAfter(j, done)
  /\ \A j, done, copy :
        /\ TruthAfter(j, done)
        /\ copy.publish = done.publish
        /\ copy.counter = done.counter
        => TruthAfter(j, copy)
BY DEF TruthAfter, PublishDone

\* Every step keeps all of it, and sends no worker to publish again what it knows of.
LEMMA TruthStep ==
  ASSUME RegenInvariant, Pub!PublishInvariant, CallsMatch,
         RowTellsTheTruth, PullIsInstallable, WorkersTellTheTruth, PublishesOnce,
         [ReleaseNext]_releaseVars
  PROVE  RowTellsTheTruth' /\ PullIsInstallable' /\ WorkersTellTheTruth' /\ PublishesOnce'
<1>0. RegenTypeOK /\ Pub!PublishTypeOK
  BY DEF RegenInvariant, Pub!PublishInvariant
<1>1. Pub!PublishNext \/ UNCHANGED publishVars
  BY <1>0, PublishMoves
<1>2. \A j \in Job : TruthAfter(j, job[j].done)
  BY <1>1, TruthStays DEF RowTellsTheTruth
<1>3. \A w \in Worker : TruthAfter(worker[w].job, worker[w].done)
  BY <1>1, TruthStays DEF WorkersTellTheTruth
<1>4. \A w \in Worker : CallTellsTheTruth(w)'
  BY <1>1, CallTruthStep DEF WorkersTellTheTruth
<1>5. \A j \in Job : pull[j] # NoCounter => registry'[pull[j]] # NoRun
  <2>1. \A j \in Job : pull[j] \in Counter \union {NoCounter}
    BY <1>0 DEF RegenTypeOK
  <2> QED
    BY <1>1, <2>1, RegistryStays DEF PullIsInstallable
<1>6. ASSUME \A j \in Job : TruthAfter(j, job'[j].done)
      PROVE  RowTellsTheTruth'
  BY <1>6 DEF RowTellsTheTruth, TellsTheTruth, TruthAfter
<1>7. ASSUME \A w \in Worker : /\ TruthAfter(worker'[w].job, worker'[w].done)
                              /\ \/ worker'[w] = worker[w]
                                 \/ worker'[w].pc \in {"registry", "publishing"} =>
                                      worker'[w].done.publish \notin PublishDone
      PROVE  WorkersTellTheTruth' /\ PublishesOnce'
  <2>1. ASSUME NEW w \in Worker
        PROVE  TellsTheTruth(worker[w].job, worker[w].done)'
    BY <1>7 DEF TellsTheTruth, TruthAfter
  <2>2. PublishesOnce'
    BY <1>7 DEF PublishesOnce
  <2> QED
    BY <1>4, <2>1, <2>2 DEF WorkersTellTheTruth
<1>8. ASSUME UNCHANGED job
      PROVE  RowTellsTheTruth'
  BY <1>2, <1>6, <1>8
<1>9. ASSUME UNCHANGED pull
      PROVE  PullIsInstallable'
  BY <1>5, <1>9 DEF PullIsInstallable
<1>10. ASSUME UNCHANGED worker
       PROVE  WorkersTellTheTruth' /\ PublishesOnce'
  BY <1>3, <1>7, <1>10
<1>11. ASSUME NEW w \in Worker, CallPublish(w)
       PROVE  RowTellsTheTruth' /\ PullIsInstallable' /\ WorkersTellTheTruth' /\ PublishesOnce'
  <2>1. UNCHANGED <<job, pull>>
    BY <1>11 DEF CallPublish, RegistryStart
  <2>2. /\ worker'[w].done.publish = "none"
        /\ \A v \in Worker : v # w => worker'[v] = worker[v]
    BY <1>0, <1>11, RegistryEffects DEF CallPublish
  <2>3. worker'[w].done.publish \notin PublishDone
    BY <2>2 DEF PublishDone
  <2>4. TruthAfter(worker'[w].job, worker'[w].done)
    BY <2>3, TruthCopied
  <2> QED
    BY <1>3, <1>7, <1>8, <1>9, <2>1, <2>2, <2>3, <2>4
<1>12. ASSUME NEW w \in Worker, TakeOutcome(w)
       PROVE  RowTellsTheTruth' /\ PullIsInstallable' /\ WorkersTellTheTruth' /\ PublishesOnce'
  <2> DEFINE r == call[w].run
             c == IF r = NoRun THEN NoCounter ELSE ledger[r].counter
  <2>1. /\ Pub!Return(w) /\ call[w].pc = "returning" /\ UNCHANGED <<ledger, registry>>
        /\ RegistryReturn(w, call[w].outcome, c)
    BY <1>12 DEF TakeOutcome, Pub!Return
  <2> HIDE DEF c
  <2>2. UNCHANGED <<job, pull>>
    BY <2>1 DEF RegistryReturn
  <2>3. /\ worker'[w].pc \in {"saving", "closing"}
        /\ worker'[w].job = worker[w].job
        /\ worker'[w].done.publish \in PublishDone =>
              worker'[w].done.publish = call[w].outcome /\ worker'[w].done.counter = c
        /\ \A v \in Worker : v # w => worker'[v] = worker[v]
    BY <1>0, <2>1, RegistryEffects
  <2>4. ASSUME worker'[w].done.publish \in PublishDone
        PROVE  TruthAfter(worker'[w].job, worker'[w].done)
    <3>1. /\ call[w].outcome \in PublishDone
          /\ CallTellsTheTruth(w) /\ CallMatches(w)
      BY <2>3, <2>4 DEF WorkersTellTheTruth, CallsMatch
    <3>2. /\ r \in Run
          /\ registry[ledger[r].counter] # NoRun
          /\ call[w].outcome = "published" => /\ registry[ledger[r].counter] = r
                                             /\ ledger[r].release = worker[w].job
      BY <2>1, <3>1 DEF CallTellsTheTruth, CallMatches
    <3>3. c = ledger[r].counter /\ c \in Counter
      <4>1. r # NoRun
        BY <3>2, ReleaseAssumption
      <4> QED
        BY <1>0, <3>2, <4>1, LedgerFields DEF c
    <3> QED
      BY <2>1, <2>3, <2>4, <3>2, <3>3 DEF TruthAfter
  <2>5. TruthAfter(worker'[w].job, worker'[w].done)
    BY <2>4, TruthCopied
  <2> QED
    BY <1>3, <1>7, <1>8, <1>9, <2>2, <2>3, <2>5
<1>13. ASSUME NEW w \in Worker, WorkerStep(w) \/ Crash(w)
       PROVE  RowTellsTheTruth' /\ PullIsInstallable' /\ WorkersTellTheTruth' /\ PublishesOnce'
  <2>1. /\ \A v \in Worker : v # w => worker'[v] = worker[v]
        /\ worker'[w].pc # "publishing"
        /\ worker'[w].pc = "registry" => worker'[w].done.publish \notin PublishDone
        /\ \/ worker'[w].pc \in Unoccupied /\ worker'[w].done = Nothing
           \/ /\ worker'[w].job = worker[w].job
              /\ worker'[w].done.publish = worker[w].done.publish
              /\ worker'[w].done.counter = worker[w].done.counter
           \/ \E j \in Job : /\ worker'[w].job = j
                             /\ worker'[w].done = job[j].done
    BY <1>13, WorkerEffects
  <2>2. Nothing.publish \notin PublishDone
    BY DEF Nothing, PublishDone
  <2>3. TruthAfter(worker'[w].job, worker'[w].done)
    BY <1>2, <1>3, <2>1, <2>2, TruthCopied
  <2>4. WorkersTellTheTruth' /\ PublishesOnce'
    BY <1>3, <1>7, <2>1, <2>3
  <2>5. ASSUME NEW j \in Job
        PROVE  /\ TruthAfter(j, job'[j].done)
               /\ pull'[j] # NoCounter => registry'[pull'[j]] # NoRun
    <3>1. /\ \/ job'[j].done = job[j].done
             \/ /\ worker[w].job = j
                /\ job'[j].done.publish = worker[w].done.publish
                /\ job'[j].done.counter = worker[w].done.counter
          /\ pull'[j] = pull[j] \/ (worker[w].job = j /\ pull'[j] = Pinned(worker[w].done))
      BY <1>13, RowEffects
    <3>2. TruthAfter(j, job'[j].done)
      BY <1>2, <1>3, <3>1, TruthCopied
    <3>3. Pinned(worker[w].done) # NoCounter => registry'[Pinned(worker[w].done)] # NoRun
      BY <1>3 DEF Pinned, TruthAfter
    <3> QED
      BY <1>5, <3>1, <3>2, <3>3
  <2> QED
    BY <1>6, <2>4, <2>5 DEF PullIsInstallable
<1>14. CASE PublishingNext \/ PeopleNext \/ TimeNext
  <2>1. UNCHANGED <<worker, pull>> /\ \A j \in Job : job'[j].done = job[j].done
    BY <1>14, OutsideEffects
  <2> QED
    BY <1>2, <1>6, <1>9, <1>10, <2>1
<1>15. CASE UNCHANGED regenVars \/ UNCHANGED releaseVars
  <2>1. UNCHANGED <<worker, pull, job>>
    BY <1>15 DEF regenVars, releaseVars
  <2> QED
    BY <1>8, <1>9, <1>10, <2>1
<1> QED
  BY <1>11, <1>12, <1>13, <1>14, <1>15 DEF ReleaseNext, WorkerDies

-----------------------------------------------------------------------------
(* Attempts that may publish are rationed. *)

\* A set that gains nothing, that may gain one element, that loses one.
LEMMA FewerElements ==
  ASSUME NEW S, IsFiniteSet(S), NEW T
  PROVE  /\ Cardinality(S) \in Nat
         /\ T \subseteq S => /\ IsFiniteSet(T)
                             /\ Cardinality(T) \in Nat
                             /\ Cardinality(T) <= Cardinality(S)
         /\ \A x : T \subseteq S \union {x} =>
              /\ IsFiniteSet(T)
              /\ Cardinality(T) \in Nat
              /\ Cardinality(T) <= Cardinality(S) + 1
         /\ \A x \in S : T \subseteq S \ {x} =>
              /\ IsFiniteSet(T)
              /\ Cardinality(T) \in Nat
              /\ Cardinality(T) + 1 <= Cardinality(S)
<1>1. Cardinality(S) \in Nat
  BY FS_CardinalityType
<1>2. ASSUME T \subseteq S
      PROVE  /\ IsFiniteSet(T) /\ Cardinality(T) \in Nat
             /\ Cardinality(T) <= Cardinality(S)
  BY <1>2, FS_Subset, FS_CardinalityType
<1>3. ASSUME NEW x, T \subseteq S \union {x}
      PROVE  /\ IsFiniteSet(T) /\ Cardinality(T) \in Nat
             /\ Cardinality(T) <= Cardinality(S) + 1
  <2>1. /\ IsFiniteSet(S \union {x})
        /\ Cardinality(S \union {x}) = Cardinality(S)
             \/ Cardinality(S \union {x}) = Cardinality(S) + 1
    BY FS_AddElement
  <2>2. /\ IsFiniteSet(T) /\ Cardinality(T) \in Nat
        /\ Cardinality(T) <= Cardinality(S \union {x})
    BY <1>3, <2>1, FS_Subset, FS_CardinalityType
  <2> QED
    BY <1>1, <2>1, <2>2
<1>4. ASSUME NEW x \in S, T \subseteq S \ {x}
      PROVE  /\ IsFiniteSet(T) /\ Cardinality(T) \in Nat
             /\ Cardinality(T) + 1 <= Cardinality(S)
  <2>1. /\ IsFiniteSet(S \ {x})
        /\ Cardinality(S \ {x}) = Cardinality(S) - 1
    BY FS_RemoveElement
  <2>2. /\ IsFiniteSet(T) /\ Cardinality(T) \in Nat
        /\ Cardinality(T) <= Cardinality(S \ {x})
    BY <1>4, <2>1, FS_Subset, FS_CardinalityType
  <2> QED
    BY <1>1, <2>1, <2>2
<1> QED
  BY <1>1, <1>2, <1>3, <1>4

\* A step that moves the permissions of job j without making one keeps them rationed: it makes
\* none, a person asks for one, or what is asked for, waits or is open moves on.
LEMMA RationsAddUp ==
  ASSUME NEW j, Rationed(j), bounds.retries \in Nat, bounds'.retries \in Nat,
         bounds.retries <= bounds'.retries,
         NEW w, NEW r,
         \/ /\ PublishedRows(j)' \subseteq PublishedRows(j)
            /\ OpenAttempts(j)' \subseteq OpenAttempts(j)
            /\ WillPublish(j)' => WillPublish(j)
            /\ (j \in asked)' => j \in asked \/ bounds'.retries = bounds.retries + 1
         \/ /\ PublishedRows(j)' \subseteq PublishedRows(j)
            /\ OpenAttempts(j)' \subseteq OpenAttempts(j)
            /\ j \in asked /\ j \notin asked'
         \/ /\ PublishedRows(j)' \subseteq PublishedRows(j)
            /\ OpenAttempts(j)' \subseteq OpenAttempts(j) \union {w}
            /\ WillPublish(j) /\ ~WillPublish(j)'
            /\ UNCHANGED asked
         \/ /\ PublishedRows(j)' \subseteq PublishedRows(j)
            /\ w \in OpenAttempts(j) /\ OpenAttempts(j)' \subseteq OpenAttempts(j) \ {w}
            /\ UNCHANGED asked
         \/ /\ PublishedRows(j)' \subseteq PublishedRows(j) \union {r}
            /\ w \in OpenAttempts(j) /\ OpenAttempts(j)' \subseteq OpenAttempts(j) \ {w}
            /\ WillPublish(j)' => WillPublish(j)
            /\ UNCHANGED asked
  PROVE  Rationed(j)'
<1> DEFINE P == PublishedRows(j)
           O == OpenAttempts(j)
           Q == PublishedRows(j)'
           U == OpenAttempts(j)'
           a == Count(WillPublish(j))
           b == Count(j \in asked)
           c == Count(WillPublish(j))'
           d == Count(j \in asked)'
           n == bounds.retries
           m == bounds'.retries
<1>0. /\ IsFiniteSet(P) /\ IsFiniteSet(O)
      /\ Cardinality(P) + Cardinality(O) + a + b <= 1 + n
  BY DEF Rationed
<1>1. /\ a \in 0..1 /\ b \in 0..1 /\ c \in 0..1 /\ d \in 0..1
      /\ a = 1 <=> WillPublish(j)
      /\ b = 1 <=> j \in asked
      /\ c = 1 <=> WillPublish(j)'
      /\ d = 1 <=> (j \in asked)'
  BY DEF Count
<1>2. ASSUME IsFiniteSet(Q), IsFiniteSet(U),
             Cardinality(Q) + Cardinality(U) + c + d <= 1 + m
      PROVE  Rationed(j)'
  BY <1>2 DEF Rationed
<1>3. \/ /\ Q \subseteq P /\ U \subseteq O
         /\ WillPublish(j)' => WillPublish(j)
         /\ (j \in asked)' => j \in asked \/ m = n + 1
      \/ Q \subseteq P /\ U \subseteq O /\ j \in asked /\ ~(j \in asked)'
      \/ Q \subseteq P /\ U \subseteq O \union {w} /\ WillPublish(j) /\ ~WillPublish(j)'
         /\ ((j \in asked)' => j \in asked)
      \/ Q \subseteq P /\ w \in O /\ U \subseteq O \ {w} /\ ((j \in asked)' => j \in asked)
      \/ /\ Q \subseteq P \union {r} /\ w \in O /\ U \subseteq O \ {w}
         /\ WillPublish(j)' => WillPublish(j)
         /\ (j \in asked)' => j \in asked
  OBVIOUS
<1>4. n \in Nat /\ m \in Nat /\ n <= m
  OBVIOUS
<1> HIDE DEF P, O, Q, U, a, b, c, d, n, m
<1>5. Cardinality(P) \in Nat /\ Cardinality(O) \in Nat
  BY <1>0, FewerElements
<1>6. ASSUME Q \subseteq P
      PROVE  IsFiniteSet(Q) /\ Cardinality(Q) \in Nat /\ Cardinality(Q) <= Cardinality(P)
  BY <1>0, <1>6, FewerElements
<1>7. ASSUME U \subseteq O
      PROVE  IsFiniteSet(U) /\ Cardinality(U) \in Nat /\ Cardinality(U) <= Cardinality(O)
  BY <1>0, <1>7, FewerElements
<1>8. ASSUME w \in O, U \subseteq O \ {w}
      PROVE  IsFiniteSet(U) /\ Cardinality(U) \in Nat /\ Cardinality(U) + 1 <= Cardinality(O)
  BY <1>0, <1>8, FewerElements
<1>9. CASE /\ Q \subseteq P /\ U \subseteq O
           /\ WillPublish(j)' => WillPublish(j)
           /\ (j \in asked)' => j \in asked \/ m = n + 1
  BY <1>0, <1>1, <1>2, <1>4, <1>5, <1>6, <1>7, <1>9
<1>10. CASE Q \subseteq P /\ U \subseteq O /\ j \in asked /\ ~(j \in asked)'
  BY <1>0, <1>1, <1>2, <1>4, <1>5, <1>6, <1>7, <1>10
<1>11. CASE /\ Q \subseteq P /\ U \subseteq O \union {w} /\ WillPublish(j) /\ ~WillPublish(j)'
            /\ (j \in asked)' => j \in asked
  <2>1. IsFiniteSet(U) /\ Cardinality(U) \in Nat /\ Cardinality(U) <= Cardinality(O) + 1
    BY <1>0, <1>11, FewerElements
  <2> QED
    BY <1>0, <1>1, <1>2, <1>4, <1>5, <1>6, <1>11, <2>1
<1>12. CASE Q \subseteq P /\ w \in O /\ U \subseteq O \ {w} /\ ((j \in asked)' => j \in asked)
  BY <1>0, <1>1, <1>2, <1>4, <1>5, <1>6, <1>8, <1>12
<1>13. CASE /\ Q \subseteq P \union {r} /\ w \in O /\ U \subseteq O \ {w}
            /\ WillPublish(j)' => WillPublish(j)
            /\ (j \in asked)' => j \in asked
  <2>1. IsFiniteSet(Q) /\ Cardinality(Q) \in Nat /\ Cardinality(Q) <= Cardinality(P) + 1
    BY <1>0, <1>13, FewerElements
  <2> QED
    BY <1>0, <1>1, <1>2, <1>4, <1>5, <1>8, <1>13, <2>1
<1> QED
  BY <1>3, <1>9, <1>10, <1>11, <1>12, <1>13

\* A job gets a published row only from the one call that closes it, for an upload of its own.
LEMMA PublishedMoves ==
  ASSUME Pub!PublishInvariant, Pub!PublishNext \/ UNCHANGED publishVars,
         \A w \in Worker : CallTellsTheTruth(w), NEW j \in Job
  PROVE  \/ PublishedRows(j)' \subseteq PublishedRows(j)
         \/ \E w \in Worker :
              /\ Pub!CloseAnswered(w)
              /\ call[w].run \in Run
              /\ upload[call[w].run] = "stored"
              /\ call[w].release = j
              /\ PublishedRows(j)' \subseteq PublishedRows(j) \union {call[w].run}
<1>1. ASSUME NEW r \in PublishedRows(j)', r \notin PublishedRows(j)
      PROVE  /\ r \in Run
             /\ \E w \in Worker : /\ Pub!CloseAnswered(w)
                                 /\ call[w].run = r
                                 /\ upload[r] = "stored"
                                 /\ call[w].release = j
  <2>1. r \in Run /\ ledger'[r].status = "published" /\ ledger'[r].release = j
    BY <1>1 DEF PublishedRows
  <2>2. /\ ledger[r].release = j
        /\ \E w \in Worker : Pub!CloseAnswered(w) /\ call[w].run = r /\ upload[r] = "stored"
    BY <1>1, <2>1, LedgerMoves DEF PublishedRows
  <2>3. PICK w \in Worker : Pub!CloseAnswered(w) /\ call[w].run = r /\ upload[r] = "stored"
    BY <2>2
  <2>4. call[w].pc = "uploading"
    BY <2>3 DEF Pub!CloseAnswered
  <2>5. call[w].release = j
    BY <2>2, <2>3, <2>4 DEF CallTellsTheTruth
  <2> QED
    BY <2>1, <2>3, <2>5
<1>2. ASSUME NEW w \in Worker, Pub!CloseAnswered(w), NEW v \in Worker, Pub!CloseAnswered(v)
      PROVE  v = w
  <2>1. Pub!PublishTypeOK
    BY DEF Pub!PublishInvariant
  <2>2. /\ call[v].pc = "uploading" /\ call'[v].pc = "returning"
        /\ \A u \in Worker : u # w => call'[u] = call[u]
    BY <1>2, <2>1, CallCloses
  <2> QED
    BY <2>2
<1>3. CASE \E r \in PublishedRows(j)' : r \notin PublishedRows(j)
  <2>1. PICK r \in PublishedRows(j)' : r \notin PublishedRows(j)
    BY <1>3
  <2>2. PICK w \in Worker : /\ Pub!CloseAnswered(w)
                            /\ call[w].run = r
                            /\ upload[r] = "stored"
                            /\ call[w].release = j
    BY <1>1, <2>1
  <2>3. \A q \in PublishedRows(j)' : q \notin PublishedRows(j) => q = r
    BY <1>1, <1>2, <2>2
  <2>4. r \in Run
    BY <1>1, <2>1
  <2> QED
    BY <2>2, <2>3, <2>4
<1> QED
  BY <1>3

\* A call that closes its row does so while every worker, row and request stands still.
LEMMA CloseIsAlone ==
  ASSUME Pub!PublishInvariant, [ReleaseNext]_releaseVars, NEW w \in Worker, Pub!CloseAnswered(w)
  PROVE  UNCHANGED regenVars
<1>0. Pub!PublishTypeOK
  BY DEF Pub!PublishInvariant
<1>1. call[w].pc = "uploading" /\ call'[w].pc = "returning"
  BY <1>0, CallCloses
<1>2. ASSUME NEW v \in Worker, CallPublish(v)
      PROVE  FALSE
  <2>1. \E j : Pub!Begin(v, j) \/ Pub!Refuse(v, j) \/ Pub!DryRun(v, j)
    BY <1>2 DEF CallPublish
  <2>2. call[v].pc = "idle" /\ \E c : call' = [call EXCEPT ![v] = c]
    BY <2>1 DEF Pub!Begin, Pub!Refuse, Pub!DryRun
  <2> QED
    BY <1>0, <1>1, <2>2, OneCallMoves
<1>3. ASSUME NEW v \in Worker, TakeOutcome(v)
      PROVE  FALSE
  <2>1. Pub!Return(v) /\ call[v].pc = "returning"
    BY <1>3 DEF TakeOutcome, Pub!Return
  <2> QED
    BY <1>0, <1>1, <2>1, CallEnds
<1>4. ASSUME NEW v \in Worker, WorkerDies(v)
      PROVE  FALSE
  BY <1>0, <1>1, <1>4, CallEnds DEF WorkerDies, publishVars
<1> QED
  BY <1>1, <1>2, <1>3, <1>4 DEF ReleaseNext, releaseVars, publishVars

\* Retries are counted: a person asks for one, or one that was asked for requeues its job, and
\* nothing else changes what is asked.
LEMMA RequestsMove ==
  ASSUME RegenTypeOK, [RegenNext]_regenVars
  PROVE  /\ bounds.retries \in Nat /\ bounds'.retries \in Nat
         /\ \/ bounds'.retries = bounds.retries /\ UNCHANGED asked
            \/ \E i \in Job : /\ AskRetry(i)
                             /\ UNCHANGED <<job, worker>>
                             /\ asked' = asked \union {i}
                             /\ bounds'.retries = bounds.retries + 1
            \/ \E i \in Job : /\ Requeue(i)
                             /\ bounds'.retries = bounds.retries
                             /\ i \in asked /\ asked' = asked \ {i}
<1>0. bounds \in [retries : Nat, subs : Nat, faults : Nat] /\ bounds.retries \in Nat
  BY DEF RegenTypeOK
<1>1. \A kind \in {"subs", "faults"} : Spent(kind) => bounds'.retries = bounds.retries
  BY <1>0 DEF Spent
<1>2. Spent("retries") => bounds'.retries = bounds.retries + 1
  BY <1>0 DEF Spent
<1>4. CASE PublishingNext \/ TimeNext
  BY <1>0, <1>1, <1>4
  DEF PublishingNext, TimeNext, PublishVersion, Enqueue, DropEnqueue, Withdraw, Fault,
      LeaseExpires, BackoffElapses
<1>5. CASE PeopleNext
  <2>1. ASSUME NEW i \in Job, AskRetry(i)
        PROVE  /\ UNCHANGED <<job, worker>>
               /\ asked' = asked \union {i}
               /\ bounds'.retries = bounds.retries + 1
    BY <1>2, <2>1 DEF AskRetry
  <2>2. ASSUME NEW i \in Job, Requeue(i)
        PROVE  /\ bounds'.retries = bounds.retries
               /\ i \in asked /\ asked' = asked \ {i}
    BY <2>2 DEF Requeue
  <2>3. ASSUME NEW e \in Ecosystem, NEW setting, NEW active,
               PutSubscription(e, setting, active) \/ SetActive(e, active) \/ Unsubscribe(e)
        PROVE  UNCHANGED asked /\ bounds'.retries = bounds.retries
    BY <1>1, <2>3 DEF PutSubscription, SetActive, Unsubscribe, ChangeSub
  <2>4. CASE \E i \in Job : AskRetry(i)
    <3>1. PICK i \in Job : AskRetry(i)
      BY <2>4
    <3>2. /\ UNCHANGED <<job, worker>>
          /\ asked' = asked \union {i}
          /\ bounds'.retries = bounds.retries + 1
      BY <2>1, <3>1
    <3> QED
      BY <1>0, <3>1, <3>2
  <2>5. CASE \E i \in Job : Requeue(i)
    <3>1. PICK i \in Job : Requeue(i)
      BY <2>5
    <3> QED
      BY <1>0, <2>2, <3>1
  <2> QED
    BY <1>0, <1>5, <2>3, <2>4, <2>5 DEF PeopleNext
<1>6. ASSUME NEW w \in Worker, WorkerStep(w) \/ AnyPublish(w) \/ Crash(w)
      PROVE  UNCHANGED asked /\ bounds'.retries = bounds.retries
  <2>1. CASE AnyPublish(w) \/ Crash(w)
    BY <1>0, <1>1, <1>6, <2>1 DEF AnyPublish, RegistryStart, RegistryReturn, Crash, Fault
  <2>2. CASE WorkerStep(w)
    BY <1>0, <1>1, <1>6, <2>2
    DEF WorkerStep, Tick, ReapFails, AlertReaped, Claim, ClaimFails, EndTick, Start, SaveProgress,
        GitPush, GitReturn, Finish, FinishFails, Alert, Fault
  <2> QED
    BY <1>6, <2>1, <2>2
<1>7. CASE UNCHANGED regenVars
  BY <1>0, <1>7 DEF regenVars
<1>8. CASE \E w \in Worker : WorkerStep(w) \/ AnyPublish(w) \/ Crash(w)
  BY <1>0, <1>6, <1>8
<1> QED
  BY <1>4, <1>5, <1>7, <1>8 DEF RegenNext

\* An attempt keeps its permission as long as it keeps its job, what it knows and its call.
LEMMA OpenAttemptsStay ==
  ASSUME NEW j, NEW w, w \in OpenAttempts(j)', worker'[w].job = worker[w].job,
         worker'[w].pc \in Unoccupied \/ worker[w].pc \notin Unoccupied,
         worker'[w].done.publish \notin PublishDone => worker[w].done.publish \notin PublishDone,
         call[w].pc = "returning" /\ call[w].outcome \in PublishDone =>
           call'[w].pc = "returning" /\ call'[w].outcome \in PublishDone
  PROVE  w \in OpenAttempts(j)
BY DEF OpenAttempts, MayPublish, Unoccupied

\* Every step keeps the permissions rationed.
LEMMA RationStep ==
  ASSUME RegenInvariant, Pub!PublishInvariant, CallsMatch, WorkersTellTheTruth, PublishesOnce,
         PublishesAreRationed, [ReleaseNext]_releaseVars
  PROVE  PublishesAreRationed'
<1> SUFFICES ASSUME NEW j \in Job
             PROVE  Rationed(j)'
  BY DEF PublishesAreRationed
<1>0. /\ RegenTypeOK /\ Pub!PublishTypeOK
      /\ Rationed(j)
  BY DEF RegenInvariant, Pub!PublishInvariant, PublishesAreRationed
<1>1. Pub!PublishNext \/ UNCHANGED publishVars
  BY <1>0, PublishMoves
<1>2. [RegenNext]_regenVars
  BY <1>0, QueueMoves
<1>3. bounds.retries \in Nat /\ bounds'.retries \in Nat /\ bounds.retries <= bounds'.retries
  BY <1>0, <1>2, RequestsMove
<1>4. ASSUME NEW w \in Worker, worker'[w] = worker[w], call'[w] = call[w]
      PROVE  w \in OpenAttempts(j)' => w \in OpenAttempts(j)
  BY <1>4 DEF OpenAttempts, MayPublish
<1>5. ASSUME NEW w \in Worker, Pub!CloseAnswered(w), call[w].run \in Run,
             upload[call[w].run] = "stored", call[w].release = j,
             PublishedRows(j)' \subseteq PublishedRows(j) \union {call[w].run}
      PROVE  Rationed(j)'
  <2>1. UNCHANGED <<worker, job, asked>>
    BY <1>5, CloseIsAlone DEF regenVars
  <2>2. /\ call[w].pc = "uploading" /\ call'[w].pc = "returning"
        /\ call'[w].outcome = Pub!OutcomeOf(upload[call[w].run])
        /\ \A v \in Worker : v # w => call'[v] = call[v]
    BY <1>0, <1>5, CallCloses
  <2>3. call'[w].outcome = "published"
    BY <1>5, <2>2 DEF Pub!OutcomeOf
  <2>4. worker[w].pc = "publishing" /\ worker[w].job = j
    BY <1>5, <2>2 DEF CallsMatch, CallMatches
  <2>5. w \in OpenAttempts(j)
    BY <2>2, <2>4 DEF OpenAttempts, MayPublish, PublishesOnce
  <2>6. w \notin OpenAttempts(j)'
    BY <2>2, <2>3 DEF OpenAttempts, MayPublish, PublishDone
  <2>7. OpenAttempts(j)' \subseteq OpenAttempts(j) \ {w}
    BY <1>4, <2>1, <2>2, <2>6 DEF OpenAttempts
  <2>8. WillPublish(j)' => WillPublish(j)
    BY <2>1 DEF WillPublish
  <2> QED
    BY <1>0, <1>3, <1>5, <2>1, <2>5, <2>7, <2>8, RationsAddUp
<1>6. CASE PublishedRows(j)' \subseteq PublishedRows(j)
  <2>0. \A w \in Worker : worker[w].pc # "publishing" => call[w].pc = "idle"
    BY DEF CallsMatch, CallMatches
  <2>1. ASSUME OpenAttempts(j)' \subseteq OpenAttempts(j), WillPublish(j)' => WillPublish(j),
               (j \in asked)' => j \in asked
        PROVE  Rationed(j)'
    BY <1>0, <1>3, <1>6, <2>1, RationsAddUp
  <2>2. ASSUME NEW w \in Worker, \A v \in Worker : v # w => /\ worker'[v] = worker[v]
                                                           /\ call'[v] = call[v],
               w \in OpenAttempts(j)' => w \in OpenAttempts(j)
        PROVE  OpenAttempts(j)' \subseteq OpenAttempts(j)
    BY <1>4, <2>2 DEF OpenAttempts
  <2>3. ASSUME UNCHANGED job
        PROVE  WillPublish(j)' => WillPublish(j)
    BY <2>3 DEF WillPublish
  <2>4. ASSUME NEW w \in Worker, CallPublish(w)
        PROVE  Rationed(j)'
    <3>1. /\ worker[w].pc = "registry"
          /\ worker'[w].job = worker[w].job
          /\ \A v \in Worker : v # w => worker'[v] = worker[v]
      BY <1>0, <2>4, RegistryEffects DEF CallPublish
    <3>2. UNCHANGED <<job, asked>>
      BY <2>4 DEF CallPublish, RegistryStart
    <3>3. \A v \in Worker : v # w => call'[v] = call[v]
      <4>1. worker[w].job \in Job
        BY <1>0, WorkerFields
      <4> QED
        BY <1>0, <2>4, <4>1, CallStarts DEF CallPublish
    <3>4. worker[w].pc \notin Unoccupied /\ call[w].pc = "idle"
      BY <2>0, <3>1 DEF Unoccupied
    <3>5. worker[w].done.publish \notin PublishDone
      BY <3>1 DEF PublishesOnce
    <3>6. w \in OpenAttempts(j)' => w \in OpenAttempts(j)
      BY <3>1, <3>4, <3>5, OpenAttemptsStay
    <3> QED
      BY <2>1, <2>2, <2>3, <3>1, <3>2, <3>3, <3>6
  <2>5. ASSUME NEW w \in Worker, TakeOutcome(w)
        PROVE  Rationed(j)'
    <3> DEFINE c == IF call[w].run = NoRun THEN NoCounter ELSE ledger[call[w].run].counter
    <3>1. Pub!Return(w) /\ RegistryReturn(w, call[w].outcome, c)
      BY <2>5 DEF TakeOutcome
    <3> HIDE DEF c
    <3>2. /\ worker[w].pc = "publishing"
          /\ worker'[w].job = worker[w].job
          /\ call[w].outcome \in PublishDone => worker'[w].done.publish = call[w].outcome
          /\ \A v \in Worker : v # w => worker'[v] = worker[v]
      BY <1>0, <3>1, RegistryEffects
    <3>3. UNCHANGED <<job, asked>>
      BY <3>1 DEF RegistryReturn
    <3>4. \A v \in Worker : v # w => call'[v] = call[v]
      BY <1>0, <3>1, CallEnds
    <3>5. w \in OpenAttempts(j)' => w \in OpenAttempts(j)
      BY <3>2 DEF OpenAttempts, MayPublish, PublishesOnce
    <3> QED
      BY <2>1, <2>2, <2>3, <3>2, <3>3, <3>4, <3>5
  <2>6. ASSUME NEW w \in Worker, WorkerDies(w)
        PROVE  Rationed(j)'
    <3>1. /\ worker'[w].pc = "idle"
          /\ \A v \in Worker : v # w => worker'[v] = worker[v]
          /\ UNCHANGED <<job, asked>>
      <4>1. worker' = [worker EXCEPT ![w] = IdleWorker] /\ UNCHANGED <<job, asked>>
        BY <2>6 DEF WorkerDies, Crash
      <4>2. DOMAIN worker = Worker
        BY <1>0 DEF RegenTypeOK
      <4> QED
        BY <4>1, <4>2, IdleFields
    <3>2. \A v \in Worker : v # w => call'[v] = call[v]
      BY <1>0, <2>6, CallEnds DEF WorkerDies, publishVars
    <3>3. w \notin OpenAttempts(j)'
      BY <3>1 DEF OpenAttempts, MayPublish
    <3> QED
      BY <2>1, <2>2, <2>3, <3>1, <3>2, <3>3
  <2>7. CASE UNCHANGED publishVars /\ (PublishingNext \/ PeopleNext \/ TimeNext)
    <3>1. UNCHANGED <<worker, call>> /\ (WillPublish(j)' => WillPublish(j) \/ Requeue(j))
      BY <2>7, OutsideEffects DEF publishVars
    <3>2. OpenAttempts(j)' \subseteq OpenAttempts(j)
      BY <1>4, <3>1 DEF OpenAttempts
    <3>3. CASE Requeue(j)
      <4>1. j \in asked /\ j \notin asked'
        BY <3>3 DEF Requeue
      <4> QED
        BY <1>0, <1>3, <1>6, <3>2, <4>1, RationsAddUp
    <3>4. CASE ~Requeue(j)
      <4>1. (j \in asked)' => j \in asked \/ bounds'.retries = bounds.retries + 1
        BY <1>0, <1>2, RequestsMove
      <4> QED
        BY <1>0, <1>3, <1>6, <3>1, <3>2, <3>4, <4>1, RationsAddUp
    <3> QED
      BY <3>3, <3>4
  <2>8. ASSUME NEW w \in Worker, WorkerStep(w), UNCHANGED publishVars
        PROVE  Rationed(j)'
    <3>1. UNCHANGED <<asked, call>>
      BY <2>8 DEF publishVars, WorkerStep, Tick, ReapFails, AlertReaped, Claim, ClaimFails,
                  EndTick, Start, SaveProgress, GitPush, GitReturn, Finish, FinishFails, Alert
    <3>2. /\ \A v \in Worker : v # w => worker'[v] = worker[v]
          /\ worker[w].pc # "publishing"
      BY <2>8, WorkerEffects
    <3>3. call[w].pc = "idle"
      BY <2>0, <3>2
    <3>4. CASE Claim(w, j)
      <4>1. job[j].status \in Claimable
        BY <3>4 DEF Claim, IsClaimable
      <4>2. job'[j].status = "running"
        <5> DEFINE t == CHOOSE x \in FreshTokens : TRUE
                   n == job[j].attempts + 1
                   row == [job[j] EXCEPT !.status = "running", !.attempts = n, !.due = FALSE,
                                         !.expired = FALSE, !.token = t, !.alerted = FALSE]
        <5>1. job' = [job EXCEPT ![j] = row]
          BY <3>4 DEF Claim
        <5>2. job \in [Job -> JobRow] /\ job[j] \in JobRow
          BY <1>0 DEF RegenTypeOK
        <5> HIDE DEF t, n
        <5>3. row.status = "running"
          BY <5>2 DEF JobRow
        <5> HIDE DEF row
        <5> QED
          BY <5>1, <5>2, <5>3
      <4>3. ~WillPublish(j)'
        BY <4>2 DEF WillPublish, Claimable
      <4>4. CASE job[j].done.publish \notin PublishDone
        <5>1. WillPublish(j)
          BY <4>1, <4>4 DEF WillPublish
        <5>2. OpenAttempts(j)' \subseteq OpenAttempts(j) \union {w}
          BY <1>4, <3>1, <3>2 DEF OpenAttempts
        <5> QED
          BY <1>0, <1>3, <1>6, <3>1, <4>3, <5>1, <5>2, RationsAddUp
      <4>5. CASE job[j].done.publish \in PublishDone
        <5>1. worker'[w].done = job[j].done
          <6> DEFINE t == CHOOSE x \in FreshTokens : TRUE
                     s == IF job[j].sub = sub[j[2]].id THEN sub[j[2]] ELSE NoSub
                     n == job[j].attempts + 1
                     me == worker[w]
                     new == [me EXCEPT !.pc = "starting", !.left = me.left - 1, !.job = j,
                                       !.token = t, !.attempt = n, !.done = job[j].done,
                                       !.sub = s]
          <6>1. worker' = [worker EXCEPT ![w] = new]
            BY <3>4 DEF Claim
          <6>2. worker \in [Worker -> WorkerState] /\ me \in WorkerState
            BY <1>0 DEF RegenTypeOK
          <6> HIDE DEF t, s, n
          <6>3. new.done = job[j].done
            BY <6>2 DEF WorkerState
          <6> HIDE DEF new
          <6> QED
            BY <6>1, <6>2, <6>3
        <5>2. w \notin OpenAttempts(j)'
          BY <4>5, <5>1 DEF OpenAttempts, MayPublish
        <5>3. WillPublish(j)' => WillPublish(j)
          BY <4>3
        <5> QED
          BY <2>1, <2>2, <3>1, <3>2, <5>2, <5>3
      <4> QED
        BY <4>4, <4>5
    <3>5. CASE Finish(w) /\ WillPublish(j)' /\ ~WillPublish(j)
      <4>1. /\ worker[w].job = j
            /\ job'[j].done.publish = worker[w].done.publish
        BY <2>8, <3>5, RowEffects
      <4>2. worker[w].done.publish \notin PublishDone
        BY <3>5, <4>1 DEF WillPublish
      <4>3. w \in OpenAttempts(j)
        BY <3>3, <3>5, <4>1, <4>2 DEF OpenAttempts, MayPublish, Finish
      <4>4. worker'[w].pc \in Unoccupied
        <5>1. GoTo(w, "alerting") \/ worker' = [worker EXCEPT ![w] = NextInBatch(w)]
          BY <3>5 DEF Finish
        <5>2. worker \in [Worker -> WorkerState]
          BY <1>0 DEF RegenTypeOK
        <5> QED
          BY <5>1, <5>2, NextInBatchFields DEF GoTo, WorkerState, Unoccupied
      <4>5. w \notin OpenAttempts(j)'
        BY <4>4 DEF OpenAttempts, MayPublish, Unoccupied
      <4>6. OpenAttempts(j)' \subseteq OpenAttempts(j) \ {w}
        BY <1>4, <3>1, <3>2, <4>5 DEF OpenAttempts
      <4> QED
        BY <1>0, <1>3, <1>6, <3>1, <4>3, <4>6, RationsAddUp
    <3>6. CASE ~Claim(w, j) /\ (~Finish(w) \/ ~WillPublish(j)' \/ WillPublish(j))
      <4>1. WillPublish(j)' => WillPublish(j)
        BY <2>8, <3>6, RowEffects
      <4>2. w \in OpenAttempts(j)' => w \in OpenAttempts(j)
        <5>1. CASE worker'[w].pc \in Unoccupied
          BY <5>1 DEF OpenAttempts, MayPublish, Unoccupied
        <5>2. CASE /\ worker'[w].job = worker[w].job
                   /\ worker'[w].done.publish = worker[w].done.publish
                   /\ worker'[w].pc \in Unoccupied \/ worker[w].pc \notin Unoccupied
          BY <3>3, <5>2, OpenAttemptsStay
        <5>3. CASE \E i \in Job : Claim(w, i) /\ worker'[w].job = i
          BY <3>6, <5>3 DEF OpenAttempts, MayPublish
        <5> QED
          BY <2>8, <5>1, <5>2, <5>3, WorkerEffects
      <4> QED
        BY <2>1, <2>2, <3>1, <3>2, <4>1, <4>2
    <3> QED
      BY <3>4, <3>5, <3>6
  <2>9. ASSUME NEW w \in Worker, UNCHANGED regenVars, Pub!CallStep(w) \/ Pub!Breaks(w)
        PROVE  Rationed(j)'
    <3>1. UNCHANGED <<worker, job, asked>>
      BY <2>9 DEF regenVars
    <3>2. /\ call[w].pc # "returning"
          /\ \A v \in Worker : v # w => call'[v] = call[v]
      BY <2>9, CallGoesOn
    <3>3. w \in OpenAttempts(j)' => w \in OpenAttempts(j)
      BY <3>1, <3>2 DEF OpenAttempts, MayPublish
    <3> QED
      BY <2>1, <2>2, <2>3, <3>1, <3>2, <3>3
  <2>10. CASE \/ UNCHANGED regenVars /\ \E r \in Run : Pub!RegistryAnswers(r)
              \/ UNCHANGED releaseVars
    <3>1. UNCHANGED <<worker, job, asked, call>>
      BY <2>10 DEF regenVars, releaseVars, Pub!RegistryAnswers
    <3>2. OpenAttempts(j)' \subseteq OpenAttempts(j)
      BY <1>4, <3>1 DEF OpenAttempts
    <3> QED
      BY <2>1, <2>3, <3>1, <3>2
  <2> QED
    BY <2>4, <2>5, <2>6, <2>7, <2>8, <2>9, <2>10 DEF ReleaseNext
<1> QED
  BY <1>1, <1>5, <1>6, PublishedMoves DEF WorkersTellTheTruth

-----------------------------------------------------------------------------
(* The invariant, and what follows from it. *)

\* What the two components keep by themselves, and what they keep together.
WholeInvariant == RegenInvariant /\ Pub!PublishInvariant /\ ReleaseInvariant

\* Nothing has been queued, claimed or published.
LEMMA ReleaseStarts == ReleaseInit => WholeInvariant
<1> SUFFICES ASSUME ReleaseInit
             PROVE  WholeInvariant
  OBVIOUS
<1>1. RegenInit /\ Pub!PublishInit
  BY DEF ReleaseInit
<1>2. /\ RegenInvariant /\ Pub!PublishInvariant
      /\ RegenTypeOK /\ Pub!PublishTypeOK
  BY <1>1, InvariantInit, PublishStarts DEF RegenInvariant, Pub!PublishInvariant
<1>3. /\ \A j \in Job : /\ job[j].status = "absent"
                        /\ job[j].done.publish = "none"
                        /\ pull[j] = NoCounter
      /\ asked = {} /\ bounds.retries = 0
  BY <1>1 DEF RegenInit, NoJobRow, Nothing
<1>4. \A w \in Worker : worker[w].pc = "idle" /\ worker[w].done.publish = "none"
  BY <1>1, IdleFields DEF RegenInit, Nothing
<1>5. /\ \A w \in Worker : call[w].pc = "idle"
      /\ \A r \in Run : ledger[r].status = "unused"
  BY <1>1 DEF Pub!PublishInit, Pub!NoCall, Pub!CallOf
<1>6. ReleaseTypeOK
  BY <1>2, <1>4, <1>5 DEF ReleaseTypeOK, CallsMatch, CallMatches
<1>7. RowTellsTheTruth /\ PullIsInstallable
  BY <1>3 DEF RowTellsTheTruth, TellsTheTruth, PullIsInstallable, PublishDone
<1>8. WorkersTellTheTruth /\ PublishesOnce
  BY <1>4, <1>5
  DEF WorkersTellTheTruth, TellsTheTruth, CallTellsTheTruth, PublishesOnce, PublishDone
<1>9. ASSUME NEW j \in Job
      PROVE  Rationed(j)
  <2>1. PublishedRows(j) = {} /\ OpenAttempts(j) = {}
    BY <1>4, <1>5 DEF PublishedRows, OpenAttempts, MayPublish
  <2>2. Count(WillPublish(j)) \in 0..1 /\ Count(j \in asked) = 0
    BY <1>3 DEF Count
  <2> QED
    BY <1>3, <2>1, <2>2, FS_EmptySet DEF Rationed
<1> QED
  BY <1>2, <1>6, <1>7, <1>8, <1>9 DEF WholeInvariant, ReleaseInvariant, PublishesAreRationed

\* Every step keeps it, and is a step of the queue or leaves the queue alone.
LEMMA ReleaseStep ==
  ASSUME WholeInvariant, [ReleaseNext]_releaseVars
  PROVE  WholeInvariant' /\ [RegenNext]_regenVars
<1>1. /\ RegenInvariant /\ Pub!PublishInvariant
      /\ RegenTypeOK /\ Pub!PublishTypeOK /\ CallsMatch
      /\ RowTellsTheTruth /\ PullIsInstallable /\ WorkersTellTheTruth /\ PublishesOnce
      /\ PublishesAreRationed
  BY DEF WholeInvariant, ReleaseInvariant, ReleaseTypeOK
<1>2. [RegenNext]_regenVars
  BY <1>1, QueueMoves
<1>3. RegenInvariant'
  BY <1>1, <1>2, InvariantStep
<1>4. Pub!PublishInvariant'
  BY <1>1, PublishMoves, PublishKept
<1>5. RegenTypeOK'
  BY <1>3 DEF RegenInvariant
<1>6. Pub!PublishTypeOK'
  BY <1>4 DEF Pub!PublishInvariant
<1>7. CallsMatch'
  BY <1>1, CallsMatchStep
<1>8. ReleaseTypeOK'
  BY <1>5, <1>6, <1>7 DEF ReleaseTypeOK
<1>9. RowTellsTheTruth' /\ PullIsInstallable' /\ WorkersTellTheTruth' /\ PublishesOnce'
  BY <1>1, TruthStep
<1>10. PublishesAreRationed'
  BY <1>1, RationStep
<1> QED
  BY <1>2, <1>3, <1>4, <1>8, <1>9, <1>10 DEF WholeInvariant, ReleaseInvariant

\* In every reachable state of the composition both components are sound, and agree.
THEOREM WholeInvariantHolds == ReleaseSpec => []WholeInvariant
<1> QED
  BY ReleaseStarts, ReleaseStep, PTL DEF ReleaseSpec

\* What SdkRegen and SdkPublish know of each other holds in every reachable state: the calls
\* of one are the steps of the other, and what rows, workers and calls say is on the registry.
THEOREM ReleaseInvariantHolds == ReleaseSpec => []ReleaseInvariant
<1>1. WholeInvariant => ReleaseInvariant
  BY DEF WholeInvariant
<1> QED
  BY <1>1, WholeInvariantHolds, PTL

\* The composition is a behaviour of the queue: publish() is one of the outcomes SdkRegen leaves
\* open (_registry_step).
THEOREM QueueIsImplemented == ReleaseSpec => RegenImplemented
<1>1. ReleaseInit => RegenInit
  BY DEF ReleaseInit
<1>2. WholeInvariant /\ [ReleaseNext]_releaseVars => [RegenNext]_regenVars
  BY ReleaseStep
<1> QED
  BY <1>1, <1>2, WholeInvariantHolds, PTL DEF ReleaseSpec, RegenImplemented, RegenSpec

\* What is shown of the queue by itself holds of it with the publish pipeline behind it: no two
\* workers share a claim, nothing is overtaken, budgets are kept, success is earned, the git
\* step comes last, dead letters are alerted about, a published version is not forgotten, and
\* every job follows the lifecycle of its states.
THEOREM QueueStaysSound ==
  ReleaseSpec => /\ [](OneHolderPerToken /\ NothingOvertaken /\ AttemptBudget
                         /\ SucceededDidEverything /\ GitIsLast /\ DeadLettersAlertedUnlessFault)
                 /\ PublishedIsRemembered
                 /\ LifecycleImplemented
<1>1. ReleaseSpec => RegenSpec
  BY QueueIsImplemented DEF RegenImplemented
<1> QED
  BY <1>1, TokensAreExclusive, OrderIsKept, BudgetIsKept, SuccessIsEarned, GitComesLast,
     DeadLettersAreAlerted, PublishedIsNeverForgotten, LifecycleHolds, PTL

\* The composition is a behaviour of the publish pipeline as well, whose publishers are the
\* workers: whatever the queue does with an outcome, calls take only the steps of publish().
\* (That its calls return is not claimed: ReleaseSpec asks for no fairness.)
THEOREM PipelineIsImplemented ==
  ReleaseSpec => Pub!PublishInit /\ [][Pub!PublishNext]_publishVars
<1>1. ReleaseInit => Pub!PublishInit
  BY DEF ReleaseInit
<1>2. WholeInvariant /\ [ReleaseNext]_releaseVars => [Pub!PublishNext]_publishVars
  <2> SUFFICES ASSUME WholeInvariant, [ReleaseNext]_releaseVars
               PROVE  [Pub!PublishNext]_publishVars
    OBVIOUS
  <2>1. RegenTypeOK
    BY DEF WholeInvariant, ReleaseInvariant, ReleaseTypeOK
  <2> QED
    BY <2>1, PublishMoves
<1> QED
  BY <1>1, <1>2, WholeInvariantHolds, PTL DEF ReleaseSpec

\* What the publish pipeline keeps for any publishers, it keeps for the workers.
LEMMA PublishIsSound ==
  ASSUME Pub!PublishInvariant
  PROVE  /\ Pub!UploadsExclusive /\ Pub!PublishedIsOwn /\ Pub!AlreadyPublishedExists
         /\ Pub!UploadsAreClaimed /\ Pub!NumbersFollowReleases
<1>1. PubProofs!PublishInvariant
  BY SameInvariant
<1>2. /\ PubProofs!UploadsExclusive /\ PubProofs!AlreadyPublishedExists
      /\ PubProofs!UploadsAreClaimed
  BY <1>1, PublishAssumed, PubProofs!ClaimsKeepUploadsApart, PubProofs!OthersHavePublished,
     PubProofs!RegistryWasClaimed
<1>3. Pub!UploadsExclusive
  BY <1>2 DEF Pub!UploadsExclusive, PubProofs!UploadsExclusive
<1>4. Pub!AlreadyPublishedExists
  BY <1>2 DEF Pub!AlreadyPublishedExists, PubProofs!AlreadyPublishedExists
<1>5. Pub!UploadsAreClaimed
  BY <1>2 DEF Pub!UploadsAreClaimed, PubProofs!UploadsAreClaimed, Pub!Numbers, PubProofs!Numbers,
              Pub!ClaimedStatuses, PubProofs!ClaimedStatuses,
              Pub!DoneStatuses, PubProofs!DoneStatuses
<1>6. Pub!PublishedIsOwn
  BY DEF Pub!PublishInvariant, Pub!RowsMatchRegistry, Pub!PublishedIsOwn
<1>7. Pub!NumbersFollowReleases
  BY DEF Pub!PublishInvariant, Pub!FloorsHold, Pub!NumbersFollowReleases
<1> QED
  BY <1>3, <1>4, <1>5, <1>6, <1>7

\* No step of the composition changes a row that is closed as published or already published.
LEMMA DoneRowsStayClosed ==
  ASSUME WholeInvariant, [ReleaseNext]_releaseVars
  PROVE  \A r \in Run : ledger[r].status \in Pub!DoneStatuses => ledger'[r] = ledger[r]
<1>1. /\ PubProofs!PublishInvariant
      /\ Pub!PublishNext \/ UNCHANGED publishVars
  BY SameInvariant, PublishMoves DEF WholeInvariant, ReleaseInvariant, ReleaseTypeOK
<1>2. Pub!PublishNext => PubProofs!PublishNext
  BY SameSteps DEF Pub!PublishNext, PubProofs!PublishNext
<1>3. [PubProofs!PublishNext]_(PubProofs!pubVars)
  BY <1>1, <1>2 DEF publishVars, PubProofs!pubVars
<1>4. PubProofs!DoneRowsStay
  BY <1>1, <1>3, PublishAssumed, PubProofs!DoneRowsStayStep
<1> QED
  BY <1>4 DEF PubProofs!DoneRowsStay, Pub!DoneStatuses, PubProofs!DoneStatuses

\* What is shown of the publish pipeline by itself holds of the calls the workers make, however
\* leases run out, workers die and jobs are retried around them: no two upload one version at a
\* time, a row closed as published names the version its own upload stored and one closed as
\* already published another's, nothing is uploaded that the ledger did not claim, numbers only
\* grow, and a closed row stays as it is.
THEOREM PipelineStaysSound ==
  ReleaseSpec => /\ [](Pub!UploadsExclusive /\ Pub!PublishedIsOwn
                         /\ Pub!AlreadyPublishedExists /\ Pub!UploadsAreClaimed
                         /\ Pub!NumbersFollowReleases)
                 /\ Pub!DoneIsFinal
<1> DEFINE Sound == /\ Pub!UploadsExclusive /\ Pub!PublishedIsOwn
                    /\ Pub!AlreadyPublishedExists /\ Pub!UploadsAreClaimed
                    /\ Pub!NumbersFollowReleases
           Stay == \A r \in Run :
                       ledger[r].status \in Pub!DoneStatuses => ledger'[r] = ledger[r]
<1>1. WholeInvariant => Sound
  BY PublishIsSound DEF WholeInvariant
<1>2. WholeInvariant /\ [ReleaseNext]_releaseVars => [Stay]_(Pub!pubVars)
  BY DoneRowsStayClosed
<1>3. [][Stay]_(Pub!pubVars) <=> Pub!DoneIsFinal
  BY DEF Pub!DoneIsFinal
<1> HIDE DEF Sound, Stay
<1>4. ReleaseSpec => []Sound /\ Pub!DoneIsFinal
  BY <1>1, <1>2, <1>3, WholeInvariantHolds, PTL DEF ReleaseSpec
<1> QED
  BY <1>4, PTL DEF Sound

\* What a job's row says was published is on the registry, and from this job's upload if it
\* says so (_registry_step, _save_registry_progress, publish).
THEOREM RowsTellTheTruth == ReleaseSpec => []RowTellsTheTruth
<1>1. ReleaseInvariant => RowTellsTheTruth
  BY DEF ReleaseInvariant
<1> QED
  BY <1>1, ReleaseInvariantHolds, PTL

\* A delivery pinned to a version is pushed only once the registry has it (_git_step).
THEOREM PullsAreInstallable == ReleaseSpec => []PullIsInstallable
<1>1. ReleaseInvariant => PullIsInstallable
  BY DEF ReleaseInvariant
<1> QED
  BY <1>1, ReleaseInvariantHolds, PTL

\* The ledger records a second publish of a job only after a person asked for a retry
\* (_execute, decide_after_failure, reap_stale_sdk_regen_jobs).
THEOREM PublishesAreAskedFor == ReleaseSpec => []OnlyPeopleRepublish
<1>1. ReleaseInvariant => OnlyPeopleRepublish
  <2> SUFFICES ASSUME ReleaseInvariant, NEW j \in Job
               PROVE  Cardinality(PublishedRows(j)) <= 1 + bounds.retries
    BY DEF OnlyPeopleRepublish
  <2>1. /\ IsFiniteSet(PublishedRows(j)) /\ IsFiniteSet(OpenAttempts(j))
        /\ Cardinality(PublishedRows(j)) + Cardinality(OpenAttempts(j))
             + Count(WillPublish(j)) + Count(j \in asked) <= 1 + bounds.retries
    BY DEF ReleaseInvariant, PublishesAreRationed, Rationed
  <2>2. /\ Cardinality(PublishedRows(j)) \in Nat /\ Cardinality(OpenAttempts(j)) \in Nat
        /\ Count(WillPublish(j)) \in Nat /\ Count(j \in asked) \in Nat
    BY <2>1, FS_CardinalityType DEF Count
  <2>3. bounds.retries \in Nat
    BY DEF ReleaseInvariant, ReleaseTypeOK, RegenTypeOK
  <2> QED
    BY <2>1, <2>2, <2>3
<1> QED
  BY <1>1, ReleaseInvariantHolds, PTL

\* The branch of job j is set to another version than the one its row says was published
\* only by a late worker.
BranchStraysLate(j) ==
    /\ job[j].done.publish \in PublishDone
    /\ pull'[j] # pull[j]
    /\ pull'[j] # job[j].done.counter
    => LateAt(j)

\* A worker whose claim is the row's, and open, pins its delivery to what the row says.
LEMMA BranchStep ==
  ASSUME RegenInvariant, [RegenNext]_regenVars, NEW j \in Job
  PROVE  BranchStraysLate(j)
<1> SUFFICES ASSUME job[j].done.publish \in PublishDone, pull'[j] # pull[j],
                    pull'[j] # job[j].done.counter
             PROVE  LateAt(j)
  BY DEF BranchStraysLate
<1>1. ASSUME NEW w \in Worker, WorkerStep(w) \/ AnyPublish(w) \/ Crash(w)
      PROVE  LateAt(j)
  <2>1. worker[w].pc = "git"
    BY <1>1
    DEF WorkerStep, Tick, ReapFails, AlertReaped, Claim, ClaimFails, EndTick, Start, SaveProgress,
        GitPush, GitReturn, Finish, FinishFails, Alert, AnyPublish, RegistryStart, RegistryReturn,
        Crash
  <2>2. worker[w].job = j /\ pull'[j] = Pinned(worker[w].done)
    BY <1>1, RowEffects
  <2>3. CASE worker[w].token = job[j].token /\ job[j].status = "running"
    <3>1. worker[w].token # NoToken
      BY <2>1 DEF RegenInvariant, WorkerSound
    <3>2. /\ worker[w].done.publish = job[j].done.publish
          /\ worker[w].done.counter = job[j].done.counter
      BY <2>2, <2>3, <3>1 DEF RegenInvariant, ClaimSound, ClaimOpen
    <3> QED
      BY <2>2, <3>2 DEF Pinned
  <2> QED
    BY <2>1, <2>2, <2>3 DEF LateAt
<1>2. CASE PublishingNext \/ PeopleNext \/ TimeNext
  BY <1>2, OutsideEffects
<1>3. CASE UNCHANGED regenVars
  BY <1>3 DEF regenVars
<1> QED
  BY <1>1, <1>2, <1>3 DEF RegenNext

\* Once the row says what was published, only a worker whose claim is gone sets the branch to
\* another version (_git_step, update_branch).
THEOREM BranchesStrayOnlyLate == ReleaseSpec => BranchStraysOnlyLate
<1>1. WholeInvariant /\ [ReleaseNext]_releaseVars
        => [\A j \in Job : BranchStraysLate(j)]_releaseVars
  BY ReleaseStep, BranchStep DEF WholeInvariant
<1>2. [][\A j \in Job : BranchStraysLate(j)]_releaseVars => BranchStraysOnlyLate
  BY PTL DEF BranchStraysOnlyLate, BranchStraysLate
<1> QED
  BY <1>1, <1>2, WholeInvariantHolds, PTL DEF ReleaseSpec
=============================================================================
