------------------------------ MODULE SdkPublish ------------------------------
(***************************************************************************)
(* The SDK publish pipeline (apiome-rest/src/app/sdk_publish_pipeline.py): *)
(* concurrent calls of publish() claim a version number in a ledger, build *)
(* the package, upload it to a registry that answers late or never, and    *)
(* close their ledger row.  One release series of one package is modelled, *)
(* which is the scope of a counter.                                        *)
(*                                                                         *)
(* A call is one thread running publish(): a route's request thread or an  *)
(* auto-regen worker.  It may crash between any two steps; the ledger row  *)
(* and a request already on the wire survive it.                           *)
(***************************************************************************)
EXTENDS Naturals, FiniteSets

CONSTANTS
    Publisher,          \* threads that call publish()
    Release,            \* what may be published: the revisions of the project
    Run,                \* ledger row ids (each row is inserted at most once)
    NoRun, NoRelease,   \* "no row", "no revision"
    MaxCounter,         \* bound: the largest regen counter considered
    MaxClaimAttempts    \* MAX_CLAIM_ATTEMPTS

ASSUME PublishAssumption ==
    /\ NoRun \notin Run
    /\ NoRelease \notin Release
    /\ MaxCounter \in Nat
    /\ MaxClaimAttempts \in Nat \ {0}

VARIABLES
    ledger,     \* sdk_publish_runs: row id -> status, counter, release
    registry,   \* the package registry: counter -> the row whose upload it stored
    upload,     \* row id -> what became of the row's one upload request
    call        \* publisher -> the publish() call it is in

pubVars == <<ledger, registry, upload, call>>

Numbers == 0..MaxCounter

\* Row statuses whose number is taken (the predicate of idx_sdk_publish_runs_claim).
DoneStatuses    == {"published", "already_published"}
ClaimedStatuses == {"in_progress"} \union DoneStatuses
RunStatuses     == ClaimedStatuses \union {"unused", "failed", "dry_run"}

\* A request is sent at most once per row; the registry stores it, finds the
\* version present, rejects it for good, or answers 5xx / 429.
UploadStates == {"none", "sent", "stored", "present", "rejected", "unavailable"}

\* What publish() gives its caller: an outcome, or a PublishError ("refused",
\* "unavailable" when the claim race was lost too often).
Outcomes == DoneStatuses \union
            {"dry_run", "failed_retryable", "failed_final", "refused", "unavailable"}

CallPhases == {"idle", "counting", "claiming", "building", "uploading", "returning"}

\* A call in phase pc that publishes rel, will insert row r and has claimed nothing yet.
CallOf(pc, rel, r, floor, outcome) ==
    [pc |-> pc, release |-> rel, run |-> r, next |-> 0, tries |-> 0, floor |-> floor,
     outcome |-> outcome]
NoCall == CallOf("idle", NoRelease, NoRun, 0, "none")

\* A call that is over: what it returns, and the row it is about.
Returning(rel, r, outcome) == CallOf("returning", rel, r, 0, outcome)

PublishTypeOK ==
    /\ ledger \in [Run -> [status  : RunStatuses,
                           counter : Numbers,
                           release : Release \union {NoRelease}]]
    /\ registry \in [Numbers -> Run \union {NoRun}]
    /\ upload \in [Run -> UploadStates]
    /\ call \in [Publisher -> [pc      : CallPhases,
                               release : Release \union {NoRelease},
                               run     : Run \union {NoRun},
                               next    : Nat,
                               tries   : 0..MaxClaimAttempts,
                               floor   : Nat,
                               outcome : Outcomes \union {"none"}]]

PublishInit ==
    /\ ledger = [r \in Run |-> [status |-> "unused", counter |-> 0, release |-> NoRelease]]
    /\ registry = [c \in Numbers |-> NoRun]
    /\ upload = [r \in Run |-> "none"]
    /\ call = [p \in Publisher |-> NoCall]

-----------------------------------------------------------------------------

\* Mutant of ClaimedNumbers: a claim that is still in progress holds no number.
ReleasedNumbers ==
    {ledger[r].counter : r \in {s \in Run : ledger[s].status \in DoneStatuses}}

\* The numbers some row holds or has used: what the unique index refuses.
ClaimedNumbers == {ledger[r].counter : r \in {s \in Run : ledger[s].status \in ClaimedStatuses}}
DoneNumbers    == {ledger[r].counter : r \in {s \in Run : ledger[s].status \in DoneStatuses}}

\* n = COALESCE(MAX(s) + 1, 0)
IsSuccessor(n, s) ==
    /\ \A c \in s : c < n
    /\ n = 0 \/ \E c \in s : n = c + 1

\* Mutant of IsNextCounter: the smallest number nobody holds.
IsFirstFree(n) ==
    /\ n \notin ClaimedNumbers
    /\ \A c \in Numbers : c < n => c \in ClaimedNumbers

\* What next_sdk_publish_counter answers.
IsNextCounter(n) == IsSuccessor(n, ClaimedNumbers)

\* A row id nobody uses: what the INSERT of a call that starts now will get.
IsFreshRun(r) ==
    /\ ledger[r].status = "unused"
    /\ \A q \in Publisher : call[q].run # r

\* publish() starts: the package name, the series and the credential resolve.
\* floor is auxiliary: one more than the largest number released when the call began.
Begin(p, rel) ==
    /\ call[p].pc = "idle"
    /\ \E r \in Run, n \in 0..(MaxCounter + 1) :
         /\ IsFreshRun(r)
         /\ IsSuccessor(n, DoneNumbers)
         /\ call' = [call EXCEPT ![p] = CallOf("counting", rel, r, n, "none")]
    /\ UNCHANGED <<ledger, registry, upload>>

\* publish() refuses before it claims anything: no credential, no package name,
\* a version line that maps to no package version.
Refuse(p, rel) ==
    /\ call[p].pc = "idle"
    /\ call' = [call EXCEPT ![p] = Returning(rel, NoRun, "refused")]
    /\ UNCHANGED <<ledger, registry, upload>>

\* _dry_run: the next number is computed and written down, and never claimed.
\* Recording the row is best effort.
DryRun(p, rel) ==
    /\ call[p].pc = "idle"
    /\ \E r \in Run, n \in Numbers, recorded \in BOOLEAN :
         /\ IsFreshRun(r)
         /\ IsNextCounter(n)
         /\ ledger' = IF recorded
                      THEN [ledger EXCEPT ![r] = [status |-> "dry_run", counter |-> n,
                                                  release |-> rel]]
                      ELSE ledger
    /\ call' = [call EXCEPT ![p] = Returning(rel, NoRun, "dry_run")]
    /\ UNCHANGED <<registry, upload>>

\* _claim reads the next counter ...
ReadCounter(p) ==
    /\ call[p].pc = "counting"
    /\ \E n \in Numbers :
         /\ IsNextCounter(n)
         /\ call' = [call EXCEPT ![p].pc = "claiming", ![p].next = n]
    /\ UNCHANGED <<ledger, registry, upload>>

\* ... and inserts an in_progress row under it, unless the unique index objects.
ClaimWins(p) ==
    /\ call[p].pc = "claiming"
    /\ call[p].next \in Numbers \ ClaimedNumbers
    /\ ledger' = [ledger EXCEPT ![call[p].run] = [status  |-> "in_progress",
                                                  counter |-> call[p].next,
                                                  release |-> call[p].release]]
    /\ call' = [call EXCEPT ![p].pc = "building", ![p].next = 0, ![p].tries = 0]
    /\ UNCHANGED <<registry, upload>>

\* The number was taken in between: try the one after it, up to MaxClaimAttempts.
ClaimLoses(p) ==
    /\ call[p].pc = "claiming"
    /\ call[p].next \in ClaimedNumbers
    /\ \/ /\ call[p].tries + 1 < MaxClaimAttempts
          /\ call' = [call EXCEPT ![p].next = call[p].next + 1, ![p].tries = call[p].tries + 1]
       \/ /\ call[p].tries + 1 >= MaxClaimAttempts
          /\ call' = [call EXCEPT ![p] = Returning(call[p].release, NoRun, "unavailable")]
    /\ UNCHANGED <<ledger, registry, upload>>

\* _finish: the row is closed with a status, or the write fails and only logs.
FinishRow(r, status, recorded) ==
    ledger' = IF recorded THEN [ledger EXCEPT ![r].status = status] ELSE ledger

\* The package cannot be built: the claim is released and PublishError is raised.
BuildFails(p) ==
    /\ call[p].pc = "building"
    /\ \E recorded \in BOOLEAN : FinishRow(call[p].run, "failed", recorded)
    /\ call' = [call EXCEPT ![p] = Returning(call[p].release, NoRun, "refused")]
    /\ UNCHANGED <<registry, upload>>

\* The package is built and the upload request leaves.
SendUpload(p) ==
    /\ call[p].pc = "building"
    /\ upload' = [upload EXCEPT ![call[p].run] = "sent"]
    /\ call' = [call EXCEPT ![p].pc = "uploading"]
    /\ UNCHANGED <<ledger, registry>>

\* The registry takes a request, whether or not its sender still waits: a
\* version is stored once and for all, and a second upload of it is a conflict.
RegistryAnswers(r) ==
    LET c == ledger[r].counter IN
    /\ upload[r] = "sent"
    /\ \/ /\ registry[c] = NoRun
          /\ registry' = [registry EXCEPT ![c] = r]
          /\ upload' = [upload EXCEPT ![r] = "stored"]
       \/ /\ registry[c] # NoRun
          /\ upload' = [upload EXCEPT ![r] = "present"]
          /\ UNCHANGED registry
       \/ /\ \E answer \in {"rejected", "unavailable"} :
               upload' = [upload EXCEPT ![r] = answer]
          /\ UNCHANGED registry
    /\ UNCHANGED <<ledger, call>>

\* Mutants of StatusOf: a version that is already present counts as published; every
\* refusal counts as already present.
PresentIsPublished(answer) ==
    IF answer \in {"stored", "present"} THEN "published" ELSE "failed"
RefusedIsPresent(answer) ==
    CASE answer = "stored"                  -> "published"
      [] answer \in {"present", "rejected"} -> "already_published"
      [] OTHER                              -> "failed"

\* _receipt_from: the status a registry's answer closes the row with ...
StatusOf(answer) ==
    CASE answer = "stored"  -> "published"
      [] answer = "present" -> "already_published"
      [] OTHER              -> "failed"

\* Mutants of OutcomeOf: the caller sees the row's status; an upload the
\* registry answered 5xx is reported as published.
OutcomeIsStatus(answer) == StatusOf(answer)
UnavailableIsMine(answer) ==
    CASE answer \in {"stored", "unavailable"} -> "published"
      [] answer = "present"                   -> "already_published"
      [] OTHER                                -> "failed_final"

\* ... and the outcome its caller sees.
OutcomeOf(answer) ==
    CASE answer = "stored"      -> "published"
      [] answer = "present"     -> "already_published"
      [] answer = "unavailable" -> "failed_retryable"
      [] OTHER                  -> "failed_final"

\* The answer arrives; the row is closed and publish() returns the outcome.
CloseAnswered(p) ==
    LET answer == upload[call[p].run] IN
    /\ call[p].pc = "uploading"
    /\ answer # "sent"
    /\ \E recorded \in BOOLEAN : FinishRow(call[p].run, StatusOf(answer), recorded)
    /\ call' = [call EXCEPT ![p] = Returning(call[p].release, call[p].run,
                                                 OutcomeOf(answer))]
    /\ UNCHANGED <<registry, upload>>

\* Mutant of Timeout: the request has no timeout.
NoTimeout(p) == call[p].pc = "uploading" /\ FALSE

\* PUBLISH_TIMEOUT_SECONDS pass, or the connection drops: the row is failed.  The
\* request may have been stored already, or may still be.
Timeout(p) ==
    /\ call[p].pc = "uploading"
    /\ \E recorded \in BOOLEAN : FinishRow(call[p].run, "failed", recorded)
    /\ call' = [call EXCEPT ![p] = Returning(call[p].release, call[p].run,
                                                 "failed_retryable")]
    /\ UNCHANGED <<registry, upload>>

\* Something publish() does not expect is raised, such as a failed database statement:
\* the row stays as it is, and the caller cannot tell whether the upload landed.
Breaks(p) ==
    /\ call[p].pc \in {"counting", "claiming", "building", "uploading"}
    /\ call' = [call EXCEPT ![p] = Returning(call[p].release, NoRun, "failed_final")]
    /\ UNCHANGED <<ledger, registry, upload>>

\* The caller takes the outcome.
Return(p) ==
    /\ call[p].pc = "returning"
    /\ call' = [call EXCEPT ![p] = NoCall]
    /\ UNCHANGED <<ledger, registry, upload>>

\* The process dies: its rows stay as they are.
Crash(p) ==
    /\ call[p].pc # "idle"
    /\ call' = [call EXCEPT ![p] = NoCall]
    /\ UNCHANGED <<ledger, registry, upload>>

\* The steps publish() takes between its start and its return.
CallStep(p) ==
    \/ ReadCounter(p) \/ ClaimWins(p) \/ ClaimLoses(p)
    \/ BuildFails(p) \/ SendUpload(p) \/ CloseAnswered(p) \/ Timeout(p)

PublishNext ==
    \/ \E p \in Publisher :
         \/ \E rel \in Release : Begin(p, rel) \/ Refuse(p, rel) \/ DryRun(p, rel)
         \/ CallStep(p) \/ Breaks(p) \/ Return(p) \/ Crash(p)
    \/ \E r \in Run : RegistryAnswers(r)

\* publish() is straight-line code with a bounded claim loop and a timed-out
\* request, so a call that does not crash keeps moving.  Nothing is assumed of
\* the registry.
PublishFairness == \A p \in Publisher : WF_pubVars(CallStep(p)) /\ WF_pubVars(Return(p))

PublishSpec == PublishInit /\ [][PublishNext]_pubVars /\ PublishFairness

-----------------------------------------------------------------------------

\* Two calls never upload the same version at the same time: the in_progress row
\* of one makes the other take another number (_claim and the partial index).
UploadsExclusive ==
    \A p, q \in Publisher :
        /\ p # q
        /\ call[p].pc = "uploading"
        /\ call[q].pc = "uploading"
        => ledger[call[p].run].counter # ledger[call[q].run].counter

\* A row closed as published names the version that its own upload put on the
\* registry, and no later upload replaced it, whatever was retried, released or
\* lost around it (publish, _receipt_from, finish_sdk_publish_run).
PublishedIsOwn ==
    \A r \in Run : ledger[r].status = "published" => registry[ledger[r].counter] = r

\* A row closed as already_published names a version somebody did upload.
AlreadyPublishedExists ==
    \A r \in Run : ledger[r].status = "already_published"
                     => registry[ledger[r].counter] \notin {NoRun, r}

\* A call that begins after a release has completed gets a higher number than
\* that release: numbers freed by failed runs below it are not handed out again
\* (next_sdk_publish_counter takes the maximum, _claim only counts up).
NumbersFollowReleases ==
    \A p \in Publisher : call[p].pc \in {"building", "uploading"}
                           => ledger[call[p].run].counter >= call[p].floor

\* The registry holds nothing the ledger has not claimed a number for: a number is
\* claimed before it is uploaded (publish), and a row keeps its number for ever.
UploadsAreClaimed ==
    \A c \in Numbers : registry[c] # NoRun =>
        /\ ledger[registry[c]].counter = c
        /\ ledger[registry[c]].status \in ClaimedStatuses \union {"failed"}

\* A finished release is final: no crash, late answer or concurrent call changes a
\* row that was closed as published or already published.
DoneIsFinal ==
    [][\A r \in Run : ledger[r].status \in DoneStatuses => ledger'[r] = ledger[r]]_pubVars

\* Every call of publish() comes back or its process died, even when the
\* registry never answers (PUBLISH_TIMEOUT_SECONDS, MAX_CLAIM_ATTEMPTS).
CallsReturn == \A p \in Publisher : []<>(call[p].pc = "idle")

-----------------------------------------------------------------------------
(* Why the invariants above hold: the inductive invariant SdkPublish_proofs proves. *)

\* A call that is under way has a row id of its own.
CallsOwnRows ==
    /\ \A p \in Publisher :
          call[p].pc \in {"counting", "claiming", "building", "uploading"} => call[p].run \in Run
    /\ \A p, q \in Publisher :
          p # q /\ call[p].run # NoRun => call[p].run # call[q].run

\* The row of a call is where the call left it.
CallsMatchRows ==
    \A p \in Publisher :
        /\ call[p].pc \in {"counting", "claiming"} => ledger[call[p].run].status = "unused"
        /\ call[p].pc = "building" => /\ ledger[call[p].run].status = "in_progress"
                                      /\ upload[call[p].run] = "none"
        /\ call[p].pc = "uploading" => /\ ledger[call[p].run].status = "in_progress"
                                       /\ upload[call[p].run] # "none"

\* The partial unique index.
ClaimsUnique ==
    \A r, q \in Run :
        /\ r # q
        /\ ledger[r].status \in ClaimedStatuses
        /\ ledger[q].status \in ClaimedStatuses
        => ledger[r].counter # ledger[q].counter

\* Registry, requests and rows tell one story.
RowsMatchRegistry ==
    /\ \A c \in Numbers : registry[c] # NoRun =>
          upload[registry[c]] = "stored" /\ ledger[registry[c]].counter = c
    /\ \A r \in Run :
          /\ upload[r] = "stored" => registry[ledger[r].counter] = r
          /\ upload[r] = "present" => registry[ledger[r].counter] # NoRun
          /\ ledger[r].status = "published" => upload[r] = "stored"
          /\ ledger[r].status = "already_published" => upload[r] = "present"
          /\ ledger[r].status \in {"unused", "dry_run"} => upload[r] = "none"

\* What makes numbers follow releases: the release floor was taken from is still there,
\* and the number read or claimed since is past it.
FloorsHold ==
    \A p \in Publisher :
        /\ call[p].pc = "counting" =>
              call[p].floor = 0 \/ \E c \in DoneNumbers : call[p].floor = c + 1
        /\ call[p].pc = "claiming" => call[p].next >= call[p].floor
        /\ call[p].pc \in {"building", "uploading"}
              => ledger[call[p].run].counter >= call[p].floor

PublishInvariant ==
    /\ PublishTypeOK
    /\ CallsOwnRows
    /\ CallsMatchRows
    /\ ClaimsUnique
    /\ RowsMatchRegistry
    /\ FloorsHold
=============================================================================
