--------------------------- MODULE SdkPublish_proofs ---------------------------
(***************************************************************************)
(* Proofs about SdkPublish, for any number of publishers, rows, numbers    *)
(* and revisions: PublishInvariant is inductive, and the safety properties *)
(* of the pipeline follow from it.                                         *)
(***************************************************************************)
EXTENDS SdkPublish, TLAPS

\* Closing a row changes its status and nothing else.
LEMMA FinishRowEffect ==
  ASSUME PublishTypeOK, NEW r \in Run, NEW status \in RunStatuses, NEW recorded \in BOOLEAN,
         FinishRow(r, status, recorded)
  PROVE  /\ ledger' \in [Run -> [status : RunStatuses, counter : Numbers,
                                 release : Release \union {NoRelease}]]
         /\ \A q \in Run : q # r => ledger'[q] = ledger[q]
         /\ ledger'[r].counter = ledger[r].counter
         /\ ledger'[r].status \in {ledger[r].status, status}
<1> DEFINE Row == [status : RunStatuses, counter : Numbers, release : Release \union {NoRelease}]
<1>1. ledger \in [Run -> Row] /\ ledger[r] \in Row
  BY DEF PublishTypeOK
<1>2. CASE ledger' = ledger
  BY <1>1, <1>2
<1>3. CASE ledger' = [ledger EXCEPT ![r].status = status]
  <2> DEFINE row == [ledger[r] EXCEPT !.status = status]
  <2>1. row \in Row /\ row.counter = ledger[r].counter /\ row.status = status
    BY <1>1
  <2>2. ledger' = [ledger EXCEPT ![r] = row]
    BY <1>3
  <2> HIDE DEF row, Row
  <2>3. ledger' \in [Run -> Row] /\ ledger'[r] = row
    BY <1>1, <2>1, <2>2
  <2> USE DEF Row
  <2> QED
    BY <1>1, <2>1, <2>2, <2>3
<1> QED
  BY <1>2, <1>3 DEF FinishRow

\* The status and the outcome of an answer are a row's and a caller's.
LEMMA AnswerType ==
  ASSUME NEW answer
  PROVE  /\ StatusOf(answer) \in {"published", "already_published", "failed"}
         /\ OutcomeOf(answer) \in Outcomes
         /\ StatusOf(answer) = "published" => answer = "stored"
         /\ StatusOf(answer) = "already_published" => answer = "present"
BY DEF StatusOf, OutcomeOf, Outcomes, DoneStatuses

\* Counters are natural numbers.
LEMMA CounterIsNat == Numbers \subseteq Nat
BY PublishAssumption DEF Numbers

\* The sets of row statuses, spelled out.
LEMMA StatusConstants ==
  /\ {"unused", "failed", "dry_run", "in_progress", "published", "already_published"} = RunStatuses
  /\ ClaimedStatuses = {"in_progress", "published", "already_published"}
  /\ DoneStatuses = {"published", "already_published"}
BY DEF RunStatuses, ClaimedStatuses, DoneStatuses

\* The type of the call record, which every action but the registry's updates.
CallType == [pc      : CallPhases,
             release : Release \union {NoRelease},
             run     : Run \union {NoRun},
             next    : Nat,
             tries   : 0..MaxClaimAttempts,
             floor   : Nat,
             outcome : Outcomes \union {"none"}]

\* A call that has just begun.
LEMMA CallOfType ==
  ASSUME NEW pc \in CallPhases, NEW rel \in Release \union {NoRelease},
         NEW r \in Run \union {NoRun}, NEW floor \in Nat, NEW outcome \in Outcomes \union {"none"}
  PROVE  CallOf(pc, rel, r, floor, outcome) \in CallType
BY PublishAssumption DEF CallOf, CallType

\* No call.
LEMMA NoCallType == NoCall \in CallType
BY CallOfType DEF NoCall, CallPhases

\* A call that is over.
LEMMA ReturningType ==
  ASSUME NEW rel \in Release \union {NoRelease}, NEW r \in Run \union {NoRun},
         NEW outcome \in Outcomes
  PROVE  /\ Returning(rel, r, outcome) \in CallType
         /\ Returning(rel, r, outcome).pc = "returning"
         /\ Returning(rel, r, outcome).run = r
<1>1. Returning(rel, r, outcome) \in CallType
  BY CallOfType DEF Returning, CallPhases
<1> QED
  BY <1>1 DEF Returning, CallOf

\* A call that becomes another call keeps the type of calls.
LEMMA CallMoves ==
  ASSUME call \in [Publisher -> CallType], NEW p \in Publisher, NEW c \in CallType,
         call' = [call EXCEPT ![p] = c]
  PROVE  call' \in [Publisher -> CallType]
OBVIOUS

\* A call that returns keeps the type of calls.
LEMMA LeaveType ==
  ASSUME call \in [Publisher -> CallType], NEW p \in Publisher, NEW outcome \in Outcomes,
         NEW row \in Run \union {NoRun},
         call' = [call EXCEPT ![p] = Returning(call[p].release, row, outcome)]
  PROVE  call' \in [Publisher -> CallType]
<1>1. call[p].release \in Release \union {NoRelease}
  BY DEF CallType
<1>2. Returning(call[p].release, row, outcome) \in CallType
  BY <1>1, ReturningType
<1> QED
  BY <1>2, CallMoves

\* A call that returns keeps the types, whether or not its row was closed.
LEMMA CloseType ==
  ASSUME PublishTypeOK, NEW p \in Publisher, call[p].run \in Run,
         NEW status \in RunStatuses, NEW outcome \in Outcomes,
         NEW row \in {NoRun, call[p].run},
         \E recorded \in BOOLEAN : FinishRow(call[p].run, status, recorded),
         call' = [call EXCEPT ![p] = Returning(call[p].release, row, outcome)],
         UNCHANGED <<registry, upload>>
  PROVE  PublishTypeOK'
<1>1. call' \in [Publisher -> CallType]
  BY LeaveType DEF PublishTypeOK, CallType
<1>2. ledger' \in [Run -> [status : RunStatuses, counter : Numbers,
                         release : Release \union {NoRelease}]]
  BY FinishRowEffect
<1> QED
  BY <1>1, <1>2 DEF PublishTypeOK, CallType

\* Types hold initially.
LEMMA PublishTypeInit == PublishInit => PublishTypeOK
<1> SUFFICES ASSUME PublishInit PROVE PublishTypeOK
  OBVIOUS
<1>1. 0 \in Numbers
  BY PublishAssumption DEF Numbers
<1>2. call \in [Publisher -> CallType]
  BY NoCallType DEF PublishInit
<1> QED
  BY <1>1, <1>2, StatusConstants DEF PublishInit, PublishTypeOK, CallType, UploadStates

\* One step of one call, or of the registry, keeps the types.
LEMMA PublishTypeStep ==
  ASSUME PublishTypeOK, CallsOwnRows, PublishNext
  PROVE  PublishTypeOK'
<1>0. call \in [Publisher -> CallType]
  BY DEF PublishTypeOK, CallType
<1> "refused" \in Outcomes /\ "dry_run" \in Outcomes /\ "unavailable" \in Outcomes
     /\ "failed_retryable" \in Outcomes /\ "failed" \in RunStatuses /\ "dry_run" \in RunStatuses
     /\ "in_progress" \in RunStatuses
  BY StatusConstants DEF Outcomes
<1>1. ASSUME NEW p \in Publisher, NEW rel \in Release, Begin(p, rel)
      PROVE  PublishTypeOK'
  <2> PICK r \in Run, n \in 0..(MaxCounter + 1) :
          call' = [call EXCEPT ![p] = CallOf("counting", rel, r, n, "none")]
    BY <1>1 DEF Begin
  <2>1. CallOf("counting", rel, r, n, "none") \in CallType
    BY CallOfType, PublishAssumption DEF CallPhases
  <2> QED
    BY <1>0, <1>1, <2>1 DEF Begin, PublishTypeOK, CallType
<1>2. ASSUME NEW p \in Publisher, NEW rel \in Release, Refuse(p, rel)
      PROVE  PublishTypeOK'
  <2>1. Returning(rel, NoRun, "refused") \in CallType
    BY ReturningType
  <2> QED
    BY <1>0, <1>2, <2>1 DEF Refuse, PublishTypeOK, CallType
<1>3. ASSUME NEW p \in Publisher, NEW rel \in Release, DryRun(p, rel)
      PROVE  PublishTypeOK'
  <2>1. Returning(rel, NoRun, "dry_run") \in CallType
    BY ReturningType
  <2>2. ledger' \in [Run -> [status : RunStatuses, counter : Numbers,
                           release : Release \union {NoRelease}]]
    BY <1>3 DEF DryRun, PublishTypeOK
  <2> QED
    BY <1>0, <1>3, <2>1, <2>2 DEF DryRun, PublishTypeOK, CallType
<1>4. ASSUME NEW p \in Publisher, ReadCounter(p)
      PROVE  PublishTypeOK'
  <2> PICK n \in Numbers : call' = [call EXCEPT ![p].pc = "claiming", ![p].next = n]
    BY <1>4 DEF ReadCounter
  <2>1. n \in Nat
    BY CounterIsNat
  <2> DEFINE c == [call[p] EXCEPT !.pc = "claiming", !.next = n]
  <2>3. c \in CallType
    BY <1>0, <2>1 DEF CallType, CallPhases
  <2>4. call' = [call EXCEPT ![p] = c]
    OBVIOUS
  <2> HIDE DEF c
  <2>2. call' \in [Publisher -> CallType]
    BY <1>0, <2>3, <2>4, CallMoves
  <2> QED
    BY <1>4, <2>2 DEF ReadCounter, PublishTypeOK, CallType
<1>5. ASSUME NEW p \in Publisher, ClaimWins(p)
      PROVE  PublishTypeOK'
  <2>1. call[p].run \in Run /\ call[p].release \in Release \union {NoRelease}
    BY <1>0, <1>5 DEF ClaimWins, CallsOwnRows, CallType
  <2> DEFINE c == [call[p] EXCEPT !.pc = "building", !.next = 0, !.tries = 0]
  <2>0. call[p] \in CallType /\ 0 \in 0..MaxClaimAttempts /\ "building" \in CallPhases
    BY <1>0, PublishAssumption DEF CallPhases
  <2>4. c \in CallType
    BY <2>0 DEF CallType
  <2>5. call' = [call EXCEPT ![p] = c]
    BY <1>5 DEF ClaimWins
  <2> HIDE DEF c
  <2>2. call' \in [Publisher -> CallType]
    BY <1>0, <2>4, <2>5, CallMoves
  <2>3. ledger' \in [Run -> [status : RunStatuses, counter : Numbers,
                           release : Release \union {NoRelease}]]
    BY <1>5, <2>1 DEF ClaimWins, PublishTypeOK
  <2> QED
    BY <1>5, <2>2, <2>3 DEF ClaimWins, PublishTypeOK, CallType
<1>6. ASSUME NEW p \in Publisher, ClaimLoses(p)
      PROVE  PublishTypeOK'
  <2>1. CASE /\ call[p].tries + 1 < MaxClaimAttempts
             /\ call' = [call EXCEPT ![p].next = call[p].next + 1,
                                     ![p].tries = call[p].tries + 1]
    <3> DEFINE n == call[p].next + 1
               t == call[p].tries + 1
    <3>1. n \in Nat /\ t \in 0..MaxClaimAttempts
      BY <1>0, <2>1, PublishAssumption DEF CallType
    <3>2. call' = [call EXCEPT ![p].next = n, ![p].tries = t]
      BY <2>1
    <3> HIDE DEF n, t
    <3> DEFINE c == [call[p] EXCEPT !.next = n, !.tries = t]
    <3>4. c \in CallType
      BY <1>0, <3>1 DEF CallType
    <3>5. call' = [call EXCEPT ![p] = c]
      BY <3>2
    <3> HIDE DEF c
    <3>3. call' \in [Publisher -> CallType]
      BY <1>0, <3>4, <3>5, CallMoves
    <3> QED
      BY <1>6, <3>3 DEF ClaimLoses, PublishTypeOK, CallType
  <2>2. CASE call' = [call EXCEPT ![p] = Returning(call[p].release, NoRun, "unavailable")]
    <3>1. call' \in [Publisher -> CallType]
      BY <1>0, <2>2, LeaveType
    <3> QED
      BY <1>6, <3>1 DEF ClaimLoses, PublishTypeOK, CallType
  <2> QED
    BY <1>6, <2>1, <2>2 DEF ClaimLoses
<1>7. ASSUME NEW p \in Publisher, BuildFails(p)
      PROVE  PublishTypeOK'
  BY <1>7, CloseType DEF BuildFails, CallsOwnRows
<1>8. ASSUME NEW p \in Publisher, SendUpload(p)
      PROVE  PublishTypeOK'
  <2> DEFINE c == [call[p] EXCEPT !.pc = "uploading"]
  <2>1. c \in CallType
    BY <1>0 DEF CallType, CallPhases
  <2>2. call' = [call EXCEPT ![p] = c]
    BY <1>8 DEF SendUpload
  <2> HIDE DEF c
  <2>3. call' \in [Publisher -> CallType]
    BY <1>0, <2>1, <2>2, CallMoves
  <2>4. upload' \in [Run -> UploadStates]
    BY <1>8 DEF SendUpload, PublishTypeOK, UploadStates
  <2> QED
    BY <1>8, <2>3, <2>4 DEF SendUpload, PublishTypeOK, CallType
<1>9. ASSUME NEW r \in Run, RegistryAnswers(r)
      PROVE  PublishTypeOK'
  BY <1>9 DEF RegistryAnswers, PublishTypeOK, UploadStates
<1>10. ASSUME NEW p \in Publisher, CloseAnswered(p)
       PROVE  PublishTypeOK'
  <2> DEFINE answer == upload[call[p].run]
  <2>1. StatusOf(answer) \in RunStatuses /\ OutcomeOf(answer) \in Outcomes
    BY AnswerType, StatusConstants
  <2> QED
    BY <1>10, <2>1, CloseType DEF CloseAnswered, CallsOwnRows
<1>11. ASSUME NEW p \in Publisher, Timeout(p)
       PROVE  PublishTypeOK'
  BY <1>11, CloseType DEF Timeout, CallsOwnRows
<1>12. ASSUME NEW p \in Publisher, Return(p) \/ Crash(p)
       PROVE  PublishTypeOK'
  BY <1>0, <1>12, NoCallType DEF Return, Crash, PublishTypeOK, CallType
<1>13. ASSUME NEW p \in Publisher, Breaks(p)
       PROVE  PublishTypeOK'
  <2>1. "failed_final" \in Outcomes
    BY DEF Outcomes
  <2>2. call' \in [Publisher -> CallType]
    BY <1>0, <1>13, <2>1, LeaveType DEF Breaks
  <2> QED
    BY <1>13, <2>2 DEF Breaks, PublishTypeOK, CallType
<1> QED
  BY <1>1, <1>2, <1>3, <1>4, <1>5, <1>6, <1>7, <1>8, <1>9, <1>10, <1>11, <1>12, <1>13
  DEF PublishNext, CallStep

\* Whatever a step does to one call, the others stay.
LEMMA OnlyOneCall ==
  ASSUME PublishTypeOK, NEW p \in Publisher, NEW c, call' = [call EXCEPT ![p] = c]
  PROVE  /\ call'[p] = c
         /\ \A q \in Publisher : q # p => call'[q] = call[q]
BY DEF PublishTypeOK

\* A step that starts a call, or ends one, leaving ledger, registry and requests alone.
LEMMA CallOnlyStep ==
  ASSUME PublishInvariant, NEW p \in Publisher, NEW c \in CallType,
         call' = [call EXCEPT ![p] = c],
         UNCHANGED <<ledger, registry, upload>>,
         c.run # NoRun => \A q \in Publisher : q # p => call[q].run # c.run,
         c.pc \in {"idle", "counting", "claiming", "returning"},
         c.pc \in {"counting", "claiming"} => c.run \in Run /\ ledger[c.run].status = "unused",
         c.pc = "counting" => c.floor = 0 \/ \E n \in DoneNumbers : c.floor = n + 1,
         c.pc = "claiming" => c.next >= c.floor
  PROVE  PublishInvariant'
<1>0. /\ call'[p] = c
      /\ \A q \in Publisher : q # p => call'[q] = call[q]
  BY OnlyOneCall DEF PublishInvariant
<1>1. PublishTypeOK'
  BY DEF PublishInvariant, PublishTypeOK, CallType
<1>2. CallsOwnRows'
  BY <1>0 DEF PublishInvariant, CallsOwnRows
<1>3. CallsMatchRows'
  BY <1>0 DEF PublishInvariant, CallsMatchRows
<1>4. ClaimsUnique'
  BY DEF PublishInvariant, ClaimsUnique
<1>5. RowsMatchRegistry'
  BY DEF PublishInvariant, RowsMatchRegistry
<1>6. DoneNumbers' = DoneNumbers
  BY DEF DoneNumbers
<1>7. FloorsHold'
  BY <1>0, <1>6 DEF PublishInvariant, FloorsHold
<1> QED
  BY <1>1, <1>2, <1>3, <1>4, <1>5, <1>7 DEF PublishInvariant

\* A call that begins keeps the invariant: its row is fresh, its floor is a released number.
LEMMA BeginStep ==
  ASSUME PublishInvariant, NEW p \in Publisher, NEW rel \in Release, Begin(p, rel)
  PROVE  PublishInvariant'
<1> PICK r \in Run, n \in 0..(MaxCounter + 1) :
        /\ IsFreshRun(r)
        /\ IsSuccessor(n, DoneNumbers)
        /\ call' = [call EXCEPT ![p] = CallOf("counting", rel, r, n, "none")]
  BY DEF Begin
<1> DEFINE c == CallOf("counting", rel, r, n, "none")
<1>1. c \in CallType
  BY CallOfType, PublishAssumption DEF CallPhases
<1>2. c.pc = "counting" /\ c.run = r /\ c.floor = n
  BY DEF CallOf
<1>3. n = 0 \/ \E m \in DoneNumbers : n = m + 1
  BY DEF IsSuccessor
<1>4. ledger[r].status = "unused" /\ \A q \in Publisher : call[q].run # r
  BY DEF IsFreshRun
<1> HIDE DEF c
<1> QED
  BY <1>1, <1>2, <1>3, <1>4, CallOnlyStep DEF Begin, c

\* A call that leaves with an outcome, or is gone.
LEMMA LeaveStep ==
  ASSUME PublishInvariant, NEW p \in Publisher,
         \/ \E rel \in Release : Refuse(p, rel)
         \/ Breaks(p) \/ Return(p) \/ Crash(p)
  PROVE  PublishInvariant'
<1>1. ASSUME NEW rel \in Release, Refuse(p, rel)
      PROVE  PublishInvariant'
  <2> DEFINE c == Returning(rel, NoRun, "refused")
  <2>1. "refused" \in Outcomes
    BY DEF Outcomes
  <2>2. c \in CallType /\ c.pc = "returning" /\ c.run = NoRun
    BY <2>1, ReturningType
  <2> HIDE DEF c
  <2> QED
    BY <1>1, <2>2, CallOnlyStep DEF Refuse, c
<1>2. ASSUME Return(p) \/ Crash(p)
      PROVE  PublishInvariant'
  <2>1. NoCall.pc = "idle" /\ NoCall.run = NoRun
    BY DEF NoCall, CallOf
  <2> QED
    BY <1>2, <2>1, NoCallType, CallOnlyStep DEF Return, Crash
<1>3. ASSUME Breaks(p)
      PROVE  PublishInvariant'
  <2> DEFINE c == Returning(call[p].release, NoRun, "failed_final")
  <2>0. call[p].release \in Release \union {NoRelease} /\ "failed_final" \in Outcomes
    BY DEF PublishInvariant, PublishTypeOK, CallType, Outcomes
  <2>1. c \in CallType /\ c.pc = "returning" /\ c.run = NoRun
    BY <2>0, ReturningType
  <2>2. call' = [call EXCEPT ![p] = c] /\ UNCHANGED <<ledger, registry, upload>>
    BY <1>3 DEF Breaks
  <2> HIDE DEF c
  <2> QED
    BY <2>1, <2>2, CallOnlyStep
<1> QED
  BY <1>1, <1>2, <1>3

\* The number read is past the floor.
LEMMA ReadCounterStep ==
  ASSUME PublishInvariant, NEW p \in Publisher, ReadCounter(p)
  PROVE  PublishInvariant'
<1>0. PICK n \in Numbers : /\ IsNextCounter(n)
                           /\ call' = [call EXCEPT ![p].pc = "claiming", ![p].next = n]
  BY DEF ReadCounter
<1> DEFINE c == [call[p] EXCEPT !.pc = "claiming", !.next = n]
<1>1. call[p] \in CallType /\ call[p].pc = "counting"
  BY DEF PublishInvariant, PublishTypeOK, CallType, ReadCounter
<1>2. n \in Nat
  BY CounterIsNat
<1>3. c \in CallType /\ c.pc = "claiming" /\ c.next = n /\ c.run = call[p].run
        /\ c.floor = call[p].floor
  BY <1>1, <1>2 DEF CallType, CallPhases
<1>4. DoneNumbers \subseteq ClaimedNumbers
  BY DEF DoneNumbers, ClaimedNumbers, ClaimedStatuses
<1>5. \A m \in ClaimedNumbers : m \in Nat /\ m < n
  BY <1>0, CounterIsNat DEF IsNextCounter, IsSuccessor, ClaimedNumbers, PublishInvariant,
                            PublishTypeOK
<1>6. n >= call[p].floor
  BY <1>1, <1>2, <1>4, <1>5 DEF PublishInvariant, FloorsHold
<1>7. call' = [call EXCEPT ![p] = c]
  BY <1>0
<1>8. call[p].run \in Run /\ ledger[call[p].run].status = "unused"
  BY <1>1 DEF PublishInvariant, CallsOwnRows, CallsMatchRows
<1>9. \A q \in Publisher : q # p => call[q].run # call[p].run
  BY <1>8, PublishAssumption DEF PublishInvariant, CallsOwnRows
<1>10. c.next >= c.floor
  BY <1>3, <1>6
<1>11. UNCHANGED <<ledger, registry, upload>>
  BY DEF ReadCounter
<1> HIDE DEF c
<1> QED
  BY <1>3, <1>7, <1>8, <1>9, <1>10, <1>11, CallOnlyStep

\* Counting up after a lost claim keeps the invariant.
LEMMA ClaimLosesStep ==
  ASSUME PublishInvariant, NEW p \in Publisher, ClaimLoses(p)
  PROVE  PublishInvariant'
<1>1. call[p] \in CallType /\ call[p].pc = "claiming" /\ call[p].next >= call[p].floor
  BY DEF PublishInvariant, PublishTypeOK, CallType, ClaimLoses, FloorsHold
<1>2. call[p].run \in Run /\ ledger[call[p].run].status = "unused"
  BY <1>1 DEF PublishInvariant, CallsOwnRows, CallsMatchRows
<1>3. \A q \in Publisher : q # p => call[q].run # call[p].run
  BY <1>2, PublishAssumption DEF PublishInvariant, CallsOwnRows
<1>4. CASE /\ call[p].tries + 1 < MaxClaimAttempts
           /\ call' = [call EXCEPT ![p].next = call[p].next + 1, ![p].tries = call[p].tries + 1]
  <2> DEFINE n == call[p].next + 1
             t == call[p].tries + 1
             c == [call[p] EXCEPT !.next = n, !.tries = t]
  <2>1. n \in Nat /\ t \in 0..MaxClaimAttempts /\ n >= call[p].floor
    BY <1>1, <1>4, PublishAssumption DEF CallType
  <2>2. call' = [call EXCEPT ![p].next = n, ![p].tries = t]
    BY <1>4
  <2> HIDE DEF n, t
  <2>3. c \in CallType /\ c.pc = "claiming" /\ c.next = n /\ c.run = call[p].run
          /\ c.floor = call[p].floor
    BY <1>1, <2>1 DEF CallType
  <2>4. call' = [call EXCEPT ![p] = c]
    BY <2>2
  <2>5. c.next >= c.floor
    BY <2>1, <2>3
  <2>6. UNCHANGED <<ledger, registry, upload>>
    BY DEF ClaimLoses
  <2> HIDE DEF c
  <2> QED
    BY <1>2, <1>3, <2>3, <2>4, <2>5, <2>6, CallOnlyStep
<1>5. CASE call' = [call EXCEPT ![p] = Returning(call[p].release, NoRun, "unavailable")]
  <2> DEFINE c == Returning(call[p].release, NoRun, "unavailable")
  <2>1. call[p].release \in Release \union {NoRelease} /\ "unavailable" \in Outcomes
    BY <1>1 DEF CallType, Outcomes
  <2>2. c \in CallType /\ c.pc = "returning" /\ c.run = NoRun
    BY <2>1, ReturningType
  <2>3. call' = [call EXCEPT ![p] = c]
    BY <1>5
  <2> HIDE DEF c
  <2> QED
    BY <2>2, <2>3, CallOnlyStep DEF ClaimLoses
<1> QED
  BY <1>4, <1>5 DEF ClaimLoses

\* A rehearsal claims nothing.
LEMMA DryRunStep ==
  ASSUME PublishInvariant, NEW p \in Publisher, NEW rel \in Release, DryRun(p, rel)
  PROVE  PublishInvariant'
<1>0. PICK r \in Run, n \in Numbers, recorded \in BOOLEAN :
        /\ IsFreshRun(r)
        /\ ledger' = IF recorded
                     THEN [ledger EXCEPT ![r] = [status |-> "dry_run", counter |-> n,
                                                 release |-> rel]]
                     ELSE ledger
  BY DEF DryRun
<1>1. PublishTypeOK'
  BY PublishTypeStep DEF PublishInvariant, PublishNext
<1>2. ledger[r].status = "unused" /\ \A q \in Publisher : call[q].run # r
  BY <1>0 DEF IsFreshRun
<1>3. /\ \A q \in Run : q # r => ledger'[q] = ledger[q]
      /\ ledger'[r].status \in {"unused", "dry_run"}
  BY <1>0, <1>2 DEF PublishInvariant, PublishTypeOK
<1>4. /\ call'[p].pc = "returning" /\ call'[p].run = NoRun
      /\ \A q \in Publisher : q # p => call'[q] = call[q]
  <2> DEFINE c == Returning(rel, NoRun, "dry_run")
  <2>1. c.pc = "returning" /\ c.run = NoRun
    BY DEF Returning, CallOf
  <2> HIDE DEF c
  <2> QED
    BY <2>1, OnlyOneCall DEF DryRun, PublishInvariant, c
<1>5. UNCHANGED <<registry, upload>>
  BY DEF DryRun
<1>6. CallsOwnRows'
  BY <1>4 DEF PublishInvariant, CallsOwnRows
<1>7. CallsMatchRows'
  BY <1>2, <1>3, <1>4, <1>5 DEF PublishInvariant, CallsMatchRows, CallsOwnRows
<1>8. ClaimsUnique'
  BY <1>3 DEF PublishInvariant, ClaimsUnique, ClaimedStatuses, DoneStatuses
<1>9. RowsMatchRegistry'
  <2>1. upload[r] = "none"
    BY <1>2 DEF PublishInvariant, RowsMatchRegistry
  <2>2. \A k \in Numbers : registry[k] # NoRun => registry[k] \in Run
    BY DEF PublishInvariant, PublishTypeOK
  <2> QED
    BY <1>2, <1>3, <1>5, <2>1, <2>2 DEF PublishInvariant, RowsMatchRegistry
<1>10. DoneNumbers' = DoneNumbers
  BY <1>2, <1>3 DEF DoneNumbers, DoneStatuses
<1>11. FloorsHold'
  BY <1>2, <1>3, <1>4, <1>10 DEF PublishInvariant, FloorsHold, CallsOwnRows
<1> QED
  BY <1>1, <1>6, <1>7, <1>8, <1>9, <1>11 DEF PublishInvariant

\* A claim keeps claimed numbers unique.
LEMMA ClaimWinsStep ==
  ASSUME PublishInvariant, NEW p \in Publisher, ClaimWins(p)
  PROVE  PublishInvariant'
<1> DEFINE r == call[p].run
<1>1. PublishTypeOK'
  BY PublishTypeStep DEF PublishInvariant, PublishNext, CallStep
<1>2. /\ r \in Run /\ ledger[r].status = "unused" /\ upload[r] = "none"
      /\ call[p].pc = "claiming"
      /\ call[p].next >= call[p].floor
  BY DEF ClaimWins, PublishInvariant, CallsOwnRows, CallsMatchRows, RowsMatchRegistry, FloorsHold
<1>3. \A q \in Publisher : q # p => call[q].run # r
  BY <1>2, PublishAssumption DEF PublishInvariant, CallsOwnRows
<1>4. /\ \A q \in Run : q # r => ledger'[q] = ledger[q]
      /\ ledger'[r].status = "in_progress"
      /\ ledger'[r].counter = call[p].next
  BY <1>2 DEF ClaimWins, PublishInvariant, PublishTypeOK
<1>5. /\ call'[p].pc = "building" /\ call'[p].run = r /\ call'[p].floor = call[p].floor
      /\ \A q \in Publisher : q # p => call'[q] = call[q]
  BY DEF ClaimWins, PublishInvariant, PublishTypeOK
<1>6. UNCHANGED <<registry, upload>>
  BY DEF ClaimWins
<1> HIDE DEF r
<1>7. CallsOwnRows'
  BY <1>2, <1>3, <1>5 DEF PublishInvariant, CallsOwnRows
<1>8. CallsMatchRows'
  BY <1>2, <1>3, <1>4, <1>5, <1>6 DEF PublishInvariant, CallsMatchRows, CallsOwnRows
<1>9. ClaimsUnique'
  <2>1. \A q \in Run : ledger[q].status \in ClaimedStatuses => ledger[q].counter # call[p].next
    BY DEF ClaimWins, ClaimedNumbers
  <2> QED
    BY <1>2, <1>4, <2>1 DEF PublishInvariant, ClaimsUnique
<1>10. RowsMatchRegistry'
  <2>1. \A k \in Numbers : registry[k] # NoRun => registry[k] \in Run
    BY DEF PublishInvariant, PublishTypeOK
  <2> QED
    BY <1>2, <1>4, <1>6, <2>1 DEF PublishInvariant, RowsMatchRegistry
<1>11. DoneNumbers \subseteq DoneNumbers'
  BY <1>2, <1>4 DEF DoneNumbers, DoneStatuses
<1>12. FloorsHold'
  BY <1>2, <1>3, <1>4, <1>5, <1>11 DEF PublishInvariant, FloorsHold, CallsOwnRows
<1> QED
  BY <1>1, <1>7, <1>8, <1>9, <1>10, <1>12 DEF PublishInvariant

\* Sending the upload keeps the invariant.
LEMMA SendUploadStep ==
  ASSUME PublishInvariant, NEW p \in Publisher, SendUpload(p)
  PROVE  PublishInvariant'
<1> DEFINE r == call[p].run
<1>1. PublishTypeOK'
  BY PublishTypeStep DEF PublishInvariant, PublishNext, CallStep
<1>2. /\ r \in Run /\ ledger[r].status = "in_progress" /\ upload[r] = "none"
      /\ call[p].pc = "building" /\ ledger[r].counter >= call[p].floor
  BY DEF SendUpload, PublishInvariant, CallsOwnRows, CallsMatchRows, FloorsHold
<1>3. \A q \in Publisher : q # p => call[q].run # r
  BY <1>2, PublishAssumption DEF PublishInvariant, CallsOwnRows
<1>4. upload'[r] = "sent" /\ \A q \in Run : q # r => upload'[q] = upload[q]
  BY <1>2 DEF SendUpload, PublishInvariant, PublishTypeOK
<1>5. /\ call'[p].pc = "uploading" /\ call'[p].run = r /\ call'[p].floor = call[p].floor
      /\ \A q \in Publisher : q # p => call'[q] = call[q]
  BY DEF SendUpload, PublishInvariant, PublishTypeOK
<1>6. UNCHANGED <<ledger, registry>>
  BY DEF SendUpload
<1> HIDE DEF r
<1>7. CallsOwnRows'
  BY <1>2, <1>3, <1>5 DEF PublishInvariant, CallsOwnRows
<1>8. CallsMatchRows'
  BY <1>2, <1>3, <1>4, <1>5, <1>6 DEF PublishInvariant, CallsMatchRows, CallsOwnRows
<1>9. ClaimsUnique'
  BY <1>6 DEF PublishInvariant, ClaimsUnique
<1>10. RowsMatchRegistry'
  <2>1. \A k \in Numbers : registry[k] # NoRun => registry[k] \in Run
    BY DEF PublishInvariant, PublishTypeOK
  <2> QED
    BY <1>2, <1>4, <1>6, <2>1 DEF PublishInvariant, RowsMatchRegistry
<1>11. DoneNumbers' = DoneNumbers
  BY <1>6 DEF DoneNumbers
<1>12. FloorsHold'
  <2> SUFFICES ASSUME NEW q \in Publisher
               PROVE  FloorsHold!(q)'
    BY DEF FloorsHold
  <2>1. CASE q = p
    BY <1>2, <1>5, <1>6, <2>1
  <2>2. CASE q # p
    BY <1>5, <1>6, <1>11, <2>2 DEF PublishInvariant, FloorsHold
  <2> QED
    BY <2>1, <2>2
<1> QED
  BY <1>1, <1>7, <1>8, <1>9, <1>10, <1>12 DEF PublishInvariant

\* Whatever the registry does with a request keeps the invariant.
LEMMA RegistryAnswersStep ==
  ASSUME PublishInvariant, NEW r \in Run, RegistryAnswers(r)
  PROVE  PublishInvariant'
<1> DEFINE c == ledger[r].counter
<1>1. PublishTypeOK'
  BY PublishTypeStep DEF PublishInvariant, PublishNext
<1>2. /\ c \in Numbers /\ upload[r] = "sent"
      /\ \A k \in Numbers : registry[k] # NoRun => registry[k] \in Run
      /\ \A q \in Run : ledger[q].counter \in Numbers
  BY DEF RegistryAnswers, PublishInvariant, PublishTypeOK
<1>3. UNCHANGED <<ledger, call>>
  BY DEF RegistryAnswers
<1>4. /\ upload'[r] \in {"stored", "present", "rejected", "unavailable"}
      /\ \A q \in Run : q # r => upload'[q] = upload[q]
      /\ upload'[r] = "stored" => registry[c] = NoRun /\ registry'[c] = r
      /\ upload'[r] # "stored" => registry' = registry
      /\ upload'[r] = "present" => registry[c] # NoRun
      /\ \A k \in Numbers : k # c => registry'[k] = registry[k]
  BY <1>2 DEF RegistryAnswers, PublishInvariant, PublishTypeOK
<1>5. CallsOwnRows'
  BY <1>3 DEF PublishInvariant, CallsOwnRows
<1>6. CallsMatchRows'
  BY <1>2, <1>3, <1>4 DEF PublishInvariant, CallsMatchRows, CallsOwnRows
<1>7. ClaimsUnique'
  BY <1>3 DEF PublishInvariant, ClaimsUnique
<1>8. RowsMatchRegistry'
  <2>1. \A k \in Numbers : registry'[k] # NoRun =>
            upload'[registry'[k]] = "stored" /\ ledger'[registry'[k]].counter = k
    <3> SUFFICES ASSUME NEW k \in Numbers, registry'[k] # NoRun
                 PROVE  upload'[registry'[k]] = "stored" /\ ledger'[registry'[k]].counter = k
      OBVIOUS
    <3>1. CASE registry'[k] = registry[k]
      <4>1. registry[k] \in Run /\ registry[k] # r
        BY <1>2, <3>1 DEF PublishInvariant, RowsMatchRegistry
      <4> QED
        BY <1>3, <1>4, <3>1, <4>1 DEF PublishInvariant, RowsMatchRegistry
    <3>2. CASE registry'[k] # registry[k]
      <4>1. k = c /\ upload'[r] = "stored" /\ registry'[k] = r
        BY <1>4, <3>2
      <4> QED
        BY <1>3, <4>1
    <3> QED
      BY <3>1, <3>2
  <2>2. ASSUME NEW q \in Run, q # r
        PROVE  /\ upload'[q] = "stored" => registry'[ledger'[q].counter] = q
               /\ upload'[q] = "present" => registry'[ledger'[q].counter] # NoRun
               /\ ledger'[q].status = "published" => upload'[q] = "stored"
               /\ ledger'[q].status = "already_published" => upload'[q] = "present"
               /\ ledger'[q].status \in {"unused", "dry_run"} => upload'[q] = "none"
    BY <1>2, <1>3, <1>4, <2>2, PublishAssumption DEF PublishInvariant, RowsMatchRegistry
  <2>3. /\ upload'[r] = "stored" => registry'[ledger'[r].counter] = r
        /\ upload'[r] = "present" => registry'[ledger'[r].counter] # NoRun
        /\ ledger'[r].status \notin {"published", "already_published", "unused", "dry_run"}
    BY <1>2, <1>3, <1>4 DEF PublishInvariant, RowsMatchRegistry
  <2> QED
    BY <2>1, <2>2, <2>3 DEF RowsMatchRegistry
<1>9. DoneNumbers' = DoneNumbers
  BY <1>3 DEF DoneNumbers
<1>10. FloorsHold'
  BY <1>3, <1>9 DEF PublishInvariant, FloorsHold
<1> QED
  BY <1>1, <1>5, <1>6, <1>7, <1>8, <1>10 DEF PublishInvariant

\* What is left of the invariant when call p leaves and its row r gets another status.
LEMMA ClosedRow ==
  ASSUME PublishInvariant, PublishTypeOK', NEW p \in Publisher, NEW r \in Run, call[p].run = r,
         ledger[r].status = "in_progress",
         \A q \in Run : q # r => ledger'[q] = ledger[q],
         ledger'[r].counter = ledger[r].counter,
         ledger'[r].status \in {"in_progress", "published", "already_published", "failed"},
         ledger'[r].status = "published" => upload[r] = "stored",
         ledger'[r].status = "already_published" => upload[r] = "present",
         call'[p].pc = "returning", call'[p].run \in {NoRun, r},
         \A q \in Publisher : q # p => call'[q] = call[q],
         UNCHANGED <<registry, upload>>
  PROVE  PublishInvariant'
<1>1. \A q \in Publisher : q # p => call[q].run # r
  BY PublishAssumption DEF PublishInvariant, CallsOwnRows
<1>2. CallsOwnRows'
  BY <1>1 DEF PublishInvariant, CallsOwnRows
<1>3. CallsMatchRows'
  BY <1>1 DEF PublishInvariant, CallsMatchRows, CallsOwnRows
<1>4. ClaimsUnique'
  <2>1. \A q \in Run : ledger'[q].counter = ledger[q].counter
    OBVIOUS
  <2>2. \A q \in Run : ledger'[q].status \in ClaimedStatuses
                         => ledger[q].status \in ClaimedStatuses
    BY StatusConstants
  <2> QED
    BY <2>1, <2>2 DEF PublishInvariant, ClaimsUnique
<1>5. RowsMatchRegistry'
  <2>1. \A k \in Numbers : registry[k] # NoRun => registry[k] \in Run
    BY DEF PublishInvariant, PublishTypeOK
  <2> QED
    BY <2>1 DEF PublishInvariant, RowsMatchRegistry
<1>6. DoneNumbers \subseteq DoneNumbers'
  BY StatusConstants DEF DoneNumbers
<1>7. FloorsHold'
  BY <1>1, <1>6 DEF PublishInvariant, FloorsHold, CallsOwnRows
<1> QED
  BY <1>2, <1>3, <1>4, <1>5, <1>7 DEF PublishInvariant

\* A call closes its row with a status the answer allows, and returns.
LEMMA CloseStep ==
  ASSUME PublishInvariant, PublishTypeOK', NEW p \in Publisher,
         call[p].pc \in {"building", "uploading"},
         NEW status \in {"published", "already_published", "failed"}, NEW outcome,
         \E recorded \in BOOLEAN : FinishRow(call[p].run, status, recorded),
         status = "published" => upload[call[p].run] = "stored",
         status = "already_published" => upload[call[p].run] = "present",
         NEW row \in {NoRun, call[p].run},
         call' = [call EXCEPT ![p] = Returning(call[p].release, row, outcome)],
         UNCHANGED <<registry, upload>>
  PROVE  PublishInvariant'
<1> DEFINE r == call[p].run
<1>1. r \in Run /\ ledger[r].status = "in_progress"
  BY DEF PublishInvariant, CallsOwnRows, CallsMatchRows
<1>2. /\ \A q \in Run : q # r => ledger'[q] = ledger[q]
      /\ ledger'[r].counter = ledger[r].counter
      /\ ledger'[r].status \in {"in_progress", status}
  <2>1. status \in RunStatuses
    BY StatusConstants
  <2> QED
    BY <1>1, <2>1, FinishRowEffect DEF PublishInvariant
<1>3. /\ call'[p].pc = "returning" /\ call'[p].run \in {NoRun, r}
      /\ \A q \in Publisher : q # p => call'[q] = call[q]
  <2> DEFINE c == Returning(call[p].release, row, outcome)
  <2>1. c.pc = "returning" /\ c.run = row
    BY DEF Returning, CallOf
  <2> HIDE DEF c
  <2>2. call' = [call EXCEPT ![p] = c]
    BY DEF c
  <2> QED
    BY <2>1, <2>2, OnlyOneCall DEF PublishInvariant
<1>4. /\ ledger'[r].status \in {"in_progress", "published", "already_published", "failed"}
      /\ ledger'[r].status = "published" => upload[r] = "stored"
      /\ ledger'[r].status = "already_published" => upload[r] = "present"
  BY <1>2
<1>5. call[p].run = r
  OBVIOUS
<1> HIDE DEF r
<1> QED
  BY <1>1, <1>2, <1>3, <1>4, <1>5, ClosedRow

\* The inductive invariant holds initially.
LEMMA PublishInvariantInit == PublishInit => PublishInvariant
<1> SUFFICES ASSUME PublishInit PROVE PublishInvariant
  OBVIOUS
<1>1. NoCall.pc = "idle" /\ NoCall.run = NoRun
  BY DEF NoCall, CallOf
<1>2. \A p \in Publisher : call[p] = NoCall
  BY DEF PublishInit
<1>3. CallsOwnRows /\ CallsMatchRows /\ FloorsHold
  BY <1>1, <1>2 DEF CallsOwnRows, CallsMatchRows, FloorsHold
<1>4. ClaimsUnique
  BY StatusConstants DEF PublishInit, ClaimsUnique
<1>5. RowsMatchRegistry
  BY DEF PublishInit, RowsMatchRegistry
<1> QED
  BY <1>3, <1>4, <1>5, PublishTypeInit DEF PublishInvariant

\* Every step keeps the inductive invariant.
LEMMA PublishInvariantStep == PublishInvariant /\ [PublishNext]_pubVars => PublishInvariant'
<1> SUFFICES ASSUME PublishInvariant, [PublishNext]_pubVars PROVE PublishInvariant'
  OBVIOUS
<1>1. CASE UNCHANGED pubVars
  BY <1>1 DEF pubVars, PublishInvariant, PublishTypeOK, CallsOwnRows, CallsMatchRows,
              ClaimsUnique, RowsMatchRegistry, FloorsHold, DoneNumbers
<1>2. ASSUME NEW p \in Publisher, NEW rel \in Release,
             Begin(p, rel) \/ Refuse(p, rel) \/ DryRun(p, rel)
      PROVE  PublishInvariant'
  BY <1>2, BeginStep, LeaveStep, DryRunStep
<1>3. ASSUME NEW p \in Publisher, Breaks(p) \/ Return(p) \/ Crash(p)
      PROVE  PublishInvariant'
  BY <1>3, LeaveStep
<1>4. ASSUME NEW p \in Publisher, CallStep(p)
      PROVE  PublishInvariant'
  <2>0. PublishTypeOK'
    BY <1>4, PublishTypeStep DEF PublishInvariant, PublishNext
  <2>1. CASE ReadCounter(p) \/ ClaimWins(p) \/ ClaimLoses(p) \/ SendUpload(p)
    BY <2>1, ReadCounterStep, ClaimWinsStep, ClaimLosesStep, SendUploadStep
  <2>2. CASE BuildFails(p)
    BY <2>0, <2>2, CloseStep DEF BuildFails
  <2>3. CASE Timeout(p)
    BY <2>0, <2>3, CloseStep DEF Timeout
  <2>4. CASE CloseAnswered(p)
    <3> DEFINE answer == upload[call[p].run]
    <3>1. /\ call[p].pc = "uploading"
          /\ \E recorded \in BOOLEAN : FinishRow(call[p].run, StatusOf(answer), recorded)
          /\ call' = [call EXCEPT ![p] = Returning(call[p].release, call[p].run,
                                                  OutcomeOf(answer))]
          /\ UNCHANGED <<registry, upload>>
      BY <2>4 DEF CloseAnswered
    <3> HIDE DEF answer
    <3>2. /\ StatusOf(answer) \in {"published", "already_published", "failed"}
          /\ StatusOf(answer) = "published" => answer = "stored"
          /\ StatusOf(answer) = "already_published" => answer = "present"
      BY AnswerType
    <3> QED
      BY <2>0, <3>1, <3>2, CloseStep DEF answer
  <2> QED
    BY <1>4, <2>1, <2>2, <2>3, <2>4 DEF CallStep
<1>5. ASSUME NEW r \in Run, RegistryAnswers(r)
      PROVE  PublishInvariant'
  BY <1>5, RegistryAnswersStep
<1> QED
  BY <1>1, <1>2, <1>3, <1>4, <1>5 DEF PublishNext

-----------------------------------------------------------------------------

\* The inductive invariant holds in every reachable state.
THEOREM InvariantHolds == PublishSpec => []PublishInvariant
<1> QED
  BY PublishInvariantInit, PublishInvariantStep, PTL DEF PublishSpec

\* Rows, requests, registry and calls keep their types, through every failed write,
\* timeout and crash.
THEOREM TypesHold == PublishSpec => []PublishTypeOK
<1>1. PublishInvariant => PublishTypeOK
  BY DEF PublishInvariant
<1> QED
  BY <1>1, InvariantHolds, PTL

\* Calls that upload own rows in progress, and each of these claims a number of its own.
LEMMA ClaimsKeepUploadsApart == PublishInvariant => UploadsExclusive
<1> SUFFICES ASSUME PublishInvariant, NEW p \in Publisher, NEW q \in Publisher, p # q,
                    call[p].pc = "uploading", call[q].pc = "uploading"
             PROVE  ledger[call[p].run].counter # ledger[call[q].run].counter
  BY DEF UploadsExclusive
<1>1. call[p].run \in Run /\ call[q].run \in Run /\ call[p].run # call[q].run
  BY PublishAssumption DEF PublishInvariant, CallsOwnRows
<1>2. ledger[call[p].run].status = "in_progress" /\ ledger[call[q].run].status = "in_progress"
  BY DEF PublishInvariant, CallsMatchRows
<1> QED
  BY <1>1, <1>2, StatusConstants DEF PublishInvariant, ClaimsUnique

\* However many publishers run, no two upload one version at the same time.
THEOREM UploadsAreExclusive == PublishSpec => []UploadsExclusive
BY ClaimsKeepUploadsApart, InvariantHolds, PTL

\* A row closed as published names its own upload, for ever.
THEOREM PublishedStaysOwn == PublishSpec => []PublishedIsOwn
<1>1. PublishInvariant => PublishedIsOwn
  BY DEF PublishInvariant, RowsMatchRegistry, PublishedIsOwn
<1> QED
  BY <1>1, InvariantHolds, PTL

\* A row that found its version present found the upload of another row.
LEMMA OthersHavePublished == PublishInvariant => AlreadyPublishedExists
<1> SUFFICES ASSUME PublishInvariant, NEW r \in Run, ledger[r].status = "already_published"
             PROVE  registry[ledger[r].counter] \notin {NoRun, r}
  BY DEF AlreadyPublishedExists
<1>1. upload[r] = "present" /\ registry[ledger[r].counter] # NoRun
  BY DEF PublishInvariant, RowsMatchRegistry
<1>2. ledger[r].counter \in Numbers
  BY DEF PublishInvariant, PublishTypeOK
<1> QED
  BY <1>1, <1>2 DEF PublishInvariant, RowsMatchRegistry

\* A row closed as already published names a version another row uploaded.
THEOREM AlreadyPublishedIsThere == PublishSpec => []AlreadyPublishedExists
BY OthersHavePublished, InvariantHolds, PTL

\* What the registry holds was stored by a row, which claimed its number.
LEMMA RegistryWasClaimed == PublishInvariant => UploadsAreClaimed
<1> SUFFICES ASSUME PublishInvariant, NEW c \in Numbers, registry[c] # NoRun
             PROVE  /\ ledger[registry[c]].counter = c
                    /\ ledger[registry[c]].status \in ClaimedStatuses \union {"failed"}
  BY DEF UploadsAreClaimed
<1>1. registry[c] \in Run
  BY DEF PublishInvariant, PublishTypeOK
<1>2. upload[registry[c]] = "stored" /\ ledger[registry[c]].counter = c
  BY DEF PublishInvariant, RowsMatchRegistry
<1>3. ledger[registry[c]].status \in RunStatuses \ {"unused", "dry_run"}
  BY <1>1, <1>2 DEF PublishInvariant, PublishTypeOK, RowsMatchRegistry
<1> QED
  BY <1>2, <1>3 DEF RunStatuses

\* Nothing is on the registry that the ledger did not claim a number for.
THEOREM UploadsWereClaimed == PublishSpec => []UploadsAreClaimed
BY RegistryWasClaimed, InvariantHolds, PTL

\* A call that begins after a release is done gets a higher number than it.
THEOREM NumbersGrow == PublishSpec => []NumbersFollowReleases
<1>1. PublishInvariant => NumbersFollowReleases
  BY DEF PublishInvariant, FloorsHold, NumbersFollowReleases
<1> QED
  BY <1>1, InvariantHolds, PTL

\* What a step leaves of the rows that are closed as published or already published.
DoneRowsStay == \A r \in Run : ledger[r].status \in DoneStatuses => ledger'[r] = ledger[r]

\* It leaves them alone.
LEMMA DoneRowsStayStep ==
  ASSUME PublishInvariant, [PublishNext]_pubVars
  PROVE  DoneRowsStay
<1> USE DEF DoneRowsStay
<1>1. CASE UNCHANGED ledger
  BY <1>1
<1>2. ASSUME NEW p \in Publisher, NEW rel \in Release, DryRun(p, rel)
      PROVE  DoneRowsStay
  <2> PICK q \in Run : /\ ledger[q].status = "unused"
                       /\ \A r \in Run : r # q => ledger'[r] = ledger[r]
    BY <1>2 DEF DryRun, IsFreshRun, PublishInvariant, PublishTypeOK
  <2> QED
    BY DEF DoneStatuses
<1>3. ASSUME NEW p \in Publisher, ClaimWins(p)
      PROVE  DoneRowsStay
  <2>1. ledger[call[p].run].status = "unused"
    BY <1>3 DEF ClaimWins, PublishInvariant, CallsMatchRows
  <2>2. \A r \in Run : r # call[p].run => ledger'[r] = ledger[r]
    BY <1>3 DEF ClaimWins, PublishInvariant, PublishTypeOK
  <2> QED
    BY <2>1, <2>2 DEF DoneStatuses
<1>4. ASSUME NEW p \in Publisher, BuildFails(p) \/ CloseAnswered(p) \/ Timeout(p)
      PROVE  DoneRowsStay
  <2>1. call[p].pc \in {"building", "uploading"}
    BY <1>4 DEF BuildFails, CloseAnswered, Timeout
  <2>2. call[p].run \in Run /\ ledger[call[p].run].status = "in_progress"
    BY <2>1 DEF PublishInvariant, CallsOwnRows, CallsMatchRows
  <2>3. \A r \in Run : r # call[p].run => ledger'[r] = ledger[r]
    BY <1>4 DEF BuildFails, CloseAnswered, Timeout, FinishRow, PublishInvariant,
                     PublishTypeOK
  <2> QED
    BY <2>2, <2>3 DEF DoneStatuses
<1> QED
  BY <1>1, <1>2, <1>3, <1>4
  DEF PublishNext, CallStep, pubVars, Begin, Refuse, ReadCounter, ClaimLoses, SendUpload,
      Breaks, Return, Crash, RegistryAnswers

\* No step changes a row that was closed as published or already published.
THEOREM DoneStaysDone == PublishSpec => DoneIsFinal
<1>1. [][DoneRowsStay]_pubVars <=> DoneIsFinal
  BY DEF DoneIsFinal, DoneRowsStay
<1> QED
  BY <1>1, DoneRowsStayStep, InvariantHolds, PTL DEF PublishSpec
=============================================================================
