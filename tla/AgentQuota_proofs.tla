-------------------------- MODULE AgentQuota_proofs --------------------------
(***************************************************************************)
(* Proofs about AgentQuota, for any number of processes, calls and tiers,  *)
(* any caps, day length and cache times: the counters and the bucket of a  *)
(* process, and what it refuses and lets through by them.                  *)
(***************************************************************************)
EXTENDS AgentQuota, FiniteSetTheorems, TLAPS

-----------------------------------------------------------------------------
(* Days, caps and records. *)

CounterType == [day : Nat \union {-1}, counted : Nat, admitted : Nat, admittedToday : Nat,
                due : Nat, late : BOOLEAN]
CallType == [pc : Phases, process : Process \union {NoProcess}, at : Time,
             tier : Tier \union {NoTier}, counter : Call \union {NoCall},
             read : Nat, took : Time, day : Nat]
BucketType == [tokens : Nat \union {-1}, updated : Time]

\* A day is a number no larger than the time.
LEMMA DayIsNumber == ASSUME NEW t \in Nat PROVE Day(t) \in Nat /\ Day(t) <= t
BY QuotaAssumption DEF Day

\* The clock shows numbers.
LEMMA TimeIsNumber == Time \subseteq Nat /\ 0 \in Time
BY QuotaAssumption DEF Time

\* Caps are numbers.
LEMMA CapsAreNumbers == ASSUME NEW t \in Tier PROVE Daily[t] \in Nat /\ Rate[t] \in Nat
BY QuotaAssumption

\* NoCall, NoProcess and NoTier are nothing else.
LEMMA NothingElse == NoCall \notin Call /\ NoProcess \notin Process /\ NoTier \notin Tier
BY QuotaAssumption

\* What a call, a counter and a bucket consist of.
LEMMA QuotaFields ==
  ASSUME QuotaTypeOK, NEW c \in Call
  PROVE  /\ call[c] \in CallType /\ counter[c] \in CounterType
         /\ call \in [Call -> CallType] /\ counter \in [Call -> CounterType]
BY DEF QuotaTypeOK, CallType, CounterType

\* The fields a call and a counter start with.
LEMMA FirstFields ==
  /\ NewCall \in CallType /\ NoCounter \in CounterType
  /\ NewCall.pc = "new" /\ NewCall.counter = NoCall /\ NewCall.at = 0
  /\ NoCounter.day = -1 /\ NoCounter.counted = 0 /\ NoCounter.admitted = 0
  /\ NoCounter.admittedToday = 0 /\ NoCounter.due = 0 /\ NoCounter.late = FALSE
BY TimeIsNumber DEF NewCall, NoCounter, CallType, CounterType, Phases

\* How much is counted is at least either count.
LEMMA UsedCounts ==
  ASSUME NEW u \in CounterType
  PROVE  /\ Used(u) \in Nat
         /\ u.counted + u.admitted <= Used(u) /\ u.admittedToday <= Used(u)
         /\ Used(u) = u.counted + u.admitted \/ Used(u) = u.admittedToday
BY DEF Used, Larger, CounterType

\* A bucket that has been refilled holds a number of tokens.
LEMMA RefilledIsNumber ==
  ASSUME NEW b \in BucketType, NEW rate \in Nat, NEW at \in Time
  PROVE  Refilled(b, rate, at) \in Nat
<1>1. at \in Nat /\ b.updated \in Nat /\ b.tokens \in Nat \union {-1}
  BY TimeIsNumber DEF BucketType
<1>2. Larger(0, at - b.updated) \in Nat /\ Larger(1, rate) \in Nat
  BY <1>1 DEF Larger
<1>3. rate * Larger(0, at - b.updated) \in Nat
  BY <1>2
<1> HIDE DEF Larger
<1> QED
  BY <1>1, <1>2, <1>3 DEF Refilled, Smaller

-----------------------------------------------------------------------------
(* What one step does to one call and to the counters. *)

\* A counter that has let one more call through.
OneMore(u) == [u EXCEPT !.admitted = @ + 1, !.admittedToday = @ + 1]

\* The end of admit(): the call c, which stands as k, is refused, throttled or let through on the
\* counters, and only then is anything counted.
Ends(c, k, counters) ==
    \E pc \in {"throttled", "admitted", "spent"}, took \in Time :
        /\ call' = [call EXCEPT ![c] = [k EXCEPT !.pc = pc, !.took = took]]
        /\ counter' = IF pc = "admitted" /\ k.counter # NoCall
                      THEN [counters EXCEPT ![k.counter] = OneMore(@)]
                      ELSE counters
        /\ pc = "spent" => k.counter # NoCall
        /\ k.counter # NoCall /\ pc = "spent" =>
             Daily[k.tier] <= Used(counters[k.counter])
        /\ k.counter # NoCall /\ pc = "admitted" =>
             Used(counters[k.counter]) < Daily[k.tier]

\* The rate limit alone never refuses a call as spent.
LEMMA ThrottleEnds ==
  ASSUME QuotaTypeOK, NEW c \in Call, NEW k \in CallType, k.process \in Process, k.tier \in Tier,
         NEW counters \in [Call -> CounterType], Throttle(c, k, counters),
         k.counter # NoCall => Used(counters[k.counter]) < Daily[k.tier]
  PROVE  Ends(c, k, counters) /\ bucket' \in [Process -> BucketType]
<1> DEFINE rate == Rate[k.tier]
           tokens == Refilled(bucket[k.process], rate, k.at)
<1>1. now \in Time /\ k.at \in Time /\ bucket \in [Process -> BucketType]
      /\ k.counter \in Call \union {NoCall}
  BY DEF QuotaTypeOK, BucketType, CallType
<1>2. tokens \in Nat
  BY <1>1, RefilledIsNumber, CapsAreNumbers
<1>3. rate \in Nat
  BY CapsAreNumbers
<1>4. ASSUME Admitted(c, k, counters)
      PROVE  Ends(c, k, counters)
  <2>1. [counters EXCEPT ![k.counter].admitted = @ + 1, ![k.counter].admittedToday = @ + 1]
          = [counters EXCEPT ![k.counter] = OneMore(@)]
    BY DEF OneMore
  <2> QED
    BY <1>1, <1>4, <2>1 DEF Admitted, Ends
<1>5. ASSUME call' = [call EXCEPT ![c] = [k EXCEPT !.pc = "throttled", !.took = now]],
             counter' = counters
      PROVE  Ends(c, k, counters)
  BY <1>1, <1>5 DEF Ends
<1>6. bucket' \in [Process -> BucketType]
  <2>1. CASE bucket' = bucket
    BY <1>1, <2>1
  <2>2. CASE tokens >= 1
             /\ bucket' = [bucket EXCEPT ![k.process] = [tokens |-> tokens - 1, updated |-> k.at]]
    <3>1. tokens - 1 \in Nat
      BY <1>2, <2>2
    <3> HIDE DEF tokens
    <3> QED
      BY <1>1, <2>2, <3>1 DEF BucketType
  <2>3. CASE bucket' = [bucket EXCEPT ![k.process] = [tokens |-> tokens, updated |-> k.at]]
    <3> HIDE DEF tokens
    <3> QED
      BY <1>1, <1>2, <2>3 DEF BucketType
  <2> QED
    BY <2>1, <2>2, <2>3 DEF Throttle
<1>7. Ends(c, k, counters)
  BY <1>4, <1>5 DEF Throttle
<1> QED
  BY <1>6, <1>7

\* So does the daily cap, with a counter.
LEMMA JudgeEnds ==
  ASSUME QuotaTypeOK, NEW c \in Call, NEW k \in CallType, k.process \in Process, k.tier \in Tier,
         k.counter \in Call, NEW counters \in [Call -> CounterType], Judge(c, k, counters)
  PROVE  Ends(c, k, counters) /\ bucket' \in [Process -> BucketType]
<1>1. bucket \in [Process -> BucketType]
  BY DEF QuotaTypeOK, BucketType
<1>2. CASE /\ Used(counters[k.counter]) >= Daily[k.tier]
           /\ call' = [call EXCEPT ![c] = [k EXCEPT !.pc = "spent"]]
           /\ counter' = counters
           /\ UNCHANGED bucket
  <2>1. k.took \in Time /\ [k EXCEPT !.pc = "spent"] = [k EXCEPT !.pc = "spent", !.took = k.took]
    BY DEF CallType
  <2>2. Daily[k.tier] <= Used(counters[k.counter])
    BY <1>2, UsedCounts, CapsAreNumbers
  <2> QED
    BY <1>1, <1>2, <2>1, <2>2, NothingElse DEF Ends
<1>3. CASE Used(counters[k.counter]) < Daily[k.tier] /\ Throttle(c, k, counters)
  BY <1>3, ThrottleEnds
<1> QED
  BY <1>2, <1>3 DEF Judge

\* How a call goes on from me to new: it keeps what it has found out.
CallGoesOn(c, me, new) ==
    /\ call' = [call EXCEPT ![c] = new]
    /\ new \in CallType
    /\ new.pc # "new" /\ new.process \in Process /\ new.at <= now
    /\ me.pc # "new" => new.process = me.process /\ new.at = me.at
    /\ me.pc \notin {"new", "capping"} => new.tier = me.tier
    /\ me.counter # NoCall => new.counter = me.counter
    /\ new.pc # "capping" => new.tier \in Tier
    /\ new.pc \in {"capping", "capped"} => new.counter = NoCall
    /\ new.pc \in Awaiting \union {"spent"} => new.counter # NoCall
    /\ c \in LetThrough => /\ me.pc = "admitted" /\ new.pc = "recorded"
                           /\ new.counter = me.counter
    /\ c \notin LetThrough => new.pc # "recorded"
    /\ new.pc \in {"admitted", "recorded"} /\ new.counter = NoCall => Daily[new.tier] = 0
    /\ new.pc = "capped" => new.tier = tier
    /\ new.pc = "counted" => new.read = Cardinality(Rows(Day(new.at)))

\* The call opens a counter for its day, in place of another.
Opens(c, new, counters) ==
    LET last == usage[new.process] IN
    /\ call[c].counter = NoCall
    /\ new.counter = c
    /\ usage' = [usage EXCEPT ![new.process] = c]
    /\ last # NoCall => counter[last].day # Day(new.at)
    /\ counters[c].day = Day(new.at)
    /\ counters[c].late <=> last # NoCall /\ counter[last].day > Day(new.at)
    /\ \A id \in Call : id # c => counters[id].day = counter[id].day
                                 /\ counters[id].late = counter[id].late

\* It counts on the counter it has, or on the process's, or on none.
StaysOn(c, new, counters) ==
    /\ UNCHANGED usage
    /\ \A id \in Call : counters[id].day = counter[id].day /\ counters[id].late = counter[id].late
    /\ \/ new.counter = call[c].counter
       \/ /\ new.counter = usage[new.process]
          /\ new.counter \in Call
          /\ counter[new.counter].day = Day(new.at)

\* The counters, before the call is let through on one of them.
Counts(c, new, counters) ==
    /\ counters \in [Call -> CounterType]
    /\ usage' \in [Process -> Call \union {NoCall}]
    /\ Opens(c, new, counters) \/ StaysOn(c, new, counters)
    /\ \A id \in Call :
          /\ id # new.counter => counters[id] = counter[id]
          /\ counters[id].admittedToday = counter[id].admittedToday
          /\ \/ counters[id].counted + counters[id].admitted
                  = counter[id].counted + counter[id].admitted
             \/ /\ call[c].pc = "counted" /\ call[c].counter = id
                /\ counters[id].counted + counters[id].admitted = call[c].read

\* A call that awaits nothing yet, or its caps.
LEMMA CapsAwaited ==
  ASSUME CountersSound, NEW c \in Call, call[c].pc \in {"new", "capping", "capped"}
  PROVE  call[c].counter = NoCall /\ counter[c] = NoCounter /\ c \notin LetThrough
BY NothingElse DEF CountersSound, CallsAreSound, CountersAreOpened, LetThrough

\* A counter that is opened.
LEMMA OpeningFields ==
  ASSUME NEW k, Day(k.at) \in Nat
  PROVE  /\ Opening(k) \in CounterType
         /\ Opening(k).day = Day(k.at)
         /\ Opening(k).late <=> /\ usage[k.process] # NoCall
                               /\ counter[usage[k.process]].day > Day(k.at)
         /\ Opening(k).counted = 0 /\ Opening(k).admitted = 0 /\ Opening(k).admittedToday = 0
<1> DEFINE late == usage[k.process] # NoCall /\ counter[usage[k.process]].day > Day(k.at)
           day == Day(k.at)
<1>1. ASSUME NEW d \in Nat, NEW l \in BOOLEAN
      PROVE  /\ [NoCounter EXCEPT !.day = d, !.late = l] \in CounterType
             /\ [NoCounter EXCEPT !.day = d, !.late = l].day = d
             /\ [NoCounter EXCEPT !.day = d, !.late = l].late = l
             /\ [NoCounter EXCEPT !.day = d, !.late = l].counted = 0
             /\ [NoCounter EXCEPT !.day = d, !.late = l].admitted = 0
             /\ [NoCounter EXCEPT !.day = d, !.late = l].admittedToday = 0
  BY DEF NoCounter, CounterType
<1>2. Opening(k) = [NoCounter EXCEPT !.day = day, !.late = late] /\ late \in BOOLEAN
  BY DEF Opening
<1> HIDE DEF late, day
<1>3. PICK l \in BOOLEAN : l = late
  BY <1>2
<1>4. Opening(k) = [NoCounter EXCEPT !.day = day, !.late = l] /\ day \in Nat
  BY <1>2, <1>3 DEF day
<1> QED
  BY ZenonT(60), <1>1, <1>3, <1>4 DEF day, late

\* admit() from where the caps are known: it waits for the count, or ends.
LEMMA ProceedCounts ==
  ASSUME CountersSound, NEW c \in Call, call[c].pc \in {"new", "capping", "capped"},
         NEW k \in CallType, k.process \in Process, k.tier \in Tier, k.counter = NoCall,
         Proceed(c, k)
  PROVE  \E new, counters :
           /\ new \in CallType
           /\ new.process = k.process /\ new.tier = k.tier /\ new.at = k.at
           /\ new.counter = NoCall => Daily[k.tier] = 0
           /\ Counts(c, new, counters)
           /\ \/ Ends(c, new, counters)
              \/ /\ call' = [call EXCEPT ![c] = [new EXCEPT !.pc = "counting"]]
                 /\ counter' = counters
                 /\ new.counter # NoCall
           /\ bucket' \in [Process -> BucketType]
<1>0. /\ QuotaTypeOK /\ counter \in [Call -> CounterType]
      /\ usage \in [Process -> Call \union {NoCall}]
      /\ call[c].counter = NoCall /\ counter[c] = NoCounter
  BY QuotaFields, CapsAwaited DEF CountersSound, QuotaTypeOK
<1>1. CASE Daily[k.tier] = 0 /\ Throttle(c, k, counter) /\ UNCHANGED usage
  <2>1. Ends(c, k, counter) /\ bucket' \in [Process -> BucketType]
    BY <1>0, <1>1, ThrottleEnds
  <2>2. Counts(c, k, counter)
    BY <1>0, <1>1 DEF Counts, StaysOn
  <2> QED
    BY <1>1, <2>1, <2>2
<1>2. CASE Daily[k.tier] > 0
  <2> DEFINE id == UsageIs(c, k)
             counters == IF id = c THEN [counter EXCEPT ![c] = Opening(k)] ELSE counter
             new == [k EXCEPT !.counter = id]
  <2>1. /\ usage' = [usage EXCEPT ![k.process] = id]
        /\ \/ /\ call' = [call EXCEPT ![c] = [new EXCEPT !.pc = "counting"]]
              /\ counter' = counters
              /\ UNCHANGED bucket
           \/ Judge(c, new, counters)
    BY <1>2, CapsAreNumbers DEF Proceed
  <2>2. id \in Call /\ id # NoCall
    BY <1>0, NothingElse DEF UsageIs
  <2>3. usage[k.process] # c
    BY <1>0, NothingElse DEF CountersSound, CountersAreOpened
  <2>4. k.at \in Time /\ Day(k.at) \in Nat
    BY TimeIsNumber, DayIsNumber DEF CallType
  <2> DEFINE last == usage[k.process]
             late == last # NoCall /\ counter[last].day > Day(k.at)
  <2>5. /\ Opening(k) \in CounterType
        /\ Opening(k).day = Day(k.at)
        /\ Opening(k).late <=> late
        /\ Opening(k).counted = 0 /\ Opening(k).admitted = 0 /\ Opening(k).admittedToday = 0
    BY <2>4, OpeningFields
  <2>6. /\ new \in CallType /\ new.counter = id /\ new.process = k.process
        /\ new.tier = k.tier /\ new.at = k.at
    <3> HIDE DEF id
    <3> QED
      BY <2>2 DEF CallType
  <2>7. CASE id = c
    <3>1. counters = [counter EXCEPT ![c] = Opening(k)]
      BY <2>7
    <3>2. last # NoCall => counter[last].day # Day(k.at)
      BY <2>3, <2>7 DEF UsageIs
    <3> HIDE DEF counters, id, new, late
    <3>3. /\ counters \in [Call -> CounterType]
          /\ counters[c] = Opening(k)
          /\ \A i \in Call : i # c => counters[i] = counter[i]
      BY <1>0, <2>5, <3>1
    <3>4. Opens(c, new, counters)
      BY <1>0, <2>1, <2>5, <2>6, <2>7, <3>2, <3>3 DEF Opens, late
    <3>5. usage' \in [Process -> Call \union {NoCall}]
      BY <1>0, <2>1, <2>2
    <3>6. \A i \in Call : /\ counters[i].admittedToday = counter[i].admittedToday
                          /\ counters[i].counted + counters[i].admitted
                               = counter[i].counted + counter[i].admitted
      BY <1>0, <2>5, <3>3, FirstFields
    <3>7. Counts(c, new, counters)
      BY <2>6, <2>7, <3>3, <3>4, <3>5, <3>6 DEF Counts
    <3>8. CASE Judge(c, new, counters)
      <4>1. Ends(c, new, counters) /\ bucket' \in [Process -> BucketType]
        BY <1>0, <2>2, <2>6, <3>3, <3>8, JudgeEnds
      <4> QED
        BY <2>2, <2>6, <3>7, <4>1
    <3>9. CASE /\ call' = [call EXCEPT ![c] = [new EXCEPT !.pc = "counting"]]
               /\ counter' = counters
               /\ UNCHANGED bucket
      <4>1. bucket' \in [Process -> BucketType]
        BY <1>0, <3>9 DEF QuotaTypeOK, BucketType
      <4> QED
        BY <2>2, <2>6, <3>7, <3>9, <4>1
    <3> QED
      BY <2>1, <3>8, <3>9
  <2>8. CASE id # c
    <3>1. counters = counter
      BY <2>8
    <3>2. id = usage[k.process] /\ counter[id].day = Day(k.at)
      BY <2>8 DEF UsageIs
    <3> HIDE DEF counters, id, new, late
    <3>3. UNCHANGED usage
      BY <1>0, <2>1, <3>2
    <3>4. Counts(c, new, counters)
      BY <1>0, <2>2, <2>6, <3>1, <3>2, <3>3 DEF Counts, StaysOn
    <3>5. CASE Judge(c, new, counters)
      <4>1. Ends(c, new, counters) /\ bucket' \in [Process -> BucketType]
        BY <1>0, <2>2, <2>6, <3>1, <3>5, JudgeEnds
      <4> QED
        BY <2>2, <2>6, <3>4, <4>1
    <3>6. CASE /\ call' = [call EXCEPT ![c] = [new EXCEPT !.pc = "counting"]]
               /\ counter' = counters
               /\ UNCHANGED bucket
      <4>1. bucket' \in [Process -> BucketType]
        BY <1>0, <3>6 DEF QuotaTypeOK, BucketType
      <4> QED
        BY <2>2, <2>6, <3>4, <3>6, <4>1
    <3> QED
      BY <2>1, <3>5, <3>6
  <2> QED
    BY <2>7, <2>8
<1>3. Daily[k.tier] \in Nat
  BY CapsAreNumbers
<1> QED
  BY <1>1, <1>2, <1>3 DEF Proceed

\* What one step does: the call goes on, its counters stand, and it is let through within the cap
\* of the counter it counts on, or refused by it.
Effects(c, new, counters) ==
    /\ CallGoesOn(c, call[c], new)
    /\ Counts(c, new, counters)
    /\ \/ /\ new.pc = "admitted" /\ new.counter # NoCall
          /\ Used(counters[new.counter]) < Daily[new.tier]
          /\ counter' = [counters EXCEPT ![new.counter] = OneMore(@)]
       \/ /\ new.pc = "admitted" => new.counter = NoCall
          /\ counter' = counters
    /\ new.pc = "spent" => Daily[new.tier] <= Used(counters[new.counter])
    /\ bucket' \in [Process -> BucketType]

\* The end of admit() for a call that has its counter, if it needs one.
LEMMA EndEffects ==
  ASSUME QuotaTypeOK, NEW c \in Call, c \notin LetThrough,
         NEW k \in CallType, NEW counters,
         k.process \in Process, k.at <= now, k.tier \in Tier,
         call[c].pc # "new" => k.process = call[c].process /\ k.at = call[c].at,
         call[c].pc \notin {"new", "capping"} => k.tier = call[c].tier,
         call[c].counter # NoCall => k.counter = call[c].counter,
         k.counter = NoCall => Daily[k.tier] = 0,
         Counts(c, k, counters), Ends(c, k, counters), bucket' \in [Process -> BucketType]
  PROVE  \E new : Effects(c, new, counters)
<1>1. PICK pc \in {"throttled", "admitted", "spent"}, took \in Time :
        /\ call' = [call EXCEPT ![c] = [k EXCEPT !.pc = pc, !.took = took]]
        /\ counter' = IF pc = "admitted" /\ k.counter # NoCall
                      THEN [counters EXCEPT ![k.counter] = OneMore(@)]
                      ELSE counters
        /\ pc = "spent" => k.counter # NoCall
        /\ k.counter # NoCall /\ pc = "spent" =>
             Daily[k.tier] <= Used(counters[k.counter])
        /\ k.counter # NoCall /\ pc = "admitted" =>
             Used(counters[k.counter]) < Daily[k.tier]
  BY DEF Ends
<1> DEFINE new == [k EXCEPT !.pc = pc, !.took = took]
<1>2. /\ new \in CallType
      /\ new.pc = pc /\ new.process = k.process /\ new.at = k.at /\ new.tier = k.tier
      /\ new.counter = k.counter
  BY DEF CallType, Phases
<1>3. call' = [call EXCEPT ![c] = new]
  BY <1>1
<1> HIDE DEF new
<1>4. CallGoesOn(c, call[c], new)
  BY <1>1, <1>2, <1>3 DEF CallGoesOn, Awaiting
<1>5. Counts(c, new, counters)
  BY <1>2 DEF Counts, Opens, StaysOn
<1>6. new.pc = "spent" => Daily[new.tier] <= Used(counters[new.counter])
  BY <1>1, <1>2
<1>7. \/ /\ new.pc = "admitted" /\ new.counter # NoCall
         /\ Used(counters[new.counter]) < Daily[new.tier]
         /\ counter' = [counters EXCEPT ![new.counter] = OneMore(@)]
      \/ /\ new.pc = "admitted" => new.counter = NoCall
         /\ counter' = counters
  BY <1>1, <1>2
<1>8. Effects(c, new, counters)
  BY <1>4, <1>5, <1>6, <1>7 DEF Effects
<1> QED
  BY <1>8

\* A call that learns something, and leaves usage, counters and buckets as they are.
LEMMA WaitEffects ==
  ASSUME QuotaTypeOK, NEW c \in Call, NEW new, CallGoesOn(c, call[c], new),
         new.pc \notin {"admitted", "spent"}, new.counter = call[c].counter,
         UNCHANGED <<usage, counter, bucket>>
  PROVE  \E k, counters : Effects(c, k, counters)
<1>1. /\ counter \in [Call -> CounterType] /\ usage \in [Process -> Call \union {NoCall}]
      /\ bucket' \in [Process -> BucketType]
  BY QuotaFields DEF QuotaTypeOK, BucketType
<1>2. Counts(c, new, counter)
  BY <1>1 DEF Counts, StaysOn
<1>3. Effects(c, new, counter)
  BY <1>1, <1>2 DEF Effects
<1> QED
  BY <1>3

\* The caps of a call are known.
LEMMA ProceedEffects ==
  ASSUME CountersSound, NEW c \in Call, call[c].pc \in {"new", "capping", "capped"},
         NEW k \in CallType, k.process \in Process, k.tier \in Tier, k.counter = NoCall,
         k.at <= now,
         call[c].pc # "new" => k.process = call[c].process /\ k.at = call[c].at,
         call[c].pc = "capped" => k.tier = call[c].tier,
         Proceed(c, k)
  PROVE  \E new, counters : Effects(c, new, counters)
<1>0. QuotaTypeOK /\ c \notin LetThrough /\ call[c].counter = NoCall
  BY CapsAwaited DEF CountersSound
<1>1. PICK known, counters :
        /\ known \in CallType
        /\ known.process = k.process /\ known.tier = k.tier /\ known.at = k.at
        /\ known.counter = NoCall => Daily[k.tier] = 0
        /\ Counts(c, known, counters)
        /\ \/ Ends(c, known, counters)
           \/ /\ call' = [call EXCEPT ![c] = [known EXCEPT !.pc = "counting"]]
              /\ counter' = counters
              /\ known.counter # NoCall
        /\ bucket' \in [Process -> BucketType]
  BY ProceedCounts
<1>2. CASE Ends(c, known, counters)
  BY <1>0, <1>1, <1>2, EndEffects
<1>3. CASE /\ call' = [call EXCEPT ![c] = [known EXCEPT !.pc = "counting"]]
           /\ counter' = counters
           /\ known.counter # NoCall
  <2> DEFINE new == [known EXCEPT !.pc = "counting"]
  <2>1. /\ new \in CallType
        /\ new.pc = "counting" /\ new.process = k.process /\ new.at = k.at /\ new.tier = k.tier
        /\ new.counter = known.counter
    BY <1>1 DEF CallType, Phases
  <2>2. call' = [call EXCEPT ![c] = new]
    BY <1>3
  <2> HIDE DEF new
  <2>3. CallGoesOn(c, call[c], new)
    BY <1>0, <1>3, <2>1, <2>2 DEF CallGoesOn
  <2>4. Counts(c, new, counters)
    BY <1>1, <2>1 DEF Counts, Opens, StaysOn
  <2>5. Effects(c, new, counters)
    BY <1>1, <1>3, <2>1, <2>3, <2>4 DEF Effects
  <2> QED
    BY <2>5
<1> QED
  BY <1>1, <1>2, <1>3

\* The steps of a call.
CallMoves(c) ==
    \/ \E p \in Process : Arrive(c, p)
    \/ ReadLimits(c) \/ LimitsAnswered(c) \/ LimitsFail(c)
    \/ CountCalls(c) \/ CountAnswered(c) \/ CountFails(c) \/ Record(c)

\* A counter after its count has been answered, and after the count has failed.
LEMMA RefreshedFields ==
  ASSUME NEW v \in CounterType, NEW k, k.read \in Nat, k.at + UsageTtl \in Nat
  PROVE  /\ Refreshed(v, k) \in CounterType
         /\ Refreshed(v, k).day = v.day /\ Refreshed(v, k).late = v.late
         /\ Refreshed(v, k).admittedToday = v.admittedToday
         /\ Refreshed(v, k).counted + Refreshed(v, k).admitted = k.read
         /\ NotRefreshed(v, k) \in CounterType
         /\ NotRefreshed(v, k).day = v.day /\ NotRefreshed(v, k).late = v.late
         /\ NotRefreshed(v, k).admittedToday = v.admittedToday
         /\ NotRefreshed(v, k).counted + NotRefreshed(v, k).admitted = v.counted + v.admitted
<1>1. PICK r \in Nat, d \in Nat : r = k.read /\ d = k.at + UsageTtl
  OBVIOUS
<1>2. Refreshed(v, k) = [v EXCEPT !.counted = r, !.admitted = 0, !.due = d]
  BY <1>1 DEF Refreshed
<1>3. NotRefreshed(v, k) = [v EXCEPT !.due = d]
  BY <1>1 DEF NotRefreshed
<1>4. /\ Refreshed(v, k) \in CounterType
      /\ Refreshed(v, k).day = v.day /\ Refreshed(v, k).late = v.late
      /\ Refreshed(v, k).admittedToday = v.admittedToday
      /\ Refreshed(v, k).counted = r /\ Refreshed(v, k).admitted = 0
  <2> DEFINE w == Refreshed(v, k)
  <2>1. w = [v EXCEPT !.counted = r, !.admitted = 0, !.due = d]
    BY <1>2
  <2> HIDE DEF w
  <2>2. w.day = v.day /\ w.late = v.late /\ w.admittedToday = v.admittedToday
    BY <2>1 DEF CounterType
  <2>3. w.counted = r
    BY <2>1 DEF CounterType
  <2>4. w.admitted = 0
    BY <2>1 DEF CounterType
  <2>5. w \in CounterType
    BY <2>1 DEF CounterType
  <2> QED
    BY <2>2, <2>3, <2>4, <2>5 DEF w
<1>5. /\ NotRefreshed(v, k) \in CounterType
      /\ NotRefreshed(v, k).day = v.day /\ NotRefreshed(v, k).late = v.late
      /\ NotRefreshed(v, k).admittedToday = v.admittedToday
      /\ NotRefreshed(v, k).counted = v.counted /\ NotRefreshed(v, k).admitted = v.admitted
  BY <1>3 DEF CounterType
<1> QED
  BY <1>1, <1>4, <1>5

\* The answer of the count, or its failure, changes the counter and what is counted by it.
LEMMA CountEffects ==
  ASSUME CountersSound, NEW c \in Call, CountAnswered(c) \/ CountFails(c)
  PROVE  \E new, counters : Effects(c, new, counters)
<1> DEFINE me == call[c]
<1>0. /\ QuotaTypeOK /\ me \in CallType /\ counter \in [Call -> CounterType]
      /\ usage \in [Process -> Call \union {NoCall}] /\ DOMAIN call = Call
  BY QuotaFields DEF CountersSound, QuotaTypeOK
<1>1. me.pc \in Awaiting
  BY DEF CountAnswered, CountFails, Awaiting
<1>2. /\ c \notin LetThrough
      /\ me.counter \in Call /\ me.counter # NoCall
      /\ me.process \in Process /\ me.tier \in Tier /\ me.at <= now
  BY <1>0, <1>1 DEF CountersSound, CallsAreSound, CountsOwnDay, Awaiting, LetThrough, CallType
<1> DEFINE due == me.at + UsageTtl
<1>3. due \in Nat /\ me.read \in Nat
  <2>1. me.at \in Nat /\ me.read \in Nat
    BY <1>0, TimeIsNumber DEF CallType
  <2>2. UsageTtl \in Nat
    BY QuotaAssumption
  <2> QED
    BY <2>1, <2>2
<1>4. ASSUME NEW k \in CallType, NEW u \in CounterType,
             Judge(c, k, [counter EXCEPT ![me.counter] = u]), UNCHANGED usage,
             k.process = me.process, k.at = me.at, k.tier = me.tier, k.counter = me.counter,
             u.day = counter[me.counter].day, u.late = counter[me.counter].late,
             u.admittedToday = counter[me.counter].admittedToday,
             \/ u.counted + u.admitted
                  = counter[me.counter].counted + counter[me.counter].admitted
             \/ me.pc = "counted" /\ u.counted + u.admitted = me.read
      PROVE  \E new, counters : Effects(c, new, counters)
  <2> DEFINE counters == [counter EXCEPT ![me.counter] = u]
  <2>1. counters \in [Call -> CounterType]
    BY <1>0, <1>2, <1>4
  <2>2. Judge(c, k, counters)
    BY <1>4
  <2>3. counters[me.counter] = u /\ \A i \in Call : i # me.counter => counters[i] = counter[i]
    BY <1>0, <1>2
  <2> HIDE DEF counters
  <2>4. Ends(c, k, counters) /\ bucket' \in [Process -> BucketType]
    BY <1>0, <1>2, <1>4, <2>1, <2>2, JudgeEnds
  <2>5. Counts(c, k, counters)
    BY <1>0, <1>4, <2>1, <2>3 DEF Counts, StaysOn
  <2> QED
    BY <1>0, <1>1, <1>2, <1>4, <2>4, <2>5, EndEffects
<1>5. CASE CountAnswered(c)
  <2> DEFINE k == [me EXCEPT !.read = 0]
             u == Refreshed(counter[me.counter], me)
  <2>1. /\ me.pc = "counted" /\ UNCHANGED usage
        /\ Judge(c, k, [counter EXCEPT ![me.counter] = u])
    BY <1>0, <1>2, <1>5 DEF CountAnswered
  <2>2. /\ k \in CallType /\ k.process = me.process /\ k.at = me.at /\ k.tier = me.tier
        /\ k.counter = me.counter
    BY <1>0 DEF CallType
  <2>3. /\ u \in CounterType
        /\ u.day = counter[me.counter].day /\ u.late = counter[me.counter].late
        /\ u.admittedToday = counter[me.counter].admittedToday
        /\ u.counted + u.admitted = me.read
    BY <1>0, <1>2, <1>3, RefreshedFields
  <2> HIDE DEF k, u
  <2> QED
    BY <1>4, <2>1, <2>2, <2>3
<1>6. CASE CountFails(c)
  <2> DEFINE u == NotRefreshed(counter[me.counter], me)
  <2>1. UNCHANGED usage /\ Judge(c, me, [counter EXCEPT ![me.counter] = u])
    BY <1>0, <1>2, <1>6 DEF CountFails
  <2>2. /\ u \in CounterType
        /\ u.day = counter[me.counter].day /\ u.late = counter[me.counter].late
        /\ u.admittedToday = counter[me.counter].admittedToday
        /\ u.counted + u.admitted
             = counter[me.counter].counted + counter[me.counter].admitted
    BY <1>0, <1>2, <1>3, RefreshedFields
  <2> HIDE DEF u
  <2> QED
    BY <1>0, <1>4, <2>1, <2>2
<1> QED
  BY <1>5, <1>6

\* The calls are finitely many, and so are their rows.
LEMMA CallsAreFinite ==
  /\ IsFiniteSet(Call)
  /\ \A S \in SUBSET Call : IsFiniteSet(S) /\ Cardinality(S) \in Nat
BY QuotaAssumption, FS_Subset, FS_CardinalityType

\* Every step of a call is of this kind.
LEMMA CallEffects ==
  ASSUME CountersSound, NEW c \in Call, CallMoves(c)
  PROVE  \E new, counters : Effects(c, new, counters)
<1> DEFINE me == call[c]
<1>0. /\ QuotaTypeOK /\ me \in CallType /\ DOMAIN call = Call
      /\ now \in Time /\ now \in Nat /\ tier \in Tier
      /\ limits \in [Process -> [tier : Tier \union {NoTier}, until : Nat, read : BOOLEAN]]
      /\ me.at \in Nat /\ me.took \in Nat
      /\ me.pc # "new" => me.process \in Process
      /\ me.at <= now
      /\ me.pc \notin {"new", "capping"} => me.tier \in Tier
  BY QuotaFields, TimeIsNumber DEF CountersSound, QuotaTypeOK, CallsAreSound, CallType
<1>1. ASSUME NEW p \in Process, Arrive(c, p)
      PROVE  \E new, counters : Effects(c, new, counters)
  <2> DEFINE k == [me EXCEPT !.process = p, !.at = now, !.tier = limits[p].tier]
  <2>1. /\ k \in CallType /\ k.process = p /\ k.at = now /\ k.tier = limits[p].tier
        /\ k.counter = me.counter
    BY <1>0 DEF CallType
  <2>2. /\ me.pc = "new"
        /\ \/ k.tier # NoTier /\ Proceed(c, k)
           \/ /\ call' = [call EXCEPT ![c] = [k EXCEPT !.pc = "capping"]]
              /\ UNCHANGED <<usage, counter, bucket>>
    BY <1>1 DEF Arrive
  <2>3. me.counter = NoCall /\ c \notin LetThrough
    BY <2>2, CapsAwaited
  <2> HIDE DEF k
  <2>4. CASE k.tier # NoTier /\ Proceed(c, k)
    <3>1. k.tier \in Tier
      BY <1>0, <2>1, <2>4
    <3> QED
      BY <1>0, <2>1, <2>2, <2>3, <2>4, <3>1, ProceedEffects
  <2>5. CASE /\ call' = [call EXCEPT ![c] = [k EXCEPT !.pc = "capping"]]
             /\ UNCHANGED <<usage, counter, bucket>>
    <3> DEFINE new == [k EXCEPT !.pc = "capping"]
    <3>1. /\ new \in CallType /\ new.pc = "capping" /\ new.process = p /\ new.at = now
          /\ new.counter = me.counter
      BY <2>1 DEF CallType, Phases
    <3>2. call' = [call EXCEPT ![c] = new]
      BY <2>5
    <3> HIDE DEF new
    <3>3. CallGoesOn(c, me, new)
      BY <1>0, <2>2, <2>3, <3>1, <3>2 DEF CallGoesOn, Awaiting
    <3> QED
      BY <1>0, <2>5, <3>1, <3>3, WaitEffects
  <2> QED
    BY <2>2, <2>4, <2>5
<1>2. CASE ReadLimits(c)
  <2> DEFINE new == [me EXCEPT !.pc = "capped", !.tier = tier]
  <2>1. /\ me.pc = "capping" /\ UNCHANGED <<usage, counter, bucket>>
        /\ call' = [call EXCEPT ![c] = new]
    BY <1>2 DEF ReadLimits
  <2>2. me.counter = NoCall /\ c \notin LetThrough
    BY <2>1, CapsAwaited
  <2>3. /\ new \in CallType /\ new.pc = "capped" /\ new.process = me.process /\ new.at = me.at
        /\ new.counter = me.counter /\ new.tier = tier
    BY <1>0 DEF CallType, Phases
  <2> HIDE DEF new
  <2>4. CallGoesOn(c, me, new)
    BY <1>0, <2>1, <2>2, <2>3 DEF CallGoesOn, Awaiting
  <2> QED
    BY <1>0, <2>1, <2>3, <2>4, WaitEffects
<1>3. CASE LimitsAnswered(c) \/ LimitsFail(c)
  <2>1. PICK t \in Tier : /\ Proceed(c, [me EXCEPT !.tier = t])
                          /\ me.pc \in {"capping", "capped"}
                          /\ me.pc = "capped" => t = me.tier
    <3>1. CASE LimitsAnswered(c)
      BY <1>0, <3>1 DEF LimitsAnswered, LimitsAre
    <3>2. CASE LimitsFail(c)
      <4> DEFINE t == IF me.tier = NoTier THEN FreeTier ELSE me.tier
      <4>1. t \in Tier
        BY <1>0, QuotaAssumption DEF CallType
      <4>2. Proceed(c, [me EXCEPT !.tier = t]) /\ me.pc = "capping"
        BY <3>2 DEF LimitsFail, LimitsAre
      <4> HIDE DEF t
      <4> QED
        BY <4>1, <4>2
    <3> QED
      BY <1>3, <3>1, <3>2
  <2>2. me.counter = NoCall
    BY <2>1, CapsAwaited
  <2> DEFINE k == [me EXCEPT !.tier = t]
  <2>3. /\ k \in CallType /\ k.process = me.process /\ k.at = me.at /\ k.tier = t
        /\ k.counter = me.counter
    BY <1>0 DEF CallType
  <2>4. Proceed(c, k)
    BY <2>1
  <2> HIDE DEF k
  <2> QED
    BY <1>0, <2>1, <2>2, <2>3, <2>4, ProceedEffects
<1>4. CASE CountCalls(c)
  <2> DEFINE n == Cardinality(Rows(Day(me.at)))
             new == [me EXCEPT !.pc = "counted", !.read = n]
  <2>1. /\ me.pc = "counting" /\ UNCHANGED <<usage, counter, bucket>>
        /\ call' = [call EXCEPT ![c] = new]
    BY <1>4 DEF CountCalls
  <2>2. n \in Nat
    BY CallsAreFinite DEF Rows
  <2>3. me.counter # NoCall /\ c \notin LetThrough
    BY <2>1 DEF CountersSound, CountsOwnDay, Awaiting, LetThrough
  <2> HIDE DEF n
  <2>4. /\ new \in CallType /\ new.pc = "counted" /\ new.process = me.process /\ new.at = me.at
        /\ new.counter = me.counter /\ new.tier = me.tier /\ new.read = n
    BY <1>0, <2>2 DEF CallType, Phases
  <2> HIDE DEF new
  <2>5. CallGoesOn(c, me, new)
    BY <1>0, <2>1, <2>3, <2>4 DEF CallGoesOn, Awaiting, n
  <2> QED
    BY <1>0, <2>1, <2>4, <2>5, WaitEffects
<1>5. CASE CountAnswered(c) \/ CountFails(c)
  BY <1>5, CountEffects
<1>6. CASE Record(c)
  <2>1. PICK t \in me.took..now : call' = [call EXCEPT ![c].pc = "recorded", ![c].day = Day(t)]
    BY <1>6 DEF Record
  <2>2. me.pc = "admitted" /\ UNCHANGED <<usage, counter, bucket>>
    BY <1>6 DEF Record
  <2>3. Day(t) \in Nat
    <3>1. t \in Nat
      BY <1>0, <2>1
    <3> QED
      BY <3>1, DayIsNumber
  <2> DEFINE day == Day(t)
             new == [me EXCEPT !.pc = "recorded", !.day = day]
  <2>4. call' = [call EXCEPT ![c] = new]
    BY <2>1
  <2> HIDE DEF day
  <2>5. /\ new \in CallType /\ new.pc = "recorded" /\ new.process = me.process /\ new.at = me.at
        /\ new.counter = me.counter /\ new.tier = me.tier
    BY <1>0, <2>3 DEF CallType, Phases, day
  <2> HIDE DEF new
  <2>6. c \in LetThrough /\ (me.counter = NoCall => Daily[me.tier] = 0)
    BY <2>2 DEF CountersSound, CallsAreSound, LetThrough
  <2>7. CallGoesOn(c, me, new)
    BY <1>0, <2>2, <2>4, <2>5, <2>6 DEF CallGoesOn, Awaiting
  <2> QED
    BY <1>0, <2>2, <2>5, <2>7, WaitEffects
<1> QED
  BY <1>1, <1>2, <1>3, <1>4, <1>5, <1>6 DEF CallMoves

-----------------------------------------------------------------------------
(* What a step keeps of the counters. *)

\* By how much a step counts on the counter id.
Gain(new, id) == IF new.pc = "admitted" /\ new.counter = id THEN 1 ELSE 0

\* What a step leaves of calls and counters.
LEMMA AfterStep ==
  ASSUME CountersSound, NEW c \in Call, NEW new, NEW counters, Effects(c, new, counters)
  PROVE  /\ call' \in [Call -> CallType] /\ counter' \in [Call -> CounterType]
         /\ call'[c] = new /\ \A d \in Call : d # c => call'[d] = call[d]
         /\ \A id \in Call :
               /\ id # new.counter => counter'[id] = counter[id]
               /\ counter'[id].day = counters[id].day /\ counter'[id].late = counters[id].late
               /\ counter'[id].admittedToday = counter[id].admittedToday + Gain(new, id)
               /\ counter'[id].counted + counter'[id].admitted
                    = counters[id].counted + counters[id].admitted + Gain(new, id)
         /\ LetThrough' = IF new.pc = "admitted" THEN LetThrough \union {c} ELSE LetThrough
         /\ new.pc = "admitted" => c \notin LetThrough
<1>0. /\ call \in [Call -> CallType] /\ counter \in [Call -> CounterType]
      /\ call' = [call EXCEPT ![c] = new] /\ new \in CallType
      /\ counters \in [Call -> CounterType]
      /\ \A id \in Call : /\ id # new.counter => counters[id] = counter[id]
                          /\ counters[id].admittedToday = counter[id].admittedToday
  BY QuotaFields DEF CountersSound, Effects, CallGoesOn, Counts
<1>1. /\ call' \in [Call -> CallType]
      /\ call'[c] = new /\ \A d \in Call : d # c => call'[d] = call[d]
  BY <1>0
<1>2. \A u \in CounterType : /\ OneMore(u) \in CounterType
                             /\ OneMore(u).day = u.day /\ OneMore(u).late = u.late
                             /\ OneMore(u).admittedToday = u.admittedToday + 1
                             /\ OneMore(u).counted + OneMore(u).admitted
                                  = u.counted + u.admitted + 1
  <2> SUFFICES ASSUME NEW u \in CounterType
               PROVE  /\ OneMore(u) \in CounterType
                      /\ OneMore(u).day = u.day /\ OneMore(u).late = u.late
                      /\ OneMore(u).admittedToday = u.admittedToday + 1
                      /\ OneMore(u).counted + OneMore(u).admitted = u.counted + u.admitted + 1
    OBVIOUS
  <2>1. PICK m \in Nat, n \in Nat : m = u.admitted + 1 /\ n = u.admittedToday + 1
    BY DEF CounterType
  <2>2. OneMore(u) = [u EXCEPT !.admitted = m, !.admittedToday = n]
    BY <2>1 DEF OneMore
  <2> DEFINE w == OneMore(u)
  <2> HIDE DEF w
  <2>3. w = [u EXCEPT !.admitted = m, !.admittedToday = n]
    BY <2>2 DEF w
  <2>4. w.day = u.day /\ w.late = u.late /\ w.counted = u.counted
    BY <2>3 DEF CounterType
  <2>5. w.admittedToday = n
    BY <2>3 DEF CounterType
  <2>6. w.admitted = m
    BY <2>3 DEF CounterType
  <2>7. w \in CounterType
    BY <2>3 DEF CounterType
  <2>8. u.counted \in Nat /\ u.admitted \in Nat
    BY DEF CounterType
  <2> QED
    BY <2>1, <2>4, <2>5, <2>6, <2>7, <2>8 DEF w
<1>3. /\ counter' \in [Call -> CounterType]
      /\ \A id \in Call :
            /\ id # new.counter => counter'[id] = counter[id]
            /\ counter'[id].day = counters[id].day /\ counter'[id].late = counters[id].late
            /\ counter'[id].admittedToday = counter[id].admittedToday + Gain(new, id)
            /\ counter'[id].counted + counter'[id].admitted
                 = counters[id].counted + counters[id].admitted + Gain(new, id)
  <2>1. CASE /\ new.pc = "admitted" /\ new.counter # NoCall
             /\ counter' = [counters EXCEPT ![new.counter] = OneMore(@)]
    <3>1. new.counter \in Call
      BY <1>0, <2>1 DEF CallType
    <3>2. counter' \in [Call -> CounterType]
      BY <1>0, <1>2, <2>1, <3>1
    <3>3. /\ counter'[new.counter] = OneMore(counters[new.counter])
          /\ \A id \in Call : id # new.counter => counter'[id] = counters[id]
      BY <1>0, <2>1, <3>1
    <3>4. counters[new.counter] \in CounterType
      BY <1>0, <3>1
    <3>5. \A id \in Call : /\ counter[id].admittedToday \in Nat
                           /\ counters[id].counted \in Nat /\ counters[id].admitted \in Nat
      BY <1>0 DEF CounterType
    <3>6. \A id \in Call : Gain(new, id) = IF id = new.counter THEN 1 ELSE 0
      BY <2>1 DEF Gain
    <3> SUFFICES ASSUME NEW id \in Call
                 PROVE  /\ id # new.counter => counter'[id] = counter[id]
                        /\ counter'[id].day = counters[id].day
                        /\ counter'[id].late = counters[id].late
                        /\ counter'[id].admittedToday
                             = counter[id].admittedToday + Gain(new, id)
                        /\ counter'[id].counted + counter'[id].admitted
                             = counters[id].counted + counters[id].admitted + Gain(new, id)
      BY <3>2
    <3>7. CASE id = new.counter
      BY <1>0, <1>2, <3>3, <3>4, <3>6, <3>7
    <3>8. CASE id # new.counter
      BY <1>0, <3>3, <3>5, <3>6, <3>8
    <3> QED
      BY <3>7, <3>8
  <2>2. CASE (new.pc = "admitted" => new.counter = NoCall) /\ counter' = counters
    <3>1. \A id \in Call : /\ counter[id].admittedToday \in Nat
                           /\ counters[id].counted \in Nat /\ counters[id].admitted \in Nat
      BY <1>0 DEF CounterType
    <3>2. \A id \in Call : Gain(new, id) = 0
      BY <2>2, NothingElse DEF Gain
    <3> QED
      BY <1>0, <2>2, <3>1, <3>2
  <2> QED
    BY <2>1, <2>2 DEF Effects
<1>4. /\ LetThrough' = IF new.pc = "admitted" THEN LetThrough \union {c} ELSE LetThrough
      /\ new.pc = "admitted" => c \notin LetThrough
  BY <1>1 DEF LetThrough, Effects, CallGoesOn
<1> QED
  BY <1>1, <1>3, <1>4

\* The counters stay with the calls that opened them.
LEMMA CountersStayOpened ==
  ASSUME CountersSound, NEW c \in Call, NEW new, NEW counters, Effects(c, new, counters)
  PROVE  CountersAreOpened'
<1>1. /\ call'[c] = new /\ \A d \in Call : d # c => call'[d] = call[d]
      /\ \A id \in Call : id # new.counter => counter'[id] = counter[id]
  BY AfterStep
<1>2. /\ call[c].counter # NoCall => new.counter = call[c].counter
      /\ Opens(c, new, counters) \/ StaysOn(c, new, counters)
      /\ new.counter \in Call \union {NoCall} /\ new.process \in Process
      /\ usage \in [Process -> Call \union {NoCall}]
      /\ usage' \in [Process -> Call \union {NoCall}]
      /\ call' \in [Call -> CallType] /\ call \in [Call -> CallType]
  BY AfterStep, QuotaFields DEF CountersSound, QuotaTypeOK, Effects, CallGoesOn, Counts, CallType
<1>3. CountersAreOpened
  BY DEF CountersSound
<1>4. \A p \in Process : usage'[p] # NoCall => call'[usage'[p]].counter = usage'[p]
  <2> SUFFICES ASSUME NEW p \in Process, usage'[p] # NoCall
               PROVE  call'[usage'[p]].counter = usage'[p]
    OBVIOUS
  <2>1. CASE Opens(c, new, counters) /\ p = new.process
    BY <1>1, <1>2, <2>1 DEF Opens
  <2>2. CASE usage'[p] = usage[p]
    BY <1>1, <1>2, <1>3, <2>2 DEF CountersAreOpened
  <2> QED
    BY <1>2, <2>1, <2>2 DEF Opens, StaysOn
<1>5. ASSUME NEW d \in Call, call'[d].counter # NoCall
      PROVE  call'[call'[d].counter].counter = call'[d].counter
  <2>1. CASE d # c
    <3> DEFINE id == call[d].counter
    <3>1. id \in Call /\ id # NoCall /\ call'[d].counter = id
      BY <1>1, <1>2, <1>5, <2>1 DEF CallType
    <3>2. call[id].counter = id
      BY <1>3, <3>1 DEF CountersAreOpened
    <3> QED
      BY <1>1, <1>2, <3>1, <3>2
  <2>2. CASE d = c /\ Opens(c, new, counters)
    BY <1>1, <2>2 DEF Opens
  <2>3. CASE d = c /\ StaysOn(c, new, counters)
    <3> DEFINE id == new.counter
    <3>1. id \in Call /\ id # NoCall
      BY <1>1, <1>2, <1>5, <2>3
    <3>2. call[id].counter = id
      BY <1>2, <1>3, <2>3, <3>1 DEF CountersAreOpened, StaysOn
    <3> QED
      BY <1>1, <2>3, <3>1, <3>2
  <2> QED
    BY <1>2, <2>1, <2>2, <2>3
<1>6. ASSUME NEW d \in Call, call'[d].counter # d
      PROVE  counter'[d] = NoCounter
  <2>1. d # new.counter
    <3>1. new.counter # NoCall => call'[new.counter].counter = new.counter
      BY <1>1, <1>5
    <3> QED
      BY <1>6, <3>1, NothingElse
  <2>2. call[d].counter # d
    BY <1>1, <1>2, <1>6, NothingElse
  <2> QED
    BY <1>1, <1>3, <2>1, <2>2 DEF CountersAreOpened
<1> QED
  BY <1>4, <1>5, <1>6 DEF CountersAreOpened

\* A call stays on a counter of its process and day.
LEMMA DaysStay ==
  ASSUME CountersSound, NEW c \in Call, NEW new, NEW counters, Effects(c, new, counters)
  PROVE  CountsOwnDay'
<1>1. /\ call'[c] = new /\ \A d \in Call : d # c => call'[d] = call[d]
      /\ \A id \in Call : counter'[id].day = counters[id].day
  BY AfterStep
<1>2. /\ call[c].counter # NoCall => new.counter = call[c].counter
      /\ call[c].pc # "new" => new.process = call[c].process /\ new.at = call[c].at
      /\ Opens(c, new, counters) \/ StaysOn(c, new, counters)
      /\ new.counter \in Call \union {NoCall} /\ new.process \in Process
      /\ new.pc \in Awaiting => new.counter # NoCall
      /\ usage \in [Process -> Call \union {NoCall}]
      /\ usage' \in [Process -> Call \union {NoCall}]
      /\ call' \in [Call -> CallType] /\ call \in [Call -> CallType] /\ new \in CallType
  BY AfterStep, QuotaFields DEF CountersSound, QuotaTypeOK, Effects, CallGoesOn, Counts, CallType
<1>3. CountersAreOpened /\ CountsOwnDay
  BY DEF CountersSound
<1>4. call[c].counter # NoCall => call[c].pc # "new"
  BY DEF CountersSound, CallsAreSound
<1>5. \A p \in Process : usage'[p] # NoCall =>
         counter'[usage'[p]].day >= 0 /\ call'[usage'[p]].process = p
  <2> SUFFICES ASSUME NEW p \in Process, usage'[p] # NoCall
               PROVE  counter'[usage'[p]].day >= 0 /\ call'[usage'[p]].process = p
    OBVIOUS
  <2>1. CASE Opens(c, new, counters) /\ p = new.process
    <3>1. usage'[p] = c /\ counter'[c].day = Day(new.at)
      BY <1>1, <1>2, <2>1 DEF Opens
    <3>2. Day(new.at) \in Nat
      BY <1>2, TimeIsNumber, DayIsNumber DEF CallType
    <3> QED
      BY <1>1, <2>1, <3>1, <3>2
  <2>2. CASE usage'[p] = usage[p]
    <3> DEFINE id == usage[p]
    <3>1. id \in Call /\ call[id].counter = id /\ counter[id].day >= 0 /\ call[id].process = p
      BY <1>2, <1>3, <2>2 DEF CountersAreOpened, CountsOwnDay
    <3>2. Opens(c, new, counters) => id # c
      BY <3>1, NothingElse DEF Opens
    <3>3. counter'[id].day = counter[id].day
      BY <1>1, <1>2, <3>1, <3>2 DEF Opens, StaysOn
    <3> QED
      BY <1>1, <1>2, <1>4, <2>2, <3>1, <3>3, NothingElse
  <2> QED
    BY <1>2, <2>1, <2>2 DEF Opens, StaysOn
<1>6. ASSUME NEW d \in Call, call'[d].counter # NoCall
      PROVE  /\ counter'[call'[d].counter].day = Day(call'[d].at)
             /\ call'[call'[d].counter].process = call'[d].process
  <2> DEFINE id == call'[d].counter
  <2>0. id \in Call
    BY <1>2, <1>6 DEF CallType
  <2>1. CASE d # c \/ new.counter = call[c].counter
    <3>1. id = call[d].counter /\ call'[d].at = call[d].at /\ call'[d].process = call[d].process
      BY <1>1, <1>2, <1>4, <1>6, <2>1
    <3>2. call[id].counter = id /\ counter[id].day = Day(call[d].at)
          /\ call[id].process = call[d].process
      BY <1>3, <1>6, <3>1 DEF CountersAreOpened, CountsOwnDay
    <3>3. Opens(c, new, counters) => id # c
      BY <2>0, <3>2, NothingElse DEF Opens
    <3>4. counter'[id].day = counter[id].day
      BY <1>1, <1>2, <2>0, <3>3 DEF Opens, StaysOn
    <3>5. call'[id].process = call[id].process
      BY <1>1, <1>2, <1>4, <2>0, <3>2, NothingElse
    <3> QED
      BY <3>1, <3>2, <3>4, <3>5
  <2>2. CASE d = c /\ Opens(c, new, counters)
    BY <1>1, <2>2 DEF Opens
  <2>3. CASE /\ d = c /\ StaysOn(c, new, counters)
             /\ new.counter = usage[new.process] /\ new.counter \in Call
             /\ counter[new.counter].day = Day(new.at)
    <3>1. id = new.counter /\ counter'[id].day = Day(new.at)
      BY <1>1, <2>3 DEF StaysOn
    <3>2. call[id].process = new.process
      BY <1>2, <1>3, <2>3, <3>1, NothingElse DEF CountsOwnDay
    <3> QED
      BY <1>1, <2>0, <2>3, <3>1, <3>2
  <2> QED
    BY <1>2, <2>1, <2>2, <2>3 DEF StaysOn
<1>7. \A d \in Call : call'[d].pc \in Awaiting => call'[d].counter # NoCall
  BY <1>1, <1>2, <1>3 DEF CountsOwnDay
<1> QED
  BY <1>5, <1>6, <1>7 DEF CountsOwnDay

-----------------------------------------------------------------------------
(* What a step counts. *)

\* Counting finite sets of calls.
LEMMA CallCounts ==
  /\ \A S, T \in SUBSET Call : S \subseteq T => Cardinality(S) <= Cardinality(T)
  /\ \A S \in SUBSET Call, c \in Call :
        c \notin S => Cardinality(S \union {c}) = Cardinality(S) + 1
BY CallsAreFinite, FS_Subset, FS_AddElement

\* The calls let through on a counter.
CallsOn(id) == {d \in LetThrough : call[d].counter = id}

\* Calls that were let through stay where they are counted, and one more is counted at most once.
LEMMA CallsOnCounter ==
  ASSUME CountersSound, NEW c \in Call, NEW new, NEW counters, Effects(c, new, counters),
         NEW id \in Call
  PROVE  /\ CallsOn(id)' = IF Gain(new, id) = 1 THEN CallsOn(id) \union {c} ELSE CallsOn(id)
         /\ CallsOn(id) \in SUBSET Call
         /\ Gain(new, id) = 1 => c \notin CallsOn(id)
<1>1. /\ call'[c] = new /\ \A d \in Call : d # c => call'[d] = call[d]
      /\ LetThrough' = IF new.pc = "admitted" THEN LetThrough \union {c} ELSE LetThrough
      /\ new.pc = "admitted" => c \notin LetThrough
  BY AfterStep
<1>2. c \in LetThrough => new.counter = call[c].counter
  BY DEF Effects, CallGoesOn
<1>3. LetThrough \subseteq Call
  BY DEF LetThrough
<1>4. CallsOn(id)' = {d \in LetThrough' : call'[d].counter = id}
  BY DEF CallsOn
<1>5. CASE Gain(new, id) = 1
  BY <1>1, <1>2, <1>3, <1>4, <1>5 DEF Gain, CallsOn
<1>6. CASE Gain(new, id) # 1
  BY <1>1, <1>2, <1>3, <1>4, <1>6 DEF Gain, CallsOn
<1> QED
  BY <1>1, <1>3, <1>5, <1>6 DEF CallsOn

\* A counter goes on knowing its calls.
LEMMA CallsStayKnown ==
  ASSUME CountersSound, NEW c \in Call, NEW new, NEW counters, Effects(c, new, counters)
  PROVE  CountsItsCalls'
<1> SUFFICES ASSUME NEW id \in Call
             PROVE  counter'[id].admittedToday = Cardinality(CallsOn(id)')
  BY DEF CountsItsCalls, CallsOn
<1>1. counter[id].admittedToday = Cardinality(CallsOn(id))
  BY DEF CountersSound, CountsItsCalls, CallsOn
<1>2. counter'[id].admittedToday = counter[id].admittedToday + Gain(new, id)
  BY AfterStep
<1>3. CASE Gain(new, id) = 1
  BY <1>1, <1>2, <1>3, CallsOnCounter, CallCounts
<1>4. CASE Gain(new, id) # 1
  <2>1. Gain(new, id) = 0 /\ Cardinality(CallsOn(id)) \in Nat
    BY <1>4, CallsOnCounter, CallsAreFinite DEF Gain
  <2>2. CallsOn(id)' = CallsOn(id)
    BY <1>4, CallsOnCounter
  <2> QED
    BY <1>1, <1>2, <2>1, <2>2
<1> QED
  BY <1>3, <1>4

\* The rows and the calls of a day, when the calls stand as they do in calls.
RowsIn(calls, day) == {d \in Call : calls[d].pc = "recorded" /\ calls[d].day = day}
CallsIn(calls, day) ==
    {d \in Call : calls[d].pc \in {"admitted", "recorded"} /\ Day(calls[d].at) = day}
        \union RowsIn(calls, day)

\* These are the rows and the calls of the day, now and after the step.
LEMMA CallsNowAndThen ==
  ASSUME NEW day
  PROVE  Rows(day) = RowsIn(call, day) /\ CallsOf(day) = CallsIn(call, day)
BY DEF Rows, RowsIn, CallsOf, CallsIn, LetThrough

\* What it means that nothing is counted twice, then.
LEMMA NothingTwiceThen ==
  ASSUME \A id \in Call : counter'[id].counted + counter'[id].admitted
                            <= Cardinality(CallsIn(call', counter'[id].day)),
         \A d \in Call : call'[d].pc = "counted" =>
             call'[d].read <= Cardinality(RowsIn(call', Day(call'[d].at)))
  PROVE  CountsNothingTwice'
<1>1. \A id \in Call : CallsOf(counter[id].day)' = CallsIn(call', counter'[id].day)
  BY DEF CallsOf, CallsIn, LetThrough, Rows, RowsIn
<1>2. \A d \in Call : Rows(Day(call[d].at))' = RowsIn(call', Day(call'[d].at))
  BY DEF Rows, RowsIn, Day
<1> QED
  BY <1>1, <1>2 DEF CountsNothingTwice

\* Days hold calls.
LEMMA DaysHoldCalls ==
  ASSUME NEW calls, NEW day
  PROVE  /\ RowsIn(calls, day) \in SUBSET Call /\ CallsIn(calls, day) \in SUBSET Call
         /\ RowsIn(calls, day) \subseteq CallsIn(calls, day)
         /\ Cardinality(RowsIn(calls, day)) \in Nat /\ Cardinality(CallsIn(calls, day)) \in Nat
         /\ Cardinality(RowsIn(calls, day)) <= Cardinality(CallsIn(calls, day))
<1>1. /\ RowsIn(calls, day) \in SUBSET Call /\ CallsIn(calls, day) \in SUBSET Call
      /\ RowsIn(calls, day) \subseteq CallsIn(calls, day)
  BY DEF RowsIn, CallsIn
<1> QED
  BY <1>1, CallsAreFinite, CallCounts

\* No call leaves a day, and none that is let through was of it before.
LEMMA DaysGrow ==
  ASSUME CountersSound, NEW c \in Call, NEW new, NEW counters, Effects(c, new, counters),
         NEW day
  PROVE  /\ RowsIn(call, day) \subseteq RowsIn(call', day)
         /\ CallsIn(call, day) \subseteq CallsIn(call', day)
         /\ new.pc = "admitted" => c \notin CallsIn(call, day)
         /\ new.pc = "admitted" /\ Day(new.at) = day => c \in CallsIn(call', day)
<1>1. /\ call'[c] = new /\ \A d \in Call : d # c => call'[d] = call[d]
      /\ new.pc = "admitted" => c \notin LetThrough
  BY AfterStep
<1>2. /\ c \in LetThrough => call[c].pc = "admitted" /\ new.pc = "recorded"
      /\ call[c].pc # "new" => new.at = call[c].at
  BY DEF Effects, CallGoesOn
<1>3. call[c].pc # "recorded"
  BY <1>2 DEF LetThrough
<1>4. RowsIn(call, day) \subseteq RowsIn(call', day)
  BY <1>1, <1>3 DEF RowsIn
<1>5. ASSUME NEW d \in Call, call[d].pc \in {"admitted", "recorded"}, Day(call[d].at) = day
      PROVE  call'[d].pc \in {"admitted", "recorded"} /\ Day(call'[d].at) = day
  BY <1>1, <1>2, <1>5 DEF LetThrough
<1>6. CallsIn(call, day) \subseteq CallsIn(call', day)
  BY <1>4, <1>5 DEF CallsIn
<1>7. new.pc = "admitted" => c \notin CallsIn(call, day)
  BY <1>1 DEF CallsIn, RowsIn, LetThrough
<1>8. new.pc = "admitted" /\ Day(new.at) = day => c \in CallsIn(call', day)
  BY <1>1 DEF CallsIn
<1> QED
  BY <1>4, <1>6, <1>7, <1>8

\* No step counts a call twice.
LEMMA NothingTwiceAfter ==
  ASSUME CountersSound, NEW c \in Call, NEW new, NEW counters, Effects(c, new, counters)
  PROVE  CountsNothingTwice'
<1>0. /\ \A id \in Call : counter[id].counted + counter[id].admitted
                            <= Cardinality(CallsIn(call, counter[id].day))
      /\ \A d \in Call : call[d].pc = "counted" =>
            call[d].read <= Cardinality(RowsIn(call, Day(call[d].at)))
  BY CallsNowAndThen DEF CountersSound, CountsNothingTwice
<1>1. ASSUME NEW id \in Call, NEW day, day = counter'[id].day
      PROVE  counter'[id].counted + counter'[id].admitted <= Cardinality(CallsIn(call', day))
  <2> DEFINE before == counters[id].counted + counters[id].admitted
             size   == Cardinality(CallsIn(call, day))
             size2  == Cardinality(CallsIn(call', day))
  <2>1. /\ counter'[id].counted + counter'[id].admitted = before + Gain(new, id)
        /\ day = counters[id].day
    BY <1>1, AfterStep
  <2>2. size \in Nat /\ size2 \in Nat
    BY DaysHoldCalls
  <2>3. before <= size /\ before \in Nat
    <3>1. counters[id].counted \in Nat /\ counters[id].admitted \in Nat
      BY DEF Effects, Counts, CounterType
    <3>2. CASE before = counter[id].counted + counter[id].admitted
      <4>1. CASE day = counter[id].day
        BY <1>0, <3>1, <3>2, <4>1
      <4>2. CASE day # counter[id].day
        <5>1. Opens(c, new, counters) /\ id = c
          BY <2>1, <4>2 DEF Effects, Counts, Opens, StaysOn
        <5>2. counter[id] = NoCounter
          BY <5>1, NothingElse DEF CountersSound, CountersAreOpened, Opens
        <5>3. before = 0
          BY <3>2, <5>2, FirstFields
        <5> HIDE DEF before, size
        <5> QED
          BY <2>2, <5>3
      <4> QED
        BY <4>1, <4>2
    <3>3. CASE call[c].pc = "counted" /\ call[c].counter = id /\ before = call[c].read
      <4>1. before <= Cardinality(RowsIn(call, Day(call[c].at)))
        BY <1>0, <3>3
      <4>2. counter[id].day = Day(call[c].at)
        BY <3>3, NothingElse DEF CountersSound, CountsOwnDay
      <4>3. counters[id].day = counter[id].day
        BY <3>3, NothingElse DEF Effects, Counts, Opens, StaysOn
      <4>4. /\ Cardinality(RowsIn(call, day)) <= size
            /\ Cardinality(RowsIn(call, day)) \in Nat
        BY DaysHoldCalls
      <4>5. before <= Cardinality(RowsIn(call, day))
        BY <2>1, <4>1, <4>2, <4>3
      <4>6. before \in Nat
        BY <3>1
      <4> HIDE DEF before, size
      <4> QED
        BY <2>2, <4>4, <4>5, <4>6
    <3> QED
      BY <3>1, <3>2, <3>3 DEF Effects, Counts
  <2>4. CASE Gain(new, id) = 1
    <3>1. new.pc = "admitted" /\ new.counter = id
      BY <2>4 DEF Gain
    <3>2. day = Day(new.at)
      <4>1. CountsOwnDay' /\ call'[c] = new
        BY DaysStay, AfterStep
      <4> QED
        BY <1>1, <3>1, <4>1, NothingElse DEF CountsOwnDay
    <3>3. c \notin CallsIn(call, day) /\ CallsIn(call, day) \union {c} \subseteq CallsIn(call', day)
      BY <3>1, <3>2, DaysGrow
    <3>4. CallsIn(call, day) \in SUBSET Call /\ CallsIn(call', day) \in SUBSET Call
      BY DaysHoldCalls
    <3>5. size + 1 <= size2
      <4>1. Cardinality(CallsIn(call, day) \union {c}) = size + 1
        BY <3>3, <3>4, CallCounts
      <4>2. Cardinality(CallsIn(call, day) \union {c}) <= size2
        BY <3>3, <3>4, CallCounts
      <4> QED
        BY <4>1, <4>2
    <3> HIDE DEF before, size, size2
    <3> QED
      BY <2>1, <2>2, <2>3, <2>4, <3>5 DEF size2
  <2>5. CASE Gain(new, id) # 1
    <3>1. Gain(new, id) = 0
      BY <2>5 DEF Gain
    <3>2. size <= size2
      BY DaysGrow, DaysHoldCalls, CallCounts
    <3> HIDE DEF before, size, size2
    <3> QED
      BY <2>1, <2>2, <2>3, <3>1, <3>2 DEF size2
  <2> QED
    BY <2>4, <2>5
<1>2. ASSUME NEW d \in Call, call'[d].pc = "counted"
      PROVE  call'[d].read <= Cardinality(RowsIn(call', Day(call'[d].at)))
  <2>1. PICK day : day = Day(call'[d].at)
    OBVIOUS
  <2>2. call'[c] = new /\ (d # c => call'[d] = call[d]) /\ call'[d] \in CallType
    BY AfterStep
  <2> DEFINE size == Cardinality(RowsIn(call, day))
             size2 == Cardinality(RowsIn(call', day))
  <2>3. call'[d].read <= size /\ call'[d].read \in Nat
    <3>1. CASE d = c
      <4>1. new.read = Cardinality(RowsIn(call, Day(new.at)))
        BY <1>2, <2>2, <3>1, CallsNowAndThen DEF Effects, CallGoesOn
      <4>2. call'[d].read = size /\ call'[d].read \in Nat
        BY <2>1, <2>2, <3>1, <4>1 DEF CallType
      <4> QED
        BY <4>2
    <3>2. CASE d # c
      <4>1. call'[d].read <= Cardinality(RowsIn(call, Day(call'[d].at)))
        BY <1>0, <1>2, <2>2, <3>2
      <4> QED
        BY <2>1, <2>2, <4>1 DEF CallType
    <3> QED
      BY <3>1, <3>2
  <2>4. size <= size2 /\ size \in Nat /\ size2 \in Nat
    BY DaysGrow, DaysHoldCalls, CallCounts
  <2> HIDE DEF size, size2
  <2>5. call'[d].read <= size2
    BY <2>3, <2>4
  <2> QED
    BY <2>1, <2>5 DEF size2
<1>3. \A id \in Call : counter'[id].counted + counter'[id].admitted
                         <= Cardinality(CallsIn(call', counter'[id].day))
  BY <1>1
<1> QED
  BY <1>2, <1>3, NothingTwiceThen

\* A step lets no call through beyond the cap.
LEMMA CapsStayKept ==
  ASSUME CountersSound, NEW c \in Call, NEW new, NEW counters, Effects(c, new, counters)
  PROVE  CapsAreKept'
<1> SUFFICES ASSUME NEW id \in Call, NEW t \in Tier
             PROVE  Cardinality(LetThroughOn(id, t)') <= Daily[t]
  BY DEF CapsAreKept
<1>1. /\ call'[c] = new /\ \A d \in Call : d # c => call'[d] = call[d]
      /\ LetThrough' = IF new.pc = "admitted" THEN LetThrough \union {c} ELSE LetThrough
      /\ new.pc = "admitted" => c \notin LetThrough
  BY AfterStep
<1>2. /\ LetThrough \in SUBSET Call /\ LetThroughOn(id, t) \in SUBSET Call
      /\ LetThroughOn(id, t)' = {d \in LetThrough' : call'[d].counter = id /\ call'[d].tier = t}
  BY DEF LetThrough, LetThroughOn
<1>3. c \in LetThrough => new.counter = call[c].counter /\ new.tier = call[c].tier
  BY DEF Effects, CallGoesOn
<1>4. Cardinality(LetThroughOn(id, t)) <= Daily[t]
  BY DEF CountersSound, CapsAreKept
<1>5. CASE new.pc = "admitted" /\ new.counter = id /\ new.tier = t
  <2>1. LetThroughOn(id, t)' = LetThroughOn(id, t) \union {c} /\ c \notin LetThroughOn(id, t)
    BY <1>1, <1>2, <1>5 DEF LetThroughOn
  <2>2. Used(counters[id]) < Daily[t]
    BY <1>5, NothingElse DEF Effects
  <2>3. counters[id] \in CounterType /\ counters[id].admittedToday = counter[id].admittedToday
    BY DEF Effects, Counts
  <2>4. counter[id].admittedToday <= Used(counters[id]) /\ Used(counters[id]) \in Nat
    BY <2>3, UsedCounts
  <2>5. counter[id].admittedToday = Cardinality(CallsOn(id)) /\ CallsOn(id) \in SUBSET Call
    BY <1>2 DEF CountersSound, CountsItsCalls, CallsOn
  <2>6. Cardinality(LetThroughOn(id, t)) <= Cardinality(CallsOn(id))
    BY <1>2, <2>5, CallCounts DEF LetThroughOn, CallsOn
  <2>7. Cardinality(LetThroughOn(id, t)) \in Nat /\ Cardinality(CallsOn(id)) \in Nat
    BY <1>2, <2>5, CallsAreFinite
  <2>8. Cardinality(LetThroughOn(id, t)') = Cardinality(LetThroughOn(id, t)) + 1
    BY <1>2, <2>1, CallCounts
  <2> QED
    BY <2>2, <2>4, <2>5, <2>6, <2>7, <2>8, CapsAreNumbers
<1>6. CASE ~(new.pc = "admitted" /\ new.counter = id /\ new.tier = t)
  <2>1. LetThroughOn(id, t)' = LetThroughOn(id, t)
    BY <1>1, <1>2, <1>3, <1>6 DEF LetThroughOn
  <2> QED
    BY <1>4, <2>1
<1> QED
  BY <1>5, <1>6

-----------------------------------------------------------------------------
(* What a step opens, and which caps it goes by. *)

\* The counters of a process for a day and those it opened late, when calls and counters stand
\* as they do in calls and counters.
OpenedIn(calls, counters, p, d) ==
    {id \in Call : counters[id].day = d /\ calls[id].process = p}
LateIn(calls, counters, p) == {id \in Call : counters[id].late /\ calls[id].process = p}

\* Whether a process is at the day d or past it.
PastIn(counters, last, d) == last # NoCall /\ counters[last].day >= d

\* What it means that there are few counters, now and then.
LEMMA FewNowAndThen ==
  /\ CountersAreFew <=>
       \A p \in Process, d \in Time :
          Cardinality(OpenedIn(call, counter, p, d))
            <= Cardinality(LateIn(call, counter, p))
                 + (IF PastIn(counter, usage[p], d) THEN 1 ELSE 0)
  /\ CountersAreFew' <=>
       \A p \in Process, d \in Time :
          Cardinality(OpenedIn(call', counter', p, d))
            <= Cardinality(LateIn(call', counter', p))
                 + (IF PastIn(counter', usage'[p], d) THEN 1 ELSE 0)
BY DEF CountersAreFew, CountersOf, LateCounters, OpenedIn, LateIn, PastIn

\* A step opens a counter for a process and day only by opening one for its call.
LEMMA CountersOpenedBy ==
  ASSUME CountersSound, NEW c \in Call, NEW new, NEW counters, Effects(c, new, counters),
         NEW p \in Process, NEW d \in Time
  PROVE  /\ OpenedIn(call', counter', p, d)
              = IF Opens(c, new, counters) /\ p = new.process /\ d = Day(new.at)
                THEN OpenedIn(call, counter, p, d) \union {c}
                ELSE OpenedIn(call, counter, p, d)
         /\ LateIn(call', counter', p)
              = IF Opens(c, new, counters) /\ p = new.process /\ counters[c].late
                THEN LateIn(call, counter, p) \union {c}
                ELSE LateIn(call, counter, p)
         /\ Opens(c, new, counters) => /\ c \notin OpenedIn(call, counter, p, d)
                                       /\ c \notin LateIn(call, counter, p)
<1>1. /\ call'[c] = new /\ \A i \in Call : i # c => call'[i] = call[i]
      /\ \A id \in Call : /\ counter'[id].day = counters[id].day
                          /\ counter'[id].late = counters[id].late
  BY AfterStep
<1>2. /\ call[c].pc # "new" => new.process = call[c].process
      /\ Opens(c, new, counters) \/ StaysOn(c, new, counters)
  BY DEF Effects, CallGoesOn, Counts
<1>3. call[c].counter = NoCall => counter[c].day = -1 /\ counter[c].late = FALSE
  BY NothingElse, FirstFields DEF CountersSound, CountersAreOpened
<1>4. call[c].pc = "new" => call[c].counter = NoCall
  BY DEF CountersSound, CallsAreSound
<1>5. d # -1
  BY TimeIsNumber
<1>6. CASE Opens(c, new, counters)
  <2>1. call[c].counter = NoCall /\ counters[c].day = Day(new.at)
        /\ \A id \in Call : id # c => counters[id].day = counter[id].day
                                     /\ counters[id].late = counter[id].late
    BY <1>6 DEF Opens
  <2>2. c \notin OpenedIn(call, counter, p, d) /\ c \notin LateIn(call, counter, p)
    BY <1>3, <1>5, <2>1 DEF OpenedIn, LateIn
  <2>3. \A id \in Call : id # c =>
           /\ id \in OpenedIn(call', counter', p, d) <=> id \in OpenedIn(call, counter, p, d)
           /\ id \in LateIn(call', counter', p) <=> id \in LateIn(call, counter, p)
    BY <1>1, <2>1 DEF OpenedIn, LateIn
  <2>4. /\ c \in OpenedIn(call', counter', p, d) <=> p = new.process /\ d = Day(new.at)
        /\ c \in LateIn(call', counter', p) <=> p = new.process /\ counters[c].late
    BY <1>1, <2>1 DEF OpenedIn, LateIn
  <2>5. /\ OpenedIn(call', counter', p, d) \subseteq Call
        /\ OpenedIn(call, counter, p, d) \subseteq Call
        /\ LateIn(call', counter', p) \subseteq Call /\ LateIn(call, counter, p) \subseteq Call
    BY DEF OpenedIn, LateIn
  <2>6. OpenedIn(call', counter', p, d)
          = IF p = new.process /\ d = Day(new.at)
            THEN OpenedIn(call, counter, p, d) \union {c}
            ELSE OpenedIn(call, counter, p, d)
    BY <2>2, <2>3, <2>4, <2>5
  <2>7. LateIn(call', counter', p)
          = IF p = new.process /\ counters[c].late
            THEN LateIn(call, counter, p) \union {c}
            ELSE LateIn(call, counter, p)
    BY <2>2, <2>3, <2>4, <2>5
  <2> QED
    BY <1>6, <2>2, <2>6, <2>7
<1>7. CASE ~Opens(c, new, counters)
  <2>1. \A id \in Call : counters[id].day = counter[id].day /\ counters[id].late = counter[id].late
    BY <1>2, <1>7 DEF StaysOn
  <2>2. \A id \in Call : /\ id \in OpenedIn(call', counter', p, d)
                              <=> id \in OpenedIn(call, counter, p, d)
                         /\ id \in LateIn(call', counter', p) <=> id \in LateIn(call, counter, p)
    BY <1>1, <1>2, <1>3, <1>4, <1>5, <2>1 DEF OpenedIn, LateIn
  <2>3. /\ OpenedIn(call', counter', p, d) = OpenedIn(call, counter, p, d)
        /\ LateIn(call', counter', p) = LateIn(call, counter, p)
    BY <2>2 DEF OpenedIn, LateIn
  <2> QED
    BY <1>7, <2>3
<1> QED
  BY <1>6, <1>7

\* Counters stay few.
LEMMA CountersStayFew ==
  ASSUME CountersSound, NEW c \in Call, NEW new, NEW counters, Effects(c, new, counters)
  PROVE  CountersAreFew'
<1> SUFFICES ASSUME NEW p \in Process, NEW d \in Time
             PROVE  Cardinality(OpenedIn(call', counter', p, d))
                      <= Cardinality(LateIn(call', counter', p))
                           + (IF PastIn(counter', usage'[p], d) THEN 1 ELSE 0)
  BY FewNowAndThen
<1> DEFINE opened  == Cardinality(OpenedIn(call, counter, p, d))
           opened2 == Cardinality(OpenedIn(call', counter', p, d))
           lates   == Cardinality(LateIn(call, counter, p))
           lates2  == Cardinality(LateIn(call', counter', p))
           past    == PastIn(counter, usage[p], d)
           past2   == PastIn(counter', usage'[p], d)
           e       == Day(new.at)
           last    == usage[new.process]
<1>1. opened <= lates + (IF past THEN 1 ELSE 0)
  BY FewNowAndThen DEF CountersSound
<1>2. opened \in Nat /\ lates \in Nat /\ opened2 \in Nat /\ lates2 \in Nat
  BY CallsAreFinite DEF OpenedIn, LateIn
<1>3. /\ call'[c] = new
      /\ \A id \in Call : counter'[id].day = counters[id].day
      /\ counter \in [Call -> CounterType] /\ counter' \in [Call -> CounterType]
  BY AfterStep, QuotaFields DEF CountersSound
<1>4. /\ Opens(c, new, counters) \/ StaysOn(c, new, counters)
      /\ new \in CallType /\ new.process \in Process
      /\ usage \in [Process -> Call \union {NoCall}]
  BY DEF CountersSound, QuotaTypeOK, Effects, CallGoesOn, Counts
<1>5. e \in Nat /\ d \in Nat
  BY <1>4, TimeIsNumber, DayIsNumber DEF CallType
<1>6. CASE ~(Opens(c, new, counters) /\ p = new.process)
  <2>1. usage'[p] = usage[p]
    BY <1>4, <1>6 DEF Opens, StaysOn
  <2>2. past2 <=> past
    <3> SUFFICES ASSUME usage[p] # NoCall
                 PROVE  counter'[usage[p]].day = counter[usage[p]].day
      BY <2>1 DEF PastIn
    <3>1. Opens(c, new, counters) => usage[p] # c
      BY NothingElse DEF CountersSound, CountersAreOpened, Opens
    <3>2. usage[p] \in Call
      BY <1>4
    <3> QED
      BY <1>3, <1>4, <3>1, <3>2 DEF Opens, StaysOn
  <2>3. opened2 = opened /\ lates2 = lates
    BY <1>6, CountersOpenedBy
  <2> HIDE DEF opened, opened2, lates, lates2, past, past2
  <2>4. opened2 <= lates2 + (IF past2 THEN 1 ELSE 0)
    BY <1>1, <2>2, <2>3
  <2> QED
    BY <2>4 DEF opened2, lates2, past2
<1>7. CASE Opens(c, new, counters) /\ p = new.process
  <2>1. /\ usage'[p] = c /\ counter'[c].day = e
        /\ last # NoCall => counter[last].day # e
        /\ counters[c].late <=> last # NoCall /\ counter[last].day > e
    BY <1>3, <1>4, <1>7 DEF Opens
  <2>2. past2 <=> e >= d
    BY <2>1, NothingElse DEF PastIn
  <2>3. opened2 = IF d = e THEN opened + 1 ELSE opened
    <3>1. /\ OpenedIn(call', counter', p, d)
               = IF d = e THEN OpenedIn(call, counter, p, d) \union {c}
                          ELSE OpenedIn(call, counter, p, d)
          /\ c \notin OpenedIn(call, counter, p, d)
          /\ OpenedIn(call, counter, p, d) \in SUBSET Call
      BY <1>7, CountersOpenedBy DEF OpenedIn
    <3> QED
      BY <3>1, CallCounts
  <2>4. lates2 = IF counters[c].late THEN lates + 1 ELSE lates
    <3>1. /\ LateIn(call', counter', p)
               = IF counters[c].late THEN LateIn(call, counter, p) \union {c}
                                     ELSE LateIn(call, counter, p)
          /\ c \notin LateIn(call, counter, p)
          /\ LateIn(call, counter, p) \in SUBSET Call
      BY <1>7, CountersOpenedBy DEF LateIn
    <3> QED
      BY <3>1, CallCounts
  <2>5. past <=> last # NoCall /\ counter[last].day >= d
    BY <1>7 DEF PastIn
  <2>6. last # NoCall => counter[last].day \in Int
    BY <1>3, <1>4 DEF CounterType
  <2> HIDE DEF opened, opened2, lates, lates2, past, past2, e, last
  <2>7. opened2 <= lates2 + (IF past2 THEN 1 ELSE 0)
    <3>1. CASE last = NoCall
      BY <1>1, <1>2, <1>5, <2>1, <2>2, <2>3, <2>4, <2>5, <3>1
    <3>2. CASE last # NoCall
      <4>1. PICK l \in Int : l = counter[last].day
        BY <2>6, <3>2
      <4>2. CASE l > e
        BY <1>1, <1>2, <1>5, <2>1, <2>2, <2>3, <2>4, <2>5, <3>2, <4>1, <4>2
      <4>3. CASE l < e
        BY <1>1, <1>2, <1>5, <2>1, <2>2, <2>3, <2>4, <2>5, <3>2, <4>1, <4>3
      <4> QED
        BY <1>5, <2>1, <3>2, <4>1, <4>2, <4>3
    <3> QED
      BY <3>1, <3>2
  <2> QED
    BY <2>7 DEF opened2, lates2, past2
<1> QED
  BY <1>6, <1>7

\* Calls stay sound, and types are kept.
LEMMA CallsStaySound ==
  ASSUME CountersSound, NEW c \in Call, NEW new, NEW counters, Effects(c, new, counters),
         now' = now
  PROVE  CallsAreSound'
<1>1. /\ call'[c] = new /\ \A d \in Call : d # c => call'[d] = call[d]
      /\ LetThrough' = IF new.pc = "admitted" THEN LetThrough \union {c} ELSE LetThrough
  BY AfterStep
<1>2. \A d \in Call :
        /\ call[d].at <= now
        /\ call[d].pc # "new" => call[d].process \in Process
        /\ call[d].pc \notin {"new", "capping"} => call[d].tier \in Tier
        /\ call[d].pc \in {"new", "capping", "capped"} => call[d].counter = NoCall
        /\ d \in LetThrough /\ call[d].counter = NoCall => Daily[call[d].tier] = 0
  BY DEF CountersSound, CallsAreSound
<1>3. /\ new.at <= now /\ new.process \in Process
      /\ new.pc \notin {"new", "capping"} => new.tier \in Tier
      /\ new.pc \in {"new", "capping", "capped"} => new.counter = NoCall
      /\ new.pc \in {"admitted", "recorded"} /\ new.counter = NoCall => Daily[new.tier] = 0
  BY DEF Effects, CallGoesOn
<1>4. \A d \in LetThrough' : call'[d].pc \in {"admitted", "recorded"}
  BY <1>1 DEF LetThrough
<1>5. ASSUME NEW d \in Call
      PROVE  /\ call'[d].at <= now'
             /\ call'[d].pc # "new" => call'[d].process \in Process
             /\ call'[d].pc \notin {"new", "capping"} => call'[d].tier \in Tier
             /\ call'[d].pc \in {"new", "capping", "capped"} => call'[d].counter = NoCall
             /\ d \in LetThrough' /\ call'[d].counter = NoCall => Daily[call'[d].tier] = 0
  <2>1. CASE d = c
    BY <1>1, <1>3, <1>4, <2>1
  <2>2. CASE d # c
    BY <1>1, <1>2, <2>2
  <2> QED
    BY <2>1, <2>2
<1> QED
  BY <1>5 DEF CallsAreSound

\* A step of a call leaves the clock and the license alone, and caches caps it has read, or
\* others that it marks as not read.
LEMMA LimitsMove ==
  ASSUME CountersSound, NEW c \in Call, CallMoves(c)
  PROVE  /\ UNCHANGED <<now, tier, changed>>
         /\ \/ UNCHANGED limits
            \/ \E t \in Tier, read \in BOOLEAN, until \in Nat, p \in Process :
                 /\ limits' = [limits EXCEPT ![p] = [tier |-> t, until |-> until, read |-> read]]
                 /\ until = call[c].at + LimitsTtl
                 /\ read => call[c].pc = "capped" /\ t = call[c].tier
<1>1. call[c] \in CallType
  BY QuotaFields DEF CountersSound
<1>2. call[c].at + LimitsTtl \in Nat
  <2>1. call[c].at \in Nat
    BY <1>1, TimeIsNumber DEF CallType
  <2>2. LimitsTtl \in Nat
    BY QuotaAssumption
  <2> QED
    BY <2>1, <2>2
<1>3. /\ call[c].pc # "new" => call[c].process \in Process
      /\ call[c].pc = "capped" => call[c].tier \in Tier
  BY DEF CountersSound, CallsAreSound
<1>4. CASE LimitsAnswered(c)
  BY <1>2, <1>3, <1>4 DEF LimitsAnswered, LimitsAre
<1>5. CASE LimitsFail(c)
  <2>1. PICK t \in Tier : LimitsAre(c, t, FALSE)
    <3>1. (IF call[c].tier = NoTier THEN FreeTier ELSE call[c].tier) \in Tier
      BY <1>1, QuotaAssumption DEF CallType
    <3> QED
      BY <1>5, <3>1 DEF LimitsFail
  <2>2. call[c].process \in Process
    BY <1>3, <1>5 DEF LimitsFail
  <2> QED
    BY <1>2, <2>1, <2>2 DEF LimitsAre
<1>6. CASE \E p \in Process : Arrive(c, p)
  BY <1>6 DEF Arrive
<1>7. CASE ReadLimits(c) \/ CountCalls(c) \/ CountAnswered(c) \/ CountFails(c) \/ Record(c)
  BY <1>7 DEF ReadLimits, CountCalls, CountAnswered, CountFails, Record
<1> QED
  BY <1>4, <1>5, <1>6, <1>7 DEF CallMoves

\* The caps stay those of a call that came early enough.
LEMMA TiersStayFresh ==
  ASSUME CountersSound, NEW c \in Call, CallMoves(c),
         NEW new, NEW counters, Effects(c, new, counters)
  PROVE  TiersAreFresh' /\ limits' \in [Process -> [tier : Tier \union {NoTier}, until : Nat,
                                                    read : BOOLEAN]]
<1>1. /\ call'[c] = new /\ \A d \in Call : d # c => call'[d] = call[d]
      /\ call[c] \in CallType
  BY AfterStep, QuotaFields DEF CountersSound
<1>2. UNCHANGED <<now, tier, changed>>
  BY LimitsMove
<1>3. /\ now \in Nat /\ changed \in Nat /\ LimitsTtl \in Nat /\ call[c].at \in Nat
      /\ limits \in [Process -> [tier : Tier \union {NoTier}, until : Nat, read : BOOLEAN]]
  BY <1>1, TimeIsNumber, QuotaAssumption DEF CountersSound, QuotaTypeOK, CallType
<1>4. /\ changed <= now
      /\ \A p \in Process : /\ limits[p].until <= now + LimitsTtl
                            /\ limits[p].read /\ limits[p].until > changed + LimitsTtl
                                 => limits[p].tier = tier
      /\ \A d \in Call : call[d].pc = "capped" /\ call[d].at > changed => call[d].tier = tier
      /\ call[c].at <= now
  BY DEF CountersSound, TiersAreFresh, CallsAreSound
<1>5. \A d \in Call : call'[d].pc = "capped" /\ call'[d].at > changed => call'[d].tier = tier
  BY <1>1, <1>4 DEF Effects, CallGoesOn
<1>6. CASE UNCHANGED limits
  BY <1>2, <1>3, <1>4, <1>5, <1>6 DEF TiersAreFresh
<1>7. ASSUME NEW t \in Tier, NEW read \in BOOLEAN, NEW until \in Nat, NEW q \in Process,
             limits' = [limits EXCEPT ![q] = [tier |-> t, until |-> until, read |-> read]],
             until = call[c].at + LimitsTtl,
             read => call[c].pc = "capped" /\ t = call[c].tier
      PROVE  TiersAreFresh' /\ limits' \in [Process -> [tier : Tier \union {NoTier}, until : Nat,
                                                        read : BOOLEAN]]
  <2>1. /\ limits' \in [Process -> [tier : Tier \union {NoTier}, until : Nat, read : BOOLEAN]]
        /\ limits'[q].tier = t /\ limits'[q].until = until /\ limits'[q].read = read
        /\ \A p \in Process : p # q => limits'[p] = limits[p]
    BY <1>3, <1>7
  <2>2. until <= now + LimitsTtl
    BY <1>3, <1>4, <1>7
  <2>3. read /\ until > changed + LimitsTtl => t = tier
    BY <1>3, <1>4, <1>7
  <2>4. \A p \in Process : /\ limits'[p].until <= now + LimitsTtl
                           /\ limits'[p].read /\ limits'[p].until > changed + LimitsTtl
                                => limits'[p].tier = tier
    BY <1>4, <2>1, <2>2, <2>3
  <2> QED
    BY <1>2, <1>4, <1>5, <2>1, <2>4 DEF TiersAreFresh
<1> QED
  BY <1>2, <1>6, <1>7, LimitsMove

\* Every step of a call keeps the invariant.
LEMMA CallKeepsCounters ==
  ASSUME CountersSound, NEW c \in Call, CallMoves(c)
  PROVE  CountersSound'
<1>1. PICK new, counters : Effects(c, new, counters)
  BY CallEffects
<1>2. UNCHANGED <<now, tier, changed>>
  BY LimitsMove
<1>3. QuotaTypeOK'
  <2>1. /\ call' \in [Call -> CallType] /\ counter' \in [Call -> CounterType]
        /\ bucket' \in [Process -> BucketType] /\ usage' \in [Process -> Call \union {NoCall}]
    BY <1>1, AfterStep DEF Effects, Counts
  <2>2. limits' \in [Process -> [tier : Tier \union {NoTier}, until : Nat, read : BOOLEAN]]
    BY <1>1, TiersStayFresh
  <2>3. now' \in Time /\ tier' \in Tier /\ changed' \in Time
    BY <1>2 DEF CountersSound, QuotaTypeOK
  <2> QED
    BY <2>1, <2>2, <2>3 DEF QuotaTypeOK, CallType, CounterType, BucketType, Time
<1>4. /\ CallsAreSound' /\ CountsOwnDay' /\ CountersAreOpened' /\ CountsItsCalls'
      /\ CountsNothingTwice' /\ CapsAreKept' /\ CountersAreFew' /\ TiersAreFresh'
  BY <1>1, <1>2, CallsStaySound, DaysStay, CountersStayOpened, CallsStayKnown,
     NothingTwiceAfter, CapsStayKept, CountersStayFew, TiersStayFresh
<1> QED
  BY <1>3, <1>4 DEF CountersSound

-----------------------------------------------------------------------------
(* The theorems. *)

\* The first state satisfies the invariant.
LEMMA CountersStart == QuotaInit => CountersSound
<1> SUFFICES ASSUME QuotaInit PROVE CountersSound
  OBVIOUS
<1>0. /\ now = 0 /\ tier \in Tier /\ changed = 0
      /\ limits = [p \in Process |-> [tier |-> NoTier, until |-> 0, read |-> TRUE]]
      /\ usage = [p \in Process |-> NoCall]
      /\ counter = [c \in Call |-> NoCounter]
      /\ bucket = [p \in Process |-> [tokens |-> -1, updated |-> 0]]
      /\ call = [c \in Call |-> NewCall]
  BY DEF QuotaInit
<1>1. QuotaTypeOK
  <2>1. now \in Time /\ changed \in Time
    BY <1>0, TimeIsNumber
  <2>2. call \in [Call -> CallType] /\ counter \in [Call -> CounterType]
    BY <1>0, FirstFields
  <2>3. bucket \in [Process -> BucketType]
    BY <1>0, TimeIsNumber DEF BucketType
  <2>4. limits \in [Process -> [tier : Tier \union {NoTier}, until : Nat, read : BOOLEAN]]
        /\ usage \in [Process -> Call \union {NoCall}]
    BY <1>0
  <2> QED
    BY <1>0, <2>1, <2>2, <2>3, <2>4 DEF QuotaTypeOK, CallType, CounterType, BucketType, Time
<1>2. \A c \in Call : /\ call[c] = NewCall /\ counter[c] = NoCounter
                      /\ call[c].pc = "new" /\ call[c].counter = NoCall /\ call[c].at = 0
  BY <1>0, FirstFields
<1>3. LetThrough = {}
  BY <1>2 DEF LetThrough
<1>4. CallsAreSound
  BY <1>0, <1>2, <1>3 DEF CallsAreSound
<1>5. CountsOwnDay /\ CountersAreOpened
  BY <1>0, <1>2 DEF CountsOwnDay, CountersAreOpened, Awaiting
<1>6. CountsItsCalls
  <2>1. \A c \in Call : {d \in LetThrough : call[d].counter = c} = {}
    BY <1>3
  <2> QED
    BY <1>2, <2>1, FirstFields, FS_EmptySet DEF CountsItsCalls
<1>7. CountsNothingTwice
  <2>1. ASSUME NEW c \in Call
        PROVE  counter[c].counted + counter[c].admitted <= Cardinality(CallsOf(counter[c].day))
    <3>1. counter[c].counted = 0 /\ counter[c].admitted = 0
      BY <1>2, FirstFields
    <3>2. Cardinality(CallsOf(counter[c].day)) \in Nat
      BY CallsNowAndThen, DaysHoldCalls
    <3> QED
      BY <3>1, <3>2
  <2> QED
    BY <1>2, <2>1 DEF CountsNothingTwice
<1>8. CapsAreKept
  <2>1. ASSUME NEW id \in Call, NEW t \in Tier
        PROVE  Cardinality(LetThroughOn(id, t)) <= Daily[t]
    <3>1. LetThroughOn(id, t) = {}
      BY <1>3 DEF LetThroughOn
    <3> QED
      BY <3>1, FS_EmptySet, CapsAreNumbers
  <2> QED
    BY <2>1 DEF CapsAreKept
<1>9. CountersAreFew
  <2> SUFFICES ASSUME NEW p \in Process, NEW d \in Time
               PROVE  Cardinality(OpenedIn(call, counter, p, d))
                        <= Cardinality(LateIn(call, counter, p))
                             + (IF PastIn(counter, usage[p], d) THEN 1 ELSE 0)
    BY FewNowAndThen
  <2>1. OpenedIn(call, counter, p, d) = {}
    BY <1>2, FirstFields, TimeIsNumber DEF OpenedIn
  <2>2. Cardinality(LateIn(call, counter, p)) \in Nat
    BY CallsAreFinite DEF LateIn
  <2>3. Cardinality(OpenedIn(call, counter, p, d)) = 0
    BY <2>1, FS_EmptySet
  <2> QED
    BY <2>2, <2>3
<1>10. TiersAreFresh
  BY <1>0, <1>2, QuotaAssumption DEF TiersAreFresh
<1> QED
  BY <1>1, <1>4, <1>5, <1>6, <1>7, <1>8, <1>9, <1>10 DEF CountersSound

\* While no call moves and no counter is opened, what is counted stays as it is.
LEMMA CountsAtRest ==
  ASSUME CountersSound, UNCHANGED <<usage, counter, call>>
  PROVE  /\ CountsOwnDay' /\ CountersAreOpened' /\ CountsItsCalls' /\ CountsNothingTwice'
         /\ CapsAreKept' /\ CountersAreFew'
<1>1. CountsOwnDay' /\ CountersAreOpened'
  BY DEF CountersSound, CountsOwnDay, CountersAreOpened
<1>2. LetThrough' = LetThrough
  BY DEF LetThrough
<1>3. CountsItsCalls' /\ CapsAreKept'
  BY <1>2 DEF CountersSound, CountsItsCalls, CapsAreKept, LetThroughOn
<1>4. CountsNothingTwice'
  <2>1. /\ \A c \in Call : counter[c].counted + counter[c].admitted
                             <= Cardinality(CallsIn(call, counter[c].day))
        /\ \A c \in Call : call[c].pc = "counted" =>
              call[c].read <= Cardinality(RowsIn(call, Day(call[c].at)))
    BY CallsNowAndThen DEF CountersSound, CountsNothingTwice
  <2> QED
    BY <2>1, NothingTwiceThen
<1>5. CountersAreFew'
  BY FewNowAndThen DEF CountersSound
<1> QED
  BY <1>1, <1>3, <1>4, <1>5

\* A change of the license and the clock keep the invariant.
LEMMA WorldKeepsCounters ==
  ASSUME CountersSound, ChangeTier \/ Tick \/ UNCHANGED quotaVars
  PROVE  CountersSound'
<1>1. /\ UNCHANGED <<limits, usage, counter, bucket, call>>
      /\ now \in Nat /\ MaxTime \in Nat /\ changed \in Nat /\ LimitsTtl \in Nat
  BY TimeIsNumber, QuotaAssumption
     DEF CountersSound, QuotaTypeOK, ChangeTier, Tick, quotaVars
<1>2. \/ now' = now /\ tier' = tier /\ changed' = changed
      \/ now' = now /\ tier' \in Tier /\ changed' = now
      \/ now < MaxTime /\ now' = now + 1 /\ tier' = tier /\ changed' = changed
  BY DEF ChangeTier, Tick, quotaVars
<1>3. /\ now \in 0..MaxTime /\ changed \in 0..MaxTime /\ tier \in Tier
      /\ \A c \in Call : call[c].at \in Nat
      /\ \A p \in Process : limits[p].until \in Nat
  BY QuotaFields, TimeIsNumber DEF CountersSound, QuotaTypeOK, Time, CallType
<1>4. now <= now' /\ now' \in 0..MaxTime /\ changed' \in 0..MaxTime /\ tier' \in Tier
      /\ now' \in Nat
  BY <1>1, <1>2, <1>3
<1>5. QuotaTypeOK'
  BY <1>1, <1>4 DEF CountersSound, QuotaTypeOK, Time
<1>6. CallsAreSound'
  <2>1. \A c \in Call : call[c].at <= now'
    BY <1>1, <1>3, <1>4 DEF CountersSound, CallsAreSound
  <2>2. LetThrough' = LetThrough
    BY <1>1 DEF LetThrough
  <2> QED
    BY <1>1, <2>1, <2>2 DEF CountersSound, CallsAreSound
<1>7. TiersAreFresh'
  <2>1. /\ changed <= now
        /\ \A p \in Process : /\ limits[p].until <= now + LimitsTtl
                              /\ limits[p].read /\ limits[p].until > changed + LimitsTtl
                                   => limits[p].tier = tier
        /\ \A c \in Call : call[c].pc = "capped" /\ call[c].at > changed => call[c].tier = tier
        /\ \A c \in Call : call[c].at <= now
    BY DEF CountersSound, TiersAreFresh, CallsAreSound
  <2>2. \A p \in Process : limits[p].until <= now' + LimitsTtl
    BY <1>1, <1>3, <1>4, <2>1
  <2>3. CASE tier' = tier /\ changed' = changed
    <3>1. changed' <= now'
      BY <1>1, <1>4, <2>1, <2>3
    <3> QED
      BY <1>1, <2>1, <2>2, <2>3, <3>1 DEF TiersAreFresh
  <2>4. CASE now' = now /\ changed' = now
    <3>1. \A p \in Process : ~(limits[p].until > now + LimitsTtl)
      BY <1>1, <1>3, <2>1
    <3>2. \A c \in Call : ~(call[c].at > now)
      BY <1>1, <1>3, <2>1
    <3> QED
      BY <1>1, <2>2, <2>4, <3>1, <3>2 DEF TiersAreFresh
  <2> QED
    BY <1>2, <2>3, <2>4
<1> QED
  BY <1>1, <1>5, <1>6, <1>7, CountsAtRest DEF CountersSound

\* Every step keeps the invariant.
LEMMA StepKeepsCounters == CountersSound /\ [QuotaNext]_quotaVars => CountersSound'
<1> SUFFICES ASSUME CountersSound, [QuotaNext]_quotaVars PROVE CountersSound'
  OBVIOUS
<1>1. ASSUME NEW c \in Call, CallMoves(c) PROVE CountersSound'
  BY <1>1, CallKeepsCounters
<1>2. CASE ChangeTier \/ Tick \/ UNCHANGED quotaVars
  BY <1>2, WorldKeepsCounters
<1> QED
  BY <1>1, <1>2 DEF QuotaNext, CallMoves

-----------------------------------------------------------------------------
(* What a bucket gives. *)

Passed == {"throttled", "admitted", "recorded"}

\* A call c, which stands as k, comes to its bucket: it takes a token, if there is one.
Takes(c, k) ==
    LET tokens == Refilled(bucket[k.process], Rate[k.tier], k.at)
    IN  /\ k.process \in Process /\ k.tier \in Tier /\ k.at \in Time /\ k.at <= now
        /\ Rate[k.tier] > 0
        /\ call[c].pc \notin Passed
        /\ \E pc \in {"throttled", "admitted"} :
              /\ call' = [call EXCEPT ![c] = [k EXCEPT !.pc = pc, !.took = now]]
              /\ pc = "admitted" <=> tokens >= 1
              /\ bucket' = [bucket EXCEPT ![k.process] =
                               [tokens |-> IF pc = "admitted" THEN tokens - 1 ELSE tokens,
                                updated |-> k.at]]

\* A call goes on and no bucket can tell: it has not come to one, or passed it before.
Aside(c, new) ==
    /\ UNCHANGED bucket
    /\ call' = [call EXCEPT ![c] = new]
    /\ new.took <= now
    /\ \/ call[c].pc \notin Passed /\ (new.pc \in Passed => Rate[new.tier] = 0)
       \/ /\ call[c].pc = "admitted" /\ new.pc = "recorded"
          /\ new.process = call[c].process /\ new.tier = call[c].tier
          /\ new.at = call[c].at /\ new.took = call[c].took

\* Either is what a step does.
Moves(c) == \E k \in CallType : Takes(c, k) \/ Aside(c, k)

\* The rate limit, wherever admit() comes to it.
LEMMA ThrottleMoves ==
  ASSUME QuotaTypeOK, NEW c \in Call, call[c].pc \notin Passed,
         NEW k \in CallType, k.process \in Process, k.tier \in Tier, k.at <= now,
         NEW counters, Throttle(c, k, counters)
  PROVE  Moves(c)
<1> DEFINE rate == Rate[k.tier]
           tokens == Refilled(bucket[k.process], rate, k.at)
           after(pc) == [k EXCEPT !.pc = pc, !.took = now]
<1>1. now \in Time /\ now \in Nat /\ rate \in Nat /\ k.at \in Time
  BY TimeIsNumber, CapsAreNumbers DEF QuotaTypeOK, CallType
<1>2. tokens \in Nat
  <2>1. bucket[k.process] \in BucketType
    BY DEF QuotaTypeOK, BucketType
  <2> QED
    BY <1>1, <2>1, RefilledIsNumber
<1> HIDE DEF tokens
<1>3. \A pc \in Phases : /\ after(pc) \in CallType
                         /\ after(pc).pc = pc /\ after(pc).tier = k.tier /\ after(pc).took = now
  BY <1>1 DEF CallType
<1>4. CASE rate = 0 /\ call' = [call EXCEPT ![c] = after("admitted")] /\ UNCHANGED bucket
  <2> DEFINE new == after("admitted")
  <2>1. new \in CallType /\ new.tier = k.tier /\ new.took = now
    BY <1>3 DEF Phases
  <2>2. call' = [call EXCEPT ![c] = new] /\ UNCHANGED bucket
    BY <1>4
  <2>3. Rate[new.tier] = 0 /\ new.took <= now
    BY <1>1, <1>4, <2>1
  <2> HIDE DEF new
  <2>4. Aside(c, new)
    BY <2>2, <2>3 DEF Aside
  <2> QED
    BY <2>1, <2>4 DEF Moves
<1>5. CASE /\ rate > 0 /\ tokens >= 1
           /\ bucket' = [bucket EXCEPT ![k.process] = [tokens |-> tokens - 1, updated |-> k.at]]
           /\ call' = [call EXCEPT ![c] = after("admitted")]
  <2>1. Takes(c, k)
    BY <1>1, <1>5 DEF Takes, tokens
  <2> QED
    BY <2>1 DEF Moves
<1>6. CASE /\ rate > 0 /\ tokens < 1
           /\ bucket' = [bucket EXCEPT ![k.process] = [tokens |-> tokens, updated |-> k.at]]
           /\ call' = [call EXCEPT ![c] = after("throttled")]
  <2>1. ~(tokens >= 1)
    BY <1>2, <1>6
  <2>2. Takes(c, k)
    BY <1>1, <1>6, <2>1 DEF Takes, tokens
  <2> QED
    BY <2>2 DEF Moves
<1> QED
  BY <1>4, <1>5, <1>6 DEF Throttle, Admitted, tokens

\* The daily cap before it.
LEMMA JudgeMoves ==
  ASSUME QuotaTypeOK, NEW c \in Call, call[c].pc \notin Passed,
         NEW k \in CallType, k.process \in Process, k.tier \in Tier, k.at <= now, k.took <= now,
         NEW counters, Judge(c, k, counters)
  PROVE  Moves(c)
<1>1. CASE call' = [call EXCEPT ![c] = [k EXCEPT !.pc = "spent"]] /\ UNCHANGED bucket
  <2> DEFINE new == [k EXCEPT !.pc = "spent"]
  <2>1. new \in CallType /\ new.pc = "spent" /\ new.took = k.took
    BY DEF CallType, Phases
  <2>2. new.pc \notin Passed
    BY <2>1 DEF Passed
  <2> HIDE DEF new
  <2>3. Aside(c, new)
    BY <1>1, <2>1, <2>2 DEF Aside, new
  <2> QED
    BY <2>1, <2>3 DEF Moves
<1>2. CASE Throttle(c, k, counters)
  BY <1>2, ThrottleMoves
<1> QED
  BY <1>1, <1>2 DEF Judge

\* And the daily count before that.
LEMMA ProceedMoves ==
  ASSUME QuotaTypeOK, NEW c \in Call, call[c].pc \notin Passed,
         NEW k \in CallType, k.process \in Process, k.tier \in Tier, k.at <= now, k.took <= now,
         Proceed(c, k)
  PROVE  Moves(c)
<1>1. CASE Throttle(c, k, counter)
  BY <1>1, ThrottleMoves
<1>2. ASSUME NEW id \in Call, NEW counters,
             \/ /\ call' = [call EXCEPT ![c] = [[k EXCEPT !.counter = id] EXCEPT !.pc = "counting"]]
                /\ UNCHANGED bucket
             \/ Judge(c, [k EXCEPT !.counter = id], counters)
      PROVE  Moves(c)
  <2> DEFINE counted == [k EXCEPT !.counter = id]
             new == [counted EXCEPT !.pc = "counting"]
  <2>1. /\ counted \in CallType /\ counted.process = k.process /\ counted.tier = k.tier
        /\ counted.at = k.at /\ counted.took = k.took
    BY DEF CallType
  <2>2. new \in CallType /\ new.pc = "counting" /\ new.took = k.took
    BY <2>1 DEF CallType, Phases
  <2>3. \/ call' = [call EXCEPT ![c] = new] /\ UNCHANGED bucket
        \/ Judge(c, counted, counters)
    BY <1>2
  <2>4. new.pc \notin Passed
    BY <2>2 DEF Passed
  <2> HIDE DEF counted, new
  <2>5. CASE call' = [call EXCEPT ![c] = new] /\ UNCHANGED bucket
    BY <2>2, <2>4, <2>5 DEF Aside, Moves
  <2>6. CASE Judge(c, counted, counters)
    BY <2>1, <2>6, JudgeMoves
  <2> QED
    BY <2>3, <2>5, <2>6
<1>3. UsageIs(c, k) \in Call
  <2>1. usage[k.process] \in Call \union {NoCall}
    BY DEF QuotaTypeOK
  <2> QED
    BY <2>1 DEF UsageIs
<1> QED
  BY <1>1, <1>2, <1>3 DEF Proceed

\* The steps of a call.
LEMMA CallMovesBuckets ==
  ASSUME CountersSound, BucketsArePaid, NEW c \in Call, CallMoves(c)
  PROVE  Moves(c)
<1> DEFINE me == call[c]
<1>0. /\ QuotaTypeOK /\ me \in CallType
      /\ now \in Time /\ now \in Nat /\ tier \in Tier
      /\ me.took <= now /\ me.at <= now
      /\ me.pc # "new" => me.process \in Process
      /\ me.pc \notin {"new", "capping"} => me.tier \in Tier
      /\ \A p \in Process : limits[p].tier \in Tier \union {NoTier}
  BY QuotaFields, TimeIsNumber DEF CountersSound, QuotaTypeOK, CallsAreSound, BucketsArePaid
<1>1. ASSUME NEW new \in CallType, call' = [call EXCEPT ![c] = new], UNCHANGED bucket,
             new.took = me.took, me.pc \notin Passed, new.pc \notin Passed
      PROVE  Moves(c)
  <2>1. Aside(c, new)
    BY <1>0, <1>1 DEF Aside
  <2> QED
    BY <2>1 DEF Moves
<1>2. ASSUME NEW p \in Process, Arrive(c, p)
      PROVE  Moves(c)
  <2> DEFINE k == [me EXCEPT !.process = p, !.at = now, !.tier = limits[p].tier]
             new == [k EXCEPT !.pc = "capping"]
  <2>1. /\ k \in CallType /\ k.process = p /\ k.at = now /\ k.tier = limits[p].tier
        /\ k.took = me.took
    BY <1>0 DEF CallType
  <2>2. new \in CallType /\ new.pc = "capping" /\ new.took = me.took
    BY <2>1 DEF CallType, Phases
  <2>3. /\ me.pc \notin Passed
        /\ \/ k.tier # NoTier /\ Proceed(c, k)
           \/ call' = [call EXCEPT ![c] = new] /\ UNCHANGED bucket
    BY <1>2 DEF Arrive, Passed
  <2>4. new.pc \notin Passed
    BY <2>2 DEF Passed
  <2> HIDE DEF k, new
  <2>5. CASE k.tier # NoTier /\ Proceed(c, k)
    BY <1>0, <2>1, <2>3, <2>5, ProceedMoves
  <2>6. CASE call' = [call EXCEPT ![c] = new] /\ UNCHANGED bucket
    BY <1>1, <2>2, <2>3, <2>4, <2>6
  <2> QED
    BY <2>3, <2>5, <2>6
<1>3. CASE ReadLimits(c)
  <2> DEFINE new == [me EXCEPT !.pc = "capped", !.tier = tier]
  <2>1. call' = [call EXCEPT ![c] = new] /\ UNCHANGED bucket /\ me.pc \notin Passed
    BY <1>3 DEF ReadLimits, Passed
  <2>2. new \in CallType /\ new.took = me.took /\ new.pc \notin Passed
    BY <1>0 DEF CallType, Phases, Passed
  <2> HIDE DEF new
  <2> QED
    BY <1>1, <2>1, <2>2
<1>4. ASSUME NEW t \in Tier, NEW read, LimitsAre(c, t, read), me.pc \in {"capping", "capped"}
      PROVE  Moves(c)
  <2> DEFINE k == [me EXCEPT !.tier = t]
  <2>1. /\ k \in CallType /\ k.process = me.process /\ k.at = me.at /\ k.tier = t
        /\ k.took = me.took
    BY <1>0 DEF CallType
  <2>2. Proceed(c, k) /\ me.pc \notin Passed
    BY <1>4 DEF LimitsAre, Passed
  <2> HIDE DEF k
  <2> QED
    BY <1>0, <1>4, <2>1, <2>2, ProceedMoves
<1>5. CASE LimitsAnswered(c)
  BY <1>0, <1>4, <1>5 DEF LimitsAnswered
<1>6. CASE LimitsFail(c)
  <2> DEFINE t == IF me.tier = NoTier THEN FreeTier ELSE me.tier
  <2>1. t \in Tier /\ me.pc = "capping" /\ LimitsAre(c, t, FALSE)
    BY <1>0, <1>6, QuotaAssumption DEF LimitsFail, CallType
  <2> QED
    BY <1>4, <2>1
<1>7. CASE CountCalls(c)
  <2> DEFINE n == Cardinality(Rows(Day(me.at)))
             new == [me EXCEPT !.pc = "counted", !.read = n]
  <2>1. call' = [call EXCEPT ![c] = new] /\ UNCHANGED bucket /\ me.pc \notin Passed
    BY <1>7 DEF CountCalls, Passed
  <2>2. n \in Nat
    BY CallsAreFinite DEF Rows
  <2> HIDE DEF n
  <2>3. new \in CallType /\ new.took = me.took /\ new.pc \notin Passed
    BY <1>0, <2>2 DEF CallType, Phases, Passed
  <2> HIDE DEF new
  <2> QED
    BY <1>1, <2>1, <2>3
<1>8. ASSUME me.pc \in Awaiting, NEW k \in CallType, NEW counters, Judge(c, k, counters),
             k.process = me.process, k.at = me.at, k.tier = me.tier, k.took = me.took
      PROVE  Moves(c)
  <2>1. me.pc \notin Passed /\ k.process \in Process /\ k.tier \in Tier
    BY <1>0, <1>8 DEF Awaiting, Passed
  <2> QED
    BY <1>0, <1>8, <2>1, JudgeMoves
<1>9. CASE CountAnswered(c)
  <2> DEFINE k == [me EXCEPT !.read = 0]
  <2>1. /\ k \in CallType /\ k.process = me.process /\ k.at = me.at /\ k.tier = me.tier
        /\ k.took = me.took
    BY <1>0 DEF CallType
  <2>2. PICK counters : Judge(c, k, counters)
    BY <1>9 DEF CountAnswered
  <2>3. me.pc \in Awaiting
    BY <1>9 DEF CountAnswered, Awaiting
  <2> HIDE DEF k
  <2> QED
    BY <1>8, <2>1, <2>2, <2>3
<1>10. CASE CountFails(c)
  <2>1. PICK counters : Judge(c, me, counters)
    BY <1>10 DEF CountFails
  <2>2. me.pc \in Awaiting
    BY <1>10 DEF CountFails, Awaiting
  <2> QED
    BY <1>0, <1>8, <2>1, <2>2
<1>11. CASE Record(c)
  <2>1. PICK t \in me.took..now :
          call' = [call EXCEPT ![c].pc = "recorded", ![c].day = Day(t)]
    BY <1>11 DEF Record
  <2> DEFINE d == Day(t)
             new == [me EXCEPT !.pc = "recorded", !.day = d]
  <2>2. me.pc = "admitted" /\ UNCHANGED bucket /\ call' = [call EXCEPT ![c] = new]
    BY <1>11, <2>1 DEF Record
  <2>3. d \in Nat
    <3>1. me.took \in Nat
      BY <1>0, TimeIsNumber DEF CallType
    <3>2. t \in Nat
      BY <1>0, <2>1, <3>1
    <3> QED
      BY <3>2, DayIsNumber
  <2> HIDE DEF d
  <2>4. /\ new \in CallType /\ new.pc = "recorded" /\ new.process = me.process
        /\ new.tier = me.tier /\ new.at = me.at /\ new.took = me.took
    BY <1>0, <2>3 DEF CallType, Phases
  <2> HIDE DEF new
  <2>5. Aside(c, new)
    BY <1>0, <2>2, <2>4 DEF Aside
  <2> QED
    BY <2>4, <2>5 DEF Moves
<1> QED
  BY <1>2, <1>3, <1>5, <1>6, <1>7, <1>9, <1>10, <1>11 DEF CallMoves

-----------------------------------------------------------------------------
(* Takers, waits and what they add up to. *)

\* Products of numbers.
LEMMA TimesGrows ==
  ASSUME NEW r \in Nat, NEW m \in Int, NEW n \in Int, m <= n
  PROVE  r * m <= r * n
OBVIOUS

LEMMA TimesRate ==
  ASSUME NEW r \in Nat, NEW s \in Nat, r <= s, NEW m \in Nat
  PROVE  r * m <= s * m /\ r * m \in Nat /\ s * m \in Nat
OBVIOUS

LEMMA TimesSum ==
  ASSUME NEW r \in Nat, NEW m \in Int, NEW n \in Int
  PROVE  r * (m + n) = r * m + r * n /\ r * m \in Int /\ r * n \in Int
OBVIOUS

\* A bucket that is refilled holds no more than its burst, nor than what the time adds to it.
LEMMA RefillBound ==
  ASSUME NEW b \in BucketType, NEW rate \in Nat, rate > 0, NEW most \in Nat, rate <= most,
         NEW at \in Time
  PROVE  /\ Refilled(b, rate, at) <= most
         /\ b.tokens >= 0 /\ at >= b.updated =>
              Refilled(b, rate, at) <= b.tokens + most * (at - b.updated)
         /\ b.tokens >= 0 /\ at < b.updated => Refilled(b, rate, at) <= b.tokens
<1>1. at \in Nat /\ b.updated \in Nat /\ b.tokens \in Nat \union {-1}
  BY TimeIsNumber DEF BucketType
<1>2. Larger(1, rate) = rate
  BY DEF Larger
<1>3. CASE b.tokens = -1
  <2>1. Refilled(b, rate, at) = rate
    BY <1>2, <1>3 DEF Refilled
  <2> QED
    BY <1>3, <2>1
<1>4. CASE b.tokens # -1 /\ at >= b.updated
  <2> DEFINE gain == rate * (at - b.updated)
  <2>1. at - b.updated \in Nat /\ Larger(0, at - b.updated) = at - b.updated
    BY <1>1, <1>4 DEF Larger
  <2>2. gain \in Nat /\ gain <= most * (at - b.updated) /\ most * (at - b.updated) \in Nat
    BY <2>1, TimesRate
  <2>3. Refilled(b, rate, at) = Smaller(rate, b.tokens + gain)
    BY <1>2, <1>4, <2>1 DEF Refilled
  <2> HIDE DEF gain
  <2> QED
    BY <1>1, <1>4, <2>2, <2>3 DEF Smaller
<1>5. CASE b.tokens # -1 /\ at < b.updated
  <2>1. Larger(0, at - b.updated) = 0
    BY <1>1, <1>5 DEF Larger
  <2>2. Refilled(b, rate, at) = Smaller(rate, b.tokens + 0)
    BY <1>2, <1>5, <2>1 DEF Refilled
  <2> QED
    BY <1>1, <1>5, <2>2 DEF Smaller
<1> QED
  BY <1>1, <1>3, <1>4, <1>5

\* Takers and their waits are finitely many.
LEMMA TakersAreFinite ==
  ASSUME NEW S \in SUBSET Call
  PROVE  /\ IsFiniteSet(S) /\ Cardinality(S) \in Nat
         /\ IsFiniteSet(Waits(S)) /\ Cardinality(Waits(S)) \in Nat
<1>1. IsFiniteSet(S)
  BY CallsAreFinite
<1>2. IsFiniteSet(Time)
  BY QuotaAssumption, FS_Interval DEF Time
<1>3. IsFiniteSet(S \X Time)
  BY <1>1, <1>2, FS_Product
<1>4. Waits(S) \subseteq S \X Time
  BY DEF Waits
<1>5. IsFiniteSet(Waits(S))
  BY <1>3, <1>4, FS_Subset
<1> QED
  BY <1>1, <1>5, FS_CardinalityType

\* A call that joins the takers brings the ticks it waited, none of which was counted before.
LEMMA WaitsJoin ==
  ASSUME NEW S \in SUBSET Call, NEW c \in Call, c \notin S,
         \A d \in S : call'[d].at = call[d].at /\ call'[d].took = call[d].took,
         call'[c].at \in Time, call'[c].took \in Time, call'[c].at <= call'[c].took,
         NEW T, T = S \union {c}
  PROVE  Cardinality(Waits(T)') = Cardinality(Waits(S)) + (call'[c].took - call'[c].at)
<1> DEFINE ticks == call'[c].at .. (call'[c].took - 1)
           own == {c} \X ticks
<1>1. /\ call'[c].at \in Nat /\ call'[c].took \in Nat
      /\ \A t : t \in ticks <=> t \in Time /\ call'[c].at <= t /\ t < call'[c].took
  BY QuotaAssumption DEF Time
<1>2. \A x : x \in Waits(T)' <=> x \in Waits(S) \union own
  <2>1. \A d \in Call, t \in Time :
          <<d, t>> \in Waits(T)' <=> d \in T /\ call'[d].at <= t /\ t < call'[d].took
    BY DEF Waits
  <2>2. \A d \in Call, t \in Time :
          <<d, t>> \in Waits(S) <=> d \in S /\ call[d].at <= t /\ t < call[d].took
    BY DEF Waits
  <2>3. \A d \in Call, t \in Time : <<d, t>> \in own <=> d = c /\ t \in ticks
    OBVIOUS
  <2>4. ticks \subseteq Time
    BY <1>1
  <2>5. Waits(T)' \subseteq Call \X Time /\ Waits(S) \subseteq Call \X Time
        /\ own \subseteq Call \X Time
    BY <2>4 DEF Waits
  <2> HIDE DEF own
  <2>6. \A d \in Call, t \in Time :
          <<d, t>> \in Waits(T)' <=> <<d, t>> \in Waits(S) \union own
    BY <1>1, <2>1, <2>2, <2>3
  <2>7. ASSUME NEW x \in Call \X Time
        PROVE  x \in Waits(T)' <=> x \in Waits(S) \union own
    <3>1. PICK d \in Call, t \in Time : x = <<d, t>>
      OBVIOUS
    <3> QED
      BY <2>6, <3>1
  <2> QED
    BY <2>5, <2>7
<1>3. Waits(S) \intersect own = {}
  <2>1. \A x \in Waits(S) : x[1] \in S
    BY DEF Waits
  <2>2. \A x \in own : x[1] = c
    OBVIOUS
  <2> HIDE DEF own
  <2> QED
    BY <2>1, <2>2
<1>4. IsFiniteSet(own) /\ Cardinality(own) = call'[c].took - call'[c].at
  <2>1. IsFiniteSet(ticks) /\ Cardinality(ticks) = call'[c].took - call'[c].at
    <3>1. PICK a \in Int, b \in Int : a = call'[c].at /\ b = call'[c].took - 1
      BY <1>1
    <3>2. IsFiniteSet(a..b) /\ Cardinality(a..b) = IF a > b THEN 0 ELSE b - a + 1
      BY FS_Interval
    <3>3. a <= b + 1 /\ b - a + 1 = call'[c].took - call'[c].at
      BY <1>1, <3>1
    <3> QED
      BY <3>1, <3>2, <3>3
  <2> HIDE DEF ticks
  <2>2. IsFiniteSet({c}) /\ Cardinality({c}) = 1
    BY FS_Singleton
  <2>3. IsFiniteSet(own) /\ Cardinality(own) = Cardinality({c}) * Cardinality(ticks)
    BY <2>1, <2>2, FS_Product
  <2> QED
    BY <1>1, <2>1, <2>2, <2>3
<1> HIDE DEF own
<1>5. IsFiniteSet(Waits(S)) /\ Cardinality(Waits(S)) \in Nat
  BY TakersAreFinite
<1>6. Cardinality(Waits(S) \union own) = Cardinality(Waits(S)) + Cardinality(own)
  <2>1. Cardinality(Waits(S) \intersect own) = 0
    BY <1>3, FS_EmptySet
  <2>2. Cardinality(Waits(S) \union own)
          = Cardinality(Waits(S)) + Cardinality(own) - Cardinality(Waits(S) \intersect own)
    BY <1>4, <1>5, FS_Union
  <2>3. Cardinality(own) \in Int
    BY <1>1, <1>4
  <2> QED
    BY <1>5, <2>1, <2>2, <2>3
<1>7. Waits(T)' = Waits(S) \union own
  BY <1>2
<1> QED
  BY <1>4, <1>6, <1>7

\* Who has come to which bucket, when a call comes to one.
LEMMA TakersJoin ==
  ASSUME QuotaTypeOK, NEW c \in Call, NEW k \in CallType, Takes(c, k), UNCHANGED now
  PROVE  /\ call'[c].process = k.process /\ call'[c].tier = k.tier
         /\ call'[c].at = k.at /\ call'[c].took = now
         /\ \A d \in Call : d # c => call'[d] = call[d]
         /\ \A p \in Process, from \in Nat :
              /\ c \notin Takers(p, from)
              /\ p # k.process => Takers(p, from)' = Takers(p, from)
              /\ from <= now => Takers(k.process, from)' = Takers(k.process, from) \union {c}
         /\ c \notin LetThrough
         /\ \A d \in Call : d # c => (d \in LetThrough' <=> d \in LetThrough)
<1>1. PICK pc \in {"throttled", "admitted"} :
         call' = [call EXCEPT ![c] = [k EXCEPT !.pc = pc, !.took = now]]
  BY DEF Takes
<1> DEFINE new == [k EXCEPT !.pc = pc, !.took = now]
<1>2. /\ new.pc = pc /\ new.process = k.process /\ new.tier = k.tier /\ new.at = k.at
      /\ new.took = now
  BY DEF CallType
<1>3. call'[c] = new /\ \A d \in Call : d # c => call'[d] = call[d]
  BY <1>1, QuotaFields
<1> HIDE DEF new
<1>4. /\ call[c].pc \notin Passed /\ Rate[k.tier] > 0 /\ now \in Nat
      /\ new.pc \in {"throttled", "admitted", "recorded"}
  BY <1>2, TimeIsNumber DEF Takes, QuotaTypeOK
<1>5. ASSUME NEW p \in Process, NEW from \in Nat
      PROVE  /\ c \notin Takers(p, from)
             /\ p # k.process => Takers(p, from)' = Takers(p, from)
             /\ from <= now => Takers(k.process, from)' = Takers(k.process, from) \union {c}
  <2>1. c \notin Takers(p, from) /\ c \notin Takers(k.process, from)
    BY <1>4 DEF Takers, Passed
  <2>2. \A q : \A d \in Call : d # c => (d \in Takers(q, from)' <=> d \in Takers(q, from))
    BY <1>3 DEF Takers
  <2>3. p # k.process => c \notin Takers(p, from)'
    BY <1>2, <1>3 DEF Takers
  <2>4. from <= now => c \in Takers(k.process, from)'
    BY <1>2, <1>3, <1>4 DEF Takers
  <2>5. \A q : Takers(q, from)' \subseteq Call /\ Takers(q, from) \subseteq Call
    BY DEF Takers
  <2> QED
    BY <2>1, <2>2, <2>3, <2>4, <2>5
<1>6. c \notin LetThrough /\ \A d \in Call : d # c => (d \in LetThrough' <=> d \in LetThrough)
  BY <1>3, <1>4 DEF LetThrough, Passed
<1> QED
  BY <1>2, <1>3, <1>5, <1>6

\* The account of the calls S on bucket b, since from and with rate r.
PaidUp(S, b, from, r) ==
    Cardinality(S \intersect LetThrough) + b.tokens
        <= r * (1 + (b.updated - from) + Cardinality(Waits(S)))

\* A call that comes to its bucket takes what was paid for.
LEMMA TakesArePaid ==
  ASSUME QuotaTypeOK, BucketsArePaid, NEW c \in Call, NEW k \in CallType, Takes(c, k),
         UNCHANGED now, NEW from \in 0..now, NEW t \in Tier,
         GoBy(Takers(k.process, from), t)'
  PROVE  PaidUp(Takers(k.process, from), bucket[k.process], from, Rate[t])'
<1> DEFINE p == k.process
           S == Takers(p, from)
           T == S \union {c}
           b == bucket[p]
           r == Rate[t]
           tokens == Refilled(b, Rate[k.tier], k.at)
           w == Cardinality(Waits(S))
           n == Cardinality(S \intersect LetThrough)
<1>0. /\ p \in Process /\ b \in BucketType /\ now \in Nat /\ k.at \in Time /\ k.at \in Nat
      /\ k.at <= now /\ from \in Nat /\ from <= now /\ Rate[k.tier] \in Nat /\ Rate[k.tier] > 0
      /\ r \in Nat /\ now \in Time
  BY TimeIsNumber, CapsAreNumbers DEF Takes, QuotaTypeOK, BucketType
<1>1. /\ b.updated \in Nat /\ b.updated <= now /\ tokens \in Nat
      /\ b.tokens \in Nat \union {-1}
  BY <1>0, TimeIsNumber, RefilledIsNumber DEF BucketType, BucketsArePaid
<1>2. S' = T /\ c \notin S /\ S \subseteq Call
  BY <1>0, TakersJoin DEF Takers
<1>3. w \in Nat /\ n \in Nat /\ IsFiniteSet(S \intersect LetThrough)
  BY <1>2, TakersAreFinite, CallsAreFinite
<1>4. Rate[k.tier] <= r /\ GoBy(S, t)
  <2>1. \A d \in T : Rate[call'[d].tier] <= r
    BY <1>2 DEF GoBy
  <2>2. call'[c].tier = k.tier /\ \A d \in S : call'[d] = call[d]
    BY <1>2, TakersJoin
  <2> QED
    BY <2>1, <2>2 DEF GoBy
<1>5. Cardinality(Waits(S)') = w + (now - k.at)
  <2>1. /\ \A d \in S : call'[d] = call[d]
        /\ call'[c].at = k.at /\ call'[c].took = now
    BY <1>2, TakersJoin
  <2>2. \A U : U = S \union {c} => Cardinality(Waits(U)') = w + (now - k.at)
    BY <1>0, <1>2, <2>1, WaitsJoin
  <2> QED
    BY <1>2, <2>2
<1>6. PICK pc \in {"throttled", "admitted"} :
        /\ call' = [call EXCEPT ![c] = [k EXCEPT !.pc = pc, !.took = now]]
        /\ pc = "admitted" <=> tokens >= 1
        /\ bucket' = [bucket EXCEPT ![p] =
                         [tokens |-> IF pc = "admitted" THEN tokens - 1 ELSE tokens,
                          updated |-> k.at]]
  BY DEF Takes
<1>7. /\ b'.updated = k.at
      /\ b'.tokens = IF pc = "admitted" THEN tokens - 1 ELSE tokens
  BY <1>0, <1>6 DEF QuotaTypeOK
<1>8. Cardinality((S \intersect LetThrough)') = IF pc = "admitted" THEN n + 1 ELSE n
  <2>1. c \in LetThrough' <=> pc = "admitted"
    <3>1. call'[c].pc = pc
      BY <1>6, QuotaFields DEF CallType
    <3> QED
      BY <3>1 DEF LetThrough
  <2>2. /\ c \notin LetThrough
        /\ \A d \in S : d \in LetThrough' <=> d \in LetThrough
    BY <1>2, TakersJoin
  <2>3. (S \intersect LetThrough)' = IF pc = "admitted" THEN (S \intersect LetThrough) \union {c}
                                    ELSE S \intersect LetThrough
    BY <1>2, <2>1, <2>2
  <2> QED
    BY <1>3, <2>2, <2>3, FS_AddElement
<1> HIDE DEF tokens, w, n, b, r
<1>9. n + tokens <= r * (1 + (k.at - from) + (w + (now - k.at)))
  <2>1. 1 + (k.at - from) + (w + (now - k.at)) = 1 + (now - from) + w
    BY <1>0, <1>3
  <2> DEFINE paid == r * (1 + (now - from) + w)
  <2> SUFFICES n + tokens <= paid
    BY <2>1
  <2>2. paid \in Int
    BY <1>0, <1>3
  <2>3. CASE S = {}
    <3>1. n = 0
      BY <2>3, FS_EmptySet DEF n
    <3>2. tokens <= r
      BY <1>0, <1>4, RefillBound DEF tokens
    <3>3. r * 1 <= paid /\ r * 1 = r
      BY <1>0, <1>3, TimesGrows
    <3> HIDE DEF paid
    <3> QED
      BY <1>0, <1>1, <2>2, <3>1, <3>2, <3>3
  <2>4. CASE S # {}
    <3> DEFINE m == 1 + (b.updated - from) + w
    <3>1. b.tokens >= 0 /\ n + b.tokens <= r * m
      <4>1. Takers(p, 0) # {}
        <5>1. \A d \in Takers(p, from) : call[d].took >= 0
          <6>1. \A d \in Call : call[d].took \in Time
            BY QuotaFields DEF CallType
          <6>2. \A d \in Call : call[d].took \in Nat
            BY <6>1, TimeIsNumber
          <6> QED
            BY <6>2 DEF Takers
        <5>2. Takers(p, from) \subseteq Takers(p, 0)
          BY <5>1 DEF Takers
        <5> QED
          BY <2>4, <5>2
      <4> QED
        BY <1>0, <1>4, <2>4, <4>1 DEF BucketsArePaid, n, w, b, r
    <3>2. m \in Int
      BY <1>0, <1>1, <1>3
    <3>3. CASE k.at >= b.updated
      <4>1. tokens <= b.tokens + r * (k.at - b.updated)
        BY <1>0, <1>4, <3>1, <3>3, RefillBound DEF tokens
      <4>2. /\ r * (m + (k.at - b.updated)) = r * m + r * (k.at - b.updated)
            /\ r * m \in Int /\ r * (k.at - b.updated) \in Int
        BY <1>0, <1>1, <3>2, TimesSum
      <4>3. r * (m + (k.at - b.updated)) <= paid
        BY <1>0, <1>1, <1>3, TimesGrows
      <4>4. b.tokens \in Int
        BY <1>0, <1>1, <1>3
      <4> HIDE DEF m, paid
      <4>5. n + tokens <= r * (m + (k.at - b.updated))
        BY <1>1, <1>3, <3>1, <4>1, <4>2, <4>4
      <4> QED
        BY <1>1, <1>3, <2>2, <4>2, <4>3, <4>4, <4>5
    <3>4. CASE k.at < b.updated
      <4>1. tokens <= b.tokens
        BY <1>0, <1>4, <3>1, <3>4, RefillBound DEF tokens
      <4>2. r * m <= paid
        BY <1>0, <1>1, <1>3, TimesGrows
      <4>3. r * m \in Int /\ b.tokens \in Int
        BY <1>0, <1>1, <1>3, <3>2
      <4> HIDE DEF m, paid
      <4>4. n + tokens <= r * m
        BY <1>1, <1>3, <3>1, <4>1, <4>3
      <4> QED
        BY <1>1, <1>3, <2>2, <4>2, <4>4, <4>3
    <3> QED
      BY <1>0, <1>1, <3>3, <3>4
  <2> QED
    BY <2>3, <2>4
<1>10. Cardinality((S \intersect LetThrough)') + b'.tokens = n + tokens
  BY <1>1, <1>3, <1>7, <1>8 DEF b
<1> QED
  BY <1>5, <1>7, <1>9, <1>10 DEF PaidUp, b, r
\* A bucket's account tells its calls apart by little.
LEMMA SameCallsSameAccount ==
  ASSUME NEW p, NEW from,
         Takers(p, from)' = Takers(p, from),
         \A d \in Takers(p, from) :
             /\ call'[d].at = call[d].at /\ call'[d].took = call[d].took
             /\ call'[d].tier = call[d].tier
             /\ d \in LetThrough' <=> d \in LetThrough
  PROVE  /\ Waits(Takers(p, from))' = Waits(Takers(p, from))
         /\ (Takers(p, from) \intersect LetThrough)' = Takers(p, from) \intersect LetThrough
         /\ \A t : GoBy(Takers(p, from), t)' <=> GoBy(Takers(p, from), t)
<1> DEFINE S == Takers(p, from)
<1>1. Waits(S)' = Waits(S)
  <2>1. Waits(S)' = {x \in S' \X Time : call'[x[1]].at <= x[2] /\ x[2] < call'[x[1]].took}
    BY DEF Waits
  <2>2. \A x \in S \X Time : x[1] \in S
    OBVIOUS
  <2> QED
    BY <2>1, <2>2 DEF Waits
<1>2. (S \intersect LetThrough)' = S \intersect LetThrough
  OBVIOUS
<1>3. \A t : GoBy(S, t)' <=> GoBy(S, t)
  BY DEF GoBy
<1> QED
  BY <1>1, <1>2, <1>3

\* Where nothing is taken, no account changes.
LEMMA AsideKeepsTakers ==
  ASSUME QuotaTypeOK, NEW c \in Call, NEW k \in CallType, Aside(c, k), NEW p, NEW from
  PROVE  /\ Takers(p, from)' = Takers(p, from)
         /\ \A d \in Takers(p, from) :
                /\ call'[d].at = call[d].at /\ call'[d].took = call[d].took
                /\ call'[d].tier = call[d].tier
                /\ d \in LetThrough' <=> d \in LetThrough
<1>1. call'[c] = k /\ \A d \in Call : d # c => call'[d] = call[d]
  BY QuotaFields DEF Aside
<1>2. ASSUME NEW d \in Call, d # c
      PROVE  /\ d \in Takers(p, from)' <=> d \in Takers(p, from)
             /\ d \in LetThrough' <=> d \in LetThrough
             /\ call'[d] = call[d]
  BY <1>1, <1>2 DEF Takers, LetThrough
<1>3. CASE call[c].pc \notin Passed /\ (k.pc \in Passed => Rate[k.tier] = 0)
  <2>1. c \notin Takers(p, from) /\ c \notin Takers(p, from)'
    BY <1>1, <1>3 DEF Takers, Passed
  <2> QED
    BY <1>2, <2>1 DEF Takers
<1>4. CASE /\ call[c].pc = "admitted" /\ k.pc = "recorded"
           /\ k.process = call[c].process /\ k.tier = call[c].tier
           /\ k.at = call[c].at /\ k.took = call[c].took
  <2>1. /\ c \in Takers(p, from)' <=> c \in Takers(p, from)
        /\ c \in LetThrough' /\ c \in LetThrough
    BY <1>1, <1>4 DEF Takers, LetThrough
  <2> QED
    BY <1>1, <1>2, <1>4, <2>1 DEF Takers
<1> QED
  BY <1>3, <1>4 DEF Aside

\* No call has been let through later than now, nor a bucket paid beyond.
ClocksAreRead ==
    /\ \A c \in Call : call[c].took <= now
    /\ \A p \in Process : bucket[p].updated <= now

\* What the account of one bucket says since from.
Account(p, from) ==
    \A t \in Tier : Takers(p, from) # {} /\ GoBy(Takers(p, from), t)
                       => PaidUp(Takers(p, from), bucket[p], from, Rate[t])

\* The invariant, in these words.
LEMMA BucketsByAccount ==
  BucketsArePaid <=> /\ ClocksAreRead
                     /\ \A p \in Process : Takers(p, 0) # {} => bucket[p].tokens >= 0
                     /\ \A p \in Process : \A from \in 0..now : Account(p, from)
BY DEF BucketsArePaid, ClocksAreRead, Account, PaidUp

\* A bucket and calls that nobody touched are paid as they were.
LEMMA SameAccountIsPaid ==
  ASSUME NEW p, NEW from, Account(p, from),
         Takers(p, from)' = Takers(p, from), bucket'[p] = bucket[p],
         \A d \in Takers(p, from) :
             /\ call'[d].at = call[d].at /\ call'[d].took = call[d].took
             /\ call'[d].tier = call[d].tier
             /\ d \in LetThrough' <=> d \in LetThrough
  PROVE  Account(p, from)'
<1>1. /\ Waits(Takers(p, from))' = Waits(Takers(p, from))
      /\ (Takers(p, from) \intersect LetThrough)' = Takers(p, from) \intersect LetThrough
      /\ \A t : GoBy(Takers(p, from), t)' <=> GoBy(Takers(p, from), t)
  BY SameCallsSameAccount
<1> QED
  BY <1>1 DEF Account, PaidUp

\* A call that has not come to a bucket leaves each as it was paid.
LEMMA AsideKeepsPaid ==
  ASSUME QuotaTypeOK, BucketsArePaid, NEW c \in Call, NEW k \in CallType, Aside(c, k),
         UNCHANGED now
  PROVE  BucketsArePaid'
<1>1. ClocksAreRead'
  <2>1. call'[c] = k /\ \A d \in Call : d # c => call'[d] = call[d]
    BY QuotaFields DEF Aside
  <2>2. k.took <= now /\ UNCHANGED bucket
    BY DEF Aside
  <2> QED
    BY <2>1, <2>2 DEF ClocksAreRead, BucketsArePaid
<1>2. UNCHANGED bucket
  BY DEF Aside
<1>3. \A p \in Process : (Takers(p, 0) # {} => bucket[p].tokens >= 0)'
  BY <1>2, AsideKeepsTakers, BucketsByAccount
<1>4. \A p \in Process : \A from \in 0..now : Account(p, from)'
  <2> TAKE p \in Process
  <2> TAKE from \in 0..now
  <2>1. Account(p, from)
    BY BucketsByAccount
  <2> QED
    BY <1>2, <2>1, AsideKeepsTakers, SameAccountIsPaid
<1>5. \A p \in Process : \A from \in 0..now' : Account(p, from)'
  BY <1>4
<1> QED
  BY <1>1, <1>3, <1>5 DEF BucketsArePaid, ClocksAreRead, Account, PaidUp

\* A call that comes to its bucket leaves each as it was paid.
LEMMA TakesKeepsPaid ==
  ASSUME QuotaTypeOK, BucketsArePaid, NEW c \in Call, NEW k \in CallType, Takes(c, k),
         UNCHANGED now
  PROVE  BucketsArePaid'
<1> DEFINE tokens == Refilled(bucket[k.process], Rate[k.tier], k.at)
<1>0. /\ k.process \in Process /\ k.at \in Time /\ k.at \in Nat /\ k.at <= now /\ now \in Nat
      /\ bucket[k.process] \in BucketType /\ Rate[k.tier] \in Nat
      /\ bucket \in [Process -> BucketType]
  BY TimeIsNumber, CapsAreNumbers DEF Takes, QuotaTypeOK, BucketType
<1>1. tokens \in Nat
  BY <1>0, RefilledIsNumber
<1>2. PICK pc \in {"throttled", "admitted"} :
        /\ pc = "admitted" <=> tokens >= 1
        /\ bucket' = [bucket EXCEPT ![k.process] =
                         [tokens |-> IF pc = "admitted" THEN tokens - 1 ELSE tokens,
                          updated |-> k.at]]
  BY DEF Takes
<1> HIDE DEF tokens
<1>3. /\ \A p \in Process : p # k.process => bucket'[p] = bucket[p]
      /\ bucket'[k.process].updated = k.at
      /\ bucket'[k.process].tokens >= 0
  BY <1>0, <1>1, <1>2
<1>4. \A d \in Call : d # c => /\ call'[d] = call[d]
                               /\ d \in LetThrough' <=> d \in LetThrough
  BY TakersJoin
<1>5. ClocksAreRead'
  <2>1. call'[c].took = now
    BY TakersJoin
  <2>2. ClocksAreRead
    BY BucketsByAccount
  <2> QED
    BY <1>0, <1>3, <1>4, <2>1, <2>2 DEF ClocksAreRead
<1>6. ASSUME NEW p \in Process, p # k.process, NEW from \in Nat
      PROVE  /\ Takers(p, from)' = Takers(p, from)
             /\ \A d \in Takers(p, from) :
                    /\ call'[d].at = call[d].at /\ call'[d].took = call[d].took
                    /\ call'[d].tier = call[d].tier
                    /\ d \in LetThrough' <=> d \in LetThrough
  <2>1. Takers(p, from)' = Takers(p, from) /\ c \notin Takers(p, from)
    BY <1>6, TakersJoin
  <2>2. Takers(p, from) \subseteq Call
    BY DEF Takers
  <2> QED
    BY <1>4, <2>1, <2>2
<1>7. \A p \in Process : (Takers(p, 0) # {} => bucket[p].tokens >= 0)'
  <2>1. ASSUME NEW p \in Process, p # k.process
        PROVE  (Takers(p, 0) # {} => bucket[p].tokens >= 0)'
    <3>1. Takers(p, 0) # {} => bucket[p].tokens >= 0
      BY BucketsByAccount
    <3> QED
      BY <1>3, <1>6, <2>1, <3>1
  <2> QED
    BY <1>3, <2>1
<1>8. ASSUME NEW p \in Process, NEW from \in 0..now
      PROVE  Account(p, from)'
  <2>1. CASE p # k.process
    <3>1. Account(p, from) /\ from \in Nat
      BY <1>0, BucketsByAccount
    <3> QED
      BY <1>3, <1>6, <2>1, <3>1, SameAccountIsPaid
  <2>2. CASE p = k.process
    <3>1. ASSUME NEW t \in Tier, GoBy(Takers(k.process, from), t)'
          PROVE  PaidUp(Takers(k.process, from), bucket[k.process], from, Rate[t])'
      BY <3>1, TakesArePaid
    <3> QED
      BY <2>2, <3>1 DEF Account
  <2> QED
    BY <2>1, <2>2
<1>9. \A p \in Process : \A from \in 0..now' : Account(p, from)'
  BY <1>8
<1> QED
  BY <1>5, <1>7, <1>9 DEF BucketsArePaid, ClocksAreRead, Account, PaidUp

\* Time goes on: nothing has been taken since the new moment.
LEMMA TickKeepsPaid ==
  ASSUME QuotaTypeOK, BucketsArePaid, Tick
  PROVE  BucketsArePaid'
<1>1. UNCHANGED <<bucket, call>> /\ now' = now + 1 /\ now \in Nat
  BY TimeIsNumber DEF Tick, QuotaTypeOK
<1>2. \A p, from : Takers(p, from)' = Takers(p, from)
  BY <1>1 DEF Takers
<1>3. ASSUME NEW p \in Process, NEW from \in 0..now'
      PROVE  Account(p, from)'
  <2>1. CASE from \in 0..now
    <3>1. Account(p, from)
      BY <2>1, BucketsByAccount
    <3>2. LetThrough' = LetThrough
      BY <1>1 DEF LetThrough
    <3> QED
      BY <1>1, <1>2, <3>1, <3>2, SameAccountIsPaid
  <2>2. CASE from = now + 1
    <3>1. \A d \in Call : call[d].took \in Nat /\ call[d].took <= now
      BY QuotaFields, TimeIsNumber DEF BucketsArePaid, CallType
    <3>2. Takers(p, from) = {}
      BY <1>1, <2>2, <3>1 DEF Takers
    <3> QED
      BY <1>2, <3>2 DEF Account
  <2> QED
    BY <1>1, <2>1, <2>2
<1>4. ClocksAreRead'
  <2>1. \A d \in Call : call[d].took \in Nat
    BY QuotaFields, TimeIsNumber DEF CallType
  <2>2. \A p \in Process : bucket[p].updated \in Nat
    BY TimeIsNumber DEF QuotaTypeOK
  <2> QED
    BY <1>1, <2>1, <2>2 DEF BucketsArePaid, ClocksAreRead
<1>5. \A p \in Process : (Takers(p, 0) # {} => bucket[p].tokens >= 0)'
  BY <1>1, <1>2, BucketsByAccount
<1> QED
  BY <1>3, <1>4, <1>5 DEF BucketsArePaid, ClocksAreRead, Account, PaidUp

\* The steps of the whole.
LEMMA StepKeepsBuckets ==
  ASSUME QuotaInvariant, [QuotaNext]_quotaVars
  PROVE  BucketsArePaid'
<1>0. CountersSound /\ QuotaTypeOK /\ BucketsArePaid
  BY DEF QuotaInvariant, CountersSound
<1>1. ASSUME NEW c \in Call, CallMoves(c)
      PROVE  BucketsArePaid'
  <2>1. PICK k \in CallType : Takes(c, k) \/ Aside(c, k)
    BY <1>0, <1>1, CallMovesBuckets DEF Moves
  <2>2. UNCHANGED now
    BY <1>1 DEF CallMoves, Arrive, ReadLimits, LimitsAnswered, LimitsFail, LimitsAre,
                CountCalls, CountAnswered, CountFails, Record
  <2> QED
    BY <1>0, <2>1, <2>2, TakesKeepsPaid, AsideKeepsPaid
<1>2. CASE UNCHANGED <<now, bucket, call>>
  BY <1>0, <1>2 DEF BucketsArePaid, Takers, Waits, GoBy, LetThrough
<1>3. CASE ChangeTier \/ UNCHANGED quotaVars
  BY <1>2, <1>3 DEF ChangeTier, quotaVars
<1>4. CASE Tick
  BY <1>0, <1>4, TickKeepsPaid
<1> QED
  BY <1>1, <1>3, <1>4 DEF QuotaNext, CallMoves

\* At the start there is nothing to pay.
LEMMA BucketsStart == QuotaInit => BucketsArePaid
<1> SUFFICES ASSUME QuotaInit PROVE BucketsArePaid
  OBVIOUS
<1>1. \A d \in Call : call[d].pc = "new" /\ call[d].took = 0
  BY DEF QuotaInit, NewCall
<1>2. \A p, from : Takers(p, from) = {}
  BY <1>1 DEF Takers
<1>3. now = 0 /\ \A p \in Process : bucket[p].updated = 0
  BY DEF QuotaInit
<1> QED
  BY <1>1, <1>2, <1>3 DEF BucketsArePaid

\* Whatever calls come and wait, the counters of a process are sound and each bucket has given
\* what it was paid for.
THEOREM QuotaInvariantHolds == QuotaSpec => []QuotaInvariant
<1>1. QuotaInit => QuotaInvariant
  BY CountersStart, BucketsStart DEF QuotaInvariant
<1>2. QuotaInvariant /\ [QuotaNext]_quotaVars => QuotaInvariant'
  BY StepKeepsCounters, StepKeepsBuckets DEF QuotaInvariant
<1> QED
  BY <1>1, <1>2, PTL DEF QuotaSpec

\* The counters' part of it.
LEMMA CountersHold == QuotaSpec => []CountersSound
<1>1. QuotaInvariant => CountersSound
  BY DEF QuotaInvariant
<1> QED
  BY <1>1, QuotaInvariantHolds, PTL

\* Whoever waits and however long, in no stretch of time does a process let more calls through
\* than a burst and the rate, for the stretch and for what its calls had waited (take).
THEOREM RatesAreKept == QuotaSpec => []RateKept
<1>1. QuotaInvariant => RateKept
  <2> SUFFICES ASSUME QuotaInvariant,
                      NEW p \in Process, NEW from \in 0..now, NEW t \in Tier,
                      GoBy(Takers(p, from), t)
               PROVE  Cardinality(Takers(p, from) \intersect LetThrough)
                          <= Rate[t] * (1 + (now - from) + Cardinality(Waits(Takers(p, from))))
    BY DEF RateKept
  <2> DEFINE S == Takers(p, from)
             n == Cardinality(S \intersect LetThrough)
             w == Cardinality(Waits(S))
             r == Rate[t]
  <2>0. /\ QuotaTypeOK /\ BucketsArePaid
        /\ now \in Nat /\ from \in Nat /\ from <= now /\ r \in Nat
        /\ bucket[p] \in BucketType /\ bucket[p].updated \in Nat /\ bucket[p].updated <= now
    <3>1. QuotaTypeOK /\ BucketsArePaid
      BY DEF QuotaInvariant, CountersSound
    <3>2. now \in Nat /\ bucket[p] \in BucketType /\ r \in Nat
      BY <3>1, TimeIsNumber, CapsAreNumbers DEF QuotaTypeOK, BucketType
    <3>3. bucket[p].updated \in Nat /\ bucket[p].updated <= now
      BY <3>1, <3>2, TimeIsNumber DEF BucketType, BucketsArePaid
    <3> QED
      BY <3>1, <3>2, <3>3
  <2>1. n \in Nat /\ w \in Nat
    <3>1. S \subseteq Call
      BY DEF Takers
    <3> QED
      BY <2>0, <3>1, TakersAreFinite, CallsAreFinite
  <2>2. CASE S = {}
    <3>1. n = 0
      BY <2>2, FS_EmptySet
    <3>2. r * (1 + (now - from) + w) \in Nat
      BY <2>0, <2>1
    <3> QED
      BY <3>1, <3>2
  <2>3. CASE S # {}
    <3>1. bucket[p].tokens >= 0 /\ n + bucket[p].tokens <= r * (1 + (bucket[p].updated - from) + w)
      <4>1. \A d \in Call : call[d].took \in Nat
        BY <2>0, QuotaFields, TimeIsNumber DEF CallType
      <4>2. Takers(p, 0) # {}
        BY <2>0, <2>3, <4>1 DEF Takers
      <4> QED
        BY <2>0, <2>3, <4>2 DEF BucketsArePaid
    <3>2. r * (1 + (bucket[p].updated - from) + w) <= r * (1 + (now - from) + w)
      BY <2>0, <2>1, TimesGrows
    <3> DEFINE held == r * (1 + (bucket[p].updated - from) + w)
               paid == r * (1 + (now - from) + w)
    <3>3. held \in Int /\ paid \in Int /\ bucket[p].tokens \in Int
      BY <2>0, <2>1 DEF BucketType
    <3> HIDE DEF n, w, r
    <3>4. n + bucket[p].tokens <= held /\ held <= paid
      BY <3>1, <3>2
    <3> HIDE DEF held
    <3> SUFFICES n <= paid
      BY DEF n, w, r
    <3> HIDE DEF paid
    <3> QED
      BY <2>1, <3>1, <3>3, <3>4
  <2> QED
    BY <2>2, <2>3
<1> QED
  BY <1>1, QuotaInvariantHolds, PTL

-----------------------------------------------------------------------------
(* What is refused, and what is let through. *)

\* No tier that was read before the license changed outlives its time in a process's cache
\* (limits_for).
THEOREM TiersApplyInTime == QuotaSpec => []TierAppliesInTime
<1>1. CountersSound => TierAppliesInTime
  <2> SUFFICES ASSUME CountersSound, NEW p \in Process,
                      limits[p].read, changed + LimitsTtl <= now, now < limits[p].until
               PROVE  limits[p].tier = tier
    BY DEF TierAppliesInTime
  <2>1. now \in Nat /\ changed \in Nat /\ LimitsTtl \in Nat /\ limits[p].until \in Nat
    BY TimeIsNumber, QuotaAssumption DEF CountersSound, QuotaTypeOK
  <2>2. limits[p].until > changed + LimitsTtl
    BY <2>1
  <2> QED
    BY <2>2 DEF CountersSound, TiersAreFresh
<1> QED
  BY <1>1, CountersHold, PTL

\* What a counter has used is really called: on it, or on its day.
LEMMA UsedIsReal ==
  CountersSound =>
    \A id \in Call : Used(counter[id]) <= Cardinality(CallsIn(call, counter[id].day))
<1> SUFFICES ASSUME CountersSound, NEW id \in Call
             PROVE  Used(counter[id]) <= Cardinality(CallsIn(call, counter[id].day))
  OBVIOUS
<1> DEFINE day == counter[id].day
<1>1. counter[id].counted + counter[id].admitted <= Cardinality(CallsIn(call, day))
  BY CallsNowAndThen DEF CountersSound, CountsNothingTwice
<1>2. counter[id].admittedToday <= Cardinality(CallsIn(call, day))
  <2>1. counter[id].admittedToday = Cardinality(CallsOn(id))
    BY DEF CountersSound, CountsItsCalls, CallsOn
  <2>2. CallsOn(id) \subseteq CallsIn(call, day)
    BY NothingElse DEF CallsOn, CallsIn, LetThrough, CountersSound, CountsOwnDay
  <2>3. CallsIn(call, day) \in SUBSET Call
    BY DaysHoldCalls
  <2> QED
    BY <2>1, <2>2, <2>3, CallCounts
<1>3. counter[id] \in CounterType
  BY QuotaFields DEF CountersSound
<1> QED
  BY <1>1, <1>2, <1>3, UsedCounts

\* A call is refused for the day only when the day has as many calls as its cap allows (admit).
THEOREM RefusalsAreEarned == QuotaSpec => []RefusedOnlyWhenSpent
<1> DEFINE Earned(calls) == \A c \in Call : calls[c].pc = "spent" =>
                              Daily[calls[c].tier] <= Cardinality(CallsIn(calls, Day(calls[c].at)))
<1>1. (RefusedOnlyWhenSpent <=> Earned(call)) /\ (RefusedOnlyWhenSpent' <=> Earned(call'))
  BY DEF RefusedOnlyWhenSpent, CallsOf, Rows, LetThrough, CallsIn, RowsIn, Day
<1> HIDE DEF Earned
<1>2. QuotaInit => RefusedOnlyWhenSpent
  <2>1. QuotaInit => \A c \in Call : call[c].pc = "new"
    BY FirstFields DEF QuotaInit
  <2> QED
    BY <2>1 DEF RefusedOnlyWhenSpent
<1>3. ASSUME CountersSound, CountersSound', Earned(call), NEW c \in Call, CallMoves(c)
      PROVE  Earned(call')
  <2>1. PICK new, counters : Effects(c, new, counters)
    BY <1>3, CallEffects
  <2>2. /\ call'[c] = new /\ \A d \in Call : d # c => call'[d] = call[d]
        /\ new.pc # "admitted" => \A id \in Call : counter'[id] = counter[id] \/ id = new.counter
    BY <1>3, <2>1, AfterStep
  <2>3. ASSUME NEW d \in Call, call'[d].pc = "spent"
        PROVE  Daily[call'[d].tier] <= Cardinality(CallsIn(call', Day(call'[d].at)))
    <3>1. CASE d = c
      <4>1. new.pc = "spent" /\ new.counter \in Call /\ new.counter # NoCall
        BY <2>1, <2>2, <2>3, <3>1 DEF Effects, CallGoesOn, CallType
      <4>2. Daily[new.tier] <= Used(counters[new.counter]) /\ counter' = counters
        BY <2>1, <4>1 DEF Effects
      <4>3. Used(counter'[new.counter])
              <= Cardinality(CallsIn(call', counter'[new.counter].day))
        <5>1. CountersSound' =>
                (\A id \in Call : Used(counter[id])
                                    <= Cardinality(CallsIn(call, counter[id].day)))'
          BY UsedIsReal, PTL
        <5>2. (\A id \in Call : Used(counter[id])
                                  <= Cardinality(CallsIn(call, counter[id].day)))'
          BY <1>3, <5>1
        <5> QED
          BY <4>1, <5>2 DEF Used, Larger
      <4>4. counter'[new.counter].day = Day(new.at)
        BY <1>3, <2>2, <4>1 DEF CountersSound, CountsOwnDay, Day
      <4>5. Used(counter'[new.counter]) \in Nat
        <5>1. counter' \in [Call -> CounterType]
          BY <1>3, <2>1, AfterStep
        <5> QED
          BY <4>1, <5>1, UsedCounts
      <4>6. Daily[new.tier] \in Nat
        BY <2>1, <4>1, CapsAreNumbers DEF Effects, CallGoesOn
      <4> HIDE DEF Used
      <4>7. Daily[new.tier] <= Cardinality(CallsIn(call', Day(new.at)))
        BY <4>2, <4>3, <4>4, <4>5, <4>6, DaysHoldCalls
      <4> QED
        BY <2>2, <3>1, <4>7
    <3>2. CASE d # c
      <4>1. PICK day : day = Day(call'[d].at)
        OBVIOUS
      <4>2. Daily[call'[d].tier] <= Cardinality(CallsIn(call, day))
        BY <1>3, <2>2, <2>3, <3>2, <4>1 DEF Earned
      <4>3. Cardinality(CallsIn(call, day)) <= Cardinality(CallsIn(call', day))
        BY <1>3, <2>1, DaysGrow, DaysHoldCalls, CallCounts
      <4>4. Daily[call'[d].tier] \in Nat
        BY <1>3, <2>2, <2>3, <3>2, CapsAreNumbers DEF CountersSound, CallsAreSound
      <4>5. Daily[call'[d].tier] <= Cardinality(CallsIn(call', day))
        BY <4>2, <4>3, <4>4, DaysHoldCalls
      <4> QED
        BY <4>1, <4>5
    <3> QED
      BY <3>1, <3>2
  <2> QED
    BY <2>3 DEF Earned
<1>4. RefusedOnlyWhenSpent /\ CountersSound /\ CountersSound' /\ [QuotaNext]_quotaVars
        => RefusedOnlyWhenSpent'
  <2> SUFFICES ASSUME RefusedOnlyWhenSpent, CountersSound, CountersSound',
                      [QuotaNext]_quotaVars
               PROVE  RefusedOnlyWhenSpent'
    OBVIOUS
  <2>1. CASE UNCHANGED call
    BY <1>1, <2>1
  <2>2. ASSUME NEW c \in Call, CallMoves(c)
        PROVE  RefusedOnlyWhenSpent'
    BY <1>1, <1>3, <2>2
  <2>3. ChangeTier \/ Tick \/ UNCHANGED quotaVars => UNCHANGED call
    BY DEF ChangeTier, Tick, quotaVars
  <2> QED
    BY <2>1, <2>2, <2>3 DEF QuotaNext, CallMoves
<1> QED
  BY <1>2, <1>4, CountersHold, PTL DEF QuotaSpec

\* Where every key has at most m elements, m times as many elements as keys are all there are.
LEMMA FewPerKey ==
  ASSUME NEW S, NEW K, IsFiniteSet(K), NEW m \in Nat, NEW key \in [S -> K],
         \A k \in K : /\ IsFiniteSet({s \in S : key[s] = k})
                      /\ Cardinality({s \in S : key[s] = k}) <= m
  PROVE  IsFiniteSet(S) /\ Cardinality(S) <= Cardinality(K) * m
<1> DEFINE Of(k) == {s \in S : key[s] = k}
           List(k) == CHOOSE b : \A s \in Of(k) : \E i \in 1..m : b[i] = s
           Rank(s) == CHOOSE i \in 1..m : List(key[s])[i] = s
           f == [s \in S |-> <<key[s], Rank(s)>>]
<1>1. ASSUME NEW k \in K
      PROVE  \E b : \A s \in Of(k) : \E i \in 1..m : b[i] = s
  <2> DEFINE n == Cardinality(Of(k))
  <2>1. IsFiniteSet(Of(k)) /\ n <= m
    OBVIOUS
  <2>2. n \in Nat /\ ExistsBijection(1..n, Of(k))
    BY <2>1, FS_CardinalityType
  <2> HIDE DEF n, Of
  <2>3. PICK b \in Surjection(1..n, Of(k)) : TRUE
    BY <2>2 DEF ExistsBijection, Bijection
  <2>4. \A s \in Of(k) : \E i \in 1..n : b[i] = s
    BY DEF Surjection
  <2>5. 1..n \subseteq 1..m
    BY <2>1, <2>2
  <2> QED
    BY <2>4, <2>5
<1>2. \A k \in K : \A s \in Of(k) : \E i \in 1..m : List(k)[i] = s
  <2> SUFFICES ASSUME NEW k \in K PROVE \A s \in Of(k) : \E i \in 1..m : List(k)[i] = s
    OBVIOUS
  <2> HIDE DEF Of
  <2> QED
    BY <1>1
<1>3. \A s \in S : key[s] \in K /\ s \in Of(key[s])
  OBVIOUS
<1> HIDE DEF Of, List
<1>4. \A s \in S : Rank(s) \in 1..m /\ List(key[s])[Rank(s)] = s
  BY <1>2, <1>3
<1> HIDE DEF Rank
<1>5. f \in Injection(S, K \X (1..m))
  <2>1. f \in [S -> K \X (1..m)]
    BY <1>3, <1>4
  <2>2. \A s, t \in S : f[s] = f[t] => s = t
    BY <1>4
  <2> HIDE DEF f
  <2> QED
    BY <2>1, <2>2 DEF Injection, IsInjective
<1>6. IsFiniteSet(1..m) /\ Cardinality(1..m) = m
  BY FS_Interval
<1>7. IsFiniteSet(K \X (1..m)) /\ Cardinality(K \X (1..m)) = Cardinality(K) * m
  BY <1>6, FS_Product
<1> HIDE DEF f
<1> QED
  BY <1>5, <1>7, FS_Injection

\* A process lets no more calls through on a day than their cap, once more for every counter it
\* opened late (_usage_for, admit).
THEOREM OwnCallsAreCapped == QuotaSpec => []OwnCallsCapped
<1>1. CountersSound => OwnCallsCapped
  <2> SUFFICES ASSUME CountersSound, NEW c \in LetThrough, NEW p, NEW t,
                      p = call[c].process, t = call[c].tier, Daily[t] > 0
               PROVE  Cardinality({d \in LetThrough : /\ call[d].process = p
                                                      /\ call[d].tier = t
                                                      /\ Day(call[d].at) = Day(call[c].at)})
                        <= Daily[t] * (1 + Cardinality(LateCounters(p)))
    BY DEF OwnCallsCapped
  <2> DEFINE day == Day(call[c].at)
             same == {d \in LetThrough : /\ call[d].process = p
                                         /\ call[d].tier = t
                                         /\ Day(call[d].at) = day}
             lates == Cardinality(LateCounters(p))
             few == Cardinality(CountersOf(p, day))
             key == [d \in same |-> call[d].counter]
  <2>1. /\ c \in Call /\ p \in Process /\ t \in Tier /\ call[c].at \in Time
        /\ call \in [Call -> CallType]
    BY QuotaFields DEF CountersSound, CallsAreSound, LetThrough, CallType
  <2>2. day \in Time
    <3>1. call[c].at \in Nat /\ call[c].at <= MaxTime /\ MaxTime \in Nat
      BY <2>1, QuotaAssumption DEF Time
    <3>2. day \in Nat /\ day <= call[c].at
      BY <3>1, DayIsNumber
    <3> HIDE DEF day
    <3> QED
      BY <3>1, <3>2 DEF Time
  <2>3. ASSUME NEW d \in same
        PROVE  key[d] \in CountersOf(p, day)
    <3>1. d \in LetThrough /\ d \in Call /\ call[d].process = p /\ call[d].tier = t
          /\ Day(call[d].at) = day
      BY DEF LetThrough
    <3>2. call[d].counter # NoCall
      BY <3>1 DEF CountersSound, CallsAreSound
    <3>3. call[d].counter \in Call
      BY <2>1, <3>1, <3>2 DEF CallType
    <3> QED
      BY <3>1, <3>2, <3>3 DEF CountersSound, CountsOwnDay, CountersOf
  <2>4. key \in [same -> CountersOf(p, day)]
    BY <2>3
  <2>5. ASSUME NEW id \in CountersOf(p, day)
        PROVE  /\ IsFiniteSet({d \in same : key[d] = id})
               /\ Cardinality({d \in same : key[d] = id}) <= Daily[t]
    <3>1. id \in Call
      BY DEF CountersOf
    <3>2. {d \in same : key[d] = id} \subseteq LetThroughOn(id, t)
      BY DEF LetThroughOn
    <3>3. LetThroughOn(id, t) \in SUBSET Call /\ {d \in same : key[d] = id} \in SUBSET Call
      BY <3>2 DEF LetThroughOn, LetThrough
    <3>4. Cardinality(LetThroughOn(id, t)) <= Daily[t]
      BY <2>1, <3>1 DEF CountersSound, CapsAreKept
    <3> HIDE DEF same, key
    <3>5. Cardinality({d \in same : key[d] = id}) <= Cardinality(LetThroughOn(id, t))
      BY <3>2, <3>3, CallCounts
    <3>6. /\ IsFiniteSet({d \in same : key[d] = id})
          /\ Cardinality({d \in same : key[d] = id}) \in Nat
          /\ Cardinality(LetThroughOn(id, t)) \in Nat
      BY <3>3, CallsAreFinite
    <3> QED
      BY <2>1, <3>4, <3>5, <3>6, CapsAreNumbers
  <2>6. CountersOf(p, day) \in SUBSET Call /\ LateCounters(p) \in SUBSET Call
    BY DEF CountersOf, LateCounters
  <2>7. IsFiniteSet(CountersOf(p, day)) /\ few \in Nat /\ lates \in Nat /\ Daily[t] \in Nat
    BY <2>1, <2>6, CallsAreFinite, CapsAreNumbers
  <2>8. few <= lates + 1
    <3>1. few <= lates + (IF usage[p] # NoCall /\ counter[usage[p]].day >= day THEN 1 ELSE 0)
      BY <2>1, <2>2 DEF CountersSound, CountersAreFew
    <3> HIDE DEF few, lates
    <3> QED
      BY <2>7, <3>1
  <2> HIDE DEF day, same, key
  <2>9. Cardinality(same) <= few * Daily[t] /\ IsFiniteSet(same)
    <3> DEFINE K == CountersOf(p, day)
               m == Daily[t]
    <3>1. /\ IsFiniteSet(K) /\ m \in Nat /\ key \in [same -> K]
          /\ \A k \in K : /\ IsFiniteSet({d \in same : key[d] = k})
                          /\ Cardinality({d \in same : key[d] = k}) <= m
      BY <2>4, <2>5, <2>7
    <3> HIDE DEF K, m
    <3>2. IsFiniteSet(same) /\ Cardinality(same) <= Cardinality(K) * m
      BY <3>1, FewPerKey
    <3> QED
      BY <3>2 DEF K, m
  <2>10. Cardinality(same) \in Nat
    BY <2>9, FS_CardinalityType
  <2>11. few * Daily[t] <= Daily[t] * (1 + lates)
    <3> HIDE DEF few, lates
    <3>1. \A m, n, k \in Nat : m <= n + 1 => m * k <= k * (1 + n)
      OBVIOUS
    <3> QED
      BY <2>7, <2>8, <3>1
  <2>12. Cardinality(same) <= Daily[t] * (1 + lates)
    <3> HIDE DEF few, lates
    <3>1. \A m, n, k \in Nat : m * k \in Nat /\ k * (1 + n) \in Nat
      OBVIOUS
    <3> QED
      BY <2>7, <2>9, <2>10, <2>11, <3>1
  <2> QED
    BY <2>12 DEF same, day
<1> QED
  BY <1>1, CountersHold, PTL
=============================================================================
