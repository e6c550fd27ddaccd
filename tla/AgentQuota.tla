------------------------------ MODULE AgentQuota ------------------------------
(***************************************************************************)
(* The rate limit and the daily cap of one agent key                       *)
(* (apiome-mcp/src/apiome_mcp/agent_quotas.py), as several processes       *)
(* enforce them on the calls of the agents that hold the key.              *)
(*                                                                         *)
(* A process keeps the caps of the key's tenant and the key's count of     *)
(* calls in memory and reads both from the database when they are due.     *)
(* admit() looks at the clock once, at its start, and awaits those reads   *)
(* one after the other; between two awaits it is not interrupted.          *)
(*                                                                         *)
(* A process that stops, and a row that is never written, are calls that   *)
(* take no further step; a process that restarts is another Process.       *)
(* The database's day and the processes' monotonic clocks are one clock.   *)
(* Rates are whole numbers of calls per tick of it.  Buckets are dropped   *)
(* when they have been full for long, which nobody can tell; that at most  *)
(* 50,000 are kept is left out.                                            *)
(***************************************************************************)
EXTENDS Integers, FiniteSets

CONSTANTS
    Process,      \* MCP server processes, each with a guard of its own
    NoProcess,
    Call,         \* calls of the key's agents
    NoCall,
    Tier,         \* license tiers
    NoTier,
    FreeTier,     \* the caps used when none are known
    Daily,        \* tier -> calls per day, 0 for unlimited
    Rate,         \* tier -> calls per tick, 0 for unlimited
    DayLength,    \* ticks in a UTC day
    LimitsTtl,    \* limits_cache_seconds
    UsageTtl,     \* usage_cache_seconds
    MaxTime,      \* bound: the clock stops here
    ChangeTimes   \* bound: when the tenant's license may change

ASSUME QuotaAssumption ==
    /\ IsFiniteSet(Call)
    /\ NoProcess \notin Process
    /\ NoCall \notin Call
    /\ FreeTier \in Tier
    /\ NoTier \notin Tier
    /\ Daily \in [Tier -> Nat]
    /\ Rate \in [Tier -> Nat]
    /\ DayLength \in Nat \ {0}
    /\ LimitsTtl \in Nat
    /\ UsageTtl \in Nat
    /\ MaxTime \in Nat
    /\ ChangeTimes \subseteq Nat

VARIABLES
    now,       \* the clock
    tier,      \* the tenant's tier in the database
    changed,   \* history: when it was last another
    limits,    \* process -> the tier it has cached, when that expires, and whether it was read
    usage,     \* process -> the counter it uses, named by the call that opened it
    counter,   \* call -> the counter it opened, if it did
    bucket,    \* process -> the key's token bucket
    call       \* call -> where it is

quotaVars == <<now, tier, changed, limits, usage, counter, bucket, call>>

Day(t) == t \div DayLength
Larger(m, n) == IF m > n THEN m ELSE n
Smaller(m, n) == IF m < n THEN m ELSE n

-----------------------------------------------------------------------------
(* What is kept                                                            *)

\* A counter.  late is a history: it was opened by a call of an earlier day than the counter
\* it took the place of.
NoCounter == [day |-> -1, counted |-> 0, admitted |-> 0, admittedToday |-> 0, due |-> 0,
              late |-> FALSE]

\* Mutant: the database's count alone, while rows are not yet written.
UsedOnRecord(u) == u.counted + u.admitted

Used(u) == Larger(u.counted + u.admitted, u.admittedToday)

\* Where a call is:
\*   "new"        it has not come
\*   "capping"    it awaits the tenant's caps; "capped": the database has read them
\*   "counting"   it awaits the key's count;   "counted": the database has counted
\*   "spent"      refused, the day's calls are used up
\*   "throttled"  refused, there is no token
\*   "admitted"   let through
\*   "recorded"   ... and its row is in agent_invocations
Phases == {"new", "capping", "capped", "counting", "counted", "spent", "throttled",
           "admitted", "recorded"}

\* tier: the caps it goes by (those cached when it came, while it awaits them); read: the count
\* it was given; took: when it was let through or throttled, which keeps at; day: that of its row.
NewCall == [pc |-> "new", process |-> NoProcess, at |-> 0, tier |-> NoTier, counter |-> NoCall,
            read |-> 0, took |-> 0, day |-> 0]

QuotaInit ==
    /\ now = 0
    /\ tier \in Tier
    /\ changed = 0
    /\ limits = [p \in Process |-> [tier |-> NoTier, until |-> 0, read |-> TRUE]]
    /\ usage = [p \in Process |-> NoCall]
    /\ counter = [c \in Call |-> NoCounter]
    /\ bucket = [p \in Process |-> [tokens |-> -1, updated |-> 0]]
    /\ call = [c \in Call |-> NewCall]

-----------------------------------------------------------------------------
(* Judging a call                                                          *)

\* Mutant: an idle bucket fills without end.
RefilledWithoutEnd(b, rate, at) ==
    IF b.tokens = -1 THEN Larger(1, rate) ELSE b.tokens + rate * Larger(0, at - b.updated)

\* TokenBuckets.take: a bucket that is not there starts full, and is paid for the time between
\* the clock readings of two calls, unless the later call has the earlier reading.
Refilled(b, rate, at) ==
    IF b.tokens = -1
    THEN Larger(1, rate)
    ELSE Smaller(Larger(1, rate), b.tokens + rate * Larger(0, at - b.updated))

\* The end of admit(): the call is let through and counted, if there is a cap to count for.
Admitted(c, k, counters) ==
    /\ call' = [call EXCEPT ![c] = [k EXCEPT !.pc = "admitted", !.took = now]]
    /\ counter' = IF k.counter = NoCall
                  THEN counters
                  ELSE [counters EXCEPT ![k.counter].admitted = @ + 1,
                                        ![k.counter].admittedToday = @ + 1]

\* The rate limit.  k is the call c as it stands and counters are the counters.
Throttle(c, k, counters) ==
    LET rate   == Rate[k.tier]
        tokens == Refilled(bucket[k.process], rate, k.at)
    IN  \/ /\ rate = 0
           /\ Admitted(c, k, counters)
           /\ UNCHANGED bucket
        \/ /\ rate > 0
           /\ tokens >= 1
           /\ bucket' = [bucket EXCEPT ![k.process] = [tokens |-> tokens - 1, updated |-> k.at]]
           /\ Admitted(c, k, counters)
        \/ /\ rate > 0
           /\ tokens < 1
           /\ bucket' = [bucket EXCEPT ![k.process] = [tokens |-> tokens, updated |-> k.at]]
           /\ call' = [call EXCEPT ![c] = [k EXCEPT !.pc = "throttled", !.took = now]]
           /\ counter' = counters

\* The daily cap, before the rate limit.
Judge(c, k, counters) ==
    \/ /\ Used(counters[k.counter]) >= Daily[k.tier]
       /\ call' = [call EXCEPT ![c] = [k EXCEPT !.pc = "spent"]]
       /\ counter' = counters
       /\ UNCHANGED bucket
    \/ /\ Used(counters[k.counter]) < Daily[k.tier]
       /\ Throttle(c, k, counters)

\* Mutant: the counter is not asked for its day.
UsageIsKept(c, k) == IF usage[k.process] # NoCall THEN usage[k.process] ELSE c

\* _usage_for: the process's counter, if it is of the call's day.
UsageIs(c, k) ==
    LET id == usage[k.process]
    IN  IF id # NoCall /\ counter[id].day = Day(k.at) THEN id ELSE c

Opening(k) ==
    LET id == usage[k.process]
    IN  [NoCounter EXCEPT !.day = Day(k.at), !.late = id # NoCall /\ counter[id].day > Day(k.at)]

\* admit() from where the caps are known to its end or to the await of the count.
Proceed(c, k) ==
    \/ /\ Daily[k.tier] = 0
       /\ Throttle(c, k, counter)
       /\ UNCHANGED usage
    \/ /\ Daily[k.tier] > 0
       /\ LET id       == UsageIs(c, k)
              counters == IF id = c THEN [counter EXCEPT ![c] = Opening(k)] ELSE counter
              counted  == [k EXCEPT !.counter = id]
          IN  /\ usage' = [usage EXCEPT ![k.process] = id]
              /\ \/ /\ k.at >= counters[id].due
                    /\ call' = [call EXCEPT ![c] = [counted EXCEPT !.pc = "counting"]]
                    /\ counter' = counters
                    /\ UNCHANGED bucket
                 \/ /\ k.at < counters[id].due
                    /\ Judge(c, counted, counters)

-----------------------------------------------------------------------------
(* The steps of a call                                                     *)

\* A call comes to a process: the clock is read, and the caps are, unless they are cached.
Arrive(c, p) ==
    LET k == [call[c] EXCEPT !.process = p, !.at = now, !.tier = limits[p].tier]
    IN  /\ call[c].pc = "new"
        /\ \/ /\ k.tier # NoTier /\ now < limits[p].until
              /\ Proceed(c, k)
           \/ /\ k.tier = NoTier \/ now >= limits[p].until
              /\ call' = [call EXCEPT ![c] = [k EXCEPT !.pc = "capping"]]
              /\ UNCHANGED <<usage, counter, bucket>>
        /\ UNCHANGED <<now, tier, changed, limits>>

\* The database reads the caps; the answer is on its way.
ReadLimits(c) ==
    /\ call[c].pc = "capping"
    /\ call' = [call EXCEPT ![c].pc = "capped", ![c].tier = tier]
    /\ UNCHANGED <<now, tier, changed, limits, usage, counter, bucket>>

\* Mutant: the caps are kept from when they were answered.
LimitsAreFromNow(c, t, read) ==
    /\ limits' = [limits EXCEPT ![call[c].process] =
                      [tier |-> t, until |-> now + LimitsTtl, read |-> read]]
    /\ Proceed(c, [call[c] EXCEPT !.tier = t])
    /\ UNCHANGED <<now, tier, changed>>

\* limits_for caches what it returns, counting from the time the call came.
LimitsAre(c, t, read) ==
    /\ limits' = [limits EXCEPT ![call[c].process] =
                      [tier |-> t, until |-> call[c].at + LimitsTtl, read |-> read]]
    /\ Proceed(c, [call[c] EXCEPT !.tier = t])
    /\ UNCHANGED <<now, tier, changed>>

LimitsAnswered(c) ==
    /\ call[c].pc = "capped"
    /\ LimitsAre(c, call[c].tier, TRUE)

\* The caps cannot be read: those that were cached when the call came, or the Free caps.
LimitsFail(c) ==
    /\ call[c].pc = "capping"
    /\ LimitsAre(c, IF call[c].tier = NoTier THEN FreeTier ELSE call[c].tier, FALSE)

\* agent_key_call_count: the rows of a day.
Rows(d) == {c \in Call : call[c].pc = "recorded" /\ call[c].day = d}

CountCalls(c) ==
    /\ call[c].pc = "counting"
    /\ call' = [call EXCEPT ![c].pc = "counted", ![c].read = Cardinality(Rows(Day(call[c].at)))]
    /\ UNCHANGED <<now, tier, changed, limits, usage, counter, bucket>>

\* Mutant: the calls admitted before the answer are counted on.
RefreshedAddingUp(u, k) == [u EXCEPT !.counted = k.read, !.due = k.at + UsageTtl]

\* The counter after the answer.
Refreshed(u, k) == [u EXCEPT !.counted = k.read, !.admitted = 0, !.due = k.at + UsageTtl]
\* ... and after a count that failed.
NotRefreshed(u, k) == [u EXCEPT !.due = k.at + UsageTtl]

CountAnswered(c) ==
    LET k == call[c]
    IN  /\ k.pc = "counted"
        /\ Judge(c, [k EXCEPT !.read = 0], [counter EXCEPT ![k.counter] = Refreshed(@, k)])
        /\ UNCHANGED <<now, tier, changed, limits, usage>>

CountFails(c) ==
    LET k == call[c]
    IN  /\ k.pc = "counting"
        /\ Judge(c, k, [counter EXCEPT ![k.counter] = NotRefreshed(@, k)])
        /\ UNCHANGED <<now, tier, changed, limits, usage>>

\* The row of a call is written when the call has ended, with the time it was invoked at, which
\* is some time since it was let through.
Record(c) ==
    /\ call[c].pc = "admitted"
    /\ \E t \in call[c].took..now :
           call' = [call EXCEPT ![c].pc = "recorded", ![c].day = Day(t)]
    /\ UNCHANGED <<now, tier, changed, limits, usage, counter, bucket>>

ChangeTier ==
    /\ now \in ChangeTimes
    /\ tier' \in Tier \ {tier}
    /\ changed' = now
    /\ UNCHANGED <<now, limits, usage, counter, bucket, call>>

Tick ==
    /\ now < MaxTime
    /\ now' = now + 1
    /\ UNCHANGED <<tier, changed, limits, usage, counter, bucket, call>>

QuotaNext ==
    \/ \E c \in Call :
           \/ \E p \in Process : Arrive(c, p)
           \/ ReadLimits(c)
           \/ LimitsAnswered(c)
           \/ LimitsFail(c)
           \/ CountCalls(c)
           \/ CountAnswered(c)
           \/ CountFails(c)
           \/ Record(c)
    \/ ChangeTier
    \/ Tick

QuotaSpec == QuotaInit /\ [][QuotaNext]_quotaVars
-----------------------------------------------------------------------------
(* Properties                                                              *)

LetThrough == {c \in Call : call[c].pc \in {"admitted", "recorded"}}
Awaiting == {"counting", "counted"}

Time == 0..MaxTime

QuotaTypeOK ==
    /\ now \in Time
    /\ tier \in Tier
    /\ changed \in Time
    /\ limits \in [Process -> [tier : Tier \union {NoTier}, until : Nat, read : BOOLEAN]]
    /\ usage \in [Process -> Call \union {NoCall}]
    /\ counter \in [Call -> [day : Nat \union {-1}, counted : Nat, admitted : Nat,
                            admittedToday : Nat, due : Nat, late : BOOLEAN]]
    /\ bucket \in [Process -> [tokens : Nat \union {-1}, updated : Time]]
    /\ call \in [Call -> [pc : Phases, process : Process \union {NoProcess}, at : Time,
                         tier : Tier \union {NoTier}, counter : Call \union {NoCall},
                         read : Nat, took : Time, day : Nat]]

\* A call is counted on a counter of its own process and day, though the process may have
\* opened another meanwhile.
CountsOwnDay ==
    /\ \A p \in Process : usage[p] # NoCall =>
           counter[usage[p]].day >= 0 /\ call[usage[p]].process = p
    /\ \A c \in Call :
           LET id == call[c].counter
           IN  id # NoCall => /\ counter[id].day = Day(call[c].at)
                              /\ call[id].process = call[c].process
    /\ \A c \in Call : call[c].pc \in Awaiting => call[c].counter # NoCall

\* A counter knows the calls let through on it.
CountsItsCalls ==
    \A c \in Call :
        counter[c].admittedToday = Cardinality({d \in LetThrough : call[d].counter = c})

\* The calls of a day: those that came on it, and those whose rows say so.
CallsOf(d) == {c \in LetThrough : Day(call[c].at) = d} \union Rows(d)

\* No call is counted twice: not by a row and in memory, nor by an answer that was overtaken.
CountsNothingTwice ==
    /\ \A c \in Call :
           counter[c].counted + counter[c].admitted <= Cardinality(CallsOf(counter[c].day))
    /\ \A c \in Call : call[c].pc = "counted" => call[c].read <= Cardinality(Rows(Day(call[c].at)))

\* A call knows its process once it has come, goes by known caps from the answer on, and is
\* let through without a counter only where there is no daily cap.
CallsAreSound ==
    \A c \in Call :
        LET k == call[c] IN
        /\ k.at <= now
        /\ k.pc # "new" => k.process \in Process
        /\ k.pc \notin {"new", "capping"} => k.tier \in Tier
        /\ k.pc \in {"new", "capping", "capped"} => k.counter = NoCall
        /\ c \in LetThrough /\ k.counter = NoCall => Daily[k.tier] = 0

\* A counter belongs to the call that opened it, and has counted nothing before that.
CountersAreOpened ==
    /\ \A p \in Process : usage[p] # NoCall => call[usage[p]].counter = usage[p]
    /\ \A c \in Call :
           LET id == call[c].counter
           IN  id # NoCall => call[id].counter = id
    /\ \A c \in Call : call[c].counter # c => counter[c] = NoCounter

\* The calls one counter let through under one cap.
LetThroughOn(id, t) == {c \in LetThrough : call[c].counter = id /\ call[c].tier = t}

\* One counter lets no more calls through than the cap they were judged by.
CapsAreKept == \A id \in Call, t \in Tier : Cardinality(LetThroughOn(id, t)) <= Daily[t]

\* The counters a process has opened for day d, and those it opened late.
CountersOf(p, d) == {id \in Call : counter[id].day = d /\ call[id].process = p}
LateCounters(p) == {id \in Call : counter[id].late /\ call[id].process = p}

\* A process opens a second counter for a day only after a late one took it back to an
\* earlier day: once it has opened one, it either is at that day or past it, or has gone back.
CountersAreFew ==
    \A p \in Process, d \in Time :
        LET past == usage[p] # NoCall /\ counter[usage[p]].day >= d
        IN  Cardinality(CountersOf(p, d)) <= Cardinality(LateCounters(p)) + (IF past THEN 1 ELSE 0)

\* Caps expire LimitsTtl after the call that read them came, and what was read for a call that
\* came after the license changed is the new tier.
TiersAreFresh ==
    /\ changed <= now
    /\ \A p \in Process :
           /\ limits[p].until <= now + LimitsTtl
           /\ limits[p].read /\ limits[p].until > changed + LimitsTtl => limits[p].tier = tier
    /\ \A c \in Call : call[c].pc = "capped" /\ call[c].at > changed => call[c].tier = tier

\* The calls that have come to the token bucket of a process since from.
Takers(p, from) ==
    {c \in Call : /\ call[c].pc \in {"throttled", "admitted", "recorded"}
                  /\ call[c].process = p
                  /\ call[c].took >= from
                  /\ Rate[call[c].tier] > 0}

\* The ticks that each of the calls had waited when it was let through or throttled.
Waits(calls) == {x \in calls \X Time : call[x[1]].at <= x[2] /\ x[2] < call[x[1]].took}

\* None of the calls goes by a higher rate than that of tier t.
GoBy(calls, t) == \A c \in calls : Rate[call[c].tier] <= Rate[t]

\* Whenever one begins to count, what a bucket has given and what it still holds was paid for:
\* by the burst, by the time from there to the clock reading it was last paid up to, and, since
\* a late call takes that reading back and the next is paid for the same time again, by
\* the time that calls had waited (TokenBuckets.take).
BucketsArePaid ==
    /\ \A c \in Call : call[c].took <= now
    /\ \A p \in Process :
           /\ bucket[p].updated <= now
           /\ Takers(p, 0) # {} => bucket[p].tokens >= 0
    /\ \A p \in Process : \A from \in 0..now :
           LET takers == Takers(p, from)
               waited == Cardinality(Waits(takers))
           IN  takers # {} =>
                   \A t \in Tier : GoBy(takers, t) =>
                       Cardinality(takers \intersect LetThrough) + bucket[p].tokens
                           <= Rate[t] * (1 + (bucket[p].updated - from) + waited)

\* What the counters of a process are, and which calls they let through, in every reachable
\* state, whichever answers of the database arrive late or not at all (_usage_for, admit): they
\* never count too much and never lose a call they let through, and each stays within the cap.
CountersSound ==
    /\ QuotaTypeOK
    /\ CallsAreSound
    /\ CountsOwnDay
    /\ CountersAreOpened
    /\ CountsItsCalls
    /\ CountsNothingTwice
    /\ CapsAreKept
    /\ CountersAreFew
    /\ TiersAreFresh

\* ... and each bucket has given what it was paid.
QuotaInvariant == CountersSound /\ BucketsArePaid

\* A call is refused for the day only when the day really has as many calls as the cap it was
\* judged by, whatever the process had counted and however often it counted anew (admit).
RefusedOnlyWhenSpent ==
    \A c \in Call : call[c].pc = "spent" =>
        Daily[call[c].tier] <= Cardinality(CallsOf(Day(call[c].at)))

\* LimitsTtl after the license has changed, no process goes by a tier it read before, not even
\* when an older answer came in last: it goes by the new one, or by one it has fallen back on.
TierAppliesInTime ==
    \A p \in Process :
        limits[p].read /\ changed + LimitsTtl <= now /\ now < limits[p].until
            => limits[p].tier = tier

\* Whatever the database answers and however late rows are written, a process lets no more
\* calls through on a day than the cap they were judged by; once more for every time a call
\* that had waited over midnight put yesterday's counter back.
OwnCallsCapped ==
    \A c \in LetThrough :
        LET p    == call[c].process
            t    == call[c].tier
            same == {d \in LetThrough : /\ call[d].process = p
                                        /\ call[d].tier = t
                                        /\ Day(call[d].at) = Day(call[c].at)}
        IN  Daily[t] > 0 => Cardinality(same) <= Daily[t] * (1 + Cardinality(LateCounters(p)))

\* However calls are interleaved, in any stretch of time up to now a process has let through
\* no more calls than a burst and what the rate gives for the time, and for the time that its
\* calls of that stretch had waited for the database (TokenBuckets.take, admit); the rate is the
\* highest one that its calls of the stretch go by.
RateKept ==
    \A p \in Process : \A from \in 0..now :
        LET takers == Takers(p, from)
            waited == Cardinality(Waits(takers))
        IN  \A t \in Tier : GoBy(takers, t) =>
                Cardinality(takers \intersect LetThrough) <= Rate[t] * (1 + (now - from) + waited)
=============================================================================
