-------------------------- MODULE MockSession_proofs --------------------------
(***************************************************************************)
(* Proofs about MockSession, for any requests, sessions, ids and caps:     *)
(* rows stay within their session and are locked by one request at a time, *)
(* the cap on sessions is exceeded by less than the requests at once, and  *)
(* that on the resources of one by no more than each of them may bring.    *)
(***************************************************************************)
EXTENDS MockSession, FiniteSetTheorems, TLAPS

-----------------------------------------------------------------------------
(* Types *)

\* The ids of a session are ids.
LEMMA IdsOfSession == ASSUME NEW s \in Session PROVE IdOf(s) \subseteq Id
BY DEF Id

\* The fields of a request.
LEMMA CallFields ==
  ASSUME NEW c \in Call
  PROVE  /\ c.pc \in Phases /\ c.session \in Session \union {NoSession}
         /\ c.id \in Id \union {0} /\ c.put \in BOOLEAN
         /\ c.seed \in SUBSET Id /\ c.locks \in SUBSET Id /\ c.todo \in SUBSET Id
BY DEF Call

\* A request that is not under way.
LEMMA IdleSound ==
  Idle \in Call /\ Idle.pc = "idle" /\ RequestSound(Idle) /\ ~ Opening(Idle) /\ Held(Idle) = {}
<1>1. Idle \in Call /\ Idle.pc = "idle" /\ ~ Opening(Idle) /\ Held(Idle) = {}
  BY DEF Idle, Call, Phases, Opening, Held
<1>2. RequestSound(Idle)
  BY DEF RequestSound, Idle
<1> QED
  BY <1>1, <1>2

\* A request under way is one of a session.
LEMMA HasSession ==
  ASSUME SessionsCounted, NEW r \in Request
  PROVE  /\ call[r] \in Call /\ RequestSound(call[r])
         /\ call[r].pc # "idle" => call[r].session \in Session
BY CallFields DEF SessionsCounted, MockTypeOK, RequestSound

\* Calls that are the same but for the rows a statement has still to reach.
Alike(c, d) ==
    /\ c.pc = d.pc /\ c.session = d.session /\ c.id = d.id /\ c.put = d.put
    /\ c.seed = d.seed /\ c.locks = d.locks /\ Held(c) = Held(d)

\* d is the call c of a request once rows of s are gone: but for those, it still has to do what
\* it had to.
Forgets(d, c, s, gone) ==
    Alike(d, c) /\ c.todo \ gone \subseteq d.todo /\ (c.session # s => d = c)

\* Forgetting deleted rows.
LEMMA ForgettingEffect ==
  ASSUME NEW c \in [Request -> Call], NEW s, NEW gone
  PROVE  /\ Forgetting(c, s, gone) \in [Request -> Call]
         /\ \A q \in Request : Forgets(Forgetting(c, s, gone)[q], c[q], s, gone)
<1>1. ASSUME NEW q \in Request
      PROVE  /\ Forgetting(c, s, gone)[q] \in Call
             /\ Forgets(Forgetting(c, s, gone)[q], c[q], s, gone)
  <2> DEFINE d == [c[q] EXCEPT !.todo = @ \ gone]
  <2>1. c[q] \in Call
    OBVIOUS
  <2>2. /\ d \in Call /\ d.pc = c[q].pc /\ d.session = c[q].session /\ d.id = c[q].id
        /\ d.put = c[q].put /\ d.seed = c[q].seed /\ d.locks = c[q].locks
        /\ d.todo = c[q].todo \ gone
    BY <2>1 DEF Call
  <2>3. Forgetting(c, s, gone)[q] = IF c[q].session = s /\ c[q].pc # "seeding" THEN d ELSE c[q]
    BY DEF Forgetting
  <2> HIDE DEF d
  <2>4. CASE c[q].session = s /\ c[q].pc # "seeding"
    <3>1. Held(d) = c[q].locks /\ Held(c[q]) = c[q].locks
      BY <2>2, <2>4 DEF Held
    <3> QED
      BY <2>2, <2>3, <2>4, <3>1 DEF Alike, Forgets
  <2>5. CASE ~ (c[q].session = s /\ c[q].pc # "seeding")
    BY <2>1, <2>3, <2>5 DEF Alike, Forgets
  <2> QED
    BY <2>4, <2>5
<1>2. Forgetting(c, s, gone) = [q \in Request |-> Forgetting(c, s, gone)[q]]
  BY DEF Forgetting
<1> QED
  BY <1>1, <1>2

\* A request like a sound one is sound, and opens what that opens.
LEMMA AlikeSound ==
  ASSUME NEW c, NEW d, Alike(c, d)
  PROVE  (RequestSound(d) => RequestSound(c)) /\ (Opening(c) <=> Opening(d))
BY DEF Alike, RequestSound, Opening

-----------------------------------------------------------------------------
(* Counting sessions *)

\* No session is opened.
LEMMA OpenedShrinks ==
  ASSUME SessionsCounted, Opened' \subseteq Opened
  PROVE  /\ IsFiniteSet(Opened')
         /\ Cardinality(Opened') + 1 <= MaxSessions + Cardinality(Request)
<1>1. /\ IsFiniteSet(Opened) /\ Cardinality(Opened) \in Nat
      /\ Cardinality(Opened) + 1 <= MaxSessions + Cardinality(Request)
  BY FS_CardinalityType DEF SessionsCounted
<1>2. /\ IsFiniteSet(Opened') /\ Cardinality(Opened') \in Nat
      /\ Cardinality(Opened') <= Cardinality(Opened)
  BY <1>1, FS_Subset, FS_CardinalityType
<1>3. MaxSessions \in Nat /\ Cardinality(Request) \in Nat
  BY MockAssumption, FS_CardinalityType DEF MockAssumption
<1> QED
  BY <1>1, <1>2, <1>3

\* The requests of a set are of no more sessions than they are.
LEMMA SessionsOfRequests ==
  ASSUME NEW R \in SUBSET Request, NEW c
  PROVE  /\ IsFiniteSet({c[q].session : q \in R}) /\ IsFiniteSet(R)
         /\ Cardinality({c[q].session : q \in R}) <= Cardinality(R)
<1> DEFINE T == {c[q].session : q \in R}
           f == [q \in R |-> c[q].session]
<1>1. IsFiniteSet(R)
  BY MockAssumption, FS_Subset DEF MockAssumption
<1>2. f \in Surjection(R, T)
  BY DEF Surjection
<1> QED
  BY <1>1, <1>2, FS_Surjection

\* A session is opened while there are less of them than the cap: the other requests bring
\* no more than one each.
LEMMA OpenedGrows ==
  ASSUME SessionsCounted, Cardinality(Active) < MaxSessions, row' = row
  PROVE  /\ IsFiniteSet(Opened')
         /\ Cardinality(Opened') + 1 <= MaxSessions + Cardinality(Request)
<1> DEFINE R == {q \in Request : Opening(call'[q])}
           T == {call'[q].session : q \in R}
<1>0. R \in SUBSET Request
  OBVIOUS
<1>1. IsFiniteSet(Active) /\ Cardinality(Active) \in Nat
  BY FS_Subset, FS_CardinalityType DEF SessionsCounted, Opened
<1>2. Opened' = Active \union T
  BY DEF Opened, Active
<1> HIDE DEF R
<1>3. IsFiniteSet(Request) /\ Cardinality(Request) \in Nat /\ MaxSessions \in Nat
  BY MockAssumption, FS_CardinalityType DEF MockAssumption
<1>4. /\ IsFiniteSet(T) /\ Cardinality(T) \in Nat /\ Cardinality(T) <= Cardinality(Request)
  <2>1. IsFiniteSet(T) /\ Cardinality(T) <= Cardinality(R)
    BY <1>0, SessionsOfRequests
  <2>2. Cardinality(R) <= Cardinality(Request) /\ Cardinality(R) \in Nat
    BY <1>0, <1>3, FS_Subset, FS_CardinalityType
  <2> QED
    BY <1>3, <2>1, <2>2, FS_CardinalityType
<1> HIDE DEF T
<1>5. /\ IsFiniteSet(Active \union T)
      /\ Cardinality(Active \union T) = Cardinality(Active) + Cardinality(T)
                                          - Cardinality(Active \cap T)
  BY <1>1, <1>4, FS_Union
<1>6. IsFiniteSet(Active \cap T) /\ Cardinality(Active \cap T) \in Nat
  BY <1>1, FS_Intersection, FS_CardinalityType
<1> QED
  BY <1>1, <1>2, <1>3, <1>4, <1>5, <1>6

-----------------------------------------------------------------------------
(* Steps of a request *)

\* A step of r that keeps its rows apart from the others', and opens a session only under
\* the cap.
LEMMA StepKeeps ==
  ASSUME SessionsCounted, NEW r \in Request,
         call' \in [Request -> Call], \A q \in Request \ {r} : Alike(call'[q], call[q]),
         RequestSound(call'[r]),
         \A q \in Request \ {r} : call[q].session = call'[r].session =>
             Held(call'[r]) \intersect Held(call[q]) = {},
         row' \in [Session -> SUBSET Id], \A s \in Session : row'[s] \subseteq IdOf(s),
         \A s \in Session : row'[s] # {} => \/ row[s] # {}
                                            \/ s = call[r].session /\ Opening(call[r]),
         Opening(call'[r]) =>
             \/ Opening(call[r]) /\ call'[r].session = call[r].session
             \/ call'[r].session \in Session /\ row[call'[r].session] # {}
             \/ row' = row /\ Cardinality(Active) < MaxSessions
  PROVE  SessionsCounted'
<1>1. \A q \in Request : RequestSound(call'[q])
  <2>1. \A q \in Request \ {r} : RequestSound(call'[q])
    BY AlikeSound DEF SessionsCounted
  <2> QED
    BY <2>1
<1>2. LocksExclusive'
  <2>1. ASSUME NEW p \in Request, NEW q \in Request, p # q, call'[p].session = call'[q].session
        PROVE  Held(call'[p]) \intersect Held(call'[q]) = {}
    <3>1. CASE p # r /\ q # r
      <4>1. Alike(call'[p], call[p]) /\ Alike(call'[q], call[q])
        BY <3>1
      <4>2. call[p].session = call[q].session
        BY <2>1, <4>1 DEF Alike
      <4>3. Held(call[p]) \intersect Held(call[q]) = {}
        BY <2>1, <4>2 DEF SessionsCounted, MockTypeOK, LocksExclusive
      <4> QED
        BY <4>1, <4>3 DEF Alike
    <3>2. CASE p = r
      <4>1. Alike(call'[q], call[q])
        BY <2>1, <3>2
      <4> QED
        BY <2>1, <3>2, <4>1 DEF Alike
    <3>3. CASE q = r
      <4>1. Alike(call'[p], call[p])
        BY <2>1, <3>3
      <4> QED
        BY <2>1, <3>3, <4>1 DEF Alike
    <3> QED
      BY <3>1, <3>2, <3>3
  <2> QED
    BY <2>1 DEF LocksExclusive
<1>3. MockTypeOK'
  BY <1>1, <1>2 DEF MockTypeOK, RequestSound
<1>4. IsFiniteSet(Opened') /\ Cardinality(Opened') + 1 <= MaxSessions + Cardinality(Request)
  <2>1. CASE row' = row /\ Cardinality(Active) < MaxSessions
    BY <2>1, OpenedGrows
  <2>2. CASE Opening(call'[r]) =>
               \/ Opening(call[r]) /\ call'[r].session = call[r].session
               \/ call'[r].session \in Session /\ row[call'[r].session] # {}
    <3>1. Active' \subseteq Opened
      BY DEF Active, Opened
    <3>2. ASSUME NEW q \in Request, Opening(call'[q])
          PROVE  call'[q].session \in Opened
      <4>1. CASE q # r
        <5>1. Opening(call[q]) /\ call'[q].session = call[q].session
          BY <3>2, <4>1, AlikeSound DEF Alike
        <5> QED
          BY <5>1 DEF Opened
      <4>2. CASE q = r
        BY <2>2, <3>2, <4>2 DEF Opened, Active
      <4> QED
        BY <4>1, <4>2
    <3>3. Opened' \subseteq Opened
      BY <3>1, <3>2 DEF Opened
    <3> QED
      BY <3>3, OpenedShrinks
  <2> QED
    BY <2>1, <2>2
<1> QED
  BY <1>1, <1>3, <1>4 DEF SessionsCounted

\* A step that only changes what r is doing.
LEMMA BecomesKeeps ==
  ASSUME SessionsCounted, NEW r \in Request, NEW new \in Call, Becomes(r, new), row' = row,
         RequestSound(new),
         \A q \in Request \ {r} : call[q].session = new.session =>
             Held(new) \intersect Held(call[q]) = {},
         Opening(new) =>
             \/ Opening(call[r]) /\ new.session = call[r].session
             \/ new.session \in Session /\ row[new.session] # {}
             \/ Cardinality(Active) < MaxSessions
  PROVE  SessionsCounted'
<1>1. call \in [Request -> Call] /\ row \in [Session -> SUBSET Id]
      /\ \A s \in Session : row[s] \subseteq IdOf(s)
  BY DEF SessionsCounted, MockTypeOK
<1>2. /\ call' \in [Request -> Call] /\ call'[r] = new
      /\ \A q \in Request \ {r} : call'[q] = call[q]
  BY <1>1 DEF Becomes
<1>3. \A q \in Request \ {r} : Alike(call'[q], call[q])
  BY <1>2 DEF Alike
<1> QED
  BY <1>1, <1>2, <1>3, StepKeeps

\* A request that ends without a trace.
LEMMA ReturnsKeeps ==
  ASSUME SessionsCounted, NEW r \in Request, Returns(r), row' = row
  PROVE  SessionsCounted'
BY IdleSound, BecomesKeeps DEF Returns

\* Allocating an id.
LEMMA AllocateKeeps ==
  ASSUME SessionsCounted, NEW r \in Request, NEW s \in Session, NEW put \in BOOLEAN,
         Allocate(r, s, put)
  PROVE  SessionsCounted'
<1> DEFINE n   == NextId(row[s])
           new == [Idle EXCEPT !.pc = "allocating", !.session = s, !.put = put, !.id = n,
                               !.todo = row[s]]
<1>0. n \in IdOf(s) /\ Becomes(r, new) /\ row' = row
  BY DEF Allocate
<1> HIDE DEF n
<1>1. n \in Id /\ row[s] \in SUBSET Id /\ s # NoSession
  BY <1>0, IdsOfSession, MockAssumption DEF SessionsCounted, MockTypeOK, MockAssumption
<1>2. /\ new \in Call /\ new.pc = "allocating" /\ new.session = s /\ new.put = put
      /\ new.id = n /\ new.seed = {} /\ new.locks = {}
  BY <1>1 DEF Idle, Call, Phases
<1> HIDE DEF new
<1>3. RequestSound(new) /\ Held(new) = {} /\ ~ Opening(new)
  BY <1>0, <1>1, <1>2 DEF RequestSound, Held, Opening
<1> QED
  BY <1>0, <1>2, <1>3, BecomesKeeps

\* Reading.
LEMMA ReadKeeps ==
  ASSUME SessionsCounted, NEW r \in Request, NEW s \in Session, NEW i \in IdOf(s),
         NEW put \in BOOLEAN, Read(r, s, i, put)
  PROVE  SessionsCounted'
<1> DEFINE n   == IF put THEN i ELSE 0
           new == [Idle EXCEPT !.pc = "reading", !.session = s, !.put = put, !.id = n,
                               !.todo = row[s]]
<1>0. Becomes(r, new) /\ row' = row
  BY DEF Read
<1>1. n \in Id \union {0} /\ (put => n \in IdOf(s)) /\ row[s] \in SUBSET Id /\ s # NoSession
  BY IdsOfSession, MockAssumption DEF SessionsCounted, MockTypeOK, MockAssumption
<1> HIDE DEF n
<1>2. /\ new \in Call /\ new.pc = "reading" /\ new.session = s /\ new.put = put
      /\ new.id = n /\ new.seed = {} /\ new.locks = {}
  BY <1>1 DEF Idle, Call, Phases
<1> HIDE DEF new
<1>3. RequestSound(new) /\ Held(new) = {} /\ ~ Opening(new)
  BY <1>1, <1>2 DEF RequestSound, Held, Opening
<1> QED
  BY <1>0, <1>2, <1>3, BecomesKeeps

\* Deleting: nobody else has the row.
LEMMA DeleteKeeps ==
  ASSUME SessionsCounted, NEW r \in Request, NEW s \in Session, NEW i \in IdOf(s),
         Delete(r, s, i)
  PROVE  SessionsCounted'
<1> DEFINE new == [Idle EXCEPT !.pc = "deleting", !.session = s, !.id = i,
                               !.locks = {i}, !.todo = row[s] \ {i}]
<1>0. Becomes(r, new) /\ row' = row
      /\ \A q \in Request \ {r} : call[q].session = s => i \notin Held(call[q])
  BY DEF Delete, LockedAway
<1>1. i \in Id /\ row[s] \in SUBSET Id /\ s # NoSession
  BY IdsOfSession, MockAssumption DEF SessionsCounted, MockTypeOK, MockAssumption
<1>2. /\ new \in Call /\ new.pc = "deleting" /\ new.session = s /\ new.put = FALSE
      /\ new.id = i /\ new.seed = {} /\ new.locks = {i}
  BY <1>1 DEF Idle, Call, Phases
<1> HIDE DEF new
<1>3. RequestSound(new) /\ Held(new) = {i} /\ ~ Opening(new)
  BY <1>1, <1>2 DEF RequestSound, Held, Opening
<1> QED
  BY <1>0, <1>2, <1>3, BecomesKeeps

\* A reset begins.
LEMMA ResetKeeps ==
  ASSUME SessionsCounted, NEW r \in Request, NEW s \in Session, NEW seed \in SUBSET IdOf(s),
         Reset(r, s, seed)
  PROVE  SessionsCounted'
<1> DEFINE new == [Idle EXCEPT !.pc = "resetting", !.session = s, !.seed = seed]
<1>0. /\ Becomes(r, new) /\ row' = row
      /\ seed # {} => (row[s] = {} => Cardinality(Active) < MaxSessions)
  BY DEF Reset, MayOpen
<1>1. seed \in SUBSET Id /\ s # NoSession
  BY IdsOfSession, MockAssumption DEF MockAssumption
<1>2. /\ new \in Call /\ new.pc = "resetting" /\ new.session = s /\ new.put = FALSE
      /\ new.seed = seed /\ new.locks = {}
  BY <1>1 DEF Idle, Call, Phases
<1> HIDE DEF new
<1>3. RequestSound(new) /\ Held(new) = {} /\ (Opening(new) => seed # {})
  BY <1>1, <1>2 DEF RequestSound, Held, Opening
<1> QED
  BY <1>0, <1>2, <1>3, BecomesKeeps

\* A row is locked, deleted or inserted: nobody else has it.
LEMMA LockKeeps ==
  ASSUME SessionsCounted, NEW r \in Request, NEW i \in Id, Lock(r, i)
  PROVE  SessionsCounted'
<1> DEFINE me  == call[r]
           L   == IF me.pc = "seeding" THEN me.locks ELSE me.locks \union {i}
           new == [me EXCEPT !.todo = @ \ {i}, !.locks = L]
<1>0. /\ row' = row /\ me \in Call /\ RequestSound(me)
      /\ \A q \in Request \ {r} : call[q].session = me.session => i \notin Held(call[q])
  BY HasSession DEF Lock, LockedAway
<1>1. Becomes(r, new)
  BY DEF Lock
<1>2. L \in SUBSET Id /\ (L = me.locks \/ L = me.locks \union {i})
  BY <1>0, CallFields
<1> HIDE DEF L
<1>3. /\ new \in Call /\ new.pc = me.pc /\ new.session = me.session /\ new.put = me.put
      /\ new.id = me.id /\ new.seed = me.seed /\ new.locks = L /\ new.todo = me.todo \ {i}
  BY <1>0, <1>2 DEF Call
<1> HIDE DEF new
<1>4. RequestSound(new) /\ Held(new) \subseteq Held(me) \union {i}
  BY <1>0, <1>2, <1>3 DEF RequestSound, Held
<1>5. \A q \in Request \ {r} : call[q].session = me.session =>
          Held(me) \intersect Held(call[q]) = {}
  BY DEF SessionsCounted, MockTypeOK, LocksExclusive
<1>6. Opening(new) => Opening(me)
  BY <1>3 DEF Opening
<1> QED
  BY <1>0, <1>1, <1>3, <1>4, <1>5, <1>6, BecomesKeeps

\* Judging a put: the caps are asked for while the request is of no session that is opened.
LEMMA JudgeKeeps ==
  ASSUME SessionsCounted, NEW r \in Request, Judge(r)
  PROVE  SessionsCounted'
<1> DEFINE me  == call[r]
           s   == me.session
           L   == {me.id} \intersect row[s]
           new == [me EXCEPT !.pc = "judged", !.locks = L]
<1>0. /\ row' = row /\ me \in Call /\ RequestSound(me) /\ me.pc = "ready" /\ s \in Session
      /\ me.id \in row[s] =>
            \A q \in Request \ {r} : call[q].session = s => me.id \notin Held(call[q])
  BY HasSession DEF Judge, LockedAway
<1>1. CASE Returns(r)
  BY <1>0, <1>1, ReturnsKeeps
<1>2. CASE /\ me.id \in row[s] \/ (row[s] = {} => Cardinality(Active) < MaxSessions)
           /\ Becomes(r, new)
  <2>1. L \in SUBSET Id
    BY <1>0 DEF SessionsCounted, MockTypeOK
  <2>2. \A q \in Request \ {r} : call[q].session = s => L \intersect Held(call[q]) = {}
    BY <1>0
  <2> HIDE DEF L
  <2>3. /\ new \in Call /\ new.pc = "judged" /\ new.session = s /\ new.put = me.put
        /\ new.id = me.id /\ new.seed = me.seed /\ new.locks = L
    BY <1>0, <2>1 DEF Call, Phases
  <2> HIDE DEF new
  <2>4. RequestSound(new) /\ Held(new) = L
    BY <1>0, <2>3 DEF RequestSound, Held
  <2> QED
    BY <1>0, <1>2, <2>2, <2>3, <2>4, BecomesKeeps
<1> QED
  BY <1>1, <1>2 DEF Judge, MayOpen

\* Inserting: nobody else has the row.
LEMMA InsertKeeps ==
  ASSUME SessionsCounted, NEW r \in Request, Insert(r)
  PROVE  SessionsCounted'
<1> DEFINE me  == call[r]
           s   == me.session
           new == [me EXCEPT !.pc = "putting", !.locks = @ \union {me.id},
                             !.todo = row[s] \ {me.id}]
<1>0. /\ row' = row /\ me \in Call /\ RequestSound(me) /\ me.pc = "judged" /\ s \in Session
      /\ Becomes(r, new)
      /\ \A q \in Request \ {r} : call[q].session = s => me.id \notin Held(call[q])
  BY HasSession DEF Insert, LockedAway
<1>1. me.id \in Id /\ row[s] \in SUBSET Id
  BY <1>0, IdsOfSession DEF RequestSound, SessionsCounted, MockTypeOK
<1>2. /\ new \in Call /\ new.pc = "putting" /\ new.session = s /\ new.put = me.put
      /\ new.id = me.id /\ new.seed = me.seed /\ new.locks = me.locks \union {me.id}
  BY <1>0, <1>1 DEF Call, Phases
<1> HIDE DEF new
<1>3. RequestSound(new) /\ Held(new) = me.locks \union {me.id}
  BY <1>0, <1>2 DEF RequestSound, Held
<1>4. \A q \in Request \ {r} : call[q].session = s => Held(me) \intersect Held(call[q]) = {}
  BY DEF SessionsCounted, MockTypeOK, LocksExclusive
<1>5. me.locks \subseteq Held(me) /\ Opening(me)
  BY <1>0 DEF Held, Opening
<1> QED
  BY <1>0, <1>2, <1>3, <1>4, <1>5, BecomesKeeps

\* A reset's DELETE sees its rows.
LEMMA ClearKeeps ==
  ASSUME SessionsCounted, NEW r \in Request, Clear(r)
  PROVE  SessionsCounted'
<1> DEFINE me  == call[r]
           new == [me EXCEPT !.pc = "clearing", !.todo = row[me.session]]
<1>0. /\ row' = row /\ me \in Call /\ RequestSound(me) /\ me.pc = "resetting"
      /\ me.session \in Session /\ Becomes(r, new)
  BY HasSession DEF Clear
<1>1. row[me.session] \in SUBSET Id
  BY <1>0 DEF SessionsCounted, MockTypeOK
<1>2. /\ new \in Call /\ new.pc = "clearing" /\ new.session = me.session /\ new.put = me.put
      /\ new.id = me.id /\ new.seed = me.seed /\ new.locks = me.locks
  BY <1>0, <1>1 DEF Call, Phases
<1> HIDE DEF new
<1>3. RequestSound(new) /\ Held(new) = Held(me) /\ (Opening(new) => Opening(me))
  BY <1>0, <1>2 DEF RequestSound, Held, Opening
<1>4. \A q \in Request \ {r} : call[q].session = me.session =>
          Held(me) \intersect Held(call[q]) = {}
  BY DEF SessionsCounted, MockTypeOK, LocksExclusive
<1> QED
  BY <1>0, <1>2, <1>3, <1>4, BecomesKeeps

\* A reset goes on to its seed: what it has inserted so far it had deleted.
LEMMA SeedKeeps ==
  ASSUME SessionsCounted, NEW r \in Request, Seed(r)
  PROVE  SessionsCounted'
<1> DEFINE me  == call[r]
           new == [me EXCEPT !.pc = "seeding", !.todo = me.seed \ me.locks]
<1>0. /\ row' = row /\ me \in Call /\ RequestSound(me) /\ me.pc = "clearing"
      /\ Becomes(r, new)
  BY HasSession DEF Seed
<1>1. /\ new \in Call /\ new.pc = "seeding" /\ new.session = me.session /\ new.put = me.put
      /\ new.id = me.id /\ new.seed = me.seed /\ new.locks = me.locks
      /\ new.todo = me.seed \ me.locks
  BY <1>0 DEF Call, Phases
<1> HIDE DEF new
<1>2. RequestSound(new) /\ Held(new) = Held(me) /\ (Opening(new) => Opening(me))
  BY <1>0, <1>1 DEF RequestSound, Held, Opening
<1>3. \A q \in Request \ {r} : call[q].session = me.session =>
          Held(me) \intersect Held(call[q]) = {}
  BY DEF SessionsCounted, MockTypeOK, LocksExclusive
<1> QED
  BY <1>0, <1>1, <1>2, <1>3, BecomesKeeps

-----------------------------------------------------------------------------
(* Steps that write the session's rows *)

\* Calls of which only r's changes, then those that forget rows.
LEMMA CommitEffect ==
  ASSUME SessionsCounted, NEW r \in Request, NEW new \in Call, NEW s, NEW gone,
         call' = Forgetting([call EXCEPT ![r] = new], s, gone)
  PROVE  /\ call' \in [Request -> Call] /\ Alike(call'[r], new)
         /\ \A q \in Request \ {r} : Forgets(call'[q], call[q], s, gone)
<1> DEFINE c == [call EXCEPT ![r] = new]
<1>1. c \in [Request -> Call] /\ c[r] = new /\ \A q \in Request \ {r} : c[q] = call[q]
  BY DEF SessionsCounted, MockTypeOK
<1>2. call' = Forgetting(c, s, gone)
  OBVIOUS
<1> HIDE DEF c
<1>3. /\ Forgetting(c, s, gone) \in [Request -> Call]
      /\ \A q \in Request : Forgets(Forgetting(c, s, gone)[q], c[q], s, gone)
  BY <1>1, ForgettingEffect
<1>4. /\ call' \in [Request -> Call]
      /\ \A q \in Request : Forgets(call'[q], c[q], s, gone)
  BY <1>2, <1>3
<1> QED
  BY <1>1, <1>4 DEF Forgets

\* A read, an allocation or a delete commits.
LEMMA CommitKeeps ==
  ASSUME SessionsCounted, NEW r \in Request, Commit(r)
  PROVE  SessionsCounted'
<1> DEFINE me   == call[r]
           gone == IF me.pc = "deleting" THEN {me.id} ELSE {}
           next == IF me.put THEN [Idle EXCEPT !.pc = "ready", !.session = me.session,
                                               !.put = TRUE, !.id = me.id]
                             ELSE Idle
<1>0. /\ me \in Call /\ RequestSound(me) /\ me.session \in Session
      /\ call' = Forgetting([call EXCEPT ![r] = next], me.session, gone)
      /\ row' = [row EXCEPT ![me.session] = @ \ gone]
  BY HasSession DEF Commit
<1>1. next \in Call /\ RequestSound(next) /\ ~ Opening(next) /\ Held(next) = {}
  <2>1. CASE me.put
    <3> DEFINE d == [Idle EXCEPT !.pc = "ready", !.session = me.session, !.put = TRUE,
                                 !.id = me.id]
    <3>1. /\ d \in Call /\ d.pc = "ready" /\ d.session = me.session /\ d.put /\ d.id = me.id
          /\ d.seed = {} /\ d.locks = {}
      BY <1>0, CallFields DEF Idle, Call, Phases
    <3>2. next = d
      BY <2>1
    <3> HIDE DEF d, next
    <3>3. me.session # NoSession /\ me.id \in IdOf(me.session)
      BY <1>0, <2>1, MockAssumption DEF MockAssumption, RequestSound
    <3>4. RequestSound(d) /\ ~ Opening(d) /\ Held(d) = {}
      BY <1>0, <3>1, <3>3 DEF RequestSound, Opening, Held
    <3> QED
      BY <3>1, <3>2, <3>4
  <2>2. CASE ~ me.put
    BY <2>2, IdleSound
  <2> QED
    BY <2>1, <2>2
<1> HIDE DEF next, gone
<1>2. /\ call' \in [Request -> Call] /\ Alike(call'[r], next)
      /\ \A q \in Request \ {r} : Alike(call'[q], call[q])
  BY <1>0, <1>1, CommitEffect DEF Forgets
<1>3. RequestSound(call'[r]) /\ ~ Opening(call'[r]) /\ Held(call'[r]) = {}
  BY <1>1, <1>2, AlikeSound DEF Alike
<1>4. /\ row' \in [Session -> SUBSET Id]
      /\ \A s \in Session : row'[s] \subseteq row[s] /\ row'[s] \subseteq IdOf(s)
  BY <1>0 DEF SessionsCounted, MockTypeOK
<1>5. \A s \in Session : row'[s] # {} => row[s] # {}
  BY <1>4
<1> QED
  BY <1>2, <1>3, <1>4, <1>5, StepKeeps

\* A put commits: its session was counted.
LEMMA CommitPutKeeps ==
  ASSUME SessionsCounted, NEW r \in Request, CommitPut(r)
  PROVE  SessionsCounted'
<1> DEFINE me == call[r]
<1>0. /\ me \in Call /\ RequestSound(me) /\ me.session \in Session /\ me.pc = "putting"
      /\ Becomes(r, Idle) /\ row' = [row EXCEPT ![me.session] = @ \union {me.id}]
      /\ row \in [Session -> SUBSET Id] /\ \A s \in Session : row[s] \subseteq IdOf(s)
      /\ call \in [Request -> Call]
  BY HasSession DEF CommitPut, Returns, SessionsCounted, MockTypeOK
<1>1. Opening(me) /\ me.id \in IdOf(me.session) /\ me.id \in Id
  BY <1>0, IdsOfSession DEF Opening, RequestSound
<1>2. /\ call' \in [Request -> Call] /\ call'[r] = Idle
      /\ \A q \in Request \ {r} : Alike(call'[q], call[q])
  BY <1>0, IdleSound DEF Becomes, Alike
<1>3. /\ row' \in [Session -> SUBSET Id] /\ \A s \in Session : row'[s] \subseteq IdOf(s)
      /\ \A s \in Session : row'[s] # {} => row[s] # {} \/ s = me.session
  BY <1>0, <1>1
<1> QED
  BY <1>1, <1>2, <1>3, IdleSound, StepKeeps

\* A reset commits: its session was counted, unless its seed is empty.
LEMMA CommitResetKeeps ==
  ASSUME SessionsCounted, NEW r \in Request, CommitReset(r)
  PROVE  SessionsCounted'
<1> DEFINE me  == call[r]
           new == (row[me.session] \ me.locks) \union me.seed
<1>0. /\ me \in Call /\ RequestSound(me) /\ me.session \in Session /\ me.pc = "seeding"
      /\ call' = Forgetting([call EXCEPT ![r] = Idle], me.session, me.locks)
      /\ row' = [row EXCEPT ![me.session] = new]
      /\ row \in [Session -> SUBSET Id] /\ \A s \in Session : row[s] \subseteq IdOf(s)
  BY HasSession DEF CommitReset, AfterReset, SessionsCounted, MockTypeOK
<1>1. /\ new \in SUBSET Id /\ new \subseteq IdOf(me.session)
      /\ new # {} => row[me.session] # {} \/ Opening(me)
  BY <1>0, IdsOfSession DEF RequestSound, Opening
<1> HIDE DEF new
<1>2. /\ call' \in [Request -> Call] /\ Alike(call'[r], Idle)
      /\ \A q \in Request \ {r} : Alike(call'[q], call[q])
  BY <1>0, IdleSound, CommitEffect DEF Forgets
<1>3. RequestSound(call'[r]) /\ ~ Opening(call'[r]) /\ Held(call'[r]) = {}
  BY <1>2, IdleSound, AlikeSound DEF Alike
<1>4. /\ row' \in [Session -> SUBSET Id] /\ \A s \in Session : row'[s] \subseteq IdOf(s)
      /\ \A s \in Session : row'[s] # {} => row[s] # {} \/ (s = me.session /\ Opening(me))
  BY <1>0, <1>1
<1> QED
  BY <1>2, <1>3, <1>4, StepKeeps

\* A session expires.
LEMMA ExpireKeeps ==
  ASSUME SessionsCounted, NEW s \in Session, Expire(s)
  PROVE  SessionsCounted'
<1>1. PICK kept \in SUBSET row[s] :
        row' = [row EXCEPT ![s] = kept] /\ call' = Forgetting(call, s, row[s] \ kept)
  <2> DEFINE K == {i \in row[s] : \E r \in Request : call[r].session = s /\ i \in Held(call[r])}
  <2>1. /\ K \in SUBSET row[s]
        /\ row' = [row EXCEPT ![s] = K] /\ call' = Forgetting(call, s, row[s] \ K)
    BY DEF Expire
  <2> HIDE DEF K
  <2> QED
    BY <2>1
<1>2. /\ call' \in [Request -> Call] /\ \A q \in Request : Alike(call'[q], call[q])
  BY <1>1, ForgettingEffect DEF SessionsCounted, MockTypeOK, Forgets
<1>3. /\ row' \in [Session -> SUBSET Id]
      /\ \A t \in Session : row'[t] \subseteq row[t] /\ row'[t] \subseteq IdOf(t)
  BY <1>1 DEF SessionsCounted, MockTypeOK
<1>4. \A q \in Request : RequestSound(call'[q]) /\ (Opening(call'[q]) <=> Opening(call[q]))
                         /\ call'[q].session = call[q].session
                         /\ Held(call'[q]) = Held(call[q])
  BY <1>2, AlikeSound DEF SessionsCounted, Alike
<1>5. LocksExclusive'
  BY <1>4 DEF LocksExclusive, SessionsCounted, MockTypeOK
<1>6. MockTypeOK'
  BY <1>2, <1>3, <1>4, <1>5 DEF MockTypeOK, RequestSound
<1>7. Opened' \subseteq Opened
  <2>1. Active' \subseteq Active
    BY <1>3 DEF Active
  <2>2. \A q \in Request : Opening(call'[q]) => call'[q].session \in Opened
    BY <1>4 DEF Opened
  <2> QED
    BY <2>1, <2>2 DEF Opened
<1>8. IsFiniteSet(Opened') /\ Cardinality(Opened') + 1 <= MaxSessions + Cardinality(Request)
  BY <1>7, OpenedShrinks
<1> QED
  BY <1>4, <1>6, <1>8 DEF SessionsCounted

-----------------------------------------------------------------------------
(* Sessions are counted *)

\* A store nobody has used is sound.
LEMMA SessionsCountedInit ==
  ASSUME MockInit PROVE SessionsCounted
<1>1. /\ row = [s \in Session |-> {}] /\ call = [r \in Request |-> Idle]
      /\ \A r \in Request : call[r] = Idle
  BY DEF MockInit
<1>2. MockTypeOK
  BY <1>1, IdleSound DEF MockTypeOK, LocksExclusive, RequestSound
<1>3. Opened = {}
  BY <1>1, IdleSound DEF Opened, Active
<1>4. MaxSessions \in Nat \ {0} /\ Cardinality(Request) \in Nat
  BY MockAssumption, FS_CardinalityType DEF MockAssumption
<1>5. IsFiniteSet(Opened) /\ Cardinality(Opened) = 0
  BY <1>3, FS_EmptySet
<1> QED
  BY <1>1, <1>2, <1>4, <1>5, IdleSound DEF SessionsCounted

\* Nothing changes in a stuttering step.
LEMMA StutterKeeps ==
  ASSUME SessionsCounted, UNCHANGED mockVars PROVE SessionsCounted'
<1>1. row' = row /\ call' = call
  BY DEF mockVars
<1>2. MockTypeOK' /\ Opened' = Opened
  BY <1>1 DEF SessionsCounted, MockTypeOK, LocksExclusive, Opened, Active
<1> QED
  BY <1>1, <1>2 DEF SessionsCounted

\* Every step keeps the invariant.
LEMMA SessionsCountedStep ==
  ASSUME SessionsCounted, [MockNext]_mockVars PROVE SessionsCounted'
<1>1. ASSUME NEW r \in Request, NEW s \in Session,
             \/ \E put \in BOOLEAN : Allocate(r, s, put)
             \/ \E put \in BOOLEAN, i \in IdOf(s) : Read(r, s, i, put)
             \/ \E i \in IdOf(s) : Delete(r, s, i)
             \/ \E seed \in SUBSET IdOf(s) : Reset(r, s, seed)
      PROVE  SessionsCounted'
  BY <1>1, AllocateKeeps, ReadKeeps, DeleteKeeps, ResetKeeps
<1>2. ASSUME NEW r \in Request, Continue(r)
      PROVE  SessionsCounted'
  BY <1>2, LockKeeps, CommitKeeps, JudgeKeeps, InsertKeeps, CommitPutKeeps, ClearKeeps,
     SeedKeeps, CommitResetKeeps DEF Continue
<1>3. ASSUME NEW r \in Request, Abort(r) \/ Drop(r)
      PROVE  SessionsCounted'
  BY <1>3, ReturnsKeeps DEF Abort, Drop
<1>4. ASSUME NEW s \in Session, Expire(s)
      PROVE  SessionsCounted'
  BY <1>4, ExpireKeeps
<1> QED
  BY <1>1, <1>2, <1>3, <1>4, StutterKeeps DEF MockNext

-----------------------------------------------------------------------------
(* Counting resources *)

\* What a product is at most, and one factor more.
LEMMA Products ==
  ASSUME NEW m \in Nat, NEW c \in Nat, NEW n \in Nat, NEW k \in Nat, m >= 1, c + k <= n
  PROVE  m * c + k <= m * n /\ m * (c + 1) = m * c + m /\ m * c \in Nat /\ m * n \in Nat
<1>1. PICK d \in Nat : n = c + k + d
  <2>1. n - (c + k) \in Nat /\ n = c + k + (n - (c + k))
    OBVIOUS
  <2> QED
    BY <2>1
<1>2. m * n = m * c + m * k + m * d /\ m * k \in Nat /\ m * d \in Nat /\ m * c \in Nat
  BY <1>1
<1>3. PICK e \in Nat : m = 1 + e
  <2>1. m - 1 \in Nat /\ m = 1 + (m - 1)
    OBVIOUS
  <2> QED
    BY <2>1
<1>4. m * k = k + e * k /\ e * k \in Nat
  BY <1>3
<1>5. m * (c + 1) = m * c + m
  OBVIOUS
<1> QED
  BY <1>2, <1>4, <1>5

\* One element more.
LEMMA OneMore ==
  ASSUME NEW S, IsFiniteSet(S), NEW x, NEW T, T \subseteq S \union {x}
  PROVE  IsFiniteSet(T) /\ Cardinality(T) <= Cardinality(S) + 1
<1>0. /\ IsFiniteSet(S \union {x})
      /\ Cardinality(S \union {x}) = IF x \in S THEN Cardinality(S) ELSE Cardinality(S) + 1
  BY FS_AddElement
<1>1. /\ IsFiniteSet(S \union {x}) /\ Cardinality(S) \in Nat
      /\ Cardinality(S \union {x}) <= Cardinality(S) + 1
  BY <1>0, FS_CardinalityType
<1>2. T \in SUBSET (S \union {x})
  OBVIOUS
<1>3. IsFiniteSet(T) /\ Cardinality(T) <= Cardinality(S \union {x})
  BY <1>1, <1>2, FS_Subset
<1>4. Cardinality(T) \in Nat /\ Cardinality(S \union {x}) \in Nat
  BY <1>1, <1>3, FS_CardinalityType
<1> QED
  BY <1>1, <1>3, <1>4

\* Two disjoint sets of requests.
LEMMA Disjoint ==
  ASSUME NEW A \in SUBSET Request, NEW B \in SUBSET Request, A \intersect B = {}
  PROVE  Cardinality(A) + Cardinality(B) <= Cardinality(Request)
<1>1. /\ IsFiniteSet(A) /\ IsFiniteSet(B) /\ IsFiniteSet(Request)
      /\ Cardinality(A) \in Nat /\ Cardinality(B) \in Nat
  BY MockAssumption, FS_Subset, FS_CardinalityType DEF MockAssumption
<1>2. Cardinality(A \union B) = Cardinality(A) + Cardinality(B) - 0
  BY <1>1, FS_Union, FS_EmptySet
<1>3. A \union B \in SUBSET Request
  OBVIOUS
<1>4. Cardinality(A \union B) <= Cardinality(Request)
  BY <1>1, <1>3, FS_Subset
<1> QED
  BY <1>1, <1>2, <1>4

\* The rows of a session and the requests that change them are finitely many.
LEMMA Counts ==
  ASSUME MockTypeOK, NEW s \in Session, NEW C \in SUBSET Request
  PROVE  /\ IsFiniteSet(row[s]) /\ Cardinality(row[s]) \in Nat
         /\ IsFiniteSet(Spared(s, C)) /\ Cardinality(Spared(s, C)) \in Nat
         /\ IsFiniteSet(C) /\ Cardinality(C) \in Nat
         /\ IsFiniteSet(Adding(s)) /\ Cardinality(Adding(s)) \in Nat
         /\ Cardinality(Request) \in Nat /\ MaxResources \in Nat /\ MaxResources >= 1
<1>1. IsFiniteSet(IdOf(s))
  BY MockAssumption, FS_Interval DEF MockAssumption, IdOf
<1>2. row[s] \in SUBSET IdOf(s) /\ Spared(s, C) \in SUBSET row[s]
  BY DEF MockTypeOK, Spared
<1>3. IsFiniteSet(Request) /\ Adding(s) \in SUBSET Request /\ MaxResources \in Nat \ {0}
  BY MockAssumption DEF MockAssumption, Adding
<1>4. IsFiniteSet(row[s]) /\ IsFiniteSet(C) /\ IsFiniteSet(Adding(s))
  BY <1>1, <1>2, <1>3, FS_Subset
<1>5. IsFiniteSet(Spared(s, C))
  BY <1>2, <1>4, FS_Subset
<1> QED
  BY <1>3, <1>4, <1>5, FS_CardinalityType

\* ... before a step and after it.
LEMMA CountsAfter ==
  ASSUME MockTypeOK', NEW s \in Session, NEW C \in SUBSET Request
  PROVE  /\ IsFiniteSet(row'[s]) /\ Cardinality(row'[s]) \in Nat
         /\ IsFiniteSet(Spared(s, C)') /\ Cardinality(Spared(s, C)') \in Nat
         /\ IsFiniteSet(Adding(s)') /\ Cardinality(Adding(s)') \in Nat
<1>1. IsFiniteSet(IdOf(s))
  BY MockAssumption, FS_Interval DEF MockAssumption, IdOf
<1>2. row'[s] \in SUBSET IdOf(s) /\ Spared(s, C)' \in SUBSET row'[s]
  BY DEF MockTypeOK, Spared
<1>3. IsFiniteSet(Request) /\ Adding(s)' \in SUBSET Request
  BY MockAssumption DEF MockAssumption, Adding
<1>4. IsFiniteSet(row'[s]) /\ IsFiniteSet(Adding(s)')
  BY <1>1, <1>2, <1>3, FS_Subset
<1>5. IsFiniteSet(Spared(s, C)')
  BY <1>2, <1>4, FS_Subset
<1> QED
  BY <1>4, <1>5, FS_CardinalityType

\* Nobody both adds a row and resets the session, so no more than the requests do either.
LEMMA EachCountsOnce ==
  ASSUME MockTypeOK, NEW s \in Session, NEW C \in SUBSET Resetting(s)
  PROVE  /\ C \in SUBSET Request /\ C \intersect Adding(s) = {}
         /\ Cardinality(C) + Cardinality(Adding(s)) <= Cardinality(Request)
<1>1. C \in SUBSET Request /\ Adding(s) \in SUBSET Request /\ C \intersect Adding(s) = {}
  BY DEF Resetting, Adding
<1> QED
  BY <1>1, Disjoint

\* There is room for the resets C after a step that spares no more rows, and lets no more be
\* added.
LEMMA RoomShrinks ==
  ASSUME MockTypeOK, MockTypeOK', NEW s \in Session, NEW C \in SUBSET Request,
         RoomFor(s, C), Adding(s)' \subseteq Adding(s), Spared(s, C)' \subseteq Spared(s, C)
  PROVE  RoomFor(s, C)'
<1>1. /\ IsFiniteSet(Spared(s, C)) /\ Cardinality(Spared(s, C)) \in Nat
      /\ IsFiniteSet(Adding(s)) /\ Cardinality(Adding(s)) \in Nat
      /\ Cardinality(C) \in Nat /\ Cardinality(Request) \in Nat /\ MaxResources \in Nat
  BY Counts
<1>2. /\ Cardinality(Spared(s, C)') \in Nat /\ Cardinality(Adding(s)') \in Nat
  BY CountsAfter
<1>3. /\ Cardinality(Spared(s, C)') <= Cardinality(Spared(s, C))
      /\ Cardinality(Adding(s)') <= Cardinality(Adding(s))
  BY <1>1, FS_Subset
<1>4. /\ MaxResources * Cardinality(C) \in Nat /\ MaxResources * Cardinality(Request) \in Nat
  BY <1>1
<1> QED
  BY <1>1, <1>2, <1>3, <1>4 DEF RoomFor

\* The requests other than D do nothing, but that rows they saw may be gone.  Rows they have
\* written or locked stay there.
Apart(D) ==
    /\ \A q \in Request \ D :
         /\ Alike(call'[q], call[q])
         /\ \A i \in call[q].locks : i \in row[call[q].session] => i \in row'[call[q].session]

\* ... so each of them is to add what it was, and resets what it did.
LEMMA OthersStay ==
  ASSUME MockInvariant, NEW D \in SUBSET Request, Apart(D), NEW q \in Request \ D
  PROVE  /\ RowsSound(q)'
         /\ \A s \in Session : /\ q \in Adding(s)' => q \in Adding(s)
                               /\ q \in Resetting(s)' <=> q \in Resetting(s)
<1>1. RowsSound(q) /\ Alike(call'[q], call[q])
      /\ \A i \in call[q].locks : i \in row[call[q].session] => i \in row'[call[q].session]
  BY DEF MockInvariant, ResourcesCounted, Apart
<1>2. RowsSound(q)'
  BY <1>1 DEF RowsSound, Alike
<1>3. ASSUME NEW s \in Session, q \in Adding(s)'
      PROVE  q \in Adding(s)
  BY <1>1, <1>3 DEF Adding, Alike, RowsSound
<1>4. \A s \in Session : q \in Resetting(s)' <=> q \in Resetting(s)
  BY <1>1 DEF Resetting, Alike
<1> QED
  BY <1>2, <1>3, <1>4

\* The request r adds nothing to s that it did not, nor saves from its reset what was doomed.
Harmless(r, s) ==
    /\ r \in Adding(s)' => r \in Adding(s)
    /\ r \in Resetting(s)' =>
          /\ r \in Resetting(s)
          /\ \A i \in row'[s] : i \in Doomed(call[r]) => i \in Doomed(call'[r])

\* A session of which no rows are new and none is saved from a reset keeps its room.
LEMMA SessionKeepsRoom ==
  ASSUME MockInvariant, SessionsCounted', NEW D \in SUBSET Request, Apart(D), NEW s \in Session,
         row'[s] \subseteq row[s],
         \A q \in Request \ D : call[q].session = s =>
            \A i \in row'[s] : i \in call[q].todo => i \in call'[q].todo,
         \A r \in D : Harmless(r, s),
         NEW C \in SUBSET Resetting(s)'
  PROVE  RoomFor(s, C)'
<1>1. MockTypeOK /\ MockTypeOK'
  BY DEF MockInvariant, SessionsCounted
<1>2. Adding(s)' \subseteq Adding(s)
  <2> SUFFICES ASSUME NEW q, q \in Adding(s)' PROVE q \in Adding(s)
    OBVIOUS
  <2>1. q \in Request
    BY DEF Adding
  <2>2. q \in D => Harmless(q, s)
    OBVIOUS
  <2>3. CASE q \in D
    BY <2>2, <2>3 DEF Harmless
  <2>4. CASE q \in Request \ D
    BY <2>4, OthersStay
  <2> QED
    BY <2>1, <2>3, <2>4
<1>3. C \subseteq Resetting(s)
  <2> SUFFICES ASSUME NEW q \in C PROVE q \in Resetting(s)
    OBVIOUS
  <2>1. q \in Request /\ q \in Resetting(s)'
    BY DEF Resetting
  <2>2. q \in D => Harmless(q, s)
    OBVIOUS
  <2>3. CASE q \in D
    BY <2>1, <2>2, <2>3 DEF Harmless
  <2>4. CASE q \in Request \ D
    BY <2>1, <2>4, OthersStay
  <2> QED
    BY <2>1, <2>3, <2>4
<1>4. Spared(s, C)' \subseteq Spared(s, C)
  <2> SUFFICES ASSUME NEW i \in Spared(s, C)', NEW q \in C
               PROVE  i \in row[s] /\ i \notin Doomed(call[q])
    BY DEF Spared
  <2>1. i \in row'[s] /\ i \in row[s] /\ i \notin Doomed(call'[q])
    BY DEF Spared
  <2>2. CASE q \in D
    <3>1. Harmless(q, s) /\ q \in Resetting(s)'
      BY <2>2
    <3> QED
      BY <2>1, <3>1 DEF Harmless
  <2>3. CASE q \notin D
    <3>1. q \in Request \ D /\ Alike(call'[q], call[q]) /\ call[q].session = s
      BY <1>3, <2>3 DEF Resetting, Apart
    <3>2. i \in call[q].todo => i \in call'[q].todo
      BY <2>1, <3>1
    <3> QED
      BY <2>1, <3>1, <3>2 DEF Doomed, Alike
  <2> QED
    BY <2>2, <2>3
<1>5. RoomFor(s, C) /\ C \in SUBSET Request
  BY <1>3 DEF MockInvariant, ResourcesCounted, Resetting
<1> QED
  BY <1>1, <1>2, <1>4, <1>5, RoomShrinks

\* ... and so does every session, if all are like that.
LEMMA StepKeepsRoom ==
  ASSUME MockInvariant, SessionsCounted', NEW D \in SUBSET Request, Apart(D),
         \A r \in D : RowsSound(r)',
         \A s \in Session :
            /\ row'[s] \subseteq row[s]
            /\ \A q \in Request \ D : call[q].session = s =>
                  \A i \in row'[s] : i \in call[q].todo => i \in call'[q].todo
            /\ \A r \in D : Harmless(r, s)
  PROVE  ResourcesCounted'
<1>1. \A q \in Request : RowsSound(q)'
  BY OthersStay
<1>2. \A s \in Session : \A C \in SUBSET Resetting(s)' : RoomFor(s, C)'
  BY SessionKeepsRoom
<1> QED
  BY <1>1, <1>2 DEF ResourcesCounted

\* A step that writes no rows, allows no put of a new row and saves none from a reset.
LEMMA BecomesKeepsRoom ==
  ASSUME MockInvariant, SessionsCounted', NEW r \in Request, NEW new, Becomes(r, new),
         row' = row,
         Cardinality(new.seed) <= MaxResources,
         new.pc \in {"deleting", "putting"} => new.id \in new.locks,
         new.pc = "judged" => new.locks = {new.id} /\ new.id \in row[new.session],
         new.pc = "putting" /\ new.id \notin row[new.session] => r \in Adding(new.session),
         new.pc \in {"clearing", "seeding"} =>
            r \in Resetting(new.session) /\ Doomed(call[r]) \subseteq Doomed(new)
  PROVE  ResourcesCounted'
<1>1. call'[r] = new /\ \A q \in Request \ {r} : call'[q] = call[q]
  BY DEF Becomes, MockInvariant, SessionsCounted, MockTypeOK
<1>2. Apart({r})
  BY <1>1 DEF Apart, Alike
<1>3. RowsSound(r)'
  BY <1>1 DEF RowsSound
<1>4. ASSUME NEW s \in Session
      PROVE  Harmless(r, s)
  <2>1. ASSUME r \in Adding(s)' PROVE r \in Adding(s)
    <3>1. /\ new.session = s
          /\ \/ new.pc = "judged" /\ new.locks = {}
             \/ new.pc = "putting" /\ new.id \notin row[s]
      BY <1>1, <2>1 DEF Adding
    <3> QED
      BY <3>1
  <2>2. ASSUME r \in Resetting(s)'
        PROVE  r \in Resetting(s) /\ Doomed(call[r]) \subseteq Doomed(call'[r])
    BY <1>1, <2>2 DEF Resetting
  <2> QED
    BY <2>1, <2>2 DEF Harmless
<1> QED
  BY <1>1, <1>2, <1>3, <1>4, StepKeepsRoom

\* A request that is not under way takes no room.
LEMMA ReturnsKeepsRoom ==
  ASSUME MockInvariant, SessionsCounted', NEW r \in Request, Returns(r), row' = row
  PROVE  ResourcesCounted'
<1>1. Idle.pc = "idle" /\ Idle.seed = {}
  BY DEF Idle
<1>2. Cardinality({}) = 0 /\ MaxResources \in Nat
  BY FS_EmptySet, MockAssumption
<1> QED
  BY <1>1, <1>2, BecomesKeepsRoom DEF Returns

\* Nor does one that begins: a reset's seed is within the cap.
LEMMA BeginKeepsRoom ==
  ASSUME MockInvariant, SessionsCounted', NEW r \in Request, NEW s \in Session,
         \/ \E put \in BOOLEAN : Allocate(r, s, put)
         \/ \E put \in BOOLEAN, i \in IdOf(s) : Read(r, s, i, put)
         \/ \E i \in IdOf(s) : Delete(r, s, i)
         \/ \E seed \in SUBSET IdOf(s) : Reset(r, s, seed)
  PROVE  ResourcesCounted'
<1>0. /\ Idle.seed = {} /\ MaxResources \in Nat
      /\ Cardinality({}) = 0 /\ Cardinality({}) <= MaxResources
  BY FS_EmptySet, MockAssumption DEF Idle
<1>1. ASSUME NEW put \in BOOLEAN, Allocate(r, s, put)
      PROVE  ResourcesCounted'
  <2> DEFINE new == [Idle EXCEPT !.pc = "allocating", !.session = s, !.put = put,
                                 !.id = NextId(row[s]), !.todo = row[s]]
  <2>1. Becomes(r, new) /\ row' = row
    BY <1>1 DEF Allocate
  <2>2. new.pc = "allocating" /\ new.seed = {}
    BY DEF Idle
  <2> HIDE DEF new
  <2> QED
    BY <1>0, <2>1, <2>2, BecomesKeepsRoom
<1>2. ASSUME NEW put \in BOOLEAN, NEW i \in IdOf(s), Read(r, s, i, put)
      PROVE  ResourcesCounted'
  <2> DEFINE new == [Idle EXCEPT !.pc = "reading", !.session = s, !.put = put,
                                 !.id = IF put THEN i ELSE 0, !.todo = row[s]]
  <2>1. Becomes(r, new) /\ row' = row
    BY <1>2 DEF Read
  <2>2. new.pc = "reading" /\ new.seed = {}
    BY DEF Idle
  <2> HIDE DEF new
  <2> QED
    BY <1>0, <2>1, <2>2, BecomesKeepsRoom
<1>3. ASSUME NEW i \in IdOf(s), Delete(r, s, i)
      PROVE  ResourcesCounted'
  <2> DEFINE new == [Idle EXCEPT !.pc = "deleting", !.session = s, !.id = i,
                                 !.locks = {i}, !.todo = row[s] \ {i}]
  <2>1. Becomes(r, new) /\ row' = row
    BY <1>3 DEF Delete
  <2>2. new.pc = "deleting" /\ new.seed = {} /\ new.id \in new.locks
    BY DEF Idle
  <2> HIDE DEF new
  <2> QED
    BY <1>0, <2>1, <2>2, BecomesKeepsRoom
<1>4. ASSUME NEW seed \in SUBSET IdOf(s), Reset(r, s, seed)
      PROVE  ResourcesCounted'
  <2> DEFINE new == [Idle EXCEPT !.pc = "resetting", !.session = s, !.seed = seed]
  <2>1. Becomes(r, new) /\ row' = row /\ Cardinality(seed) <= MaxResources
    BY <1>4 DEF Reset
  <2>2. new.pc = "resetting" /\ new.seed = seed
    BY DEF Idle
  <2> HIDE DEF new
  <2> QED
    BY <2>1, <2>2, BecomesKeepsRoom
<1> QED
  BY <1>1, <1>2, <1>3, <1>4

\* What is known of a request whose turn it is.
LEMMA OnItsTurn ==
  ASSUME MockInvariant, NEW r \in Request, call[r].pc # "idle"
  PROVE  /\ call[r] \in Call /\ call[r].session \in Session /\ RequestSound(call[r])
         /\ RowsSound(r) /\ Cardinality(call[r].seed) <= MaxResources
         /\ MockTypeOK /\ row[call[r].session] \subseteq IdOf(call[r].session)
<1>1. SessionsCounted /\ RowsSound(r) /\ MockTypeOK
  BY DEF MockInvariant, ResourcesCounted, SessionsCounted
<1>2. call[r] \in Call /\ RequestSound(call[r]) /\ call[r].session \in Session
  BY <1>1, HasSession
<1> QED
  BY <1>1, <1>2 DEF RowsSound, MockTypeOK

\* A row that is locked, or deleted on the way, is as doomed as before.
LEMMA LockKeepsRoom ==
  ASSUME MockInvariant, SessionsCounted', NEW r \in Request, NEW i \in Id, Lock(r, i)
  PROVE  ResourcesCounted'
<1> DEFINE me  == call[r]
           L   == IF me.pc = "seeding" THEN me.locks ELSE me.locks \union {i}
           new == [me EXCEPT !.todo = @ \ {i}, !.locks = L]
<1>1. /\ Becomes(r, new) /\ row' = row
      /\ me.pc \in {"allocating", "reading", "deleting", "putting", "clearing", "seeding"}
  BY DEF Lock
<1>2. /\ me \in Call /\ me.session \in Session /\ RowsSound(r)
      /\ Cardinality(me.seed) <= MaxResources
  BY <1>1, OnItsTurn
<1>3. me.locks \subseteq L /\ (me.pc # "seeding" => i \in L)
  OBVIOUS
<1> HIDE DEF L
<1>4. /\ new.pc = me.pc /\ new.session = me.session /\ new.id = me.id /\ new.seed = me.seed
      /\ new.locks = L /\ new.todo = me.todo \ {i}
  BY <1>2 DEF Call
<1> HIDE DEF new
<1>5. me.pc \in {"deleting", "putting"} => me.id \in me.locks
  BY <1>2 DEF RowsSound
<1>6. me.pc = "putting" /\ me.id \notin row[me.session] => r \in Adding(me.session)
  BY DEF Adding
<1>7. me.pc \in {"clearing", "seeding"} => r \in Resetting(me.session)
  BY DEF Resetting
<1>8. Doomed(me) \subseteq Doomed(new)
  BY <1>3, <1>4 DEF Doomed
<1> QED
  BY <1>1, <1>2, <1>3, <1>4, <1>5, <1>6, <1>7, <1>8, BecomesKeepsRoom

\* A put that has its row adds it if it is new.
LEMMA InsertKeepsRoom ==
  ASSUME MockInvariant, SessionsCounted', NEW r \in Request, Insert(r)
  PROVE  ResourcesCounted'
<1> DEFINE me  == call[r]
           s   == me.session
           new == [me EXCEPT !.pc = "putting", !.locks = @ \union {me.id},
                             !.todo = row[s] \ {me.id}]
<1>1. Becomes(r, new) /\ row' = row /\ me.pc = "judged"
  BY DEF Insert
<1>2. /\ me \in Call /\ s \in Session /\ RowsSound(r)
      /\ Cardinality(me.seed) <= MaxResources
  BY <1>1, OnItsTurn
<1>3. /\ new.pc = "putting" /\ new.session = s /\ new.id = me.id /\ new.seed = me.seed
      /\ new.locks = me.locks \union {me.id}
  BY <1>2 DEF Call
<1> HIDE DEF new
<1>4. me.id \notin row[s] => r \in Adding(s)
  BY <1>1, <1>2 DEF RowsSound, Adding
<1> QED
  BY <1>1, <1>2, <1>3, <1>4, BecomesKeepsRoom

\* A reset that goes on to its seed has deleted what it saw.
LEMMA SeedKeepsRoom ==
  ASSUME MockInvariant, SessionsCounted', NEW r \in Request, Seed(r)
  PROVE  ResourcesCounted'
<1> DEFINE me  == call[r]
           new == [me EXCEPT !.pc = "seeding", !.todo = me.seed \ me.locks]
<1>1. Becomes(r, new) /\ row' = row /\ me.pc = "clearing" /\ me.todo = {}
  BY DEF Seed
<1>2. me \in Call /\ me.session \in Session /\ Cardinality(me.seed) <= MaxResources
  BY <1>1, OnItsTurn
<1>3. /\ new.pc = "seeding" /\ new.session = me.session /\ new.seed = me.seed
      /\ new.locks = me.locks
  BY <1>2 DEF Call
<1> HIDE DEF new
<1>4. r \in Resetting(me.session) /\ Doomed(me) \subseteq Doomed(new)
  BY <1>1, <1>3 DEF Resetting, Doomed
<1> QED
  BY <1>1, <1>2, <1>3, <1>4, BecomesKeepsRoom

\* No request holds what another of its session holds.
LEMMA HeldApart ==
  ASSUME MockTypeOK, NEW r \in Request, NEW q \in Request \ {r},
         call[q].session = call[r].session
  PROVE  Held(call[r]) \intersect Held(call[q]) = {} /\ call[q].locks \subseteq Held(call[q])
BY DEF MockTypeOK, LocksExclusive, Held

\* A read, an allocation or a delete commits: a row that is deleted was its own.
LEMMA CommitKeepsRoom ==
  ASSUME MockInvariant, SessionsCounted', NEW r \in Request, Commit(r)
  PROVE  ResourcesCounted'
<1> DEFINE me   == call[r]
           s    == me.session
           gone == IF me.pc = "deleting" THEN {me.id} ELSE {}
           next == IF me.put THEN [Idle EXCEPT !.pc = "ready", !.session = me.session,
                                               !.put = TRUE, !.id = me.id]
                             ELSE Idle
<1>1. /\ me.pc \in {"allocating", "reading", "deleting"}
      /\ call' = Forgetting([call EXCEPT ![r] = next], s, gone)
      /\ row' = [row EXCEPT ![s] = @ \ gone]
  BY DEF Commit
<1>2. /\ SessionsCounted /\ MockTypeOK /\ RowsSound(r) /\ s \in Session
      /\ row \in [Session -> SUBSET Id] /\ me \in Call /\ me.id \in Id \union {0}
  BY <1>1, OnItsTurn, CallFields DEF MockInvariant, MockTypeOK
<1>3. next \in Call /\ next.pc \in {"idle", "ready"} /\ next.seed = {}
  BY <1>2 DEF Idle, Call, Phases
<1>4. gone \subseteq Held(me)
  BY <1>1, <1>2 DEF RowsSound, Held
<1> HIDE DEF next, gone
<1>5. /\ Alike(call'[r], next)
      /\ \A q \in Request \ {r} : Forgets(call'[q], call[q], s, gone)
  BY <1>1, <1>2, <1>3, CommitEffect
<1>6. /\ row'[s] = row[s] \ gone
      /\ \A t \in Session \ {s} : row'[t] = row[t]
  BY <1>1, <1>2
<1>7. Apart({r})
  <2> SUFFICES ASSUME NEW q \in Request \ {r}
               PROVE  /\ Alike(call'[q], call[q])
                      /\ \A i \in call[q].locks :
                            i \in row[call[q].session] => i \in row'[call[q].session]
    BY DEF Apart
  <2>1. Alike(call'[q], call[q])
    BY <1>5 DEF Forgets
  <2>2. CASE call[q].session = s
    <3>1. Held(me) \intersect Held(call[q]) = {} /\ call[q].locks \subseteq Held(call[q])
      BY <1>2, <2>2, HeldApart
    <3> QED
      BY <1>4, <1>6, <2>1, <2>2, <3>1
  <2>3. CASE call[q].session # s
    <3>1. row'[call[q].session] = row[call[q].session]
      BY <1>1, <1>2, <2>3
    <3> QED
      BY <2>1, <3>1
  <2> QED
    BY <2>2, <2>3
<1>8. RowsSound(r)'
  <2>1. Cardinality({}) = 0 /\ MaxResources \in Nat
    BY FS_EmptySet, MockAssumption
  <2> QED
    BY <1>3, <1>5, <2>1 DEF RowsSound, Alike
<1>9. ASSUME NEW t \in Session
      PROVE  Harmless(r, t)
  BY <1>3, <1>5 DEF Harmless, Adding, Resetting, Alike
<1>10. ASSUME NEW t \in Session
       PROVE  /\ row'[t] \subseteq row[t]
              /\ \A q \in Request \ {r} : call[q].session = t =>
                    \A i \in row'[t] : i \in call[q].todo => i \in call'[q].todo
  <2>1. CASE t = s
    BY <1>5, <1>6, <2>1 DEF Forgets
  <2>2. CASE t # s
    BY <1>5, <1>6, <2>2 DEF Forgets
  <2> QED
    BY <2>1, <2>2
<1> QED
  BY <1>7, <1>8, <1>9, <1>10, StepKeepsRoom

\* A session expires, but for the rows that its requests have.
LEMMA ExpireKeepsRoom ==
  ASSUME MockInvariant, SessionsCounted', NEW s \in Session, Expire(s)
  PROVE  ResourcesCounted'
<1> DEFINE kept == {i \in row[s] : \E r \in Request : call[r].session = s /\ i \in Held(call[r])}
           gone == row[s] \ kept
<1>1. row' = [row EXCEPT ![s] = kept] /\ call' = Forgetting(call, s, gone)
  BY DEF Expire
<1>2. /\ call \in [Request -> Call] /\ row \in [Session -> SUBSET Id]
  BY DEF MockInvariant, SessionsCounted, MockTypeOK
<1>3. \A q \in Request : call[q].session = s =>
         \A i \in call[q].locks : i \in row[s] => i \in kept
  BY DEF Held
<1>4. kept \subseteq row[s]
  OBVIOUS
<1> HIDE DEF kept
<1>5. \A q \in Request : Forgets(call'[q], call[q], s, gone)
  <2> HIDE DEF gone
  <2> QED
    BY <1>1, <1>2, ForgettingEffect
<1>6. /\ row'[s] = kept /\ \A t : t # s => row'[t] = row[t]
  BY <1>1, <1>2
<1>7. Apart({})
  <2> SUFFICES ASSUME NEW q \in Request
               PROVE  /\ Alike(call'[q], call[q])
                      /\ \A i \in call[q].locks :
                            i \in row[call[q].session] => i \in row'[call[q].session]
    BY DEF Apart
  <2>1. Alike(call'[q], call[q])
    BY <1>5 DEF Forgets
  <2>2. CASE call[q].session = s
    BY <1>3, <1>6, <2>1, <2>2
  <2>3. CASE call[q].session # s
    BY <1>6, <2>1, <2>3
  <2> QED
    BY <2>2, <2>3
<1>8. ASSUME NEW t \in Session
      PROVE  /\ row'[t] \subseteq row[t]
             /\ \A q \in Request \ {} : call[q].session = t =>
                   \A i \in row'[t] : i \in call[q].todo => i \in call'[q].todo
  <2>1. CASE t = s
    BY <1>4, <1>5, <1>6, <2>1 DEF Forgets
  <2>2. CASE t # s
    BY <1>5, <1>6, <2>2 DEF Forgets
  <2> QED
    BY <2>1, <2>2
<1> QED
  BY <1>7, <1>8, StepKeepsRoom

\* A step of r about the session s keeps the room of the others.
LEMMA OneSessionChanges ==
  ASSUME MockInvariant, SessionsCounted', NEW r \in Request, Apart({r}), RowsSound(r)',
         NEW s \in Session, \A t \in Session \ {s} : row'[t] = row[t],
         \A q \in Request \ {r} : call[q].session # s => call'[q] = call[q],
         call'[r].session \in {s, NoSession},
         \A C \in SUBSET Resetting(s)' : RoomFor(s, C)'
  PROVE  ResourcesCounted'
<1>1. \A q \in Request : RowsSound(q)'
  BY OthersStay
<1>2. ASSUME NEW t \in Session \ {s}
      PROVE  \A C \in SUBSET Resetting(t)' : RoomFor(t, C)'
  <2>1. Harmless(r, t)
    BY MockAssumption DEF MockAssumption, Harmless, Adding, Resetting
  <2>2. \A q \in Request \ {r} : call[q].session = t =>
           \A i \in row'[t] : i \in call[q].todo => i \in call'[q].todo
    OBVIOUS
  <2> QED
    BY <2>1, <2>2, SessionKeepsRoom
<1> QED
  BY <1>1, <1>2 DEF ResourcesCounted

\* The requests that reset s but for r, before and after a step of r.
LEMMA OthersReset ==
  ASSUME MockInvariant, NEW r \in Request, Apart({r}), NEW s \in Session,
         NEW C \in SUBSET Resetting(s)'
  PROVE  C \ {r} \in SUBSET Resetting(s)
<1> SUFFICES ASSUME NEW q \in C, q # r
             PROVE  q \in Resetting(s)
  OBVIOUS
<1>1. q \in Request \ {r} /\ q \in Resetting(s)'
  BY DEF Resetting
<1> QED
  BY <1>1, OthersStay

\* A put of a new row is judged by the rows there are: whatever is reset, they are one less
\* than the cap, and the requests that reset the session or add to it have room for theirs.
LEMMA JudgeKeepsRoom ==
  ASSUME MockInvariant, SessionsCounted', NEW r \in Request, Judge(r),
         NEW s \in Session, call[r].session = s
  PROVE  ResourcesCounted'
<1> DEFINE me  == call[r]
           new == [me EXCEPT !.pc = "judged", !.locks = {me.id} \intersect row[s]]
<1>1. /\ row' = row /\ me.pc = "ready"
      /\ \/ Returns(r)
         \/ Becomes(r, new) /\ (me.id \in row[s] \/ Cardinality(row[s]) + 1 <= MaxResources)
  BY DEF Judge, HasRoom
<1>2. /\ me \in Call /\ RowsSound(r)
      /\ Cardinality(me.seed) <= MaxResources
      /\ MockTypeOK /\ call \in [Request -> Call]
  BY <1>1, OnItsTurn DEF MockTypeOK
<1>3. /\ new.pc = "judged" /\ new.session = s /\ new.id = me.id /\ new.seed = me.seed
      /\ new.locks = {me.id} \intersect row[s]
  BY <1>2 DEF Call
<1> HIDE DEF new
<1>4. CASE Returns(r)
  BY <1>1, <1>4, ReturnsKeepsRoom
<1>5. CASE Becomes(r, new) /\ me.id \in row[s]
  BY <1>1, <1>2, <1>3, <1>5, BecomesKeepsRoom
<1>6. CASE Becomes(r, new) /\ me.id \notin row[s] /\ Cardinality(row[s]) + 1 <= MaxResources
  <2>1. call'[r] = new /\ \A q \in Request \ {r} : call'[q] = call[q]
    BY <1>2, <1>6 DEF Becomes
  <2>2. Apart({r})
    BY <1>1, <2>1 DEF Apart, Alike
  <2>3. RowsSound(r)' /\ call'[r].session = s
    BY <1>2, <1>3, <1>6, <2>1 DEF RowsSound
  <2>4. ASSUME NEW C \in SUBSET Resetting(s)'
        PROVE  RoomFor(s, C)'
    <3>1. C \in SUBSET Resetting(s) /\ r \notin C
      <4>1. r \notin C
        BY <1>3, <2>1 DEF Resetting
      <4> QED
        BY <1>2, <2>2, <4>1, OthersReset
    <3>2. Adding(s)' \subseteq Adding(s) \union {r} /\ r \notin Adding(s)
      BY <1>1, <2>1 DEF Adding
    <3>3. /\ C \in SUBSET Request /\ C \intersect Adding(s) = {}
          /\ Cardinality(C) + Cardinality(Adding(s)) <= Cardinality(Request)
      BY <1>2, <3>1, EachCountsOnce
    <3>4. /\ IsFiniteSet(row[s]) /\ Cardinality(row[s]) \in Nat
          /\ IsFiniteSet(C) /\ Cardinality(C) \in Nat
          /\ IsFiniteSet(Adding(s)) /\ Cardinality(Adding(s)) \in Nat
          /\ Cardinality(Request) \in Nat /\ MaxResources \in Nat /\ MaxResources >= 1
      BY <1>2, <3>3, Counts
    <3>5. MockTypeOK'
      BY DEF SessionsCounted
    <3>6. /\ Cardinality(Spared(s, C)') \in Nat /\ Cardinality(Adding(s)') \in Nat
      BY <1>2, <3>3, <3>5, CountsAfter
    <3>7. Cardinality(Spared(s, C)') <= Cardinality(row[s])
      <4>1. Spared(s, C)' \in SUBSET row[s]
        BY <1>1 DEF Spared
      <4> QED
        BY <3>4, <4>1, FS_Subset
    <3>8. Cardinality(Adding(s)') <= Cardinality(Adding(s)) + 1
      BY <3>2, <3>4, OneMore
    <3>9. Cardinality(C) + 1 + Cardinality(Adding(s)) <= Cardinality(Request)
      <4>1. C \union {r} \in SUBSET Request /\ (C \union {r}) \intersect Adding(s) = {}
        BY <3>2, <3>3
      <4>2. IsFiniteSet(C \union {r}) /\ Cardinality(C \union {r}) = Cardinality(C) + 1
        BY <3>1, <3>4, FS_AddElement
      <4>3. Adding(s) \in SUBSET Request
        BY DEF Adding
      <4> QED
        BY <3>4, <4>1, <4>2, <4>3, Disjoint
    <3>10. /\ MaxResources * (Cardinality(C) + 1) + Cardinality(Adding(s))
                <= MaxResources * Cardinality(Request)
           /\ MaxResources * (Cardinality(C) + 1) = MaxResources * Cardinality(C) + MaxResources
           /\ MaxResources * Cardinality(C) \in Nat
           /\ MaxResources * Cardinality(Request) \in Nat
      <4> DEFINE c == Cardinality(C)
                 n == Cardinality(Request)
                 k == Cardinality(Adding(s))
      <4>1. c \in Nat /\ c + 1 \in Nat /\ n \in Nat /\ k \in Nat /\ c + 1 + k <= n /\ c + 0 <= n
        BY <3>4, <3>9
      <4> HIDE DEF c, n, k
      <4>2. MaxResources * (c + 1) + k <= MaxResources * n
        BY <3>4, <4>1, Products
      <4>3. /\ MaxResources * (c + 1) = MaxResources * c + MaxResources
            /\ MaxResources * c \in Nat /\ MaxResources * n \in Nat
        BY <3>4, <4>1, Products
      <4> QED
        BY <4>2, <4>3 DEF c, n, k
    <3> QED
      BY <1>6, <3>4, <3>6, <3>7, <3>8, <3>10 DEF RoomFor
  <2> QED
    BY <1>1, <1>2, <2>1, <2>2, <2>3, <2>4, OneSessionChanges
<1> QED
  BY <1>1, <1>4, <1>5, <1>6

\* A put that commits a new row no longer is to add it.
LEMMA CommitPutKeepsRoom ==
  ASSUME MockInvariant, SessionsCounted', NEW r \in Request, CommitPut(r),
         NEW s \in Session, call[r].session = s
  PROVE  ResourcesCounted'
<1> DEFINE me == call[r]
           i  == me.id
<1>1. /\ me.pc = "putting" /\ Returns(r) /\ row' = [row EXCEPT ![s] = @ \union {i}]
  BY DEF CommitPut
<1>2. /\ RowsSound(r) /\ MockTypeOK /\ row \in [Session -> SUBSET Id]
      /\ call \in [Request -> Call]
  BY <1>1, OnItsTurn DEF MockTypeOK
<1>3. /\ call'[r] = Idle /\ \A q \in Request \ {r} : call'[q] = call[q]
      /\ row'[s] = row[s] \union {i} /\ \A t \in Session \ {s} : row'[t] = row[t]
  BY <1>1, <1>2 DEF Returns, Becomes
<1>4. CASE i \in row[s]
  <2>1. row' = row
    BY <1>1, <1>2, <1>4
  <2> QED
    BY <1>1, <2>1, ReturnsKeepsRoom
<1>5. CASE i \notin row[s]
  <2>1. Apart({r})
    <3> SUFFICES ASSUME NEW q \in Request \ {r}
                 PROVE  row[call[q].session] \subseteq row'[call[q].session]
      BY <1>3 DEF Apart, Alike
    <3> QED
      BY <1>1, <1>2, <1>3
  <2>2. RowsSound(r)' /\ call'[r].session = NoSession /\ call'[r].pc = "idle"
    <3>1. Cardinality({}) = 0 /\ MaxResources \in Nat
      BY FS_EmptySet, MockAssumption
    <3> QED
      BY <1>3, <3>1 DEF RowsSound, Idle
  <2>3. ASSUME NEW C \in SUBSET Resetting(s)'
        PROVE  RoomFor(s, C)'
    <3>1. C \in SUBSET Resetting(s) /\ r \notin C
      <4>1. r \notin C
        BY <2>2 DEF Resetting
      <4> QED
        BY <2>1, <4>1, OthersReset
    <3>2. Adding(s)' \subseteq Adding(s) \ {r} /\ r \in Adding(s)
      BY <1>1, <1>3, <1>5, <2>2 DEF Adding
    <3>3. RoomFor(s, C) /\ C \in SUBSET Request
      BY <3>1 DEF MockInvariant, ResourcesCounted, Resetting
    <3>4. /\ IsFiniteSet(Spared(s, C)) /\ Cardinality(Spared(s, C)) \in Nat
          /\ IsFiniteSet(Adding(s)) /\ Cardinality(Adding(s)) \in Nat
          /\ Cardinality(C) \in Nat /\ Cardinality(Request) \in Nat /\ MaxResources \in Nat
      BY <1>2, <3>3, Counts
    <3>5. MockTypeOK'
      BY DEF SessionsCounted
    <3>6. Cardinality(Spared(s, C)') \in Nat /\ Cardinality(Adding(s)') \in Nat
      BY <3>3, <3>5, CountsAfter
    <3>7. Cardinality(Spared(s, C)') <= Cardinality(Spared(s, C)) + 1
      <4>1. \A q \in C : call'[q] = call[q]
        BY <1>3, <3>1, <3>3
      <4>2. Spared(s, C)' \subseteq Spared(s, C) \union {i}
        BY <1>3, <4>1 DEF Spared
      <4> QED
        BY <3>4, <4>2, OneMore
    <3>8. Cardinality(Adding(s)') <= Cardinality(Adding(s)) - 1
      <4>1. /\ IsFiniteSet(Adding(s) \ {r})
            /\ Cardinality(Adding(s) \ {r}) = Cardinality(Adding(s)) - 1
        BY <3>2, <3>4, FS_RemoveElement
      <4> QED
        BY <3>2, <4>1, FS_Subset
    <3>9. /\ MaxResources * Cardinality(C) \in Nat
          /\ MaxResources * Cardinality(Request) \in Nat
      BY <3>4
    <3> QED
      BY <3>3, <3>4, <3>6, <3>7, <3>8, <3>9 DEF RoomFor
  <2> QED
    BY <1>3, <2>1, <2>2, <2>3, OneSessionChanges
<1> QED
  BY <1>4, <1>5

\* A reset that has seen the rows leaves none: if it commits there are its seed, those of the
\* other resets and what is to be added.
LEMMA ClearKeepsRoom ==
  ASSUME MockInvariant, SessionsCounted', NEW r \in Request, Clear(r),
         NEW s \in Session, call[r].session = s
  PROVE  ResourcesCounted'
<1> DEFINE me  == call[r]
           new == [me EXCEPT !.pc = "clearing", !.todo = row[s]]
<1>1. row' = row /\ me.pc = "resetting" /\ Becomes(r, new)
  BY DEF Clear
<1>2. /\ me \in Call /\ Cardinality(me.seed) <= MaxResources
      /\ MockTypeOK /\ call \in [Request -> Call]
  BY <1>1, OnItsTurn DEF MockTypeOK
<1>3. new.pc = "clearing" /\ new.session = s /\ new.seed = me.seed /\ new.todo = row[s]
  BY <1>2 DEF Call
<1> HIDE DEF new
<1>4. call'[r] = new /\ \A q \in Request \ {r} : call'[q] = call[q]
  BY <1>1, <1>2 DEF Becomes
<1>5. Apart({r}) /\ RowsSound(r)' /\ call'[r].session = s
  BY <1>1, <1>2, <1>3, <1>4 DEF Apart, Alike, RowsSound
<1>6. MockTypeOK'
  BY DEF SessionsCounted
<1>7. ASSUME NEW C \in SUBSET Resetting(s)'
      PROVE  RoomFor(s, C)'
  <2>1. Adding(s)' \subseteq Adding(s)
    BY <1>1, <1>3, <1>4 DEF Adding
  <2>2. CASE r \notin C
    <3>1. C \in SUBSET Resetting(s)
      BY <1>5, <2>2, OthersReset
    <3>2. RoomFor(s, C) /\ C \in SUBSET Request
      BY <3>1 DEF MockInvariant, ResourcesCounted, Resetting
    <3>3. Spared(s, C)' \subseteq Spared(s, C)
      <4>1. \A q \in C : call'[q] = call[q]
        BY <1>4, <2>2, <3>2
      <4> QED
        BY <1>1, <4>1 DEF Spared
    <3> QED
      BY <1>2, <1>6, <2>1, <3>2, <3>3, RoomShrinks
  <2>3. CASE r \in C
    <3>1. C \in SUBSET Request
      BY DEF Resetting
    <3>2. Spared(s, C)' = {}
      BY <1>1, <1>3, <1>4, <2>3 DEF Spared, Doomed
    <3>3. /\ Cardinality(C) \in Nat /\ Cardinality(Request) \in Nat
          /\ MaxResources \in Nat /\ MaxResources >= 1
      BY <1>2, <3>1, Counts
    <3>4. Cardinality(Adding(s)') \in Nat
      BY <1>6, <3>1, CountsAfter
    <3>5. Cardinality(C) + Cardinality(Adding(s)') <= Cardinality(Request)
      <4>1. Adding(s)' \in SUBSET Request /\ C \intersect Adding(s)' = {}
        BY DEF Adding, Resetting
      <4> QED
        BY <3>1, <4>1, Disjoint
    <3>6. MaxResources * Cardinality(C) + Cardinality(Adding(s)')
             <= MaxResources * Cardinality(Request) /\ MaxResources * Cardinality(C) \in Nat
      BY <3>3, <3>4, <3>5, Products
    <3>7. Cardinality(Spared(s, C)') = 0
      BY <3>2, FS_EmptySet
    <3> QED
      BY <3>4, <3>6, <3>7 DEF RoomFor
  <2> QED
    BY <2>2, <2>3
<1> QED
  BY <1>1, <1>4, <1>5, <1>7, OneSessionChanges

\* A reset that commits leaves the rows it was said to leave, and its seed.
LEMMA CommitResetKeepsRoom ==
  ASSUME MockInvariant, SessionsCounted', NEW r \in Request, CommitReset(r),
         NEW s \in Session, call[r].session = s
  PROVE  ResourcesCounted'
<1> DEFINE me == call[r]
<1>1. /\ me.pc = "seeding"
      /\ call' = Forgetting([call EXCEPT ![r] = Idle], s, me.locks)
      /\ row' = [row EXCEPT ![s] = (row[s] \ me.locks) \union me.seed]
  BY DEF CommitReset, AfterReset
<1>2. /\ SessionsCounted /\ MockTypeOK /\ RowsSound(r)
      /\ Cardinality(me.seed) <= MaxResources /\ IsFiniteSet(me.seed)
      /\ row \in [Session -> SUBSET Id]
  <2>1. /\ SessionsCounted /\ MockTypeOK /\ RowsSound(r) /\ RequestSound(me)
        /\ Cardinality(me.seed) <= MaxResources /\ row \in [Session -> SUBSET Id]
    BY <1>1, OnItsTurn DEF MockInvariant, MockTypeOK
  <2>2. me.seed \in SUBSET IdOf(s)
    BY <2>1 DEF RequestSound
  <2>3. IsFiniteSet(IdOf(s))
    BY MockAssumption, FS_Interval DEF MockAssumption, IdOf
  <2>4. IsFiniteSet(me.seed)
    BY <2>2, <2>3, FS_Subset
  <2> QED
    BY <2>1, <2>4
<1>3. /\ Alike(call'[r], Idle)
      /\ \A q \in Request \ {r} : Forgets(call'[q], call[q], s, me.locks)
  BY <1>1, <1>2, IdleSound, CommitEffect
<1>4. /\ row'[s] = (row[s] \ me.locks) \union me.seed
      /\ \A t : t # s => row'[t] = row[t]
  BY <1>1, <1>2
<1>5. Apart({r})
  <2> SUFFICES ASSUME NEW q \in Request \ {r}
               PROVE  /\ Alike(call'[q], call[q])
                      /\ \A i \in call[q].locks :
                            i \in row[call[q].session] => i \in row'[call[q].session]
    BY DEF Apart
  <2>1. Alike(call'[q], call[q])
    BY <1>3 DEF Forgets
  <2>2. CASE call[q].session = s
    <3>1. Held(me) \intersect Held(call[q]) = {} /\ call[q].locks \subseteq Held(call[q])
      BY <1>2, <2>2, HeldApart
    <3>2. me.locks \subseteq Held(me)
      BY DEF Held
    <3> QED
      BY <1>4, <2>1, <2>2, <3>1, <3>2
  <2>3. CASE call[q].session # s
    BY <1>4, <2>1, <2>3
  <2> QED
    BY <2>2, <2>3
<1>6. RowsSound(r)' /\ call'[r].session = NoSession /\ call'[r].pc = "idle"
  <2>1. Cardinality({}) = 0 /\ MaxResources \in Nat
    BY FS_EmptySet, MockAssumption
  <2> QED
    BY <1>3, <2>1 DEF RowsSound, Alike, Idle
<1>7. ASSUME NEW C \in SUBSET Resetting(s)'
      PROVE  RoomFor(s, C)'
  <2>1. C \in SUBSET Resetting(s) /\ r \notin C
    <3>1. r \notin C
      BY <1>6 DEF Resetting
    <3> QED
      BY <1>5, <3>1, OthersReset
  <2> DEFINE B == C \union {r}
  <2>2. B \in SUBSET Resetting(s) /\ B \in SUBSET Request /\ C \in SUBSET Request
    BY <1>1, <2>1 DEF Resetting
  <2>3. RoomFor(s, B)
    BY <2>2 DEF MockInvariant, ResourcesCounted
  <2>4. Spared(s, C)' \subseteq Spared(s, B) \union me.seed
    <3> SUFFICES ASSUME NEW i \in Spared(s, C)', i \notin me.seed
                 PROVE  i \in Spared(s, B)
      OBVIOUS
    <3>1. i \in row[s] /\ i \notin me.locks /\ \A q \in C : i \notin Doomed(call'[q])
      BY <1>4 DEF Spared
    <3>2. i \notin Doomed(me)
      BY <1>1, <3>1 DEF Doomed
    <3>3. ASSUME NEW q \in C
          PROVE  i \notin Doomed(call[q])
      <4>1. q \in Request \ {r}
        BY <2>1, <2>2
      <4>2. Forgets(call'[q], call[q], s, me.locks) /\ i \notin Doomed(call'[q])
        BY <1>3, <3>1, <4>1
      <4> QED
        BY <3>1, <4>2 DEF Doomed, Forgets, Alike
    <3> QED
      BY <3>1, <3>2, <3>3 DEF Spared
  <2>5. Adding(s)' \subseteq Adding(s)
    <3> SUFFICES ASSUME NEW q, q \in Adding(s)'
                 PROVE  q \in Adding(s)
      OBVIOUS
    <3>1. q \in Request \ {r}
      BY <1>6 DEF Adding
    <3> QED
      BY <1>5, <3>1, OthersStay
  <2>6. /\ IsFiniteSet(C) /\ Cardinality(C) \in Nat
        /\ IsFiniteSet(Adding(s)) /\ Cardinality(Adding(s)) \in Nat
        /\ Cardinality(Request) \in Nat /\ MaxResources \in Nat
    BY <1>2, <2>2, Counts
  <2>7. IsFiniteSet(Spared(s, B)) /\ Cardinality(Spared(s, B)) \in Nat
    BY <1>2, <2>2, Counts
  <2>8. MockTypeOK'
    BY DEF SessionsCounted
  <2>9. Cardinality(Spared(s, C)') \in Nat /\ Cardinality(Adding(s)') \in Nat
    BY <2>2, <2>8, CountsAfter
  <2>10. Cardinality(Spared(s, C)') <= Cardinality(Spared(s, B)) + MaxResources
    <3>1. /\ IsFiniteSet(Spared(s, B) \union me.seed)
          /\ Cardinality(Spared(s, B) \union me.seed)
                = Cardinality(Spared(s, B)) + Cardinality(me.seed)
                    - Cardinality(Spared(s, B) \intersect me.seed)
      BY <1>2, <2>7, FS_Union
    <3>2. /\ Cardinality(Spared(s, B) \intersect me.seed) \in Nat
          /\ Cardinality(me.seed) \in Nat /\ Cardinality(Spared(s, B) \union me.seed) \in Nat
      BY <1>2, <2>7, <3>1, FS_Intersection, FS_CardinalityType
    <3>3. Cardinality(Spared(s, C)') <= Cardinality(Spared(s, B) \union me.seed)
      BY <2>4, <3>1, FS_Subset
    <3> QED
      BY <1>2, <2>6, <2>7, <2>9, <3>1, <3>2, <3>3
  <2>11. Cardinality(Adding(s)') <= Cardinality(Adding(s))
    BY <2>5, <2>6, FS_Subset
  <2>12. Cardinality(B) = Cardinality(C) + 1
    BY <2>1, <2>6, FS_AddElement
  <2> HIDE DEF B
  <2>13. /\ MaxResources * Cardinality(B) = MaxResources * Cardinality(C) + MaxResources
         /\ MaxResources * Cardinality(C) \in Nat /\ MaxResources * Cardinality(B) \in Nat
         /\ MaxResources * Cardinality(Request) \in Nat
    BY <2>6, <2>12
  <2> QED
    BY <2>3, <2>6, <2>7, <2>9, <2>10, <2>11, <2>13 DEF RoomFor
<1>8. \A t \in Session \ {s} : row'[t] = row[t]
  BY <1>4
<1>9. \A q \in Request \ {r} : call[q].session # s => call'[q] = call[q]
  BY <1>3 DEF Forgets
<1> QED
  BY <1>5, <1>6, <1>7, <1>8, <1>9, OneSessionChanges

-----------------------------------------------------------------------------
(* The invariant *)

\* The invariant holds at the start,
LEMMA MockInvariantInit ==
  ASSUME MockInit PROVE MockInvariant
<1>1. SessionsCounted /\ MockTypeOK
  BY SessionsCountedInit DEF SessionsCounted
<1>2. /\ \A s \in Session : row[s] = {}
      /\ \A r \in Request : call[r] = Idle
  BY DEF MockInit
<1>3. Cardinality({}) = 0 /\ MaxResources \in Nat
  BY FS_EmptySet, MockAssumption
<1>4. \A r \in Request : RowsSound(r)
  BY <1>2, <1>3 DEF RowsSound, Idle
<1>5. ASSUME NEW s \in Session, NEW C \in SUBSET Resetting(s)
      PROVE  RoomFor(s, C)
  <2>1. Adding(s) = {} /\ Resetting(s) = {} /\ C = {}
    BY <1>2 DEF Adding, Resetting, Idle
  <2>2. Spared(s, C) = {}
    BY <1>2 DEF Spared
  <2>3. Cardinality(Request) \in Nat
    BY MockAssumption, FS_CardinalityType DEF MockAssumption
  <2>4. MaxResources * 0 = 0 /\ MaxResources * Cardinality(Request) \in Nat
    BY <1>3, <2>3
  <2> QED
    BY <1>3, <2>1, <2>2, <2>4 DEF RoomFor
<1> QED
  BY <1>1, <1>4, <1>5 DEF MockInvariant, ResourcesCounted

\* ... a step that changes nothing keeps it,
LEMMA StutterKeepsRoom ==
  ASSUME MockInvariant, SessionsCounted', UNCHANGED mockVars PROVE ResourcesCounted'
<1>1. row' = row /\ call' = call
  BY DEF mockVars
<1>2. Apart({})
  BY <1>1 DEF Apart, Alike
<1> QED
  BY <1>1, <1>2, StepKeepsRoom

\* ... and so does every other.
LEMMA MockInvariantStep ==
  ASSUME MockInvariant, [MockNext]_mockVars PROVE MockInvariant'
<1>0. SessionsCounted'
  BY SessionsCountedStep DEF MockInvariant
<1> SUFFICES ResourcesCounted'
  BY <1>0 DEF MockInvariant
<1>1. ASSUME NEW r \in Request, NEW s \in Session,
             \/ \E put \in BOOLEAN : Allocate(r, s, put)
             \/ \E put \in BOOLEAN, i \in IdOf(s) : Read(r, s, i, put)
             \/ \E i \in IdOf(s) : Delete(r, s, i)
             \/ \E seed \in SUBSET IdOf(s) : Reset(r, s, seed)
      PROVE  ResourcesCounted'
  BY <1>0, <1>1, BeginKeepsRoom
<1>2. ASSUME NEW r \in Request, Continue(r)
      PROVE  ResourcesCounted'
  <2>1. ASSUME Judge(r) \/ CommitPut(r) \/ Clear(r) \/ CommitReset(r)
        PROVE  ResourcesCounted'
    <3>1. call[r].pc # "idle"
      BY <2>1 DEF Judge, CommitPut, Clear, CommitReset
    <3>2. call[r].session \in Session
      BY <3>1, OnItsTurn
    <3> QED
      BY <1>0, <2>1, <3>2, JudgeKeepsRoom, CommitPutKeepsRoom, ClearKeepsRoom,
         CommitResetKeepsRoom
  <2> QED
    BY <1>0, <1>2, <2>1, LockKeepsRoom, CommitKeepsRoom, InsertKeepsRoom, SeedKeepsRoom
    DEF Continue
<1>3. ASSUME NEW r \in Request, Abort(r) \/ Drop(r)
      PROVE  ResourcesCounted'
  BY <1>0, <1>3, ReturnsKeepsRoom DEF Abort, Drop
<1>4. ASSUME NEW s \in Session, Expire(s)
      PROVE  ResourcesCounted'
  BY <1>0, <1>4, ExpireKeepsRoom
<1> QED
  BY <1>0, <1>1, <1>2, <1>3, <1>4, StutterKeepsRoom DEF MockNext

-----------------------------------------------------------------------------
(* Theorems *)

\* Counting those a request may still open, there are fewer sessions than the cap and the
\* requests at once together; and counting what they may still put and seed, there are no more
\* resources in one than the cap for each request: in every reachable state.
THEOREM MockInvariantHolds == MockSpec => []MockInvariant
<1> QED
  BY MockInvariantInit, MockInvariantStep, PTL DEF MockSpec

\* Every variable keeps its type, and no row of a session is written by two open
\* transactions.
THEOREM MockTypesHold == MockSpec => []MockTypeOK
<1>1. MockInvariant => MockTypeOK
  BY DEF MockInvariant, SessionsCounted
<1> QED
  BY <1>1, MockInvariantHolds, PTL

\* The cap on sessions (put_resource, replace_session) is exceeded by at most one for each
\* other request that is open.
THEOREM SessionsAreBounded == MockSpec => []SessionOvershoot
<1>1. ASSUME MockInvariant PROVE SessionOvershoot
  <2>1. IsFiniteSet(Opened) /\ Cardinality(Opened) \in Nat
        /\ Cardinality(Opened) + 1 <= MaxSessions + Cardinality(Request)
    BY <1>1, FS_CardinalityType DEF MockInvariant, SessionsCounted
  <2>2. Active \in SUBSET Opened
    BY DEF Opened
  <2>3. Cardinality(Active) \in Nat /\ Cardinality(Active) <= Cardinality(Opened)
    BY <2>1, <2>2, FS_Subset, FS_CardinalityType
  <2>4. MaxSessions \in Nat /\ Cardinality(Request) \in Nat
    BY MockAssumption, FS_CardinalityType DEF MockAssumption
  <2> QED
    BY <2>1, <2>3, <2>4 DEF SessionOvershoot
<1> QED
  BY <1>1, MockInvariantHolds, PTL

\* The cap on the resources of a session (put_resource) is exceeded by no more than each
\* request at once may bring, whatever expires, is deleted and is reset in between.
THEOREM ResourcesAreBounded == MockSpec => []ResourceOvershoot
<1>1. ASSUME MockInvariant, NEW s \in Session
      PROVE  Cardinality(row[s]) <= MaxResources * Cardinality(Request)
  <2>1. MockTypeOK /\ RoomFor(s, {})
    BY <1>1 DEF MockInvariant, SessionsCounted, ResourcesCounted
  <2>2. Spared(s, {}) = row[s]
    BY DEF Spared
  <2>3. /\ Cardinality(row[s]) \in Nat /\ Cardinality(Adding(s)) \in Nat
        /\ Cardinality(Request) \in Nat /\ MaxResources \in Nat
    BY <2>1, Counts
  <2>4. Cardinality({}) = 0 /\ MaxResources * 0 = 0 /\ MaxResources * Cardinality(Request) \in Nat
    BY <2>3, FS_EmptySet
  <2> QED
    BY <2>1, <2>2, <2>3, <2>4 DEF RoomFor
<1>2. MockInvariant => ResourceOvershoot
  BY <1>1 DEF ResourceOvershoot
<1> QED
  BY <1>2, MockInvariantHolds, PTL
=============================================================================
