------------------------------ MODULE MockSession ------------------------------
(***************************************************************************)
(* The resources a mock server remembers for a client session, in the      *)
(* store that several replicas share                                       *)
(* (apiome-mock/src/apiome_mock/postgres_session_store.py), as the         *)
(* requests that create, read, update and delete them                      *)
(* (stateful_handler.py) and reset the session (lifecycle.py) use it.      *)
(*                                                                         *)
(* Every method of the store is a transaction that locks nothing but rows: *)
(* a put counts the rows it can see, then inserts its own, then extends    *)
(* the life of every row of the session.  A row that another transaction   *)
(* has written or locked is waited for, and two transactions that wait for *)
(* each other are told apart by the database, which aborts one of them.    *)
(*                                                                         *)
(* The byte cap is checked like the count of resources and is left out; so *)
(* are the resources' bodies.  A session has one collection.               *)
(***************************************************************************)
EXTENDS Naturals, FiniteSets, FiniteSetsExt

CONSTANTS
    Request,       \* requests under way at once, over all replicas
    Session,       \* session keys
    NoSession,
    MaxId,         \* bound: session -> its ids are 1..MaxId[s]
    MaxResources,  \* caps.max_resources
    MaxSessions    \* caps.max_sessions

ASSUME MockAssumption ==
    /\ IsFiniteSet(Request)
    /\ NoSession \notin Session
    /\ MaxId \in [Session -> Nat]
    /\ MaxResources \in Nat \ {0}
    /\ MaxSessions \in Nat \ {0}

IdOf(s) == 1..MaxId[s]
Id == UNION {IdOf(s) : s \in Session}

VARIABLES
    row,      \* session -> the ids of its committed rows in mock_session_state
    call      \* request -> what it is doing

mockVars == <<row, call>>

\* Where a request is:
\*   "allocating", "reading", "deleting"  in a transaction that touches the session's rows last
\*   "ready"                              between allocating or reading an id and putting it
\*   "judged"                             in the put, found to be within the caps
\*   "putting"                            inserted, and touching the session's rows
\*   "resetting"                          in a reset, found to be within the caps
\*   "clearing", "seeding"                ... deleting the old rows, inserting the new
\* locks: the rows its transaction has locked or written; todo: those its statement saw and
\* has still to, or those of the seed it has still to insert.
Phases == {"idle", "allocating", "reading", "deleting", "ready", "judged", "putting",
           "resetting", "clearing", "seeding"}

Call == [pc : Phases, session : Session \union {NoSession}, id : Id \union {0}, put : BOOLEAN,
         seed : SUBSET Id, locks : SUBSET Id, todo : SUBSET Id]

Idle == [pc |-> "idle", session |-> NoSession, id |-> 0, put |-> FALSE,
         seed |-> {}, locks |-> {}, todo |-> {}]

\* The rows a request keeps from others, and those of its seed it has inserted so far.
Held(c) == c.locks \union {i \in c.seed : c.pc = "seeding" /\ i \notin c.todo}

\* Requests of one session never hold the same row.
LocksExclusive ==
    \A r, q \in Request :
        r # q /\ call[r].session = call[q].session => Held(call[r]) \intersect Held(call[q]) = {}

MockTypeOK ==
    /\ row \in [Session -> SUBSET Id]
    /\ \A s \in Session : row[s] \subseteq IdOf(s)
    /\ call \in [Request -> Call]
    /\ \A r \in Request : call[r].session = NoSession <=> call[r].pc = "idle"
    /\ LocksExclusive

MockInit ==
    /\ row = [s \in Session |-> {}]
    /\ call = [r \in Request |-> Idle]

\* _active_session_count
Active == {s \in Session : row[s] # {}}

\* Mutant of LockedAway: the row is asked for over a second connection of the same request.
LockedByAny(r, s, i) == \E q \in Request : call[q].session = s /\ i \in Held(call[q])

\* Another transaction has the row (s, i), or is inserting it.
LockedAway(r, s, i) == \E q \in Request \ {r} : call[q].session = s /\ i \in Held(call[q])

\* The calls c once rows of s are deleted: a statement that saw them passes them over, and
\* does not see a row of the same id that is inserted later.
Forgetting(c, s, gone) ==
    [q \in Request |-> IF c[q].session = s /\ c[q].pc # "seeding"
                       THEN [c[q] EXCEPT !.todo = @ \ gone] ELSE c[q]]

Becomes(r, new) == call' = [call EXCEPT ![r] = new]
Returns(r)      == Becomes(r, Idle)

-----------------------------------------------------------------------------
(* Reading and creating *)

\* next_integer_id: one more than the highest id there is.
NextId(ids) == Max(ids \union {0}) + 1

\* A create computes the id of its resource; a scenario numbers its calls so too, and puts
\* nothing (_sequence_call_number).
Allocate(r, s, put) ==
    /\ call[r].pc = "idle"
    /\ NextId(row[s]) \in IdOf(s)
    /\ Becomes(r, [Idle EXCEPT !.pc = "allocating", !.session = s, !.put = put,
                               !.id = NextId(row[s]), !.todo = row[s]])
    /\ UNCHANGED row

\* list_resources and get_resource, of a request that only reads or that goes on to put.
Read(r, s, i, put) ==
    /\ call[r].pc = "idle"
    /\ Becomes(r, [Idle EXCEPT !.pc = "reading", !.session = s, !.put = put,
                               !.id = IF put THEN i ELSE 0, !.todo = row[s]])
    /\ UNCHANGED row

\* delete_resource: a row that is not there is not found.
Delete(r, s, i) ==
    /\ call[r].pc = "idle"
    /\ i \in row[s]
    /\ ~ LockedAway(r, s, i)
    /\ Becomes(r, [Idle EXCEPT !.pc = "deleting", !.session = s, !.id = i,
                               !.locks = {i}, !.todo = row[s] \ {i}])
    /\ UNCHANGED row

\* _touch_session, and the DELETE and the INSERTs of a reset: row after row.
Lock(r, i) ==
    LET me == call[r] IN
    /\ me.pc \in {"allocating", "reading", "deleting", "putting", "clearing", "seeding"}
    /\ i \in me.todo
    /\ ~ LockedAway(r, me.session, i)
    /\ Becomes(r, [me EXCEPT !.todo = @ \ {i},
                             !.locks = IF me.pc = "seeding" THEN @ ELSE @ \union {i}])
    /\ UNCHANGED row

\* The transaction of a read, an allocation or a delete commits.
Commit(r) ==
    LET me   == call[r]
        gone == IF me.pc = "deleting" THEN {me.id} ELSE {}
        next == IF me.put THEN [Idle EXCEPT !.pc = "ready", !.session = me.session,
                                            !.put = TRUE, !.id = me.id]
                          ELSE Idle IN
    /\ me.pc \in {"allocating", "reading", "deleting"}
    /\ me.todo = {}
    /\ call' = Forgetting([call EXCEPT ![r] = next], me.session, gone)
    /\ row' = [row EXCEPT ![me.session] = @ \ gone]

-----------------------------------------------------------------------------
(* Putting *)

\* Mutants of the caps: one resource too many; a new session is not counted.
RoomForOneMore(s) == Cardinality(row[s]) <= MaxResources
MayOpenAlways(s) == s \in Session

\* The caps, as far as committed rows tell.
HasRoom(s) == Cardinality(row[s]) + 1 <= MaxResources
MayOpen(s) == row[s] = {} => Cardinality(Active) < MaxSessions

\* put_resource takes the lock of its row if there is one, and otherwise asks for the caps.
Judge(r) ==
    LET me == call[r]
        s  == me.session IN
    /\ me.pc = "ready"
    /\ me.id \in row[s] => ~ LockedAway(r, s, me.id)
    /\ IF me.id \in row[s] \/ (MayOpen(s) /\ HasRoom(s))
       THEN Becomes(r, [me EXCEPT !.pc = "judged", !.locks = {me.id} \intersect row[s]])
       ELSE Returns(r)
    /\ UNCHANGED row

\* ... then inserts it, or overwrites what is there by now.
Insert(r) ==
    LET me == call[r]
        s  == me.session IN
    /\ me.pc = "judged"
    /\ ~ LockedAway(r, s, me.id)
    /\ Becomes(r, [me EXCEPT !.pc = "putting", !.locks = @ \union {me.id},
                             !.todo = row[s] \ {me.id}])
    /\ UNCHANGED row

\* ... and commits, when every row of the session is touched.
CommitPut(r) ==
    LET me == call[r] IN
    /\ me.pc = "putting"
    /\ me.todo = {}
    /\ row' = [row EXCEPT ![me.session] = @ \union {me.id}]
    /\ Returns(r)

-----------------------------------------------------------------------------
(* Resetting *)

\* replace_session: the seed is within the caps, and a session that is new may be opened.
Reset(r, s, seed) ==
    /\ call[r].pc = "idle"
    /\ Cardinality(seed) <= MaxResources
    /\ seed # {} => MayOpen(s)
    /\ Becomes(r, [Idle EXCEPT !.pc = "resetting", !.session = s, !.seed = seed])
    /\ UNCHANGED row

\* The DELETE sees the rows of now ...
Clear(r) ==
    /\ call[r].pc = "resetting"
    /\ Becomes(r, [call[r] EXCEPT !.pc = "clearing", !.todo = row[call[r].session]])
    /\ UNCHANGED row

\* ... and when they are deleted, the new ones are inserted.
Seed(r) ==
    LET me == call[r] IN
    /\ me.pc = "clearing"
    /\ me.todo = {}
    /\ Becomes(r, [me EXCEPT !.pc = "seeding", !.todo = me.seed \ me.locks])
    /\ UNCHANGED row

\* Mutant of AfterReset: the seed is added to what is there.
SeedAdded(r) == row[call[r].session] \union call[r].seed

AfterReset(r) == (row[call[r].session] \ call[r].locks) \union call[r].seed

CommitReset(r) ==
    LET me == call[r] IN
    /\ me.pc = "seeding"
    /\ me.todo = {}
    /\ row' = [row EXCEPT ![me.session] = AfterReset(r)]
    /\ call' = Forgetting([call EXCEPT ![r] = Idle], me.session, me.locks)

-----------------------------------------------------------------------------
(* What ends without being finished *)

\* Nobody used the session for ttl_seconds (_purge_expired).  Rows that a transaction has written
\* or is touching live on.  Every method begins with this purge, of all sessions, and holds the
\* rows it deletes until it commits; here it commits at once, so nothing is said of requests
\* that wait for the purge of another.
Expire(s) ==
    LET kept == {i \in row[s] : \E r \in Request : call[r].session = s /\ i \in Held(call[r])} IN
    /\ row[s] # kept
    /\ row' = [row EXCEPT ![s] = kept]
    /\ call' = Forgetting(call, s, row[s] \ kept)

\* The client goes away, or the process dies: the open transaction is rolled back.
Drop(r) ==
    /\ call[r].pc # "idle"
    /\ Returns(r)
    /\ UNCHANGED row

\* The rows request r cannot go on without.
Needs(r) ==
    CASE call[r].pc = "ready"  -> {call[r].id} \intersect row[call[r].session]
      [] call[r].pc = "judged" -> {call[r].id}
      [] OTHER                 -> call[r].todo

\* Every row r still needs is with another request of ring, which waits in the same way.
Deadlocked(ring) ==
    \A r \in ring :
        /\ Needs(r) # {}
        /\ \A i \in Needs(r) : \E q \in ring \ {r} :
              call[q].session = call[r].session /\ i \in Held(call[q])

\* The database aborts one of a ring of transactions that wait for each other; the request
\* fails.
Abort(r) ==
    /\ \E ring \in SUBSET Request : r \in ring /\ Deadlocked(ring)
    /\ Returns(r)
    /\ UNCHANGED row

-----------------------------------------------------------------------------
Continue(r) ==
    \/ \E i \in Id : Lock(r, i)
    \/ Commit(r)
    \/ Judge(r)
    \/ Insert(r)
    \/ CommitPut(r)
    \/ Clear(r)
    \/ Seed(r)
    \/ CommitReset(r)

MockNext ==
    \/ \E r \in Request, s \in Session :
         \/ \E put \in BOOLEAN : Allocate(r, s, put)
         \/ \E put \in BOOLEAN, i \in IdOf(s) : Read(r, s, i, put)
         \/ \E i \in IdOf(s) : Delete(r, s, i)
         \/ \E seed \in SUBSET IdOf(s) : Reset(r, s, seed)
    \/ \E r \in Request : Continue(r) \/ Abort(r) \/ Drop(r)
    \/ \E s \in Session : Expire(s)

MockSpec == MockInit /\ [][MockNext]_mockVars

\* The database grants a lock to those who wait for it in turn, and breaks deadlocks.
MockFairSpec ==
    /\ MockSpec
    /\ \A r \in Request : SF_mockVars(Continue(r)) /\ WF_mockVars(Abort(r))

-----------------------------------------------------------------------------
(* Properties *)

\* The caps are checked by counting committed rows, so requests at once can exceed them
\* (put_resource); but each of them by no more than it brings, however sessions expire and
\* come back, and are reset, in between.
ResourceOvershoot ==
    \A s \in Session : Cardinality(row[s]) <= MaxResources * Cardinality(Request)

\* ... and the cap on sessions by one for each other request that is open.
SessionOvershoot == Cardinality(Active) + 1 <= MaxSessions + Cardinality(Request)

\* Every request ends, though puts and reads of one session lock its rows in any order and
\* wait for each other: some of them because the database aborts them.
SessionRequestsEnd == \A r \in Request : []<>(call[r].pc = "idle")

-----------------------------------------------------------------------------
(* The inductive invariant of ResourceOvershoot and SessionOvershoot *)

\* What a request is going to put or to seed is its session's.
RequestSound(c) ==
    /\ c.session = NoSession <=> c.pc = "idle"
    /\ c.pc \in {"ready", "judged", "putting"} => c.put
    /\ c.put => c.session \in Session /\ c.id \in IdOf(c.session)
    /\ c.seed # {} => c.session \in Session /\ c.seed \subseteq IdOf(c.session)

\* The request has been allowed to open its session.
Opening(c) ==
    \/ c.pc \in {"judged", "putting"}
    \/ c.pc \in {"resetting", "clearing", "seeding"} /\ c.seed # {}

\* The sessions that have rows, or may have as soon as a request commits.
Opened == Active \union {call[r].session : r \in {q \in Request : Opening(call[q])}}

\* Counted with those that are about to be opened, there are never too many sessions: what
\* SessionOvershoot follows from.
SessionsCounted ==
    /\ MockTypeOK
    /\ \A r \in Request : RequestSound(call[r])
    /\ IsFiniteSet(Opened)
    /\ Cardinality(Opened) + 1 <= MaxSessions + Cardinality(Request)

\* A request has the row it deletes or puts, and one that overwrites finds it there until it
\* commits; what it seeds was within the cap.
RowsSound(r) ==
    LET c == call[r] IN
    /\ Cardinality(c.seed) <= MaxResources
    /\ c.pc \in {"deleting", "putting"} => c.id \in c.locks
    /\ c.pc = "judged" /\ c.locks # {} => c.locks = {c.id} /\ c.id \in row[c.session]

\* The requests that were allowed one more row of s and have not committed it,
Adding(s) ==
    {r \in Request : /\ call[r].session = s
                     /\ \/ call[r].pc = "judged" /\ call[r].locks = {}
                        \/ call[r].pc = "putting" /\ call[r].id \notin row[s]}

\* ... those that reset s and have seen its rows, and the rows that one of them has deleted or
\* is going to.
Resetting(s) == {r \in Request : call[r].session = s /\ call[r].pc \in {"clearing", "seeding"}}
Doomed(c) == c.locks \union {i \in c.todo : c.pc = "clearing"}

\* The rows of s once the requests C have reset it.
Spared(s, C) == {i \in row[s] : \A r \in C : i \notin Doomed(call[r])}

\* Whichever of the resets commit, there is room for their seeds and for the rows that are
\* about to be added.
RoomFor(s, C) ==
    Cardinality(Spared(s, C)) + MaxResources * Cardinality(C) + Cardinality(Adding(s))
        <= MaxResources * Cardinality(Request)

ResourcesCounted ==
    /\ \A r \in Request : RowsSound(r)
    /\ \A s \in Session : \A C \in SUBSET Resetting(s) : RoomFor(s, C)

\* Sessions and resources are counted with those that are on their way, in every reachable
\* state.
MockInvariant == SessionsCounted /\ ResourcesCounted
=============================================================================
