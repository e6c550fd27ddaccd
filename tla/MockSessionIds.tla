----------------------------- MODULE MockSessionIds -----------------------------
(* The ids of MockSession, with a history of those that were allocated. *)
EXTENDS MockSession

VARIABLE given    \* session -> the last id allocated since it began

\* A session begins anew when it is reset, and when its rows expire.
Renewed(s) ==
    \/ \E r \in Request : call[r].pc = "seeding" /\ call[r].session = s /\ call'[r].pc = "idle"
    \/ row[s] # {} /\ row'[s] = {} /\ \A r \in Request : call'[r].pc = call[r].pc

\* A request of the session is given an id.
Allocated(s) ==
    {call'[r].id : r \in {q \in Request :
        call[q].pc = "idle" /\ call'[q].pc = "allocating" /\ call'[q].session = s}}

IdsInit == MockInit /\ given = [s \in Session |-> 0]

IdsNext ==
    /\ MockNext
    /\ given' = [s \in Session |-> IF Renewed(s) THEN 0
                                   ELSE IF Allocated(s) # {} THEN Max(Allocated(s))
                                   ELSE given[s]]

IdsSpec == IdsInit /\ [][IdsNext]_<<mockVars, given>>

\* next_integer_id allocates "a monotonic integer id" (session_store.py:96): as long as the
\* session lives, each is greater than the last.  The store of one process counts them; the
\* shared store looks for the highest row there is.
AllocatedIdsIncrease ==
    [][\A s \in Session : \A n \in Allocated(s) : n > given[s]]_<<mockVars, given>>
=============================================================================
