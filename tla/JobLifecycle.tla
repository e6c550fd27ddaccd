----------------------------- MODULE JobLifecycle -----------------------------
(***************************************************************************)
(* What a leased job queue promises about one row, whoever runs it.        *)
(*                                                                         *)
(* A job waits, is held under a claim nobody else has, and is closed.  A   *)
(* claim that outlives its lease is presumed lost; from then on only two   *)
(* things may happen to the job: the worker that still holds that very     *)
(* claim reports what really happened, or a person puts the job back.      *)
(* Once a job is final nothing touches it, and a claim that was given up   *)
(* never speaks for the job again.                                         *)
(*                                                                         *)
(* This is the lifecycle V258__sdk_regen_on_publish_4497.sql and the       *)
(* close-out statement of the queue describe; SdkRegen implements it.      *)
(***************************************************************************)
CONSTANTS Job, Token, NoToken

VARIABLES phase, holder

lifeVars == <<phase, holder>>

Open    == {"held", "presumed_lost"}
Phases  == {"absent", "waiting", "failed", "final"} \union Open

LifeInit ==
    /\ phase = [j \in Job |-> "absent"]
    /\ holder = [j \in Job |-> NoToken]

Move(j, from, to) == phase[j] \in from /\ phase' = [phase EXCEPT ![j] = to]

\* A claim takes a waiting job under a token that holds no other job.
Take(j) ==
    \E t \in Token :
        /\ \A i \in Job : holder[i] # t
        /\ Move(j, {"waiting"}, "held")
        /\ holder' = [holder EXCEPT ![j] = t]

\* Jobs appear together, one matrix at a time.
Add ==
    \E js \in SUBSET {j \in Job : phase[j] = "absent"} :
        /\ phase' = [j \in Job |-> IF j \in js THEN "waiting" ELSE phase[j]]
        /\ UNCHANGED holder

\* One sweep presumes any number of claims lost.
Presume ==
    \E js \in SUBSET {j \in Job : phase[j] = "held"} :
        /\ phase' = [j \in Job |-> IF j \in js THEN "presumed_lost" ELSE phase[j]]
        /\ UNCHANGED holder

\* The holder closes its attempt: try again later, give up, or be done.
Settle(j) ==
    /\ \E to \in {"waiting", "failed", "final"} : Move(j, Open, to)
    /\ UNCHANGED holder

\* A person puts a dead letter back.
PutBack(j) ==
    /\ Move(j, {"failed", "presumed_lost"}, "waiting")
    /\ UNCHANGED holder

LifeNext == Add \/ Presume \/ \E j \in Job : Take(j) \/ Settle(j) \/ PutBack(j)

LifeSpec == LifeInit /\ [][LifeNext]_lifeVars
=============================================================================
