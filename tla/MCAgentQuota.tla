----------------------------- MODULE MCAgentQuota -----------------------------
(* Model values, tiers and symmetry for model-checking AgentQuota. *)
EXTENDS AgentQuota, TLC

CONSTANTS p1, p2, c1, c2, c3, c4, free, paced, open

OneProcess   == {p1}
TwoProcesses == {p1, p2}
ThreeCalls   == {c1, c2, c3}
FourCalls    == {c1, c2, c3, c4}
ThreeTiers   == {free, paced, open}

\* The free tier has both caps, the others a rate and none.
DailyOf == [t \in Tier |-> IF t = free THEN 1 ELSE 0]
RateOf  == [t \in Tier |-> IF t = open THEN 0 ELSE 1]

OnceAtOne == {1}

\* Bound: the tenant begins on a tier that has a rate, and changes to the free or the open one.
Licenses ==
    /\ changed = 0 => tier # open
    /\ changed > 0 => tier # paced

SymmetricAll == Permutations(Process) \union Permutations(Call)
=============================================================================
