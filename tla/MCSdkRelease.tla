---------------------------- MODULE MCSdkRelease ----------------------------
(* Model values and symmetry for model-checking SdkRelease. *)
EXTENDS SdkRelease, TLC

CONSTANTS w1, w2, k1, npm, r1, r2

OneWorker  == {w1}
TwoWorkers == {w1, w2}
OneEvent   == {k1}
OnePackage == {npm}
TwoRuns    == {r1, r2}
TwoCounters == 0..1
ThreeTokens == 1..3

Registry  == {<<"registry", FALSE>>}
BothOrDry == {<<"registry_and_git", FALSE>>, <<"registry_and_git", TRUE>>}

\* Bound: one manual retry or one fault, not both; and a job a person retries was dead-lettered
\* at its first attempt and is attempted once more.
OneTrouble ==
    /\ bounds.faults + bounds.retries <= 1
    /\ bounds.retries = 1 => \A j \in Job : job[j].attempts <= 1

SymmetricAll == Permutations(Worker) \union Permutations(Run)
=============================================================================
