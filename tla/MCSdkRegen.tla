----------------------------- MODULE MCSdkRegen -----------------------------
(* Model values and symmetry for model-checking SdkRegen. *)
EXTENDS SdkRegen, TLC

CONSTANTS w1, w2, k1, k2, npm

OneWorker  == {w1}
TwoWorkers == {w1, w2}
OneEvent   == {k1}
TwoEvents  == {k1, k2}
OnePackage == {npm}

OneCounter  == {0}
TwoCounters == {0, 1}
GitOnly      == {<<"git", FALSE>>}
RegistryOnly == {<<"registry", FALSE>>}
DryAndReal   == {<<"git", FALSE>>, <<"registry_and_git", TRUE>>, <<"registry_and_git", FALSE>>}

FourTokens == 1..4
FiveTokens == 1..5

\* Bound: a job a person retries was dead-lettered at its first attempt, and is attempted once
\* more.
RetriedOnce == bounds.retries = 1 => \A j \in Job : job[j].attempts <= 1

SymmetricWorkers == Permutations(Worker)
=============================================================================
