---------------------------- MODULE MCMockSession ----------------------------
(* Model values for model-checking MockSession. *)
EXTENDS MockSession

CONSTANTS r1, r2, s1, s2, s3

TwoRequests   == {r1, r2}
ThreeSessions == {s1, s2, s3}

\* The first session may grow beyond its cap; the others only are there or not.
OneLarge == [s \in Session |-> IF s = s1 THEN 3 ELSE 1]
=============================================================================
