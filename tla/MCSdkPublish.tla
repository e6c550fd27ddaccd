---------------------------- MODULE MCSdkPublish ----------------------------
(* Model values for model-checking SdkPublish. *)
EXTENDS SdkPublish

CONSTANTS p1, p2, a, r1, r2, r3

TwoPublishers == {p1, p2}
OneRelease    == {a}
ThreeRuns     == {r1, r2, r3}
=============================================================================
