--------------------------- MODULE MCMockSessionIds ---------------------------
(* Model values for model-checking MockSessionIds. *)
EXTENDS MockSessionIds

CONSTANTS r1, s1

OneRequest == {r1}
OneSession == {s1}
ThreeIds   == [s \in Session |-> 3]
=============================================================================
