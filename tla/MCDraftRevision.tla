-------------------------- MODULE MCDraftRevision --------------------------
(* Model values for model-checking DraftRevision. *)
EXTENDS DraftRevision

CONSTANTS p1, p2, ann, bob, old, new

TwoReplicas == {p1, p2}
TwoUsers    == {ann, bob}
TwoContents == {old, new}
=============================================================================
