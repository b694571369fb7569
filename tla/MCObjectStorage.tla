-------------------------- MODULE MCObjectStorage --------------------------
(***************************************************************************)
(* Instances of ObjectStorage for TLC.                                     *)
(***************************************************************************)
EXTENDS ObjectStorage, TLC

CONSTANTS q1, q2, q3, n1, n2

TwoRequests == {q1, q2}
ThreeRequests == {q1, q2, q3}
OneName == {n1}
TwoNames == {n1, n2}
UploadsOnly == {"upload"}
AllKinds == {"upload", "delete", "admin", "bucket"}

Symmetry == Permutations({q1, q2, q3})
=============================================================================
