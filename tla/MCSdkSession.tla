---------------------------- MODULE MCSdkSession ----------------------------
(***************************************************************************)
(* Instances of SdkSession for TLC.                                        *)
(***************************************************************************)
EXTENDS SdkSession, TLC

CONSTANTS u1, u2, c1, c2, c3

OneUser == {u1}
TwoUsers == {u1, u2}
TwoCalls == {c1, c2}
ThreeCalls == {c1, c2, c3}

Symmetry == Permutations({u1, u2}) \cup Permutations({c1, c2, c3})
=============================================================================
