------------------------- MODULE MCServiceResolution -------------------------
(***************************************************************************)
(* Resolutions for model checking: every list of up to three of two        *)
(* services, which lists none, one twice, and lacks the one wanted.        *)
(***************************************************************************)
EXTENDS ServiceResolution

CONSTANTS s1, s2

AnyList == UNION {[1..n -> Service] : n \in 0..3}

AnyGoal == {All, s1}
=============================================================================
