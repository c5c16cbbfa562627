-------------------------- MODULE MCZoneController --------------------------
(* Two tracks, so that one can block the release of the gate after the     *)
(* other has left.  Frames one or two seconds apart and thresholds of one  *)
(* to three seconds, so that every period can run on, be interrupted or be *)
(* outrun by a single gap.                                                 *)
EXTENDS ZoneController, TLC

CONSTANTS a, b

BothIds == {a, b}
Symmetry == Permutations(BothIds)
=============================================================================
