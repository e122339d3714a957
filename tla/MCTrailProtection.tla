------------------------- MODULE MCTrailProtection -------------------------
(* Instances of TrailProtection for TLC. *)
EXTENDS TrailProtection
OnePrice == {1}
TwoPrices == {1, 2}
=============================================================================
