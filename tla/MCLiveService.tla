--------------------------- MODULE MCLiveService ---------------------------
(* Instances of LiveService for TLC. *)
EXTENDS LiveService
CONSTANT a
A == {a}
=============================================================================
