---------------------------- MODULE MCAnchoring ----------------------------
(* Small instances of Anchoring for TLC. *)
EXTENDS Anchoring, TLC

Alike == Permutations(Jobs)
=============================================================================
