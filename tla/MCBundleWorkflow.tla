-------------------------- MODULE MCBundleWorkflow --------------------------
(* Small instances of BundleWorkflow for TLC. *)
EXTENDS BundleWorkflow, TLC

\* Bundles that start the same way are alike, as sessions and actors are.
Alike ==
    UNION {Permutations(them) :
              them \in {Sessions, Actors, Defaults, Approved, Authored \ Approved}}
=============================================================================
