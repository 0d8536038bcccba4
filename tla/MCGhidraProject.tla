--------------------------- MODULE MCGhidraProject ---------------------------
EXTENDS GhidraProject, TLC

CONSTANTS first, edited, other, b1, b2

(* The same build with two catalogs, and another build. *)
MCKeys == {first, edited, other}
MCBuilds == {b1, b2}
MCBuildOf == (first :> b1) @@ (edited :> b1) @@ (other :> b2)

(* The two catalogs of build b1 are interchangeable. *)
Symmetry == Permutations({first, edited})
===============================================================================
