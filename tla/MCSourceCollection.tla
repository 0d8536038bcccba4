-------------------------- MODULE MCSourceCollection --------------------------
EXTENDS SourceCollection, TLC

CONSTANTS u1, u2, m1, m2, header

(* Two units that share a header. *)
MCUnits == {u1, u2}
MCFiles == {m1, m2, header}
MCMain == (u1 :> m1) @@ (u2 :> m2)
MCIncludes == (u1 :> {m1, header}) @@ (u2 :> {m2, header})

(* Collectors run the same code, and what a file holds is only compared. *)
Symmetry == Permutations(Collectors) \cup Permutations(Contents)
===============================================================================
