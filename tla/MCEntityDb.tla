------------------------------ MODULE MCEntityDb ------------------------------
EXTENDS BatchCommit, TLC

(* Addresses are only compared for equality and the two bases are           *)
(* interchangeable; every property is symmetric in both.                    *)
Symmetry == Permutations(Bases) \cup Permutations(Addrs)
===============================================================================
