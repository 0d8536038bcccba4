------------------------------ MODULE PairCatalog ------------------------------
(***************************************************************************)
(* What the catalog of reccmp/compare/db.py promises its readers: a        *)
(* growing one-to-one correspondence between the addresses of two images,  *)
(* each pair with the basis it was made on, together with alias edges from *)
(* unpaired addresses to a pair, until the whole is sealed.                *)
(***************************************************************************)
CONSTANTS Addrs, Bases

Sides == {"orig", "recomp"}
Pair == [orig : Addrs, recomp : Addrs, basis : Bases]
Alias == [side : Sides, addr : Addrs, of : Addrs]

VARIABLES
    pairs,      \* the pairs made so far
    edges,      \* the alias edges; "of" is the original address of a pair
    sealed

vars == <<pairs, edges, sealed>>

At(p, s) == IF s = "orig" THEN p.orig ELSE p.recomp
Paired(ps, s, a) == \E p \in ps : At(p, s) = a

OneToOne(ps) == \A p, q \in ps : (p.orig = q.orig \/ p.recomp = q.recomp) => p = q

Init == pairs = {} /\ edges = {} /\ sealed = FALSE

(* Pairs are only added; an address that joins a pair stops being an alias. *)
AddPairs ==
    /\ ~sealed
    /\ pairs' \in SUBSET Pair
    /\ pairs \subseteq pairs'
    /\ OneToOne(pairs')
    /\ edges' = {e \in edges : ~Paired(pairs', e.side, e.addr)}
    /\ UNCHANGED sealed

(* An unpaired address may name one pair, once. *)
AddAlias(e) ==
    /\ ~sealed
    /\ ~Paired(pairs, e.side, e.addr)
    /\ Paired(pairs, "orig", e.of)
    /\ \A f \in edges : <<f.side, f.addr>> # <<e.side, e.addr>>
    /\ edges' = edges \cup {e}
    /\ UNCHANGED <<pairs, sealed>>

Seal ==
    /\ ~sealed
    /\ sealed' = TRUE
    /\ UNCHANGED <<pairs, edges>>

Next == AddPairs \/ (\E e \in Alias : AddAlias(e)) \/ Seal

Spec == Init /\ [][Next]_vars
================================================================================
