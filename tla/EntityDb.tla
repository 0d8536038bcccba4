------------------------------- MODULE EntityDb -------------------------------
(***************************************************************************)
(* The entity catalog of reccmp/compare/db.py: the addresses known on each *)
(* image, the one-to-one pairs between the two images, the side-local      *)
(* aliases of a pair, and the batch through which every matching stage     *)
(* writes.  The facts stored at an address (name, size, ...) are payload:  *)
(* pairing never reads or moves them, so only the address is kept.         *)
(*                                                                         *)
(* Both images use the same numeric range (two PE files are usually linked *)
(* at the same base), so one set Addrs serves both sides.  The order of    *)
(* the addresses only matters to the range queries, which are not here.    *)
(***************************************************************************)
EXTENDS Naturals, Sequences, FiniteSets

CONSTANTS
    Addrs,      \* virtual addresses of either image
    Bases,      \* PairBasis: annotation, derived, content
    None,       \* Python's None, and "not in the dict"
    MaxStaged,  \* bound: pairs staged in one batch, or passed to bulk_match
    MaxRows     \* bound: rows staged in one batch

ASSUME CatalogAssumption ==
    /\ None \notin Addrs
    /\ None \notin Bases
    /\ MaxStaged \in Nat
    /\ MaxRows \in Nat

Sides == {"orig", "recomp"}
Pair == [orig : Addrs, recomp : Addrs, basis : Bases]

(* The sequences of pairs a stage may hand to the catalog. *)
PairLists(b) ==
    UNION {[1 .. n -> {p \in Pair : p.basis = b}] : n \in 1 .. MaxStaged}

VARIABLES
    present,    \* keys of _entities[side]
    indexed,    \* _addr_set[side], which _addr_order lists in order
    link,       \* the other address of the ReccmpMatch view stored in _entities
    matches,    \* _matches[side]
    basis,      \* _pair_basis, by original address
    aliases,    \* _aliases[side]: canonical original address
    frozen,     \* _frozen
    open,       \* a "with db.batch()" block is running
    rows,       \* EntityBatch._orig and _recomp
    staged      \* EntityBatch._matches

pairVars == <<link, matches, basis, aliases>>
catalog == <<present, indexed, pairVars, frozen>>
batch == <<open, rows, staged>>
vars == <<catalog, batch>>

TypeOK ==
    /\ present \in [Sides -> SUBSET Addrs]
    /\ indexed \in [Sides -> SUBSET Addrs]
    /\ link \in [Sides -> [Addrs -> Addrs \cup {None}]]
    /\ matches \in [Sides -> [Addrs -> Addrs \cup {None}]]
    /\ basis \in [Addrs -> Bases \cup {None}]
    /\ aliases \in [Sides -> [Addrs -> Addrs \cup {None}]]
    /\ frozen \in BOOLEAN
    /\ open \in BOOLEAN
    /\ rows \in [Sides -> SUBSET Addrs]
    /\ staged \in Seq(Pair)

-------------------------------------------------------------------------------
(* Lookups *)

(* The address pair p has on side s. *)
End(p, s) == IF s = "orig" THEN p.orig ELSE p.recomp
Far(p, s) == IF s = "orig" THEN p.recomp ELSE p.orig
Ends(ps, s) == {End(p, s) : p \in ps}

(* Mutant: only the original address is tested. *)
FreshByOrig(p) == matches["orig"][p.orig] = None

(* Mutant: a later pair replaces an earlier one between the same addresses. *)
FreshOrSame(p) ==
    \/ /\ matches["orig"][p.orig] = None
       /\ matches["recomp"][p.recomp] = None
    \/ matches["orig"][p.orig] = p.recomp

(* "Cannot replace existing match." *)
Fresh(p) ==
    /\ matches["orig"][p.orig] = None
    /\ matches["recomp"][p.recomp] = None

Collide(p, q) == p.orig = q.orig \/ p.recomp = q.recomp

(* Mutant: a rejected pair still uses up its addresses. *)
KeepsUncollided(list, K) ==
    \A i \in DOMAIN list :
        i \in K <=> \A j \in 1 .. i - 1 : ~Collide(list[i], list[j])

(* Mutant: the last use of an address wins. *)
KeepsLast(list, K) ==
    \A i \in DOMAIN list :
        i \in K <=> \A j \in K : j > i => ~Collide(list[i], list[j])

(* K indexes the pairs of list that are retained when each address may be   *)
(* used once and the first retained use wins.                               *)
KeepsFirst(list, K) ==
    \A i \in DOMAIN list :
        i \in K <=> \A j \in K : j < i => ~Collide(list[i], list[j])

(* The pairs of list that bulk_match installs: its loop tests every pair    *)
(* against the match maps it is filling.                                    *)
Accepts(list, K) ==
    \A i \in DOMAIN list :
        i \in K <=> /\ Fresh(list[i])
                    /\ \A j \in K : j < i => ~Collide(list[i], list[j])

(* get_one_match: reads the view stored in _entities, not the match map. *)
RealPair(c) == c \in present["orig"] /\ link["orig"][c] # None

(* alias_canonical_orig *)
Canonical(s, a) ==
    IF matches[s][a] # None
    THEN IF s = "orig" THEN a ELSE matches[s][a]
    ELSE aliases[s][a]

-------------------------------------------------------------------------------
Init ==
    /\ present = [s \in Sides |-> {}]
    /\ indexed = [s \in Sides |-> {}]
    /\ link = [s \in Sides |-> [a \in Addrs |-> None]]
    /\ matches = [s \in Sides |-> [a \in Addrs |-> None]]
    /\ basis = [a \in Addrs |-> None]
    /\ aliases = [s \in Sides |-> [a \in Addrs |-> None]]
    /\ frozen = FALSE
    /\ open = FALSE
    /\ rows = [s \in Sides |-> {}]
    /\ staged = <<>>

(* EntityBatch.reset, at the end of the with block. *)
CloseBatch ==
    /\ open' = FALSE
    /\ rows' = [s \in Sides |-> {}]
    /\ staged' = <<>>

OpenBatch ==
    /\ ~open
    /\ open' = TRUE
    /\ UNCHANGED <<catalog, rows, staged>>

(* EntityBatch.set and set_ref *)
BatchSet(s, a) ==
    /\ open
    /\ Cardinality(rows["orig"]) + Cardinality(rows["recomp"]) < MaxRows
    /\ rows' = [rows EXCEPT ![s] = @ \cup {a}]
    /\ UNCHANGED <<catalog, open, staged>>

(* Mutant: the pair is staged without its basis. *)
BatchMatchNoBasis(p) ==
    /\ open
    /\ Len(staged) < MaxStaged
    /\ staged' = Append(staged, [orig |-> p.orig, recomp |-> p.recomp])
    /\ UNCHANGED <<catalog, open, rows>>

(* EntityBatch.match: nothing is checked until the batch is committed. *)
BatchMatch(p) ==
    /\ open
    /\ Len(staged) < MaxStaged
    /\ staged' = Append(staged, p)
    /\ UNCHANGED <<catalog, open, rows>>

(* The body of bulk_match's loop, for the pairs ps it accepts. *)
PairUp(map, ps) ==
    [s \in Sides |-> [a \in Addrs |->
        IF a \in Ends(ps, s)
        THEN Far(CHOOSE p \in ps : End(p, s) = a, s)
        ELSE map[s][a]]]

(* Mutant: a view that is already in _entities is left alone. *)
NewViewsOnly(ps) ==
    [s \in Sides |-> [a \in Addrs |->
        IF a \in present[s] THEN link[s][a] ELSE PairUp(link, ps)[s][a]]]

Views(ps) == PairUp(link, ps)

(* Mutant: the alias of a newly paired address is not popped. *)
AliasesKept(ps) == aliases

AliasesLeft(ps) ==
    [s \in Sides |-> [a \in Addrs |->
        IF a \in Ends(ps, s) THEN None ELSE aliases[s][a]]]

Install(ps) ==
    /\ matches' = PairUp(matches, ps)
    /\ link' = Views(ps)
    /\ basis' = [a \in Addrs |->
          IF a \in Ends(ps, "orig")
          THEN (CHOOSE p \in ps : p.orig = a).basis
          ELSE basis[a]]
    /\ aliases' = AliasesLeft(ps)

(* bulk_insert of the staged rows, then bulk_match of the retained pairs.   *)
(* The retained pairs are disjoint, so the grouping by basis that commit    *)
(* does first cannot change which of them are accepted.                     *)
Commit ==
    /\ open
    /\ ~frozen
    /\ \E K \in SUBSET DOMAIN staged :
        /\ KeepsFirst(staged, K)
        /\ LET ps == {staged[i] : i \in {k \in K : Fresh(staged[k])}} IN
           /\ present' = [s \in Sides |->
                            present[s] \cup rows[s] \cup Ends(ps, s)]
           /\ indexed' = [s \in Sides |->
                            indexed[s] \cup rows[s] \cup Ends(ps, s)]
           /\ Install(ps)
    /\ CloseBatch
    /\ UNCHANGED frozen

(* The with block raised, or commit met a frozen catalog: bulk_insert and   *)
(* bulk_match raise before they write, and an empty batch calls neither.    *)
Abort ==
    /\ open
    /\ CloseBatch
    /\ UNCHANGED catalog

(* No stage calls bulk_match, set_alias or freeze while it holds a batch.   *)

(* bulk_match outside a batch (match_inferred_vtables_by_slots) *)
BulkMatch(list) ==
    /\ ~open
    /\ ~frozen
    /\ \E K \in SUBSET DOMAIN list :
        /\ Accepts(list, K)
        /\ LET ps == {list[i] : i \in K} IN
           /\ present' = [s \in Sides |-> present[s] \cup Ends(ps, s)]
           /\ indexed' = [s \in Sides |-> indexed[s] \cup Ends(ps, s)]
           /\ Install(ps)
    /\ UNCHANGED <<frozen, batch>>

(* Mutant: a second alias of the same address replaces the first. *)
SetAliasAgain(s, a, c) ==
    /\ ~open
    /\ ~frozen
    /\ matches[s][a] = None
    /\ RealPair(c)
    /\ a \in present[s]
    /\ aliases' = [aliases EXCEPT ![s][a] = c]
    /\ UNCHANGED <<present, indexed, link, matches, basis, frozen, batch>>

(* Mutant: the canonical address need not be a pair. *)
SetAliasToAnything(s, a, c) ==
    /\ ~open
    /\ ~frozen
    /\ matches[s][a] = None
    /\ a \in present[s]
    /\ aliases[s][a] = None
    /\ aliases' = [aliases EXCEPT ![s][a] = c]
    /\ UNCHANGED <<present, indexed, link, matches, basis, frozen, batch>>

(* set_alias when it returns True; it changes nothing when it returns False. *)
SetAlias(s, a, c) ==
    /\ ~open
    /\ ~frozen
    /\ matches[s][a] = None
    /\ RealPair(c)
    /\ a \in present[s]
    /\ aliases[s][a] = None
    /\ aliases' = [aliases EXCEPT ![s][a] = c]
    /\ UNCHANGED <<present, indexed, link, matches, basis, frozen, batch>>

Freeze ==
    /\ ~open
    /\ ~frozen
    /\ frozen' = TRUE
    /\ UNCHANGED <<present, indexed, pairVars, batch>>

Next ==
    \/ OpenBatch
    \/ \E s \in Sides, a \in Addrs : BatchSet(s, a)
    \/ \E p \in Pair : BatchMatch(p)
    \/ Commit
    \/ Abort
    \/ \E b \in Bases : \E list \in PairLists(b) : BulkMatch(list)
    \/ \E s \in Sides, a, c \in Addrs : SetAlias(s, a, c)
    \/ Freeze

Spec == Init /\ [][Next]_vars
-------------------------------------------------------------------------------
(* What the catalog promises *)

(* The two match maps are each other's inverse: no address of either image  *)
(* is in two pairs (EntityDb.bulk_match, EntityBatch._finalized_matches).   *)
OneToOne ==
    \A x, y \in Addrs : matches["orig"][x] = y <=> matches["recomp"][y] = x

(* The pairing has four copies: the match maps that bulk_match tests, the   *)
(* joined views that get_one_match and set_alias read, the basis map that   *)
(* the report prints and the address index that every iteration follows.    *)
(* They agree, whatever sequence of commits built them.                     *)
CopiesAgree ==
    /\ \A s \in Sides, a \in Addrs : link[s][a] = matches[s][a]
    /\ \A a \in Addrs : basis[a] # None <=> matches["orig"][a] # None
    /\ indexed = present
    /\ \A s \in Sides, a \in Addrs : matches[s][a] # None => a \in present[s]

(* An alias is a catalogued address outside every pair, and what it names   *)
(* is a pair: get_aliases never drops one, and "unexplained" plus aliases   *)
(* plus pairs count every address once (db.py set_alias, unexplained).      *)
AliasesNamePairs ==
    \A s \in Sides, a \in Addrs : aliases[s][a] # None =>
        /\ a \in present[s]
        /\ matches[s][a] = None
        /\ matches["orig"][aliases[s][a]] # None

(* A pair, once made, keeps its partner and its basis: no later stage can   *)
(* overrule an earlier one (bulk_match, "Cannot replace existing match").   *)
PairsAreFinal ==
    [][\A s \in Sides, a \in Addrs : matches[s][a] # None =>
          /\ matches'[s][a] = matches[s][a]
          /\ s = "orig" => basis'[a] = basis[a]]_vars

(* An address that resolves to a canonical original address goes on         *)
(* resolving; the answer changes only when the address itself is paired,    *)
(* and then it is that pair (alias_canonical_orig, the pops in bulk_match). *)
IdentityOnlySharpens ==
    [][\A s \in Sides, a \in Addrs : Canonical(s, a) # None =>
          \/ Canonical(s, a)' = Canonical(s, a)
          \/ /\ matches[s][a] = None
             /\ matches'[s][a] # None
             /\ aliases'[s][a] = None]_vars

(* A committed batch loses a staged pair only to a collision: with a pair   *)
(* the catalog held, or with a pair staged earlier in the batch.            *)
LostOnlyToCollision ==
    [][open /\ ~open' /\ catalog' # catalog =>
          \A i \in DOMAIN staged :
              \/ matches'["orig"][staged[i].orig] = staged[i].recomp
              \/ ~Fresh(staged[i])
              \/ \E j \in 1 .. i - 1 : Collide(staged[i], staged[j])]_vars

(* The catalog implements the growing one-to-one correspondence. *)
PairSet ==
    {[orig |-> x, recomp |-> matches["orig"][x], basis |-> basis[x]] :
        x \in {a \in Addrs : matches["orig"][a] # None}}

EdgeSet ==
    {[side |-> t[1], addr |-> t[2], of |-> aliases[t[1]][t[2]]] :
        t \in {u \in Sides \X Addrs : aliases[u[1]][u[2]] # None}}

Abstract == INSTANCE PairCatalog
    WITH pairs <- PairSet, edges <- EdgeSet, sealed <- frozen

ImplementsPairCatalog == Abstract!Spec
===============================================================================
