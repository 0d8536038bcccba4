------------------------------ MODULE SharedNames ------------------------------
(***************************************************************************)
(* The names under which the two programs show functions and data          *)
(* (reccmp/ghidriff/names.py, and _apply_names of engine.py): the text of  *)
(* a function is compared under them, so a name on both sides says that    *)
(* it is the same thing.                                                   *)
(*                                                                         *)
(* A manifest has pairs [orig, recomp, name, kind], unpaired [image, at,   *)
(* name, kind] and aliases [image, at, of]; a name that is shown is        *)
(* <<name>>, <<name, address>> or <<"ICF", body>>.  "body" gives the bytes *)
(* of the small functions without references, by image and address.        *)
(***************************************************************************)
EXTENDS Integers, FiniteSets, Sequences

CONSTANTS None, Literals, Unnamed, FunctionKinds

Sides == {"orig", "recomp"}
At(pair, image) == IF image = "orig" THEN pair.orig ELSE pair.recomp

(* canonical_names *)
CanonicalName(m, pair) ==
    IF \A other \in m.pairs : other.name = pair.name => other = pair
      THEN <<pair.name>> ELSE <<pair.name, pair.orig>>

(* unpaired_names *)
UnpairedName(m, entity) ==
    LET unique == \A other \in m.unpaired :
                    other.image = entity.image /\ other.name = entity.name /\ other.kind \notin Literals => other = entity
        shared == {CanonicalName(m, p) : p \in m.pairs}
    IN IF unique /\ <<entity.name>> \notin shared THEN <<entity.name>> ELSE <<entity.name, entity.at>>

(* A later rename of an address, f, replaces an earlier one. *)
Over(f, g) == [x \in DOMAIN f \cup DOMAIN g |-> IF x \in DOMAIN f THEN f[x] ELSE g[x]]

(* _apply_names: an alias has the name of its pair, where the pair has one;  *)
(* what is inside a paired object has no name of its own.                    *)
Aliased(m, image) == {a \in m.aliases : a.image = image /\ \E p \in m.pairs : p.orig = a.of}
Alone(m, image) ==
    {u \in m.unpaired : u.image = image /\ u.name # None /\ u.kind \notin Literals /\ u.at \notin m.interior}
Named(m) == {p \in m.pairs : p.kind \notin Unnamed}

AliasNames(m, image) ==
    LET pair(a) == CHOOSE p \in m.pairs : p.orig = a.of
    IN [x \in {a.at : a \in Aliased(m, image)} |->
           CanonicalName(m, pair(CHOOSE a \in Aliased(m, image) : a.at = x))]
OwnNames(m, image) ==
    [x \in {u.at : u \in Alone(m, image)} |-> UnpairedName(m, CHOOSE u \in Alone(m, image) : u.at = x)]
PairNames(m, image) ==
    [x \in {At(p, image) : p \in Named(m)} |-> CanonicalName(m, CHOOSE p \in Named(m) : At(p, image) = x)]

Applied(m, image) == Over(AliasNames(m, image), Over(OwnNames(m, image), PairNames(m, image)))

-------------------------------------------------------------------------------
(* name_identical_code: bytes that both programs have are the same function *)
(* however the linkers folded them; they take the name of the one pair with *)
(* them, or, with the pairs that have them, one of their own.               *)
Entries(m, image) ==
    {At(p, image) : p \in {q \in m.pairs : q.kind \in FunctionKinds}}
    \cup {a.at : a \in {b \in m.aliases : b.image = image}}

SameBytes(m, body, bytes) ==
    {p \in m.pairs :
       /\ p.kind \in FunctionKinds
       /\ p.orig \in DOMAIN body["orig"] /\ p.recomp \in DOMAIN body["recomp"]
       /\ body["orig"][p.orig] = bytes /\ body["recomp"][p.recomp] = bytes}

Bodies(body, image) == {body[image][a] : a \in DOMAIN body[image]}

IdenticalCode(m, body, image) ==
    LET pairs(a) == SameBytes(m, body, body[image][a])
        ambiguous(a) == Cardinality(pairs(a)) > 1 /\ \E p \in pairs(a) : At(p, image) = a
        renamed == {a \in DOMAIN body[image] :
                      /\ \A i \in Sides : body[image][a] \in Bodies(body, i)
                      /\ a \in Entries(m, image) => ambiguous(a)}
    IN [a \in renamed |-> IF Cardinality(pairs(a)) = 1 THEN CanonicalName(m, CHOOSE p \in pairs(a) : TRUE)
                          ELSE <<"ICF", body[image][a]>>]

Shown(m, body, image) == Over(IdenticalCode(m, body, image), Applied(m, image))

-------------------------------------------------------------------------------
(* What build_manifest (reccmp/compare/manifest.py) and Ghidra make of the   *)
(* catalog: each address is in one pair at most, and is an alias, paired or *)
(* neither; Ghidra has no function at paired data; nothing in the source is *)
(* called "ICF".                                                            *)
WellFormed(m, body) ==
    /\ IsFiniteSet(m.pairs)
    /\ \A p, q \in m.pairs : p.orig = q.orig \/ p.recomp = q.recomp => p = q
    /\ \A p \in m.pairs, image \in Sides :
         /\ \A u \in m.unpaired \cup m.aliases : u.image = image => u.at # At(p, image)
         /\ At(p, image) \in DOMAIN body[image] => p.kind \in FunctionKinds
    /\ \A u \in m.unpaired, a \in m.aliases : u.image = a.image => u.at # a.at
    /\ \A x \in m.pairs \cup m.unpaired : x.name # "ICF"

(* A pair has one name in both programs, and what has one name in both is   *)
(* one pair or stands for it, as an alias or with its very bytes; or two    *)
(* unpaired things that the source itself calls alike.  Addresses tell      *)
(* names apart within one program only: where the programs overlap, an      *)
(* unpaired thing of the recompiled one can have the name of a pair with    *)
(* the same source name, if it is at the original address of that pair.     *)
StandsFor(m, body, image, a) ==
    {p \in m.pairs : At(p, image) = a \/ \E x \in m.aliases : x.image = image /\ x.at = a /\ x.of = p.orig}
    \cup (IF a \in DOMAIN body[image] THEN SameBytes(m, body, body[image][a]) ELSE {})

SameBody(body, a, b) ==
    a \in DOMAIN body["orig"] /\ b \in DOMAIN body["recomp"] /\ body["orig"][a] = body["recomp"][b]

NamesCorrespond(m, body) ==
    LET orig == Shown(m, body, "orig")
        recomp == Shown(m, body, "recomp")
    IN /\ \A p \in Named(m) : orig[p.orig] = recomp[p.recomp]
       /\ \A a \in DOMAIN orig, b \in DOMAIN recomp : orig[a] = recomp[b] =>
            \/ StandsFor(m, body, "orig", a) \cap StandsFor(m, body, "recomp", b) # {}
            \/ SameBody(body, a, b)
            \/ StandsFor(m, body, "orig", a) = {} /\ StandsFor(m, body, "recomp", b) = {}
            \/ StandsFor(m, body, "recomp", b) = {} /\ \E p \in m.pairs : p.orig = b /\ orig[a] = <<p.name, b>>
===============================================================================
