------------------------------ MODULE TableSlots -------------------------------
(***************************************************************************)
(* Whether two paired virtual tables agree (reccmp/compare/vtables.py),    *)
(* slot by slot through the jumps in front of a function                   *)
(* (thunk_resolve.py).  A table is given by the words from its address on; *)
(* the sizes count words, "size" and "limit" of the original may be None.  *)
(***************************************************************************)
EXTENDS DerivedPairs

CONSTANTS MaxHops

(* effective_orig_vtable_size: up to the last function before the first     *)
(* word that cannot be one.                                                 *)
Plausible(db, w, image, target) ==
    \/ target = 0
    \/ target \in w[image].code
    \/ target \in DOMAIN db.rows[image] /\ db.rows[image][target].type \in {"function", "thunk", "import"}

EffectiveSize(db, w, table, size) ==
    LET word(i) == w["orig"].word[table + i - 1]
        prefix == {n \in 1 .. size : \A i \in 1 .. n : Plausible(db, w, "orig", word(i))}
        functions == {i \in prefix : word(i) # 0}
    IN IF functions = {} THEN size ELSE Max(functions)

OriginalSize(db, w, table) ==
    LET known == IF table.size = None THEN table.recompSize ELSE table.size
        limited == IF table.limit = None THEN known ELSE Min({known, table.limit})
    IN EffectiveSize(db, w, table.orig, limited)

-------------------------------------------------------------------------------
(* resolve_vtable_slot: a walk along the references of thunks and along     *)
(* jumps, to a function, or to the last row on the way.                     *)
Step(db, w, image, walk) ==
    LET rows == db.rows[image]
        row == IF walk.at \in DOMAIN rows THEN rows[walk.at] ELSE None
        seen == IF row = None THEN walk.last ELSE walk.at
        ref == IF row # None /\ row.type = "thunk" THEN row.ref ELSE None
        jump == IF walk.at \in DOMAIN w[image].jump THEN w[image].jump[walk.at] ELSE None
    IN CASE walk.done -> walk
         [] ~walk.done /\ row # None /\ row.type = "function" -> [walk EXCEPT !.last = seen, !.done = TRUE]
         [] ~walk.done /\ ref # None ->
              IF ref \in DOMAIN rows /\ rows[ref].type = "function"
                THEN [walk EXCEPT !.last = ref, !.done = TRUE]
                ELSE [walk EXCEPT !.last = seen, !.at = ref]
         [] OTHER -> [at |-> IF jump = None THEN walk.at ELSE jump, last |-> seen, done |-> jump \in {None, walk.at}]

Resolve(db, w, image, target) ==
    FoldLeft(LAMBDA walk, hop : Step(db, w, image, walk), [at |-> target, last |-> None, done |-> FALSE],
             [i \in 1 .. MaxHops |-> i]).last

-------------------------------------------------------------------------------
(* _same_return_only_body *)
ReturnsOnly(db, w, o, r) ==
    /\ o # None /\ r # None
    /\ db.rows["orig"][o].type = "function" /\ db.rows["recomp"][r].type = "function"
    /\ w["recomp"].text[r] \in {"ret", "ret 4"}
    /\ w["orig"].text[o] = w["recomp"].text[r]

(* _slot_status *)
SlotStatus(db, w, raw, o, r) ==
    LET rows == o # None /\ r # None IN
    CASE raw.orig = None \/ raw.recomp = None -> "different"
      [] raw.orig # None /\ raw.recomp # None /\ rows /\ (<<o, r>> \in db.pairs \/ Canonical(db, "recomp", r) = raw.orig) ->
           "match"
      [] OTHER ->
           IF rows /\ o \in Paired(db, "orig") /\ r \in Paired(db, "recomp") THEN "different"
           ELSE IF ReturnsOnly(db, w, o, r) THEN "code-equivalent" ELSE "unpaired"

(* compare_vtable: the nulls behind the rebuilt table are padding, and a    *)
(* null in the original stands for any function.                            *)
CompareTable(db, w, table) ==
    LET size == OriginalSize(db, w, table)
        word(image, at, i) == w[image].word[at + i - 1]
        padding(n) == \A i \in n + 1 .. table.recompSize : i > size /\ word("recomp", table.recomp, i) = 0
        length == Min({n \in 0 .. table.recompSize : padding(n)})
        raw(i) == [orig |-> IF i <= size THEN word("orig", table.orig, i) ELSE None,
                   recomp |-> IF i <= length THEN word("recomp", table.recomp, i) ELSE None]
        row(image, target) == IF target = None THEN None ELSE Resolve(db, w, image, target)
    IN [i \in 1 .. Max({size, length}) |->
          IF raw(i).orig = 0 THEN "match"
          ELSE SlotStatus(db, w, raw(i), row("orig", raw(i).orig), row("recomp", raw(i).recomp))]

-------------------------------------------------------------------------------
(* What a slot leads to in the end. *)
RECURSIVE Landing(_, _, _)
Landing(w, image, target) ==
    IF target \in DOMAIN w[image].jump THEN Landing(w, image, w[image].jump[target]) ELSE target

(* With pairs that are true, a slot that counts as equal leads to the same  *)
(* function or to the same empty body in both tables, one that leads to the *)
(* same function never counts as different, and no function the rebuilt     *)
(* table has beyond the original's escapes.                                 *)
SlotsAreTold(is, db, w, table) ==
    LET told == CompareTable(db, w, table)
        o(i) == Landing(w, "orig", w["orig"].word[table.orig + i - 1])
        r(i) == Landing(w, "recomp", w["recomp"].word[table.recomp + i - 1])
        size == OriginalSize(db, w, table)
        empty(i) == w["orig"].text[o(i)] = w["recomp"].text[r(i)] /\ w["recomp"].text[r(i)] # "other"
    IN /\ \A i \in 1 .. Min({size, table.recompSize, Len(told)}) :
            /\ told[i] \in {"match", "code-equivalent"} /\ w["orig"].word[table.orig + i - 1] # 0 =>
                 Same(is, o(i), r(i)) \/ empty(i)
            /\ told[i] = "different" => ~Same(is, o(i), r(i))
       /\ \A i \in 1 .. table.recompSize :
            r(i) # 0 /\ i > size => i \in DOMAIN told /\ told[i] = "different"
===============================================================================
