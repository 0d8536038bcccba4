----------------------------- MODULE DerivedPairs ------------------------------
(***************************************************************************)
(* What the matching stages derive from the pairs they have: virtual       *)
(* tables and static variables that are named by their class or function   *)
(* (reccmp/compare/match_msvc.py), exception handlers of paired functions  *)
(* (match_folded.py), tables with the same slots and functions that paired *)
(* callers call (analyze.py), and whether two paired tables agree          *)
(* (vtables.py, thunk_resolve.py).                                         *)
(*                                                                         *)
(* A catalog has the rows of each image by address, the pairs and the      *)
(* aliases; an image has the pointers and jumps at each address and the    *)
(* addresses that are code.                                                *)
(***************************************************************************)
EXTENDS Integers, FiniteSets, SequencesExt, TLC

CONSTANTS
    None,
    MinSlots,       \* pointers to code that make a table of a nameless run
    RegistrationReach

Images == {"orig", "recomp"}

PartnerOf(db, orig) ==
    IF \E p \in db.pairs : p[1] = orig THEN (CHOOSE p \in db.pairs : p[1] = orig)[2] ELSE None

OriginalOf(db, recomp) ==
    IF \E p \in db.pairs : p[2] = recomp THEN (CHOOSE p \in db.pairs : p[2] = recomp)[1] ELSE None

Paired(db, image) == {IF image = "orig" THEN p[1] ELSE p[2] : p \in db.pairs}
Unmatched(db, image) == DOMAIN db.rows[image] \ Paired(db, image)
Unexplained(db, image) == Unmatched(db, image) \ DOMAIN db.alias[image]

(* alias_canonical_orig *)
Canonical(db, image, address) ==
    CASE image = "orig" /\ address \in Paired(db, image) -> address
      [] image = "recomp" /\ address \in Paired(db, image) -> OriginalOf(db, address)
      [] OTHER -> IF address \in DOMAIN db.alias[image] THEN db.alias[image][address] ELSE None

(* bulk_match: a pair that claims an address of a pair is refused, another  *)
(* takes its addresses from the aliases.                                    *)
Pair(db, proposed) ==
    LET without(alias, a) == [b \in DOMAIN alias \ {a} |-> alias[b]]
        link(d, p) ==
          IF p[1] \in Paired(d, "orig") \/ p[2] \in Paired(d, "recomp") THEN d
          ELSE [d EXCEPT !.pairs = @ \cup {p},
                         !.alias = [i \in Images |-> without(@[i], IF i = "orig" THEN p[1] ELSE p[2])]]
    IN FoldLeft(link, db, proposed)

(* The commit of a batch: of two staged pairs that claim an address only    *)
(* the first is tried, whether the catalog then takes it or not.            *)
PairStaged(db, staged) ==
    LET claimed(kept, p) == \E q \in ToSet(kept) : q[1] = p[1] \/ q[2] = p[2]
    IN Pair(db, FoldLeft(LAMBDA kept, p : IF claimed(kept, p) THEN kept ELSE Append(kept, p), <<>>, staged))

(* set_alias *)
Alias(db, image, address, orig) ==
    IF address \in Paired(db, image) \cup DOMAIN db.alias[image] \/ orig \notin Paired(db, "orig") THEN db
    ELSE [db EXCEPT !.alias[image] = (address :> orig) @@ @]

InOrder(addresses) == SetToSortSeq(addresses, <)

-------------------------------------------------------------------------------
(* match_vtables: an annotation names a class and may name a base; a class  *)
(* with one table has it under its own name.                                *)
TableName(left, rows, class, base) ==
    LET named(b) == {r \in left : rows[r].class = class /\ rows[r].base = b}
        bare == IF base \in {None, class} THEN named(None) ELSE {}
    IN IF bare # {} THEN bare ELSE named(IF base = None THEN class ELSE base)

Candidates(row) == IF row.folded = <<>> THEN <<[class |-> row.class, base |-> row.base]>> ELSE row.folded

PairTables(db) ==
    LET rows == db.rows["recomp"]
        take(acc, orig) ==
          LET row == db.rows["orig"][orig]
              names == SelectSeq(Candidates(row), LAMBDA c : TableName(acc.left, rows, c.class, c.base) # {})
              table == Min(TableName(acc.left, rows, Head(names).class, Head(names).base))
          IN IF names = <<>> THEN acc
             ELSE [left |-> acc.left \ {table}, pairs |-> Append(acc.pairs, <<orig, table>>)]
        tables == {o \in Unmatched(db, "orig") : db.rows["orig"][o].type = "vtable" /\ ~db.rows["orig"][o].inferred}
    IN PairStaged(db, FoldLeft(take, [left |-> {r \in Unmatched(db, "recomp") : rows[r].type = "vtable"}, pairs |-> <<>>],
                         InOrder(tables)).pairs)

-------------------------------------------------------------------------------
(* match_static_variables: of a function by its marker, or by its symbol.   *)
RecompParent(db, variable) ==
    LET found == {r \in DOMAIN db.rows["recomp"] : db.rows["recomp"][r].symbol = variable.symbol} IN
    IF variable.parent # None THEN PartnerOf(db, variable.parent)
    ELSE IF variable.symbol # None /\ Cardinality(found) = 1 THEN CHOOSE r \in found : TRUE ELSE None

StaticKey(db, image, address) ==
    LET row == db.rows[image][address]
    IN <<IF image = "orig" THEN RecompParent(db, row) ELSE row.parent, row.name>>

PairStatics(db) ==
    LET of(image, key) ==
          {a \in Unmatched(db, image) : db.rows[image][a].type = "static" /\ StaticKey(db, image, a) = key}
        keys == {StaticKey(db, "orig", o) : o \in {a \in Unmatched(db, "orig") : db.rows["orig"][a].type = "static"}}
        paired == {k \in keys : k[1] # None /\ k[2] # None
                                /\ Cardinality(of("orig", k)) = 1 /\ Cardinality(of("recomp", k)) = 1}
    IN PairStaged(db, SetToSeq({<<Min(of("orig", k)), Min(of("recomp", k))>> : k \in paired}))

-------------------------------------------------------------------------------
(* create_seh_entities and match_seh: a handler that one place registers is *)
(* the nearest function's before it.                                        *)
ExceptionOwner(db, image, site) ==
    LET before == {f \in DOMAIN db.rows[image] : db.rows[image][f].type = "function" /\ f <= site}
    IN IF before = {} \/ site - Max(before) > RegistrationReach THEN None ELSE Max(before)

HandlersOf(db, w, image, function) ==
    {h \in ToSet(w[image].handlers) :
       /\ h.at \notin Paired(db, image)
       /\ Cardinality(h.sites) = 1
       /\ ExceptionOwner(db, image, CHOOSE s \in h.sites : TRUE) = function}

(* Actions of a state that is the only one with its target and its action.  *)
UnwindActions(unwinds) ==
    LET acting == {i \in DOMAIN unwinds : unwinds[i].action # 0}
        alone(i) == \A j \in acting \ {i} :
                      unwinds[i].state # unwinds[j].state /\ unwinds[i].action # unwinds[j].action
    IN [s \in {unwinds[i].state : i \in {j \in acting : alone(j)}} |->
          (CHOOSE u \in ToSet(unwinds) : u.state = s /\ u.action # 0).action]

HandlerPairs(orig, recomp) ==
    LET a == UnwindActions(orig.unwinds) b == UnwindActions(recomp.unwinds)
    IN <<<<orig.at, recomp.at>>, <<orig.info, recomp.info>>>>
         \o SetToSeq({<<a[s], b[s]>> : s \in DOMAIN a \cap DOMAIN b})

PairHandlers(db, w) ==
    LET owners == {o \in Paired(db, "orig") : db.rows["orig"][o].type = "function"}
        of(o) == LET a == HandlersOf(db, w, "orig", o) b == HandlersOf(db, w, "recomp", PartnerOf(db, o)) IN
                 IF Cardinality(a) = 1 /\ Cardinality(b) = 1
                   THEN HandlerPairs(CHOOSE h \in a : TRUE, CHOOSE h \in b : TRUE) ELSE <<>>
    IN PairStaged(db, FlattenSeq([i \in 1 .. Cardinality(owners) |-> of(InOrder(owners)[i])]))

-------------------------------------------------------------------------------
(* normalize_original_zero_size_data: labels in functions, jumps and tables *)
(* among the rows of the original that have no size.                        *)
Within(db, address) ==
    \E f \in DOMAIN db.rows["orig"] :
       LET row == db.rows["orig"][f] IN row.type = "function" /\ f < address /\ address < f + row.size

Run(image, address) ==
    CHOOSE n \in 0 .. Cardinality(DOMAIN image.word) :
       /\ \A i \in address .. address + n - 1 : i \in DOMAIN image.word /\ image.word[i] \in image.code
       /\ ~(address + n \in DOMAIN image.word /\ image.word[address + n] \in image.code)

ZeroSized(db, image, address) ==
    LET row == db.rows["orig"][address] IN
    CASE row.type # "data" \/ row.size # 0 \/ address \in Paired(db, "orig") -> row
      [] Within(db, address) -> [row EXCEPT !.type = "label"]
      [] ~Within(db, address) /\ address \in image.code ->
           IF address \in DOMAIN image.jump THEN [row EXCEPT !.type = "thunk", !.size = 5] ELSE row
      [] OTHER -> IF row.class # None /\ Run(image, address) >= MinSlots
                    THEN [row EXCEPT !.type = "vtable", !.size = Run(image, address), !.inferred = TRUE] ELSE row

NormalizeZeroSize(db, image) ==
    [db EXCEPT !.rows["orig"] = [a \in DOMAIN @ |-> ZeroSized(db, image, a)]]

(* _vtable_slot_identities: a slot without a canonical function spoils all. *)
SlotIdentities(db, w, image, address) ==
    LET words == [i \in 1 .. db.rows[image][address].size |-> w[image].word[address + i - 1]]
        known(t) == t = 0 \/ Canonical(db, image, t) # None
    IN IF \A i \in DOMAIN words : known(words[i])
         THEN [i \in DOMAIN words |-> IF words[i] = 0 THEN 0 ELSE Canonical(db, image, words[i])]
         ELSE None

Tables(db, image, addresses) == {a \in addresses : db.rows[image][a].type = "vtable"}

(* match_inferred_vtables_by_slots *)
InferredPairs(db, w) ==
    LET twins(o) == {r \in Tables(db, "recomp", Unexplained(db, "recomp")) :
                       /\ db.rows["recomp"][r].class = db.rows["orig"][o].class
                       /\ db.rows["recomp"][r].size = db.rows["orig"][o].size
                       /\ SlotIdentities(db, w, "recomp", r) = SlotIdentities(db, w, "orig", o)}
        sure == {o \in Tables(db, "orig", Unexplained(db, "orig")) :
                   /\ db.rows["orig"][o].inferred
                   /\ SlotIdentities(db, w, "orig", o) # None
                   /\ Cardinality(twins(o)) = 1}
    IN Pair(db, [i \in 1 .. Cardinality(sure) |-> <<InOrder(sure)[i], Min(twins(InOrder(sure)[i]))>>])

(* classify_exact_vtable_aliases: of a pair with the same name and bytes.   *)
ExactTableAliases(db, w, image) ==
    LET content(d, a) == <<d.rows[image][a].class,
                           [i \in 1 .. d.rows[image][a].size |-> w[image].word[a + i - 1]]>>
        tables == {a \in Paired(db, image) : db.rows[image][a].type = "vtable"}
        same(d, a) == {Canonical(d, image, t) : t \in {c \in tables : content(d, c) = content(d, a)}}
        copy(d, a) == IF Cardinality(same(d, a)) = 1 THEN Alias(d, image, a, Min(same(d, a))) ELSE d
    IN FoldLeft(copy, db, InOrder(Tables(db, image, Unexplained(db, image))))

(* classify_folded_vtable_aliases: of the only table with the same slots.   *)
FoldedTableAliases(db, w) ==
    LET slots(image, a) == SlotIdentities(db, w, image, a)
        originals(a) == {o \in Tables(db, "orig", DOMAIN db.rows["orig"]) :
                           slots("orig", o) # None /\ slots("orig", o) = slots("recomp", a)}
        fold(d, a) == IF Cardinality(originals(a)) = 1 THEN Alias(d, "recomp", a, Min(originals(a))) ELSE d
    IN FoldLeft(fold, db, InOrder(Tables(db, "recomp", Unexplained(db, "recomp"))))

DeriveTables(db, w) ==
    LET paired == InferredPairs(NormalizeZeroSize(db, w["orig"]), w)
    IN FoldedTableAliases(ExactTableAliases(ExactTableAliases(paired, w, "orig"), w, "recomp"), w)

-------------------------------------------------------------------------------
(* match_unpaired_direct_callees: a body is a sequence of [at, op, to].     *)
Calls(body) ==
    LET calls == SelectSeq(body, LAMBDA n : n.op = "call") IN [i \in DOMAIN calls |-> calls[i].to]

(* _trailing_called_funclet: what a body calls before a called function     *)
(* that follows a return within its extent, and that function.              *)
TrailingFunclet(body) ==
    LET before(i) == Calls(SubSeq(body, 1, i - 1))
        starts == {i \in 2 .. Len(body) : body[i].at \in ToSet(before(i)) /\ body[i - 1].op = "ret"}
    IN IF starts = {} THEN None ELSE [calls |-> before(Min(starts)), at |-> body[Min(starts)].at]

(* The calls of a rebuilt parent that stand against the original's.         *)
RebuiltCalls(orig, body, synthetic) ==
    LET funclet == TrailingFunclet(body) IN
    IF Len(orig) = Len(Calls(body)) THEN Calls(body)
    ELSE IF Len(orig) = 1 /\ orig[1] \in synthetic /\ funclet # None /\ funclet.calls = <<funclet.at>>
      THEN funclet.calls ELSE None

CalleeCandidates(db) ==
    {o \in Unexplained(db, "orig") : db.rows["orig"][o].type = "function" /\ db.rows["orig"][o].name # None}

(* What one pair of callers says, if all of their calls agree.              *)
Proposed(db, w, candidates, orig, recomp) ==
    LET both == {<<orig[i], Canonical(db, "orig", orig[i]), recomp[i], Canonical(db, "recomp", recomp[i])>> :
                    i \in DOMAIN orig}
        unknown == {c \in both : c[2] = None /\ c[4] = None}
        new(c) == c[1] \in candidates /\ c[3] \notin DOMAIN db.rows["recomp"] /\ c[3] \in w["recomp"].code
    IN IF (\A c \in both \ unknown : c[2] = c[4]) /\ (\A c \in unknown : new(c))
         THEN {<<c[1], c[3]>> : c \in unknown} ELSE {}

Said(db, w, synthetic, candidates, parent) ==
    LET orig == Calls(w["orig"].body[parent[1]])
        recomp == RebuiltCalls(orig, w["recomp"].body[parent[2]], synthetic)
    IN IF ToSet(orig) \cap candidates = {} \/ recomp = None THEN {}
       ELSE Proposed(db, w, candidates, orig, recomp)

AsFunclet(w, parent) == Len(Calls(w["orig"].body[parent[1]])) # Len(Calls(w["recomp"].body[parent[2]]))

(* Mutant: one caller is enough. *)
AgreedByOne(parents, w) == parents # {}

Agreed(parents, w) == Cardinality(parents) >= 2 \/ \E p \in parents : AsFunclet(w, p)

PairCallees(db, w, synthetic) ==
    LET candidates == CalleeCandidates(db)
        said == UNION {{[by |-> p, pair |-> c] : c \in Said(db, w, synthetic, candidates, p)} :
                         p \in {q \in db.pairs : q[1] \in db.annotated}}
        all == {s.pair : s \in said}
        sure(c) == /\ \A d \in all : (d[1] = c[1] \/ d[2] = c[2]) => d = c
                   /\ Agreed({s.by : s \in {t \in said : t.pair = c}}, w)
    IN PairStaged(db, SetToSeq({c \in all : sure(c)}))

-------------------------------------------------------------------------------
(* "is" is what the source has at an address of an image: several things    *)
(* where the linker of the original folded them.                            *)
Same(is, o, r) == is["orig"][o] \cap is["recomp"][r] # {}

OnePartner(db) == \A p, q \in db.pairs : p[1] = q[1] \/ p[2] = q[2] => p = q

(* A catalog with pairs that are true has true ones after a stage, and one  *)
(* partner for each address.                                                *)
StaysTrue(is, before, after) ==
    OnePartner(after) /\ \A p \in after.pairs \ before.pairs : Same(is, p[1], p[2])

(* Two tables that are paired, or stand for another, have slot by slot the  *)
(* same functions.  (They may be tables of different bases of a class.)     *)
SameSlots(is, w, size, o, r) ==
    \A i \in 0 .. size - 1 : Same(is, w["orig"].word[o + i], w["recomp"].word[r + i])

TablesStayTrue(is, before, w) ==
    LET after == DeriveTables(before, w)
        size(r) == after.rows["recomp"][r].size
        new == (after.pairs \ before.pairs)
               \cup {<<after.alias["recomp"][r], r>> : r \in DOMAIN after.alias["recomp"] \ DOMAIN before.alias["recomp"]}
    IN /\ OnePartner(after)
       /\ \A p \in new : SameSlots(is, w, size(p[2]), p[1], p[2])
       /\ \A a \in DOMAIN after.alias["orig"] \ DOMAIN before.alias["orig"] :
            \E p \in after.pairs : p[1] = after.alias["orig"][a] /\ SameSlots(is, w, size(p[2]), a, p[2])
===============================================================================
