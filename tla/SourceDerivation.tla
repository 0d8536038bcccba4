---------------------------- MODULE SourceDerivation ----------------------------
(***************************************************************************)
(* What the source index says of a target, from what Clang reported of     *)
(* each of its translation units (reccmp/source/derive.py, observations.py *)
(* and SourceIndex.from_units in reccmp/source/index.py), and the binding  *)
(* of the markers to it (reccmp/source/markers.py).                        *)
(*                                                                         *)
(* A unit reports facts: functions and variables with id, external,        *)
(* rank (the more of a definition, the higher), signature and at; classes  *)
(* with id, layout (None without evidence of one) and placed (it has a     *)
(* line); asserted sizes; its ABI.  Units that see one header report the   *)
(* same facts.                                                             *)
(***************************************************************************)
EXTENDS Integers, FiniteSets, SequencesExt

CONSTANTS
    SizeIn,     \* the size a layout has, None without one
    None

Distinct(s) == FoldLeft(LAMBDA acc, x : IF Contains(acc, x) THEN acc ELSE Append(acc, x), <<>>, s)

Facts(units, of) == FlattenSeq([i \in DOMAIN units |-> units[i][of]])

(* derive_namespace: the target's units, and its facts by what they are of. *)
(* What is external is one thing in the target, the rest one in each unit.  *)
Selected(units, ids) == SelectSeq(units, LAMBDA u : u.id \in ids)

EntityKey(fact, unit) == [id |-> fact.id, unit |-> IF fact.external THEN None ELSE unit.id]

Keyed(units, of) ==
    FlattenSeq([n \in DOMAIN units |->
                  [i \in DOMAIN units[n][of] |->
                     [key |-> EntityKey(units[n][of][i], units[n]), fact |-> units[n][of][i]]]])

Groups(keyed) ==
    LET of(k) == SelectSeq(keyed, LAMBDA e : e.key = k)
    IN [k \in {keyed[i].key : i \in DOMAIN keyed} |->
          Distinct([i \in DOMAIN of(k) |-> of(k)[i].fact])]

(* _derive_entities: the first of the highest rank. *)
Winner(group) ==
    FoldLeft(LAMBDA w, x : IF x.rank > w.rank THEN x ELSE w, Head(group), Tail(group))

Signatures(group) == {group[i].signature : i \in DOMAIN group}

Entities(units, of) ==
    LET groups == Groups(Keyed(units, of))
    IN [winners |-> [k \in DOMAIN groups |-> Winner(groups[k])],
        conflicts |-> {[id |-> k.id, variants |-> Signatures(groups[k])] :
                         k \in {x \in DOMAIN groups : Cardinality(Signatures(groups[x])) > 1}}]

(* _derive_classes *)
Layouts(group) == {group[i].layout : i \in DOMAIN group}
Conflicting(group) == Cardinality(Layouts(group)) > 1

ClassWinner(group) ==
    FoldLeft(LAMBDA w, x : IF ~w.placed /\ x.placed THEN x ELSE w, Head(group), Tail(group))

(* Mutant: an asserted size is no evidence against a layout. *)
TrustedUnasserted(group, asserted) ==
    IF Conflicting(group) THEN "no"
    ELSE IF ClassWinner(group).layout # None THEN "yes" ELSE "unknown"

(* layout_trusted, after _apply_asserted_size; asserted: None without one.  *)
Trusted(group, asserted) ==
    LET size == SizeIn[ClassWinner(group).layout]
    IN IF Conflicting(group) \/ (size # None /\ asserted # None /\ size # asserted) THEN "no"
       ELSE IF ClassWinner(group).layout # None THEN "yes"
       ELSE "unknown"

(* _derive_size_assertions: raises when two disagree. *)
Assertions(units) == ToSet(Facts(units, "assertions"))
AssertionsClash(units) ==
    \E a, b \in Assertions(units) : a.id = b.id /\ a.size # b.size
Asserted(units, id) ==
    IF \E a \in Assertions(units) : a.id = id
      THEN (CHOOSE a \in Assertions(units) : a.id = id).size ELSE None

(* _derive_abi *)
AbiOf(units) ==
    LET seen == {units[i].abi : i \in DOMAIN units} \ {None}
    IN IF Cardinality(seen) = 1 THEN CHOOSE a \in seen : TRUE ELSE None

Raised == [raised |-> TRUE]

Namespace(all, ids) ==
    LET units == Selected(all, ids)
        classes == Facts(units, "classes")
        group(id) == Distinct(SelectSeq(classes, LAMBDA c : c.id = id))
    IN [functions |-> Entities(units, "functions"),
        variables |-> Entities(units, "variables"),
        classes |-> [id \in {classes[i].id : i \in DOMAIN classes} |->
                       [layout |-> ClassWinner(group(id)).layout,
                        trusted |-> Trusted(group(id), Asserted(units, id))]],
        layoutConflicts |-> {[id |-> id, variants |-> Layouts(group(id))] :
                               id \in {c \in {classes[i].id : i \in DOMAIN classes} : Conflicting(group(c))}},
        abi |-> AbiOf(units)]

-------------------------------------------------------------------------------
(* _join_markers: a marker of a function, with the ids of the definitions   *)
(* it stands before, is bound to the one of them its target has there; of   *)
(* copies that several units have of their own, to the first unit's.        *)
Candidates(symbol, functions) ==
    {CHOOSE k \in found : \A l \in found : k.unit = None \/ (l.unit # None /\ k.unit <= l.unit) :
       found \in {{k \in DOMAIN functions :
                     /\ k.id = id
                     /\ functions[k].rank = 1 /\ functions[k].at = symbol.at} :
                  id \in symbol.definitions} \ {{}}}

Binds(symbol) ==
    \/ symbol.type \in {"FUNCTION", "STUB"} /\ (~symbol.byName \/ symbol.definitions # {})
    \/ symbol.type = "TEMPLATE" /\ symbol.definitions # {}

(* Raised when it stands for no one definition. *)
Bound(symbol, functions) ==
    IF ~Binds(symbol) THEN None
    ELSE IF Cardinality(Candidates(symbol, functions)) # 1 THEN Raised
    ELSE CHOOSE k \in Candidates(symbol, functions) : TRUE

(* VTABLE markers: the primary table of a class, or one of a base.  MSVC    *)
(* may name the primary after a class along the first bases; a marker that  *)
(* names no base, or the class itself, settles that.  bases: of each class, *)
(* in order; base: the marker's, None if it names none.                     *)
FirstBases(class, bases) ==
    LET chain[n \in 0 .. Cardinality(DOMAIN bases)] ==
          IF n = 0 THEN {class}
          ELSE chain[n - 1] \cup
               {Head(bases[c]) : c \in {x \in chain[n - 1] : x \in DOMAIN bases /\ bases[x] # <<>>}}
    IN chain[Cardinality(DOMAIN bases)]

JoinVtables(symbols, bases) ==
    LET explicit == {symbols[i].class : i \in {j \in DOMAIN symbols : symbols[j].base \in {None, symbols[j].class}}}
        names(acc, s) == IF acc.primary[s.class] = None /\ s.class \notin explicit
                           THEN FirstBases(s.class, bases) ELSE {s.class}
        join(acc, s) ==
          IF acc.raised THEN acc
          ELSE IF s.class \notin DOMAIN acc.primary
            THEN [acc EXCEPT !.primary = (s.class :> s.offset) @@ @]
          ELSE IF s.base # None /\ s.base \notin names(acc, s)
            THEN LET table == [class |-> s.class, base |-> s.base, offset |-> s.offset]
                 IN IF table \in acc.tables THEN [acc EXCEPT !.raised = TRUE]
                    ELSE [acc EXCEPT !.tables = @ \cup {table}]
          ELSE IF acc.primary[s.class] # None THEN [acc EXCEPT !.raised = TRUE]
          ELSE [acc EXCEPT !.primary[s.class] = s.offset]
    IN FoldLeft(join, [primary |-> [c \in DOMAIN bases |-> None], tables |-> {}, raised |-> FALSE], symbols)

-------------------------------------------------------------------------------
(* The order in which units are indexed, and the units of other targets,    *)
(* say nothing of a target: the same functions and variables are known,     *)
(* with the same conflicts, defined if a unit defines them, with one        *)
(* signature unless there is a conflict, and each unit has its own of what  *)
(* is not external; the same layouts are trusted, and those agree in every  *)
(* unit of the target and with the sizes it asserts; a marker is bound to   *)
(* the same definition, or refused.                                         *)
DerivedAgreeing(units, ids, symbol) ==
    LET name == Namespace(units, ids)
        other == Namespace(Reverse(Selected(units, ids)), ids)
        own == {u \in ToSet(units) : u.id \in ids}
        same(a, b) ==
          /\ DOMAIN a.winners = DOMAIN b.winners
          /\ a.conflicts = b.conflicts
          /\ \A k \in DOMAIN a.winners :
               /\ a.winners[k].rank = b.winners[k].rank
               /\ (\A c \in a.conflicts : c.id # k.id) => a.winners[k].signature = b.winners[k].signature
        moved == \E u, v \in own : \E f \in ToSet(u.functions), g \in ToSet(v.functions) :
                    f.id = g.id /\ f.external /\ g.external /\ f.at # g.at /\ f.rank = 1 /\ g.rank = 1
    IN /\ AssertionsClash(Selected(units, ids)) \/
            /\ same(name.functions, other.functions)
            /\ same(name.variables, other.variables)
            /\ \A u \in own : \A f \in ToSet(u.functions) :
                 /\ EntityKey(f, u) \in DOMAIN name.functions.winners
                 /\ f.external \/ \E k \in DOMAIN name.functions.winners :
                                   k.unit = u.id /\ name.functions.winners[k].rank >= f.rank
            /\ name.layoutConflicts = other.layoutConflicts
            /\ name.abi = other.abi
            /\ \A id \in DOMAIN name.classes :
                 name.classes[id].trusted = "yes" =>
                   /\ \A u \in own : \A c \in ToSet(u.classes) : c.id = id => c.layout = name.classes[id].layout
                   /\ \A u \in own : \A a \in ToSet(u.assertions) :
                        a.id = id => SizeIn[name.classes[id].layout] \in {None, a.size}
                   /\ other.classes[id].trusted = "yes"
       /\ ~moved => Bound(symbol, name.functions.winners) = Bound(symbol, other.functions.winners)

(* Every VTABLE marker has its table: the primary of its class, which it is *)
(* when it says so, or that of a base of it; and none is refused unless two *)
(* say the same of one class.                                               *)
TablesAreKept(symbols, bases) ==
    LET joined == JoinVtables(symbols, bases)
        explicit(s) == s.base \in {None, s.class}
        kept(s) ==
          /\ joined.primary[s.class] = s.offset
               \/ [class |-> s.class, base |-> s.base, offset |-> s.offset] \in joined.tables
          /\ explicit(s) => joined.primary[s.class] = s.offset
    IN IF joined.raised
         THEN \E i, j \in DOMAIN symbols :
                /\ i # j /\ symbols[i].class = symbols[j].class
                /\ symbols[i].base = symbols[j].base \/ (explicit(symbols[i]) /\ explicit(symbols[j]))
       ELSE \A s \in ToSet(symbols) : kept(s)
===============================================================================
