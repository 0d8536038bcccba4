----------------------------- MODULE MatchingStages -----------------------------
(***************************************************************************)
(* Compare.run of reccmp/compare/core.py: the stages that fill the entity  *)
(* catalog, in their order, each with its rule for pairing or aliasing.    *)
(* A stage reads the catalog, opens one batch and commits it, and nothing  *)
(* else runs meanwhile, so a stage is one step over EntityDb; the stages   *)
(* that commit several times (reference rounds, FOLDED markers, one image  *)
(* after the other) take one step each time.                               *)
(*                                                                         *)
(* What the input files say is chosen at the start and never changes.      *)
(* Names, symbols, string texts and code signatures are compared for       *)
(* equality only, after the normalisation of match_name and truncation.    *)
(*                                                                         *)
(* Left out, with the entities only they touch: vtables, static variables, *)
(* floats, SEH and CRT records, the retyping of zero-size rows, callees    *)
(* derived from call sequences, sizes and display names.                   *)
(***************************************************************************)
EXTENDS EntityDb

CONSTANT
    MaxRounds   \* rounds of match_ref (10 in the code)

ASSUME StagesAssumption ==
    /\ Addrs \subseteq Nat /\ IsFiniteSet(Addrs)
    /\ Bases = {"annotation", "derived", "content"}
    /\ MaxRounds \in Nat \ {0}

VARIABLES
    given,      \* the inputs: what debug file, markers, CSV and images hold
    facts,      \* SideEntity.facts, by side and address
    stage,      \* the stage Compare.run enters next
    turn        \* position in a stage that commits several times

stageVars == <<vars, given, facts, stage, turn>>

(* The facts of an address nothing was said about. *)
Blank == [type |-> None, name |-> None, publics |-> {}, symbol |-> None,
          selector |-> None, bySymbol |-> FALSE, ref |-> None, disp |-> None]

(* dict.update *)
Updated(fact, row) ==
    [k \in DOMAIN fact |-> IF k \in DOMAIN row THEN row[k] ELSE fact[k]]

Nothing == [s \in Sides |-> <<>>]
OnSide(s, new) == [Nothing EXCEPT ![s] = new]
Stated(f) == {a \in DOMAIN f : f[a] # None}

Unmatched(s) == {a \in present[s] : matches[s][a] = None}
Unexplained(s) == {a \in Unmatched(s) : aliases[s][a] = None}
Paired == {x \in Addrs : matches["orig"][x] # None}

(* ReccmpEntity.get on the entity stored at a: a pair prefers the           *)
(* recompiled side's fact.                                                  *)
Get(s, a, key) ==
    LET x == IF s = "orig" THEN a ELSE link[s][a]
        y == IF s = "recomp" THEN a ELSE link[s][a]
    IN IF y # None /\ facts["recomp"][y][key] # None
       THEN facts["recomp"][y][key]
       ELSE IF x # None THEN facts["orig"][x][key] ELSE None

HasType(s, types) == {a \in present[s] : Get(s, a, "type") \in types}

-------------------------------------------------------------------------------
(* What stages have in common *)

PairOf(x, y, b) == [orig |-> x, recomp |-> y, basis |-> b]
Pairs(X, Y, b) == [orig : X, recomp : Y, basis : {b}]

(* The pairs of ps, each once, in any order, or in that of the addresses of *)
(* side s.                                                                  *)
Listings(ps) ==
    {list \in [1 .. Cardinality(ps) -> ps] : {list[i] : i \in DOMAIN list} = ps}
InOrder(ps, s) ==
    {list \in Listings(ps) :
        \A i, j \in DOMAIN list : i < j => End(list[i], s) <= End(list[j], s)}

(* The index and pop of EntityIndex: under one key, the original addresses  *)
(* take the recompiled ones in address order, as long as both last.         *)
Rank(x, S) == Cardinality({z \in S : z < x})
InTurn(keys, keysOfRecomp, b) ==
    {p \in Pairs(DOMAIN keys, DOMAIN keysOfRecomp, b) :
        /\ keys[p.orig] = keysOfRecomp[p.recomp]
        /\ Rank(p.orig, {z \in DOMAIN keys : keys[z] = keys[p.orig]})
             = Rank(p.recomp, {z \in DOMAIN keysOfRecomp :
                                  keysOfRecomp[z] = keysOfRecomp[p.recomp]})}

(* EntityBatch.commit of a batch that holds rows and a list of pairs. *)
WriteBatch(new, list) ==
    /\ ~frozen
    /\ \E K \in SUBSET DOMAIN list :
        /\ KeepsFirst(list, K)
        /\ LET ps == {list[i] : i \in {k \in K : Fresh(list[k])}} IN
           /\ present' = [s \in Sides |->
                  present[s] \cup DOMAIN new[s] \cup Ends(ps, s)]
           /\ indexed' = [s \in Sides |->
                  indexed[s] \cup DOMAIN new[s] \cup Ends(ps, s)]
           /\ Install(ps)
    /\ facts' = [s \in Sides |-> [a \in Addrs |->
          IF a \in DOMAIN new[s] THEN Updated(facts[s][a], new[s][a])
                                 ELSE facts[s][a]]]
    /\ UNCHANGED <<frozen, batch, given>>

WriteRows(new) == WriteBatch(new, <<>>)
WritePairs(ps, s) == \E list \in InOrder(ps, s) : WriteBatch(Nothing, list)

Enters(s) == stage = s
Leaves(s) == stage' = s /\ turn' = 1
Stays == UNCHANGED <<stage, turn>>

(* Mutant: an address that has a pair is given an alias as well. *)
TakesAliasThoughPaired(chosen, s, a) ==
    /\ a \in DOMAIN chosen[s]
    /\ a \in present[s]
    /\ aliases[s][a] = None
    /\ RealPair(chosen[s][a])

(* set_alias succeeds, when a stage gives the address a of side s the       *)
(* identity of chosen[s][a].                                                *)
TakesAlias(chosen, s, a) ==
    /\ a \in DOMAIN chosen[s]
    /\ a \in present[s]
    /\ matches[s][a] = None
    /\ aliases[s][a] = None
    /\ RealPair(chosen[s][a])

Suitable(chosen) == {e \in Sides \X Addrs : TakesAlias(chosen, e[1], e[2])}

(* One set_alias call a step: the lowest address left, the original side    *)
(* first.                                                                   *)
WriteAlias(chosen) ==
    /\ ~frozen
    /\ LET s == IF \E e \in Suitable(chosen) : e[1] = "orig"
                THEN "orig" ELSE "recomp"
       IN \E a \in Addrs :
            /\ <<s, a>> \in Suitable(chosen)
            /\ \A e \in Suitable(chosen) : e[1] = s => a <= e[2]
            /\ aliases' = [aliases EXCEPT ![s][a] = chosen[s][a]]
    /\ UNCHANGED <<present, indexed, link, matches, basis, frozen, batch,
                   given, facts>>

WritesNothing == UNCHANGED <<vars, given, facts>>

(* Mutant: the stage goes on while candidates remain, refused or not. *)
AliasStageUntilNone(name, chosen, next) ==
    /\ Enters(name)
    /\ IF \E s \in Sides : DOMAIN chosen[s] # {}
       THEN WriteAlias(chosen) /\ Stays
       ELSE WritesNothing /\ Leaves(next)

AliasStage(name, chosen, next) ==
    /\ Enters(name)
    /\ IF Suitable(chosen) # {}
       THEN WriteAlias(chosen) /\ Stays
       ELSE WritesNothing /\ Leaves(next)
-------------------------------------------------------------------------------
(* What the input files say *)

(* load_cvdump: one row for each symbol of the debug file. *)
LoadCvdump ==
    /\ Enters("load_cvdump")
    /\ WriteRows(OnSide("recomp", [y \in Stated(given.pdb) |-> given.pdb[y]]))
    /\ Leaves("match_entry")

(* match_entry: the entry points named by the two image headers. *)
MatchEntry ==
    /\ Enters("match_entry")
    /\ IF given.entry = None
       THEN WriteRows(Nothing)
       ELSE WriteBatch(OnSide("recomp", [y \in {given.entry.recomp} |->
                                             [type |-> "function"]]),
                       <<given.entry>>)
    /\ Leaves("load_data_sources")

(* load_data_sources: a CSV row sets the columns it fills in. *)
LoadDataSources ==
    /\ Enters("load_data_sources")
    /\ WriteRows(OnSide("orig", [x \in Stated(given.csv) |-> given.csv[x]]))
    /\ Leaves("load_markers")

Marked(kind) == {x \in Stated(given.marker) : given.marker[x].kind = kind}

(* A string marker counts only when the bytes of the image agree with it. *)
Credible(x) ==
    given.marker[x].kind = "string" =>
        given.texts["orig"][x] = given.marker[x].name

MarkerRow(x) ==
    CASE given.marker[x].kind = "body" -> [type |-> "function"]
      [] given.marker[x].kind = "named" ->
            [type |-> "function", selector |-> given.marker[x].selector,
             bySymbol |-> given.marker[x].bySymbol]
      [] given.marker[x].kind = "variable" ->
            [type |-> "data", name |-> given.marker[x].name]
      [] given.marker[x].kind = "string" ->
            [type |-> "string", name |-> given.marker[x].name]
      [] given.marker[x].kind = "line" -> [type |-> "line"]

FoldedBodies ==
    {given.folded[i].at : i \in {j \in DOMAIN given.folded :
                                    given.folded[j].selector = None}}

(* Mutant: a FOLDED marker binds like the canonical one. *)
LinePairsOfFolded ==
    {PairOf(x, given.marker[x].target, "annotation") :
        x \in {z \in Marked("body") : given.marker[z].target # None}}
    \cup {PairOf(given.folded[i].at, given.folded[i].target, "annotation") :
        i \in {j \in DOMAIN given.folded : given.folded[j].target # None}}

(* The function a marker stands on, where the line table has exactly one. *)
LinePairs ==
    {PairOf(x, given.marker[x].target, "annotation") :
        x \in {z \in Marked("body") : given.marker[z].target # None}}

MarkerRows ==
    LET credible == {x \in Stated(given.marker) : Credible(x)}
    IN [x \in credible \cup FoldedBodies |->
           IF x \in credible THEN MarkerRow(x) ELSE [type |-> "function"]]

(* load_markers, in the order the source files are read. *)
LoadMarkers ==
    /\ Enters("load_markers")
    /\ \E list \in Listings(LinePairs) : WriteBatch(OnSide("orig", MarkerRows), list)
    /\ Leaves("match_annotation_selectors")

-------------------------------------------------------------------------------
(* Names and symbols *)

Callables ==
    {y \in Unmatched("recomp") : facts["recomp"][y].type \in {None, "function"}}

PublicSpellings(fact) == fact.publics \cup ({fact.name} \ {None})

Spellings(fact, bySymbol) ==
    IF bySymbol THEN {fact.symbol} \ {None} ELSE PublicSpellings(fact)

Selecting == {x \in Unmatched("orig") : facts["orig"][x].selector # None}

Asks(x) == <<facts["orig"][x].bySymbol, facts["orig"][x].selector>>

Selected(x) ==
    {y \in Callables :
        facts["orig"][x].selector
            \in Spellings(facts["recomp"][y], facts["orig"][x].bySymbol)}

(* x asks for y alone, and no other address asks in the same words. *)
Proposes(x, y) ==
    /\ Selected(x) = {y}
    /\ \A z \in Selecting \ {x} : Asks(z) # Asks(x)

SelectorPairs ==
    {p \in Pairs(Selecting, Callables, "annotation") :
        /\ Proposes(p.orig, p.recomp)
        /\ \A z \in Selecting \ {p.orig} : ~Proposes(z, p.recomp)}

MatchAnnotationSelectors ==
    /\ Enters("match_annotation_selectors")
    /\ WritePairs(SelectorPairs, "orig")
    /\ Leaves("match_symbols")

(* Mutant: an address whose selector failed falls back to its symbol. *)
SymbolSeekersFallBack == {x \in Unmatched("orig") : facts["orig"][x].symbol # None}

SymbolSeekers ==
    {x \in Unmatched("orig") : /\ facts["orig"][x].symbol # None
                               /\ facts["orig"][x].selector = None}

SymbolPairs ==
    InTurn([x \in SymbolSeekers |-> facts["orig"][x].symbol],
           [y \in {z \in Unmatched("recomp") : facts["recomp"][z].symbol # None}
                |-> facts["recomp"][y].symbol],
           "annotation")

MatchSymbols ==
    /\ Enters("match_symbols")
    /\ WritePairs(SymbolPairs, "orig")
    /\ Leaves("match_functions")

NamedFunctions ==
    {x \in Unmatched("orig") : /\ facts["orig"][x].type = "function"
                               /\ facts["orig"][x].name # None
                               /\ facts["orig"][x].selector = None}

(* Public names, where there are any, stand in for the name. *)
NamesOf(y) ==
    IF facts["recomp"][y].publics # {}
    THEN facts["recomp"][y].publics
    ELSE {facts["recomp"][y].name} \ {None}

Namesakes(x) == {y \in Callables : facts["orig"][x].name \in NamesOf(y)}

(* One original and one recompiled function of this name are left. *)
SoleName(x, y) ==
    /\ Namesakes(x) = {y}
    /\ \A z \in NamedFunctions \ {x} :
           facts["orig"][z].name # facts["orig"][x].name

NamePairs ==
    {p \in Pairs(NamedFunctions, Callables, "annotation") : SoleName(p.orig, p.recomp)}

MatchFunctions ==
    /\ Enters("match_functions")
    /\ WritePairs(NamePairs, "orig")
    /\ Leaves("match_folded_function_aliases")

(* The recompiled functions a FOLDED marker that names its body may mean. *)
FoldCandidates(m) ==
    {y \in HasType("recomp", {"function", None}) :
        /\ m.selector \in IF m.bySymbol THEN {facts["recomp"][y].symbol}
                                        ELSE {facts["recomp"][y].name}
        /\ Canonical("recomp", y) = None}

FoldTargets(m) ==
    IF m.selector # None THEN FoldCandidates(m) ELSE {m.target} \ {None}

(* match_folded_function_aliases, one marker a step. *)
FoldedMarker ==
    /\ Enters("match_folded_function_aliases")
    /\ turn <= Len(given.folded)
    /\ LET m == given.folded[turn]
           targets == FoldTargets(m)
           chosen == OnSide("recomp",
              [y \in IF RealPair(m.at) /\ Cardinality(targets) = 1
                     THEN targets ELSE {} |-> m.at])
       IN IF Suitable(chosen) # {} THEN WriteAlias(chosen) ELSE WritesNothing
    /\ turn' = turn + 1
    /\ UNCHANGED stage

FoldedMarkersDone ==
    /\ Enters("match_folded_function_aliases")
    /\ turn > Len(given.folded)
    /\ WritesNothing
    /\ Leaves("match_variables")

Variables(s, types) ==
    {a \in Unmatched(s) : facts[s][a].type \in types /\ facts[s][a].name # None}

VariablePairs ==
    InTurn([x \in Variables("orig", {"data"}) |-> facts["orig"][x].name],
           [y \in Variables("recomp", {None, "data"}) |-> facts["recomp"][y].name],
           "annotation")

MatchVariables ==
    /\ Enters("match_variables")
    /\ WritePairs(VariablePairs, "orig")
    /\ Leaves("match_lines")

(* The first address the line table has for a marked line. *)
MarkedLinePairs ==
    {PairOf(x, given.marker[x].target, "annotation") :
        x \in {z \in Marked("line") : /\ z \in Unmatched("orig")
                                      /\ facts["orig"][z].type = "line"
                                      /\ given.marker[z].target # None}}

MatchLines ==
    /\ Enters("match_lines")
    /\ WritePairs(MarkedLinePairs, "orig")
    /\ Leaves("create_structures")

-------------------------------------------------------------------------------
(* The structure of the images *)

JumpKind(s, kind) == {a \in Stated(given.jumps[s]) : given.jumps[s][a].kind = kind}

(* A paired, annotated function stays one though it is only an import jump. *)
Authored(s, a) ==
    /\ a \in present[s]
    /\ link[s][a] # None
    /\ Get(s, a, "type") = "function"
    /\ basis[IF s = "orig" THEN a ELSE link[s][a]] = "annotation"

(* The jumps that become entities; a thunk never overwrites one. *)
NewJumps(s) ==
    JumpKind(s, "vtordisp")
    \cup {a \in JumpKind(s, "import_thunk") : ~Authored(s, a)}
    \cup (JumpKind(s, "thunk") \ indexed[s])

VtordispParents(s) ==
    {given.jumps[s][a].ref : a \in JumpKind(s, "vtordisp")}
        \ (indexed[s] \cup NewJumps(s) \cup Stated(given.imports[s]))

StructureRow(s, a) ==
    IF a \in NewJumps(s)
    THEN [type |-> given.jumps[s][a].kind, ref |-> given.jumps[s][a].ref,
          disp |-> given.jumps[s][a].disp]
    ELSE IF given.imports[s][a] # None
         THEN [type |-> "import", name |-> given.imports[s][a]]
         ELSE [type |-> "function"]

StructureRows(s) ==
    [a \in NewJumps(s) \cup Stated(given.imports[s]) \cup VtordispParents(s) |->
        StructureRow(s, a)]

(* create_imports, create_import_thunks, create_thunks and                  *)
(* create_analysis_vtordisps on one image, the original first.              *)
CreateStructures ==
    /\ Enters("create_structures")
    /\ IF turn = 1
       THEN WriteRows(OnSide("orig", StructureRows("orig"))) /\ turn' = 2 /\ UNCHANGED stage
       ELSE WriteRows(OnSide("recomp", StructureRows("recomp"))) /\ Leaves("match_imports")

Imports(s) ==
    {a \in Unmatched(s) : facts[s][a].type = "import" /\ facts[s][a].name # None}

(* match_imports: the last original import of a name stands for the name. *)
ImportPairs ==
    {p \in Pairs(Imports("orig"), Imports("recomp"), "derived") :
        /\ facts["orig"][p.orig].name = facts["recomp"][p.recomp].name
        /\ \A z \in Imports("orig") :
              facts["orig"][z].name = facts["orig"][p.orig].name => z <= p.orig}

MatchImports ==
    /\ Enters("match_imports")
    /\ WritePairs(ImportPairs, "recomp")
    /\ Leaves("match_exports")

(* The exported function behind an exported thunk, one hop away. *)
Through(s, a) ==
    IF a \in JumpKind(s, "thunk") THEN given.jumps[s][a].ref ELSE a

ExportPairs ==
    [i \in DOMAIN given.exports |->
        PairOf(Through("orig", given.exports[i].orig),
               Through("recomp", given.exports[i].recomp), "derived")]

MatchExports ==
    /\ Enters("match_exports")
    /\ WriteBatch(Nothing, ExportPairs)
    /\ Leaves("match_ref")

(* Unpaired entities that refer to a paired one. *)
Children(s) ==
    {a \in Unmatched(s) :
        /\ facts[s][a].ref # None
        /\ facts[s][a].ref \in present[s]
        /\ link[s][facts[s][a].ref] # None}

(* Mutant: a vtordisp and a thunk to the same parent are taken for twins. *)
RefKeyOfParent(s, a) ==
    IF s = "orig" THEN facts[s][a].ref ELSE link[s][facts[s][a].ref]

RefKey(s, a) ==
    <<IF s = "orig" THEN facts[s][a].ref ELSE link[s][facts[s][a].ref],
      facts[s][a].disp>>

(* get_referencing_entity_matches *)
RefPairs ==
    InTurn([x \in Children("orig") |-> RefKey("orig", x)],
           [y \in Children("recomp") |-> RefKey("recomp", y)], "derived")

(* Mutant: a single round. *)
MatchRefOnce ==
    /\ Enters("match_ref")
    /\ WritePairs(RefPairs, "recomp")
    /\ Leaves("classify_folded_function_aliases")

(* match_ref, one round a step: it stops when a round finds nothing, or     *)
(* with a warning after the last round.                                     *)
MatchRef ==
    /\ Enters("match_ref")
    /\ WritePairs(RefPairs, "recomp")
    /\ IF RefPairs # {} /\ turn < MaxRounds
       THEN turn' = turn + 1 /\ UNCHANGED stage
       ELSE Leaves("classify_folded_function_aliases")

-------------------------------------------------------------------------------
(* Aliases found in the code, and string contents *)

(* The pairs of functions whose recompiled code is that of y. *)
Owners(y) ==
    {x \in Paired : /\ Get("orig", x, "type") = "function"
                    /\ given.code["recomp"][matches["orig"][x]]
                         = given.code["recomp"][y]}

(* The pair x has a body no other original function shares. *)
SoleBody(x) ==
    /\ given.code["orig"][x] # None
    /\ \A z \in HasType("orig", {"function"}) \ {x} :
           given.code["orig"][z] # given.code["orig"][x]

FoldedCopies ==
    {y \in Unexplained("recomp") :
        /\ facts["recomp"][y].type = "function"
        /\ given.code["recomp"][y] # None
        /\ \E x \in Addrs : Owners(y) = {x} /\ SoleBody(x)}

ClassifyFoldedFunctionAliases ==
    AliasStage("classify_folded_function_aliases",
               OnSide("recomp",
                      [y \in FoldedCopies |-> CHOOSE x \in Addrs : Owners(y) = {x}]),
               "classify_synthetic_jump_aliases")

(* A compiler-made jump, marked as such, to a paired function. *)
SyntheticJumps ==
    {x \in Marked("named") \cap Unmatched("orig") :
        /\ given.marker[x].synthetic
        /\ facts["orig"][x].type = "function"
        /\ given.leaps[x] # None
        /\ RealPair(given.leaps[x])
        /\ Get("orig", given.leaps[x], "type") = "function"}

ClassifySyntheticJumpAliases ==
    AliasStage("classify_synthetic_jump_aliases",
               OnSide("orig", [x \in SyntheticJumps |-> given.leaps[x]]),
               "create_strings")

(* The literals that are new, and the strings whose text is not known. *)
NewStrings(s) == given.literals[s] \ indexed[s]
PartialStrings(s) ==
    {a \in HasType(s, {"string"}) : Get(s, a, "name") = None /\ given.texts[s][a] # None}

StringRows(s) ==
    [a \in NewStrings(s) \cup PartialStrings(s) |->
        IF a \in NewStrings(s) THEN [type |-> "string", name |-> given.texts[s][a]]
                               ELSE [name |-> given.texts[s][a]]]

(* create_analysis_strings and complete_partial_strings on one image. *)
CreateStrings ==
    /\ Enters("create_strings")
    /\ IF turn = 1
       THEN WriteRows(OnSide("orig", StringRows("orig"))) /\ turn' = 2 /\ UNCHANGED stage
       ELSE WriteRows(OnSide("recomp", StringRows("recomp"))) /\ Leaves("match_strings")

Strings(s) ==
    {a \in Unmatched(s) : facts[s][a].type = "string" /\ facts[s][a].name # None}

StringPairs ==
    InTurn([x \in Strings("orig") |-> facts["orig"][x].name],
           [y \in Strings("recomp") |-> facts["recomp"][y].name], "content")

MatchStrings ==
    /\ Enters("match_strings")
    /\ WritePairs(StringPairs, "orig")
    /\ Leaves("classify_exact_string_aliases")

(* The pairs that hold a text. *)
Holders(text) ==
    {x \in Paired : Get("orig", x, "type") = "string" /\ Get("orig", x, "name") = text}

ClassifyExactStringAliases ==
    AliasStage("classify_exact_string_aliases",
               [s \in Sides |->
                   [a \in {b \in Unexplained(s) :
                              /\ facts[s][b].type = "string"
                              /\ \E x \in Addrs : Holders(facts[s][b].name) = {x}}
                        |-> CHOOSE x \in Addrs : Holders(facts[s][a].name) = {x}]],
               "seal")

(* Mutant: the run ends and the catalog stays open. *)
SealCatalogLeavesOpen ==
    /\ Enters("seal")
    /\ WritesNothing
    /\ Leaves("done")

SealCatalog ==
    /\ Enters("seal")
    /\ Freeze
    /\ UNCHANGED <<given, facts>>
    /\ Leaves("done")

-------------------------------------------------------------------------------
(* What the inputs are made of.  A symbol or CSV row never states a         *)
(* reference: those come from the code alone.                               *)
OrNone(S) == S \cup {None}
IsRow(r) ==
    /\ DOMAIN r \subseteq DOMAIN Blank \ {"ref", "disp"}
    /\ "bySymbol" \in DOMAIN r => r.bySymbol \in BOOLEAN

IsMarker(m) ==
    /\ m.kind \in {"body", "named", "variable", "string", "line"}
    /\ m.kind \in {"body", "line"} => m.target \in OrNone(Addrs)
    /\ m.kind = "named" => m.bySymbol \in BOOLEAN

IsJump(j) == j.kind \in {"thunk", "vtordisp", "import_thunk"} /\ j.ref \in Addrs

IsList(f) == Len(f) \in Nat /\ DOMAIN f = 1 .. Len(f)

GivenOK ==
    /\ DOMAIN given.pdb = Addrs /\ \A a \in Stated(given.pdb) : IsRow(given.pdb[a])
    /\ DOMAIN given.csv = Addrs /\ \A a \in Stated(given.csv) : IsRow(given.csv[a])
    /\ DOMAIN given.marker = Addrs
    /\ \A a \in Stated(given.marker) : IsMarker(given.marker[a])
    /\ IsList(given.folded)
    /\ \A i \in DOMAIN given.folded : /\ given.folded[i].at \in Addrs
                                      /\ given.folded[i].target \in OrNone(Addrs)
    /\ given.entry # None => given.entry \in Pair /\ given.entry.basis = "derived"
    /\ IsList(given.exports)
    /\ \A i \in DOMAIN given.exports : /\ given.exports[i].orig \in Addrs
                                       /\ given.exports[i].recomp \in Addrs
    /\ \A s \in Sides : /\ DOMAIN given.imports[s] = Addrs
                        /\ DOMAIN given.jumps[s] = Addrs
                        /\ \A a \in Stated(given.jumps[s]) : IsJump(given.jumps[s][a])
                        /\ given.literals[s] \subseteq Addrs

(* The stages run on whatever inputs they are given. *)
StagesInit ==
    /\ GivenOK
    /\ Init
    /\ facts = [s \in Sides |-> [a \in Addrs |-> Blank]]
    /\ stage = "load_cvdump"
    /\ turn = 1

StagesNext ==
    \/ LoadCvdump
    \/ MatchEntry
    \/ LoadDataSources
    \/ LoadMarkers
    \/ MatchAnnotationSelectors
    \/ MatchSymbols
    \/ MatchFunctions
    \/ FoldedMarker
    \/ FoldedMarkersDone
    \/ MatchVariables
    \/ MatchLines
    \/ CreateStructures
    \/ MatchImports
    \/ MatchExports
    \/ MatchRef
    \/ ClassifyFoldedFunctionAliases
    \/ ClassifySyntheticJumpAliases
    \/ CreateStrings
    \/ MatchStrings
    \/ ClassifyExactStringAliases
    \/ SealCatalog

StagesSpec == StagesInit /\ [][StagesNext]_stageVars /\ WF_stageVars(StagesNext)
-------------------------------------------------------------------------------
(* What the stages promise *)

Early == {"load_cvdump", "match_entry", "load_data_sources", "load_markers"}
Late == {"classify_folded_function_aliases", "classify_synthetic_jump_aliases",
         "create_strings", "match_strings", "classify_exact_string_aliases",
         "seal", "done"}

StagesTypeOK ==
    /\ TypeOK
    /\ ~open /\ staged = <<>>
    /\ GivenOK
    /\ \A s \in Sides, a \in Addrs :
          /\ DOMAIN facts[s][a] = DOMAIN Blank
          /\ facts[s][a] # Blank => a \in present[s]
          /\ facts[s][a].ref \in Addrs \cup {None}
          /\ facts[s][a].bySymbol \in BOOLEAN
    /\ turn \in 1 .. Len(given.folded) + MaxRounds + 1
    /\ frozen <=> stage = "done"

(* A marker on a function body decides the pair: "a line reference is a     *)
(* guaranteed match" (parser/codebase.py).  No entry point, CSV row, FOLDED *)
(* marker, name or export takes either address away, unless an entry point  *)
(* or another body marker claims it too.                                    *)
Claims(x, y) == given.marker[x] # None /\ given.marker[x].kind = "body"
                /\ given.marker[x].target = y
BodyMarkersDecide ==
    stage \notin Early =>
        \A x, y \in Addrs :
            /\ Claims(x, y)
            /\ \A z \in Addrs \ {x} : ~Claims(z, y)
            /\ given.entry # None =>
                  given.entry.orig # x /\ given.entry.recomp # y
            => matches["orig"][x] = y /\ basis[x] = "annotation"

(* "Missing or ambiguous selectors remain unmatched; they do not fall back  *)
(* to the display name" (docs/annotations.md): a function whose selector    *)
(* picked nothing is never paired on an annotation by a later stage.        *)
SelectorsDoNotFallBack ==
    [][\A x \in Addrs :
          /\ stage \notin Early \cup {"match_annotation_selectors"}
          /\ facts["orig"][x].type = "function"
          /\ facts["orig"][x].selector # None
          /\ matches["orig"][x] = None
          => basis'[x] # "annotation"]_stageVars

(* Both sides of a new pair carry the evidence its basis speaks of, when    *)
(* the stage has written its rows: the same name, symbol or selector, the   *)
(* marked line, the header entry, import, export or paired target, or the   *)
(* same text (db.py PairBasis).                                             *)
Annotated(x, y) ==
    LET o == facts["orig"][x]
        r == facts["recomp"][y]
    IN \/ given.marker[x] # None
          /\ given.marker[x].kind \in {"body", "line"}
          /\ given.marker[x].target = y
       \/ o.selector # None /\ o.selector \in Spellings(r, o.bySymbol)
       \/ o.selector = None /\ o.symbol # None /\ o.symbol = r.symbol
       \/ o.selector = None /\ o.type = "function"
          /\ o.name \in NamesOf(y) /\ r.type \in {None, "function"}
       \/ o.type = "data" /\ o.name = r.name /\ r.type \in {None, "data"}

Derived(x, y) ==
    LET o == facts["orig"][x]
        r == facts["recomp"][y]
    IN \/ given.entry = PairOf(x, y, "derived")
       \/ o.type = "import" /\ r.type = "import" /\ o.name = r.name
       \/ \E i \in DOMAIN given.exports :
             /\ x = Through("orig", given.exports[i].orig)
             /\ y = Through("recomp", given.exports[i].recomp)
       \/ /\ o.ref # None /\ r.ref # None
          /\ o.disp = r.disp
          /\ matches["orig"][o.ref] = r.ref

Evidence(x, y) ==
    CASE basis[x] = "annotation" -> Annotated(x, y)
      [] basis[x] = "derived" -> Derived(x, y)
      [] basis[x] = "content" ->
            /\ facts["orig"][x].type = "string" /\ facts["recomp"][y].type = "string"
            /\ facts["orig"][x].name = facts["recomp"][y].name

PairsHaveEvidence ==
    [][\A x \in Addrs : matches["orig"][x] = None /\ matches'["orig"][x] # None =>
          Evidence(x, matches["orig"][x])']_stageVars

(* Two entities left over after match_ref refer to the same pair with the   *)
(* same displacement only if references nest deeper than the rounds reach   *)
(* (match_msvc.py match_ref: "Repeats until there are no new matches"), or  *)
(* if the pair was made later, of two equal strings.                        *)
Nested(s) ==
    \E c \in [1 .. MaxRounds + 1 -> Addrs] :
        /\ facts[s][c[1]].ref # None
        /\ \A i \in 1 .. MaxRounds : facts[s][c[i + 1]].ref = c[i]
TwinsPairUp ==
    stage \in Late
    /\ (~Nested("orig") \/ ~Nested("recomp"))
    => \A x \in Children("orig"), y \in Children("recomp") :
          RefKey("orig", x) = RefKey("recomp", y) => basis[facts["orig"][x].ref] = "content"

(* The stages together are one growing one-to-one correspondence, which     *)
(* they seal (EntityDb, PairCatalog), and they come to an end.              *)
StagesImplementCatalog == Abstract!Spec
RunEnds == <>(stage = "done")

(* "Ambiguous names are evidence only, never an address-order identity"     *)
(* (tests/test_match_msvc.py): no other original function is left whose     *)
(* name is a name of the recompiled function that match_functions pairs.    *)
NamesAreNotGuessed ==
    [][stage = "match_functions" =>
          \A p \in NamePairs, q \in NamePairs :
              p.recomp = q.recomp /\ matches'["orig"][p.orig] = p.recomp
              => p = q]_stageVars
===============================================================================
