--------------------------- MODULE MCMatchingStages ---------------------------
(* What the input files of a small comparison may say.  Every scenario      *)
(* starts from files that say nothing and varies one concern at a time:     *)
(* names, references between code, or contents.                             *)
EXTENDS MatchingStages

Silent == [a \in Addrs |-> None]
Quiet == [s \in Sides |-> Silent]
Empty == [pdb |-> Silent, csv |-> Silent, marker |-> Silent, folded |-> <<>>,
          entry |-> None, imports |-> Quiet, jumps |-> Quiet, exports |-> <<>>,
          leaps |-> Silent, code |-> Quiet, literals |-> [s \in Sides |-> {}],
          texts |-> Quiet]

Symbol(type, name, publics, symbol) ==
    [type |-> type, name |-> name, publics |-> publics, symbol |-> symbol]
Function(name) == Symbol("function", name, {}, None)

Body(y) == [kind |-> "body", target |-> y]
Named(n, sym) == [kind |-> "named", selector |-> n, bySymbol |-> sym,
                  synthetic |-> FALSE]
CsvFunction(n) == [type |-> "function", name |-> n]
Fold(x, y, n) == [at |-> x, target |-> y, selector |-> n, bySymbol |-> FALSE]
On(A, S) == {[a \in Addrs |-> IF a \in A THEN f[a] ELSE None] : f \in [A -> S]}

-------------------------------------------------------------------------------
(* Names: what is said about an original address, by marker and CSV row. *)

Nothing2 == [marker |-> None, csv |-> None]
ByMarker(m) == [marker |-> m, csv |-> None]
ByCsv(r) == [marker |-> None, csv |-> r]

Said == {Nothing2, ByMarker(Body(2)), ByMarker(Named("f", FALSE)),
         ByMarker(Named("sym", TRUE)), ByCsv(CsvFunction("f")),
         ByCsv(CsvFunction("g")),
         [marker |-> Named("g", FALSE), csv |-> [symbol |-> "sym"]]}

(* Functions that compete for the same recompiled names. *)
Wanted == {Nothing2, ByMarker(Named("f", FALSE)), ByMarker(Named("sym", TRUE)),
           ByCsv(CsvFunction("g"))}

MoreSaid == Said \cup
    {ByMarker(Body(1)), ByMarker([kind |-> "line", target |-> 1]),
     ByCsv([type |-> "data", name |-> "v", selector |-> "f"]),
     [marker |-> [kind |-> "variable", name |-> "v"], csv |-> [symbol |-> "sym"]],
     [marker |-> Body(2), csv |-> CsvFunction("f")]}

Symbols == {None, Function("f"), Symbol("function", "g", {}, "sym"),
            Symbol("function", "g", {"f", "g"}, None),
            Symbol(None, "v", {}, "sym")}
Bodies == {Function("f"), Symbol("function", "g", {}, "sym")}

WithNames(orig, pdb, folded, entry) ==
    [Empty EXCEPT !.pdb = pdb, !.folded = folded, !.entry = entry,
                  !.marker = [a \in Addrs |-> orig[a].marker],
                  !.csv = [a \in Addrs |-> orig[a].csv]]

Says(A, S) == {[a \in Addrs |-> IF a \in A THEN f[a] ELSE Nothing2] : f \in [A -> S]}

Folds == {<<>>, <<Fold(1, 2, None)>>, <<Fold(1, None, "f"), Fold(2, None, "g")>>}
Entries == {None, PairOf(1, 1, "derived"), PairOf(3, 2, "derived")}

Names ==
    \/ \E o \in Says({1, 2, 3}, Wanted), p \in On({1, 2}, Symbols) :
          given = WithNames(o, p, <<>>, None)
    \/ \E o \in Says({1, 2}, MoreSaid), p \in On({1, 2}, Symbols) :
          given = WithNames(o, p, <<>>, None)
    \/ \E o \in Says({1, 2}, Said), p \in On({1, 2}, Bodies),
          f \in Folds, e \in Entries : given = WithNames(o, p, f, e)

-------------------------------------------------------------------------------
(* References: thunks and import jumps to addresses below their own. *)

Jump(kind, r) == [kind |-> kind, ref |-> r,
                  disp |-> IF kind = "vtordisp" THEN "d" ELSE "zero"]
Jumps(a) == {None} \cup {Jump("thunk", r) : r \in 1 .. a - 1}
JumpTables ==
    {[Silent EXCEPT ![2] = j, ![3] = k, ![4] = l] :
        j \in Jumps(2) \cup {Jump("vtordisp", 1)},
        k \in Jumps(3) \cup {Jump("vtordisp", 1)}, l \in {None, Jump("thunk", 3)}}

Thunks ==
    \E o \in JumpTables, r \in JumpTables,
      e \in {<<>>, <<[orig |-> 3, recomp |-> 2]>>} :
        given = [Empty EXCEPT !.pdb = [@ EXCEPT ![1] = Function("f")],
                              !.marker = [@ EXCEPT ![1] = Body(1)],
                              !.exports = e,
                              !.jumps = [orig |-> o, recomp |-> r]]

ImportTables == {[Silent EXCEPT ![1] = i, ![2] = j] :
                     i \in {None, "i"}, j \in {None, "i", "j"}}
ImportJumps == {[Silent EXCEPT ![3] = i, ![4] = j] :
                    i \in {None, Jump("import_thunk", 1)},
                    j \in {Jump("import_thunk", 1), Jump("import_thunk", 2)}}

ImportScenarios ==
    \E i \in ImportTables, j \in ImportTables, o \in ImportJumps, r \in ImportJumps,
      m \in {None, Body(3)} :
        given = [Empty EXCEPT !.imports = [orig |-> i, recomp |-> j],
                              !.jumps = [orig |-> o, recomp |-> r],
                              !.pdb = [@ EXCEPT ![3] = Function("f")],
                              !.marker = [@ EXCEPT ![3] = m]]

-------------------------------------------------------------------------------
(* Contents: string texts and function code.  A jump may lead to what turns *)
(* out to be a string: the two jumps then refer to a pair made after the    *)
(* references were matched.                                                 *)

Texts == On({1, 2, 3}, {None, "s", "t"})
StringScenarios ==
    \E o \in Texts, r \in Texts, m \in {None, [kind |-> "string", name |-> "s"]},
       j \in {Quiet, [s \in Sides |-> [Silent EXCEPT ![4] = Jump("thunk", 2)]]} :
        given = [Empty EXCEPT
            !.texts = [orig |-> o, recomp |-> r],
            !.literals = [orig |-> Stated(o) \ {3}, recomp |-> Stated(r) \ {1}],
            !.jumps = j,
            !.pdb = [@ EXCEPT ![1] = Symbol("string", None, {}, "sym")],
            !.marker = [@ EXCEPT ![3] = m]]

Code == {[Silent EXCEPT ![1] = i, ![2] = j, ![3] = k] :
             i, j \in {"k", "l"}, k \in {None, "k", "l"}}
CodeScenarios ==
    \E o \in Code, r \in Code, m \in {None, Body(2)}, l \in {None, 2} :
        given = [Empty EXCEPT
            !.code = [orig |-> o, recomp |-> r],
            !.pdb = [y \in Addrs |-> IF y < 4 THEN Function("f") ELSE None],
            !.marker = [@ EXCEPT ![1] = Body(1), ![2] = m,
                ![3] = [kind |-> "named", selector |-> "h", bySymbol |-> FALSE,
                        synthetic |-> TRUE]],
            !.leaps = [@ EXCEPT ![3] = l]]

MCAddrs == 1 .. 4
MCBases == {"annotation", "derived", "content"}
MCInit ==
    /\ Names \/ Thunks \/ ImportScenarios \/ StringScenarios \/ CodeScenarios
    /\ StagesInit
MCSpec == MCInit /\ [][StagesNext]_stageVars /\ WF_stageVars(StagesNext)

(* A name both of whose bearers are left, and one code body under two names. *)
AliasedInit ==
    /\ \E o \in Says({1, 2}, {Nothing2, ByCsv(CsvFunction("f")), ByCsv(CsvFunction("g"))}),
          p \in On({1, 2}, Symbols) : given = WithNames(o, p, <<>>, None)
    /\ StagesInit
AliasedNames == AliasedInit /\ [][StagesNext]_stageVars
===============================================================================
