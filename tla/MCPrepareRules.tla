----------------------------- MODULE MCPrepareRules -----------------------------
(***************************************************************************)
(* Inputs for the preparation of the two programs.                         *)
(***************************************************************************)
EXTENDS MCPairRules

-------------------------------------------------------------------------------
(* Prototypes: a pair of functions of every source and convention, which a  *)
(* requested function calls, ends in a jump to or does not use; a symbol,   *)
(* a review and a return for it; sometimes folded with a second pair.       *)
Protos(locks) == INSTANCE Prototypes WITH
    MaxScanned <- 2, ReturnLocks <- locks,
    Width <- [void |-> 0, byte |-> 1, undefined1 |-> 1, bool |-> 1, int |-> 4, uint |-> 4,
              pointer |-> 4, undefined4 |-> 4, double |-> 8],
    Scalars <- {"byte", "bool", "int", "uint", "double"}

Inference(conv, params, custom) == [conv |-> conv, params |-> params, custom |-> custom, ret |-> "void"]

Shapes == {Inference("cdecl", <<>>, FALSE), Inference("cdecl", <<"pointer">>, FALSE),
           Inference("thiscall", <<>>, FALSE), Inference("fastcall", <<"pointer", "pointer">>, FALSE)}
OrigShapes == Shapes \cup {Inference("thiscall", <<"pointer", "int">>, TRUE), Inference("fastcall", <<"pointer">>, FALSE)}

Proto(source, shape, infers, body, uses) ==
    [source |-> source, conv |-> shape.conv, params |-> shape.params, custom |-> shape.custom, ret |-> shape.ret,
     infers |-> infers, calls |-> uses.calls, tails |-> uses.tails, body |-> body, kind |-> "plain", fixup |-> None,
     history |-> <<>>]

Unused == [calls |-> {}, tails |-> {}]
Unknown == Inference("unknown", <<>>, FALSE)

Given(shapes) == {Proto("ANALYSIS", h, None, <<>>, Unused) : h \in shapes}
Unset(shapes, bodies) == {Proto("DEFAULT", Unknown, h, b, Unused) : h \in shapes \cup {None}, b \in bodies}
Named == Proto("USER", Inference("cdecl", <<"pointer">>, FALSE), None, <<>>, Unused)

Symbol(conv, params, varargs) == [conv |-> conv, params |-> params, varargs |-> varargs]
Symbols == {None, Symbol("cdecl", <<"int">>, TRUE), Symbol("thiscall", <<>>, FALSE)}
           \cup {Symbol(c, <<t>>, FALSE) : c \in {"cdecl", "thiscall"}, t \in {"int", "byte", "double"}}

ProtoInputs ==
    [orig : Given(OrigShapes) \cup Unset(OrigShapes, {<<>>, <<"push", "read">>, <<"write", "read">>}) \cup {Named},
     recomp : Given(Shapes) \cup Unset(Shapes, {<<>>}) \cup {Named}, symbol : Symbols, cdecl : {0, 2},
     returns : {None, "bool"}, used : {"call", "jump", "no", "folded"}]

PrototypesHold(x) ==
    LET one == {2}
        root == Proto("USER", Inference("cdecl", <<>>, FALSE), None, <<>>,
                      [calls |-> IF x.used \in {"call", "folded"} THEN one ELSE {},
                       tails |-> IF x.used = "jump" THEN one ELSE {}])
        w == [orig |-> <<root, x.orig, x.orig>>, recomp |-> <<root, x.recomp>>]
        first == [orig |-> 1, recomp |-> 1, symbol |-> None]
        pairs == {[orig |-> a, recomp |-> 2, symbol |-> x.symbol] : a \in IF x.used = "folded" THEN {2, 3} ELSE one}
        m == [pairs |-> {first} \cup pairs, requested |-> {first},
              known |-> [orig |-> {1, 2}, recomp |-> {1, 2}],
              cdecl |-> [a \in IF x.cdecl > 0 THEN one ELSE {} |-> x.cdecl],
              returns |-> [a \in IF x.returns # None THEN one ELSE {} |-> x.returns]]
    IN \A locks \in IF x.returns = None THEN {FALSE} ELSE BOOLEAN : Protos(locks)!PrototypesSettle(w, m)

-------------------------------------------------------------------------------
(* Functions: flow forward by one or two or not at all, over five           *)
(* addresses, of which the first is a function, and perhaps the third.      *)
Listing(flow) == INSTANCE ProgramListing WITH Flow <- flow, Guesses <- {"undefined"}

Steps == [1 .. 5 -> {0, 1, 2}]
FunctionInputs == [flow : {f \in Steps : f[1] > 0 /\ f[5] = 0 /\ f[4] < 2}, jump : {0, 3, 5},
                   found : {{1}, {1, 3}}, known : SUBSET (2 .. 6)]

FunctionsHoldOn(x) ==
    LET flow == [a \in 1 .. 5 |-> (IF x.flow[a] = 0 THEN {} ELSE {a + x.flow[a]}) \cup (IF a = 1 /\ x.jump > 0 THEN {x.jump} ELSE {})]
        one == Listing(flow)!Reached(1, 1 .. 5)
        bodies == [e \in x.found |-> IF e = 1 THEN one ELSE Listing(flow)!Reached(e, 1 .. 5 \ one)]
        data == IF 4 \in one THEN {} ELSE {[at |-> 4, size |-> 2, type |-> "string", parts |-> 0]}
    IN x.found \cap one = {1} => Listing(flow)!FunctionsHold([fns |-> bodies, data |-> data], x.known, x.known)

(* Data: two or three objects side by side, and what an analysis may have   *)
(* made of them.                                                            *)
ItemOf(at, size, type, parts) == [at |-> at, size |-> size, type |-> type, parts |-> parts]
Found == {ItemOf(10, 2, "string", 0), ItemOf(10, 4, "scalar", 0), ItemOf(11, 1, "undefined", 0), ItemOf(10, 6, "array", 3),
          ItemOf(12, 4, "float", 0), ItemOf(12, 1, "undefined", 0), ItemOf(13, 3, "string", 0), ItemOf(14, 1, "pointer", 0)}
Disjoint(items) == \A i, j \in items : i # j => i.at + i.size <= j.at \/ j.at + j.size <= i.at

ObjectOf(at, type, size) == [at |-> at, type |-> type, size |-> size]
ObjectLists == {<<ObjectOf(10, t, s), ObjectOf(12, u, 2)>> : t, u \in {"data", "string"}, s \in {None, 2}}
               \cup {<<ObjectOf(12, t, 4), ObjectOf(10, "data", s)>> : t \in {"float", "data"}, s \in {None, 1, 2}}
               \cup {<<ObjectOf(10, "data", 1), ObjectOf(11, t, None), ObjectOf(13, "widechar", 2)>> : t \in {"float", "data"}}
DataLists == {i \in SUBSET Found : Disjoint(i)}
===============================================================================
