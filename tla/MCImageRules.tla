----------------------------- MODULE MCImageRules ------------------------------
(***************************************************************************)
(* Inputs for the parts that read the two images.                          *)
(***************************************************************************)
EXTENDS MCSourceRules

-------------------------------------------------------------------------------
(* References: an array, a paired and an unpaired string, a pointer into    *)
(* the first, zeroed data, a function, data only Ghidra may know; laid out  *)
(* in three orders with and without gaps, and typed in five ways.           *)
Things == {"array", "name", "text", "pointer", "zeroed", "function", "loose"}

Data(t) ==
    CASE t = "array" -> [size |-> 2, cells |-> <<1, 2>>, role |-> "data", catalog |-> "paired"]
      [] t = "name" -> [size |-> 2, cells |-> <<5, 0>>, role |-> "string", catalog |-> "paired"]
      [] t = "text" -> [size |-> 2, cells |-> <<6, 0>>, role |-> "string", catalog |-> "unpaired"]
      [] t = "pointer" -> [size |-> 1, cells |-> <<-1>>,
                           role |-> "data", catalog |-> "paired"]
      [] t = "zeroed" -> [size |-> 2, cells |-> None, role |-> "data", catalog |-> "paired"]
      [] t = "function" -> [size |-> 1, cells |-> <<7>>, role |-> "function", catalog |-> "paired"]
      [] OTHER -> [size |-> 3, cells |-> <<3, 4, -2>>,
                   role |-> "data", catalog |-> "none"]

DataRefs == INSTANCE DataReferences WITH
    SourcePaths <- {},
    Pointees <- <<[to |-> "text", offset |-> 1], [to |-> "array", offset |-> 1]>>,
    Cells <- [t \in Things |-> Data(t).cells],
    Size <- [t \in Things |-> Data(t).size],
    Role <- [t \in Things |-> Data(t).role],
    Catalog <- [t \in Things |-> Data(t).catalog],
    Extent <- [t \in Things |-> IF Data(t).catalog = "none" THEN None ELSE Data(t).size]

Laid(order, gap, typing) ==
    LET i(t) == CHOOSE i \in DOMAIN order : order[i] = t
        place[n \in 1 .. 7] == IF n = 1 THEN 10 ELSE place[n - 1] + Data(order[n - 1]).size + gap
    IN [at |-> [t \in Things |-> place[i(t)]],
        typed |-> [t \in Things |-> IF t = "loose" THEN typing.cells ELSE 0],
        texts |-> typing.texts,
        scanned |-> gap]

Orders == {<<"function", "array", "zeroed", "pointer", "loose", "name", "text">>,
           <<"function", "text", "array", "loose", "zeroed", "name", "pointer">>,
           <<"function", "loose", "name", "array", "text", "pointer", "zeroed">>}

Typings == [cells : 0 .. 3, texts : {{}}] \cup [cells : {2}, texts : {{"text"}, {"array", "name"}}]

DataImages == {Laid(o, g, t) : o \in Orders, g \in {0, 1}, t \in Typings}

Used(things, offsets, hows, accesses) ==
    [thing : things, offset : offsets, how : hows, access : accesses]

Uses ==
    UNION {Used({t}, 0 .. Data(t).size - 1, {"plain", "compared"}, {None}) \cup
           Used({t}, 0 .. Data(t).size - 1, {"plain", "walked"}, {1}) : t \in Things \ {"text"}}
    \cup Used({"array"}, {2, 3}, {"compared"}, {None}) \cup Used({"array"}, {2, 3}, {"walked"}, {1})
    \cup Used({"name", "text"}, {0}, {"scanned"}, {None})
    \cup Used({"array"}, {12, 14}, {"mask", "register"}, {None})

DataInputs == {[orig |-> a, recomp |-> b, uses |-> u] :
                 a \in {Laid(o, 0, [cells |-> 1, texts |-> {}]) : o \in Orders}, b \in DataImages,
                 u \in {{x} : x \in Uses} \cup {{x, y} : x \in Uses, y \in {z \in Uses : z.thing \in {"array", "text"} /\ z.offset \in {0, 1}}}}

-------------------------------------------------------------------------------
(* Names: two pairs, of which the second may be data, with or without the   *)
(* same name; two more things in each program, a copy of the first pair;    *)
(* functions with the bytes "x", "y" or with references.  The programs      *)
(* overlap: the recompiled one is one address lower.                        *)
Names == INSTANCE SharedNames WITH Literals <- {"string"}, Unnamed <- {"import"}, FunctionKinds <- {"function", "thunk"}

NameInputs == [names : {<<"n", "n">>, <<"n", "m">>}, kind : {"function", "data"},
               loose : {<<None, "n">>, <<"n", None>>, <<"n", "n">>, <<"k", "k">>, <<"k", "n">>}, more : {"nothing", "unpaired", "alias"},
               inside : BOOLEAN, orig : [1 .. 3 -> {None, "x", "y"}], recomp : [0 .. 2 -> {None, "x", "y"}]]

NamesHold(x) ==
    LET unpaired(image, at, name) == [image |-> image, at |-> at, name |-> name, kind |-> "function"]
        m == [pairs |-> {[orig |-> 1, recomp |-> 0, name |-> x.names[1], kind |-> "function"],
                         [orig |-> 2, recomp |-> 1, name |-> x.names[2], kind |-> x.kind]},
              unpaired |-> {unpaired("orig", 3, x.loose[1]), unpaired("recomp", 2, x.loose[2])}
                           \cup (IF x.more = "unpaired" THEN {unpaired("orig", 4, "k"), unpaired("recomp", 3, "k")} ELSE {}),
              aliases |-> IF x.more = "alias" THEN {[image |-> "recomp", at |-> 4, of |-> 1]} ELSE {},
              interior |-> IF x.inside THEN {2} ELSE {}]
        functions(bodies, data) == {a \in DOMAIN bodies : bodies[a] # None /\ (a = data => x.kind = "function")}
        body == [orig |-> [a \in functions(x.orig, 2) |-> x.orig[a]],
                 recomp |-> [a \in functions(x.recomp, 1) |-> x.recomp[a]]]
    IN Names!WellFormed(m, body) /\ Names!NamesCorrespond(m, body)
===============================================================================
