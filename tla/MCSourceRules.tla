----------------------------- MODULE MCSourceRules -----------------------------
(***************************************************************************)
(* Inputs for the parts that read annotations and Clang's facts.           *)
(***************************************************************************)
EXTENDS FiniteSetsExt, ComparisonResults

-------------------------------------------------------------------------------
(* Annotations: a block of up to three comments before each kind of code,   *)
(* seen by two units, and a block after it with one marker; a file the      *)
(* compiler knows, one it does not, one of two with the name.               *)
Marks == INSTANCE Annotations WITH
    Aliases <- [m |-> <<[word |-> "FUNC", means |-> "FUNCTION"], [word |-> "FUNC", means |-> "GLOBAL"],
                        [word |-> "STUB", means |-> "GLOBAL"]>>]

Marker(word, offset, extra) ==
    [kind |-> "marker", word |-> word, module |-> "m", offset |-> offset, extra |-> extra, exact |-> TRUE]

Comments ==
    {Marker(w, o, None) : w \in {"FUNC", "STUB", "GLOBAL", "STRING", "VTABLE"}, o \in {1, 2}}
    \cup {Marker(w, 1, None) : w \in {"SYNTHETIC", "TEMPLATE", "LINE", "NOTE"}}
    \cup {Marker("FUNCTION", 1, "folded"), Marker("VTABLE", 1, "folded"), Marker("FUNCTION", 1, "symbol"),
          [Marker("FUNCTION", 1, None) EXCEPT !.module = "n", !.exact = FALSE]}
    \cup {[kind |-> "display"], [kind |-> "format"]}
    \cup {[kind |-> "name", recomp |-> r, quoted |-> q, class |-> c] :
             r \in BOOLEAN, q \in {None, "q"}, c \in {None}}

Code(candidates, string) == [line |-> 4, blank |-> FALSE, candidates |-> candidates, string |-> string]
Candidate(kind, id) ==
    [kind |-> kind, id |-> id, definition |-> id # "h", static |-> TRUE, within |-> None]
Local(function, mangled, static) ==
    [Candidate("variable", "v") EXCEPT !.static = static,
                                       !.within = [function |-> function, mangled |-> mangled]]

Anchors == {None, Code(<<>>, "s"), Code(<<Candidate("function", "h")>>, None),
            Code(<<Candidate("function", "f")>>, "s"), Code(<<Candidate("class", "c")>>, None),
            Code(<<Candidate("variable", "v")>>, None)}

At(line, comments, anchor) ==
    [file |-> <<"a", "x">>,
     comments |-> [i \in DOMAIN comments |-> [line |-> line + i - 1] @@ comments[i]],
     anchor |-> IF anchor = None THEN None ELSE [anchor EXCEPT !.line = line + Len(comments)]]

Twice(line, comments, a, b) == <<At(line, comments, a), At(line, comments, b)>>

First == {Twice(1, c, a, a) : c \in UNION {[1 .. n -> Comments] : n \in 1 .. 2}, a \in Anchors}
         \cup {Twice(1, <<c, d, e>>, a, a) : c, d \in {x \in Comments : x.kind = "marker"},
                e \in {x \in Comments : x.kind = "name"}, a \in {Code(<<Candidate("function", "f")>>, None)}}
         \cup {Twice(1, <<c>>, a, Code(<<Candidate("function", "g")>>, None)) : c \in Comments, a \in Anchors}

Second == {Twice(11, <<Marker(w, o, x)>>, a, a) :
             w \in {"FUNCTION", "GLOBAL", "STRING"}, o \in {1, 2}, x \in {None, "folded"},
             a \in {Code(<<Candidate("function", "g"), Local("f", m, s)>>, "t") : m, s \in BOOLEAN}}

Files == {{<<"r", "a", "x">>}, {<<"r", "a", "x">>, <<"q", "a", "x">>}, {<<"r", "b", "x">>}}

SightingInputs ==
    {[sightings |-> <<f, s>>, files |-> {<<"r", "a", "x">>}] :
       f \in {x \in First : Len(x[1].comments) = 1}, s \in Second}
    \cup {[sightings |-> <<f>>, files |-> {<<"r", "a", "x">>}] : f \in First}
    \cup {[sightings |-> <<s>>, files |-> g] : s \in Second, g \in Files}

MarksAnswered(input) ==
    Marks!MarkersAreAnswered(input.sightings, input.files, [file : input.files, line : 1 .. 12], "m")

-------------------------------------------------------------------------------
(* Derivation: two units of the target and one of another; a function that  *)
(* is external and defined in one place or two, one each unit has its own   *)
(* of, a class of two layouts; a class with two bases and tables for them.  *)
Derive == INSTANCE SourceDerivation WITH SizeIn <- [l \in {"small", "large", None} |->
                                                     IF l = "small" THEN 4 ELSE IF l = "large" THEN 8 ELSE None]

Fact(id, external, rank, signature, place) ==
    [id |-> id, external |-> external, rank |-> rank, signature |-> signature, at |-> place]

Functions == {<<>>, <<Fact("f", TRUE, 0, "a", 1)>>, <<Fact("f", TRUE, 0, "b", 1)>>,
              <<Fact("f", TRUE, 0, "a", 1), Fact("f", TRUE, 1, "a", 2)>>, <<Fact("f", TRUE, 1, "a", 3)>>,
              <<Fact("g", FALSE, 1, "a", 2)>>, <<Fact("g", FALSE, 1, "a", 2), Fact("f", TRUE, 1, "b", 2)>>}
Classes == {<<>>} \cup {<<[id |-> "c", layout |-> l, placed |-> l # "large"]>> : l \in {"small", "large", None}}
Assertions == {<<>>, <<[id |-> "c", size |-> 4]>>, <<[id |-> "c", size |-> 8]>>}

Units(id, abis) == [id : {id}, functions : Functions, variables : {<<>>}, classes : Classes,
                    assertions : Assertions, abi : abis]

FunctionMarkers ==
    [type : {"FUNCTION"}, byName : {FALSE}, at : {2}, definitions : {{"f"}, {"g"}, {"f", "g"}}]

DeriveInputs ==
    {[units |-> <<a, c, b>>, symbol |-> s] :
       a \in Units(1, {"x"}), b \in Units(2, {"x", None}), s \in FunctionMarkers,
       c \in {[id |-> 3, functions |-> <<Fact("f", TRUE, 1, "b", 2)>>, variables |-> <<>>,
               classes |-> <<[id |-> "c", layout |-> "large", placed |-> TRUE]>>,
               assertions |-> <<>>, abi |-> "y"]}}

TableInputs ==
    [1 .. 3 -> [class : {"d"}, base : {None, "d", "first", "root", "second"}, offset : {1, 2, 3}]]

Bases == [c \in {"d", "first"} |-> IF c = "d" THEN <<"first", "second">> ELSE <<"root">>]
-------------------------------------------------------------------------------
(* Layout: a class with a base, numbers and pointers in arrays, a record    *)
(* and records in arrays, bits that share a byte, a union of a short and a  *)
(* pointer, padding; classes whose layout is not trusted, in and around it. *)
Field(name, offset, size, kind) ==
    [name |-> name, offset |-> offset, size |-> size, kind |-> kind, bits |-> FALSE,
     record |-> None, element |-> None, stride |-> 0, count |-> None]
Array(name, offset, element, record, stride, count) ==
    [Field(name, offset, stride * count, "array") EXCEPT
        !.element = element, !.record = record, !.stride = stride, !.count = count]
Bits(name, offset) == [Field(name, offset, 1, "scalar") EXCEPT !.bits = TRUE]
Holds(name, offset, size, record) == [Field(name, offset, size, "record") EXCEPT !.record = record]
Class(size, trusted, fields, bases) ==
    [size |-> size, alignment |-> 1, trusted |-> trusted, fields |-> fields, bases |-> bases]

Layouts ==
    [c \in {"base", "hidden", "pair", "bits", "union", "numbers", "pointers", "records", "whole", "part"} |->
       CASE c = "base" -> Class(2, TRUE, <<Field("vptr", 0, 2, "pointer")>>, <<>>)
         [] c = "hidden" -> Class(2, FALSE, <<Field("p", 0, 2, "pointer")>>, <<>>)
         [] c = "pair" -> Class(3, TRUE, <<Field("p", 0, 2, "pointer"), Field("n", 2, 1, "scalar")>>, <<>>)
         [] c = "bits" -> Class(2, TRUE, <<Bits("a", 0), Bits("b", 0), Bits("c", 1)>>, <<>>)
         [] c = "union" -> Class(2, TRUE, <<Field("n", 0, 1, "scalar"), Field("p", 0, 2, "pointer")>>, <<>>)
         [] c = "numbers" -> Class(5, TRUE, <<Array("n", 0, None, None, 2, 2)>>, <<>>)
         [] c = "pointers" -> Class(5, TRUE, <<Field("n", 0, None, "scalar"), Array("p", 1, "pointer", "pair", 2, 2)>>, <<>>)
         [] c = "records" -> Class(6, TRUE, <<Array("r", 0, "record", "pair", 3, 2)>>, <<>>)
         [] c = "whole" -> Class(7, TRUE, <<Holds("r", 2, 3, "pair"), Holds("b", 5, 2, "bits")>>,
                                 <<[class |-> "base", offset |-> 0]>>)
         [] OTHER -> Class(6, TRUE, <<Field("s", None, 1, "scalar"), Holds("h", 2, 2, "hidden"), Holds("u", 4, 2, "union")>>,
                           <<[class |-> "unknown", offset |-> 0], [class |-> "hidden", offset |-> 0]>>)]

Fields == INSTANCE SourceLayout WITH ClassOf <- Layouts, Depth <- 3, PointerSize <- 2

(* The bytes differ in one place or two, there by another pointer or not.   *)
LayoutInputs ==
    [declared : {{[kind |-> "record", record |-> c]} : c \in DOMAIN Layouts}
                \cup {{[kind |-> "record", record |-> "pair"], [kind |-> "record", record |-> "base"]},
                      {[kind |-> "pointer", record |-> "pair"]}, {}},
     size : {1, 5, 6, 7}, apart : {{}} \cup {{i, j} : i, j \in 1 .. 7}, same : BOOLEAN]

BytesCompared(input) ==
    LET bytes(n) == [i \in 1 .. input.size |-> IF i \in input.apart THEN n ELSE 0]
    IN Fields!EveryByteOnce(input.declared, bytes(1), bytes(2), IF input.same THEN 0 .. 12 ELSE {})
-------------------------------------------------------------------------------
(* Types: every class of two members and every union of two among some of a *)
(* number, a pointer, arrays, a class with virtual functions and one with a *)
(* base, a union, a class that is only declared, padding at the end.        *)
Number == [kind |-> "primitive", size |-> 1, pointer |-> FALSE]
Wide == [kind |-> "primitive", size |-> 2, pointer |-> FALSE]
Record(size, virtual, bases, members) ==
    [kind |-> "class", size |-> size, virtual |-> virtual, bases |-> bases, members |-> members]
Member(offset, type) == [offset |-> offset, type |-> type]

TypeLeaves(outer) ==
    [t \in {"n", "w", "p", "alias", "lost", "nn", "pp", "base", "derived", "union", "empty", "outer"} |->
       CASE t = "n" -> Number
         [] t = "w" -> Wide
         [] t = "p" -> [kind |-> "pointer"]
         [] t = "alias" -> [kind |-> "alias", to |-> "base"]
         [] t = "lost" -> [kind |-> "alias", to |-> None]
         [] t = "nn" -> [kind |-> "array", of |-> "n", size |-> 3]
         [] t = "pp" -> [kind |-> "array", of |-> "p", size |-> 4]
         [] t = "base" -> Record(3, TRUE, <<>>, <<Member(2, "n")>>)
         [] t = "derived" -> Record(6, TRUE, <<"alias">>, <<Member(4, "p")>>)
         [] t = "union" -> Record(4, FALSE, <<>>, <<Member(0, "nn"), Member(0, "pp")>>)
         [] t = "empty" -> Record(1, FALSE, <<>>, <<>>)
         [] OTHER -> outer]

MemberTypes == {"n", "w", "p", "alias", "lost", "nn", "pp", "derived", "union", "empty"}
SizeOf(t) == CASE t \in {"n", "empty"} -> 1 [] t \in {"w", "p"} -> 2 [] t \in {"alias", "nn"} -> 3
               [] t \in {"pp", "union"} -> 4 [] OTHER -> 6

Outer ==
    {Record(SizeOf(a) + SizeOf(b) + pad, FALSE, <<>>, <<Member(0, a), Member(SizeOf(a), b)>>) :
       a, b \in MemberTypes, pad \in {0, 1}}
    \cup {Record(6, FALSE, <<>>, <<Member(0, a), Member(0, b)>>) : a, b \in MemberTypes}
    \cup {Record(6, FALSE, <<>>, <<Member(0, a), Member(0, b), Member(o, c)>>) :
            a, b, c \in {"n", "p", "nn", "pp"}, o \in {1, 2}}
    \cup {Record(8, v, <<"derived">>, <<Member(6, a)>>) : a \in {"n", "p", "lost"}, v \in BOOLEAN}
    \cup {[kind |-> "array", of |-> a, size |-> 2 * SizeOf(a)] : a \in {"alias", "derived", "union", "lost"}}

TypeInputs == [outer : Outer, apart : {{}, {1}, {3}, {6}}, same : BOOLEAN]

TypedCompared(input) ==
    LET Types == INSTANCE TypeScalars WITH Leaves <- TypeLeaves(input.outer), Depth <- 4, PointerSize <- 2
        bytes(n) == [i \in 1 .. 13 |-> IF i \in input.apart THEN n ELSE 0]
    IN Types!TypedByteOnce("outer", bytes(1), bytes(2), IF input.same THEN 0 .. 12 ELSE {})
-------------------------------------------------------------------------------
(* PDB: three modules, each with a procedure and static variables before,   *)
(* in and after blocks of it, a thunk, a procedure that cannot be read;     *)
(* public names of every kind; two variables of one address; a contribution *)
(* of two functions.                                                        *)
Pdb == INSTANCE PdbNodes WITH SizeOfType <- [t \in {"short", "long"} |-> IF t = "short" THEN 2 ELSE 4],
                              MaxModules <- 2

Proc(place, name, global, readable) ==
    [kind |-> "proc", at |-> place, name |-> name, size |-> 4, global |-> global, readable |-> readable]
Static(place, type) == [kind |-> "data", at |-> place, name |-> "s", type |-> type]
Scope(kind) == [kind |-> kind]

Streams(m, name) ==
    LET p == 100 + 10 * m
        v == 200 + 10 * m
    IN {<<Proc(p, name, TRUE, TRUE), Static(v, "short"), Scope("end")>>,
        <<Scope("thunk"), Scope("end"), Proc(p, name, m = 2, TRUE), Scope("block"), Scope("block"),
          Static(v, "gone"), Scope("end"), Scope("end"), Static(v + 2, "short"), Scope("end"), Static(v + 4, "long")>>,
        <<Proc(p, name, TRUE, FALSE), Scope("block"), Static(v, "short"), Scope("end"), Static(v + 2, "short"),
          Scope("end"), Proc(p + 4, "g", TRUE, TRUE), Static(v + 4, "long"), Scope("end")>>,
        <<Proc(p, name, TRUE, TRUE), Scope("end"), Proc(p, "copy", FALSE, TRUE), Scope("end")>>}

Publics ==
    {<<>>, <<[at |-> 110, kind |-> "c", name |-> "_f"], [at |-> 124, kind |-> "plain", name |-> "?g"]>>,
     <<[at |-> 110, kind |-> "plain", name |-> "?f"], [at |-> 300, kind |-> "real", name |-> "__real@4"],
       [at |-> 304, kind |-> "vtable", name |-> "??_7"], [at |-> 312, kind |-> "string", name |-> "??_C"],
       [at |-> 316, kind |-> "vbtable", name |-> "??_8"]>>}

Variables ==
    {<<>>, <<[at |-> 300, name |-> "v", type |-> "short", global |-> TRUE]>>,
     <<[at |-> 312, name |-> "v", type |-> "long", global |-> TRUE], [at |-> 312, name |-> "w", type |-> "short", global |-> FALSE],
       [at |-> 312, name |-> "u", type |-> "gone", global |-> FALSE], [at |-> 320, name |-> "x", type |-> "long", global |-> FALSE]>>}

Part(m, place, size) == [module |-> m, at |-> place, size |-> size]

Pdbs ==
    {[publics |-> p, globals |-> g, sizerefs |->
        <<Part(1, 110, 4), Part(2, 120, 8), Part(3, 130, 4), Part(1, 210, 8), Part(2, 220, 8), Part(3, 300, 4)>>,
      procRefs |-> <<[module |-> 1, name |-> "f"], [module |-> 2, name |-> "f"], [module |-> 2, name |-> "g"]>>,
      modules |-> <<[id |-> 1, path |-> <<"s", "a", "x">>], [id |-> 2, path |-> <<"s", "b", "x">>],
                    [id |-> 3, path |-> <<"l">>]>>,
      streams |-> <<a, b, c>>] :
       p \in Publics, g \in Variables, a \in {s \in Streams(1, "f") : \A i \in DOMAIN s : s[i].kind = "proc" => s[i].readable}, b \in Streams(2, "f"),
       c \in {<<>>, <<Proc(130, "h", FALSE, TRUE), Scope("end")>>}}

Hints == [source : {<<"a", "x">>, <<"c", "x">>, <<"y">>}, name : {None}]
         \cup [source : {<<"y">>}, name : [of : {"f", "g", "h"}, mangled : {FALSE}] \cup [of : {"?f", "?g"}, mangled : {TRUE}]]

PdbInputs == [pdb : Pdbs, hints : {{}} \cup {{h} : h \in Hints}, addresses : {{}, {112}, {110, 222}, {130}, {150}}]

PdbTells(input) == Pdb!TargetedTellsAll(input.pdb, input.hints, input.addresses)
===============================================================================
