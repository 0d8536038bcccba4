------------------------------ MODULE MCPairRules ------------------------------
(***************************************************************************)
(* Inputs for the parts that read the catalog: small programs that two     *)
(* linkers laid out, with what the catalog knows of them.                  *)
(***************************************************************************)
EXTENDS MCImageRules, TLC

Derived == INSTANCE DerivedPairs WITH MinSlots <- 2, RegistrationReach <- 4

NoAlias == [i \in {"orig", "recomp"} |-> [a \in {} |-> 0]]
Catalog(orig, recomp, pairs) ==
    [rows |-> [i \in {"orig", "recomp"} |-> IF i = "orig" THEN orig ELSE recomp], pairs |-> pairs, alias |-> NoAlias]
Both(orig, recomp) == [i \in {"orig", "recomp"} |-> IF i = "orig" THEN orig ELSE recomp]
Nothing == [a \in {} |-> 0]

-------------------------------------------------------------------------------
(* Tables by name: two classes with one table or one for each base.         *)
Table(class, base, folded, inferred) ==
    [type |-> "vtable", class |-> class, base |-> base, folded |-> folded, inferred |-> inferred]

Two(class, base, other, otherBase) ==
    <<[class |-> class, base |-> base], [class |-> other, base |-> otherBase]>>

Annotated == {Table(c, b, <<>>, i) : c \in {"c", "d"}, b \in {None, "b", "c"}, i \in BOOLEAN}
             \cup {Table("c", None, f, FALSE) : f \in {Two("c", None, "d", None), Two("d", None, "c", "b")}}

Emitted == UNION {{f \in [at -> [class : {"c", "d"}, base : {None, "b", "c", "d"}]] :
                      /\ \A a, b \in at : f[a] = f[b] => a = b
                      /\ \A a, b \in at : f[a].class = f[b].class => ~(f[a].base = None /\ f[b].base = f[a].class)}
                     : at \in {{11}, {11, 12}, {11, 12, 13}}}

Is(class, base) == <<class, IF base = None THEN class ELSE base>>

NamedInputs ==
    {[db |-> Catalog(o, [a \in DOMAIN r |-> Table(r[a].class, r[a].base, <<>>, FALSE)], {}),
      is |-> Both([a \in DOMAIN o |-> {Is(c.class, c.base) : c \in ToSet(Derived!Candidates(o[a]))}],
                  [a \in DOMAIN r |-> {Is(r[a].class, r[a].base)}])] :
       o \in [{1, 2} -> Annotated], r \in Emitted}

(* No annotated table is left while one it names is. *)
NamedTablesHold(x) ==
    LET after == Derived!PairTables(x.db) IN
    /\ Derived!StaysTrue(x.is, x.db, after)
    /\ \A o \in Derived!Unmatched(after, "orig"), r \in Derived!Unmatched(after, "recomp") :
         ~x.db.rows["orig"][o].inferred => ~Derived!Same(x.is, o, r)

-------------------------------------------------------------------------------
(* Static variables of one name in the blocks of two functions, which may   *)
(* have one symbol; each is annotated by a marker of its function, by its   *)
(* function's symbol, or not.                                               *)
Blocks == {<<1, 1>>, <<1, 2>>, <<2, 1>>}
Nth(v) == 2 * v[1] + v[2]
Variable(parent, symbol) == [type |-> "static", parent |-> parent, symbol |-> symbol, name |-> "n"]
Function(symbol) == [type |-> "function", parent |-> None, symbol |-> symbol, name |-> "f"]

StaticInputs == [vars : SUBSET Blocks, how : [Blocks -> {"marker", "symbol", None}],
                 sym : {<<"s", "t">>, <<"s", "s">>, <<"s", None>>},
                 functions : SUBSET {<<1, 21>>, <<2, 22>>}, known : {{}, {<<1, 1>>}}]

StaticsHold(x) ==
    LET owner(a, base) == CHOOSE v \in x.vars : base + Nth(v) = a
        annotated == {v \in x.vars : x.how[v] # None}
        orig(a) == IF a < 10 THEN Function(None)
                   ELSE IF x.how[owner(a, 10)] = "marker" THEN Variable(owner(a, 10)[1], None)
                   ELSE Variable(None, x.sym[owner(a, 10)[1]])
        recomp(a) == IF a < 30 THEN Function(x.sym[a - 20]) ELSE Variable(20 + owner(a, 30)[1], None)
        db == Catalog([a \in {1, 2} \cup {10 + Nth(v) : v \in annotated} |-> orig(a)],
                      [a \in {21, 22} \cup {30 + Nth(v) : v \in x.vars} |-> recomp(a)],
                      x.functions \cup {<<10 + Nth(v), 30 + Nth(v)>> : v \in annotated \cap x.known})
        is == Both([a \in 1 .. 20 |-> {a}], [a \in 21 .. 40 |-> {a - 20}])
    IN Derived!StaysTrue(is, db, Derived!PairStatics(db))

-------------------------------------------------------------------------------
(* Exception handlers: two functions, close or apart, the second perhaps    *)
(* unknown; which register a handler and where; the states and actions that *)
(* unwind them, which the original's linker may have folded.                *)
Unwinds == {<<>>} \cup {<<a>> : a \in {[state |-> 0, does |-> TRUE]}}
           \cup {<<[state |-> s, does |-> d], [state |-> t, does |-> TRUE]>> : s, t \in {0, 1}, d \in BOOLEAN}

Handler(f, base, unwinds, sites, at(_, _)) ==
    [at |-> base + 10 * f, info |-> base + 10 * f + 1, sites |-> sites,
     unwinds |-> [i \in DOMAIN unwinds |->
                    [state |-> unwinds[i].state, action |-> IF unwinds[i].does THEN at(f, i) ELSE 0]]]

Action(base, fold, f, i) ==
    CASE fold = "none" -> base + 10 * f + 2 + i
      [] fold = "function" -> base + 10 * f + 3
      [] OTHER -> base + 12 + i

HandlerImage(base, second, fold, sites, unwinds) ==
    [handlers |-> SetToSeq({Handler(f, base, unwinds[f], {(IF f = 1 THEN 1 ELSE second) + s : s \in sites[f]},
                                    LAMBDA g, i : Action(base, fold, g, i)) :
                              f \in {g \in {1, 2} : sites[g] # {}}})]

FunctionAt(size) == [type |-> "function", size |-> size]

Unwound(base, fold, a) ==
    {<<"action", p[1], p[2]>> : p \in {q \in {1, 2} \X {1, 2} : Action(base, fold, q[1], q[2]) = a}}
    \cup {<<"handler", f>> : f \in {g \in {1, 2} : a = base + 10 * g}}
    \cup {<<"info", f>> : f \in {g \in {1, 2} : a = base + 1 + 10 * g}}

HandlerInputs == [gap : {2, 10}, known : BOOLEAN, fold : {"none", "function", "across"},
                  sites : [{1, 2} -> {{}, {1}, {1, 2}}], unwinds : [{1, 2} -> Unwinds], both : BOOLEAN]

HandlersHold(x) ==
    LET second == 1 + x.gap
        db == Catalog([a \in IF x.known THEN {1, second} ELSE {1} |-> FunctionAt(x.gap)],
                      [a \in {1, 11} |-> FunctionAt(10)],
                      {<<1, 1>>} \cup (IF x.known /\ x.both THEN {<<second, 11>>} ELSE {}))
        w == Both(HandlerImage(100, second, x.fold, x.sites, x.unwinds),
                  HandlerImage(200, 11, "none", x.sites, x.unwinds))
        is == Both([a \in 1 .. 200 |-> Unwound(100, x.fold, a)], [a \in 201 .. 250 |-> Unwound(200, "none", a)])
    IN Derived!StaysTrue(is, db, Derived!PairHandlers(db, w))

-------------------------------------------------------------------------------
(* Tables by their slots: functions "f" and "g", which the original may     *)
(* have folded, in a table of class c and one of class c or d; folded with  *)
(* it, right behind it or apart; annotated, or only named by Ghidra.        *)
Slots == [{1, 2} -> {"f", "g", "null"}] \cup {<<"f", "f", "g">>}
PlaceOf(fold, f) == CASE f = "f" -> 101 [] f = "g" -> IF fold THEN 101 ELSE 102 [] OTHER -> 0
RebuiltOf(f) == CASE f = "f" -> 201 [] f = "g" -> 202 [] OTHER -> 0

Words(tables, at(_), place(_)) ==
    [x \in UNION {{at(t) + i - 1 : i \in DOMAIN tables[t]} : t \in {1, 2}} |->
       LET t == CHOOSE u \in {1, 2} : x \in at(u) .. at(u) + Len(tables[u]) - 1 IN place(tables[t][x - at(t) + 1])]

TableRow(class, size, inferred) ==
    [type |-> IF size = 0 THEN "data" ELSE "vtable", class |-> class, size |-> size, inferred |-> inferred]

Paired == {<<101, 201>>, <<102, 202>>}

Program(x) ==
    LET at(t) == IF t = 1 \/ x.place = "folded" THEN 1
                 ELSE 1 + Len(x.tables[1]) + (IF x.place = "apart" THEN 1 ELSE 0)
        rebuilt(t) == 10 * t
        class(t) == IF t = 1 THEN "c" ELSE x.class
        of(a) == IF a = 1 THEN 1 ELSE 2
        inert == [type |-> "function", class |-> None, size |-> 1, inferred |-> FALSE]
        functions == {p \in x.functions : p[1] = 101 \/ ~x.fold}
        db == Catalog([a \in {at(t) : t \in x.listed} |->
                         TableRow(class(of(a)), IF x.sized THEN Len(x.tables[of(a)]) ELSE 0, x.inferred)]
                        @@ (101 :> [inert EXCEPT !.size = 3]) @@ (102 :> [inert EXCEPT !.type = IF x.fold THEN "data" ELSE "function"])
                        @@ (103 :> TableRow("c", 0, FALSE)) @@ (150 :> TableRow(None, 0, FALSE)),
                      [a \in {rebuilt(1), rebuilt(2)} |-> TableRow(class(a \div 10), Len(x.tables[a \div 10]), FALSE)]
                        @@ (201 :> inert) @@ (202 :> inert),
                      functions \cup (IF x.paired /\ 1 \in x.listed /\ x.sized THEN {<<1, 10>>} ELSE {}))
    IN [db |-> IF x.fold /\ x.functions = Paired THEN [db EXCEPT !.alias["recomp"] = (202 :> 101)] ELSE db,
        w |-> Both([word |-> Words(x.tables, at, LAMBDA f : PlaceOf(x.fold, f)), code |-> {101, 102, 103, 150}, jump |-> (150 :> 101)],
                   [word |-> Words(x.tables, rebuilt, RebuiltOf), code |-> {201, 202}, jump |-> Nothing]),
        is |-> Both([a \in 0 .. 200 |->
                       {f \in {"f", "g", "null"} : PlaceOf(x.fold, f) = a} \cup {t \in {1, 2} : at(t) = a}],
                    [a \in 0 .. 300 |-> {f \in {"f", "g", "null"} : RebuiltOf(f) = a} \cup {t \in {1, 2} : rebuilt(t) = a}])]

TablePrograms ==
    {x \in [tables : Slots \X Slots, fold : BOOLEAN, functions : SUBSET Paired, class : {"c", "d"},
            place : {"folded", "behind", "apart"}, listed : {{1}, {2}, {1, 2}}, sized : BOOLEAN,
            inferred : BOOLEAN, paired : BOOLEAN] :
       x.place = "folded" =>
         /\ Len(x.tables[1]) = Len(x.tables[2])
         /\ \A i \in DOMAIN x.tables[1] : PlaceOf(x.fold, x.tables[1][i]) = PlaceOf(x.fold, x.tables[2][i])
         /\ x.listed = {1}}

-------------------------------------------------------------------------------
(* Callees: three paired callers of "a" and "b", which the original may     *)
(* have folded, and of a function "k" that is paired; one may differ in the *)
(* rebuilt image, and one may be without an annotation.                     *)
Callees == UNION {[1 .. n -> {"a", "b", "k"}] : n \in 0 .. 2}
CalleeAt(fold, c) == CASE c = "a" -> 4 [] c = "b" -> IF fold THEN 4 ELSE 5 [] OTHER -> 6
RebuiltAt(c) == CASE c = "a" -> 14 [] c = "b" -> 15 [] OTHER -> 16

CallsAt(at, calls, place(_)) == [i \in DOMAIN calls |-> [at |-> at + i, op |-> "call", to |-> place(calls[i])]]

Caller == [type |-> "function", name |-> "p"]
CalleeCatalog(fold, annotated, more) ==
    [annotated |-> annotated \cup {6}] @@
    Catalog([a \in {1, 2, 3, 4, 6} \cup (IF fold THEN {} ELSE {5}) |-> Caller],
            [a \in {11, 12, 13, 16} \cup {p[2] : p \in more} |-> Caller],
            {<<1, 11>>, <<2, 12>>, <<3, 13>>, <<6, 16>>} \cup more)

CalleeIs(fold) == Both([a \in 1 .. 6 |-> {c \in {"a", "b", "k"} : CalleeAt(fold, c) = a}],
                       [a \in 11 .. 16 |-> {c \in {"a", "b", "k"} : RebuiltAt(c) = a}])

PlainBodies(calls, fold) ==
    [a \in {1, 2, 3, 6} |-> IF a = 6 THEN <<>> ELSE CallsAt(20 * a, calls[a], LAMBDA c : CalleeAt(fold, c))]
RebuiltBodies(calls, differs) ==
    [a \in {11, 12, 13, 16} |-> IF a = 16 THEN <<>>
                                ELSE CallsAt(20 * a, IF a = 11 THEN differs ELSE calls[a - 10], RebuiltAt)]

(* The rebuilt body of a caller goes on with the funclet it calls. *)
WithFunclet(c, after, first) ==
    <<[at |-> 220, op |-> "call", to |-> RebuiltAt(c)], [at |-> 221, op |-> first, to |-> 0],
      [at |-> RebuiltAt(c), op |-> "other", to |-> 0]>> \o CallsAt(230, after, RebuiltAt)

CalleesHold(x) ==
    LET db == CalleeCatalog(x.fold, x.annotated, x.more)
        rebuilt == [RebuiltBodies(x.calls, x.differs) EXCEPT
                      ![11] = IF x.funclet = None THEN @
                              ELSE WithFunclet(x.calls[1][1], x.funclet.after, x.funclet.first)]
        w == Both([body |-> PlainBodies(x.calls, x.fold)], [body |-> rebuilt, code |-> {14, 15}])
    IN Derived!StaysTrue(CalleeIs(x.fold), db, Derived!PairCallees(db, w, x.synthetic))

CalleeInputs ==
    [fold : BOOLEAN, annotated : {{1, 2, 3}, {1, 2}}, more : {{}, {<<4, 14>>}}, synthetic : {{}}, funclet : {None},
     calls : Callees \X {<<"k">>, <<"b">>, <<"a", "b">>, <<"k", "a">>, <<"a", "k">>} \X {<<"a">>, <<"b", "a">>},
     differs : Callees]
    \cup [fold : BOOLEAN, annotated : {{1, 2, 3}}, more : {{}}, synthetic : {{}, {4}},
          funclet : [after : Callees, first : {"ret", "other"}],
          calls : {<<"a">>, <<"b">>} \X Callees \X {<<>>}, differs : {<<>>}]

-------------------------------------------------------------------------------
(* Slots: two functions, which the original may have folded, and jumps to   *)
(* them that the catalog knows or not, in tables with and without a size    *)
(* and a limit; 5 is a word that is no function.                            *)
TableSlots == INSTANCE TableSlots WITH MinSlots <- 2, RegistrationReach <- 4, MaxHops <- 2

Thunk(to) == [type |-> "thunk", ref |-> to]
SlotFunction == [type |-> "function", ref |-> None]

SlotInputs ==
    [fold : BOOLEAN, thunk : {None, Thunk(11), SlotFunction}, aliased : BOOLEAN,
     pairs : {{}, {<<11, 21>>}, {<<11, 21>>, <<12, 22>>}},
     orig : {0, 11, 12, 13, 5} \X {0, 11, 12, 13, 5} \X {12, 5}, recomp : [1 .. 2 -> {0, 21, 22, 23}],
     extent : {[size |-> None, limit |-> None], [size |-> 3, limit |-> None], [size |-> 3, limit |-> 2]},
     returning : {21, 22}]

SlotsHold(x) ==
    LET is == Both([a \in {0, 5, 11, 12} |-> IF a = 11 THEN IF x.fold THEN {1, 2} ELSE {1} ELSE IF a = 12 THEN {2} ELSE {}],
                   [a \in {0, 21, 22} |-> IF a = 0 THEN {} ELSE {a - 20}])
        db == Catalog((11 :> SlotFunction) @@ (IF x.fold THEN Nothing ELSE (12 :> SlotFunction))
                        @@ (IF x.thunk = None THEN Nothing ELSE (13 :> x.thunk)),
                      (21 :> SlotFunction) @@ (22 :> SlotFunction) @@ (23 :> Thunk(21)),
                      {p \in x.pairs : p[1] = 11 \/ ~x.fold})
        folded == IF x.fold /\ <<11, 21>> \in x.pairs /\ x.aliased THEN [db EXCEPT !.alias["recomp"] = (22 :> 11)] ELSE db
        texts == Both([a \in {0, 5, 11, 12, 13} |-> IF a = 11 THEN "ret" ELSE "other"],
                      [a \in {0, 21, 22, 23} |-> IF a = x.returning THEN "ret" ELSE "other"])
        w == Both([word |-> x.orig, code |-> {11, 12, 13}, jump |-> (13 :> 11), text |-> texts["orig"]],
                  [word |-> x.recomp, code |-> {21, 22, 23}, jump |-> (23 :> 21), text |-> texts["recomp"]])
    IN TableSlots!SlotsAreTold(is, folded, w, [orig |-> 1, recomp |-> 1, recompSize |-> 2] @@ x.extent)
===============================================================================
