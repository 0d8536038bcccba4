------------------------------ MODULE Annotations ------------------------------
(***************************************************************************)
(* The annotations of the source: blocks of marker comments as the         *)
(* compiler saw them become symbols and alerts (reccmp/parser/reader.py),  *)
(* the symbols of a module the claims a comparison starts from             *)
(* (reccmp/parser/codebase.py), the rest the findings of the linter        *)
(* (reccmp/parser/linter.py).                                              *)
(*                                                                         *)
(* A comment has a kind: "marker", with word, module, offset, extra (None, *)
(* "symbol", "folded" or a base class) and exact, its strict spelling;     *)
(* "display", a NAME comment; "format", a clang-format directive; "name",  *)
(* any other, with recomp (it is a RECOMP selector), quoted (the text of a *)
(* string on it) and class (the class it names), None without.  An anchor  *)
(* is what begins where the code after the block does.                     *)
(***************************************************************************)
EXTENDS Integers, FiniteSets, SequencesExt

CONSTANTS
    Aliases,    \* [module -> sequence of [word, means]]: report of the project file
    None

Types == {"FUNCTION", "STUB", "SYNTHETIC", "TEMPLATE", "GLOBAL", "VTABLE", "STRING",
          "LIBRARY", "LINE"}
Functions == {"FUNCTION", "STUB", "SYNTHETIC", "TEMPLATE", "LIBRARY"}

Category(type) ==
    IF type \in Functions THEN "function" ELSE IF type \in {"LINE", "UNKNOWN"} THEN "address" ELSE type

(* normalize_target_aliases: the first alias of a word that is no type, to  *)
(* one that is.                                                             *)
Meaning(module, word) ==
    LET all == IF module \in DOMAIN Aliases THEN Aliases[module] ELSE <<>>
        means == SelectSeq(all, LAMBDA a : a.word = word /\ word \notin Types /\ a.means \in Types)
    IN Head(Append([i \in DOMAIN means |-> means[i].means], word))

(* match_marker *)
MarkerOf(type, c) ==
    [type |-> IF type \in Types THEN type ELSE "UNKNOWN",
     module |-> c.module, offset |-> c.offset, extra |-> c.extra, line |-> c.line]
Matched(c) == MarkerOf(Meaning(c.module, c.word), c)

MarkerKey(m) == <<Category(m.type), m.module, m.extra>>

Compatible(a, b) ==
    \/ a = b
    \/ {a, b} \in {{"FUNCTION", "STUB"}, {"GLOBAL", "STRING"}}

-------------------------------------------------------------------------------
(* Symbols.  A line: the place in the file; definitions: ids of annotated   *)
(* functions; byName: found by the name; parent: of a static local.         *)
Symbol(m, kind, line) ==
    [kind |-> kind, type |-> m.type, module |-> m.module, offset |-> m.offset, line |-> line,
     folded |-> kind \in {"function", "vtable"} /\ m.extra = "folded",
     byName |-> FALSE, definitions |-> <<>>, text |-> None, parent |-> None, within |-> None]

Alert(code, line) == [code |-> code, line |-> line]
Yields(symbol) == [symbols |-> <<symbol>>, alerts |-> <<>>]
Alerts(code, line) == [symbols |-> <<>>, alerts |-> <<Alert(code, line)>>]
And(a, b) == [symbols |-> a.symbols \o b.symbols, alerts |-> a.alerts \o b.alerts]

OfKind(anchor, kind) ==
    IF anchor = None THEN <<>> ELSE SelectSeq(anchor.candidates, LAMBDA c : c.kind = kind)

Defined(anchor) == SelectSeq(OfKind(anchor, "function"), LAMBDA c : c.definition)
Ids(definitions) == [i \in DOMAIN definitions |-> definitions[i].id]

(* _complete_by_name, for one marker *)
CompleteByName(m, c, anchor) ==
    LET selected == IF m.type \in {"FUNCTION", "STUB"} /\ c.recomp THEN Defined(anchor) ELSE <<>>
    IN CASE m.type \in Functions ->
              Yields([Symbol(m, "function", IF selected = <<>> THEN c.line ELSE anchor.line)
                        EXCEPT !.byName = TRUE, !.definitions = Ids(selected)])
         [] m.type = "GLOBAL" -> Yields(Symbol(m, "variable", c.line))
         [] m.type = "STRING" ->
              IF c.quoted = None THEN Alerts("NO_SUITABLE_NAME", c.line)
              ELSE Yields([Symbol(m, "string", c.line) EXCEPT !.text = c.quoted])
         [] m.type = "VTABLE" ->
              IF c.class = None THEN Alerts("NO_SUITABLE_NAME", c.line)
              ELSE Yields(Symbol(m, "vtable", c.line))

AnchoredFunction(m, anchor, line) ==
    IF OfKind(anchor, "function") = <<>> THEN Alerts("NO_DECLARATION", line)
    ELSE IF Defined(anchor) = <<>> THEN Alerts("NO_IMPLEMENTATION", line)
    ELSE And(IF m.extra = "symbol" THEN Alerts("SYMBOL_OPTION_IGNORED", line)
                                   ELSE [symbols |-> <<>>, alerts |-> <<>>],
             Yields([Symbol(m, "function", anchor.line) EXCEPT !.definitions = Ids(Defined(anchor))]))

AnchoredVariable(m, anchor, line) ==
    LET variables == OfKind(anchor, "variable")
    IN IF variables = <<>> \/ (Head(variables).within # None /\ ~Head(variables).static)
         THEN Alerts("GLOBAL_NOT_VARIABLE", line)
       ELSE Yields([Symbol(m, "variable", anchor.line) EXCEPT !.within = Head(variables).within])

(* _complete_by_anchor, for one marker; line: the last marker's.            *)
CompleteByAnchor(m, anchor, line) ==
    CASE m.type \in {"SYNTHETIC", "LIBRARY"} -> Alerts("BAD_NAMEREF", line)
      [] m.type \in {"FUNCTION", "STUB", "TEMPLATE"} -> AnchoredFunction(m, anchor, line)
      [] m.type = "GLOBAL" -> AnchoredVariable(m, anchor, line)
      [] m.type = "STRING" ->
           IF anchor = None \/ anchor.string = None
             THEN Alerts("NO_SUITABLE_NAME", IF anchor = None THEN line ELSE anchor.line)
           ELSE Yields([Symbol(m, "string", anchor.line) EXCEPT !.text = anchor.string])
      [] m.type = "VTABLE" ->
           IF OfKind(anchor, "class") = <<>> THEN Alerts("NO_DECLARATION", line)
           ELSE Yields(Symbol(m, "vtable", anchor.line))

All(outcomes) == FoldLeft(And, [symbols |-> <<>>, alerts |-> <<>>], outcomes)

-------------------------------------------------------------------------------
(* _FileReader.read: pending is the run of markers not completed yet.       *)
Said(acc, result) == [pending |-> acc.pending, out |-> And(acc.out, result)]

Strict(acc, c) == IF c.exact THEN acc ELSE Said(acc, Alerts("NOT_STRICT_FORMAT", c.line))

ReadMarker(strict, m, c) ==
    LET known == strict.pending
    IN CASE m.type = "LINE" -> Said(strict, Yields(Symbol(m, "line", c.line)))
         [] m.type = "UNKNOWN" -> Said(strict, Alerts("UNKNOWN_ANNOTATION", c.line))
         [] m.type \notin {"LINE", "UNKNOWN"} ->
              IF \E i \in DOMAIN known : ~Compatible(m.type, known[i].type)
                THEN [Said(strict, Alerts("INCOMPATIBLE_MARKER", c.line)) EXCEPT !.pending = <<>>]
              ELSE IF \E i \in DOMAIN known : MarkerKey(known[i]) = MarkerKey(m)
                THEN Said(strict, Alerts("DUPLICATE_MODULE", c.line))
              ELSE [strict EXCEPT !.pending = Append(@, m)]

ReadComment(acc, c, anchor) ==
    IF c.kind = "marker" THEN ReadMarker(Strict(acc, c), Matched(c), c)
    ELSE IF c.kind = "name" /\ acc.pending # <<>>
      THEN [Said(acc, All([i \in DOMAIN acc.pending |-> CompleteByName(acc.pending[i], c, anchor)])) EXCEPT !.pending = <<>>]
    ELSE acc

AtAnchor(read, anchor) ==
    LET left == read.pending
        blank == IF anchor # None /\ anchor.blank THEN Alerts("UNEXPECTED_BLANK_LINE", anchor.line)
                                                 ELSE [symbols |-> <<>>, alerts |-> <<>>]
    IN IF left = <<>> THEN read.out
       ELSE And(And(read.out, blank), All([i \in DOMAIN left |-> CompleteByAnchor(left[i], anchor, Last(left).line)]))

Read(block) ==
    AtAnchor(FoldLeft(LAMBDA acc, c : ReadComment(acc, c, block.anchor),
                      [pending |-> <<>>, out |-> [symbols |-> <<>>, alerts |-> <<>>]],
                      block.comments),
             block.anchor)

(* Mutant: the first unit that sees a block speaks for all. *)
MergedFirst(a, b) == a

(* MarkerBlock.merged: the same block in two translation units.             *)
Merged(a, b) ==
    IF a.anchor = None \/ b.anchor = None THEN IF a.anchor # None THEN a ELSE b
    ELSE LET new == SelectSeq(b.anchor.candidates, LAMBDA c : ~Contains(a.anchor.candidates, c))
         IN [a EXCEPT !.anchor.candidates = @ \o new,
                      !.anchor.string = IF @ # None THEN @ ELSE b.anchor.string]

-------------------------------------------------------------------------------
(* local_paths: paths are sequences of names.                               *)
LocalPaths(relative, files) ==
    LET matches(r) == {f \in files : IsSuffix(r, f)}
    IN [r \in {x \in relative : Cardinality(matches(x)) = 1} |-> CHOOSE f \in matches(r) : TRUE]

(* read_marker_blocks, for blocks in the order of their files and places.   *)
(* A static local belongs to the function, marked for the same module, that *)
(* encloses it; one whose function has a linker name keeps that name, any   *)
(* other is dropped.                                                        *)
InFile(file, read) ==
    [symbols |-> [i \in DOMAIN read.symbols |-> [file |-> file] @@ read.symbols[i]],
     alerts |-> [i \in DOMAIN read.alerts |-> [file |-> file] @@ read.alerts[i]]]

ReadFile(file, blocks) ==
    LET own == SelectSeq(blocks, LAMBDA b : b.file = file)
    IN InFile(file, All([i \in DOMAIN own |-> Read(own[i])]))

Parent(symbol, symbols) ==
    LET of == SelectSeq(symbols, LAMBDA s : /\ s.kind = "function" /\ s.module = symbol.module
                                            /\ Contains(s.definitions, symbol.within.function))
    IN IF of = <<>> THEN None ELSE Head(of).offset

Orphan(symbol, symbols) ==
    symbol.within # None /\ Parent(symbol, symbols) = None /\ ~symbol.within.mangled

Placed(result, symbols) ==
    LET orphans == SelectSeq(result.symbols, LAMBDA s : Orphan(s, symbols))
        kept == SelectSeq(result.symbols, LAMBDA s : ~Orphan(s, symbols))
        parented(s) == IF s.within = None THEN s ELSE [s EXCEPT !.parent = Parent(s, symbols)]
    IN [symbols |-> SortSeq([i \in DOMAIN kept |-> parented(kept[i])], LAMBDA a, b : a.line < b.line),
        alerts |-> result.alerts \o
                   [i \in DOMAIN orphans |-> [file |-> orphans[i].file] @@
                                             Alert("ORPHANED_STATIC_VARIABLE", orphans[i].line)]]

(* blocks: a sequence of the sightings of each block, one per unit.         *)
Local(blocks, files) ==
    LET paths == LocalPaths({blocks[i].file : i \in DOMAIN blocks}, files)
    IN SelectSeq(blocks, LAMBDA b : b.file \in DOMAIN paths)

Files(blocks) ==
    FoldLeft(LAMBDA seen, b : IF Contains(seen, b.file) THEN seen ELSE Append(seen, b.file), <<>>, blocks)

Owned(read) ==
    LET symbols == FlattenSeq([i \in DOMAIN read |-> read[i].symbols])
    IN [i \in DOMAIN read |-> Placed(read[i], symbols)]

ReadBlocks(blocks) ==
    LET order == Files(blocks) IN Owned([i \in DOMAIN order |-> ReadFile(order[i], blocks)])

Results(sightings, files) ==
    ReadBlocks(Local([i \in DOMAIN sightings |-> FoldLeft(Merged, Head(sightings[i]), Tail(sightings[i]))],
                     files))

(* uncompiled_markers: markers, as [file, line], in local files, but in no  *)
(* block.                                                                   *)
Uncompiled(markers, sightings, files) ==
    LET paths == LocalPaths({sightings[i][1].file : i \in DOMAIN sightings}, files)
        seen(b) == IF b.file \notin DOMAIN paths THEN {}
                   ELSE {[file |-> paths[b.file], line |-> b.comments[j].line] : j \in DOMAIN b.comments}
    IN markers \ UNION {seen(sightings[i][1]) : i \in DOMAIN sightings}

-------------------------------------------------------------------------------
(* DecompCodebase: the claims of one module, each address claimed once but  *)
(* for what is folded there (prune_reused_addrs).                           *)
Claims(results, module) ==
    SelectSeq(FlattenSeq([i \in DOMAIN results |-> results[i].symbols]), LAMBDA s : s.module = module)

Pruned(claims) ==
    LET add(acc, s) ==
          IF s.offset \notin DOMAIN acc.owner
            THEN [acc EXCEPT !.unique = Append(@, s), !.owner = (s.offset :> s.folded) @@ @]
          ELSE IF s.folded THEN [acc EXCEPT !.unique = Append(@, s)]
          ELSE IF acc.owner[s.offset]
            THEN [acc EXCEPT !.unique = Append(@, s), !.owner[s.offset] = FALSE]
          ELSE [acc EXCEPT !.dropped = Append(@, s)]
    IN FoldLeft(add, [unique |-> <<>>, dropped |-> <<>>, owner |-> [o \in {} |-> FALSE]], claims)

(* The linter, for the symbols of one module in all files.                  *)
OffsetAlerts(claims) ==
    {i \in DOMAIN claims :
       /\ \E j \in 1 .. i - 1 : claims[j].offset = claims[i].offset
       /\ ~claims[i].folded /\ claims[i].kind # "string"}

StringAlerts(claims) ==
    {i \in DOMAIN claims :
       \E j \in 1 .. i - 1 :
          /\ claims[i].kind = "string" /\ claims[j].kind = "string"
          /\ claims[j].offset = claims[i].offset /\ claims[j].text # claims[i].text
          /\ \A k \in 1 .. j - 1 : claims[k].kind # "string" \/ claims[k].offset # claims[j].offset}

-------------------------------------------------------------------------------
(* For each marker the compiler saw in a local file there is a symbol at    *)
(* its address, or an alert at it or below it in its file; of each marker   *)
(* it did not see there is one too.  A function annotated by its place      *)
(* stands for every definition there that some unit saw.                    *)
EachAnswered(sightings, files, markers, results) ==
    LET Saw(i) == UNION {ToSet(Ids(Defined(b.anchor))) : b \in ToSet(sightings[i])}
        Answered(i, c) ==
            \E r \in DOMAIN results :
               \/ \E s \in ToSet(results[r].symbols) :
                     /\ s.module = c.module /\ s.offset = c.offset
                     /\ s.definitions = <<>> \/ Saw(i) \subseteq ToSet(s.definitions)
               \/ \E a \in ToSet(results[r].alerts) :
                     a.file = sightings[i][1].file /\ a.line >= c.line /\ a.code # "NOT_STRICT_FORMAT"
    IN \A i \in DOMAIN sightings :
          \A c \in ToSet(sightings[i][1].comments) :
             c.kind = "marker" =>
               \/ Answered(i, c)
               \/ \A f \in files : IsSuffix(sightings[i][1].file, f) =>
                    [file |-> f, line |-> c.line] \in Uncompiled(markers, sightings, files)

(* What the linter passes, the comparison keeps: it drops no claim but a    *)
(* string's; in any case it leaves an address one owner, and drops a claim  *)
(* for an owner only, never for what is folded there.                       *)
EachOwned(claims, pruned) ==
    /\ OffsetAlerts(claims) = {} /\ StringAlerts(claims) = {}
         => \A s \in ToSet(pruned.dropped) : s.kind = "string"
    /\ \A i, j \in DOMAIN pruned.unique :
         pruned.unique[i].offset = pruned.unique[j].offset /\ i # j
           => pruned.unique[i].folded \/ pruned.unique[j].folded
    /\ \A s \in ToSet(pruned.dropped) : \E t \in ToSet(pruned.unique) :
         t.offset = s.offset /\ ~t.folded

KeptApart(claims) == EachOwned(claims, Pruned(claims))

(* Markers are answered, however blocks, code and files are arranged, and   *)
(* of what they claim an address has one owner.                             *)
AnswersHold(sightings, files, markers, module, results) ==
    /\ EachAnswered(sightings, files, markers, results)
    /\ KeptApart(Claims(results, module))

MarkersAreAnswered(sightings, files, markers, module) ==
    AnswersHold(sightings, files, markers, module, Results(sightings, files))
===============================================================================
