----------------------------- MODULE MCProgramRules -----------------------------
(***************************************************************************)
(* Inputs for the images, the table of lines and the census of calls.      *)
(***************************************************************************)
EXTENDS MCPrepareRules

-------------------------------------------------------------------------------
(* Images: a code and a data section with more or fewer bytes than they     *)
(* have in the file, with and without a gap, and what is relocated there.   *)
Image(sections, blocks) == INSTANCE PeImage WITH Sections <- sections, Blocks <- blocks, Base <- 10

SectionOf(name, start, size, raw, flags) ==
    [name |-> name, start |-> start, size |-> size, raw |-> raw, flags |-> flags]

Codes == {SectionOf(".text", 0, size, raw, {"execute", "read"}) : size \in {0, 1, 3}, raw \in {<<>>, <<15>>, <<14, 0, 15>>}}
DataSections == {SectionOf(n, start, size, raw, {"read"} \cup w) : n \in {".data", ".idata"}, start \in {2, 3, 4}, size \in {1, 3, 4},
                   raw \in {<<>>, <<13, 0>>, <<0, 7, 0>>, <<7, 7, 0, 0>>}, w \in {{}, {"write"}}}
Others == {<<>>, <<SectionOf(".bss", 8, 2, <<>>, {"read", "write", "uninitialized"})>>}

Block(size, page, entries) == [size |-> size, page |-> page, entries |-> entries]
Tables == {<<>>, <<Block(2, 0, {0, 2, 3}), Block(2, 3, {1}), Block(0, 0, {4})>>, <<Block(2, 0, {1})>>}

ImageInputs == [code : Codes, data : DataSections, others : Others, table : Tables]

ImageHoldsOn(x) ==
    LET sections == <<x.code, x.data>> \o x.others
    IN Image(sections, x.table)!Loadable /\ Image(sections, x.table)!ImageHolds(9 .. 20, {".data", ".rdata"})

-------------------------------------------------------------------------------
(* Lines: the lines of two files with one name and of a file that is not    *)
(* here, in any order with the local paths, the starts and a search.        *)
Lines == INSTANCE LineTable

Locals == {{<<"a", "x", "src">>, <<"a", "y", "src">>}, {<<"a", "x", "src">>}, {<<"a", "x", "one">>, <<"a", "x", "two">>}}
LineOps(locals, starts) ==
    <<[do |-> "paths", paths |-> locals],
      [do |-> "lines", entry |-> [path |-> <<"a", "x", "d:">>, lines |-> <<<<1, 10>>, <<2, 20>>>>]],
      [do |-> "lines", entry |-> [path |-> <<"a", "y", "..">>, lines |-> <<<<1, 30>>>>]],
      [do |-> "lines", entry |-> [path |-> <<"b", "x", "src">>, lines |-> <<<<3, 40>>>>]],
      [do |-> "starts", at |-> starts], [do |-> "search"]>>

LineInputs == [locals : Locals, starts : SUBSET {10, 20, 30}, order : Permutations(1 .. 6)]

LinesHold(x) ==
    Lines!LinesSettle(LineOps(x.locals, x.starts), x.order, <<"a", "x", "src">>, {5, 15, 25, 35, 45})

-------------------------------------------------------------------------------
(* Calls: two pairs, one with an alias, and a function of each program      *)
(* alone; bodies of up to three calls, and of four in one order or another. *)
Census == INSTANCE CallCensus

CensusManifest == [pairs |-> {[orig |-> 1, recomp |-> 11], [orig |-> 2, recomp |-> 12], [orig |-> 3, recomp |-> 13]},
                   aliases |-> {[image |-> "recomp", at |-> 14, of |-> 1]}]

CallsTo(targets, next) == {[i \in DOMAIN s |-> [target |-> s[i], next |-> IF i = Len(s) THEN next ELSE "inside"]] :
                             s \in UNION {[1 .. n -> targets] : n \in 0 .. 3}}
CensusInputs == [orig : CallsTo({1, 2, 3}, None) \cup CallsTo({None, 1, 4}, "outside") \cup CallsTo({None, 1, 4}, None) \cup {None},
                 recomp : CallsTo({11, 12, 13}, None) \cup CallsTo({14, 15}, "outside") \cup CallsTo({12, 14, 15}, None)]
===============================================================================
