-------------------------------- MODULE MCRules --------------------------------
(***************************************************************************)
(* Inputs for the parts of reccmp that compute an answer from what they    *)
(* are given, and of the retry with callees substituted: a behaviour is of  *)
(* one part, on one input.                                                 *)
(***************************************************************************)
EXTENDS MCProgramRules, InlineRetry

VARIABLES
    of,         \* the part
    input       \* what it is given

-------------------------------------------------------------------------------
(* Results: a text and a longer one in one and two bytes, a source path,    *)
(* zeros, an address, pointers, with and without an extent.                 *)
Text(t) == [kind |-> "string", text |-> t]
Raw(data, known) == [kind |-> "raw", data |-> data, relocated |-> FALSE, known |-> known]

Contents ==
    {Text(<<1>>), Text(<<1, 2>>), Text(<<8>>), Text(<<9>>),
     Raw(<<1>>, FALSE), Raw(<<1, 2>>, FALSE), Raw(<<1, 0>>, TRUE), Raw(<<1, 0, 2, 0>>, FALSE),
     Raw(<<0>>, TRUE), [kind |-> "uninit"], [kind |-> "unknown"],
     [Raw(<<1>>, TRUE) EXCEPT !.relocated = TRUE],
     [kind |-> "pointer", to |-> None], [kind |-> "pointer", to |-> Text(<<1>>)]}

Loose == {[object |-> None, contents |-> c] : c \in Contents}
Owned == {[object |-> "o", contents |-> c] : c \in {Text(<<1>>), Raw(<<1>>, FALSE), [kind |-> "unknown"]}}

References == {<<>>} \cup {<<a>> : a \in Loose \cup Owned} \cup {<<a, b>> : a \in Loose, b \in Loose \cup Owned}

TwoPaths == {<<8>>, <<9>>}

ResultInputs == {[orig |-> a, recomp |-> b] : a \in References, b \in References}

-------------------------------------------------------------------------------
(* Retry: an entry and two callees, which may call each other and, the      *)
(* second, the entry, by calls or by jumps.                                 *)
CallSets == {f \in [{1, 2, 3} -> SUBSET {1, 2, 3}] : 1 \notin f[1] \cup f[2]}

TwoPrograms(a, b, j, seen) ==
    [calls |-> [i \in Images |-> IF i = "orig" THEN a ELSE b], jumps |-> [i \in Images |-> j],
     fit |-> seen[1], observed |-> seen[2]]

SomeGraphs ==
    {TwoPrograms(a, b, j, seen) : a \in CallSets, b \in CallSets, j \in {{}, {3}},
         seen \in {<<{2}, TRUE>>, <<{2, 3}, TRUE>>, <<{1, 2, 3}, TRUE>>, <<{2, 3}, FALSE>>}}

(* No retry is under way. *)
Idle ==
    /\ graph = None /\ ordinary = None /\ at = "idle" /\ callees = {} /\ resolved = TRUE
    /\ marked = None /\ stale = {} /\ code = None

-------------------------------------------------------------------------------
(* What a comparison of references or calls does not report is the same,    *)
(* what it says is true of both sides, and the same source laid out in two  *)
(* images, with other gaps and neighbours, is no difference: it refers to   *)
(* the same data under the same names, and to other data under others.      *)
ReportsAreTrue ==
    /\ of = "results" => SilenceIsEarned(input.orig, input.recomp)
    /\ of = "census" => Census!CensusIsSound(CensusManifest, input.orig, input.recomp)
    /\ of = "data" => DataRefs!LayoutIsNoDifference(input.orig, input.recomp, input.uses)
    /\ of = "names" => NamesHold(input)

(* Each marker the reader sees ends in one symbol or an alert, however many  *)
(* units see it; and the lines it is looked up by do not depend on the order *)
(* in which files and lines became known.                                    *)
MarkersAreAnswered ==
    /\ of = "marks" => MarksAnswered(input)
    /\ of = "lines" => LinesHold(input)

(* What is derived of a declaration from several translation units is what   *)
(* they agree on, in any order, and a conflict is told.                      *)
FactsAreAgreed ==
    /\ of = "facts" => Derive!DerivedAgreeing(input.units, {1, 2}, input.symbol)
    /\ of = "tables" => Derive!TablesAreKept(input, Bases)

(* The comparison of a variable looks at each of its bytes once, as what it  *)
(* is, and a byte of an image means one place and has one value.             *)
EveryByteOnce ==
    /\ of = "bytes" => BytesCompared(input)
    /\ of = "types" => TypedCompared(input)
    /\ of = "image" => ImageHoldsOn(input)

(* The symbols of the selected modules tell of the functions asked for what  *)
(* all symbols would.                                                        *)
TargetedTellsAll == of = "pdb" => PdbTells(input)

(* A stage that derives pairs of tables, variables, handlers or called       *)
(* functions from true pairs adds true pairs: at most one caller differs,    *)
(* the rest of what a stage relies on is in MCPairRules.                     *)
DerivedPairsAreTrue ==
    /\ of = "named" => NamedTablesHold(input)
    /\ of = "statics" => StaticsHold(input)
    /\ of = "handlers" => HandlersHold(input)
    /\ of = "vtables" => LET p == Program(input) IN Derived!TablesStayTrue(p.is, p.db, p.w)
    /\ of = "callees" => CalleesHold(input)
    /\ of = "slots" => SlotsHold(input)

(* However often a pair of programs has been prepared before and for which   *)
(* functions, a function has one prototype, body and listing, as the catalog *)
(* and the reviews give it, on both sides alike.                             *)
PreparedAlike ==
    /\ of = "prototypes" => PrototypesHold(input)
    /\ of = "functions" => FunctionsHoldOn(input)
    /\ of = "listing" => Listing(<<>>)!ShownAlike(input.items, <<>>, input.objects)

-------------------------------------------------------------------------------
RulesInit ==
    \/ of = "retry" /\ input = None /\ Init
    \/ /\ Idle
       /\ \/ of = "results" /\ input \in ResultInputs
          \/ of = "data" /\ input \in DataInputs
          \/ of = "names" /\ input \in NameInputs
          \/ of = "census" /\ input \in CensusInputs
          \/ of = "lines" /\ input \in LineInputs
          \/ of = "image" /\ input \in ImageInputs
          \/ of = "marks" /\ input \in SightingInputs
          \/ of = "facts" /\ input \in DeriveInputs
          \/ of = "tables" /\ input \in TableInputs
          \/ of = "bytes" /\ input \in LayoutInputs
          \/ of = "types" /\ input \in TypeInputs
          \/ of = "pdb" /\ input \in PdbInputs
          \/ of = "named" /\ input \in NamedInputs
          \/ of = "statics" /\ input \in StaticInputs
          \/ of = "handlers" /\ input \in HandlerInputs
          \/ of = "vtables" /\ input \in TablePrograms
          \/ of = "callees" /\ input \in CalleeInputs
          \/ of = "slots" /\ input \in SlotInputs
          \/ of = "prototypes" /\ input \in ProtoInputs
          \/ of = "functions" /\ input \in FunctionInputs
          \/ of = "listing" /\ input \in [items : DataLists, objects : ObjectLists]

RulesNext == of = "retry" /\ Next /\ UNCHANGED <<of, input>>

RulesSpec == RulesInit /\ [][RulesNext]_<<of, input, vars>>
===============================================================================
