----------------------------- MODULE ProgramListing -----------------------------
(***************************************************************************)
(* The functions and data a program is decompiled with: what Ghidra's      *)
(* analysis found, put right where the catalog knows better                *)
(* (_create_functions, _require_functions and _align_data_types of         *)
(* reccmp/ghidriff/engine.py).                                             *)
(*                                                                         *)
(* A listing has functions, by entry the addresses of the body, and data   *)
(* items [at, size, type, parts], no two of them on one address.  Flow     *)
(* gives the addresses the instruction at one continues to.  Ghidra gives  *)
(* a new function what its flow reaches and no function has (external).    *)
(***************************************************************************)
EXTENDS Integers, FiniteSets, SequencesExt

CONSTANTS None, Flow, Guesses       \* types of single accesses, undefined ones

InOrder(s) == SetToSortSeq(s, <)

(* The addresses flow reaches from a, within an allowed set. *)
Reached(a, allowed) ==
    LET r[n \in 0 .. Cardinality(allowed)] ==
            IF n = 0 THEN {a} \cap allowed ELSE r[n - 1] \cup (UNION {Flow[x] : x \in r[n - 1]} \cap allowed)
    IN r[Cardinality(allowed)]

Containing(fns, a) == IF \E e \in DOMAIN fns : a \in fns[e] THEN CHOOSE e \in DOMAIN fns : a \in fns[e] ELSE None

(* The run of addresses of a body that holds a. *)
Piece(body, a) == {x \in body : \A y \in body \cup (x .. a) \cup (a .. x) :
                                  (x <= y /\ y <= a) \/ (a <= y /\ y <= x) => y \in body}

Item(data, a) == {d \in data : a \in d.at .. d.at + d.size - 1}

-------------------------------------------------------------------------------
(* split_absorbed_piece *)
Absorbed(fns, e, a) ==
    LET piece == Piece(fns[e], a) IN e \notin piece /\ \A x \in piece : a <= x

(* One entry of _create_functions. *)
CreateFunction(state, a, requested) ==
    LET fns == state.fns
        e == Containing(fns, a)
        split == e # None /\ Absorbed(fns, e, a)
        left == IF split THEN [fns EXCEPT ![e] = @ \ Piece(@, a)] ELSE fns
        created == Reached(a, DOMAIN Flow \ UNION {left[x] : x \in DOMAIN left})
    IN IF a \in DOMAIN fns THEN state
       ELSE IF e # None /\ ~split
         THEN [state EXCEPT !.conflicts = IF a \in requested THEN @ \cup {a} ELSE @]
       ELSE [state EXCEPT !.data = @ \ Item(@, a),
                          !.fns = IF a \in DOMAIN Flow THEN [x \in DOMAIN left \cup {a} |-> IF x = a THEN created ELSE left[x]]
                                  ELSE left,
                          !.split = IF split THEN @ \cup {e} ELSE @]

(* fixupFunctionBody, of the functions that lost a piece *)
Fixed(fns, e) ==
    [fns EXCEPT ![e] = Reached(e, DOMAIN Flow \ UNION {fns[x] : x \in DOMAIN fns \ {e}})]

(* Mutant: the function that absorbed another is left without what follows. *)
CreateFunctionsUnfixed(listing, known, requested) ==
    FoldLeft(LAMBDA s, a : CreateFunction(s, a, requested),
             [fns |-> listing.fns, data |-> listing.data, conflicts |-> {}, split |-> {}], InOrder(known \cup requested))

CreateFunctions(listing, known, requested) ==
    LET s == CreateFunctionsUnfixed(listing, known, requested)
    IN [s EXCEPT !.fns = FoldLeft(Fixed, s.fns, InOrder(s.split))]

(* _require_functions: what the run reports instead of comparing.           *)
Failed(s, requested) == s.conflicts \cup (requested \ DOMAIN s.fns)

-------------------------------------------------------------------------------
(* literal_data_type *)
LiteralType(object) ==
    CASE object.type \in {"string", "widechar"} -> object.type
      [] object.type = "float" /\ object.size = 4 -> "float"
      [] OTHER -> None

Overlapping(data, a, size) == {d \in data : d.at < a + size /\ a < d.at + d.size}

(* One object of _align_data_types.  Its size is the one either image knows *)
(* (ManifestObject.extent), or None.                                        *)
AlignObject(data, fns, object) ==
    LET a == object.at
        type == LiteralType(object)
        whole == data \ {d \in Item(data, a) : d.parts = 0 /\ d.at # a}
        here == {d \in whole : d.at = a}
        code == \E x \in UNION {fns[e] : e \in DOMAIN fns} : x \in a .. a + object.size - 1
        cleared == {d \in here : d.type \in {"string", "widechar", "float"}}
    IN IF type # None /\ object.size # None
         THEN IF code THEN whole
              ELSE (whole \ Overlapping(whole, a, object.size))
                   \cup {[at |-> a, size |-> object.size, type |-> type, parts |-> 0]}
       ELSE IF object.size = None THEN whole \ cleared
       ELSE {d \in whole \ cleared : d.type \in Guesses /\ type = None => d.at \notin a .. a + object.size - 1}

AlignDataTypes(data, fns, objects) == FoldLeft(LAMBDA d, o : AlignObject(d, fns, o), data, objects)

-------------------------------------------------------------------------------
(* Every entry the catalog knows begins a function, unless it lies in the   *)
(* part of another one that holds its entry, begins in the middle of a part *)
(* it absorbed, or is no code; functions share no address, none is lost,    *)
(* all that flow reaches belongs to one (but for further parts of one that  *)
(* lost a part) and nothing it does not reach, and a requested entry that   *)
(* begins none is a failure.                                                *)
FunctionsHold(listing, known, requested) ==
    LET s == CreateFunctions(listing, known, requested)
        whole(e) == Reached(e, DOMAIN Flow)
    IN /\ DOMAIN listing.fns \subseteq DOMAIN s.fns
       /\ \A a \in known \cap DOMAIN Flow : a \in DOMAIN s.fns \/ \E e \in DOMAIN s.fns : a \in s.fns[e]
       /\ \A e, f \in DOMAIN s.fns : e # f => s.fns[e] \cap s.fns[f] = {}
       /\ \A e \in DOMAIN s.fns : e \in s.fns[e] /\ s.fns[e] = Reached(e, s.fns[e])
       /\ \A e \in DOMAIN s.fns : whole(e) \subseteq
             UNION {s.fns[x] : x \in DOMAIN s.fns} \cup UNION {whole(x) \ Piece(whole(x), x) : x \in s.split}
       /\ requested = (requested \cap DOMAIN s.fns) \cup Failed(s, requested)
       /\ s.conflicts \cap DOMAIN s.fns = {}
       /\ \A a \in DOMAIN s.fns : a \notin DOMAIN listing.fns => Item(s.data, a) = {}

(* Whatever each analysis guessed, a pair of objects is shown alike: a      *)
(* literal has its type in both programs, nothing else is shown as one, no  *)
(* item of another begins before it and reaches into it, and nothing is     *)
(* split by a guess.  (Objects do not overlap, and hold no code.)           *)
ShownAlike(data, fns, objects) ==
    LET d == AlignDataTypes(data, fns, objects)
    IN /\ \A i, j \in d : i # j => Overlapping({i}, j.at, j.size) = {}
       /\ \A o \in Range(objects) :
            LET here == {x \in d : x.at = o.at}
                type == LiteralType(o)
            IN /\ \A x \in Item(d, o.at) \ here : x.parts > 0
               /\ IF type # None /\ o.size # None THEN {x.type : x \in here} = {type}
                  ELSE \A x \in here : x.type \notin {"string", "widechar", "float"}
               /\ type = None /\ o.size # None =>
                    \A x \in d : x.type \in Guesses => x.at \notin o.at .. o.at + o.size - 1
===============================================================================
