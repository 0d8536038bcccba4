------------------------------ MODULE InlineRetry ------------------------------
(***************************************************************************)
(* The retry of a function that differs with the callees substituted that  *)
(* only one of its two bodies calls (reccmp/ghidriff/inlining.py).  The    *)
(* functions that are inlined are marked in both Ghidra programs inside a  *)
(* transaction, the function is decompiled again on both sides, and the    *)
(* transactions are rolled back whatever happened; the decompilers keep    *)
(* what they decompile until they are flushed.                             *)
(*                                                                         *)
(* Calls of functions the catalog does not pair take no part and are left  *)
(* out; a body calls a function once or not at all here.                   *)
(***************************************************************************)
EXTENDS ComparisonResults, FiniteSetsExt

CONSTANTS
    Pairs,          \* paired functions
    Entry,          \* the one compared
    MaxInlineDepth, \* _MAX_INLINE_DEPTH
    Graphs          \* what the two programs can be

Images == {"orig", "recomp"}

(* calls[image][f]: the functions its body calls or continues in;           *)
(* jumps[image]: those entered by a jump; fit: small functions, no thunks,  *)
(* observed in both images; observed: the entry is.                         *)
Programs == [calls : [Images -> [Pairs -> SUBSET Pairs]], jumps : [Images -> SUBSET Pairs],
             fit : SUBSET Pairs, observed : BOOLEAN]

ASSUME RetryAssumption ==
    /\ IsFiniteSet(Pairs) /\ Entry \in Pairs
    /\ MaxInlineDepth \in Nat
    /\ Graphs \subseteq Programs

VARIABLES
    graph,
    ordinary,   \* outcome of the ordinary pass
    at,
    callees,    \* to substitute
    resolved,   \* substituting them leaves both sides the same calls
    marked,     \* functions each program has inline
    stale,      \* decompilers that hold code of a program with marks
    code        \* [image -> the marks its retry was decompiled under]

vars == <<graph, ordinary, at, callees, resolved, marked, stale, code>>

Body(image, f) == graph.calls[image][f]
TailCalls(image, f) == Body(image, f) \cap graph.jumps[image]

(* Paired calls of every body after substituting the selected callees, so   *)
(* many deep.                                                               *)
Counts(image, selected, depth) ==
    LET e[n \in 0 .. depth] ==
          [g \in Pairs |-> [h \in Pairs |->
             SumFunction([c \in Body(image, g) |->
                IF c \in selected /\ n > 0 THEN e[n - 1][c][h] ELSE IF c = h THEN 1 ELSE 0])]]
    IN e[depth]

(* expanded: those of one. *)
Expanded(image, f, selected) == Counts(image, selected, MaxInlineDepth)[f]

(* What a set of functions reaches by repeated steps. *)
Closure(start, step) ==
    LET grown[n \in 0 .. Cardinality(Pairs)] ==
          IF n = 0 THEN start ELSE grown[n - 1] \cup UNION {step[f] : f \in grown[n - 1]}
    IN grown[Cardinality(Pairs)]

CloseTails(selected) ==
    Closure(selected, [f \in Pairs |-> graph.fit \cap UNION {TailCalls(i, f) : i \in Images}])

(* Mutant: cycles are looked for in the original only. *)
RecursiveOriginal(selected) ==
    {f \in selected :
       f \in Closure(Body("orig", f) \cap selected, [g \in Pairs |-> Body("orig", g) \cap selected])}

(* Those on a cycle of selected functions in either image. *)
Recursive(selected) ==
    {f \in selected : \E i \in Images :
       f \in Closure(Body(i, f) \cap selected, [g \in Pairs |-> Body(i, g) \cap selected])}

Asymmetric(selected) ==
    {f \in graph.fit :
       Expanded("orig", Entry, selected)[f] # Expanded("recomp", Entry, selected)[f]}

(* for_pair: asymmetric callees, closed over the functions they continue in *)
(* and over what their substitution exposes, for as many rounds as the      *)
(* depth of the substitution.                                               *)
ForPair ==
    LET round[n \in 0 .. MaxInlineDepth] ==
          IF n = 0 THEN CloseTails(Asymmetric({}))
                   ELSE CloseTails(round[n - 1] \cup Asymmetric(round[n - 1]))
        selected == round[MaxInlineDepth]
    IN IF graph.observed THEN selected \ Recursive(selected) ELSE {}

Resolves(selected) == Expanded("orig", Entry, selected) = Expanded("recomp", Entry, selected)

-------------------------------------------------------------------------------
Init ==
    /\ graph \in Graphs
    /\ ordinary \in {"differences", "no differences", "analysis failed"}
    /\ at = "select"
    /\ callees = {}
    /\ resolved = TRUE
    /\ marked = [i \in Images |-> {}]
    /\ stale = {}
    /\ code = [i \in {} |-> None]

(* A pass that failed is not retried, nor one without differences. *)
Select ==
    /\ at = "select"
    /\ callees' = IF ordinary = "differences" THEN ForPair ELSE {}
    /\ resolved' = (callees' # {} => Resolves(callees'))
    /\ at' = IF callees' = {} THEN "done" ELSE "mark"
    /\ UNCHANGED <<graph, ordinary, marked, stale, code>>

(* One program after the other.  Any step here can raise. *)
Mark ==
    /\ at = "mark"
    /\ \E i \in Images :
        /\ marked[i] = {} /\ (i = "recomp" => marked["orig"] # {})
        /\ marked' = [marked EXCEPT ![i] = callees]
        /\ at' = IF i = "recomp" THEN "decompile" ELSE "mark"
    /\ UNCHANGED <<graph, ordinary, callees, resolved, stale, code>>

(* Native decompilation gives code or an error. *)
Decompile ==
    /\ at = "decompile"
    /\ \E i \in Images \ DOMAIN code, failed \in BOOLEAN :
        /\ i = "recomp" => "orig" \in DOMAIN code
        /\ code' = [j \in DOMAIN code \cup {i} |->
                      IF j # i THEN code[j] ELSE IF failed THEN None ELSE marked[i]]
        /\ stale' = stale \cup {i}
        /\ at' = IF i = "recomp" THEN "roll back" ELSE "decompile"
    /\ UNCHANGED <<graph, ordinary, callees, resolved, marked>>

RollBack(next) ==
    /\ marked' = [i \in Images |-> {}]
    /\ stale' = {}
    /\ at' = next
    /\ UNCHANGED <<graph, ordinary, callees, resolved, code>>

Finish == at = "roll back" /\ RollBack("done")
Raise == at \in {"mark", "decompile"} /\ RollBack("raised")

Next == Select \/ Mark \/ Decompile \/ Finish \/ Raise

Spec == Init /\ [][Next]_vars

-------------------------------------------------------------------------------
(* results: the outcome of the retry follows from its texts, not modelled.  *)
InlineOutcomes ==
    IF callees = {} THEN {None}
    ELSE IF DOMAIN code # Images \/ \E i \in DOMAIN code : code[i] = None
      THEN {"analysis failed"}
    ELSE {"differences", "no differences"}

(* Calls in the entry's bodies as Ghidra substitutes them: every marked     *)
(* function, at any depth.                                                  *)
Substituted(image) == Counts(image, callees, Cardinality(Pairs))[Entry]

(* No chain of substituted functions below the entry is longer than the     *)
(* bound.                                                                   *)
Shallow(image) ==
    LET level[n \in 0 .. MaxInlineDepth + 1] ==
          IF n = 0 THEN {Entry} ELSE UNION {Body(image, g) \cap callees : g \in level[n - 1]}
    IN level[MaxInlineDepth + 1] = {}

(* No substituted function contains itself. *)
Acyclic(image) ==
    \A f \in callees :
       f \notin Closure(Body(image, f) \cap callees, [g \in Pairs |-> Body(image, g) \cap callees])

Quiet == marked = [i \in Images |-> {}] /\ stale = {}

(* A retry that overrules the ordinary pass is of a function that did       *)
(* differ, on two bodies made with exactly the callees it names; in both    *)
(* images the substitution ends, and, if no chain of substituted functions  *)
(* is longer than the bound, leaves the two bodies calling the same         *)
(* functions equally often.  Outside a retry, ended or raised, no program   *)
(* keeps a mark and no decompiler what it made under one.                   *)
RetryIsSound ==
    /\ at \in {"select", "done", "raised"} => Quiet
    /\ at = "done" => \A inline \in InlineOutcomes :
         SelectsInline(ordinary, inline, resolved) =>
            /\ ordinary = "differences"
            /\ \A i \in Images : code[i] = callees /\ Acyclic(i)
            /\ (\A i \in Images : Shallow(i)) => Substituted("orig") = Substituted("recomp")
===============================================================================
