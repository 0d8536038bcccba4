-------------------------------- MODULE LineTable --------------------------------
(***************************************************************************)
(* The table of source lines and addresses (LinesDb of                     *)
(* reccmp/compare/lines.py), filled from the PDB, which writes paths of    *)
(* the machine that built, and from the source files this one has.         *)
(*                                                                         *)
(* A path is its components from the file name up.  The table has the      *)
(* local paths, the lines of paths that match none of them, those of       *)
(* local paths, the line of each address, the function starts, and the     *)
(* sorted addresses while they are kept.                                   *)
(***************************************************************************)
EXTENDS Integers, Sequences, SequencesExt, FiniteSets

CONSTANT None

Empty == [locals |-> {}, queue |-> <<>>, lines |-> {}, at |-> <<>>, starts |-> {}, sorted |-> None]

(* _count_matching_path_parts *)
Score(foreign, local) ==
    CHOOSE n \in 0 .. Len(foreign) :
        /\ n <= Len(local)
        /\ \A i \in 1 .. n : foreign[i] = local[i] /\ foreign[i] \notin {".", ".."}
        /\ n < Len(foreign) /\ n < Len(local) => foreign[n + 1] # local[n + 1] \/ foreign[n + 1] \in {".", ".."}

(* convert_foreign_path: the one best match of those with its file name. *)
LocalPath(foreign, locals) ==
    LET named == {p \in locals : p[1] = foreign[1]}
        best == {p \in named : \A q \in named : Score(foreign, q) <= Score(foreign, p)}
    IN IF Cardinality(best) = 1 THEN CHOOSE p \in best : TRUE ELSE None

(* _match_foreign_path_to_local: entry is [path, lines], of pairs           *)
(* <<line, address>>.                                                       *)
Match(t, entry) ==
    LET p == LocalPath(entry.path, t.locals)
    IN IF p = None THEN [t EXCEPT !.queue = Append(@, entry)]
       ELSE [t EXCEPT !.lines = @ \cup {<<p, l>> : l \in Range(entry.lines)},
                      !.at = FoldLeft(LAMBDA at, l : [a \in DOMAIN at \cup {l[2]} |-> IF a = l[2] THEN <<p, l[1]>> ELSE at[a]],
                                      @, entry.lines),
                      !.sorted = None]

AddLines(t, entry) == Match(t, entry)

AddLocalPaths(t, paths) ==
    FoldLeft(Match, [t EXCEPT !.locals = @ \cup paths, !.queue = <<>>], t.queue)

MarkFunctionStarts(t, addresses) == [t EXCEPT !.starts = @ \cup addresses]

(* search_line and find_function *)
SearchLine(t, path, first, last) == {x[2][2] : x \in {y \in t.lines : y[1] = path /\ y[2][1] \in first .. last}}

FindFunction(t, path, first, last) ==
    LET found == SearchLine(t, path, first, last) \cap t.starts
    IN IF Cardinality(found) = 1 THEN CHOOSE a \in found : TRUE ELSE None

(* find_line_containing_recomp_address, which keeps the sorted addresses. *)
Searched(t) == IF t.sorted = None THEN [t EXCEPT !.sorted = DOMAIN t.at] ELSE t

LineContaining(t, address, notBefore) ==
    LET before == {a \in Searched(t).sorted : a <= address}
        last == CHOOSE a \in before : \A b \in before : b <= a
    IN IF before = {} \/ last < notBefore THEN None ELSE t.at[last]

-------------------------------------------------------------------------------
(* However the PDB's lines, the function starts, the local paths and        *)
(* searches follow each other, the table answers as if all had come first   *)
(* and in this order.                                                       *)
Apply(t, op) ==
    CASE op.do = "lines" -> AddLines(t, op.entry)
      [] op.do = "paths" -> AddLocalPaths(t, op.paths)
      [] op.do = "starts" -> MarkFunctionStarts(t, op.at)
      [] OTHER -> Searched(t)

LinesSettle(ops, order, path, addresses) ==
    LET t == FoldLeft(Apply, Empty, [i \in DOMAIN order |-> ops[order[i]]])
        u == FoldLeft(Apply, Empty, ops)
    IN /\ t.lines = u.lines /\ t.starts = u.starts /\ t.at = u.at
       /\ Range(t.queue) = Range(u.queue)
       /\ \A a \in addresses : LineContaining(t, a, 0) = LineContaining([u EXCEPT !.sorted = None], a, 0)
       /\ \A i, j \in 1 .. 3 :
            LET f == FindFunction(t, path, i, j)
            IN f # None => f \in t.starts /\ t.at[f][1] = path /\ t.at[f][2] \in i .. j
===============================================================================
