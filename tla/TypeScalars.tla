------------------------------- MODULE TypeScalars -------------------------------
(***************************************************************************)
(* The scalars of a type of the PDB (reccmp/cvdump/types.py and            *)
(* type_leaves.py), by which compare_variable (compare/variables.py) tells *)
(* the bytes of a variable apart.                                          *)
(*                                                                         *)
(* A leaf has kind "primitive" (size, pointer), "pointer", "alias" (a      *)
(* modifier, forward reference, enumeration or bitfield of another type),  *)
(* "array" (of, size) or "class" (a structure or union: size, virtual,     *)
(* bases, a sequence, and members, a sequence of [offset, type]).          *)
(***************************************************************************)
EXTENDS Integers, FiniteSets, SequencesExt

CONSTANTS
    Leaves,         \* [type -> leaf], of what the PDB has and can be read
    Depth,          \* how deep types nest
    PointerSize,
    None

VoidPointer == [kind |-> "primitive", size |-> PointerSize, pointer |-> TRUE]

(* get: the leaf a type comes to, None where one on the way is missing, an  *)
(* element or a base of any depth too.                                      *)
Get(type) ==
    LET get[n \in 0 .. Depth, t \in DOMAIN Leaves \cup {None}] ==
          IF n = 0 \/ t \notin DOMAIN Leaves THEN None
          ELSE CASE Leaves[t].kind = "pointer" -> VoidPointer
                 [] Leaves[t].kind = "alias" -> get[n - 1, Leaves[t].to]
                 [] Leaves[t].kind = "array" -> IF get[n - 1, Leaves[t].of] = None THEN None ELSE Leaves[t]
                 [] Leaves[t].kind = "class" ->
                      IF \E b \in ToSet(Leaves[t].bases) : get[n - 1, b] = None THEN None ELSE Leaves[t]
                 [] OTHER -> Leaves[t]
    IN IF type \in DOMAIN Leaves THEN get[Depth, type] ELSE None

(* The pointer that read_fieldlist puts first in a class with virtual       *)
(* functions is of no type of the PDB.                                      *)
Vftable == [offset |-> 0, type |-> "vftable"]
LeafOf(type) == IF type = "vftable" THEN VoidPointer ELSE Get(type)

Own(leaf) == (IF leaf.virtual THEN <<Vftable>> ELSE <<>>) \o leaf.members

ByOffset(members) ==
    LET before(i, j) == \/ members[i].offset < members[j].offset
                        \/ members[i].offset = members[j].offset /\ i < j
        order == SetToSortSeq(DOMAIN members, before)
    IN [k \in DOMAIN members |-> members[order[k]]]

(* _get_field_list: the bases' members keep the offsets they have there.    *)
Members(leaf) ==
    LET members[n \in 0 .. Depth, l \in {Get(t) : t \in DOMAIN Leaves} \cup {None}] ==
          IF n = 0 \/ l = None \/ l.kind # "class" THEN <<>>
          ELSE ByOffset(FlattenSeq([i \in DOMAIN l.bases |-> members[n - 1, Get(l.bases[i])]]) \o Own(l))
    IN members[Depth, leaf]

(* Of the members at one offset, the last. *)
Unique(members) ==
    LET last(i) == ~\E j \in DOMAIN members : j > i /\ members[j].offset = members[i].offset
        kept == SetToSortSeq({i \in DOMAIN members : last(i)}, <)
    IN [k \in DOMAIN kept |-> members[kept[k]]]

(* get_scalars, and whether every type it needs is there. *)
Moved(scalars, offset) == [i \in DOMAIN scalars |-> [scalars[i] EXCEPT !.offset = @ + offset]]

Scalars(type) ==
    LET scalars[n \in 0 .. Depth, t \in DOMAIN Leaves \cup {"vftable"}] ==
          LET l == LeafOf(t)
              members == Unique(Members(l))
          IN IF n = 0 \/ l = None THEN <<>>
             ELSE CASE l.kind = "primitive" -> <<[offset |-> 0, size |-> l.size, pointer |-> l.pointer]>>
                    [] l.kind = "array" ->
                         IF LeafOf(l.of) = None THEN <<>>
                         ELSE FlattenSeq([i \in 1 .. l.size \div LeafOf(l.of).size |->
                                            Moved(scalars[n - 1, l.of], (i - 1) * LeafOf(l.of).size)])
                    [] OTHER -> FlattenSeq([i \in DOMAIN members |->
                                              IF LeafOf(members[i].type) = None THEN <<>>
                                              ELSE Moved(scalars[n - 1, members[i].type], members[i].offset)])
    IN scalars[Depth, type]

Readable(type) ==
    LET readable[n \in 0 .. Depth, t \in DOMAIN Leaves \cup {"vftable", None}] ==
          LET l == LeafOf(t)
          IN IF n = 0 \/ (t # "vftable" /\ t \notin DOMAIN Leaves) \/ l = None THEN FALSE
             ELSE CASE l.kind = "primitive" -> TRUE
                    [] l.kind = "array" -> readable[n - 1, l.of]
                    [] OTHER -> \A m \in ToSet(Unique(Members(l))) : readable[n - 1, m.type]
    IN readable[Depth, type]

(* get_scalars_gapless: the scalars that do not overlap, the largest first  *)
(* where they start together; and each byte after one that none has.        *)
Follows(chosen, scalar) ==
    chosen = <<>> \/ scalar.offset >= Last(chosen).offset + Last(chosen).size

Chosen(s) ==
    LET before(i, j) == \/ s[i].offset < s[j].offset
                        \/ s[i].offset = s[j].offset /\ s[i].size > s[j].size
                        \/ s[i].offset = s[j].offset /\ s[i].size = s[j].size /\ i < j
    IN FoldLeft(LAMBDA acc, i : IF Follows(acc, s[i]) THEN Append(acc, s[i]) ELSE acc,
                <<>>, SetToSortSeq(DOMAIN s, before))

Padded(chosen, size) ==
    LET next(i) == IF i = Len(chosen) THEN size ELSE chosen[i + 1].offset
        end(i) == chosen[i].offset + chosen[i].size
        gap(i) == [j \in 1 .. next(i) - end(i) |-> [offset |-> end(i) + j - 1, size |-> 1, pointer |-> FALSE]]
    IN FlattenSeq([i \in DOMAIN chosen |-> <<chosen[i]>> \o gap(i)])

Gapless(type) == Padded(Chosen(Scalars(type)), Get(type).size)

-------------------------------------------------------------------------------
(* compare_variable, of one whose type the PDB tells; None where it then    *)
(* takes the bytes as they are, "error" where they do not unpack.  same: the *)
(* offsets of pointers that lead to the same place.                         *)
Slice(bytes, m) == SubSeq(bytes, m.offset + 1, m.offset + m.size)
Extent(items) == FoldLeft(LAMBDA n, m : n + m.size, 0, items)

Compared(type, items, orig, recomp, same) ==
    LET match(m) == IF m.pointer THEN m.offset \in same
                                 ELSE Slice(orig, m) = Slice(recomp, m)
    IN IF ~Readable(type) \/ items = <<>> THEN None
       ELSE IF Extent(items) # Get(type).size THEN "error"
       ELSE IF \A m \in ToSet(items) : match(m) THEN "match" ELSE "diff"

(* Where the compiler puts the scalars of a type: all branches of a union,  *)
(* and a base where it begins.  (Every base here begins with its class; of  *)
(* one that does not, the code takes the members to be where they are in    *)
(* the base.)                                                               *)
Laid(type) ==
    LET laid[n \in 0 .. Depth, t \in DOMAIN Leaves \cup {"vftable"}] ==
          LET l == LeafOf(t)
              there(u, offset) == IF n = 0 \/ LeafOf(u) = None THEN {}
                                  ELSE {[m EXCEPT !.offset = @ + offset] : m \in laid[n - 1, u]}
          IN CASE n = 0 -> {}
               [] n > 0 /\ l.kind = "primitive" -> {[offset |-> 0, size |-> l.size, pointer |-> l.pointer]}
               [] n > 0 /\ l.kind = "array" ->
                    UNION {there(l.of, i * LeafOf(l.of).size) : i \in 0 .. (l.size \div LeafOf(l.of).size) - 1}
               [] n > 0 /\ l.kind = "class" ->
                    UNION {there(l.bases[i], 0) : i \in DOMAIN l.bases}
                    \cup UNION {there(m.type, m.offset) : m \in ToSet(Own(l))}
    IN laid[Depth, type]

(* A typed variable is compared byte for byte, each byte once: what is      *)
(* unpacked is what the items say, a pointer is a pointer of the type, all  *)
(* of them where no union shares bytes, and bytes that differ elsewhere are *)
(* a difference.  (Only one whose first byte is no scalar's does not unpack.)*)
Bytes(m) == m.offset .. m.offset + m.size - 1

Apart(laid, members) ==
    /\ \A m, other \in laid : m # other => Bytes(m) \cap Bytes(other) = {}
    /\ \A i, j \in DOMAIN members : i # j => members[i].offset # members[j].offset

ComparedOnce(type, items, result, laid, orig, recomp) ==
    LET pointers == {m \in ToSet(items) : m.pointer}
        members == IF Get(type).kind = "class" THEN Own(Get(type)) ELSE <<>>
    IN /\ (\E m \in ToSet(Scalars(type)) : m.offset = 0) => result # "error"
       /\ result \notin {None, "error"} =>
         /\ FoldLeft(LAMBDA end, m : IF m.offset = end THEN end + m.size ELSE -1, 0, items) = Get(type).size
         /\ Apart(laid, members) => {m \in laid : m.pointer} \subseteq pointers
         /\ pointers \subseteq laid
         /\ (\E o \in (0 .. Get(type).size - 1) \ UNION {Bytes(m) : m \in pointers} :
               orig[o + 1] # recomp[o + 1]) => result = "diff"

TypedByteOnce(type, orig, recomp, same) ==
    LET holds(items) == ComparedOnce(type, items, Compared(type, items, orig, recomp, same), Laid(type), orig, recomp)
    IN holds(Gapless(type))
===============================================================================
