------------------------------ MODULE SourceLayout ------------------------------
(***************************************************************************)
(* Fields by their place, from the class layouts of the source index       *)
(* (reccmp/source/layout.py), and the comparison of a variable of both     *)
(* images by them (reccmp/compare/variables.py).                           *)
(*                                                                         *)
(* A class has size, alignment, trusted, fields and bases (sequences; None  *)
(* for a size or an alignment that is not known).  A field has              *)
(* name, offset (None when Clang laid none out), size (None: not known),   *)
(* kind ("scalar", "pointer", "record", "array"), bits (it is a bitfield), *)
(* record (its or its elements' class, None without one), element (the     *)
(* kind of an array's elements), stride and count.                         *)
(***************************************************************************)
EXTENDS Integers, FiniteSets, SequencesExt

CONSTANTS
    ClassOf,        \* [name -> class]
    Depth,          \* how deep classes nest
    PointerSize,
    None

Covers(field, offset) ==
    /\ field.offset # None
    /\ field.offset <= offset
    /\ IF field.size = None THEN field.offset = offset ELSE offset < field.offset + field.size

(* _layout_usable *)
Usable(class) ==
    /\ class.trusted
    /\ class.size # None
    /\ \/ \E i \in DOMAIN class.fields : class.fields[i].offset # None
       \/ class.bases # <<>>
       \/ class.alignment # None

Bitfields(class, offset) ==
    {i \in DOMAIN class.fields : class.fields[i].bits /\ Covers(class.fields[i], offset)}

(* _lookup_nested_class *)
Nested(field) ==
    IF \/ field.kind = "pointer"
       \/ field.kind = "array" /\ field.element \notin {None, "record"}
       \/ field.record \notin DOMAIN ClassOf
      THEN None ELSE field.record

(* Element of an array at a distance into it; 0 outside arrays. *)
Element(field, distance) ==
    IF field.kind = "array" /\ field.stride > 0 THEN distance \div field.stride ELSE 0
(* Mutant: a place in an element is taken from the start of the array. *)
IntoWhole(field, distance) == distance

Into(field, distance) ==
    IF field.kind = "array" /\ field.stride > 0 THEN distance % field.stride ELSE distance

(* Whether the walk over the fields stops at this one. *)
Takes(field, offset) ==
    /\ Covers(field, offset)
    /\ (field.kind = "array" /\ field.stride > 0 /\ field.count # None)
         => Element(field, offset - field.offset) < field.count

Start(f, o) ==
    f.offset + (IF f.kind = "array" /\ f.stride > 0 THEN Element(f, o - f.offset) * f.stride ELSE 0)

(* resolve_field: [path, leaf, absolute, relative] or None.  A place        *)
(* several bitfields share has no answer, nor one in a nested class whose   *)
(* layout is not trusted.                                                   *)
Resolve(class, offset) ==
    LET resolve[n \in 0 .. Depth, c \in DOMAIN ClassOf, o \in 0 .. offset] ==
          LET here == ClassOf[c]
              i == SelectInSeq(here.fields, LAMBDA g : Takes(g, o))
              f == here.fields[i]
              start == Start(f, o)
              step == <<f.name, Element(f, o - f.offset)>>
              nested == resolve[n - 1, Nested(f), o - start]
              base(b) == IF b.class \notin DOMAIN ClassOf \/ o < b.offset THEN None
                         ELSE resolve[n - 1, b.class, o - b.offset]
              j == SelectInSeq(here.bases, LAMBDA b : base(b) # None)
              under(found, at, name) ==
                 [found EXCEPT !.path = <<name>> \o @, !.absolute = @ + at]
          IN IF n = 0 \/ ~Usable(here) \/ Cardinality(Bitfields(here, o)) > 1 THEN None
             ELSE IF i # 0 /\ Nested(f) # None
               THEN IF nested = None THEN None ELSE under(nested, start, step)
             ELSE IF i # 0
               THEN [path |-> <<step>>, leaf |-> f, absolute |-> start,
                     relative |-> Into(f, o - f.offset)]
             ELSE IF j = 0 THEN None
             ELSE under(base(here.bases[j]), here.bases[j].offset, <<here.bases[j].class, 0>>)
    IN IF class \in DOMAIN ClassOf THEN resolve[Depth, class, offset] ELSE None

-------------------------------------------------------------------------------
(* _source_type_name: the class of a variable, from the declarations of it. *)
VariableClass(candidates) ==
    LET facts == {[kind |-> c.kind, record |-> c.record] : c \in candidates}
        class(f) == IF /\ f.kind # "pointer" /\ f.record \in DOMAIN ClassOf
                       /\ Usable(ClassOf[f.record])
                      THEN f.record ELSE None
    IN IF Cardinality(facts) = 1 THEN class(CHOOSE f \in facts : TRUE) ELSE None

(* _source_layout_members: what is compared as one value.                   *)
IsPointer(leaf) ==
    IF leaf.kind = "array" /\ leaf.stride > 0 THEN leaf.element = "pointer" ELSE leaf.kind = "pointer"

Known(leaf) == IF leaf.kind = "array" /\ leaf.stride > 0 THEN leaf.stride ELSE leaf.size

LeafSize(leaf) == IF IsPointer(leaf) THEN PointerSize ELSE Known(leaf)

Byte(offset) == [offset |-> offset, size |-> 1, pointer |-> FALSE]

MemberAt(o, found, size) ==
    IF found = None \/ found.relative # 0 THEN Byte(o)
    ELSE IF Known(found.leaf) \in {None, 0} THEN Byte(o)
    ELSE [offset |-> found.absolute,
          size |-> Min({LeafSize(found.leaf), size - found.absolute}),
          pointer |-> IsPointer(found.leaf)]

Members(class, size) ==
    LET member == [o \in 0 .. size - 1 |-> MemberAt(o, Resolve(class, o), size)]
        from[n \in 0 .. size, o \in 0 .. size] ==
          IF o >= size \/ n = 0 THEN <<>>
          ELSE <<member[o]>> \o from[n - 1, member[o].offset + member[o].size]
    IN from[size, 0]

(* compare_variable, for one whose type the PDB does not tell: by the       *)
(* members of its class or byte by byte.  orig and recomp: its bytes;       *)
(* same: where the pointers lead to the same place.                         *)
Slice(bytes, m) == SubSeq(bytes, m.offset + 1, m.offset + m.size)

Items(class, size) == IF class # None THEN Members(class, size) ELSE [i \in 1 .. size |-> Byte(i - 1)]

Compared(class, items, orig, recomp, same) ==
    LET match(m) ==
          IF m.pointer THEN m.offset \in same
                       ELSE Slice(orig, m) = Slice(recomp, m)
    IN IF \A i \in DOMAIN items : match(items[i]) THEN "match"
       ELSE IF class = None THEN "warn" ELSE "diff"

-------------------------------------------------------------------------------
(* Each byte of a variable is compared once, and as what it is: the members *)
(* of its class follow one another from its first byte to its last, a       *)
(* pointer is a whole one the layout has there, every level above it        *)
(* trusted, and so bytes that differ outside pointers are reported.         *)
(* (A class can nest one whose layout is not trusted, and a declaration of  *)
(* the variable can disagree with another.)                                 *)
ComparedOnce(class, items, orig, recomp, same) ==
    LET pointed == UNION {items[i].offset .. items[i].offset + items[i].size - 1 :
                            i \in {j \in DOMAIN items : items[j].pointer}}
        Whole(o, r) == r.absolute = o /\ r.relative = 0 /\ IsPointer(r.leaf)
        There(o, r) == r = None \/ r.absolute + r.relative = o
    IN /\ FoldLeft(LAMBDA end, m : IF m.offset = end THEN end + m.size ELSE -1, 0, items) = Len(orig)
       /\ \A i \in DOMAIN items : items[i].pointer => Whole(items[i].offset, Resolve(class, items[i].offset))
       /\ (\E o \in (0 .. Len(orig) - 1) \ pointed : orig[o + 1] # recomp[o + 1])
            => Compared(class, items, orig, recomp, same) # "match"
       /\ class # None => \A o \in 0 .. Len(orig) - 1 : There(o, Resolve(class, o))

EveryByteOnce(candidates, orig, recomp, same) ==
    LET holds(class) == ComparedOnce(class, Items(class, Len(orig)), orig, recomp, same)
    IN holds(VariableClass(candidates))
===============================================================================
