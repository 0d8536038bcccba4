--------------------------------- MODULE PeImage ---------------------------------
(***************************************************************************)
(* What a PE image says of its addresses (reccmp/formats/pe.py and         *)
(* image.py): the section one lies in, the bytes there, which are in the   *)
(* file and which are zero when it is loaded, and the text the loader's    *)
(* relocations point to.                                                   *)
(*                                                                         *)
(* A section has a name, its start, its virtual size, its bytes in the     *)
(* file and its flags; relocations are blocks [size, page, entries] that   *)
(* an empty block ends.  A pointer is one byte here.                       *)
(***************************************************************************)
EXTENDS Integers, Sequences, FiniteSets, FiniteSetsExt

CONSTANTS
    None,
    Sections,       \* in the order of their headers
    Blocks,         \* of the relocation table
    Base            \* the image base

Least(a, b) == IF a < b THEN a ELSE b
Most(a, b) == IF a > b THEN a ELSE b

(* vaddr_ranges *)
VaddrRange(i) ==
    LET s == Sections[i] IN Base + s.start .. Base + s.start + Most(Len(s.raw), s.size) - 1

SectionsAt(a) == {i \in DOMAIN Sections : a \in VaddrRange(i)}
SectionAt(a) == CHOOSE i \in SectionsAt(a) : \A j \in SectionsAt(a) : i <= j

(* get_relative_addr and get_abs_addr *)
RelativeAddr(a) ==
    IF SectionsAt(a) = {} THEN None
    ELSE <<SectionAt(a), a - (Base + Sections[SectionAt(a)].start)>>

AbsAddr(section, offset) ==
    IF section \in DOMAIN Sections THEN Base + Sections[section].start + offset ELSE None

(* is_valid_vaddr: between the base and the last end, gaps included. *)
IsValid(a) ==
    Base <= a /\ \E s \in {Sections[i] : i \in DOMAIN Sections} : a < Base + s.start + Most(Len(s.raw), s.size)

(* seek: the file's bytes from there on, and how many bytes are left. *)
Seek(a) ==
    IF SectionsAt(a) = {} THEN None
    ELSE LET s == Sections[SectionAt(a)]
             offset == a - (Base + s.start)
         IN [view |-> SubSeq(s.raw, offset + 1, Len(s.raw)), left |-> Most(Len(s.raw), s.size) - offset]

Read(a, size) ==
    LET s == Seek(a)
    IN IF s = None \/ size < 0 THEN None ELSE IF size > s.left THEN None
       ELSE [n \in 1 .. size |-> IF n <= Len(s.view) THEN s.view[n] ELSE 0]

Until(view, ends) == IF ends = {} THEN view ELSE SubSeq(view, 1, Min(ends) - 1)

ReadString(a) == IF Seek(a) = None THEN None ELSE Until(Seek(a).view, {n \in DOMAIN Seek(a).view : Seek(a).view[n] = 0})

(* Pairs of bytes, up to a pair of zeros or to what is less than a pair. *)
ReadWidechar(a) ==
    LET view == Seek(a).view
    IN IF Seek(a) = None THEN None
       ELSE Until(view, {n \in DOMAIN view : n % 2 = 1 /\ (n = Len(view) \/ (view[n] = 0 /\ view[n + 1] = 0))})

(* addr_is_uninitialized *)
UninitializedRange(s) ==
    IF "uninitialized" \in s.flags THEN Base + s.start .. Base + s.start + s.size - 1
    ELSE Base + s.start + Len(s.raw) .. Base + s.start + s.size - 1

Uninitialized(a) == \E i \in DOMAIN Sections : a \in UninitializedRange(Sections[i])

-------------------------------------------------------------------------------
(* get_code_regions, get_data_regions and get_const_regions; "writable"     *)
(* gives the write permission of the sections it names.                     *)
Extent(s) == Base + s.start .. Base + s.start + Most(Len(s.raw), s.size) - 1
IsCode(s) == "execute" \in s.flags
IsData(s) == s.name \notin {".idata", ".rsrc"} /\ "read" \in s.flags /\ s.flags \cap {"execute", "discardable"} = {}
WritePermissions == [n \in {s.name : s \in {Sections[i] : i \in DOMAIN Sections}} |->
                        \E i \in DOMAIN Sections : Sections[i].name = n /\ "write" \in Sections[i].flags]
IsConst(s, writable) ==
    IsData(s) /\ ~(IF s.name \in DOMAIN writable THEN writable[s.name] ELSE "write" \in s.flags)

Region(code) ==
    UNION {Extent(Sections[i]) : i \in {j \in DOMAIN Sections : IF code THEN IsCode(Sections[j]) ELSE IsData(Sections[j])}}

(* relocations, up to the first empty block; None where the table has none  *)
(* and fills its section, on which unpacking raises.                        *)
Relocations ==
    LET ends == {n \in DOMAIN Blocks : Blocks[n].size = 0}
    IN IF ends = {} THEN None
       ELSE UNION {{Base + Blocks[n].page + v : v \in Blocks[n].entries \ {0}} : n \in 1 .. Min(ends) - 1}

(* _relocated_addrs; None where a relocation lies in no section, on which   *)
(* seeking raises.                                                          *)
Relocated ==
    IF Relocations = None THEN None
    ELSE IF \E a \in Relocations : SectionsAt(a) = {} THEN None
    ELSE {Seek(a).view[1] : a \in {b \in Relocations : Seek(b).view # <<>>}}

(* iter_string and iter_widechar *)
Strings(wide) == {<<a, IF wide THEN ReadWidechar(a) ELSE ReadString(a)>> : a \in Relocated \cap Region(FALSE)}

-------------------------------------------------------------------------------
(* What a linker writes: a section flagged as uninitialized has no bytes in *)
(* the file.                                                                *)
Loadable ==
    /\ Base \in Nat /\ DOMAIN Sections \subseteq Nat
    /\ \A i \in DOMAIN Sections :
         LET s == Sections[i]
         IN /\ s.start \in Nat /\ s.size \in Nat /\ s.raw \in Seq(Nat)
            /\ "uninitialized" \in s.flags => s.raw = <<>>

(* An address means one place and one byte: where sections do not overlap,  *)
(* its section and offset lead back to it and to nothing else; a byte is    *)
(* either in the file or, in a loaded section, uninitialized and read as    *)
(* zero; what is read at once is what is read in parts; text does not leave *)
(* its section or hold its terminator; and one image's read-only data is    *)
(* the other's where it goes by the other's permissions.                    *)
Apart == \A i, j \in DOMAIN Sections : i # j => VaddrRange(i) \cap VaddrRange(j) = {}

ImageHolds(addresses, names) ==
    Apart =>
    /\ \A a \in addresses :
         LET r == RelativeAddr(a)
             s == Seek(a)
         IN /\ (r # None) = (s # None) /\ (r # None => IsValid(a))
            /\ r # None => /\ AbsAddr(r[1], r[2]) = a
                           /\ \A b \in addresses : RelativeAddr(b) = r => a = b
                           /\ Read(a, 1) = IF s.view = <<>> THEN <<0>> ELSE <<s.view[1]>>
                           /\ Uninitialized(a) => Read(a, 1) = <<0>>
                           /\ s.view = <<>> => Uninitialized(a)
                           /\ \A n \in 1 .. s.left - 1 : Read(a, s.left) = Read(a, n) \o Read(a + n, s.left - n)
                           /\ Read(a, s.left + 1) = None
                           /\ LET t == ReadString(a) IN t = Read(a, Len(t)) /\ 0 \notin {t[n] : n \in DOMAIN t}
                           /\ Len(ReadWidechar(a)) % 2 = 0
    /\ Region(TRUE) \cap Region(FALSE) = {}
    /\ Relocated # None => \A wide \in BOOLEAN : \A x \in Strings(wide) : x[1] \in Relocated /\ x[1] \notin Region(TRUE)
    /\ \A i \in DOMAIN Sections, w \in BOOLEAN :
         Sections[i].name \in names /\ IsData(Sections[i]) => (IsConst(Sections[i], [n \in names |-> w]) <=> ~w)
===============================================================================
