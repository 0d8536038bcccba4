----------------------------- MODULE DataReferences -----------------------------
(***************************************************************************)
(* The data one function refers to in one image, named and read the same   *)
(* way in both (reccmp/ghidriff/engine.py:_collect_references and          *)
(* _reference, reccmp/ghidriff/locations.py, reccmp/ghidriff/contents.py), *)
(* so that the difference between two images of one program that the       *)
(* linker laid out differently, and Ghidra typed differently, is none.     *)
(*                                                                         *)
(* The program is a set of things: each has a size, cells (a number; -n    *)
(* for pointer n) and what the catalog knows of it.  A cell stands for a   *)
(* pointer-sized part of the image.  An image gives each                   *)
(* thing an address (at); Ghidra typed some of its cells as data (typed),  *)
(* or the whole of it as a string (texts).                                 *)
(***************************************************************************)
EXTENDS ComparisonResults

CONSTANTS
    Things,
    Cells,      \* contents of each thing; None: not initialized
    Pointees,   \* the [to, offset] of each pointer
    Size,
    Role,       \* "data", "string", "function" or "import"
    Catalog,    \* "paired", "unpaired" (in one image only), "none"
    Extent      \* size in the catalog, None if it has none

(* What lies between things: alignment. *)
Filler == 204

Within(image, addr) == {t \in Things : image.at[t] <= addr /\ addr < image.at[t] + Size[t]}

(* Extents.containing: the last catalog entity that starts at or before an  *)
(* address, if it reaches that far.  [] when there is none.                 *)
Starts(image, addr) == {t \in Things : Catalog[t] # "none" /\ image.at[t] <= addr}

Containing(image, addr) ==
    {t \in Starts(image, addr) :
       /\ \A u \in Starts(image, addr) : image.at[u] <= image.at[t]
       /\ addr = image.at[t] \/ (Extent[t] # None /\ addr < image.at[t] + Extent[t])}

EndOf(image, t) == image.at[t] + Extent[t]

Ended(image, addr) ==
    {t \in Things : /\ Catalog[t] = "paired" /\ Extent[t] \notin {None, 0}
                    /\ EndOf(image, t) <= addr}

(* Extents.bound_at: the paired object whose end, or whose next element, an *)
(* address is: an exact end first, then what starts at or holds the         *)
(* address, then the nearest end below.                                     *)
BoundAt(image, addr) ==
    LET exact == \E t \in Ended(image, addr) : EndOf(image, t) = addr
        itself == \E t \in Containing(image, addr) :
                     Catalog[t] = "paired" /\ (addr = image.at[t] \/ Role[t] # "string")
        near == {t \in Ended(image, addr) : addr - image.at[t] < 2 * Extent[t]}
    IN IF itself /\ ~exact THEN {}
       ELSE {t \in near : \A u \in near : EndOf(image, u) <= EndOf(image, t)}

Object(image, t, addr) == [thing |-> t, offset |-> addr - image.at[t]]

-------------------------------------------------------------------------------
(* What is read at an address *)

CellAt(image, addr) ==
    IF Within(image, addr) = {} THEN Filler
    ELSE LET t == CHOOSE t \in Within(image, addr) : TRUE
         IN Cells[t][addr - image.at[t] + 1]

Initialized(image, addr) == \A t \in Within(image, addr) : Cells[t] # None

(* A negative cell is a pointer. *)
IsPointer(cell) == cell < 0

(* read_contents: the bytes of a pointer are not the program's. *)
Bytes(image, addr, n) ==
    [i \in 1 .. n |-> IF IsPointer(CellAt(image, addr + i - 1))
                        THEN 0 ELSE CellAt(image, addr + i - 1)]
Relocated(image, addr, n) == \E i \in 0 .. n - 1 : IsPointer(CellAt(image, addr + i))

RawAt(image, addr, n, known) ==
    [kind |-> "raw", data |-> Bytes(image, addr, n),
     relocated |-> Relocated(image, addr, n), known |-> known]

(* decode_string: up to the terminator. *)
Decoded(data) ==
    [kind |-> "string",
     text |-> SubSeq(data, 1, SelectInSeq(Append(data, 0), LAMBDA c : c = 0) - 1)]

(* ghidra_string, where Ghidra typed one. *)
Texts(image, addr) == Within(image, addr) \cap image.texts

GhidraString(image, addr) ==
    LET t == CHOOSE t \in Texts(image, addr) : TRUE
    IN Decoded(Bytes(image, addr, Size[t] - (addr - image.at[t])))

(* _target: what a pointer points at, in terms both sides share. *)
Target(image, to) ==
    LET addr == image.at[to.to] + to.offset
        located == Containing(image, addr)
    IN IF \E t \in located : Role[t] = "function" /\ addr # image.at[t] THEN None
       ELSE IF \E t \in located : Catalog[t] = "paired"
         THEN Object(image, CHOOSE t \in located : TRUE, addr)
       ELSE IF \E t \in located : Role[t] = "string" /\ Extent[t] # None /\ Cells[t] # None
         THEN LET t == CHOOSE t \in located : TRUE
              IN Decoded(Bytes(image, addr, EndOf(image, t) - addr))
       ELSE IF Texts(image, addr) # {} THEN GhidraString(image, addr)
       ELSE None

(* The end of _catalog_contents, _accessed_contents and _ghidra_contents.   *)
Read(image, addr, n, known, isText) ==
    IF ~Initialized(image, addr) THEN [kind |-> "uninit"]
    ELSE IF IsPointer(CellAt(image, addr)) /\ n > 0
      THEN [kind |-> "pointer", to |-> Target(image, Pointees[-CellAt(image, addr)])]
    ELSE IF isText /\ ~Relocated(image, addr, n) THEN Decoded(Bytes(image, addr, n))
    ELSE RawAt(image, addr, n, known)

(* Mutant: from an offset into an object its whole size is read. *)
CatalogContentsWhole(image, addr, t) ==
    IF Extent[t] = None THEN [kind |-> "unknown"]
    ELSE Read(image, addr, Extent[t], TRUE, Role[t] = "string")

CatalogContents(image, addr, t) ==
    IF Extent[t] = None THEN [kind |-> "unknown"]
    ELSE Read(image, addr, EndOf(image, t) - addr, TRUE, Role[t] = "string")

GhidraContents(image, addr) ==
    IF Texts(image, addr) # {} THEN GhidraString(image, addr)
    ELSE IF Within(image, addr) = {} THEN [kind |-> "unknown"]
    ELSE LET t == CHOOSE t \in Within(image, addr) : TRUE
             n == image.typed[t] - (addr - image.at[t])
         IN IF n <= 0 THEN [kind |-> "unknown"] ELSE Read(image, addr, n, FALSE, FALSE)

-------------------------------------------------------------------------------
(* A use is of a place the program means: a thing and an offset.  how:      *)
(* "compared", only a constant to compare with; "walked", register-relative *)
(* without the address in the operand; "scanned", of a string, followed by  *)
(* Ghidra for as far as it does in this image; "register" and "mask", a     *)
(* number that happens to be an address; "plain".  access: cells loaded or  *)
(* stored, None: none.                                                      *)
Address(image, use) ==
    IF use.how \in {"register", "mask"} THEN use.offset
    ELSE image.at[use.thing] + use.offset + (IF use.how = "scanned" THEN image.scanned ELSE 0)

IsData(image, addr) ==
    /\ \A t \in Within(image, addr) : Role[t] # "function"
    /\ \A t \in Containing(image, addr) : Role[t] \notin {"function", "import"}

(* _compared_end and _iterated_past_end *)
Bound(image, use) ==
    LET addr == Address(image, use)
    IN {t \in BoundAt(image, addr) :
          \/ use.how = "compared"
          \/ use.how = "walked" /\ addr - image.at[t] >= Extent[t]}

(* string_start *)
Start(image, addr) ==
    IF Containing(image, addr) # {}
      THEN IF \E t \in Containing(image, addr) : Role[t] = "string"
             THEN image.at[CHOOSE t \in Containing(image, addr) : TRUE] ELSE addr
    ELSE IF Texts(image, addr) # {}
      THEN image.at[CHOOSE t \in Within(image, addr) : TRUE]
    ELSE addr

(* _reference.  [address, object, contents] of [addr, bound, access]. *)
Reference(image, use) ==
    LET located == Containing(image, use.addr)
        t == CHOOSE t \in located : TRUE
        object == IF use.bound # {} THEN CHOOSE o \in use.bound : TRUE
                  ELSE IF \E u \in located : Catalog[u] = "paired" THEN Object(image, t, use.addr)
                  ELSE None
        contents == IF use.bound # {} THEN [kind |-> "end"]
                    ELSE IF located # {} THEN CatalogContents(image, use.addr, t)
                    ELSE IF use.access = None THEN GhidraContents(image, use.addr)
                    ELSE Read(image, use.addr, use.access, TRUE, FALSE)
    IN [address |-> use.addr, object |-> object, contents |-> contents]

(* Uses of one address, bound and access are one use. *)
Key(image, use) ==
    LET bound == Bound(image, use)
        here == Address(image, use)
    IN [addr |-> IF use.access = None /\ bound = {} THEN Start(image, here) ELSE here,
        bound |-> {Object(image, t, here) : t \in bound}, access |-> use.access]

Collected(image, uses) ==
    LET data == {u \in uses : u.how \notin {"register", "mask"} /\ IsData(image, Address(image, u))}
        keys == SetToSortSeq({Key(image, u) : u \in data}, LAMBDA a, b : a.addr < b.addr)
    IN [i \in DOMAIN keys |-> Reference(image, keys[i])]

-------------------------------------------------------------------------------
(* What an address says of the place meant, in this layout: one past an     *)
(* array is that array's unless the next paired object has begun or ended   *)
(* by then, and an array that ends where an object starts takes its         *)
(* comparisons.                                                             *)
Unmistaken(image, use) ==
    LET addr == Address(image, use)
        from == image.at[use.thing]
        size == Size[use.thing]
    IN use.how \in {"compared", "walked"} =>
         /\ use.offset # size =>
              \A t \in Things \ {use.thing} : Catalog[t] = "paired" =>
                 ~(from <= EndOf(image, t) /\ EndOf(image, t) <= addr)
         /\ use.offset > size => \A t \in Containing(image, addr) : Catalog[t] # "paired"

Named(refs) == {refs[i].object : i \in DOMAIN refs} \ {None}

(* Where a thing lies, what lies beside it and how Ghidra typed it is no    *)
(* difference: a function that uses the same places of the same program,    *)
(* inside its objects, at their ends or less than a size past them, names   *)
(* the same objects and offsets, the ones it uses, and has no data finding, *)
(* whatever the two layouts, as far as the address says which object is     *)
(* meant.  (Of data that is not paired it uses one place at most: of        *)
(* several such, typed differently, nothing says which is which.)           *)
LayoutIsNoDifference(orig, recomp, uses) ==
    LET a == Collected(orig, uses)
        b == Collected(recomp, uses)
        meant(u) == Catalog[u.thing] = "paired" /\ Role[u.thing] = "data" /\ u.how \notin {"mask", "register"}
    IN (\A u \in uses : Unmistaken(orig, u) /\ Unmistaken(recomp, u)) =>
         /\ Named(a) = Named(b)
         /\ {[thing |-> u.thing, offset |-> u.offset] : u \in {v \in uses : meant(v)}} \subseteq Named(a)
         /\ Cardinality({u \in uses : Catalog[u.thing] # "paired"}) <= 1 => ~Findings(a, b)
===============================================================================
