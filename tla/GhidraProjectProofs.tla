--------------------------- MODULE GhidraProjectProofs ---------------------------
(***************************************************************************)
(* Proofs about the cached Ghidra project, for any builds and any          *)
(* preparation keys.  The inductive invariant says what the folders hold   *)
(* in every state (FolderInv, OrigInv, PreparedInv: what a run may find on *)
(* disk, wherever earlier ones stopped) and what a run has achieved at     *)
(* each of its steps (RunInv).                                             *)
(***************************************************************************)
EXTENDS GhidraProject, TLAPS

(* A switch table stayed unknown in a preparation of this program. *)
Lost(c) == \E k \in Keys : <<k, "switch lost">> \in c.marks

(* A program knows its own purges; one that was put aside is analyzed, and  *)
(* its preparation, if any, lost nothing.                                   *)
FolderInv ==
    \A p \in Programs :
       /\ root[p] # None => p \in root[p].purges
       /\ root[p] # None /\ pristine[p] = None => ~Lost(root[p])
       /\ pristine[p] # None =>
            p \in pristine[p].purges /\ pristine[p].shape # {} /\ ~Lost(pristine[p])
       /\ prepared[p] # None =>
            p \in prepared[p].purges /\ prepared[p].shape # {} /\ ~Lost(prepared[p])

Untouched(c) == c.marks = {} /\ c.perms = Orig

(* The original gets a mark only once its pristine copy is kept. *)
OrigInv ==
    /\ pristine[Orig] # None => Untouched(pristine[Orig])
    /\ pristine[Orig] = None /\ root[Orig] # None => Untouched(root[Orig])
    /\ pristine[Orig] = None => \A p \in Programs : prepared[p] = None

Whole(c, k) == {<<k, "names">>, <<k, "folded">>} \subseteq c.marks
OfKey(k) == {k} \X {"names", "folded", "switch lost"}

(* What a comparison under key k needs of the programs in a folder. *)
Complete(folder, k) ==
    /\ Whole(folder[Orig], k) /\ Whole(folder[BuildOf[k]], k)
    /\ folder[Orig].marks \subseteq OfKey(k)
    /\ folder[Orig].perms = BuildOf[k]
    /\ folder[Orig].purges = folder[BuildOf[k]].purges

PreparedInv ==
    stamp # None => /\ Files(prepared) = {Orig, BuildOf[stamp]}
                    /\ Complete(prepared, stamp)

(* The steps that work on copies of the pristine programs. *)
Fresh == {"purges again", "permissions", "original", "recompiled", "folded",
          "unlink", "clear", "save", "stamp"}

FreshInv ==
    at \in Fresh =>
       /\ Files(root) = Compared
       /\ \A p \in Compared : /\ pristine[p] # None
                              /\ root[p].shape # {}
                              /\ failed \/ ~Lost(root[p])

AlignInv ==
    at = "purges again" =>
       /\ root[Orig].marks = {}
       /\ Orig \notin todo => root[Build].purges \subseteq root[Orig].purges
       /\ Build \notin todo => Orig \notin todo /\ root[Orig].purges = root[Build].purges

MarkInv ==
    /\ at \in Fresh \ {"purges again"} => root[Orig].purges = root[Build].purges
    /\ at \in {"permissions", "original"} => root[Orig].marks = {}
    /\ at \in {"recompiled", "folded", "unlink", "clear", "save", "stamp"} =>
         root[Orig].marks \subseteq OfKey(key) /\ <<key, "names">> \in root[Orig].marks
    /\ at \in {"original", "recompiled", "folded", "unlink", "clear", "save", "stamp"} =>
         root[Orig].perms = Build
    /\ at \in {"folded", "unlink", "clear", "save", "stamp"} => <<key, "names">> \in root[Build].marks
    /\ at = "folded" => \A p \in Compared \ todo : <<key, "folded">> \in root[p].marks
    /\ at \in {"unlink", "clear", "save", "stamp"} => ~failed /\ Complete(root, key)

SaveInv ==
    /\ at \in {"clear", "save", "stamp"} => stamp = None
    /\ at = "save" => /\ Files(prepared) \subseteq Compared
                      /\ \A p \in Compared \ todo : prepared[p] = root[p]
    /\ at = "stamp" => \A p \in Programs : prepared[p] = root[p]

EarlyInv ==
    /\ at = "import" => \A p \in Compared \ todo : root[p] # None
    /\ at = "prune" => Compared \subseteq Files(root)
    /\ at \in {"purges", "analyze", "lookup"} => Files(root) = Compared
    /\ at = "analyze" => \A p \in Compared \ todo : root[p].shape # {}
    /\ at = "lookup" => \A p \in Compared : root[p].shape # {}

CopyInv ==
    /\ at \in {"restore", "reset"} => Files(root) \subseteq Compared
    /\ at = "restore" => /\ stamp = key
                         /\ \A p \in Compared \ todo : root[p] = prepared[p]
    /\ at = "reset" =>
         /\ \A p \in Compared : root[p] # None => root[p].shape # {}
         /\ \A p \in Compared \ todo : pristine[p] # None /\ root[p] = pristine[p]
         /\ \A p \in todo : root[p] # None \/ pristine[p] # None

RunInv ==
    /\ at # "idle" => key \in Keys /\ todo \subseteq Compared
    /\ EarlyInv /\ CopyInv /\ FreshInv /\ AlignInv /\ MarkInv /\ SaveInv
    /\ ComparesWhatItAsked

Inv == TypeOK /\ FolderInv /\ OrigInv /\ PreparedInv /\ RunInv

-------------------------------------------------------------------------------
(* What an action does to a folder *)

(* The other programs of the root folder stay as they are. *)
Others(p) == \A q \in Programs \ {p} : root'[q] = root[q]

LEMMA Names ==
    /\ Orig \in Programs
    /\ \A k \in Keys : BuildOf[k] \in Builds /\ BuildOf[k] \in Programs /\ BuildOf[k] # Orig
    /\ \A k \in Keys : k # None
    /\ \A p \in Programs : p # None
    /\ None \notin Program
BY ProjectAssumption DEF Programs

(* Putting a program, or nothing, under a name. *)
LEMMA Put ==
    ASSUME TypeOK, NEW p \in Programs, NEW x \in Program \cup {None}, root' = [root EXCEPT ![p] = x]
    PROVE  root' \in Folder /\ root'[p] = x /\ Others(p)
BY DEF TypeOK, Folder, Others

LEMMA PurgesSet ==
    ASSUME TypeOK, NEW p \in Programs, root[p] # None, NEW ps \in SUBSET Programs,
           root' = [root EXCEPT ![p].purges = ps]
    PROVE  /\ root' \in Folder /\ Others(p) /\ root'[p] \in Program
           /\ root'[p].purges = ps /\ root'[p].shape = root[p].shape
           /\ root'[p].perms = root[p].perms /\ root'[p].marks = root[p].marks
<1>1. root[p] \in Program /\ root \in Folder
      BY DEF TypeOK, Folder
<1>2. root' = [root EXCEPT ![p] = [root[p] EXCEPT !.purges = ps]]
      BY <1>1 DEF Folder
<1>3. [root[p] EXCEPT !.purges = ps] \in Program
      BY <1>1 DEF Program
<1>4. root' \in Folder /\ root'[p] = [root[p] EXCEPT !.purges = ps] /\ Others(p)
      BY <1>1, <1>2, <1>3 DEF Others, Folder
<1> QED  BY <1>1, <1>3, <1>4 DEF Program

LEMMA ShapeSet ==
    ASSUME TypeOK, NEW p \in Programs, root[p] # None, NEW ps \in SUBSET Programs,
           root' = [root EXCEPT ![p].shape = ps]
    PROVE  /\ root' \in Folder /\ Others(p) /\ root'[p] \in Program
           /\ root'[p].shape = ps /\ root'[p].purges = root[p].purges
           /\ root'[p].perms = root[p].perms /\ root'[p].marks = root[p].marks
<1>1. root[p] \in Program /\ root \in Folder
      BY DEF TypeOK, Folder
<1>2. root' = [root EXCEPT ![p] = [root[p] EXCEPT !.shape = ps]]
      BY <1>1 DEF Folder
<1>3. [root[p] EXCEPT !.shape = ps] \in Program
      BY <1>1 DEF Program
<1>4. root' \in Folder /\ root'[p] = [root[p] EXCEPT !.shape = ps] /\ Others(p)
      BY <1>1, <1>2, <1>3 DEF Others, Folder
<1> QED  BY <1>1, <1>3, <1>4 DEF Program

LEMMA PermsSet ==
    ASSUME TypeOK, NEW p \in Programs, root[p] # None, NEW q \in Programs,
           root' = [root EXCEPT ![p].perms = q]
    PROVE  /\ root' \in Folder /\ Others(p) /\ root'[p] \in Program
           /\ root'[p].perms = q /\ root'[p].purges = root[p].purges
           /\ root'[p].shape = root[p].shape /\ root'[p].marks = root[p].marks
<1>1. root[p] \in Program /\ root \in Folder
      BY DEF TypeOK, Folder
<1>2. root' = [root EXCEPT ![p] = [root[p] EXCEPT !.perms = q]]
      BY <1>1 DEF Folder
<1>3. [root[p] EXCEPT !.perms = q] \in Program
      BY <1>1 DEF Program
<1>4. root' \in Folder /\ root'[p] = [root[p] EXCEPT !.perms = q] /\ Others(p)
      BY <1>1, <1>2, <1>3 DEF Others, Folder
<1> QED  BY <1>1, <1>3, <1>4 DEF Program

LEMMA MarksSet ==
    ASSUME TypeOK, NEW p \in Programs, root[p] # None, NEW ms \in SUBSET Marks,
           root' = [root EXCEPT ![p].marks = ms]
    PROVE  /\ root' \in Folder /\ Others(p) /\ root'[p] \in Program
           /\ root'[p].marks = ms /\ root'[p].purges = root[p].purges
           /\ root'[p].shape = root[p].shape /\ root'[p].perms = root[p].perms
<1>1. root[p] \in Program /\ root \in Folder
      BY DEF TypeOK, Folder
<1>2. root' = [root EXCEPT ![p] = [root[p] EXCEPT !.marks = ms]]
      BY <1>1 DEF Folder
<1>3. [root[p] EXCEPT !.marks = ms] \in Program
      BY <1>1 DEF Program
<1>4. root' \in Folder /\ root'[p] = [root[p] EXCEPT !.marks = ms] /\ Others(p)
      BY <1>1, <1>2, <1>3 DEF Others, Folder
<1> QED  BY <1>1, <1>3, <1>4 DEF Program

-------------------------------------------------------------------------------
(* What is on disk stays in order when nothing there changes, and when one  *)
(* program of the root folder does.                                         *)
DiskInv == FolderInv /\ OrigInv /\ PreparedInv

LEMMA DiskKept ==
    ASSUME DiskInv, UNCHANGED disk
    PROVE  DiskInv'
BY DEF DiskInv, disk, FolderInv, OrigInv, PreparedInv, Complete, Whole, Files

LEMMA RootChanged ==
    ASSUME TypeOK, DiskInv, NEW p \in Programs, Others(p), UNCHANGED <<pristine, prepared, stamp>>,
           root'[p] # None =>
              /\ p \in root'[p].purges
              /\ pristine[p] = None => ~Lost(root'[p])
              /\ p = Orig /\ pristine[p] = None => Untouched(root'[p])
    PROVE  DiskInv'
<1>1. FolderInv'
  <2> SUFFICES ASSUME NEW q \in Programs
               PROVE  /\ root'[q] # None => q \in root'[q].purges
                      /\ root'[q] # None /\ pristine[q] = None => ~Lost(root'[q])
      BY DEF DiskInv, FolderInv
  <2>1. CASE q = p
        BY <2>1
  <2>2. CASE q # p
        BY <2>2 DEF Others, DiskInv, FolderInv
  <2> QED  BY <2>1, <2>2
<1>2. OrigInv'
      BY Names DEF DiskInv, OrigInv, Others
<1>3. PreparedInv'
      BY DEF DiskInv, PreparedInv, Complete, Whole, Files
<1> QED  BY <1>1, <1>2, <1>3 DEF DiskInv

-------------------------------------------------------------------------------
LEMMA InitInv == Init => Inv
<1> SUFFICES ASSUME Init PROVE Inv
    OBVIOUS
<1>1. TypeOK /\ FolderInv /\ OrigInv /\ PreparedInv
      BY ProjectAssumption DEF Init, TypeOK, Folder, Empty, Programs, FolderInv, OrigInv, PreparedInv, Steps
<1>2. RunInv
      BY DEF Init, RunInv, EarlyInv, CopyInv, FreshInv, Fresh, AlignInv, MarkInv, SaveInv, ComparesWhatItAsked
<1> QED  BY <1>1, <1>2 DEF Inv

(* The parts of the invariant that speak of steps a run is not at. *)
LEMMA NotLate ==
    ASSUME at' \in {"idle", "import", "prune", "purges", "analyze", "lookup"}
    PROVE  CopyInv' /\ FreshInv' /\ AlignInv' /\ MarkInv' /\ SaveInv' /\ ComparesWhatItAsked'
BY DEF CopyInv, FreshInv, Fresh, AlignInv, MarkInv, SaveInv, ComparesWhatItAsked

LEMMA NotEarly ==
    ASSUME at' \notin {"import", "prune", "purges", "analyze", "lookup"}
    PROVE  EarlyInv'
BY DEF EarlyInv

LEMMA OnlyFresh ==
    ASSUME at' \in Fresh
    PROVE  EarlyInv' /\ CopyInv' /\ ComparesWhatItAsked'
BY DEF EarlyInv, CopyInv, ComparesWhatItAsked, Fresh

(* A run's key and what is left of its loop. *)
LoopInv == at # "idle" => key \in Keys /\ todo \subseteq Compared

LEMMA Parts ==
    Inv <=> /\ TypeOK /\ DiskInv /\ LoopInv
            /\ EarlyInv /\ CopyInv /\ FreshInv /\ AlignInv /\ MarkInv /\ SaveInv
            /\ ComparesWhatItAsked
BY DEF Inv, DiskInv, RunInv, LoopInv

-------------------------------------------------------------------------------
(* Set up and analyze *)

LEMMA StartKept == Inv /\ Start => Inv'
<1> SUFFICES ASSUME Inv, Start PROVE Inv'
    OBVIOUS
<1>1. PICK k \in Keys : at' = "import" /\ key' = k /\ todo' = {Orig, BuildOf[k]}
      BY DEF Start, GoTo
<1>2. TypeOK'
      BY <1>1, Names DEF Inv, TypeOK, Start, disk, Steps
<1>3. DiskInv'
      BY Parts, DiskKept DEF Start
<1>4. LoopInv' /\ EarlyInv'
      BY <1>1 DEF LoopInv, EarlyInv, Compared
<1> QED  BY <1>1, <1>2, <1>3, <1>4, NotLate DEF Inv, RunInv, DiskInv, LoopInv

LEMMA ImportKept == Inv /\ Import => Inv'
<1> SUFFICES ASSUME Inv, Import PROVE Inv'
    OBVIOUS
<1>1. TypeOK /\ DiskInv /\ LoopInv /\ EarlyInv /\ key \in Keys /\ todo \subseteq Compared
      BY Parts DEF LoopInv, Import
<1>2. Compared \subseteq Programs /\ Compared' = Compared
      BY <1>1, Names DEF Compared, Import
<1>3. at' \in {"import", "prune"}
      BY DEF Import, GoTo
<1>4. LoopInv'
      BY <1>1, <1>2 DEF LoopInv, Import, GoTo
<1>5. CASE todo = {} /\ UNCHANGED root /\ GoTo("prune", {})
  <2>1. DiskInv'
        BY <1>1, <1>5, DiskKept DEF Import, disk
  <2>2. TypeOK'
        BY <1>1, <1>5 DEF TypeOK, Import, GoTo, Steps
  <2>3. EarlyInv'
        BY <1>1, <1>2, <1>5 DEF EarlyInv, Import, GoTo, Files
  <2> QED  BY <1>3, <1>4, <2>1, <2>2, <2>3, NotLate DEF Inv, RunInv, DiskInv, LoopInv
<1>6. ASSUME NEW p \in todo, root' = [root EXCEPT ![p] = IF @ = None THEN Imported(p) ELSE @],
             GoTo("import", todo \ {p})
      PROVE  Inv'
  <2>1. p \in Programs
        BY <1>1, <1>2
  <2>2. Imported(p) \in Program
        BY <2>1 DEF Imported, Program
  <2>3. root[p] \in Program \cup {None}
        BY <1>1, <2>1 DEF TypeOK, Folder
  <2>4. /\ root' \in Folder /\ Others(p)
        /\ root'[p] = IF root[p] = None THEN Imported(p) ELSE root[p]
        BY <1>1, <1>6, <2>1, <2>2, <2>3, Put
  <2>5. root'[p] # None
        BY <2>2, <2>4, Names
  <2>6. p \in root'[p].purges /\ (pristine[p] = None => ~Lost(root'[p]))
                              /\ (p = Orig /\ pristine[p] = None => Untouched(root'[p]))
    <3>1. CASE root[p] = None
          BY <2>4, <3>1 DEF Imported, Lost, Untouched
    <3>2. CASE root[p] # None
          BY <1>1, <2>1, <2>4, <3>2 DEF DiskInv, FolderInv, OrigInv
    <3> QED  BY <3>1, <3>2
  <2>7. DiskInv'
        BY <1>1, <2>1, <2>4, <2>6, RootChanged DEF Import
  <2>8. TypeOK'
        BY <1>1, <1>6, <2>4 DEF TypeOK, Import, GoTo, Steps
  <2>9. EarlyInv'
        BY <1>1, <1>2, <1>6, <2>4, <2>5 DEF EarlyInv, Import, GoTo, Others
  <2> QED  BY <1>3, <1>4, <2>7, <2>8, <2>9, NotLate DEF Inv, RunInv, DiskInv, LoopInv
<1> QED  BY <1>5, <1>6 DEF Import

LEMMA PruneKept == Inv /\ Prune => Inv'
<1> SUFFICES ASSUME Inv, Prune PROVE Inv'
    OBVIOUS
<1>1. TypeOK /\ DiskInv /\ EarlyInv /\ key \in Keys /\ todo \subseteq Compared
      BY Parts DEF LoopInv, Prune
<1>2. Compared \subseteq Programs /\ Compared' = Compared /\ Orig \in Compared /\ Build \in Programs
      BY <1>1, Names DEF Compared, Build, Prune
<1>3. at' \in {"prune", "purges"}
      BY DEF Prune, GoTo
<1>4. LoopInv'
      BY <1>1, <1>2 DEF LoopInv, Prune, GoTo
<1>5. ASSUME NEW p \in Files(root) \ Compared, root' = [root EXCEPT ![p] = None],
             UNCHANGED <<pristine, at, todo>>
      PROVE  Inv'
  <2>1. p \in Programs
        BY DEF Files
  <2>2. root' \in Folder /\ Others(p) /\ root'[p] = None
        BY <1>1, <1>5, <2>1, Put
  <2>3. DiskInv'
        BY <1>1, <1>5, <2>1, <2>2, RootChanged DEF Prune
  <2>4. TypeOK'
        BY <1>1, <1>5, <2>2 DEF TypeOK, Prune
  <2>5. EarlyInv'
        BY <1>1, <1>2, <1>3, <1>5, <2>2 DEF EarlyInv, Prune, Files, Others
  <2> QED  BY <1>3, <1>4, <2>3, <2>4, <2>5, NotLate DEF Inv, RunInv, DiskInv, LoopInv
<1>6. ASSUME Files(root) \subseteq Compared, NEW p \in Files(pristine) \ Compared,
             pristine' = [pristine EXCEPT ![p] = None], UNCHANGED <<root, at, todo>>
      PROVE  Inv'
  <2>1. p \in Programs /\ p # Orig /\ root[p] = None
        BY <1>2, <1>6 DEF Files
  <2>2. pristine' \in Folder /\ pristine'[p] = None /\ \A q \in Programs \ {p} : pristine'[q] = pristine[q]
        BY <1>1, <1>6, <2>1 DEF TypeOK, Folder
  <2>3. FolderInv'
        BY <1>1, <1>6, <2>1, <2>2 DEF DiskInv, FolderInv, Prune
  <2>4. OrigInv' /\ PreparedInv'
        BY <1>1, <1>6, <2>1, <2>2, Names DEF DiskInv, OrigInv, PreparedInv, Complete, Whole, Files, Prune
  <2>5. TypeOK'
        BY <1>1, <1>6, <2>2 DEF TypeOK, Prune
  <2>6. EarlyInv'
        BY <1>1, <1>2, <1>3, <1>6 DEF EarlyInv, Prune, Files
  <2> QED  BY <1>3, <1>4, <2>3, <2>4, <2>5, <2>6, NotLate DEF Inv, RunInv, DiskInv, LoopInv
<1>7. ASSUME Files(root) \cup Files(pristine) \subseteq Compared, UNCHANGED <<root, pristine>>,
             GoTo("purges", Compared)
      PROVE  Inv'
  <2>1. DiskInv'
        BY <1>1, <1>7, DiskKept DEF Prune, disk
  <2>2. TypeOK'
        BY <1>1, <1>2, <1>7 DEF TypeOK, Prune, GoTo, Steps
  <2>3. EarlyInv'
        BY <1>1, <1>2, <1>7 DEF EarlyInv, Prune, GoTo, Files
  <2> QED  BY <1>3, <1>4, <2>1, <2>2, <2>3, NotLate DEF Inv, RunInv, DiskInv, LoopInv
<1> QED  BY <1>5, <1>6, <1>7 DEF Prune

(* Both programs learn purges in both places where they are aligned.        *)
LEMMA PurgesShared ==
    ASSUME TypeOK, DiskInv, key \in Keys, Files(root) = Compared, NEW p \in Compared,
           root' = [root EXCEPT ![p].purges = UNION {root[q].purges : q \in Compared}],
           UNCHANGED <<pristine, prepared, stamp>>
    PROVE  /\ root' \in Folder /\ Others(p) /\ root'[p] \in Program
           /\ root'[p].purges = UNION {root[q].purges : q \in Compared}
           /\ root'[p].shape = root[p].shape
           /\ root'[p].perms = root[p].perms /\ root'[p].marks = root[p].marks
           /\ DiskInv'
<1>1. Compared \subseteq Programs /\ \A q \in Compared : root[q] # None
      BY Names DEF Compared, Files
<1>2. \A q \in Compared : root[q] \in Program
      BY <1>1 DEF TypeOK, Folder
<1>3. UNION {root[q].purges : q \in Compared} \in SUBSET Programs
      BY <1>2 DEF Program
<1>4. /\ root' \in Folder /\ Others(p) /\ root'[p] \in Program
      /\ root'[p].purges = UNION {root[q].purges : q \in Compared}
      /\ root'[p].shape = root[p].shape
      /\ root'[p].perms = root[p].perms /\ root'[p].marks = root[p].marks
      BY <1>1, <1>3, PurgesSet
<1>5. DiskInv'
  <2>1. p \in root[p].purges
        BY <1>1 DEF DiskInv, FolderInv
  <2>2. p \in root'[p].purges
        BY <1>4, <2>1
  <2>3. pristine[p] = None => ~Lost(root'[p])
        BY <1>1, <1>4 DEF DiskInv, FolderInv, Lost
  <2>4. p = Orig /\ pristine[p] = None => Untouched(root'[p])
        BY <1>1, <1>4 DEF DiskInv, OrigInv, Untouched
  <2> QED  BY <1>1, <1>4, <2>2, <2>3, <2>4, RootChanged
<1> QED  BY <1>4, <1>5

LEMMA AlignPurgesKept == Inv /\ AlignPurges => Inv'
<1> SUFFICES ASSUME Inv, AlignPurges PROVE Inv'
    OBVIOUS
<1> USE DEF AlignPurges, SharePurges
<1>1. TypeOK /\ DiskInv /\ EarlyInv /\ key \in Keys /\ todo \subseteq Compared
      BY Parts DEF LoopInv
<1>2. Compared \subseteq Programs /\ Compared' = Compared /\ Files(root) = Compared
      BY <1>1, Names DEF Compared, EarlyInv
<1>3. at' \in {"purges", "analyze"}
      BY DEF GoTo
<1>4. LoopInv'
      BY <1>1, <1>2 DEF LoopInv, GoTo
<1>5. CASE todo = {} /\ UNCHANGED root /\ GoTo("analyze", Compared)
  <2>1. DiskInv'
        BY <1>1, <1>5, DiskKept DEF disk
  <2>2. TypeOK'
        BY <1>1, <1>2, <1>5 DEF TypeOK, GoTo, Steps
  <2>3. EarlyInv'
        BY <1>1, <1>2, <1>5 DEF EarlyInv, GoTo, Files
  <2> QED  BY <1>3, <1>4, <2>1, <2>2, <2>3, NotLate DEF Inv, RunInv, DiskInv, LoopInv
<1>6. ASSUME NEW p \in todo,
             root' = [root EXCEPT ![p].purges = UNION {root[q].purges : q \in Compared}],
             GoTo("purges", todo \ {p})
      PROVE  Inv'
  <2>1. root' \in Folder /\ Others(p) /\ root'[p] \in Program /\ DiskInv'
        BY <1>1, <1>2, <1>6, PurgesShared
  <2>2. TypeOK'
        BY <1>1, <1>6, <2>1 DEF TypeOK, GoTo, Steps
  <2>3. EarlyInv'
        BY <1>1, <1>2, <1>6, <2>1, Names DEF EarlyInv, GoTo, Others, Files
  <2> QED  BY <1>3, <1>4, <2>1, <2>2, <2>3, NotLate DEF Inv, RunInv, DiskInv, LoopInv
<1> QED  BY <1>5, <1>6

LEMMA AnalyzeKept == Inv /\ Analyze => Inv'
<1> SUFFICES ASSUME Inv, Analyze PROVE Inv'
    OBVIOUS
<1> USE DEF Analyze
<1>1. TypeOK /\ DiskInv /\ EarlyInv /\ key \in Keys /\ todo \subseteq Compared
      BY Parts DEF LoopInv
<1>2. Compared \subseteq Programs /\ Compared' = Compared /\ Files(root) = Compared
      BY <1>1, Names DEF Compared, EarlyInv
<1>3. at' \in {"analyze", "lookup"}
      BY DEF GoTo
<1>4. LoopInv'
      BY <1>1, <1>2 DEF LoopInv, GoTo
<1>5. CASE todo = {} /\ UNCHANGED root /\ GoTo("lookup", {})
  <2>1. DiskInv'
        BY <1>1, <1>5, DiskKept DEF disk
  <2>2. TypeOK'
        BY <1>1, <1>5 DEF TypeOK, GoTo, Steps
  <2>3. EarlyInv'
        BY <1>1, <1>2, <1>5 DEF EarlyInv, GoTo, Files
  <2> QED  BY <1>3, <1>4, <2>1, <2>2, <2>3, NotLate DEF Inv, RunInv, DiskInv, LoopInv
<1>6. ASSUME NEW p \in todo, root' = [root EXCEPT ![p].shape = IF @ = {} THEN root[p].purges ELSE @],
             GoTo("analyze", todo \ {p})
      PROVE  Inv'
  <2> DEFINE shape == IF root[p].shape = {} THEN root[p].purges ELSE root[p].shape
  <2>1. p \in Programs /\ root[p] # None
        BY <1>1, <1>2 DEF Files
  <2>2. root[p] \in Program /\ p \in root[p].purges
        BY <1>1, <2>1 DEF TypeOK, Folder, DiskInv, FolderInv
  <2>3. shape \in SUBSET Programs /\ shape # {}
        BY <2>2 DEF Program
  <2>4. root' = [root EXCEPT ![p].shape = shape]
        BY <1>6
  <2> HIDE DEF shape
  <2>5. /\ root' \in Folder /\ Others(p) /\ root'[p] \in Program
        /\ root'[p].shape = shape /\ root'[p].purges = root[p].purges
        /\ root'[p].perms = root[p].perms /\ root'[p].marks = root[p].marks
        BY <1>1, <2>1, <2>3, <2>4, ShapeSet
  <2>6. /\ pristine[p] = None => ~Lost(root'[p])
        /\ p = Orig /\ pristine[p] = None => Untouched(root'[p])
        BY <1>1, <2>1, <2>5 DEF DiskInv, FolderInv, OrigInv, Lost, Untouched
  <2>7. DiskInv'
        BY <1>1, <2>1, <2>2, <2>5, <2>6, RootChanged
  <2>8. TypeOK'
        BY <1>1, <1>6, <2>5 DEF TypeOK, GoTo, Steps
  <2>9. EarlyInv'
        BY <1>1, <1>2, <1>6, <2>3, <2>5, Names DEF EarlyInv, GoTo, Others, Files
  <2> QED  BY <1>3, <1>4, <2>7, <2>8, <2>9, NotLate DEF Inv, RunInv, DiskInv, LoopInv
<1> QED  BY <1>5, <1>6

-------------------------------------------------------------------------------
(* Start from the prepared or from the pristine programs *)

LEMMA OnlyCopy ==
    ASSUME at' \in {"restore", "reset"}
    PROVE  EarlyInv' /\ FreshInv' /\ AlignInv' /\ MarkInv' /\ SaveInv' /\ ComparesWhatItAsked'
BY DEF EarlyInv, FreshInv, Fresh, AlignInv, MarkInv, SaveInv, ComparesWhatItAsked

LEMMA OnlyDiff ==
    ASSUME at' = "diff"
    PROVE  EarlyInv' /\ CopyInv' /\ FreshInv' /\ AlignInv' /\ MarkInv' /\ SaveInv'
BY DEF EarlyInv, CopyInv, FreshInv, Fresh, AlignInv, MarkInv, SaveInv

LEMMA LookupKept == Inv /\ Lookup => Inv'
<1> SUFFICES ASSUME Inv, Lookup PROVE Inv'
    OBVIOUS
<1>1. TypeOK /\ DiskInv /\ EarlyInv /\ key \in Keys /\ Files(root) = Compared
      BY Parts DEF LoopInv, Lookup, EarlyInv
<1>2. Compared \subseteq Programs /\ Compared' = Compared
      BY <1>1, Names DEF Compared, Lookup
<1>3. at' \in {"restore", "reset"} /\ todo' = Compared /\ (at' = "restore" => stamp = key)
      BY <1>1 DEF Lookup, GoTo, PreparedForKey
<1>4. TypeOK'
      BY <1>1, <1>2, <1>3 DEF TypeOK, Lookup, disk, Steps
<1>5. DiskInv'
      BY <1>1, DiskKept DEF Lookup
<1>6. CopyInv'
      BY <1>1, <1>2, <1>3 DEF CopyInv, Lookup, disk, EarlyInv, Files
<1>7. LoopInv'
      BY <1>1, <1>2, <1>3 DEF LoopInv, Lookup
<1> QED  BY <1>3, <1>4, <1>5, <1>6, <1>7, OnlyCopy DEF Inv, RunInv, DiskInv, LoopInv

LEMMA RestoreKept == Inv /\ Restore => Inv'
<1> SUFFICES ASSUME Inv, Restore PROVE Inv'
    OBVIOUS
<1> USE DEF Restore
<1>1. TypeOK /\ DiskInv /\ CopyInv /\ key \in Keys /\ todo \subseteq Compared /\ stamp = key
      BY Parts DEF LoopInv, CopyInv
<1>2. Compared \subseteq Programs /\ Compared' = Compared /\ Orig \in Programs
      BY <1>1, Names DEF Compared
<1>3. Files(prepared) = Compared /\ Complete(prepared, key)
      BY <1>1, Names DEF DiskInv, PreparedInv, Compared
<1>4. \A p \in Compared : prepared[p] # None /\ prepared[p] \in Program
      BY <1>1, <1>2, <1>3 DEF TypeOK, Folder, Files
<1>5. ASSUME NEW p \in todo, root' = [root EXCEPT ![p] = None], UNCHANGED <<todo, at>>
      PROVE  Inv'
  <2>1. root' \in Folder /\ Others(p) /\ root'[p] = None
        BY <1>1, <1>2, <1>5, Put
  <2>2. DiskInv'
        BY <1>1, <1>2, <2>1, RootChanged
  <2>3. TypeOK'
        BY <1>1, <1>5, <2>1 DEF TypeOK
  <2>4. CopyInv' /\ LoopInv'
        BY <1>1, <1>2, <1>5, <2>1 DEF CopyInv, LoopInv, Others, Files
  <2> QED  BY <1>5, <2>2, <2>3, <2>4, OnlyCopy DEF Inv, RunInv, DiskInv, LoopInv
<1>6. ASSUME NEW p \in todo, root' = [root EXCEPT ![p] = prepared[p]], todo' = todo \ {p},
             UNCHANGED at
      PROVE  Inv'
  <2>1. root' \in Folder /\ Others(p) /\ root'[p] = prepared[p]
        BY <1>1, <1>2, <1>4, <1>6, Put
  <2>2. p \in prepared[p].purges /\ ~Lost(prepared[p]) /\ pristine[Orig] # None
        BY <1>1, <1>2, <1>4 DEF DiskInv, FolderInv, OrigInv
  <2>3. DiskInv'
        BY <1>1, <1>2, <2>1, <2>2, RootChanged
  <2>4. TypeOK'
        BY <1>1, <1>6, <2>1 DEF TypeOK
  <2>5. CopyInv' /\ LoopInv'
        BY <1>1, <1>2, <1>6, <2>1 DEF CopyInv, LoopInv, Others, Files
  <2> QED  BY <1>6, <2>3, <2>4, <2>5, OnlyCopy DEF Inv, RunInv, DiskInv, LoopInv
<1>7. CASE todo = {} /\ UNCHANGED root /\ GoTo("diff", {})
  <2>1. DiskInv'
        BY <1>1, <1>7, DiskKept DEF disk
  <2>2. TypeOK' /\ LoopInv'
        BY <1>1, <1>7 DEF TypeOK, LoopInv, GoTo, Steps
  <2>3. \A p \in Compared : root[p] = prepared[p] /\ root[p].shape # {}
        BY <1>1, <1>2, <1>4, <1>7 DEF CopyInv, DiskInv, FolderInv
  <2>4. Files(root) = Compared
        BY <1>1, <1>2, <1>4, <2>3 DEF CopyInv, Files
  <2>5. Orig \in Compared /\ BuildOf[key] \in Compared
        BY DEF Compared
  <2>6. ComparesWhatItAsked'
        BY <1>3, <1>7, <2>3, <2>4, <2>5 DEF ComparesWhatItAsked, Complete, Whole, OfKey, Build,
                                            Compared, Files
  <2> QED  BY <1>7, <2>1, <2>2, <2>6, OnlyDiff DEF Inv, RunInv, DiskInv, LoopInv, GoTo
<1> QED  BY <1>5, <1>6, <1>7 DEF Replace

LEMMA ResetKept == Inv /\ Reset => Inv'
<1> SUFFICES ASSUME Inv, Reset PROVE Inv'
    OBVIOUS
<1> USE DEF Reset
<1>1. TypeOK /\ DiskInv /\ CopyInv /\ key \in Keys /\ todo \subseteq Compared
      BY Parts DEF LoopInv
<1>2. Compared \subseteq Programs /\ Compared' = Compared /\ Orig \in Compared
      BY <1>1, Names DEF Compared
<1>3. ASSUME NEW p \in todo, pristine[p] = None, pristine' = [pristine EXCEPT ![p] = root[p]],
             GoTo("reset", todo \ {p}), UNCHANGED root
      PROVE  Inv'
  <2>1. p \in Programs /\ root[p] # None /\ root[p].shape # {} /\ root[p] \in Program
        BY <1>1, <1>2, <1>3 DEF CopyInv, TypeOK, Folder
  <2>2. /\ pristine' \in Folder /\ pristine'[p] = root[p]
        /\ \A q \in Programs \ {p} : pristine'[q] = pristine[q]
        BY <1>1, <1>3, <2>1 DEF TypeOK, Folder
  <2>3. FolderInv'
        BY <1>1, <1>3, <2>1, <2>2 DEF DiskInv, FolderInv
  <2>4. OrigInv'
        BY <1>1, <1>2, <1>3, <2>1, <2>2 DEF DiskInv, OrigInv
  <2>5. PreparedInv'
        BY <1>1 DEF DiskInv, PreparedInv, Complete, Whole, Files
  <2>6. TypeOK' /\ LoopInv'
        BY <1>1, <1>2, <1>3, <2>2 DEF TypeOK, LoopInv, GoTo, Steps
  <2>7. CopyInv'
        BY <1>1, <1>2, <1>3, <2>1, <2>2 DEF CopyInv, GoTo, Files
  <2>8. at' = "reset"
        BY <1>3 DEF GoTo
  <2> QED  BY <2>3, <2>4, <2>5, <2>6, <2>7, <2>8, OnlyCopy DEF Inv, RunInv, DiskInv, LoopInv
<1>4. ASSUME NEW p \in todo, pristine[p] # None, root' = [root EXCEPT ![p] = None],
             UNCHANGED <<todo, pristine, at>>
      PROVE  Inv'
  <2>1. root' \in Folder /\ Others(p) /\ root'[p] = None
        BY <1>1, <1>2, <1>4, Put
  <2>2. DiskInv'
        BY <1>1, <1>2, <1>4, <2>1, RootChanged
  <2>3. TypeOK' /\ LoopInv'
        BY <1>1, <1>2, <1>4, <2>1 DEF TypeOK, LoopInv
  <2>4. CopyInv'
        BY <1>1, <1>2, <1>4, <2>1 DEF CopyInv, Others, Files
  <2> QED  BY <1>4, <2>2, <2>3, <2>4, OnlyCopy DEF Inv, RunInv, DiskInv, LoopInv
<1>5. ASSUME NEW p \in todo, pristine[p] # None, root' = [root EXCEPT ![p] = pristine[p]],
             todo' = todo \ {p}, UNCHANGED <<pristine, at>>
      PROVE  Inv'
  <2>1. p \in Programs /\ pristine[p] \in Program /\ p \in pristine[p].purges /\ pristine[p].shape # {}
        BY <1>1, <1>2, <1>5 DEF TypeOK, Folder, DiskInv, FolderInv
  <2>2. root' \in Folder /\ Others(p) /\ root'[p] = pristine[p]
        BY <1>1, <1>5, <2>1, Put
  <2>3. DiskInv'
        BY <1>1, <1>5, <2>1, <2>2, RootChanged
  <2>4. TypeOK' /\ LoopInv'
        BY <1>1, <1>2, <1>5, <2>2 DEF TypeOK, LoopInv
  <2>5. CopyInv'
        BY <1>1, <1>2, <1>5, <2>1, <2>2 DEF CopyInv, Others, Files
  <2> QED  BY <1>5, <2>3, <2>4, <2>5, OnlyCopy DEF Inv, RunInv, DiskInv, LoopInv
<1>6. CASE todo = {} /\ GoTo("purges again", Compared) /\ UNCHANGED <<root, pristine>>
  <2>1. DiskInv'
        BY <1>1, <1>6, DiskKept DEF disk
  <2>2. TypeOK' /\ LoopInv'
        BY <1>1, <1>2, <1>6 DEF TypeOK, LoopInv, GoTo, Steps
  <2>3. \A p \in Compared : /\ pristine[p] # None /\ root[p] = pristine[p]
                            /\ root[p].shape # {} /\ ~Lost(root[p])
        BY <1>1, <1>2, <1>6 DEF CopyInv, DiskInv, FolderInv
  <2>4. FreshInv'
        BY <1>1, <1>2, <1>6, <2>3 DEF FreshInv, CopyInv, Files
  <2>5. AlignInv'
        BY <1>1, <1>2, <1>6, <2>3 DEF AlignInv, GoTo, DiskInv, OrigInv, Untouched, Build, Compared
  <2>6. EarlyInv' /\ CopyInv' /\ MarkInv' /\ SaveInv' /\ ComparesWhatItAsked'
        BY <1>6, OnlyFresh DEF Fresh, GoTo, MarkInv, SaveInv
  <2> QED  BY <2>1, <2>2, <2>4, <2>5, <2>6 DEF Inv, RunInv, DiskInv, LoopInv
<1> QED  BY <1>3, <1>4, <1>5, <1>6 DEF Replace

-------------------------------------------------------------------------------
(* Prepare *)

(* What holds in each of the steps on fresh copies. *)
LEMMA FreshFacts ==
    ASSUME Inv, at \in Fresh
    PROVE  /\ TypeOK /\ DiskInv /\ key \in Keys /\ todo \subseteq Compared
           /\ Compared \subseteq Programs /\ Files(root) = Compared
           /\ Orig \in Compared /\ Build \in Compared /\ Build # Orig
           /\ \A p \in Compared :
                 /\ pristine[p] # None /\ root[p] # None /\ root[p] \in Program
                 /\ root[p].shape # {} /\ p \in root[p].purges
                 /\ failed \/ ~Lost(root[p])
<1>1. TypeOK /\ DiskInv /\ key \in Keys /\ todo \subseteq Compared /\ FreshInv
      BY Parts DEF LoopInv, Fresh
<1>2. Compared \subseteq Programs /\ Orig \in Compared /\ Build \in Compared /\ Build # Orig
      BY <1>1, Names DEF Compared, Build
<1>3. Files(root) = Compared /\ \A p \in Compared :
                 pristine[p] # None /\ root[p].shape # {} /\ (failed \/ ~Lost(root[p]))
      BY <1>1 DEF FreshInv
<1>4. \A p \in Compared : root[p] # None /\ root[p] \in Program /\ p \in root[p].purges
      BY <1>1, <1>2, <1>3 DEF Files, TypeOK, Folder, DiskInv, FolderInv
<1> QED  BY <1>1, <1>2, <1>3, <1>4

LEMMA AlignPurgesAgainKept == Inv /\ AlignPurgesAgain => Inv'
<1> SUFFICES ASSUME Inv, AlignPurgesAgain PROVE Inv'
    OBVIOUS
<1> USE DEF AlignPurgesAgain, SharePurges
<1>1. at \in Fresh /\ at' \in Fresh
      BY DEF Fresh, GoTo
<1>2. /\ TypeOK /\ DiskInv /\ key \in Keys /\ todo \subseteq Compared
      /\ Compared \subseteq Programs /\ Files(root) = Compared
      /\ Orig \in Compared /\ Build \in Compared /\ Build # Orig
      /\ \A p \in Compared :
            /\ pristine[p] # None /\ root[p] # None /\ root[p] \in Program
            /\ root[p].shape # {} /\ (failed \/ ~Lost(root[p]))
      BY <1>1, FreshFacts
<1>3. Compared' = Compared /\ Build' = Build /\ AlignInv
      BY Parts DEF Compared, Build
<1>4. EarlyInv' /\ CopyInv' /\ SaveInv' /\ ComparesWhatItAsked'
      BY <1>1, OnlyFresh DEF SaveInv, GoTo
<1>5. CASE todo = {} /\ UNCHANGED root /\ GoTo("permissions", {})
  <2>1. DiskInv'
        BY <1>2, <1>5, DiskKept DEF disk
  <2>2. TypeOK' /\ LoopInv'
        BY <1>2, <1>3, <1>5 DEF TypeOK, LoopInv, GoTo, Steps
  <2>3. FreshInv'
        BY <1>2, <1>3, <1>5 DEF FreshInv, Files
  <2>4. AlignInv' /\ MarkInv'
        BY <1>3, <1>5 DEF AlignInv, MarkInv, GoTo
  <2> QED  BY <1>4, <2>1, <2>2, <2>3, <2>4 DEF Inv, RunInv, DiskInv, LoopInv
<1>6. ASSUME NEW p \in todo, InOrder(p),
             root' = [root EXCEPT ![p].purges = UNION {root[q].purges : q \in Compared}],
             GoTo("purges again", todo \ {p})
      PROVE  Inv'
  <2>1. /\ root' \in Folder /\ Others(p) /\ root'[p] \in Program
        /\ root'[p].purges = UNION {root[q].purges : q \in Compared}
        /\ root'[p].shape = root[p].shape /\ root'[p].marks = root[p].marks
        /\ DiskInv'
        BY <1>2, <1>6, PurgesShared
  <2>2. TypeOK' /\ LoopInv'
        BY <1>2, <1>3, <1>6, <2>1 DEF TypeOK, LoopInv, GoTo, Steps
  <2>3. Files(root') = Compared
        BY <1>2, <2>1, Names DEF Files, Others
  <2>4. \A q \in Compared : /\ root'[q].shape # {} /\ root'[q].marks = root[q].marks
                            /\ failed \/ ~Lost(root'[q])
        BY <1>2, <2>1 DEF Others, Lost
  <2>5. FreshInv'
        BY <1>2, <1>3, <2>3, <2>4 DEF FreshInv, Files
  <2>6. AlignInv'
    <3>1. CASE p = Orig
      <4>1. Build \in todo /\ Build \in todo'
            BY <1>2, <1>3, <1>6, <3>1 DEF AlignInv, GoTo
      <4>2. root'[Build].purges \subseteq root'[Orig].purges
            BY <1>2, <2>1, <3>1 DEF Others
      <4> QED  BY <1>3, <1>2, <2>4, <4>1, <4>2 DEF AlignInv
    <3>2. CASE p # Orig
      <4>1. p = Build /\ Orig \notin todo /\ root[Build].purges \subseteq root[Orig].purges
            BY <1>2, <1>3, <1>6, <3>2 DEF InOrder, AlignInv, Compared, Build
      <4>2. UNION {root[q].purges : q \in Compared} = root[Orig].purges
            BY <4>1 DEF Compared, Build
      <4> QED  BY <1>2, <1>3, <1>6, <2>1, <2>4, <3>2, <4>1, <4>2 DEF AlignInv, GoTo, Others
    <3> QED  BY <3>1, <3>2
  <2>7. MarkInv'
        BY <1>6 DEF MarkInv, GoTo
  <2> QED  BY <1>4, <2>1, <2>2, <2>5, <2>6, <2>7 DEF Inv, RunInv, DiskInv, LoopInv
<1> QED  BY <1>5, <1>6

LEMMA AlignPermissionsKept == Inv /\ AlignPermissions => Inv'
<1> SUFFICES ASSUME Inv, AlignPermissions PROVE Inv'
    OBVIOUS
<1> USE DEF AlignPermissions, GoTo
<1>1. at \in Fresh /\ at' \in Fresh
      BY DEF Fresh
<1>2. /\ TypeOK /\ DiskInv /\ key \in Keys /\ todo \subseteq Compared
      /\ Compared \subseteq Programs /\ Files(root) = Compared
      /\ Orig \in Compared /\ Build \in Compared /\ Build # Orig
      /\ \A p \in Compared :
            /\ pristine[p] # None /\ root[p] # None /\ root[p] \in Program
            /\ root[p].shape # {} /\ p \in root[p].purges
            /\ failed \/ ~Lost(root[p])
      BY <1>1, FreshFacts
<1>3. Compared' = Compared /\ Build' = Build /\ MarkInv
      BY Parts DEF Compared, Build
<1>4. /\ root' \in Folder /\ Others(Orig) /\ root'[Orig] \in Program
      /\ root'[Orig].perms = Build /\ root'[Orig].purges = root[Orig].purges
      /\ root'[Orig].shape = root[Orig].shape /\ root'[Orig].marks = root[Orig].marks
      BY <1>2, PermsSet
<1>5. DiskInv'
      BY <1>2, <1>4, RootChanged
<1>6. TypeOK' /\ LoopInv'
      BY <1>2, <1>4 DEF TypeOK, LoopInv, Steps
<1>7. Files(root') = Compared
      BY <1>2, <1>4, Names DEF Files, Others
<1>8. FreshInv'
      BY <1>2, <1>3, <1>4, <1>7 DEF FreshInv, Files, Others, Lost
<1>9. AlignInv' /\ MarkInv'
      BY <1>2, <1>3, <1>4 DEF AlignInv, MarkInv, Fresh, Others
<1> QED  BY <1>1, <1>5, <1>6, <1>8, <1>9, OnlyFresh DEF Inv, RunInv, DiskInv, LoopInv, SaveInv

LEMMA Pairs ==
    ASSUME NEW k, NEW S, NEW m \in {k} \X S
    PROVE  m[2] \in S /\ m = <<k, m[2]>>
OBVIOUS

LEMMA Tags ==
    /\ OfKey(key) = {<<key, "names">>, <<key, "folded">>, <<key, "switch lost">>}
    /\ <<key, "switch lost">> # <<key, "folded">> /\ <<key, "switch lost">> # <<key, "names">>
<1>1. <<key, "switch lost">> # <<key, "folded">> /\ <<key, "switch lost">> # <<key, "names">>
      OBVIOUS
<1>2. ASSUME NEW m \in OfKey(key)
      PROVE  m \in {<<key, "names">>, <<key, "folded">>, <<key, "switch lost">>}
  <2>1. m \in {key} \X {"names", "folded", "switch lost"}
        BY <1>2 DEF OfKey
  <2>2. m[2] \in {"names", "folded", "switch lost"} /\ m = <<key, m[2]>>
        BY <2>1, Pairs
  <2> QED  BY <2>2
<1>3. <<key, "names">> \in OfKey(key) /\ <<key, "folded">> \in OfKey(key)
        /\ <<key, "switch lost">> \in OfKey(key)
      BY DEF OfKey
<1>4. OfKey(key) = {<<key, "names">>, <<key, "folded">>, <<key, "switch lost">>}
      BY <1>2, <1>3
<1> QED  BY <1>1, <1>4

(* Marks under the run's key, with a lost switch noted as a failure, leave  *)
(* the disk and the copies in order.                                        *)
LEMMA MarksAdded ==
    ASSUME Inv, at \in Fresh, NEW p \in Compared, NEW ms \in SUBSET OfKey(key),
           root' = [root EXCEPT ![p].marks = root[p].marks \cup ms],
           <<key, "switch lost">> \in ms => failed',
           failed => failed',
           UNCHANGED <<pristine, prepared, stamp, key>>
    PROVE  /\ root' \in Folder /\ Others(p) /\ root'[p] \in Program
           /\ root'[p].marks = root[p].marks \cup ms
           /\ root'[p].purges = root[p].purges /\ root'[p].perms = root[p].perms
           /\ DiskInv' /\ FreshInv'
<1>1. /\ TypeOK /\ DiskInv /\ key \in Keys
      /\ Compared \subseteq Programs /\ Files(root) = Compared /\ Compared' = Compared
      /\ \A q \in Compared :
            /\ pristine[q] # None /\ root[q] # None /\ root[q] \in Program
            /\ root[q].shape # {} /\ q \in root[q].purges
            /\ failed \/ ~Lost(root[q])
      BY FreshFacts DEF Compared
<1>2. root[p].marks \cup ms \in SUBSET Marks
      BY <1>1 DEF OfKey, Marks, Program
<1>3. /\ root' \in Folder /\ Others(p) /\ root'[p] \in Program
      /\ root'[p].marks = root[p].marks \cup ms
      /\ root'[p].purges = root[p].purges /\ root'[p].perms = root[p].perms
      /\ root'[p].shape = root[p].shape
      BY <1>1, <1>2, MarksSet
<1>4. DiskInv'
      BY <1>1, <1>3, RootChanged
<1>5. Files(root') = Compared
      BY <1>1, <1>3, Names DEF Files, Others
<1>6. failed' \/ ~Lost(root'[p])
      BY <1>1, <1>3 DEF Lost, OfKey
<1>7. FreshInv'
      BY <1>1, <1>3, <1>5, <1>6 DEF FreshInv, Files, Others
<1> QED  BY <1>3, <1>4, <1>7

LEMMA PrepareOriginalKept == Inv /\ PrepareOriginal => Inv'
<1> SUFFICES ASSUME Inv, PrepareOriginal PROVE Inv'
    OBVIOUS
<1> USE DEF PrepareOriginal, Prepare, GoTo
<1>1. at \in Fresh /\ at' = "recompiled" /\ at' \in Fresh
      BY DEF Fresh
<1>2. /\ TypeOK /\ key \in Keys /\ Orig \in Compared /\ Build \in Compared /\ Build # Orig
      /\ Compared \subseteq Programs /\ MarkInv /\ Build' = Build
      BY <1>1, FreshFacts, Parts DEF Build
<1>3. PICK lost \in BOOLEAN :
         /\ root' = [root EXCEPT ![Orig].marks = @ \cup {<<key, "names">>}
                                  \cup IF lost THEN {<<key, "switch lost">>} ELSE {}]
         /\ failed' = (failed \/ lost)
      OBVIOUS
<1> DEFINE ms == {<<key, "names">>} \cup IF lost THEN {<<key, "switch lost">>} ELSE {}
<1>4. /\ ms \in SUBSET OfKey(key) /\ (<<key, "switch lost">> \in ms => failed') /\ (failed => failed')
      /\ <<key, "names">> \in ms
      BY <1>3, Tags
<1>5. root' = [root EXCEPT ![Orig].marks = root[Orig].marks \cup ms]
  <2>1. root[Orig].marks \cup {<<key, "names">>} \cup (IF lost THEN {<<key, "switch lost">>} ELSE {})
          = root[Orig].marks \cup ms
        OBVIOUS
  <2> QED  BY <1>3, <2>1
<1> HIDE DEF ms
<1>6. /\ root' \in Folder /\ Others(Orig)
      /\ root'[Orig].marks = root[Orig].marks \cup ms
      /\ root'[Orig].purges = root[Orig].purges /\ root'[Orig].perms = root[Orig].perms
      /\ DiskInv' /\ FreshInv'
      BY <1>1, <1>2, <1>4, <1>5, MarksAdded
<1>7. TypeOK' /\ LoopInv'
      BY <1>2, <1>3, <1>6 DEF TypeOK, LoopInv, Steps
<1>8. AlignInv' /\ SaveInv'
      BY <1>1 DEF AlignInv, SaveInv
<1>9. MarkInv'
      BY <1>2, <1>4, <1>6 DEF MarkInv, Fresh, Others
<1> QED  BY <1>1, <1>6, <1>7, <1>8, <1>9, OnlyFresh DEF Inv, RunInv, DiskInv, LoopInv

LEMMA PrepareRecompiledKept == Inv /\ PrepareRecompiled => Inv'
<1> SUFFICES ASSUME Inv, PrepareRecompiled PROVE Inv'
    OBVIOUS
<1> USE DEF PrepareRecompiled, Prepare, GoTo
<1>1. at \in Fresh /\ at' = "folded" /\ at' \in Fresh /\ todo' = Compared
      BY DEF Fresh
<1>2. /\ TypeOK /\ key \in Keys /\ Orig \in Compared /\ Build \in Compared /\ Build # Orig
      /\ Compared \subseteq Programs /\ MarkInv /\ Build' = Build /\ Compared' = Compared
      BY <1>1, FreshFacts, Parts DEF Build, Compared
<1>3. PICK lost \in BOOLEAN :
         /\ root' = [root EXCEPT ![Build].marks = @ \cup {<<key, "names">>}
                                  \cup IF lost THEN {<<key, "switch lost">>} ELSE {}]
         /\ failed' = (failed \/ lost)
      OBVIOUS
<1> DEFINE ms == {<<key, "names">>} \cup IF lost THEN {<<key, "switch lost">>} ELSE {}
<1>4. /\ ms \in SUBSET OfKey(key) /\ (<<key, "switch lost">> \in ms => failed') /\ (failed => failed')
      /\ <<key, "names">> \in ms
      BY <1>3, Tags
<1>5. root' = [root EXCEPT ![Build].marks = root[Build].marks \cup ms]
  <2>1. root[Build].marks \cup {<<key, "names">>} \cup (IF lost THEN {<<key, "switch lost">>} ELSE {})
          = root[Build].marks \cup ms
        OBVIOUS
  <2> QED  BY <1>3, <2>1
<1> HIDE DEF ms
<1>6. /\ root' \in Folder /\ Others(Build)
      /\ root'[Build].marks = root[Build].marks \cup ms
      /\ root'[Build].purges = root[Build].purges
      /\ DiskInv' /\ FreshInv'
      BY <1>1, <1>2, <1>4, <1>5, MarksAdded
<1>7. TypeOK' /\ LoopInv'
      BY <1>1, <1>2, <1>3, <1>6 DEF TypeOK, LoopInv, Steps
<1>8. AlignInv' /\ SaveInv'
      BY <1>1 DEF AlignInv, SaveInv
<1>9. MarkInv'
      BY <1>1, <1>2, <1>4, <1>6 DEF MarkInv, Fresh, Others
<1> QED  BY <1>1, <1>6, <1>7, <1>8, <1>9, OnlyFresh DEF Inv, RunInv, DiskInv, LoopInv

LEMMA AlignIdenticalCodeKept == Inv /\ AlignIdenticalCode => Inv'
<1> SUFFICES ASSUME Inv, AlignIdenticalCode PROVE Inv'
    OBVIOUS
<1> USE DEF AlignIdenticalCode, GoTo
<1>1. at \in Fresh /\ at = "folded"
      BY DEF Fresh
<1>2. /\ TypeOK /\ DiskInv /\ key \in Keys /\ todo \subseteq Compared
      /\ Compared \subseteq Programs /\ Files(root) = Compared
      /\ Orig \in Compared /\ Build \in Compared /\ Build # Orig
      /\ \A p \in Compared :
            pristine[p] # None /\ root[p].shape # {} /\ (failed \/ ~Lost(root[p]))
      BY <1>1, FreshFacts
<1>3. Compared' = Compared /\ Build' = Build /\ MarkInv
      BY Parts DEF Compared, Build
<1>4. ASSUME NEW p \in todo, root' = [root EXCEPT ![p].marks = @ \cup {<<key, "folded">>}],
             GoTo("folded", todo \ {p})
      PROVE  Inv'
  <2>1. {<<key, "folded">>} \in SUBSET OfKey(key) /\ <<key, "switch lost">> \notin {<<key, "folded">>}
        BY Tags
  <2>2. /\ root' \in Folder /\ Others(p)
        /\ root'[p].marks = root[p].marks \cup {<<key, "folded">>}
        /\ root'[p].purges = root[p].purges /\ root'[p].perms = root[p].perms
        /\ DiskInv' /\ FreshInv'
        BY <1>1, <1>2, <1>4, <2>1, MarksAdded
  <2>3. TypeOK' /\ LoopInv'
        BY <1>2, <1>3, <1>4, <2>2 DEF TypeOK, LoopInv, Steps
  <2>4. AlignInv' /\ SaveInv' /\ EarlyInv' /\ CopyInv' /\ ComparesWhatItAsked'
        BY <1>4, OnlyFresh DEF AlignInv, SaveInv, Fresh
  <2>5. \A q \in Compared : /\ root'[q].purges = root[q].purges /\ root'[q].perms = root[q].perms
                            /\ root'[q].marks = IF q = p THEN root[q].marks \cup {<<key, "folded">>}
                                                         ELSE root[q].marks
        BY <1>2, <2>2 DEF Others
  <2>6. MarkInv'
        BY <1>1, <1>2, <1>3, <1>4, <2>1, <2>5 DEF MarkInv, Fresh
  <2> QED  BY <2>2, <2>3, <2>4, <2>6 DEF Inv, RunInv, DiskInv, LoopInv
<1>5. CASE todo = {} /\ UNCHANGED root /\ GoTo(IF noCache \/ failed THEN "diff" ELSE "unlink", {})
  <2>1. DiskInv'
        BY <1>2, <1>5, DiskKept DEF disk
  <2>2. TypeOK' /\ LoopInv'
        BY <1>2, <1>3, <1>5 DEF TypeOK, LoopInv, Steps
  <2>3. Complete(root, key)
        BY <1>1, <1>2, <1>3, <1>5 DEF MarkInv, Complete, Whole, Fresh, Build
  <2>4. CASE at' = "diff"
    <3>1. \A p \in Compared : Whole(root[p], key)
          BY <2>3 DEF Complete, Compared
    <3>2. ComparesWhatItAsked'
          BY <1>2, <1>3, <1>5, <2>3, <2>4, <3>1 DEF ComparesWhatItAsked, Complete, Whole, OfKey, Build, Files
    <3> QED  BY <2>1, <2>2, <2>4, <3>2, OnlyDiff DEF Inv, RunInv, DiskInv, LoopInv
  <2>5. CASE at' = "unlink"
    <3>1. ~failed
          BY <1>5, <2>5
    <3>2. FreshInv'
          BY <1>2, <1>3, <1>5 DEF FreshInv, Files
    <3>3. MarkInv'
          BY <1>1, <1>2, <1>3, <1>5, <2>3, <2>5, <3>1 DEF MarkInv, Complete, Whole, Fresh, Build
    <3>4. AlignInv' /\ SaveInv'
          BY <2>5 DEF AlignInv, SaveInv
    <3> QED  BY <2>1, <2>2, <2>5, <3>2, <3>3, <3>4, OnlyFresh DEF Inv, RunInv, DiskInv, LoopInv, Fresh
  <2> QED  BY <1>5, <2>4, <2>5
<1> QED  BY <1>4, <1>5

-------------------------------------------------------------------------------
(* Keep the preparation *)

(* The saving steps leave the root folder and the pristine one alone. *)
LEMMA SavingKept ==
    ASSUME Inv, at \in Fresh, at' \in Fresh, UNCHANGED <<root, pristine, key, failed>>
    PROVE  FreshInv'
BY FreshFacts DEF FreshInv, Compared, Files

LEMMA UnlinkStampKept == Inv /\ UnlinkStamp => Inv'
<1> SUFFICES ASSUME Inv, UnlinkStamp PROVE Inv'
    OBVIOUS
<1> USE DEF UnlinkStamp, GoTo
<1>1. at \in Fresh /\ at' \in Fresh
      BY DEF Fresh
<1>2. TypeOK /\ DiskInv /\ key \in Keys /\ MarkInv
      BY Parts DEF LoopInv
<1>3. DiskInv'
      BY <1>2 DEF DiskInv, FolderInv, OrigInv, PreparedInv
<1>4. TypeOK' /\ LoopInv'
      BY <1>2 DEF TypeOK, LoopInv, Steps
<1>5. FreshInv'
      BY <1>1, SavingKept
<1>6. AlignInv' /\ SaveInv'
      BY DEF AlignInv, SaveInv
<1>7. MarkInv'
      BY <1>2 DEF MarkInv, Fresh, Complete, Whole, Build
<1> QED  BY <1>1, <1>3, <1>4, <1>5, <1>6, <1>7, OnlyFresh DEF Inv, RunInv, DiskInv, LoopInv

LEMMA ClearPreparedKept == Inv /\ ClearPrepared => Inv'
<1> SUFFICES ASSUME Inv, ClearPrepared PROVE Inv'
    OBVIOUS
<1> USE DEF ClearPrepared, GoTo
<1>1. at \in Fresh /\ at' \in Fresh
      BY DEF Fresh
<1>2. /\ TypeOK /\ DiskInv /\ key \in Keys /\ MarkInv /\ SaveInv /\ LoopInv /\ stamp = None
      /\ Files(root) = Compared /\ Compared \subseteq Programs /\ Compared' = Compared
      BY <1>1, FreshFacts, Parts DEF SaveInv, Compared
<1>3. FreshInv' /\ EarlyInv' /\ CopyInv' /\ ComparesWhatItAsked'
      BY <1>1, SavingKept, OnlyFresh
<1>4. AlignInv'
      BY DEF AlignInv
<1>5. MarkInv'
      BY <1>2 DEF MarkInv, Fresh, Complete, Whole, Build
<1>6. ASSUME NEW p \in Files(prepared), prepared' = [prepared EXCEPT ![p] = None], UNCHANGED <<at, todo>>
      PROVE  Inv'
  <2>1. p \in Programs
        BY DEF Files
  <2>2. /\ prepared' \in Folder /\ prepared'[p] = None
        /\ \A q \in Programs \ {p} : prepared'[q] = prepared[q]
        BY <1>2, <1>6, <2>1 DEF TypeOK, Folder
  <2>3. FolderInv' /\ OrigInv' /\ PreparedInv'
        BY <1>2, <2>2 DEF DiskInv, FolderInv, OrigInv, PreparedInv
  <2>4. TypeOK' /\ LoopInv'
        BY <1>2, <1>6, <2>2 DEF TypeOK, LoopInv
  <2>5. SaveInv'
        BY <1>2, <1>6 DEF SaveInv
  <2> QED  BY <1>3, <1>4, <1>5, <2>3, <2>4, <2>5 DEF Inv, RunInv, DiskInv, LoopInv
<1>7. CASE Files(prepared) = {} /\ UNCHANGED prepared /\ GoTo("save", Files(root))
  <2>1. DiskInv'
        BY <1>2, <1>7, DiskKept DEF disk
  <2>2. TypeOK' /\ LoopInv'
        BY <1>2, <1>7 DEF TypeOK, LoopInv, Steps
  <2>3. SaveInv'
        BY <1>2, <1>7 DEF SaveInv, Files
  <2> QED  BY <1>3, <1>4, <1>5, <2>1, <2>2, <2>3 DEF Inv, RunInv, DiskInv, LoopInv
<1> QED  BY <1>6, <1>7

LEMMA CopyPreparedKept == Inv /\ CopyPrepared => Inv'
<1> SUFFICES ASSUME Inv, CopyPrepared PROVE Inv'
    OBVIOUS
<1> USE DEF CopyPrepared, GoTo
<1>1. at \in Fresh /\ at' \in Fresh
      BY DEF Fresh
<1>2. /\ TypeOK /\ DiskInv /\ key \in Keys /\ MarkInv /\ SaveInv /\ LoopInv /\ stamp = None
      /\ Files(root) = Compared /\ Compared \subseteq Programs /\ Compared' = Compared
      /\ todo \subseteq Compared /\ Orig \in Compared /\ ~failed
      /\ \A p \in Compared :
            /\ pristine[p] # None /\ root[p] # None /\ root[p] \in Program
            /\ root[p].shape # {} /\ p \in root[p].purges
            /\ failed \/ ~Lost(root[p])
      BY <1>1, FreshFacts, Parts DEF SaveInv, MarkInv, Compared
<1>3. FreshInv' /\ EarlyInv' /\ CopyInv' /\ ComparesWhatItAsked'
      BY <1>1, SavingKept, OnlyFresh
<1>4. AlignInv'
      BY DEF AlignInv
<1>5. MarkInv'
      BY <1>2 DEF MarkInv, Fresh, Complete, Whole, Build
<1>6. ASSUME NEW p \in todo, prepared' = [prepared EXCEPT ![p] = root[p]], GoTo("save", todo \ {p})
      PROVE  Inv'
  <2>1. p \in Programs /\ p \in Compared
        BY <1>2
  <2>2. /\ prepared' \in Folder /\ prepared'[p] = root[p]
        /\ \A q \in Programs \ {p} : prepared'[q] = prepared[q]
        BY <1>2, <1>6, <2>1 DEF TypeOK, Folder
  <2>3. FolderInv'
        BY <1>2, <2>1, <2>2 DEF DiskInv, FolderInv
  <2>4. OrigInv' /\ PreparedInv'
        BY <1>2 DEF DiskInv, OrigInv, PreparedInv
  <2>5. TypeOK' /\ LoopInv'
        BY <1>2, <1>6, <2>2 DEF TypeOK, LoopInv, Steps
  <2>6. SaveInv'
        BY <1>2, <1>6, <2>1, <2>2 DEF SaveInv, Files
  <2> QED  BY <1>3, <1>4, <1>5, <2>3, <2>4, <2>5, <2>6 DEF Inv, RunInv, DiskInv, LoopInv
<1>7. CASE todo = {} /\ UNCHANGED prepared /\ GoTo("stamp", {})
  <2>1. DiskInv'
        BY <1>2, <1>7, DiskKept DEF disk
  <2>2. TypeOK' /\ LoopInv'
        BY <1>2, <1>7 DEF TypeOK, LoopInv, Steps
  <2>3. \A p \in Programs : prepared[p] = root[p]
        BY <1>2, <1>7 DEF SaveInv, Files
  <2>4. SaveInv'
        BY <1>2, <1>7, <2>3 DEF SaveInv
  <2> QED  BY <1>3, <1>4, <1>5, <2>1, <2>2, <2>4 DEF Inv, RunInv, DiskInv, LoopInv
<1> QED  BY <1>6, <1>7

LEMMA WriteStampKept == Inv /\ WriteStamp => Inv'
<1> SUFFICES ASSUME Inv, WriteStamp PROVE Inv'
    OBVIOUS
<1> USE DEF WriteStamp, GoTo
<1>1. at \in Fresh /\ at' = "diff"
      BY DEF Fresh
<1>2. /\ TypeOK /\ DiskInv /\ key \in Keys /\ MarkInv /\ SaveInv
      /\ Files(root) = Compared /\ Compared \subseteq Programs /\ Compared' = Compared
      /\ Orig \in Compared /\ Build \in Compared
      /\ \A p \in Compared : root[p].shape # {}
      BY <1>1, FreshFacts, Parts DEF Compared
<1>3. Complete(root, key) /\ \A p \in Programs : prepared[p] = root[p]
      BY <1>2 DEF MarkInv, SaveInv
<1>4. Files(prepared) = Compared /\ Complete(prepared, key)
      BY <1>2, <1>3 DEF Files, Complete, Build
<1>5. PreparedInv'
      BY <1>4 DEF PreparedInv, Complete, Whole, Files, Compared
<1>6. FolderInv' /\ OrigInv'
      BY <1>2 DEF DiskInv, FolderInv, OrigInv
<1>7. TypeOK' /\ LoopInv'
      BY <1>2 DEF TypeOK, LoopInv, Steps
<1>8. ComparesWhatItAsked'
  <2>1. \A p \in Compared : Whole(root[p], key)
        BY <1>3 DEF Complete, Compared
  <2> QED  BY <1>1, <1>2, <1>3, <2>1 DEF ComparesWhatItAsked, Complete, Whole, OfKey, Build, Files
<1> QED  BY <1>1, <1>5, <1>6, <1>7, <1>8, OnlyDiff DEF Inv, RunInv, DiskInv, LoopInv

(* A stop leaves on disk what was there. *)
LEMMA StopKept == Inv /\ Stop => Inv'
<1> SUFFICES ASSUME Inv, Stop PROVE Inv'
    OBVIOUS
<1>1. DiskInv'
      BY Parts, DiskKept DEF Stop
<1>2. TypeOK' /\ LoopInv' /\ EarlyInv' /\ at' = "idle"
      BY DEF Inv, TypeOK, LoopInv, EarlyInv, Stop, GoTo, disk, Steps
<1> QED  BY <1>1, <1>2, NotLate DEF Inv, RunInv, DiskInv, LoopInv

LEMMA InvKept == Inv /\ [Next]_vars => Inv'
<1>1. ASSUME Inv, UNCHANGED vars PROVE Inv'
  <2>1. DiskInv'
        BY <1>1, Parts, DiskKept DEF vars
  <2>2. TypeOK' /\ LoopInv' /\ EarlyInv' /\ CopyInv'
        BY <1>1, Parts DEF vars, disk, run, TypeOK, LoopInv, EarlyInv, CopyInv, Compared, Files
  <2>3. FreshInv' /\ AlignInv' /\ SaveInv'
        BY <1>1, Parts DEF vars, disk, run, FreshInv, AlignInv, SaveInv, Compared, Build, Files
  <2>4. MarkInv' /\ ComparesWhatItAsked'
        BY <1>1, Parts DEF vars, disk, run, MarkInv, Complete, Whole, ComparesWhatItAsked, Compared,
                           Build, Files
  <2> QED  BY <2>1, <2>2, <2>3, <2>4 DEF Inv, RunInv, DiskInv, LoopInv
<1> QED
    BY <1>1, StartKept, ImportKept, PruneKept, AlignPurgesKept, AnalyzeKept, LookupKept, RestoreKept,
       ResetKept, AlignPurgesAgainKept, AlignPermissionsKept, PrepareOriginalKept,
       PrepareRecompiledKept, AlignIdenticalCodeKept, UnlinkStampKept, ClearPreparedKept,
       CopyPreparedKept, WriteStampKept, StopKept DEF Next

-------------------------------------------------------------------------------
(* The theorems *)

(* What the folders and a run hold, wherever earlier runs stopped.          *)
THEOREM Invariance == Spec => []Inv
BY InitInv, InvKept, PTL DEF Spec

(* Every program in a folder is one, and a run is at one of its steps.      *)
THEOREM TypeCorrect == Spec => []TypeOK
<1>1. Inv => TypeOK
      BY DEF Inv
<1> QED  BY Invariance, <1>1, PTL

(* save_prepared: the stamp names a key only while "prepared" holds the     *)
(* whole preparation of that key.                                           *)
THEOREM StampIsTrue == Spec => []StampTellsTruth
<1>1. Inv => StampTellsTruth
  <2> SUFFICES ASSUME Inv, stamp # None
               PROVE  /\ Files(prepared) = {Orig, BuildOf[stamp]}
                      /\ \A p \in Files(prepared) : PreparedWhole(prepared[p], stamp)
      BY DEF StampTellsTruth
  <2>1. stamp \in Keys /\ Files(prepared) = {Orig, BuildOf[stamp]} /\ Complete(prepared, stamp)
        BY DEF Inv, TypeOK, PreparedInv
  <2>2. \A p \in Files(prepared) : ~Lost(prepared[p])
        BY DEF Inv, FolderInv, Files
  <2> QED  BY <2>1, <2>2 DEF PreparedWhole, Complete, Whole, Lost
<1> QED  BY Invariance, <1>1, PTL

(* reset_programs: nothing of a run gets into the original's pristine copy. *)
THEOREM PristineOriginal == Spec => []OriginalStaysPristine
<1>1. Inv => OriginalStaysPristine
      BY Names DEF Inv, OrigInv, Untouched, FolderInv, OriginalStaysPristine
<1> QED  BY Invariance, <1>1, PTL

(* prune_programs and reset_programs: the analysis of the original, once    *)
(* kept, is neither lost nor redone.                                        *)
THEOREM AnalyzedOnce == Spec => OriginalAnalyzedOnce
<1>1. Inv /\ [Next]_vars => [pristine[Orig] # None => pristine'[Orig] = pristine[Orig]]_vars
  <2> SUFFICES ASSUME Inv, Next, pristine[Orig] # None, pristine' # pristine
               PROVE  pristine'[Orig] = pristine[Orig]
      OBVIOUS
  <2>1. Prune \/ Reset
        BY DEF Next, Start, Import, AlignPurges, SharePurges, Analyze, Lookup, Restore,
               AlignPurgesAgain, AlignPermissions, PrepareOriginal, PrepareRecompiled, Prepare,
               AlignIdenticalCode, UnlinkStamp, ClearPrepared, CopyPrepared, WriteStamp, Stop, disk
  <2>2. pristine \in [Programs -> Program \cup {None}]
        BY DEF Inv, TypeOK, Folder
  <2>3. PICK p \in Programs :
           /\ p \notin Compared \/ pristine[p] = None
           /\ pristine' = [pristine EXCEPT ![p] = pristine'[p]]
    <3>1. CASE Prune
      <4>1. PICK q \in Files(pristine) \ Compared : pristine' = [pristine EXCEPT ![q] = None]
            BY <3>1 DEF Prune
      <4>2. q \in Programs /\ pristine'[q] = None
            BY <2>2, <4>1 DEF Files
      <4> QED  BY <4>1, <4>2
    <3>2. CASE Reset
      <4>1. PICK q \in todo : pristine[q] = None /\ pristine' = [pristine EXCEPT ![q] = root[q]]
            BY <3>2 DEF Reset
      <4>2. q \in Programs
            BY <4>1 DEF Inv, TypeOK
      <4>3. pristine'[q] = root[q]
            BY <2>2, <4>1, <4>2
      <4> QED  BY <4>1, <4>2, <4>3
    <3> QED  BY <2>1, <3>1, <3>2
  <2>4. p # Orig
        BY <2>3 DEF Compared
  <2> QED  BY <2>2, <2>3, <2>4, Names
<1> QED  BY Invariance, <1>1, PTL DEF Spec, OriginalAnalyzedOnce

(* _compare_programs: what is decompiled is what the run asked for, prepared *)
(* now or restored.                                                         *)
THEOREM ComparesAsked == Spec => []ComparesWhatItAsked
<1>1. Inv => ComparesWhatItAsked
      BY DEF Inv, RunInv
<1> QED  BY Invariance, <1>1, PTL
===============================================================================
