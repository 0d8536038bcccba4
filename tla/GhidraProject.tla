----------------------------- MODULE GhidraProject -----------------------------
(***************************************************************************)
(* The cached Ghidra project one comparison works in                       *)
(* (reccmp/tools/compare.py:_compare_programs,                             *)
(* reccmp/ghidriff/project_cache.py and the program-wide steps of          *)
(* reccmp/ghidriff/engine.py).  The project is named by the original       *)
(* binary, so every run against that original shares it: the original and  *)
(* the recompiled build under comparison at the root, the analyzed         *)
(* programs under "pristine", the last complete preparation under          *)
(* "prepared", and a stamp file holding the key of that preparation.       *)
(*                                                                         *)
(* Ghidra locks a project that is open, so runs do not overlap; a run may  *)
(* stop at any step (an exception, a kill, a power cut), and each step     *)
(* here is one that leaves something on disk.  A completed comparison that *)
(* is cached never opens the project, so the keys are preparation keys:    *)
(* one key is used again by runs that differ in anything else (decompiler  *)
(* timeout, report code, an analysis failure that kept the result out of   *)
(* the completed cache).                                                   *)
(***************************************************************************)
EXTENDS Naturals, FiniteSets

CONSTANTS
    Orig,       \* the original binary
    Builds,     \* recompiled builds
    Keys,       \* RunInputs.preparation_key
    BuildOf,    \* the build whose digest is in a preparation key
    None        \* no key, no stamp, no program of that name

Programs == {Orig} \cup Builds

(* What a preparation leaves in a program: its names and functions, the     *)
(* names of folded code both programs share, and the mark of a switch       *)
(* whose table could not be recovered.                                      *)
Marks == Keys \X {"names", "folded", "switch lost"}

(* A program as Ghidra stores it.  purges: the programs whose import purges *)
(* it knows; shape: those it knew when it was analyzed, {} before that;     *)
(* perms: whose memory permissions it has.                                  *)
Program == [shape : SUBSET Programs, purges : SUBSET Programs,
            perms : Programs, marks : SUBSET Marks]
ASSUME ProjectAssumption ==
    /\ Orig \notin Builds
    /\ BuildOf \in [Keys -> Builds]
    /\ None \notin Keys \cup Programs \cup Program

Folder == [Programs -> Program \cup {None}]
Empty == [p \in Programs |-> None]

(* The steps of a run, in order. *)
Steps == {"idle", "import", "prune", "purges", "analyze", "lookup", "restore", "reset",
          "purges again", "permissions", "original", "recompiled", "folded",
          "unlink", "clear", "save", "stamp", "diff"}

VARIABLES
    root,       \* the project's root folder
    pristine,   \* the "pristine" folder
    prepared,   \* the "prepared" folder
    stamp,      \* contents of prepared-key.txt
    at,         \* the step the running comparison is at
    key,        \* its preparation key
    noCache,    \* --no-cache
    failed,     \* engine.preparation_failed
    todo        \* files the current loop has left

disk == <<root, pristine, prepared, stamp>>
run == <<at, key, noCache, failed, todo>>
vars == <<disk, run>>

Files(folder) == {p \in Programs : folder[p] # None}

(* [orig, recomp] of the run *)
Compared == {Orig, BuildOf[key]}
Build == BuildOf[key]

TypeOK ==
    /\ root \in Folder
    /\ pristine \in Folder
    /\ prepared \in Folder
    /\ stamp \in Keys \cup {None}
    /\ at \in Steps
    /\ key \in Keys \cup {None}
    /\ noCache \in BOOLEAN
    /\ failed \in BOOLEAN
    /\ todo \subseteq Programs

Init ==
    /\ root = Empty
    /\ pristine = Empty
    /\ prepared = Empty
    /\ stamp = None
    /\ at = "idle"
    /\ key = None
    /\ noCache = FALSE
    /\ failed = FALSE
    /\ todo = {}

GoTo(step, files) == at' = step /\ todo' = files

-------------------------------------------------------------------------------
(* Set up and analyze *)

Start ==
    /\ at = "idle"
    /\ \E k \in Keys, n \in BOOLEAN :
        /\ key' = k
        /\ noCache' = n
        /\ failed' = FALSE
        /\ GoTo("import", {Orig, BuildOf[k]})
    /\ UNCHANGED disk

(* setup_project: ghidriff imports what the root folder does not hold. *)
Imported(p) ==
    [shape |-> {}, purges |-> {p}, perms |-> p, marks |-> {}]

Import ==
    /\ at = "import"
    /\ \/ \E p \in todo :
            /\ root' = [root EXCEPT ![p] = IF @ = None THEN Imported(p) ELSE @]
            /\ GoTo("import", todo \ {p})
       \/ /\ todo = {}
          /\ UNCHANGED root
          /\ GoTo("prune", {})
    /\ UNCHANGED <<pristine, prepared, stamp, key, noCache, failed>>

(* Mutant: the original is pruned from the pristine folder with the rest. *)
PruneOthers ==
    /\ at = "prune"
    /\ \/ \E p \in Files(root) \ Compared :
            /\ root' = [root EXCEPT ![p] = None]
            /\ UNCHANGED <<pristine, at, todo>>
       \/ /\ Files(root) \subseteq Compared
          /\ \E p \in Files(pristine) \ {Build} :
                pristine' = [pristine EXCEPT ![p] = None]
          /\ UNCHANGED <<root, at, todo>>
       \/ /\ Files(root) \subseteq Compared
          /\ Files(pristine) \subseteq {Build}
          /\ UNCHANGED <<root, pristine>>
          /\ GoTo("purges", Compared)
    /\ UNCHANGED <<prepared, stamp, key, noCache, failed>>

(* prune_programs: the root folder, then the pristine one. *)
Prune ==
    /\ at = "prune"
    /\ \/ \E p \in Files(root) \ Compared :
            /\ root' = [root EXCEPT ![p] = None]
            /\ UNCHANGED <<pristine, at, todo>>
       \/ /\ Files(root) \subseteq Compared
          /\ \E p \in Files(pristine) \ Compared :
                pristine' = [pristine EXCEPT ![p] = None]
          /\ UNCHANGED <<root, at, todo>>
       \/ /\ Files(root) \cup Files(pristine) \subseteq Compared
          /\ UNCHANGED <<root, pristine>>
          /\ GoTo("purges", Compared)
    /\ UNCHANGED <<prepared, stamp, key, noCache, failed>>

(* One save of a stage that opens both programs: the original first. *)
InOrder(p) == p \in todo /\ (p = Orig \/ Orig \notin todo)

(* align_import_purges: each program learns what the other one knows. *)
SharePurges(here, next, files) ==
    /\ at = here
    /\ \/ \E p \in todo :
            /\ InOrder(p)
            /\ root' = [root EXCEPT ![p].purges =
                            UNION {root[q].purges : q \in Compared}]
            /\ GoTo(here, todo \ {p})
       \/ /\ todo = {}
          /\ UNCHANGED root
          /\ GoTo(next, files)
    /\ UNCHANGED <<pristine, prepared, stamp, key, noCache, failed>>

AlignPurges == SharePurges("purges", "analyze", Compared)

(* analyze_project: what has been analyzed is left as it is.  Nothing a     *)
(* program is analyzed with is looked at again.                             *)
Analyze ==
    /\ at = "analyze"
    /\ \/ \E p \in todo :
            /\ root' = [root EXCEPT ![p].shape = IF @ = {} THEN root[p].purges
                                                ELSE @]
            /\ GoTo("analyze", todo \ {p})
       \/ /\ todo = {}
          /\ UNCHANGED root
          /\ GoTo("lookup", {})
    /\ UNCHANGED <<pristine, prepared, stamp, key, noCache, failed>>

-------------------------------------------------------------------------------
(* Start from the prepared or from the pristine programs *)

(* A loop over the root's files that replaces each by its copy in folder:   *)
(* delete, then copy.  The file being replaced is missing in between.       *)
Replace(p, folder) ==
    \/ /\ root[p] # None
       /\ root' = [root EXCEPT ![p] = None]
       /\ UNCHANGED todo
    \/ /\ root[p] = None
       /\ root' = [root EXCEPT ![p] = folder[p]]
       /\ todo' = todo \ {p}

(* The file whose turn it is: the one deleted, if one is. *)
Turn(p) == p \in todo /\ \A q \in todo : root[q] = None => q = p

(* Mutant: the stamp is not compared with the key. *)
PreparedForAnyKey ==
    /\ ~noCache
    /\ stamp # None
    /\ Files(root) \subseteq Files(prepared)

PreparedForKey ==
    /\ ~noCache
    /\ stamp = key
    /\ Files(root) \subseteq Files(prepared)

Lookup ==
    /\ at = "lookup"
    /\ GoTo(IF PreparedForKey THEN "restore" ELSE "reset", Files(root))
    /\ UNCHANGED <<disk, key, noCache, failed>>

(* restore_prepared *)
Restore ==
    /\ at = "restore"
    /\ \/ /\ \E p \in todo : Turn(p) /\ Replace(p, prepared)
          /\ UNCHANGED at
       \/ /\ todo = {}
          /\ UNCHANGED root
          /\ GoTo("diff", {})
    /\ UNCHANGED <<pristine, prepared, stamp, key, noCache, failed>>

(* Mutant: a program that has a pristine copy replaces it. *)
ResetIntoPristine ==
    /\ at = "reset"
    /\ \/ \E p \in todo :
            /\ pristine' = [pristine EXCEPT ![p] = root[p]]
            /\ GoTo("reset", todo \ {p})
            /\ UNCHANGED root
       \/ /\ todo = {}
          /\ GoTo("purges again", Compared)
          /\ UNCHANGED <<root, pristine>>
    /\ UNCHANGED <<prepared, stamp, key, noCache, failed>>

(* reset_programs: the first run with a program keeps its analyzed state,   *)
(* later ones start from that copy.                                         *)
Reset ==
    /\ at = "reset"
    /\ \/ \E p \in todo :
            /\ Turn(p)
            /\ pristine[p] = None
            /\ pristine' = [pristine EXCEPT ![p] = root[p]]
            /\ GoTo("reset", todo \ {p})
            /\ UNCHANGED root
       \/ /\ \E p \in todo : Turn(p) /\ pristine[p] # None /\ Replace(p, pristine)
          /\ UNCHANGED <<pristine, at>>
       \/ /\ todo = {}
          /\ GoTo("purges again", Compared)
          /\ UNCHANGED <<root, pristine>>
    /\ UNCHANGED <<prepared, stamp, key, noCache, failed>>

-------------------------------------------------------------------------------
(* Prepare *)

(* The reset can have brought back a purge only one program knows. *)
AlignPurgesAgain == SharePurges("purges again", "permissions", {})

(* align_memory_permissions: the original gets the build's. *)
AlignPermissions ==
    /\ at = "permissions"
    /\ root' = [root EXCEPT ![Orig].perms = Build]
    /\ GoTo("original", {})
    /\ UNCHANGED <<pristine, prepared, stamp, key, noCache, failed>>

(* prepare_program: functions, switch tables and names, saved together at   *)
(* the end.  A table that stays unknown is recorded and the rest goes on.   *)
Prepare(p) ==
    /\ \E lost \in BOOLEAN :
        /\ root' = [root EXCEPT ![p].marks = @ \cup {<<key, "names">>}
                        \cup IF lost THEN {<<key, "switch lost">>} ELSE {}]
        /\ failed' = (failed \/ lost)
    /\ UNCHANGED <<pristine, prepared, stamp, key, noCache>>

PrepareOriginal ==
    at = "original" /\ Prepare(Orig) /\ GoTo("recompiled", {})

PrepareRecompiled ==
    at = "recompiled" /\ Prepare(Build) /\ GoTo("folded", Compared)

(* align_identical_code, and the decision to keep the preparation. *)
AlignIdenticalCode ==
    /\ at = "folded"
    /\ \/ \E p \in todo :
            /\ InOrder(p)
            /\ root' = [root EXCEPT ![p].marks = @ \cup {<<key, "folded">>}]
            /\ GoTo("folded", todo \ {p})
       \/ /\ todo = {}
          /\ UNCHANGED root
          /\ GoTo(IF noCache \/ failed THEN "diff" ELSE "unlink", {})
    /\ UNCHANGED <<pristine, prepared, stamp, key, noCache, failed>>

-------------------------------------------------------------------------------
(* Keep the preparation: save_prepared *)

(* Mutant: the old stamp stays until the new one is written over it. *)
KeepStamp ==
    /\ at = "unlink"
    /\ GoTo("clear", {})
    /\ UNCHANGED <<disk, key, noCache, failed>>

UnlinkStamp ==
    /\ at = "unlink"
    /\ stamp' = None
    /\ GoTo("clear", {})
    /\ UNCHANGED <<root, pristine, prepared, key, noCache, failed>>

ClearPrepared ==
    /\ at = "clear"
    /\ \/ \E p \in Files(prepared) :
            /\ prepared' = [prepared EXCEPT ![p] = None]
            /\ UNCHANGED <<at, todo>>
       \/ /\ Files(prepared) = {}
          /\ UNCHANGED prepared
          /\ GoTo("save", Files(root))
    /\ UNCHANGED <<root, pristine, stamp, key, noCache, failed>>

CopyPrepared ==
    /\ at = "save"
    /\ \/ \E p \in todo :
            /\ prepared' = [prepared EXCEPT ![p] = root[p]]
            /\ GoTo("save", todo \ {p})
       \/ /\ todo = {}
          /\ UNCHANGED prepared
          /\ GoTo("stamp", {})
    /\ UNCHANGED <<root, pristine, stamp, key, noCache, failed>>

(* Mutant: the stamp names the build rather than the preparation. *)
StampBuild ==
    /\ at = "stamp"
    /\ stamp' = Build
    /\ GoTo("diff", {})
    /\ UNCHANGED <<root, pristine, prepared, key, noCache, failed>>

WriteStamp ==
    /\ at = "stamp"
    /\ stamp' = key
    /\ GoTo("diff", {})
    /\ UNCHANGED <<root, pristine, prepared, key, noCache, failed>>

(* The run ends: the comparison is done, or a step raised or was killed.    *)
(* The project is closed and nothing more is saved.                         *)
Stop ==
    /\ at # "idle"
    /\ GoTo("idle", {})
    /\ key' = None
    /\ noCache' = FALSE
    /\ failed' = FALSE
    /\ UNCHANGED disk

Next ==
    \/ Start \/ Import \/ Prune \/ AlignPurges \/ Analyze
    \/ Lookup \/ Restore
    \/ Reset \/ AlignPurgesAgain \/ AlignPermissions
    \/ PrepareOriginal \/ PrepareRecompiled \/ AlignIdenticalCode
    \/ UnlinkStamp \/ ClearPrepared \/ CopyPrepared \/ WriteStamp
    \/ Stop

Spec == Init /\ [][Next]_vars

-------------------------------------------------------------------------------
(* Properties *)

(* Program c carries the whole preparation k, and no failure of it. *)
PreparedWhole(c, k) ==
    /\ {<<k, "names">>, <<k, "folded">>} \subseteq c.marks
    /\ <<k, "switch lost">> \notin c.marks

(* The stamp is never ahead of the folder it describes: whenever it holds a *)
(* key, "prepared" holds the two programs of that key and no other, each    *)
(* with all of that preparation and none of its failures, wherever earlier  *)
(* runs stopped.                                                            *)
StampTellsTruth ==
    stamp # None =>
        /\ Files(prepared) = {Orig, BuildOf[stamp]}
        /\ \A p \in Files(prepared) : PreparedWhole(prepared[p], stamp)

(* No run, finished or not, puts a name or a borrowed permission into the   *)
(* original's pristine copy, which is always an analyzed program.           *)
OriginalStaysPristine ==
    pristine[Orig] # None =>
        /\ pristine[Orig].marks = {}
        /\ pristine[Orig].perms = Orig
        /\ pristine[Orig].shape # {}

(* Once the original's analysis is kept, no run loses or redoes it: a crash *)
(* that removes the working copy costs at most one import.                  *)
OriginalAnalyzedOnce ==
    [][pristine[Orig] # None => pristine'[Orig] = pristine[Orig]]_vars

(* What is decompiled is what this run asked for, whether it was prepared   *)
(* now or restored: both programs are there and analyzed, both carry the    *)
(* run's preparation, the original carries no other and has the build's     *)
(* permissions, and both know the same import purges.                       *)
ComparesWhatItAsked ==
    at = "diff" =>
        /\ Files(root) = Compared
        /\ \A p \in Compared :
            /\ root[p].shape # {}
            /\ {<<key, "names">>, <<key, "folded">>} \subseteq root[p].marks
        /\ root[Orig].marks \subseteq {key} \X {"names", "folded", "switch lost"}
        /\ root[Orig].perms = Build
        /\ root[Orig].purges = root[Build].purges

(* docs/code-comparison.md:185: "The analyzed programs are kept pristine;   *)
(* each run starts from them and applies the current catalog, so a changed  *)
(* annotation [...] never leaves stale names behind": neither program that  *)
(* is decompiled carries anything of another preparation.                   *)
NoStaleNames ==
    at = "diff" =>
        \A p \in Compared :
            root[p].marks \subseteq {key} \X {"names", "folded", "switch lost"}
===============================================================================
