--------------------------- MODULE SourceCollection ---------------------------
(***************************************************************************)
(* Collections of the source index that share one cache directory          *)
(* (reccmp/source/batch.py:collect_compile_database, _TuCache), and        *)
(* somebody editing the sources.  Each translation unit has an artifact    *)
(* named by its identity: the collector, the compile command and the       *)
(* contents of its main file; the first two do not change here.  An        *)
(* artifact is two files, renamed into place one after the other: the      *)
(* records, and what validates them, the digests of the included files.    *)
(* A collection that is killed leaves what it renamed.                     *)
(*                                                                         *)
(* A digest stands for the contents it was computed from (the digest cache *)
(* rehashes whatever has another size, time or inode), so a file that is   *)
(* put back has the digest it had.  Nothing the pointer files say decides  *)
(* whether a unit is indexed, only which reason is reported.               *)
(***************************************************************************)
EXTENDS Naturals

CONSTANTS
    Units,          \* wanted compile-database entries, one per main file
    Files,          \* every target source file
    Main,           \* the main file of a unit
    Includes,       \* the files Clang reports for a unit, its main file too
    Collectors,     \* processes
    Contents,       \* what a file can hold
    MaxEdits,       \* bound: edits of the sources
    EditsAnyTime,   \* somebody edits while a collection runs
    None

(* Unit u with contents v of its main file; None until it is digested. *)
Identities == Units \X (Contents \cup {None})

(* The contents of each file that records, or digests, are of; None for a   *)
(* file they are not about.                                                 *)
Reading == [Files -> Contents \cup {None}]

ASSUME CollectionAssumption ==
    /\ Main \in [Units -> Files]
    /\ Includes \in [Units -> SUBSET Files]
    /\ \A u \in Units : Main[u] \in Includes[u]
    /\ MaxEdits \in Nat
    /\ EditsAnyTime \in BOOLEAN
    /\ None \notin Contents \cup Reading

VARIABLES
    file,       \* the sources
    edits,      \* how often one was edited
    artifact,   \* tu/<identity>.ndjson
    meta,       \* "deps" in tu/<identity>.json
    pc,         \* the phase each collector is in
    todo,       \* units the phase has left
    main,       \* main_digest of each unit
    fresh,      \* units with a miss
    output,     \* the temporary outputs
    publishing, \* the unit being published, and its digests
    records,    \* unit.records
    digests,    \* source_digests of the finished index
    (* Auxiliary: no step depends on them. *)
    torn,       \* identities a kill left with records that their digests are not of
    returned    \* units whose sources were then put back to what those digests say

sources == <<file, edits, returned>>
cache == <<artifact, meta, torn>>
vars == <<sources, cache, pc, todo, main, fresh, output, publishing, records, digests>>

Phases == {"idle", "validate", "index", "publish", "rename", "describe", "load",
           "digest", "done"}

TypeOK ==
    /\ file \in [Files -> Contents]
    /\ edits \in 0 .. MaxEdits
    /\ artifact \in [Identities -> Reading \cup {None}]
    /\ meta \in [Identities -> Reading \cup {None}]
    /\ pc \in [Collectors -> Phases]
    /\ todo \in [Collectors -> SUBSET Units]
    /\ main \in [Collectors -> [Units -> Contents \cup {None}]]
    /\ fresh \in [Collectors -> SUBSET Units]
    /\ output \in [Collectors -> [Units -> Reading \cup {None}]]
    /\ publishing \in [Collectors -> (Units \X Reading) \cup {None}]
    /\ records \in [Collectors -> [Units -> Reading \cup {None}]]
    /\ digests \in [Collectors -> Reading \cup {None}]
    /\ torn \in SUBSET Identities
    /\ returned \in SUBSET Units

Nothing == [u \in Units |-> None]

Init ==
    /\ file \in [Files -> Contents]
    /\ edits = 0
    /\ artifact = [i \in Identities |-> None]
    /\ meta = [i \in Identities |-> None]
    /\ pc = [c \in Collectors |-> "idle"]
    /\ todo = [c \in Collectors |-> {}]
    /\ main = [c \in Collectors |-> Nothing]
    /\ fresh = [c \in Collectors |-> {}]
    /\ output = [c \in Collectors |-> Nothing]
    /\ publishing = [c \in Collectors |-> None]
    /\ records = [c \in Collectors |-> Nothing]
    /\ digests = [c \in Collectors |-> None]
    /\ torn = {}
    /\ returned = {}

(* The part of a reading of all files that is about unit u. *)
About(u, reading) == [f \in Files |-> IF f \in Includes[u] THEN reading[f] ELSE None]

(* What Clang, or a digest of every included file, sees of unit u now. *)
Seen(u) == About(u, file)

Identity(c, u) == <<u, main[c][u]>>
Enter(c, phase, units) ==
    /\ pc' = [pc EXCEPT ![c] = phase]
    /\ todo' = [todo EXCEPT ![c] = units]

-------------------------------------------------------------------------------
(* The sources *)

(* Units for which torn digests match the sources as given. *)
Misled(given) ==
    {u \in Units : \E i \in torn :
        /\ i[1] = u
        /\ meta[i] # None
        /\ \A f \in Includes[u] : meta[i][f] = given[f]}

(* A file is saved, or put back to what it was. *)
Edit(f) ==
    /\ EditsAnyTime \/ \A c \in Collectors : pc[c] \in {"idle", "done"}
    /\ edits < MaxEdits
    /\ edits' = edits + 1
    /\ \E v \in Contents \ {file[f]} : file' = [file EXCEPT ![f] = v]
    /\ returned' = returned \cup Misled(file')
    /\ UNCHANGED <<cache, pc, todo, main, fresh, output, publishing, records, digests>>

-------------------------------------------------------------------------------
(* validate_cache *)

Start(c) ==
    /\ pc[c] = "idle"
    /\ Enter(c, "validate", Units)
    /\ UNCHANGED <<sources, cache, main, fresh, output, publishing, records, digests>>

(* Mutant: only the main file of a unit is compared. *)
CurrentMain(u, i) ==
    /\ meta[i] # None
    /\ artifact[i] # None
    /\ meta[i][Main[u]] = file[Main[u]]

(* miss_reason: both files are there and no included file has changed.      *)
Current(u, i) ==
    /\ meta[i] # None
    /\ artifact[i] # None
    /\ \A f \in Includes[u] : meta[i][f] = file[f]

(* "force" makes every unit a miss. *)
Validate(c) ==
    /\ pc[c] = "validate"
    /\ \/ \E u \in todo[c], miss \in BOOLEAN :
            /\ ~Current(u, <<u, file[Main[u]]>>) => miss
            /\ main' = [main EXCEPT ![c][u] = file[Main[u]]]
            /\ fresh' = [fresh EXCEPT ![c] = IF miss THEN @ \cup {u} ELSE @]
            /\ Enter(c, "validate", todo[c] \ {u})
       \/ /\ todo[c] = {}
          /\ Enter(c, "index", fresh[c])
          /\ UNCHANGED <<main, fresh>>
    /\ UNCHANGED <<sources, cache, output, publishing, records, digests>>

-------------------------------------------------------------------------------
(* index: the workers, each reading a unit's files when its turn comes *)

Index(c) ==
    /\ pc[c] = "index"
    /\ \/ \E u \in todo[c] :
            /\ output' = [output EXCEPT ![c][u] = Seen(u)]
            /\ Enter(c, "index", todo[c] \ {u})
       \/ /\ todo[c] = {}
          /\ Enter(c, "publish", fresh[c])
          /\ UNCHANGED output
    /\ UNCHANGED <<sources, cache, main, fresh, publishing, records, digests>>

-------------------------------------------------------------------------------
(* load: publish the fresh units, then read the cached ones *)

(* publish reads the output and only then digests the files it lists. *)
Digest(c) ==
    /\ pc[c] = "publish"
    /\ \/ \E u \in todo[c] :
            /\ records' = [records EXCEPT ![c][u] = output[c][u]]
            /\ publishing' = [publishing EXCEPT ![c] = <<u, Seen(u)>>]
            /\ Enter(c, "rename", todo[c] \ {u})
       \/ /\ todo[c] = {}
          /\ Enter(c, "load", Units \ fresh[c])
          /\ UNCHANGED <<records, publishing>>
    /\ UNCHANGED <<sources, cache, main, fresh, output, digests>>

(* Mutant: the digests go into place before the records they describe. *)
PublishDigestsFirst(c) ==
    LET u == publishing[c][1] IN
    /\ \/ /\ pc[c] = "rename"
          /\ meta' = [meta EXCEPT ![Identity(c, u)] = publishing[c][2]]
          /\ Enter(c, "describe", todo[c])
          /\ UNCHANGED <<artifact, publishing, torn>>
       \/ /\ pc[c] = "describe"
          /\ artifact' = [artifact EXCEPT ![Identity(c, u)] = output[c][u]]
          /\ torn' = torn \ {Identity(c, u)}
          /\ publishing' = [publishing EXCEPT ![c] = None]
          /\ Enter(c, "publish", todo[c])
          /\ UNCHANGED meta
    /\ UNCHANGED <<sources, main, fresh, output, records, digests>>

(* publish: the records are renamed into place, then what validates them. *)
Publish(c) ==
    LET u == publishing[c][1] IN
    /\ \/ /\ pc[c] = "rename"
          /\ artifact' = [artifact EXCEPT ![Identity(c, u)] = output[c][u]]
          /\ Enter(c, "describe", todo[c])
          /\ UNCHANGED <<meta, publishing, torn>>
       \/ /\ pc[c] = "describe"
          /\ meta' = [meta EXCEPT ![Identity(c, u)] = publishing[c][2]]
          /\ torn' = torn \ {Identity(c, u)}
          /\ publishing' = [publishing EXCEPT ![c] = None]
          /\ Enter(c, "publish", todo[c])
          /\ UNCHANGED artifact
    /\ UNCHANGED <<sources, main, fresh, output, records, digests>>

(* A hit is loaded without looking at its digests again. *)
Load(c) ==
    /\ pc[c] = "load"
    /\ \/ \E u \in todo[c] :
            /\ records' = [records EXCEPT ![c][u] = artifact[Identity(c, u)]]
            /\ Enter(c, "load", todo[c] \ {u})
       \/ /\ todo[c] = {}
          /\ Enter(c, "digest", {})
          /\ UNCHANGED records
    /\ UNCHANGED <<sources, cache, main, fresh, output, publishing, digests>>

(* Mutant: only the main files have a digest in the index. *)
FinishMainFiles(c) ==
    /\ pc[c] = "digest"
    /\ digests' = [digests EXCEPT ![c] = [f \in {Main[u] : u \in Units} |-> file[f]]]
    /\ Enter(c, "done", {})
    /\ UNCHANGED <<sources, cache, main, fresh, output, publishing, records>>

(* source_digests, once the records are derived. *)
Finish(c) ==
    /\ pc[c] = "digest"
    /\ digests' = [digests EXCEPT ![c] = file]
    /\ Enter(c, "done", {})
    /\ UNCHANGED <<sources, cache, main, fresh, output, publishing, records>>

(* What collector c has renamed without its digests. *)
Undescribed(c) ==
    {i \in Identities : /\ pc[c] = "describe" /\ i = Identity(c, publishing[c][1])
                        /\ artifact[i] # meta[i]}

(* The index is used and gone, a unit failed to index, or a kill. *)
End(c) ==
    /\ pc[c] # "idle"
    /\ Enter(c, "idle", {})
    /\ torn' = torn \cup Undescribed(c)
    /\ main' = [main EXCEPT ![c] = Nothing]
    /\ fresh' = [fresh EXCEPT ![c] = {}]
    /\ output' = [output EXCEPT ![c] = Nothing]
    /\ publishing' = [publishing EXCEPT ![c] = None]
    /\ records' = [records EXCEPT ![c] = Nothing]
    /\ digests' = [digests EXCEPT ![c] = None]
    /\ UNCHANGED <<sources, artifact, meta>>

Next ==
    \/ \E f \in Files : Edit(f)
    \/ \E c \in Collectors :
        \/ Start(c) \/ Validate(c) \/ Index(c)
        \/ Digest(c) \/ Publish(c)
        \/ Load(c) \/ Finish(c) \/ End(c)

Spec == Init /\ [][Next]_vars

-------------------------------------------------------------------------------
(* Properties *)

(* What validation would take for a hit is of the present sources, at every *)
(* moment of any number of collections: between the two renames of one of   *)
(* them, with several renaming over each other, and after a kill anywhere.  *)
(* A kill between the renames leaves records that their digests are not of, *)
(* which are no hit either until a source is put back to what the digests   *)
(* say (returned); there the code is exposed.                               *)
NoStaleHit ==
    \A u \in Units \ returned, v \in Contents :
        Current(u, <<u, v>>) => artifact[<<u, v>>] = Seen(u)

(* docs/source-index.md:49, "reccmp refuses an index that is older than the *)
(* sources": an index whose source digests match the sources was collected  *)
(* from those sources, unit by unit, whether indexed now or cached; but for *)
(* a cached unit that a kill tore and whose sources were then put back.     *)
AcceptedIndexIsCurrent ==
    \A c \in Collectors :
        pc[c] = "done" /\ digests[c] = file =>
            \A u \in fresh[c] \cup (Units \ returned) : records[c][u] = Seen(u)
===============================================================================
