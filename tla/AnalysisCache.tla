----------------------------- MODULE AnalysisCache -----------------------------
(***************************************************************************)
(* The analyses reccmp keeps between commands (reccmp/analysis_cache.py),  *)
(* as reccmp/compare/target_analysis.py, reccmp/compare/core.py and        *)
(* reccmp/tools/compare.py use them: parses of the PDB, prepared entity    *)
(* catalogs and completed comparisons, in one directory that every command *)
(* run on the target shares.                                               *)
(*                                                                         *)
(* A command reads its inputs one after another and fingerprints each at a *)
(* moment of its own; builds, edits and index collections change them      *)
(* meanwhile, and can bring an earlier content back.  An entry is replaced *)
(* by a rename, so a reader sees a whole one; a command can end anywhere.  *)
(***************************************************************************)
EXTENDS Naturals, FiniteSets

CONSTANTS
    Commands,
    Modules,        \* numbers of the PDB's modules
    Requests,       \* what a command can be asked: [wants, unclear, caching,
                    \* stores]
    Versions,       \* contents a file can have
    MaxChanges,     \* bound: changes of an input file, without ends of
                    \* collections
    MaxStarts,      \* bound: commands run
    None

(* What the constants have to be; the instance assumes it. *)
CacheAssumption ==
    /\ Modules \subseteq Nat /\ IsFiniteSet(Modules)
    /\ MaxChanges \in Nat /\ MaxStarts \in Nat
    /\ None \notin Versions
    /\ Requests \subseteq [wants : (SUBSET Modules) \cup {None}, unclear : BOOLEAN,
                            caching : BOOLEAN, stores : BOOLEAN]

(* binary: both images.  pdb: the recompiled build's debug file.  sources:  *)
(* the annotated source files.  index: the source index, named by the       *)
(* version of the sources it was collected from, or None while it is half   *)
(* written.                                                                 *)
Inputs == {"binary", "pdb", "sources", "index"}

VARIABLES
    file,       \* content of each input
    changes,    \* changes made so far
    starts,     \* commands started so far
    raced,      \* an input changed between two looks a command had at it
    entries,    \* the cache directory: [name -> [key, value]]
    command     \* what each command has read and where it is

vars == <<file, changes, starts, raced, entries, command>>

(* A parse: the version of the PDB its types, lines and publics come from,  *)
(* and of those the symbols of single modules come from.                    *)
NoSymbols == [m \in {} |-> None]
Parse(v, modules) == [base |-> v, symbols |-> [m \in modules |-> v]]

(* wants: the modules that hold the functions asked for, or None: no        *)
(* function is named.  unclear: select_modules, or an address without       *)
(* annotation, calls for the full parse after all.  caching: not            *)
(* --no-cache.  stores: the directory can be written.  scope: of which      *)
(* modules the symbols were read, None: all.                                *)
Idle == [at |-> "idle", wants |-> None, unclear |-> FALSE, caching |-> TRUE,
         stores |-> TRUE,
         index |-> None, binary |-> None, pdbKey |-> None, parse |-> None,
         todo |-> {}, scope |-> None, key |-> None, catalog |-> None,
         manifest |-> None, comparison |-> None]

Init ==
    /\ \E v \in Versions : file = [f \in Inputs |-> v]
    /\ changes = 0
    /\ starts = 0
    /\ raced = FALSE
    /\ entries = [name \in {} |-> None]
    /\ command = [c \in Commands |-> Idle]

Do(c, fields) ==
    /\ command' = [command EXCEPT ![c] =
                     [f \in DOMAIN Idle |-> IF f \in DOMAIN fields
                                              THEN fields[f] ELSE @[f]]]
    /\ UNCHANGED <<file, changes, raced>>

(* AnalysisCache.load: what is under this name, if it was stored under this *)
(* fingerprint.                                                             *)
Found(c, name, key) ==
    /\ command[c].caching
    /\ name \in DOMAIN entries
    /\ entries[name].key = key

(* AnalysisCache.store: by a rename; a write that fails is no error.        *)
Store(c, name, key, value) ==
    entries' = IF command[c].caching /\ command[c].stores
                 THEN [n \in DOMAIN entries \cup {name} |->
                         IF n = name THEN [key |-> key, value |-> value] ELSE entries[n]]
                 ELSE entries

-------------------------------------------------------------------------------
(* load_target_analysis *)

(* The index is read, then both binaries.  Half an index does not parse.    *)
Start(c) ==
    /\ command[c].at = "idle"
    /\ file["index"] # None
    /\ starts < MaxStarts
    /\ starts' = starts + 1
    /\ \E request \in Requests :
          Do(c, [at |-> "binaries", wants |-> request.wants, unclear |-> request.unclear,
                 caching |-> request.caching, stores |-> request.stores,
                 index |-> file["index"]])
    /\ UNCHANGED entries

ReadBinaries(c) ==
    /\ command[c].at = "binaries"
    /\ Do(c, [at |-> "markers", binary |-> file["binary"]])
    /\ UNCHANGED entries

(* An index older than the sources is refused. *)
CheckMarkers(c) ==
    /\ command[c].at = "markers"
    /\ command[c].index = file["sources"]
    /\ Do(c, [at |-> "pdb"])
    /\ UNCHANGED entries

FingerprintPdb(c) ==
    /\ command[c].at = "pdb"
    /\ Do(c, [at |-> "full", pdbKey |-> file["pdb"]])
    /\ UNCHANGED entries

WholeParse(c) == command[c].wants = None \/ (command[c].unclear /\ command[c].parse # None)

Parsed(c, parse, scope) ==
    Do(c, [at |-> "key", parse |-> parse, scope |-> scope, todo |-> {}])

(* A full parse serves any command; only one that needs it makes it. *)
LoadFull(c) ==
    /\ command[c].at = "full"
    /\ IF Found(c, <<"full">>, command[c].pdbKey)
         THEN Parsed(c, entries[<<"full">>].value, None)
         ELSE Do(c, [at |-> IF WholeParse(c) THEN "parse full" ELSE "base"])
    /\ UNCHANGED entries

ParseFull(c) ==
    /\ command[c].at = "parse full"
    /\ LET parse == Parse(file["pdb"], Modules)
       IN Parsed(c, parse, None) /\ Store(c, <<"full">>, command[c].pdbKey, parse)

GotBase(c, parse) ==
    Do(c, [parse |-> parse, todo |-> command[c].wants,
           at |-> IF command[c].unclear THEN "full" ELSE "modules"])

LoadBase(c) ==
    /\ command[c].at = "base"
    /\ IF Found(c, <<"base">>, command[c].pdbKey)
         THEN GotBase(c, entries[<<"base">>].value)
         ELSE Do(c, [at |-> "parse base"])
    /\ UNCHANGED entries

ParseBase(c) ==
    /\ command[c].at = "parse base"
    /\ LET parse == [base |-> file["pdb"], symbols |-> NoSymbols]
       IN GotBase(c, parse) /\ Store(c, <<"base">>, command[c].pdbKey, parse)

(* One module after another, in order, is merged into the parse in memory. *)
Merged(parse, m, v) ==
    [parse EXCEPT !.symbols = [n \in DOMAIN @ \cup {m} |-> IF n = m THEN v ELSE @[n]]]

NextModule(c) == CHOOSE m \in command[c].todo : \A n \in command[c].todo : m <= n

GotModule(c, v) ==
    Do(c, [at |-> "modules", todo |-> command[c].todo \ {NextModule(c)},
           parse |-> Merged(command[c].parse, NextModule(c), v)])

LoadModule(c) ==
    /\ command[c].at = "modules"
    /\ command[c].todo # {}
    /\ LET name == <<"module", NextModule(c)>>
       IN IF Found(c, name, command[c].pdbKey)
            THEN GotModule(c, entries[name].value)
            ELSE Do(c, [at |-> "parse module"])
    /\ UNCHANGED entries

ParseModule(c) ==
    /\ command[c].at = "parse module"
    /\ GotModule(c, file["pdb"])
    /\ Store(c, <<"module", NextModule(c)>>, command[c].pdbKey, file["pdb"])

ModulesDone(c) ==
    /\ command[c].at = "modules"
    /\ command[c].todo = {}
    /\ Parsed(c, command[c].parse, command[c].wants)
    /\ UNCHANGED entries

(* Mutant: the modules whose symbols were read are not in the key. *)
PreparedKeyOfAnyScope(c) ==
    [binary |-> file["binary"], pdb |-> command[c].pdbKey, index |-> command[c].index]

(* Everything the catalog is made from, the binaries as they are now. *)
PreparedKey(c) ==
    [binary |-> file["binary"], pdb |-> command[c].pdbKey, index |-> command[c].index,
     scope |-> command[c].scope]

FingerprintInputs(c) ==
    /\ command[c].at = "key"
    /\ Do(c, [at |-> "catalog", key |-> PreparedKey(c)])
    /\ UNCHANGED entries

-------------------------------------------------------------------------------
(* Compare.from_target *)

(* One name for all catalogs of selected modules, whichever modules. *)
PreparedName(c) == IF command[c].scope = None THEN <<"prepared-full">>
                                             ELSE <<"prepared-targeted">>

Catalog(c) ==
    [binary |-> command[c].binary, parse |-> command[c].parse, index |-> command[c].index]

LoadPrepared(c) ==
    /\ command[c].at = "catalog"
    /\ IF Found(c, PreparedName(c), command[c].key)
         THEN Do(c, [at |-> "compare", catalog |-> entries[PreparedName(c)].value])
         ELSE Do(c, [at |-> "prepare"])
    /\ UNCHANGED entries

Prepare(c) ==
    /\ command[c].at = "prepare"
    /\ Do(c, [at |-> "compare", catalog |-> Catalog(c)])
    /\ Store(c, PreparedName(c), command[c].key, Catalog(c))

-------------------------------------------------------------------------------
(* _run_engine *)

(* The manifest states the functions wanted, what the catalog says of them  *)
(* and a digest of the binaries, read for it; all of it is in the key of    *)
(* the comparison.                                                          *)
BuildManifest(c) ==
    /\ command[c].at = "compare"
    /\ Do(c, [at |-> "completed",
              manifest |-> [catalog |-> command[c].catalog, wants |-> command[c].wants,
                            binary |-> file["binary"]]])
    /\ UNCHANGED entries

(* What Ghidra makes of it, importing the binaries as they are by then.     *)
(* failed: some function is ANALYSIS_FAILED.                                *)
Comparison(c, failed) ==
    [manifest |-> command[c].manifest, binary |-> file["binary"], failed |-> failed]

LoadCompleted(c) ==
    /\ command[c].at = "completed"
    /\ LET name == <<"comparison", command[c].manifest>>
       IN IF Found(c, name, command[c].manifest)
            THEN Do(c, [at |-> "report", comparison |-> entries[name].value])
            ELSE Do(c, [at |-> "run engine"])
    /\ UNCHANGED entries

(* A comparison with a failed analysis is not kept. *)
RunEngine(c) ==
    /\ command[c].at = "run engine"
    /\ \E failed \in BOOLEAN :
        /\ Do(c, [at |-> "report", comparison |-> Comparison(c, failed)])
        /\ IF failed
             THEN UNCHANGED entries
             ELSE Store(c, <<"comparison", command[c].manifest>>, command[c].manifest,
                        Comparison(c, failed))

(* A command ends with its report, with an error, or is killed. *)
End(c) ==
    /\ command[c].at # "idle"
    /\ command' = [command EXCEPT ![c] = Idle]
    /\ UNCHANGED <<file, changes, starts, raced, entries>>

-------------------------------------------------------------------------------
(* A command fingerprints the PDB before it parses it, and the binaries     *)
(* after it has read them; and Ghidra imports them once their digest is in  *)
(* the manifest.  In between it counts on a file that rests.                *)
CountsOn(f) ==
    CASE f = "pdb" -> {"full", "parse full", "base", "parse base", "modules", "parse module"}
      [] f = "binary" -> {"markers", "pdb", "full", "parse full", "base", "parse base",
                          "modules", "parse module", "key", "completed", "run engine"}
      [] OTHER -> {}

(* A build or an edit replaces a file; a collection rewrites the index in   *)
(* place.                                                                   *)
Change ==
    /\ \E f \in Inputs, v \in Versions \cup {None} :
        /\ file[f] # v
        /\ v = None => f = "index" /\ file[f] # file["sources"]
        /\ f = "index" /\ v # None => file[f] = None /\ v = file["sources"]
        /\ file' = [file EXCEPT ![f] = v]
        /\ changes' = changes + (IF file[f] = None THEN 0 ELSE 1)
        /\ raced' = (raced \/ \E c \in Commands : command[c].at \in CountsOn(f))
    /\ changes' <= MaxChanges
    /\ UNCHANGED <<starts, entries, command>>

Step(c) ==
    \/ ReadBinaries(c) \/ CheckMarkers(c) \/ FingerprintPdb(c)
    \/ LoadFull(c) \/ ParseFull(c) \/ LoadBase(c) \/ ParseBase(c)
    \/ LoadModule(c) \/ ParseModule(c) \/ ModulesDone(c) \/ FingerprintInputs(c)
    \/ LoadPrepared(c) \/ Prepare(c) \/ BuildManifest(c) \/ LoadCompleted(c)
    \/ RunEngine(c)

Next ==
    \/ Change
    \/ \E c \in Commands : Start(c) \/ End(c) \/ (Step(c) /\ UNCHANGED starts)

Spec == Init /\ [][Next]_vars

-------------------------------------------------------------------------------
(* The catalog of what this command has read: the binaries, the index, and  *)
(* the symbols it needs of the PDB it fingerprinted.                        *)
Own(c) ==
    [binary |-> command[c].binary, index |-> command[c].index,
     parse |-> Parse(command[c].pdbKey, IF command[c].scope = None THEN Modules
                                                                   ELSE command[c].scope)]

(* A command that works from the cache works with what it would have made   *)
(* itself: its catalog is of the binaries, PDB, index and modules it read   *)
(* and asked for, and its comparison of the manifest and the binaries the   *)
(* manifest is of, whichever commands filled the cache, for which modules   *)
(* and from which earlier builds, while builds, edits and collections go    *)
(* on, as long as none falls between two looks at one file (raced); and a   *)
(* function whose analysis failed is analyzed again by the next.            *)
ReusedIsOwn ==
    \A c \in Commands :
        /\ ~raced /\ command[c].at \in {"compare", "completed", "run engine", "report"} =>
              /\ command[c].catalog = Own(c)
              /\ command[c].wants = None \/ command[c].wants \subseteq
                     DOMAIN command[c].catalog.parse.symbols
        /\ ~raced /\ command[c].at = "report" =>
              /\ command[c].comparison.manifest = command[c].manifest
              /\ command[c].comparison.binary = command[c].manifest.binary
        /\ \A n \in DOMAIN entries : n[1] = "comparison" => ~entries[n].value.failed
===============================================================================
