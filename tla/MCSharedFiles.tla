----------------------------- MODULE MCSharedFiles -----------------------------
(***************************************************************************)
(* The two sets of files that commands share without knowing of each       *)
(* other: the analysis cache and the collector's build.  They have nothing *)
(* in common but that, so a behaviour is of one of them.                   *)
(***************************************************************************)
EXTENDS Naturals, TLC

CONSTANTS Procs, Contents, None, MaxChanges, MaxStarts, MaxEdits

VARIABLES
    of,
    file, changes, starts, raced, entries, command,
    source, edits, binary, stamp, lock, at, digest, building, torn, wasted, builds

Request(wants, unclear, caching, stores) ==
    [wants |-> wants, unclear |-> unclear, caching |-> caching, stores |-> stores]

(* The whole target; one module; both, and nothing can be written; one that *)
(* turns out to need the full parse.  (A command without the cache neither  *)
(* loads nor stores.)                                                       *)
Asked == {Request(None, FALSE, TRUE, TRUE), Request({1}, FALSE, TRUE, TRUE),
          Request({1, 2}, FALSE, TRUE, FALSE), Request({2}, TRUE, TRUE, TRUE)}

Cache == INSTANCE AnalysisCache WITH Commands <- Procs, Modules <- {1, 2},
                                     Requests <- Asked, Versions <- Contents
Collector == INSTANCE CollectorBuild WITH Collectors <- Procs, Sources <- Contents

ASSUME SharedAssumption == Cache!CacheAssumption /\ Collector!CollectorAssumption

Init == of \in {"cache", "collector"} /\ Cache!Init /\ Collector!Init

cacheVars == <<file, changes, starts, raced, entries, command>>
collectorVars == <<source, edits, binary, stamp, lock, at, digest, building, torn, wasted,
                   builds>>

CacheNext == of = "cache" /\ Cache!Next /\ UNCHANGED <<of, collectorVars>>
CollectorNext == of = "collector" /\ Collector!Next /\ UNCHANGED <<of, cacheVars>>

Next == CacheNext \/ CollectorNext

vars == <<of, cacheVars, collectorVars>>

Spec == Init /\ [][Next]_vars

(* A command that works from the cache works with what it would have made    *)
(* itself (AnalysisCache).                                                   *)
ReusedIsOwn == Cache!ReusedIsOwn
(* A collection uses a collector made from the source it read               *)
(* (CollectorBuild).                                                         *)
CollectorIsOwn == Collector!CollectorIsOwn
(* Concurrent collections wait for one build (CollectorBuild).              *)
BuiltOnce == Collector!BuiltOnce

(* Nothing is claimed of the cache once an input has changed between two     *)
(* looks at it, so nothing is explored beyond that.                          *)
Quiet == ~raced

(* Processes run the same code, and one content is as good as another. *)
Symmetry == Permutations(Procs) \cup Permutations(Contents)
===============================================================================
