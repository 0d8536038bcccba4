----------------------------- MODULE CollectorBuild -----------------------------
(***************************************************************************)
(* The collector that a source index collection runs                       *)
(* (reccmp/source/batch.py:resolve_indexer): compiled once into the cache, *)
(* under a lock, beside a stamp with the digest of the source it was made  *)
(* from.  The binary and the stamp are renamed into place one after the    *)
(* other, a process can be killed at any moment, which frees its lock, and *)
(* the source can change between collections.                              *)
(***************************************************************************)
EXTENDS Naturals

CONSTANTS
    Collectors,
    Sources,        \* what the collector's source and the LLVM version can be
    MaxEdits,       \* bound: changes of that source
    None

(* What the constants have to be; the instance assumes it. *)
CollectorAssumption == MaxEdits \in Nat /\ None \notin Sources \cup Collectors

VARIABLES
    source,     \* indexer.cpp and the LLVM version, as they are now
    edits,      \* changes so far
    binary,     \* the source the cached binary was made from, or None
    stamp,      \* the digest in its stamp file, or None
    lock,       \* the collector that holds indexer.lock, or None
    at,         \* where each collector is
    digest,     \* the digest each works with
    building,   \* the source each has compiled
    torn,       \* one was killed between its renames, or the source changed
                \* between a digest and a build: the stamp may not tell
    wasted,     \* one that had compiled was killed before its stamp
    builds      \* compilations since the last change of the source: 0, 1, 2 for more

vars == <<source, edits, binary, stamp, lock, at, digest, building, torn, wasted, builds>>

Init ==
    /\ source \in Sources
    /\ edits = 0
    /\ binary = None
    /\ stamp = None
    /\ lock = None
    /\ at = [c \in Collectors |-> "idle"]
    /\ digest = [c \in Collectors |-> None]
    /\ building = [c \in Collectors |-> None]
    /\ torn = FALSE
    /\ wasted = FALSE
    /\ builds = 0

(* Mutant: any binary will do. *)
Present(c) == binary # None

(* The binary is there, and its stamp names the source this collector saw. *)
Current(c) == binary # None /\ stamp = digest[c]

Go(c, step) == at' = [at EXCEPT ![c] = step]

ReadSource(c) ==
    /\ at[c] = "idle"
    /\ digest' = [digest EXCEPT ![c] = source]
    /\ Go(c, "check")
    /\ UNCHANGED <<source, edits, binary, stamp, lock, building, torn, wasted, builds>>

(* A current binary is used without the lock. *)
Check(c) ==
    /\ at[c] = "check"
    /\ Go(c, IF Current(c) THEN "use" ELSE "wait")
    /\ UNCHANGED <<source, edits, binary, stamp, lock, digest, building, torn, wasted, builds>>

Lock(c) ==
    /\ at[c] = "wait"
    /\ lock = None
    /\ lock' = c
    /\ Go(c, "check again")
    /\ UNCHANGED <<source, edits, binary, stamp, digest, building, torn, wasted, builds>>

Unlock(c) == lock' = IF lock = c THEN None ELSE lock

(* Mutant: who waited for the lock builds without a second look. *)
BuildAnyway(c) ==
    /\ at[c] = "check again"
    /\ Go(c, "build")
    /\ UNCHANGED <<source, edits, binary, stamp, lock, digest, building, torn, wasted, builds>>

(* Whoever held the lock before may have built it. *)
CheckAgain(c) ==
    /\ at[c] = "check again"
    /\ IF Current(c) THEN Go(c, "use") /\ Unlock(c)
                     ELSE Go(c, "build") /\ UNCHANGED lock
    /\ UNCHANGED <<source, edits, binary, stamp, digest, building, torn, wasted, builds>>

(* The compiler reads the source again, into a file named by the process. *)
Build(c) ==
    /\ at[c] = "build"
    /\ building' = [building EXCEPT ![c] = source]
    /\ builds' = IF builds = 0 THEN 1 ELSE 2
    /\ Go(c, "install")
    /\ UNCHANGED <<source, edits, binary, stamp, lock, digest, torn, wasted>>

Install(c) ==
    /\ at[c] = "install"
    /\ binary' = building[c]
    /\ Go(c, "stamp")
    /\ UNCHANGED <<source, edits, stamp, lock, digest, building, torn, wasted, builds>>

Stamp(c) ==
    /\ at[c] = "stamp"
    /\ stamp' = digest[c]
    /\ Unlock(c)
    /\ Go(c, "use")
    /\ UNCHANGED <<source, edits, binary, digest, building, torn, wasted, builds>>

(* The collection is over, failed to compile, or was killed. *)
End(c) ==
    /\ at[c] # "idle"
    /\ Go(c, "idle")
    /\ Unlock(c)
    /\ digest' = [digest EXCEPT ![c] = None]
    /\ building' = [building EXCEPT ![c] = None]
    /\ torn' = (torn \/ at[c] = "stamp")
    /\ wasted' = (wasted \/ at[c] \in {"install", "stamp"})
    /\ UNCHANGED <<source, edits, binary, stamp, builds>>

(* reccmp or LLVM is updated, or put back. *)
Edit ==
    /\ edits < MaxEdits
    /\ \E s \in Sources \ {source} : source' = s
    /\ edits' = edits + 1
    /\ torn' = (torn \/ \E c \in Collectors : at[c] \notin {"idle", "use"})
    /\ builds' = 0
    /\ UNCHANGED <<binary, stamp, lock, at, digest, building, wasted>>

Step(c) ==
    \/ ReadSource(c) \/ Check(c) \/ Lock(c) \/ CheckAgain(c) \/ Build(c)
    \/ Install(c) \/ Stamp(c) \/ End(c)

Next == Edit \/ \E c \in Collectors : Step(c)

Spec == Init /\ [][Next]_vars

-------------------------------------------------------------------------------
(* A collector that starts to use the cached binary uses one made from the  *)
(* source it read, for all sources there were before and all kills between, *)
(* but for a kill between the two renames: then a later return to the       *)
(* source of the old stamp would take the new binary for the old.           *)
CollectorIsOwn ==
    [][\A c \in Collectors :
          ~torn /\ at[c] # "use" /\ at'[c] = "use" => binary = digest[c]]_vars

(* resolve_indexer: "concurrent collectors wait for one build instead of    *)
(* each compiling the collector": one source is compiled once, unless the   *)
(* one that compiled it did not live to stamp it.                           *)
BuiltOnce == ~torn /\ ~wasted => builds <= 1
===============================================================================
