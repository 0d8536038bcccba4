--------------------------- MODULE SharedFilesProofs ---------------------------
(***************************************************************************)
(* Proofs about the two sets of files that commands share, for any         *)
(* processes and contents of files.  Each step of the whole is one of a    *)
(* part, and leaves the files of the other part alone.  The part about the *)
(* analysis cache is in AnalysisCacheProofs, the one about the collector's *)
(* build is here.                                                          *)
(***************************************************************************)
EXTENDS MCSharedFiles, TLAPS

CacheP == INSTANCE AnalysisCacheProofs WITH Commands <- Procs, Modules <- {1, 2},
                                            Requests <- Asked, Versions <- Contents

-------------------------------------------------------------------------------
(* The proofs speak of their own instance of each part: it is the same.     *)

LEMMA ReadSteps ==
    ASSUME NEW c \in Procs,
           \/ Cache!ReadBinaries(c) \/ Cache!CheckMarkers(c) \/ Cache!FingerprintPdb(c)
           \/ Cache!FingerprintInputs(c)
    PROVE  \/ CacheP!ReadBinaries(c) \/ CacheP!CheckMarkers(c) \/ CacheP!FingerprintPdb(c)
           \/ CacheP!FingerprintInputs(c)
<1>1. CASE Cache!ReadBinaries(c)
      BY <1>1 DEF
         Cache!ReadBinaries, CacheP!ReadBinaries, Cache!Do, CacheP!Do, Cache!Idle, CacheP!Idle
<1>2. CASE Cache!CheckMarkers(c)
      BY <1>2 DEF
         Cache!CheckMarkers, CacheP!CheckMarkers, Cache!Do, CacheP!Do, Cache!Idle, CacheP!Idle
<1>3. CASE Cache!FingerprintPdb(c)
      BY <1>3 DEF
         Cache!FingerprintPdb, CacheP!FingerprintPdb, Cache!Do, CacheP!Do, Cache!Idle,
                CacheP!Idle
<1>4. CASE Cache!FingerprintInputs(c)
      BY <1>4 DEF
         Cache!FingerprintInputs, CacheP!FingerprintInputs, Cache!Do, CacheP!Do,
         Cache!Idle, CacheP!Idle, Cache!PreparedKey, CacheP!PreparedKey
<1> QED  BY <1>1, <1>2, <1>3, <1>4

LEMMA ParseSteps ==
    ASSUME NEW c \in Procs,
           \/ Cache!LoadFull(c) \/ Cache!ParseFull(c) \/ Cache!LoadBase(c)
           \/ Cache!ParseBase(c) \/ Cache!LoadModule(c) \/ Cache!ParseModule(c)
           \/ Cache!ModulesDone(c)
    PROVE  \/ CacheP!LoadFull(c) \/ CacheP!ParseFull(c) \/ CacheP!LoadBase(c)
           \/ CacheP!ParseBase(c) \/ CacheP!LoadModule(c) \/ CacheP!ParseModule(c)
           \/ CacheP!ModulesDone(c)
<1>1. CASE Cache!LoadFull(c)
      BY <1>1 DEF
         Cache!LoadFull, CacheP!LoadFull, Cache!Do, CacheP!Do, Cache!Idle, CacheP!Idle,
         Cache!Found, CacheP!Found, Cache!Parsed, CacheP!Parsed, Cache!WholeParse,
                CacheP!WholeParse
<1>2. CASE Cache!ParseFull(c)
      BY <1>2 DEF
         Cache!ParseFull, CacheP!ParseFull, Cache!Do, CacheP!Do, Cache!Idle, CacheP!Idle,
         Cache!Parse, CacheP!Parse, Cache!Parsed, CacheP!Parsed, Cache!Store, CacheP!Store
<1>3. CASE Cache!LoadBase(c)
      BY <1>3 DEF
         Cache!LoadBase, CacheP!LoadBase, Cache!Do, CacheP!Do, Cache!Idle, CacheP!Idle,
         Cache!Found, CacheP!Found, Cache!GotBase, CacheP!GotBase
<1>4. CASE Cache!ParseBase(c)
      BY <1>4 DEF
         Cache!ParseBase, CacheP!ParseBase, Cache!Do, CacheP!Do, Cache!Idle, CacheP!Idle,
         Cache!GotBase, CacheP!GotBase, Cache!Store, CacheP!Store, Cache!NoSymbols,
                CacheP!NoSymbols
<1>5. CASE Cache!LoadModule(c)
      BY <1>5 DEF
         Cache!LoadModule, CacheP!LoadModule, Cache!Do, CacheP!Do, Cache!Idle, CacheP!Idle,
         Cache!Found, CacheP!Found, Cache!GotModule, CacheP!GotModule,
         Cache!NextModule, CacheP!NextModule, Cache!Merged, CacheP!Merged
<1>6. CASE Cache!ParseModule(c)
      BY <1>6 DEF
         Cache!ParseModule, CacheP!ParseModule, Cache!Do, CacheP!Do, Cache!Idle, CacheP!Idle,
         Cache!GotModule, CacheP!GotModule, Cache!NextModule, CacheP!NextModule,
         Cache!Merged, CacheP!Merged, Cache!Store, CacheP!Store
<1>7. CASE Cache!ModulesDone(c)
      BY <1>7 DEF
         Cache!ModulesDone, CacheP!ModulesDone, Cache!Do, CacheP!Do, Cache!Idle, CacheP!Idle,
         Cache!Parsed, CacheP!Parsed
<1> QED  BY <1>1, <1>2, <1>3, <1>4, <1>5, <1>6, <1>7

LEMMA CompareSteps ==
    ASSUME NEW c \in Procs,
           \/ Cache!LoadPrepared(c) \/ Cache!Prepare(c) \/ Cache!BuildManifest(c)
           \/ Cache!LoadCompleted(c) \/ Cache!RunEngine(c)
    PROVE  \/ CacheP!LoadPrepared(c) \/ CacheP!Prepare(c) \/ CacheP!BuildManifest(c)
           \/ CacheP!LoadCompleted(c) \/ CacheP!RunEngine(c)
<1>1. CASE Cache!LoadPrepared(c)
      BY <1>1 DEF
         Cache!LoadPrepared, CacheP!LoadPrepared, Cache!Do, CacheP!Do, Cache!Idle, CacheP!Idle,
         Cache!Found, CacheP!Found, Cache!PreparedName, CacheP!PreparedName
<1>2. CASE Cache!Prepare(c)
      BY <1>2 DEF
         Cache!Prepare, CacheP!Prepare, Cache!Do, CacheP!Do, Cache!Idle, CacheP!Idle,
         Cache!Store, CacheP!Store, Cache!PreparedName, CacheP!PreparedName,
         Cache!Catalog, CacheP!Catalog
<1>3. CASE Cache!BuildManifest(c)
      BY <1>3 DEF
         Cache!BuildManifest, CacheP!BuildManifest, Cache!Do, CacheP!Do, Cache!Idle, CacheP!Idle
<1>4. CASE Cache!LoadCompleted(c)
      BY <1>4 DEF
         Cache!LoadCompleted, CacheP!LoadCompleted, Cache!Do, CacheP!Do, Cache!Idle,
                CacheP!Idle,
         Cache!Found, CacheP!Found
<1>5. CASE Cache!RunEngine(c)
      BY <1>5 DEF
         Cache!RunEngine, CacheP!RunEngine, Cache!Do, CacheP!Do, Cache!Idle, CacheP!Idle,
         Cache!Store, CacheP!Store, Cache!Comparison, CacheP!Comparison
<1> QED  BY <1>1, <1>2, <1>3, <1>4, <1>5

LEMMA CacheStep == Cache!Next => CacheP!Next
<1> SUFFICES ASSUME Cache!Next PROVE CacheP!Next
    OBVIOUS
<1>1. CASE Cache!Change
      BY <1>1 DEF
         Cache!Change, CacheP!Change, CacheP!Next,
         Cache!Inputs, CacheP!Inputs, Cache!CountsOn, CacheP!CountsOn
<1>2. ASSUME NEW c \in Procs, Cache!Start(c) PROVE CacheP!Next
      BY <1>2 DEF Cache!Start, CacheP!Start, Cache!Do, CacheP!Do, Cache!Idle, CacheP!Idle,
                  CacheP!Next
<1>3. ASSUME NEW c \in Procs, Cache!End(c) PROVE CacheP!Next
      BY <1>3 DEF Cache!End, CacheP!End, Cache!Idle, CacheP!Idle, CacheP!Next
<1>4. ASSUME NEW c \in Procs, Cache!Step(c), UNCHANGED starts PROVE CacheP!Next
      BY <1>4, ReadSteps, ParseSteps, CompareSteps DEF Cache!Step, CacheP!Step, CacheP!Next
<1> QED  BY <1>1, <1>2, <1>3, <1>4 DEF Cache!Next

(* A command that works from the cache works with what it would have made   *)
(* itself, for any commands and contents: what other commands build beside  *)
(* it does not come into it.                                                *)
THEOREM CacheIsOwn == Spec => []ReusedIsOwn
<1>1. Init => CacheP!Init
      BY DEF Init, Cache!Init, CacheP!Init, Cache!Inputs, CacheP!Inputs, Cache!Idle, CacheP!Idle
<1>2. [Next]_vars => [CacheP!Next]_(CacheP!vars)
      BY CacheStep DEF Next, CacheNext, CollectorNext, vars, cacheVars, CacheP!vars
<1>3. CacheP!CacheAssumption
      BY SharedAssumption DEF Cache!CacheAssumption, CacheP!CacheAssumption,
                               Cache!IsFiniteSet, CacheP!IsFiniteSet
<1>4. CacheP!CacheAssumption => (CacheP!Spec => []CacheP!ReusedIsOwn)
      BY CacheP!ReuseIsSound
<1>5. CacheP!ReusedIsOwn => ReusedIsOwn
      BY DEF ReusedIsOwn, Cache!ReusedIsOwn, CacheP!ReusedIsOwn, Cache!Own, CacheP!Own,
             Cache!Parse, CacheP!Parse
<1> QED  BY <1>1, <1>2, <1>3, <1>4, <1>5, PTL DEF Spec, CacheP!Spec

-------------------------------------------------------------------------------
(* The collector's build.  The lock keeps all but one from the binary and   *)
(* its stamp; as long as the stamp may tell (~torn), whoever works does so  *)
(* with the source there is, so what is stamped is what was built, and what *)
(* was built is found by who asks next.                                     *)

BuildSteps == {"idle", "check", "wait", "check again", "build", "install", "stamp", "use"}

BuildTypeOK ==
    /\ source \in Contents
    /\ lock \in Procs \cup {None}
    /\ at \in [Procs -> BuildSteps]
    /\ digest \in [Procs -> Contents \cup {None}]
    /\ building \in [Procs -> Contents \cup {None}]
    /\ torn \in BOOLEAN
    /\ wasted \in BOOLEAN
    /\ builds \in {0, 1, 2}

(* What is done between the lock's acquisition and its release. *)
Holds(c) == at[c] \in {"check again", "build", "install", "stamp"}
LockInv == \A c \in Procs : Holds(c) => lock = c

(* A collector at work saw, and has compiled, the source there is. *)
SeenInv ==
    ~torn => \A c \in Procs :
                /\ at[c] \notin {"idle", "use"} => digest[c] = source
                /\ at[c] \in {"install", "stamp"} => building[c] = source

(* The stamp tells what the binary is, but while a new one is stamped. *)
StampInv ==
    ~torn =>
      /\ \A c \in Procs : at[c] = "stamp" => binary = source
      /\ (\A c \in Procs : at[c] # "stamp") /\ stamp # None => binary = stamp

(* What was compiled is on its way to the cache or there. *)
BuildInv ==
    ~torn /\ ~wasted =>
      /\ builds \in {0, 1}
      /\ builds = 1 => \/ \E c \in Procs : at[c] \in {"install", "stamp"}
                       \/ binary # None /\ stamp = source
      /\ \A c \in Procs : at[c] = "build" => builds = 0

BuildsInv == BuildTypeOK /\ LockInv /\ SeenInv /\ StampInv /\ BuildInv

-------------------------------------------------------------------------------
LEMMA InitBuildsInv == Collector!Init => BuildsInv
<1> SUFFICES ASSUME Collector!Init PROVE BuildsInv
    OBVIOUS
<1>1. \A c \in Procs : at[c] = "idle"
      BY DEF Collector!Init
<1>2. BuildTypeOK
      BY DEF Collector!Init, BuildTypeOK, BuildSteps
<1>3. LockInv /\ SeenInv
      BY <1>1 DEF LockInv, Holds, SeenInv
<1>4. StampInv /\ BuildInv
      BY <1>1 DEF Collector!Init, StampInv, BuildInv
<1> QED  BY <1>2, <1>3, <1>4 DEF BuildsInv

LEMMA BuildTypeKept == BuildTypeOK /\ [Collector!Next]_(Collector!vars) => BuildTypeOK'
<1> SUFFICES ASSUME BuildTypeOK, [Collector!Next]_(Collector!vars) PROVE BuildTypeOK'
    OBVIOUS
<1>1. CASE Collector!Edit
      BY <1>1 DEF BuildTypeOK, Collector!Edit
<1>2. ASSUME NEW c \in Procs, Collector!Step(c) PROVE BuildTypeOK'
  <2>1. CASE Collector!ReadSource(c)  BY <2>1
        DEF BuildTypeOK, Collector!ReadSource, Collector!Go, BuildSteps
  <2>2. CASE Collector!Check(c)       BY <2>2
        DEF BuildTypeOK, Collector!Check, Collector!Go, BuildSteps
  <2>3. CASE Collector!Lock(c)        BY <2>3
        DEF BuildTypeOK, Collector!Lock, Collector!Go, BuildSteps
  <2>4. CASE Collector!CheckAgain(c)  BY <2>4
        DEF BuildTypeOK, Collector!CheckAgain, Collector!Go, Collector!Unlock, BuildSteps
  <2>5. CASE Collector!Build(c)       BY <2>5
        DEF BuildTypeOK, Collector!Build, Collector!Go, BuildSteps
  <2>6. CASE Collector!Install(c)     BY <2>6
        DEF BuildTypeOK, Collector!Install, Collector!Go, BuildSteps
  <2>7. CASE Collector!Stamp(c)       BY <2>7
        DEF BuildTypeOK, Collector!Stamp, Collector!Go, Collector!Unlock, BuildSteps
  <2>8. CASE Collector!End(c)         BY <2>8
        DEF BuildTypeOK, Collector!End, Collector!Go, Collector!Unlock, BuildSteps
  <2> QED  BY <1>2, <2>1, <2>2, <2>3, <2>4, <2>5, <2>6, <2>7, <2>8 DEF Collector!Step
<1>3. CASE UNCHANGED Collector!vars
      BY <1>3 DEF BuildTypeOK, Collector!vars
<1> QED  BY <1>1, <1>2, <1>3 DEF Collector!Next

(* A change of the source under nobody's hands leaves all but the digests   *)
(* that nobody works with; under somebody's, the stamp may no longer tell.  *)
LEMMA EditKept == BuildsInv /\ Collector!Edit => LockInv' /\ SeenInv' /\ StampInv' /\ BuildInv'
<1> SUFFICES ASSUME BuildsInv, Collector!Edit
             PROVE  LockInv' /\ SeenInv' /\ StampInv' /\ BuildInv'
    OBVIOUS
<1> USE DEF BuildsInv, BuildTypeOK, Collector!Edit
<1>1. LockInv'
      BY DEF LockInv, Holds
<1>2. ~torn' => ~torn /\ \A c \in Procs : at[c] \in {"idle", "use"}
      OBVIOUS
<1>3. SeenInv'
      BY <1>2 DEF SeenInv
<1>4. StampInv'
      BY <1>2 DEF StampInv
<1>5. BuildInv'
      BY <1>2 DEF BuildInv
<1> QED  BY <1>1, <1>3, <1>4, <1>5

(* The steps without the lock touch nothing shared. *)
LEMMA OutsideKept ==
    ASSUME Collector!CollectorAssumption, BuildsInv, NEW c \in Procs,
           Collector!ReadSource(c) \/ Collector!Check(c) \/ Collector!Lock(c)
    PROVE  LockInv' /\ SeenInv' /\ StampInv' /\ BuildInv'
<1> USE DEF BuildsInv, BuildTypeOK, Collector!CollectorAssumption
<1>1. CASE Collector!ReadSource(c)
      BY <1>1 DEF Collector!ReadSource, Collector!Go, LockInv, Holds, SeenInv, StampInv,
                  BuildInv
<1>2. CASE Collector!Check(c)
      BY <1>2 DEF Collector!Check, Collector!Go, LockInv, Holds, SeenInv, StampInv, BuildInv
<1>3. CASE Collector!Lock(c)
      BY <1>3 DEF Collector!Lock, Collector!Go, LockInv, Holds, SeenInv, StampInv, BuildInv
<1> QED  BY <1>1, <1>2, <1>3

(* Whoever has the lock is alone with the binary and its stamp. *)
LEMMA Alone ==
    ASSUME BuildsInv, NEW c \in Procs, Holds(c)
    PROVE  /\ lock = c
           /\ \A d \in Procs \ {c} : ~Holds(d)
BY DEF BuildsInv, LockInv

LEMMA InsideKept ==
    ASSUME Collector!CollectorAssumption, BuildsInv, NEW c \in Procs,
           \/ Collector!CheckAgain(c) \/ Collector!Build(c)
           \/ Collector!Install(c) \/ Collector!Stamp(c)
    PROVE  LockInv' /\ SeenInv' /\ StampInv' /\ BuildInv'
<1>1. Holds(c)
      BY DEF Holds, Collector!CheckAgain, Collector!Build, Collector!Install, Collector!Stamp
<1>2. /\ lock = c
      /\ \A d \in Procs \ {c} : at[d] \notin {"check again", "build", "install", "stamp"}
      BY <1>1, Alone DEF Holds
<1> USE DEF BuildsInv, BuildTypeOK, Collector!CollectorAssumption
<1>3. LockInv'
  <2>1. \A d \in Procs \ {c} : at'[d] = at[d]
        BY DEF Collector!CheckAgain, Collector!Build, Collector!Install, Collector!Stamp,
               Collector!Go
  <2>2. at'[c] = "use" \/ lock' = lock
        BY DEF Collector!CheckAgain, Collector!Build, Collector!Install, Collector!Stamp,
               Collector!Go
  <2> QED  BY <1>2, <2>1, <2>2 DEF LockInv, Holds
<1>4. SeenInv'
      BY DEF SeenInv, Collector!CheckAgain, Collector!Build, Collector!Install,
             Collector!Stamp, Collector!Go
<1>5. CASE Collector!CheckAgain(c)
  <2>1. StampInv'
        BY <1>2, <1>5 DEF StampInv, Collector!CheckAgain, Collector!Go
  <2>2. BuildInv'
        BY <1>2, <1>5 DEF BuildInv, SeenInv, Collector!CheckAgain, Collector!Current,
                          Collector!Go
  <2> QED  BY <1>3, <1>4, <2>1, <2>2
<1>6. CASE Collector!Build(c)
  <2>1. StampInv'
        BY <1>2, <1>6 DEF StampInv, Collector!Build, Collector!Go
  <2>2. BuildInv'
        BY <1>2, <1>6 DEF BuildInv, Collector!Build, Collector!Go
  <2> QED  BY <1>3, <1>4, <2>1, <2>2
<1>7. CASE Collector!Install(c)
  <2>1. StampInv'
        BY <1>2, <1>7 DEF StampInv, SeenInv, Collector!Install, Collector!Go
  <2>2. BuildInv'
        BY <1>2, <1>7 DEF BuildInv, Collector!Install, Collector!Go
  <2> QED  BY <1>3, <1>4, <2>1, <2>2
<1>8. CASE Collector!Stamp(c)
  <2>1. StampInv'
        BY <1>2, <1>8 DEF StampInv, SeenInv, Collector!Stamp, Collector!Go
  <2>2. BuildInv'
        BY <1>2, <1>8 DEF BuildInv, StampInv, SeenInv, Collector!Stamp, Collector!Go
  <2> QED  BY <1>3, <1>4, <2>1, <2>2
<1> QED  BY <1>5, <1>6, <1>7, <1>8

(* A kill frees the lock; one that lost a build, or stood between the       *)
(* renames, is remembered.                                                  *)
LEMMA EndKept ==
    ASSUME BuildsInv, NEW c \in Procs, Collector!End(c)
    PROVE  LockInv' /\ SeenInv' /\ StampInv' /\ BuildInv'
<1> USE DEF BuildsInv, BuildTypeOK
<1>1. LockInv'
      BY DEF LockInv, Holds, Collector!End, Collector!Go, Collector!Unlock
<1>2. SeenInv'
      BY DEF SeenInv, Collector!End, Collector!Go
<1>3. StampInv'
      BY DEF StampInv, Collector!End, Collector!Go
<1>4. BuildInv'
      BY DEF BuildInv, Collector!End, Collector!Go
<1> QED  BY <1>1, <1>2, <1>3, <1>4

LEMMA BuildsInvKept ==
    Collector!CollectorAssumption /\ BuildsInv /\ [Collector!Next]_(Collector!vars) => BuildsInv'
<1> SUFFICES ASSUME Collector!CollectorAssumption, BuildsInv, [Collector!Next]_(Collector!vars)
             PROVE  BuildsInv'
    OBVIOUS
<1>1. BuildTypeOK'
      BY BuildTypeKept DEF BuildsInv
<1>2. CASE Collector!Edit
      BY <1>1, <1>2, EditKept DEF BuildsInv
<1>3. ASSUME NEW c \in Procs, Collector!Step(c) PROVE BuildsInv'
      BY <1>1, <1>3, OutsideKept, InsideKept, EndKept DEF Collector!Step, BuildsInv
<1>4. CASE UNCHANGED Collector!vars
      BY <1>1, <1>4 DEF Collector!vars, BuildsInv, LockInv, Holds, SeenInv, StampInv, BuildInv
<1> QED  BY <1>2, <1>3, <1>4 DEF Collector!Next

-------------------------------------------------------------------------------
LEMMA BuildsApart == Spec => Collector!Spec
<1>1. Init => Collector!Init
      BY DEF Init
<1>2. [Next]_vars => [Collector!Next]_(Collector!vars)
      BY DEF Next, CacheNext, CollectorNext, vars, collectorVars, Collector!vars
<1> QED  BY <1>1, <1>2, PTL DEF Spec, Collector!Spec

(* The inductive invariant of resolve_indexer's lock, binary and stamp,     *)
(* whatever commands do with the cache beside it.                           *)
THEOREM BuildInvariance == Spec => []BuildsInv
<1>1. BuildsInv /\ [Collector!Next]_(Collector!vars) => BuildsInv'
      BY BuildsInvKept, SharedAssumption
<1> QED  BY InitBuildsInv, BuildsApart, <1>1, PTL DEF Collector!Spec

(* Concurrent collectors wait for one build instead of each compiling the   *)
(* collector: one source is compiled once, however many ask for it.         *)
THEOREM OneBuild == Spec => []BuiltOnce
<1>1. BuildsInv => BuiltOnce
      BY DEF BuildsInv, BuildInv, BuiltOnce, Collector!BuiltOnce
<1> QED  BY BuildInvariance, <1>1, PTL

(* A collector that goes on to use the cached binary uses one made from the *)
(* source it read.                                                          *)
THEOREM CollectsWithItsOwn == Spec => CollectorIsOwn
<1>1. ASSUME BuildsInv, Collector!Next, NEW c \in Procs, ~torn, at[c] # "use", at'[c] = "use"
      PROVE  binary = digest[c]
  <2> USE SharedAssumption DEF BuildsInv, BuildTypeOK
  <2>1. Collector!Check(c) \/ Collector!CheckAgain(c) \/ Collector!Stamp(c)
        BY <1>1 DEF Collector!Next, Collector!Edit, Collector!Step, Collector!ReadSource,
                    Collector!Check, Collector!Lock, Collector!CheckAgain, Collector!Build,
                    Collector!Install, Collector!Stamp, Collector!End, Collector!Go
  <2>2. digest[c] = source /\ source # None
        BY <1>1, <2>1 DEF SeenInv, Collector!Check, Collector!CheckAgain, Collector!Stamp,
                          Collector!CollectorAssumption
  <2>3. CASE Collector!Check(c) \/ Collector!CheckAgain(c)
        BY <1>1, <2>2, <2>3 DEF Collector!Check, Collector!CheckAgain, Collector!Current,
                                Collector!Go, StampInv
  <2>4. CASE Collector!Stamp(c)
        BY <1>1, <2>2, <2>4 DEF Collector!Stamp, StampInv
  <2> QED  BY <2>1, <2>3, <2>4
<1>2. BuildsInv /\ [Collector!Next]_(Collector!vars)
         => [\A c \in Procs :
               ~torn /\ at[c] # "use" /\ at'[c] = "use" => binary = digest[c]]_(Collector!vars)
      BY <1>1
<1> QED  BY BuildInvariance, BuildsApart, <1>2, PTL
            DEF Collector!Spec, CollectorIsOwn, Collector!CollectorIsOwn
===============================================================================
