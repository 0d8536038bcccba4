-------------------------- MODULE AnalysisCacheProofs --------------------------
(***************************************************************************)
(* Proofs about the analyses kept between commands, for any number of      *)
(* commands, modules and contents and whatever is asked.  The invariant    *)
(* says what an entry holds by its key (Truthful) and what a command has   *)
(* read by the step it is at (Current); both speak of the time before an   *)
(* input changes between two looks a command has at it.                    *)
(***************************************************************************)
EXTENDS AnalysisCache, Integers, WellFoundedInduction, TLAPS

ModulesOf(scope) == IF scope = None THEN Modules ELSE scope

(* An entry is what its key says, by its kind. *)
Truthful(n, e) ==
    /\ n[1] = "full" => e.value = Parse(e.key, Modules)
    /\ n[1] = "base" => e.value = Parse(e.key, {})
    /\ n[1] = "module" => e.value = e.key
    /\ n[1] \in {"prepared-full", "prepared-targeted"} =>
         e.value = [binary |-> e.key.binary, parse |-> Parse(e.key.pdb, ModulesOf(e.key.scope)),
                    index |-> e.key.index]
    /\ n[1] = "comparison" => /\ e.value.manifest = e.key
                              /\ e.value.binary = e.key.binary

Early == {"binaries", "markers", "pdb"}
Reading == {"full", "parse full", "base", "parse base", "modules", "parse module"}
Late == {"key", "catalog", "prepare"}
Comparing == {"compare", "completed", "run engine", "report"}

(* The catalog of what a command has read. *)
OwnOf(r) ==
    [binary |-> r.binary, parse |-> Parse(r.pdbKey, ModulesOf(r.scope)), index |-> r.index]

(* What a command at this step has read. *)
HasRead(r) ==
    /\ r.at \in {"idle"} \cup Early \cup Reading \cup Late \cup Comparing
    /\ r.at # "idle" => r.wants \in (SUBSET Modules) \cup {None}
    /\ r.at \in {"modules", "parse module"} =>
          /\ r.wants # None
          /\ r.todo \subseteq r.wants
          /\ r.parse = Parse(r.pdbKey, r.wants \ r.todo)
    /\ r.at \in {"base", "parse base"} => r.wants # None
    /\ r.at = "parse module" => r.todo # {}
    /\ r.at \in Late \cup Comparing => r.wants = None \/ r.wants \subseteq ModulesOf(r.scope)
    /\ r.at \in Late => r.parse = Parse(r.pdbKey, ModulesOf(r.scope))
    /\ r.at \in {"catalog", "prepare"} =>
          r.key = [binary |-> r.binary, pdb |-> r.pdbKey, index |-> r.index, scope |-> r.scope]
    /\ r.at \in Comparing => r.catalog = OwnOf(r)
    /\ r.at = "report" => /\ r.comparison.manifest = r.manifest
                          /\ r.comparison.binary = r.manifest.binary

(* What it counts on is still so. *)
StillSo(r, pdb, binary) ==
    /\ r.at \in {"markers", "pdb", "key"} \cup Reading => r.binary = binary
    /\ r.at \in Reading => r.pdbKey = pdb
    /\ r.at \in {"completed", "run engine"} => r.manifest.binary = binary

Current(r) == HasRead(r) /\ StillSo(r, file["pdb"], file["binary"])

CurrentInv == ~raced => \A c \in Commands : Current(command[c])
TruthInv == ~raced => \A n \in DOMAIN entries : Truthful(n, entries[n])
KeptInv == \A n \in DOMAIN entries : n[1] = "comparison" => ~entries[n].value.failed
CommandsInv == DOMAIN command = Commands /\ command = [c \in Commands |-> command[c]]
FileInv == DOMAIN file = Inputs

Inv == CurrentInv /\ TruthInv /\ KeptInv /\ CommandsInv /\ FileInv

-------------------------------------------------------------------------------
(* The steps' common parts *)

Fields == {"at", "wants", "unclear", "caching", "stores", "index", "binary", "pdbKey", "parse",
           "todo", "scope", "key", "catalog", "manifest", "comparison"}

(* command[c] gets these fields, and nothing else of the commands changes. *)
Sets(c, fields) ==
    /\ CommandsInv'
    /\ \A f \in Fields : command'[c][f] = IF f \in DOMAIN fields THEN fields[f]
                                          ELSE command[c][f]
    /\ \A d \in Commands \ {c} : command'[d] = command[d]
    /\ UNCHANGED <<file, raced>>

LEMMA DoFacts ==
    ASSUME CommandsInv, NEW c \in Commands, NEW fields, Do(c, fields)
    PROVE  Sets(c, fields)
<1>1. DOMAIN Idle = Fields
      BY DEF Idle, Fields
<1>2. command' = [command EXCEPT ![c] = [f \in Fields |->
                     IF f \in DOMAIN fields THEN fields[f] ELSE command[c][f]]]
      BY <1>1 DEF Do, CommandsInv
<1>3. CommandsInv'
      BY <1>2 DEF CommandsInv
<1>4. \A f \in Fields : command'[c][f] = IF f \in DOMAIN fields THEN fields[f] ELSE command[c][f]
      BY <1>2 DEF CommandsInv
<1>5. \A d \in Commands \ {c} : command'[d] = command[d]
      BY <1>2 DEF CommandsInv
<1> QED  BY <1>3, <1>4, <1>5 DEF Do, Sets

(* Whatever a step stores is what its key says. *)
TruthStored(name, key, value) ==
    /\ \A n \in DOMAIN entries' : \/ n \in DOMAIN entries /\ entries'[n] = entries[n]
                                  \/ n = name /\ entries'[n] = [key |-> key, value |-> value]
    /\ ~raced => Truthful(name, [key |-> key, value |-> value])
    /\ name[1] = "comparison" => ~value.failed

StoresTruth == \E name, key, value : TruthStored(name, key, value)

(* A step of one command keeps the invariant if what it has read is current *)
(* and what it stores is what its key says.                                 *)
LEMMA StepKept ==
    ASSUME Inv, NEW c \in Commands, CommandsInv',
           \A d \in Commands \ {c} : command'[d] = command[d],
           UNCHANGED <<file, raced>>,
           ~raced => Current(command[c])',
           UNCHANGED entries \/ StoresTruth
    PROVE  Inv'
<1>1. CurrentInv'
  <2> SUFFICES ASSUME ~raced, NEW d \in Commands PROVE Current(command[d])'
      BY DEF CurrentInv
  <2>1. CASE d = c
        BY <2>1
  <2>2. CASE d # c
    <3>1. command'[d] = command[d] /\ Current(command[d])
          BY <2>2 DEF Inv, CurrentInv
    <3> QED  BY <3>1 DEF Current, StillSo
  <2> QED  BY <2>1, <2>2
<1>2. TruthInv'
      BY DEF Inv, TruthInv, StoresTruth, TruthStored, Truthful
<1>3. KeptInv'
  <2> SUFFICES ASSUME NEW n \in DOMAIN entries', n[1] = "comparison"
               PROVE  ~entries'[n].value.failed
      BY DEF KeptInv
  <2>1. CASE n \in DOMAIN entries /\ entries'[n] = entries[n]
        BY <2>1 DEF Inv, KeptInv
  <2>2. CASE ~(n \in DOMAIN entries /\ entries'[n] = entries[n])
    <3>1. PICK key, value : /\ entries'[n] = [key |-> key, value |-> value]
                            /\ ~value.failed
          BY <2>2 DEF StoresTruth, TruthStored
    <3>2. entries'[n].value = value
          BY <3>1
    <3> QED  BY <3>1, <3>2
  <2> QED  BY <2>1, <2>2
<1> QED  BY <1>1, <1>2, <1>3 DEF Inv, FileInv

LEMMA StoreFacts ==
    ASSUME NEW c \in Commands, NEW name, NEW key, NEW value, Store(c, name, key, value)
    PROVE  \A n \in DOMAIN entries' :
              \/ n \in DOMAIN entries /\ entries'[n] = entries[n]
              \/ n = name /\ entries'[n] = [key |-> key, value |-> value]
BY DEF Store

LEMMA FoundFacts ==
    ASSUME Inv, ~raced, NEW c \in Commands, NEW name, NEW key, Found(c, name, key)
    PROVE  Truthful(name, entries[name]) /\ entries[name].key = key
BY DEF Found, Inv, TruthInv

LEMMA ParseOfNone == \A v : [base |-> v, symbols |-> NoSymbols] = Parse(v, {})
<1>1. \A v : NoSymbols = [m \in {} |-> v]
      BY DEF NoSymbols
<1> QED  BY <1>1 DEF Parse

(* Modules are numbers, so the next one is one of those left. *)
LEMMA Least ==
    ASSUME NEW T \in SUBSET Nat, T # {}
    PROVE  \E m \in T : \A n \in T : m <= n
<1> DEFINE R == {ss \in Nat \X Nat : ss[1] < ss[2]}
<1>1. IsWellFoundedOn(R, Nat)
      BY NatLessThanWellFounded DEF OpToRel
<1>2. PICK m \in T : \A n \in T : ~ (<<n, m>> \in R)
      BY <1>1, WFMin
<1>3. ASSUME NEW n \in T PROVE m <= n
  <2>1. <<n, m>> \in Nat \X Nat /\ ~ (<<n, m>> \in R)
        BY <1>2
  <2>2. ~(n < m)
        BY <2>1
  <2> QED  BY <2>2
<1> QED  BY <1>3

LEMMA NextIsLeft ==
    ASSUME Modules \subseteq Nat, NEW c \in Commands, command[c].todo \subseteq Modules,
           command[c].todo # {}
    PROVE  NextModule(c) \in command[c].todo
<1>1. \E m \in command[c].todo : \A n \in command[c].todo : m <= n
      BY Least
<1> QED  BY <1>1 DEF NextModule

LEMMA StoreKept ==
    ASSUME Inv, NEW c \in Commands, CommandsInv',
           \A d \in Commands \ {c} : command'[d] = command[d],
           UNCHANGED <<file, raced>>,
           ~raced => Current(command[c])',
           NEW name, NEW key, NEW value, Store(c, name, key, value),
           ~raced => Truthful(name, [key |-> key, value |-> value]),
           name[1] = "comparison" => ~value.failed
    PROVE  Inv'
<1>1. TruthStored(name, key, value)
      BY StoreFacts DEF TruthStored
<1>2. StoresTruth
      BY <1>1 DEF StoresTruth
<1> QED  BY <1>2, StepKept

-------------------------------------------------------------------------------
(* load_target_analysis *)

LEMMA StartKept == ASSUME CacheAssumption, Inv, NEW c \in Commands, Start(c) PROVE Inv'
<1>1. PICK request \in Requests :
         Do(c, [at |-> "binaries", wants |-> request.wants, unclear |-> request.unclear,
                caching |-> request.caching, stores |-> request.stores,
                index |-> file["index"]])
      BY DEF Start
<1>2. Sets(c, [at |-> "binaries", wants |-> request.wants, unclear |-> request.unclear,
               caching |-> request.caching, stores |-> request.stores,
               index |-> file["index"]])
      BY <1>1, DoFacts DEF Inv
<1>3. request.wants \in (SUBSET Modules) \cup {None}
      BY DEF CacheAssumption
<1>4. /\ CommandsInv' /\ UNCHANGED <<file, raced>>
      /\ \A d \in Commands \ {c} : command'[d] = command[d]
      /\ command'[c].at = "binaries"
      /\ command'[c].wants = request.wants
      BY <1>2 DEF Sets, Fields
<1>5. Current(command[c])'
      BY <1>3, <1>4 DEF Current, HasRead, StillSo, Early, Reading, Late, Comparing
<1> QED  BY <1>4, <1>5, StepKept DEF Start

LEMMA ReadBinariesKept == ASSUME Inv, NEW c \in Commands, ReadBinaries(c) PROVE Inv'
<1>1. ASSUME ~raced
      PROVE  /\ command[c].wants \in (SUBSET Modules) \cup {None}
      BY <1>1
      DEF ReadBinaries, Inv, CurrentInv, Current, HasRead, StillSo,
          Early, Reading, Late, Comparing
<1>2. Sets(c, [at |-> "markers", binary |-> file["binary"]])
      BY DoFacts DEF Inv, ReadBinaries
<1>3. /\ CommandsInv' /\ UNCHANGED <<file, raced>>
      /\ \A d \in Commands \ {c} : command'[d] = command[d]
      /\ command'[c].at = "markers"
      /\ command'[c].binary = file["binary"]
      /\ \A f \in Fields \ {"at", "binary"} : command'[c][f] = command[c][f]
      BY <1>2 DEF Sets, Fields
<1>4. ASSUME ~raced PROVE Current(command[c])'
  <2>1. /\ command'[c].wants \in (SUBSET Modules) \cup {None}
        /\ command'[c].binary = file["binary"]
        BY <1>1, <1>3, <1>4 DEF Fields
  <2> QED  BY <1>3, <2>1
          DEF Current, HasRead, StillSo, Early, Reading, Late, Comparing, OwnOf, Parse, ModulesOf
<1> QED  BY <1>3, <1>4, StepKept DEF ReadBinaries

LEMMA CheckMarkersKept == ASSUME Inv, NEW c \in Commands, CheckMarkers(c) PROVE Inv'
<1>1. ASSUME ~raced
      PROVE  /\ command[c].wants \in (SUBSET Modules) \cup {None}
             /\ command[c].binary = file["binary"]
      BY <1>1
      DEF CheckMarkers, Inv, CurrentInv, Current, HasRead, StillSo,
          Early, Reading, Late, Comparing
<1>2. Sets(c, [at |-> "pdb"])
      BY DoFacts DEF Inv, CheckMarkers
<1>3. /\ CommandsInv' /\ UNCHANGED <<file, raced>>
      /\ \A d \in Commands \ {c} : command'[d] = command[d]
      /\ command'[c].at = "pdb"
      /\ \A f \in Fields \ {"at"} : command'[c][f] = command[c][f]
      BY <1>2 DEF Sets, Fields
<1>4. ASSUME ~raced PROVE Current(command[c])'
  <2>1. /\ command'[c].wants \in (SUBSET Modules) \cup {None}
        /\ command'[c].binary = file["binary"]
        BY <1>1, <1>3, <1>4 DEF Fields
  <2> QED  BY <1>3, <2>1
          DEF Current, HasRead, StillSo, Early, Reading, Late, Comparing, OwnOf, Parse, ModulesOf
<1> QED  BY <1>3, <1>4, StepKept DEF CheckMarkers

LEMMA FingerprintPdbKept == ASSUME Inv, NEW c \in Commands, FingerprintPdb(c) PROVE Inv'
<1>1. ASSUME ~raced
      PROVE  /\ command[c].wants \in (SUBSET Modules) \cup {None}
             /\ command[c].binary = file["binary"]
      BY <1>1
      DEF FingerprintPdb, Inv, CurrentInv, Current, HasRead, StillSo,
          Early, Reading, Late, Comparing
<1>2. Sets(c, [at |-> "full", pdbKey |-> file["pdb"]])
      BY DoFacts DEF Inv, FingerprintPdb
<1>3. /\ CommandsInv' /\ UNCHANGED <<file, raced>>
      /\ \A d \in Commands \ {c} : command'[d] = command[d]
      /\ command'[c].at = "full"
      /\ command'[c].pdbKey = file["pdb"]
      /\ \A f \in Fields \ {"at", "pdbKey"} : command'[c][f] = command[c][f]
      BY <1>2 DEF Sets, Fields
<1>4. ASSUME ~raced PROVE Current(command[c])'
  <2>1. /\ command'[c].wants \in (SUBSET Modules) \cup {None}
        /\ command'[c].binary = file["binary"]
        /\ command'[c].pdbKey = file["pdb"]
        BY <1>1, <1>3, <1>4 DEF Fields
  <2> QED  BY <1>3, <2>1
          DEF Current, HasRead, StillSo, Early, Reading, Late, Comparing, OwnOf, Parse, ModulesOf
<1> QED  BY <1>3, <1>4, StepKept DEF FingerprintPdb

LEMMA LoadFullKept == ASSUME Inv, NEW c \in Commands, LoadFull(c) PROVE Inv'
<1>1. ASSUME ~raced
      PROVE  /\ command[c].wants \in (SUBSET Modules) \cup {None}
             /\ command[c].binary = file["binary"]
             /\ command[c].pdbKey = file["pdb"]
      BY <1>1
      DEF LoadFull, Inv, CurrentInv, Current, HasRead, StillSo,
          Early, Reading, Late, Comparing
<1>2. CASE Found(c, <<"full">>, command[c].pdbKey)
  <2>1. Sets(c, [at |-> "key", parse |-> entries[<<"full">>].value, scope |-> None, todo |-> {}])
        BY <1>2, DoFacts DEF Inv, LoadFull, Parsed
  <2>2. /\ CommandsInv' /\ UNCHANGED <<file, raced>>
        /\ \A d \in Commands \ {c} : command'[d] = command[d]
        /\ command'[c].at = "key"
        /\ command'[c].parse = entries[<<"full">>].value
        /\ command'[c].scope = None
        /\ command'[c].todo = {}
        /\ \A f \in Fields \ {"at", "parse", "scope", "todo"} : command'[c][f] = command[c][f]
        BY <2>1 DEF Sets, Fields
  <2>3. ASSUME ~raced PROVE Current(command[c])'
    <3>1. /\ command[c].wants \in (SUBSET Modules) \cup {None}
          /\ command[c].binary = file["binary"]
          /\ command[c].pdbKey = file["pdb"]
          /\ entries[<<"full">>].value = Parse(file["pdb"], Modules)
          BY <2>3, <1>1, <1>2, FoundFacts DEF Truthful
    <3>2. /\ command'[c].wants \in (SUBSET Modules) \cup {None}
          /\ command'[c].binary = file["binary"]
          /\ command'[c].pdbKey = file["pdb"]
          /\ command'[c].wants = None \/ command'[c].wants \subseteq ModulesOf(command'[c].scope)
          /\ command'[c].parse = Parse(file["pdb"], ModulesOf(command'[c].scope))
          BY <2>2, <3>1 DEF Fields, ModulesOf
    <3> QED  BY <2>2, <3>2
            DEF Current, HasRead, StillSo, Early, Reading, Late, Comparing, OwnOf, Parse, ModulesOf
  <2>4. UNCHANGED entries
        BY <1>2 DEF Inv, LoadFull, Parsed
  <2> QED  BY <2>2, <2>3, <2>4, StepKept
<1>3. CASE ~Found(c, <<"full">>, command[c].pdbKey) /\ WholeParse(c)
  <2>1. Sets(c, [at |-> "parse full"])
        BY <1>3, DoFacts DEF Inv, LoadFull
  <2>2. /\ CommandsInv' /\ UNCHANGED <<file, raced>>
        /\ \A d \in Commands \ {c} : command'[d] = command[d]
        /\ command'[c].at = "parse full"
        /\ \A f \in Fields \ {"at"} : command'[c][f] = command[c][f]
        BY <2>1 DEF Sets, Fields
  <2>3. ASSUME ~raced PROVE Current(command[c])'
    <3>1. /\ command[c].wants \in (SUBSET Modules) \cup {None}
          /\ command[c].binary = file["binary"]
          /\ command[c].pdbKey = file["pdb"]
          BY <2>3, <1>1, <1>3
    <3>2. /\ command'[c].wants \in (SUBSET Modules) \cup {None}
          /\ command'[c].binary = file["binary"]
          /\ command'[c].pdbKey = file["pdb"]
          BY <2>2, <3>1 DEF Fields
    <3> QED  BY <2>2, <3>2
            DEF Current, HasRead, StillSo, Early, Reading, Late, Comparing, OwnOf, Parse, ModulesOf
  <2>4. UNCHANGED entries
        BY <1>3 DEF Inv, LoadFull
  <2> QED  BY <2>2, <2>3, <2>4, StepKept
<1>4. CASE ~Found(c, <<"full">>, command[c].pdbKey) /\ ~WholeParse(c)
  <2>1. Sets(c, [at |-> "base"])
        BY <1>4, DoFacts DEF Inv, LoadFull
  <2>2. /\ CommandsInv' /\ UNCHANGED <<file, raced>>
        /\ \A d \in Commands \ {c} : command'[d] = command[d]
        /\ command'[c].at = "base"
        /\ \A f \in Fields \ {"at"} : command'[c][f] = command[c][f]
        BY <2>1 DEF Sets, Fields
  <2>3. ASSUME ~raced PROVE Current(command[c])'
    <3>1. /\ command[c].wants \in (SUBSET Modules) \cup {None}
          /\ command[c].binary = file["binary"]
          /\ command[c].pdbKey = file["pdb"]
          /\ command[c].wants # None
          BY <2>3, <1>1, <1>4 DEF WholeParse
    <3>2. /\ command'[c].wants \in (SUBSET Modules) \cup {None}
          /\ command'[c].binary = file["binary"]
          /\ command'[c].pdbKey = file["pdb"]
          /\ command'[c].wants # None
          BY <2>2, <3>1 DEF Fields
    <3> QED  BY <2>2, <3>2
            DEF Current, HasRead, StillSo, Early, Reading, Late, Comparing, OwnOf, Parse, ModulesOf
  <2>4. UNCHANGED entries
        BY <1>4 DEF Inv, LoadFull
  <2> QED  BY <2>2, <2>3, <2>4, StepKept
<1> QED  BY <1>2, <1>3, <1>4

LEMMA ParseFullKept == ASSUME Inv, NEW c \in Commands, ParseFull(c) PROVE Inv'
<1>1. ASSUME ~raced
      PROVE  /\ command[c].wants \in (SUBSET Modules) \cup {None}
             /\ command[c].binary = file["binary"]
             /\ command[c].pdbKey = file["pdb"]
      BY <1>1
      DEF ParseFull, Inv, CurrentInv, Current, HasRead, StillSo,
          Early, Reading, Late, Comparing
<1>2. Sets(c, [at |-> "key",
              parse |-> Parse(file["pdb"], Modules),
              scope |-> None,
              todo |-> {}])
      BY DoFacts DEF Inv, ParseFull, Parsed
<1>3. /\ CommandsInv' /\ UNCHANGED <<file, raced>>
      /\ \A d \in Commands \ {c} : command'[d] = command[d]
      /\ command'[c].at = "key"
      /\ command'[c].parse = Parse(file["pdb"], Modules)
      /\ command'[c].scope = None
      /\ command'[c].todo = {}
      /\ \A f \in Fields \ {"at", "parse", "scope", "todo"} : command'[c][f] = command[c][f]
      BY <1>2 DEF Sets, Fields
<1>4. ASSUME ~raced PROVE Current(command[c])'
  <2>1. /\ command'[c].wants \in (SUBSET Modules) \cup {None}
        /\ command'[c].binary = file["binary"]
        /\ command'[c].pdbKey = file["pdb"]
        /\ command'[c].wants = None \/ command'[c].wants \subseteq ModulesOf(command'[c].scope)
        /\ command'[c].parse = Parse(file["pdb"], ModulesOf(command'[c].scope))
        BY <1>1, <1>3, <1>4 DEF Fields, ModulesOf
  <2> QED  BY <1>3, <2>1
          DEF Current, HasRead, StillSo, Early, Reading, Late, Comparing, OwnOf, Parse, ModulesOf
<1>5. Store(c, <<"full">>, command[c].pdbKey, Parse(file["pdb"], Modules))
      BY DEF ParseFull, Parsed
<1>6. ~raced => Truthful(<<"full">>, [key |-> command[c].pdbKey,
                                      value |-> Parse(file["pdb"], Modules)])
      BY <1>1 DEF Truthful
<1> QED  BY <1>3, <1>4, <1>5, <1>6, StoreKept

LEMMA LoadBaseKept == ASSUME Inv, NEW c \in Commands, LoadBase(c) PROVE Inv'
<1>1. ASSUME ~raced
      PROVE  /\ command[c].wants \in (SUBSET Modules) \cup {None}
             /\ command[c].binary = file["binary"]
             /\ command[c].pdbKey = file["pdb"]
             /\ command[c].wants # None
      BY <1>1
      DEF LoadBase, Inv, CurrentInv, Current, HasRead, StillSo,
          Early, Reading, Late, Comparing
<1>2. CASE Found(c, <<"base">>, command[c].pdbKey)
  <2>1. Sets(c, [parse |-> entries[<<"base">>].value,
                todo |-> command[c].wants,
                at |-> IF command[c].unclear THEN "full" ELSE "modules"])
        BY <1>2, DoFacts DEF Inv, LoadBase, GotBase
  <2>2. /\ CommandsInv' /\ UNCHANGED <<file, raced>>
        /\ \A d \in Commands \ {c} : command'[d] = command[d]
        /\ command'[c].parse = entries[<<"base">>].value
        /\ command'[c].todo = command[c].wants
        /\ command'[c].at = IF command[c].unclear THEN "full" ELSE "modules"
        /\ \A f \in Fields \ {"parse", "todo", "at"} : command'[c][f] = command[c][f]
        BY <2>1 DEF Sets, Fields
  <2>3. ASSUME ~raced PROVE Current(command[c])'
    <3>1. /\ command[c].wants \in (SUBSET Modules) \cup {None}
          /\ command[c].binary = file["binary"]
          /\ command[c].pdbKey = file["pdb"]
          /\ command[c].wants # None
          /\ entries[<<"base">>].value = Parse(file["pdb"], {})
          BY <2>3, <1>1, <1>2, FoundFacts DEF Truthful
    <3>2. /\ command'[c].wants \in (SUBSET Modules) \cup {None}
          /\ command'[c].binary = file["binary"]
          /\ command'[c].pdbKey = file["pdb"]
          /\ command'[c].wants # None
          /\ command'[c].todo \subseteq command'[c].wants
          /\ command'[c].parse = Parse(file["pdb"], {})
          /\ command'[c].wants \ command'[c].todo = {}
          BY <2>2, <3>1 DEF Fields
    <3> QED  BY <2>2, <3>2
            DEF Current, HasRead, StillSo, Early, Reading, Late, Comparing, OwnOf, Parse, ModulesOf
  <2>4. UNCHANGED entries
        BY <1>2 DEF Inv, LoadBase, GotBase
  <2> QED  BY <2>2, <2>3, <2>4, StepKept
<1>3. CASE ~Found(c, <<"base">>, command[c].pdbKey)
  <2>1. Sets(c, [at |-> "parse base"])
        BY <1>3, DoFacts DEF Inv, LoadBase
  <2>2. /\ CommandsInv' /\ UNCHANGED <<file, raced>>
        /\ \A d \in Commands \ {c} : command'[d] = command[d]
        /\ command'[c].at = "parse base"
        /\ \A f \in Fields \ {"at"} : command'[c][f] = command[c][f]
        BY <2>1 DEF Sets, Fields
  <2>3. ASSUME ~raced PROVE Current(command[c])'
    <3>1. /\ command[c].wants \in (SUBSET Modules) \cup {None}
          /\ command[c].binary = file["binary"]
          /\ command[c].pdbKey = file["pdb"]
          /\ command[c].wants # None
          BY <2>3, <1>1, <1>3
    <3>2. /\ command'[c].wants \in (SUBSET Modules) \cup {None}
          /\ command'[c].binary = file["binary"]
          /\ command'[c].pdbKey = file["pdb"]
          /\ command'[c].wants # None
          BY <2>2, <3>1 DEF Fields
    <3> QED  BY <2>2, <3>2
            DEF Current, HasRead, StillSo, Early, Reading, Late, Comparing, OwnOf, Parse, ModulesOf
  <2>4. UNCHANGED entries
        BY <1>3 DEF Inv, LoadBase
  <2> QED  BY <2>2, <2>3, <2>4, StepKept
<1> QED  BY <1>2, <1>3

LEMMA ParseBaseKept == ASSUME Inv, NEW c \in Commands, ParseBase(c) PROVE Inv'
<1>1. ASSUME ~raced
      PROVE  /\ command[c].wants \in (SUBSET Modules) \cup {None}
             /\ command[c].binary = file["binary"]
             /\ command[c].pdbKey = file["pdb"]
             /\ command[c].wants # None
      BY <1>1
      DEF ParseBase, Inv, CurrentInv, Current, HasRead, StillSo,
          Early, Reading, Late, Comparing
<1>2. Sets(c, [parse |-> Parse(file["pdb"], {}),
              todo |-> command[c].wants,
              at |-> IF command[c].unclear THEN "full" ELSE "modules"])
      BY DoFacts, ParseOfNone DEF Inv, ParseBase, GotBase
<1>3. /\ CommandsInv' /\ UNCHANGED <<file, raced>>
      /\ \A d \in Commands \ {c} : command'[d] = command[d]
      /\ command'[c].parse = Parse(file["pdb"], {})
      /\ command'[c].todo = command[c].wants
      /\ command'[c].at = IF command[c].unclear THEN "full" ELSE "modules"
      /\ \A f \in Fields \ {"parse", "todo", "at"} : command'[c][f] = command[c][f]
      BY <1>2 DEF Sets, Fields
<1>4. ASSUME ~raced PROVE Current(command[c])'
  <2>1. /\ command'[c].wants \in (SUBSET Modules) \cup {None}
        /\ command'[c].binary = file["binary"]
        /\ command'[c].pdbKey = file["pdb"]
        /\ command'[c].wants # None
        /\ command'[c].todo \subseteq command'[c].wants
        /\ command'[c].parse = Parse(file["pdb"], {})
        /\ command'[c].wants \ command'[c].todo = {}
        BY <1>1, <1>3, <1>4 DEF Fields
  <2> QED  BY <1>3, <2>1
          DEF Current, HasRead, StillSo, Early, Reading, Late, Comparing, OwnOf, Parse, ModulesOf
<1>5. Store(c, <<"base">>, command[c].pdbKey, Parse(file["pdb"], {}))
      BY ParseOfNone DEF ParseBase, GotBase
<1>6. ~raced => Truthful(<<"base">>, [key |-> command[c].pdbKey,
                                      value |-> Parse(file["pdb"], {})])
      BY <1>1 DEF Truthful
<1> QED  BY <1>3, <1>4, <1>5, <1>6, StoreKept

(* One more module's symbols. *)
LEMMA MergeFacts ==
    ASSUME NEW v, NEW D, NEW m
    PROVE  Merged(Parse(v, D), m, v) = Parse(v, D \cup {m})
BY DEF Merged, Parse

(* Of the modules left, one is next, and its symbols are merged. *)
LEMMA NextFacts ==
    ASSUME CacheAssumption, NEW c \in Commands, command[c].todo # {},
           command[c].todo \subseteq command[c].wants, command[c].wants # None,
           command[c].wants \in (SUBSET Modules) \cup {None},
           command[c].parse = Parse(file["pdb"], command[c].wants \ command[c].todo)
    PROVE  /\ NextModule(c) \in command[c].todo
           /\ Merged(command[c].parse, NextModule(c), file["pdb"])
                = Parse(file["pdb"], command[c].wants \ (command[c].todo \ {NextModule(c)}))
<1>1. command[c].todo \subseteq Modules
      OBVIOUS
<1>2. NextModule(c) \in command[c].todo
      BY <1>1, NextIsLeft DEF CacheAssumption
<1> DEFINE v == file["pdb"]
           W == command[c].wants
           T == command[c].todo
           m == NextModule(c)
<1>3. T \in SUBSET W /\ m \in T /\ command[c].parse = Parse(v, W \ T)
      BY <1>2
<1> HIDE DEF v, W, T, m
<1>4. (W \ T) \cup {m} = W \ (T \ {m})
      BY <1>3
<1>5. Merged(Parse(v, W \ T), m, v) = Parse(v, (W \ T) \cup {m})
      BY MergeFacts
<1>6. Merged(command[c].parse, m, v) = Parse(v, W \ (T \ {m}))
      BY <1>3, <1>4, <1>5
<1> QED  BY <1>2, <1>6 DEF v, W, T, m

LEMMA LoadModuleKept ==
    ASSUME CacheAssumption, Inv, NEW c \in Commands, LoadModule(c)
    PROVE  Inv'
<1>1. ASSUME ~raced
      PROVE  /\ command[c].wants \in (SUBSET Modules) \cup {None}
             /\ command[c].binary = file["binary"]
             /\ command[c].pdbKey = file["pdb"]
             /\ command[c].todo # {}
             /\ command[c].todo \subseteq command[c].wants
             /\ command[c].wants # None
             /\ command[c].parse = Parse(file["pdb"], command[c].wants \ command[c].todo)
      BY <1>1
      DEF LoadModule, Inv, CurrentInv, Current, HasRead, StillSo,
          Early, Reading, Late, Comparing
<1>2. CASE Found(c, <<"module", NextModule(c)>>, command[c].pdbKey)
  <2>1. Sets(c, [at |-> "modules",
                todo |-> command[c].todo \ {NextModule(c)},
                parse |-> Merged(command[c].parse, NextModule(c),
                                 entries[<<"module", NextModule(c)>>].value)])
        BY <1>2, DoFacts DEF Inv, LoadModule, GotModule
  <2>2. /\ CommandsInv' /\ UNCHANGED <<file, raced>>
        /\ \A d \in Commands \ {c} : command'[d] = command[d]
        /\ command'[c].at = "modules"
        /\ command'[c].todo = command[c].todo \ {NextModule(c)}
        /\ command'[c].parse = Merged(command[c].parse, NextModule(c),
                                      entries[<<"module", NextModule(c)>>].value)
        /\ \A f \in Fields \ {"at", "todo", "parse"} : command'[c][f] = command[c][f]
        BY <2>1 DEF Sets, Fields
  <2>3. ASSUME ~raced PROVE Current(command[c])'
    <3>1. /\ command[c].wants \in (SUBSET Modules) \cup {None}
          /\ command[c].binary = file["binary"]
          /\ command[c].pdbKey = file["pdb"]
          /\ command[c].todo # {}
          /\ command[c].todo \subseteq command[c].wants
          /\ command[c].wants # None
          /\ command[c].parse = Parse(file["pdb"], command[c].wants \ command[c].todo)
          /\ entries[<<"module", NextModule(c)>>].value = file["pdb"]
          BY <2>3, <1>1, <1>2, FoundFacts DEF Truthful
    <3>2. /\ command'[c].wants \in (SUBSET Modules) \cup {None}
          /\ command'[c].binary = file["binary"]
          /\ command'[c].pdbKey = file["pdb"]
          /\ command'[c].wants # None
          /\ command'[c].todo \subseteq command'[c].wants
          /\ command'[c].parse = Parse(file["pdb"], command'[c].wants \ command'[c].todo)
          BY <2>2, <3>1, NextFacts DEF Fields
    <3> QED  BY <2>2, <3>2
            DEF Current, HasRead, StillSo, Early, Reading, Late, Comparing, OwnOf, Parse, ModulesOf
  <2>4. UNCHANGED entries
        BY <1>2 DEF Inv, LoadModule, GotModule
  <2> QED  BY <2>2, <2>3, <2>4, StepKept
<1>3. CASE ~Found(c, <<"module", NextModule(c)>>, command[c].pdbKey)
  <2>1. Sets(c, [at |-> "parse module"])
        BY <1>3, DoFacts DEF Inv, LoadModule
  <2>2. /\ CommandsInv' /\ UNCHANGED <<file, raced>>
        /\ \A d \in Commands \ {c} : command'[d] = command[d]
        /\ command'[c].at = "parse module"
        /\ \A f \in Fields \ {"at"} : command'[c][f] = command[c][f]
        BY <2>1 DEF Sets, Fields
  <2>3. ASSUME ~raced PROVE Current(command[c])'
    <3>1. /\ command[c].wants \in (SUBSET Modules) \cup {None}
          /\ command[c].binary = file["binary"]
          /\ command[c].pdbKey = file["pdb"]
          /\ command[c].todo # {}
          /\ command[c].todo \subseteq command[c].wants
          /\ command[c].wants # None
          /\ command[c].parse = Parse(file["pdb"], command[c].wants \ command[c].todo)
          BY <2>3, <1>1, <1>3
    <3>2. /\ command'[c].wants \in (SUBSET Modules) \cup {None}
          /\ command'[c].binary = file["binary"]
          /\ command'[c].pdbKey = file["pdb"]
          /\ command'[c].wants # None
          /\ command'[c].todo \subseteq command'[c].wants
          /\ command'[c].parse = Parse(file["pdb"], command'[c].wants \ command'[c].todo)
          /\ command'[c].todo # {}
          BY <2>2, <3>1 DEF Fields
    <3> QED  BY <2>2, <3>2
            DEF Current, HasRead, StillSo, Early, Reading, Late, Comparing, OwnOf, Parse, ModulesOf
  <2>4. UNCHANGED entries
        BY <1>3 DEF Inv, LoadModule
  <2> QED  BY <2>2, <2>3, <2>4, StepKept
<1> QED  BY <1>2, <1>3

LEMMA ParseModuleKept ==
    ASSUME CacheAssumption, Inv, NEW c \in Commands, ParseModule(c)
    PROVE  Inv'
<1>1. ASSUME ~raced
      PROVE  /\ command[c].wants \in (SUBSET Modules) \cup {None}
             /\ command[c].binary = file["binary"]
             /\ command[c].pdbKey = file["pdb"]
             /\ command[c].todo # {}
             /\ command[c].todo \subseteq command[c].wants
             /\ command[c].wants # None
             /\ command[c].parse = Parse(file["pdb"], command[c].wants \ command[c].todo)
      BY <1>1
      DEF ParseModule, Inv, CurrentInv, Current, HasRead, StillSo,
          Early, Reading, Late, Comparing
<1>2. Sets(c, [at |-> "modules",
              todo |-> command[c].todo \ {NextModule(c)},
              parse |-> Merged(command[c].parse, NextModule(c), file["pdb"])])
      BY DoFacts DEF Inv, ParseModule, GotModule
<1>3. /\ CommandsInv' /\ UNCHANGED <<file, raced>>
      /\ \A d \in Commands \ {c} : command'[d] = command[d]
      /\ command'[c].at = "modules"
      /\ command'[c].todo = command[c].todo \ {NextModule(c)}
      /\ command'[c].parse = Merged(command[c].parse, NextModule(c), file["pdb"])
      /\ \A f \in Fields \ {"at", "todo", "parse"} : command'[c][f] = command[c][f]
      BY <1>2 DEF Sets, Fields
<1>4. ASSUME ~raced PROVE Current(command[c])'
  <2>1. /\ command'[c].wants \in (SUBSET Modules) \cup {None}
        /\ command'[c].binary = file["binary"]
        /\ command'[c].pdbKey = file["pdb"]
        /\ command'[c].wants # None
        /\ command'[c].todo \subseteq command'[c].wants
        /\ command'[c].parse = Parse(file["pdb"], command'[c].wants \ command'[c].todo)
        BY <1>1, <1>3, <1>4, NextFacts DEF Fields
  <2> QED  BY <1>3, <2>1
          DEF Current, HasRead, StillSo, Early, Reading, Late, Comparing, OwnOf, Parse, ModulesOf
<1>5. Store(c, <<"module", NextModule(c)>>, command[c].pdbKey, file["pdb"])
      BY DEF ParseModule, GotModule
<1>6. ~raced => Truthful(<<"module", NextModule(c)>>, [key |-> command[c].pdbKey,
                                                       value |-> file["pdb"]])
      BY <1>1 DEF Truthful
<1> QED  BY <1>3, <1>4, <1>5, <1>6, StoreKept

LEMMA ModulesDoneKept == ASSUME Inv, NEW c \in Commands, ModulesDone(c) PROVE Inv'
<1>1. ASSUME ~raced
      PROVE  /\ command[c].wants \in (SUBSET Modules) \cup {None}
             /\ command[c].binary = file["binary"]
             /\ command[c].pdbKey = file["pdb"]
             /\ command[c].wants # None
             /\ command[c].parse = Parse(file["pdb"], command[c].wants)
      BY <1>1
      DEF ModulesDone, Inv, CurrentInv, Current, HasRead, StillSo,
          Early, Reading, Late, Comparing
<1>2. Sets(c, [at |-> "key",
              parse |-> command[c].parse,
              scope |-> command[c].wants,
              todo |-> {}])
      BY DoFacts DEF Inv, ModulesDone, Parsed
<1>3. /\ CommandsInv' /\ UNCHANGED <<file, raced>>
      /\ \A d \in Commands \ {c} : command'[d] = command[d]
      /\ command'[c].at = "key"
      /\ command'[c].parse = command[c].parse
      /\ command'[c].scope = command[c].wants
      /\ command'[c].todo = {}
      /\ \A f \in Fields \ {"at", "parse", "scope", "todo"} : command'[c][f] = command[c][f]
      BY <1>2 DEF Sets, Fields
<1>4. ASSUME ~raced PROVE Current(command[c])'
  <2>1. /\ command'[c].wants \in (SUBSET Modules) \cup {None}
        /\ command'[c].binary = file["binary"]
        /\ command'[c].pdbKey = file["pdb"]
        /\ command'[c].wants = None \/ command'[c].wants \subseteq ModulesOf(command'[c].scope)
        /\ command'[c].parse = Parse(file["pdb"], ModulesOf(command'[c].scope))
        BY <1>1, <1>3, <1>4 DEF Fields, ModulesOf
  <2> QED  BY <1>3, <2>1
          DEF Current, HasRead, StillSo, Early, Reading, Late, Comparing, OwnOf, Parse, ModulesOf
<1> QED  BY <1>3, <1>4, StepKept DEF ModulesDone

LEMMA FingerprintInputsKept == ASSUME Inv, NEW c \in Commands, FingerprintInputs(c) PROVE Inv'
<1>1. ASSUME ~raced
      PROVE  /\ command[c].wants \in (SUBSET Modules) \cup {None}
             /\ command[c].binary = file["binary"]
             /\ command[c].wants = None \/ command[c].wants \subseteq ModulesOf(command[c].scope)
             /\ command[c].parse = Parse(command[c].pdbKey, ModulesOf(command[c].scope))
      BY <1>1
      DEF FingerprintInputs, Inv, CurrentInv, Current, HasRead, StillSo,
          Early, Reading, Late, Comparing
<1>2. Sets(c, [at |-> "catalog", key |-> PreparedKey(c)])
      BY DoFacts DEF Inv, FingerprintInputs
<1>3. /\ CommandsInv' /\ UNCHANGED <<file, raced>>
      /\ \A d \in Commands \ {c} : command'[d] = command[d]
      /\ command'[c].at = "catalog"
      /\ command'[c].key = PreparedKey(c)
      /\ \A f \in Fields \ {"at", "key"} : command'[c][f] = command[c][f]
      BY <1>2 DEF Sets, Fields
<1>4. ASSUME ~raced PROVE Current(command[c])'
  <2>1. /\ command'[c].wants \in (SUBSET Modules) \cup {None}
        /\ command'[c].binary = file["binary"]
        /\ command'[c].wants = None \/ command'[c].wants \subseteq ModulesOf(command'[c].scope)
        /\ command'[c].parse = Parse(command'[c].pdbKey, ModulesOf(command'[c].scope))
        /\ command'[c].key = [binary |-> command'[c].binary, pdb |-> command'[c].pdbKey,
                              index |-> command'[c].index, scope |-> command'[c].scope]
        BY <1>1, <1>3, <1>4 DEF Fields, PreparedKey
  <2> QED  BY <1>3, <2>1
          DEF Current, HasRead, StillSo, Early, Reading, Late, Comparing, OwnOf, Parse, ModulesOf
<1> QED  BY <1>3, <1>4, StepKept DEF FingerprintInputs

-------------------------------------------------------------------------------
(* Compare.from_target and _run_engine *)

LEMMA LoadPreparedKept == ASSUME Inv, NEW c \in Commands, LoadPrepared(c) PROVE Inv'
<1>1. ASSUME ~raced
      PROVE  /\ command[c].wants \in (SUBSET Modules) \cup {None}
             /\ command[c].wants = None \/ command[c].wants \subseteq ModulesOf(command[c].scope)
             /\ command[c].parse = Parse(command[c].pdbKey, ModulesOf(command[c].scope))
             /\ command[c].key = [binary |-> command[c].binary, pdb |-> command[c].pdbKey,
                                    index |-> command[c].index, scope |-> command[c].scope]
      BY <1>1
      DEF LoadPrepared, Inv, CurrentInv, Current, HasRead, StillSo,
          Early, Reading, Late, Comparing
<1>2. CASE Found(c, PreparedName(c), command[c].key)
  <2>1. Sets(c, [at |-> "compare", catalog |-> entries[PreparedName(c)].value])
        BY <1>2, DoFacts DEF Inv, LoadPrepared
  <2>2. /\ CommandsInv' /\ UNCHANGED <<file, raced>>
        /\ \A d \in Commands \ {c} : command'[d] = command[d]
        /\ command'[c].at = "compare"
        /\ command'[c].catalog = entries[PreparedName(c)].value
        /\ \A f \in Fields \ {"at", "catalog"} : command'[c][f] = command[c][f]
        BY <2>1 DEF Sets, Fields
  <2>3. ASSUME ~raced PROVE Current(command[c])'
    <3>1. /\ command[c].wants \in (SUBSET Modules) \cup {None}
          /\ command[c].wants = None \/ command[c].wants \subseteq ModulesOf(command[c].scope)
          /\ entries[PreparedName(c)].value = OwnOf(command[c])
      <4>1. /\ Truthful(PreparedName(c), entries[PreparedName(c)])
            /\ entries[PreparedName(c)].key = command[c].key
            BY <2>3, <1>2, FoundFacts
      <4> QED  BY <2>3, <1>1, <4>1 DEF Truthful, PreparedName, OwnOf
    <3>2. /\ command'[c].wants \in (SUBSET Modules) \cup {None}
          /\ command'[c].wants = None \/ command'[c].wants \subseteq ModulesOf(command'[c].scope)
          /\ command'[c].catalog = OwnOf(command'[c])
          BY <2>2, <3>1 DEF Fields, OwnOf
    <3> QED  BY <2>2, <3>2
            DEF Current, HasRead, StillSo, Early, Reading, Late, Comparing, OwnOf, Parse, ModulesOf
  <2>4. UNCHANGED entries
        BY <1>2 DEF Inv, LoadPrepared
  <2> QED  BY <2>2, <2>3, <2>4, StepKept
<1>3. CASE ~Found(c, PreparedName(c), command[c].key)
  <2>1. Sets(c, [at |-> "prepare"])
        BY <1>3, DoFacts DEF Inv, LoadPrepared
  <2>2. /\ CommandsInv' /\ UNCHANGED <<file, raced>>
        /\ \A d \in Commands \ {c} : command'[d] = command[d]
        /\ command'[c].at = "prepare"
        /\ \A f \in Fields \ {"at"} : command'[c][f] = command[c][f]
        BY <2>1 DEF Sets, Fields
  <2>3. ASSUME ~raced PROVE Current(command[c])'
    <3>1. /\ command[c].wants \in (SUBSET Modules) \cup {None}
          /\ command[c].wants = None \/ command[c].wants \subseteq ModulesOf(command[c].scope)
          /\ command[c].parse = Parse(command[c].pdbKey, ModulesOf(command[c].scope))
          /\ command[c].key = [binary |-> command[c].binary, pdb |-> command[c].pdbKey,
                                    index |-> command[c].index, scope |-> command[c].scope]
          BY <2>3, <1>1, <1>3
    <3>2. /\ command'[c].wants \in (SUBSET Modules) \cup {None}
          /\ command'[c].wants = None \/ command'[c].wants \subseteq ModulesOf(command'[c].scope)
          /\ command'[c].parse = Parse(command'[c].pdbKey, ModulesOf(command'[c].scope))
          /\ command'[c].key = [binary |-> command'[c].binary, pdb |-> command'[c].pdbKey,
                              index |-> command'[c].index, scope |-> command'[c].scope]
          BY <2>2, <3>1 DEF Fields
    <3> QED  BY <2>2, <3>2
            DEF Current, HasRead, StillSo, Early, Reading, Late, Comparing, OwnOf, Parse, ModulesOf
  <2>4. UNCHANGED entries
        BY <1>3 DEF Inv, LoadPrepared
  <2> QED  BY <2>2, <2>3, <2>4, StepKept
<1> QED  BY <1>2, <1>3

LEMMA PrepareKept == ASSUME Inv, NEW c \in Commands, Prepare(c) PROVE Inv'
<1>1. ASSUME ~raced
      PROVE  /\ command[c].wants \in (SUBSET Modules) \cup {None}
             /\ command[c].wants = None \/ command[c].wants \subseteq ModulesOf(command[c].scope)
             /\ command[c].parse = Parse(command[c].pdbKey, ModulesOf(command[c].scope))
             /\ command[c].key = [binary |-> command[c].binary, pdb |-> command[c].pdbKey,
                                    index |-> command[c].index, scope |-> command[c].scope]
             /\ Catalog(c) = OwnOf(command[c])
      BY <1>1
      DEF Prepare, Inv, CurrentInv, Current, HasRead, StillSo, Early, Reading, Late, Comparing,
          Catalog, OwnOf
<1>2. Sets(c, [at |-> "compare", catalog |-> Catalog(c)])
      BY DoFacts DEF Inv, Prepare
<1>3. /\ CommandsInv' /\ UNCHANGED <<file, raced>>
      /\ \A d \in Commands \ {c} : command'[d] = command[d]
      /\ command'[c].at = "compare"
      /\ command'[c].catalog = Catalog(c)
      /\ \A f \in Fields \ {"at", "catalog"} : command'[c][f] = command[c][f]
      BY <1>2 DEF Sets, Fields
<1>4. ASSUME ~raced PROVE Current(command[c])'
  <2>1. /\ command'[c].wants \in (SUBSET Modules) \cup {None}
        /\ command'[c].wants = None \/ command'[c].wants \subseteq ModulesOf(command'[c].scope)
        /\ command'[c].catalog = OwnOf(command'[c])
        BY <1>1, <1>3, <1>4 DEF Fields, OwnOf
  <2> QED  BY <1>3, <2>1
          DEF Current, HasRead, StillSo, Early, Reading, Late, Comparing, OwnOf, Parse, ModulesOf
<1>5. Store(c, PreparedName(c), command[c].key, Catalog(c))
      BY DEF Prepare
<1>6. ~raced => Truthful(PreparedName(c), [key |-> command[c].key, value |-> Catalog(c)])
      BY <1>1 DEF Truthful, PreparedName, OwnOf
<1> QED  BY <1>3, <1>4, <1>5, <1>6, StoreKept DEF PreparedName

LEMMA BuildManifestKept == ASSUME Inv, NEW c \in Commands, BuildManifest(c) PROVE Inv'
<1>1. ASSUME ~raced
      PROVE  /\ command[c].wants \in (SUBSET Modules) \cup {None}
             /\ command[c].wants = None \/ command[c].wants \subseteq ModulesOf(command[c].scope)
             /\ command[c].catalog = OwnOf(command[c])
      BY <1>1
      DEF BuildManifest, Inv, CurrentInv, Current, HasRead, StillSo,
          Early, Reading, Late, Comparing
<1>2. Sets(c, [at |-> "completed",
              manifest |-> [catalog |-> command[c].catalog, wants |-> command[c].wants,
                              binary |-> file["binary"]]])
      BY DoFacts DEF Inv, BuildManifest
<1>3. /\ CommandsInv' /\ UNCHANGED <<file, raced>>
      /\ \A d \in Commands \ {c} : command'[d] = command[d]
      /\ command'[c].at = "completed"
      /\ command'[c].manifest = [catalog |-> command[c].catalog, wants |-> command[c].wants,
                              binary |-> file["binary"]]
      /\ \A f \in Fields \ {"at", "manifest"} : command'[c][f] = command[c][f]
      BY <1>2 DEF Sets, Fields
<1>4. ASSUME ~raced PROVE Current(command[c])'
  <2>1. /\ command'[c].wants \in (SUBSET Modules) \cup {None}
        /\ command'[c].wants = None \/ command'[c].wants \subseteq ModulesOf(command'[c].scope)
        /\ command'[c].catalog = OwnOf(command'[c])
        /\ command'[c].manifest.binary = file["binary"]
        BY <1>1, <1>3, <1>4 DEF Fields, OwnOf
  <2> QED  BY <1>3, <2>1
          DEF Current, HasRead, StillSo, Early, Reading, Late, Comparing, OwnOf, Parse, ModulesOf
<1> QED  BY <1>3, <1>4, StepKept DEF BuildManifest

LEMMA LoadCompletedKept == ASSUME Inv, NEW c \in Commands, LoadCompleted(c) PROVE Inv'
<1>1. ASSUME ~raced
      PROVE  /\ command[c].wants \in (SUBSET Modules) \cup {None}
             /\ command[c].wants = None \/ command[c].wants \subseteq ModulesOf(command[c].scope)
             /\ command[c].catalog = OwnOf(command[c])
             /\ command[c].manifest.binary = file["binary"]
      BY <1>1
      DEF LoadCompleted, Inv, CurrentInv, Current, HasRead, StillSo,
          Early, Reading, Late, Comparing
<1>2. CASE Found(c, <<"comparison", command[c].manifest>>, command[c].manifest)
  <2>1. Sets(c, [at |-> "report",
                comparison |-> entries[<<"comparison", command[c].manifest>>].value])
        BY <1>2, DoFacts DEF Inv, LoadCompleted
  <2>2. /\ CommandsInv' /\ UNCHANGED <<file, raced>>
        /\ \A d \in Commands \ {c} : command'[d] = command[d]
        /\ command'[c].at = "report"
        /\ command'[c].comparison = entries[<<"comparison", command[c].manifest>>].value
        /\ \A f \in Fields \ {"at", "comparison"} : command'[c][f] = command[c][f]
        BY <2>1 DEF Sets, Fields
  <2>3. ASSUME ~raced PROVE Current(command[c])'
    <3>1. /\ command[c].wants \in (SUBSET Modules) \cup {None}
          /\ command[c].wants = None \/ command[c].wants \subseteq ModulesOf(command[c].scope)
          /\ command[c].catalog = OwnOf(command[c])
          /\ command[c].manifest.binary = file["binary"]
          /\ entries[<<"comparison", command[c].manifest>>].value.manifest = command[c].manifest
          /\ entries[<<"comparison", command[c].manifest>>].value.binary =
               command[c].manifest.binary
      <4>1. /\ Truthful(<<"comparison", command[c].manifest>>,
                        entries[<<"comparison", command[c].manifest>>])
            /\ entries[<<"comparison", command[c].manifest>>].key = command[c].manifest
            BY <2>3, <1>2, FoundFacts
      <4>2. <<"comparison", command[c].manifest>>[1] = "comparison"
            OBVIOUS
      <4>3. /\ entries[<<"comparison", command[c].manifest>>].value.manifest
                  = command[c].manifest
            /\ entries[<<"comparison", command[c].manifest>>].value.binary
                  = command[c].manifest.binary
            BY <4>1, <4>2 DEF Truthful
      <4> QED  BY <2>3, <1>1, <4>3
    <3>2. /\ command'[c].wants \in (SUBSET Modules) \cup {None}
          /\ command'[c].wants = None \/ command'[c].wants \subseteq ModulesOf(command'[c].scope)
          /\ command'[c].catalog = OwnOf(command'[c])
          /\ command'[c].manifest.binary = file["binary"]
          /\ command'[c].comparison.manifest = command'[c].manifest
          /\ command'[c].comparison.binary = command'[c].manifest.binary
          BY <2>2, <3>1 DEF Fields, OwnOf
    <3> QED  BY <2>2, <3>2
            DEF Current, HasRead, StillSo, Early, Reading, Late, Comparing, OwnOf, Parse, ModulesOf
  <2>4. UNCHANGED entries
        BY <1>2 DEF Inv, LoadCompleted
  <2> QED  BY <2>2, <2>3, <2>4, StepKept
<1>3. CASE ~Found(c, <<"comparison", command[c].manifest>>, command[c].manifest)
  <2>1. Sets(c, [at |-> "run engine"])
        BY <1>3, DoFacts DEF Inv, LoadCompleted
  <2>2. /\ CommandsInv' /\ UNCHANGED <<file, raced>>
        /\ \A d \in Commands \ {c} : command'[d] = command[d]
        /\ command'[c].at = "run engine"
        /\ \A f \in Fields \ {"at"} : command'[c][f] = command[c][f]
        BY <2>1 DEF Sets, Fields
  <2>3. ASSUME ~raced PROVE Current(command[c])'
    <3>1. /\ command[c].wants \in (SUBSET Modules) \cup {None}
          /\ command[c].wants = None \/ command[c].wants \subseteq ModulesOf(command[c].scope)
          /\ command[c].catalog = OwnOf(command[c])
          /\ command[c].manifest.binary = file["binary"]
          BY <2>3, <1>1, <1>3
    <3>2. /\ command'[c].wants \in (SUBSET Modules) \cup {None}
          /\ command'[c].wants = None \/ command'[c].wants \subseteq ModulesOf(command'[c].scope)
          /\ command'[c].catalog = OwnOf(command'[c])
          /\ command'[c].manifest.binary = file["binary"]
          BY <2>2, <3>1 DEF Fields, OwnOf
    <3> QED  BY <2>2, <3>2
            DEF Current, HasRead, StillSo, Early, Reading, Late, Comparing, OwnOf, Parse, ModulesOf
  <2>4. UNCHANGED entries
        BY <1>3 DEF Inv, LoadCompleted
  <2> QED  BY <2>2, <2>3, <2>4, StepKept
<1> QED  BY <1>2, <1>3

LEMMA RunEngineKept == ASSUME Inv, NEW c \in Commands, RunEngine(c) PROVE Inv'
<1>1. ASSUME ~raced
      PROVE  /\ command[c].wants \in (SUBSET Modules) \cup {None}
             /\ command[c].wants = None \/ command[c].wants \subseteq ModulesOf(command[c].scope)
             /\ command[c].catalog = OwnOf(command[c])
             /\ command[c].manifest.binary = file["binary"]
      BY <1>1
      DEF RunEngine, Inv, CurrentInv, Current, HasRead, StillSo,
          Early, Reading, Late, Comparing
<1>2. PICK failed \in BOOLEAN :
         /\ Do(c, [at |-> "report", comparison |-> Comparison(c, failed)])
         /\ IF failed
              THEN UNCHANGED entries
              ELSE Store(c, <<"comparison", command[c].manifest>>, command[c].manifest,
                         Comparison(c, failed))
      BY DEF RunEngine
<1>3. Sets(c, [at |-> "report", comparison |-> Comparison(c, failed)])
      BY <1>2, DoFacts DEF Inv
<1>4. /\ CommandsInv' /\ UNCHANGED <<file, raced>>
      /\ \A d \in Commands \ {c} : command'[d] = command[d]
      /\ command'[c].at = "report"
      /\ command'[c].comparison = Comparison(c, failed)
      /\ \A f \in Fields \ {"at", "comparison"} : command'[c][f] = command[c][f]
      BY <1>3 DEF Sets, Fields
<1>5. ASSUME ~raced PROVE Current(command[c])'
  <2>1. /\ command'[c].wants \in (SUBSET Modules) \cup {None}
        /\ command'[c].wants = None \/ command'[c].wants \subseteq ModulesOf(command'[c].scope)
        /\ command'[c].catalog = OwnOf(command'[c])
        /\ command'[c].manifest.binary = file["binary"]
        /\ command'[c].comparison.manifest = command'[c].manifest
        /\ command'[c].comparison.binary = command'[c].manifest.binary
        BY <1>1, <1>4, <1>5 DEF Fields, OwnOf, Comparison
  <2> QED  BY <1>4, <2>1
          DEF Current, HasRead, StillSo, Early, Reading, Late, Comparing, OwnOf, Parse, ModulesOf
<1>6. CASE failed
      BY <1>2, <1>4, <1>5, <1>6, StepKept
<1>7. CASE ~failed
  <2>1. Store(c, <<"comparison", command[c].manifest>>, command[c].manifest, Comparison(c, failed))
        BY <1>2, <1>7
  <2>2. ~raced => Truthful(<<"comparison", command[c].manifest>>,
                           [key |-> command[c].manifest, value |-> Comparison(c, failed)])
        BY <1>1 DEF Truthful, Comparison
  <2>3. ~Comparison(c, failed).failed
        BY <1>7 DEF Comparison
  <2> QED  BY <1>4, <1>5, <2>1, <2>2, <2>3, StoreKept
<1> QED  BY <1>6, <1>7

-------------------------------------------------------------------------------
(* The invariant *)

LEMMA EndKept == ASSUME Inv, NEW c \in Commands, End(c) PROVE Inv'
<1>1. /\ command' = [command EXCEPT ![c] = Idle] /\ UNCHANGED <<file, raced, entries>>
      BY DEF End
<1>2. /\ CommandsInv' /\ command'[c] = Idle
      /\ \A d \in Commands \ {c} : command'[d] = command[d]
      BY <1>1 DEF Inv, CommandsInv
<1>3. Current(command[c])'
      BY <1>2 DEF Idle, Current, HasRead, StillSo, Early, Reading, Late, Comparing
<1> QED  BY <1>1, <1>2, <1>3, StepKept

LEMMA ChangeKept == ASSUME Inv, Change PROVE Inv'
<1>1. PICK f \in Inputs :
         /\ \E v : file' = [file EXCEPT ![f] = v]
         /\ raced' = (raced \/ \E c \in Commands : command[c].at \in CountsOn(f))
      BY DEF Change
<1>2. UNCHANGED <<entries, command>>
      BY DEF Change
<1>3. FileInv' /\ \A g \in Inputs \ {f} : file'[g] = file[g]
      BY <1>1 DEF Inv, FileInv
<1>4. TruthInv' /\ KeptInv' /\ CommandsInv'
      BY <1>1, <1>2 DEF Inv, TruthInv, KeptInv, CommandsInv, Truthful
<1>5. CurrentInv'
  <2> SUFFICES ASSUME ~raced', NEW c \in Commands PROVE Current(command[c])'
      BY DEF CurrentInv
  <2>1. /\ HasRead(command[c]) /\ StillSo(command[c], file["pdb"], file["binary"])
        /\ command'[c] = command[c]
        /\ command[c].at \notin CountsOn(f)
        BY <1>1, <1>2 DEF Inv, CurrentInv, Current
  <2>2. HasRead(command'[c])
        BY <2>1
  <2>3. CASE f = "pdb"
    <3>1. file'["binary"] = file["binary"] /\ command[c].at \notin Reading
          BY <1>3, <2>1, <2>3 DEF CountsOn, Reading, Inputs
    <3>2. StillSo(command[c], file'["pdb"], file'["binary"])
          BY <2>1, <3>1 DEF StillSo
    <3> QED  BY <2>1, <2>2, <3>2 DEF Current
  <2>4. CASE f = "binary"
    <3>1. /\ file'["pdb"] = file["pdb"]
          /\ command[c].at \notin {"markers", "pdb", "key", "completed", "run engine"} \cup Reading
          BY <1>3, <2>1, <2>4 DEF CountsOn, Reading, Inputs
    <3>2. StillSo(command[c], file'["pdb"], file'["binary"])
          BY <2>1, <3>1 DEF StillSo
    <3> QED  BY <2>1, <2>2, <3>2 DEF Current
  <2>5. CASE f \notin {"pdb", "binary"}
    <3>1. file'["pdb"] = file["pdb"] /\ file'["binary"] = file["binary"]
          BY <1>3, <2>5 DEF Inputs
    <3> QED  BY <2>1, <2>2, <3>1 DEF Current
  <2> QED  BY <2>3, <2>4, <2>5
<1> QED  BY <1>3, <1>4, <1>5 DEF Inv

LEMMA InitInv == Init => Inv
<1> SUFFICES ASSUME Init PROVE Inv
    OBVIOUS
<1>1. CurrentInv
      BY DEF Init, Idle, CurrentInv, Current, HasRead, StillSo, Early, Reading, Late, Comparing
<1>2. TruthInv /\ KeptInv /\ CommandsInv /\ FileInv
      BY DEF Init, TruthInv, KeptInv, CommandsInv, FileInv
<1> QED  BY <1>1, <1>2 DEF Inv

LEMMA InvKept == CacheAssumption /\ Inv /\ [Next]_vars => Inv'
<1>1. ASSUME Inv, UNCHANGED vars PROVE Inv'
      BY <1>1 DEF Inv, vars, CurrentInv, TruthInv, KeptInv, CommandsInv, FileInv, Current,
                       OwnOf
<1> QED
    BY <1>1, StartKept, ReadBinariesKept, CheckMarkersKept, FingerprintPdbKept, LoadFullKept,
       ParseFullKept, LoadBaseKept, ParseBaseKept, LoadModuleKept, ParseModuleKept,
       ModulesDoneKept, FingerprintInputsKept, LoadPreparedKept, PrepareKept, BuildManifestKept,
       LoadCompletedKept, RunEngineKept, EndKept, ChangeKept
    DEF Next, Step

-------------------------------------------------------------------------------
(* The theorems *)

(* Until an input changes between two looks at it, an entry is what its key *)
(* says, and what a command counts on is what the files hold.               *)
THEOREM Invariance == CacheAssumption => (Spec => []Inv)
<1> SUFFICES ASSUME CacheAssumption PROVE Spec => []Inv
    OBVIOUS
<1>1. Inv /\ [Next]_vars => Inv'
      BY InvKept
<1> QED  BY <1>1, InitInv, PTL DEF Spec

(* AnalysisCache: a command that works from the cache works with what it    *)
(* would have made itself, and no failed comparison is kept.                *)
THEOREM ReuseIsSound == CacheAssumption => (Spec => []ReusedIsOwn)
<1>1. Inv => ReusedIsOwn
  <2> SUFFICES ASSUME Inv, NEW c \in Commands
               PROVE  /\ ~raced /\ command[c].at \in Comparing =>
                            /\ command[c].catalog = Own(c)
                            /\ command[c].wants = None \/ command[c].wants \subseteq
                                   DOMAIN command[c].catalog.parse.symbols
                      /\ ~raced /\ command[c].at = "report" =>
                            /\ command[c].comparison.manifest = command[c].manifest
                            /\ command[c].comparison.binary = command[c].manifest.binary
      BY DEF ReusedIsOwn, Comparing, Inv, KeptInv
  <2>1. ASSUME ~raced, command[c].at \in Comparing
        PROVE  /\ command[c].catalog = OwnOf(command[c])
               /\ command[c].wants = None \/ command[c].wants \subseteq ModulesOf(command[c].scope)
        BY <2>1 DEF Inv, CurrentInv, Current, HasRead
  <2>2. OwnOf(command[c]) = Own(c)
        BY DEF OwnOf, Own, Parse, ModulesOf
  <2>3. DOMAIN OwnOf(command[c]).parse.symbols = ModulesOf(command[c].scope)
        BY DEF OwnOf, Parse
  <2>4. ASSUME ~raced, command[c].at = "report"
        PROVE  /\ command[c].comparison.manifest = command[c].manifest
               /\ command[c].comparison.binary = command[c].manifest.binary
        BY <2>4 DEF Inv, CurrentInv, Current, HasRead
  <2> QED  BY <2>1, <2>2, <2>3, <2>4
<1> QED  BY Invariance, <1>1, PTL
===============================================================================
