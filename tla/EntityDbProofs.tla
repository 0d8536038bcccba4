---------------------------- MODULE EntityDbProofs ----------------------------
(***************************************************************************)
(* Proofs about the entity catalog, for every set of addresses and bases   *)
(* and every bound.  The inductive invariant is the conjunction of the     *)
(* type invariant, OneToOne, CopiesAgree and AliasesNamePairs: an alias is *)
(* made through the joined view (CopiesAgree says it is the match map),    *)
(* and stays good because pairs are never undone.                          *)
(***************************************************************************)
EXTENDS BatchCommit, WellFoundedInduction, TLAPS

(* Pairs that can be installed: unpaired on both sides and disjoint. *)
Installable(ps) ==
    /\ ps \in SUBSET Pair
    /\ \A p \in ps : Fresh(p)
    /\ \A p, q \in ps : Collide(p, q) => p = q

(* A duplicate-free selection of a staged list is disjoint: of two          *)
(* colliding pairs the later one would not have been kept.                  *)
LEMMA KeptIsInstallable ==
    ASSUME NEW list \in Seq(Pair), NEW K \in SUBSET DOMAIN list, KeepsFirst(list, K)
    PROVE Installable({list[i] : i \in {k \in K : Fresh(list[k])}})
<1> DEFINE ps == {list[i] : i \in {k \in K : Fresh(list[k])}}
<1>1. ps \in SUBSET Pair
    OBVIOUS
<1>2. \A p \in ps : Fresh(p)
    OBVIOUS
<1>3. ASSUME NEW p \in ps, NEW q \in ps, Collide(p, q)
      PROVE p = q
    <2>1. PICK i \in K : p = list[i]
        OBVIOUS
    <2>2. PICK j \in K : q = list[j]
        OBVIOUS
    <2>3. i \in Nat /\ j \in Nat
        OBVIOUS
    <2>4. ~(i < j)
        BY <1>3, <2>1, <2>2 DEF KeepsFirst, Collide
    <2>5. ~(j < i)
        BY <1>3, <2>1, <2>2 DEF KeepsFirst
    <2> QED
        BY <2>1, <2>2, <2>3, <2>4, <2>5
<1> QED
    BY <1>1, <1>2, <1>3 DEF Installable

LEMMA AcceptedIsInstallable ==
    ASSUME NEW list \in Seq(Pair), NEW K \in SUBSET DOMAIN list, Accepts(list, K)
    PROVE Installable({list[i] : i \in K})
<1> DEFINE ps == {list[i] : i \in K}
<1>1. ps \in SUBSET Pair
    OBVIOUS
<1>2. \A p \in ps : Fresh(p)
    BY DEF Accepts
<1>3. ASSUME NEW p \in ps, NEW q \in ps, Collide(p, q)
      PROVE p = q
    <2>1. PICK i \in K : p = list[i]
        OBVIOUS
    <2>2. PICK j \in K : q = list[j]
        OBVIOUS
    <2>3. i \in Nat /\ j \in Nat
        OBVIOUS
    <2>4. ~(i < j)
        BY <1>3, <2>1, <2>2 DEF Accepts, Collide
    <2>5. ~(j < i)
        BY <1>3, <2>1, <2>2 DEF Accepts
    <2> QED
        BY <2>1, <2>2, <2>3, <2>4, <2>5
<1> QED
    BY <1>1, <1>2, <1>3 DEF Installable

(* The lists a caller may pass are sequences of pairs. *)
LEMMA PairListsAreSeqs ==
    ASSUME NEW b, NEW list \in PairLists(b)
    PROVE list \in Seq(Pair)
<1>1. PICK n \in 1 .. MaxStaged : list \in [1 .. n -> {p \in Pair : p.basis = b}]
    BY DEF PairLists
<1>2. n \in Nat
    BY CatalogAssumption
<1> QED
    BY <1>1, <1>2

(* What PairUp leaves in a map: the far ends of the installed pairs where    *)
(* they end, and the old value everywhere else.                             *)
LEMMA PairUpValues ==
    ASSUME NEW ps, Installable(ps),
           NEW map \in [Sides -> [Addrs -> Addrs \cup {None}]]
    PROVE /\ PairUp(map, ps) \in [Sides -> [Addrs -> Addrs \cup {None}]]
          /\ \A s \in Sides : \A p \in ps : PairUp(map, ps)[s][End(p, s)] = Far(p, s)
          /\ \A s \in Sides : \A a \in Addrs \ Ends(ps, s) :
                PairUp(map, ps)[s][a] = map[s][a]
<1>1. ASSUME NEW s \in Sides, NEW p \in ps
      PROVE /\ End(p, s) \in Addrs
            /\ Far(p, s) \in Addrs
            /\ End(p, s) \in Ends(ps, s)
            /\ PairUp(map, ps)[s][End(p, s)] = Far(p, s)
    <2>1. End(p, s) \in Addrs /\ Far(p, s) \in Addrs /\ End(p, s) \in Ends(ps, s)
        BY DEF Installable, Pair, End, Far, Ends
    <2>2. \A q \in ps : End(q, s) = End(p, s) => q = p
        BY DEF Installable, Collide, End, Sides
    <2>3. (CHOOSE q \in ps : End(q, s) = End(p, s)) = p
        BY <2>2
    <2> QED
        BY <2>1, <2>3 DEF PairUp
<1>2. \A s \in Sides : \A a \in Addrs \ Ends(ps, s) :
         PairUp(map, ps)[s][a] = map[s][a]
    BY DEF PairUp
<1>3. PairUp(map, ps) \in [Sides -> [Addrs -> Addrs \cup {None}]]
    <2>1. ASSUME NEW s \in Sides, NEW a \in Addrs
          PROVE PairUp(map, ps)[s][a] \in Addrs \cup {None}
        <3>1. CASE a \in Ends(ps, s)
            <4>1. PICK p \in ps : a = End(p, s)
                BY <3>1 DEF Ends
            <4> QED
                BY <1>1, <4>1
        <3>2. CASE a \notin Ends(ps, s)
            BY <1>2, <3>2
        <3> QED
            BY <3>1, <3>2
    <2> DEFINE row(s) == [a \in Addrs |->
                   IF a \in Ends(ps, s)
                   THEN Far(CHOOSE p \in ps : End(p, s) = a, s)
                   ELSE map[s][a]]
    <2>2. PairUp(map, ps) = [s \in Sides |-> row(s)]
        BY DEF PairUp
    <2>3. \A s \in Sides : PairUp(map, ps)[s] = row(s)
        BY <2>2
    <2>4. \A s \in Sides : row(s) \in [Addrs -> Addrs \cup {None}]
        BY <2>1, <2>3
    <2> QED
        BY <2>2, <2>4
<1> QED
    BY <1>1, <1>2, <1>3

-------------------------------------------------------------------------------
(* The inductive invariant *)

Inv == TypeOK /\ OneToOne /\ CopiesAgree /\ AliasesNamePairs

(* The part of a step that installs pairs, in bulk_match or in a commit:    *)
(* the rows of the batch may catalogue further addresses.                   *)
InstallStep(ps, more) ==
    /\ Installable(ps)
    /\ present' = [s \in Sides |-> present[s] \cup more[s] \cup Ends(ps, s)]
    /\ indexed' = [s \in Sides |-> indexed[s] \cup more[s] \cup Ends(ps, s)]
    /\ Install(ps)

LEMMA InstallTypes ==
    ASSUME TypeOK, NEW ps, NEW more \in [Sides -> SUBSET Addrs], InstallStep(ps, more)
    PROVE /\ present' \in [Sides -> SUBSET Addrs]
          /\ indexed' \in [Sides -> SUBSET Addrs]
          /\ matches' \in [Sides -> [Addrs -> Addrs \cup {None}]]
          /\ link' \in [Sides -> [Addrs -> Addrs \cup {None}]]
          /\ basis' \in [Addrs -> Bases \cup {None}]
          /\ aliases' \in [Sides -> [Addrs -> Addrs \cup {None}]]
<1>1. Installable(ps)
    BY DEF InstallStep
<1>2. \A s \in Sides : Ends(ps, s) \subseteq Addrs
    BY <1>1 DEF Installable, Ends, End, Pair
<1>3. present' \in [Sides -> SUBSET Addrs] /\ indexed' \in [Sides -> SUBSET Addrs]
    BY <1>2 DEF InstallStep, TypeOK
<1>4. matches' \in [Sides -> [Addrs -> Addrs \cup {None}]]
    BY <1>1, PairUpValues DEF InstallStep, Install, TypeOK
<1>5. link' \in [Sides -> [Addrs -> Addrs \cup {None}]]
    BY <1>1, PairUpValues DEF InstallStep, Install, Views, TypeOK
<1>6. basis' \in [Addrs -> Bases \cup {None}]
    <2>1. ASSUME NEW a \in Addrs, a \in Ends(ps, "orig")
          PROVE (CHOOSE p \in ps : p.orig = a).basis \in Bases
        <3>1. PICK p \in ps : p.orig = a
            BY <2>1 DEF Ends, End
        <3>2. (CHOOSE q \in ps : q.orig = a) \in ps
            BY <3>1
        <3> QED
            BY <1>1, <3>2 DEF Installable, Pair
    <2> QED
        BY <2>1 DEF InstallStep, Install, TypeOK
<1>7. aliases' \in [Sides -> [Addrs -> Addrs \cup {None}]]
    BY DEF InstallStep, Install, AliasesLeft, TypeOK
<1> QED
    BY <1>3, <1>4, <1>5, <1>6, <1>7

(* A paired address keeps its partner, an installed pair is recorded in both *)
(* maps, and no other address is touched.                                   *)
LEMMA InstallMatches ==
    ASSUME Inv, NEW ps, NEW more \in [Sides -> SUBSET Addrs], InstallStep(ps, more)
    PROVE /\ \A s \in Sides : \A p \in ps : matches'[s][End(p, s)] = Far(p, s)
          /\ \A s \in Sides : \A a \in Addrs \ Ends(ps, s) :
                matches'[s][a] = matches[s][a]
          /\ \A s \in Sides : \A a \in Ends(ps, s) : matches[s][a] = None
          /\ \A s \in Sides : \A a \in Ends(ps, s) : matches'[s][a] # None
          /\ link' = matches'
<1>1. Installable(ps)
    BY DEF InstallStep
<1>2. /\ \A s \in Sides : \A p \in ps : matches'[s][End(p, s)] = Far(p, s)
      /\ \A s \in Sides : \A a \in Addrs \ Ends(ps, s) :
            matches'[s][a] = matches[s][a]
    BY <1>1, PairUpValues DEF InstallStep, Install, Inv, TypeOK
<1>3. \A s \in Sides : \A a \in Ends(ps, s) : matches[s][a] = None
    BY <1>1 DEF Installable, Fresh, Ends, End, Sides
<1>4. \A s \in Sides : \A a \in Ends(ps, s) : matches'[s][a] # None
    <2>1. \A s \in Sides : \A p \in ps : Far(p, s) \in Addrs
        BY <1>1 DEF Installable, Pair, Far
    <2> QED
        BY <1>2, <2>1, CatalogAssumption DEF Ends
<1>5. link = matches
    <2>1. \A s \in Sides : link[s] = matches[s]
        BY DEF Inv, CopiesAgree, TypeOK
    <2> QED
        BY <2>1 DEF Inv, TypeOK
<1>6. link' = matches'
    BY <1>5 DEF InstallStep, Install, Views
<1> QED
    BY <1>2, <1>3, <1>4, <1>6

LEMMA InstallOneToOne ==
    ASSUME Inv, NEW ps, NEW more \in [Sides -> SUBSET Addrs], InstallStep(ps, more)
    PROVE OneToOne'
<1> SUFFICES ASSUME NEW x \in Addrs, NEW y \in Addrs
             PROVE matches'["orig"][x] = y <=> matches'["recomp"][y] = x
    BY DEF OneToOne
<1>1. Installable(ps)
    BY DEF InstallStep
<1>2. "orig" \in Sides /\ "recomp" \in Sides
    BY DEF Sides
<1>3. matches["orig"][x] = y <=> matches["recomp"][y] = x
    BY DEF Inv, OneToOne
<1>4. CASE x \in Ends(ps, "orig")
    <2>1. PICK p \in ps : p.orig = x
        BY <1>4 DEF Ends, End
    <2>2. matches'["orig"][x] = p.recomp
        BY <1>2, <2>1, InstallMatches DEF End, Far
    <2>3. matches'["recomp"][p.recomp] = x
        BY <1>2, <2>1, InstallMatches DEF End, Far
    <2>4. ASSUME matches'["recomp"][y] = x
          PROVE y = p.recomp
        <3>1. CASE y \in Ends(ps, "recomp")
            <4>1. PICK q \in ps : q.recomp = y
                BY <3>1 DEF Ends, End
            <4>2. matches'["recomp"][y] = q.orig
                BY <1>2, <4>1, InstallMatches DEF End, Far
            <4>3. q = p
                BY <1>1, <2>1, <2>4, <4>2 DEF Installable, Collide
            <4> QED
                BY <4>1, <4>3
        <3>2. CASE y \notin Ends(ps, "recomp")
            <4>1. matches["recomp"][y] = x
                BY <1>2, <2>4, <3>2, InstallMatches
            <4>2. matches["orig"][x] = y
                BY <4>1, <1>3
            <4>3. matches["orig"][x] = None
                BY <1>2, <1>4, InstallMatches
            <4> QED
                BY <4>2, <4>3, CatalogAssumption
        <3> QED
            BY <3>1, <3>2
    <2> QED
        BY <2>2, <2>3, <2>4
<1>5. CASE x \notin Ends(ps, "orig")
    <2>1. matches'["orig"][x] = matches["orig"][x]
        BY <1>2, <1>5, InstallMatches
    <2>2. CASE y \in Ends(ps, "recomp")
        <3>1. PICK p \in ps : p.recomp = y
            BY <2>2 DEF Ends, End
        <3>2. matches'["recomp"][y] = p.orig
            BY <1>2, <3>1, InstallMatches DEF End, Far
        <3>3. p.orig # x
            BY <1>5 DEF Ends, End
        <3>4. matches["recomp"][y] = None
            BY <1>2, <2>2, InstallMatches
        <3> QED
            BY <1>3, <2>1, <3>2, <3>3, <3>4, CatalogAssumption
    <2>3. CASE y \notin Ends(ps, "recomp")
        BY <1>2, <1>3, <2>1, <2>3, InstallMatches
    <2> QED
        BY <2>2, <2>3
<1> QED
    BY <1>4, <1>5

LEMMA InstallCopies ==
    ASSUME Inv, NEW ps, NEW more \in [Sides -> SUBSET Addrs], InstallStep(ps, more)
    PROVE CopiesAgree'
<1>1. Installable(ps) /\ "orig" \in Sides
    BY DEF InstallStep, Sides
<1>2. link' = matches'
    BY InstallMatches
<1>3. indexed' = present'
    BY DEF InstallStep, Inv, CopiesAgree
<1>4. ASSUME NEW a \in Addrs
      PROVE basis'[a] # None <=> matches'["orig"][a] # None
    <2>1. CASE a \in Ends(ps, "orig")
        <3>1. PICK p \in ps : p.orig = a
            BY <2>1 DEF Ends, End
        <3>2. (CHOOSE q \in ps : q.orig = a).basis \in Bases
            BY <1>1, <3>1 DEF Installable, Pair
        <3>3. basis'[a] # None
            BY <2>1, <3>2, CatalogAssumption DEF InstallStep, Install
        <3>4. matches'["orig"][a] # None
            BY <1>1, <2>1, InstallMatches
        <3> QED
            BY <3>3, <3>4
    <2>2. CASE a \notin Ends(ps, "orig")
        <3>1. basis'[a] = basis[a]
            BY <2>2 DEF InstallStep, Install
        <3>2. matches'["orig"][a] = matches["orig"][a]
            BY <1>1, <2>2, InstallMatches
        <3> QED
            BY <3>1, <3>2 DEF Inv, CopiesAgree
    <2> QED
        BY <2>1, <2>2
<1>5. ASSUME NEW s \in Sides, NEW a \in Addrs, matches'[s][a] # None
      PROVE a \in present'[s]
    <2>1. CASE a \in Ends(ps, s)
        BY <2>1 DEF InstallStep
    <2>2. CASE a \notin Ends(ps, s)
        <3>1. matches[s][a] # None
            BY <1>5, <2>2, InstallMatches
        <3>2. a \in present[s]
            BY <3>1 DEF Inv, CopiesAgree
        <3> QED
            BY <3>2 DEF InstallStep
    <2> QED
        BY <2>1, <2>2
<1> QED
    BY <1>2, <1>3, <1>4, <1>5 DEF CopiesAgree

(* Installing pairs keeps every alias good: those of newly paired addresses *)
(* are dropped, and the pairs the others name stay.                         *)
LEMMA InstallAliases ==
    ASSUME Inv, NEW ps, NEW more \in [Sides -> SUBSET Addrs], InstallStep(ps, more)
    PROVE AliasesNamePairs'
<1> SUFFICES ASSUME NEW s \in Sides, NEW a \in Addrs, aliases'[s][a] # None
             PROVE /\ a \in present'[s]
                   /\ matches'[s][a] = None
                   /\ matches'["orig"][aliases'[s][a]] # None
    BY DEF AliasesNamePairs
<1> DEFINE c == aliases[s][a]
<1>1. "orig" \in Sides
    BY DEF Sides
<1>2. a \notin Ends(ps, s) /\ aliases'[s][a] = c
    BY DEF InstallStep, Install, AliasesLeft
<1>3. /\ a \in present[s]
      /\ matches[s][a] = None
      /\ c \in Addrs
      /\ matches["orig"][c] # None
    BY <1>2 DEF Inv, TypeOK, AliasesNamePairs
<1>4. c \notin Ends(ps, "orig")
    BY <1>1, <1>3, InstallMatches
<1>5. matches'["orig"][c] = matches["orig"][c]
    BY <1>1, <1>3, <1>4, InstallMatches
<1>6. matches'[s][a] = None
    BY <1>2, <1>3, InstallMatches
<1>7. a \in present'[s]
    BY <1>3 DEF InstallStep
<1> QED
    BY <1>2, <1>3, <1>5, <1>6, <1>7

LEMMA CommitInstalls ==
    ASSUME TypeOK, Commit
    PROVE \E ps : InstallStep(ps, rows)
<1>1. PICK K \in SUBSET DOMAIN staged :
         /\ KeepsFirst(staged, K)
         /\ LET ps == {staged[i] : i \in {k \in K : Fresh(staged[k])}} IN
            /\ present' = [s \in Sides |-> present[s] \cup rows[s] \cup Ends(ps, s)]
            /\ indexed' = [s \in Sides |-> indexed[s] \cup rows[s] \cup Ends(ps, s)]
            /\ Install(ps)
    BY DEF Commit
<1> DEFINE ps == {staged[i] : i \in {k \in K : Fresh(staged[k])}}
<1>2. Installable(ps)
    BY <1>1, KeptIsInstallable DEF TypeOK
<1>3. InstallStep(ps, rows)
    BY <1>1, <1>2 DEF InstallStep
<1> QED
    BY <1>3

NoRows == [s \in Sides |-> {}]

LEMMA BulkMatchInstalls ==
    ASSUME TypeOK, NEW b, NEW list \in PairLists(b), BulkMatch(list)
    PROVE \E ps : InstallStep(ps, NoRows)
<1>1. PICK K \in SUBSET DOMAIN list :
         /\ Accepts(list, K)
         /\ LET ps == {list[i] : i \in K} IN
            /\ present' = [s \in Sides |-> present[s] \cup Ends(ps, s)]
            /\ indexed' = [s \in Sides |-> indexed[s] \cup Ends(ps, s)]
            /\ Install(ps)
    BY DEF BulkMatch
<1> DEFINE ps == {list[i] : i \in K}
<1>2. Installable(ps)
    BY <1>1, PairListsAreSeqs, AcceptedIsInstallable
<1>3. \A s \in Sides : NoRows[s] = {}
    BY DEF NoRows
<1>4. InstallStep(ps, NoRows)
    BY <1>1, <1>2, <1>3 DEF InstallStep
<1> QED
    BY <1>4

LEMMA InstallKeepsInv ==
    ASSUME Inv, NEW ps, NEW more \in [Sides -> SUBSET Addrs], InstallStep(ps, more),
           frozen' \in BOOLEAN, open' \in BOOLEAN,
           rows' \in [Sides -> SUBSET Addrs], staged' \in Seq(Pair)
    PROVE Inv'
<1>1. TypeOK'
    BY InstallTypes DEF Inv, TypeOK
<1> QED
    BY <1>1, InstallOneToOne, InstallCopies, InstallAliases DEF Inv

-------------------------------------------------------------------------------
(* The steps that leave the catalog alone, or only an alias. *)

LEMMA BatchStepsKeepInv ==
    ASSUME Inv, UNCHANGED catalog, open' \in BOOLEAN,
           rows' \in [Sides -> SUBSET Addrs], staged' \in Seq(Pair)
    PROVE Inv'
BY DEF Inv, TypeOK, OneToOne, CopiesAgree, AliasesNamePairs, catalog, pairVars

LEMMA SetAliasKeepsInv ==
    ASSUME Inv, NEW s \in Sides, NEW a \in Addrs, NEW c \in Addrs, SetAlias(s, a, c)
    PROVE Inv'
<1>1. TypeOK'
    BY DEF Inv, TypeOK, SetAlias, batch
<1>2. OneToOne' /\ CopiesAgree'
    BY DEF Inv, OneToOne, CopiesAgree, SetAlias
<1>3. "orig" \in Sides
    BY DEF Sides
<1>4. matches["orig"][c] # None
    BY <1>3 DEF SetAlias, RealPair, Inv, CopiesAgree
<1>5. AliasesNamePairs'
    <2> SUFFICES ASSUME NEW t \in Sides, NEW d \in Addrs, aliases'[t][d] # None
                 PROVE /\ d \in present[t]
                       /\ matches[t][d] = None
                       /\ matches["orig"][aliases'[t][d]] # None
        BY DEF AliasesNamePairs, SetAlias
    <2>1. CASE t = s /\ d = a
        BY <1>4, <2>1 DEF SetAlias, Inv, TypeOK
    <2>2. CASE ~(t = s /\ d = a)
        <3>1. aliases'[t][d] = aliases[t][d]
            BY <2>2 DEF SetAlias, Inv, TypeOK
        <3> QED
            BY <3>1 DEF Inv, AliasesNamePairs
    <2> QED
        BY <2>1, <2>2
<1> QED
    BY <1>1, <1>2, <1>5 DEF Inv

LEMMA CloseBatchTypes ==
    ASSUME CloseBatch
    PROVE open' \in BOOLEAN /\ rows' \in [Sides -> SUBSET Addrs] /\ staged' \in Seq(Pair)
<1>1. open' \in BOOLEAN /\ rows' \in [Sides -> SUBSET Addrs]
    BY DEF CloseBatch
<1>2. staged' \in Seq(Pair)
    BY DEF CloseBatch
<1> QED
    BY <1>1, <1>2

LEMMA InitInv == Init => Inv
<1> SUFFICES ASSUME Init PROVE Inv
    OBVIOUS
<1>1. TypeOK
    <2>1. staged \in Seq(Pair)
        BY DEF Init
    <2> QED
        BY <2>1 DEF Init, TypeOK
<1>2. OneToOne /\ CopiesAgree /\ AliasesNamePairs
    BY CatalogAssumption DEF Init, OneToOne, CopiesAgree, AliasesNamePairs, Sides
<1> QED
    BY <1>1, <1>2 DEF Inv

LEMMA StepKeepsInv == Inv /\ [Next]_vars => Inv'
<1> SUFFICES ASSUME Inv, [Next]_vars
             PROVE Inv'
    OBVIOUS
<1>1. CASE OpenBatch
    BY <1>1, BatchStepsKeepInv DEF OpenBatch, Inv, TypeOK
<1>2. ASSUME NEW s \in Sides, NEW a \in Addrs, BatchSet(s, a)
      PROVE Inv'
    BY <1>2, BatchStepsKeepInv DEF BatchSet, Inv, TypeOK
<1>3. ASSUME NEW p \in Pair, BatchMatch(p)
      PROVE Inv'
    BY <1>3, BatchStepsKeepInv DEF BatchMatch, Inv, TypeOK
<1>4. CASE Commit
    <2>1. PICK ps : InstallStep(ps, rows)
        BY <1>4, CommitInstalls DEF Inv
    <2>2. /\ frozen' \in BOOLEAN /\ open' \in BOOLEAN
          /\ rows' \in [Sides -> SUBSET Addrs] /\ staged' \in Seq(Pair)
        <3>1. CloseBatch /\ frozen' = frozen
            BY <1>4 DEF Commit
        <3> QED
            BY <3>1, CloseBatchTypes DEF Inv, TypeOK
    <2> QED
        BY <2>1, <2>2, InstallKeepsInv DEF Inv, TypeOK
<1>5. CASE Abort
    <2>1. CloseBatch /\ UNCHANGED catalog
        BY <1>5 DEF Abort
    <2> QED
        BY <2>1, CloseBatchTypes, BatchStepsKeepInv
<1>6. ASSUME NEW b \in Bases, NEW list \in PairLists(b), BulkMatch(list)
      PROVE Inv'
    <2>1. PICK ps : InstallStep(ps, NoRows)
        BY <1>6, BulkMatchInstalls DEF Inv
    <2>2. NoRows \in [Sides -> SUBSET Addrs]
        BY DEF NoRows
    <2>3. /\ frozen' \in BOOLEAN /\ open' \in BOOLEAN
          /\ rows' \in [Sides -> SUBSET Addrs] /\ staged' \in Seq(Pair)
        BY <1>6 DEF BulkMatch, batch, Inv, TypeOK
    <2> QED
        BY <2>1, <2>2, <2>3, InstallKeepsInv
<1>7. ASSUME NEW s \in Sides, NEW a \in Addrs, NEW c \in Addrs, SetAlias(s, a, c)
      PROVE Inv'
    BY <1>7, SetAliasKeepsInv
<1>8. CASE Freeze
    BY <1>8 DEF Freeze, pairVars, batch, Inv, TypeOK, OneToOne, CopiesAgree,
                AliasesNamePairs
<1>9. CASE UNCHANGED vars
    BY <1>9, BatchStepsKeepInv DEF vars, batch, Inv, TypeOK
<1> QED
    BY <1>1, <1>2, <1>3, <1>4, <1>5, <1>6, <1>7, <1>8, <1>9 DEF Next

THEOREM Invariance == Spec => []Inv
<1>1. Init => Inv
    BY InitInv
<1>2. Inv /\ [Next]_vars => Inv'
    BY StepKeepsInv
<1> QED
    BY <1>1, <1>2, PTL DEF Spec

(* Every reachable catalog has the shape its type invariant says. *)
THEOREM TypeCorrect == Spec => []TypeOK
BY Invariance, PTL DEF Inv

(* No address of either image is ever in two pairs, whatever stages stage   *)
(* and in whatever order their batches commit.                              *)
THEOREM PairsAreOneToOne == Spec => []OneToOne
BY Invariance, PTL DEF Inv

(* The match maps, the joined views, the basis map and the address index    *)
(* tell the same story after every operation.                               *)
THEOREM CopiesAlwaysAgree == Spec => []CopiesAgree
BY Invariance, PTL DEF Inv

(* Every alias names a pair, and no alias is itself paired. *)
THEOREM AliasesStayGood == Spec => []AliasesNamePairs
BY Invariance, PTL DEF Inv

-------------------------------------------------------------------------------
(* What no step may do *)

(* Every step that changes a match map installs pairs. *)
LEMMA StepInstalls ==
    ASSUME Inv, [Next]_vars
    PROVE \/ UNCHANGED <<matches, basis>> /\ UNCHANGED link
          \/ \E more \in [Sides -> SUBSET Addrs] : \E ps : InstallStep(ps, more)
<1>1. CASE Commit
    BY <1>1, CommitInstalls DEF Inv, TypeOK
<1>2. ASSUME NEW b \in Bases, NEW list \in PairLists(b), BulkMatch(list)
      PROVE \E more \in [Sides -> SUBSET Addrs] : \E ps : InstallStep(ps, more)
    <2>1. NoRows \in [Sides -> SUBSET Addrs]
        BY DEF NoRows
    <2> QED
        BY <1>2, <2>1, BulkMatchInstalls DEF Inv
<1>3. ASSUME ~Commit, ~(\E b \in Bases : \E list \in PairLists(b) : BulkMatch(list))
      PROVE UNCHANGED <<matches, basis, link>>
    BY <1>3 DEF Next, vars, catalog, pairVars, batch, OpenBatch, BatchSet, BatchMatch,
                Abort, SetAlias, Freeze
<1> QED
    BY <1>1, <1>2, <1>3

(* Installing pairs takes none back and rewrites no basis. *)
LEMMA InstallKeepsPairs ==
    ASSUME Inv, NEW ps, NEW more \in [Sides -> SUBSET Addrs], InstallStep(ps, more),
           NEW s \in Sides, NEW a \in Addrs, matches[s][a] # None
    PROVE /\ matches'[s][a] = matches[s][a]
          /\ s = "orig" => basis'[a] = basis[a]
<1>1. a \notin Ends(ps, s)
    BY InstallMatches
<1>2. matches'[s][a] = matches[s][a]
    BY <1>1, InstallMatches
<1>3. ASSUME s = "orig" PROVE basis'[a] = basis[a]
    BY <1>1, <1>3 DEF InstallStep, Install
<1> QED
    BY <1>2, <1>3

LEMMA StepKeepsPairs ==
    ASSUME Inv, [Next]_vars, NEW s \in Sides, NEW a \in Addrs, matches[s][a] # None
    PROVE /\ matches'[s][a] = matches[s][a]
          /\ s = "orig" => basis'[a] = basis[a]
BY StepInstalls, InstallKeepsPairs

(* No operation ever takes a pair back, replaces one of its ends or changes  *)
(* the basis it was made on: the earlier stage always has the last word.    *)
THEOREM PairsNeverChange == Spec => PairsAreFinal
<1>1. Inv /\ [Next]_vars =>
        [\A s \in Sides, a \in Addrs : matches[s][a] # None =>
              /\ matches'[s][a] = matches[s][a]
              /\ s = "orig" => basis'[a] = basis[a]]_vars
    BY StepKeepsPairs
<1> QED
    BY <1>1, Invariance, PTL DEF Spec, PairsAreFinal

(* An alias edge is only ever dropped for the sake of its own address. *)
LEMMA StepKeepsAliases ==
    ASSUME Inv, [Next]_vars, NEW s \in Sides, NEW a \in Addrs, aliases[s][a] # None
    PROVE aliases'[s][a] = aliases[s][a] \/ matches'[s][a] # None
<1>1. ASSUME NEW more \in [Sides -> SUBSET Addrs], NEW ps, InstallStep(ps, more)
      PROVE aliases'[s][a] = aliases[s][a] \/ matches'[s][a] # None
    <2>1. CASE a \in Ends(ps, s)
        BY <1>1, <2>1, InstallMatches
    <2>2. CASE a \notin Ends(ps, s)
        BY <1>1, <2>2 DEF InstallStep, Install, AliasesLeft
    <2> QED
        BY <2>1, <2>2
<1>2. CASE Commit
    BY <1>1, <1>2, CommitInstalls DEF Inv, TypeOK
<1>3. ASSUME NEW b \in Bases, NEW list \in PairLists(b), BulkMatch(list)
      PROVE aliases'[s][a] = aliases[s][a] \/ matches'[s][a] # None
    <2>1. NoRows \in [Sides -> SUBSET Addrs]
        BY DEF NoRows
    <2> QED
        BY <1>1, <1>3, <2>1, BulkMatchInstalls DEF Inv
<1>4. ASSUME NEW t \in Sides, NEW d \in Addrs, NEW c \in Addrs, SetAlias(t, d, c)
      PROVE aliases'[s][a] = aliases[s][a]
    BY <1>4 DEF SetAlias, Inv, TypeOK
<1>5. ASSUME ~Commit,
             ~(\E b \in Bases : \E list \in PairLists(b) : BulkMatch(list)),
             ~(\E t \in Sides, d, c \in Addrs : SetAlias(t, d, c))
      PROVE UNCHANGED aliases
    BY <1>5 DEF Next, vars, catalog, pairVars, batch, OpenBatch, BatchSet, BatchMatch,
                Abort, Freeze
<1> QED
    BY <1>2, <1>3, <1>4, <1>5

LEMMA StepSharpensIdentity ==
    ASSUME Inv, Inv', [Next]_vars, NEW s \in Sides, NEW a \in Addrs,
           Canonical(s, a) # None
    PROVE \/ Canonical(s, a)' = Canonical(s, a)
          \/ /\ matches[s][a] = None
             /\ matches'[s][a] # None
             /\ aliases'[s][a] = None
<1>1. CASE matches[s][a] # None
    BY <1>1, StepKeepsPairs DEF Canonical
<1>2. CASE matches[s][a] = None
    <2>1. aliases[s][a] # None
        BY <1>2 DEF Canonical
    <2>2. CASE matches'[s][a] = None
        BY <1>2, <2>1, <2>2, StepKeepsAliases DEF Canonical
    <2>3. CASE matches'[s][a] # None
        BY <1>2, <2>3 DEF Inv, AliasesNamePairs
    <2> QED
        BY <2>2, <2>3
<1> QED
    BY <1>1, <1>2

(* An address that resolves to a canonical original address never stops     *)
(* resolving, and changes its answer only by being paired itself.           *)
THEOREM IdentitySharpens == Spec => IdentityOnlySharpens
<1>1. Inv /\ Inv' /\ [Next]_vars =>
        [\A s \in Sides, a \in Addrs : Canonical(s, a) # None =>
              \/ Canonical(s, a)' = Canonical(s, a)
              \/ /\ matches[s][a] = None
                 /\ matches'[s][a] # None
                 /\ aliases'[s][a] = None]_vars
    BY StepSharpensIdentity
<1> QED
    BY <1>1, Invariance, PTL DEF Spec, IdentityOnlySharpens

(* A pair a commit does not take lost to one staged before it that it does  *)
(* take, or to the catalog.                                                 *)
LEMMA CommitLosesToCollision ==
    ASSUME Inv, Commit, NEW i \in DOMAIN staged
    PROVE \/ matches'["orig"][staged[i].orig] = staged[i].recomp
          \/ ~Fresh(staged[i])
          \/ \E j \in 1 .. i - 1 : Collide(staged[i], staged[j])
<1>1. PICK K \in SUBSET DOMAIN staged :
         /\ KeepsFirst(staged, K)
         /\ LET ps == {staged[k] : k \in {k \in K : Fresh(staged[k])}} IN
            /\ present' = [s \in Sides |-> present[s] \cup rows[s] \cup Ends(ps, s)]
            /\ indexed' = [s \in Sides |-> indexed[s] \cup rows[s] \cup Ends(ps, s)]
            /\ Install(ps)
    BY DEF Commit
<1> DEFINE ps == {staged[k] : k \in {k \in K : Fresh(staged[k])}}
<1>2. CASE i \in K /\ Fresh(staged[i])
    <2>1. Installable(ps)
        BY <1>1, KeptIsInstallable DEF Inv, TypeOK
    <2>2. InstallStep(ps, rows) /\ rows \in [Sides -> SUBSET Addrs]
        BY <1>1, <2>1 DEF InstallStep, Inv, TypeOK
    <2>3. staged[i] \in ps /\ "orig" \in Sides
        BY <1>2 DEF Sides
    <2>4. matches'["orig"][End(staged[i], "orig")] = Far(staged[i], "orig")
        BY <2>2, <2>3, InstallMatches
    <2> QED
        BY <2>4 DEF End, Far
<1>3. CASE i \notin K
    <2>1. PICK j \in K : j < i /\ Collide(staged[i], staged[j])
        BY <1>1, <1>3 DEF KeepsFirst
    <2>2. DOMAIN staged \subseteq Nat \ {0}
        BY DEF Inv, TypeOK
    <2>3. j \in 1 .. i - 1
        BY <2>1, <2>2
    <2> QED
        BY <2>1, <2>3
<1> QED
    BY <1>2, <1>3

(* LostOnlyToCollision: no batch that is committed drops a staged pair for  *)
(* any reason but a collision with a pair held or staged before it.         *)
THEOREM CommitLosesOnlyToCollision == Spec => LostOnlyToCollision
<1>1. ASSUME Inv, Next, open, ~open', catalog' # catalog
      PROVE Commit
    BY <1>1 DEF Next, OpenBatch, BatchSet, BatchMatch, Abort, BulkMatch, SetAlias,
                Freeze, batch
<1>2. Inv /\ [Next]_vars =>
        [open /\ ~open' /\ catalog' # catalog =>
            \A i \in DOMAIN staged :
                \/ matches'["orig"][staged[i].orig] = staged[i].recomp
                \/ ~Fresh(staged[i])
                \/ \E j \in 1 .. i - 1 : Collide(staged[i], staged[j])]_vars
    BY <1>1, CommitLosesToCollision
<1> QED
    BY <1>2, Invariance, PTL DEF Spec, LostOnlyToCollision

-------------------------------------------------------------------------------
(* The loops of a commit.  What a loop computes is proved by going through  *)
(* its turns: its accumulators form a set, its body is a function on them,  *)
(* and the turns of which a fact holds are all of them.                     *)

(* What holds of the first turn, and of each turn after one of which it     *)
(* holds, holds of them all.                                                *)
LEMMA EveryTurn ==
    ASSUME NEW L \in Nat, NEW T, 0 \in T, \A n \in 1 .. L : n - 1 \in T => n \in T
    PROVE 0 .. L \subseteq T
<1> DEFINE B == {n \in 0 .. L : n \notin T}
           R == {ss \in Nat \X Nat : ss[1] < ss[2]}
<1> SUFFICES ASSUME B # {} PROVE FALSE
    OBVIOUS
<1>1. IsWellFoundedOn(R, Nat)
    BY NatLessThanWellFounded DEF OpToRel
<1>2. PICK m \in B : \A n \in B : ~(<<n, m>> \in R)
    BY <1>1, WFMin
<1>3. m \in 1 .. L /\ m - 1 \in 0 .. L
    OBVIOUS
<1>4. <<m - 1, m>> \in R
    BY <1>3
<1>5. m - 1 \in T
    BY <1>2, <1>3, <1>4
<1> QED
    BY <1>3, <1>5

(* f is what the turns of a loop make of init. *)
IsRun(f, init, step, list) ==
    /\ f[0] = init
    /\ \A n \in 1 .. Len(list) : f[n] = step[f[n - 1]][list[n]]

(* A loop whose body stays among the accumulators A has a value after every *)
(* element.                                                                 *)
LEMMA LoopRuns ==
    ASSUME NEW X, NEW list \in Seq(X), NEW A, NEW init \in A, NEW step \in [A -> [X -> A]]
    PROVE \E f \in [0 .. Len(list) -> A] : IsRun(f, init, step, list)
<1> DEFINE L == Len(list)
           Runs(g, n) == /\ g[0] = init
                         /\ \A m \in 1 .. n : g[m] = step[g[m - 1]][list[m]]
           T == {n \in 0 .. L : \E g \in [0 .. n -> A] : Runs(g, n)}
<1>1. L \in Nat /\ \A n \in 1 .. L : list[n] \in X
    OBVIOUS
<1>2. 0 \in T
    <2>1. [m \in 0 .. 0 |-> init] \in [0 .. 0 -> A] /\ Runs([m \in 0 .. 0 |-> init], 0)
        OBVIOUS
    <2>2. 0 \in 0 .. L
        BY <1>1
    <2> QED
        BY <2>1, <2>2
<1>3. ASSUME NEW n \in 1 .. L, n - 1 \in T
      PROVE n \in T
    <2>1. PICK g \in [0 .. n - 1 -> A] : Runs(g, n - 1)
        BY <1>3
    <2> DEFINE v == step[g[n - 1]][list[n]]
               h == [m \in 0 .. n |-> IF m = n THEN v ELSE g[m]]
    <2>2. n \in Nat /\ n - 1 \in 0 .. n - 1 /\ n \in 0 .. n
        BY <1>1
    <2>3. v \in A
        BY <1>1, <2>2
    <2>4. h \in [0 .. n -> A]
        BY <2>2, <2>3
    <2>5. \A m \in 0 .. n - 1 : h[m] = g[m]
        BY <2>2
    <2>6. h[n] = v
        BY <2>2
    <2>7. h[0] = init
        BY <2>1, <2>2, <2>5
    <2>8. ASSUME NEW m \in 1 .. n
          PROVE h[m] = step[h[m - 1]][list[m]]
        <3>1. CASE m = n
            BY <2>2, <2>5, <2>6, <3>1
        <3>2. CASE m # n
            <4>1. m \in 1 .. n - 1 /\ m \in 0 .. n - 1 /\ m - 1 \in 0 .. n - 1
                BY <2>2, <3>2
            <4>2. g[m] = step[g[m - 1]][list[m]]
                BY <2>1, <4>1
            <4> QED
                BY <2>5, <4>1, <4>2
        <3> QED
            BY <3>1, <3>2
    <2>9. Runs(h, n)
        BY <2>7, <2>8
    <2>10. n \in 0 .. L
        BY <1>1
    <2> QED
        BY <2>4, <2>9, <2>10
<1>4. L \in T
    <2> HIDE DEF T
    <2>1. 0 .. L \subseteq T
        BY <1>1, <1>2, <1>3, EveryTurn
    <2> QED
        BY <1>1, <2>1
<1>5. PICK f \in [0 .. L -> A] : Runs(f, L)
    BY <1>4
<1> QED
    BY <1>5 DEF IsRun

(* The elements of a list, and those among its first n. *)
Elems(list) == {list[i] : i \in DOMAIN list}
First(list, n) == {list[i] : i \in 1 .. n}

LEMMA FirstFacts ==
    ASSUME NEW X, NEW list \in Seq(X)
    PROVE /\ First(list, 0) = {}
          /\ First(list, Len(list)) = Elems(list)
          /\ \A n \in 1 .. Len(list) : First(list, n) = First(list, n - 1) \cup {list[n]}
          /\ \A n \in 0 .. Len(list) : First(list, n) \subseteq X
<1>1. First(list, 0) = {} /\ First(list, Len(list)) = Elems(list)
    BY DEF First, Elems
<1>2. ASSUME NEW n \in 1 .. Len(list)
      PROVE First(list, n) = First(list, n - 1) \cup {list[n]}
    <2>1. 1 .. n = (1 .. n - 1) \cup {n}
        OBVIOUS
    <2> QED
        BY <2>1 DEF First
<1>3. \A n \in 0 .. Len(list) : First(list, n) \subseteq X
    BY DEF First
<1> QED
    BY <1>1, <1>2, <1>3

LEMMA ElemsAppend ==
    ASSUME NEW X, NEW list \in Seq(X), NEW x \in X
    PROVE Append(list, x) \in Seq(X) /\ Elems(Append(list, x)) = Elems(list) \cup {x}
<1>1. /\ Append(list, x) \in Seq(X)
      /\ Len(list) \in Nat
      /\ DOMAIN list = 1 .. Len(list)
      /\ DOMAIN Append(list, x) = 1 .. Len(list) + 1
      /\ \A i \in 1 .. Len(list) : Append(list, x)[i] = list[i]
      /\ Append(list, x)[Len(list) + 1] = x
    OBVIOUS
<1>2. 1 .. Len(list) + 1 = (1 .. Len(list)) \cup {Len(list) + 1}
    BY <1>1
<1> QED
    BY <1>1, <1>2 DEF Elems

(* _finalized_matches retains the pairs KeepsFirst indexes. *)
LEMMA FinalizedKeepsFirst ==
    ASSUME NEW list \in Seq(Pair), NEW K \in SUBSET DOMAIN list, KeepsFirst(list, K)
    PROVE /\ Finalized(list) \in Seq(Pair)
          /\ Elems(Finalized(list)) = {list[i] : i \in K}
<1> DEFINE L == Len(list)
           A == [orig : SUBSET Addrs, recomp : SUBSET Addrs, kept : Seq(Pair)]
           step == [acc \in A |-> [p \in Pair |-> Retain(acc, p)]]
           Body(g) == [n \in 0 .. L |-> IF n = 0 THEN Unused ELSE Retain(g[n - 1], list[n])]
           f == CHOOSE g : g = Body(g)
           Kept(n) == {i \in K : i <= n}
           T == {n \in 0 .. L :
                    /\ f[n] \in A
                    /\ f[n].orig = {list[i].orig : i \in Kept(n)}
                    /\ f[n].recomp = {list[i].recomp : i \in Kept(n)}
                    /\ Elems(f[n].kept) = {list[i] : i \in Kept(n)}}
<1>1. L \in Nat /\ DOMAIN list = 1 .. L /\ \A n \in 1 .. L : list[n] \in Pair
    OBVIOUS
<1>2. Unused \in A
    BY DEF Unused
<1>3. ASSUME NEW acc \in A, NEW p \in Pair
      PROVE Retain(acc, p) \in A
    BY DEF Retain, Pair
<1>4. step \in [A -> [Pair -> A]]
    BY <1>3
<1>5. f = Body(f)
    <2>1. PICK g \in [0 .. L -> A] : IsRun(g, Unused, step, list)
        <3> HIDE DEF A, step
        <3> QED
            BY <1>2, <1>4, LoopRuns
    <2>2. ASSUME NEW n \in 1 .. L
          PROVE g[n] = Retain(g[n - 1], list[n])
        <3>1. g[n - 1] \in A /\ list[n] \in Pair
            <4> HIDE DEF A
            <4> QED
                BY <1>1
        <3> QED
            BY <2>1, <3>1 DEF IsRun
    <2>3. \A n \in 0 .. L : g[n] = IF n = 0 THEN Unused ELSE Retain(g[n - 1], list[n])
        BY <1>1, <2>1, <2>2 DEF IsRun
    <2>4. g = Body(g)
        BY <2>3
    <2> HIDE DEF Body
    <2> QED
        BY <2>4
<1>6. Finalized(list) = f[L].kept
    BY DEF Finalized, AfterAll
<1>7. f[0] = Unused /\ \A n \in 1 .. L : f[n] = Retain(f[n - 1], list[n])
    <2> HIDE DEF f
    <2> QED
        BY <1>1, <1>5
<1> HIDE DEF f
<1>8. 0 \in T
    <2>1. Kept(0) = {}
        BY <1>1
    <2>2. f[0] \in A /\ 0 \in 0 .. L
        BY <1>1, <1>2, <1>7
    <2>3. f[0].orig = {} /\ f[0].recomp = {} /\ Elems(f[0].kept) = {}
        BY <1>7 DEF Unused, Elems
    <2> HIDE DEF A, Kept
    <2> QED
        BY <2>1, <2>2, <2>3
<1>9. ASSUME NEW n \in 1 .. L, n - 1 \in T
      PROVE n \in T
    <2> DEFINE acc == f[n - 1]
               p == list[n]
    <2>1. /\ acc \in A
          /\ acc.orig = {list[i].orig : i \in Kept(n - 1)}
          /\ acc.recomp = {list[i].recomp : i \in Kept(n - 1)}
          /\ Elems(acc.kept) = {list[i] : i \in Kept(n - 1)}
        BY <1>9
    <2>2. f[n] = Retain(acc, p) /\ p \in Pair /\ n \in 0 .. L /\ f[n] \in A
        BY <1>1, <1>3, <1>7, <2>1
    <2>3. n \in K <=> ~(p.orig \in acc.orig \/ p.recomp \in acc.recomp)
        <3>1. n \in K <=> \A j \in K : j < n => ~Collide(p, list[j])
            BY <1>1 DEF KeepsFirst
        <3>2. Kept(n - 1) = {j \in K : j < n}
            BY <1>1
        <3> QED
            BY <2>1, <3>1, <3>2 DEF Collide
    <2>4. CASE n \in K
        <3>1. Kept(n) = Kept(n - 1) \cup {n}
            BY <1>1, <2>4
        <3>2. /\ f[n].orig = acc.orig \cup {p.orig}
              /\ f[n].recomp = acc.recomp \cup {p.recomp}
              /\ f[n].kept = Append(acc.kept, p)
            BY <2>2, <2>3, <2>4 DEF Retain
        <3>3. Elems(f[n].kept) = Elems(acc.kept) \cup {p}
            <4> DEFINE old == acc.kept
            <4>1. old \in Seq(Pair) /\ p \in Pair
                BY <2>1, <2>2
            <4>2. Elems(Append(old, p)) = Elems(old) \cup {p}
                <5> HIDE DEF old, p
                <5> QED
                    BY <4>1, ElemsAppend
            <4> QED
                BY <3>2, <4>2
        <3> HIDE DEF A, Kept
        <3>4. /\ f[n].orig = {list[i].orig : i \in Kept(n)}
              /\ f[n].recomp = {list[i].recomp : i \in Kept(n)}
              /\ Elems(f[n].kept) = {list[i] : i \in Kept(n)}
            BY <2>1, <3>1, <3>2, <3>3
        <3> QED
            BY <2>2, <3>4
    <2>5. CASE n \notin K
        <3>1. Kept(n) = Kept(n - 1)
            BY <1>1, <2>5
        <3>2. f[n] = acc
            BY <2>2, <2>3, <2>5 DEF Retain
        <3> QED
            BY <2>1, <2>2, <3>1, <3>2
    <2> QED
        BY <2>4, <2>5
<1>10. L \in T
    <2> HIDE DEF T
    <2>1. 0 .. L \subseteq T
        BY <1>1, <1>8, <1>9, EveryTurn
    <2> QED
        BY <1>1, <2>1
<1>11. Kept(L) = K
    BY <1>1
<1>12. f[L] \in A /\ Elems(f[L].kept) = {list[i] : i \in K}
    BY <1>10, <1>11
<1> QED
    BY <1>6, <1>12

(* by_basis holds every pair, in the group of its basis. *)
LEMMA ByBasisGroups ==
    ASSUME NEW list \in Seq(Pair)
    PROVE LET groups == ByBasis(list) IN
          /\ groups.order \in Seq(Bases)
          /\ groups.group \in [Bases -> Seq(Elems(list))]
          /\ \A p \in Elems(list) : /\ p.basis \in Elems(groups.order)
                                    /\ p \in Elems(groups.group[p.basis])
<1> DEFINE L == Len(list)
           D == Elems(list)
           A == [order : Seq(Bases), group : [Bases -> Seq(D)]]
           step == [acc \in A |-> [p \in D |-> PutByBasis(acc, p)]]
           Body(g) == [n \in 0 .. L |->
                          IF n = 0 THEN NoGroups ELSE PutByBasis(g[n - 1], list[n])]
           f == CHOOSE g : g = Body(g)
           T == {n \in 0 .. L :
                    /\ f[n] \in A
                    /\ \A b \in Bases :
                          f[n].group[b] # <<>> => b \in Elems(f[n].order)
                    /\ \A i \in 1 .. n : list[i] \in Elems(f[n].group[list[i].basis])}
<1>1. /\ L \in Nat /\ DOMAIN list = 1 .. L
      /\ D \subseteq Pair
      /\ \A n \in 1 .. L : list[n] \in D
      /\ list \in Seq(D)
    BY DEF Elems
<1>2. NoGroups \in A
    BY DEF NoGroups
<1>3. ASSUME NEW acc \in A, NEW p \in D
      PROVE /\ PutByBasis(acc, p) \in A
            /\ p.basis \in Bases
            /\ PutByBasis(acc, p).group[p.basis] = Append(acc.group[p.basis], p)
            /\ \A b \in Bases : b # p.basis =>
                  PutByBasis(acc, p).group[b] = acc.group[b]
    <2>1. p.basis \in Bases
        BY <1>1 DEF Pair
    <2>2. Append(acc.group[p.basis], p) \in Seq(D)
        BY <2>1
    <2>3. Append(acc.order, p.basis) \in Seq(Bases)
        BY <2>1
    <2> HIDE DEF D
    <2> QED
        BY <2>1, <2>2, <2>3 DEF PutByBasis
<1>4. step \in [A -> [D -> A]]
    <2> HIDE DEF D, A
    <2> QED
        BY <1>3
<1>5. f = Body(f)
    <2>1. PICK g \in [0 .. L -> A] : IsRun(g, NoGroups, step, list)
        <3> HIDE DEF A, step, D
        <3> QED
            BY <1>1, <1>2, <1>4, LoopRuns
    <2>2. ASSUME NEW n \in 1 .. L
          PROVE g[n] = PutByBasis(g[n - 1], list[n])
        <3>1. g[n - 1] \in A /\ list[n] \in D
            <4> HIDE DEF A, D
            <4> QED
                BY <1>1
        <3> HIDE DEF D
        <3> QED
            BY <2>1, <3>1 DEF IsRun
    <2>3. \A n \in 0 .. L :
             g[n] = IF n = 0 THEN NoGroups ELSE PutByBasis(g[n - 1], list[n])
        BY <1>1, <2>1, <2>2 DEF IsRun
    <2>4. g = Body(g)
        BY <2>3
    <2> HIDE DEF Body
    <2> QED
        BY <2>4
<1>6. ByBasis(list) = f[L]
    BY DEF ByBasis, AfterAll
<1>7. f[0] = NoGroups /\ \A n \in 1 .. L : f[n] = PutByBasis(f[n - 1], list[n])
    <2> HIDE DEF f
    <2> QED
        BY <1>1, <1>5
<1> HIDE DEF f
<1>8. 0 \in T
    <2>1. f[0] \in A /\ 0 \in 0 .. L
        BY <1>1, <1>2, <1>7
    <2>2. \A b \in Bases : f[0].group[b] = <<>>
        BY <1>7 DEF NoGroups
    <2>3. 1 .. 0 = {}
        OBVIOUS
    <2> HIDE DEF A
    <2> QED
        BY <2>1, <2>2, <2>3
<1>9. ASSUME NEW n \in 1 .. L, n - 1 \in T
      PROVE n \in T
    <2> DEFINE acc == f[n - 1]
               p == list[n]
    <2>1. /\ acc \in A
          /\ \A b \in Bases : acc.group[b] # <<>> => b \in Elems(acc.order)
          /\ \A i \in 1 .. n - 1 : list[i] \in Elems(acc.group[list[i].basis])
        BY <1>9
    <2>2. f[n] = PutByBasis(acc, p) /\ p \in D /\ n \in 0 .. L /\ f[n] \in A
        <3>1. f[n] = PutByBasis(acc, p) /\ p \in D /\ n \in 0 .. L
            BY <1>1, <1>7
        <3>2. PutByBasis(acc, p) \in A
            <4> HIDE DEF A, D, acc, p
            <4> QED
                BY <1>3, <2>1, <3>1
        <3> QED
            BY <3>1, <3>2
    <2>3. /\ p.basis \in Bases
          /\ f[n].group[p.basis] = Append(acc.group[p.basis], p)
          /\ \A b \in Bases : b # p.basis => f[n].group[b] = acc.group[b]
        <3> HIDE DEF A, D, acc, p
        <3>1. /\ p.basis \in Bases
              /\ PutByBasis(acc, p).group[p.basis] = Append(acc.group[p.basis], p)
              /\ \A b \in Bases : b # p.basis =>
                    PutByBasis(acc, p).group[b] = acc.group[b]
            BY <1>3, <2>1, <2>2
        <3> QED
            BY <2>2, <3>1
    <2>4. Elems(f[n].group[p.basis]) = Elems(acc.group[p.basis]) \cup {p}
        <3> DEFINE old == acc.group[p.basis]
        <3>1. old \in Seq(D) /\ p \in D /\ f[n].group[p.basis] = Append(old, p)
            BY <2>1, <2>2, <2>3
        <3> HIDE DEF D, A, acc, p, old
        <3>2. Elems(Append(old, p)) = Elems(old) \cup {p}
            BY <3>1, ElemsAppend
        <3> QED
            BY <3>1, <3>2 DEF old
    <2>5. ASSUME NEW b \in Bases, f[n].group[b] # <<>>
          PROVE b \in Elems(f[n].order)
        <3>1. acc.order \in Seq(Bases)
            BY <2>1
        <3> HIDE DEF A, D, acc, p
        <3>2. CASE acc.group[p.basis] = <<>>
            <4>1. f[n].order = Append(acc.order, p.basis)
                BY <2>2, <3>2 DEF PutByBasis
            <4> DEFINE old == acc.order
                       new == p.basis
            <4>2. old \in Seq(Bases) /\ new \in Bases
                BY <2>3, <3>1
            <4>3. Elems(Append(old, new)) = Elems(old) \cup {new}
                <5> HIDE DEF old, new
                <5> QED
                    BY <4>2, ElemsAppend
            <4> QED
                BY <2>1, <2>3, <2>5, <4>1, <4>3
        <3>3. CASE acc.group[p.basis] # <<>>
            <4>1. f[n].order = acc.order
                BY <2>2, <3>3 DEF PutByBasis
            <4> QED
                BY <2>1, <2>3, <2>5, <3>3, <4>1
        <3> QED
            BY <3>2, <3>3
    <2>6. ASSUME NEW i \in 1 .. n
          PROVE list[i] \in Elems(f[n].group[list[i].basis])
        <3>1. CASE i = n
            BY <2>4, <3>1
        <3>2. CASE i # n
            <4>1. i \in 1 .. n - 1 /\ i \in 1 .. L
                BY <1>1, <3>2
            <4>2. list[i] \in Elems(acc.group[list[i].basis]) /\ list[i].basis \in Bases
                BY <1>1, <2>1, <4>1 DEF Pair
            <4> QED
                BY <2>3, <2>4, <4>2
        <3> QED
            BY <3>1, <3>2
    <2> QED
        BY <2>2, <2>5, <2>6
<1>10. L \in T
    <2> HIDE DEF T
    <2>1. 0 .. L \subseteq T
        BY <1>1, <1>8, <1>9, EveryTurn
    <2> QED
        BY <1>1, <2>1
<1>11. ASSUME NEW p \in Elems(list)
       PROVE p.basis \in Elems(f[L].order) /\ p \in Elems(f[L].group[p.basis])
    <2>1. PICK i \in 1 .. L : p = list[i]
        BY <1>1 DEF Elems
    <2>2. p \in Elems(f[L].group[p.basis])
        BY <1>10, <2>1
    <2>3. f[L].group[p.basis] # <<>>
        BY <2>2 DEF Elems
    <2>4. p.basis \in Bases
        BY <1>1 DEF Pair
    <2> QED
        BY <1>10, <2>2, <2>3, <2>4
<1> QED
    BY <1>6, <1>10, <1>11

Disjoint(ps) == ps \in SUBSET Pair /\ \A p, q \in ps : Collide(p, q) => p = q
FreshOf(ps) == {p \in ps : Fresh(p)}

(* The catalog with the pairs ps installed. *)
BasisOf(ps) ==
    [a \in Addrs |->
        IF a \in Ends(ps, "orig")
        THEN (CHOOSE p \in ps : p.orig = a).basis
        ELSE basis[a]]

Books(ps) ==
    [matches |-> PairUp(matches, ps), link |-> PairUp(link, ps), basis |-> BasisOf(ps),
     aliases |-> AliasesLeft(ps),
     present |-> [s \in Sides |-> present[s] \cup rows[s] \cup Ends(ps, s)],
     indexed |-> [s \in Sides |-> indexed[s] \cup rows[s] \cup Ends(ps, s)]]

LEMMA FreshOfInstallable ==
    ASSUME NEW ps, Disjoint(ps)
    PROVE Installable(FreshOf(ps))
BY DEF Disjoint, FreshOf, Installable

LEMMA BasisOfValues ==
    ASSUME NEW ps, Installable(ps)
    PROVE /\ \A p \in ps : BasisOf(ps)[p.orig] = p.basis
          /\ \A a \in Addrs \ Ends(ps, "orig") : BasisOf(ps)[a] = basis[a]
<1>1. ASSUME NEW p \in ps
      PROVE BasisOf(ps)[p.orig] = p.basis
    <2>1. p.orig \in Addrs /\ p.orig \in Ends(ps, "orig")
        BY DEF Installable, Pair, Ends, End
    <2>2. (CHOOSE q \in ps : q.orig = p.orig) = p
        BY DEF Installable, Collide
    <2> QED
        BY <2>1, <2>2 DEF BasisOf
<1>2. \A a \in Addrs \ Ends(ps, "orig") : BasisOf(ps)[a] = basis[a]
    BY DEF BasisOf
<1> QED
    BY <1>1, <1>2

(* The map with the pair p entered on either side. *)
Entered(map, p) == [s \in Sides |-> [map[s] EXCEPT ![End(p, s)] = Far(p, s)]]

(* One more pair, whose addresses are not among the ends of the others, is  *)
(* one more entry on either side.                                           *)
LEMMA PairUpMore ==
    ASSUME NEW ps, NEW p, Installable(ps \cup {p}),
           \A s \in Sides : End(p, s) \notin Ends(ps, s),
           NEW map \in [Sides -> [Addrs -> Addrs \cup {None}]]
    PROVE PairUp(map, ps \cup {p}) = Entered(PairUp(map, ps), p)
<1> DEFINE more == ps \cup {p}
           old == PairUp(map, ps)
           new == PairUp(map, more)
<1>1. Installable(ps) /\ Installable(more)
    BY DEF Installable
<1>2. /\ old \in [Sides -> [Addrs -> Addrs \cup {None}]]
      /\ \A s \in Sides : \A q \in ps : old[s][End(q, s)] = Far(q, s)
      /\ \A s \in Sides : \A a \in Addrs \ Ends(ps, s) : old[s][a] = map[s][a]
    BY <1>1, PairUpValues
<1>3. /\ new \in [Sides -> [Addrs -> Addrs \cup {None}]]
      /\ \A s \in Sides : \A q \in more : new[s][End(q, s)] = Far(q, s)
      /\ \A s \in Sides : \A a \in Addrs \ Ends(more, s) : new[s][a] = map[s][a]
    <2> HIDE DEF more
    <2> QED
        BY <1>1, PairUpValues
<1> HIDE DEF old, new
<1>4. ASSUME NEW s \in Sides
      PROVE new[s] = [old[s] EXCEPT ![End(p, s)] = Far(p, s)]
    <2>1. End(p, s) \in Addrs
        BY <1>1 DEF Installable, Pair, End
    <2>2. Ends(more, s) = Ends(ps, s) \cup {End(p, s)}
        BY DEF Ends
    <2>3. ASSUME NEW a \in Addrs
          PROVE new[s][a] = IF a = End(p, s) THEN Far(p, s) ELSE old[s][a]
        <3>1. CASE a = End(p, s)
            BY <1>3, <3>1
        <3>2. CASE a # End(p, s) /\ a \in Ends(ps, s)
            <4>1. PICK q \in ps : a = End(q, s)
                BY <3>2 DEF Ends
            <4> QED
                BY <1>2, <1>3, <3>2, <4>1
        <3>3. CASE a # End(p, s) /\ a \notin Ends(ps, s)
            BY <1>2, <1>3, <2>2, <3>3
        <3> QED
            BY <3>1, <3>2, <3>3
    <2>4. old[s] \in [Addrs -> Addrs \cup {None}] /\ new[s] \in [Addrs -> Addrs \cup {None}]
        BY <1>2, <1>3
    <2> QED
        BY <2>1, <2>3, <2>4
<1>5. new = [s \in Sides |-> [old[s] EXCEPT ![End(p, s)] = Far(p, s)]]
    BY <1>3, <1>4
<1> QED
    BY <1>5 DEF old, new, Entered

LEMMA BasisOfMore ==
    ASSUME NEW ps, NEW p, Installable(ps \cup {p}), p.orig \notin Ends(ps, "orig")
    PROVE BasisOf(ps \cup {p}) = [BasisOf(ps) EXCEPT ![p.orig] = p.basis]
<1> DEFINE more == ps \cup {p}
<1>1. Installable(ps) /\ Installable(more)
    BY DEF Installable
<1>2. Ends(more, "orig") = Ends(ps, "orig") \cup {p.orig} /\ p.orig \in Addrs
    BY <1>1 DEF Ends, End, Installable, Pair
<1>3. ASSUME NEW a \in Addrs
      PROVE BasisOf(more)[a] = IF a = p.orig THEN p.basis ELSE BasisOf(ps)[a]
    <2>1. CASE a = p.orig
        BY <1>1, <2>1, BasisOfValues
    <2>2. CASE a # p.orig /\ a \in Ends(ps, "orig")
        <3>1. PICK q \in ps : a = q.orig
            BY <2>2 DEF Ends, End
        <3>2. BasisOf(more)[a] = q.basis /\ BasisOf(ps)[a] = q.basis
            BY <1>1, <3>1, BasisOfValues
        <3> QED
            BY <2>2, <3>2
    <2>3. CASE a # p.orig /\ a \notin Ends(ps, "orig")
        BY <1>1, <1>2, <2>3, BasisOfValues
    <2> QED
        BY <2>1, <2>2, <2>3
<1>4. BasisOf(more) = [a \in Addrs |-> IF a = p.orig THEN p.basis ELSE BasisOf(ps)[a]]
    <2>1. BasisOf(more) = [a \in Addrs |-> BasisOf(more)[a]]
        BY DEF BasisOf
    <2> QED
        BY <1>3, <2>1
<1>5. [BasisOf(ps) EXCEPT ![p.orig] = p.basis]
        = [a \in Addrs |-> IF a = p.orig THEN p.basis ELSE BasisOf(ps)[a]]
    <2>1. DOMAIN BasisOf(ps) = Addrs
        BY DEF BasisOf
    <2> QED
        BY <2>1
<1> QED
    BY <1>4, <1>5

(* The body of bulk_match's loop installs a pair unless the catalog, or a   *)
(* pair already installed, holds one of its addresses.                      *)
LEMMA MatchOneInstalls ==
    ASSUME Inv, NEW D, Disjoint(D), NEW ps \in SUBSET D, NEW p \in D
    PROVE MatchOne(Books(FreshOf(ps)), p) = Books(FreshOf(ps \cup {p}))
<1> DEFINE F == FreshOf(ps)
           old == PairUp(matches, F)
<1>1. Disjoint(ps \cup {p}) /\ Disjoint(ps) /\ p \in Pair
    BY DEF Disjoint
<1>2. Installable(F) /\ Installable(FreshOf(ps \cup {p}))
    BY <1>1, FreshOfInstallable
<1>3. /\ matches \in [Sides -> [Addrs -> Addrs \cup {None}]]
      /\ link \in [Sides -> [Addrs -> Addrs \cup {None}]]
    BY DEF Inv, TypeOK
<1>4. /\ old \in [Sides -> [Addrs -> Addrs \cup {None}]]
      /\ \A s \in Sides : \A q \in F : old[s][End(q, s)] = Far(q, s)
      /\ \A s \in Sides : \A a \in Addrs \ Ends(F, s) : old[s][a] = matches[s][a]
    BY <1>2, <1>3, PairUpValues
<1>5. Books(F).matches = old
    BY DEF Books
<1>6. \A s \in Sides : End(p, s) \in Addrs /\ Far(p, s) \in Addrs
    BY <1>1 DEF Pair, End, Far
<1>7. Fresh(p) <=> \A s \in Sides : matches[s][End(p, s)] = None
    BY DEF Fresh, Sides, End
<1>8. CASE \E s \in Sides : old[s][End(p, s)] # None
    <2>1. PICK s \in Sides : old[s][End(p, s)] # None
        BY <1>8
    <2>2. MatchOne(Books(F), p) = Books(F)
        BY <1>5, <1>8 DEF MatchOne
    <2>3. FreshOf(ps \cup {p}) = F
        <3>1. CASE End(p, s) \in Ends(F, s)
            <4>1. PICK q \in F : End(q, s) = End(p, s)
                BY <3>1 DEF Ends
            <4>2. q = p
                <5>1. q \in ps
                    BY DEF FreshOf
                <5>2. Collide(q, p)
                    BY <4>1 DEF Collide, End, Sides
                <5> QED
                    BY <1>1, <5>1, <5>2 DEF Disjoint
            <4> QED
                BY <4>2 DEF FreshOf
        <3>2. CASE End(p, s) \notin Ends(F, s)
            <4>1. matches[s][End(p, s)] # None
                BY <1>4, <1>6, <2>1, <3>2
            <4>2. ~Fresh(p)
                BY <1>7, <4>1
            <4> QED
                BY <4>2 DEF FreshOf
        <3> QED
            BY <3>1, <3>2
    <2> QED
        BY <2>2, <2>3
<1>9. CASE \A s \in Sides : old[s][End(p, s)] = None
    <2>1. ASSUME NEW s \in Sides
          PROVE End(p, s) \notin Ends(F, s)
        <3> SUFFICES ASSUME End(p, s) \in Ends(F, s) PROVE FALSE
            OBVIOUS
        <3>1. PICK q \in F : End(p, s) = End(q, s)
            BY DEF Ends
        <3>2. old[s][End(p, s)] = Far(q, s)
            BY <1>4, <3>1
        <3>3. Far(q, s) \in Addrs
            BY <1>2 DEF Installable, Pair, Far
        <3> QED
            BY <1>9, <3>2, <3>3, CatalogAssumption
    <2>2. Fresh(p)
        BY <1>4, <1>6, <1>7, <1>9, <2>1
    <2>3. FreshOf(ps \cup {p}) = F \cup {p}
        BY <2>2 DEF FreshOf
    <2>4. Installable(F \cup {p})
        BY <1>2, <2>3
    <2> HIDE DEF F
    <2>5. PairUp(matches, F \cup {p}) = Entered(PairUp(matches, F), p)
        BY <1>3, <2>1, <2>4, PairUpMore
    <2>6. PairUp(link, F \cup {p}) = Entered(PairUp(link, F), p)
        BY <1>3, <2>1, <2>4, PairUpMore
    <2>7. BasisOf(F \cup {p}) = [BasisOf(F) EXCEPT ![p.orig] = p.basis]
        <3>1. p.orig \notin Ends(F, "orig")
            BY <2>1 DEF End, Sides
        <3> QED
            BY <2>4, <3>1, BasisOfMore
    <2>8. \A s \in Sides : Ends(F \cup {p}, s) = Ends(F, s) \cup {End(p, s)}
        BY DEF Ends
    <2>9. AliasesLeft(F \cup {p}) =
             [s \in Sides |-> [AliasesLeft(F)[s] EXCEPT ![End(p, s)] = None]]
        BY <1>6, <2>8 DEF AliasesLeft
    <2>10. MatchOne(Books(F), p) =
              [matches |-> PairUp(matches, F \cup {p}),
               link |-> PairUp(link, F \cup {p}),
               basis |-> BasisOf(F \cup {p}),
               aliases |-> AliasesLeft(F \cup {p}),
               present |-> [s \in Sides |-> Books(F).present[s] \cup {End(p, s)}],
               indexed |-> [s \in Sides |-> Books(F).indexed[s] \cup {End(p, s)}]]
        BY <1>5, <1>9, <2>5, <2>6, <2>7, <2>9 DEF MatchOne, Books, Entered
    <2>11. \A s \in Sides : /\ Books(F).present[s] = present[s] \cup rows[s] \cup Ends(F, s)
                            /\ Books(F).indexed[s] = indexed[s] \cup rows[s] \cup Ends(F, s)
        BY DEF Books
    <2>12. MatchOne(Books(F), p) = Books(F \cup {p})
        BY <2>8, <2>10, <2>11 DEF Books
    <2> QED
        BY <2>3, <2>12 DEF F
<1> QED
    BY <1>8, <1>9

(* bulk_match over a list installs the pairs of the list.                   *)
LEMMA MatchLoopInstalls ==
    ASSUME Inv, NEW D, Disjoint(D), NEW ps \in SUBSET D, NEW list \in Seq(D)
    PROVE MatchLoop(Books(FreshOf(ps)), list) = Books(FreshOf(ps \cup Elems(list)))
<1> DEFINE L == Len(list)
           init == Books(FreshOf(ps))
           A == {Books(FreshOf(qs)) : qs \in SUBSET D}
           step == [acc \in A |-> [p \in D |-> MatchOne(acc, p)]]
           Body(g) == [n \in 0 .. L |-> IF n = 0 THEN init ELSE MatchOne(g[n - 1], list[n])]
           f == CHOOSE g : g = Body(g)
           T == {n \in 0 .. L : f[n] = Books(FreshOf(ps \cup First(list, n)))}
<1>1. L \in Nat /\ \A n \in 1 .. L : list[n] \in D
    OBVIOUS
<1>2. init \in A
    OBVIOUS
<1>3. ASSUME NEW acc \in A, NEW p \in D
      PROVE MatchOne(acc, p) \in A
    <2>1. PICK qs \in SUBSET D : acc = Books(FreshOf(qs))
        OBVIOUS
    <2>2. MatchOne(acc, p) = Books(FreshOf(qs \cup {p}))
        BY <2>1, MatchOneInstalls
    <2>3. qs \cup {p} \in SUBSET D
        OBVIOUS
    <2> QED
        BY <2>2, <2>3
<1>4. step \in [A -> [D -> A]]
    <2> HIDE DEF A
    <2> QED
        BY <1>3
<1>5. f = Body(f)
    <2>1. PICK g \in [0 .. L -> A] : IsRun(g, init, step, list)
        <3> HIDE DEF A, step, init
        <3> QED
            BY <1>2, <1>4, LoopRuns
    <2> HIDE DEF init, A
    <2>2. ASSUME NEW n \in 1 .. L
          PROVE g[n] = MatchOne(g[n - 1], list[n])
        <3>1. g[n - 1] \in A /\ list[n] \in D
            BY <1>1
        <3> QED
            BY <2>1, <3>1 DEF IsRun
    <2>3. \A n \in 0 .. L : g[n] = IF n = 0 THEN init ELSE MatchOne(g[n - 1], list[n])
        BY <1>1, <2>1, <2>2 DEF IsRun
    <2>4. g = Body(g)
        BY <2>3
    <2> HIDE DEF Body
    <2> QED
        BY <2>4
<1>6. MatchLoop(init, list) = f[L]
    BY DEF MatchLoop, AfterAll
<1>7. f[0] = init /\ \A n \in 1 .. L : f[n] = MatchOne(f[n - 1], list[n])
    <2> HIDE DEF f, init
    <2> QED
        BY <1>1, <1>5
<1> HIDE DEF f
<1>8. 0 \in T
    <2>1. First(list, 0) = {}
        BY FirstFacts
    <2> DEFINE qs == ps \cup First(list, 0)
    <2>2. qs = ps
        BY <2>1
    <2>3. f[0] = Books(FreshOf(qs)) /\ 0 \in 0 .. L
        <3> HIDE DEF qs
        <3> QED
            BY <1>1, <1>7, <2>2
    <2> QED
        BY <2>3
<1>9. ASSUME NEW n \in 1 .. L, n - 1 \in T
      PROVE n \in T
    <2> DEFINE qs == ps \cup First(list, n - 1)
    <2>1. f[n - 1] = Books(FreshOf(qs)) /\ n - 1 \in 0 .. L /\ n \in 0 .. L
        BY <1>1, <1>9
    <2>2. qs \in SUBSET D
        BY <2>1, FirstFacts
    <2>3. ps \cup First(list, n) = qs \cup {list[n]}
        BY <1>1, FirstFacts
    <2> HIDE DEF qs
    <2>4. MatchOne(Books(FreshOf(qs)), list[n]) = Books(FreshOf(qs \cup {list[n]}))
        BY <1>1, <2>2, MatchOneInstalls
    <2>5. f[n] = Books(FreshOf(ps \cup First(list, n)))
        BY <1>7, <2>1, <2>3, <2>4
    <2> QED
        BY <2>1, <2>5
<1>10. L \in T
    <2> HIDE DEF T
    <2>1. 0 .. L \subseteq T
        BY <1>1, <1>8, <1>9, EveryTurn
    <2> QED
        BY <1>1, <2>1
<1>11. First(list, L) = Elems(list)
    BY FirstFacts
<1> QED
    BY <1>6, <1>10, <1>11

LEMMA InsertedIsBooks ==
    ASSUME Inv
    PROVE Inserted = Books(FreshOf({}))
<1>1. FreshOf({}) = {} /\ \A s \in Sides : Ends({}, s) = {}
    BY DEF FreshOf, Ends
<1>2. "orig" \in Sides
    BY DEF Sides
<1>3. ASSUME NEW map \in [Sides -> [Addrs -> Addrs \cup {None}]]
      PROVE PairUp(map, {}) = map
    <2>1. \A s \in Sides : map[s] = [a \in Addrs |-> map[s][a]]
        OBVIOUS
    <2> QED
        BY <1>1, <2>1 DEF PairUp
<1>4. PairUp(matches, {}) = matches /\ PairUp(link, {}) = link
    BY <1>3 DEF Inv, TypeOK
<1>5. BasisOf({}) = basis
    BY <1>1, <1>2 DEF BasisOf, Inv, TypeOK
<1>6. AliasesLeft({}) = aliases
    <2>1. \A s \in Sides : aliases[s] = [a \in Addrs |-> aliases[s][a]]
        BY DEF Inv, TypeOK
    <2>2. aliases = [s \in Sides |-> aliases[s]]
        BY DEF Inv, TypeOK
    <2> QED
        BY <1>1, <2>1, <2>2 DEF AliasesLeft
<1> QED
    BY <1>1, <1>4, <1>5, <1>6 DEF Inserted, Books

(* The groups of by_basis, one after the other, install every pair.         *)
LEMMA CommittedInstalls ==
    ASSUME Inv, Disjoint(Elems(Finalized(staged))), Finalized(staged) \in Seq(Pair)
    PROVE Committed = Books(FreshOf(Elems(Finalized(staged))))
<1> DEFINE D == Elems(Finalized(staged))
           groups == ByBasis(Finalized(staged))
           order == groups.order
           L == Len(order)
           MatchGroup(books, b) == MatchLoop(books, groups.group[b])
           Sum(n) == UNION {Elems(groups.group[b]) : b \in First(order, n)}
           A == {Books(FreshOf(qs)) : qs \in SUBSET D}
           step == [acc \in A |-> [b \in Bases |-> MatchGroup(acc, b)]]
           Body(g) == [n \in 0 .. L |->
                          IF n = 0 THEN Inserted ELSE MatchGroup(g[n - 1], order[n])]
           f == CHOOSE g : g = Body(g)
           T == {n \in 0 .. L : f[n] = Books(FreshOf(Sum(n)))}
<1>1. /\ order \in Seq(Bases)
      /\ groups.group \in [Bases -> Seq(D)]
      /\ \A p \in D : p.basis \in Elems(order) /\ p \in Elems(groups.group[p.basis])
    BY ByBasisGroups
<1> HIDE DEF D, groups
<1>2. L \in Nat /\ \A n \in 1 .. L : order[n] \in Bases
    BY <1>1
<1>3. \A b \in Bases : groups.group[b] \in Seq(D) /\ Elems(groups.group[b]) \in SUBSET D
    BY <1>1 DEF Elems
<1>4. Inserted \in A
    BY InsertedIsBooks
<1>5. ASSUME NEW b \in Bases, NEW qs \in SUBSET D
      PROVE MatchGroup(Books(FreshOf(qs)), b)
              = Books(FreshOf(qs \cup Elems(groups.group[b])))
    BY <1>3, MatchLoopInstalls DEF D
<1>6. step \in [A -> [Bases -> A]]
    <2>1. ASSUME NEW acc \in A, NEW b \in Bases
          PROVE MatchGroup(acc, b) \in A
        <3>1. PICK qs \in SUBSET D : acc = Books(FreshOf(qs))
            OBVIOUS
        <3>2. qs \cup Elems(groups.group[b]) \in SUBSET D
            BY <1>3
        <3> HIDE DEF MatchGroup
        <3> QED
            BY <1>5, <3>1, <3>2
    <2> HIDE DEF A, MatchGroup
    <2> QED
        BY <2>1
<1>7. f = Body(f)
    <2>1. PICK g \in [0 .. L -> A] : IsRun(g, Inserted, step, order)
        <3> HIDE DEF A, step, order
        <3> QED
            BY <1>1, <1>4, <1>6, LoopRuns
    <2> HIDE DEF A, order, MatchGroup
    <2>2. ASSUME NEW n \in 1 .. L
          PROVE g[n] = MatchGroup(g[n - 1], order[n])
        <3>1. g[n - 1] \in A /\ order[n] \in Bases
            BY <1>2
        <3> QED
            BY <2>1, <3>1 DEF IsRun
    <2>3. \A n \in 0 .. L :
             g[n] = IF n = 0 THEN Inserted ELSE MatchGroup(g[n - 1], order[n])
        BY <1>2, <2>1, <2>2 DEF IsRun
    <2>4. g = Body(g)
        BY <2>3
    <2> HIDE DEF Body
    <2> QED
        BY <2>4
<1>8. Committed = f[L]
    BY DEF Committed, AfterAll, groups
<1>9. f[0] = Inserted /\ \A n \in 1 .. L : f[n] = MatchGroup(f[n - 1], order[n])
    <2> HIDE DEF f, order, MatchGroup
    <2> QED
        BY <1>2, <1>7
<1> HIDE DEF f
<1>10. 0 \in T
    <2>1. Sum(0) = {}
        BY <1>1, FirstFacts
    <2> DEFINE none == {}
    <2>2. Inserted = Books(FreshOf(none)) /\ Sum(0) = none
        BY <2>1, InsertedIsBooks
    <2>3. f[0] = Books(FreshOf(Sum(0))) /\ 0 \in 0 .. L
        <3> HIDE DEF Sum, none
        <3> QED
            BY <1>2, <1>9, <2>2
    <2> QED
        BY <2>3
<1>11. ASSUME NEW n \in 1 .. L, n - 1 \in T
       PROVE n \in T
    <2>1. f[n - 1] = Books(FreshOf(Sum(n - 1))) /\ n \in 0 .. L /\ n - 1 \in 0 .. L
        BY <1>2, <1>11
    <2>2. First(order, n) = First(order, n - 1) \cup {order[n]}
          /\ First(order, n - 1) \subseteq Bases
        BY <1>1, <2>1, FirstFacts
    <2>3. Sum(n) = Sum(n - 1) \cup Elems(groups.group[order[n]])
        BY <2>2
    <2>4. Sum(n - 1) \in SUBSET D
        BY <1>3, <2>2
    <2> HIDE DEF Sum, MatchGroup
    <2>5. f[n] = Books(FreshOf(Sum(n)))
        BY <1>2, <1>5, <1>9, <2>1, <2>3, <2>4
    <2> QED
        BY <2>1, <2>5
<1>12. L \in T
    <2> HIDE DEF T
    <2>1. 0 .. L \subseteq T
        BY <1>2, <1>10, <1>11, EveryTurn
    <2> QED
        BY <1>2, <2>1
<1>13. Sum(L) = D
    <2>1. First(order, L) = Elems(order) /\ First(order, L) \subseteq Bases
        <3> HIDE DEF order
        <3>1. First(order, L) = Elems(order)
            BY <1>1, FirstFacts
        <3>2. L \in 0 .. L
            BY <1>2
        <3> QED
            BY <1>1, <3>1, <3>2, FirstFacts
    <2> QED
        BY <1>1, <1>3, <2>1
<1> QED
    BY <1>8, <1>12, <1>13 DEF D

(* Whatever is staged, the loops of a commit write what the step Commit     *)
(* writes.                                                                  *)
LEMMA LoopsCommit ==
    ASSUME Inv, Commit
    PROVE Committed = [matches |-> matches', link |-> link', basis |-> basis',
                       aliases |-> aliases', present |-> present', indexed |-> indexed']
<1>1. PICK K \in SUBSET DOMAIN staged :
         /\ KeepsFirst(staged, K)
         /\ LET ps == {staged[i] : i \in {k \in K : Fresh(staged[k])}} IN
            /\ present' = [s \in Sides |-> present[s] \cup rows[s] \cup Ends(ps, s)]
            /\ indexed' = [s \in Sides |-> indexed[s] \cup rows[s] \cup Ends(ps, s)]
            /\ Install(ps)
    BY DEF Commit
<1> DEFINE ps == {staged[i] : i \in {k \in K : Fresh(staged[k])}}
           all == {staged[i] : i \in K}
<1>2. staged \in Seq(Pair)
    BY DEF Inv, TypeOK
<1>3. Finalized(staged) \in Seq(Pair) /\ Elems(Finalized(staged)) = all
    BY <1>1, <1>2, FinalizedKeepsFirst
<1>4. Disjoint(all)
    <2>1. all \in SUBSET Pair
        BY <1>2
    <2>2. ASSUME NEW i \in K, NEW j \in K, Collide(staged[i], staged[j])
          PROVE i = j
        <3>1. i \in Nat /\ j \in Nat
            BY <1>2
        <3>2. ~(i < j) /\ ~(j < i)
            BY <1>1, <2>2 DEF KeepsFirst, Collide
        <3> QED
            BY <3>1, <3>2
    <2> QED
        BY <2>1, <2>2 DEF Disjoint
<1>5. FreshOf(all) = ps
    BY DEF FreshOf
<1>6. Committed = Books(ps)
    <2> HIDE DEF all, ps
    <2> QED
        BY <1>3, <1>4, <1>5, CommittedInstalls
<1> QED
    BY <1>1, <1>6 DEF Books, Install, Views, BasisOf

(* LoopsAgreeWithCommit: whatever is staged, _finalized_matches, by_basis   *)
(* and bulk_match leave the catalog that the one-step Commit leaves.        *)
THEOREM CommitIsItsLoops == Spec => LoopsAgreeWithCommit
<1>1. Inv /\ [Next]_vars =>
        [Commit => Committed = [matches |-> matches', link |-> link', basis |-> basis',
                                aliases |-> aliases', present |-> present',
                                indexed |-> indexed']]_vars
    BY LoopsCommit
<1> QED
    BY <1>1, Invariance, PTL DEF Spec, LoopsAgreeWithCommit

-------------------------------------------------------------------------------
(* The catalog implements PairCatalog *)

(* PairSet, as a function of the maps it is read from. *)
PairsOf(m, b) ==
    {[orig |-> x, recomp |-> m["orig"][x], basis |-> b[x]] :
        x \in {a \in Addrs : m["orig"][a] # None}}

LEMMA PairsOfMaps ==
    ASSUME NEW m \in [Sides -> [Addrs -> Addrs \cup {None}]],
           NEW b \in [Addrs -> Bases \cup {None}],
           \A x, y \in Addrs : m["orig"][x] = y <=> m["recomp"][y] = x,
           \A a \in Addrs : b[a] # None <=> m["orig"][a] # None
    PROVE /\ PairsOf(m, b) \in SUBSET Pair
          /\ Abstract!OneToOne(PairsOf(m, b))
          /\ \A s \in Sides, a \in Addrs :
                Abstract!Paired(PairsOf(m, b), s, a) <=> m[s][a] # None
<1>1. "orig" \in Sides /\ "recomp" \in Sides
    BY DEF Sides
<1>2. ASSUME NEW p \in PairsOf(m, b)
      PROVE /\ p \in Pair
            /\ m["orig"][p.orig] = p.recomp
            /\ m["recomp"][p.recomp] = p.orig
            /\ b[p.orig] = p.basis
    <2>1. PICK x \in Addrs : /\ m["orig"][x] # None
                             /\ p = [orig |-> x, recomp |-> m["orig"][x], basis |-> b[x]]
        BY DEF PairsOf
    <2>2. m["orig"][x] \in Addrs /\ b[x] \in Bases
        BY <1>1, <2>1
    <2> QED
        BY <2>1, <2>2 DEF Pair
<1>3. PairsOf(m, b) \in SUBSET Pair
    BY <1>2
<1>4. Abstract!OneToOne(PairsOf(m, b))
    <2> SUFFICES ASSUME NEW p \in PairsOf(m, b), NEW q \in PairsOf(m, b),
                        p.orig = q.orig \/ p.recomp = q.recomp
                 PROVE p = q
        BY DEF Abstract!OneToOne
    <2>1. p.orig = q.orig /\ p.recomp = q.recomp /\ p.basis = q.basis
        BY <1>2
    <2>2. p \in Pair /\ q \in Pair
        BY <1>2
    <2> QED
        BY <2>1, <2>2 DEF Pair
<1>5. ASSUME NEW a \in Addrs
      PROVE Abstract!Paired(PairsOf(m, b), "orig", a) <=> m["orig"][a] # None
    <2>1. ASSUME m["orig"][a] # None
          PROVE Abstract!Paired(PairsOf(m, b), "orig", a)
        <3>1. [orig |-> a, recomp |-> m["orig"][a], basis |-> b[a]] \in PairsOf(m, b)
            BY <2>1 DEF PairsOf
        <3> QED
            BY <3>1 DEF Abstract!Paired, Abstract!At
    <2>2. ASSUME Abstract!Paired(PairsOf(m, b), "orig", a)
          PROVE m["orig"][a] # None
        BY <1>2, <2>2, CatalogAssumption DEF Abstract!Paired, Abstract!At, Pair
    <2> QED
        BY <2>1, <2>2
<1>6. ASSUME NEW a \in Addrs
      PROVE Abstract!Paired(PairsOf(m, b), "recomp", a) <=> m["recomp"][a] # None
    <2>1. ASSUME m["recomp"][a] # None
          PROVE Abstract!Paired(PairsOf(m, b), "recomp", a)
        <3> DEFINE x == m["recomp"][a]
        <3>1. x \in Addrs /\ m["orig"][x] = a
            BY <1>1, <2>1
        <3>2. [orig |-> x, recomp |-> a, basis |-> b[x]] \in PairsOf(m, b)
            BY <3>1, CatalogAssumption DEF PairsOf
        <3> QED
            BY <3>2 DEF Abstract!Paired, Abstract!At
    <2>2. ASSUME Abstract!Paired(PairsOf(m, b), "recomp", a)
          PROVE m["recomp"][a] # None
        BY <1>2, <2>2, CatalogAssumption DEF Abstract!Paired, Abstract!At, Pair
    <2> QED
        BY <2>1, <2>2
<1> QED
    BY <1>3, <1>4, <1>5, <1>6 DEF Sides

(* An edge is in EdgeSet exactly when the alias map holds it. *)
EdgesOf(al) ==
    {[side |-> t[1], addr |-> t[2], of |-> al[t[1]][t[2]]] :
        t \in {u \in Sides \X Addrs : al[u[1]][u[2]] # None}}

LEMMA EdgesOfMap ==
    ASSUME NEW al \in [Sides -> [Addrs -> Addrs \cup {None}]]
    PROVE \A e : e \in EdgesOf(al) <=>
              \E s \in Sides, a \in Addrs :
                  /\ al[s][a] # None
                  /\ e = [side |-> s, addr |-> a, of |-> al[s][a]]
<1> SUFFICES ASSUME NEW e
             PROVE e \in EdgesOf(al) <=>
                       \E s \in Sides, a \in Addrs :
                           /\ al[s][a] # None
                           /\ e = [side |-> s, addr |-> a, of |-> al[s][a]]
    OBVIOUS
<1>1. ASSUME e \in EdgesOf(al)
      PROVE \E s \in Sides, a \in Addrs :
                /\ al[s][a] # None
                /\ e = [side |-> s, addr |-> a, of |-> al[s][a]]
    <2>1. PICK t \in Sides \X Addrs :
             /\ al[t[1]][t[2]] # None
             /\ e = [side |-> t[1], addr |-> t[2], of |-> al[t[1]][t[2]]]
        BY <1>1 DEF EdgesOf
    <2> QED
        BY <2>1
<1>2. ASSUME NEW s \in Sides, NEW a \in Addrs, al[s][a] # None,
             e = [side |-> s, addr |-> a, of |-> al[s][a]]
      PROVE e \in EdgesOf(al)
    <2>1. <<s, a>> \in {u \in Sides \X Addrs : al[u[1]][u[2]] # None}
        BY <1>2
    <2> QED
        BY <1>2, <2>1 DEF EdgesOf
<1> QED
    BY <1>1, <1>2

LEMMA MapsOfInv ==
    ASSUME Inv
    PROVE /\ PairSet = PairsOf(matches, basis)
          /\ EdgeSet = EdgesOf(aliases)
          /\ PairSet \in SUBSET Pair
          /\ Abstract!OneToOne(PairSet)
          /\ \A s \in Sides, a \in Addrs :
                Abstract!Paired(PairSet, s, a) <=> matches[s][a] # None
<1>1. PairSet = PairsOf(matches, basis) /\ EdgeSet = EdgesOf(aliases)
    BY DEF PairSet, PairsOf, EdgeSet, EdgesOf
<1>2. matches \in [Sides -> [Addrs -> Addrs \cup {None}]]
      /\ basis \in [Addrs -> Bases \cup {None}]
    BY DEF Inv, TypeOK
<1>3. \A x, y \in Addrs : matches["orig"][x] = y <=> matches["recomp"][y] = x
    BY DEF Inv, OneToOne
<1>4. \A a \in Addrs : basis[a] # None <=> matches["orig"][a] # None
    BY DEF Inv, CopiesAgree
<1>5. /\ PairsOf(matches, basis) \in SUBSET Pair
      /\ Abstract!OneToOne(PairsOf(matches, basis))
      /\ \A s \in Sides, a \in Addrs :
            Abstract!Paired(PairsOf(matches, basis), s, a) <=> matches[s][a] # None
    BY <1>2, <1>3, <1>4, PairsOfMaps
<1> QED
    BY <1>1, <1>5

LEMMA MapsOfInvNext ==
    ASSUME Inv'
    PROVE /\ PairSet' = PairsOf(matches', basis')
          /\ EdgeSet' = EdgesOf(aliases')
          /\ PairSet' \in SUBSET Pair
          /\ Abstract!OneToOne(PairSet')
          /\ \A s \in Sides, a \in Addrs :
                Abstract!Paired(PairSet', s, a) <=> matches'[s][a] # None
<1>1. PairSet' = PairsOf(matches', basis') /\ EdgeSet' = EdgesOf(aliases')
    BY DEF PairSet, PairsOf, EdgeSet, EdgesOf
<1>2. matches' \in [Sides -> [Addrs -> Addrs \cup {None}]]
      /\ basis' \in [Addrs -> Bases \cup {None}]
    BY DEF Inv, TypeOK
<1>3. \A x, y \in Addrs : matches'["orig"][x] = y <=> matches'["recomp"][y] = x
    BY DEF Inv, OneToOne
<1>4. \A a \in Addrs : basis'[a] # None <=> matches'["orig"][a] # None
    BY DEF Inv, CopiesAgree
<1>5. /\ PairsOf(matches', basis') \in SUBSET Pair
      /\ Abstract!OneToOne(PairsOf(matches', basis'))
      /\ \A s \in Sides, a \in Addrs :
            Abstract!Paired(PairsOf(matches', basis'), s, a) <=> matches'[s][a] # None
    BY <1>2, <1>3, <1>4, PairsOfMaps
<1> QED
    BY <1>1, <1>5

(* Installing pairs is the abstract AddPairs. *)
LEMMA InstallAddsPairs ==
    ASSUME Inv, Inv', ~frozen, frozen' = frozen,
           NEW ps, NEW more \in [Sides -> SUBSET Addrs], InstallStep(ps, more)
    PROVE Abstract!AddPairs
<1>1. PairSet' \in SUBSET Abstract!Pair /\ Abstract!OneToOne(PairSet')
    BY MapsOfInvNext DEF Abstract!Pair, Pair
<1>2. PairSet \subseteq PairSet'
    <2> SUFFICES ASSUME NEW x \in Addrs, matches["orig"][x] # None
                 PROVE [orig |-> x, recomp |-> matches["orig"][x], basis |-> basis[x]]
                         \in PairSet'
        BY DEF PairSet
    <2>1. "orig" \in Sides
        BY DEF Sides
    <2>2. matches'["orig"][x] = matches["orig"][x] /\ basis'[x] = basis[x]
        BY <2>1, InstallKeepsPairs
    <2> QED
        BY <2>2 DEF PairSet
<1>3. EdgeSet' = {e \in EdgeSet : ~Abstract!Paired(PairSet', e.side, e.addr)}
    <2>1. ASSUME NEW s \in Sides, NEW a \in Addrs
          PROVE aliases'[s][a] = IF matches'[s][a] # None THEN None ELSE aliases[s][a]
        <3>1. CASE a \in Ends(ps, s)
            BY <3>1, InstallMatches DEF InstallStep, Install, AliasesLeft
        <3>2. CASE a \notin Ends(ps, s)
            <4>1. aliases'[s][a] = aliases[s][a]
                BY <3>2 DEF InstallStep, Install, AliasesLeft
            <4>2. matches'[s][a] = matches[s][a]
                BY <3>2, InstallMatches
            <4> QED
                BY <4>1, <4>2 DEF Inv, AliasesNamePairs
        <3> QED
            BY <3>1, <3>2
    <2>2. /\ aliases \in [Sides -> [Addrs -> Addrs \cup {None}]]
          /\ aliases' \in [Sides -> [Addrs -> Addrs \cup {None}]]
        BY DEF Inv, TypeOK
    <2>3. ASSUME NEW e
          PROVE e \in EdgeSet' <=>
                  (e \in EdgeSet /\ ~Abstract!Paired(PairSet', e.side, e.addr))
        <3>1. ASSUME e \in EdgeSet'
              PROVE e \in EdgeSet /\ ~Abstract!Paired(PairSet', e.side, e.addr)
            <4>1. PICK s \in Sides, a \in Addrs :
                     /\ aliases'[s][a] # None
                     /\ e = [side |-> s, addr |-> a, of |-> aliases'[s][a]]
                BY <2>2, <3>1, EdgesOfMap, MapsOfInvNext
            <4>2. matches'[s][a] = None /\ aliases'[s][a] = aliases[s][a]
                BY <2>1, <4>1
            <4>3. e \in EdgeSet
                BY <2>2, <4>1, <4>2, EdgesOfMap, MapsOfInv
            <4>4. ~Abstract!Paired(PairSet', s, a)
                BY <4>2, MapsOfInvNext
            <4> QED
                BY <4>1, <4>3, <4>4
        <3>2. ASSUME e \in EdgeSet, ~Abstract!Paired(PairSet', e.side, e.addr)
              PROVE e \in EdgeSet'
            <4>1. PICK s \in Sides, a \in Addrs :
                     /\ aliases[s][a] # None
                     /\ e = [side |-> s, addr |-> a, of |-> aliases[s][a]]
                BY <2>2, <3>2, EdgesOfMap, MapsOfInv
            <4>2. matches'[s][a] = None
                BY <3>2, <4>1, MapsOfInvNext
            <4>3. aliases'[s][a] = aliases[s][a]
                BY <2>1, <4>2
            <4> QED
                BY <2>2, <4>1, <4>3, EdgesOfMap, MapsOfInvNext
        <3> QED
            BY <3>1, <3>2
    <2> QED
        BY <2>3
<1> QED
    BY <1>1, <1>2, <1>3 DEF Abstract!AddPairs

(* A set_alias that succeeds is the abstract AddAlias. *)
LEMMA SetAliasAddsEdge ==
    ASSUME Inv, Inv', NEW s \in Sides, NEW a \in Addrs, NEW c \in Addrs,
           SetAlias(s, a, c)
    PROVE \E e \in Abstract!Alias : Abstract!AddAlias(e)
<1> DEFINE e == [side |-> s, addr |-> a, of |-> c]
<1>1. e \in Abstract!Alias
    BY DEF Abstract!Alias, Abstract!Sides, Sides
<1>2. "orig" \in Sides
    BY DEF Sides
<1>3. ~Abstract!Paired(PairSet, s, a)
    BY MapsOfInv DEF SetAlias
<1>4. Abstract!Paired(PairSet, "orig", c)
    BY <1>2, MapsOfInv DEF SetAlias, RealPair, Inv, CopiesAgree
<1>5. aliases \in [Sides -> [Addrs -> Addrs \cup {None}]]
      /\ aliases' \in [Sides -> [Addrs -> Addrs \cup {None}]]
    BY DEF Inv, TypeOK
<1>6. ASSUME NEW f \in EdgeSet
      PROVE <<f.side, f.addr>> # <<s, a>>
    <2>1. PICK t \in Sides, d \in Addrs :
             /\ aliases[t][d] # None
             /\ f = [side |-> t, addr |-> d, of |-> aliases[t][d]]
        BY <1>5, EdgesOfMap, MapsOfInv
    <2> QED
        BY <2>1 DEF SetAlias
<1>7. EdgeSet' = EdgeSet \cup {e}
    <2>1. aliases'[s][a] = c /\ c # None
        BY <1>5, CatalogAssumption DEF SetAlias
    <2>2. \A t \in Sides, d \in Addrs :
             ~(t = s /\ d = a) => aliases'[t][d] = aliases[t][d]
        BY <1>5 DEF SetAlias
    <2>3. aliases[s][a] = None
        BY DEF SetAlias
    <2>4. ASSUME NEW f
          PROVE f \in EdgeSet' <=> f \in EdgeSet \/ f = e
        <3>1. f \in EdgeSet' <=>
                 \E t \in Sides, d \in Addrs :
                    /\ aliases'[t][d] # None
                    /\ f = [side |-> t, addr |-> d, of |-> aliases'[t][d]]
            BY <1>5, EdgesOfMap, MapsOfInvNext
        <3>2. f \in EdgeSet <=>
                 \E t \in Sides, d \in Addrs :
                    /\ aliases[t][d] # None
                    /\ f = [side |-> t, addr |-> d, of |-> aliases[t][d]]
            BY <1>5, EdgesOfMap, MapsOfInv
        <3> QED
            BY <2>1, <2>2, <2>3, <3>1, <3>2
    <2> QED
        BY <2>4
<1>8. PairSet' = PairSet /\ ~frozen /\ frozen' = frozen
    BY DEF SetAlias, PairSet
<1>9. Abstract!AddAlias(e)
    BY <1>3, <1>4, <1>6, <1>7, <1>8 DEF Abstract!AddAlias
<1> QED
    BY <1>1, <1>9

LEMMA StepImplementsPairCatalog ==
    ASSUME Inv, Inv', [Next]_vars
    PROVE [Abstract!Next]_<<PairSet, EdgeSet, frozen>>
<1>1. CASE Commit
    <2>1. PICK ps : InstallStep(ps, rows)
        BY <1>1, CommitInstalls DEF Inv
    <2>2. rows \in [Sides -> SUBSET Addrs] /\ ~frozen /\ frozen' = frozen
        BY <1>1 DEF Inv, TypeOK, Commit
    <2> QED
        BY <2>1, <2>2, InstallAddsPairs DEF Abstract!Next
<1>2. ASSUME NEW b \in Bases, NEW list \in PairLists(b), BulkMatch(list)
      PROVE Abstract!Next
    <2>1. PICK ps : InstallStep(ps, NoRows)
        BY <1>2, BulkMatchInstalls DEF Inv
    <2>2. NoRows \in [Sides -> SUBSET Addrs] /\ ~frozen /\ frozen' = frozen
        BY <1>2 DEF NoRows, BulkMatch
    <2> QED
        BY <2>1, <2>2, InstallAddsPairs DEF Abstract!Next
<1>3. ASSUME NEW s \in Sides, NEW a \in Addrs, NEW c \in Addrs, SetAlias(s, a, c)
      PROVE Abstract!Next
    BY <1>3, SetAliasAddsEdge DEF Abstract!Next
<1>4. CASE Freeze
    BY <1>4 DEF Freeze, pairVars, Abstract!Next, Abstract!Seal, PairSet, EdgeSet
<1>5. CASE UNCHANGED catalog
    BY <1>5 DEF catalog, pairVars, PairSet, EdgeSet
<1>6. ASSUME ~Commit,
             ~(\E b \in Bases : \E list \in PairLists(b) : BulkMatch(list)),
             ~(\E s \in Sides, a, c \in Addrs : SetAlias(s, a, c)),
             ~Freeze
      PROVE UNCHANGED catalog
    BY <1>6 DEF Next, vars, OpenBatch, BatchSet, BatchMatch, Abort
<1> QED
    BY <1>1, <1>2, <1>3, <1>4, <1>5, <1>6

LEMMA InitImplementsPairCatalog == Init => Abstract!Init
<1> SUFFICES ASSUME Init PROVE Abstract!Init
    OBVIOUS
<1>1. "orig" \in Sides
    BY DEF Sides
<1>2. \A a \in Addrs : matches["orig"][a] = None
    BY <1>1 DEF Init
<1>3. PairSet = {}
    BY <1>2 DEF PairSet
<1>4. \A u \in Sides \X Addrs : aliases[u[1]][u[2]] = None
    BY DEF Init
<1>5. EdgeSet = {}
    BY <1>4 DEF EdgeSet
<1> QED
    BY <1>3, <1>5 DEF Init, Abstract!Init

(* Every behaviour of the catalog, with its staged batches, four copies and *)
(* loops, is one of the abstract growing one-to-one correspondence.         *)
THEOREM CatalogImplementsPairCatalog == Spec => ImplementsPairCatalog
<1>1. Inv /\ Inv' /\ [Next]_vars => [Abstract!Next]_<<PairSet, EdgeSet, frozen>>
    BY StepImplementsPairCatalog
<1> QED
    BY <1>1, InitImplementsPairCatalog, Invariance, PTL
    DEF Spec, ImplementsPairCatalog, Abstract!Spec, Abstract!vars
===============================================================================
