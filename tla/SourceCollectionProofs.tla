------------------------- MODULE SourceCollectionProofs -------------------------
(***************************************************************************)
(* Theorems about SourceCollection, for any units, files, collectors and   *)
(* contents, as long as nobody edits while a collection runs.              *)
(*                                                                         *)
(* AcceptedIndexIsCurrent speaks of the end of a collection.  What makes   *)
(* it inductive is what every phase knows: a hit found by Validate is an   *)
(* artifact of the present sources, and stays one although others rename   *)
(* over it, because whatever they rename into place is one too.  That a    *)
(* hit is current needs a fact about the cache: digests are of the records *)
(* beside them, unless a collection has renamed only the records yet, or   *)
(* was killed then.  What the kill left matches the sources only when they *)
(* are put back, and then its unit is among those returned.                *)
(***************************************************************************)
EXTENDS SourceCollection, TLAPS

Indexing == {"index", "publish", "rename", "describe", "load"}
Publishing == {"publish", "rename", "describe"}

(* Somebody has renamed the records of identity i, and not yet its digests. *)
Describing(i) ==
    \E d \in Collectors : pc[d] = "describe" /\ Identity(d, publishing[d][1]) = i

(* A hit is of the present sources, unless what a kill tore made it one. *)
HitIsSeen(u, i) == u \notin returned /\ Current(u, i) => artifact[i] = Seen(u)

(* Digests are of the files of their own unit, and of the records beside    *)
(* them unless those were renamed alone.                                    *)
DigestsAreKnown(u, i) ==
    meta[i] # None =>
        /\ \A f \in Files \ Includes[u] : meta[i][f] = None
        /\ artifact[i] = meta[i] \/ i \in torn \/ Describing(i)

CacheInv == \A i \in Identities : HitIsSeen(i[1], i) /\ DigestsAreKnown(i[1], i)

(* The units whose records collector c has of the present sources, once it  *)
(* has them.                                                                *)
Vouched(c) == fresh[c] \cup (Units \ returned)

(* What collector c knows in each phase. *)
HitsAreCurrent(c) ==
    /\ pc[c] = "validate" =>
        \A u \in (Units \ todo[c]) \ returned :
            u \notin fresh[c] => artifact[Identity(c, u)] = Seen(u)
    /\ pc[c] \in Indexing =>
        \A u \in (Units \ fresh[c]) \ returned : artifact[Identity(c, u)] = Seen(u)
    /\ pc[c] = "load" => todo[c] \cap fresh[c] = {}

OutputsAreCurrent(c) ==
    /\ pc[c] = "index" =>
        /\ todo[c] \subseteq fresh[c]
        /\ \A u \in fresh[c] \ todo[c] : output[c][u] = Seen(u)
    /\ pc[c] \in Publishing =>
        /\ todo[c] \subseteq fresh[c]
        /\ \A u \in fresh[c] : output[c][u] = Seen(u)

PublishingIsCurrent(c) ==
    /\ pc[c] \in {"rename", "describe"} =>
        /\ publishing[c] \in Units \X Reading
        /\ publishing[c][1] \in fresh[c]
        /\ publishing[c][2] = Seen(publishing[c][1])
    /\ pc[c] = "describe" =>
        artifact[Identity(c, publishing[c][1])] = Seen(publishing[c][1])

RecordsAreCurrent(c) ==
    /\ pc[c] \in Publishing => \A u \in fresh[c] \ todo[c] : records[c][u] = Seen(u)
    /\ pc[c] = "load" => \A u \in Vouched(c) \ todo[c] : records[c][u] = Seen(u)
    /\ pc[c] = "digest" => \A u \in Vouched(c) : records[c][u] = Seen(u)
    /\ pc[c] = "done" =>
        /\ digests[c] \in Reading
        /\ \A u \in Vouched(c) : records[c][u] = About(u, digests[c])

CollectorInv(c) ==
    /\ HitsAreCurrent(c)
    /\ OutputsAreCurrent(c)
    /\ PublishingIsCurrent(c)
    /\ RecordsAreCurrent(c)

Inv == TypeOK /\ CacheInv /\ \A c \in Collectors : CollectorInv(c)

-------------------------------------------------------------------------------
(* Readings *)

(* What is seen of a unit is a reading of the present sources. *)
LEMMA SeenReading ==
    ASSUME TypeOK, NEW u \in Units
    PROVE  /\ Seen(u) \in Reading
           /\ Seen(u) # None
           /\ \A f \in Files :
                /\ f \in Includes[u] => Seen(u)[f] = file[f]
                /\ f \notin Includes[u] => Seen(u)[f] = None
<1>1. file \in [Files -> Contents] /\ None \notin Reading
      BY CollectionAssumption DEF TypeOK
<1>2. Seen(u) \in Reading
      BY <1>1 DEF Seen, About, Reading
<1> QED  BY <1>1, <1>2 DEF Seen, About

-------------------------------------------------------------------------------
(* The invariant *)

LEMMA InitInv == Init => Inv
<1> SUFFICES ASSUME Init PROVE Inv
    OBVIOUS
<1>1. TypeOK
      BY CollectionAssumption
      DEF Init, TypeOK, Phases, Nothing
<1>2. CacheInv
      BY DEF Init, CacheInv, HitIsSeen, DigestsAreKnown, Current
<1>3. ASSUME NEW c \in Collectors PROVE CollectorInv(c)
      BY DEF Init, CollectorInv, HitsAreCurrent, OutputsAreCurrent,
             PublishingIsCurrent, RecordsAreCurrent, Indexing, Publishing
<1> QED  BY <1>1, <1>2, <1>3 DEF Inv

(* One step of one collector. *)
Step(c) ==
    \/ Start(c) \/ Validate(c) \/ Index(c)
    \/ Digest(c) \/ Publish(c)
    \/ Load(c) \/ Finish(c) \/ End(c)

(* One entry of a function of functions changes. *)
LEMMA NestedUpdate ==
    ASSUME NEW A, NEW B, NEW R, NEW F \in [A -> [B -> R]],
           NEW a \in A, NEW b \in B, NEW r \in R
    PROVE  /\ [F EXCEPT ![a][b] = r] \in [A -> [B -> R]]
           /\ \A x \in A, y \in B :
                [F EXCEPT ![a][b] = r][x][y] = IF x = a /\ y = b THEN r ELSE F[x][y]
<1>1. [F[a] EXCEPT ![b] = r] \in [B -> R]
      OBVIOUS
<1>2. [F EXCEPT ![a][b] = r] = [F EXCEPT ![a] = [F[a] EXCEPT ![b] = r]]
      OBVIOUS
<1> QED  BY <1>1, <1>2

(* A collector enters a phase with some units left. *)
LEMMA EnterTyped ==
    ASSUME TypeOK, NEW c \in Collectors, NEW phase \in Phases,
           NEW units \in SUBSET Units, Enter(c, phase, units)
    PROVE  /\ pc' \in [Collectors -> Phases]
           /\ todo' \in [Collectors -> SUBSET Units]
BY DEF TypeOK, Enter

LEMMA TypeKept ==
    ASSUME Inv, Next
    PROVE  TypeOK'
<1>1. TypeOK
      BY DEF Inv
<1>2. ASSUME NEW f \in Files, Edit(f) PROVE TypeOK'
  <2>1. file' \in [Files -> Contents] /\ returned' \in SUBSET Units
        BY <1>1, <1>2 DEF Edit, Misled, TypeOK
  <2>2. edits' \in 0 .. MaxEdits
        BY <1>1, <1>2, CollectionAssumption DEF Edit, TypeOK
  <2> QED  BY <1>1, <1>2, <2>1, <2>2 DEF Edit, TypeOK, cache
<1>3. ASSUME NEW c \in Collectors, Step(c) PROVE TypeOK'
  <2> USE <1>1
  <2>1. /\ pc' \in [Collectors -> Phases]
        /\ todo' \in [Collectors -> SUBSET Units]
    <3> SUFFICES \E phase \in Phases, units \in SUBSET Units : Enter(c, phase, units)
        BY EnterTyped
    <3>1. /\ todo[c] \in SUBSET Units
          /\ fresh[c] \in SUBSET Units
          BY DEF TypeOK
    <3>2. /\ \A u \in Units : todo[c] \ {u} \in SUBSET Units
          /\ Units \ fresh[c] \in SUBSET Units
          /\ Units \in SUBSET Units
          /\ {} \in SUBSET Units
          BY <3>1
    <3>3. \A u \in todo[c] : todo[c] \ {u} \in SUBSET Units
          BY <3>1
    <3>4. CASE Start(c)
          BY <3>2, <3>4 DEF Start, Phases
    <3>5. CASE Validate(c)
          BY <3>1, <3>3, <3>5 DEF Validate, Phases
    <3>6. CASE Index(c)
          BY <3>1, <3>3, <3>6 DEF Index, Phases
    <3>7. CASE Digest(c)
          BY <3>2, <3>3, <3>7 DEF Digest, Phases
    <3>8. CASE Publish(c)
          BY <3>1, <3>8 DEF Publish, Phases
    <3>9. CASE Load(c)
          BY <3>2, <3>3, <3>9 DEF Load, Phases
    <3>10. CASE Finish(c)
          BY <3>2, <3>10 DEF Finish, Phases
    <3>11. CASE End(c)
          BY <3>2, <3>11 DEF End, Phases
    <3> QED  BY <1>3, <3>4, <3>5, <3>6, <3>7, <3>8, <3>9, <3>10, <3>11 DEF Step
  <2>2. \A u \in Units : Seen(u) \in Reading
        BY SeenReading
  <2>3. todo[c] \subseteq Units
        BY DEF TypeOK
  <2>4. CASE Start(c)
        BY <2>1, <2>4 DEF Start, TypeOK, sources, cache
  <2>5. CASE Validate(c)
    <3>1. \A u \in Units : file[Main[u]] \in Contents \cup {None}
          BY CollectionAssumption DEF TypeOK
    <3>2. main' \in [Collectors -> [Units -> Contents \cup {None}]]
      <4>1. main \in [Collectors -> [Units -> Contents \cup {None}]]
            BY DEF TypeOK
      <4>2. CASE UNCHANGED main
            BY <4>1, <4>2
      <4>3. ASSUME NEW u \in Units,
                   main' = [main EXCEPT ![c][u] = file[Main[u]]]
            PROVE  main' \in [Collectors -> [Units -> Contents \cup {None}]]
            BY <3>1, <4>1, <4>3, NestedUpdate
      <4> QED  BY <2>3, <2>5, <4>2, <4>3 DEF Validate
    <3>3. fresh' \in [Collectors -> SUBSET Units]
      <4>1. /\ fresh \in [Collectors -> SUBSET Units]
            /\ \A u \in todo[c] : fresh[c] \cup {u} \in SUBSET Units
            BY <2>3 DEF TypeOK
      <4> QED  BY <2>5, <4>1 DEF Validate
    <3> QED  BY <2>1, <2>5, <3>2, <3>3 DEF Validate, TypeOK, sources, cache
  <2>6. CASE Index(c)
    <3>1. output' \in [Collectors -> [Units -> Reading \cup {None}]]
      <4>1. output \in [Collectors -> [Units -> Reading \cup {None}]]
            BY DEF TypeOK
      <4>2. CASE UNCHANGED output
            BY <4>1, <4>2
      <4>3. ASSUME NEW u \in Units,
                   output' = [output EXCEPT ![c][u] = Seen(u)]
            PROVE  output' \in [Collectors -> [Units -> Reading \cup {None}]]
        <5>1. Seen(u) \in Reading \cup {None}
              BY <2>2
        <5> QED  BY <4>1, <4>3, <5>1, NestedUpdate
      <4> QED  BY <2>3, <2>6, <4>2, <4>3 DEF Index
    <3> QED  BY <2>1, <2>6, <3>1 DEF Index, TypeOK, sources, cache
  <2>7. CASE Digest(c)
    <3>1. records' \in [Collectors -> [Units -> Reading \cup {None}]]
      <4>1. records \in [Collectors -> [Units -> Reading \cup {None}]]
            BY DEF TypeOK
      <4>2. CASE UNCHANGED records
            BY <4>1, <4>2
      <4>3. ASSUME NEW u \in Units,
                   records' = [records EXCEPT ![c][u] = output[c][u]]
            PROVE  records' \in [Collectors -> [Units -> Reading \cup {None}]]
        <5>1. output[c][u] \in Reading \cup {None}
              BY DEF TypeOK
        <5> QED  BY <4>1, <4>3, <5>1, NestedUpdate
      <4> QED  BY <2>3, <2>7, <4>2, <4>3 DEF Digest
    <3>2. publishing' \in [Collectors -> (Units \X Reading) \cup {None}]
      <4>1. \A u \in todo[c] : <<u, Seen(u)>> \in (Units \X Reading) \cup {None}
            BY <2>2, <2>3
      <4>2. publishing \in [Collectors -> (Units \X Reading) \cup {None}]
            BY DEF TypeOK
      <4> QED  BY <2>7, <4>1, <4>2 DEF Digest
    <3> QED  BY <2>1, <2>7, <3>1, <3>2 DEF Digest, TypeOK, sources, cache
  <2>8. CASE Publish(c)
    <3>1. publishing[c] \in Units \X Reading
          BY <1>3, <2>8 DEF Inv, CollectorInv, PublishingIsCurrent, Publish
    <3>2. publishing[c][1] \in Units /\ publishing[c][2] \in Reading
          BY <3>1
    <3>3. output[c][publishing[c][1]] \in Reading \cup {None}
          BY <3>2 DEF TypeOK
    <3>4. /\ artifact' \in [Identities -> Reading \cup {None}]
          /\ meta' \in [Identities -> Reading \cup {None}]
          BY <2>8, <3>2, <3>3 DEF Publish, TypeOK
    <3>5. publishing' \in [Collectors -> (Units \X Reading) \cup {None}]
          BY <2>8 DEF Publish, TypeOK
    <3>6. torn' \in SUBSET Identities
          BY <2>8 DEF Publish, TypeOK
    <3> QED  BY <2>1, <2>8, <3>4, <3>5, <3>6 DEF Publish, TypeOK, sources
  <2>9. CASE Load(c)
    <3>1. \A u \in Units : artifact[Identity(c, u)] \in Reading \cup {None}
          BY DEF Identity, Identities, TypeOK
    <3>2. records' \in [Collectors -> [Units -> Reading \cup {None}]]
      <4>1. records \in [Collectors -> [Units -> Reading \cup {None}]]
            BY DEF TypeOK
      <4>2. CASE UNCHANGED records
            BY <4>1, <4>2
      <4>3. ASSUME NEW u \in Units,
                   records' = [records EXCEPT ![c][u] = artifact[Identity(c, u)]]
            PROVE  records' \in [Collectors -> [Units -> Reading \cup {None}]]
        <5>1. artifact[Identity(c, u)] \in Reading \cup {None}
              BY <3>1
        <5> QED  BY <4>1, <4>3, <5>1, NestedUpdate
      <4> QED  BY <2>3, <2>9, <4>2, <4>3 DEF Load
    <3> QED  BY <2>1, <2>9, <3>2 DEF Load, TypeOK, sources, cache
  <2>10. CASE Finish(c)
    <3>1. digests' \in [Collectors -> Reading \cup {None}]
      <4>1. file \in Reading
            BY DEF TypeOK, Reading
      <4> QED  BY <2>10, <4>1 DEF Finish, TypeOK
    <3> QED  BY <2>1, <2>10, <3>1 DEF Finish, TypeOK, sources, cache
  <2>11. CASE End(c)
    <3>1. /\ Nothing \in [Units -> Contents \cup {None}]
          /\ Nothing \in [Units -> Reading \cup {None}]
          BY DEF Nothing
    <3>2. /\ main' \in [Collectors -> [Units -> Contents \cup {None}]]
          /\ output' \in [Collectors -> [Units -> Reading \cup {None}]]
          /\ records' \in [Collectors -> [Units -> Reading \cup {None}]]
          BY <2>11, <3>1 DEF End, TypeOK
    <3>3. /\ fresh' \in [Collectors -> SUBSET Units]
          /\ publishing' \in [Collectors -> (Units \X Reading) \cup {None}]
          /\ digests' \in [Collectors -> Reading \cup {None}]
          BY <2>11 DEF End, TypeOK
    <3>4. torn' \in SUBSET Identities
          BY <2>11 DEF End, Undescribed, TypeOK
    <3> QED  BY <2>1, <2>11, <3>2, <3>3, <3>4 DEF End, TypeOK, sources
  <2> QED  BY <1>3, <2>4, <2>5, <2>6, <2>7, <2>8, <2>9, <2>10, <2>11 DEF Step
<1> QED  BY <1>2, <1>3 DEF Next, Step

(* Only Publish touches the cache, and what it puts there is what is seen.  *)
LEMMA PublishInstallsSeen ==
    ASSUME Inv, NEW c \in Collectors, Publish(c)
    PROVE  LET u == publishing[c][1]
               i == Identity(c, u)
           IN /\ u \in Units
              /\ i \in Identities
              /\ \/ /\ artifact' = [artifact EXCEPT ![i] = Seen(u)]
                    /\ UNCHANGED <<meta, torn, publishing>>
                    /\ pc' = [pc EXCEPT ![c] = "describe"]
                 \/ /\ meta' = [meta EXCEPT ![i] = Seen(u)]
                    /\ artifact' = artifact
                    /\ artifact[i] = Seen(u)
                    /\ torn' = torn \ {i}
                    /\ pc' = [pc EXCEPT ![c] = "publish"]
                    /\ publishing' = [publishing EXCEPT ![c] = None]
<1> DEFINE u == publishing[c][1]
<1>1. /\ publishing[c] \in Units \X Reading
      /\ u \in fresh[c]
      /\ publishing[c][2] = Seen(u)
      BY DEF Inv, CollectorInv, PublishingIsCurrent, Publish
<1>2. output[c][u] = Seen(u)
      BY <1>1 DEF Inv, CollectorInv, OutputsAreCurrent, Publish, Publishing
<1>3. u \in Units
      BY <1>1
<1>4. Identity(c, u) \in Identities
      BY <1>3 DEF Inv, TypeOK, Identity, Identities
<1>5. CASE pc[c] = "rename"
      BY <1>2, <1>3, <1>4, <1>5 DEF Publish, Enter
<1>6. CASE pc[c] = "describe"
  <2>1. artifact[Identity(c, u)] = Seen(u)
        BY <1>6 DEF Inv, CollectorInv, PublishingIsCurrent
  <2> QED  BY <1>1, <1>3, <1>4, <1>6, <2>1 DEF Publish, Enter
<1> QED  BY <1>5, <1>6 DEF Publish

LEMMA EditKeepsCache ==
    ASSUME Inv, ~EditsAnyTime, NEW f \in Files, Edit(f)
    PROVE  CacheInv'
<1>1. TypeOK /\ CacheInv /\ TypeOK'
  <2>1. Next
        BY DEF Next
  <2> QED  BY <2>1, TypeKept DEF Inv
<1>2. /\ UNCHANGED <<artifact, meta, torn, pc, publishing, main>>
      /\ \A d \in Collectors : pc[d] # "describe"
      BY DEF Edit, cache
<1>3. returned' = returned \cup Misled(file')
      BY DEF Edit
<1> SUFFICES ASSUME NEW i \in Identities
             PROVE  HitIsSeen(i[1], i)' /\ DigestsAreKnown(i[1], i)'
    BY DEF CacheInv
<1> DEFINE u == i[1]
<1>5. /\ u \in Units
      /\ Includes[u] \subseteq Files
      /\ HitIsSeen(u, i) /\ DigestsAreKnown(u, i)
      BY <1>1, CollectionAssumption DEF CacheInv, Identities
<1>6. meta[i] # None => artifact[i] = meta[i] \/ i \in torn
      BY <1>2, <1>5 DEF DigestsAreKnown, Describing
<1>7. DigestsAreKnown(u, i)'
      BY <1>2, <1>5, <1>6 DEF DigestsAreKnown
<1>8. HitIsSeen(u, i)'
  <2> SUFFICES ASSUME u \notin returned', Current(u, i)'
               PROVE  artifact'[i] = Seen(u)'
      BY DEF HitIsSeen
  <2>1. meta[i] # None /\ \A g \in Includes[u] : meta[i][g] = file'[g]
        BY <1>2 DEF Current
  <2>2. CASE artifact[i] = meta[i]
    <3>1. meta[i] \in Reading
          BY <1>1, <2>1 DEF TypeOK
    <3>2. \A g \in Files \ Includes[u] : meta[i][g] = None
          BY <1>5, <2>1 DEF DigestsAreKnown
    <3>3. meta[i] = [g \in Files |-> IF g \in Includes[u] THEN file'[g] ELSE None]
      <4>1. meta[i] = [g \in Files |-> meta[i][g]]
            BY <3>1 DEF Reading
      <4> QED  BY <2>1, <3>2, <4>1
    <3> QED  BY <1>2, <2>2, <3>3 DEF Seen, About
  <2>3. CASE i \in torn
        BY <1>3, <1>5, <2>1, <2>3 DEF Misled
  <2> QED  BY <1>6, <2>1, <2>2, <2>3
<1> QED  BY <1>7, <1>8

LEMMA PublishKeepsCache ==
    ASSUME Inv, NEW c \in Collectors, Publish(c)
    PROVE  CacheInv'
<1> DEFINE w == publishing[c][1]
           j == Identity(c, w)
<1>1. TypeOK /\ CacheInv
      BY DEF Inv
<1>2. /\ w \in Units /\ j \in Identities
      /\ \/ /\ artifact' = [artifact EXCEPT ![j] = Seen(w)]
            /\ UNCHANGED <<meta, torn, publishing>>
            /\ pc' = [pc EXCEPT ![c] = "describe"]
         \/ /\ meta' = [meta EXCEPT ![j] = Seen(w)]
            /\ artifact' = artifact
            /\ artifact[j] = Seen(w)
            /\ torn' = torn \ {j}
            /\ pc' = [pc EXCEPT ![c] = "publish"]
            /\ publishing' = [publishing EXCEPT ![c] = None]
      BY PublishInstallsSeen
<1>3. UNCHANGED <<file, returned, main>>
      BY DEF Publish, sources
<1>4. /\ artifact \in [Identities -> Reading \cup {None}]
      /\ meta \in [Identities -> Reading \cup {None}]
      /\ pc \in [Collectors -> Phases]
      /\ publishing \in [Collectors -> (Units \X Reading) \cup {None}]
      BY <1>1 DEF TypeOK
<1>5. \A u \in Units : Seen(u)' = Seen(u)
      BY <1>3 DEF Seen, About
<1>6. \A u : Identity(c, u)' = Identity(c, u)
      BY <1>3 DEF Identity
<1> SUFFICES ASSUME NEW i \in Identities
             PROVE  HitIsSeen(i[1], i)' /\ DigestsAreKnown(i[1], i)'
    BY DEF CacheInv
<1> DEFINE u == i[1]
<1>7. u \in Units /\ HitIsSeen(u, i) /\ DigestsAreKnown(u, i)
      BY <1>1 DEF CacheInv, Identities
<1>8. CASE i # j
  <2>1. artifact'[i] = artifact[i] /\ meta'[i] = meta[i] /\ (i \in torn' <=> i \in torn)
        BY <1>2, <1>4, <1>8
  <2>2. Describing(i) => Describing(i)'
    <3> SUFFICES ASSUME NEW d \in Collectors, pc[d] = "describe",
                        Identity(d, publishing[d][1]) = i
                 PROVE  Describing(i)'
        BY DEF Describing
    <3>1. d # c
          BY <1>8
    <3>2. pc'[d] = pc[d] /\ publishing'[d] = publishing[d]
          BY <1>2, <1>4, <3>1
    <3>3. Identity(d, publishing[d][1])' = Identity(d, publishing[d][1])
          BY <1>3, <3>2 DEF Identity
    <3> QED  BY <3>2, <3>3 DEF Describing
  <2>3. HitIsSeen(u, i)'
        BY <1>3, <1>5, <1>7, <2>1 DEF HitIsSeen, Current
  <2>4. DigestsAreKnown(u, i)'
        BY <1>7, <2>1, <2>2 DEF DigestsAreKnown
  <2> QED  BY <2>3, <2>4
<1>9. CASE i = j
  <2>1. u = w
        BY <1>9 DEF Identity
  <2>2. artifact'[i] = Seen(w)
        BY <1>2, <1>4, <1>9
  <2>3. HitIsSeen(u, i)'
        BY <1>2, <1>5, <2>1, <2>2 DEF HitIsSeen
  <2>4. \A f \in Files \ Includes[w] : Seen(w)[f] = None
        BY <1>1, <1>2, SeenReading
  <2>5. CASE pc' = [pc EXCEPT ![c] = "describe"] /\ UNCHANGED <<meta, publishing>>
    <3>1. pc'[c] = "describe" /\ Identity(c, publishing[c][1])' = i
          BY <1>3, <1>4, <1>9, <2>5 DEF Identity
    <3>2. Describing(i)'
          BY <3>1 DEF Describing
    <3> QED  BY <1>7, <2>3, <2>5, <3>2 DEF DigestsAreKnown
  <2>6. CASE meta' = [meta EXCEPT ![j] = Seen(w)]
    <3>1. meta'[i] = Seen(w)
          BY <1>4, <1>9, <2>6
    <3> QED  BY <2>1, <2>2, <2>3, <2>4, <3>1 DEF DigestsAreKnown
  <2> QED  BY <1>2, <2>5, <2>6
<1> QED  BY <1>8, <1>9

(* A collection that ends between its two renames leaves its identity torn. *)
LEMMA EndKeepsCache ==
    ASSUME Inv, NEW c \in Collectors, End(c)
    PROVE  CacheInv'
<1>1. TypeOK /\ CacheInv
      BY DEF Inv
<1>2. /\ UNCHANGED <<file, returned, artifact, meta>>
      /\ torn' = torn \cup Undescribed(c)
      BY DEF End, sources
<1>3. \A u \in Units : Seen(u)' = Seen(u)
      BY <1>2 DEF Seen, About
<1> SUFFICES ASSUME NEW i \in Identities
             PROVE  HitIsSeen(i[1], i)' /\ DigestsAreKnown(i[1], i)'
    BY DEF CacheInv
<1> DEFINE u == i[1]
<1>4. u \in Units /\ HitIsSeen(u, i) /\ DigestsAreKnown(u, i)
      BY <1>1 DEF CacheInv, Identities
<1>5. HitIsSeen(u, i)'
      BY <1>2, <1>3, <1>4 DEF HitIsSeen, Current
<1>6. ASSUME NEW d \in Collectors, pc[d] = "describe",
             Identity(d, publishing[d][1]) = i, artifact[i] # meta[i]
      PROVE  i \in torn' \/ Describing(i)'
  <2>1. CASE d = c
        BY <1>2, <1>6, <2>1 DEF Undescribed
  <2>2. CASE d # c
    <3>1. pc'[d] = pc[d] /\ publishing'[d] = publishing[d] /\ main'[d] = main[d]
          BY <1>1, <2>2 DEF End, Enter, TypeOK
    <3>2. Identity(d, publishing[d][1])' = i
          BY <1>6, <3>1 DEF Identity
    <3> QED  BY <1>6, <3>1, <3>2 DEF Describing
  <2> QED  BY <2>1, <2>2
<1>7. DigestsAreKnown(u, i)'
      BY <1>2, <1>4, <1>6 DEF DigestsAreKnown, Describing
<1> QED  BY <1>5, <1>7

(* No other step is of a collector that has renamed records alone. *)
LEMMA OthersKeepCache ==
    ASSUME Inv, NEW c \in Collectors,
           \/ Start(c) \/ Validate(c) \/ Index(c)
           \/ Digest(c) \/ Load(c) \/ Finish(c)
    PROVE  CacheInv'
<1>1. TypeOK /\ CacheInv
      BY DEF Inv
<1>2. UNCHANGED <<file, returned, artifact, meta, torn>> /\ pc[c] # "describe"
      BY DEF Start, Validate, Index, Digest, Load, Finish, sources, cache
<1>3. \A u \in Units : Seen(u)' = Seen(u)
      BY <1>2 DEF Seen, About
<1>4. ASSUME NEW i \in Identities, Describing(i)
      PROVE  Describing(i)'
  <2>1. PICK d \in Collectors : pc[d] = "describe" /\ Identity(d, publishing[d][1]) = i
        BY <1>4 DEF Describing
  <2>2. d # c
        BY <1>2, <2>1
  <2>3. pc'[d] = pc[d] /\ publishing'[d] = publishing[d] /\ main'[d] = main[d]
    <3>1. pc'[d] = pc[d]
          BY <1>1, <2>2 DEF Start, Validate, Index, Digest, Load, Finish, Enter, TypeOK
    <3>2. publishing'[d] = publishing[d] /\ main'[d] = main[d]
          BY <1>1, <2>2 DEF Start, Validate, Index, Digest, Load, Finish, TypeOK
    <3> QED  BY <3>1, <3>2
  <2>4. Identity(d, publishing[d][1])' = i
        BY <2>1, <2>3 DEF Identity
  <2> QED  BY <2>1, <2>3, <2>4 DEF Describing
<1> SUFFICES ASSUME NEW i \in Identities
             PROVE  HitIsSeen(i[1], i)' /\ DigestsAreKnown(i[1], i)'
    BY DEF CacheInv
<1>5. i[1] \in Units /\ HitIsSeen(i[1], i) /\ DigestsAreKnown(i[1], i)
      BY <1>1 DEF CacheInv, Identities
<1>6. HitIsSeen(i[1], i)'
      BY <1>2, <1>3, <1>5 DEF HitIsSeen, Current
<1>7. DigestsAreKnown(i[1], i)'
      BY <1>2, <1>4, <1>5 DEF DigestsAreKnown
<1> QED  BY <1>6, <1>7

LEMMA CacheKept ==
    ASSUME Inv, ~EditsAnyTime, Next
    PROVE  CacheInv'
BY EditKeepsCache, PublishKeepsCache, EndKeepsCache, OthersKeepCache DEF Next

-------------------------------------------------------------------------------
(* What a collector knows *)

(* A collector's own step. *)
LEMMA OwnStep ==
    ASSUME Inv, NEW c \in Collectors, Step(c)
    PROVE  CollectorInv(c)'
<1> USE DEF Enter, sources, cache
<1>1. TypeOK /\ CacheInv /\ CollectorInv(c)
      BY DEF Inv
<1>2. /\ pc \in [Collectors -> Phases]
      /\ todo \in [Collectors -> SUBSET Units]
      /\ fresh \in [Collectors -> SUBSET Units]
      /\ main \in [Collectors -> [Units -> Contents \cup {None}]]
      /\ output \in [Collectors -> [Units -> Reading \cup {None}]]
      /\ records \in [Collectors -> [Units -> Reading \cup {None}]]
      /\ publishing \in [Collectors -> (Units \X Reading) \cup {None}]
      /\ digests \in [Collectors -> Reading \cup {None}]
      BY <1>1 DEF TypeOK
<1>3. todo[c] \subseteq Units /\ fresh[c] \subseteq Units
      BY <1>2
<1>4. CASE Start(c)
      BY <1>2, <1>4
      DEF Start, CollectorInv, HitsAreCurrent, OutputsAreCurrent,
          PublishingIsCurrent, RecordsAreCurrent, Indexing, Publishing
<1>11. CASE End(c)
      BY <1>2, <1>11
      DEF End, CollectorInv, HitsAreCurrent, OutputsAreCurrent,
          PublishingIsCurrent, RecordsAreCurrent, Indexing, Publishing
<1>5. CASE Validate(c)
  <2>1. CASE todo[c] = {} /\ Enter(c, "index", fresh[c]) /\ UNCHANGED <<main, fresh>>
    <3>1. /\ pc[c] = "validate" /\ pc'[c] = "index" /\ todo'[c] = fresh[c]
          /\ UNCHANGED <<file, returned, artifact, main, fresh>>
          BY <1>2, <1>5, <2>1 DEF Validate
    <3>2. \A u \in (Units \ fresh[c]) \ returned : artifact[Identity(c, u)] = Seen(u)
          BY <1>1, <2>1, <3>1 DEF CollectorInv, HitsAreCurrent
    <3> QED  BY <3>1, <3>2
             DEF CollectorInv, HitsAreCurrent, OutputsAreCurrent, PublishingIsCurrent,
                 RecordsAreCurrent, Indexing, Publishing, Identity, Seen, About
  <2>2. ASSUME NEW w \in todo[c], NEW miss \in BOOLEAN,
               ~Current(w, <<w, file[Main[w]]>>) => miss,
               main' = [main EXCEPT ![c][w] = file[Main[w]]],
               fresh' = [fresh EXCEPT ![c] = IF miss THEN @ \cup {w} ELSE @],
               Enter(c, "validate", todo[c] \ {w})
        PROVE  CollectorInv(c)'
    <3>1. /\ pc[c] = "validate" /\ pc'[c] = "validate" /\ todo'[c] = todo[c] \ {w}
          /\ UNCHANGED <<file, returned, artifact>>
          BY <1>2, <1>5, <2>2 DEF Validate
    <3>2. file[Main[w]] \in Contents
          BY <1>1, <1>3, CollectionAssumption DEF TypeOK
    <3>3. \A u \in Units : main'[c][u] = IF u = w THEN file[Main[w]] ELSE main[c][u]
          BY <1>2, <1>3, <2>2, <3>2, NestedUpdate
    <3>4. ASSUME NEW u \in Units, u \notin todo'[c], u \notin fresh'[c], u \notin returned'
          PROVE  artifact'[Identity(c, u)'] = Seen(u)'
      <4>1. Seen(u)' = Seen(u)
            BY <3>1 DEF Seen, About
      <4>2. CASE u = w
        <5>1. Current(w, <<w, file[Main[w]]>>)
              BY <1>2, <2>2, <3>4, <4>2
        <5>2. artifact[<<w, file[Main[w]]>>] = Seen(w)
              BY <1>1, <1>3, <3>1, <3>2, <3>4, <4>2, <5>1 DEF CacheInv, HitIsSeen, Identities
        <5> QED  BY <3>1, <3>3, <4>1, <4>2, <5>2 DEF Identity
      <4>3. CASE u # w
        <5>1. u \notin todo[c] /\ u \notin fresh[c]
              BY <1>2, <2>2, <3>1, <3>4, <4>3
        <5>2. artifact[Identity(c, u)] = Seen(u)
              BY <1>1, <3>1, <3>4, <5>1 DEF CollectorInv, HitsAreCurrent
        <5> QED  BY <3>1, <3>3, <4>1, <4>3, <5>2 DEF Identity
      <4> QED  BY <4>2, <4>3
    <3> QED  BY <3>1, <3>4
             DEF CollectorInv, HitsAreCurrent, OutputsAreCurrent, PublishingIsCurrent,
                 RecordsAreCurrent, Indexing, Publishing
  <2> QED  BY <1>5, <2>1, <2>2 DEF Validate
<1>6. CASE Index(c)
  <2>1. /\ pc[c] = "index"
        /\ UNCHANGED <<file, returned, artifact, main, fresh>>
        BY <1>6 DEF Index
  <2>2. /\ \A u \in Units : Seen(u)' = Seen(u)
        /\ \A u \in Units : Identity(c, u)' = Identity(c, u)
        BY <2>1 DEF Seen, About, Identity
  <2>3. HitsAreCurrent(c)'
    <3>1. pc'[c] \in {"index", "publish"}
          BY <1>2, <1>6 DEF Index
    <3> QED  BY <1>1, <2>1, <2>2, <3>1 DEF CollectorInv, HitsAreCurrent, Indexing
  <2>4. CASE todo[c] = {} /\ Enter(c, "publish", fresh[c]) /\ UNCHANGED output
    <3>1. /\ pc'[c] = "publish" /\ todo'[c] = fresh[c]
          /\ UNCHANGED output
          BY <1>2, <2>4
    <3>2. \A u \in fresh[c] : output[c][u] = Seen(u)
          BY <1>1, <2>1, <2>4 DEF CollectorInv, OutputsAreCurrent
    <3> QED  BY <1>3, <2>1, <2>2, <2>3, <3>1, <3>2
             DEF CollectorInv, OutputsAreCurrent, PublishingIsCurrent,
                 RecordsAreCurrent, Publishing
  <2>5. ASSUME NEW w \in todo[c],
               output' = [output EXCEPT ![c][w] = Seen(w)],
               Enter(c, "index", todo[c] \ {w})
        PROVE  CollectorInv(c)'
    <3>1. pc'[c] = "index" /\ todo'[c] = todo[c] \ {w}
          BY <1>2, <2>5
    <3>2. \A u \in Units : output'[c][u] = IF u = w THEN Seen(w) ELSE output[c][u]
          BY <1>1, <1>2, <1>3, <2>5, NestedUpdate, SeenReading
    <3>3. /\ todo[c] \subseteq fresh[c]
          /\ \A u \in fresh[c] \ todo[c] : output[c][u] = Seen(u)
          BY <1>1, <2>1 DEF CollectorInv, OutputsAreCurrent
    <3>4. \A u \in fresh[c] \ todo'[c] : output'[c][u] = Seen(u)
          BY <1>3, <3>1, <3>2, <3>3
    <3> QED  BY <1>3, <2>1, <2>2, <2>3, <3>1, <3>3, <3>4
             DEF CollectorInv, OutputsAreCurrent, PublishingIsCurrent,
                 RecordsAreCurrent, Publishing
  <2> QED  BY <1>6, <2>4, <2>5 DEF Index
<1>7. CASE Digest(c)
  <2>1. /\ pc[c] = "publish"
        /\ UNCHANGED <<file, returned, artifact, main, fresh, output>>
        BY <1>7 DEF Digest
  <2>2. /\ \A u \in Units : Seen(u)' = Seen(u)
        /\ \A u \in Units : Identity(c, u)' = Identity(c, u)
        BY <2>1 DEF Seen, About, Identity
  <2>3. HitsAreCurrent(c)'
    <3>1. /\ pc'[c] \in {"rename", "load"}
          /\ pc'[c] = "load" => todo'[c] = Units \ fresh[c]
          BY <1>2, <1>7 DEF Digest
    <3> QED  BY <1>1, <2>1, <2>2, <3>1 DEF CollectorInv, HitsAreCurrent, Indexing
  <2>4. /\ todo[c] \subseteq fresh[c]
        /\ \A u \in fresh[c] : output[c][u] = Seen(u)
        /\ \A u \in fresh[c] \ todo[c] : records[c][u] = Seen(u)
        BY <1>1, <2>1 DEF CollectorInv, OutputsAreCurrent, RecordsAreCurrent, Publishing
  <2>5. CASE /\ todo[c] = {}
             /\ Enter(c, "load", Units \ fresh[c])
             /\ UNCHANGED <<records, publishing>>
    <3>1. /\ pc'[c] = "load" /\ todo'[c] = Units \ fresh[c]
          /\ UNCHANGED records
          BY <1>2, <2>5
    <3>2. Vouched(c)' \ todo'[c] \subseteq fresh[c]
          BY <1>3, <2>1, <3>1 DEF Vouched
    <3> QED  BY <1>3, <2>1, <2>2, <2>3, <2>4, <2>5, <3>1, <3>2
             DEF CollectorInv, OutputsAreCurrent, PublishingIsCurrent,
                 RecordsAreCurrent, Publishing
  <2>6. ASSUME NEW w \in todo[c],
               records' = [records EXCEPT ![c][w] = output[c][w]],
               publishing' = [publishing EXCEPT ![c] = <<w, Seen(w)>>],
               Enter(c, "rename", todo[c] \ {w})
        PROVE  CollectorInv(c)'
    <3>1. /\ pc'[c] = "rename" /\ todo'[c] = todo[c] \ {w}
          /\ publishing'[c] = <<w, Seen(w)>>
          BY <1>2, <2>6
    <3>2. \A u \in Units : records'[c][u] = IF u = w THEN output[c][w] ELSE records[c][u]
          BY <1>2, <1>3, <2>6, NestedUpdate
    <3>3. w \in fresh[c] /\ w \in Units /\ Seen(w) \in Reading
          BY <1>1, <1>3, <2>4, <2>6, SeenReading
    <3>4. OutputsAreCurrent(c)'
          BY <1>3, <2>1, <2>2, <2>4, <3>1 DEF OutputsAreCurrent
    <3>5. PublishingIsCurrent(c)'
      <4>1. Seen(w)' = Seen(w)
            BY <2>2, <3>3
      <4> QED  BY <2>1, <3>1, <3>3, <4>1 DEF PublishingIsCurrent
    <3>6. RecordsAreCurrent(c)'
      <4>1. \A u \in fresh[c] \ todo'[c] : records'[c][u] = Seen(u)
            BY <1>3, <2>4, <3>1, <3>2
      <4> QED  BY <1>3, <2>1, <2>2, <3>1, <4>1 DEF RecordsAreCurrent
    <3> QED  BY <2>3, <3>4, <3>5, <3>6 DEF CollectorInv
  <2> QED  BY <1>7, <2>5, <2>6 DEF Digest
<1>8. CASE Publish(c)
  <2> DEFINE w == publishing[c][1]
  <2>1. /\ pc[c] \in {"rename", "describe"}
        /\ UNCHANGED <<file, returned, main, fresh, output, records>>
        /\ todo'[c] = todo[c]
        BY <1>2, <1>8 DEF Publish
  <2>2. /\ \A u \in Units : Seen(u)' = Seen(u)
        /\ \A u \in Units : Identity(c, u)' = Identity(c, u)
        BY <2>1 DEF Seen, About, Identity
  <2>3. /\ publishing[c] \in Units \X Reading
        /\ w \in fresh[c] /\ w \in Units
        /\ publishing[c][2] = Seen(w)
        BY <1>1, <1>3, <2>1 DEF CollectorInv, PublishingIsCurrent
  <2>4. pc'[c] \in {"describe", "publish"}
        BY <1>2, <1>8 DEF Publish
  <2>5. /\ \A u \in Units : Identity(c, u) \in Identities
        /\ artifact \in [Identities -> Reading \cup {None}]
        BY <1>1 DEF TypeOK, Identity, Identities
  <2>6. \/ artifact' = [artifact EXCEPT ![Identity(c, w)] = Seen(w)]
        \/ artifact' = artifact
        BY <1>8, PublishInstallsSeen
  <2>7. \A u \in Units : artifact[Identity(c, u)] = Seen(u) =>
                          artifact'[Identity(c, u)] = Seen(u)
    <3>1. \A u \in Units : Identity(c, w) = Identity(c, u) => w = u
          BY DEF Identity
    <3> QED  BY <2>5, <2>6, <3>1
  <2>8. HitsAreCurrent(c)'
        BY <1>1, <2>1, <2>2, <2>4, <2>7 DEF CollectorInv, HitsAreCurrent, Indexing
  <2>9. OutputsAreCurrent(c)' /\ RecordsAreCurrent(c)'
        BY <1>1, <1>3, <2>1, <2>2, <2>4
        DEF CollectorInv, OutputsAreCurrent, RecordsAreCurrent, Publishing
  <2>10. PublishingIsCurrent(c)'
    <3>1. CASE pc[c] = "rename"
      <4>1. /\ pc'[c] = "describe" /\ publishing' = publishing
            /\ artifact' = [artifact EXCEPT ![Identity(c, w)] = output[c][w]]
            BY <1>2, <1>8, <3>1 DEF Publish
      <4>2. output[c][w] = Seen(w)
            BY <1>1, <2>3, <3>1 DEF CollectorInv, OutputsAreCurrent, Publishing
      <4>3. artifact'[Identity(c, w)] = Seen(w)
            BY <2>3, <2>5, <4>1, <4>2
      <4>4. Seen(w)' = Seen(w) /\ Identity(c, w)' = Identity(c, w)
            BY <2>1, <4>1 DEF Seen, About, Identity
      <4> QED  BY <2>1, <2>3, <4>1, <4>3, <4>4 DEF PublishingIsCurrent
    <3>2. CASE pc[c] = "describe"
      <4>1. pc'[c] = "publish"
            BY <1>2, <1>8, <3>2 DEF Publish
      <4> QED  BY <4>1 DEF PublishingIsCurrent
    <3> QED  BY <2>1, <3>1, <3>2
  <2> QED  BY <2>8, <2>9, <2>10 DEF CollectorInv
<1>9. CASE Load(c)
  <2>1. /\ pc[c] = "load"
        /\ UNCHANGED <<file, returned, artifact, main, fresh, output>>
        BY <1>9 DEF Load
  <2>2. /\ \A u \in Units : Seen(u)' = Seen(u)
        /\ \A u \in Units : Identity(c, u)' = Identity(c, u)
        /\ Vouched(c)' = Vouched(c) /\ Vouched(c) \subseteq Units
        BY <1>3, <2>1 DEF Seen, About, Identity, Vouched
  <2>3. /\ \A u \in Vouched(c) \ todo[c] : records[c][u] = Seen(u)
        /\ \A u \in (Units \ fresh[c]) \ returned : artifact[Identity(c, u)] = Seen(u)
        BY <1>1, <2>1 DEF CollectorInv, RecordsAreCurrent, HitsAreCurrent, Indexing
  <2>4. CASE todo[c] = {} /\ Enter(c, "digest", {}) /\ UNCHANGED records
    <3>1. pc'[c] = "digest" /\ UNCHANGED records
          BY <1>2, <2>4
    <3> QED  BY <2>2, <2>3, <2>4, <3>1
             DEF CollectorInv, HitsAreCurrent, OutputsAreCurrent, PublishingIsCurrent,
                 RecordsAreCurrent, Indexing, Publishing
  <2>5. ASSUME NEW w \in todo[c],
               records' = [records EXCEPT ![c][w] = artifact[Identity(c, w)]],
               Enter(c, "load", todo[c] \ {w})
        PROVE  CollectorInv(c)'
    <3>1. pc'[c] = "load" /\ todo'[c] = todo[c] \ {w}
          BY <1>2, <2>5
    <3>2. w \in Units /\ w \notin fresh[c]
          BY <1>1, <1>3, <2>1, <2>5 DEF CollectorInv, HitsAreCurrent
    <3>3. w \notin returned => artifact[Identity(c, w)] = Seen(w)
          BY <2>3, <3>2
    <3>4. artifact[Identity(c, w)] \in Reading \cup {None}
          BY <1>1, <3>2 DEF TypeOK, Identity, Identities
    <3>5. \A u \in Units : records'[c][u] = IF u = w THEN artifact[Identity(c, w)]
                                                     ELSE records[c][u]
          BY <1>2, <2>5, <3>2, <3>4, NestedUpdate
    <3>6. \A u \in Vouched(c) \ todo'[c] : records'[c][u] = Seen(u)
          BY <1>3, <2>3, <3>1, <3>2, <3>3, <3>5 DEF Vouched
    <3> QED  BY <1>1, <2>1, <2>2, <2>3, <3>1, <3>6
             DEF CollectorInv, HitsAreCurrent, OutputsAreCurrent, PublishingIsCurrent,
                 RecordsAreCurrent, Indexing, Publishing
  <2> QED  BY <1>9, <2>4, <2>5 DEF Load
<1>10. CASE Finish(c)
  <2>1. /\ pc[c] = "digest" /\ pc'[c] = "done" /\ digests'[c] = file
        /\ UNCHANGED <<file, returned, records>>
        BY <1>2, <1>10 DEF Finish
  <2>2. \A u \in Vouched(c) : records[c][u] = About(u, file)
        BY <1>1, <2>1 DEF CollectorInv, RecordsAreCurrent, Seen
  <2>3. /\ \A u \in Units : About(u, digests[c])' = About(u, file)
        /\ Vouched(c)' = Vouched(c) /\ Vouched(c) \subseteq Units
        BY <1>2, <1>3, <1>10, <2>1 DEF About, Vouched, Finish
  <2>4. file \in Reading
        BY <1>1 DEF TypeOK, Reading
  <2> QED  BY <2>1, <2>2, <2>3, <2>4
           DEF CollectorInv, HitsAreCurrent, OutputsAreCurrent, PublishingIsCurrent,
               RecordsAreCurrent, Indexing, Publishing
<1> QED  BY <1>4, <1>5, <1>6, <1>7, <1>8, <1>9, <1>10, <1>11 DEF Step

(* A step of another collector, which can only put more of what is seen     *)
(* into the cache.                                                          *)
LEMMA OthersStep ==
    ASSUME Inv, NEW c \in Collectors, NEW d \in Collectors, c # d, Step(d)
    PROVE  CollectorInv(c)'
<1>1. TypeOK /\ CollectorInv(c)
      BY DEF Inv
<1>2. /\ pc'[c] = pc[c] /\ todo'[c] = todo[c] /\ fresh'[c] = fresh[c]
      /\ publishing'[c] = publishing[c] /\ digests'[c] = digests[c]
      /\ main'[c] = main[c] /\ output'[c] = output[c] /\ records'[c] = records[c]
      /\ file' = file /\ returned' = returned
  <2>1. file' = file /\ returned' = returned
        BY DEF sources, Step, Start, Validate, Index, Digest, Publish, Load, Finish, End
  <2>2. pc'[c] = pc[c] /\ todo'[c] = todo[c]
    <3>1. \E phase, units : Enter(d, phase, units)
          BY DEF Step, Start, Validate, Index, Digest, Publish, Load, Finish, End
    <3> QED  BY <1>1, <3>1 DEF Enter, TypeOK
  <2>3. main'[c] = main[c] /\ fresh'[c] = fresh[c]
        BY <1>1 DEF TypeOK, Step, Start, Validate, Index, Digest, Publish, Load, Finish, End
  <2>4. output'[c] = output[c] /\ records'[c] = records[c]
        BY <1>1 DEF TypeOK, Step, Start, Validate, Index, Digest, Publish, Load, Finish, End
  <2>5. publishing'[c] = publishing[c] /\ digests'[c] = digests[c]
        BY <1>1 DEF TypeOK, Step, Start, Validate, Index, Digest, Publish, Load, Finish, End
  <2> QED  BY <2>1, <2>2, <2>3, <2>4, <2>5
<1>3. \A u \in Units : Seen(u)' = Seen(u)
      BY <1>2 DEF Seen, About
<1>4. ASSUME NEW u \in Units, artifact[Identity(c, u)] = Seen(u)
      PROVE  artifact'[Identity(c, u)] = Seen(u)
  <2>1. Identity(c, u) = <<u, main[c][u]>>
        BY DEF Identity
  <2>2. CASE Publish(d)
    <3> DEFINE w == publishing[d][1]
    <3>1. \/ artifact' = [artifact EXCEPT ![Identity(d, w)] = Seen(w)]
          \/ artifact' = artifact
          BY <2>2, PublishInstallsSeen
    <3>2. Identity(d, w) = Identity(c, u) => w = u
          BY DEF Identity
    <3>3. artifact \in [Identities -> Reading \cup {None}] /\ Identity(c, u) \in Identities
          BY <1>1 DEF TypeOK, Identity, Identities
    <3> QED  BY <1>4, <3>1, <3>2, <3>3
  <2>3. CASE artifact' = artifact
        BY <1>4, <2>3
  <2> QED  BY <2>2, <2>3 DEF Step, Start, Validate, Index, Digest, Load, Finish, End, cache
<1>5. \A u \in Units : Identity(c, u)' = Identity(c, u)
      BY <1>2 DEF Identity
<1>6. HitsAreCurrent(c)'
      BY <1>1, <1>2, <1>3, <1>4, <1>5 DEF CollectorInv, HitsAreCurrent
<1>7. OutputsAreCurrent(c)'
  <2>1. fresh[c] \subseteq Units
        BY <1>1 DEF TypeOK
  <2> QED  BY <1>1, <1>2, <1>3, <2>1 DEF CollectorInv, OutputsAreCurrent
<1>8. PublishingIsCurrent(c)'
  <2>1. CASE pc[c] \in {"rename", "describe"}
    <3>1. publishing[c][1] \in Units
          BY <1>1, <2>1 DEF CollectorInv, PublishingIsCurrent
    <3>2. /\ Seen(publishing[c][1])' = Seen(publishing[c][1])
          /\ Identity(c, publishing[c][1])' = Identity(c, publishing[c][1])
          BY <1>2 DEF Seen, About, Identity
    <3> QED  BY <1>1, <1>2, <1>4, <3>1, <3>2 DEF CollectorInv, PublishingIsCurrent
  <2>2. CASE pc[c] \notin {"rename", "describe"}
        BY <1>2, <2>2 DEF PublishingIsCurrent
  <2> QED  BY <2>1, <2>2
<1>9. RecordsAreCurrent(c)'
  <2>1. fresh[c] \subseteq Units
        BY <1>1 DEF TypeOK
  <2>2. /\ \A u \in Units : About(u, digests[c])' = About(u, digests[c])
        /\ Vouched(c)' = Vouched(c) /\ Vouched(c) \subseteq Units
        BY <1>2, <2>1 DEF About, Vouched
  <2> QED  BY <1>1, <1>2, <1>3, <2>1, <2>2 DEF CollectorInv, RecordsAreCurrent
<1> QED  BY <1>6, <1>7, <1>8, <1>9 DEF CollectorInv

(* An edit finds every collection finished or not begun. *)
LEMMA EditKeepsCollectors ==
    ASSUME Inv, ~EditsAnyTime, NEW f \in Files, Edit(f), NEW c \in Collectors
    PROVE  CollectorInv(c)'
<1>1. pc[c] \in {"idle", "done"} /\ pc' = pc
      BY DEF Edit
<1>2. records' = records /\ digests' = digests
      BY DEF Edit
<1>3. RecordsAreCurrent(c)
      BY DEF Inv, CollectorInv
<1>4. \A u \in Units : About(u, digests[c])' = About(u, digests[c])
      BY <1>2 DEF About
<1>5. Vouched(c)' \subseteq Vouched(c) /\ fresh[c] \subseteq Units
      BY DEF Edit, Vouched, Inv, TypeOK
<1> QED  BY <1>1, <1>2, <1>3, <1>4, <1>5
         DEF CollectorInv, HitsAreCurrent, OutputsAreCurrent,
             PublishingIsCurrent, RecordsAreCurrent, Indexing, Publishing

LEMMA StutterInv ==
    ASSUME Inv, UNCHANGED vars
    PROVE  Inv'
<1>1. /\ UNCHANGED <<file, edits, returned, artifact, meta, torn, pc, todo, main>>
      /\ UNCHANGED <<fresh, output, publishing, records, digests>>
      BY DEF vars, sources, cache
<1>2. TypeOK'
      BY <1>1 DEF Inv, TypeOK
<1>3. CacheInv'
      BY <1>1 DEF Inv, CacheInv, HitIsSeen, DigestsAreKnown, Describing, Identity,
                  Current, Seen, About
<1>4. ASSUME NEW c \in Collectors PROVE CollectorInv(c)'
  <2> USE <1>1
  <2>1. CollectorInv(c)
        BY DEF Inv
  <2>2. HitsAreCurrent(c)'
        BY <2>1 DEF CollectorInv, HitsAreCurrent, Identity, Seen, About
  <2>3. OutputsAreCurrent(c)'
        BY <2>1 DEF CollectorInv, OutputsAreCurrent, Seen, About
  <2>4. PublishingIsCurrent(c)'
        BY <2>1 DEF CollectorInv, PublishingIsCurrent, Identity, Seen, About
  <2>5. RecordsAreCurrent(c)'
        BY <2>1 DEF CollectorInv, RecordsAreCurrent, Vouched, Seen, About
  <2> QED  BY <2>2, <2>3, <2>4, <2>5 DEF CollectorInv
<1> QED  BY <1>2, <1>3, <1>4 DEF Inv

LEMMA InvKept ==
    ASSUME Inv, ~EditsAnyTime, [Next]_vars
    PROVE  Inv'
<1>1. CASE Next
  <2>1. TypeOK' /\ CacheInv'
        BY <1>1, TypeKept, CacheKept
  <2>2. ASSUME NEW c \in Collectors PROVE CollectorInv(c)'
    <3>1. ASSUME NEW f \in Files, Edit(f) PROVE CollectorInv(c)'
          BY <3>1, EditKeepsCollectors
    <3>2. ASSUME NEW d \in Collectors, Step(d) PROVE CollectorInv(c)'
      <4>1. CASE c = d
            BY <3>2, <4>1, OwnStep
      <4>2. CASE c # d
            BY <3>2, <4>2, OthersStep
      <4> QED  BY <4>1, <4>2
    <3> QED  BY <1>1, <3>1, <3>2 DEF Next, Step
  <2> QED  BY <2>1, <2>2 DEF Inv
<1>2. CASE UNCHANGED vars
      BY <1>2, StutterInv
<1> QED  BY <1>1, <1>2

-------------------------------------------------------------------------------
(* The theorems *)

(* The inductive invariant of collections nobody edits under. *)
THEOREM Invariance == ~EditsAnyTime => (Spec => []Inv)
<1> SUFFICES ASSUME ~EditsAnyTime PROVE Spec => []Inv
    OBVIOUS
<1>1. Inv /\ [Next]_vars => Inv'
      BY InvKept
<1> QED  BY InitInv, <1>1, PTL DEF Spec

(* Every variable keeps its type: validate_cache, index, publish and load    *)
(* hand each other what the next one expects.                                *)
THEOREM TypeCorrect == ~EditsAnyTime => (Spec => []TypeOK)
<1> SUFFICES ASSUME ~EditsAnyTime PROVE Spec => []TypeOK
    OBVIOUS
<1>1. Inv => TypeOK
      BY DEF Inv
<1> QED  BY Invariance, <1>1, PTL

(* _TuCache.publish: however many collections rename into one cache          *)
(* directory, and wherever each is killed, what validation takes for a hit   *)
(* is of the present sources, unless a kill tore it and its sources were     *)
(* then put back.                                                            *)
THEOREM CacheIsSound == ~EditsAnyTime => (Spec => []NoStaleHit)
<1> SUFFICES ASSUME ~EditsAnyTime PROVE Spec => []NoStaleHit
    OBVIOUS
<1>1. Inv => NoStaleHit
      BY DEF Inv, CacheInv, HitIsSeen, NoStaleHit, Identities
<1> QED  BY Invariance, <1>1, PTL

(* collect_compile_database: an index whose digests match the sources was    *)
(* collected from those sources, for any number of units and collections,    *)
(* but for a cached unit that a kill tore and whose sources were put back.   *)
THEOREM AcceptedIsCurrent == ~EditsAnyTime => (Spec => []AcceptedIndexIsCurrent)
<1> SUFFICES ASSUME ~EditsAnyTime PROVE Spec => []AcceptedIndexIsCurrent
    OBVIOUS
<1>1. Inv => AcceptedIndexIsCurrent
  <2> SUFFICES ASSUME Inv, NEW c \in Collectors, pc[c] = "done", digests[c] = file,
                      NEW u \in Vouched(c)
               PROVE  records[c][u] = Seen(u)
      BY DEF AcceptedIndexIsCurrent, Vouched
  <2>1. records[c][u] = About(u, digests[c])
        BY DEF Inv, CollectorInv, RecordsAreCurrent
  <2> QED  BY <2>1 DEF Seen
<1> QED  BY Invariance, <1>1, PTL
================================================================================
