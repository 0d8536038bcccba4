------------------------- MODULE MatchingStagesProofs -------------------------
(***************************************************************************)
(* Proofs about the matching stages, for any addresses, any number of      *)
(* rounds and any input files of the right shape (GivenOK).                *)
(***************************************************************************)
EXTENDS MatchingStages, EntityDbProofs, FunctionTheorems, FiniteSetTheorems

(* Ranks count a finite set of addresses from 0, each rank once. *)
LEMMA RankFacts ==
    ASSUME NEW S \in SUBSET Nat, IsFiniteSet(S)
    PROVE  /\ \A x \in S : Rank(x, S) \in 0 .. Cardinality(S) - 1
           /\ \A x, y \in S : Rank(x, S) = Rank(y, S) => x = y
           /\ \A r \in 0 .. Cardinality(S) - 1 : \E x \in S : Rank(x, S) = r
<1> DEFINE Below(x) == {z \in S : z < x}
           T == 0 .. Cardinality(S) - 1
<1>0. Cardinality(S) \in Nat
      BY FS_CardinalityType
<1>1. ASSUME NEW x \in S
      PROVE  IsFiniteSet(Below(x)) /\ Cardinality(Below(x)) \in T
  <2>1. IsFiniteSet(Below(x)) /\ Cardinality(Below(x)) <= Cardinality(S)
        BY FS_Subset
  <2>2. Cardinality(Below(x)) # Cardinality(S)
    <3>1. x \in S /\ x \notin Below(x)
          OBVIOUS
    <3> QED  BY <3>1, FS_Subset
  <2>3. Cardinality(Below(x)) \in Nat
        BY <2>1, FS_CardinalityType
  <2> QED  BY <1>0, <2>1, <2>2, <2>3
<1>2. ASSUME NEW x \in S, NEW y \in S, x < y
      PROVE  Cardinality(Below(x)) < Cardinality(Below(y))
  <2>0. x \in Nat /\ y \in Nat /\ \A z \in S : z \in Nat
        OBVIOUS
  <2>1. Below(x) \in SUBSET Below(y) /\ x \in Below(y) /\ x \notin Below(x)
    <3>1. ASSUME NEW z \in Below(x) PROVE z \in Below(y)
      <4>1. z \in S /\ z \in Nat /\ z < x
            BY <2>0
      <4> QED  BY <1>2, <2>0, <4>1
    <3>2. ~(x < x)
          BY <2>0
    <3> QED  BY <1>2, <3>1, <3>2
  <2>2. /\ Cardinality(Below(x)) <= Cardinality(Below(y))
        /\ Cardinality(Below(x)) # Cardinality(Below(y))
        BY <1>1, <2>1, FS_Subset
  <2>3. Cardinality(Below(x)) \in Nat /\ Cardinality(Below(y)) \in Nat
        BY <1>1, <1>0
  <2> QED  BY <2>2, <2>3
<1>3. ASSUME NEW x \in S, NEW y \in S, Rank(x, S) = Rank(y, S)
      PROVE  x = y
  <2>1. x \in Nat /\ y \in Nat
        OBVIOUS
  <2>2. Cardinality(Below(x)) = Cardinality(Below(y)) /\ Cardinality(Below(x)) \in Nat
        BY <1>0, <1>1, <1>3 DEF Rank
  <2>3. ~(x < y) /\ ~(y < x)
        BY <1>2, <2>2
  <2> QED  BY <2>1, <2>3
<1>4. ASSUME NEW r \in T PROVE \E x \in S : Rank(x, S) = r
  <2> DEFINE f == [x \in S |-> Rank(x, S)]
  <2>1. f \in Injection(S, T)
    <3>1. f \in [S -> T]
          BY <1>1 DEF Rank
    <3>2. \A x, y \in S : f[x] = f[y] => x = y
          BY <1>3
    <3> QED  BY <3>1, <3>2 DEF Injection, IsInjective
  <2>2. IsFiniteSet(T) /\ Cardinality(T) = Cardinality(S)
        BY <1>0, FS_Interval
  <2>3. f \in Surjection(S, T)
        BY <2>1, <2>2, FS_Injection
  <2> QED  BY <2>3 DEF Surjection
<1> QED  BY <1>1, <1>3, <1>4 DEF Rank

(* What pairing in turn makes: pairs of one key, disjoint; and of one key   *)
(* only one side is left over.                                              *)
LEMMA InTurnFacts ==
    ASSUME NEW f, NEW g, NEW b, DOMAIN f \subseteq Addrs, DOMAIN g \subseteq Addrs
    PROVE  /\ \A p \in InTurn(f, g, b) :
                 /\ p = PairOf(p.orig, p.recomp, b)
                 /\ p.orig \in DOMAIN f /\ p.recomp \in DOMAIN g
                 /\ f[p.orig] = g[p.recomp]
           /\ \A p, q \in InTurn(f, g, b) : Collide(p, q) => p = q
           /\ \A x \in DOMAIN f, y \in DOMAIN g : f[x] = g[y] =>
                 \E p \in InTurn(f, g, b) : p.orig = x \/ p.recomp = y
<1> DEFINE S(k) == {z \in DOMAIN f : f[z] = k}
           T(k) == {z \in DOMAIN g : g[z] = k}
<1>1. \A k : /\ S(k) \in SUBSET Nat /\ IsFiniteSet(S(k))
             /\ T(k) \in SUBSET Nat /\ IsFiniteSet(T(k))
      BY StagesAssumption, FS_Subset
<1>2. \A p : p \in InTurn(f, g, b) <=>
         /\ p \in [orig : DOMAIN f, recomp : DOMAIN g, basis : {b}]
         /\ f[p.orig] = g[p.recomp]
         /\ Rank(p.orig, S(f[p.orig])) = Rank(p.recomp, T(g[p.recomp]))
      BY DEF InTurn, Pairs
<1>3. ASSUME NEW p \in InTurn(f, g, b)
      PROVE  /\ p = PairOf(p.orig, p.recomp, b)
             /\ p.orig \in DOMAIN f /\ p.recomp \in DOMAIN g
             /\ f[p.orig] = g[p.recomp]
             /\ Rank(p.orig, S(f[p.orig])) = Rank(p.recomp, T(g[p.recomp]))
      BY <1>2 DEF PairOf
<1>4. ASSUME NEW x \in DOMAIN f, NEW y \in DOMAIN g, f[x] = g[y],
             Rank(x, S(f[x])) = Rank(y, T(g[y]))
      PROVE  PairOf(x, y, b) \in InTurn(f, g, b)
      BY <1>2, <1>4 DEF PairOf
<1>5. \A x \in DOMAIN f : x \in S(f[x])
      OBVIOUS
<1>6. \A y \in DOMAIN g : y \in T(g[y])
      OBVIOUS
<1>7. \A k : \A x \in S(k) : x \in DOMAIN f /\ f[x] = k
      OBVIOUS
<1>8. \A k : \A y \in T(k) : y \in DOMAIN g /\ g[y] = k
      OBVIOUS
<1> HIDE DEF S, T
<1>9. ASSUME NEW p \in InTurn(f, g, b), NEW q \in InTurn(f, g, b), Collide(p, q)
      PROVE  p = q
  <2>1. f[p.orig] = f[q.orig] /\ g[p.recomp] = g[q.recomp] /\ f[p.orig] = g[p.recomp]
        BY <1>3, <1>9 DEF Collide
  <2> DEFINE k == f[p.orig]
  <2>2. /\ p.orig \in S(k) /\ q.orig \in S(k) /\ p.recomp \in T(k) /\ q.recomp \in T(k)
        /\ Rank(p.orig, S(k)) = Rank(p.recomp, T(k))
        /\ Rank(q.orig, S(k)) = Rank(q.recomp, T(k))
        BY <1>3, <1>5, <1>6, <2>1
  <2> HIDE DEF k
  <2>3. \A x, y \in S(k) : Rank(x, S(k)) = Rank(y, S(k)) => x = y
        BY <1>1, RankFacts
  <2>4. \A x, y \in T(k) : Rank(x, T(k)) = Rank(y, T(k)) => x = y
        BY <1>1, RankFacts
  <2>5. p.orig = q.orig /\ p.recomp = q.recomp
        BY <1>9, <2>2, <2>3, <2>4 DEF Collide
  <2> QED  BY <1>3, <2>5
<1>10. ASSUME NEW x \in DOMAIN f, NEW y \in DOMAIN g, f[x] = g[y]
       PROVE  \E p \in InTurn(f, g, b) : p.orig = x \/ p.recomp = y
  <2> DEFINE k == f[x]
             m == Cardinality(S(k))
             n == Cardinality(T(k))
  <2>1. x \in S(k) /\ y \in T(k)
        BY <1>5, <1>6, <1>10
  <2> HIDE DEF k
  <2>2. m \in Nat /\ n \in Nat
        BY <1>1, FS_CardinalityType
  <2>3. /\ Rank(x, S(k)) \in 0 .. m - 1
        /\ \A r \in 0 .. m - 1 : \E z \in S(k) : Rank(z, S(k)) = r
        BY <1>1, <2>1, RankFacts
  <2>4. /\ Rank(y, T(k)) \in 0 .. n - 1
        /\ \A r \in 0 .. n - 1 : \E z \in T(k) : Rank(z, T(k)) = r
        BY <1>1, <2>1, RankFacts
  <2>5. CASE Rank(x, S(k)) < n
    <3>1. Rank(x, S(k)) \in 0 .. n - 1
          BY <2>2, <2>3, <2>5
    <3>2. PICK z \in T(k) : Rank(z, T(k)) = Rank(x, S(k))
          BY <2>4, <3>1
    <3>3. PairOf(x, z, b) \in InTurn(f, g, b)
          BY <1>4, <1>8, <3>2 DEF k
    <3> QED  BY <3>3 DEF PairOf
  <2>6. CASE ~(Rank(x, S(k)) < n)
    <3>1. Rank(y, T(k)) \in 0 .. m - 1
          BY <2>2, <2>3, <2>4, <2>6
    <3>2. PICK z \in S(k) : Rank(z, S(k)) = Rank(y, T(k))
          BY <2>3, <3>1
    <3>3. PairOf(z, y, b) \in InTurn(f, g, b)
          BY <1>4, <1>7, <1>10, <3>2 DEF k
    <3> QED  BY <3>3 DEF PairOf
  <2> QED  BY <2>5, <2>6
<1> QED  BY <1>3, <1>9, <1>10

-------------------------------------------------------------------------------
(* What a batch does *)

LEMMA PairFinite == IsFiniteSet(Pair)
<1> DEFINE S == (Addrs \X Addrs) \X Bases
           f == [t \in S |-> [orig |-> t[1][1], recomp |-> t[1][2], basis |-> t[2]]]
<1>1. IsFiniteSet(Bases)
  <2>1. IsFiniteSet({"annotation"})
        BY FS_Singleton
  <2>2. IsFiniteSet({"annotation"} \cup {"derived"})
        BY <2>1, FS_AddElement
  <2>3. IsFiniteSet(({"annotation"} \cup {"derived"}) \cup {"content"})
        BY <2>2, FS_AddElement
  <2>4. Bases = ({"annotation"} \cup {"derived"}) \cup {"content"}
        BY StagesAssumption
  <2> QED  BY <2>3, <2>4
<1>2. IsFiniteSet(S)
      BY <1>1, StagesAssumption, FS_Product
<1>3. f \in Surjection(S, Pair)
  <2>1. f \in [S -> Pair]
        BY DEF Pair
  <2>2. ASSUME NEW p \in Pair PROVE \E t \in S : f[t] = p
    <3>1. <<<<p.orig, p.recomp>>, p.basis>> \in S
          BY DEF Pair
    <3>2. f[<<<<p.orig, p.recomp>>, p.basis>>] = p
          BY <3>1 DEF Pair
    <3> QED  BY <3>1, <3>2
  <2> QED  BY <2>1, <2>2 DEF Surjection
<1> QED  BY <1>2, <1>3, FS_Surjection

(* A listing is a sequence of exactly the pairs it lists. *)
LEMMA ListingFacts ==
    ASSUME NEW ps \in SUBSET Pair, NEW list \in Listings(ps)
    PROVE  list \in Seq(Pair) /\ {list[i] : i \in DOMAIN list} = ps
<1>1. Cardinality(ps) \in Nat
      BY PairFinite, FS_Subset, FS_CardinalityType
<1> QED  BY <1>1 DEF Listings

(* ps is what a batch with the rows new installs of the pairs it is offered: *)
(* at least those that are fresh and collide with no other.                  *)
Wrote(ps, offered, new) ==
    /\ ~frozen
    /\ InstallStep(ps, [s \in Sides |-> DOMAIN new[s]])
    /\ ps \subseteq offered
    /\ \A p \in offered :
          Fresh(p) /\ (\A q \in offered : Collide(p, q) => q = p) => p \in ps
    /\ facts' = [s \in Sides |-> [a \in Addrs |->
          IF a \in DOMAIN new[s] THEN Updated(facts[s][a], new[s][a])
                                 ELSE facts[s][a]]]
    /\ UNCHANGED <<frozen, batch, given>>

LEMMA BatchWrites ==
    ASSUME NEW list \in Seq(Pair), NEW new, WriteBatch(new, list)
    PROVE  \E ps : Wrote(ps, {list[i] : i \in DOMAIN list}, new)
<1> DEFINE offered == {list[i] : i \in DOMAIN list}
<1>1. PICK K \in SUBSET DOMAIN list :
         /\ KeepsFirst(list, K)
         /\ LET ps == {list[i] : i \in {k \in K : Fresh(list[k])}} IN
            /\ present' = [s \in Sides |->
                  present[s] \cup DOMAIN new[s] \cup Ends(ps, s)]
            /\ indexed' = [s \in Sides |->
                  indexed[s] \cup DOMAIN new[s] \cup Ends(ps, s)]
            /\ Install(ps)
      BY DEF WriteBatch
<1> DEFINE ps == {list[i] : i \in {k \in K : Fresh(list[k])}}
<1>2. Installable(ps)
      BY <1>1, KeptIsInstallable
<1>3. InstallStep(ps, [s \in Sides |-> DOMAIN new[s]])
      BY <1>1, <1>2 DEF InstallStep
<1>4. ps \subseteq offered
      OBVIOUS
<1>5. ASSUME NEW p \in offered, Fresh(p), \A q \in offered : Collide(p, q) => q = p
      PROVE  p \in ps
  <2> DEFINE At == {i \in DOMAIN list : list[i] = p}
  <2>1. PICK n \in DOMAIN list : list[n] = p
        OBVIOUS
  <2>2. CASE \E j \in K : list[j] = p
        BY <1>5, <2>2
  <2>3. CASE \A j \in K : list[j] # p
    <3>1. \A j \in K : ~Collide(list[n], list[j])
          BY <1>5, <2>1, <2>3
    <3>2. n \in K
          BY <1>1, <3>1 DEF KeepsFirst
    <3> QED  BY <2>1, <2>3, <3>2
  <2> QED  BY <2>2, <2>3
<1> QED  BY <1>3, <1>4, <1>5 DEF WriteBatch, Wrote

(* Every list in the order of a side offers the pairs it was made of. *)
LEMMA PairsWrite ==
    ASSUME NEW offered \in SUBSET Pair, NEW s, WritePairs(offered, s)
    PROVE  \E ps : Wrote(ps, offered, Nothing)
<1>1. PICK list \in Listings(offered) : WriteBatch(Nothing, list)
      BY DEF WritePairs, InOrder
<1>2. list \in Seq(Pair) /\ {list[i] : i \in DOMAIN list} = offered
      BY <1>1, ListingFacts
<1> QED  BY <1>1, <1>2, BatchWrites

LEMMA RowsWrite ==
    ASSUME NEW new, WriteRows(new)
    PROVE  \E ps : Wrote(ps, {}, new)
<1>1. <<>> \in Seq(Pair) /\ {<<>>[i] : i \in DOMAIN <<>>} = {}
      OBVIOUS
<1>2. PICK ps : Wrote(ps, {<<>>[i] : i \in DOMAIN <<>>}, new)
      BY <1>1, BatchWrites DEF WriteRows
<1> QED  BY <1>1, <1>2

-------------------------------------------------------------------------------
(* What every stage keeps *)

FactsOK ==
    /\ facts = [s \in Sides |-> [a \in Addrs |-> facts[s][a]]]
    /\ \A s \in Sides, a \in Addrs :
          /\ DOMAIN facts[s][a] = DOMAIN Blank
          /\ facts[s][a] # Blank => a \in present[s]
          /\ facts[s][a].ref \in OrNone(Addrs)
          /\ facts[s][a].bySymbol \in BOOLEAN

Core == Inv /\ ~open /\ staged = <<>> /\ GivenOK /\ FactsOK

RowOK(r) ==
    /\ "ref" \in DOMAIN r => r.ref \in Addrs
    /\ "bySymbol" \in DOMAIN r => r.bySymbol \in BOOLEAN

RowsOK(new) ==
    \A s \in Sides : /\ DOMAIN new[s] \subseteq Addrs
                     /\ \A a \in DOMAIN new[s] : RowOK(new[s][a])

LEMMA SidesAre == Sides = {"orig", "recomp"} /\ "orig" \in Sides /\ "recomp" \in Sides
BY DEF Sides

LEMMA NothingIsRows == RowsOK(Nothing) /\ \A s \in Sides : DOMAIN Nothing[s] = {}
BY DEF RowsOK, Nothing

LEMMA BlankDomain ==
    DOMAIN Blank = {"type", "name", "publics", "symbol", "selector", "bySymbol", "ref",
                    "disp"}
BY DEF Blank

LEMMA UpdatedFacts ==
    ASSUME NEW f, NEW r, DOMAIN f = DOMAIN Blank, f.ref \in OrNone(Addrs),
           f.bySymbol \in BOOLEAN, RowOK(r)
    PROVE  /\ DOMAIN Updated(f, r) = DOMAIN Blank
           /\ Updated(f, r).ref \in OrNone(Addrs)
           /\ Updated(f, r).bySymbol \in BOOLEAN
           /\ \A k \in DOMAIN Blank :
                 Updated(f, r)[k] = IF k \in DOMAIN r THEN r[k] ELSE f[k]
<1>1. \A k \in DOMAIN Blank : Updated(f, r)[k] = IF k \in DOMAIN r THEN r[k] ELSE f[k]
      BY DEF Updated
<1>2. DOMAIN Updated(f, r) = DOMAIN Blank
      BY DEF Updated
<1>3. "ref" \in DOMAIN Blank /\ "bySymbol" \in DOMAIN Blank
      BY BlankDomain
<1>4. Updated(f, r).ref \in OrNone(Addrs)
      BY <1>1, <1>3 DEF RowOK, OrNone
<1>5. Updated(f, r).bySymbol \in BOOLEAN
      BY <1>1, <1>3 DEF RowOK
<1> QED  BY <1>1, <1>2, <1>4, <1>5

(* A batch keeps the shape of the catalog and of the facts. *)
LEMMA WroteKeepsCore ==
    ASSUME Core, NEW ps, NEW offered, NEW new, RowsOK(new), Wrote(ps, offered, new)
    PROVE  Core'
<1> DEFINE more == [s \in Sides |-> DOMAIN new[s]]
<1>1. more \in [Sides -> SUBSET Addrs] /\ InstallStep(ps, more)
      BY DEF RowsOK, Wrote
<1>2. Inv'
  <2>1. /\ frozen' \in BOOLEAN /\ open' \in BOOLEAN
        /\ rows' \in [Sides -> SUBSET Addrs] /\ staged' \in Seq(Pair)
        BY DEF Core, Inv, TypeOK, Wrote, batch
  <2> HIDE DEF more
  <2> QED  BY <1>1, <2>1, InstallKeepsInv DEF Core
<1>3. ~open' /\ staged' = <<>> /\ given' = given
      BY DEF Core, Wrote, batch
<1>4. FactsOK'
  <2>1. facts' = [s \in Sides |-> [a \in Addrs |-> facts'[s][a]]]
        BY DEF Wrote
  <2>2. ASSUME NEW s \in Sides, NEW a \in Addrs
        PROVE  /\ DOMAIN facts'[s][a] = DOMAIN Blank
               /\ facts'[s][a] # Blank => a \in present'[s]
               /\ facts'[s][a].ref \in OrNone(Addrs)
               /\ facts'[s][a].bySymbol \in BOOLEAN
    <3>1. present[s] \cup DOMAIN new[s] \subseteq present'[s]
          BY DEF Wrote, InstallStep
    <3>2. CASE a \in DOMAIN new[s]
      <4>1. facts'[s][a] = Updated(facts[s][a], new[s][a])
            BY <3>2 DEF Wrote
      <4>2. RowOK(new[s][a])
            BY <3>2 DEF RowsOK
      <4> QED  BY <3>1, <3>2, <4>1, <4>2, UpdatedFacts DEF Core, FactsOK
    <3>3. CASE a \notin DOMAIN new[s]
      <4>1. facts'[s][a] = facts[s][a]
            BY <3>3 DEF Wrote
      <4> QED  BY <3>1, <4>1 DEF Core, FactsOK
    <3> QED  BY <3>2, <3>3
  <2> QED  BY <2>1, <2>2 DEF FactsOK
<1> QED  BY <1>2, <1>3, <1>4 DEF Core, GivenOK

(* The pairs are those there were and those of ps, which are new. *)
Adds(ps) ==
    /\ ps \in SUBSET Pair
    /\ \A s \in Sides, a \in Addrs : matches[s][a] # None => matches'[s][a] = matches[s][a]
    /\ \A x \in Addrs : matches["orig"][x] # None => basis'[x] = basis[x]
    /\ \A p \in ps : /\ Fresh(p)
                     /\ matches'["orig"][p.orig] = p.recomp
                     /\ matches'["recomp"][p.recomp] = p.orig
                     /\ basis'[p.orig] = p.basis
    /\ \A x \in Addrs : matches'["orig"][x] # matches["orig"][x] =>
                            \E p \in ps : p.orig = x
    /\ \A y \in Addrs : matches'["recomp"][y] # matches["recomp"][y] =>
                            \E p \in ps : p.recomp = y

LEMMA WroteAdds ==
    ASSUME Core, NEW ps, NEW offered, NEW new, RowsOK(new), Wrote(ps, offered, new)
    PROVE  Adds(ps)
<1> DEFINE more == [s \in Sides |-> DOMAIN new[s]]
<1>1. more \in [Sides -> SUBSET Addrs] /\ InstallStep(ps, more) /\ Inv
      BY DEF RowsOK, Wrote, Core
<1> HIDE DEF more
<1>2. Installable(ps)
      BY <1>1 DEF InstallStep
<1>3. /\ \A s \in Sides : \A p \in ps : matches'[s][End(p, s)] = Far(p, s)
      /\ \A s \in Sides : \A a \in Addrs \ Ends(ps, s) : matches'[s][a] = matches[s][a]
      BY <1>1, InstallMatches
<1>4. ASSUME NEW p \in ps
      PROVE  /\ Fresh(p)
             /\ matches'["orig"][p.orig] = p.recomp
             /\ matches'["recomp"][p.recomp] = p.orig
             /\ basis'[p.orig] = p.basis
  <2>1. matches'["orig"][p.orig] = p.recomp /\ matches'["recomp"][p.recomp] = p.orig
        BY <1>3, SidesAre DEF End, Far
  <2>2. \A q \in ps : q.orig = p.orig => q = p
        BY <1>2 DEF Installable, Collide
  <2>3. p.orig \in Addrs /\ p.orig \in Ends(ps, "orig")
        BY <1>2 DEF Installable, Pair, Ends, End
  <2>4. basis'[p.orig] = p.basis
        BY <1>1, <2>2, <2>3 DEF InstallStep, Install
  <2> QED  BY <1>2, <2>1, <2>4 DEF Installable
<1>5. \A x \in Addrs : matches'["orig"][x] # matches["orig"][x] => \E p \in ps : p.orig = x
      BY <1>3, SidesAre DEF Ends, End
<1>6. \A y \in Addrs : matches'["recomp"][y] # matches["recomp"][y] =>
          \E p \in ps : p.recomp = y
      BY <1>3, SidesAre DEF Ends, End
<1>7. ASSUME NEW s \in Sides, NEW a \in Addrs, matches[s][a] # None
      PROVE  matches'[s][a] = matches[s][a] /\ (s = "orig" => basis'[a] = basis[a])
      BY <1>1, <1>7, InstallKeepsPairs
<1> QED  BY <1>2, <1>4, <1>5, <1>6, <1>7, SidesAre DEF Adds, Installable

LEMMA OneSide ==
    ASSUME NEW s \in Sides, NEW new, DOMAIN new \subseteq Addrs,
           \A a \in DOMAIN new : RowOK(new[a])
    PROVE  /\ RowsOK(OnSide(s, new))
           /\ OnSide(s, new)[s] = new
           /\ \A t \in Sides \ {s} : DOMAIN OnSide(s, new)[t] = {}
<1>1. /\ OnSide(s, new)[s] = new
      /\ \A t \in Sides \ {s} : OnSide(s, new)[t] = Nothing[t]
      BY DEF OnSide, Nothing
<1> QED  BY <1>1, NothingIsRows DEF RowsOK

(* A stage that gives an alias makes a set_alias call that succeeds. *)
Aliases ==
    /\ \E s \in Sides, a \in Addrs, c \in Addrs : SetAlias(s, a, c)
    /\ UNCHANGED <<given, facts>>

LEMMA WriteAliasSetsAlias ==
    ASSUME Core, NEW chosen, WriteAlias(chosen)
    PROVE  Aliases
<1>1. PICK s \in Sides, a \in Addrs :
         /\ <<s, a>> \in Suitable(chosen)
         /\ aliases' = [aliases EXCEPT ![s][a] = chosen[s][a]]
      BY SidesAre DEF WriteAlias
<1>2. TakesAlias(chosen, s, a)
      BY <1>1 DEF Suitable
<1>3. chosen[s][a] \in Addrs
      BY <1>2, SidesAre DEF TakesAlias, RealPair, Core, Inv, TypeOK
<1>4. SetAlias(s, a, chosen[s][a])
      BY <1>1, <1>2 DEF SetAlias, TakesAlias, WriteAlias, Core, batch
<1> QED  BY <1>3, <1>4 DEF Aliases, WriteAlias

(* The actions that do not pair. *)
LEMMA AliasStages ==
    ASSUME Core, NEW name, NEW chosen, NEW next, AliasStage(name, chosen, next)
    PROVE  /\ Aliases \/ WritesNothing
           /\ stage = name
           /\ UNCHANGED <<stage, turn>> \/ (stage' = next /\ turn' = 1)
BY WriteAliasSetsAlias DEF AliasStage, Enters, Leaves, Stays

LEMMA FoldedMarkerAliases ==
    ASSUME Core, FoldedMarker
    PROVE  Aliases \/ WritesNothing
BY WriteAliasSetsAlias DEF FoldedMarker

(* The rows of each stage. *)
LEMMA LoadCvdumpWrites ==
    ASSUME Core, LoadCvdump
    PROVE  \E ps, new : RowsOK(new) /\ Wrote(ps, {}, new)
<1> DEFINE new == [y \in Stated(given.pdb) |-> given.pdb[y]]
<1>1. DOMAIN new \subseteq Addrs
      BY DEF Core, GivenOK, Stated
<1>2. \A a \in DOMAIN new : RowOK(new[a])
      BY DEF Core, GivenOK, IsRow, RowOK
<1>3. WriteRows(OnSide("recomp", new))
      BY DEF LoadCvdump
<1> HIDE DEF new
<1> QED  BY <1>1, <1>2, <1>3, OneSide, RowsWrite, SidesAre

LEMMA LoadDataSourcesWrites ==
    ASSUME Core, LoadDataSources
    PROVE  \E ps, new : RowsOK(new) /\ Wrote(ps, {}, new)
<1> DEFINE new == [x \in Stated(given.csv) |-> given.csv[x]]
<1>1. DOMAIN new \subseteq Addrs
      BY DEF Core, GivenOK, Stated
<1>2. \A a \in DOMAIN new : RowOK(new[a])
      BY DEF Core, GivenOK, IsRow, RowOK
<1>3. WriteRows(OnSide("orig", new))
      BY DEF LoadDataSources
<1> HIDE DEF new
<1> QED  BY <1>1, <1>2, <1>3, OneSide, RowsWrite, SidesAre

(* The header entry pair, with the row of its recompiled end. *)
LEMMA MatchEntryWrites ==
    ASSUME Core, MatchEntry
    PROVE  \E ps, new :
              /\ RowsOK(new)
              /\ Wrote(ps, IF given.entry = None THEN {} ELSE {given.entry}, new)
<1>1. CASE given.entry = None
      BY <1>1, RowsWrite, NothingIsRows DEF MatchEntry
<1>2. CASE given.entry # None
  <2> DEFINE new == [y \in {given.entry.recomp} |-> [type |-> "function"]]
  <2>1. given.entry \in Pair /\ given.entry.recomp \in Addrs
        BY <1>2 DEF Core, GivenOK, Pair
  <2>2. DOMAIN new \subseteq Addrs /\ \A a \in DOMAIN new : RowOK(new[a])
        BY <2>1 DEF RowOK
  <2>3. WriteBatch(OnSide("recomp", new), <<given.entry>>)
        BY <1>2 DEF MatchEntry
  <2> HIDE DEF new
  <2>4. /\ <<given.entry>> \in Seq(Pair)
        /\ {<<given.entry>>[i] : i \in DOMAIN <<given.entry>>} = {given.entry}
        BY <2>1
  <2> DEFINE list == <<given.entry>>
  <2> HIDE DEF list
  <2>5. \E ps : Wrote(ps, {given.entry}, OnSide("recomp", new))
        BY <2>3, <2>4, BatchWrites DEF list
  <2> QED  BY <1>2, <2>2, <2>5, OneSide, SidesAre
<1> QED  BY <1>1, <1>2

LEMMA LinePairsArePairs ==
    ASSUME GivenOK
    PROVE  /\ LinePairs \in SUBSET Pair
           /\ \A p \in LinePairs :
                 /\ Claims(p.orig, p.recomp)
                 /\ p = PairOf(p.orig, p.recomp, "annotation")
           /\ \A x, y \in Addrs :
                 Claims(x, y) => PairOf(x, y, "annotation") \in LinePairs
<1>1. ASSUME NEW p \in LinePairs
      PROVE  /\ p \in Pair /\ Claims(p.orig, p.recomp)
             /\ p = PairOf(p.orig, p.recomp, "annotation")
  <2>1. PICK x \in Marked("body") : /\ given.marker[x].target # None
                                    /\ p = PairOf(x, given.marker[x].target, "annotation")
        BY DEF LinePairs
  <2>2. x \in Addrs /\ given.marker[x] # None /\ given.marker[x].kind = "body"
        BY <2>1 DEF Marked, Stated, GivenOK
  <2>3. given.marker[x].target \in Addrs
        BY <2>1, <2>2 DEF GivenOK, Stated, IsMarker, OrNone
  <2> QED  BY <2>1, <2>2, <2>3, StagesAssumption DEF PairOf, Pair, Claims
<1>2. ASSUME NEW x \in Addrs, NEW y \in Addrs, Claims(x, y)
      PROVE  PairOf(x, y, "annotation") \in LinePairs
  <2>1. x \in Marked("body") /\ given.marker[x].target # None
        BY <1>2, CatalogAssumption DEF Claims, Marked, Stated, GivenOK
  <2> QED  BY <1>2, <2>1 DEF LinePairs, Claims
<1> QED  BY <1>1, <1>2

LEMMA MarkerRowsAreRows ==
    ASSUME GivenOK
    PROVE  RowsOK(OnSide("orig", MarkerRows))
<1>1. DOMAIN MarkerRows \subseteq Addrs
      BY DEF MarkerRows, Stated, FoldedBodies, GivenOK
<1>2. ASSUME NEW x \in DOMAIN MarkerRows PROVE RowOK(MarkerRows[x])
  <2>1. CASE MarkerRows[x] = [type |-> "function"]
        BY <2>1 DEF RowOK
  <2>2. CASE x \in Stated(given.marker) /\ MarkerRows[x] = MarkerRow(x)
    <3>1. IsMarker(given.marker[x])
          BY <2>2 DEF GivenOK
    <3> QED  BY <2>2, <3>1 DEF IsMarker, MarkerRow, RowOK
  <2> QED  BY <2>1, <2>2 DEF MarkerRows
<1> QED  BY <1>1, <1>2, OneSide, SidesAre

LEMMA LoadMarkersWrites ==
    ASSUME Core, LoadMarkers
    PROVE  \E ps, new : RowsOK(new) /\ Wrote(ps, LinePairs, new)
<1>1. PICK list \in Listings(LinePairs) : WriteBatch(OnSide("orig", MarkerRows), list)
      BY DEF LoadMarkers
<1>2. list \in Seq(Pair) /\ {list[i] : i \in DOMAIN list} = LinePairs
      BY <1>1, ListingFacts, LinePairsArePairs DEF Core
<1> QED  BY <1>1, <1>2, BatchWrites, MarkerRowsAreRows DEF Core

LEMMA CreateStructuresWrites ==
    ASSUME Core, CreateStructures
    PROVE  \E ps, new : RowsOK(new) /\ Wrote(ps, {}, new)
<1>1. PICK s \in Sides : WriteRows(OnSide(s, StructureRows(s)))
      BY SidesAre DEF CreateStructures
<1>2. \A a \in Stated(given.jumps[s]) : a \in Addrs /\ IsJump(given.jumps[s][a])
      BY DEF Core, GivenOK, Stated
<1>3. NewJumps(s) \subseteq Stated(given.jumps[s])
      BY DEF NewJumps, JumpKind
<1>4. Stated(given.imports[s]) \subseteq Addrs
      BY DEF Core, GivenOK, Stated
<1>5. VtordispParents(s) \subseteq Addrs
      BY <1>2 DEF VtordispParents, JumpKind, IsJump
<1>6. DOMAIN StructureRows(s) \subseteq Addrs
      BY <1>2, <1>3, <1>4, <1>5 DEF StructureRows
<1>7. ASSUME NEW a \in DOMAIN StructureRows(s) PROVE RowOK(StructureRows(s)[a])
  <2>1. StructureRows(s)[a] = StructureRow(s, a)
        BY DEF StructureRows
  <2>2. CASE a \in NewJumps(s)
    <3>1. given.jumps[s][a].ref \in Addrs
          BY <1>2, <1>3, <2>2 DEF IsJump
    <3> QED  BY <2>1, <2>2, <3>1 DEF StructureRow, RowOK
  <2>3. CASE a \notin NewJumps(s)
        BY <2>1, <2>3 DEF StructureRow, RowOK
  <2> QED  BY <2>2, <2>3
<1> QED  BY <1>1, <1>6, <1>7, OneSide, RowsWrite

(* The strings found in the images bring a type and a name, no reference. *)
LEMMA CreateStringsWrites ==
    ASSUME Core, CreateStrings
    PROVE  \E ps, new :
              /\ RowsOK(new) /\ Wrote(ps, {}, new)
              /\ \A s \in Sides : \A a \in DOMAIN new[s] :
                    "ref" \notin DOMAIN new[s][a] /\ "disp" \notin DOMAIN new[s][a]
<1>1. PICK s \in Sides : WriteRows(OnSide(s, StringRows(s)))
      BY SidesAre DEF CreateStrings
<1>2. DOMAIN StringRows(s) \subseteq Addrs
      BY DEF StringRows, NewStrings, PartialStrings, HasType, Core, GivenOK, Inv, TypeOK
<1>3. \A a \in DOMAIN StringRows(s) : /\ "ref" \notin DOMAIN StringRows(s)[a]
                                      /\ "disp" \notin DOMAIN StringRows(s)[a]
                                      /\ "bySymbol" \notin DOMAIN StringRows(s)[a]
      BY DEF StringRows
<1>4. \A a \in DOMAIN StringRows(s) : RowOK(StringRows(s)[a])
      BY <1>3 DEF RowOK
<1>5. \E ps : Wrote(ps, {}, OnSide(s, StringRows(s)))
      BY <1>1, RowsWrite
<1>6. /\ RowsOK(OnSide(s, StringRows(s)))
      /\ OnSide(s, StringRows(s))[s] = StringRows(s)
      /\ \A t \in Sides \ {s} : DOMAIN OnSide(s, StringRows(s))[t] = {}
      BY <1>2, <1>4, OneSide
<1> QED  BY <1>3, <1>5, <1>6

(* The pairs of each stage. *)
LEMMA CataloguedAddresses ==
    ASSUME Core, NEW s \in Sides
    PROVE  Unmatched(s) \subseteq Addrs /\ present[s] \subseteq Addrs
BY DEF Unmatched, Core, Inv, TypeOK

LEMMA InTurnArePairs ==
    ASSUME NEW f, NEW g, NEW b \in Bases, DOMAIN f \subseteq Addrs, DOMAIN g \subseteq Addrs
    PROVE  InTurn(f, g, b) \in SUBSET Pair
BY DEF InTurn, Pairs, Pair

LEMMA OfferedArePairs ==
    ASSUME Core
    PROVE  /\ SelectorPairs \in SUBSET Pair
           /\ SymbolPairs \in SUBSET Pair
           /\ NamePairs \in SUBSET Pair
           /\ VariablePairs \in SUBSET Pair
           /\ MarkedLinePairs \in SUBSET Pair
           /\ ImportPairs \in SUBSET Pair
           /\ RefPairs \in SUBSET Pair
           /\ StringPairs \in SUBSET Pair
<1>1. /\ Unmatched("orig") \subseteq Addrs /\ Unmatched("recomp") \subseteq Addrs
      /\ "annotation" \in Bases /\ "derived" \in Bases /\ "content" \in Bases
      BY CataloguedAddresses, SidesAre, StagesAssumption
<1>2. SelectorPairs \in SUBSET Pair
      BY <1>1 DEF SelectorPairs, Pairs, Selecting, Callables, Pair
<1>3. NamePairs \in SUBSET Pair
      BY <1>1 DEF NamePairs, Pairs, NamedFunctions, Callables, Pair
<1>4. ImportPairs \in SUBSET Pair
      BY <1>1 DEF ImportPairs, Pairs, Imports, Pair
<1>5. MarkedLinePairs \in SUBSET Pair
  <2>1. ASSUME NEW x \in Marked("line"), given.marker[x].target # None
        PROVE  x \in Addrs /\ given.marker[x].target \in Addrs
        BY <2>1 DEF Core, GivenOK, Marked, Stated, IsMarker, OrNone
  <2> QED  BY <1>1, <2>1 DEF MarkedLinePairs, PairOf, Pair
<1>6. SymbolPairs \in SUBSET Pair
  <2> DEFINE f == [x \in SymbolSeekers |-> facts["orig"][x].symbol]
             g == [y \in {z \in Unmatched("recomp") : facts["recomp"][z].symbol # None}
                     |-> facts["recomp"][y].symbol]
  <2>1. DOMAIN f \subseteq Addrs /\ DOMAIN g \subseteq Addrs
        BY <1>1 DEF SymbolSeekers
  <2>2. SymbolPairs = InTurn(f, g, "annotation")
        BY DEF SymbolPairs
  <2> HIDE DEF f, g
  <2> QED  BY <1>1, <2>1, <2>2, InTurnArePairs
<1>7. VariablePairs \in SUBSET Pair
  <2> DEFINE f == [x \in Variables("orig", {"data"}) |-> facts["orig"][x].name]
             g == [y \in Variables("recomp", {None, "data"}) |-> facts["recomp"][y].name]
  <2>1. DOMAIN f \subseteq Addrs /\ DOMAIN g \subseteq Addrs
        BY <1>1 DEF Variables
  <2>2. VariablePairs = InTurn(f, g, "annotation")
        BY DEF VariablePairs
  <2> HIDE DEF f, g
  <2> QED  BY <1>1, <2>1, <2>2, InTurnArePairs
<1>8. RefPairs \in SUBSET Pair
  <2> DEFINE f == [x \in Children("orig") |-> RefKey("orig", x)]
             g == [y \in Children("recomp") |-> RefKey("recomp", y)]
  <2>1. DOMAIN f \subseteq Addrs /\ DOMAIN g \subseteq Addrs
        BY <1>1 DEF Children
  <2>2. RefPairs = InTurn(f, g, "derived")
        BY DEF RefPairs
  <2> HIDE DEF f, g
  <2> QED  BY <1>1, <2>1, <2>2, InTurnArePairs
<1>9. StringPairs \in SUBSET Pair
  <2> DEFINE f == [x \in Strings("orig") |-> facts["orig"][x].name]
             g == [y \in Strings("recomp") |-> facts["recomp"][y].name]
  <2>1. DOMAIN f \subseteq Addrs /\ DOMAIN g \subseteq Addrs
        BY <1>1 DEF Strings
  <2>2. StringPairs = InTurn(f, g, "content")
        BY DEF StringPairs
  <2> HIDE DEF f, g
  <2> QED  BY <1>1, <2>1, <2>2, InTurnArePairs
<1> QED  BY <1>2, <1>3, <1>4, <1>5, <1>6, <1>7, <1>8, <1>9

(* The pairs of the export tables, in the order of the table. *)
ExportSet == {ExportPairs[i] : i \in DOMAIN ExportPairs}

LEMMA MatchExportsWrites ==
    ASSUME Core, MatchExports
    PROVE  \E ps : Wrote(ps, ExportSet, Nothing)
<1>1. \A s \in Sides : \A a \in Addrs : Through(s, a) \in Addrs
      BY DEF Through, JumpKind, Core, GivenOK, IsJump
<1>2. \A i \in DOMAIN given.exports :
          PairOf(Through("orig", given.exports[i].orig),
                 Through("recomp", given.exports[i].recomp), "derived") \in Pair
      BY <1>1, SidesAre, StagesAssumption DEF Core, GivenOK, PairOf, Pair
<1>3. Len(given.exports) \in Nat /\ DOMAIN given.exports = 1 .. Len(given.exports)
      BY DEF Core, GivenOK, IsList
<1>4. ExportPairs \in [1 .. Len(given.exports) -> Pair]
      BY <1>2, <1>3 DEF ExportPairs
<1>5. ExportPairs \in Seq(Pair)
      BY <1>3, <1>4
<1>6. WriteBatch(Nothing, ExportPairs)
      BY DEF MatchExports
<1> QED  BY <1>5, <1>6, BatchWrites DEF ExportSet

-------------------------------------------------------------------------------
(* A step of the stages is one of four things to the catalog. *)

Writes == \E ps, offered, new : RowsOK(new) /\ Wrote(ps, offered, new)
Seals == Freeze /\ UNCHANGED <<given, facts>>

LEMMA StageSteps ==
    ASSUME Core, StagesNext
    PROVE  Writes \/ Aliases \/ WritesNothing \/ Seals
<1>1. CASE LoadCvdump
      BY <1>1, LoadCvdumpWrites DEF Writes
<1>2. CASE MatchEntry
      BY <1>2, MatchEntryWrites DEF Writes
<1>3. CASE LoadDataSources
      BY <1>3, LoadDataSourcesWrites DEF Writes
<1>4. CASE LoadMarkers
      BY <1>4, LoadMarkersWrites DEF Writes
<1>5. CASE MatchAnnotationSelectors
      BY <1>5, PairsWrite, OfferedArePairs, NothingIsRows DEF MatchAnnotationSelectors, Writes
<1>6. CASE MatchSymbols
      BY <1>6, PairsWrite, OfferedArePairs, NothingIsRows DEF MatchSymbols, Writes
<1>7. CASE MatchFunctions
      BY <1>7, PairsWrite, OfferedArePairs, NothingIsRows DEF MatchFunctions, Writes
<1>8. CASE FoldedMarker
      BY <1>8, FoldedMarkerAliases
<1>9. CASE FoldedMarkersDone
      BY <1>9 DEF FoldedMarkersDone
<1>10. CASE MatchVariables
      BY <1>10, PairsWrite, OfferedArePairs, NothingIsRows DEF MatchVariables, Writes
<1>11. CASE MatchLines
      BY <1>11, PairsWrite, OfferedArePairs, NothingIsRows DEF MatchLines, Writes
<1>12. CASE CreateStructures
      BY <1>12, CreateStructuresWrites DEF Writes
<1>13. CASE MatchImports
      BY <1>13, PairsWrite, OfferedArePairs, NothingIsRows DEF MatchImports, Writes
<1>14. CASE MatchExports
      BY <1>14, MatchExportsWrites, NothingIsRows DEF Writes
<1>15. CASE MatchRef
      BY <1>15, PairsWrite, OfferedArePairs, NothingIsRows DEF MatchRef, Writes
<1>16. CASE ClassifyFoldedFunctionAliases
      BY <1>16, AliasStages DEF ClassifyFoldedFunctionAliases
<1>17. CASE ClassifySyntheticJumpAliases
      BY <1>17, AliasStages DEF ClassifySyntheticJumpAliases
<1>18. CASE CreateStrings
      BY <1>18, CreateStringsWrites DEF Writes
<1>19. CASE MatchStrings
      BY <1>19, PairsWrite, OfferedArePairs, NothingIsRows DEF MatchStrings, Writes
<1>20. CASE ClassifyExactStringAliases
      BY <1>20, AliasStages DEF ClassifyExactStringAliases
<1>21. CASE SealCatalog
      BY <1>21 DEF SealCatalog, Seals
<1> QED  BY <1>1, <1>2, <1>3, <1>4, <1>5, <1>6, <1>7, <1>8, <1>9, <1>10, <1>11, <1>12,
            <1>13, <1>14, <1>15, <1>16, <1>17, <1>18, <1>19, <1>20, <1>21
         DEF StagesNext

LEMMA InitCore == StagesInit => Core
<1> SUFFICES ASSUME StagesInit PROVE Core
    OBVIOUS
<1>1. Inv
      BY InitInv DEF StagesInit
<1>2. FactsOK
  <2>1. \A s \in Sides, a \in Addrs : facts[s][a] = Blank
        BY DEF StagesInit
  <2>2. Blank.ref = None /\ Blank.bySymbol = FALSE
        BY DEF Blank
  <2> QED  BY <2>1, <2>2 DEF FactsOK, OrNone, StagesInit
<1> QED  BY <1>1, <1>2 DEF Core, StagesInit, Init

LEMMA QuietStepKeepsCore ==
    ASSUME Core, UNCHANGED <<vars, given, facts>>
    PROVE  Core'
<1>1. Inv'
      BY StepKeepsInv DEF Core
<1> QED  BY <1>1 DEF Core, FactsOK, GivenOK, vars, catalog, batch

LEMMA StepKeepsCore ==
    ASSUME Core, [StagesNext]_stageVars
    PROVE  Core'
<1>1. CASE Writes
      BY <1>1, WroteKeepsCore DEF Writes
<1>2. CASE Aliases
  <2>1. Inv'
        BY <1>2, SetAliasKeepsInv DEF Aliases, Core
  <2>2. UNCHANGED <<open, staged, given, facts, present>>
        BY <1>2 DEF Aliases, SetAlias, batch
  <2> QED  BY <2>1, <2>2 DEF Core, FactsOK, GivenOK
<1>3. CASE WritesNothing
      BY <1>3, QuietStepKeepsCore DEF WritesNothing
<1>4. CASE Seals
  <2>1. Inv'
        BY <1>4, StepKeepsInv DEF Seals, Core, Next
  <2>2. UNCHANGED <<open, staged, given, facts, present>>
        BY <1>4 DEF Seals, Freeze, batch
  <2> QED  BY <2>1, <2>2 DEF Core, FactsOK, GivenOK
<1>5. CASE UNCHANGED stageVars
      BY <1>5, QuietStepKeepsCore DEF stageVars
<1> QED  BY <1>1, <1>2, <1>3, <1>4, <1>5, StageSteps

(* Each stage is a step of the abstract correspondence, or no step of it. *)
LEMMA StageStepImplements ==
    ASSUME Core, Core', [StagesNext]_stageVars
    PROVE  [Abstract!Next]_<<PairSet, EdgeSet, frozen>>
<1>1. CASE Writes
  <2>1. PICK ps, offered, new : RowsOK(new) /\ Wrote(ps, offered, new)
        BY <1>1 DEF Writes
  <2> DEFINE more == [s \in Sides |-> DOMAIN new[s]]
  <2>2. more \in [Sides -> SUBSET Addrs] /\ InstallStep(ps, more)
        BY <2>1 DEF RowsOK, Wrote
  <2>3. ~frozen /\ frozen' = frozen
        BY <2>1 DEF Wrote
  <2> HIDE DEF more
  <2> QED  BY <2>2, <2>3, InstallAddsPairs DEF Core, Abstract!Next
<1>2. CASE Aliases
      BY <1>2, SetAliasAddsEdge DEF Aliases, Core, Abstract!Next
<1>3. CASE WritesNothing
      BY <1>3 DEF WritesNothing, vars, catalog, pairVars, PairSet, EdgeSet
<1>4. CASE Seals
      BY <1>4 DEF Seals, Freeze, pairVars, Abstract!Next, Abstract!Seal, PairSet, EdgeSet
<1>5. CASE UNCHANGED stageVars
      BY <1>5 DEF stageVars, vars, catalog, pairVars, PairSet, EdgeSet
<1> QED  BY <1>1, <1>2, <1>3, <1>4, <1>5, StageSteps

LEMMA CoreAlways == StagesSpec => []Core
<1>1. StagesInit => Core
      BY InitCore
<1>2. Core /\ [StagesNext]_stageVars => Core'
      BY StepKeepsCore
<1> QED  BY <1>1, <1>2, PTL DEF StagesSpec

(* The stages, from loading to seal, are one behaviour of the abstract       *)
(* growing one-to-one correspondence, whatever the input files say.          *)
THEOREM StagesAreOneCatalog == StagesSpec => StagesImplementCatalog
<1>1. Core /\ Core' /\ [StagesNext]_stageVars =>
          [Abstract!Next]_<<PairSet, EdgeSet, frozen>>
      BY StageStepImplements
<1>2. StagesInit => Abstract!Init
      BY InitImplementsPairCatalog DEF StagesInit
<1> QED  BY <1>1, <1>2, CoreAlways, PTL
         DEF StagesSpec, StagesImplementCatalog, Abstract!Spec, Abstract!vars

-------------------------------------------------------------------------------
(* What the catalog promises holds of the stages: they write it with the     *)
(* operations that keep it.                                                  *)

(* No stage pairs an address twice, lets the copies of the pairing drift     *)
(* apart, or leaves an alias that names no pair.                             *)
THEOREM StagesKeepCatalog == StagesSpec => [](OneToOne /\ CopiesAgree /\ AliasesNamePairs)
<1>1. Core => OneToOne /\ CopiesAgree /\ AliasesNamePairs
      BY DEF Core, Inv
<1> QED  BY <1>1, CoreAlways, PTL

LEMMA StageStepKeepsPairs ==
    ASSUME Core, [StagesNext]_stageVars, NEW s \in Sides, NEW a \in Addrs,
           matches[s][a] # None
    PROVE  matches'[s][a] = matches[s][a] /\ (s = "orig" => basis'[a] = basis[a])
<1>1. CASE Writes
      BY <1>1, WroteAdds DEF Writes, Adds
<1>2. CASE Aliases \/ WritesNothing \/ Seals \/ UNCHANGED stageVars
      BY <1>2 DEF Aliases, SetAlias, WritesNothing, Seals, Freeze, pairVars, catalog, vars,
                  stageVars
<1> QED  BY <1>1, <1>2, StageSteps

(* No stage overrules the pair or the basis of an earlier one. *)
THEOREM StagesKeepPairs == StagesSpec => PairsAreFinal
<1>1. Core /\ [StagesNext]_stageVars =>
        [\A s \in Sides, a \in Addrs : matches[s][a] # None =>
              /\ matches'[s][a] = matches[s][a]
              /\ s = "orig" => basis'[a] = basis[a]]_vars
      BY StageStepKeepsPairs
<1> QED  BY <1>1, CoreAlways, PTL DEF StagesSpec, PairsAreFinal

LEMMA WroteKeepsAliases ==
    ASSUME Core, NEW ps, NEW offered, NEW new, RowsOK(new), Wrote(ps, offered, new),
           NEW s \in Sides, NEW a \in Addrs, aliases[s][a] # None
    PROVE  aliases'[s][a] = aliases[s][a] \/ matches'[s][a] # None
<1> DEFINE more == [t \in Sides |-> DOMAIN new[t]]
<1>1. more \in [Sides -> SUBSET Addrs] /\ InstallStep(ps, more)
      BY DEF RowsOK, Wrote
<1> HIDE DEF more
<1>2. CASE a \in Ends(ps, s)
      BY <1>1, <1>2, InstallMatches DEF Core
<1>3. CASE a \notin Ends(ps, s)
      BY <1>1, <1>3 DEF InstallStep, Install, AliasesLeft
<1> QED  BY <1>2, <1>3

LEMMA StageStepSharpens ==
    ASSUME Core, Core', [StagesNext]_stageVars, NEW s \in Sides, NEW a \in Addrs,
           Canonical(s, a) # None
    PROVE  \/ Canonical(s, a)' = Canonical(s, a)
           \/ /\ matches[s][a] = None
              /\ matches'[s][a] # None
              /\ aliases'[s][a] = None
<1>1. CASE Writes
  <2>1. CASE matches[s][a] # None
        BY <2>1, StageStepKeepsPairs DEF Canonical
  <2>2. CASE matches[s][a] = None
    <3>1. aliases[s][a] # None
          BY <2>2 DEF Canonical
    <3>2. aliases'[s][a] = aliases[s][a] \/ matches'[s][a] # None
          BY <1>1, <3>1, WroteKeepsAliases DEF Writes
    <3>3. matches'[s][a] # None => aliases'[s][a] = None
          BY DEF Core, Inv, AliasesNamePairs
    <3> QED  BY <2>2, <3>1, <3>2, <3>3 DEF Canonical
  <2> QED  BY <2>1, <2>2
<1>2. CASE Aliases \/ WritesNothing \/ Seals \/ UNCHANGED stageVars
  <2>1. [Next]_vars
        BY <1>2 DEF Aliases, WritesNothing, Seals, Next, stageVars
  <2> QED  BY <2>1, StepSharpensIdentity DEF Core
<1> QED  BY <1>1, <1>2, StageSteps

(* Through all the stages an address that resolves to a canonical original   *)
(* address goes on resolving, to the same one or to its own pair.            *)
THEOREM StagesSharpenIdentity == StagesSpec => IdentityOnlySharpens
<1>1. Core /\ Core' /\ [StagesNext]_stageVars =>
        [\A s \in Sides, a \in Addrs : Canonical(s, a) # None =>
              \/ Canonical(s, a)' = Canonical(s, a)
              \/ /\ matches[s][a] = None
                 /\ matches'[s][a] # None
                 /\ aliases'[s][a] = None]_vars
      BY StageStepSharpens
<1> QED  BY <1>1, CoreAlways, PTL DEF StagesSpec, IdentityOnlySharpens

-------------------------------------------------------------------------------
(* The stage and the position in it *)

Limit == IF stage = "match_folded_function_aliases" THEN Len(given.folded) + 1
         ELSE IF stage = "match_ref" THEN MaxRounds ELSE 2

StageOK == turn \in 1 .. Limit /\ (frozen <=> stage = "done")

LEMMA InitStage == StagesInit => StageOK
BY DEF StagesInit, Init, StageOK, Limit

(* A stage that is left starts the next at its first position. *)
LEMMA LeavesAtFirst ==
    ASSUME GivenOK, NEW next, next # "done", frozen' = frozen, ~frozen,
           given' = given, Leaves(next)
    PROVE  StageOK'
<1>1. Len(given.folded) \in Nat /\ MaxRounds \in Nat /\ MaxRounds >= 1
      BY StagesAssumption DEF GivenOK, IsList
<1>2. turn' = 1 /\ stage' = next
      BY DEF Leaves
<1>3. Limit' = IF next = "match_folded_function_aliases" THEN Len(given.folded) + 1
               ELSE IF next = "match_ref" THEN MaxRounds ELSE 2
      BY <1>2 DEF Limit
<1>4. turn' \in 1 .. Limit'
      BY <1>1, <1>2, <1>3
<1> QED  BY <1>2, <1>4 DEF StageOK

LEMMA WritesLeaveOpen ==
    ASSUME Writes \/ Aliases \/ WritesNothing
    PROVE  frozen' = frozen /\ given' = given
BY DEF Writes, Wrote, Aliases, SetAlias, WritesNothing, vars, catalog

LEMMA BatchesLeaveOpen ==
    ASSUME NEW new, NEW list, WriteBatch(new, list)
    PROVE  ~frozen /\ frozen' = frozen /\ given' = given
BY DEF WriteBatch

LEMMA PairsLeaveOpen ==
    ASSUME NEW ps, NEW s, WritePairs(ps, s)
    PROVE  ~frozen /\ frozen' = frozen /\ given' = given
BY DEF WritePairs, WriteBatch

LEMMA AliasStageKeepsStage ==
    ASSUME Core, StageOK, NEW name, NEW chosen, NEW next, name # "done", next # "done",
           AliasStage(name, chosen, next)
    PROVE  StageOK'
<1>1. frozen' = frozen /\ given' = given /\ ~frozen
      BY AliasStages, WritesLeaveOpen DEF StageOK
<1>2. CASE UNCHANGED <<stage, turn>>
      BY <1>1, <1>2 DEF StageOK, Limit
<1>3. CASE stage' = next /\ turn' = 1
      BY <1>1, <1>3, LeavesAtFirst DEF Leaves, Core
<1> QED  BY <1>2, <1>3, AliasStages

LEMMA StepKeepsStage ==
    ASSUME Core, StageOK, [StagesNext]_stageVars
    PROVE  StageOK'
<1>0. GivenOK
      BY DEF Core
<1>1. CASE LoadCvdump
      BY <1>0, <1>1, BatchesLeaveOpen, LeavesAtFirst DEF LoadCvdump, WriteRows
<1>2. CASE MatchEntry
      BY <1>0, <1>2, BatchesLeaveOpen, LeavesAtFirst DEF MatchEntry, WriteRows
<1>3. CASE LoadDataSources
      BY <1>0, <1>3, BatchesLeaveOpen, LeavesAtFirst DEF LoadDataSources, WriteRows
<1>4. CASE LoadMarkers
      BY <1>0, <1>4, BatchesLeaveOpen, LeavesAtFirst DEF LoadMarkers
<1>5. CASE MatchAnnotationSelectors
      BY <1>0, <1>5, PairsLeaveOpen, LeavesAtFirst DEF MatchAnnotationSelectors
<1>6. CASE MatchSymbols
      BY <1>0, <1>6, PairsLeaveOpen, LeavesAtFirst DEF MatchSymbols
<1>7. CASE MatchFunctions
      BY <1>0, <1>7, PairsLeaveOpen, LeavesAtFirst DEF MatchFunctions
<1>8. CASE FoldedMarker
  <2>1. frozen' = frozen /\ given' = given
        BY <1>8, FoldedMarkerAliases, WritesLeaveOpen
  <2>2. /\ stage = "match_folded_function_aliases" /\ stage' = stage
        /\ turn <= Len(given.folded) /\ turn' = turn + 1
        BY <1>8 DEF FoldedMarker, Enters
  <2>3. Len(given.folded) \in Nat /\ turn \in Nat /\ turn >= 1
        BY <1>0, <2>2 DEF GivenOK, IsList, StageOK, Limit
  <2>4. turn' \in 1 .. Len(given.folded) + 1
        BY <2>2, <2>3
  <2> QED  BY <2>1, <2>2, <2>4 DEF StageOK, Limit
<1>9. CASE FoldedMarkersDone
      BY <1>0, <1>9, WritesLeaveOpen, LeavesAtFirst DEF FoldedMarkersDone, StageOK, Enters
<1>10. CASE MatchVariables
      BY <1>0, <1>10, PairsLeaveOpen, LeavesAtFirst DEF MatchVariables
<1>11. CASE MatchLines
      BY <1>0, <1>11, PairsLeaveOpen, LeavesAtFirst DEF MatchLines
<1>12. CASE CreateStructures
  <2>1. ~frozen /\ frozen' = frozen /\ given' = given
        BY <1>12, BatchesLeaveOpen DEF CreateStructures, WriteRows
  <2>2. CASE stage' = stage /\ turn' = 2 /\ stage = "create_structures"
        BY <2>1, <2>2 DEF StageOK, Limit
  <2>3. CASE Leaves("match_imports")
        BY <1>0, <2>1, <2>3, LeavesAtFirst
  <2> QED  BY <1>12, <2>2, <2>3 DEF CreateStructures, Enters
<1>13. CASE MatchImports
      BY <1>0, <1>13, PairsLeaveOpen, LeavesAtFirst DEF MatchImports
<1>14. CASE MatchExports
      BY <1>0, <1>14, BatchesLeaveOpen, LeavesAtFirst DEF MatchExports
<1>15. CASE MatchRef
  <2>1. ~frozen /\ frozen' = frozen /\ given' = given
        BY <1>15, PairsLeaveOpen DEF MatchRef
  <2>2. CASE turn < MaxRounds /\ turn' = turn + 1 /\ stage' = stage /\ stage = "match_ref"
    <3>1. turn \in Nat /\ turn >= 1 /\ MaxRounds \in Nat
          BY <2>2, StagesAssumption DEF StageOK, Limit
    <3>2. turn' \in 1 .. MaxRounds
          BY <2>2, <3>1
    <3> QED  BY <2>1, <2>2, <3>2 DEF StageOK, Limit
  <2>3. CASE Leaves("classify_folded_function_aliases")
        BY <1>0, <2>1, <2>3, LeavesAtFirst
  <2> QED  BY <1>15, <2>2, <2>3 DEF MatchRef, Enters
<1>16. CASE ClassifyFoldedFunctionAliases
      BY <1>16, AliasStageKeepsStage DEF ClassifyFoldedFunctionAliases
<1>17. CASE ClassifySyntheticJumpAliases
      BY <1>17, AliasStageKeepsStage DEF ClassifySyntheticJumpAliases
<1>18. CASE CreateStrings
  <2>1. ~frozen /\ frozen' = frozen /\ given' = given
        BY <1>18, BatchesLeaveOpen DEF CreateStrings, WriteRows
  <2>2. CASE stage' = stage /\ turn' = 2 /\ stage = "create_strings"
        BY <2>1, <2>2 DEF StageOK, Limit
  <2>3. CASE Leaves("match_strings")
        BY <1>0, <2>1, <2>3, LeavesAtFirst
  <2> QED  BY <1>18, <2>2, <2>3 DEF CreateStrings, Enters
<1>19. CASE MatchStrings
      BY <1>0, <1>19, PairsLeaveOpen, LeavesAtFirst DEF MatchStrings
<1>20. CASE ClassifyExactStringAliases
      BY <1>20, AliasStageKeepsStage DEF ClassifyExactStringAliases
<1>21. CASE SealCatalog
      BY <1>21 DEF SealCatalog, Freeze, Leaves, StageOK, Limit
<1>22. CASE UNCHANGED stageVars
      BY <1>22 DEF stageVars, vars, catalog, StageOK, Limit
<1> QED  BY <1>1, <1>2, <1>3, <1>4, <1>5, <1>6, <1>7, <1>8, <1>9, <1>10, <1>11, <1>12,
            <1>13, <1>14, <1>15, <1>16, <1>17, <1>18, <1>19, <1>20, <1>21, <1>22
         DEF StagesNext

LEMMA StageAlways == StagesSpec => []StageOK
<1>1. StagesInit => StageOK
      BY InitStage
<1>2. Core /\ StageOK /\ [StagesNext]_stageVars => StageOK'
      BY StepKeepsStage
<1> QED  BY <1>1, <1>2, CoreAlways, PTL DEF StagesSpec

LEMMA CoreIsTyped ==
    ASSUME Core, StageOK
    PROVE  StagesTypeOK
<1>1. Len(given.folded) \in Nat /\ MaxRounds \in Nat /\ MaxRounds >= 1
      BY StagesAssumption DEF Core, GivenOK, IsList
<1>2. turn \in 1 .. Len(given.folded) + MaxRounds + 1
      BY <1>1 DEF StageOK, Limit
<1> QED  BY <1>2 DEF Core, Inv, FactsOK, StageOK, StagesTypeOK, OrNone

(* Whatever the inputs, no stage holds a batch open between steps, facts     *)
(* are kept for catalogued addresses only, no stage passes its last round,   *)
(* and the catalog is frozen exactly when the run is done.                   *)
THEOREM StagesAreTyped == StagesSpec => []StagesTypeOK
<1>1. Core /\ StageOK => StagesTypeOK
      BY CoreIsTyped
<1> QED  BY <1>1, CoreAlways, StageAlways, PTL

-------------------------------------------------------------------------------
(* Body markers decide.  The marked functions are paired in the first batch  *)
(* that pairs more than the header entry, so that all a marker can lose to   *)
(* is that entry or another body marker; no later stage takes a pair back.   *)

OnlyEntryPaired ==
    /\ stage \in {"load_cvdump", "match_entry"} =>
          \A s \in Sides, a \in Addrs : matches[s][a] = None
    /\ stage \in {"load_data_sources", "load_markers"} =>
          \A x, y \in Addrs : matches["orig"][x] = y =>
              given.entry # None /\ x = given.entry.orig /\ y = given.entry.recomp

LEMMA StepKeepsGiven ==
    ASSUME Core, [StagesNext]_stageVars
    PROVE  given' = given
BY StageSteps DEF stageVars, Writes, Wrote, Aliases, WritesNothing, Seals

(* A batch of rows pairs nothing. *)
LEMMA RowsPairNothing ==
    ASSUME Core, NEW ps, NEW new, RowsOK(new), Wrote(ps, {}, new)
    PROVE  \A a \in Addrs : /\ matches'["orig"][a] = matches["orig"][a]
                            /\ matches'["recomp"][a] = matches["recomp"][a]
<1>1. ps = {}
      BY DEF Wrote
<1> QED  BY <1>1, WroteAdds DEF Adds

LEMMA EarlyIsLeft ==
    ASSUME StagesNext
    PROVE  \/ LoadCvdump /\ stage' = "match_entry"
           \/ MatchEntry /\ stage' = "load_data_sources"
           \/ LoadDataSources /\ stage' = "load_markers"
           \/ LoadMarkers /\ stage = "load_markers" /\ stage' \notin Early
           \/ stage \notin Early /\ stage' \notin Early
<1>1. \A name, chosen, next :
         AliasStage(name, chosen, next) => stage = name /\ stage' \in {name, next}
      BY DEF AliasStage, Enters, Leaves, Stays
<1>2. CASE \/ LoadCvdump \/ MatchEntry \/ LoadDataSources \/ LoadMarkers
      BY <1>2 DEF LoadCvdump, MatchEntry, LoadDataSources, LoadMarkers, Enters, Leaves, Early
<1>3. CASE \/ MatchAnnotationSelectors \/ MatchSymbols \/ MatchFunctions
           \/ MatchVariables \/ MatchLines \/ MatchImports \/ MatchExports
           \/ MatchStrings
      BY <1>3 DEF MatchAnnotationSelectors, MatchSymbols, MatchFunctions,
                  MatchVariables, MatchLines, MatchImports, MatchExports, MatchStrings,
                  Enters, Leaves, Early
<1>4. CASE \/ FoldedMarker \/ FoldedMarkersDone \/ CreateStructures \/ MatchRef
           \/ CreateStrings \/ SealCatalog
      BY <1>4 DEF FoldedMarker, FoldedMarkersDone, CreateStructures, MatchRef,
                  CreateStrings, SealCatalog, Enters, Leaves, Early
<1>5. CASE \/ ClassifyFoldedFunctionAliases \/ ClassifySyntheticJumpAliases
           \/ ClassifyExactStringAliases
      BY <1>1, <1>5 DEF ClassifyFoldedFunctionAliases, ClassifySyntheticJumpAliases,
                        ClassifyExactStringAliases, Early
<1> QED  BY <1>2, <1>3, <1>4, <1>5 DEF StagesNext

LEMMA StepKeepsEntryOnly ==
    ASSUME Core, OnlyEntryPaired, [StagesNext]_stageVars
    PROVE  OnlyEntryPaired'
<1>1. CASE LoadCvdump /\ stage' = "match_entry"
  <2>1. \A s \in Sides, a \in Addrs : matches[s][a] = None
        BY <1>1 DEF OnlyEntryPaired, LoadCvdump, Enters
  <2>2. \A s \in Sides, a \in Addrs : matches'[s][a] = None
        BY <1>1, <2>1, LoadCvdumpWrites, RowsPairNothing DEF Sides
  <2> QED  BY <1>1, <2>2 DEF OnlyEntryPaired
<1>2. CASE MatchEntry /\ stage' = "load_data_sources"
  <2>1. \A s \in Sides, a \in Addrs : matches[s][a] = None
        BY <1>2 DEF OnlyEntryPaired, MatchEntry, Enters
  <2>2. PICK ps, new :
           /\ RowsOK(new)
           /\ Wrote(ps, IF given.entry = None THEN {} ELSE {given.entry}, new)
        BY <1>2, MatchEntryWrites
  <2>3. Adds(ps) /\ ps \subseteq IF given.entry = None THEN {} ELSE {given.entry}
        BY <2>2, WroteAdds DEF Wrote
  <2>4. ASSUME NEW x \in Addrs, NEW y \in Addrs, matches'["orig"][x] = y
        PROVE  given.entry # None /\ x = given.entry.orig /\ y = given.entry.recomp
    <3>1. matches["orig"][x] = None /\ None # y
          BY <2>1, SidesAre, CatalogAssumption
    <3>2. PICK p \in ps : p.orig = x
          BY <2>3, <2>4, <3>1 DEF Adds
    <3> QED  BY <2>3, <2>4, <3>2 DEF Adds
  <2> QED  BY <1>2, <2>2, <2>4 DEF OnlyEntryPaired, Wrote
<1>3. CASE LoadDataSources /\ stage' = "load_markers"
  <2>1. \A x \in Addrs : matches'["orig"][x] = matches["orig"][x]
        BY <1>3, LoadDataSourcesWrites, RowsPairNothing
  <2> QED  BY <1>3, <2>1, StepKeepsGiven DEF OnlyEntryPaired, LoadDataSources, Enters
<1>4. CASE stage' \notin Early
      BY <1>4 DEF OnlyEntryPaired, Early
<1>5. CASE UNCHANGED stageVars
      BY <1>5 DEF OnlyEntryPaired, stageVars, vars, catalog, pairVars
<1> QED  BY <1>1, <1>2, <1>3, <1>4, <1>5, EarlyIsLeft

LEMMA EntryOnlyAlways == StagesSpec => []OnlyEntryPaired
<1>1. StagesInit => OnlyEntryPaired
      BY DEF StagesInit, Init, OnlyEntryPaired
<1>2. Core /\ OnlyEntryPaired /\ [StagesNext]_stageVars => OnlyEntryPaired'
      BY StepKeepsEntryOnly
<1> QED  BY <1>1, <1>2, CoreAlways, PTL DEF StagesSpec

(* The body markers no other claim touches are all in the first batch. *)
LEMMA MarkersPair ==
    ASSUME Core, OnlyEntryPaired, LoadMarkers, stage = "load_markers"
    PROVE  BodyMarkersDecide'
<1>1. PICK ps, new : RowsOK(new) /\ Wrote(ps, LinePairs, new)
      BY LoadMarkersWrites
<1>2. Adds(ps)
      BY <1>1, WroteAdds
<1>3. given' = given
      BY <1>1 DEF Wrote
<1>4. ASSUME NEW x \in Addrs, NEW y \in Addrs, Claims(x, y),
             \A z \in Addrs \ {x} : ~Claims(z, y),
             given.entry # None => given.entry.orig # x /\ given.entry.recomp # y
      PROVE  matches'["orig"][x] = y /\ basis'[x] = "annotation"
  <2> DEFINE p == PairOf(x, y, "annotation")
  <2>1. p \in LinePairs /\ p.orig = x /\ p.recomp = y /\ p.basis = "annotation"
        BY <1>4, LinePairsArePairs DEF Core, PairOf
  <2> HIDE DEF p
  <2>2. Fresh(p)
    <3>1. ASSUME matches["orig"][x] # None PROVE FALSE
      <4>1. matches["orig"][x] \in Addrs
            BY <3>1, SidesAre DEF Core, Inv, TypeOK
      <4> QED  BY <1>4, <4>1 DEF OnlyEntryPaired
    <3>2. ASSUME matches["recomp"][y] # None PROVE FALSE
      <4>1. matches["recomp"][y] \in Addrs
            BY <3>2, SidesAre DEF Core, Inv, TypeOK
      <4>2. matches["orig"][matches["recomp"][y]] = y
            BY <4>1 DEF Core, Inv, OneToOne
      <4> QED  BY <1>4, <4>1, <4>2 DEF OnlyEntryPaired
    <3> QED  BY <2>1, <3>1, <3>2 DEF Fresh
  <2>3. ASSUME NEW q \in LinePairs, Collide(p, q) PROVE q = p
    <3>1. /\ q.orig \in Addrs /\ Claims(q.orig, q.recomp)
          /\ q = PairOf(q.orig, q.recomp, "annotation")
          BY LinePairsArePairs DEF Core, Pair
    <3>2. CASE q.orig = x
          BY <1>4, <2>1, <3>1, <3>2 DEF Claims, p
    <3>3. CASE q.recomp = y
          BY <1>4, <2>1, <3>1, <3>3 DEF p
    <3> QED  BY <2>1, <2>3, <3>2, <3>3 DEF Collide
  <2>4. p \in ps
        BY <1>1, <2>1, <2>2, <2>3 DEF Wrote
  <2> QED  BY <1>2, <2>1, <2>4 DEF Adds
<1> QED  BY <1>3, <1>4 DEF BodyMarkersDecide, Claims

LEMMA StepKeepsMarkers ==
    ASSUME Core, OnlyEntryPaired, BodyMarkersDecide, [StagesNext]_stageVars
    PROVE  BodyMarkersDecide'
<1>1. CASE stage' \in Early
      BY <1>1 DEF BodyMarkersDecide
<1>2. CASE LoadMarkers /\ stage = "load_markers"
      BY <1>2, MarkersPair
<1>3. CASE stage \notin Early
  <2>1. given' = given
        BY StepKeepsGiven
  <2>2. ASSUME NEW x \in Addrs, NEW y \in Addrs, matches["orig"][x] = y
        PROVE  matches'["orig"][x] = y /\ basis'[x] = basis[x]
        BY <2>2, StageStepKeepsPairs, SidesAre, CatalogAssumption
  <2> QED  BY <1>3, <2>1, <2>2 DEF BodyMarkersDecide, Claims
<1>4. CASE UNCHANGED stageVars
      BY <1>1, <1>3, <1>4 DEF stageVars
<1> QED  BY <1>1, <1>2, <1>3, <1>4, EarlyIsLeft DEF Early

(* A marker on a function body decides its pair, for all files and images:   *)
(* only the header entry or a second body marker can claim either address.   *)
THEOREM BodyMarkersWin == StagesSpec => []BodyMarkersDecide
<1>1. StagesInit => BodyMarkersDecide
      BY DEF StagesInit, BodyMarkersDecide, Early
<1>2. Core /\ OnlyEntryPaired /\ BodyMarkersDecide /\ [StagesNext]_stageVars =>
          BodyMarkersDecide'
      BY StepKeepsMarkers
<1> QED  BY <1>1, <1>2, CoreAlways, EntryOnlyAlways, PTL DEF StagesSpec

-------------------------------------------------------------------------------
(* What the pairs paired in turn have in common *)

LEMMA SymbolPairFacts ==
    ASSUME Core
    PROVE  \A p \in SymbolPairs :
              /\ p.orig \in SymbolSeekers /\ p.recomp \in Unmatched("recomp")
              /\ facts["orig"][p.orig].symbol = facts["recomp"][p.recomp].symbol
              /\ p.basis = "annotation"
<1> DEFINE f == [x \in SymbolSeekers |-> facts["orig"][x].symbol]
           g == [y \in {z \in Unmatched("recomp") : facts["recomp"][z].symbol # None}
                   |-> facts["recomp"][y].symbol]
<1>1. DOMAIN f \subseteq Addrs /\ DOMAIN g \subseteq Addrs
      BY CataloguedAddresses, SidesAre DEF SymbolSeekers
<1>2. SymbolPairs = InTurn(f, g, "annotation")
      BY DEF SymbolPairs
<1>3. /\ \A x \in DOMAIN f : x \in SymbolSeekers /\ f[x] = facts["orig"][x].symbol
      /\ \A y \in DOMAIN g : y \in Unmatched("recomp") /\ g[y] = facts["recomp"][y].symbol
      OBVIOUS
<1> HIDE DEF f, g
<1> QED  BY <1>1, <1>2, <1>3, InTurnFacts DEF PairOf

LEMMA VariablePairFacts ==
    ASSUME Core
    PROVE  \A p \in VariablePairs :
              /\ p.orig \in Variables("orig", {"data"})
              /\ p.recomp \in Variables("recomp", {None, "data"})
              /\ facts["orig"][p.orig].name = facts["recomp"][p.recomp].name
              /\ p.basis = "annotation"
<1> DEFINE f == [x \in Variables("orig", {"data"}) |-> facts["orig"][x].name]
           g == [y \in Variables("recomp", {None, "data"}) |-> facts["recomp"][y].name]
<1>1. DOMAIN f \subseteq Addrs /\ DOMAIN g \subseteq Addrs
      BY CataloguedAddresses, SidesAre DEF Variables
<1>2. VariablePairs = InTurn(f, g, "annotation")
      BY DEF VariablePairs
<1>3. /\ \A x \in DOMAIN f : x \in Variables("orig", {"data"})
                             /\ f[x] = facts["orig"][x].name
      /\ \A y \in DOMAIN g : y \in Variables("recomp", {None, "data"})
                             /\ g[y] = facts["recomp"][y].name
      OBVIOUS
<1> HIDE DEF f, g
<1>4. \A p \in VariablePairs : /\ p = PairOf(p.orig, p.recomp, "annotation")
                               /\ p.orig \in DOMAIN f /\ p.recomp \in DOMAIN g
                               /\ f[p.orig] = g[p.recomp]
      BY <1>1, <1>2, InTurnFacts
<1>5. \A p \in VariablePairs : p.basis = "annotation"
      BY <1>4 DEF PairOf
<1> QED  BY <1>3, <1>4, <1>5

LEMMA StringPairFacts ==
    ASSUME Core
    PROVE  \A p \in StringPairs :
              /\ p.orig \in Strings("orig") /\ p.recomp \in Strings("recomp")
              /\ facts["orig"][p.orig].name = facts["recomp"][p.recomp].name
              /\ p.basis = "content"
<1> DEFINE f == [x \in Strings("orig") |-> facts["orig"][x].name]
           g == [y \in Strings("recomp") |-> facts["recomp"][y].name]
<1>1. DOMAIN f \subseteq Addrs /\ DOMAIN g \subseteq Addrs
      BY CataloguedAddresses, SidesAre DEF Strings
<1>2. StringPairs = InTurn(f, g, "content")
      BY DEF StringPairs
<1>3. /\ \A x \in DOMAIN f : x \in Strings("orig") /\ f[x] = facts["orig"][x].name
      /\ \A y \in DOMAIN g : y \in Strings("recomp") /\ g[y] = facts["recomp"][y].name
      OBVIOUS
<1> HIDE DEF f, g
<1> QED  BY <1>1, <1>2, <1>3, InTurnFacts DEF PairOf

(* Two unpaired entities that refer to one pair in the same way. *)
Twins(x, y) ==
    /\ x \in Children("orig") /\ y \in Children("recomp")
    /\ RefKey("orig", x) = RefKey("recomp", y)

(* A round pairs twins with twins, and leaves over only one of two twins.   *)
LEMMA RefPairFacts ==
    ASSUME Core
    PROVE  /\ \A p \in RefPairs : Twins(p.orig, p.recomp) /\ p.basis = "derived"
           /\ \A p, q \in RefPairs : Collide(p, q) => p = q
           /\ \A x, y \in Addrs : Twins(x, y) =>
                 \E p \in RefPairs : p.orig = x \/ p.recomp = y
<1> DEFINE f == [x \in Children("orig") |-> RefKey("orig", x)]
           g == [y \in Children("recomp") |-> RefKey("recomp", y)]
<1>1. DOMAIN f \subseteq Addrs /\ DOMAIN g \subseteq Addrs
      BY CataloguedAddresses, SidesAre DEF Children
<1>2. RefPairs = InTurn(f, g, "derived")
      BY DEF RefPairs
<1>3. /\ \A x \in DOMAIN f : x \in Children("orig") /\ f[x] = RefKey("orig", x)
      /\ \A y \in DOMAIN g : y \in Children("recomp") /\ g[y] = RefKey("recomp", y)
      OBVIOUS
<1>4. \A x, y : Twins(x, y) => x \in DOMAIN f /\ y \in DOMAIN g /\ f[x] = g[y]
      BY DEF Twins
<1> HIDE DEF f, g
<1>5. /\ \A p \in RefPairs : /\ p = PairOf(p.orig, p.recomp, "derived")
                             /\ p.orig \in DOMAIN f /\ p.recomp \in DOMAIN g
                             /\ f[p.orig] = g[p.recomp]
      /\ \A p, q \in RefPairs : Collide(p, q) => p = q
      /\ \A x \in DOMAIN f, y \in DOMAIN g : f[x] = g[y] =>
            \E p \in RefPairs : p.orig = x \/ p.recomp = y
      BY <1>1, <1>2, InTurnFacts
<1>6. \A p \in RefPairs : Twins(p.orig, p.recomp) /\ p.basis = "derived"
      BY <1>3, <1>5 DEF PairOf, Twins
<1>7. \A x, y \in Addrs : Twins(x, y) => \E p \in RefPairs : p.orig = x \/ p.recomp = y
      BY <1>4, <1>5
<1> QED  BY <1>5, <1>6, <1>7

-------------------------------------------------------------------------------
(* Selectors do not fall back *)

LEMMA BasisOfNewPair ==
    ASSUME Core, NEW ps, NEW offered, NEW new, RowsOK(new), Wrote(ps, offered, new),
           NEW x \in Addrs, matches["orig"][x] = None,
           \A p \in offered : p.orig = x => p.basis # "annotation"
    PROVE  basis'[x] # "annotation"
<1>1. Adds(ps) /\ ps \subseteq offered
      BY WroteAdds DEF Wrote
<1>2. CASE matches'["orig"][x] = None
  <2>1. Core'
        BY WroteKeepsCore
  <2>2. basis'[x] = None
        BY <1>2, <2>1 DEF Core, Inv, CopiesAgree
  <2> QED  BY <2>2, CatalogAssumption, StagesAssumption
<1>3. CASE matches'["orig"][x] # None
  <2>1. PICK p \in ps : p.orig = x
        BY <1>1, <1>3 DEF Adds
  <2> QED  BY <1>1, <2>1 DEF Adds
<1> QED  BY <1>2, <1>3

LEMMA StepDoesNotFallBack ==
    ASSUME Core, StagesNext, NEW x \in Addrs,
           stage \notin Early \cup {"match_annotation_selectors"},
           facts["orig"][x].type = "function",
           facts["orig"][x].selector # None,
           matches["orig"][x] = None
    PROVE  basis'[x] # "annotation"
<1>1. CASE Aliases \/ WritesNothing \/ Seals
  <2>1. basis'[x] = basis[x] /\ basis[x] = None
        BY <1>1 DEF Aliases, SetAlias, WritesNothing, Seals, Freeze, pairVars, catalog,
                    vars, Core, Inv, CopiesAgree
  <2> QED  BY <2>1, CatalogAssumption, StagesAssumption
<1>2. CASE MatchSymbols
  <2>1. \A p \in SymbolPairs : p.orig # x
        BY SymbolPairFacts DEF SymbolSeekers
  <2> QED  BY <1>2, <2>1, PairsWrite, OfferedArePairs, NothingIsRows, BasisOfNewPair
           DEF MatchSymbols
<1>3. CASE MatchFunctions
  <2>1. \A p \in NamePairs : p.orig # x
        BY DEF NamePairs, Pairs, NamedFunctions
  <2> QED  BY <1>3, <2>1, PairsWrite, OfferedArePairs, NothingIsRows, BasisOfNewPair
           DEF MatchFunctions
<1>4. CASE MatchVariables
  <2>1. \A p \in VariablePairs : p.orig # x
        BY VariablePairFacts DEF Variables
  <2> QED  BY <1>4, <2>1, PairsWrite, OfferedArePairs, NothingIsRows, BasisOfNewPair
           DEF MatchVariables
<1>5. CASE MatchLines
  <2>1. \A p \in MarkedLinePairs : p.orig # x
        BY DEF MarkedLinePairs, PairOf
  <2> QED  BY <1>5, <2>1, PairsWrite, OfferedArePairs, NothingIsRows, BasisOfNewPair
           DEF MatchLines
<1>6. CASE CreateStructures
      BY <1>6, CreateStructuresWrites, BasisOfNewPair
<1>7. CASE MatchImports
  <2>1. \A p \in ImportPairs : p.basis # "annotation"
        BY DEF ImportPairs, Pairs
  <2> QED  BY <1>7, <2>1, PairsWrite, OfferedArePairs, NothingIsRows, BasisOfNewPair
           DEF MatchImports
<1>8. CASE MatchExports
  <2>1. \A i \in DOMAIN ExportPairs : ExportPairs[i].basis = "derived"
        BY DEF ExportPairs, PairOf
  <2>2. \A p \in ExportSet : p.basis # "annotation"
        BY <2>1 DEF ExportSet
  <2> QED  BY <1>8, <2>2, MatchExportsWrites, NothingIsRows, BasisOfNewPair
<1>9. CASE MatchRef
  <2>1. \A p \in RefPairs : p.basis # "annotation"
        BY RefPairFacts
  <2> QED  BY <1>9, <2>1, PairsWrite, OfferedArePairs, NothingIsRows, BasisOfNewPair
           DEF MatchRef
<1>10. CASE CreateStrings
      BY <1>10, CreateStringsWrites, BasisOfNewPair
<1>11. CASE MatchStrings
  <2>1. \A p \in StringPairs : p.basis # "annotation"
        BY StringPairFacts
  <2> QED  BY <1>11, <2>1, PairsWrite, OfferedArePairs, NothingIsRows, BasisOfNewPair
           DEF MatchStrings
<1>12. CASE \/ FoldedMarker \/ FoldedMarkersDone \/ ClassifyFoldedFunctionAliases
            \/ ClassifySyntheticJumpAliases \/ ClassifyExactStringAliases \/ SealCatalog
      BY <1>1, <1>12, FoldedMarkerAliases, AliasStages
      DEF FoldedMarkersDone, ClassifyFoldedFunctionAliases, ClassifySyntheticJumpAliases,
          ClassifyExactStringAliases, SealCatalog, Seals
<1>13. ~(LoadCvdump \/ MatchEntry \/ LoadDataSources \/ LoadMarkers
           \/ MatchAnnotationSelectors)
      BY DEF LoadCvdump, MatchEntry, LoadDataSources, LoadMarkers,
             MatchAnnotationSelectors, Enters, Early
<1> QED  BY <1>2, <1>3, <1>4, <1>5, <1>6, <1>7, <1>8, <1>9, <1>10, <1>11, <1>12, <1>13
         DEF StagesNext

(* A function whose selector picked nothing is paired on no other            *)
(* annotation: neither on its symbol nor on its display name.                *)
THEOREM SelectorsStandAlone == StagesSpec => SelectorsDoNotFallBack
<1>1. Core /\ [StagesNext]_stageVars =>
        [\A x \in Addrs :
            /\ stage \notin Early \cup {"match_annotation_selectors"}
            /\ facts["orig"][x].type = "function"
            /\ facts["orig"][x].selector # None
            /\ matches["orig"][x] = None
            => basis'[x] # "annotation"]_stageVars
      BY StepDoesNotFallBack
<1> QED  BY <1>1, CoreAlways, PTL DEF StagesSpec, SelectorsDoNotFallBack

-------------------------------------------------------------------------------
(* Pairs have evidence *)

LEMMA NothingKeepsFacts ==
    ASSUME Core, NEW ps, NEW offered, Wrote(ps, offered, Nothing)
    PROVE  facts' = facts /\ given' = given
<1>1. facts' = [s \in Sides |-> [a \in Addrs |-> facts[s][a]]]
      BY NothingIsRows DEF Wrote
<1> QED  BY <1>1 DEF Core, FactsOK, Wrote

(* A pair is installed with its ends and its basis, so that what is evident *)
(* of the offered pairs is evident of every new one.                        *)
LEMMA NewPairsEvident ==
    ASSUME Core, NEW ps, NEW offered, NEW new, RowsOK(new), Wrote(ps, offered, new),
           \A p \in ps : /\ p \in offered
                         /\ p \in Pair
                         /\ matches'["orig"][p.orig] = p.recomp
                         /\ basis'[p.orig] = p.basis
                         => Evidence(p.orig, p.recomp)',
           NEW x \in Addrs, matches["orig"][x] = None, matches'["orig"][x] # None
    PROVE  Evidence(x, matches["orig"][x])'
<1>1. Adds(ps) /\ ps \subseteq offered
      BY WroteAdds DEF Wrote
<1>2. PICK p \in ps : p.orig = x
      BY <1>1 DEF Adds
<1>3. /\ p \in offered /\ p \in Pair
      /\ matches'["orig"][x] = p.recomp /\ basis'[x] = p.basis
      BY <1>1, <1>2 DEF Adds
<1>4. Evidence(x, p.recomp)'
      BY <1>2, <1>3
<1> QED  BY <1>3, <1>4 DEF Evidence, Annotated, Derived, NamesOf, Spellings, PublicSpellings

LEMMA AnnotatedIsEvidence ==
    ASSUME NEW x, NEW y, basis'[x] = "annotation", Annotated(x, y)'
    PROVE  Evidence(x, y)'
BY DEF Evidence

LEMMA DerivedIsEvidence ==
    ASSUME NEW x, NEW y, basis'[x] = "derived", Derived(x, y)'
    PROVE  Evidence(x, y)'
BY DEF Evidence

LEMMA SelectorPairsEvident ==
    ASSUME Core, NEW p \in SelectorPairs, facts' = facts, given' = given,
           basis'[p.orig] = p.basis
    PROVE  Evidence(p.orig, p.recomp)'
<1>1. /\ p.basis = "annotation" /\ p.orig \in Selecting
      /\ Selected(p.orig) = {p.recomp}
      BY DEF SelectorPairs, Pairs, Proposes
<1>2. /\ facts["orig"][p.orig].selector # None
      /\ facts["orig"][p.orig].selector \in
            Spellings(facts["recomp"][p.recomp], facts["orig"][p.orig].bySymbol)
      BY <1>1 DEF Selecting, Selected
<1>3. Annotated(p.orig, p.recomp)'
      BY <1>2 DEF Annotated, Spellings, PublicSpellings
<1> QED  BY <1>1, <1>3, AnnotatedIsEvidence

LEMMA SymbolPairsEvident ==
    ASSUME Core, NEW p \in SymbolPairs, facts' = facts, given' = given,
           basis'[p.orig] = p.basis
    PROVE  Evidence(p.orig, p.recomp)'
<1>1. /\ p.basis = "annotation"
      /\ facts["orig"][p.orig].symbol = facts["recomp"][p.recomp].symbol
      /\ facts["orig"][p.orig].symbol # None /\ facts["orig"][p.orig].selector = None
      BY SymbolPairFacts DEF SymbolSeekers
<1>2. Annotated(p.orig, p.recomp)'
      BY <1>1 DEF Annotated
<1> QED  BY <1>1, <1>2, AnnotatedIsEvidence

LEMMA NamePairsEvident ==
    ASSUME Core, NEW p \in NamePairs, facts' = facts, given' = given,
           basis'[p.orig] = p.basis
    PROVE  Evidence(p.orig, p.recomp)'
<1>1. /\ p.basis = "annotation" /\ p.orig \in NamedFunctions
      /\ Namesakes(p.orig) = {p.recomp}
      BY DEF NamePairs, Pairs, SoleName
<1>2. /\ facts["orig"][p.orig].selector = None
      /\ facts["orig"][p.orig].type = "function"
      /\ facts["orig"][p.orig].name \in NamesOf(p.recomp)
      /\ facts["recomp"][p.recomp].type \in {None, "function"}
      BY <1>1 DEF NamedFunctions, Namesakes, Callables
<1>3. Annotated(p.orig, p.recomp)'
      BY <1>2 DEF Annotated, NamesOf
<1> QED  BY <1>1, <1>3, AnnotatedIsEvidence

LEMMA VariablePairsEvident ==
    ASSUME Core, NEW p \in VariablePairs, facts' = facts, given' = given,
           basis'[p.orig] = p.basis
    PROVE  Evidence(p.orig, p.recomp)'
<1>1. /\ p.basis = "annotation"
      /\ facts["orig"][p.orig].type = "data"
      /\ facts["recomp"][p.recomp].type \in {None, "data"}
      /\ facts["orig"][p.orig].name = facts["recomp"][p.recomp].name
      BY VariablePairFacts DEF Variables
<1>2. Annotated(p.orig, p.recomp)'
      BY <1>1 DEF Annotated
<1> QED  BY <1>1, <1>2, AnnotatedIsEvidence

(* The pairs a marker on a line or a body names. *)
LEMMA MarkedPairsEvident ==
    ASSUME Core, NEW p \in LinePairs \cup MarkedLinePairs, given' = given,
           basis'[p.orig] = p.basis
    PROVE  Evidence(p.orig, p.recomp)'
<1>1. PICK x \in Marked("body") \cup Marked("line") :
         p = PairOf(x, given.marker[x].target, "annotation")
      BY DEF LinePairs, MarkedLinePairs
<1>2. given.marker[x] # None /\ given.marker[x].kind \in {"body", "line"}
      BY DEF Marked, Stated
<1>3. p.orig = x /\ p.recomp = given.marker[x].target /\ p.basis = "annotation"
      BY <1>1 DEF PairOf
<1>4. Annotated(p.orig, p.recomp)'
      BY <1>2, <1>3 DEF Annotated
<1> QED  BY <1>3, <1>4, AnnotatedIsEvidence

LEMMA EntryPairEvident ==
    ASSUME Core, given' = given, given.entry # None,
           basis'[given.entry.orig] = given.entry.basis
    PROVE  Evidence(given.entry.orig, given.entry.recomp)'
<1>1. given.entry \in Pair /\ given.entry.basis = "derived"
      BY DEF Core, GivenOK
<1>2. given.entry = PairOf(given.entry.orig, given.entry.recomp, "derived")
      BY <1>1 DEF Pair, PairOf
<1>3. Derived(given.entry.orig, given.entry.recomp)'
      BY <1>2 DEF Derived, PairOf
<1> QED  BY <1>1, <1>3, DerivedIsEvidence

LEMMA ImportPairsEvident ==
    ASSUME Core, NEW p \in ImportPairs, facts' = facts, given' = given,
           basis'[p.orig] = p.basis
    PROVE  Evidence(p.orig, p.recomp)'
<1>1. /\ p.basis = "derived"
      /\ p.orig \in Imports("orig") /\ p.recomp \in Imports("recomp")
      /\ facts["orig"][p.orig].name = facts["recomp"][p.recomp].name
      BY DEF ImportPairs, Pairs
<1>2. Derived(p.orig, p.recomp)'
      BY <1>1 DEF Derived, Imports
<1> QED  BY <1>1, <1>2, DerivedIsEvidence

LEMMA ExportPairsEvident ==
    ASSUME Core, NEW p \in ExportSet, given' = given, basis'[p.orig] = p.basis
    PROVE  Evidence(p.orig, p.recomp)'
<1>1. PICK i \in DOMAIN ExportPairs : p = ExportPairs[i]
      BY DEF ExportSet
<1>2. /\ i \in DOMAIN given.exports
      /\ p = PairOf(Through("orig", given.exports[i].orig),
                    Through("recomp", given.exports[i].recomp), "derived")
      BY <1>1 DEF ExportPairs
<1>3. /\ p.orig = Through("orig", given.exports[i].orig)
      /\ p.recomp = Through("recomp", given.exports[i].recomp)
      /\ p.basis = "derived"
      BY <1>2 DEF PairOf
<1>4. Derived(p.orig, p.recomp)'
      BY <1>2, <1>3 DEF Derived, Through, JumpKind, Stated
<1> QED  BY <1>3, <1>4, DerivedIsEvidence

LEMMA StringPairsEvident ==
    ASSUME Core, NEW p \in StringPairs, facts' = facts, given' = given,
           basis'[p.orig] = p.basis
    PROVE  Evidence(p.orig, p.recomp)'
<1>1. /\ basis'[p.orig] = "content"
      /\ facts["orig"][p.orig].type = "string" /\ facts["recomp"][p.recomp].type = "string"
      /\ facts["orig"][p.orig].name = facts["recomp"][p.recomp].name
      BY StringPairFacts DEF Strings
<1> QED  BY <1>1 DEF Evidence

(* Twins are unpaired addresses whose references, with one displacement, are *)
(* the two ends of a pair.                                                   *)
SamePair(x, y) ==
    LET o == facts["orig"][x]
        r == facts["recomp"][y]
    IN /\ o.ref # None /\ r.ref # None
       /\ o.disp = r.disp
       /\ matches["orig"][o.ref] = r.ref

LEMMA TwinsAre ==
    ASSUME Core, NEW x \in Addrs, NEW y \in Addrs
    PROVE  Twins(x, y) <=> /\ x \in Unmatched("orig") /\ y \in Unmatched("recomp")
                           /\ SamePair(x, y)
<1> DEFINE a == facts["orig"][x].ref
           b == facts["recomp"][y].ref
<1>1. a \in OrNone(Addrs) /\ b \in OrNone(Addrs)
      BY SidesAre DEF Core, FactsOK
<1>2. /\ \A s \in Sides, c \in Addrs : link[s][c] = matches[s][c]
      /\ \A s \in Sides, c \in Addrs : matches[s][c] # None => c \in present[s]
      /\ \A c, d \in Addrs : matches["orig"][c] = d <=> matches["recomp"][d] = c
      BY DEF Core, Inv, CopiesAgree, OneToOne
<1>3. RefKey("orig", x) = <<a, facts["orig"][x].disp>>
      BY DEF RefKey
<1>4. RefKey("recomp", y) = <<link["recomp"][b], facts["recomp"][y].disp>>
      BY DEF RefKey
<1>5. x \in Children("orig") <=> /\ x \in Unmatched("orig") /\ a # None
                                 /\ a \in present["orig"] /\ link["orig"][a] # None
      BY DEF Children
<1>6. y \in Children("recomp") <=> /\ y \in Unmatched("recomp") /\ b # None
                                   /\ b \in present["recomp"] /\ link["recomp"][b] # None
      BY DEF Children
<1>7. SamePair(x, y) <=> /\ a # None /\ b # None
                         /\ facts["orig"][x].disp = facts["recomp"][y].disp
                         /\ matches["orig"][a] = b
      BY DEF SamePair
<1>8. Twins(x, y) <=> /\ x \in Children("orig") /\ y \in Children("recomp")
                      /\ a = link["recomp"][b]
                      /\ facts["orig"][x].disp = facts["recomp"][y].disp
      BY <1>3, <1>4 DEF Twins
<1> HIDE DEF a, b
<1>9. CASE a \in Addrs /\ b \in Addrs
  <2>1. link["orig"][a] = matches["orig"][a] /\ link["recomp"][b] = matches["recomp"][b]
        BY <1>2, <1>9, SidesAre
  <2>2. matches["orig"][a] = b <=> matches["recomp"][b] = a
        BY <1>2, <1>9
  <2>3. matches["orig"][a] # None => a \in present["orig"]
        BY <1>2, <1>9, SidesAre
  <2>4. matches["recomp"][b] # None => b \in present["recomp"]
        BY <1>2, <1>9, SidesAre
  <2> QED  BY <1>5, <1>6, <1>7, <1>8, <1>9, <2>1, <2>2, <2>3, <2>4, CatalogAssumption
<1>10. CASE a = None \/ b = None
      BY <1>5, <1>6, <1>7, <1>8, <1>10
<1> QED  BY <1>1, <1>9, <1>10 DEF OrNone

LEMMA RefPairsEvident ==
    ASSUME Core, NEW p \in RefPairs, [StagesNext]_stageVars, facts' = facts,
           given' = given, basis'[p.orig] = p.basis
    PROVE  Evidence(p.orig, p.recomp)'
<1>1. p \in Pair /\ Twins(p.orig, p.recomp) /\ p.basis = "derived"
      BY RefPairFacts, OfferedArePairs
<1>2. SamePair(p.orig, p.recomp)
      BY <1>1, TwinsAre DEF Pair
<1> DEFINE a == facts["orig"][p.orig].ref
           b == facts["recomp"][p.recomp].ref
<1>3. /\ a # None /\ b # None /\ matches["orig"][a] = b
      /\ facts["orig"][p.orig].disp = facts["recomp"][p.recomp].disp
      BY <1>2 DEF SamePair
<1>4. a \in Addrs
      BY <1>1, <1>3, SidesAre DEF Core, FactsOK, OrNone, Pair
<1>5. matches'["orig"][a] = b
      BY <1>3, <1>4, StageStepKeepsPairs, SidesAre
<1>6. Derived(p.orig, p.recomp)'
      BY <1>3, <1>5 DEF Derived
<1> QED  BY <1>1, <1>6, DerivedIsEvidence

LEMMA StepHasEvidence ==
    ASSUME Core, StagesNext, NEW x \in Addrs, matches["orig"][x] = None,
           matches'["orig"][x] # None
    PROVE  Evidence(x, matches["orig"][x])'
<1>0. [StagesNext]_stageVars
      OBVIOUS
<1>1. CASE Aliases \/ WritesNothing \/ Seals
      BY <1>1 DEF Aliases, SetAlias, WritesNothing, Seals, Freeze, pairVars, catalog, vars
<1>2. ASSUME NEW ps, NEW new, RowsOK(new), Wrote(ps, {}, new) PROVE FALSE
      BY <1>2, RowsPairNothing
<1>3. CASE LoadCvdump \/ LoadDataSources \/ CreateStructures \/ CreateStrings
      BY <1>2, <1>3, LoadCvdumpWrites, LoadDataSourcesWrites, CreateStructuresWrites,
         CreateStringsWrites
<1>4. CASE MatchEntry
  <2>1. PICK ps, new :
           /\ RowsOK(new)
           /\ Wrote(ps, IF given.entry = None THEN {} ELSE {given.entry}, new)
        BY <1>4, MatchEntryWrites
  <2>2. CASE given.entry = None
        BY <1>2, <2>1, <2>2
  <2>3. CASE given.entry # None
        BY <2>1, <2>3, EntryPairEvident, NewPairsEvident, StepKeepsGiven, <1>0
  <2> QED  BY <2>2, <2>3
<1>5. CASE LoadMarkers
      BY <1>0, <1>5, LoadMarkersWrites, MarkedPairsEvident, NewPairsEvident, StepKeepsGiven
<1>6. CASE MatchLines
  <2>1. PICK ps : Wrote(ps, MarkedLinePairs, Nothing)
        BY <1>6, PairsWrite, OfferedArePairs DEF MatchLines
  <2> QED  BY <1>0, <2>1, NothingIsRows, MarkedPairsEvident, NewPairsEvident, StepKeepsGiven
<1>7. CASE MatchAnnotationSelectors
  <2>1. PICK ps : Wrote(ps, SelectorPairs, Nothing)
        BY <1>7, PairsWrite, OfferedArePairs DEF MatchAnnotationSelectors
  <2> QED  BY <2>1, NothingIsRows, NothingKeepsFacts, SelectorPairsEvident, NewPairsEvident
<1>8. CASE MatchSymbols
  <2>1. PICK ps : Wrote(ps, SymbolPairs, Nothing)
        BY <1>8, PairsWrite, OfferedArePairs DEF MatchSymbols
  <2> QED  BY <2>1, NothingIsRows, NothingKeepsFacts, SymbolPairsEvident, NewPairsEvident
<1>9. CASE MatchFunctions
  <2>1. PICK ps : Wrote(ps, NamePairs, Nothing)
        BY <1>9, PairsWrite, OfferedArePairs DEF MatchFunctions
  <2> QED  BY <2>1, NothingIsRows, NothingKeepsFacts, NamePairsEvident, NewPairsEvident
<1>10. CASE MatchVariables
  <2>1. PICK ps : Wrote(ps, VariablePairs, Nothing)
        BY <1>10, PairsWrite, OfferedArePairs DEF MatchVariables
  <2> QED  BY <2>1, NothingIsRows, NothingKeepsFacts, VariablePairsEvident, NewPairsEvident
<1>11. CASE MatchImports
  <2>1. PICK ps : Wrote(ps, ImportPairs, Nothing)
        BY <1>11, PairsWrite, OfferedArePairs DEF MatchImports
  <2> QED  BY <2>1, NothingIsRows, NothingKeepsFacts, ImportPairsEvident, NewPairsEvident
<1>12. CASE MatchExports
  <2>1. PICK ps : Wrote(ps, ExportSet, Nothing)
        BY <1>12, MatchExportsWrites
  <2> QED  BY <2>1, NothingIsRows, NothingKeepsFacts, ExportPairsEvident, NewPairsEvident
<1>13. CASE MatchRef
  <2>1. PICK ps : Wrote(ps, RefPairs, Nothing)
        BY <1>13, PairsWrite, OfferedArePairs DEF MatchRef
  <2> QED  BY <1>0, <2>1, NothingIsRows, NothingKeepsFacts, RefPairsEvident, NewPairsEvident
<1>14. CASE MatchStrings
  <2>1. PICK ps : Wrote(ps, StringPairs, Nothing)
        BY <1>14, PairsWrite, OfferedArePairs DEF MatchStrings
  <2> QED  BY <2>1, NothingIsRows, NothingKeepsFacts, StringPairsEvident, NewPairsEvident
<1>15. CASE \/ FoldedMarker \/ FoldedMarkersDone \/ ClassifyFoldedFunctionAliases
            \/ ClassifySyntheticJumpAliases \/ ClassifyExactStringAliases \/ SealCatalog
      BY <1>1, <1>15, FoldedMarkerAliases, AliasStages
      DEF FoldedMarkersDone, ClassifyFoldedFunctionAliases, ClassifySyntheticJumpAliases,
          ClassifyExactStringAliases, SealCatalog, Seals
<1> QED  BY <1>3, <1>4, <1>5, <1>6, <1>7, <1>8, <1>9, <1>10, <1>11, <1>12, <1>13, <1>14,
            <1>15 DEF StagesNext

(* Every pair the run makes has the evidence its basis speaks of, on both    *)
(* sides and in the facts as they are after the step that made it.           *)
THEOREM PairsAreEvident == StagesSpec => PairsHaveEvidence
<1>1. Core /\ [StagesNext]_stageVars =>
        [\A x \in Addrs : matches["orig"][x] = None /\ matches'["orig"][x] # None =>
            Evidence(x, matches["orig"][x])']_stageVars
      BY StepHasEvidence
<1> QED  BY <1>1, CoreAlways, PTL DEF StagesSpec, PairsHaveEvidence

-------------------------------------------------------------------------------
(* Twins pair up.  Twins left by a round refer to a pair that very round     *)
(* made, so that the chains of references under leftover twins grow by one   *)
(* each round; the rounds can only run out where both images nest as deeply. *)

(* x ends a chain of n references. *)
Chain(s, n, x) ==
    \E c \in [1 .. n -> Addrs] :
        /\ c[n] = x
        /\ facts[s][c[1]].ref # None
        /\ \A i \in 1 .. n - 1 : facts[s][c[i + 1]].ref = c[i]

TwinsNest ==
    stage = "match_ref" => \A x, y \in Addrs : Twins(x, y) =>
        Chain("orig", turn, x) /\ Chain("recomp", turn, y)

LEMMA ChainOfOne ==
    ASSUME NEW s, NEW x \in Addrs, facts[s][x].ref # None
    PROVE  Chain(s, 1, x)
<1> DEFINE c == [i \in 1 .. 1 |-> x]
<1>1. c \in [1 .. 1 -> Addrs] /\ c[1] = x
      OBVIOUS
<1>2. \A i \in 1 .. 1 - 1 : facts[s][c[i + 1]].ref = c[i]
      OBVIOUS
<1> QED  BY <1>1, <1>2 DEF Chain

LEMMA ChainGrows ==
    ASSUME NEW s, NEW n \in Nat \ {0}, NEW x \in Addrs, Chain(s, n, facts[s][x].ref)
    PROVE  Chain(s, n + 1, x)
<1>1. PICK c \in [1 .. n -> Addrs] :
         /\ c[n] = facts[s][x].ref
         /\ facts[s][c[1]].ref # None
         /\ \A i \in 1 .. n - 1 : facts[s][c[i + 1]].ref = c[i]
      BY DEF Chain
<1> DEFINE d == [i \in 1 .. n + 1 |-> IF i = n + 1 THEN x ELSE c[i]]
<1>2. d \in [1 .. n + 1 -> Addrs] /\ d[n + 1] = x /\ d[1] = c[1]
      OBVIOUS
<1>3. ASSUME NEW i \in 1 .. (n + 1) - 1 PROVE facts[s][d[i + 1]].ref = d[i]
  <2>1. d[i] = c[i]
        OBVIOUS
  <2>2. CASE i = n
        BY <1>1, <2>1, <2>2
  <2>3. CASE i \in 1 .. n - 1
    <3>1. d[i + 1] = c[i + 1]
          BY <2>3
    <3> QED  BY <1>1, <2>1, <2>3, <3>1
  <2> QED  BY <2>2, <2>3
<1> HIDE DEF d
<1>4. facts[s][d[1]].ref # None
      BY <1>1, <1>2
<1> QED  BY <1>2, <1>3, <1>4 DEF Chain

LEMMA ChainsNest ==
    ASSUME NEW s, NEW x, Chain(s, MaxRounds + 1, x)
    PROVE  Nested(s)
<1>1. PICK c \in [1 .. MaxRounds + 1 -> Addrs] :
         /\ facts[s][c[1]].ref # None
         /\ \A i \in 1 .. (MaxRounds + 1) - 1 : facts[s][c[i + 1]].ref = c[i]
      BY DEF Chain
<1>2. 1 .. (MaxRounds + 1) - 1 = 1 .. MaxRounds
      BY StagesAssumption
<1> QED  BY <1>1, <1>2 DEF Nested

LEMMA AllTwinsAre ==
    Core => \A x, y \in Addrs :
        Twins(x, y) <=> x \in Unmatched("orig") /\ y \in Unmatched("recomp") /\ SamePair(x, y)
BY TwinsAre

LEMMA TwinsAreNext ==
    (Core => \A x, y \in Addrs :
        Twins(x, y) <=> x \in Unmatched("orig") /\ y \in Unmatched("recomp")
                        /\ SamePair(x, y))'
BY AllTwinsAre, PTL

(* Addresses that are twins after a step were unpaired, and referred, before *)
(* it, if no step but the creation of structures gives references.           *)
SameRefs ==
    \A s \in Sides, a \in Addrs : /\ facts'[s][a].ref = facts[s][a].ref
                                  /\ facts'[s][a].disp = facts[s][a].disp

LEMMA TwinsBefore ==
    ASSUME Core, Core', [StagesNext]_stageVars, SameRefs,
           NEW x \in Addrs, NEW y \in Addrs, Twins(x, y)'
    PROVE  /\ facts["orig"][x].ref \in Addrs /\ facts["recomp"][y].ref \in Addrs
           /\ matches'["orig"][x] = None /\ matches'["recomp"][y] = None
           /\ matches'["orig"][facts["orig"][x].ref] = facts["recomp"][y].ref
           /\ \/ Twins(x, y)
              \/ matches["orig"][facts["orig"][x].ref] = None
<1>1. x \in Unmatched("orig")' /\ y \in Unmatched("recomp")' /\ SamePair(x, y)'
      BY TwinsAreNext
<1>2. /\ facts["orig"][x].ref # None /\ facts["recomp"][y].ref # None
      /\ facts["orig"][x].disp = facts["recomp"][y].disp
      /\ matches'["orig"][facts["orig"][x].ref] = facts["recomp"][y].ref
      BY <1>1, SidesAre DEF SamePair, SameRefs
<1>3. facts["orig"][x].ref \in Addrs /\ facts["recomp"][y].ref \in Addrs
      BY <1>2, SidesAre DEF Core, FactsOK, OrNone
<1>4. x \in present["orig"] /\ y \in present["recomp"]
      BY <1>2, SidesAre DEF Core, FactsOK, Blank
<1>5. matches'["orig"][x] = None /\ matches'["recomp"][y] = None
      BY <1>1 DEF Unmatched
<1>6. matches["orig"][x] = None /\ matches["recomp"][y] = None
      BY <1>5, StageStepKeepsPairs, SidesAre
<1>7. CASE matches["orig"][facts["orig"][x].ref] # None
  <2>1. matches["orig"][facts["orig"][x].ref] = facts["recomp"][y].ref
        BY <1>2, <1>3, <1>7, StageStepKeepsPairs, SidesAre
  <2>2. SamePair(x, y)
        BY <1>2, <2>1 DEF SamePair
  <2>3. x \in Unmatched("orig") /\ y \in Unmatched("recomp")
        BY <1>4, <1>6 DEF Unmatched
  <2> QED  BY <1>2, <1>3, <1>5, <2>2, <2>3, TwinsAre
<1>8. CASE matches["orig"][facts["orig"][x].ref] = None
      BY <1>2, <1>3, <1>5, <1>8
<1> QED  BY <1>7, <1>8

(* Twins left by a round refer to twins that it paired. *)
LEMMA RoundPairsParents ==
    ASSUME Core, MatchRef, NEW x \in Addrs, NEW y \in Addrs, Twins(x, y)'
    PROVE  /\ facts["orig"][x].ref \in Addrs /\ facts["recomp"][y].ref \in Addrs
           /\ Twins(facts["orig"][x].ref, facts["recomp"][y].ref)
           /\ RefPairs # {}
           /\ facts' = facts
<1>1. PICK ps : Wrote(ps, RefPairs, Nothing)
      BY PairsWrite, OfferedArePairs DEF MatchRef
<1>2. Adds(ps) /\ ps \subseteq RefPairs /\ Core' /\ facts' = facts
      BY <1>1, NothingIsRows, WroteAdds, WroteKeepsCore, NothingKeepsFacts DEF Wrote
<1>3. [StagesNext]_stageVars /\ SameRefs
      BY <1>2 DEF StagesNext, SameRefs
<1>4. ASSUME NEW p \in RefPairs PROVE p \in ps
  <2>1. Fresh(p)
        BY RefPairFacts DEF Twins, Children, Unmatched, Fresh
  <2> QED  BY <1>1, <2>1, RefPairFacts DEF Wrote
<1>5. ~Twins(x, y)
  <2>1. SUFFICES ASSUME Twins(x, y) PROVE FALSE
        OBVIOUS
  <2>2. PICK p \in RefPairs : p.orig = x \/ p.recomp = y
        BY <2>1, RefPairFacts
  <2>3. /\ matches'["orig"][p.orig] = p.recomp /\ matches'["recomp"][p.recomp] = p.orig
        /\ p.orig \in Addrs /\ p.recomp \in Addrs
        BY <1>2, <1>4 DEF Adds, Pair
  <2> QED  BY <1>2, <1>3, <2>2, <2>3, TwinsBefore, CatalogAssumption
<1> DEFINE a == facts["orig"][x].ref
           b == facts["recomp"][y].ref
<1>6. /\ a \in Addrs /\ b \in Addrs
      /\ matches'["orig"][a] = b /\ matches["orig"][a] = None
      BY <1>2, <1>3, <1>5, TwinsBefore
<1>7. PICK p \in ps : p.orig = a
      BY <1>2, <1>6, CatalogAssumption DEF Adds
<1>8. p.recomp = b /\ p \in RefPairs
      BY <1>2, <1>6, <1>7 DEF Adds
<1> QED  BY <1>2, <1>6, <1>7, <1>8, RefPairFacts

LEMMA TwinsInAddrs ==
    ASSUME Core, NEW x \in Children("orig"), NEW y \in Children("recomp")
    PROVE  x \in Addrs /\ y \in Addrs
BY CataloguedAddresses, SidesAre DEF Children

LEMMA AllTwinsInAddrs ==
    Core => \A x \in Children("orig"), y \in Children("recomp") : x \in Addrs /\ y \in Addrs
BY TwinsInAddrs

LEMMA TwinsInAddrsNext ==
    (Core => \A x \in Children("orig"), y \in Children("recomp") : x \in Addrs /\ y \in Addrs)'
BY AllTwinsInAddrs, PTL

(* After the last round, twins that are left nest deeper than the rounds. *)
LEMMA RoundKeepsTwins ==
    ASSUME Core, Core', StageOK, TwinsNest, MatchRef
    PROVE  TwinsNest' /\ TwinsPairUp'
<1>1. stage = "match_ref" /\ turn \in Nat \ {0} /\ turn <= MaxRounds /\ MaxRounds \in Nat
      BY StagesAssumption DEF MatchRef, Enters, StageOK, Limit
<1>0. PICK n \in Nat \ {0} : n = turn
      BY <1>1
<1>2. ASSUME NEW x \in Addrs, NEW y \in Addrs, Twins(x, y)'
      PROVE  /\ Chain("orig", n + 1, x)' /\ Chain("recomp", n + 1, y)'
             /\ RefPairs # {}
  <2> DEFINE a == facts["orig"][x].ref
             b == facts["recomp"][y].ref
  <2>1. /\ a \in Addrs /\ b \in Addrs /\ Twins(a, b)
        /\ RefPairs # {} /\ facts' = facts
        BY <1>2, RoundPairsParents
  <2>2. Chain("orig", n, a) /\ Chain("recomp", n, b)
        BY <1>0, <1>1, <2>1 DEF TwinsNest
  <2>3. Chain("orig", n + 1, x) /\ Chain("recomp", n + 1, y)
        BY <1>0, <2>2, ChainGrows
  <2>4. ASSUME NEW s, NEW z, Chain(s, n + 1, z) PROVE Chain(s, n + 1, z)'
        BY <2>1, <2>4 DEF Chain
  <2> HIDE DEF a, b
  <2> QED  BY <2>1, <2>3, <2>4
<1>3. CASE turn < MaxRounds /\ RefPairs # {}
  <2>1. turn' = turn + 1 /\ stage' = "match_ref"
        BY <1>1, <1>3 DEF MatchRef
  <2>2. TwinsNest'
        BY <1>0, <1>2, <2>1 DEF TwinsNest, Chain
  <2> QED  BY <2>1, <2>2 DEF TwinsPairUp, Late
<1>4. CASE turn = MaxRounds \/ RefPairs = {}
  <2>1. stage' = "classify_folded_function_aliases"
        BY <1>1, <1>4 DEF MatchRef, Leaves
  <2>2. ASSUME NEW x \in Children("orig")', NEW y \in Children("recomp")',
               (RefKey("orig", x) = RefKey("recomp", y))'
        PROVE  Nested("orig")' /\ Nested("recomp")'
    <3>1. x \in Addrs /\ y \in Addrs
          BY TwinsInAddrsNext
    <3>2. Twins(x, y)'
          BY <2>2 DEF Twins
    <3>3. /\ Chain("orig", MaxRounds + 1, x)' /\ Chain("recomp", MaxRounds + 1, y)'
      <4>1. n = MaxRounds
            BY <1>0, <1>2, <1>4, <3>1, <3>2
      <4> QED  BY <1>2, <3>1, <3>2, <4>1
    <3>4. 1 .. (MaxRounds + 1) - 1 = 1 .. MaxRounds
          BY StagesAssumption
    <3> QED  BY <3>3, <3>4 DEF Chain, Nested
  <2>3. TwinsNest'
        BY <2>1 DEF TwinsNest
  <2>4. TwinsPairUp'
        BY <2>2 DEF TwinsPairUp
  <2> QED  BY <2>3, <2>4
<1> QED  BY <1>1, <1>3, <1>4

(* The later stages add no reference, and no pair but of equal strings. *)
LEMMA LateStepKeepsTwins ==
    ASSUME Core, Core', [StagesNext]_stageVars, stage \in Late, TwinsPairUp, SameRefs,
           \A x \in Addrs : matches["orig"][x] = None /\ matches'["orig"][x] # None =>
               basis'[x] = "content"
    PROVE  TwinsPairUp'
<1>1. \A s \in Sides : Nested(s) => Nested(s)'
  <2> SUFFICES ASSUME NEW s \in Sides, Nested(s) PROVE Nested(s)'
      OBVIOUS
  <2>1. PICK c \in [1 .. MaxRounds + 1 -> Addrs] :
           /\ facts[s][c[1]].ref # None
           /\ \A i \in 1 .. MaxRounds : facts[s][c[i + 1]].ref = c[i]
        BY DEF Nested
  <2>2. c[1] \in Addrs /\ \A i \in 1 .. MaxRounds : c[i + 1] \in Addrs
        BY <2>1, StagesAssumption
  <2>3. facts'[s][c[1]].ref # None
        BY <2>1, <2>2 DEF SameRefs
  <2>4. \A i \in 1 .. MaxRounds : facts'[s][c[i + 1]].ref = c[i]
        BY <2>1, <2>2 DEF SameRefs
  <2> QED  BY <2>1, <2>3, <2>4 DEF Nested
<1>2. ASSUME NEW x \in Children("orig")', NEW y \in Children("recomp")',
             (RefKey("orig", x) = RefKey("recomp", y))',
             ~Nested("orig")' \/ ~Nested("recomp")'
      PROVE  basis'[facts'["orig"][x].ref] = "content"
  <2> DEFINE a == facts["orig"][x].ref
             b == facts["recomp"][y].ref
  <2>1. x \in Addrs /\ y \in Addrs
        BY TwinsInAddrsNext
  <2>2. Twins(x, y)'
        BY <1>2 DEF Twins
  <2>3. /\ a \in Addrs /\ b \in Addrs /\ matches'["orig"][a] = b
        /\ Twins(x, y) \/ matches["orig"][a] = None
        BY <2>1, <2>2, TwinsBefore
  <2>4. facts'["orig"][x].ref = a
        BY <2>1, SidesAre DEF SameRefs
  <2>5. CASE matches["orig"][a] = None
        BY <2>3, <2>4, <2>5, CatalogAssumption
  <2>6. CASE matches["orig"][a] # None
    <3>1. Twins(x, y)
          BY <2>3, <2>6
    <3>2. ~Nested("orig") \/ ~Nested("recomp")
          BY <1>1, <1>2, SidesAre
    <3>3. basis[a] = "content"
          BY <3>1, <3>2 DEF Twins, TwinsPairUp, Late
    <3> QED  BY <2>3, <2>4, <2>6, <3>3, StageStepKeepsPairs, SidesAre
  <2> QED  BY <2>5, <2>6
<1> QED  BY <1>2 DEF TwinsPairUp

LEMMA LateIsReached ==
    ASSUME StagesNext
    PROVE  \/ MatchExports /\ stage' = "match_ref" /\ turn' = 1
           \/ MatchRef
           \/ /\ \/ ClassifyFoldedFunctionAliases \/ ClassifySyntheticJumpAliases
                 \/ CreateStrings \/ MatchStrings \/ ClassifyExactStringAliases
                 \/ SealCatalog
              /\ stage \in Late /\ stage' \in Late
           \/ stage' \notin Late \cup {"match_ref"}
<1>1. \A name, chosen, next :
         AliasStage(name, chosen, next) => stage = name /\ stage' \in {name, next}
      BY DEF AliasStage, Enters, Leaves, Stays
<1>2. CASE \/ ClassifyFoldedFunctionAliases \/ ClassifySyntheticJumpAliases
           \/ ClassifyExactStringAliases
      BY <1>1, <1>2 DEF ClassifyFoldedFunctionAliases, ClassifySyntheticJumpAliases,
                        ClassifyExactStringAliases, Late
<1>3. CASE CreateStrings \/ MatchStrings \/ SealCatalog
      BY <1>3 DEF CreateStrings, MatchStrings, SealCatalog, Enters, Leaves, Late
<1>4. CASE MatchExports
      BY <1>4 DEF MatchExports, Leaves
<1>5. CASE \/ LoadCvdump \/ MatchEntry \/ LoadDataSources \/ LoadMarkers
           \/ MatchAnnotationSelectors \/ MatchSymbols \/ MatchFunctions
           \/ MatchVariables \/ MatchLines \/ MatchImports
      BY <1>5 DEF LoadCvdump, MatchEntry, LoadDataSources, LoadMarkers,
                  MatchAnnotationSelectors, MatchSymbols, MatchFunctions, MatchVariables,
                  MatchLines, MatchImports, Leaves, Late
<1>6. CASE FoldedMarker \/ FoldedMarkersDone \/ CreateStructures
      BY <1>6 DEF FoldedMarker, FoldedMarkersDone, CreateStructures, Enters, Leaves, Late
<1> QED  BY <1>2, <1>3, <1>4, <1>5, <1>6 DEF StagesNext

LEMMA StepKeepsTwins ==
    ASSUME Core, Core', StageOK, TwinsNest, TwinsPairUp, [StagesNext]_stageVars
    PROVE  TwinsNest' /\ TwinsPairUp'
<1>1. CASE MatchExports /\ stage' = "match_ref" /\ turn' = 1
  <2>1. ASSUME NEW x \in Addrs, NEW y \in Addrs, Twins(x, y)'
        PROVE  facts'["orig"][x].ref # None /\ facts'["recomp"][y].ref # None
        BY <2>1 DEF Twins, Children
  <2>2. ASSUME NEW s, NEW x \in Addrs, facts'[s][x].ref # None
        PROVE  Chain(s, 1, x)'
    <3> DEFINE c == [i \in 1 .. 1 |-> x]
    <3>1. c \in [1 .. 1 -> Addrs] /\ c[1] = x /\ \A i \in 1 .. 1 - 1 : FALSE
          OBVIOUS
    <3> HIDE DEF c
    <3> QED  BY <2>2, <3>1 DEF Chain
  <2>3. TwinsNest'
        BY <1>1, <2>1, <2>2 DEF TwinsNest, Chain
  <2> QED  BY <1>1, <2>3 DEF TwinsPairUp, Late
<1>2. CASE MatchRef
      BY <1>2, RoundKeepsTwins
<1>3. CASE /\ \/ ClassifyFoldedFunctionAliases \/ ClassifySyntheticJumpAliases
              \/ CreateStrings \/ MatchStrings \/ ClassifyExactStringAliases
              \/ SealCatalog
           /\ stage \in Late /\ stage' \in Late
  <2>0. TwinsNest'
        BY <1>3 DEF TwinsNest, Late
  <2>1. CASE Aliases \/ WritesNothing \/ Seals
    <3>1. facts' = facts /\ matches' = matches
          BY <2>1 DEF Aliases, SetAlias, WritesNothing, Seals, Freeze, pairVars, catalog, vars
    <3> QED  BY <1>3, <2>0, <3>1, LateStepKeepsTwins DEF SameRefs
  <2>2. CASE CreateStrings
    <3>1. PICK ps, new :
             /\ RowsOK(new) /\ Wrote(ps, {}, new)
             /\ \A s \in Sides : \A a \in DOMAIN new[s] :
                   "ref" \notin DOMAIN new[s][a] /\ "disp" \notin DOMAIN new[s][a]
          BY <2>2, CreateStringsWrites
    <3>2. \A a \in Addrs : matches'["orig"][a] = matches["orig"][a]
          BY <3>1, RowsPairNothing
    <3>3. SameRefs
      <4> SUFFICES ASSUME NEW s \in Sides, NEW a \in Addrs
                   PROVE  /\ facts'[s][a].ref = facts[s][a].ref
                          /\ facts'[s][a].disp = facts[s][a].disp
          BY DEF SameRefs
      <4>1. CASE a \in DOMAIN new[s]
        <5>1. facts'[s][a] = Updated(facts[s][a], new[s][a])
              BY <3>1, <4>1 DEF Wrote
        <5>2. RowOK(new[s][a])
              BY <3>1, <4>1 DEF RowsOK
        <5>3. "ref" \in DOMAIN Blank /\ "disp" \in DOMAIN Blank
              BY BlankDomain
        <5> QED  BY <3>1, <4>1, <5>1, <5>2, <5>3, UpdatedFacts DEF Core, FactsOK
      <4>2. CASE a \notin DOMAIN new[s]
            BY <3>1, <4>2 DEF Wrote
      <4> QED  BY <4>1, <4>2
    <3> QED  BY <1>3, <2>0, <3>2, <3>3, LateStepKeepsTwins
  <2>3. CASE MatchStrings
    <3>1. PICK ps : Wrote(ps, StringPairs, Nothing)
          BY <2>3, PairsWrite, OfferedArePairs DEF MatchStrings
    <3>2. Adds(ps) /\ ps \subseteq StringPairs /\ facts' = facts
          BY <3>1, NothingIsRows, WroteAdds, NothingKeepsFacts DEF Wrote
    <3>3. ASSUME NEW x \in Addrs, matches["orig"][x] = None, matches'["orig"][x] # None
          PROVE  basis'[x] = "content"
      <4>1. PICK p \in ps : p.orig = x
            BY <3>2, <3>3 DEF Adds
      <4> QED  BY <3>2, <4>1, StringPairFacts DEF Adds
    <3> QED  BY <1>3, <2>0, <3>2, <3>3, LateStepKeepsTwins DEF SameRefs
  <2>4. CASE \/ ClassifyFoldedFunctionAliases \/ ClassifySyntheticJumpAliases
             \/ ClassifyExactStringAliases \/ SealCatalog
        BY <2>1, <2>4, AliasStages
        DEF ClassifyFoldedFunctionAliases, ClassifySyntheticJumpAliases,
            ClassifyExactStringAliases, SealCatalog, Seals
  <2> QED  BY <1>3, <2>2, <2>3, <2>4
<1>4. CASE stage' \notin Late \cup {"match_ref"}
      BY <1>4 DEF TwinsNest, TwinsPairUp, Late
<1>5. CASE UNCHANGED stageVars
      BY <1>5 DEF stageVars, vars, catalog, pairVars, TwinsNest, TwinsPairUp, Twins,
                  Children, Unmatched, RefKey, Nested, Chain
<1> QED  BY <1>1, <1>2, <1>3, <1>4, <1>5, LateIsReached

(* The rounds of reference matching leave no two entities that refer to one  *)
(* pair in one way, unless references nest deeper than the rounds on both    *)
(* images, or the pair was made later, of equal strings.                     *)
THEOREM TwinsArePaired == StagesSpec => []TwinsPairUp
<1>1. StagesInit => TwinsNest /\ TwinsPairUp
      BY DEF StagesInit, TwinsNest, TwinsPairUp, Late
<1>2. /\ Core /\ Core' /\ StageOK
      /\ TwinsNest /\ TwinsPairUp
      /\ [StagesNext]_stageVars
      => (TwinsNest /\ TwinsPairUp)'
      BY StepKeepsTwins
<1> QED  BY <1>1, <1>2, CoreAlways, StageAlways, PTL DEF StagesSpec
===============================================================================
