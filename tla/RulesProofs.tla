------------------------------ MODULE RulesProofs ------------------------------
(***************************************************************************)
(* Proofs about the rules of a comparison that need no state of their own: *)
(* the retry with callees substituted, for any paired functions, calls     *)
(* between them and bound on the depth; the names of both programs, for    *)
(* any manifest; and the addresses of an image, for any sections.          *)
(***************************************************************************)
EXTENDS InlineRetry, WellFoundedInduction, FiniteSetTheorems, SequenceTheorems, TLAPS

CONSTANTS Literals, Unnamed, FunctionKinds, Sections, Blocks, Base

INSTANCE SharedNames
INSTANCE PeImage

N == Cardinality(Pairs)

LEMMA PairsAreCounted ==
    N \in Nat /\ \A T \in SUBSET Pairs : IsFiniteSet(T) /\ Cardinality(T) \in 0 .. N
<1>1. N \in Nat
      BY RetryAssumption, FS_CardinalityType DEF N
<1>2. ASSUME NEW T \in SUBSET Pairs
      PROVE  IsFiniteSet(T) /\ Cardinality(T) \in 0 .. N
  <2>1. IsFiniteSet(T) /\ Cardinality(T) <= N
        BY RetryAssumption, FS_Subset DEF N
  <2>2. Cardinality(T) \in Nat
        BY <2>1, FS_CardinalityType
  <2> QED  BY <1>1, <2>1, <2>2
<1> QED  BY <1>1, <1>2

-------------------------------------------------------------------------------
(* Functions by recursion: what a number of rounds makes of a start.        *)

(* What holds at the start and passes from each round to the next holds     *)
(* after every round.                                                       *)
LEMMA EveryRound ==
    ASSUME NEW L \in Nat, NEW T, 0 \in T, \A n \in 1 .. L : n - 1 \in T => n \in T
    PROVE  0 .. L \subseteq T
<1> DEFINE B == {n \in 0 .. L : n \notin T}
           R == {ss \in Nat \X Nat : ss[1] < ss[2]}
<1> SUFFICES ASSUME B # {} PROVE FALSE
    OBVIOUS
<1>1. IsWellFoundedOn(R, Nat)
      BY NatLessThanWellFounded DEF OpToRel
<1>2. PICK m \in B : \A n \in B : ~(<<n, m>> \in R)
      BY <1>1, WFMin
<1>3. m \in 1 .. L /\ m - 1 \in 0 .. L
      OBVIOUS
<1>4. <<m - 1, m>> \in R
      BY <1>3
<1>5. m - 1 \in T
      BY <1>2, <1>3, <1>4
<1> QED  BY <1>3, <1>5

Rounds(f, L, init, step) == f[0] = init /\ \A n \in 1 .. L : f[n] = step[f[n - 1]]

LEMMA RoundsExist ==
    ASSUME NEW A, NEW init \in A, NEW step \in [A -> A], NEW L \in Nat
    PROVE  \E f \in [0 .. L -> A] : Rounds(f, L, init, step)
<1> DEFINE T == {n \in 0 .. L : \E g \in [0 .. n -> A] : Rounds(g, n, init, step)}
<1>1. 0 \in T
  <2>1. [m \in 0 .. 0 |-> init] \in [0 .. 0 -> A]
        OBVIOUS
  <2>2. Rounds([m \in 0 .. 0 |-> init], 0, init, step)
        BY DEF Rounds
  <2> QED  BY <2>1, <2>2
<1>2. ASSUME NEW n \in 1 .. L, n - 1 \in T
      PROVE  n \in T
  <2>1. PICK g \in [0 .. n - 1 -> A] : Rounds(g, n - 1, init, step)
        BY <1>2
  <2> DEFINE v == step[g[n - 1]]
             h == [m \in 0 .. n |-> IF m = n THEN v ELSE g[m]]
  <2>2. n - 1 \in 0 .. n - 1 /\ n \in 0 .. n /\ 0 \in 0 .. n - 1
        OBVIOUS
  <2>3. v \in A
        BY <2>2
  <2>4. h \in [0 .. n -> A]
        BY <2>2, <2>3
  <2>5. (\A m \in 0 .. n - 1 : h[m] = g[m]) /\ h[n] = v
        BY <2>2
  <2> HIDE DEF h
  <2>6. ASSUME NEW m \in 1 .. n
        PROVE  h[m] = step[h[m - 1]]
    <3>1. CASE m = n
          BY <2>2, <2>5, <3>1
    <3>2. CASE m # n
      <4>1. m \in 1 .. n - 1 /\ m \in 0 .. n - 1 /\ m - 1 \in 0 .. n - 1
            BY <3>2
      <4>2. g[m] = step[g[m - 1]]
            BY <2>1, <4>1 DEF Rounds
      <4> QED  BY <2>5, <4>1, <4>2
    <3> QED  BY <3>1, <3>2
  <2>7. h[0] = init
        BY <2>1, <2>2, <2>5 DEF Rounds
  <2> QED  BY <2>4, <2>6, <2>7 DEF Rounds
<1>3. 0 .. L \subseteq T
      BY <1>1, <1>2, EveryRound
<1> QED  BY <1>3

-------------------------------------------------------------------------------
(* Closure *)

Edges == [Pairs -> SUBSET Pairs]

(* One round more. *)
Wider(step) == [S \in SUBSET Pairs |-> S \cup UNION {step[f] : f \in S}]

LEMMA WiderType ==
    ASSUME NEW step \in Edges
    PROVE  Wider(step) \in [SUBSET Pairs -> SUBSET Pairs]
BY DEF Wider, Edges

LEMMA ClosureIs ==
    ASSUME NEW start \in SUBSET Pairs, NEW step \in Edges
    PROVE  \E g \in [0 .. N -> SUBSET Pairs] :
              Rounds(g, N, start, Wider(step)) /\ Closure(start, step) = g[N]
<1> DEFINE Grown(g) == [n \in 0 .. N |->
                          IF n = 0 THEN start ELSE g[n - 1] \cup UNION {step[f] : f \in g[n - 1]}]
           grown == CHOOSE g : g = Grown(g)
<1>1. N \in Nat
      BY PairsAreCounted
<1>2. PICK g \in [0 .. N -> SUBSET Pairs] : Rounds(g, N, start, Wider(step))
      BY <1>1, WiderType, RoundsExist
<1>3. g = Grown(g)
  <2>1. ASSUME NEW n \in 1 .. N
        PROVE  g[n] = g[n - 1] \cup UNION {step[f] : f \in g[n - 1]}
    <3>1. n - 1 \in 0 .. N
          BY <1>1
    <3>2. g[n] = Wider(step)[g[n - 1]]
          BY <1>2 DEF Rounds
    <3> QED  BY <3>1, <3>2 DEF Wider
  <2>2. g[0] = start
        BY <1>2 DEF Rounds
  <2>3. \A n \in 0 .. N :
           g[n] = IF n = 0 THEN start ELSE g[n - 1] \cup UNION {step[f] : f \in g[n - 1]}
        BY <1>1, <2>1, <2>2
  <2>4. g = [n \in 0 .. N |-> g[n]]
        OBVIOUS
  <2> QED  BY <2>3, <2>4
<1>4. grown = Grown(grown)
      BY <1>3
<1>5. Closure(start, step) = grown[N]
      BY DEF Closure, N
<1> HIDE DEF grown
<1>6. \A n \in 0 .. N : grown[n] = g[n]
  <2> DEFINE T == {n \in 0 .. N : grown[n] = g[n]}
  <2>1. 0 \in T
        BY <1>1, <1>3, <1>4
  <2>2. ASSUME NEW n \in 1 .. N, n - 1 \in T
        PROVE  n \in T
    <3>1. n \in 0 .. N /\ n # 0 /\ grown[n - 1] = g[n - 1]
          BY <1>1, <2>2
    <3>2. grown[n] = Grown(grown)[n] /\ g[n] = Grown(g)[n]
          BY <1>3, <1>4
    <3>3. Grown(grown)[n] = Grown(g)[n]
          BY <3>1
    <3> QED  BY <3>1, <3>2, <3>3
  <2>3. 0 .. N \subseteq T
        BY <1>1, <2>1, <2>2, EveryRound
  <2> QED  BY <2>3
<1> QED  BY <1>1, <1>2, <1>5, <1>6

(* Closed under the steps of its members. *)
Closed(S, step) == \A f \in S : step[f] \subseteq S

(* Every round adds something until one adds nothing, and there are as many *)
(* rounds as functions.                                                     *)
LEMMA ClosureIsClosed ==
    ASSUME NEW start \in SUBSET Pairs, NEW step \in Edges
    PROVE  /\ Closure(start, step) \in SUBSET Pairs
           /\ start \subseteq Closure(start, step)
           /\ Closed(Closure(start, step), step)
<1>1. PICK g \in [0 .. N -> SUBSET Pairs] :
           Rounds(g, N, start, Wider(step)) /\ Closure(start, step) = g[N]
      BY ClosureIs
<1> DEFINE T == {n \in 0 .. N : /\ start \subseteq g[n]
                                /\ Closed(g[n], step) \/ n <= Cardinality(g[n])}
<1>2. N \in Nat
      BY PairsAreCounted
<1>3. 0 \in T
  <2>1. g[0] = start /\ Cardinality(start) \in Nat
        BY <1>1, PairsAreCounted DEF Rounds
  <2> QED  BY <1>2, <2>1
<1>4. ASSUME NEW n \in 1 .. N, n - 1 \in T
      PROVE  n \in T
  <2>1. n - 1 \in 0 .. N /\ g[n - 1] \in SUBSET Pairs /\ g[n] \in SUBSET Pairs
        BY <1>2
  <2>2. g[n] = g[n - 1] \cup UNION {step[f] : f \in g[n - 1]}
        BY <1>1, <2>1 DEF Rounds, Wider
  <2>3. CASE Closed(g[n - 1], step)
    <3>1. g[n] = g[n - 1]
          BY <2>2, <2>3 DEF Closed
    <3> QED  BY <1>4, <2>3, <3>1
  <2>4. CASE ~Closed(g[n - 1], step)
    <3>1. g[n - 1] \subseteq g[n] /\ g[n - 1] # g[n]
          BY <2>2, <2>4 DEF Closed
    <3>2. IsFiniteSet(g[n]) /\ Cardinality(g[n]) \in Nat /\ Cardinality(g[n - 1]) \in Nat
          BY <2>1, PairsAreCounted
    <3>3. Cardinality(g[n - 1]) <= Cardinality(g[n]) /\ Cardinality(g[n - 1]) # Cardinality(g[n])
          BY <3>1, <3>2, FS_Subset
    <3>4. n - 1 <= Cardinality(g[n - 1])
          BY <1>4, <2>4
    <3>5. n <= Cardinality(g[n])
          BY <3>2, <3>3, <3>4
    <3>6. start \subseteq g[n] /\ n \in 0 .. N
          BY <1>2, <1>4, <3>1
    <3> QED  BY <3>5, <3>6
  <2> QED  BY <2>3, <2>4
<1>5. N \in T
  <2>1. 0 .. N \subseteq T
        BY <1>2, <1>3, <1>4, EveryRound
  <2> QED  BY <1>2, <2>1
<1>6. g[N] \in SUBSET Pairs
      BY <1>2
<1>7. ASSUME N <= Cardinality(g[N])
      PROVE  Closed(g[N], step)
  <2>1. Cardinality(g[N]) = Cardinality(Pairs)
        BY <1>2, <1>6, <1>7, PairsAreCounted DEF N
  <2>2. g[N] = Pairs
        BY <1>6, <2>1, FS_Subset, RetryAssumption
  <2> QED  BY <2>2 DEF Closed, Edges
<1> QED  BY <1>1, <1>5, <1>6, <1>7

(* And it is the least such set. *)
LEMMA ClosureIsLeast ==
    ASSUME NEW start \in SUBSET Pairs, NEW step \in Edges,
           NEW S \in SUBSET Pairs, start \subseteq S, Closed(S, step)
    PROVE  Closure(start, step) \subseteq S
<1>1. PICK g \in [0 .. N -> SUBSET Pairs] :
           Rounds(g, N, start, Wider(step)) /\ Closure(start, step) = g[N]
      BY ClosureIs
<1>2. N \in Nat
      BY PairsAreCounted
<1> DEFINE T == {n \in 0 .. N : g[n] \subseteq S}
<1>3. 0 \in T
      BY <1>1, <1>2 DEF Rounds
<1>4. ASSUME NEW n \in 1 .. N, n - 1 \in T
      PROVE  n \in T
  <2>1. g[n - 1] \in SUBSET Pairs /\ g[n - 1] \subseteq S
        BY <1>2, <1>4
  <2>2. g[n] = g[n - 1] \cup UNION {step[f] : f \in g[n - 1]}
        BY <1>1, <2>1 DEF Rounds, Wider
  <2> QED  BY <2>1, <2>2 DEF Closed
<1>5. 0 .. N \subseteq T
      BY <1>2, <1>3, <1>4, EveryRound
<1> QED  BY <1>1, <1>2, <1>5

-------------------------------------------------------------------------------
(* What is selected *)

LEMMA BodiesAre ==
    ASSUME graph \in Programs, NEW i \in Images
    PROVE  /\ \A f \in Pairs : Body(i, f) \in SUBSET Pairs
           /\ graph.fit \in SUBSET Pairs
           /\ \A S : [g \in Pairs |-> Body(i, g) \cap S] \in Edges
BY DEF Programs, Body, Edges

LEMMA TailsClose ==
    ASSUME graph \in Programs, NEW S \in SUBSET Pairs
    PROVE  CloseTails(S) \in SUBSET Pairs
<1> DEFINE tails == [f \in Pairs |-> graph.fit \cap UNION {TailCalls(i, f) : i \in Images}]
<1>1. tails \in Edges
      BY BodiesAre DEF Images, Edges
<1>2. Closure(S, tails) \in SUBSET Pairs
      BY <1>1, ClosureIsClosed
<1> QED  BY <1>2 DEF CloseTails

(* The rounds of for_pair select paired functions. *)
LEMMA SelectedArePairs ==
    ASSUME graph \in Programs
    PROVE  \E selected \in SUBSET Pairs :
              ForPair = IF graph.observed THEN selected \ Recursive(selected) ELSE {}
<1> DEFINE Start == CloseTails(Asymmetric({}))
           More(S) == CloseTails(S \cup Asymmetric(S))
           Selects(r) == [n \in 0 .. MaxInlineDepth |-> IF n = 0 THEN Start ELSE More(r[n - 1])]
           round == CHOOSE r : r = Selects(r)
           step == [S \in SUBSET Pairs |-> More(S)]
<1>1. MaxInlineDepth \in Nat
      BY RetryAssumption
<1>2. ForPair = IF graph.observed
                THEN round[MaxInlineDepth] \ Recursive(round[MaxInlineDepth]) ELSE {}
      BY DEF ForPair
<1>3. \A S : Asymmetric(S) \in SUBSET Pairs
      BY BodiesAre DEF Asymmetric, Images
<1>4. Start \in SUBSET Pairs /\ \A S \in SUBSET Pairs : More(S) \in SUBSET Pairs
      BY <1>3, TailsClose
<1> HIDE DEF Start, More
<1>5. step \in [SUBSET Pairs -> SUBSET Pairs]
      BY <1>4
<1>6. PICK r \in [0 .. MaxInlineDepth -> SUBSET Pairs] : Rounds(r, MaxInlineDepth, Start, step)
      BY <1>1, <1>4, <1>5, RoundsExist
<1>7. r = Selects(r)
  <2>1. ASSUME NEW n \in 1 .. MaxInlineDepth
        PROVE  r[n] = More(r[n - 1])
    <3>1. r[n - 1] \in SUBSET Pairs
          BY <1>1
    <3> QED  BY <1>6, <3>1 DEF Rounds
  <2>2. \A n \in 0 .. MaxInlineDepth : r[n] = IF n = 0 THEN Start ELSE More(r[n - 1])
        BY <1>1, <1>6, <2>1 DEF Rounds
  <2>3. r = [n \in 0 .. MaxInlineDepth |-> r[n]]
        OBVIOUS
  <2> QED  BY <2>2, <2>3
<1>8. round = Selects(round)
      BY <1>7
<1> HIDE DEF round
<1> DEFINE T == {n \in 0 .. MaxInlineDepth : round[n] \in SUBSET Pairs}
<1>9. 0 \in T
      BY <1>1, <1>4, <1>8
<1>10. ASSUME NEW n \in 1 .. MaxInlineDepth, n - 1 \in T
       PROVE  n \in T
  <2>1. n \in 0 .. MaxInlineDepth /\ n # 0
        BY <1>1
  <2>2. round[n] = More(round[n - 1])
        BY <1>8, <2>1
  <2> QED  BY <1>4, <1>10, <2>1, <2>2
<1>11. 0 .. MaxInlineDepth \subseteq T
      BY <1>1, <1>9, <1>10, EveryRound
<1>12. round[MaxInlineDepth] \in SUBSET Pairs
      BY <1>1, <1>11
<1> QED  BY <1>2, <1>12

(* Fewer selected functions reach less of each other. *)
LEMMA ReachesLess ==
    ASSUME graph \in Programs, NEW i \in Images, NEW S \in SUBSET Pairs, NEW T \in SUBSET S,
           NEW f \in Pairs
    PROVE  Closure(Body(i, f) \cap T, [g \in Pairs |-> Body(i, g) \cap T])
              \subseteq Closure(Body(i, f) \cap S, [g \in Pairs |-> Body(i, g) \cap S])
<1> DEFINE few == [g \in Pairs |-> Body(i, g) \cap T]
           many == [g \in Pairs |-> Body(i, g) \cap S]
           all == Closure(Body(i, f) \cap S, many)
<1>1. few \in Edges /\ many \in Edges
      BY BodiesAre
<1>2. /\ Body(i, f) \cap T \in SUBSET Pairs
      /\ Body(i, f) \cap S \in SUBSET Pairs
      /\ Body(i, f) \cap T \subseteq Body(i, f) \cap S
      OBVIOUS
<1>3. \A g \in Pairs : few[g] \subseteq many[g]
      OBVIOUS
<1> HIDE DEF few, many
<1>4. all \in SUBSET Pairs /\ Body(i, f) \cap S \subseteq all /\ Closed(all, many)
      BY <1>1, <1>2, ClosureIsClosed
<1> HIDE DEF all
<1>5. Closed(all, few)
      BY <1>3, <1>4 DEF Closed
<1>6. Closure(Body(i, f) \cap T, few) \subseteq all
      BY <1>1, <1>2, <1>4, <1>5, ClosureIsLeast
<1> QED  BY <1>6 DEF all, few, many

(* No selected function contains itself. *)
NoCycle(i, S) ==
    \A f \in S : f \notin Closure(Body(i, f) \cap S, [g \in Pairs |-> Body(i, g) \cap S])

LEMMA ForPairIsAcyclic ==
    ASSUME graph \in Programs
    PROVE  ForPair \in SUBSET Pairs /\ \A i \in Images : NoCycle(i, ForPair)
<1>1. PICK selected \in SUBSET Pairs :
           ForPair = IF graph.observed THEN selected \ Recursive(selected) ELSE {}
      BY SelectedArePairs
<1>2. ForPair \in SUBSET selected
      BY <1>1
<1>3. ASSUME NEW i \in Images, NEW f \in ForPair
      PROVE  f \notin Closure(Body(i, f) \cap ForPair, [g \in Pairs |-> Body(i, g) \cap ForPair])
  <2>1. f \in selected /\ f \notin Recursive(selected)
        BY <1>1
  <2>2. f \notin Closure(Body(i, f) \cap selected, [g \in Pairs |-> Body(i, g) \cap selected])
        BY <2>1 DEF Recursive
  <2> QED  BY <1>2, <2>1, <2>2, ReachesLess
<1> QED  BY <1>2, <1>3 DEF NoCycle

-------------------------------------------------------------------------------
(* What the recursion of Counts computes                                    *)

Direct(i) ==
    [g \in Pairs |-> [h \in Pairs |->
       SumFunction([c \in Body(i, g) |-> IF c = h THEN 1 ELSE 0])]]

(* One level more, below which the counts are E. *)
Deeper(i, S, E) ==
    [g \in Pairs |-> [h \in Pairs |->
       SumFunction([c \in Body(i, g) |-> IF c \in S THEN E[c][h] ELSE IF c = h THEN 1 ELSE 0])]]

Turn(i, S, n, e) ==
    [g \in Pairs |-> [h \in Pairs |->
       SumFunction([c \in Body(i, g) |->
          IF c \in S /\ n > 0 THEN e[n - 1][c][h] ELSE IF c = h THEN 1 ELSE 0])]]

Turns(i, S, L, e) == [n \in 0 .. L |-> Turn(i, S, n, e)]

LEMMA FirstTurn ==
    ASSUME NEW i, NEW S, NEW e
    PROVE  Turn(i, S, 0, e) = Direct(i)
<1>1. ASSUME NEW g \in Pairs, NEW h \in Pairs
      PROVE  [c \in Body(i, g) |->
                IF c \in S /\ 0 > 0 THEN e[0 - 1][c][h] ELSE IF c = h THEN 1 ELSE 0]
             = [c \in Body(i, g) |-> IF c = h THEN 1 ELSE 0]
      OBVIOUS
<1> QED  BY <1>1 DEF Turn, Direct

LEMMA LaterTurn ==
    ASSUME NEW i, NEW S, NEW e, NEW n \in Nat, n > 0
    PROVE  Turn(i, S, n, e) = Deeper(i, S, e[n - 1])
<1>1. ASSUME NEW g \in Pairs, NEW h \in Pairs
      PROVE  [c \in Body(i, g) |->
                IF c \in S /\ n > 0 THEN e[n - 1][c][h] ELSE IF c = h THEN 1 ELSE 0]
             = [c \in Body(i, g) |->
                  IF c \in S THEN e[n - 1][c][h] ELSE IF c = h THEN 1 ELSE 0]
      OBVIOUS
<1> QED  BY <1>1 DEF Turn, Deeper

LEMMA TurnsExist ==
    ASSUME NEW i, NEW S, NEW L \in Nat
    PROVE  \E e : e = Turns(i, S, L, e)
<1> DEFINE T == {n \in 0 .. L : \E e : e = Turns(i, S, n, e)}
<1>1. 0 \in T
  <2> DEFINE e == [n \in 0 .. 0 |-> Direct(i)]
  <2>1. \A n \in 0 .. 0 : Turn(i, S, n, e) = Direct(i)
    <3>1. ASSUME NEW n \in 0 .. 0
          PROVE  Turn(i, S, n, e) = Direct(i)
      <4>1. n = 0
            OBVIOUS
      <4>2. Turn(i, S, 0, e) = Direct(i)
            BY FirstTurn
      <4> QED  BY <4>1, <4>2
    <3> QED  BY <3>1
  <2>2. e = Turns(i, S, 0, e)
        BY <2>1 DEF Turns
  <2> QED  BY <2>2
<1>2. ASSUME NEW n \in 1 .. L, n - 1 \in T
      PROVE  n \in T
  <2>1. PICK e : e = Turns(i, S, n - 1, e)
        BY <1>2
  <2> DEFINE more == [m \in 0 .. n |-> IF m = n THEN Deeper(i, S, e[n - 1]) ELSE e[m]]
  <2>2. /\ more = [m \in 0 .. n |-> more[m]]
        /\ \A m \in 0 .. n - 1 : more[m] = e[m]
        /\ more[n] = Deeper(i, S, e[n - 1])
        OBVIOUS
  <2>3. \A m \in 0 .. n - 1 : e[m] = Turn(i, S, m, e)
        BY <2>1 DEF Turns
  <2> HIDE DEF more
  <2>4. ASSUME NEW m \in 0 .. n
        PROVE  more[m] = Turn(i, S, m, more)
    <3>1. CASE m = 0
      <4>1. Turn(i, S, 0, e) = Direct(i) /\ Turn(i, S, 0, more) = Direct(i)
            BY FirstTurn
      <4>2. 0 \in 0 .. n - 1
            OBVIOUS
      <4> QED  BY <2>2, <2>3, <3>1, <4>1, <4>2
    <3>2. CASE m > 0
      <4>1. m \in Nat /\ m - 1 \in 0 .. n - 1
            BY <3>2
      <4>2. Turn(i, S, m, more) = Deeper(i, S, more[m - 1])
            BY <3>2, <4>1, LaterTurn
      <4>3. Turn(i, S, m, e) = Deeper(i, S, e[m - 1])
            BY <3>2, <4>1, LaterTurn
      <4>4. more[m - 1] = e[m - 1]
            BY <2>2, <4>1
      <4>5. CASE m = n
            BY <2>2, <4>2, <4>4, <4>5
      <4>6. CASE m # n
        <5>1. m \in 0 .. n - 1
              BY <4>6
        <5> QED  BY <2>2, <2>3, <4>2, <4>3, <4>4, <5>1
      <4> QED  BY <4>5, <4>6
    <3> QED  BY <3>1, <3>2
  <2>5. more = Turns(i, S, n, more)
        BY <2>2, <2>4 DEF Turns
  <2> QED  BY <2>5
<1>3. 0 .. L \subseteq T
      BY <1>1, <1>2, EveryRound
<1> QED  BY <1>3

(* The counts of a depth are those of one less, one level deeper. *)
LEMMA CountsAre ==
    ASSUME NEW i, NEW S
    PROVE  /\ Counts(i, S, 0) = Direct(i)
           /\ \A n \in Nat \ {0} : Counts(i, S, n) = Deeper(i, S, Counts(i, S, n - 1))
<1> DEFINE Taken(n) == CHOOSE e : e = Turns(i, S, n, e)
<1>1. \A n : Counts(i, S, n) = Taken(n)[n]
      BY DEF Counts, Turns, Turn
<1>2. ASSUME NEW L \in Nat
      PROVE  Taken(L) = Turns(i, S, L, Taken(L))
      BY TurnsExist
<1> HIDE DEF Taken
<1>3. ASSUME NEW L \in Nat, NEW m \in 0 .. L
      PROVE  Taken(L)[m] = Turn(i, S, m, Taken(L))
      BY <1>2 DEF Turns
<1>4. ASSUME NEW L \in Nat
      PROVE  Taken(L)[0] = Direct(i)
  <2>1. Taken(L)[0] = Turn(i, S, 0, Taken(L))
        BY <1>3
  <2> QED  BY <2>1, FirstTurn
<1>5. ASSUME NEW L \in Nat, NEW m \in 1 .. L
      PROVE  Taken(L)[m] = Deeper(i, S, Taken(L)[m - 1])
  <2>1. Taken(L)[m] = Turn(i, S, m, Taken(L))
        BY <1>3
  <2> QED  BY <2>1, LaterTurn
<1>6. ASSUME NEW n \in Nat \ {0}
      PROVE  Taken(n)[n - 1] = Taken(n - 1)[n - 1]
  <2> DEFINE T == {m \in 0 .. n - 1 : Taken(n)[m] = Taken(n - 1)[m]}
  <2>1. n - 1 \in Nat
        OBVIOUS
  <2>2. 0 \in T
        BY <1>4, <2>1
  <2>3. ASSUME NEW m \in 1 .. n - 1, m - 1 \in T
        PROVE  m \in T
    <3>1. Taken(n)[m] = Deeper(i, S, Taken(n)[m - 1])
          BY <1>5
    <3>2. Taken(n - 1)[m] = Deeper(i, S, Taken(n - 1)[m - 1])
          BY <1>5, <2>1
    <3>3. Taken(n)[m - 1] = Taken(n - 1)[m - 1]
          BY <2>3
    <3> QED  BY <3>1, <3>2, <3>3
  <2>4. 0 .. n - 1 \subseteq T
        BY <2>1, <2>2, <2>3, EveryRound
  <2> QED  BY <2>1, <2>4
<1>7. ASSUME NEW n \in Nat \ {0}
      PROVE  Counts(i, S, n) = Deeper(i, S, Counts(i, S, n - 1))
  <2>1. Taken(n)[n] = Deeper(i, S, Taken(n)[n - 1])
        BY <1>5
  <2> QED  BY <1>1, <1>6, <2>1
<1> QED  BY <1>1, <1>4, <1>7

(* A body whose selected callees have the same counts has the same, and one *)
(* without selected callees has what it calls.                              *)
LEMMA SameBelow ==
    ASSUME NEW i, NEW S, NEW E, NEW F, NEW g \in Pairs, \A c \in Body(i, g) \cap S : E[c] = F[c]
    PROVE  Deeper(i, S, E)[g] = Deeper(i, S, F)[g]
<1>1. ASSUME NEW h \in Pairs
      PROVE  [c \in Body(i, g) |-> IF c \in S THEN E[c][h] ELSE IF c = h THEN 1 ELSE 0]
             = [c \in Body(i, g) |-> IF c \in S THEN F[c][h] ELSE IF c = h THEN 1 ELSE 0]
      OBVIOUS
<1> QED  BY <1>1 DEF Deeper

LEMMA NoneBelow ==
    ASSUME NEW i, NEW S, NEW g \in Pairs, Body(i, g) \cap S = {}, NEW n \in Nat
    PROVE  Counts(i, S, n)[g] = Direct(i)[g]
<1>1. CASE n = 0
      BY <1>1, CountsAre
<1>2. CASE n # 0
  <2>1. Counts(i, S, n) = Deeper(i, S, Counts(i, S, n - 1))
        BY <1>2, CountsAre
  <2>2. ASSUME NEW h \in Pairs
        PROVE  [c \in Body(i, g) |->
                  IF c \in S THEN Counts(i, S, n - 1)[c][h] ELSE IF c = h THEN 1 ELSE 0]
               = [c \in Body(i, g) |-> IF c = h THEN 1 ELSE 0]
        OBVIOUS
  <2>3. Deeper(i, S, Counts(i, S, n - 1))[g] = Direct(i)[g]
        BY <2>2 DEF Deeper, Direct
  <2> QED  BY <2>1, <2>3
<1> QED  BY <1>1, <1>2

LEMMA Below ==
    ASSUME NEW i, NEW S, NEW g \in Pairs, NEW n \in Nat \ {0}, NEW m \in Nat \ {0},
           \A c \in Body(i, g) \cap S : Counts(i, S, n - 1)[c] = Counts(i, S, m - 1)[c]
    PROVE  Counts(i, S, n)[g] = Counts(i, S, m)[g]
<1>1. Counts(i, S, n) = Deeper(i, S, Counts(i, S, n - 1))
      BY CountsAre
<1>2. Counts(i, S, m) = Deeper(i, S, Counts(i, S, m - 1))
      BY CountsAre
<1>3. Deeper(i, S, Counts(i, S, n - 1))[g] = Deeper(i, S, Counts(i, S, m - 1))[g]
      BY SameBelow
<1> QED  BY <1>1, <1>2, <1>3

-------------------------------------------------------------------------------
(* How deep the substitution goes                                           *)

(* Without cycles it ends after as many levels as there are functions.      *)
LEMMA AcyclicEnds ==
    ASSUME graph \in Programs, NEW i \in Images, NEW S \in SUBSET Pairs, NoCycle(i, S),
           NEW f \in Pairs, NEW n0 \in Nat, NEW m0 \in Nat, n0 >= N, m0 >= N
    PROVE  Counts(i, S, n0)[f] = Counts(i, S, m0)[f]
<1> DEFINE step == [g \in Pairs |-> Body(i, g) \cap S]
           From(g) == Closure(Body(i, g) \cap S, step)
           Settled(k) == \A T \in SUBSET Pairs, g \in Pairs, n, m \in Nat :
                            /\ Closed(T, step) /\ Cardinality(T) <= k
                            /\ Body(i, g) \cap S \subseteq T
                            /\ n >= k /\ m >= k
                            => Counts(i, S, n)[g] = Counts(i, S, m)[g]
           K == {k \in 0 .. N : Settled(k)}
<1>1. N \in Nat
      BY PairsAreCounted
<1>2. step \in Edges /\ \A g \in Pairs : Body(i, g) \cap S \in SUBSET Pairs
      BY BodiesAre
<1>3. \A g \in Pairs : step[g] = Body(i, g) \cap S
      OBVIOUS
<1>4. \A g \in S : g \notin From(g)
      BY DEF NoCycle
<1> HIDE DEF step
<1>5. ASSUME NEW g \in Pairs
      PROVE  /\ From(g) \in SUBSET Pairs /\ Body(i, g) \cap S \subseteq From(g)
             /\ Closed(From(g), step)
      BY <1>2, ClosureIsClosed
<1>6. ASSUME NEW g \in Pairs, NEW T \in SUBSET Pairs, Body(i, g) \cap S \subseteq T, Closed(T, step)
      PROVE  From(g) \subseteq T
      BY <1>2, <1>6, ClosureIsLeast
<1> HIDE DEF From
<1>7. 0 \in K
  <2>1. ASSUME NEW T \in SUBSET Pairs, Cardinality(T) <= 0
        PROVE  T = {}
    <3>1. IsFiniteSet(T) /\ Cardinality(T) = 0
          BY <1>1, <2>1, PairsAreCounted
    <3> QED  BY <3>1, FS_EmptySet
  <2>2. ASSUME NEW T \in SUBSET Pairs, NEW g \in Pairs, NEW n \in Nat, NEW m \in Nat,
               Cardinality(T) <= 0, Body(i, g) \cap S \subseteq T
        PROVE  Counts(i, S, n)[g] = Counts(i, S, m)[g]
    <3>1. Body(i, g) \cap S = {}
          BY <2>1, <2>2
    <3> QED  BY <3>1, NoneBelow
  <2> QED  BY <1>1, <2>2
<1>8. ASSUME NEW k \in 1 .. N, k - 1 \in K
      PROVE  k \in K
  <2>1. ASSUME NEW T \in SUBSET Pairs, NEW g \in Pairs, NEW n \in Nat, NEW m \in Nat,
               Closed(T, step), Cardinality(T) <= k, Body(i, g) \cap S \subseteq T,
               n >= k, m >= k
        PROVE  Counts(i, S, n)[g] = Counts(i, S, m)[g]
    <3>1. n \in Nat \ {0} /\ m \in Nat \ {0} /\ n - 1 \in Nat /\ m - 1 \in Nat
          /\ n - 1 >= k - 1 /\ m - 1 >= k - 1
          BY <1>1, <2>1
    <3>2. ASSUME NEW c \in Body(i, g) \cap S
          PROVE  Counts(i, S, n - 1)[c] = Counts(i, S, m - 1)[c]
      <4>1. c \in T /\ c \in Pairs /\ c \in S
            BY <2>1
      <4>2. Body(i, c) \cap S \subseteq T
            BY <1>3, <2>1, <4>1 DEF Closed
      <4>3. From(c) \subseteq T
            BY <1>6, <2>1, <4>1, <4>2
      <4>4. c \notin From(c)
            BY <1>4, <4>1
      <4>5. From(c) \in SUBSET Pairs /\ Body(i, c) \cap S \subseteq From(c) /\ Closed(From(c), step)
            BY <1>5, <4>1
      <4>6. /\ IsFiniteSet(T) /\ Cardinality(T) \in Nat /\ Cardinality(From(c)) \in Nat
            BY <4>5, PairsAreCounted
      <4>7. Cardinality(From(c)) <= Cardinality(T) /\ Cardinality(From(c)) # Cardinality(T)
            BY <4>1, <4>3, <4>4, <4>6, FS_Subset
      <4>8. Cardinality(From(c)) <= k - 1
            BY <2>1, <4>6, <4>7
      <4>9. Settled(k - 1)
            BY <1>8
      <4> QED  BY <3>1, <4>1, <4>5, <4>8, <4>9
    <3> QED  BY <3>1, <3>2, Below
  <2> QED  BY <2>1
<1>9. 0 .. N \subseteq K
      BY <1>1, <1>7, <1>8, EveryRound
<1>10. Settled(N)
      BY <1>1, <1>9
<1>11. /\ Closed(S, step) /\ Cardinality(S) <= N /\ Body(i, f) \cap S \subseteq S
  <2>1. Closed(S, step)
        BY <1>3 DEF Closed
  <2>2. Cardinality(S) <= N
        BY <1>1, PairsAreCounted
  <2> QED  BY <2>1, <2>2
<1> QED  BY <1>10, <1>11

(* Where no chain of substituted functions below the entry is longer than   *)
(* the bound, nothing is left to substitute at the bound.                   *)
LEMMA ShallowEnds ==
    ASSUME graph \in Programs, NEW i \in Images, Shallow(i), NEW n0 \in Nat, n0 >= MaxInlineDepth
    PROVE  Counts(i, callees, n0)[Entry] = Counts(i, callees, MaxInlineDepth)[Entry]
<1> DEFINE D == MaxInlineDepth
           Next1(T) == UNION {Body(i, g) \cap callees : g \in T}
           Levels(l) == [n \in 0 .. D + 1 |-> IF n = 0 THEN {Entry} ELSE Next1(l[n - 1])]
           level == CHOOSE l : l = Levels(l)
           step == [T \in SUBSET Pairs |-> Next1(T)]
<1>1. D \in Nat /\ D + 1 \in Nat /\ Entry \in Pairs
      BY RetryAssumption
<1>2. level[D + 1] = {}
      BY DEF Shallow
<1>3. \A T \in SUBSET Pairs : Next1(T) \in SUBSET Pairs
      BY BodiesAre
<1>4. \A T : \A g \in T : Body(i, g) \cap callees \subseteq Next1(T)
      OBVIOUS
<1> HIDE DEF Next1
<1>5. step \in [SUBSET Pairs -> SUBSET Pairs] /\ {Entry} \in SUBSET Pairs
      BY <1>1, <1>3
<1>6. PICK l \in [0 .. D + 1 -> SUBSET Pairs] : Rounds(l, D + 1, {Entry}, step)
      BY <1>1, <1>5, RoundsExist
<1>7. l = Levels(l)
  <2>1. ASSUME NEW n \in 1 .. D + 1
        PROVE  l[n] = Next1(l[n - 1])
    <3>1. l[n - 1] \in SUBSET Pairs
          BY <1>1
    <3> QED  BY <1>6, <3>1 DEF Rounds
  <2>2. \A n \in 0 .. D + 1 : l[n] = IF n = 0 THEN {Entry} ELSE Next1(l[n - 1])
        BY <1>1, <1>6, <2>1 DEF Rounds
  <2>3. l = [n \in 0 .. D + 1 |-> l[n]]
        OBVIOUS
  <2> QED  BY <2>2, <2>3
<1>8. level = Levels(level)
      BY <1>7
<1> HIDE DEF level
<1>9. level[0] = {Entry} /\ \A n \in 1 .. D + 1 : level[n] = Next1(level[n - 1])
  <2>1. \A n \in 0 .. D + 1 : level[n] = IF n = 0 THEN {Entry} ELSE Next1(level[n - 1])
        BY <1>8
  <2> QED  BY <1>1, <2>1
<1> HIDE DEF D
<1>10. \A n \in 0 .. D + 1 : level[n] \in SUBSET Pairs
  <2> DEFINE T == {n \in 0 .. D + 1 : level[n] \in SUBSET Pairs}
  <2>1. 0 \in T
        BY <1>1, <1>9
  <2>2. ASSUME NEW n \in 1 .. D + 1, n - 1 \in T
        PROVE  n \in T
    <3>1. level[n] = Next1(level[n - 1]) /\ n \in 0 .. D + 1
          BY <1>1, <1>9
    <3> QED  BY <1>3, <2>2, <3>1
  <2>3. 0 .. D + 1 \subseteq T
        BY <1>1, <2>1, <2>2, EveryRound
  <2> QED  BY <2>3
<1> DEFINE Settled(k) == \A g \in level[D - k], n, m \in Nat :
                            n >= k /\ m >= k
                            => Counts(i, callees, n)[g] = Counts(i, callees, m)[g]
           K == {k \in 0 .. D : Settled(k)}
<1>11. ASSUME NEW k \in 0 .. D, NEW g \in level[D - k]
       PROVE  g \in Pairs /\ Body(i, g) \cap callees \subseteq level[D - k + 1]
  <2>1. D - k \in 0 .. D + 1 /\ D - k + 1 \in 1 .. D + 1 /\ D - k + 1 - 1 = D - k
        BY <1>1
  <2>2. level[D - k + 1] = Next1(level[D - k])
        BY <1>9, <2>1
  <2> QED  BY <1>4, <1>10, <2>1, <2>2
<1>12. 0 \in K
  <2>1. ASSUME NEW g \in level[D - 0], NEW n \in Nat, NEW m \in Nat
        PROVE  Counts(i, callees, n)[g] = Counts(i, callees, m)[g]
    <3>1. 0 \in 0 .. D /\ D - 0 + 1 = D + 1
          BY <1>1
    <3>2. g \in Pairs /\ Body(i, g) \cap callees \subseteq level[D - 0 + 1]
          BY <1>11, <3>1
    <3>3. Body(i, g) \cap callees = {}
          BY <1>2, <3>1, <3>2
    <3> QED  BY <3>2, <3>3, NoneBelow
  <2> QED  BY <1>1, <2>1
<1>13. ASSUME NEW k \in 1 .. D, k - 1 \in K
       PROVE  k \in K
  <2>1. ASSUME NEW g \in level[D - k], NEW n \in Nat, NEW m \in Nat, n >= k, m >= k
        PROVE  Counts(i, callees, n)[g] = Counts(i, callees, m)[g]
    <3>1. /\ n \in Nat \ {0} /\ m \in Nat \ {0} /\ n - 1 \in Nat /\ m - 1 \in Nat
          /\ n - 1 >= k - 1 /\ m - 1 >= k - 1
          /\ k \in 0 .. D /\ D - k + 1 = D - (k - 1)
          BY <1>1, <2>1
    <3>2. g \in Pairs /\ Body(i, g) \cap callees \subseteq level[D - (k - 1)]
          BY <1>11, <3>1
    <3>3. ASSUME NEW c \in Body(i, g) \cap callees
          PROVE  Counts(i, callees, n - 1)[c] = Counts(i, callees, m - 1)[c]
      <4>1. Settled(k - 1)
            BY <1>13
      <4> QED  BY <3>1, <3>2, <4>1
    <3> QED  BY <3>1, <3>2, <3>3, Below
  <2>2. k \in 0 .. D
        BY <1>1
  <2> QED  BY <2>1, <2>2
<1>14. 0 .. D \subseteq K
      BY <1>1, <1>12, <1>13, EveryRound
<1>15. Settled(D)
      BY <1>1, <1>14
<1>16. Entry \in level[D - D]
      BY <1>1, <1>9
<1> QED  BY <1>1, <1>15, <1>16 DEF D

(* So the bound is not felt where one of the two holds. *)
LEMMA BoundIsNotFelt ==
    ASSUME graph \in Programs, NEW i \in Images, callees \in SUBSET Pairs, NoCycle(i, callees),
           Shallow(i)
    PROVE  Substituted(i) = Expanded(i, Entry, callees)
<1>1. N \in Nat /\ MaxInlineDepth \in Nat /\ Entry \in Pairs
      BY PairsAreCounted, RetryAssumption
<1>2. Counts(i, callees, N)[Entry] = Counts(i, callees, MaxInlineDepth)[Entry]
  <2>1. CASE N >= MaxInlineDepth
        BY <1>1, <2>1, ShallowEnds
  <2>2. CASE MaxInlineDepth >= N
        BY <1>1, <2>2, AcyclicEnds
  <2> QED  BY <1>1, <2>1, <2>2
<1> QED  BY <1>2 DEF Substituted, Expanded, N

-------------------------------------------------------------------------------
(* The retry                                                                *)

Choice ==
    /\ graph \in Graphs
    /\ callees \in SUBSET Pairs
    /\ \A i \in Images : NoCycle(i, callees)
    /\ callees # {} => ordinary = "differences" /\ resolved = Resolves(callees)

Stages == {"select", "mark", "decompile", "roll back", "done", "raised"}

(* Where the retry is tells which marks are set and what has been           *)
(* decompiled.                                                              *)
Stage ==
    /\ at \in Stages
    /\ at \in {"select", "done", "raised"} => Quiet
    /\ at = "select" => callees = {}
    /\ at = "mark" =>
         /\ DOMAIN marked = Images /\ marked["recomp"] = {} /\ marked["orig"] \in {{}, callees}
         /\ stale = {}
    /\ at \in {"decompile", "roll back"} => marked = [i \in Images |-> callees]

Decompiled ==
    /\ at \in {"select", "mark"} => DOMAIN code = {}
    /\ DOMAIN code \subseteq Images
    /\ \A i \in DOMAIN code : code[i] \in {None, callees}

RetryInv == Choice /\ Stage /\ Decompiled

LEMMA InitRetryInv == Init => RetryInv
<1> SUFFICES ASSUME Init PROVE RetryInv
    OBVIOUS
<1> QED  BY DEF Init, RetryInv, Choice, Stage, Stages, Decompiled, NoCycle, Quiet

(* Only what is chosen before it is marked is of interest to the choice.    *)
LEMMA ChoiceKept ==
    ASSUME Choice, UNCHANGED <<graph, ordinary, callees, resolved>>
    PROVE  Choice'
<1>1. ASSUME NEW i \in Images, NoCycle(i, callees)
      PROVE  NoCycle(i, callees)'
      BY <1>1 DEF NoCycle, Body
<1>2. Resolves(callees)' = Resolves(callees)
      BY DEF Resolves, Expanded, Counts, Body
<1> QED  BY <1>1, <1>2 DEF Choice

LEMMA SelectKeepsInv ==
    ASSUME RetryInv, Select
    PROVE  RetryInv'
<1>1. graph \in Programs
      BY RetryAssumption DEF RetryInv, Choice
<1>2. ForPair \in SUBSET Pairs /\ \A i \in Images : NoCycle(i, ForPair)
      BY <1>1, ForPairIsAcyclic
<1>3. \A i \in Images : NoCycle(i, {})
      BY DEF NoCycle
<1>4. callees' \in SUBSET Pairs /\ \A i \in Images : NoCycle(i, callees')
      BY <1>2, <1>3 DEF Select
<1>5. \A i \in Images : NoCycle(i, callees)'
  <2>1. graph' = graph
        BY DEF Select
  <2>2. ASSUME NEW i \in Images, NoCycle(i, callees')
        PROVE  NoCycle(i, callees)'
        BY <2>1, <2>2 DEF NoCycle, Body
  <2> QED  BY <1>4, <2>2
<1>6. Resolves(callees)' = Resolves(callees')
      BY DEF Resolves, Expanded, Counts, Body, Select
<1>7. Choice'
  <2>1. graph' \in Graphs
        BY DEF RetryInv, Choice, Select
  <2>2. callees' # {} => ordinary' = "differences" /\ resolved' = Resolves(callees)'
    <3> SUFFICES ASSUME callees' # {}
                 PROVE  ordinary' = "differences" /\ resolved' = Resolves(callees)'
        OBVIOUS
    <3>1. ordinary = "differences" /\ ordinary' = ordinary
          BY DEF Select
    <3>2. resolved' = Resolves(callees')
      <4>1. resolved' = (callees' # {} => Resolves(callees'))
            BY DEF Select
      <4>2. Resolves(callees') \in BOOLEAN
            BY DEF Resolves
      <4> QED  BY <4>1, <4>2
    <3> QED  BY <1>6, <3>1, <3>2
  <2> QED  BY <1>4, <1>5, <2>1, <2>2 DEF Choice
<1>8. Stage'
      BY DEF RetryInv, Stage, Stages, Select, Quiet, Images
<1>9. Decompiled'
      BY DEF RetryInv, Stage, Decompiled, Select
<1> QED  BY <1>7, <1>8, <1>9 DEF RetryInv

LEMMA MarkKeepsInv ==
    ASSUME RetryInv, Mark
    PROVE  RetryInv'
<1>1. PICK i \in Images :
        /\ marked[i] = {} /\ (i = "recomp" => marked["orig"] # {})
        /\ marked' = [marked EXCEPT ![i] = callees]
        /\ at' = IF i = "recomp" THEN "decompile" ELSE "mark"
      BY DEF Mark
<1>2. at = "mark" /\ UNCHANGED <<graph, ordinary, callees, resolved, stale, code>>
      BY DEF Mark
<1>3. Choice'
      BY <1>2, ChoiceKept DEF RetryInv
<1>4. Stage'
  <2>1. /\ DOMAIN marked = Images /\ marked["recomp"] = {} /\ marked["orig"] \in {{}, callees}
        /\ stale = {}
        BY <1>2 DEF RetryInv, Stage
  <2>2. CASE i = "orig"
        BY <1>1, <1>2, <2>1, <2>2 DEF Stage, Stages, Images
  <2>3. CASE i = "recomp"
    <3>1. marked' = [j \in Images |-> callees]
          BY <1>1, <2>1, <2>3 DEF Images
    <3> QED  BY <1>1, <1>2, <2>3, <3>1 DEF Stage, Stages
  <2> QED  BY <2>2, <2>3 DEF Images
<1>5. Decompiled'
      BY <1>1, <1>2 DEF RetryInv, Decompiled
<1> QED  BY <1>3, <1>4, <1>5 DEF RetryInv

LEMMA DecompileKeepsInv ==
    ASSUME RetryInv, Decompile
    PROVE  RetryInv'
<1>1. PICK i \in Images \ DOMAIN code, failed \in BOOLEAN :
        /\ code' = [j \in DOMAIN code \cup {i} |->
                      IF j # i THEN code[j] ELSE IF failed THEN None ELSE marked[i]]
        /\ at' = IF i = "recomp" THEN "roll back" ELSE "decompile"
      BY DEF Decompile
<1>2. at = "decompile" /\ UNCHANGED <<graph, ordinary, callees, resolved, marked>>
      BY DEF Decompile
<1>3. Choice'
      BY <1>2, ChoiceKept DEF RetryInv
<1>4. Stage'
      BY <1>1, <1>2 DEF RetryInv, Stage, Stages
<1>5. Decompiled'
  <2>1. marked[i] = callees
        BY <1>2 DEF RetryInv, Stage
  <2>2. DOMAIN code' = DOMAIN code \cup {i} /\ DOMAIN code' \subseteq Images
        BY <1>1 DEF RetryInv, Decompiled
  <2>3. ASSUME NEW j \in DOMAIN code'
        PROVE  code'[j] \in {None, callees'}
        BY <1>1, <1>2, <2>1, <2>2 DEF RetryInv, Decompiled
  <2> QED  BY <1>1, <2>2, <2>3 DEF Decompiled
<1> QED  BY <1>3, <1>4, <1>5 DEF RetryInv

LEMMA RollBackKeepsInv ==
    ASSUME RetryInv, NEW next \in {"done", "raised"}, RollBack(next)
    PROVE  RetryInv'
<1>1. Choice'
      BY ChoiceKept DEF RetryInv, RollBack
<1>2. Stage'
      BY DEF RollBack, Stage, Stages, Quiet
<1>3. Decompiled'
      BY DEF RetryInv, RollBack, Decompiled
<1> QED  BY <1>1, <1>2, <1>3 DEF RetryInv

LEMMA StutterKeepsRetryInv ==
    ASSUME RetryInv, UNCHANGED vars
    PROVE  RetryInv'
<1>1. Choice'
      BY ChoiceKept DEF RetryInv, vars
<1>2. Stage' /\ Decompiled'
      BY DEF RetryInv, vars, Stage, Quiet, Decompiled
<1> QED  BY <1>1, <1>2 DEF RetryInv

(* Where a retry stands determines the marks its programs carry, and what   *)
(* it substitutes are paired functions none of which contains itself.       *)
THEOREM Invariance == Spec => []RetryInv
<1>1. RetryInv /\ [Next]_vars => RetryInv'
  <2> SUFFICES ASSUME RetryInv, [Next]_vars PROVE RetryInv'
      OBVIOUS
  <2>1. CASE Select
        BY <2>1, SelectKeepsInv
  <2>2. CASE Mark
        BY <2>2, MarkKeepsInv
  <2>3. CASE Decompile
        BY <2>3, DecompileKeepsInv
  <2>4. CASE Finish
        BY <2>4, RollBackKeepsInv DEF Finish
  <2>5. CASE Raise
        BY <2>5, RollBackKeepsInv DEF Raise
  <2>6. CASE UNCHANGED vars
        BY <2>6, StutterKeepsRetryInv
  <2> QED  BY <2>1, <2>2, <2>3, <2>4, <2>5, <2>6 DEF Next
<1> QED  BY <1>1, InitRetryInv, PTL DEF Spec

(* What overrules the ordinary pass has both its texts. *)
LEMMA OverrulesWithBoth ==
    ASSUME RetryInv, at = "done", NEW inline \in InlineOutcomes,
           SelectsInline(ordinary, inline, resolved)
    PROVE  callees # {} /\ \A i \in Images : code[i] = callees
<1>1. inline # None /\ inline # "analysis failed"
      BY DEF SelectsInline
<1>2. callees # {} /\ DOMAIN code = Images /\ \A i \in DOMAIN code : code[i] # None
      BY <1>1 DEF InlineOutcomes
<1> QED  BY <1>2 DEF RetryInv, Decompiled

(* A retry that overrules a difference compares what it says it compares:   *)
(* both bodies with the same callees substituted, in neither of which the   *)
(* substitution runs in circles, and which call the same functions          *)
(* afterwards unless it was cut short; and it leaves nothing behind.        *)
THEOREM RetrySound == Spec => []RetryIsSound
<1>1. RetryInv => RetryIsSound
  <2> SUFFICES ASSUME RetryInv PROVE RetryIsSound
      OBVIOUS
  <2>1. at \in {"select", "done", "raised"} => Quiet
        BY DEF RetryInv, Stage
  <2>2. ASSUME at = "done", NEW inline \in InlineOutcomes,
               SelectsInline(ordinary, inline, resolved)
        PROVE  /\ ordinary = "differences"
               /\ \A i \in Images : code[i] = callees /\ Acyclic(i)
               /\ (\A i \in Images : Shallow(i)) => Substituted("orig") = Substituted("recomp")
    <3>1. graph \in Programs
          BY RetryAssumption DEF RetryInv, Choice
    <3>2. callees # {} /\ \A i \in Images : code[i] = callees
          BY <2>2, OverrulesWithBoth
    <3>3. \A i \in Images : NoCycle(i, callees)
          BY DEF RetryInv, Choice
    <3>4. \A i \in Images : Acyclic(i)
          BY <3>3 DEF NoCycle, Acyclic
    <3>5. ordinary = "differences" /\ resolved
          BY <2>2 DEF SelectsInline
    <3>6. Expanded("orig", Entry, callees) = Expanded("recomp", Entry, callees)
          BY <3>2, <3>5 DEF RetryInv, Choice, Resolves
    <3>7. ASSUME \A i \in Images : Shallow(i)
          PROVE  Substituted("orig") = Substituted("recomp")
      <4>1. \A i \in Images : Substituted(i) = Expanded(i, Entry, callees)
            BY <3>1, <3>3, <3>7, BoundIsNotFelt DEF RetryInv, Choice
      <4> QED  BY <3>6, <4>1 DEF Images
    <3> QED  BY <3>2, <3>4, <3>5, <3>7
  <2> QED  BY <2>1, <2>2 DEF RetryIsSound
<1> QED  BY <1>1, Invariance, PTL

-------------------------------------------------------------------------------
(* Names of pairs tell pairs apart, and an unpaired thing has none of them  *)
(* but where it is at the original address of the pair.                     *)
LEMMA CanonicalIsInjective ==
    ASSUME NEW m, NEW body, WellFormed(m, body), NEW p \in m.pairs, NEW q \in m.pairs,
           CanonicalName(m, p) = CanonicalName(m, q)
    PROVE  p = q
<1>1. CASE p.name = q.name /\ CanonicalName(m, p) = <<p.name>>
  <2>1. CanonicalName(m, q) # <<q.name, q.orig>>
        BY <1>1, Len(<<p.name>>) = 1, Len(<<q.name, q.orig>>) = 2
  <2> QED  BY <1>1, <2>1 DEF CanonicalName
<1>2. CASE CanonicalName(m, p) = <<p.name>>
  <2>1. CanonicalName(m, q) # <<q.name, q.orig>>
        BY <1>2, Len(<<p.name>>) = 1, Len(<<q.name, q.orig>>) = 2
  <2>2. <<p.name>> = <<q.name>>
        BY <1>2, <2>1 DEF CanonicalName
  <2> QED  BY <1>1, <1>2, <2>2
<1>3. CASE CanonicalName(m, p) = <<p.name, p.orig>>
  <2>1. CanonicalName(m, q) # <<q.name>>
        BY <1>3, Len(<<q.name>>) = 1, Len(<<p.name, p.orig>>) = 2
  <2>2. <<p.name, p.orig>> = <<q.name, q.orig>>
        BY <1>3, <2>1 DEF CanonicalName
  <2> QED  BY <2>2 DEF WellFormed
<1> QED  BY <1>2, <1>3 DEF CanonicalName

LEMMA UnpairedHasItsOwn ==
    ASSUME NEW m, NEW u \in m.unpaired, NEW p \in m.pairs, UnpairedName(m, u) = CanonicalName(m, p)
    PROVE  u.at = p.orig /\ UnpairedName(m, u) = <<p.name, u.at>>
<1>1. UnpairedName(m, u) = <<u.name, u.at>>
      BY DEF UnpairedName
<1>2. CanonicalName(m, p) # <<p.name>>
      BY <1>1, Len(<<p.name>>) = 1, Len(<<u.name, u.at>>) = 2
<1>3. <<u.name, u.at>> = <<p.name, p.orig>>
      BY <1>1, <1>2 DEF CanonicalName
<1> QED  BY <1>1, <1>3

-------------------------------------------------------------------------------
(* How an address comes by its name, after _apply_names and after           *)
(* name_identical_code: from a pair it stands for, as the unpaired thing it *)
(* is, or from its bytes.                                                   *)
OfPair(m, body, image, a, name) ==
    \E p \in StandsFor(m, body, image, a) : p \in m.pairs /\ name = CanonicalName(m, p)

OfItself(m, body, image, a, name) ==
    /\ StandsFor(m, body, image, a) = {}
    /\ \E u \in m.unpaired : u.image = image /\ u.at = a /\ name = UnpairedName(m, u)

OfBytes(body, image, a, name) ==
    a \in DOMAIN body[image] /\ name = <<"ICF", body[image][a]>>

LEMMA PairsHaveTheirs ==
    ASSUME NEW m, NEW body, WellFormed(m, body), NEW image \in Sides, NEW p \in Named(m)
    PROVE  /\ At(p, image) \in DOMAIN Applied(m, image)
           /\ Applied(m, image)[At(p, image)] = CanonicalName(m, p)
<1> DEFINE x == At(p, image)
<1>1. p \in m.pairs
      BY DEF Named
<1>2. x \notin DOMAIN AliasNames(m, image) /\ x \notin DOMAIN OwnNames(m, image)
      BY <1>1 DEF WellFormed, AliasNames, OwnNames, Aliased, Alone
<1>3. x \in DOMAIN PairNames(m, image)
      BY DEF PairNames
<1>4. \A q \in Named(m) : At(q, image) = x => q = p
      BY <1>1 DEF WellFormed, Named, At, Sides
<1>5. PairNames(m, image)[x] = CanonicalName(m, p)
      BY <1>4 DEF PairNames
<1> QED  BY <1>2, <1>3, <1>5 DEF Applied, Over

LEMMA AppliedComesFrom ==
    ASSUME NEW m, NEW body, WellFormed(m, body), NEW image \in Sides, NEW a \in DOMAIN Applied(m, image)
    PROVE  \/ OfPair(m, body, image, a, Applied(m, image)[a])
           \/ /\ \E u \in m.unpaired : u.image = image /\ u.at = a /\ Applied(m, image)[a] = UnpairedName(m, u)
              /\ \A p \in m.pairs : At(p, image) # a
              /\ \A x \in m.aliases : x.image = image => x.at # a
<1>1. CASE a \in DOMAIN AliasNames(m, image)
  <2> DEFINE x == CHOOSE y \in Aliased(m, image) : y.at = a
             p == CHOOSE q \in m.pairs : q.orig = x.of
  <2>1. x \in Aliased(m, image) /\ x.at = a
        BY <1>1 DEF AliasNames
  <2>2. p \in m.pairs /\ p.orig = x.of
        BY <2>1 DEF Aliased
  <2>3. Applied(m, image)[a] = CanonicalName(m, p)
        BY <1>1 DEF Applied, Over, AliasNames
  <2>4. p \in StandsFor(m, body, image, a)
        BY <2>1, <2>2 DEF StandsFor, Aliased
  <2> QED  BY <2>2, <2>3, <2>4 DEF OfPair
<1>2. CASE a \notin DOMAIN AliasNames(m, image) /\ a \in DOMAIN OwnNames(m, image)
  <2> DEFINE u == CHOOSE y \in Alone(m, image) : y.at = a
  <2>1. u \in Alone(m, image) /\ u.at = a
        BY <1>2 DEF OwnNames
  <2>2. Applied(m, image)[a] = UnpairedName(m, u)
        BY <1>2 DEF Applied, Over, OwnNames
  <2>3. u \in m.unpaired /\ u.image = image
        BY <2>1 DEF Alone
  <2> QED  BY <2>1, <2>2, <2>3 DEF WellFormed
<1>3. CASE a \notin DOMAIN AliasNames(m, image) /\ a \notin DOMAIN OwnNames(m, image)
  <2>1. a \in DOMAIN PairNames(m, image)
        BY <1>3 DEF Applied, Over
  <2>2. PICK p \in Named(m) : At(p, image) = a
        BY <2>1 DEF PairNames
  <2>3. Applied(m, image)[a] = CanonicalName(m, p)
        BY <2>2, PairsHaveTheirs
  <2>4. p \in m.pairs /\ p \in StandsFor(m, body, image, a)
        BY <2>2 DEF StandsFor, Named
  <2> QED  BY <2>3, <2>4 DEF OfPair
<1> QED  BY <1>1, <1>2, <1>3

-------------------------------------------------------------------------------
(* What name_identical_code renames, and to what. *)
LEMMA RenamedAre ==
    ASSUME NEW m, NEW body, NEW image, NEW a
    PROVE  a \in DOMAIN IdenticalCode(m, body, image) <=>
             /\ a \in DOMAIN body[image]
             /\ \A i \in Sides : body[image][a] \in Bodies(body, i)
             /\ a \in Entries(m, image) =>
                  /\ Cardinality(SameBytes(m, body, body[image][a])) > 1
                  /\ \E p \in SameBytes(m, body, body[image][a]) : At(p, image) = a
BY DEF IdenticalCode

LEMMA RenamedTo ==
    ASSUME NEW m, NEW body, NEW image, NEW a \in DOMAIN IdenticalCode(m, body, image),
           NEW S, S = SameBytes(m, body, body[image][a])
    PROVE  /\ Cardinality(S) = 1 => \E p \in S : IdenticalCode(m, body, image)[a] = CanonicalName(m, p)
           /\ Cardinality(S) # 1 => IdenticalCode(m, body, image)[a] = <<"ICF", body[image][a]>>
<1>1. IdenticalCode(m, body, image)[a] =
        IF Cardinality(S) = 1 THEN CanonicalName(m, CHOOSE p \in S : TRUE) ELSE <<"ICF", body[image][a]>>
      BY DEF IdenticalCode
<1>2. ASSUME Cardinality(S) = 1 PROVE \E p \in S : p = CHOOSE q \in S : TRUE
  <2>1. S # {}
        BY <1>2, FS_EmptySet
  <2> QED  BY <2>1
<1> QED  BY <1>1, <1>2

LEMMA BytesInBoth ==
    ASSUME NEW m, NEW body, NEW bytes, NEW p \in SameBytes(m, body, bytes), NEW image \in Sides
    PROVE  /\ p \in m.pairs /\ p.kind \in FunctionKinds
           /\ At(p, image) \in DOMAIN body[image] /\ body[image][At(p, image)] = bytes
           /\ \A i \in Sides : bytes \in Bodies(body, i)
BY DEF SameBytes, Bodies, At, Sides

LEMMA RenamedComesFrom ==
    ASSUME NEW m, NEW body, WellFormed(m, body), NEW image \in Sides,
           NEW a \in DOMAIN IdenticalCode(m, body, image)
    PROVE  \/ OfPair(m, body, image, a, IdenticalCode(m, body, image)[a])
           \/ OfBytes(body, image, a, IdenticalCode(m, body, image)[a])
<1> DEFINE S == SameBytes(m, body, body[image][a])
<1>1. a \in DOMAIN body[image]
      BY RenamedAre
<1>2. CASE Cardinality(S) = 1
  <2>1. PICK p \in S : IdenticalCode(m, body, image)[a] = CanonicalName(m, p)
        BY <1>2, RenamedTo
  <2>2. p \in m.pairs /\ p \in StandsFor(m, body, image, a)
        BY <1>1 DEF SameBytes, StandsFor
  <2> QED  BY <2>1, <2>2 DEF OfPair
<1>3. CASE Cardinality(S) # 1
      BY <1>1, <1>3, RenamedTo DEF OfBytes
<1> QED  BY <1>2, <1>3

LEMMA ShownComesFrom ==
    ASSUME NEW m, NEW body, WellFormed(m, body), NEW image \in Sides, NEW a \in DOMAIN Shown(m, body, image)
    PROVE  \/ OfPair(m, body, image, a, Shown(m, body, image)[a])
           \/ OfItself(m, body, image, a, Shown(m, body, image)[a])
           \/ OfBytes(body, image, a, Shown(m, body, image)[a])
<1>1. CASE a \in DOMAIN IdenticalCode(m, body, image)
      BY <1>1, RenamedComesFrom DEF Shown, Over
<1>2. CASE a \notin DOMAIN IdenticalCode(m, body, image)
  <2>1. a \in DOMAIN Applied(m, image) /\ Shown(m, body, image)[a] = Applied(m, image)[a]
        BY <1>2 DEF Shown, Over
  <2>2. ASSUME NEW u \in m.unpaired, u.image = image, u.at = a, Applied(m, image)[a] = UnpairedName(m, u),
               \A p \in m.pairs : At(p, image) # a,
               \A x \in m.aliases : x.image = image => x.at # a
        PROVE  OfItself(m, body, image, a, Shown(m, body, image)[a])
    <3>1. a \notin Entries(m, image)
          BY <2>2 DEF Entries
    <3>2. ASSUME a \in DOMAIN body[image], NEW p \in SameBytes(m, body, body[image][a])
          PROVE  FALSE
      <4>1. \A i \in Sides : body[image][a] \in Bodies(body, i)
            BY <3>2, BytesInBoth
      <4> QED  BY <1>2, <3>1, <3>2, <4>1, RenamedAre
    <3>3. StandsFor(m, body, image, a) = {}
          BY <2>2, <3>2 DEF StandsFor
    <3> QED  BY <2>1, <2>2, <3>3 DEF OfItself
  <2> QED  BY <2>1, <2>2, AppliedComesFrom
<1> QED  BY <1>1, <1>2

-------------------------------------------------------------------------------
(* Whether a pair is renamed by its bytes, and to what, is the same in both *)
(* programs: it takes two bodies alike, and another pair that has them.     *)
LEMMA PairIsRenamedAlike ==
    ASSUME NEW m, NEW body, WellFormed(m, body), NEW image \in Sides, NEW p \in m.pairs
    PROVE  LET again(bytes) == p \in SameBytes(m, body, bytes) /\ Cardinality(SameBytes(m, body, bytes)) > 1
           IN /\ At(p, image) \in DOMAIN IdenticalCode(m, body, image) <=> \E bytes : again(bytes)
              /\ \A bytes : again(bytes) => IdenticalCode(m, body, image)[At(p, image)] = <<"ICF", bytes>>
<1> DEFINE again(bytes) == p \in SameBytes(m, body, bytes) /\ Cardinality(SameBytes(m, body, bytes)) > 1
           x == At(p, image)
<1>1. ASSUME x \in DOMAIN IdenticalCode(m, body, image)
      PROVE  again(body[image][x])
  <2>1. x \in DOMAIN body[image]
        BY <1>1, RenamedAre
  <2>2. p.kind \in FunctionKinds
        BY <2>1 DEF WellFormed
  <2>3. x \in Entries(m, image)
        BY <2>2 DEF Entries
  <2>4. Cardinality(SameBytes(m, body, body[image][x])) > 1
        /\ \E q \in SameBytes(m, body, body[image][x]) : At(q, image) = x
        BY <1>1, <2>3, RenamedAre
  <2>5. PICK q \in SameBytes(m, body, body[image][x]) : At(q, image) = x
        BY <2>4
  <2>6. q = p
        BY <2>5 DEF SameBytes, WellFormed, At, Sides
  <2> QED  BY <2>4, <2>6
<1>2. ASSUME NEW bytes, again(bytes)
      PROVE  /\ x \in DOMAIN IdenticalCode(m, body, image)
             /\ IdenticalCode(m, body, image)[x] = <<"ICF", bytes>>
  <2>1. x \in DOMAIN body[image] /\ body[image][x] = bytes /\ \A i \in Sides : bytes \in Bodies(body, i)
        BY <1>2, BytesInBoth
  <2>2. x \in DOMAIN IdenticalCode(m, body, image)
        BY <1>2, <2>1, RenamedAre
  <2>3. Cardinality(SameBytes(m, body, bytes)) # 1
        BY <1>2
  <2> QED  BY <2>1, <2>2, <2>3, RenamedTo
<1> QED  BY <1>1, <1>2

LEMMA PairsAreShownAlike ==
    ASSUME NEW m, NEW body, WellFormed(m, body), NEW p \in Named(m)
    PROVE  Shown(m, body, "orig")[p.orig] = Shown(m, body, "recomp")[p.recomp]
<1> DEFINE again(bytes) == p \in SameBytes(m, body, bytes) /\ Cardinality(SameBytes(m, body, bytes)) > 1
<1>1. p \in m.pairs /\ "orig" \in Sides /\ "recomp" \in Sides
      BY DEF Named, Sides
<1>2. At(p, "orig") = p.orig /\ At(p, "recomp") = p.recomp
      BY DEF At
<1>3. CASE \E bytes : again(bytes)
  <2>1. PICK bytes : again(bytes)
        BY <1>3
  <2>2. \A image \in Sides : /\ At(p, image) \in DOMAIN IdenticalCode(m, body, image)
                             /\ IdenticalCode(m, body, image)[At(p, image)] = <<"ICF", bytes>>
        BY <1>1, <2>1, PairIsRenamedAlike
  <2>3. \A image \in Sides : Shown(m, body, image)[At(p, image)] = <<"ICF", bytes>>
        BY <2>2 DEF Shown, Over
  <2> QED  BY <1>1, <1>2, <2>3
<1>4. CASE ~ \E bytes : again(bytes)
  <2>1. \A image \in Sides : At(p, image) \notin DOMAIN IdenticalCode(m, body, image)
        BY <1>1, <1>4, PairIsRenamedAlike
  <2>2. \A image \in Sides : Shown(m, body, image)[At(p, image)] = CanonicalName(m, p)
        BY <2>1, PairsHaveTheirs DEF Shown, Over
  <2> QED  BY <1>1, <1>2, <2>2
<1> QED  BY <1>3, <1>4

LEMMA BytesAreNoOthersName ==
    ASSUME NEW m, NEW body, WellFormed(m, body), NEW bytes
    PROVE  /\ \A p \in m.pairs : CanonicalName(m, p) # <<"ICF", bytes>>
           /\ \A u \in m.unpaired : UnpairedName(m, u) # <<"ICF", bytes>>
<1>1. \A x \in m.pairs \cup m.unpaired : x.name # "ICF"
      BY DEF WellFormed
<1>2. \A x, y : <<x>> # <<"ICF", bytes>> /\ (<<x, y>> = <<"ICF", bytes>> => x = "ICF")
  <2> TAKE x, y
  <2>1. <<x>> # <<"ICF", bytes>>
        BY Len(<<x>>) = 1, Len(<<"ICF", bytes>>) = 2
  <2> QED  BY <2>1
<1>3. ASSUME NEW p \in m.pairs PROVE CanonicalName(m, p) # <<"ICF", bytes>>
      BY <1>1, <1>2 DEF CanonicalName
<1>4. ASSUME NEW u \in m.unpaired PROVE UnpairedName(m, u) # <<"ICF", bytes>>
      BY <1>1, <1>2 DEF UnpairedName
<1> QED  BY <1>3, <1>4

(* The text of the two programs is compared under names that correspond: a  *)
(* pair has one name in both, and of two things with one name both are the  *)
(* same pair or stand for it, or have the same bytes, or are unpaired and   *)
(* called alike in the source; the one exception is an unpaired thing at an *)
(* address that the other program has for a pair of its name.  For every    *)
(* manifest and every set of small functions.                               *)
THEOREM NamesTell == \A m, body : WellFormed(m, body) => NamesCorrespond(m, body)
<1> SUFFICES ASSUME NEW m, NEW body, WellFormed(m, body)
             PROVE  NamesCorrespond(m, body)
    OBVIOUS
<1> DEFINE orig == Shown(m, body, "orig")
           recomp == Shown(m, body, "recomp")
           Alike(a, b) == 
             \/ StandsFor(m, body, "orig", a) \cap StandsFor(m, body, "recomp", b) # {}
             \/ SameBody(body, a, b)
             \/ StandsFor(m, body, "orig", a) = {} /\ StandsFor(m, body, "recomp", b) = {}
             \/ StandsFor(m, body, "recomp", b) = {} /\ \E p \in m.pairs : p.orig = b /\ orig[a] = <<p.name, b>>
<1>1. \A p \in Named(m) : orig[p.orig] = recomp[p.recomp]
      BY PairsAreShownAlike
<1>2. ASSUME NEW a \in DOMAIN orig, NEW b \in DOMAIN recomp, orig[a] = recomp[b]
      PROVE  Alike(a, b)
  <2>0. "orig" \in Sides /\ "recomp" \in Sides
        BY DEF Sides
  <2>1. \/ OfPair(m, body, "orig", a, orig[a]) \/ OfItself(m, body, "orig", a, orig[a])
        \/ OfBytes(body, "orig", a, orig[a])
        BY <2>0, ShownComesFrom
  <2>2. \/ OfPair(m, body, "recomp", b, orig[a]) \/ OfItself(m, body, "recomp", b, orig[a])
        \/ OfBytes(body, "recomp", b, orig[a])
        BY <1>2, <2>0, ShownComesFrom
  <2>3. CASE OfPair(m, body, "orig", a, orig[a]) /\ OfPair(m, body, "recomp", b, orig[a])
        BY <2>3, CanonicalIsInjective DEF OfPair
  <2>4. CASE OfPair(m, body, "orig", a, orig[a]) /\ OfItself(m, body, "recomp", b, orig[a])
    <3>1. PICK p \in m.pairs : orig[a] = CanonicalName(m, p)
          BY <2>4 DEF OfPair
    <3>2. PICK u \in m.unpaired : u.at = b /\ orig[a] = UnpairedName(m, u)
          BY <2>4 DEF OfItself
    <3>3. u.at = p.orig /\ UnpairedName(m, u) = <<p.name, u.at>>
          BY <3>1, <3>2, UnpairedHasItsOwn
    <3> QED  BY <2>4, <3>2, <3>3 DEF OfItself
  <2>5. CASE OfItself(m, body, "orig", a, orig[a]) /\ OfPair(m, body, "recomp", b, orig[a])
    <3>1. PICK p \in m.pairs : orig[a] = CanonicalName(m, p)
          BY <2>5 DEF OfPair
    <3>2. PICK u \in m.unpaired : u.image = "orig" /\ u.at = a /\ orig[a] = UnpairedName(m, u)
          BY <2>5 DEF OfItself
    <3>3. u.at = p.orig
          BY <3>1, <3>2, UnpairedHasItsOwn
    <3> QED  BY <2>0, <3>2, <3>3 DEF WellFormed, At
  <2>6. CASE OfItself(m, body, "orig", a, orig[a]) /\ OfItself(m, body, "recomp", b, orig[a])
        BY <2>6 DEF OfItself
  <2>7. CASE OfBytes(body, "orig", a, orig[a]) /\ OfBytes(body, "recomp", b, orig[a])
        BY <2>7 DEF OfBytes, SameBody
  <2>8. CASE \/ OfBytes(body, "orig", a, orig[a]) /\ ~OfBytes(body, "recomp", b, orig[a])
             \/ ~OfBytes(body, "orig", a, orig[a]) /\ OfBytes(body, "recomp", b, orig[a])
    <3>1. \/ \E p \in m.pairs : orig[a] = CanonicalName(m, p)
          \/ \E u \in m.unpaired : orig[a] = UnpairedName(m, u)
          BY <2>1, <2>2, <2>8 DEF OfPair, OfItself
    <3>2. PICK bytes : orig[a] = <<"ICF", bytes>>
          BY <2>8 DEF OfBytes
    <3> QED  BY <3>1, <3>2, BytesAreNoOthersName
  <2> QED  BY <2>1, <2>2, <2>3, <2>4, <2>5, <2>6, <2>7, <2>8
<1> QED  BY <1>1, <1>2 DEF NamesCorrespond

-------------------------------------------------------------------------------
(* Where sections do not overlap, an address has one section and offset, at *)
(* which the file's bytes are read and what is past them is zero.           *)
NoneIsNothing ==
    /\ \A x, y : None # <<x, y>> /\ None # [view |-> x, left |-> y]
    /\ None \notin Seq(Nat)

Offset(i, a) == a - (Base + Sections[i].start)
SpanOf(i) == Most(Len(Sections[i].raw), Sections[i].size)
ByteAt(i, o) == IF o < Len(Sections[i].raw) THEN Sections[i].raw[o + 1] ELSE 0

LEMMA SectionsAre ==
    ASSUME Loadable, NEW i \in DOMAIN Sections
    PROVE  /\ Base \in Nat /\ i \in Nat
           /\ Sections[i].start \in Nat /\ Sections[i].size \in Nat /\ Sections[i].raw \in Seq(Nat)
           /\ Len(Sections[i].raw) \in Nat /\ SpanOf(i) \in Nat
           /\ Len(Sections[i].raw) <= SpanOf(i) /\ Sections[i].size <= SpanOf(i)
           /\ VaddrRange(i) = Base + Sections[i].start .. Base + Sections[i].start + SpanOf(i) - 1
<1>1. /\ Base \in Nat /\ i \in Nat
      /\ Sections[i].start \in Nat /\ Sections[i].size \in Nat /\ Sections[i].raw \in Seq(Nat)
      BY DEF Loadable
<1>2. Len(Sections[i].raw) \in Nat
      BY <1>1
<1> QED  BY <1>1, <1>2 DEF SpanOf, Most, VaddrRange

LEMMA PlaceIs ==
    ASSUME Loadable, Apart, NEW a \in Int, NEW i \in SectionsAt(a)
    PROVE  /\ i \in DOMAIN Sections /\ SectionsAt(a) = {i} /\ SectionAt(a) = i
           /\ Offset(i, a) \in 0 .. SpanOf(i) - 1
           /\ RelativeAddr(a) = <<i, Offset(i, a)>>
           /\ Seek(a) = [view |-> SubSeq(Sections[i].raw, Offset(i, a) + 1, Len(Sections[i].raw)),
                         left |-> SpanOf(i) - Offset(i, a)]
<1>1. i \in DOMAIN Sections /\ a \in VaddrRange(i)
      BY DEF SectionsAt
<1>2. SectionsAt(a) = {i}
      BY <1>1 DEF SectionsAt, Apart
<1>3. i \in Nat /\ Base \in Nat /\ Sections[i].start \in Nat /\ SpanOf(i) \in Nat
      BY <1>1, SectionsAre
<1>4. SectionAt(a) = i
      BY <1>2, <1>3 DEF SectionAt
<1>5. Offset(i, a) \in 0 .. SpanOf(i) - 1
      BY <1>1, <1>3, SectionsAre DEF Offset
<1> QED  BY <1>1, <1>2, <1>4, <1>5 DEF RelativeAddr, Seek, Offset, SpanOf

LEMMA ViewIs ==
    ASSUME Loadable, NEW i \in DOMAIN Sections, NEW o \in Nat,
           NEW v, v = SubSeq(Sections[i].raw, o + 1, Len(Sections[i].raw))
    PROVE  /\ v \in Seq(Nat) /\ Len(v) \in Nat
           /\ Len(v) = IF o < Len(Sections[i].raw) THEN Len(Sections[i].raw) - o ELSE 0
           /\ \A n \in 1 .. Len(v) : v[n] = Sections[i].raw[o + n]
<1> DEFINE raw == Sections[i].raw
<1>1. raw \in Seq(Nat) /\ Len(raw) \in Nat
      BY SectionsAre
<1>2. \A n \in o + 1 .. Len(raw) : raw[n] \in Nat
      BY <1>1
<1>3. /\ v \in Seq(Nat)
      /\ Len(v) = IF o + 1 <= Len(raw) THEN Len(raw) - (o + 1) + 1 ELSE 0
      /\ \A n \in 1 .. Len(raw) - (o + 1) + 1 : v[n] = raw[(o + 1) + n - 1]
      BY <1>1, <1>2, SubSeqProperties
<1> QED  BY <1>1, <1>3

LEMMA SeekIs ==
    ASSUME Loadable, Apart, NoneIsNothing, NEW a \in Int, NEW i \in SectionsAt(a),
           NEW o, o = Offset(i, a), NEW v, v = Seek(a).view
    PROVE  /\ i \in DOMAIN Sections /\ o \in Nat /\ o \in 0 .. SpanOf(i) - 1
           /\ SpanOf(i) \in Nat /\ Len(Sections[i].raw) \in Nat /\ Len(Sections[i].raw) <= SpanOf(i)
           /\ Seek(a) # None /\ Seek(a).left = SpanOf(i) - o
           /\ v \in Seq(Nat) /\ Len(v) \in Nat
           /\ Len(v) = IF o < Len(Sections[i].raw) THEN Len(Sections[i].raw) - o ELSE 0
           /\ \A n \in 1 .. Len(v) : v[n] = Sections[i].raw[o + n]
<1> DEFINE w == SubSeq(Sections[i].raw, o + 1, Len(Sections[i].raw))
<1>1. /\ i \in DOMAIN Sections /\ o \in 0 .. SpanOf(i) - 1
      /\ Seek(a) = [view |-> w, left |-> SpanOf(i) - o]
      BY PlaceIs
<1>2. SpanOf(i) \in Nat /\ Len(Sections[i].raw) \in Nat /\ Len(Sections[i].raw) <= SpanOf(i)
      BY <1>1, SectionsAre
<1> HIDE DEF w
<1>3. v = w /\ Seek(a).left = SpanOf(i) - o /\ Seek(a) # None
      BY <1>1 DEF NoneIsNothing
<1>4. o \in Nat
      BY <1>1, <1>2
<1>5. /\ v \in Seq(Nat) /\ Len(v) \in Nat
      /\ Len(v) = IF o < Len(Sections[i].raw) THEN Len(Sections[i].raw) - o ELSE 0
      /\ \A n \in 1 .. Len(v) : v[n] = Sections[i].raw[o + n]
      BY <1>1, <1>3, <1>4, ViewIs DEF w
<1> QED  BY <1>1, <1>2, <1>3, <1>4, <1>5

LEMMA ReadIs ==
    ASSUME Loadable, Apart, NoneIsNothing, NEW a \in Int, NEW i \in SectionsAt(a),
           NEW size \in 0 .. SpanOf(i) - Offset(i, a)
    PROVE  Read(a, size) = [n \in 1 .. size |-> ByteAt(i, Offset(i, a) + n - 1)]
<1> DEFINE o == Offset(i, a)
           raw == Sections[i].raw
           v == SubSeq(raw, o + 1, Len(raw))
<1>1. /\ i \in DOMAIN Sections /\ o \in 0 .. SpanOf(i) - 1 /\ SpanOf(i) \in Nat
      /\ Seek(a) = [view |-> v, left |-> SpanOf(i) - o]
      BY PlaceIs, SectionsAre
<1>2. Seek(a) # None
      BY <1>1 DEF NoneIsNothing
<1> HIDE DEF o, v
<1>3. Read(a, size) = [n \in 1 .. size |-> IF n <= Len(v) THEN v[n] ELSE 0]
      BY <1>1, <1>2 DEF Read, o
<1>4. ASSUME NEW n \in 1 .. size
      PROVE  (IF n <= Len(v) THEN v[n] ELSE 0) = ByteAt(i, o + n - 1)
  <2>1. o \in Nat /\ Len(raw) \in Nat
        BY <1>1, SectionsAre
  <2>2. /\ Len(v) = IF o < Len(raw) THEN Len(raw) - o ELSE 0
        /\ \A k \in 1 .. Len(v) : v[k] = raw[o + k]
    <3>1. v = SubSeq(Sections[i].raw, o + 1, Len(Sections[i].raw))
          BY DEF v
    <3> HIDE DEF raw
    <3>2. /\ Len(v) = IF o < Len(Sections[i].raw) THEN Len(Sections[i].raw) - o ELSE 0
          /\ \A k \in 1 .. Len(v) : v[k] = Sections[i].raw[o + k]
          BY <1>1, <2>1, <3>1, ViewIs
    <3> QED  BY <3>2 DEF raw
  <2>3. n <= Len(v) <=> o + n - 1 < Len(raw)
        BY <2>1, <2>2
  <2>4. CASE n <= Len(v)
        BY <2>1, <2>2, <2>3, <2>4 DEF ByteAt
  <2>5. CASE ~(n <= Len(v))
        BY <2>1, <2>3, <2>5 DEF ByteAt
  <2> QED  BY <2>4, <2>5
<1> QED  BY <1>3, <1>4 DEF o

LEMMA ReadIsText ==
    ASSUME Loadable, Apart, NoneIsNothing, NEW a \in Int, NEW i \in SectionsAt(a),
           NEW size \in 0 .. SpanOf(i) - Offset(i, a)
    PROVE  /\ Read(a, size) \in Seq(Nat) /\ Len(Read(a, size)) = size
           /\ \A n \in 1 .. size : Read(a, size)[n] = ByteAt(i, Offset(i, a) + n - 1)
<1> DEFINE r == Read(a, size)
<1>1. i \in DOMAIN Sections /\ Offset(i, a) \in Nat /\ size \in Nat
      BY PlaceIs, SectionsAre
<1>2. \A n \in 1 .. size : ByteAt(i, Offset(i, a) + n - 1) \in Nat
  <2>1. Sections[i].raw \in Seq(Nat)
        BY <1>1, SectionsAre
  <2> QED  BY <1>1, <2>1 DEF ByteAt
<1>3. r = [n \in 1 .. size |-> ByteAt(i, Offset(i, a) + n - 1)]
      BY ReadIs
<1> HIDE DEF r
<1>4. r \in [1 .. size -> Nat]
      BY <1>2, <1>3
<1>5. r \in Seq(Nat) /\ Len(r) = size
      BY <1>1, <1>4
<1> QED  BY <1>3, <1>5 DEF r

(* What is read at once is what is read in parts. *)
LEMMA PartsAreTheWhole ==
    ASSUME Loadable, Apart, NoneIsNothing, NEW a \in Int, NEW i \in SectionsAt(a),
           NEW left, left = SpanOf(i) - Offset(i, a), NEW n \in 1 .. left - 1
    PROVE  Read(a, left) = Read(a, n) \o Read(a + n, left - n)
<1> DEFINE whole == Read(a, left)
           one == Read(a, n)
           two == Read(a + n, left - n)
<1>1. /\ i \in DOMAIN Sections /\ Offset(i, a) \in 0 .. SpanOf(i) - 1 /\ SpanOf(i) \in Nat
      /\ Base \in Nat /\ Sections[i].start \in Nat
      BY PlaceIs, SectionsAre
<1>2. left \in Nat /\ n \in Nat /\ left - n \in Nat
      BY <1>1
<1>3. a + n \in Int /\ Offset(i, a + n) = Offset(i, a) + n
      BY <1>1, <1>2 DEF Offset
<1>4. i \in SectionsAt(a + n)
  <2>1. VaddrRange(i) = Base + Sections[i].start .. Base + Sections[i].start + SpanOf(i) - 1
        BY <1>1, SectionsAre
  <2>2. Offset(i, a) + n \in 0 .. SpanOf(i) - 1
        BY <1>1, <1>2
  <2>3. a + n \in VaddrRange(i)
        BY <1>1, <2>1, <2>2 DEF Offset
  <2> QED  BY <1>1, <2>3 DEF SectionsAt
<1>5. /\ whole \in Seq(Nat) /\ Len(whole) = left
      /\ \A k \in 1 .. left : whole[k] = ByteAt(i, Offset(i, a) + k - 1)
  <2>1. left \in 0 .. SpanOf(i) - Offset(i, a)
        BY <1>1, <1>2
  <2> QED  BY <2>1, ReadIsText
<1>6. /\ one \in Seq(Nat) /\ Len(one) = n
      /\ \A k \in 1 .. n : one[k] = ByteAt(i, Offset(i, a) + k - 1)
  <2>1. n \in 0 .. SpanOf(i) - Offset(i, a)
        BY <1>1, <1>2
  <2> QED  BY <2>1, ReadIsText
<1>7. /\ two \in Seq(Nat) /\ Len(two) = left - n
      /\ \A k \in 1 .. left - n : two[k] = ByteAt(i, Offset(i, a) + n + k - 1)
  <2>1. left - n \in 0 .. SpanOf(i) - Offset(i, a + n)
        BY <1>1, <1>2, <1>3
  <2>2. /\ two \in Seq(Nat) /\ Len(two) = left - n
        /\ \A k \in 1 .. left - n : two[k] = ByteAt(i, Offset(i, a + n) + k - 1)
        BY <1>3, <1>4, <2>1, ReadIsText
  <2> QED  BY <1>3, <2>2
<1> HIDE DEF whole, one, two
<1>8. /\ one \o two \in Seq(Nat) /\ Len(one \o two) = left
      /\ \A k \in 1 .. left : (one \o two)[k] = IF k <= n THEN one[k] ELSE two[k - n]
  <2>1. /\ one \o two \in Seq(Nat) /\ Len(one \o two) = Len(one) + Len(two)
        /\ \A k \in 1 .. Len(one) + Len(two) :
             (one \o two)[k] = IF k <= Len(one) THEN one[k] ELSE two[k - Len(one)]
        BY <1>6, <1>7, ConcatProperties
  <2>2. Len(one) = n /\ Len(one) + Len(two) = left
        BY <1>2, <1>6, <1>7
  <2> QED  BY <2>1, <2>2
<1>9. ASSUME NEW k \in 1 .. left
      PROVE  (one \o two)[k] = whole[k]
  <2>1. CASE k \in 1 .. n
    <3>1. (one \o two)[k] = one[k]
          BY <1>2, <1>8, <2>1
    <3> QED  BY <1>5, <1>6, <2>1, <3>1
  <2>2. CASE k \notin 1 .. n
    <3>1. k - n \in 1 .. left - n
          BY <1>2, <2>2
    <3>2. (one \o two)[k] = two[k - n]
          BY <1>2, <1>8, <2>2
    <3>3. Offset(i, a) + n + (k - n) - 1 = Offset(i, a) + k - 1
          BY <1>1, <1>2
    <3>4. two[k - n] = ByteAt(i, Offset(i, a) + n + (k - n) - 1)
          BY <1>7, <3>1
    <3> QED  BY <1>5, <3>2, <3>3, <3>4
  <2> QED  BY <2>1, <2>2
<1>10. whole = one \o two
       BY <1>5, <1>8, <1>9, SeqEqual
<1> QED  BY <1>10 DEF whole, one, two

-------------------------------------------------------------------------------
(* Texts: up to the first of the places at which one may end. *)
LEMMA LeastEnd ==
    ASSUME NEW ends \in SUBSET Nat, ends # {}
    PROVE  Min(ends) \in ends /\ \A n \in ends : Min(ends) <= n
<1> DEFINE R == {ss \in Nat \X Nat : ss[1] < ss[2]}
<1>1. IsWellFoundedOn(R, Nat)
      BY NatLessThanWellFounded DEF OpToRel
<1>2. PICK e \in ends : \A n \in ends : ~(<<n, e>> \in R)
      BY <1>1, WFMin
<1>3. ASSUME NEW n \in ends PROVE e <= n
  <2>1. n \in Nat /\ e \in Nat
        OBVIOUS
  <2>2. ~(n < e)
        BY <1>2, <2>1
  <2> QED  BY <2>1, <2>2
<1> QED  BY <1>3 DEF Min

LEMMA UntilIs ==
    ASSUME NEW v \in Seq(Nat), NEW ends \in SUBSET DOMAIN v, NEW t, t = Until(v, ends)
    PROVE  /\ t \in Seq(Nat) /\ Len(t) \in 0 .. Len(v)
           /\ \A n \in 1 .. Len(t) : t[n] = v[n] /\ n \notin ends
           /\ ends # {} => Len(t) + 1 \in ends
           /\ ends = {} => t = v
<1>1. CASE ends = {}
      BY <1>1 DEF Until
<1>2. CASE ends # {}
  <2>1. Len(v) \in Nat /\ DOMAIN v = 1 .. Len(v) /\ ends \in SUBSET Nat
        OBVIOUS
  <2>2. Min(ends) \in ends /\ \A n \in ends : Min(ends) <= n
        BY <1>2, <2>1, LeastEnd
  <2>3. Min(ends) \in 1 .. Len(v)
        BY <2>1, <2>2
  <2>4. t = SubSeq(v, 1, Min(ends) - 1)
        BY <1>2 DEF Until
  <2>5. Min(ends) - 1 \in Int /\ \A n \in 1 .. Min(ends) - 1 : v[n] \in Nat
        BY <2>1, <2>3
  <2>6. /\ t \in Seq(Nat)
        /\ Len(t) = IF 1 <= Min(ends) - 1 THEN Min(ends) - 1 - 1 + 1 ELSE 0
        /\ \A n \in 1 .. Min(ends) - 1 - 1 + 1 : t[n] = v[1 + n - 1]
        BY <2>4, <2>5, SubSeqProperties
  <2>7. Len(t) = Min(ends) - 1
        BY <2>3, <2>6
  <2> QED  BY <1>2, <2>1, <2>2, <2>3, <2>6, <2>7
<1> QED  BY <1>1, <1>2

(* The texts at an address are in its section and end before its end. *)
LEMMA TextsEnd ==
    ASSUME Loadable, Apart, NoneIsNothing, NEW a \in Int, NEW i \in SectionsAt(a)
    PROVE  /\ ReadString(a) = Read(a, Len(ReadString(a)))
           /\ 0 \notin {ReadString(a)[n] : n \in DOMAIN ReadString(a)}
           /\ Len(ReadWidechar(a)) % 2 = 0
<1> DEFINE o == Offset(i, a)
           raw == Sections[i].raw
           v == Seek(a).view
<1>1. /\ i \in DOMAIN Sections /\ o \in Nat /\ o \in 0 .. SpanOf(i) - 1
      /\ SpanOf(i) \in Nat /\ Len(raw) \in Nat /\ Len(raw) <= SpanOf(i)
      BY SeekIs
<1>2. Seek(a) # None /\ Seek(a).view = v
      BY SeekIs
<1>3. /\ v \in Seq(Nat) /\ Len(v) \in Nat
      /\ Len(v) = IF o < Len(raw) THEN Len(raw) - o ELSE 0
      /\ \A n \in 1 .. Len(v) : v[n] = raw[o + n]
      BY SeekIs
<1> HIDE DEF o, v
<1>4. ReadString(a) = Read(a, Len(ReadString(a)))
      /\ 0 \notin {ReadString(a)[n] : n \in DOMAIN ReadString(a)}
  <2> DEFINE ends == {n \in DOMAIN v : v[n] = 0}
             t == ReadString(a)
  <2>1. t = Until(v, ends) /\ ends \in SUBSET DOMAIN v
        BY <1>2 DEF ReadString
  <2>2. /\ t \in Seq(Nat) /\ Len(t) \in 0 .. Len(v)
        /\ \A n \in 1 .. Len(t) : t[n] = v[n] /\ n \notin ends
        BY <1>3, <2>1, UntilIs
  <2> DEFINE r == Read(a, Len(t))
  <2>3. Len(t) \in 0 .. SpanOf(i) - o
        BY <1>1, <1>3, <2>2
  <2>4. /\ r \in Seq(Nat) /\ Len(r) = Len(t)
        /\ \A n \in 1 .. Len(t) : r[n] = ByteAt(i, o + n - 1)
        BY <2>3, ReadIsText DEF o
  <2> HIDE DEF t, r
  <2>5. ASSUME NEW n \in 1 .. Len(t)
        PROVE  t[n] = r[n] /\ t[n] # 0
    <3>1. n \in 1 .. Len(v) /\ n \in DOMAIN v
          BY <1>3, <2>2
    <3>2. o + n - 1 < Len(raw) /\ o + n - 1 + 1 = o + n
          BY <1>1, <1>3, <3>1
    <3>3. ByteAt(i, o + n - 1) = raw[o + n]
          BY <3>2 DEF ByteAt
    <3> QED  BY <1>3, <2>2, <2>4, <3>1, <3>3
  <2>6. t = r
        BY <2>2, <2>4, <2>5, SeqEqual
  <2>7. DOMAIN t = 1 .. Len(t)
        BY <2>2
  <2> QED  BY <2>5, <2>6, <2>7 DEF t, r
<1>5. Len(ReadWidechar(a)) % 2 = 0
  <2> DEFINE ends == {n \in DOMAIN v : n % 2 = 1 /\ (n = Len(v) \/ (v[n] = 0 /\ v[n + 1] = 0))}
             t == ReadWidechar(a)
  <2>1. t = Until(v, ends) /\ ends \in SUBSET DOMAIN v
        BY <1>2 DEF ReadWidechar
  <2> HIDE DEF ends
  <2>2. /\ t \in Seq(Nat) /\ Len(t) \in 0 .. Len(v)
        /\ ends # {} => Len(t) + 1 \in ends
        /\ ends = {} => t = v
        BY <1>3, <2>1, UntilIs
  <2> HIDE DEF t
  <2>3. CASE ends # {}
    <3>1. Len(t) \in Nat /\ (Len(t) + 1) % 2 = 1
          BY <2>2, <2>3 DEF ends
    <3> QED  BY <3>1 DEF t
  <2>4. CASE ends = {}
    <3>1. t = v
          BY <2>2, <2>4
    <3>2. SUFFICES ASSUME Len(v) % 2 # 0 PROVE FALSE
          BY <3>1 DEF t
    <3>3. Len(v) % 2 = 1 /\ Len(v) \in 1 .. Len(v)
          BY <1>3, <3>2
    <3>4. Len(v) \in ends
          BY <1>3, <3>3 DEF ends
    <3> QED  BY <2>4, <3>4
  <2> QED  BY <2>3, <2>4
<1> QED  BY <1>4, <1>5

-------------------------------------------------------------------------------
(* Bytes that are in the file, and those that are not. *)
LEMMA FirstByte ==
    ASSUME Loadable, Apart, NoneIsNothing, NEW a \in Int, NEW i \in SectionsAt(a)
    PROVE  /\ Read(a, 1) = IF Seek(a).view = <<>> THEN <<0>> ELSE <<Seek(a).view[1]>>
           /\ Uninitialized(a) => Read(a, 1) = <<0>>
           /\ Seek(a).view = <<>> => Uninitialized(a)
<1> DEFINE o == Offset(i, a)
           raw == Sections[i].raw
           v == Seek(a).view
<1>1. /\ i \in DOMAIN Sections /\ o \in 0 .. SpanOf(i) - 1 /\ o \in Nat
      /\ SpanOf(i) \in Nat /\ Len(raw) \in Nat /\ raw \in Seq(Nat) /\ SectionsAt(a) = {i}
      /\ Base \in Nat /\ Sections[i].start \in Nat /\ Sections[i].size \in Nat
      /\ SpanOf(i) = Most(Len(raw), Sections[i].size)
      BY PlaceIs, SectionsAre, SeekIs DEF SpanOf
<1>2. /\ v \in Seq(Nat) /\ Len(v) \in Nat
      /\ Len(v) = IF o < Len(raw) THEN Len(raw) - o ELSE 0
      /\ \A n \in 1 .. Len(v) : v[n] = raw[o + n]
      BY SeekIs
<1>3. a = Base + Sections[i].start + o
      BY <1>1 DEF Offset
<1>4. Read(a, 1) \in Seq(Nat) /\ Len(Read(a, 1)) = 1 /\ Read(a, 1)[1] = ByteAt(i, o)
  <2>1. 1 \in 0 .. SpanOf(i) - o
        BY <1>1
  <2>2. /\ Read(a, 1) \in Seq(Nat) /\ Len(Read(a, 1)) = 1
        /\ \A n \in 1 .. 1 : Read(a, 1)[n] = ByteAt(i, o + n - 1)
        BY <2>1, ReadIsText
  <2>3. o + 1 - 1 = o /\ 1 \in 1 .. 1
        BY <1>1
  <2> QED  BY <2>2, <2>3
<1> HIDE DEF o, v
<1>5. Read(a, 1) = <<ByteAt(i, o)>>
  <2> DEFINE b == ByteAt(i, o)
             r == Read(a, 1)
  <2>1. r \in Seq(Nat) /\ Len(r) = 1 /\ r[1] = b /\ b \in Nat
        BY <1>4
  <2> HIDE DEF b, r
  <2>2. <<b>> \in Seq(Nat) /\ Len(<<b>>) = 1 /\ <<b>>[1] = b
        BY <2>1
  <2>3. r = <<b>>
        BY <2>1, <2>2, SeqEqual
  <2> QED  BY <2>3 DEF b, r
<1>6. v = <<>> <=> ~(o < Len(raw))
  <2>1. v = <<>> <=> Len(v) = 0
        BY <1>2, EmptySeq
  <2> QED  BY <1>1, <1>2, <2>1
<1>7. v # <<>> => v[1] = ByteAt(i, o)
      BY <1>1, <1>2, <1>6 DEF ByteAt
<1>8. v = <<>> => ByteAt(i, o) = 0
      BY <1>6 DEF ByteAt
<1>9. ASSUME Uninitialized(a)
       PROVE  ByteAt(i, o) = 0
  <2>1. PICK j \in DOMAIN Sections : a \in UninitializedRange(Sections[j])
        BY <1>9 DEF Uninitialized
  <2>2. /\ Base \in Nat /\ Sections[j].start \in Nat /\ Sections[j].size \in Nat
        /\ Len(Sections[j].raw) \in Nat /\ SpanOf(j) \in Nat
        /\ Len(Sections[j].raw) <= SpanOf(j) /\ Sections[j].size <= SpanOf(j)
        /\ VaddrRange(j) = Base + Sections[j].start .. Base + Sections[j].start + SpanOf(j) - 1
        BY SectionsAre
  <2>3. a \in VaddrRange(j)
        BY <2>1, <2>2 DEF UninitializedRange
  <2>4. j = i
        BY <1>1, <2>3 DEF SectionsAt
  <2>5. CASE "uninitialized" \in Sections[i].flags
    <3>1. raw = <<>>
          BY <1>1, <2>5 DEF Loadable
    <3>2. Len(raw) = 0
          BY <3>1
    <3> QED  BY <1>1, <3>2 DEF ByteAt
  <2>6. CASE "uninitialized" \notin Sections[i].flags
    <3>1. a >= Base + Sections[i].start + Len(raw)
          BY <1>1, <2>1, <2>4, <2>6 DEF UninitializedRange
    <3>2. ~(o < Len(raw))
          BY <1>1, <1>3, <3>1
    <3> QED  BY <3>2 DEF ByteAt
  <2> QED  BY <2>5, <2>6
<1>10. ASSUME v = <<>>
       PROVE  Uninitialized(a)
  <2>1. ~(o < Len(raw))
        BY <1>6, <1>10
  <2>2. o < Sections[i].size
        BY <1>1, <2>1 DEF Most
  <2>3. /\ a \in Base + Sections[i].start .. Base + Sections[i].start + Sections[i].size - 1
        /\ a \in Base + Sections[i].start + Len(Sections[i].raw)
               .. Base + Sections[i].start + Sections[i].size - 1
        BY <1>1, <1>3, <2>1, <2>2
  <2>4. a \in UninitializedRange(Sections[i])
        BY <2>3 DEF UninitializedRange
  <2> QED  BY <1>1, <2>4 DEF Uninitialized
<1> QED  BY <1>5, <1>7, <1>8, <1>9, <1>10 DEF v

-------------------------------------------------------------------------------
LEMMA AddressIsOnePlace ==
    ASSUME Loadable, Apart, NoneIsNothing, NEW a \in Int, RelativeAddr(a) # None
    PROVE  \E i \in SectionsAt(a) : RelativeAddr(a) = <<i, Offset(i, a)>>
<1>1. PICK i : i \in SectionsAt(a)
      BY DEF RelativeAddr
<1> QED  BY <1>1, PlaceIs

LEMMA WhereSeekIs ==
    ASSUME Loadable, Apart, NoneIsNothing, NEW a \in Int
    PROVE  (RelativeAddr(a) # None) = (Seek(a) # None)
<1>1. CASE SectionsAt(a) = {}
      BY <1>1 DEF RelativeAddr, Seek
<1>2. CASE SectionsAt(a) # {}
  <2>1. PICK i : i \in SectionsAt(a)
        BY <1>2
  <2>2. RelativeAddr(a) = <<i, Offset(i, a)>> /\ Seek(a) # None
        BY <2>1, PlaceIs, SeekIs
  <2> QED  BY <2>2 DEF NoneIsNothing
<1> QED  BY <1>1, <1>2

(* An address of an image whose sections do not overlap means one place and *)
(* one byte, code and data are apart, texts stay in their section, and what *)
(* is read-only goes by the permissions it is asked under: for any sections *)
(* and relocations.                                                         *)
THEOREM ImageTells ==
    ASSUME NoneIsNothing, Loadable
    PROVE  \A addresses \in SUBSET Int : \A names : ImageHolds(addresses, names)
<1> SUFFICES ASSUME NEW addresses \in SUBSET Int, NEW names, Apart
             PROVE  ImageHolds(addresses, names)
    BY DEF ImageHolds
<1>1. ASSUME NEW a \in addresses, RelativeAddr(a) # None
      PROVE  /\ IsValid(a)
             /\ AbsAddr(RelativeAddr(a)[1], RelativeAddr(a)[2]) = a
             /\ \A b \in addresses : RelativeAddr(b) = RelativeAddr(a) => a = b
             /\ Read(a, 1) = IF Seek(a).view = <<>> THEN <<0>> ELSE <<Seek(a).view[1]>>
             /\ Uninitialized(a) => Read(a, 1) = <<0>>
             /\ Seek(a).view = <<>> => Uninitialized(a)
             /\ \A n \in 1 .. Seek(a).left - 1 :
                  Read(a, Seek(a).left) = Read(a, n) \o Read(a + n, Seek(a).left - n)
             /\ Read(a, Seek(a).left + 1) = None
             /\ ReadString(a) = Read(a, Len(ReadString(a)))
             /\ 0 \notin {ReadString(a)[n] : n \in DOMAIN ReadString(a)}
             /\ Len(ReadWidechar(a)) % 2 = 0
  <2>1. a \in Int
        OBVIOUS
  <2>2. PICK i \in SectionsAt(a) : RelativeAddr(a) = <<i, Offset(i, a)>>
        BY <1>1, <2>1, AddressIsOnePlace
  <2>3. /\ i \in DOMAIN Sections /\ Offset(i, a) \in 0 .. SpanOf(i) - 1 /\ SpanOf(i) \in Nat
        /\ Base \in Nat /\ Sections[i].start \in Nat
        /\ SpanOf(i) = Most(Len(Sections[i].raw), Sections[i].size)
        /\ Seek(a) # None /\ Seek(a).left = SpanOf(i) - Offset(i, a)
        BY <2>1, PlaceIs, SectionsAre, SeekIs DEF SpanOf
  <2>4. IsValid(a)
    <3>1. Base <= a /\ a < Base + Sections[i].start + Most(Len(Sections[i].raw), Sections[i].size)
          BY <2>1, <2>3 DEF Offset
    <3> QED  BY <2>3, <3>1 DEF IsValid
  <2>5. \A j \in DOMAIN Sections, b \in Int : AbsAddr(j, Offset(j, b)) = b
        BY SectionsAre DEF AbsAddr, Offset
  <2>6. AbsAddr(RelativeAddr(a)[1], RelativeAddr(a)[2]) = a
        BY <2>1, <2>2, <2>3, <2>5
  <2>7. ASSUME NEW b \in addresses, RelativeAddr(b) = RelativeAddr(a)
        PROVE  a = b
    <3>1. b \in Int
          OBVIOUS
    <3>2. PICK j \in SectionsAt(b) : RelativeAddr(b) = <<j, Offset(j, b)>>
          BY <1>1, <2>7, <3>1, AddressIsOnePlace
    <3>3. j = i /\ Offset(j, b) = Offset(i, a)
          BY <2>2, <2>7, <3>2
    <3> QED  BY <2>1, <2>3, <2>5, <3>1, <3>3
  <2>8. Read(a, Seek(a).left + 1) = None
    <3>1. Seek(a).left + 1 > Seek(a).left /\ ~(Seek(a).left + 1 < 0)
          BY <2>3
    <3> QED  BY <2>3, <3>1 DEF Read
  <2>9. \A n \in 1 .. Seek(a).left - 1 :
          Read(a, Seek(a).left) = Read(a, n) \o Read(a + n, Seek(a).left - n)
        BY <2>1, <2>3, PartsAreTheWhole
  <2> QED  BY <2>1, <2>4, <2>6, <2>7, <2>8, <2>9, FirstByte, TextsEnd
<1>2. Region(TRUE) \cap Region(FALSE) = {}
  <2> SUFFICES ASSUME NEW x \in Region(TRUE), x \in Region(FALSE) PROVE FALSE
      OBVIOUS
  <2>1. PICK i \in DOMAIN Sections : IsCode(Sections[i]) /\ x \in Extent(Sections[i])
        BY DEF Region
  <2>2. PICK j \in DOMAIN Sections : IsData(Sections[j]) /\ x \in Extent(Sections[j])
        BY DEF Region
  <2>3. i # j
        BY <2>1, <2>2 DEF IsCode, IsData
  <2> QED  BY <2>1, <2>2, <2>3 DEF Apart, VaddrRange, Extent
<1>3. \A wide \in BOOLEAN : \A x \in Strings(wide) : x[1] \in Relocated /\ x[1] \notin Region(TRUE)
  <2>1. ASSUME NEW wide \in BOOLEAN, NEW x \in Strings(wide)
        PROVE  x[1] \in Relocated \cap Region(FALSE)
    <3>1. PICK a \in Relocated \cap Region(FALSE) :
             x = <<a, IF wide THEN ReadWidechar(a) ELSE ReadString(a)>>
          BY DEF Strings
    <3> DEFINE text == IF wide THEN ReadWidechar(a) ELSE ReadString(a)
    <3> HIDE DEF text
    <3>2. x = <<a, text>>
          BY <3>1 DEF text
    <3>3. x[1] = a
          BY <3>2
    <3> QED  BY <3>1, <3>3
  <2> QED  BY <1>2, <2>1
<1>4. \A i \in DOMAIN Sections, w \in BOOLEAN :
        Sections[i].name \in names /\ IsData(Sections[i])
          => (IsConst(Sections[i], [n \in names |-> w]) <=> ~w)
      BY DEF IsConst
<1>5. \A a \in addresses : (RelativeAddr(a) # None) = (Seek(a) # None)
      BY WhereSeekIs
<1> QED  BY <1>1, <1>2, <1>3, <1>4, <1>5 DEF ImageHolds
===============================================================================
