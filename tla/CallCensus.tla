------------------------------- MODULE CallCensus -------------------------------
(***************************************************************************)
(* The comparison of the direct calls of two functions' bodies             *)
(* (reccmp/compare/call_census.py).                                        *)
(*                                                                         *)
(* A body is its instructions in the order of their addresses:             *)
(* [target, next], the target of a direct call or None, and where it falls *)
(* through to, "inside", "outside" or None.  A manifest has pairs          *)
(* [orig, recomp] and aliases [image, at, of].                             *)
(***************************************************************************)
EXTENDS Integers, Sequences, SequencesExt, FiniteSets

CONSTANT None

(* identities *)
Identity(m, image, target) ==
    LET alias == {x.of : x \in {y \in m.aliases : y.image = image /\ y.at = target}} \cap {p.orig : p \in m.pairs}
        pair == {p.orig : p \in {q \in m.pairs : q[image] = target}}
    IN IF alias # {} THEN [pair |-> CHOOSE o \in alias : TRUE]
       ELSE IF pair # {} THEN [pair |-> CHOOSE o \in pair : TRUE]
       ELSE [image |-> image, at |-> target]

Paired(call) == "pair" \in DOMAIN call

(* _body_calls: None where there is no body, or only a part of one. *)
BodyCalls(m, image, body) ==
    IF body = None THEN None
    ELSE IF \E i \in DOMAIN body : body[i].next = "outside" THEN None
    ELSE LET called == SelectSeq(body, LAMBDA x : x.target # None)
         IN [i \in DOMAIN called |-> Identity(m, image, called[i].target)]

-------------------------------------------------------------------------------
(* difflib.SequenceMatcher: the longest run both have, the first of those,  *)
(* and the same before and after it.                                        *)
Runs(a, b) == {<<n, i, j>> \in (1 .. Len(a)) \X (1 .. Len(a)) \X (1 .. Len(b)) :
                 /\ i + n - 1 <= Len(a) /\ j + n - 1 <= Len(b)
                 /\ \A k \in 0 .. n - 1 : a[i + k] = b[j + k]}

RECURSIVE Matched(_, _)
Matched(a, b) ==
    IF Runs(a, b) = {} THEN 0
    ELSE LET r == CHOOSE x \in Runs(a, b) : \A y \in Runs(a, b) :
                    y[1] < x[1] \/ (y[1] = x[1] /\ (x[2] < y[2] \/ (x[2] = y[2] /\ x[3] <= y[3])))
         IN r[1] + Matched(SubSeq(a, 1, r[2] - 1), SubSeq(b, 1, r[3] - 1))
                 + Matched(SubSeq(a, r[2] + r[1], Len(a)), SubSeq(b, r[3] + r[1], Len(b)))

(* call_delta *)
Category(old, new) ==
    LET count(s, x) == Cardinality({i \in DOMAIN s : s[i] = x})
        removed == Len(old) - Matched(old, new)
        added == Len(new) - Matched(old, new)
    IN CASE \E c \in Range(old) \cup Range(new) : ~Paired(c) -> "unresolved"
         [] OTHER ->
            IF old = new THEN "identical"
            ELSE IF \A c \in Range(old) \cup Range(new) : count(old, c) = count(new, c) THEN "reordered"
            ELSE IF added = 0 THEN "retail extra"
            ELSE IF removed = 0 THEN "rebuild extra"
            ELSE IF removed = 1 /\ added = 1 THEN "one differs" ELSE "several differ"

-------------------------------------------------------------------------------
(* What the census says of two bodies is true of them: the same sequence    *)
(* only where both were seen whole and call the same pairs in the same      *)
(* order, extra calls only where the rest is the other's in its order.      *)
Without(s, is) == LET kept == SetToSortSeq(DOMAIN s \ is, <) IN [i \in DOMAIN kept |-> s[kept[i]]]

SameCalls(m, old, new) ==
    /\ Len(old) = Len(new)
    /\ \A i \in DOMAIN old :
         \E p \in m.pairs : /\ old[i] = p.orig \/ \E a \in m.aliases : a.image = "orig" /\ a.at = old[i] /\ a.of = p.orig
                            /\ new[i] = p.recomp \/ \E a \in m.aliases : a.image = "recomp" /\ a.at = new[i] /\ a.of = p.orig

Targets(body) == LET s == SelectSeq(body, LAMBDA x : x.target # None) IN [i \in DOMAIN s |-> s[i].target]

CensusIsSound(m, old, new) ==
    LET a == BodyCalls(m, "orig", old)
        b == BodyCalls(m, "recomp", new)
        whole(body) == \A i \in DOMAIN body : body[i].next # "outside"
        says == Category(a, b)
        drop(s, n, t, k) == \E is \in SUBSET DOMAIN s, js \in SUBSET DOMAIN t :
                               Cardinality(is) = n /\ Cardinality(js) = k /\ Without(s, is) = Without(t, js)
    IN a # None /\ b # None =>
         /\ whole(old) /\ whole(new)
         /\ says = "identical" <=> SameCalls(m, Targets(old), Targets(new))
         /\ says = "reordered" => Len(a) = Len(b) /\ Range(a) = Range(b) /\ a # b
         /\ says = "retail extra" => drop(a, Len(a) - Len(b), b, 0)
         /\ says = "rebuild extra" => drop(a, 0, b, Len(b) - Len(a))
         /\ says = "one differs" => drop(a, 1, b, 1) /\ Len(a) = Len(b)
===============================================================================
