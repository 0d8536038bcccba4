--------------------------- MODULE ComparisonResults ---------------------------
(***************************************************************************)
(* What one comparison of a function says (reccmp/ghidriff/results.py):    *)
(* the data its two sides refer to, the outcome of one pass over it, and   *)
(* the choice between the ordinary pass and the retry with callees         *)
(* substituted.                                                            *)
(*                                                                         *)
(* Contents are records.  string: text, a sequence of character codes.     *)
(* pointer: to is the pointee, None when nothing is known of it.  raw:     *)
(* data, whether the range holds an address (relocated), whether the       *)
(* catalog says how long it is (known).  uninit: no initial contents.      *)
(* unknown: no extent.  end: the bound just past an object.                *)
(***************************************************************************)
EXTENDS Integers, FiniteSets, Functions, SequencesExt

CONSTANTS
    SourcePaths,    \* texts that are __FILE__ strings
    None

(* contents_comparable *)
Comparable(c) ==
    ~ \/ c.kind \in {"unknown", "end"}
      \/ c.kind = "pointer" /\ c.to = None
      \/ c.kind = "raw" /\ c.relocated

ZeroFilled(c) ==
    \/ c.kind = "uninit"
    \/ c.kind = "raw" /\ ~c.relocated /\ \A i \in DOMAIN c.data : c.data[i] = 0

(* The terminated one-byte and two-byte forms of a text. *)
Encodings(text) ==
    {Append(text, 0),
     [i \in 1 .. 2 * Len(text) + 2 |->
        IF i % 2 = 1 /\ i < 2 * Len(text) THEN text[(i + 1) \div 2] ELSE 0]}

StringInBytes(s, r) ==
    \E e \in Encodings(s.text) : IsPrefix(e, r.data) \/ (~r.known /\ IsPrefix(r.data, e))

(* consistent: two renderings that can be of the same contents. *)
Consistent(a, b) ==
    \/ ZeroFilled(a) /\ ZeroFilled(b)
    \/ a.kind = "string" /\ b.kind = "string" /\ {a.text, b.text} \subseteq SourcePaths
    \/ a.kind = "string" /\ b.kind = "raw" /\ StringInBytes(a, b)
    \/ a.kind = "raw" /\ b.kind = "string" /\ StringInBytes(b, a)
    \/ /\ a.kind = "raw" /\ b.kind = "raw" /\ ~(a.known /\ b.known)
       /\ IsPrefix(a.data, b.data) \/ IsPrefix(b.data, a.data)
    \/ a = b

(* A reference is to a paired object (None: to nothing the catalog pairs).  *)
(* Of several to one object the last is kept.                               *)
ByIdentity(refs) ==
    LET of(o) == CHOOSE i \in DOMAIN refs :
                    refs[i].object = o /\ \A j \in DOMAIN refs : refs[j].object = o => j <= i
    IN [o \in {refs[i].object : i \in DOMAIN refs} \ {None} |-> refs[of(o)].contents]

Rest(refs) ==
    LET loose(r) == r.object = None /\ Comparable(r.contents)
        chosen == SelectSeq(refs, loose)
    IN [i \in DOMAIN chosen |-> chosen[i].contents]

Count(s, x) == Cardinality({i \in DOMAIN s : s[i] = x})

(* Counter subtraction: each content as often as it is here more often than *)
(* there, in the order in which the contents first occur here.              *)
Surplus(here, there) ==
    LET first(i) == \A j \in 1 .. i - 1 : here[j] # here[i]
        left(i) == IF first(i) THEN Max({0, Count(here, here[i]) - Count(there, here[i])}) ELSE 0
    IN FlattenSeq([i \in DOMAIN here |-> [k \in 1 .. left(i) |-> here[i]]])

(* Each content left on the original's side takes the first one consistent  *)
(* with it that is left on the other.                                       *)
LeftOver(orig, recomp) ==
    LET partner(c, s) == SelectInSeq(s, LAMBDA d : Consistent(c, d))
        take(left, c) ==
            IF partner(c, left.recomp) = 0
              THEN [left EXCEPT !.orig = Append(@, c)]
              ELSE [left EXCEPT !.recomp = RemoveAt(@, partner(c, left.recomp))]
    IN FoldLeft(take, [orig |-> <<>>, recomp |-> recomp], orig)

(* compare_references: whether it finds anything.  A paired object both     *)
(* sides refer to is compared by identity, the rest without claiming which  *)
(* location is which.                                                       *)
Findings(orig, recomp) ==
    LET a == ByIdentity(orig)
        b == ByIdentity(recomp)
        left == LeftOver(Surplus(Rest(orig), Rest(recomp)), Surplus(Rest(recomp), Rest(orig)))
    IN \/ \E o \in DOMAIN a \cap DOMAIN b :
            Comparable(a[o]) /\ Comparable(b[o]) /\ a[o] # b[o]
       \/ left.orig # <<>> /\ left.recomp # <<>>

(* classify_pass.  code: the normalized text of each side, None if there is *)
(* none.                                                                    *)
Classified(paired, failures, code, refs) ==
    IF ~paired THEN "unpaired"
    ELSE IF failures \/ \E side \in DOMAIN code : code[side] = None THEN "analysis failed"
    ELSE IF code.orig # code.recomp \/ Findings(refs.orig, refs.recomp) THEN "differences"
    ELSE "no differences"

(* FunctionResult.selected_pass and outcome.  inline: the outcome of the    *)
(* retry, None without one.                                                 *)
SelectsInline(ordinary, inline, resolved) ==
    /\ inline # None
    /\ resolved
    /\ inline # "analysis failed"
    /\ ordinary = "differences"

Verdict(ordinary, inline, resolved) ==
    IF SelectsInline(ordinary, inline, resolved) THEN inline ELSE ordinary

-------------------------------------------------------------------------------
Matches(s, t) ==
    \E m \in Injection(DOMAIN s, DOMAIN t) : \A i \in DOMAIN s : Consistent(s[i], t[m[i]])

(* What one side has is consistent with one content of the other at most. *)
Unambiguous(s, t) ==
    \A i \in DOMAIN s, j, k \in DOMAIN t :
       Consistent(s[i], t[j]) /\ Consistent(s[i], t[k]) => t[j] = t[k]

(* Silence is earned: without a finding every paired object both sides      *)
(* refer to has equal contents, where they can be compared, and the other   *)
(* contents of one side all have a consistent partner of their own on the   *)
(* other.  Where no content has a choice between different partners that is *)
(* exact, in any order of the references: renderings that agree are no      *)
(* difference.  (With a choice the first partner is taken, and a finding    *)
(* can remain that another order would not report.)                         *)
SilenceIsEarned(orig, recomp) ==
    LET a == ByIdentity(orig)
        b == ByIdentity(recomp)
        differ == \E o \in DOMAIN a \cap DOMAIN b :
                     Comparable(a[o]) /\ Comparable(b[o]) /\ a[o] # b[o]
        s == Rest(orig)
        t == Rest(recomp)
        covered == Matches(s, t) \/ Matches(t, s)
    IN /\ ~Findings(orig, recomp) => ~differ /\ covered
       /\ ~differ /\ covered /\ Unambiguous(s, t) /\ Unambiguous(t, s)
             => ~Findings(orig, recomp)
===============================================================================
