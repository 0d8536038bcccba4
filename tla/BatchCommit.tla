------------------------------ MODULE BatchCommit ------------------------------
(***************************************************************************)
(* EntityBatch.commit as its loops run: the staged pairs are first reduced *)
(* with two "used" sets (_finalized_matches), then grouped by basis in the *)
(* order the bases are first seen, and each group goes to bulk_match, whose *)
(* loop tests the match maps it is filling.  EntityDb states the outcome   *)
(* without the loops; the property here is that the two agree.             *)
(***************************************************************************)
EXTENDS EntityDb

(* A "for" loop: what step makes of init, one element after another.  (The  *)
(* folds of the community modules go through sets, of which no proof here   *)
(* could follow the order.)                                                 *)
AfterAll(step(_, _), init, list) ==
    LET after[n \in 0 .. Len(list)] ==
            IF n = 0 THEN init ELSE step(after[n - 1], list[n])
    IN after[Len(list)]

(* _finalized_matches, its body: a pair is retained if both its addresses   *)
(* are still unused.                                                        *)
Unused == [orig |-> {}, recomp |-> {}, kept |-> <<>>]

Retain(acc, p) ==
    IF p.orig \in acc.orig \/ p.recomp \in acc.recomp
    THEN acc
    ELSE [orig |-> acc.orig \cup {p.orig},
          recomp |-> acc.recomp \cup {p.recomp},
          kept |-> Append(acc.kept, p)]

Finalized(list) == AfterAll(Retain, Unused, list).kept

(* by_basis: the bases in first-seen order, and the group of each. *)
NoGroups == [order |-> <<>>, group |-> [b \in Bases |-> <<>>]]

PutByBasis(acc, p) ==
    [order |-> IF acc.group[p.basis] = <<>> THEN Append(acc.order, p.basis) ELSE acc.order,
     group |-> [acc.group EXCEPT ![p.basis] = Append(@, p)]]

ByBasis(list) == AfterAll(PutByBasis, NoGroups, list)

(* bulk_match, the body of its loop, on all the catalog keeps of a pair.    *)
(* (The address index is added to after the loop, which does not read it.)  *)
MatchOne(books, p) ==
    IF \E s \in Sides : books.matches[s][End(p, s)] # None
    THEN books
    ELSE [matches |-> [s \in Sides |-> [books.matches[s] EXCEPT ![End(p, s)] = Far(p, s)]],
          link |-> [s \in Sides |-> [books.link[s] EXCEPT ![End(p, s)] = Far(p, s)]],
          basis |-> [books.basis EXCEPT ![p.orig] = p.basis],
          aliases |-> [s \in Sides |-> [books.aliases[s] EXCEPT ![End(p, s)] = None]],
          present |-> [s \in Sides |-> books.present[s] \cup {End(p, s)}],
          indexed |-> [s \in Sides |-> books.indexed[s] \cup {End(p, s)}]]

MatchLoop(books, list) == AfterAll(MatchOne, books, list)

(* The catalog after bulk_insert. *)
Inserted ==
    [matches |-> matches, link |-> link, basis |-> basis, aliases |-> aliases,
     present |-> [s \in Sides |-> present[s] \cup rows[s]],
     indexed |-> [s \in Sides |-> indexed[s] \cup rows[s]]]

(* commit, down to its reset. *)
Committed ==
    LET groups == ByBasis(Finalized(staged))
        matchGroup(books, b) == MatchLoop(books, groups.group[b])
    IN AfterAll(matchGroup, Inserted, groups.order)

(* Whatever was staged, the loops of commit leave the catalog that Commit   *)
(* leaves: the reduction, the grouping by basis and the order of the groups *)
(* do not change which pairs the catalog ends up with.                      *)
LoopsAgreeWithCommit ==
    [][Commit => Committed = [matches |-> matches', link |-> link', basis |-> basis',
                              aliases |-> aliases', present |-> present',
                              indexed |-> indexed']]_vars
================================================================================
