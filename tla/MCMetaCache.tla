---------------------------- MODULE MCMetaCache -----------------------------
(* Finite instances of MetaCache: a parent with a child table, whose rows     *)
(* link back to the parent from the second revision on, or one doctype alone. *)
EXTENDS MetaCache, TLC

CONSTANTS parent, child

MCDocs == {parent, child}
MCTables == [d \in MCDocs |-> [rev \in 0..MaxRev |-> IF d = parent THEN <<child>> ELSE <<>>]]
MCLinks ==
    [d \in MCDocs |->
        [rev \in 0..MaxRev |-> IF d = child /\ rev = 2 THEN <<parent>> ELSE <<>>]]

MCOneDoc == {parent}
MCNoTargets == [d \in MCOneDoc |-> [rev \in 0..MaxRev |-> <<>>]]

Symmetry == Permutations(Reqs)

=============================================================================
