---------------------------- MODULE MCAssociation ----------------------------
(* Instances of Association for TLC.                                       *)
EXTENDS Association

CONSTANTS o1, o2, t1, t2, t3, p1, p2

MCStarts == {
    [kind |-> "belongs_to",   links |-> {<<o1, t1>>, <<o2, t1>>}],
    [kind |-> "has_one",      links |-> {<<o1, t1>>, <<o2, t2>>}],
    [kind |-> "has_many",     links |-> {<<o1, t1>>, <<o2, t2>>}],
    [kind |-> "has_many",     links |-> {<<o1, t1>>, <<o1, t2>>}],
    [kind |-> "many_to_many", links |-> {<<o1, t1>>, <<o1, t2>>, <<o2, t1>>}]}

Symmetry == Permutations(Programs)
=============================================================================
