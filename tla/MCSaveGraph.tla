---------------------------- MODULE MCSaveGraph ----------------------------
(* Instances of SaveGraph for TLC.                                         *)
EXTENDS SaveGraph, TLC

CONSTANTS a, b, c, d, e, x, y, z

Belongs(col, to) == [kind |-> "belongs", col |-> col, to |-> to]
One(col, to)     == [kind |-> "one", col |-> col, to |-> to]
Many(col, to)    == [kind |-> "many", col |-> col, to |-> to]
M2M(col, to)     == [kind |-> "m2m", col |-> col, to |-> to]

To(pairs) == [o \in Objs |-> IF o \in DOMAIN pairs THEN pairs[o] ELSE <<>>]

WorldOf(relations, keyed) ==
    [root |-> a, relations |-> relations, keyed |-> keyed, stored |-> ToSet(keyed),
     transaction |-> TRUE, full |-> FALSE, reuses |-> FALSE]

(* An object that belongs to b, has c and d and is linked with e.          *)
Tree(keyed) == WorldOf(<<Belongs(x, To(a :> <<b>>)), Many(y, To(a :> <<c, d>>)),
                          M2M(z, To(a :> <<e>>))>>, keyed)
(* A parent and its children, which refer to it by the same key.           *)
Family == WorldOf(<<Belongs(x, To(b :> <<a>> @@ c :> <<a>>)),
                    Many(x, To(a :> <<b, c>>))>>, <<>>)
(* Two that belong to each other, and two that have each other.            *)
Couple == WorldOf(<<Belongs(x, To(a :> <<b>> @@ b :> <<a>>))>>, <<>>)
Twins  == WorldOf(<<One(x, To(a :> <<b>> @@ b :> <<a>>))>>, <<>>)
(* Friends of friends in a circle.                                         *)
Circle == WorldOf(<<M2M(z, To(a :> <<b, c>> @@ b :> <<c>> @@ c :> <<a>>))>>, <<>>)
(* a belongs to b and has d; b has d as well.                              *)
Diamond == WorldOf(<<Belongs(x, To(a :> <<b>>)), One(y, To(b :> <<d>>)),
                     One(z, To(a :> <<d>>))>>, <<>>)
(* The two that a has belong to one that is new.                           *)
Shared(keyed) ==
    WorldOf(<<Belongs(x, To(b :> <<d>> @@ c :> <<d>>)), Many(y, To(a :> <<b, c>>))>>,
            keyed)

(* Two that are linked with a, of which the first has a primary key chosen *)
(* by the caller.                                                          *)
Keyed == [WorldOf(<<M2M(z, To(a :> <<b, c>>))>>, <<b>>) EXCEPT !.stored = {}]
KeyedWorlds == {Keyed}

Graphs == {Tree(<<>>), Tree(<<b, c>>), Family, Couple, Twins, Circle, Diamond,
           Shared(<<>>), Shared(<<d>>)}
AllWorlds ==
    Graphs \cup {[w EXCEPT !.transaction = FALSE] : w \in Graphs}
           \cup {[w EXCEPT !.full = TRUE] : w \in Graphs}
           \cup {[w EXCEPT !.reuses = TRUE] : w \in Graphs}
=============================================================================
