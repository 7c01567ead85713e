------------------------------ MODULE Reorder ------------------------------
(***************************************************************************)
(* ReorderModels (gorm/migrator/migrator.go): the models of a call of      *)
(* AutoMigrate are parsed, each with the models its relations lead to, and *)
(* put in an order in which a table comes after those it refers to, as far *)
(* as the schemas that have been parsed by then tell.                      *)
(***************************************************************************)
EXTENDS Relations, TLC

(* ReorderModels.  s.parsed: the schema cache; s.deps: valuesMap, a table  *)
(* and what it depends on; s.names: modelNames.  Relations is a Go map:    *)
(* `back` stands for the order it is ranged over.                          *)
InMapOrder(S, back) == IF back THEN Reverse(SetToSeq(S)) ELSE SetToSeq(S)

RECURSIVE ParseDependence(_, _, _, _, _)
ParseDependence(s, m, add, autoAdd, back) ==
    LET cache    == s.parsed \cup Reach[m]
        rels     == RelationsOf(m, cache)
        refs     == {c.ref : c \in ForeignKeys[m][cache]} \ {m}
        depended == {r.to : r \in {x \in rels : x.type = "has"}}
        joins    == {r \in rels : r.type = "many_to_many"}
        noted    == [s EXCEPT !.parsed = cache, !.deps = (m :> InMapOrder(refs, back)) @@ @,
                              !.names = IF add THEN Append(@, m) ELSE @]
        (* the deferred functions: what they append to dep.Depends is lost *)
        Join(t, r) ==
            LET far == IF r.to \in depended THEN ParseDependence(t, r.to, autoAdd, autoAdd, back) ELSE t
            IN  ParseDependence(far, r.join, autoAdd, autoAdd, back)
    IN  IF m \in DOMAIN s.deps THEN [s EXCEPT !.parsed = cache]
        ELSE FoldLeft(Join, noted, InMapOrder(joins, ~back))

RECURSIVE InsertIntoOrderedList(_, _, _, _)
InsertIntoOrderedList(s, m, autoAdd, back) ==
    LET Depend(t, d) == InsertIntoOrderedList(
            IF d \in DOMAIN t.deps THEN t ELSE ParseDependence(t, d, autoAdd, autoAdd, back), d, autoAdd, back)
        marked == [s EXCEPT !.marked = @ \cup {m}]
        inner  == IF autoAdd THEN FoldLeft(Depend, marked, marked.deps[m]) ELSE marked
    IN  IF m \in s.marked THEN s ELSE [inner EXCEPT !.ordered = Append(@, m)]

(* Mutant: the models in the order they are parsed in.                     *)
ReorderModelsAsGiven(values, cache, autoAdd, back) ==
    LET none   == [parsed |-> cache, deps |-> << >>, names |-> <<>>, ordered |-> <<>>]
        Parse(s, m) == ParseDependence(s, m, TRUE, autoAdd, back)
        all    == FoldLeft(Parse, none, values)
    IN  [all EXCEPT !.ordered = all.names]

ReorderModels(values, cache, autoAdd, back) ==
    LET none   == [parsed |-> cache, deps |-> << >>, names |-> <<>>, marked |-> {}, ordered |-> <<>>]
        Parse(s, m)  == ParseDependence(s, m, TRUE, autoAdd, back)
        Insert(s, m) == InsertIntoOrderedList(s, m, autoAdd, back)
        all    == FoldLeft(Parse, none, values)
    IN  FoldLeft(Insert, all, all.names)
=============================================================================
