------------------------------ MODULE Relations ------------------------------
(***************************************************************************)
(* Relations between models and the foreign keys they imply                *)
(* (gorm/schema/relationship.go): how a field of a struct type is guessed  *)
(* to be a relation of some kind, what a many2many field adds, which       *)
(* schema learns of it, and the constraint a relation stands for.          *)
(*                                                                         *)
(* Every model has the one primary key ID, so that a reference is a pair   *)
(* of a column and the model it points to.  A column is a pair: <<"User",  *)
(* "ID">> is user_id, <<"", "Name">> is name.  Embedded structs and        *)
(* composite keys are left out.                                            *)
(***************************************************************************)
EXTENDS Integers, Sequences, SequencesExt, FiniteSets

CONSTANTS
    Models,      \* the models of the program
    JoinTables,  \* the models of the tables made for many2many fields
    Columns,     \* model or join table -> its columns but for ID
    Fields,      \* model -> its fields whose type is a model or a slice of one
    None         \* no value

(* A field, with its tags: the key that FOREIGNKEY names, the JOIN table,  *)
(* CONSTRAINT:- , and whether it is tagged BELONGSTO or POLYMORPHIC.       *)
Field == [name : STRING, slice : BOOLEAN, to : Models, key : UNION {Columns[m] : m \in Models} \cup {None},
          join : JoinTables \cup {None}, tag : {"", "belongsTo", "polymorphic"}, off : BOOLEAN]

ASSUME ModelsAssumption ==
    /\ Models \cap JoinTables = {} /\ None \notin Models \cup JoinTables /\ IsFiniteSet(Models)
    /\ \A t \in Models \cup JoinTables : IsFiniteSet(Columns[t])
(* A polymorphic field names a column of the other model; a join table has *)
(* the columns that buildMany2ManyRelation makes for it.                   *)
ASSUME FieldsAssumption ==
    \A m \in Models :
        /\ Fields[m] \subseteq Field /\ IsFiniteSet(Fields[m])
        /\ \A f \in Fields[m] :
              /\ f.tag = "polymorphic" => f.key \in Columns[f.to]
              /\ f.join # None =>
                    {<<m, "ID">>, <<IF f.to = m THEN f.name ELSE f.to, "ID">>} \subseteq Columns[f.join]

Relation(m, f, type, child, key, parent) ==
    [name |-> f.name, type |-> type, schema |-> m, to |-> f.to, join |-> f.join,
     polymorphic |-> f.tag = "polymorphic", off |-> f.off,
     child |-> child, key |-> key, parent |-> parent]

(* guessRelation at the levels guessHas and guessBelongs: the set of the   *)
(* relation found there, or no relation.                                   *)
GuessHas(m, f) ==
    LET key == IF f.key # None THEN f.key ELSE <<m, "ID">>
    IN  IF key \in Columns[f.to] THEN {Relation(m, f, "has", f.to, key, m)} ELSE {}
GuessBelongs(m, f) ==
    LET key == IF f.key # None THEN f.key ELSE <<f.name, "ID">>
    IN  IF key \in Columns[m] THEN {Relation(m, f, "belongs_to", m, key, f.to)} ELSE {}

OrElse(found, other) == IF found # {} THEN found ELSE other

(* guessRelation: a slice is a has relation; a struct of its own type, or  *)
(* one tagged so, is first taken to belong to it, any other one to have it.*)
GuessRelation(m, f) ==
    IF f.slice THEN GuessHas(m, f)
    ELSE IF f.to = m \/ f.tag = "belongsTo" THEN OrElse(GuessBelongs(m, f), GuessHas(m, f))
    ELSE OrElse(GuessHas(m, f), GuessBelongs(m, f))

(* parseRelation.  A polymorphic one has the owner's ID in <name>_id.      *)
ParseRelation(m, f) ==
    IF f.tag = "polymorphic" THEN {Relation(m, f, "has", f.to, f.key, m)}
    ELSE IF f.join # None THEN {Relation(m, f, "many_to_many", f.join, <<m, "ID">>, m)}
    ELSE GuessRelation(m, f)

OwnRelations == [m \in Models |-> UNION {ParseRelation(m, f) : f \in Fields[m]}]

(* buildMany2ManyRelation: the join table belongs to both sides.           *)
JoinRelations(j) ==
    UNION {UNION {LET back == IF f.to = m THEN f.name ELSE f.to
                  IN  {[Relation(m, f, "belongs_to", j, <<m, "ID">>, m)
                          EXCEPT !.name = m, !.schema = j, !.to = m, !.join = None],
                       [Relation(m, f, "belongs_to", j, <<back, "ID">>, f.to)
                          EXCEPT !.name = back, !.schema = j, !.join = None]}
                  : f \in {x \in Fields[m] : x.join = j}} : m \in Models}

(* What is in Relations of schema s when the schemas in `parsed` have been *)
(* parsed: its own relations, and those another schema has registered with *)
(* it because it is their far end.                                         *)
RelationsOf(s, parsed) ==
    (IF s \in JoinTables THEN JoinRelations(s) ELSE OwnRelations[s])
    \cup {r \in UNION {OwnRelations[m] : m \in parsed} :
              r.type = "has" /\ ~r.polymorphic /\ r.to = s /\ r.schema # s}

(* Mutant: the other end is not looked for.                                *)
ParseConstraintBoth(r, parsed) ==
    IF r.off THEN {} ELSE {[kind |-> "fk", name |-> <<"fk", r.schema, r.name>>, on |-> r.child, column |-> r.key, ref |-> r.parent]}

(* ParseConstraint: no constraint if it is turned off, or if the relation  *)
(* belongs to a schema with a relation that comes back by the same         *)
(* reference; otherwise the foreign key, on the schema that has the column *)
(* and named after the relation (RelationshipFKName).                      *)
ParseConstraint(r, parsed) ==
    LET returns == {q \in RelationsOf(r.to, parsed) \ {r} :
                      /\ q.to = r.schema /\ q.type # "many_to_many" /\ ~q.polymorphic
                      /\ q.child = r.child /\ q.key = r.key /\ q.parent = r.parent}
    IN  IF r.off \/ (r.type = "belongs_to" /\ returns # {}) THEN {}
        ELSE {[kind |-> "fk", name |-> <<"fk", r.schema, r.name>>, on |-> r.child, column |-> r.key, ref |-> r.parent]}

(* The foreign keys of table s: those of its Relations that are on it.     *)
ForeignKeys == [s \in Models \cup JoinTables |-> [parsed \in SUBSET Models |->
    {c \in UNION {ParseConstraint(r, parsed) : r \in RelationsOf(s, parsed)} : c.on = s}]]

(* The models that are parsed with m: those its relations lead to.         *)
Reach == [m \in Models \cup JoinTables |->
    LET step[n \in 0..Cardinality(Models)] ==
            IF n = 0 THEN {m} \cap Models
            ELSE step[n - 1] \cup {f.to : f \in UNION {Fields[x] : x \in step[n - 1]}}
    IN  step[Cardinality(Models)]]
=============================================================================
