--------------------------- MODULE MigrationProofs ---------------------------
(***************************************************************************)
(* What Migration keeps for any number of callers, whatever the models and *)
(* their relations are, the database is at first and the order is in which *)
(* the models are seen to:                                                 *)
(*                                                                         *)
(*   MigrationTypes      the values of the variables                       *)
(*   MigrationComplete   a call without an error leaves what is declared   *)
(*   MigrationKeepsData  no statement loses a table, a column or rows      *)
(*                                                                         *)
(* First come the sequences and the constraints that Relations declares;   *)
(* then the inductive invariant, Inv; what each statement does to a table  *)
(* (RunEffect); what is decided on for each column, constraint and index   *)
(* (DecideStatements); and a lemma for each action.                        *)
(*                                                                         *)
(* Complete alone is not inductive.  What a running call has yet to see to *)
(* must be accounted for: in Ahead a declared part of the table it is at   *)
(* is there, or left to look at, or decided on.  That needs what has been  *)
(* read before to hold still (SeenStill), the order of the work (InOrder), *)
(* and with SQLite, where a table made anew loses its indexes, that        *)
(* indexes are looked at last (IndexesLast) and one call runs (Single).    *)
(***************************************************************************)
EXTENDS Migration, SequenceTheorems, FiniteSetTheorems, TLAPS

-----------------------------------------------------------------------------
(* Sequences and what is in them.                                          *)

LEMMA ToSetConcat ==
    ASSUME NEW S, NEW s \in Seq(S), NEW u \in Seq(S)
    PROVE  s \o u \in Seq(S) /\ ToSet(s \o u) = ToSet(s) \cup ToSet(u)
<1>1. /\ s \o u \in Seq(S) /\ Len(s \o u) = Len(s) + Len(u)
      /\ \A i \in 1..Len(s) : (s \o u)[i] = s[i]
      /\ \A i \in 1..Len(u) : (s \o u)[Len(s) + i] = u[i]
    BY ConcatProperties
<1>2. /\ Len(s) \in Nat /\ Len(u) \in Nat
      /\ DOMAIN s = 1..Len(s) /\ DOMAIN u = 1..Len(u) /\ DOMAIN (s \o u) = 1..Len(s \o u)
    BY <1>1
<1> DEFINE w == s \o u
<1> HIDE DEF w
<1>3. ASSUME NEW x \in ToSet(w) PROVE x \in ToSet(s) \cup ToSet(u)
    <2>1. PICK i \in 1..(Len(s) + Len(u)) : x = w[i]
        BY <1>1, <1>2 DEF ToSet, w
    <2>2. CASE i \leq Len(s)
        BY <1>1, <1>2, <2>1, <2>2 DEF ToSet, w
    <2>3. CASE i > Len(s)
        <3>1. i - Len(s) \in 1..Len(u) /\ Len(s) + (i - Len(s)) = i
            BY <1>2, <2>1, <2>3
        <3>2. w[i] = u[i - Len(s)]
            BY <1>1, <3>1 DEF w
        <3>3. QED
            BY <1>2, <2>1, <3>1, <3>2 DEF ToSet
    <2>4. QED
        BY <1>2, <2>1, <2>2, <2>3
<1>4. ASSUME NEW x \in ToSet(s) PROVE x \in ToSet(w)
    <2>1. PICK i \in 1..Len(s) : x = s[i]
        BY <1>2 DEF ToSet
    <2>2. i \in 1..(Len(s) + Len(u)) /\ w[i] = x
        BY <1>1, <1>2, <2>1 DEF w
    <2>3. QED
        BY <1>1, <1>2, <2>2 DEF ToSet, w
<1>5. ASSUME NEW x \in ToSet(u) PROVE x \in ToSet(w)
    <2>1. PICK i \in 1..Len(u) : x = u[i]
        BY <1>2 DEF ToSet
    <2>2. Len(s) + i \in 1..(Len(s) + Len(u)) /\ w[Len(s) + i] = x
        BY <1>1, <1>2, <2>1 DEF w
    <2>3. QED
        BY <1>1, <1>2, <2>2 DEF ToSet, w
<1>6. QED
    BY <1>1, <1>3, <1>4, <1>5 DEF w

LEMMA ToSetTail ==
    ASSUME NEW S, NEW s \in Seq(S), s # <<>>
    PROVE  /\ Head(s) = s[1] /\ Head(s) \in S /\ Head(s) \in ToSet(s)
           /\ Tail(s) \in Seq(S) /\ Len(Tail(s)) = Len(s) - 1
           /\ Len(s) \in Nat /\ Len(s) # 0
           /\ \A i \in 1..(Len(s) - 1) : Tail(s)[i] = s[i + 1]
           /\ ToSet(s) = {Head(s)} \cup ToSet(Tail(s))
<1>1. Len(s) \in Nat /\ Len(s) # 0
    BY EmptySeq
<1>2. Head(s) = s[1] /\ s[1] \in S
    BY <1>1
<1>3. /\ Tail(s) \in Seq(S) /\ Len(Tail(s)) = Len(s) - 1
      /\ \A i \in 1..(Len(s) - 1) : Tail(s)[i] = s[i + 1]
    BY <1>1, HeadTailProperties
<1>4. DOMAIN s = 1..Len(s) /\ DOMAIN Tail(s) = 1..(Len(s) - 1)
    BY <1>1, <1>3
<1> DEFINE t == Tail(s)
<1> HIDE DEF t
<1>5. ASSUME NEW x \in ToSet(s) PROVE x = s[1] \/ x \in ToSet(t)
    <2>1. PICK i \in 1..Len(s) : x = s[i]
        BY <1>4 DEF ToSet
    <2>2. i # 1 => i - 1 \in 1..(Len(s) - 1) /\ t[i - 1] = s[(i - 1) + 1] /\ (i - 1) + 1 = i
        BY <1>1, <1>3, <2>1 DEF t
    <2>3. QED
        BY <1>4, <2>1, <2>2 DEF ToSet, t
<1>6. ASSUME NEW x \in ToSet(t) PROVE x \in ToSet(s)
    <2>1. PICK i \in 1..(Len(s) - 1) : x = t[i]
        BY <1>4 DEF ToSet, t
    <2>2. i + 1 \in 1..Len(s) /\ s[i + 1] = x
        BY <1>1, <1>3, <2>1 DEF t
    <2>3. QED
        BY <1>4, <2>2 DEF ToSet
<1>7. s[1] \in ToSet(s)
    <2>1. 1 \in 1..Len(s)
        BY <1>1
    <2>2. QED
        BY <1>4, <2>1 DEF ToSet
<1>8. QED
    BY <1>1, <1>2, <1>3, <1>5, <1>6, <1>7 DEF t

LEMMA HeadTailConcat ==
    ASSUME NEW S, NEW x \in S, NEW s \in Seq(S)
    PROVE  Head(<<x>> \o s) = x /\ Tail(<<x>> \o s) = s /\ <<x>> \o s # <<>>
<1> DEFINE w == <<x>> \o s
<1>1. <<x>> \in Seq(S) /\ Len(<<x>>) = 1 /\ <<x>>[1] = x
    OBVIOUS
<1>2. /\ w \in Seq(S) /\ Len(w) = 1 + Len(s)
      /\ \A i \in 1..1 : w[i] = <<x>>[i]
      /\ \A i \in 1..Len(s) : w[1 + i] = s[i]
    BY <1>1, ConcatProperties
<1> HIDE DEF w
<1>3. Len(s) \in Nat /\ w # <<>>
    BY <1>2
<1>4. /\ Head(w) = w[1] /\ Tail(w) \in Seq(S) /\ Len(Tail(w)) = Len(w) - 1
      /\ \A i \in 1..(Len(w) - 1) : Tail(w)[i] = w[i + 1]
    BY <1>2, <1>3, ToSetTail
<1>5. Len(Tail(w)) = Len(s) /\ \A i \in 1..Len(s) : Tail(w)[i] = s[i]
    BY <1>2, <1>3, <1>4
<1>6. Tail(w) = s
    BY <1>4, <1>5, SeqEqual
<1>7. QED
    BY <1>1, <1>2, <1>3, <1>4, <1>6 DEF w

LEMMA ToSetShort ==
    ASSUME NEW S, NEW x \in S
    PROVE  /\ <<>> \in Seq(S) /\ ToSet(<<>>) = {}
           /\ <<x>> \in Seq(S) /\ ToSet(<<x>>) = {x}
<1>1. <<>> \in Seq(S) /\ DOMAIN <<>> = {}
    OBVIOUS
<1>2. <<x>> \in Seq(S) /\ DOMAIN <<x>> = {1} /\ <<x>>[1] = x
    OBVIOUS
<1>3. QED
    BY <1>1, <1>2 DEF ToSet

(* A finite set as a sequence has each of its members once.                *)
LEMMA SetToSeqProperties ==
    ASSUME NEW T, IsFiniteSet(T)
    PROVE  /\ SetToSeq(T) \in Seq(T) /\ ToSet(SetToSeq(T)) = T
           /\ \A i, j \in DOMAIN SetToSeq(T) : SetToSeq(T)[i] = SetToSeq(T)[j] => i = j
<1> DEFINE n == Cardinality(T)
<1>1. n \in Nat /\ ExistsBijection(1..n, T)
    BY FS_CardinalityType
<1> HIDE DEF n
<1>2. \E f \in [1..n -> T] : IsInjective(f)
    BY <1>1 DEF ExistsBijection, Bijection, Injection
<1>3. SetToSeq(T) = CHOOSE f \in [1..n -> T] : IsInjective(f)
    BY DEF SetToSeq, n
<1>4. SetToSeq(T) \in [1..n -> T] /\ IsInjective(SetToSeq(T))
    BY <1>2, <1>3
<1>5. PICK s \in [1..n -> T] : s = SetToSeq(T)
    BY <1>4
<1>6. s \in Injection(1..n, T)
    BY <1>4, <1>5 DEF Injection
<1>7. IsFiniteSet(1..n) /\ Cardinality(1..n) = n
    <2>1. 1 \in Int /\ n \in Int /\ (IF 1 > n THEN 0 ELSE n - 1 + 1) = n
        BY <1>1
    <2>2. QED
        BY <2>1, FS_Interval
<1>8. s \in Surjection(1..n, T)
    BY <1>6, <1>7, FS_Injection DEF n
<1>9. \A x \in T : \E i \in 1..n : s[i] = x
    BY <1>8 DEF Surjection
<1>10. s \in Seq(T)
    BY <1>1
<1>11. ToSet(s) = T
    BY <1>9 DEF ToSet
<1>12. QED
    BY <1>4, <1>5, <1>10, <1>11 DEF IsInjective

(* The values of a function on a finite set.                               *)
LEMMA ImageFinite ==
    ASSUME NEW S, IsFiniteSet(S), NEW f, f \in [S -> {f[x] : x \in S}]
    PROVE  IsFiniteSet({f[x] : x \in S})
<1>1. f \in Surjection(S, {f[x] : x \in S})
    BY DEF Surjection
<1>2. QED
    BY <1>1, FS_Surjection

-----------------------------------------------------------------------------
(* The constraints that a model declares.                                  *)

(* A relation whose foreign key is a column of one table and refers to     *)
(* another.                                                                *)
Proper(r) ==
    /\ r.schema \in Tables /\ r.name \in STRING \cup Models
    /\ r.child \in Tables /\ r.key \in Columns[r.child] /\ r.parent \in Tables

LEMMA FieldType ==
    ASSUME NEW m \in Models, NEW f \in Fields[m]
    PROVE  /\ f.name \in STRING /\ f.to \in Models /\ f.join \in JoinTables \cup {None}
           /\ f.tag = "polymorphic" => f.key \in Columns[f.to]
           /\ f.join # None => /\ <<m, "ID">> \in Columns[f.join]
                               /\ <<IF f.to = m THEN f.name ELSE f.to, "ID">> \in Columns[f.join]
<1>1. f \in Field
    BY FieldsAssumption
<1>2. QED
    BY <1>1, FieldsAssumption DEF Field

LEMMA ParseRelationProper ==
    ASSUME NEW m \in Models, NEW f \in Fields[m]
    PROVE  /\ \A r \in ParseRelation(m, f) : Proper(r)
           /\ IsFiniteSet(ParseRelation(m, f))
<1>1. /\ f.name \in STRING /\ f.to \in Models /\ f.join \in JoinTables \cup {None}
      /\ f.tag = "polymorphic" => f.key \in Columns[f.to]
      /\ f.join # None => <<m, "ID">> \in Columns[f.join]
    BY FieldType
<1>2. ASSUME NEW type, NEW child \in Tables, NEW key \in Columns[child], NEW parent \in Models
      PROVE  Proper(Relation(m, f, type, child, key, parent))
    BY <1>1 DEF Proper, Relation, Tables
<1>3. m \in Tables /\ f.to \in Tables /\ (f.join # None => f.join \in Tables)
    BY <1>1 DEF Tables
<1>4. \A r \in GuessHas(m, f) : Proper(r)
    BY <1>1, <1>2, <1>3 DEF GuessHas
<1>5. \A r \in GuessBelongs(m, f) : Proper(r)
    BY <1>1, <1>2, <1>3 DEF GuessBelongs
<1>6. IsFiniteSet(GuessHas(m, f)) /\ IsFiniteSet(GuessBelongs(m, f))
    BY FS_EmptySet, FS_Singleton DEF GuessHas, GuessBelongs
<1>7. \A r \in GuessRelation(m, f) : Proper(r)
    BY <1>4, <1>5 DEF GuessRelation, OrElse
<1>8. IsFiniteSet(GuessRelation(m, f))
    BY <1>6 DEF GuessRelation, OrElse
<1>9. CASE f.tag = "polymorphic"
    BY <1>1, <1>2, <1>3, <1>9, FS_Singleton DEF ParseRelation
<1>10. CASE f.tag # "polymorphic" /\ f.join # None
    BY <1>1, <1>2, <1>3, <1>10, FS_Singleton DEF ParseRelation
<1>11. CASE f.tag # "polymorphic" /\ f.join = None
    BY <1>7, <1>8, <1>11 DEF ParseRelation
<1>12. QED
    BY <1>9, <1>10, <1>11

LEMMA OwnRelationsProper ==
    ASSUME NEW m \in Models
    PROVE  (\A r \in OwnRelations[m] : Proper(r)) /\ IsFiniteSet(OwnRelations[m])
<1>1. OwnRelations[m] = UNION {ParseRelation(m, f) : f \in Fields[m]}
    BY DEF OwnRelations
<1>2. \A r \in OwnRelations[m] : Proper(r)
    BY <1>1, ParseRelationProper
<1> DEFINE g == [f \in Fields[m] |-> ParseRelation(m, f)]
<1>3. {ParseRelation(m, f) : f \in Fields[m]} = {g[f] : f \in Fields[m]}
    OBVIOUS
<1>4. IsFiniteSet(Fields[m])
    BY FieldsAssumption
<1>5. g \in [Fields[m] -> {g[f] : f \in Fields[m]}]
    OBVIOUS
<1>6. IsFiniteSet({g[f] : f \in Fields[m]})
    <2> HIDE DEF g
    <2> QED BY <1>4, <1>5, ImageFinite
<1>7. \A T \in {ParseRelation(m, f) : f \in Fields[m]} : IsFiniteSet(T)
    BY ParseRelationProper
<1>8. IsFiniteSet(OwnRelations[m])
    <2> HIDE DEF g
    <2> QED BY <1>1, <1>3, <1>6, <1>7, FS_UNION
<1>9. QED
    BY <1>2, <1>8

LEMMA JoinRelationsProper ==
    ASSUME NEW j \in JoinTables
    PROVE  (\A r \in JoinRelations(j) : Proper(r)) /\ IsFiniteSet(JoinRelations(j))
<1> DEFINE back(m, f) == IF f.to = m THEN f.name ELSE f.to
           pair(m, f) ==
               {[Relation(m, f, "belongs_to", j, <<m, "ID">>, m)
                   EXCEPT !.name = m, !.schema = j, !.to = m, !.join = None],
                [Relation(m, f, "belongs_to", j, <<back(m, f), "ID">>, f.to)
                   EXCEPT !.name = back(m, f), !.schema = j, !.join = None]}
           fields(m) == {x \in Fields[m] : x.join = j}
           of(m) == UNION {pair(m, f) : f \in fields(m)}
<1>1. JoinRelations(j) = UNION {of(m) : m \in Models}
    BY DEF JoinRelations
<1>2. ASSUME NEW m \in Models, NEW f \in fields(m), NEW r \in pair(m, f)
      PROVE  Proper(r)
    <2>1. f \in Fields[m] /\ f.join = j /\ j # None /\ j \in Tables /\ m \in Tables
        BY ModelsAssumption DEF Tables
    <2>2. /\ f.name \in STRING /\ f.to \in Models /\ f.to \in Tables
          /\ <<m, "ID">> \in Columns[j] /\ <<back(m, f), "ID">> \in Columns[j]
        BY <2>1, FieldType DEF Tables
    <2>3. back(m, f) \in STRING \cup Models
        BY <2>2
    <2>4. CASE r = [Relation(m, f, "belongs_to", j, <<m, "ID">>, m)
                      EXCEPT !.name = m, !.schema = j, !.to = m, !.join = None]
        BY <2>1, <2>2, <2>4 DEF Proper, Relation
    <2>5. CASE r = [Relation(m, f, "belongs_to", j, <<back(m, f), "ID">>, f.to)
                      EXCEPT !.name = back(m, f), !.schema = j, !.join = None]
        <3> HIDE DEF back
        <3> QED BY <2>1, <2>2, <2>3, <2>5 DEF Proper, Relation
    <2>6. QED
        BY <2>4, <2>5
<1>3. \A r \in JoinRelations(j) : Proper(r)
    <2> HIDE DEF pair, fields
    <2> QED BY <1>1, <1>2
<1>4. ASSUME NEW m \in Models PROVE IsFiniteSet(of(m))
    <2> DEFINE g == [f \in fields(m) |-> pair(m, f)]
    <2>1. IsFiniteSet(fields(m))
        BY FieldsAssumption, FS_Subset
    <2>2. {pair(m, f) : f \in fields(m)} = {g[f] : f \in fields(m)}
        OBVIOUS
    <2>3. g \in [fields(m) -> {g[f] : f \in fields(m)}]
        OBVIOUS
    <2>4. IsFiniteSet({g[f] : f \in fields(m)})
        <3> HIDE DEF g, fields
        <3> QED BY <2>1, <2>3, ImageFinite
    <2>5. ASSUME NEW f PROVE IsFiniteSet(pair(m, f))
        <3>1. ASSUME NEW x, NEW y PROVE IsFiniteSet({x, y})
            <4>1. IsFiniteSet({x} \cup {y})
                BY FS_Singleton, FS_AddElement
            <4>2. {x} \cup {y} = {x, y}
                OBVIOUS
            <4>3. QED
                BY <4>1, <4>2
        <3>2. QED
            BY <3>1
    <2> HIDE DEF g, pair, fields
    <2>6. \A T \in {pair(m, f) : f \in fields(m)} : IsFiniteSet(T)
        BY <2>5
    <2>7. QED
        BY <2>2, <2>4, <2>6, FS_UNION
<1> DEFINE h == [m \in Models |-> of(m)]
<1> HIDE DEF pair, fields
<1>5. {of(m) : m \in Models} = {h[m] : m \in Models}
    OBVIOUS
<1>6. h \in [Models -> {h[m] : m \in Models}]
    OBVIOUS
<1> HIDE DEF of
<1>7. IsFiniteSet({h[m] : m \in Models})
    <2> HIDE DEF h
    <2> QED BY <1>6, ModelsAssumption, ImageFinite
<1>8. \A T \in {of(m) : m \in Models} : IsFiniteSet(T)
    BY <1>4
<1> HIDE DEF h
<1>9. IsFiniteSet(JoinRelations(j))
    BY <1>1, <1>5, <1>7, <1>8, FS_UNION
<1>10. QED
    BY <1>3, <1>9

LEMMA RelationsOfProper ==
    ASSUME NEW s \in Tables, NEW cache \in SUBSET Models
    PROVE  (\A r \in RelationsOf(s, cache) : Proper(r)) /\ IsFiniteSet(RelationsOf(s, cache))
<1> DEFINE own == IF s \in JoinTables THEN JoinRelations(s) ELSE OwnRelations[s]
           all == UNION {OwnRelations[m] : m \in cache}
           far == {r \in all : r.type = "has" /\ ~r.polymorphic /\ r.to = s /\ r.schema # s}
<1>1. RelationsOf(s, cache) = own \cup far
    BY DEF RelationsOf
<1>2. (\A r \in own : Proper(r)) /\ IsFiniteSet(own)
    BY OwnRelationsProper, JoinRelationsProper DEF Tables
<1>3. \A r \in all : Proper(r)
    BY OwnRelationsProper
<1>4. IsFiniteSet(all)
    <2> DEFINE g == [m \in cache |-> OwnRelations[m]]
    <2>1. {OwnRelations[m] : m \in cache} = {g[m] : m \in cache}
        OBVIOUS
    <2>2. g \in [cache -> {g[m] : m \in cache}]
        OBVIOUS
    <2>3. IsFiniteSet(cache)
        BY ModelsAssumption, FS_Subset
    <2>4. IsFiniteSet({g[m] : m \in cache})
        <3> HIDE DEF g
        <3> QED BY <2>2, <2>3, ImageFinite
    <2>5. \A T \in {OwnRelations[m] : m \in cache} : IsFiniteSet(T)
        BY OwnRelationsProper
    <2>6. QED
        <3> HIDE DEF g
        <3> QED BY <2>1, <2>4, <2>5, FS_UNION
<1> HIDE DEF own, all
<1>5. far \in SUBSET all
    OBVIOUS
<1>6. IsFiniteSet(far)
    <2> HIDE DEF far
    <2> QED BY <1>4, <1>5, FS_Subset
<1>7. \A r \in far : Proper(r)
    BY <1>3
<1> HIDE DEF far
<1>8. QED
    BY <1>1, <1>2, <1>6, <1>7, FS_Union

LEMMA ForeignKeysType ==
    ASSUME NEW t \in Tables, NEW cache \in SUBSET Models
    PROVE  /\ ForeignKeys[t][cache] \subseteq {c \in Constraint : c.kind = "fk" /\ c.name[1] = "fk"}
           /\ IsFiniteSet(ForeignKeys[t][cache])
<1> DEFINE all == UNION {ParseConstraint(r, cache) : r \in RelationsOf(t, cache)}
<1>1. ForeignKeys[t][cache] = {c \in all : c.on = t}
    BY DEF ForeignKeys, Tables
<1>2. ASSUME NEW r \in RelationsOf(t, cache), NEW c \in ParseConstraint(r, cache)
      PROVE  c \in Constraint /\ c.kind = "fk" /\ c.name[1] = "fk"
    <2>1. Proper(r)
        BY RelationsOfProper
    <2>2. c = [kind |-> "fk", name |-> <<"fk", r.schema, r.name>>, on |-> r.child, column |-> r.key, ref |-> r.parent]
        BY DEF ParseConstraint
    <2>3. r.key \in Column
        BY <2>1 DEF Proper, Column
    <2>4. <<"fk", r.schema, r.name>> \in Names
        BY <2>1 DEF Proper, Names
    <2>5. QED
        BY <2>1, <2>2, <2>3, <2>4 DEF Proper, Constraint
<1>3. ASSUME NEW r PROVE IsFiniteSet(ParseConstraint(r, cache))
    BY FS_EmptySet, FS_Singleton DEF ParseConstraint
<1>4. IsFiniteSet(all)
    <2> DEFINE g == [r \in RelationsOf(t, cache) |-> ParseConstraint(r, cache)]
    <2>1. {ParseConstraint(r, cache) : r \in RelationsOf(t, cache)} = {g[r] : r \in RelationsOf(t, cache)}
        OBVIOUS
    <2>2. g \in [RelationsOf(t, cache) -> {g[r] : r \in RelationsOf(t, cache)}]
        OBVIOUS
    <2>3. IsFiniteSet({g[r] : r \in RelationsOf(t, cache)})
        <3> HIDE DEF g
        <3> QED BY <2>2, RelationsOfProper, ImageFinite
    <2>4. \A T \in {ParseConstraint(r, cache) : r \in RelationsOf(t, cache)} : IsFiniteSet(T)
        BY <1>3
    <2>5. QED
        <3> HIDE DEF g
        <3> QED BY <2>1, <2>3, <2>4, FS_UNION
<1>5. \A c \in all : c \in Constraint /\ c.kind = "fk" /\ c.name[1] = "fk"
    BY <1>2
<1> HIDE DEF all
<1>6. ForeignKeys[t][cache] \in SUBSET all
    BY <1>1
<1>7. IsFiniteSet(ForeignKeys[t][cache])
    BY <1>4, <1>6, FS_Subset
<1>8. QED
    BY <1>1, <1>5, <1>7

(* What is declared of a table can be told apart by its names.             *)
LEMMA DeclaredType ==
    ASSUME NEW t \in Tables, NEW cache \in SUBSET Models
    PROVE  /\ DeclaredConstraints(t, cache) \subseteq Constraint
           /\ IsFiniteSet(DeclaredConstraints(t, cache))
           /\ \A x, y \in DeclaredConstraints(t, cache) : x.name = y.name => x = y
           /\ \A x \in DeclaredConstraints(t, cache) :
                 x.kind = "unique" => x.column \in Uniques[t] /\ x = UniqueOn(t, x.column)
           /\ \A c \in Columns[t] :
                 UniqueOn(t, c) \in DeclaredConstraints(t, cache) => c \in Uniques[t]
           /\ \A c \in Columns[t], x \in DeclaredConstraints(t, cache) :
                 x.name = UniqueOn(t, c).name => x = UniqueOn(t, c)
<1> DEFINE us == {UniqueOn(t, c) : c \in Uniques[t]}
           cs == {CheckOn(t, c) : c \in Checks[t]}
           fs == ForeignKeys[t][cache]
<1>1. DeclaredConstraints(t, cache) = us \cup cs \cup fs
    BY DEF DeclaredConstraints
<1>2. Uniques[t] \in SUBSET Columns[t] /\ Checks[t] \in SUBSET Columns[t] /\ Columns[t] \subseteq Column
    BY DeclaredAssumption DEF Column
<1>3. IsFiniteSet(Uniques[t]) /\ IsFiniteSet(Checks[t])
    BY <1>2, ModelsAssumption, FS_Subset DEF Tables
<1>4. fs \subseteq {c \in Constraint : c.kind = "fk" /\ c.name[1] = "fk"} /\ IsFiniteSet(fs)
    BY ForeignKeysType
<1>5. us \subseteq Constraint
    BY <1>2 DEF UniqueOn, Constraint, Names
<1>6. cs \subseteq Constraint
    BY <1>2 DEF CheckOn, Constraint, Names
<1>7. IsFiniteSet(us)
    <2> DEFINE g == [c \in Uniques[t] |-> UniqueOn(t, c)]
    <2>1. us = {g[c] : c \in Uniques[t]} /\ g \in [Uniques[t] -> {g[c] : c \in Uniques[t]}]
        OBVIOUS
    <2>2. QED
        <3> HIDE DEF g, us
        <3> QED BY <1>3, <2>1, ImageFinite
<1>8. IsFiniteSet(cs)
    <2> DEFINE g == [c \in Checks[t] |-> CheckOn(t, c)]
    <2>1. cs = {g[c] : c \in Checks[t]} /\ g \in [Checks[t] -> {g[c] : c \in Checks[t]}]
        OBVIOUS
    <2>2. QED
        <3> HIDE DEF g, cs
        <3> QED BY <1>3, <2>1, ImageFinite
<1>9. IsFiniteSet(DeclaredConstraints(t, cache))
    <2> HIDE DEF us, cs, fs
    <2> QED BY <1>1, <1>4, <1>7, <1>8, FS_Union
<1>10. \A x \in us : \E c \in Uniques[t] : x = UniqueOn(t, c) /\ x.kind = "unique" /\ x.column = c
                                         /\ x.name = <<"unique", t, c>> /\ x.name[1] = "unique" /\ x.name[3] = c
    BY DEF UniqueOn
<1>11. \A x \in cs : \E c \in Checks[t] : x = CheckOn(t, c) /\ x.kind = "check"
                                         /\ x.name = <<"check", t, c>> /\ x.name[1] = "check" /\ x.name[3] = c
    BY DEF CheckOn
<1>12. \A x, y \in fs : x.name = y.name => x = y
    BY NamesAssumption
<1>13. \A c \in Columns[t] : UniqueOn(t, c).kind = "unique" /\ UniqueOn(t, c).column = c
    BY DEF UniqueOn
<1> HIDE DEF us, cs, fs
<1>14. ASSUME NEW x \in DeclaredConstraints(t, cache), NEW y \in DeclaredConstraints(t, cache),
              x.name = y.name
       PROVE  x = y
    <2>1. CASE x \in us
        <3>1. y \in us
            BY <1>1, <1>4, <1>10, <1>11, <1>14, <2>1
        <3>2. QED
            BY <1>10, <1>14, <2>1, <3>1
    <2>2. CASE x \in cs
        <3>1. y \in cs
            BY <1>1, <1>4, <1>10, <1>11, <1>14, <2>2
        <3>2. QED
            BY <1>11, <1>14, <2>2, <3>1
    <2>3. CASE x \in fs
        <3>1. y \in fs
            BY <1>1, <1>4, <1>10, <1>11, <1>14, <2>3
        <3>2. QED
            BY <1>12, <1>14, <2>3, <3>1
    <2>4. QED
        BY <1>1, <2>1, <2>2, <2>3
<1>15. \A x \in DeclaredConstraints(t, cache) :
           x.kind = "unique" => x.column \in Uniques[t] /\ x = UniqueOn(t, x.column)
    BY <1>1, <1>4, <1>10, <1>11
<1>16. ASSUME NEW c \in Columns[t], UniqueOn(t, c) \in DeclaredConstraints(t, cache)
       PROVE  c \in Uniques[t]
    BY <1>13, <1>15, <1>16
<1>17. DeclaredConstraints(t, cache) \subseteq Constraint
    BY <1>1, <1>4, <1>5, <1>6
<1>18. ASSUME NEW c \in Columns[t], NEW x \in DeclaredConstraints(t, cache),
              x.name = UniqueOn(t, c).name
       PROVE  x = UniqueOn(t, c)
    <2>1. x.name[1] = "unique" /\ x.name[3] = c
        BY <1>18 DEF UniqueOn
    <2>2. x \in us
        BY <1>1, <1>4, <1>11, <2>1
    <2>3. QED
        BY <1>10, <2>1, <2>2
<1>19. QED
    BY <1>9, <1>14, <1>15, <1>16, <1>17, <1>18

-----------------------------------------------------------------------------
(* The values of the variables.                                            *)
Items(t, cache) ==
    [what : {"column", "unique"}, c : Columns[t]]
    \cup [what : {"constraint"}, con : DeclaredConstraints(t, cache)]
    \cup [what : {"index"}, i : Indexes[t]]
    \cup [what : {"create"}]
Item == UNION {Items(t, cache) : t \in Tables, cache \in SUBSET Models}

Definition ==
    {def \in [columns : UNION {[C -> Attributes(DBTypes)] : C \in SUBSET Column},
              constraints : SUBSET Constraint, indexes : SUBSET Index, rows : BOOLEAN] :
        IsFiniteSet(def.indexes)}
Statement ==
    [op : {"create", "swap"}, t : Tables, def : Definition]
    \cup [op : {"add column", "alter"}, t : Tables, c : Column, to : Attributes(DBTypes)]
    \cup [op : {"add constraint", "drop constraint"}, t : Tables, con : Constraint]
    \cup [op : {"create index", "create index if not exists", "drop index"}, t : Tables, index : Index]

Call ==
    [at : {"idle", "run", "ok", "failed"}, models : Seq(Tables), todo : Seq(Tables),
     model : Tables \cup {None}, work : Seq(Item), stmts : Seq(Statement)]
Seen ==
    [columns : UNION {[C -> Attributes(DBTypes)] : C \in SUBSET Column}, unique : SUBSET Column]
Ghost ==
    [added : SUBSET (Tables \X Column), fault : BOOLEAN, ran : BOOLEAN, alone : BOOLEAN,
     learned : BOOLEAN, settled : Nat]

Values ==
    /\ dialect \in Dialects
    /\ db \in [Tables -> Definition \cup {NoTable}]
    /\ parsed \in [Callers -> SUBSET Models]
    /\ call \in [Callers -> Call]
    /\ seen \in [Callers -> Seen]
    /\ bounds \in [calls : 0..MaxCalls, faults : 0..MaxTrouble, drops : 0..MaxTrouble]
    /\ ghost \in [Callers -> Ghost]

Runs(p)  == call[p].at = "run"
Work(p)  == ToSet(call[p].work)
Stmts(p) == ToSet(call[p].stmts)
Model(p) == call[p].model

(* With SQLite no two calls run at once.                                   *)
Single ==
    dialect = "sqlite" =>
        \A p, q \in Callers : p # q /\ Runs(p) =>
            ~Runs(q) /\ ~(call[q].at = "ok" /\ ghost[q].alone)

(* An index by the name of one that a model declares is that one.          *)
Named ==
    \A t \in Tables : Exists(db, t) =>
        \A x \in db[t].indexes, i \in Indexes[t] : x.name = i.name => x = i

(* A statement of a call that is to migrate t.                             *)
Sound(s, t, cache) ==
    /\ s.t = t
    /\ s.op = "create" =>
         /\ DOMAIN s.def.columns = Columns[t]
         /\ s.def.constraints = DeclaredConstraints(t, cache)
         /\ s.def.indexes = IF dialect = "mysql" THEN Indexes[t] ELSE {}
    /\ s.op = "drop constraint" => \E c \in Columns[t] \ Uniques[t] : s.con = UniqueOn(t, c)
    /\ s.op \in {"create index", "create index if not exists"} => s.index \in Indexes[t]
    /\ s.op = "drop index" =>
         dialect = "mysql" /\ s.index.unique /\ \A i \in Indexes[t] : i.name # s.index.name
    /\ s.op = "swap" =>
         /\ dialect = "sqlite"
         /\ Exists(db, t) /\ DOMAIN s.def.columns = DOMAIN db[t].columns
         /\ s.def.rows = db[t].rows /\ s.def.indexes = {}
         /\ db[t].constraints \cap DeclaredConstraints(t, cache) \subseteq s.def.constraints

Fits(p) ==
    /\ ~Runs(p) => call[p].work = <<>> /\ call[p].stmts = <<>> /\ Model(p) = None
    /\ call[p].work # <<>> \/ call[p].stmts # <<>> => Model(p) \in Tables
    /\ \A w \in Work(p) : w \in Items(Model(p), parsed[p])
    /\ \A s \in Stmts(p) : Sound(s, Model(p), parsed[p]) /\ (s.op = "swap" => Len(call[p].stmts) = 1)

(* Columns come before their unique constraints, and indexes last.         *)
Before(v, w) ==
    /\ v.what = "index" => w.what = "index"
    /\ v.what = "unique" /\ w.what = "column" => v.c # w.c
    /\ w.what # "create"
Ordered(work) == \A m, n \in DOMAIN work : m < n => Before(work[m], work[n])
InOrder(p) == Ordered(call[p].work)

ColumnItem(c)     == [what |-> "column", c |-> c]
UniqueItem(c)     == [what |-> "unique", c |-> c]
ConstraintItem(x) == [what |-> "constraint", con |-> x]
IndexItem(i)      == [what |-> "index", i |-> i]

(* What has been read of a table still holds where it matters.             *)
SeenStill(p) ==
    \A w \in Work(p) : w.what \in {"column", "unique"} =>
        /\ w.c \in DOMAIN seen[p].columns =>
             Exists(db, Model(p)) /\ w.c \in DOMAIN db[Model(p)].columns
        /\ dialect # "mysql" /\ w.c \in seen[p].unique /\ w.c \in Uniques[Model(p)] =>
             Exists(db, Model(p)) /\ UniqueOn(Model(p), w.c) \in db[Model(p)].constraints
        /\ w.what = "unique" =>
             \/ w.c \in DOMAIN seen[p].columns
             \/ <<Model(p), w.c>> \in ghost[p].added
             \/ ColumnItem(w.c) \in Work(p)
             \/ \E s \in Stmts(p) : s.op = "add column" /\ s.c = w.c

(* With SQLite a table may be made anew only while no index has been       *)
(* looked at.                                                              *)
IndexesLast(p) ==
    /\ dialect = "sqlite"
    /\ \/ call[p].work # <<>> /\ Head(call[p].work).what \in {"column", "unique", "constraint"}
       \/ \E s \in Stmts(p) : s.op = "swap"
    => \A i \in Indexes[Model(p)] : IndexItem(i) \in Work(p)

(* A table that is to be created, by a first statement that is followed by *)
(* those for its indexes.                                                  *)
InCreation(p) ==
    \/ call[p].work = <<[what |-> "create"]>> /\ call[p].stmts = <<>>
    \/ /\ call[p].work = <<>> /\ call[p].stmts # <<>> /\ Head(call[p].stmts).op = "create"
       /\ dialect # "mysql" =>
            \A i \in Indexes[Model(p)] : \E s \in ToSet(Tail(call[p].stmts)) :
                s.op \in {"create index", "create index if not exists"} /\ s.index = i

(* A table that is there: what is declared of it is there too, or is still *)
(* to be looked at, or decided on.                                         *)
Underway(p) ==
    LET t == Model(p)
    IN  /\ Exists(db, t)
        /\ [what |-> "create"] \notin Work(p)
        /\ \A c \in Columns[t] :
             \/ c \in DOMAIN db[t].columns
             \/ ColumnItem(c) \in Work(p)
             \/ \E s \in Stmts(p) : s.op = "add column" /\ s.c = c
        /\ \A con \in DeclaredConstraints(t, parsed[p]) :
             \/ con \in db[t].constraints
             \/ ConstraintItem(con) \in Work(p)
             \/ \E s \in Stmts(p) : s.op = "add constraint" /\ s.con = con
             \/ \E s \in Stmts(p) : s.op = "swap" /\ con \in s.def.constraints
             \/ con.kind = "unique" /\ (<<t, con.column>> \in ghost[p].added \/ UniqueItem(con.column) \in Work(p))
        /\ \A i \in Indexes[t] :
             \/ HasIndex(t, i)
             \/ IndexItem(i) \in Work(p)
             \/ \E s \in Stmts(p) : s.op \in {"create index", "create index if not exists"} /\ s.index = i

(* A table that has what its model declares.                               *)
Made(p, t) ==
    /\ Exists(db, t)
    /\ Columns[t] \subseteq DOMAIN db[t].columns
    /\ \A con \in DeclaredConstraints(t, parsed[p]) :
          con \in db[t].constraints \/ (con.kind = "unique" /\ <<t, con.column>> \in ghost[p].added)
    /\ \A i \in Indexes[t] : HasIndex(t, i)

Answers(p) == Runs(p) \/ (call[p].at = "ok" /\ (dialect = "sqlite" => ghost[p].alone))

Ahead(p) ==
    Answers(p) =>
        /\ \A t \in ToSet(call[p].models) :
             t \in ToSet(call[p].todo) \/ t = Model(p) \/ Made(p, t)
        /\ Model(p) \in Tables => InCreation(p) \/ Underway(p)
        /\ call[p].at = "ok" => call[p].todo = <<>>

Local(p) == Fits(p) /\ InOrder(p) /\ SeenStill(p) /\ IndexesLast(p) /\ Ahead(p)

Inv == Values /\ Named /\ Single /\ \A p \in Callers : Local(p)

-----------------------------------------------------------------------------
(* The types of what the drivers read and send.                            *)

LEMMA TableIsDefinition ==
    /\ \A def : IsTable(def) => def \in Definition
    /\ \A def \in Definition : IsTable(def) /\ def # NoTable
<1>1. ASSUME NEW def, IsTable(def) PROVE def \in Definition
    <2>1. def.columns \in [DOMAIN def.columns -> Attributes(DBTypes)] /\ DOMAIN def.columns \in SUBSET Column
        BY <1>1 DEF IsTable
    <2>2. def.columns \in UNION {[C -> Attributes(DBTypes)] : C \in SUBSET Column}
        BY <2>1
    <2>3. QED
        BY <1>1, <2>2 DEF IsTable, Definition
<1>2. ASSUME NEW def \in Definition PROVE IsTable(def) /\ def # NoTable
    <2>1. def.columns \in UNION {[C -> Attributes(DBTypes)] : C \in SUBSET Column}
        BY DEF Definition
    <2>2. PICK C \in SUBSET Column : def.columns \in [C -> Attributes(DBTypes)]
        BY <2>1
    <2>3. DOMAIN def.columns = C
        BY <2>2
    <2>4. IsTable(def)
        BY <2>2, <2>3 DEF IsTable, Definition
    <2>5. DOMAIN def = {"columns", "constraints", "indexes", "rows"} /\ DOMAIN NoTable = {"absent"}
        BY DEF Definition, NoTable
    <2>6. QED
        BY <2>4, <2>5
<1>3. QED
    BY <1>1, <1>2

LEMMA DefinitionFields ==
    ASSUME NEW def \in Definition
    PROVE  /\ def.columns \in [DOMAIN def.columns -> Attributes(DBTypes)]
           /\ DOMAIN def.columns \subseteq Column
           /\ def.constraints \subseteq Constraint
           /\ def.indexes \subseteq Index /\ IsFiniteSet(def.indexes)
           /\ def.rows \in BOOLEAN
           /\ def = [columns |-> def.columns, constraints |-> def.constraints,
                     indexes |-> def.indexes, rows |-> def.rows]
<1>1. IsTable(def)
    BY TableIsDefinition
<1>2. QED
    BY <1>1 DEF IsTable

LEMMA DefinitionOf ==
    ASSUME NEW C \in SUBSET Column, NEW columns \in [C -> Attributes(DBTypes)],
           NEW constraints \in SUBSET Constraint,
           NEW indexes \in SUBSET Index, IsFiniteSet(indexes), NEW rows \in BOOLEAN
    PROVE  [columns |-> columns, constraints |-> constraints, indexes |-> indexes, rows |-> rows]
              \in Definition
<1>1. columns \in UNION {[D -> Attributes(DBTypes)] : D \in SUBSET Column}
    OBVIOUS
<1>2. QED
    BY <1>1 DEF Definition

LEMMA StatementFields ==
    ASSUME NEW s \in Statement
    PROVE  /\ s.t \in Tables
           /\ s.op \in {"create", "swap", "add column", "alter", "add constraint", "drop constraint",
                        "create index", "create index if not exists", "drop index"}
           /\ s.op \in {"create", "swap"} => s.def \in Definition
           /\ s.op \in {"add column", "alter"} => s.c \in Column /\ s.to \in Attributes(DBTypes)
           /\ s.op \in {"add constraint", "drop constraint"} => s.con \in Constraint
           /\ s.op \in {"create index", "create index if not exists", "drop index"} => s.index \in Index
<1>1. CASE s \in [op : {"create", "swap"}, t : Tables, def : Definition]
    BY <1>1
<1>2. CASE s \in [op : {"add column", "alter"}, t : Tables, c : Column, to : Attributes(DBTypes)]
    BY <1>2
<1>3. CASE s \in [op : {"add constraint", "drop constraint"}, t : Tables, con : Constraint]
    BY <1>3
<1>4. CASE s \in [op : {"create index", "create index if not exists", "drop index"}, t : Tables, index : Index]
    BY <1>4
<1>5. QED
    BY <1>1, <1>2, <1>3, <1>4 DEF Statement

LEMMA DataTypes ==
    ASSUME dialect \in Dialects, NEW t \in Tables, NEW c \in Columns[t]
    PROVE  /\ c \in Column /\ PgDBTypeMap(t, c) \in DBTypes
           /\ FullDataTypeOf(t, c) \in Attributes(DBTypes)
           /\ CreatedAs(t, c) \in Attributes(DBTypes)
<1>1. Declared[t][c] \in Attributes(GoTypes) /\ c \in Column
    BY DeclaredAssumption DEF Column
<1>2. dialect \in {"mysql", "postgres", "sqlite", "sqlserver"}
    BY DialectsAssumption
<1>3. PgDBTypeMap(t, c) \in DBTypes
    BY DEF PgDBTypeMap, DBTypes
<1>4. DataTypeOfMysql(t, c) \in DBTypes
    <2>1. \/ DataTypeOfMysql(t, c) = "bigint" \/ DataTypeOfMysql(t, c) = "bigint unsigned"
          \/ DataTypeOfMysql(t, c) = "longtext" \/ DataTypeOfMysql(t, c) = "varchar"
        BY Zenon DEF DataTypeOfMysql
    <2>2. QED
        BY <2>1 DEF DBTypes
<1>5. DataTypeOf(t, c) \in DBTypes
    <2>1. CASE dialect = "mysql"
        BY <1>4, <2>1 DEF DataTypeOf
    <2>2. CASE dialect = "postgres"
        BY <2>2 DEF DataTypeOf, DataTypeOfPostgres, DBTypes
    <2>3. CASE dialect = "sqlite"
        BY <2>3 DEF DataTypeOf, DataTypeOfSqlite, DBTypes
    <2>4. CASE dialect = "sqlserver"
        BY <2>4 DEF DataTypeOf, DataTypeOfSqlserver, DBTypes
    <2>5. QED
        BY <1>2, <2>1, <2>2, <2>3, <2>4
<1>6. FullDataTypeOf(t, c) \in Attributes(DBTypes)
    BY <1>1, <1>5 DEF FullDataTypeOf, Attributes
<1>7. CreatedAs(t, c) \in Attributes(DBTypes)
    BY <1>3, <1>6 DEF CreatedAs, Attributes
<1>8. QED
    BY <1>1, <1>3, <1>6, <1>7

-----------------------------------------------------------------------------
(* What a statement does.                                                  *)

IndexNamed(def, i) == \E x \in def.indexes : x.name = i.name

(* A table keeps its columns, its rows and the constraints declared of it. *)
Keeps(old, new, t, cache) ==
    /\ DOMAIN old.columns \subseteq DOMAIN new.columns
    /\ new.rows = old.rows
    /\ old.constraints \cap DeclaredConstraints(t, cache) \subseteq new.constraints

(* A table keeps its indexes, but for MySQL's unique ones that no model    *)
(* declares.                                                               *)
KeepsIndexes(old, new, t) ==
    /\ \A i \in Indexes[t] : IndexNamed(old, i) => IndexNamed(new, i)
    /\ \A x \in old.indexes : x \in new.indexes \/ (dialect = "mysql" /\ x.unique)

Properly(def, t) == \A x \in def.indexes, i \in Indexes[t] : x.name = i.name => x = i

(* A definition in which one part is replaced.                             *)
LEMMA DefinitionWith ==
    ASSUME NEW def \in Definition
    PROVE  /\ \A C \in SUBSET Column : \A columns \in [C -> Attributes(DBTypes)] :
                [def EXCEPT !.columns = columns] \in Definition
           /\ \A constraints \in SUBSET Constraint :
                [def EXCEPT !.constraints = constraints] \in Definition
           /\ \A indexes \in SUBSET Index :
                IsFiniteSet(indexes) => [def EXCEPT !.indexes = indexes] \in Definition
<1>1. /\ def.columns \in [DOMAIN def.columns -> Attributes(DBTypes)] /\ DOMAIN def.columns \in SUBSET Column
      /\ def.constraints \in SUBSET Constraint
      /\ def.indexes \in SUBSET Index /\ IsFiniteSet(def.indexes)
      /\ def.rows \in BOOLEAN
      /\ def = [columns |-> def.columns, constraints |-> def.constraints,
                indexes |-> def.indexes, rows |-> def.rows]
    BY DefinitionFields
<1>2. ASSUME NEW C \in SUBSET Column, NEW columns \in [C -> Attributes(DBTypes)]
      PROVE  [def EXCEPT !.columns = columns] \in Definition
    <2>1. [def EXCEPT !.columns = columns]
            = [columns |-> columns, constraints |-> def.constraints, indexes |-> def.indexes, rows |-> def.rows]
        BY <1>1
    <2>2. QED
        BY <1>1, <2>1, DefinitionOf
<1>3. ASSUME NEW constraints \in SUBSET Constraint
      PROVE  [def EXCEPT !.constraints = constraints] \in Definition
    <2>1. [def EXCEPT !.constraints = constraints]
            = [columns |-> def.columns, constraints |-> constraints, indexes |-> def.indexes, rows |-> def.rows]
        BY <1>1
    <2>2. QED
        BY <1>1, <2>1, DefinitionOf
<1>4. ASSUME NEW indexes \in SUBSET Index, IsFiniteSet(indexes)
      PROVE  [def EXCEPT !.indexes = indexes] \in Definition
    <2>1. [def EXCEPT !.indexes = indexes]
            = [columns |-> def.columns, constraints |-> def.constraints, indexes |-> indexes, rows |-> def.rows]
        BY <1>1
    <2>2. QED
        BY <1>1, <1>4, <2>1, DefinitionOf
<1>5. QED
    BY <1>2, <1>3, <1>4

(* What comes of a statement: e is a database that Run may leave.          *)
Effect(s, e, t, cache) ==
    /\ e[t] \in Definition
    /\ e = [db EXCEPT ![t] = e[t]]
    /\ Exists(db, t) /\ Properly(db[t], t) => Properly(e[t], t)
    /\ ~Exists(db, t) => s.op = "create"
    /\ s.op = "create" => ~Exists(db, t) /\ e[t] = s.def
    /\ s.op = "swap" => e[t] = s.def
    /\ s.op # "create" => Keeps(db[t], e[t], t, cache)
    /\ s.op \notin {"create", "swap"} =>
         KeepsIndexes(db[t], e[t], t) /\ \A k \in SUBSET Models : Keeps(db[t], e[t], t, k)
    /\ s.op = "add column" => s.c \in DOMAIN e[t].columns
    /\ s.op = "add constraint" => s.con \in e[t].constraints
    /\ s.op \in {"create index", "create index if not exists"} => IndexNamed(e[t], s.index)

LEMMA RunCreate ==
    ASSUME Values, NEW t \in Tables, NEW cache \in SUBSET Models,
           NEW s \in Statement, Sound(s, t, cache), s.op = "create", NEW e \in Run(db, s)
    PROVE  Effect(s, e, t, cache) /\ Properly(e[t], t)
<1>1. s.t = t /\ s.def \in Definition
    BY StatementFields DEF Sound
<1>2. e \in Create(db, t, s.def)
    BY <1>1 DEF Run
<1>3. ~Exists(db, t) /\ e = [db EXCEPT ![t] = s.def]
    BY <1>2 DEF Create
<1>4. e[t] = s.def
    BY <1>3 DEF Values
<1>5. Properly(e[t], t)
    <2>1. s.def.indexes \subseteq Indexes[t]
        BY DEF Sound
    <2>2. QED
        BY <1>4, <2>1, DeclaredAssumption DEF Properly
<1>6. QED
    BY <1>1, <1>3, <1>4, <1>5 DEF Effect

LEMMA RunColumn ==
    ASSUME Values, NEW t \in Tables, NEW cache \in SUBSET Models,
           NEW s \in Statement, Sound(s, t, cache), s.op \in {"add column", "alter"},
           NEW e \in Run(db, s)
    PROVE  Effect(s, e, t, cache)
<1>1. s.t = t /\ s.c \in Column /\ s.to \in Attributes(DBTypes)
    BY StatementFields DEF Sound
<1>2. Exists(db, t)
    BY <1>1 DEF Run
<1>3. db[t] \in Definition
    BY <1>2 DEF Values, Exists
<1>4. db[t].columns \in [DOMAIN db[t].columns -> Attributes(DBTypes)] /\ DOMAIN db[t].columns \subseteq Column
    BY <1>3, DefinitionFields
<1>5. \E C \in SUBSET Column : \E columns \in [C -> Attributes(DBTypes)] :
          /\ e = [db EXCEPT ![t].columns = columns]
          /\ DOMAIN db[t].columns \subseteq C
          /\ s.op = "add column" => s.c \in C
    <2>1. CASE s.op = "add column"
        <3> DEFINE columns == WithColumn(db[t].columns, s.c, s.to)
        <3>1. e = [db EXCEPT ![t].columns = WithColumn(@, s.c, s.to)]
            BY <1>1, <1>2, <2>1 DEF Run
        <3>2. e = [db EXCEPT ![t].columns = columns]
            BY <3>1
        <3> DEFINE C == DOMAIN db[t].columns \cup {s.c}
        <3>3. C \in SUBSET Column /\ columns \in [C -> Attributes(DBTypes)]
            BY <1>1, <1>4 DEF WithColumn
        <3>4. DOMAIN db[t].columns \subseteq C /\ s.c \in C
            OBVIOUS
        <3> HIDE DEF columns, C
        <3>5. QED
            BY <3>2, <3>3, <3>4
    <2>2. CASE s.op = "alter"
        <3> DEFINE columns == [db[t].columns EXCEPT ![s.c] = s.to]
        <3>1. e = [db EXCEPT ![t].columns[s.c] = s.to]
            BY <1>1, <1>2, <2>2 DEF Run
        <3>2. e = [db EXCEPT ![t].columns = columns]
            BY <3>1
        <3>3. columns \in [DOMAIN db[t].columns -> Attributes(DBTypes)]
            BY <1>1, <1>4
        <3> HIDE DEF columns
        <3>4. QED
            BY <1>4, <2>2, <3>2, <3>3
    <2>3. QED
        BY <2>1, <2>2
<1>6. PICK C \in SUBSET Column : \E columns \in [C -> Attributes(DBTypes)] :
          /\ e = [db EXCEPT ![t].columns = columns]
          /\ DOMAIN db[t].columns \subseteq C
          /\ s.op = "add column" => s.c \in C
    BY <1>5
<1>7. PICK columns \in [C -> Attributes(DBTypes)] :
          /\ e = [db EXCEPT ![t].columns = columns]
          /\ DOMAIN db[t].columns \subseteq C
          /\ s.op = "add column" => s.c \in C
    BY <1>6
<1>8. e[t] = [db[t] EXCEPT !.columns = columns]
    BY <1>7 DEF Values
<1>9. e[t] \in Definition
    <2>1. \A D \in SUBSET Column : \A to \in [D -> Attributes(DBTypes)] :
              [db[t] EXCEPT !.columns = to] \in Definition
        BY <1>3, DefinitionWith
    <2>2. [db[t] EXCEPT !.columns = columns] \in Definition
        BY <2>1
    <2>3. QED
        BY <1>8, <2>2
<1>10. /\ DOMAIN e[t].columns = C /\ e[t].constraints = db[t].constraints
      /\ e[t].indexes = db[t].indexes /\ e[t].rows = db[t].rows
    <2>1. db[t] = [columns |-> db[t].columns, constraints |-> db[t].constraints,
                   indexes |-> db[t].indexes, rows |-> db[t].rows]
        BY <1>3, DefinitionFields
    <2>2. QED
        BY <1>8, <2>1
<1>11. e = [db EXCEPT ![t] = e[t]]
    BY <1>7, <1>8
<1>12. \A k \in SUBSET Models : Keeps(db[t], e[t], t, k)
    BY <1>7, <1>10 DEF Keeps
<1>13. KeepsIndexes(db[t], e[t], t) /\ (Properly(db[t], t) => Properly(e[t], t))
    BY <1>10 DEF KeepsIndexes, Properly, IndexNamed
<1>14. s.op = "add column" => s.c \in DOMAIN e[t].columns
    BY <1>7, <1>10
<1>15. Keeps(db[t], e[t], t, cache)
    BY <1>12
<1>16. QED
    BY <1>2, <1>9, <1>11, <1>12, <1>13, <1>14, <1>15, Zenon DEF Effect

LEMMA RunConstraint ==
    ASSUME Values, NEW t \in Tables, NEW cache \in SUBSET Models,
           NEW s \in Statement, Sound(s, t, cache), s.op \in {"add constraint", "drop constraint"},
           NEW e \in Run(db, s)
    PROVE  Effect(s, e, t, cache)
<1>1. s.t = t /\ s.con \in Constraint
    BY StatementFields DEF Sound
<1>2. Exists(db, t)
    BY <1>1 DEF Run
<1>3. db[t] \in Definition
    BY <1>2 DEF Values, Exists
<1>4. db[t].constraints \subseteq Constraint
    BY <1>3, DefinitionFields
<1>5. \E cons \in SUBSET Constraint :
          /\ e = [db EXCEPT ![t].constraints = cons]
          /\ s.op = "add constraint" => s.con \in cons
          /\ \A k \in SUBSET Models : db[t].constraints \cap DeclaredConstraints(t, k) \subseteq cons
    <2>1. CASE s.op = "add constraint"
        <3>1. e \in AddConstraint(db, t, s.con)
            BY <1>1, <1>2, <2>1 DEF Run
        <3>2. e = [db EXCEPT ![t].constraints = @ \cup {s.con}]
            BY <3>1 DEF AddConstraint
        <3> DEFINE cons == db[t].constraints \cup {s.con}
        <3>3. e = [db EXCEPT ![t].constraints = cons]
            BY <3>2
        <3>4. cons \in SUBSET Constraint /\ s.con \in cons
            BY <1>1, <1>4
        <3>5. \A k \in SUBSET Models : db[t].constraints \cap DeclaredConstraints(t, k) \subseteq cons
            OBVIOUS
        <3> HIDE DEF cons
        <3>6. QED
            BY <3>3, <3>4, <3>5
    <2>2. CASE s.op = "drop constraint"
        <3>1. e = [db EXCEPT ![t].constraints = @ \ {s.con}]
            BY <1>1, <1>2, <2>2 DEF Run
        <3> DEFINE cons == db[t].constraints \ {s.con}
        <3>2. e = [db EXCEPT ![t].constraints = cons]
            BY <3>1
        <3>3. PICK c \in Columns[t] \ Uniques[t] : s.con = UniqueOn(t, c)
            BY <2>2 DEF Sound
        <3>4. \A k \in SUBSET Models : s.con \notin DeclaredConstraints(t, k)
            BY <3>3, DeclaredType
        <3>5. cons \in SUBSET Constraint
            BY <1>4
        <3>6. \A k \in SUBSET Models : db[t].constraints \cap DeclaredConstraints(t, k) \subseteq cons
            BY <3>4
        <3> HIDE DEF cons
        <3>7. QED
            BY <2>2, <3>2, <3>5, <3>6
    <2>3. QED
        BY <2>1, <2>2
<1>6. PICK cons \in SUBSET Constraint :
          /\ e = [db EXCEPT ![t].constraints = cons]
          /\ s.op = "add constraint" => s.con \in cons
          /\ \A k \in SUBSET Models : db[t].constraints \cap DeclaredConstraints(t, k) \subseteq cons
    BY <1>5
<1>7. e[t] = [db[t] EXCEPT !.constraints = cons]
    BY <1>6 DEF Values
<1>8. e[t] \in Definition
    BY <1>3, <1>7, DefinitionWith
<1>9. /\ e[t].columns = db[t].columns /\ e[t].constraints = cons
      /\ e[t].indexes = db[t].indexes /\ e[t].rows = db[t].rows
    <2>1. db[t] = [columns |-> db[t].columns, constraints |-> db[t].constraints,
                   indexes |-> db[t].indexes, rows |-> db[t].rows]
        BY <1>3, DefinitionFields
    <2>2. QED
        BY <1>7, <2>1
<1>10. e = [db EXCEPT ![t] = e[t]]
    BY <1>6, <1>7
<1>11. \A k \in SUBSET Models : Keeps(db[t], e[t], t, k)
    BY <1>6, <1>9 DEF Keeps
<1>12. KeepsIndexes(db[t], e[t], t) /\ (Properly(db[t], t) => Properly(e[t], t))
    BY <1>9 DEF KeepsIndexes, Properly, IndexNamed
<1>13. s.op = "add constraint" => s.con \in e[t].constraints
    BY <1>6, <1>9
<1>14. Keeps(db[t], e[t], t, cache)
    BY <1>11
<1>15. QED
    BY <1>2, <1>8, <1>10, <1>11, <1>12, <1>13, <1>14, Zenon DEF Effect

LEMMA RunIndex ==
    ASSUME Values, NEW t \in Tables, NEW cache \in SUBSET Models,
           NEW s \in Statement, Sound(s, t, cache),
           s.op \in {"create index", "create index if not exists", "drop index"},
           NEW e \in Run(db, s)
    PROVE  Effect(s, e, t, cache)
<1>1. s.t = t /\ s.index \in Index
    BY StatementFields DEF Sound
<1>2. Exists(db, t)
    BY <1>1 DEF Run
<1>3. db[t] \in Definition
    BY <1>2 DEF Values, Exists
<1>4. db[t].indexes \subseteq Index /\ IsFiniteSet(db[t].indexes)
    BY <1>3, DefinitionFields
<1>5. \E ix \in SUBSET Index :
          /\ IsFiniteSet(ix)
          /\ e = [db EXCEPT ![t].indexes = ix]
          /\ s.op # "drop index" => ix \subseteq db[t].indexes \cup {s.index} /\ db[t].indexes \subseteq ix
                                    /\ \E x \in ix : x.name = s.index.name
          /\ s.op = "drop index" => ix = db[t].indexes \ {s.index}
    <2>1. CASE s.op # "drop index"
        <3>1. e \in AddIndex(db, t, s.index, TRUE) \cup AddIndex(db, t, s.index, FALSE)
            BY <1>1, <1>2, <2>1 DEF Run
        <3>2. CASE \E x \in db[t].indexes : x.name = s.index.name
            <4>1. e = db
                BY <3>1, <3>2 DEF AddIndex
            <4>2. db[t] = [db[t] EXCEPT !.indexes = db[t].indexes]
                <5>1. db[t] = [columns |-> db[t].columns, constraints |-> db[t].constraints,
                               indexes |-> db[t].indexes, rows |-> db[t].rows]
                    BY <1>3, DefinitionFields
                <5>2. QED
                    BY <5>1
            <4>3. db = [db EXCEPT ![t].indexes = db[t].indexes]
                BY <4>2 DEF Values
            <4>4. QED
                BY <1>4, <2>1, <3>2, <4>1, <4>3
        <3>3. CASE ~\E x \in db[t].indexes : x.name = s.index.name
            <4>1. e = [db EXCEPT ![t].indexes = @ \cup {s.index}]
                BY <3>1, <3>3 DEF AddIndex
            <4>2. e = [db EXCEPT ![t].indexes = db[t].indexes \cup {s.index}]
                BY <4>1
            <4>3. IsFiniteSet(db[t].indexes \cup {s.index})
                BY <1>4, FS_AddElement
            <4>4. QED
                BY <1>1, <1>4, <2>1, <4>2, <4>3
        <3>4. QED
            BY <3>2, <3>3
    <2>2. CASE s.op = "drop index"
        <3>1. e = [db EXCEPT ![t].indexes = @ \ {s.index}]
            BY <1>1, <1>2, <2>2 DEF Run
        <3>2. e = [db EXCEPT ![t].indexes = db[t].indexes \ {s.index}]
            BY <3>1
        <3>3. IsFiniteSet(db[t].indexes \ {s.index}) /\ db[t].indexes \ {s.index} \in SUBSET Index
            BY <1>4, FS_RemoveElement
        <3>4. QED
            BY <2>2, <3>2, <3>3
    <2>3. QED
        BY <2>1, <2>2
<1>6. PICK ix \in SUBSET Index :
          /\ IsFiniteSet(ix)
          /\ e = [db EXCEPT ![t].indexes = ix]
          /\ s.op # "drop index" => ix \subseteq db[t].indexes \cup {s.index} /\ db[t].indexes \subseteq ix
                                    /\ \E x \in ix : x.name = s.index.name
          /\ s.op = "drop index" => ix = db[t].indexes \ {s.index}
    BY <1>5
<1>7. e[t] = [db[t] EXCEPT !.indexes = ix]
    BY <1>6 DEF Values
<1>8. e[t] \in Definition
    <2>1. \A indexes \in SUBSET Index :
              IsFiniteSet(indexes) => [db[t] EXCEPT !.indexes = indexes] \in Definition
        BY <1>3, DefinitionWith
    <2>2. IsFiniteSet(ix)
        BY <1>6
    <2>3. [db[t] EXCEPT !.indexes = ix] \in Definition
        BY <2>1, <2>2
    <2>4. QED
        BY <1>7, <2>3
<1>9. /\ e[t].columns = db[t].columns /\ e[t].constraints = db[t].constraints
      /\ e[t].indexes = ix /\ e[t].rows = db[t].rows
    <2>1. db[t] = [columns |-> db[t].columns, constraints |-> db[t].constraints,
                   indexes |-> db[t].indexes, rows |-> db[t].rows]
        BY <1>3, DefinitionFields
    <2>2. QED
        BY <1>7, <2>1
<1>10. e = [db EXCEPT ![t] = e[t]]
    BY <1>6, <1>7
<1>11. \A k \in SUBSET Models : Keeps(db[t], e[t], t, k)
    BY <1>9 DEF Keeps
<1>12. KeepsIndexes(db[t], e[t], t)
    <2>1. CASE s.op # "drop index"
        BY <1>6, <1>9, <2>1 DEF KeepsIndexes, IndexNamed
    <2>2. CASE s.op = "drop index"
        <3>1. dialect = "mysql" /\ s.index.unique /\ \A i \in Indexes[t] : i.name # s.index.name
            BY <2>2 DEF Sound
        <3>2. \A x \in db[t].indexes : x \in ix \/ x = s.index
            BY <1>6, <2>2
        <3>3. QED
            BY <1>9, <3>1, <3>2 DEF KeepsIndexes, IndexNamed
    <2>3. QED
        BY <2>1, <2>2
<1>13. Properly(db[t], t) => Properly(e[t], t)
    <2>1. CASE s.op # "drop index"
        <3>1. s.index \in Indexes[t]
            BY <2>1 DEF Sound
        <3>2. \A i \in Indexes[t] : s.index.name = i.name => s.index = i
            BY <3>1, DeclaredAssumption
        <3>3. ix \subseteq db[t].indexes \cup {s.index}
            BY <1>6, <2>1
        <3>4. QED
            BY <1>9, <3>2, <3>3 DEF Properly
    <2>2. CASE s.op = "drop index"
        BY <1>6, <1>9, <2>2 DEF Properly
    <2>3. QED
        BY <2>1, <2>2
<1>14. s.op # "drop index" => IndexNamed(e[t], s.index)
    BY <1>6, <1>9 DEF IndexNamed
<1>15. Keeps(db[t], e[t], t, cache)
    BY <1>11
<1>16. QED
    BY <1>2, <1>8, <1>10, <1>11, <1>12, <1>13, <1>14, <1>15, Zenon DEF Effect

LEMMA RunSwap ==
    ASSUME Values, NEW t \in Tables, NEW cache \in SUBSET Models,
           NEW s \in Statement, Sound(s, t, cache), s.op = "swap", NEW e \in Run(db, s)
    PROVE  Effect(s, e, t, cache)
<1>1. s.t = t /\ s.def \in Definition
    BY StatementFields DEF Sound
<1>2. Exists(db, t) /\ e = [db EXCEPT ![t] = s.def]
    BY <1>1 DEF Run
<1>3. e[t] = s.def
    BY <1>2 DEF Values
<1>4. Keeps(db[t], e[t], t, cache) /\ Properly(e[t], t)
    BY <1>3 DEF Sound, Keeps, Properly
<1>5. QED
    BY <1>1, <1>2, <1>3, <1>4 DEF Effect

LEMMA RunEffect ==
    ASSUME Values, NEW t \in Tables, NEW cache \in SUBSET Models,
           NEW s \in Statement, Sound(s, t, cache), NEW e \in Run(db, s)
    PROVE  Effect(s, e, t, cache) /\ (~Exists(db, t) => Properly(e[t], t))
<1>1. s.op = "create" => Effect(s, e, t, cache)
    BY RunCreate
<1>2. s.op \in {"add column", "alter"} => Effect(s, e, t, cache)
    BY RunColumn
<1>3. s.op \in {"add constraint", "drop constraint"} => Effect(s, e, t, cache)
    BY RunConstraint
<1>4. s.op \in {"create index", "create index if not exists", "drop index"} => Effect(s, e, t, cache)
    BY RunIndex
<1>5. s.op = "swap" => Effect(s, e, t, cache)
    BY RunSwap
<1>6. Effect(s, e, t, cache)
    BY <1>1, <1>2, <1>3, <1>4, <1>5, StatementFields
<1>7. CASE ~Exists(db, t)
    <2>1. s.op = "create"
        BY <1>6, <1>7 DEF Effect
    <2>2. QED
        BY <1>6, <2>1, RunCreate
<1>8. QED
    BY <1>6, <1>7

-----------------------------------------------------------------------------
(* What is decided on.                                                     *)

(* Statements for a table that do not make it anew.                        *)
Steady(t, cache) == {s \in Statement : Sound(s, t, cache) /\ s.op # "swap"}

LEMMA SteadyStatements ==
    ASSUME NEW t \in Tables, NEW cache \in SUBSET Models, NEW st \in Seq(Steady(t, cache))
    PROVE  /\ st \in Seq(Statement)
           /\ \A s \in ToSet(st) : s \in Statement /\ Sound(s, t, cache) /\ s.op # "swap"
<1>1. Steady(t, cache) \subseteq Statement
    BY DEF Steady
<1>2. st \in [1..Len(st) -> Steady(t, cache)] /\ Len(st) \in Nat /\ DOMAIN st = 1..Len(st)
    OBVIOUS
<1>3. st \in Seq(Statement)
    <2> HIDE DEF Steady
    <2>1. st \in [1..Len(st) -> Statement]
        BY <1>1, <1>2
    <2>2. QED
        BY <1>2, <2>1
<1>4. \A s \in ToSet(st) : s \in Steady(t, cache)
    BY <1>2 DEF ToSet
<1>5. QED
    BY <1>3, <1>4 DEF Steady

(* One statement, and one statement for each of some indexes.              *)
LEMMA SteadyOne ==
    ASSUME NEW t \in Tables, NEW cache \in SUBSET Models,
           NEW s \in Statement, Sound(s, t, cache), s.op # "swap"
    PROVE  <<s>> \in Seq(Steady(t, cache)) /\ ToSet(<<s>>) = {s}
<1>1. s \in Steady(t, cache)
    BY DEF Steady
<1>2. QED
    BY <1>1, ToSetShort

LEMMA CreateIndexStatement ==
    ASSUME NEW t \in Tables, NEW cache \in SUBSET Models, NEW i \in Indexes[t]
    PROVE  /\ CreateIndex(t, i)[1] \in Steady(t, cache)
           /\ CreateIndex(t, i) = <<CreateIndex(t, i)[1]>>
           /\ CreateIndex(t, i)[1].op \in {"create index", "create index if not exists"}
           /\ CreateIndex(t, i)[1].index = i
<1>1. i \in Index
    BY DeclaredAssumption
<1>2. CASE dialect = "postgres"
    <2> DEFINE s == [op |-> "create index if not exists", t |-> t, index |-> i]
    <2>1. CreateIndex(t, i) = <<s>>
        BY <1>2 DEF CreateIndex, CreateIndexPostgres
    <2>2. s \in Statement /\ s.op = "create index if not exists" /\ s.index = i /\ s.t = t
        BY <1>1 DEF Statement
    <2> HIDE DEF s
    <2>3. Sound(s, t, cache)
        BY <2>2 DEF Sound
    <2>4. CreateIndex(t, i)[1] = s
        BY <2>1
    <2>5. QED
        BY <2>1, <2>2, <2>3, <2>4 DEF Steady
<1>3. CASE dialect # "postgres"
    <2> DEFINE s == [op |-> "create index", t |-> t, index |-> i]
    <2>1. CreateIndex(t, i) = <<s>>
        BY <1>3 DEF CreateIndex
    <2>2. s \in Statement /\ s.op = "create index" /\ s.index = i /\ s.t = t
        BY <1>1 DEF Statement
    <2> HIDE DEF s
    <2>3. Sound(s, t, cache)
        BY <2>2 DEF Sound
    <2>4. CreateIndex(t, i)[1] = s
        BY <2>1
    <2>5. QED
        BY <2>1, <2>2, <2>3, <2>4 DEF Steady
<1>4. QED
    BY <1>2, <1>3

LEMMA CreateIndexes ==
    ASSUME NEW t \in Tables, NEW cache \in SUBSET Models, NEW I \in SUBSET Indexes[t]
    PROVE  LET st == SetToSeq({CreateIndex(t, i)[1] : i \in I})
           IN  /\ st \in Seq(Steady(t, cache))
               /\ \A i \in I : \E s \in ToSet(st) :
                     s.op \in {"create index", "create index if not exists"} /\ s.index = i
<1> DEFINE g == [i \in I |-> CreateIndex(t, i)[1]]
           T == {CreateIndex(t, i)[1] : i \in I}
<1>1. T = {g[i] : i \in I} /\ g \in [I -> {g[i] : i \in I}]
    OBVIOUS
<1>2. IsFiniteSet(I)
    BY DeclaredAssumption, FS_Subset
<1>3. IsFiniteSet(T)
    <2> HIDE DEF g, T
    <2> QED BY <1>1, <1>2, ImageFinite
<1>4. ASSUME NEW i \in I
      PROVE  /\ g[i] \in Steady(t, cache)
             /\ g[i].op \in {"create index", "create index if not exists"} /\ g[i].index = i
    <2>1. g[i] = CreateIndex(t, i)[1] /\ i \in Indexes[t]
        OBVIOUS
    <2> HIDE DEF g
    <2>2. /\ CreateIndex(t, i)[1] \in Steady(t, cache)
          /\ CreateIndex(t, i)[1].op \in {"create index", "create index if not exists"}
          /\ CreateIndex(t, i)[1].index = i
        BY <2>1, CreateIndexStatement, Zenon
    <2>3. QED
        BY <2>1, <2>2
<1>5. T \subseteq Steady(t, cache)
    <2> HIDE DEF g, T
    <2> QED BY <1>1, <1>4
<1>6. SetToSeq(T) \in Seq(T) /\ ToSet(SetToSeq(T)) = T
    <2> HIDE DEF T
    <2> QED BY <1>3, SetToSeqProperties
<1>7. SetToSeq(T) \in Seq(Steady(t, cache))
    <2> HIDE DEF T
    <2> QED BY <1>5, <1>6
<1>8. \A i \in I : \E s \in ToSet(SetToSeq(T)) :
          s.op \in {"create index", "create index if not exists"} /\ s.index = i
    <2> HIDE DEF g, T
    <2> QED BY <1>1, <1>4, <1>6
<1>9. QED
    BY <1>7, <1>8

(* CreateTable brings all that is declared.                                *)
LEMMA CreateTableStatements ==
    ASSUME dialect \in Dialects, NEW t \in Tables, NEW cache \in SUBSET Models
    PROVE  LET st == CreateTable(t, cache)
           IN  /\ st \in Seq(Steady(t, cache)) /\ st # <<>> /\ Head(st).op = "create"
               /\ dialect # "mysql" =>
                    \A i \in Indexes[t] : \E s \in ToSet(Tail(st)) :
                        s.op \in {"create index", "create index if not exists"} /\ s.index = i
<1> DEFINE def == [columns |-> [c \in Columns[t] |-> CreatedAs(t, c)],
                   constraints |-> DeclaredConstraints(t, cache),
                   indexes |-> IF dialect = "mysql" THEN Indexes[t] ELSE {}, rows |-> FALSE]
           head == [op |-> "create", t |-> t, def |-> def]
           rest == IF dialect = "mysql" THEN <<>> ELSE SetToSeq({CreateIndex(t, i)[1] : i \in Indexes[t]})
<1>1. CreateTable(t, cache) = <<head>> \o rest
    BY DEF CreateTable
<1>2. def \in Definition
    <2>1. Columns[t] \in SUBSET Column /\ \A c \in Columns[t] : CreatedAs(t, c) \in Attributes(DBTypes)
        BY DataTypes DEF Column
    <2>2. [c \in Columns[t] |-> CreatedAs(t, c)] \in [Columns[t] -> Attributes(DBTypes)]
        BY <2>1
    <2>3. DeclaredConstraints(t, cache) \in SUBSET Constraint
        BY DeclaredType
    <2>4. /\ (IF dialect = "mysql" THEN Indexes[t] ELSE {}) \in SUBSET Index
          /\ IsFiniteSet(IF dialect = "mysql" THEN Indexes[t] ELSE {})
        BY DeclaredAssumption, FS_EmptySet
    <2>5. FALSE \in BOOLEAN
        OBVIOUS
    <2>6. QED
        BY <2>1, <2>2, <2>3, <2>4, <2>5, DefinitionOf
<1>3. /\ DOMAIN def.columns = Columns[t] /\ def.constraints = DeclaredConstraints(t, cache)
      /\ def.indexes = IF dialect = "mysql" THEN Indexes[t] ELSE {}
    OBVIOUS
<1> HIDE DEF def
<1>4. head \in Statement /\ head.op = "create" /\ head.t = t /\ head.def = def
    BY <1>2 DEF Statement
<1> HIDE DEF head
<1>5. Sound(head, t, cache)
    BY <1>3, <1>4 DEF Sound
<1>6. <<head>> \in Seq(Steady(t, cache)) /\ head \in Steady(t, cache)
    BY <1>4, <1>5, SteadyOne DEF Steady
<1> DEFINE each == SetToSeq({CreateIndex(t, i)[1] : i \in Indexes[t]})
<1>7. /\ each \in Seq(Steady(t, cache))
      /\ \A i \in Indexes[t] : \E s \in ToSet(each) :
              s.op \in {"create index", "create index if not exists"} /\ s.index = i
    <2>1. Indexes[t] \in SUBSET Indexes[t]
        OBVIOUS
    <2>2. QED
        BY <2>1, CreateIndexes
<1>8. /\ rest \in Seq(Steady(t, cache))
      /\ dialect # "mysql" =>
            \A i \in Indexes[t] : \E s \in ToSet(rest) :
                s.op \in {"create index", "create index if not exists"} /\ s.index = i
    <2>1. rest = IF dialect = "mysql" THEN <<>> ELSE each
        OBVIOUS
    <2>2. <<>> \in Seq(Steady(t, cache))
        BY ToSetShort, <1>6
    <2> HIDE DEF rest, each
    <2>3. QED
        BY <1>7, <2>1, <2>2
<1> HIDE DEF rest
<1>9. (<<head>> \o rest) \in Seq(Steady(t, cache))
    BY <1>6, <1>8, ToSetConcat
<1>10. Head(<<head>> \o rest) = head /\ Tail(<<head>> \o rest) = rest /\ <<head>> \o rest # <<>>
    BY <1>6, <1>8, HeadTailConcat
<1>11. QED
    BY <1>1, <1>4, <1>8, <1>9, <1>10

(* Several statements that leave the table in place, or one that makes it  *)
(* anew.                                                                   *)
Planned(st, t, cache) ==
    \/ st \in Seq(Steady(t, cache))
    \/ \E s \in Statement : st = <<s>> /\ s.op = "swap" /\ Sound(s, t, cache)

(* A constraint is there or will be.                                       *)
Brings(st, t, con) ==
    \/ con \in db[t].constraints
    \/ \E s \in ToSet(st) : s.op = "add constraint" /\ s.con = con
    \/ \E s \in ToSet(st) : s.op = "swap" /\ con \in s.def.constraints

LEMMA NoStatements ==
    ASSUME NEW t \in Tables, NEW cache \in SUBSET Models
    PROVE  <<>> \in Seq(Steady(t, cache)) /\ Planned(<<>>, t, cache)
<1>1. <<>> \in Seq(Steady(t, cache))
    OBVIOUS
<1>2. QED
    BY <1>1 DEF Planned

LEMMA RecreateTableStatement ==
    ASSUME dialect = "sqlite", NEW t \in Tables, NEW cache \in SUBSET Models, Exists(db, t),
           NEW def \in Definition, DOMAIN def.columns = DOMAIN db[t].columns, def.rows = db[t].rows,
           db[t].constraints \cap DeclaredConstraints(t, cache) \subseteq def.constraints
    PROVE  /\ Planned(RecreateTable(t, def), t, cache)
           /\ \E s \in ToSet(RecreateTable(t, def)) : s.op = "swap" /\ s.def.constraints = def.constraints
<1> DEFINE to == [def EXCEPT !.indexes = {}]
           s == [op |-> "swap", t |-> t, def |-> to]
<1>1. RecreateTable(t, def) = <<s>>
    BY DEF RecreateTable
<1>2. to \in Definition
    BY DefinitionWith, FS_EmptySet
<1>3. /\ to.columns = def.columns /\ to.constraints = def.constraints
      /\ to.rows = def.rows /\ to.indexes = {}
    BY DefinitionFields
<1> HIDE DEF to
<1>4. s \in Statement /\ s.op = "swap" /\ s.t = t /\ s.def = to
    BY <1>2 DEF Statement
<1> HIDE DEF s
<1>5. Sound(s, t, cache)
    BY <1>3, <1>4 DEF Sound
<1>6. ToSet(<<s>>) = {s}
    BY <1>4, ToSetShort
<1>7. QED
    BY <1>1, <1>3, <1>4, <1>5, <1>6 DEF Planned

LEMMA AlterStatement ==
    ASSUME NEW t \in Tables, NEW cache \in SUBSET Models,
           NEW c \in Column, NEW to \in Attributes(DBTypes)
    PROVE  Alter(t, c, to) \in Seq(Steady(t, cache))
<1> DEFINE s == [op |-> "alter", t |-> t, c |-> c, to |-> to]
<1>1. Alter(t, c, to) = <<s>>
    BY DEF Alter
<1>2. s \in Statement /\ s.op = "alter" /\ s.t = t
    BY DEF Statement
<1> HIDE DEF s
<1>3. Sound(s, t, cache)
    BY <1>2 DEF Sound
<1>4. QED
    BY <1>1, <1>2, <1>3, SteadyOne

LEMMA AddColumnStatement ==
    ASSUME dialect \in Dialects, NEW t \in Tables, NEW cache \in SUBSET Models, NEW c \in Columns[t]
    PROVE  /\ AddColumn(t, c) \in Seq(Steady(t, cache))
           /\ \E s \in ToSet(AddColumn(t, c)) : s.op = "add column" /\ s.c = c
<1> DEFINE s == [op |-> "add column", t |-> t, c |-> c, to |-> FullDataTypeOf(t, c)]
<1>1. AddColumn(t, c) = <<s>>
    BY DEF AddColumn
<1>2. s \in Statement /\ s.op = "add column" /\ s.t = t /\ s.c = c
    BY DataTypes DEF Statement
<1> HIDE DEF s
<1>3. Sound(s, t, cache)
    BY <1>2 DEF Sound
<1>4. QED
    BY <1>1, <1>2, <1>3, SteadyOne

LEMMA MigrateColumnStatements ==
    ASSUME Values, NEW t \in Tables, NEW cache \in SUBSET Models, Exists(db, t),
           NEW c \in Columns[t], c \in DOMAIN db[t].columns, NEW was
    PROVE  Planned(MigrateColumn(t, c, was), t, cache)
<1>1. dialect \in {"mysql", "postgres", "sqlite", "sqlserver"} /\ dialect \in Dialects
    BY DialectsAssumption DEF Values
<1>2. db[t] \in Definition
    BY DEF Values, Exists
<1>3. /\ c \in Column /\ PgDBTypeMap(t, c) \in DBTypes
      /\ FullDataTypeOf(t, c) \in Attributes(DBTypes)
    BY <1>1, DataTypes
<1>4. db[t].columns \in [DOMAIN db[t].columns -> Attributes(DBTypes)] /\ DOMAIN db[t].columns \in SUBSET Column
    BY <1>2, DefinitionFields
<1>5. db[t].columns[c] \in Attributes(DBTypes)
    BY <1>4
<1> DEFINE to == FullDataTypeOf(t, c)
           now == db[t].columns[c]
<1>6. \A x \in Attributes(DBTypes) :
          /\ x.kind \in DBTypes /\ x.null \in BOOLEAN /\ x.default \in {"", "a", "b"}
          /\ \A k \in DBTypes : [x EXCEPT !.kind = k] \in Attributes(DBTypes)
          /\ \A n \in BOOLEAN : [x EXCEPT !.null = n] \in Attributes(DBTypes)
          /\ \A d \in {"", "a", "b"} : [x EXCEPT !.default = d] \in Attributes(DBTypes)
    BY DEF Attributes
<1>7. to \in Attributes(DBTypes) /\ now \in Attributes(DBTypes)
    BY <1>3, <1>5
<1>8. CASE dialect = "mysql"
    <2>1. AlterColumn(t, c) \in Seq(Steady(t, cache))
        BY <1>3, <1>8, AlterStatement DEF AlterColumn, AlterColumnMysql
    <2>2. QED
        BY <2>1, NoStatements DEF MigrateColumn, Planned
<1>9. CASE dialect = "sqlserver"
    <2> HIDE DEF to, now
    <2>1. now.default \in {"", "a", "b"}
        BY <1>6, <1>7
    <2>2. [to EXCEPT !.default = now.default] \in Attributes(DBTypes)
        BY <1>6, <1>7, <2>1
    <2>3. Alter(t, c, [to EXCEPT !.default = now.default]) \in Seq(Steady(t, cache))
        BY <1>3, <2>2, AlterStatement
    <2>4. AlterColumn(t, c) \in Seq(Steady(t, cache))
        BY <1>9, <2>3 DEF AlterColumn, AlterColumnSqlserver, to, now
    <2>5. QED
        BY <2>4, NoStatements DEF MigrateColumn, Planned
<1>10. CASE dialect = "sqlite"
    <2> DEFINE columns == [db[t].columns EXCEPT ![c] = to]
               def == [db[t] EXCEPT !.columns = columns]
    <2>1. columns \in [DOMAIN db[t].columns -> Attributes(DBTypes)]
        BY <1>3, <1>4
    <2>2. def \in Definition
        <3> HIDE DEF columns
        <3>1. \A D \in SUBSET Column : \A x \in [D -> Attributes(DBTypes)] :
                  [db[t] EXCEPT !.columns = x] \in Definition
            BY <1>2, DefinitionWith
        <3>2. QED
            BY <1>4, <2>1, <3>1
    <2>3. /\ DOMAIN def.columns = DOMAIN db[t].columns
          /\ def.constraints = db[t].constraints /\ def.rows = db[t].rows
        <3>1. db[t] = [columns |-> db[t].columns, constraints |-> db[t].constraints,
                       indexes |-> db[t].indexes, rows |-> db[t].rows]
            BY <1>2, DefinitionFields
        <3>2. QED
            BY <2>1, <3>1
    <2>4. def = [db[t] EXCEPT !.columns[c] = to]
        OBVIOUS
    <2> HIDE DEF def, columns
    <2>5. Planned(RecreateTable(t, def), t, cache)
        BY <1>10, <2>2, <2>3, RecreateTableStatement
    <2>6. AlterColumn(t, c) = RecreateTable(t, def)
        BY <1>10, <2>4 DEF AlterColumn, AlterColumnSqlite
    <2>7. QED
        BY <2>5, <2>6, NoStatements DEF MigrateColumn
<1>11. CASE dialect = "postgres"
    <2> DEFINE typed == IF now.kind # to.kind THEN ModifyColumn(t, c) ELSE now
               nullable == [typed EXCEPT !.null = to.null]
               last == [nullable EXCEPT !.default = to.default]
               a == IF now.kind # to.kind THEN Alter(t, c, typed) ELSE <<>>
               b == IF now.null # to.null THEN Alter(t, c, nullable) ELSE <<>>
               d == IF now.default # to.default THEN Alter(t, c, last) ELSE <<>>
    <2>1. AlterColumn(t, c) = a \o b \o d
        BY <1>11 DEF AlterColumn, AlterColumnPostgres
    <2> HIDE DEF to, now
    <2>2. ModifyColumn(t, c) \in Attributes(DBTypes)
        <3>1. ModifyColumn(t, c) = [now EXCEPT !.kind = PgDBTypeMap(t, c)]
            BY DEF ModifyColumn, now
        <3>2. \A k \in DBTypes : [now EXCEPT !.kind = k] \in Attributes(DBTypes)
            BY <1>6, <1>7
        <3>3. PgDBTypeMap(t, c) \in DBTypes
            BY <1>3
        <3>4. QED
            BY <3>1, <3>2, <3>3
    <2>3. to.null \in BOOLEAN /\ to.default \in {"", "a", "b"}
        BY <1>6, <1>7
    <2>4. typed \in Attributes(DBTypes)
        BY <1>7, <2>2
    <2> HIDE DEF typed
    <2>5. nullable \in Attributes(DBTypes)
        BY <1>6, <2>3, <2>4
    <2> HIDE DEF nullable
    <2>6. last \in Attributes(DBTypes)
        BY <1>6, <2>3, <2>5
    <2> HIDE DEF last
    <2>7. a \in Seq(Steady(t, cache)) /\ b \in Seq(Steady(t, cache)) /\ d \in Seq(Steady(t, cache))
        BY <1>3, <2>4, <2>5, <2>6, AlterStatement, NoStatements
    <2> HIDE DEF a, b, d
    <2>8. a \o b \in Seq(Steady(t, cache))
        BY <2>7, ToSetConcat
    <2>9. a \o b \o d \in Seq(Steady(t, cache))
        BY <2>7, <2>8, ToSetConcat
    <2>10. QED
        BY <2>1, <2>9, NoStatements DEF MigrateColumn, Planned
<1>12. QED
    BY <1>1, <1>8, <1>9, <1>10, <1>11

LEMMA CreateConstraintStatements ==
    ASSUME Values, NEW t \in Tables, NEW cache \in SUBSET Models, Exists(db, t),
           NEW con \in DeclaredConstraints(t, cache)
    PROVE  LET st == CreateConstraint(t, con)
           IN  /\ Planned(st, t, cache) /\ Brings(st, t, con)
               /\ dialect # "sqlite" => st \in Seq(Steady(t, cache))
<1>1. con \in Constraint
    BY DeclaredType
<1>2. db[t] \in Definition
    BY DEF Values, Exists
<1>3. CASE dialect # "sqlite"
    <2> DEFINE s == [op |-> "add constraint", t |-> t, con |-> con]
    <2>1. CreateConstraint(t, con) = <<s>>
        BY <1>3 DEF CreateConstraint
    <2>2. s \in Statement /\ s.op = "add constraint" /\ s.t = t /\ s.con = con
        BY <1>1 DEF Statement
    <2> HIDE DEF s
    <2>3. Sound(s, t, cache)
        BY <2>2 DEF Sound
    <2>4. <<s>> \in Seq(Steady(t, cache)) /\ ToSet(<<s>>) = {s}
        BY <2>2, <2>3, SteadyOne
    <2>5. QED
        BY <2>1, <2>2, <2>4 DEF Planned, Brings
<1>4. CASE dialect = "sqlite"
    <2> DEFINE cons == {x \in db[t].constraints : x.name # con.name} \cup {con}
               def == [db[t] EXCEPT !.constraints = cons]
    <2>1. CreateConstraint(t, con) = RecreateTable(t, def)
        BY <1>4 DEF CreateConstraint, CreateConstraintSqlite, DDLAddConstraint
    <2>2. cons \in SUBSET Constraint
        BY <1>1, <1>2, DefinitionFields
    <2>3. db[t].constraints \cap DeclaredConstraints(t, cache) \subseteq cons
        <3>1. \A x \in DeclaredConstraints(t, cache) : x.name = con.name => x = con
            BY DeclaredType
        <3>2. QED
            BY <3>1
    <2>4. con \in cons
        OBVIOUS
    <2> HIDE DEF cons
    <2>5. def \in Definition
        BY <1>2, <2>2, DefinitionWith
    <2>6. DOMAIN def.columns = DOMAIN db[t].columns /\ def.rows = db[t].rows /\ def.constraints = cons
        <3>1. db[t] = [columns |-> db[t].columns, constraints |-> db[t].constraints,
                       indexes |-> db[t].indexes, rows |-> db[t].rows]
            BY <1>2, DefinitionFields
        <3>2. QED
            BY <3>1
    <2> HIDE DEF def
    <2>7. /\ Planned(RecreateTable(t, def), t, cache)
          /\ \E s \in ToSet(RecreateTable(t, def)) : s.op = "swap" /\ s.def.constraints = def.constraints
        BY <1>4, <2>3, <2>5, <2>6, RecreateTableStatement
    <2>8. Brings(CreateConstraint(t, con), t, con)
        BY <2>1, <2>4, <2>6, <2>7 DEF Brings
    <2>9. QED
        BY <1>4, <2>1, <2>7, <2>8
<1>5. QED
    BY <1>3, <1>4

(* The constraint of a column that the model does not have unique.         *)
LEMMA DropConstraintStatements ==
    ASSUME Values, NEW t \in Tables, NEW cache \in SUBSET Models, Exists(db, t),
           NEW c \in Columns[t] \ Uniques[t]
    PROVE  LET st == DropConstraint(t, UniqueOn(t, c))
           IN  /\ Planned(st, t, cache)
               /\ dialect # "sqlite" => st \in Seq(Steady(t, cache))
<1> DEFINE con == UniqueOn(t, c)
<1>1. con \in Constraint
    <2>1. c \in Column
        BY DEF Column
    <2>2. QED
        BY <2>1 DEF UniqueOn, Constraint, Names
<1>2. db[t] \in Definition
    BY DEF Values, Exists
<1> HIDE DEF con
<1>3. CASE dialect # "sqlite"
    <2> DEFINE s == [op |-> "drop constraint", t |-> t, con |-> con]
    <2>1. DropConstraint(t, con) = <<s>>
        BY <1>3 DEF DropConstraint
    <2>2. s \in Statement /\ s.op = "drop constraint" /\ s.t = t /\ s.con = con
        BY <1>1 DEF Statement
    <2> HIDE DEF s
    <2>3. Sound(s, t, cache)
        BY <2>2 DEF Sound, con
    <2>4. <<s>> \in Seq(Steady(t, cache))
        BY <2>2, <2>3, SteadyOne
    <2>5. QED
        BY <2>1, <2>4 DEF Planned, con
<1>4. CASE dialect = "sqlite"
    <2> DEFINE cons == {x \in db[t].constraints : x.name # con.name}
               def == [db[t] EXCEPT !.constraints = cons]
    <2>1. DropConstraint(t, con) = RecreateTable(t, def)
        BY <1>4 DEF DropConstraint, DropConstraintSqlite, DDLRemoveConstraint
    <2>2. cons \in SUBSET Constraint
        BY <1>2, DefinitionFields
    <2>3. db[t].constraints \cap DeclaredConstraints(t, cache) \subseteq cons
        <3>1. \A x \in DeclaredConstraints(t, cache) : x.name = con.name => x = con
            BY DeclaredType DEF con
        <3>2. con \notin DeclaredConstraints(t, cache)
            BY DeclaredType DEF con
        <3>3. QED
            BY <3>1, <3>2
    <2> HIDE DEF cons
    <2>4. def \in Definition
        BY <1>2, <2>2, DefinitionWith
    <2>5. DOMAIN def.columns = DOMAIN db[t].columns /\ def.rows = db[t].rows /\ def.constraints = cons
        <3>1. db[t] = [columns |-> db[t].columns, constraints |-> db[t].constraints,
                       indexes |-> db[t].indexes, rows |-> db[t].rows]
            BY <1>2, DefinitionFields
        <3>2. QED
            BY <3>1
    <2> HIDE DEF def
    <2>6. Planned(RecreateTable(t, def), t, cache)
        BY <1>4, <2>3, <2>4, <2>5, RecreateTableStatement
    <2>7. QED
        BY <1>4, <2>1, <2>6 DEF con
<1>5. QED
    BY <1>3, <1>4

LEMMA DropIndexes ==
    ASSUME Values, NEW t \in Tables, NEW cache \in SUBSET Models, Exists(db, t), dialect = "mysql",
           NEW I \in SUBSET db[t].indexes,
           \A i \in I : i.unique /\ \A x \in Indexes[t] : x.name # i.name
    PROVE  SetToSeq({DropIndex(t, i)[1] : i \in I}) \in Seq(Steady(t, cache))
<1> DEFINE g == [i \in I |-> DropIndex(t, i)[1]]
           T == {DropIndex(t, i)[1] : i \in I}
<1>1. T = {g[i] : i \in I} /\ g \in [I -> {g[i] : i \in I}]
    OBVIOUS
<1>2. I \in SUBSET Index /\ IsFiniteSet(I)
    <2>1. db[t] \in Definition
        BY DEF Values, Exists
    <2>2. QED
        BY <2>1, DefinitionFields, FS_Subset
<1>3. IsFiniteSet(T)
    <2> HIDE DEF g, T
    <2> QED BY <1>1, <1>2, ImageFinite
<1>4. ASSUME NEW i \in I PROVE g[i] \in Steady(t, cache)
    <2> DEFINE s == [op |-> "drop index", t |-> t, index |-> i]
    <2>1. g[i] = s
        BY DEF DropIndex
    <2>2. s \in Statement /\ s.op = "drop index" /\ s.t = t /\ s.index = i
        BY <1>2 DEF Statement
    <2> HIDE DEF s, g, T
    <2>3. Sound(s, t, cache)
        BY <2>2 DEF Sound
    <2>4. QED
        BY <2>1, <2>2, <2>3 DEF Steady
<1> HIDE DEF g, T
<1>5. T \subseteq Steady(t, cache)
    BY <1>1, <1>4
<1>6. SetToSeq(T) \in Seq(T)
    BY <1>3, SetToSeqProperties
<1>7. QED
    BY <1>5, <1>6 DEF T

LEMMA MigrateColumnUniqueStatements ==
    ASSUME Values, Named, NEW t \in Tables, NEW cache \in SUBSET Models, Exists(db, t),
           NEW c \in Columns[t], NEW unique \in BOOLEAN,
           dialect # "mysql" /\ unique /\ c \in Uniques[t] => UniqueOn(t, c) \in db[t].constraints
    PROVE  LET st == MigrateColumnUnique(t, c, unique)
           IN  /\ Planned(st, t, cache)
               /\ c \in Uniques[t] => Brings(st, t, UniqueOn(t, c))
<1> DEFINE con == UniqueOn(t, c)
<1>1. c \in Uniques[t] => con \in DeclaredConstraints(t, cache)
    BY DEF DeclaredConstraints
<1> HIDE DEF con
<1>2. c \in Uniques[t] =>
        LET st == CreateConstraint(t, con)
        IN  /\ Planned(st, t, cache) /\ Brings(st, t, con)
            /\ dialect # "sqlite" => st \in Seq(Steady(t, cache))
    BY <1>1, CreateConstraintStatements
<1>3. c \notin Uniques[t] =>
        LET st == DropConstraint(t, con)
        IN  /\ Planned(st, t, cache)
            /\ dialect # "sqlite" => st \in Seq(Steady(t, cache))
    BY DropConstraintStatements DEF con
<1>4. CASE dialect # "mysql" /\ unique /\ c \notin Uniques[t]
    <2>1. MigrateColumnUnique(t, c, unique) = DropConstraint(t, con)
        BY <1>4 DEF MigrateColumnUnique, con
    <2>2. QED
        BY <1>3, <1>4, <2>1
<1>5. CASE dialect # "mysql" /\ ~unique /\ c \in Uniques[t]
    <2>1. MigrateColumnUnique(t, c, unique) = CreateConstraint(t, con)
        BY <1>5 DEF MigrateColumnUnique, con
    <2>2. QED
        BY <1>2, <1>5, <2>1 DEF con
<1>6. CASE dialect # "mysql" /\ (unique <=> c \in Uniques[t])
    <2>1. MigrateColumnUnique(t, c, unique) = <<>>
        BY <1>6 DEF MigrateColumnUnique
    <2>2. c \in Uniques[t] => con \in db[t].constraints
        BY <1>6 DEF con
    <2>3. QED
        BY <2>1, <2>2, NoStatements DEF Brings, con
<1>7. CASE dialect = "mysql"
    <2> DEFINE own   == {i \in Indexes[t] : i.unique /\ i.column = c}
               stray == {i \in db[t].indexes : i.unique /\ i.column = c /\ \A x \in own : x.name # i.name}
               miss  == {x \in own : ~HasIndex(t, x)}
               adds  == SetToSeq({CreateIndex(t, i)[1] : i \in miss})
               all   == SetToSeq({CreateIndex(t, i)[1] : i \in own})
               drops == SetToSeq({DropIndex(t, i)[1] : i \in stray})
               make  == IF c \in Uniques[t] THEN CreateConstraint(t, con) ELSE <<>>
               some  == IF c \in Uniques[t] /\ ~HasConstraint(t, con) THEN CreateConstraint(t, con) ELSE <<>>
    <2>1. MigrateColumnUnique(t, c, unique) =
            IF unique
            THEN drops \o (IF c \notin Uniques[t] /\ HasConstraint(t, con) THEN DropConstraint(t, con) \o all
                           ELSE some \o adds)
            ELSE make \o adds
        BY <1>7 DEF MigrateColumnUnique, MigrateColumnUniqueMysql, con
    <2>2. own \in SUBSET Indexes[t] /\ miss \in SUBSET Indexes[t]
        OBVIOUS
    <2>3. adds \in Seq(Steady(t, cache)) /\ all \in Seq(Steady(t, cache))
        <3> HIDE DEF own, miss
        <3> QED BY <2>2, CreateIndexes
    <2>4. drops \in Seq(Steady(t, cache))
        <3>1. ASSUME NEW i \in stray PROVE i.unique /\ \A x \in Indexes[t] : x.name # i.name
            <4>1. i \in db[t].indexes /\ i.unique /\ i.column = c /\ \A x \in own : x.name # i.name
                OBVIOUS
            <4>2. \A x \in Indexes[t] : x.name = i.name => x \in own
                BY <4>1 DEF Named
            <4>3. QED
                BY <4>1, <4>2
        <3>2. stray \in SUBSET db[t].indexes
            OBVIOUS
        <3> HIDE DEF stray
        <3>3. QED
            BY <1>7, <3>1, <3>2, DropIndexes
    <2> HIDE DEF own, stray, miss, adds, all, drops
    <2>5. CASE c \in Uniques[t]
        <3>1. LET st == CreateConstraint(t, con) IN st \in Seq(Steady(t, cache)) /\ Brings(st, t, con)
            BY <1>2, <1>7, <2>5
        <3>2. make \in Seq(Steady(t, cache)) /\ Brings(make, t, con)
            BY <2>5, <3>1
        <3>3. some \in Seq(Steady(t, cache)) /\ Brings(some, t, con)
            <4>1. CASE HasConstraint(t, con)
                <5>1. con \in db[t].constraints
                    BY <1>7, <4>1 DEF HasConstraint
                <5>2. QED
                    BY <4>1, <5>1, NoStatements DEF Brings
            <4>2. CASE ~HasConstraint(t, con)
                BY <2>5, <3>1, <4>2
            <4>3. QED
                BY <4>1, <4>2
        <3> HIDE DEF make, some
        <3>4. MigrateColumnUnique(t, c, unique) = IF unique THEN drops \o (some \o adds) ELSE make \o adds
            BY <2>1, <2>5
        <3>5. /\ some \o adds \in Seq(Steady(t, cache)) /\ ToSet(some \o adds) = ToSet(some) \cup ToSet(adds)
              /\ make \o adds \in Seq(Steady(t, cache)) /\ ToSet(make \o adds) = ToSet(make) \cup ToSet(adds)
            BY <2>3, <3>2, <3>3, ToSetConcat
        <3>6. /\ drops \o (some \o adds) \in Seq(Steady(t, cache))
              /\ ToSet(drops \o (some \o adds)) = ToSet(drops) \cup ToSet(some \o adds)
            <4> DEFINE last == some \o adds
            <4>1. last \in Seq(Steady(t, cache))
                BY <3>5
            <4> HIDE DEF last
            <4>2. drops \o last \in Seq(Steady(t, cache)) /\ ToSet(drops \o last) = ToSet(drops) \cup ToSet(last)
                BY <2>4, <4>1, ToSetConcat
            <4>3. QED
                BY <4>2 DEF last
        <3>7. MigrateColumnUnique(t, c, unique) \in Seq(Steady(t, cache))
            BY <3>4, <3>5, <3>6
        <3>8. Brings(MigrateColumnUnique(t, c, unique), t, con)
            <4>1. CASE unique
                BY <3>3, <3>4, <3>5, <3>6, <4>1 DEF Brings
            <4>2. CASE ~unique
                BY <3>2, <3>4, <3>5, <4>2 DEF Brings
            <4>3. QED
                BY <4>1, <4>2
        <3>9. QED
            BY <3>7, <3>8 DEF Planned, con
    <2>6. CASE c \notin Uniques[t]
        <3>1. DropConstraint(t, con) \in Seq(Steady(t, cache))
            BY <1>3, <1>7, <2>6
        <3>2. make \in Seq(Steady(t, cache)) /\ some \in Seq(Steady(t, cache))
            BY <2>6, NoStatements
        <3> HIDE DEF make, some
        <3>3. /\ some \o adds \in Seq(Steady(t, cache)) /\ make \o adds \in Seq(Steady(t, cache))
              /\ DropConstraint(t, con) \o all \in Seq(Steady(t, cache))
            BY <2>3, <3>1, <3>2, ToSetConcat
        <3>4. /\ drops \o (some \o adds) \in Seq(Steady(t, cache))
              /\ drops \o (DropConstraint(t, con) \o all) \in Seq(Steady(t, cache))
            BY <2>4, <3>3, ToSetConcat
        <3>5. MigrateColumnUnique(t, c, unique) \in Seq(Steady(t, cache))
            BY <2>1, <3>3, <3>4
        <3>6. QED
            BY <2>6, <3>5 DEF Planned
    <2>7. QED
        BY <2>5, <2>6
<1>8. QED
    BY <1>4, <1>5, <1>6, <1>7

LEMMA ItemFields ==
    ASSUME NEW t \in Tables, NEW cache \in SUBSET Models, NEW w \in Items(t, cache)
    PROVE  /\ w.what \in {"column", "unique", "constraint", "index", "create"}
           /\ w.what \in {"column", "unique"} => w.c \in Columns[t]
           /\ w.what = "column" => w = ColumnItem(w.c)
           /\ w.what = "unique" => w = UniqueItem(w.c)
           /\ w.what = "constraint" => w.con \in DeclaredConstraints(t, cache) /\ w = ConstraintItem(w.con)
           /\ w.what = "index" => w.i \in Indexes[t] /\ w = IndexItem(w.i)
           /\ w.what = "create" => w = [what |-> "create"]
<1>1. CASE w \in [what : {"column", "unique"}, c : Columns[t]]
    BY <1>1 DEF ColumnItem, UniqueItem
<1>2. CASE w \in [what : {"constraint"}, con : DeclaredConstraints(t, cache)]
    BY <1>2 DEF ConstraintItem
<1>3. CASE w \in [what : {"index"}, i : Indexes[t]]
    BY <1>3 DEF IndexItem
<1>4. CASE w \in [what : {"create"}]
    BY <1>4
<1>5. QED
    BY <1>1, <1>2, <1>3, <1>4 DEF Items

LEMMA DecideStatements ==
    ASSUME Values, Named, NEW p \in Callers, NEW t \in Tables, Exists(db, t),
           NEW w \in Items(t, parsed[p]), w.what # "create",
           w.what \in {"column", "unique"} /\ w.c \in DOMAIN seen[p].columns => w.c \in DOMAIN db[t].columns,
           /\ dialect # "mysql" /\ w.what = "unique" /\ w.c \in seen[p].unique /\ w.c \in Uniques[t]
           => UniqueOn(t, w.c) \in db[t].constraints
    PROVE  LET st == Decide(p, t, w)
           IN  /\ Planned(st, t, parsed[p])
               /\ w.what = "index" => st \in Seq(Steady(t, parsed[p]))
               /\ w.what = "column" =>
                    w.c \in DOMAIN seen[p].columns \/ \E s \in ToSet(st) : s.op = "add column" /\ s.c = w.c
               /\ w.what = "unique" /\ w.c \in DOMAIN seen[p].columns /\ w.c \in Uniques[t] =>
                    Brings(st, t, UniqueOn(t, w.c))
               /\ w.what = "constraint" => Brings(st, t, w.con)
               /\ w.what = "index" =>
                    \/ HasIndex(t, w.i)
                    \/ \E s \in ToSet(st) : s.op \in {"create index", "create index if not exists"} /\ s.index = w.i
<1> DEFINE cache == parsed[p]
<1>1. cache \in SUBSET Models /\ dialect \in Dialects /\ w \in Items(t, cache)
    BY DEF Values
<1> HIDE DEF cache
<1>2. CASE w.what = "column"
    <2>1. w.c \in Columns[t]
        BY <1>1, <1>2, ItemFields
    <2>2. CASE w.c \in DOMAIN seen[p].columns
        <3>1. Decide(p, t, w) = MigrateColumn(t, w.c, seen[p].columns[w.c])
            BY <1>2, <2>2 DEF Decide
        <3>2. w.c \in DOMAIN db[t].columns
            BY <1>2, <2>2
        <3>3. Planned(MigrateColumn(t, w.c, seen[p].columns[w.c]), t, cache)
            BY <1>1, <2>1, <3>2, MigrateColumnStatements
        <3>4. QED
            BY <1>2, <2>2, <3>1, <3>3 DEF cache
    <2>3. CASE w.c \notin DOMAIN seen[p].columns
        <3>1. Decide(p, t, w) = AddColumn(t, w.c)
            BY <1>2, <2>3 DEF Decide
        <3>2. QED
            <4>1. /\ AddColumn(t, w.c) \in Seq(Steady(t, cache))
                  /\ \E s \in ToSet(AddColumn(t, w.c)) : s.op = "add column" /\ s.c = w.c
                BY <1>1, <2>1, AddColumnStatement
            <4>2. QED
                BY <1>2, <3>1, <4>1 DEF Planned, cache
    <2>4. QED
        BY <2>2, <2>3
<1>3. CASE w.what = "unique"
    <2>1. w.c \in Columns[t]
        BY <1>1, <1>3, ItemFields
    <2>2. CASE w.c \in DOMAIN seen[p].columns
        <3> DEFINE unique == w.c \in seen[p].unique
        <3>1. Decide(p, t, w) = MigrateColumnUnique(t, w.c, unique)
            BY <1>3, <2>2 DEF Decide
        <3>2. unique \in BOOLEAN
            OBVIOUS
        <3>3. dialect # "mysql" /\ unique /\ w.c \in Uniques[t] => UniqueOn(t, w.c) \in db[t].constraints
            BY <1>3
        <3> HIDE DEF unique
        <3>4. /\ Planned(MigrateColumnUnique(t, w.c, unique), t, cache)
              /\ w.c \in Uniques[t] => Brings(MigrateColumnUnique(t, w.c, unique), t, UniqueOn(t, w.c))
            BY <1>1, <2>1, <3>2, <3>3, MigrateColumnUniqueStatements
        <3>5. QED
            BY <1>3, <3>1, <3>4 DEF cache
    <2>3. CASE w.c \notin DOMAIN seen[p].columns
        <3>1. Decide(p, t, w) = <<>>
            BY <1>3, <2>3 DEF Decide
        <3>2. QED
            BY <1>1, <1>3, <2>3, <3>1, NoStatements DEF cache
    <2>4. QED
        BY <2>2, <2>3
<1>4. CASE w.what = "constraint"
    <2>1. w.con \in DeclaredConstraints(t, cache)
        BY <1>1, <1>4, ItemFields
    <2>2. Decide(p, t, w) = IF HasConstraint(t, w.con) THEN <<>> ELSE CreateConstraint(t, w.con)
        BY <1>4 DEF Decide
    <2>3. HasConstraint(t, w.con) => w.con \in db[t].constraints
        BY DEF HasConstraint, HasConstraintSqlserver
    <2>4. CASE HasConstraint(t, w.con)
        BY <1>1, <1>4, <2>2, <2>3, <2>4, NoStatements DEF Brings, cache
    <2>5. CASE ~HasConstraint(t, w.con)
        <3>1. LET st == CreateConstraint(t, w.con) IN Planned(st, t, cache) /\ Brings(st, t, w.con)
            BY <1>1, <2>1, CreateConstraintStatements
        <3>2. QED
            BY <1>4, <2>2, <2>5, <3>1 DEF cache
    <2>6. QED
        BY <2>4, <2>5
<1>5. CASE w.what = "index"
    <2>1. w.i \in Indexes[t]
        BY <1>1, <1>5, ItemFields
    <2>2. Decide(p, t, w) = IF HasIndex(t, w.i) THEN <<>> ELSE CreateIndex(t, w.i)
        BY <1>5 DEF Decide
    <2>3. CASE HasIndex(t, w.i)
        BY <1>1, <1>5, <2>2, <2>3, NoStatements DEF cache
    <2>4. CASE ~HasIndex(t, w.i)
        <3> DEFINE s == CreateIndex(t, w.i)[1]
        <3>1. /\ s \in Steady(t, cache) /\ CreateIndex(t, w.i) = <<s>>
              /\ s.op \in {"create index", "create index if not exists"} /\ s.index = w.i
            BY <1>1, <2>1, CreateIndexStatement
        <3> HIDE DEF s
        <3>2. <<s>> \in Seq(Steady(t, cache)) /\ ToSet(<<s>>) = {s}
            BY <3>1, ToSetShort
        <3>3. Decide(p, t, w) = <<s>>
            BY <2>2, <2>4, <3>1
        <3>4. QED
            BY <1>5, <3>1, <3>2, <3>3 DEF Planned, cache
    <2>5. QED
        BY <2>3, <2>4
<1>6. QED
    BY <1>1, <1>2, <1>3, <1>4, <1>5, ItemFields

-----------------------------------------------------------------------------
(* What there is to look at.                                               *)

LEMMA OrderedConcat ==
    ASSUME NEW S, NEW a \in Seq(S), NEW b \in Seq(S), Ordered(a), Ordered(b),
           \A v \in ToSet(a), w \in ToSet(b) : Before(v, w)
    PROVE  Ordered(a \o b)
<1>1. /\ a \o b \in Seq(S) /\ Len(a \o b) = Len(a) + Len(b)
      /\ \A i \in 1..Len(a) : (a \o b)[i] = a[i]
      /\ \A i \in 1..Len(b) : (a \o b)[Len(a) + i] = b[i]
    BY ConcatProperties
<1>2. /\ Len(a) \in Nat /\ Len(b) \in Nat
      /\ DOMAIN a = 1..Len(a) /\ DOMAIN b = 1..Len(b) /\ DOMAIN (a \o b) = 1..Len(a \o b)
    BY <1>1
<1> DEFINE w == a \o b
<1> HIDE DEF w
<1>3. ASSUME NEW m \in 1..(Len(a) + Len(b)), NEW n \in 1..(Len(a) + Len(b)), m < n
      PROVE  Before(w[m], w[n])
    <2>1. \A i \in 1..(Len(a) + Len(b)) : i > Len(a) => i - Len(a) \in 1..Len(b) /\ w[i] = b[i - Len(a)]
        <3>1. ASSUME NEW i \in 1..(Len(a) + Len(b)), i > Len(a)
              PROVE  i - Len(a) \in 1..Len(b) /\ w[i] = b[i - Len(a)]
            <4>1. i - Len(a) \in 1..Len(b) /\ Len(a) + (i - Len(a)) = i
                BY <1>2, <3>1
            <4>2. QED
                BY <1>1, <4>1 DEF w
        <3>2. QED
            BY <3>1
    <2>2. CASE n \leq Len(a)
        <3>1. m \in DOMAIN a /\ n \in DOMAIN a /\ w[m] = a[m] /\ w[n] = a[n]
            BY <1>1, <1>2, <1>3, <2>2 DEF w
        <3>2. QED
            BY <1>3, <3>1 DEF Ordered
    <2>3. CASE m > Len(a)
        <3>1. /\ m - Len(a) \in DOMAIN b /\ n - Len(a) \in DOMAIN b /\ m - Len(a) < n - Len(a)
              /\ w[m] = b[m - Len(a)] /\ w[n] = b[n - Len(a)]
            BY <1>2, <1>3, <2>1, <2>3
        <3>2. QED
            BY <3>1 DEF Ordered
    <2>4. CASE m \leq Len(a) /\ n > Len(a)
        <3>1. /\ m \in DOMAIN a /\ w[m] = a[m]
              /\ n - Len(a) \in DOMAIN b /\ w[n] = b[n - Len(a)]
            BY <1>1, <1>2, <1>3, <2>1, <2>4 DEF w
        <3>2. QED
            BY <3>1 DEF ToSet
    <2>5. QED
        BY <1>2, <2>2, <2>3, <2>4
<1>4. QED
    BY <1>1, <1>2, <1>3 DEF Ordered, w

LEMMA ColumnWork ==
    ASSUME NEW t \in Tables
    PROVE  LET columns == SetToSeq(Columns[t])
               work == [n \in 1..(2 * Len(columns)) |->
                          [what |-> IF n % 2 = 1 THEN "column" ELSE "unique", c |-> columns[(n + 1) \div 2]]]
           IN  /\ work \in Seq([what : {"column", "unique"}, c : Columns[t]])
               /\ Ordered(work)
               /\ \A c \in Columns[t] : ColumnItem(c) \in ToSet(work) /\ UniqueItem(c) \in ToSet(work)
<1> DEFINE columns == SetToSeq(Columns[t])
           L == Len(columns)
           item(n) == [what |-> IF n % 2 = 1 THEN "column" ELSE "unique", c |-> columns[(n + 1) \div 2]]
           work == [n \in 1..(2 * L) |-> item(n)]
           S == [what : {"column", "unique"}, c : Columns[t]]
<1>1. /\ columns \in Seq(Columns[t]) /\ ToSet(columns) = Columns[t]
      /\ \A i, j \in DOMAIN columns : columns[i] = columns[j] => i = j
    <2>1. IsFiniteSet(Columns[t])
        BY ModelsAssumption DEF Tables
    <2>2. QED
        BY <2>1, SetToSeqProperties
<1> HIDE DEF columns
<1>2. L \in Nat /\ DOMAIN columns = 1..L /\ \A i \in 1..L : columns[i] \in Columns[t]
    BY <1>1
<1> HIDE DEF L
<1>3. \A n \in 1..(2 * L) : (n + 1) \div 2 \in 1..L
    BY <1>2
<1>4. \A n \in 1..(2 * L) : item(n) \in S
    BY <1>2, <1>3
<1>5. work \in Seq(S) /\ DOMAIN work = 1..(2 * L)
    <2> DEFINE N == 2 * L
    <2>1. N \in Nat
        BY <1>2
    <2>2. work \in [1..N -> S] /\ DOMAIN work = 1..N
        BY <1>4
    <2> HIDE DEF N, work, S
    <2>3. work \in Seq(S)
        BY <2>1, <2>2
    <2>4. QED
        BY <2>2, <2>3 DEF N
<1>6. ASSUME NEW n \in 1..(2 * L)
      PROVE  /\ n % 2 = 1 => work[n].what = "column"
             /\ n % 2 # 1 => work[n].what = "unique"
             /\ work[n].c = columns[(n + 1) \div 2]
    <2>1. work[n] = item(n)
        OBVIOUS
    <2> HIDE DEF work
    <2>2. QED
        BY <2>1
<1>7. ASSUME NEW c \in Columns[t] PROVE ColumnItem(c) \in ToSet(work) /\ UniqueItem(c) \in ToSet(work)
    <2>1. PICK i \in 1..L : c = columns[i]
        BY <1>1, <1>2 DEF ToSet
    <2>2. /\ 2 * i - 1 \in 1..(2 * L) /\ (2 * i - 1) % 2 = 1 /\ ((2 * i - 1) + 1) \div 2 = i
          /\ 2 * i \in 1..(2 * L) /\ (2 * i) % 2 = 0 /\ (2 * i + 1) \div 2 = i
        BY <1>2, <2>1
    <2>3. work[2 * i - 1] = ColumnItem(c) /\ work[2 * i] = UniqueItem(c)
        BY <2>1, <2>2 DEF ColumnItem, UniqueItem
    <2> HIDE DEF work
    <2>4. QED
        BY <1>5, <2>2, <2>3 DEF ToSet
<1> HIDE DEF work
<1>8. ASSUME NEW m \in 1..(2 * L), NEW n \in 1..(2 * L), m < n
      PROVE  Before(work[m], work[n])
    <2>1. work[m].what # "index" /\ work[n].what # "create"
        BY <1>6
    <2>2. CASE work[m].what = "unique" /\ work[n].what = "column"
        <3>1. m % 2 # 1 /\ n % 2 = 1
            BY <1>6, <2>2
        <3>2. (m + 1) \div 2 # (n + 1) \div 2
            BY <1>2, <1>8, <3>1
        <3>3. columns[(m + 1) \div 2] # columns[(n + 1) \div 2]
            BY <1>1, <1>2, <1>3, <3>2
        <3>4. QED
            BY <1>6, <2>1, <3>3 DEF Before
    <2>3. CASE ~(work[m].what = "unique" /\ work[n].what = "column")
        BY <2>1, <2>3 DEF Before
    <2>4. QED
        BY <2>2, <2>3
<1>9. Ordered(work)
    BY <1>5, <1>8 DEF Ordered
<1>10. QED
    BY <1>5, <1>7, <1>9 DEF work, L, columns

(* Constraints or indexes, in any order.                                   *)
LEMMA OtherWork ==
    ASSUME NEW T, IsFiniteSet(T), \A v, w \in T : Before(v, w)
    PROVE  /\ SetToSeq(T) \in Seq(T) /\ Ordered(SetToSeq(T)) /\ ToSet(SetToSeq(T)) = T
<1>1. SetToSeq(T) \in Seq(T) /\ ToSet(SetToSeq(T)) = T
    BY SetToSeqProperties
<1>2. \A n \in DOMAIN SetToSeq(T) : SetToSeq(T)[n] \in T
    BY <1>1
<1>3. QED
    BY <1>1, <1>2 DEF Ordered

LEMMA WorkOnItems ==
    ASSUME NEW p, NEW t \in Tables, parsed[p] \in SUBSET Models
    PROVE  LET work == WorkOn(p, t)
           IN  /\ work \in Seq(Items(t, parsed[p])) /\ Ordered(work)
               /\ [what |-> "create"] \notin ToSet(work)
               /\ \A c \in Columns[t] : ColumnItem(c) \in ToSet(work) /\ UniqueItem(c) \in ToSet(work)
               /\ \A con \in DeclaredConstraints(t, parsed[p]) :
                     con.kind # "unique" => ConstraintItem(con) \in ToSet(work)
               /\ \A i \in Indexes[t] : IndexItem(i) \in ToSet(work)
<1> DEFINE cache == parsed[p]
           all == Items(t, cache)
           declared == DeclaredConstraints(t, cache)
           others == declared \ {UniqueOn(t, c) : c \in Uniques[t]}
           F == {[what |-> "constraint", con |-> con] : con \in {x \in others : x.kind = "fk"}}
           K == {[what |-> "constraint", con |-> con] : con \in {x \in others : x.kind = "check"}}
           I == {[what |-> "index", i |-> i] : i \in Indexes[t]}
           C == [what : {"column", "unique"}, c : Columns[t]]
           columns == SetToSeq(Columns[t])
           a == [n \in 1..(2 * Len(columns)) |->
                   [what |-> IF n % 2 = 1 THEN "column" ELSE "unique", c |-> columns[(n + 1) \div 2]]]
           f == SetToSeq(F)
           k == SetToSeq(K)
           x == SetToSeq(I)
<1>1. WorkOn(p, t) = a \o f \o k \o x
    BY DEF WorkOn
<1>2. /\ a \in Seq(C) /\ Ordered(a)
      /\ \A c \in Columns[t] : ColumnItem(c) \in ToSet(a) /\ UniqueItem(c) \in ToSet(a)
    BY ColumnWork
<1>3. declared \subseteq Constraint /\ IsFiniteSet(declared)
    BY DeclaredType
<1>4. \A S \in SUBSET declared : IsFiniteSet({[what |-> "constraint", con |-> con] : con \in S})
    <2>1. ASSUME NEW S \in SUBSET declared
          PROVE  IsFiniteSet({[what |-> "constraint", con |-> con] : con \in S})
        <3> DEFINE g == [con \in S |-> [what |-> "constraint", con |-> con]]
        <3>1. /\ {[what |-> "constraint", con |-> con] : con \in S} = {g[con] : con \in S}
              /\ g \in [S -> {g[con] : con \in S}]
            OBVIOUS
        <3>2. IsFiniteSet(S)
            BY <1>3, FS_Subset
        <3> HIDE DEF g
        <3>3. QED
            BY <3>1, <3>2, ImageFinite
    <2>2. QED
        BY <2>1
<1>5. IsFiniteSet(F) /\ IsFiniteSet(K)
    <2> DEFINE SF == {y \in others : y.kind = "fk"}
               SK == {y \in others : y.kind = "check"}
    <2>1. SF \in SUBSET declared /\ SK \in SUBSET declared
        OBVIOUS
    <2> HIDE DEF SF, SK, declared
    <2>2. /\ IsFiniteSet({[what |-> "constraint", con |-> con] : con \in SF})
          /\ IsFiniteSet({[what |-> "constraint", con |-> con] : con \in SK})
        BY <1>4, <2>1
    <2>3. QED
        BY <2>2 DEF SF, SK
<1>6. IsFiniteSet(I)
    <2> DEFINE g == [i \in Indexes[t] |-> [what |-> "index", i |-> i]]
    <2>1. I = {g[i] : i \in Indexes[t]} /\ g \in [Indexes[t] -> {g[i] : i \in Indexes[t]}]
        OBVIOUS
    <2> HIDE DEF g, I
    <2>2. QED
        BY <2>1, DeclaredAssumption, ImageFinite
<1>7. /\ C \subseteq all /\ F \subseteq all /\ K \subseteq all /\ I \subseteq all
      /\ \A v \in C : v.what \in {"column", "unique"}
      /\ \A v \in F \cup K : v.what = "constraint"
      /\ \A v \in I : v.what = "index"
    BY DEF Items
<1>8. \A con \in declared : con.kind # "unique" => ConstraintItem(con) \in F \cup K
    <2>1. \A con \in declared : con.kind \in {"unique", "fk", "check"}
        BY <1>3 DEF Constraint
    <2>2. \A con \in declared : con.kind # "unique" => con \in others
        BY DEF UniqueOn
    <2>3. QED
        BY <2>1, <2>2 DEF ConstraintItem
<1>9. \A i \in Indexes[t] : IndexItem(i) \in I
    BY DEF IndexItem
<1> HIDE DEF a, C, F, K, I, declared, all
<1>10. \A v, w : v.what = "constraint" /\ w.what = "constraint" => Before(v, w)
    BY DEF Before
<1>11. /\ f \in Seq(F) /\ Ordered(f) /\ ToSet(f) = F
       /\ k \in Seq(K) /\ Ordered(k) /\ ToSet(k) = K
    <2>1. \A v, w \in F : Before(v, w)
        BY <1>7, <1>10
    <2>2. \A v, w \in K : Before(v, w)
        BY <1>7, <1>10
    <2>3. QED
        BY <1>5, <2>1, <2>2, OtherWork
<1>12. x \in Seq(I) /\ Ordered(x) /\ ToSet(x) = I
    <2>1. \A v, w \in I : Before(v, w)
        BY <1>7 DEF Before
    <2>2. QED
        BY <1>6, <2>1, OtherWork
<1> HIDE DEF f, k, x
<1>13. a \in Seq(all) /\ f \in Seq(all) /\ k \in Seq(all) /\ x \in Seq(all)
    BY <1>2, <1>7, <1>11, <1>12, SeqMonotonic
<1>14. \A v \in ToSet(a) : v.what \in {"column", "unique"}
    <2>1. \A v \in ToSet(a) : v \in C
        BY <1>2 DEF ToSet
    <2>2. QED
        BY <1>7, <2>1
<1> DEFINE af == a \o f
<1>15. af \in Seq(all) /\ ToSet(af) = ToSet(a) \cup F /\ Ordered(af)
    <2>1. \A v \in ToSet(a), w \in ToSet(f) : Before(v, w)
        BY <1>7, <1>11, <1>14 DEF Before
    <2>2. QED
        BY <1>2, <1>11, <1>13, <2>1, ToSetConcat, OrderedConcat
<1> HIDE DEF af
<1> DEFINE afk == af \o k
<1>16. afk \in Seq(all) /\ ToSet(afk) = ToSet(a) \cup F \cup K /\ Ordered(afk)
    <2>1. \A v \in ToSet(af), w \in ToSet(k) : Before(v, w)
        BY <1>7, <1>11, <1>14, <1>15 DEF Before
    <2>2. QED
        BY <1>11, <1>13, <1>15, <2>1, ToSetConcat, OrderedConcat
<1> HIDE DEF afk
<1> DEFINE afkx == afk \o x
<1>17. afkx \in Seq(all) /\ ToSet(afkx) = ToSet(a) \cup F \cup K \cup I /\ Ordered(afkx)
    <2>1. \A v \in ToSet(afk), w \in ToSet(x) : Before(v, w)
        BY <1>7, <1>12, <1>14, <1>16 DEF Before
    <2>2. QED
        <3>1. Ordered(afkx)
            BY <1>12, <1>13, <1>16, <2>1, OrderedConcat
        <3>2. afkx \in Seq(all) /\ ToSet(afkx) = ToSet(afk) \cup ToSet(x)
            BY <1>13, <1>16, ToSetConcat
        <3>3. QED
            BY <1>12, <1>16, <3>1, <3>2
<1>18. WorkOn(p, t) = afkx
    BY <1>1 DEF af, afk
<1> HIDE DEF afkx
<1>19. \A v \in ToSet(afkx) : v.what # "create"
    BY <1>7, <1>14, <1>17
<1>20. QED
    BY <1>2, <1>8, <1>9, <1>17, <1>18, <1>19 DEF all, declared

-----------------------------------------------------------------------------
(* Other callers.                                                          *)

(* Every table keeps what is declared of it.                               *)
DbKept ==
    \A t \in Tables : Exists(db, t) =>
        /\ Exists(db', t) /\ KeepsIndexes(db[t], db'[t], t)
        /\ \A k \in SUBSET Models : Keeps(db[t], db'[t], t, k)

LEMMA SameKept ==
    ASSUME db' = db
    PROVE  DbKept
<1>1. ASSUME NEW t \in Tables, Exists(db, t)
      PROVE  /\ Exists(db', t) /\ KeepsIndexes(db[t], db'[t], t)
             /\ \A k \in SUBSET Models : Keeps(db[t], db'[t], t, k)
    <2>1. db'[t] = db[t]
        OBVIOUS
    <2>2. Exists(db', t)
        BY <1>1, <2>1 DEF Exists
    <2>3. KeepsIndexes(db[t], db[t], t) /\ \A k \in SUBSET Models : Keeps(db[t], db[t], t, k)
        BY DEF KeepsIndexes, Keeps
    <2>4. QED
        BY <2>1, <2>2, <2>3
<1>2. QED
    BY <1>1, Zenon DEF DbKept

LEMMA MadeKept ==
    ASSUME NEW p \in Callers, NEW t \in Tables, parsed[p] \in SUBSET Models,
           parsed'[p] = parsed[p], ghost[p].added \subseteq ghost'[p].added,
           Exists(db', t) /\ KeepsIndexes(db[t], db'[t], t) /\ Keeps(db[t], db'[t], t, parsed[p]),
           Made(p, t)
    PROVE  Made(p, t)'
<1>1. Exists(db, t)' /\ Columns[t] \subseteq DOMAIN db'[t].columns
    BY DEF Made, Keeps, Exists
<1>2. \A con \in DeclaredConstraints(t, parsed[p]) :
          con \in db'[t].constraints \/ (con.kind = "unique" /\ <<t, con.column>> \in ghost'[p].added)
    BY DEF Made, Keeps
<1>3. \A i \in Indexes[t] : HasIndex(t, i)'
    BY DEF Made, HasIndex, KeepsIndexes, IndexNamed
<1>4. QED
    BY <1>1, <1>2, <1>3 DEF Made

LEMMA OthersKept ==
    ASSUME Inv, NEW q \in Callers, dialect' = dialect, call'[q] = call[q], parsed'[q] = parsed[q],
           seen'[q] = seen[q], ghost'[q].added = ghost[q].added, ghost'[q].alone => ghost[q].alone,
           \/ DbKept /\ (dialect = "sqlite" => db' = db)
           \/ dialect = "sqlite" /\ ~Answers(q)
    PROVE  Local(q)'
<1> DEFINE t == Model(q)
<1>1. Local(q) /\ Values
    BY DEF Inv
<1>2. parsed[q] \in SUBSET Models /\ call[q] \in Call
    BY <1>1 DEF Values
<1>3. /\ Work(q)' = Work(q) /\ Stmts(q)' = Stmts(q) /\ Model(q)' = Model(q)
      /\ Runs(q)' = Runs(q) /\ (Answers(q)' => Answers(q))
    BY DEF Work, Stmts, Model, Runs, Answers
<1>4. InOrder(q)'
    BY <1>1 DEF Local, InOrder
<1>5. CASE dialect = "sqlite" /\ ~Answers(q)
    <2>1. ~Runs(q)
        BY <1>5 DEF Answers
    <2>2. call[q].work = <<>> /\ call[q].stmts = <<>> /\ Model(q) = None
        BY <1>1, <2>1 DEF Local, Fits
    <2>3. Work(q) = {} /\ Stmts(q) = {}
        BY <2>2 DEF Work, Stmts, ToSet
    <2>4. Fits(q)'
        BY <1>3, <2>2, <2>3 DEF Fits
    <2>5. SeenStill(q)'
        BY <1>3, <2>3 DEF SeenStill
    <2>6. IndexesLast(q)'
        BY <1>3, <2>2, <2>3 DEF IndexesLast
    <2>7. Ahead(q)'
        BY <1>3, <1>5 DEF Ahead
    <2>8. QED
        BY <1>4, <2>4, <2>5, <2>6, <2>7 DEF Local
<1>6. CASE DbKept /\ (dialect = "sqlite" => db' = db)
    <2>1. Fits(q)'
        <3>1. /\ ~Runs(q)' => call'[q].work = <<>> /\ call'[q].stmts = <<>> /\ Model(q)' = None
              /\ call'[q].work # <<>> \/ call'[q].stmts # <<>> => Model(q)' \in Tables
              /\ \A w \in Work(q)' : w \in Items(Model(q)', parsed'[q])
            BY <1>1, <1>3 DEF Local, Fits
        <3>2. ASSUME NEW s \in Stmts(q)
              PROVE  Sound(s, Model(q), parsed[q])' /\ (s.op = "swap" => Len(call'[q].stmts) = 1)
            <4>1. Sound(s, Model(q), parsed[q]) /\ (s.op = "swap" => Len(call[q].stmts) = 1)
                BY <1>1 DEF Local, Fits
            <4>2. s.op = "swap" => db' = db
                BY <1>6, <4>1 DEF Sound
            <4>3. QED
                BY <1>3, <4>1, <4>2 DEF Sound, Exists
        <3>3. QED
            BY <1>3, <3>1, <3>2 DEF Fits
    <2>2. SeenStill(q)'
        <3>1. ASSUME NEW w \in Work(q), w.what \in {"column", "unique"}
              PROVE  /\ w.c \in DOMAIN seen[q].columns => Exists(db', t) /\ w.c \in DOMAIN db'[t].columns
                     /\ dialect # "mysql" /\ w.c \in seen[q].unique /\ w.c \in Uniques[t] =>
                          Exists(db', t) /\ UniqueOn(t, w.c) \in db'[t].constraints
            <4>1. t \in Tables
                <5>1. call[q].work # <<>>
                    BY DEF Work, ToSet
                <5>2. QED
                    BY <1>1, <5>1 DEF Local, Fits
            <4>2. Exists(db, t) => Exists(db', t) /\ Keeps(db[t], db'[t], t, parsed[q])
                BY <1>2, <1>6, <4>1 DEF DbKept
            <4>3. w.c \in Uniques[t] => UniqueOn(t, w.c) \in DeclaredConstraints(t, parsed[q])
                BY DEF DeclaredConstraints
            <4>4. /\ w.c \in DOMAIN seen[q].columns => Exists(db, t) /\ w.c \in DOMAIN db[t].columns
                  /\ dialect # "mysql" /\ w.c \in seen[q].unique /\ w.c \in Uniques[t] =>
                          Exists(db, t) /\ UniqueOn(t, w.c) \in db[t].constraints
                BY <1>1, <3>1 DEF Local, SeenStill
            <4>5. QED
                BY <4>2, <4>3, <4>4 DEF Keeps
        <3>2. ASSUME NEW w \in Work(q), w.what = "unique"
              PROVE  \/ w.c \in DOMAIN seen[q].columns
                     \/ <<t, w.c>> \in ghost[q].added
                     \/ ColumnItem(w.c) \in Work(q)
                     \/ \E s \in Stmts(q) : s.op = "add column" /\ s.c = w.c
            BY <1>1, <3>2 DEF Local, SeenStill
        <3>3. QED
            BY <1>3, <3>1, <3>2 DEF SeenStill, Exists
    <2>3. IndexesLast(q)'
        BY <1>1, <1>3 DEF Local, IndexesLast
    <2>4. ASSUME Answers(q), NEW x \in ToSet(call[q].models)
          PROVE  x \in ToSet(call[q].todo) \/ x = Model(q) \/ Made(q, x)'
        <3>1. x \in ToSet(call[q].todo) \/ x = Model(q) \/ Made(q, x)
            BY <1>1, <2>4 DEF Local, Ahead
        <3>2. x \in Tables
            BY <1>2 DEF Call, ToSet
        <3>3. CASE Made(q, x)
            <4>1. Exists(db', x) /\ KeepsIndexes(db[x], db'[x], x) /\ Keeps(db[x], db'[x], x, parsed[q])
                BY <1>2, <1>6, <3>2, <3>3 DEF DbKept, Made
            <4>2. QED
                BY <1>2, <3>2, <3>3, <4>1, MadeKept
        <3>4. QED
            BY <3>1, <3>3
    <2>5. InCreation(q) => InCreation(q)'
        BY <1>3 DEF InCreation
    <2>6. ASSUME t \in Tables, Underway(q) PROVE Underway(q)'
        <3>1. Exists(db, t)
            BY <2>6 DEF Underway
        <3>2. Exists(db', t) /\ KeepsIndexes(db[t], db'[t], t) /\ Keeps(db[t], db'[t], t, parsed[q])
            BY <1>2, <1>6, <2>6, <3>1 DEF DbKept
        <3>3. \A c \in Columns[t] :
                \/ c \in DOMAIN db'[t].columns
                \/ ColumnItem(c) \in Work(q)
                \/ \E s \in Stmts(q) : s.op = "add column" /\ s.c = c
            BY <2>6, <3>2 DEF Underway, Keeps
        <3>4. \A con \in DeclaredConstraints(t, parsed[q]) :
                \/ con \in db'[t].constraints
                \/ ConstraintItem(con) \in Work(q)
                \/ \E s \in Stmts(q) : s.op = "add constraint" /\ s.con = con
                \/ \E s \in Stmts(q) : s.op = "swap" /\ con \in s.def.constraints
                \/ con.kind = "unique" /\ (<<t, con.column>> \in ghost[q].added \/ UniqueItem(con.column) \in Work(q))
            BY <2>6, <3>2 DEF Underway, Keeps
        <3>5. \A i \in Indexes[t] :
                \/ IndexNamed(db'[t], i)
                \/ IndexItem(i) \in Work(q)
                \/ \E s \in Stmts(q) : s.op \in {"create index", "create index if not exists"} /\ s.index = i
            BY <2>6, <3>2 DEF Underway, KeepsIndexes, IndexNamed, HasIndex
        <3>6. [what |-> "create"] \notin Work(q)
            BY <2>6 DEF Underway
        <3>7. Exists(db', t) /\ Exists(db, Model(q))' /\ [what |-> "create"] \notin Work(q)'
            BY <1>3, <3>2, <3>6 DEF Exists
        <3>8. \A i \in Indexes[t] :
                \/ HasIndex(Model(q), i)'
                \/ IndexItem(i) \in Work(q)'
                \/ \E s \in Stmts(q)' : s.op \in {"create index", "create index if not exists"} /\ s.index = i
            BY <1>3, <3>5 DEF HasIndex, IndexNamed
        <3>9. \A con \in DeclaredConstraints(Model(q)', parsed'[q]) :
                \/ con \in db'[Model(q)'].constraints
                \/ ConstraintItem(con) \in Work(q)'
                \/ \E s \in Stmts(q)' : s.op = "add constraint" /\ s.con = con
                \/ \E s \in Stmts(q)' : s.op = "swap" /\ con \in s.def.constraints
                \/ con.kind = "unique" /\ (<<Model(q)', con.column>> \in ghost'[q].added \/ UniqueItem(con.column) \in Work(q)')
            BY <1>3, <3>4
        <3>10. \A c \in Columns[Model(q)'] :
                \/ c \in DOMAIN db'[Model(q)'].columns
                \/ ColumnItem(c) \in Work(q)'
                \/ \E s \in Stmts(q)' : s.op = "add column" /\ s.c = c
            BY <1>3, <3>3
        <3>11. QED
            BY <1>3, <3>7, <3>8, <3>9, <3>10 DEF Underway
    <2>7. Ahead(q)'
        <3>1. SUFFICES ASSUME Answers(q)'
                       PROVE  /\ \A x \in ToSet(call'[q].models) :
                                    x \in ToSet(call'[q].todo) \/ x = Model(q)' \/ Made(q, x)'
                              /\ Model(q)' \in Tables => InCreation(q)' \/ Underway(q)'
                              /\ call'[q].at = "ok" => call'[q].todo = <<>>
            BY DEF Ahead
        <3>2. /\ Model(q) \in Tables => InCreation(q) \/ Underway(q)
              /\ call[q].at = "ok" => call[q].todo = <<>>
            BY <1>1, <1>3, <3>1 DEF Local, Ahead
        <3>3. \A x \in ToSet(call'[q].models) :
                  x \in ToSet(call'[q].todo) \/ x = Model(q)' \/ Made(q, x)'
            BY <1>3, <2>4, <3>1
        <3>4. Model(q)' \in Tables => InCreation(q)' \/ Underway(q)'
            BY <1>3, <2>5, <2>6, <3>2
        <3>5. QED
            BY <3>2, <3>3, <3>4
    <2>8. QED
        BY <1>4, <2>1, <2>2, <2>3, <2>7 DEF Local
<1>7. QED
    BY <1>5, <1>6

LEMMA SingleKept ==
    ASSUME Single, dialect' = dialect,
           \A q \in Callers : call'[q].at = call[q].at /\ (ghost'[q].alone => ghost[q].alone)
    PROVE  Single'
BY DEF Single, Runs

LEMMA OrderedTail ==
    ASSUME NEW S, NEW s \in Seq(S), s # <<>>, Ordered(s)
    PROVE  Ordered(Tail(s)) /\ \A v \in ToSet(Tail(s)) : Before(Head(s), v)
<1> DEFINE u == Tail(s)
<1>1. /\ Head(s) = s[1] /\ u \in Seq(S) /\ Len(u) = Len(s) - 1
      /\ Len(s) \in Nat /\ Len(s) # 0 /\ \A i \in 1..(Len(s) - 1) : u[i] = s[i + 1]
    BY ToSetTail
<1> HIDE DEF u
<1>2. DOMAIN s = 1..Len(s) /\ DOMAIN u = 1..(Len(s) - 1)
    BY <1>1
<1>3. ASSUME NEW m \in DOMAIN u, NEW n \in DOMAIN u, m < n PROVE Before(u[m], u[n])
    <2>1. m + 1 \in DOMAIN s /\ n + 1 \in DOMAIN s /\ m + 1 < n + 1
        BY <1>1, <1>2, <1>3
    <2>2. Before(s[m + 1], s[n + 1])
        BY <2>1 DEF Ordered
    <2>3. QED
        BY <1>1, <1>2, <2>2
<1>4. ASSUME NEW v \in ToSet(u) PROVE Before(s[1], v)
    <2>1. PICK n \in DOMAIN u : v = u[n]
        BY DEF ToSet
    <2>2. 1 \in DOMAIN s /\ n + 1 \in DOMAIN s /\ 1 < n + 1 /\ v = s[n + 1]
        BY <1>1, <1>2, <2>1
    <2>3. QED
        BY <2>2 DEF Ordered
<1>5. QED
    BY <1>1, <1>3, <1>4 DEF Ordered, u

(* What a call that runs has before it.                                    *)
LEMMA Going ==
    ASSUME Inv, NEW p \in Callers, Runs(p)
    PROVE  /\ parsed[p] \in SUBSET Models /\ call[p] \in Call /\ Answers(p)
           /\ call[p].work \in Seq(Item) /\ call[p].stmts \in Seq(Statement)
           /\ call[p].work # <<>> \/ call[p].stmts # <<>> => Model(p) \in Tables
           /\ Model(p) \in Tables => InCreation(p) \/ Underway(p)
           /\ \A x \in ToSet(call[p].models) : x \in ToSet(call[p].todo) \/ x = Model(p) \/ Made(p, x)
           /\ ToSet(call[p].models) \subseteq Tables
<1>1. Local(p) /\ Values
    BY DEF Inv
<1>2. parsed[p] \in SUBSET Models /\ call[p] \in Call
    BY <1>1 DEF Values
<1>3. Answers(p)
    BY DEF Answers
<1>4. ToSet(call[p].models) \subseteq Tables
    BY <1>2 DEF Call, ToSet
<1>5. call[p].work \in Seq(Item) /\ call[p].stmts \in Seq(Statement)
    BY <1>2 DEF Call
<1>6. QED
    BY <1>1, <1>2, <1>3, <1>4, <1>5 DEF Local, Fits, Ahead

(* What is left of a call that goes on.                                    *)
LEMMA CallWith ==
    ASSUME NEW c \in Call
    PROVE  \A work \in Seq(Item), st \in Seq(Statement) : [c EXCEPT !.work = work, !.stmts = st] \in Call
BY DEF Call

LEMMA LookCreate ==
    ASSUME Inv, NEW p \in Callers, Look(p), Head(call[p].work).what = "create"
    PROVE  Local(p)' /\ call'[p] \in Call
<1> DEFINE t == Model(p)
           cache == parsed[p]
           st == CreateTable(t, cache)
<1>1. /\ Runs(p) /\ call[p].stmts = <<>> /\ call[p].work # <<>>
      /\ dialect' = dialect /\ db' = db /\ parsed' = parsed /\ seen' = seen /\ ghost' = ghost
    BY DEF Look, Runs
<1>2. /\ cache \in SUBSET Models /\ call[p] \in Call /\ t \in Tables
      /\ call[p].work \in Seq(Item) /\ (InCreation(p) \/ Underway(p))
      /\ \A x \in ToSet(call[p].models) : x \in ToSet(call[p].todo) \/ x = Model(p) \/ Made(p, x)
    BY <1>1, Going
<1>3. dialect \in Dialects /\ Local(p) /\ call \in [Callers -> Call]
    BY DEF Inv, Values
<1>4. Head(call[p].work) \in Work(p) /\ Head(call[p].work) \in Items(t, cache)
    BY <1>1, <1>2, <1>3, ToSetTail DEF Work, Local, Fits
<1>5. Head(call[p].work) = [what |-> "create"]
    BY <1>2, <1>4, ItemFields
<1>6. ~Underway(p)
    BY <1>4, <1>5 DEF Underway
<1>7. call[p].work = <<[what |-> "create"]>>
    BY <1>1, <1>2, <1>6 DEF InCreation
<1>8. Decide(p, t, Head(call[p].work)) = st
    BY <1>5 DEF Decide
<1>9. call' = [call EXCEPT ![p].work = Tail(@), ![p].stmts = st]
    BY <1>8 DEF Look, Model
<1>10. Tail(call[p].work) = <<>>
    BY <1>7
<1> HIDE DEF st
<1>11. call'[p] = [call[p] EXCEPT !.work = <<>>, !.stmts = st]
    BY <1>3, <1>9, <1>10
<1>12. /\ st \in Seq(Steady(t, cache)) /\ st # <<>> /\ Head(st).op = "create"
       /\ dialect # "mysql" =>
            \A i \in Indexes[t] : \E s \in ToSet(Tail(st)) :
                s.op \in {"create index", "create index if not exists"} /\ s.index = i
    BY <1>2, <1>3, CreateTableStatements DEF st
<1>13. st \in Seq(Statement) /\ \A s \in ToSet(st) : s \in Statement /\ Sound(s, t, cache) /\ s.op # "swap"
    BY <1>2, <1>12, SteadyStatements
<1>14. call'[p] \in Call
    <2>1. <<>> \in Seq(Item)
        OBVIOUS
    <2>2. \A work \in Seq(Item), u \in Seq(Statement) : [call[p] EXCEPT !.work = work, !.stmts = u] \in Call
        BY <1>2, CallWith
    <2>3. [call[p] EXCEPT !.work = <<>>, !.stmts = st] \in Call
        BY <1>13, <2>1, <2>2
    <2>4. QED
        BY <1>11, <2>3
<1>15. /\ call'[p].at = call[p].at /\ call'[p].models = call[p].models /\ call'[p].todo = call[p].todo
       /\ call'[p].model = call[p].model /\ call'[p].work = <<>> /\ call'[p].stmts = st
    BY <1>2, <1>11 DEF Call
<1>16. Work(p)' = {} /\ Stmts(p)' = ToSet(st) /\ Model(p)' = t /\ Runs(p)'
    BY <1>1, <1>15 DEF Work, Stmts, Model, Runs, ToSet
<1>17. Fits(p)'
    <2>1. \A s \in Stmts(p)' : Sound(s, Model(p), parsed[p])' /\ s.op # "swap"
        <3>1. ASSUME NEW s \in ToSet(st) PROVE Sound(s, Model(p), parsed[p])' /\ s.op # "swap"
            <4>1. Sound(s, t, cache) /\ s.op # "swap"
                BY <1>13
            <4>2. QED
                BY <1>1, <1>16, <4>1 DEF Sound, Exists
        <3>2. QED
            BY <1>16, <3>1
    <2>2. QED
        BY <1>2, <1>15, <1>16, <2>1 DEF Fits
<1>18. InOrder(p)' /\ SeenStill(p)' /\ IndexesLast(p)'
    BY <1>13, <1>15, <1>16 DEF InOrder, Ordered, SeenStill, IndexesLast
<1>19. InCreation(p)'
    BY <1>1, <1>12, <1>15, <1>16 DEF InCreation
<1>20. \A x \in ToSet(call[p].models) : x \in ToSet(call[p].todo) \/ x = t \/ Made(p, x)'
    BY <1>1, <1>2 DEF Made, HasIndex, Exists
<1>21. Ahead(p)'
    <2>1. call'[p].at # "ok"
        BY <1>1, <1>15 DEF Runs
    <2>2. \A x \in ToSet(call'[p].models) : x \in ToSet(call'[p].todo) \/ x = Model(p)' \/ Made(p, x)'
        BY <1>15, <1>16, <1>20
    <2>3. QED
        BY <1>19, <2>1, <2>2 DEF Ahead
<1>22. QED
    BY <1>14, <1>17, <1>18, <1>21 DEF Local

LEMMA LookOther ==
    ASSUME Inv, NEW p \in Callers, Look(p), Head(call[p].work).what # "create"
    PROVE  Local(p)' /\ call'[p] \in Call
<1> DEFINE t == Model(p)
           cache == parsed[p]
           w == Head(call[p].work)
           rest == Tail(call[p].work)
           st == Decide(p, t, w)
<1>1. /\ Runs(p) /\ call[p].stmts = <<>> /\ call[p].work # <<>>
      /\ dialect' = dialect /\ db' = db /\ parsed' = parsed /\ seen' = seen /\ ghost' = ghost
    BY DEF Look, Runs
<1>2. /\ cache \in SUBSET Models /\ call[p] \in Call /\ t \in Tables
      /\ call[p].work \in Seq(Item) /\ (InCreation(p) \/ Underway(p)) /\ Answers(p)
      /\ \A x \in ToSet(call[p].models) : x \in ToSet(call[p].todo) \/ x = Model(p) \/ Made(p, x)
    BY <1>1, Going
<1>3. /\ dialect \in Dialects /\ Local(p) /\ call \in [Callers -> Call] /\ Values /\ Named
    BY DEF Inv, Values
<1>4. /\ w \in Work(p) /\ w \in Items(t, cache) /\ Work(p) = {w} \cup ToSet(rest)
      /\ rest \in Seq(Item)
    BY <1>1, <1>2, <1>3, ToSetTail DEF Work, Local, Fits
<1>5. Stmts(p) = {}
    BY <1>1 DEF Stmts, ToSet
<1>6. Underway(p)
    <2>1. call[p].work # <<[what |-> "create"]>>
        OBVIOUS
    <2>2. QED
        BY <1>1, <1>2, <2>1 DEF InCreation
<1>7. Exists(db, t)
    BY <1>6 DEF Underway
<1>8. SeenStill(p) /\ InOrder(p) /\ IndexesLast(p) /\ Fits(p)
    BY <1>3 DEF Local
<1>9. Ordered(rest) /\ \A v \in ToSet(rest) : Before(w, v)
    BY <1>1, <1>2, <1>8, OrderedTail DEF InOrder
<1> HIDE DEF w, rest
<1>10. /\ w.what \in {"column", "unique"} /\ w.c \in DOMAIN seen[p].columns => w.c \in DOMAIN db[t].columns
       /\ dialect # "mysql" /\ w.what = "unique" /\ w.c \in seen[p].unique /\ w.c \in Uniques[t] =>
            UniqueOn(t, w.c) \in db[t].constraints
    BY <1>4, <1>8 DEF SeenStill
<1>11. w.what # "create"
    BY DEF w
<1>12. /\ Planned(st, t, cache)
       /\ w.what = "index" => st \in Seq(Steady(t, cache))
       /\ w.what = "column" =>
            w.c \in DOMAIN seen[p].columns \/ \E s \in ToSet(st) : s.op = "add column" /\ s.c = w.c
       /\ w.what = "unique" /\ w.c \in DOMAIN seen[p].columns /\ w.c \in Uniques[t] =>
            Brings(st, t, UniqueOn(t, w.c))
       /\ w.what = "constraint" => Brings(st, t, w.con)
       /\ w.what = "index" =>
            \/ HasIndex(t, w.i)
            \/ \E s \in ToSet(st) : s.op \in {"create index", "create index if not exists"} /\ s.index = w.i
    BY <1>2, <1>3, <1>4, <1>7, <1>10, <1>11, DecideStatements
<1>13. call' = [call EXCEPT ![p].work = rest, ![p].stmts = st]
    BY DEF Look, Model, rest, w
<1> HIDE DEF st
<1>14. /\ st \in Seq(Statement)
       /\ \A s \in ToSet(st) : s \in Statement /\ Sound(s, t, cache) /\ (s.op = "swap" => Len(st) = 1)
       /\ st \in Seq(Steady(t, cache)) => \A s \in ToSet(st) : s.op # "swap"
    <2>1. CASE st \in Seq(Steady(t, cache))
        BY <1>2, <2>1, SteadyStatements
    <2>2. CASE st \notin Seq(Steady(t, cache))
        <3>1. PICK s \in Statement : st = <<s>> /\ s.op = "swap" /\ Sound(s, t, cache)
            BY <1>12, <2>2 DEF Planned
        <3>2. ToSet(st) = {s} /\ Len(st) = 1 /\ st \in Seq(Statement)
            BY <3>1, ToSetShort
        <3>3. QED
            BY <2>2, <3>1, <3>2
    <2>3. QED
        BY <2>1, <2>2
<1>15. call'[p] = [call[p] EXCEPT !.work = rest, !.stmts = st]
    BY <1>3, <1>13
<1>16. call'[p] \in Call
    <2>1. \A work \in Seq(Item), u \in Seq(Statement) : [call[p] EXCEPT !.work = work, !.stmts = u] \in Call
        BY <1>2, CallWith
    <2>2. [call[p] EXCEPT !.work = rest, !.stmts = st] \in Call
        BY <1>4, <1>14, <2>1
    <2>3. QED
        BY <1>15, <2>2
<1>17. /\ call'[p].at = call[p].at /\ call'[p].models = call[p].models /\ call'[p].todo = call[p].todo
       /\ call'[p].model = call[p].model /\ call'[p].work = rest /\ call'[p].stmts = st
    BY <1>2, <1>15 DEF Call
<1>18. Work(p)' = ToSet(rest) /\ Stmts(p)' = ToSet(st) /\ Model(p)' = t /\ Runs(p)'
    BY <1>1, <1>17 DEF Work, Stmts, Model, Runs
<1>19. Fits(p)'
    <2>1. \A s \in Stmts(p)' : Sound(s, Model(p), parsed[p])' /\ (s.op = "swap" => Len(call'[p].stmts) = 1)
        <3>1. ASSUME NEW s \in ToSet(st) PROVE Sound(s, Model(p), parsed[p])' /\ (s.op = "swap" => Len(st) = 1)
            <4>1. Sound(s, t, cache) /\ (s.op = "swap" => Len(st) = 1)
                BY <1>14
            <4>2. QED
                BY <1>1, <1>18, <4>1 DEF Sound, Exists
        <3>2. QED
            BY <1>17, <1>18, <3>1
    <2>2. \A v \in ToSet(rest) : v \in Items(t, cache)
        BY <1>4, <1>8 DEF Fits
    <2>3. QED
        BY <1>1, <1>2, <1>18, <2>1, <2>2 DEF Fits
<1>20. InOrder(p)'
    BY <1>9, <1>17 DEF InOrder
<1>21. SeenStill(p)'
    <2>1. ASSUME NEW v \in ToSet(rest), v.what \in {"column", "unique"}
          PROVE  /\ v.c \in DOMAIN seen[p].columns => Exists(db, t) /\ v.c \in DOMAIN db[t].columns
                 /\ dialect # "mysql" /\ v.c \in seen[p].unique /\ v.c \in Uniques[t] =>
                      Exists(db, t) /\ UniqueOn(t, v.c) \in db[t].constraints
                 /\ v.what = "unique" =>
                      \/ v.c \in DOMAIN seen[p].columns
                      \/ <<t, v.c>> \in ghost[p].added
                      \/ ColumnItem(v.c) \in Work(p)
        BY <1>4, <1>5, <1>8, <2>1 DEF SeenStill
    <2>2. ASSUME NEW v \in ToSet(rest), v.what = "unique", ColumnItem(v.c) \in Work(p)
          PROVE  \/ v.c \in DOMAIN seen[p].columns
                 \/ ColumnItem(v.c) \in ToSet(rest)
                 \/ \E s \in ToSet(st) : s.op = "add column" /\ s.c = v.c
        <3>1. CASE ColumnItem(v.c) = w
            <4>1. w.what = "column" /\ w.c = v.c
                BY <3>1 DEF ColumnItem
            <4>2. QED
                BY <1>12, <4>1
        <3>2. CASE ColumnItem(v.c) # w
            BY <1>4, <2>2, <3>2
        <3>3. QED
            BY <3>1, <3>2
    <2>3. ASSUME NEW v \in ToSet(rest), v.what = "unique"
          PROVE  \/ v.c \in DOMAIN seen[p].columns
                 \/ <<t, v.c>> \in ghost[p].added
                 \/ ColumnItem(v.c) \in ToSet(rest)
                 \/ \E s \in ToSet(st) : s.op = "add column" /\ s.c = v.c
        BY <2>1, <2>2, <2>3
    <2>4. QED
        BY <1>1, <1>18, <2>1, <2>3 DEF SeenStill, Exists
<1>22. ASSUME dialect = "sqlite",
              \/ call'[p].work # <<>> /\ Head(call'[p].work).what \in {"column", "unique", "constraint"}
              \/ \E s \in Stmts(p)' : s.op = "swap"
       PROVE  \A i \in Indexes[t] : IndexItem(i) \in ToSet(rest)
    <2>1. w.what # "index"
        <3>1. ASSUME w.what = "index" PROVE FALSE
            <4>1. \A s \in ToSet(st) : s.op # "swap"
                BY <1>12, <1>14, <3>1
            <4>2. rest # <<>> /\ Head(rest).what \in {"column", "unique", "constraint"}
                BY <1>17, <1>18, <1>22, <4>1
            <4>3. Head(rest) \in ToSet(rest)
                BY <1>4, <4>2, ToSetTail
            <4>4. Head(rest).what = "index"
                BY <1>9, <3>1, <4>3 DEF Before
            <4>5. QED
                BY <4>2, <4>4
        <3>2. QED
            BY <3>1
    <2>2. w.what \in {"column", "unique", "constraint"}
        BY <1>2, <1>4, <1>11, <2>1, ItemFields
    <2>3. \A i \in Indexes[t] : IndexItem(i) \in Work(p)
        BY <1>1, <1>8, <1>22, <2>2 DEF IndexesLast, w
    <2>4. \A i \in Indexes[t] : IndexItem(i) # w
        BY <2>1 DEF IndexItem
    <2>5. QED
        BY <1>4, <2>3, <2>4
<1>23. IndexesLast(p)'
    BY <1>1, <1>18, <1>22 DEF IndexesLast
<1>24. ASSUME NEW c \in Columns[t]
       PROVE  \/ c \in DOMAIN db[t].columns
              \/ ColumnItem(c) \in ToSet(rest)
              \/ \E s \in ToSet(st) : s.op = "add column" /\ s.c = c
    <2>1. c \in DOMAIN db[t].columns \/ ColumnItem(c) \in Work(p)
        BY <1>5, <1>6 DEF Underway
    <2>2. CASE ColumnItem(c) = w
        <3>1. w.what = "column" /\ w.c = c
            BY <2>2 DEF ColumnItem
        <3>2. QED
            BY <1>10, <1>12, <3>1
    <2>3. QED
        BY <1>4, <2>1, <2>2
<1>25. ASSUME NEW con \in DeclaredConstraints(t, cache)
       PROVE  \/ Brings(st, t, con)
              \/ ConstraintItem(con) \in ToSet(rest)
              \/ con.kind = "unique" /\ (<<t, con.column>> \in ghost[p].added \/ UniqueItem(con.column) \in ToSet(rest))
    <2>1. \/ con \in db[t].constraints
          \/ ConstraintItem(con) \in Work(p)
          \/ con.kind = "unique" /\ (<<t, con.column>> \in ghost[p].added \/ UniqueItem(con.column) \in Work(p))
        BY <1>5, <1>6 DEF Underway
    <2>2. con \in db[t].constraints => Brings(st, t, con)
        BY DEF Brings
    <2>3. CASE ConstraintItem(con) = w
        <3>1. w.what = "constraint" /\ w.con = con
            BY <2>3 DEF ConstraintItem
        <3>2. QED
            BY <1>12, <3>1
    <2>4. CASE con.kind = "unique" /\ UniqueItem(con.column) = w
        <3>1. w.what = "unique" /\ w.c = con.column
            BY <2>4 DEF UniqueItem
        <3>2. con.column \in Uniques[t] /\ con = UniqueOn(t, con.column)
            BY <1>2, <2>4, DeclaredType
        <3>3. CASE w.c \in DOMAIN seen[p].columns
            BY <1>12, <3>1, <3>2, <3>3
        <3>4. CASE w.c \notin DOMAIN seen[p].columns
            <4>1. ColumnItem(w.c) \notin Work(p)
                <5>1. ColumnItem(w.c) # w /\ ColumnItem(w.c).what = "column" /\ ColumnItem(w.c).c = w.c
                    BY <3>1 DEF ColumnItem
                <5>2. ColumnItem(w.c) \notin ToSet(rest)
                    BY <1>9, <3>1, <5>1 DEF Before
                <5>3. QED
                    BY <1>4, <5>1, <5>2
            <4>2. <<t, w.c>> \in ghost[p].added
                BY <1>4, <1>5, <1>8, <3>1, <3>4, <4>1 DEF SeenStill
            <4>3. QED
                BY <2>4, <3>1, <4>2
        <3>5. QED
            BY <3>3, <3>4
    <2>5. QED
        BY <1>4, <2>1, <2>2, <2>3, <2>4
<1>26. ASSUME NEW i \in Indexes[t]
       PROVE  \/ HasIndex(t, i)
              \/ IndexItem(i) \in ToSet(rest)
              \/ \E s \in ToSet(st) : s.op \in {"create index", "create index if not exists"} /\ s.index = i
    <2>1. HasIndex(t, i) \/ IndexItem(i) \in Work(p)
        BY <1>5, <1>6 DEF Underway
    <2>2. CASE IndexItem(i) = w
        <3>1. w.what = "index" /\ w.i = i
            BY <2>2 DEF IndexItem
        <3>2. QED
            BY <1>12, <3>1
    <2>3. QED
        BY <1>4, <2>1, <2>2
<1>27. Underway(p)'
    <2>1. Exists(db, Model(p))' /\ [what |-> "create"] \notin Work(p)'
        BY <1>1, <1>4, <1>6, <1>7, <1>18 DEF Underway, Exists
    <2>2. \A c \in Columns[Model(p)'] :
              \/ c \in DOMAIN db'[Model(p)'].columns
              \/ ColumnItem(c) \in Work(p)'
              \/ \E s \in Stmts(p)' : s.op = "add column" /\ s.c = c
        BY <1>1, <1>18, <1>24
    <2>3. \A con \in DeclaredConstraints(Model(p)', parsed'[p]) :
              \/ con \in db'[Model(p)'].constraints
              \/ ConstraintItem(con) \in Work(p)'
              \/ \E s \in Stmts(p)' : s.op = "add constraint" /\ s.con = con
              \/ \E s \in Stmts(p)' : s.op = "swap" /\ con \in s.def.constraints
              \/ con.kind = "unique" /\ (<<Model(p)', con.column>> \in ghost'[p].added \/ UniqueItem(con.column) \in Work(p)')
        BY <1>1, <1>18, <1>25 DEF Brings
    <2>4. \A i \in Indexes[Model(p)'] :
              \/ HasIndex(Model(p), i)'
              \/ IndexItem(i) \in Work(p)'
              \/ \E s \in Stmts(p)' : s.op \in {"create index", "create index if not exists"} /\ s.index = i
        BY <1>1, <1>18, <1>26 DEF HasIndex
    <2>5. QED
        BY <2>1, <2>2, <2>3, <2>4 DEF Underway
<1>28. \A x \in ToSet(call[p].models) : x \in ToSet(call[p].todo) \/ x = t \/ Made(p, x)'
    BY <1>1, <1>2 DEF Made, HasIndex, Exists
<1>29. Ahead(p)'
    <2>1. call'[p].at # "ok"
        BY <1>1, <1>17 DEF Runs
    <2>2. \A x \in ToSet(call'[p].models) : x \in ToSet(call'[p].todo) \/ x = Model(p)' \/ Made(p, x)'
        BY <1>17, <1>18, <1>28
    <2>3. QED
        BY <1>27, <2>1, <2>2 DEF Ahead
<1>30. QED
    BY <1>16, <1>19, <1>20, <1>21, <1>23, <1>29 DEF Local

-----------------------------------------------------------------------------
(* A statement that is executed.                                           *)

Executes(p, s) ==
    /\ Runs(p) /\ call[p].stmts # <<>> /\ s = Head(call[p].stmts) /\ db' \in Run(db, s)
    /\ call' = [call EXCEPT ![p].stmts = Tail(@)]
    /\ ghost' = [ghost EXCEPT ![p].ran = TRUE,
                              ![p].added = IF s.op = "add column" THEN @ \cup {<<s.t, s.c>>} ELSE @]
    /\ dialect' = dialect /\ parsed' = parsed /\ seen' = seen

LEMMA ExecEffect ==
    ASSUME Inv, NEW p \in Callers, NEW s, Executes(p, s)
    PROVE  /\ Model(p) \in Tables /\ parsed[p] \in SUBSET Models
           /\ s \in Statement /\ Sound(s, Model(p), parsed[p]) /\ s \in Stmts(p)
           /\ Stmts(p) = {s} \cup ToSet(Tail(call[p].stmts))
           /\ Tail(call[p].stmts) \in Seq(Statement)
           /\ Effect(s, db', Model(p), parsed[p])
           /\ (Exists(db, Model(p)) => Properly(db[Model(p)], Model(p))) => Properly(db'[Model(p)], Model(p))
           /\ \A u \in ToSet(Tail(call[p].stmts)) : u.op # "swap"
           /\ s.op = "swap" => Tail(call[p].stmts) = <<>>
<1> DEFINE t == Model(p)
           cache == parsed[p]
<1>1. Runs(p) /\ call[p].stmts # <<>> /\ s = Head(call[p].stmts) /\ db' \in Run(db, s)
    BY DEF Executes
<1>2. cache \in SUBSET Models /\ t \in Tables /\ call[p].stmts \in Seq(Statement)
    BY <1>1, Going
<1>3. Local(p) /\ Values /\ Named
    BY DEF Inv
<1>4. /\ s \in Statement /\ s \in Stmts(p) /\ Stmts(p) = {s} \cup ToSet(Tail(call[p].stmts))
      /\ Tail(call[p].stmts) \in Seq(Statement) /\ Len(Tail(call[p].stmts)) = Len(call[p].stmts) - 1
      /\ Len(call[p].stmts) \in Nat
    BY <1>1, <1>2, ToSetTail DEF Stmts
<1>5. \A u \in Stmts(p) : Sound(u, t, cache) /\ (u.op = "swap" => Len(call[p].stmts) = 1)
    BY <1>3 DEF Local, Fits
<1>6. Effect(s, db', t, cache) /\ (~Exists(db, t) => Properly(db'[t], t))
    BY <1>1, <1>2, <1>3, <1>4, <1>5, RunEffect
<1>7. (Exists(db, t) => Properly(db[t], t)) => Properly(db'[t], t)
    <2>1. Exists(db, t) /\ Properly(db[t], t) => Properly(db'[t], t)
        BY <1>6 DEF Effect
    <2>2. QED
        BY <1>6, <2>1
<1>8. \A u \in Stmts(p) : u.op = "swap" => Tail(call[p].stmts) = <<>>
    <2>1. Len(call[p].stmts) = 1 => Len(Tail(call[p].stmts)) = 0
        BY <1>4
    <2>2. Len(Tail(call[p].stmts)) = 0 => Tail(call[p].stmts) = <<>>
        BY <1>4, EmptySeq
    <2>3. QED
        BY <1>5, <2>1, <2>2
<1>9. \A u \in ToSet(Tail(call[p].stmts)) : u.op # "swap"
    <2>1. ASSUME NEW u \in ToSet(Tail(call[p].stmts)), u.op = "swap" PROVE FALSE
        <3>1. Tail(call[p].stmts) = <<>>
            BY <1>4, <1>8, <2>1
        <3>2. QED
            BY <2>1, <3>1, ToSetShort
    <2>2. QED
        BY <2>1
<1>10. QED
    BY <1>2, <1>4, <1>5, <1>6, <1>7, <1>8, <1>9

LEMMA ExecDatabase ==
    ASSUME Inv, NEW p \in Callers, NEW s, Executes(p, s)
    PROVE  /\ db' \in [Tables -> Definition \cup {NoTable}]
           /\ Named' /\ (dialect # "sqlite" => DbKept)
           /\ \A x \in Tables : x # Model(p) => db'[x] = db[x]
           /\ Exists(db', Model(p))
<1> DEFINE t == Model(p)
           cache == parsed[p]
<1>1. /\ t \in Tables /\ cache \in SUBSET Models /\ s \in Statement /\ Sound(s, t, cache)
      /\ Effect(s, db', t, cache)
      /\ (Exists(db, t) => Properly(db[t], t)) => Properly(db'[t], t)
    BY ExecEffect
<1>2. db \in [Tables -> Definition \cup {NoTable}] /\ Named
    BY DEF Inv, Values
<1>3. db'[t] \in Definition /\ db' = [db EXCEPT ![t] = db'[t]]
    BY <1>1 DEF Effect
<1> DEFINE new == db'[t]
<1>4. \A x \in Tables : x # t => db'[x] = db[x]
    BY <1>1, <1>2, <1>3
<1>5. db' \in [Tables -> Definition \cup {NoTable}]
    <2>1. new \in Definition \cup {NoTable} /\ db' = [db EXCEPT ![t] = new]
        BY <1>3
    <2> HIDE DEF new
    <2>2. QED
        BY <1>1, <1>2, <2>1
<1>6. Exists(db', t)
    BY <1>3, TableIsDefinition DEF Exists
<1>7. Properly(db'[t], t)
    BY <1>1, <1>2 DEF Named, Properly
<1>8. Named'
    <2>1. ASSUME NEW x \in Tables, Exists(db', x)
          PROVE  \A y \in db'[x].indexes, i \in Indexes[x] : y.name = i.name => y = i
        <3>1. CASE x = t
            BY <1>7, <3>1 DEF Properly
        <3>2. CASE x # t
            <4>1. db'[x] = db[x] /\ Exists(db, x)
                BY <1>4, <2>1, <3>2 DEF Exists
            <4>2. QED
                BY <1>2, <4>1 DEF Named
        <3>3. QED
            BY <3>1, <3>2
    <2>2. QED
        BY <2>1 DEF Named, Exists
<1>9. ASSUME dialect # "sqlite", NEW x \in Tables, Exists(db, x)
      PROVE  /\ Exists(db', x) /\ KeepsIndexes(db[x], db'[x], x)
             /\ \A k \in SUBSET Models : Keeps(db[x], db'[x], x, k)
    <2>1. CASE x = t
        <3>1. s.op # "swap" /\ s.op # "create"
            BY <1>1, <1>9, <2>1 DEF Effect, Sound
        <3>2. KeepsIndexes(db[t], db'[t], t) /\ \A k \in SUBSET Models : Keeps(db[t], db'[t], t, k)
            BY <1>1, <3>1 DEF Effect
        <3>3. QED
            BY <1>6, <2>1, <3>2
    <2>2. CASE x # t
        <3>1. db'[x] = db[x]
            BY <1>4, <2>2
        <3>2. KeepsIndexes(db[x], db[x], x) /\ \A k \in SUBSET Models : Keeps(db[x], db[x], x, k)
            BY DEF KeepsIndexes, Keeps
        <3>3. Exists(db', x)
            BY <1>9, <3>1 DEF Exists
        <3>4. QED
            BY <3>1, <3>2, <3>3
    <2>3. QED
        BY <2>1, <2>2
<1>10. dialect # "sqlite" => DbKept
    BY <1>9, Zenon DEF DbKept
<1>11. QED
    BY <1>4, <1>5, <1>6, <1>8, <1>10

LEMMA ExecCall ==
    ASSUME Inv, NEW p \in Callers, NEW s, Executes(p, s)
    PROVE  /\ call'[p] \in Call /\ call' \in [Callers -> Call] /\ ghost' \in [Callers -> Ghost]
           /\ call'[p].at = call[p].at /\ call'[p].models = call[p].models /\ call'[p].todo = call[p].todo
           /\ call'[p].work = call[p].work /\ call'[p].stmts = Tail(call[p].stmts)
           /\ Runs(p)' /\ Model(p)' = Model(p) /\ Work(p)' = Work(p)
           /\ Stmts(p)' = ToSet(Tail(call[p].stmts))
           /\ ghost[p].added \subseteq ghost'[p].added
           /\ s.op = "add column" => <<Model(p), s.c>> \in ghost'[p].added
           /\ \A q \in Callers : ghost'[q].alone = ghost[q].alone
           /\ \A q \in Callers : q # p => call'[q] = call[q] /\ ghost'[q] = ghost[q]
<1>1. /\ Runs(p) /\ call' = [call EXCEPT ![p].stmts = Tail(@)]
      /\ ghost' = [ghost EXCEPT ![p].ran = TRUE,
                                ![p].added = IF s.op = "add column" THEN @ \cup {<<s.t, s.c>>} ELSE @]
    BY DEF Executes
<1>2. s \in Statement /\ Sound(s, Model(p), parsed[p]) /\ Model(p) \in Tables /\ Tail(call[p].stmts) \in Seq(Statement)
    BY ExecEffect
<1>3. call \in [Callers -> Call] /\ ghost \in [Callers -> Ghost]
    BY DEF Inv, Values
<1> DEFINE rest == Tail(call[p].stmts)
           more == IF s.op = "add column" THEN ghost[p].added \cup {<<s.t, s.c>>} ELSE ghost[p].added
<1>4. call'[p] = [call[p] EXCEPT !.stmts = rest]
    BY <1>1, <1>3
<1>5. ghost'[p] = [ghost[p] EXCEPT !.ran = TRUE, !.added = more]
    BY <1>1, <1>3
<1>6. more \in SUBSET (Tables \X Column) /\ ghost[p].added \subseteq more
    <2>1. ghost[p].added \in SUBSET (Tables \X Column)
        BY <1>3 DEF Ghost
    <2>2. s.op = "add column" => s.t \in Tables /\ s.c \in Column
        BY <1>2, StatementFields
    <2>3. CASE s.op = "add column"
        <3>1. <<s.t, s.c>> \in Tables \X Column
            BY <2>2, <2>3
        <3>2. more = ghost[p].added \cup {<<s.t, s.c>>}
            BY <2>3
        <3> HIDE DEF more
        <3>3. QED
            BY <2>1, <3>1, <3>2
    <2>4. CASE s.op # "add column"
        BY <2>1, <2>4
    <2>5. QED
        BY <2>3, <2>4
<1>7. s.op = "add column" => <<Model(p), s.c>> \in more
    BY <1>2 DEF Sound
<1> HIDE DEF rest, more
<1>8. /\ call'[p] \in Call /\ call'[p].at = call[p].at /\ call'[p].models = call[p].models
      /\ call'[p].todo = call[p].todo /\ call'[p].model = call[p].model
      /\ call'[p].work = call[p].work /\ call'[p].stmts = rest
    BY <1>2, <1>3, <1>4 DEF Call, rest
<1>9. ghost'[p] \in Ghost /\ ghost'[p].added = more /\ ghost'[p].alone = ghost[p].alone
    BY <1>3, <1>5, <1>6 DEF Ghost
<1>10. \A q \in Callers : q # p => call'[q] = call[q] /\ ghost'[q] = ghost[q]
    BY <1>1, <1>3
<1>11. call' \in [Callers -> Call] /\ ghost' \in [Callers -> Ghost]
    <2>1. DOMAIN call' = Callers /\ call' = [q \in Callers |-> call'[q]]
        BY <1>1, <1>3
    <2>2. DOMAIN ghost' = Callers /\ ghost' = [q \in Callers |-> ghost'[q]]
        BY <1>1, <1>3
    <2>3. ASSUME NEW q \in Callers PROVE call'[q] \in Call /\ ghost'[q] \in Ghost
        <3>1. CASE q = p
            BY <1>8, <1>9, <3>1
        <3>2. CASE q # p
            BY <1>3, <1>10, <3>2
        <3>3. QED
            BY <3>1, <3>2
    <2>4. call' \in [Callers -> Call]
        BY <2>1, <2>3
    <2>5. ghost' \in [Callers -> Ghost]
        BY <2>2, <2>3
    <2>6. QED
        BY <2>4, <2>5
<1>12. Runs(p)' /\ Model(p)' = Model(p) /\ Work(p)' = Work(p) /\ Stmts(p)' = ToSet(rest)
    BY <1>1, <1>8 DEF Runs, Model, Work, Stmts
<1>13. QED
    BY <1>6, <1>7, <1>8, <1>9, <1>10, <1>11, <1>12 DEF rest

LEMMA ExecLocal ==
    ASSUME Inv, NEW p \in Callers, NEW s, Executes(p, s)
    PROVE  Local(p)'
<1> DEFINE t == Model(p)
           cache == parsed[p]
           rest == Tail(call[p].stmts)
<1>1. /\ t \in Tables /\ cache \in SUBSET Models
      /\ s \in Statement /\ Sound(s, t, cache) /\ s \in Stmts(p)
      /\ Stmts(p) = {s} \cup ToSet(rest)
      /\ Effect(s, db', t, cache)
      /\ \A u \in ToSet(rest) : u.op # "swap"
      /\ s.op = "swap" => rest = <<>>
    BY ExecEffect
<1>2. \A x \in Tables : x # t => db'[x] = db[x]
    BY ExecDatabase
<1>3. Exists(db', t)
    BY ExecDatabase
<1>4. /\ call'[p].at = call[p].at /\ call'[p].models = call[p].models /\ call'[p].todo = call[p].todo
      /\ call'[p].work = call[p].work /\ call'[p].stmts = rest
      /\ Runs(p)' /\ Model(p)' = t /\ Work(p)' = Work(p) /\ Stmts(p)' = ToSet(rest)
      /\ ghost[p].added \subseteq ghost'[p].added
      /\ s.op = "add column" => <<t, s.c>> \in ghost'[p].added
    BY ExecCall
<1>5. /\ Runs(p) /\ call[p].stmts # <<>> /\ s = Head(call[p].stmts)
      /\ dialect' = dialect /\ parsed' = parsed /\ seen' = seen
    BY DEF Executes
<1>6. /\ Local(p) /\ Fits(p) /\ InOrder(p) /\ SeenStill(p) /\ IndexesLast(p)
      /\ Values /\ dialect \in Dialects
    BY DEF Inv, Local, Values
<1>7. /\ InCreation(p) \/ Underway(p)
      /\ \A x \in ToSet(call[p].models) : x \in ToSet(call[p].todo) \/ x = t \/ Made(p, x)
    BY <1>1, <1>5, Going
<1> HIDE DEF rest
<1>8. Exists(db, t) => s.op # "create" /\ Keeps(db[t], db'[t], t, cache)
    BY <1>1 DEF Effect
<1>9. Fits(p)'
    <2>1. ASSUME NEW u \in ToSet(rest) PROVE Sound(u, Model(p), parsed[p])' /\ u.op # "swap"
        <3>1. Sound(u, t, cache) /\ u.op # "swap"
            BY <1>1, <1>6 DEF Fits
        <3>2. QED
            BY <1>4, <1>5, <3>1 DEF Sound
    <2>2. \A w \in Work(p)' : w \in Items(Model(p)', parsed'[p])
        BY <1>4, <1>5, <1>6 DEF Fits
    <2>3. QED
        BY <1>1, <1>4, <2>1, <2>2 DEF Fits
<1>10. InOrder(p)'
    BY <1>4, <1>6 DEF InOrder
<1>11. SeenStill(p)'
    <2>1. ASSUME NEW w \in Work(p), w.what \in {"column", "unique"}
          PROVE  /\ w.c \in DOMAIN seen[p].columns => Exists(db', t) /\ w.c \in DOMAIN db'[t].columns
                 /\ dialect # "mysql" /\ w.c \in seen[p].unique /\ w.c \in Uniques[t] =>
                      Exists(db', t) /\ UniqueOn(t, w.c) \in db'[t].constraints
        <3>1. /\ w.c \in DOMAIN seen[p].columns => Exists(db, t) /\ w.c \in DOMAIN db[t].columns
              /\ dialect # "mysql" /\ w.c \in seen[p].unique /\ w.c \in Uniques[t] =>
                      Exists(db, t) /\ UniqueOn(t, w.c) \in db[t].constraints
            BY <1>6, <2>1 DEF SeenStill
        <3>2. w.c \in Uniques[t] => UniqueOn(t, w.c) \in DeclaredConstraints(t, cache)
            BY DEF DeclaredConstraints
        <3>3. QED
            BY <1>3, <1>8, <3>1, <3>2 DEF Keeps
    <2>2. ASSUME NEW w \in Work(p), w.what = "unique"
          PROVE  \/ w.c \in DOMAIN seen[p].columns
                 \/ <<t, w.c>> \in ghost'[p].added
                 \/ ColumnItem(w.c) \in Work(p)
                 \/ \E u \in ToSet(rest) : u.op = "add column" /\ u.c = w.c
        <3>1. \/ w.c \in DOMAIN seen[p].columns
              \/ <<t, w.c>> \in ghost[p].added
              \/ ColumnItem(w.c) \in Work(p)
              \/ \E u \in Stmts(p) : u.op = "add column" /\ u.c = w.c
            BY <1>6, <2>2 DEF SeenStill
        <3>2. QED
            BY <1>1, <1>4, <3>1
    <2>3. QED
        BY <1>4, <1>5, <2>1, <2>2 DEF SeenStill, Exists
<1>12. IndexesLast(p)'
    <2>1. \A u \in Stmts(p)' : u.op # "swap"
        BY <1>1, <1>4
    <2>2. QED
        BY <1>4, <1>5, <1>6, <2>1 DEF IndexesLast
(* A table that has just been created has the columns and constraints.     *)
<1>13. ASSUME InCreation(p)
       PROVE  Underway(p)'
    <2>1. s.op = "create" /\ call[p].work = <<>>
        BY <1>5, <1>13 DEF InCreation
    <2>2. db'[t] = s.def
        BY <1>1, <2>1 DEF Effect
    <2>3. /\ DOMAIN s.def.columns = Columns[t] /\ s.def.constraints = DeclaredConstraints(t, cache)
          /\ s.def.indexes = IF dialect = "mysql" THEN Indexes[t] ELSE {}
        BY <1>1, <2>1 DEF Sound
    <2>4. Work(p) = {}
        BY <2>1 DEF Work, ToSet
    <2>5. \A i \in Indexes[t] :
            \/ IndexNamed(db'[t], i)
            \/ \E u \in ToSet(rest) : u.op \in {"create index", "create index if not exists"} /\ u.index = i
        <3>1. CASE dialect = "mysql"
            BY <2>2, <2>3, <3>1 DEF IndexNamed
        <3>2. CASE dialect # "mysql"
            BY <1>5, <1>13, <3>2 DEF InCreation, rest
        <3>3. QED
            BY <3>1, <3>2
    <2>6. \A i \in Indexes[Model(p)'] :
            \/ HasIndex(Model(p), i)'
            \/ IndexItem(i) \in Work(p)'
            \/ \E u \in Stmts(p)' : u.op \in {"create index", "create index if not exists"} /\ u.index = i
        BY <1>4, <2>5 DEF HasIndex, IndexNamed
    <2>7. Exists(db, Model(p))' /\ [what |-> "create"] \notin Work(p)'
        BY <1>3, <1>4, <2>4 DEF Exists
    <2>8. /\ \A c \in Columns[Model(p)'] : c \in DOMAIN db'[Model(p)'].columns
          /\ \A con \in DeclaredConstraints(Model(p)', parsed'[p]) : con \in db'[Model(p)'].constraints
        BY <1>4, <1>5, <2>2, <2>3
    <2>9. QED
        BY <2>6, <2>7, <2>8 DEF Underway
<1>14. ASSUME Underway(p)
       PROVE  Underway(p)'
    <2>1. Exists(db, t) /\ [what |-> "create"] \notin Work(p)
        BY <1>14 DEF Underway
    <2>2. s.op # "create" /\ Keeps(db[t], db'[t], t, cache)
        BY <1>8, <2>1
    <2>3. Exists(db, Model(p))' /\ [what |-> "create"] \notin Work(p)'
        BY <1>3, <1>4, <2>1 DEF Exists
    <2>4. ASSUME NEW c \in Columns[t]
          PROVE  \/ c \in DOMAIN db'[t].columns
                 \/ ColumnItem(c) \in Work(p)
                 \/ \E u \in ToSet(rest) : u.op = "add column" /\ u.c = c
        <3>1. \/ c \in DOMAIN db[t].columns
              \/ ColumnItem(c) \in Work(p)
              \/ \E u \in Stmts(p) : u.op = "add column" /\ u.c = c
            BY <1>14 DEF Underway
        <3>2. s.op = "add column" => s.c \in DOMAIN db'[t].columns
            BY <1>1 DEF Effect
        <3>3. DOMAIN db[t].columns \subseteq DOMAIN db'[t].columns
            BY <2>2 DEF Keeps
        <3>4. QED
            BY <1>1, <3>1, <3>2, <3>3
    <2>5. ASSUME NEW con \in DeclaredConstraints(t, cache)
          PROVE  \/ con \in db'[t].constraints
                 \/ ConstraintItem(con) \in Work(p)
                 \/ \E u \in ToSet(rest) : u.op = "add constraint" /\ u.con = con
                 \/ con.kind = "unique" /\ (<<t, con.column>> \in ghost'[p].added \/ UniqueItem(con.column) \in Work(p))
        <3>1. \/ con \in db[t].constraints
              \/ ConstraintItem(con) \in Work(p)
              \/ \E u \in Stmts(p) : u.op = "add constraint" /\ u.con = con
              \/ \E u \in Stmts(p) : u.op = "swap" /\ con \in u.def.constraints
              \/ con.kind = "unique" /\ (<<t, con.column>> \in ghost[p].added \/ UniqueItem(con.column) \in Work(p))
            BY <1>14 DEF Underway
        <3>2. /\ s.op = "add constraint" => s.con \in db'[t].constraints
              /\ s.op = "swap" => db'[t] = s.def
            BY <1>1 DEF Effect
        <3>3. con \in db[t].constraints => con \in db'[t].constraints
            BY <2>2 DEF Keeps
        <3>4. QED
            BY <1>1, <1>4, <3>1, <3>2, <3>3
    <2>6. ASSUME NEW i \in Indexes[t]
          PROVE  \/ IndexNamed(db'[t], i)
                 \/ IndexItem(i) \in Work(p)
                 \/ \E u \in ToSet(rest) : u.op \in {"create index", "create index if not exists"} /\ u.index = i
        <3>1. CASE s.op = "swap"
            <4>1. dialect = "sqlite"
                BY <1>1, <3>1 DEF Sound
            <4>2. QED
                BY <1>1, <1>6, <3>1, <4>1 DEF IndexesLast
        <3>2. CASE s.op # "swap"
            <4>1. KeepsIndexes(db[t], db'[t], t)
                BY <1>1, <2>2, <3>2 DEF Effect
            <4>2. s.op \in {"create index", "create index if not exists"} => IndexNamed(db'[t], s.index)
                BY <1>1 DEF Effect
            <4>3. \/ HasIndex(t, i)
                  \/ IndexItem(i) \in Work(p)
                  \/ \E u \in Stmts(p) : u.op \in {"create index", "create index if not exists"} /\ u.index = i
                BY <1>14 DEF Underway
            <4>4. HasIndex(t, i) => IndexNamed(db'[t], i)
                BY <4>1 DEF KeepsIndexes, HasIndex, IndexNamed
            <4>5. QED
                BY <1>1, <4>2, <4>3, <4>4
        <3>3. QED
            BY <3>1, <3>2
    <2>7. \A c \in Columns[Model(p)'] :
              \/ c \in DOMAIN db'[Model(p)'].columns
              \/ ColumnItem(c) \in Work(p)'
              \/ \E u \in Stmts(p)' : u.op = "add column" /\ u.c = c
        BY <1>4, <2>4
    <2>8. \A con \in DeclaredConstraints(Model(p)', parsed'[p]) :
              \/ con \in db'[Model(p)'].constraints
              \/ ConstraintItem(con) \in Work(p)'
              \/ \E u \in Stmts(p)' : u.op = "add constraint" /\ u.con = con
              \/ con.kind = "unique" /\ (<<Model(p)', con.column>> \in ghost'[p].added \/ UniqueItem(con.column) \in Work(p)')
        BY <1>4, <1>5, <2>5
    <2>9. \A i \in Indexes[Model(p)'] :
              \/ HasIndex(Model(p), i)'
              \/ IndexItem(i) \in Work(p)'
              \/ \E u \in Stmts(p)' : u.op \in {"create index", "create index if not exists"} /\ u.index = i
        BY <1>4, <2>6 DEF HasIndex, IndexNamed
    <2>10. QED
        BY <2>3, <2>7, <2>8, <2>9 DEF Underway
<1>15. ASSUME NEW x \in ToSet(call[p].models)
       PROVE  x \in ToSet(call[p].todo) \/ x = t \/ Made(p, x)'
    <2>1. CASE Made(p, x) /\ x # t
        <3>1. x \in Tables
            BY <1>5, Going
        <3>2. db'[x] = db[x] /\ Exists(db, x)
            BY <1>2, <2>1, <3>1 DEF Made
        <3>3. Exists(db', x) /\ KeepsIndexes(db[x], db'[x], x) /\ Keeps(db[x], db'[x], x, cache)
            BY <3>2 DEF Exists, KeepsIndexes, Keeps
        <3>4. QED
            BY <1>1, <1>4, <1>5, <2>1, <3>1, <3>3, MadeKept
    <2>2. QED
        BY <1>7, <2>1
<1>16. Ahead(p)'
    <2>1. call'[p].at # "ok"
        BY <1>4, <1>5 DEF Runs
    <2>2. \A x \in ToSet(call'[p].models) : x \in ToSet(call'[p].todo) \/ x = Model(p)' \/ Made(p, x)'
        BY <1>4, <1>15
    <2>3. QED
        BY <1>7, <1>13, <1>14, <2>1, <2>2 DEF Ahead
<1>17. QED
    BY <1>9, <1>10, <1>11, <1>12, <1>16 DEF Local

-----------------------------------------------------------------------------
(* A model that is begun, and a call that returns.                         *)

LEMMA ColumnTypesRead ==
    ASSUME Values, NEW t \in Tables, Exists(db, t)
    PROVE  /\ ColumnTypes(t) \in Seen
           /\ DOMAIN ColumnTypes(t).columns = DOMAIN db[t].columns
           /\ dialect # "mysql" => \A c \in ColumnTypes(t).unique : UniqueOn(t, c) \in db[t].constraints
<1>1. dialect \in {"mysql", "postgres", "sqlite", "sqlserver"}
    BY DialectsAssumption DEF Values
<1>2. db[t] \in Definition
    BY DEF Values, Exists
<1>3. /\ db[t].columns \in [DOMAIN db[t].columns -> Attributes(DBTypes)] /\ DOMAIN db[t].columns \in SUBSET Column
      /\ db[t].columns \in UNION {[C -> Attributes(DBTypes)] : C \in SUBSET Column}
    BY <1>2, DefinitionFields DEF Definition
<1> DEFINE D == DOMAIN db[t].columns
           U == {c \in D : UniqueOn(t, c) \in db[t].constraints}
<1>4. [columns |-> db[t].columns, unique |-> U] \in Seen
    <2>1. U \in SUBSET Column
        BY <1>3
    <2> HIDE DEF U
    <2>2. QED
        BY <1>3, <2>1 DEF Seen
<1>5. CASE dialect # "mysql"
    <2>1. ColumnTypes(t) = [columns |-> db[t].columns, unique |-> U]
        BY <1>1, <1>5 DEF ColumnTypes, ColumnTypesPostgres, ColumnTypesSqlite, ColumnTypesSqlserver, ParseDDL
    <2>2. QED
        BY <1>4, <2>1
<1>6. CASE dialect = "mysql"
    <2> DEFINE columns == [c \in D |-> IF db[t].columns[c].kind = "bigint unsigned"
                                       THEN [db[t].columns[c] EXCEPT !.kind = "bigint"] ELSE db[t].columns[c]]
               V == {c \in D : UniqueOn(t, c) \in db[t].constraints \/ \E i \in db[t].indexes : i.unique /\ i.column = c}
    <2>1. ColumnTypes(t) = [columns |-> columns, unique |-> V]
        BY <1>6 DEF ColumnTypes, ColumnTypesMysql
    <2>2. \A x \in Attributes(DBTypes) : [x EXCEPT !.kind = "bigint"] \in Attributes(DBTypes)
        BY DEF Attributes, DBTypes
    <2>3. columns \in [D -> Attributes(DBTypes)]
        BY <1>3, <2>2
    <2>4. V \in SUBSET Column /\ D \in SUBSET Column
        BY <1>3
    <2> HIDE DEF columns, V, D
    <2>5. columns \in UNION {[C -> Attributes(DBTypes)] : C \in SUBSET Column}
        BY <2>3, <2>4
    <2>6. [columns |-> columns, unique |-> V] \in Seen
        BY <2>4, <2>5 DEF Seen
    <2>7. DOMAIN columns = D
        BY <2>3
    <2>8. QED
        BY <1>6, <2>1, <2>6, <2>7 DEF D
<1>7. QED
    BY <1>5, <1>6

(* Once there is nothing left to look at or to execute for a table, it has *)
(* what its model declares.                                                *)
LEMMA BegunMade ==
    ASSUME Inv, NEW p \in Callers, Begun(p), NEW x \in ToSet(call[p].models)
    PROVE  x \in ToSet(call[p].todo) \/ Made(p, x)
<1>1. Runs(p) /\ call[p].work = <<>> /\ call[p].stmts = <<>>
    BY DEF Begun, Runs
<1>2. /\ Model(p) \in Tables => InCreation(p) \/ Underway(p)
      /\ x \in ToSet(call[p].todo) \/ x = Model(p) \/ Made(p, x)
      /\ x \in Tables
    BY <1>1, Going
<1>3. ~InCreation(p) /\ Work(p) = {} /\ Stmts(p) = {}
    BY <1>1 DEF InCreation, Work, Stmts, ToSet
<1>4. x = Model(p) => Made(p, x)
    BY <1>2, <1>3 DEF Underway, Made
<1>5. QED
    BY <1>2, <1>4

LEMMA NextModelLocal ==
    ASSUME Inv, NEW p \in Callers, NextModel(p)
    PROVE  /\ Local(p)' /\ call'[p] \in Call /\ call' \in [Callers -> Call] /\ seen' \in [Callers -> Seen]
           /\ call'[p].at = call[p].at
           /\ \A q \in Callers : q # p => call'[q] = call[q] /\ seen'[q] = seen[q]
<1> DEFINE t == Head(call[p].todo)
           left == Tail(call[p].todo)
           cache == parsed[p]
           work == IF Exists(db, t) THEN WorkOn(p, t) ELSE <<[what |-> "create"]>>
<1>1. /\ Begun(p) /\ Runs(p) /\ call[p].todo # <<>> /\ call[p].work = <<>> /\ call[p].stmts = <<>>
      /\ dialect' = dialect /\ db' = db /\ parsed' = parsed /\ ghost' = ghost
    BY DEF NextModel, Begun, Runs
<1>2. call' = [call EXCEPT ![p] = [call[p] EXCEPT !.todo = left, !.model = t, !.work = work]]
    BY DEF NextModel
<1>3. seen' = IF Exists(db, t) THEN [seen EXCEPT ![p] = ColumnTypes(t)] ELSE seen
    BY DEF NextModel
<1>4. /\ call \in [Callers -> Call] /\ seen \in [Callers -> Seen] /\ Values
      /\ cache \in SUBSET Models /\ call[p] \in Call
    BY DEF Inv, Values
<1>5. call[p].todo \in Seq(Tables)
    BY <1>4 DEF Call
<1>6. t \in Tables /\ left \in Seq(Tables) /\ ToSet(call[p].todo) = {t} \cup ToSet(left)
    BY <1>1, <1>5, ToSetTail
<1> DEFINE all == WorkOn(p, t)
<1>7. /\ all \in Seq(Items(t, cache)) /\ Ordered(all)
      /\ [what |-> "create"] \notin ToSet(all)
      /\ \A c \in Columns[t] : ColumnItem(c) \in ToSet(all) /\ UniqueItem(c) \in ToSet(all)
      /\ \A con \in DeclaredConstraints(t, cache) : con.kind # "unique" => ConstraintItem(con) \in ToSet(all)
      /\ \A i \in Indexes[t] : IndexItem(i) \in ToSet(all)
    BY <1>4, <1>6, WorkOnItems
<1>8. work = IF Exists(db, t) THEN all ELSE <<[what |-> "create"]>>
    OBVIOUS
<1> HIDE DEF t, left, work, all
<1>9. [what |-> "create"] \in Items(t, cache)
    BY DEF Items
<1>10. work \in Seq(Items(t, cache)) /\ Ordered(work)
    <2>1. /\ <<[what |-> "create"]>> \in Seq(Items(t, cache))
          /\ DOMAIN <<[what |-> "create"]>> = {1}
        BY <1>9, ToSetShort
    <2>2. Ordered(<<[what |-> "create"]>>)
        BY <2>1 DEF Ordered
    <2>3. QED
        BY <1>7, <1>8, <2>1, <2>2
<1>11. work \in Seq(Item)
    <2>1. Items(t, cache) \subseteq Item
        BY <1>4, <1>6 DEF Item
    <2>2. QED
        BY <1>10, <2>1, SeqMonotonic
<1>12. call'[p] = [call[p] EXCEPT !.todo = left, !.model = t, !.work = work]
    BY <1>2, <1>4
<1>13. /\ call'[p] \in Call /\ call'[p].at = call[p].at /\ call'[p].models = call[p].models
       /\ call'[p].todo = left /\ call'[p].model = t /\ call'[p].work = work /\ call'[p].stmts = <<>>
    BY <1>1, <1>4, <1>6, <1>11, <1>12 DEF Call
<1>14. /\ Runs(p)' /\ Work(p)' = ToSet(work) /\ Stmts(p)' = {} /\ Model(p)' = t
       /\ call'[p].at = "run"
    BY <1>1, <1>13 DEF Runs, Work, Stmts, Model, ToSet
<1>15. Fits(p)'
    <2>1. \A w \in ToSet(work) : w \in Items(t, cache)
        BY <1>10 DEF ToSet
    <2>2. QED
        BY <1>1, <1>6, <1>13, <1>14, <2>1 DEF Fits
<1>16. InOrder(p)'
    BY <1>10, <1>13 DEF InOrder
<1>17. /\ Exists(db, t) => seen'[p] = ColumnTypes(t) /\ ColumnTypes(t) \in Seen
       /\ Exists(db, t) => DOMAIN seen'[p].columns = DOMAIN db[t].columns
       /\ Exists(db, t) /\ dialect # "mysql" => \A c \in seen'[p].unique : UniqueOn(t, c) \in db[t].constraints
    BY <1>3, <1>4, <1>6, ColumnTypesRead
<1>18. ~Exists(db, t) => ToSet(work) = {[what |-> "create"]} /\ work = <<[what |-> "create"]>>
    BY <1>8, <1>9, ToSetShort
<1>19. SeenStill(p)'
    <2>1. ASSUME NEW w \in ToSet(work), w.what \in {"column", "unique"}
          PROVE  /\ w.c \in DOMAIN seen'[p].columns => Exists(db, t) /\ w.c \in DOMAIN db[t].columns
                 /\ dialect # "mysql" /\ w.c \in seen'[p].unique /\ w.c \in Uniques[t] =>
                      Exists(db, t) /\ UniqueOn(t, w.c) \in db[t].constraints
                 /\ ColumnItem(w.c) \in ToSet(work)
        <3>1. Exists(db, t)
            BY <1>18, <2>1
        <3>2. w.c \in Columns[t]
            <4>1. w \in Items(t, cache)
                BY <1>10 DEF ToSet
            <4>2. QED
                BY <1>4, <1>6, <2>1, <4>1, ItemFields
        <3>3. QED
            BY <1>7, <1>8, <1>17, <3>1, <3>2
    <2>2. QED
        BY <1>1, <1>14, <2>1 DEF SeenStill, Exists
<1>20. IndexesLast(p)'
    <2>1. CASE Exists(db, t)
        BY <1>7, <1>8, <1>14, <2>1 DEF IndexesLast
    <2>2. CASE ~Exists(db, t)
        BY <1>13, <1>14, <1>18, <2>2 DEF IndexesLast
    <2>3. QED
        BY <2>1, <2>2
<1>21. InCreation(p)' \/ Underway(p)'
    <2>1. CASE ~Exists(db, t)
        BY <1>13, <1>18, <2>1 DEF InCreation
    <2>2. CASE Exists(db, t)
        <3>1. work = all
            BY <1>8, <2>2
        <3>2. Exists(db, Model(p))' /\ [what |-> "create"] \notin Work(p)'
            BY <1>1, <1>7, <1>14, <2>2, <3>1 DEF Exists
        <3>3. \A c \in Columns[Model(p)'] : ColumnItem(c) \in Work(p)'
            BY <1>7, <1>14, <3>1
        <3>4. ASSUME NEW con \in DeclaredConstraints(t, cache)
              PROVE  \/ ConstraintItem(con) \in ToSet(all)
                     \/ con.kind = "unique" /\ UniqueItem(con.column) \in ToSet(all)
            <4>1. CASE con.kind = "unique"
                <5>1. con.column \in Uniques[t]
                    BY <1>4, <1>6, <4>1, DeclaredType
                <5>2. con.column \in Columns[t]
                    BY <1>6, <5>1, DeclaredAssumption
                <5>3. QED
                    BY <1>7, <4>1, <5>2
            <4>2. CASE con.kind # "unique"
                BY <1>7, <4>2
            <4>3. QED
                BY <4>1, <4>2
        <3>5. \A con \in DeclaredConstraints(Model(p)', parsed'[p]) :
                  \/ ConstraintItem(con) \in Work(p)'
                  \/ con.kind = "unique" /\ UniqueItem(con.column) \in Work(p)'
            BY <1>1, <1>14, <3>1, <3>4
        <3>6. \A i \in Indexes[Model(p)'] : IndexItem(i) \in Work(p)'
            BY <1>7, <1>14, <3>1
        <3>7. Underway(p)'
            BY <3>2, <3>3, <3>5, <3>6 DEF Underway
        <3>8. QED
            BY <3>7
    <2>3. QED
        BY <2>1, <2>2
<1>22. ASSUME NEW x \in ToSet(call[p].models)
       PROVE  x \in ToSet(left) \/ x = t \/ Made(p, x)'
    <2>1. x \in ToSet(call[p].todo) \/ Made(p, x)
        BY <1>1, BegunMade
    <2>2. Made(p, x) => Made(p, x)'
        BY <1>1 DEF Made, HasIndex, Exists
    <2>3. QED
        BY <1>6, <2>1, <2>2
<1>23. Ahead(p)'
    <2>1. \A x \in ToSet(call'[p].models) : x \in ToSet(call'[p].todo) \/ x = Model(p)' \/ Made(p, x)'
        BY <1>13, <1>14, <1>22
    <2>2. call'[p].at # "ok"
        BY <1>14
    <2>3. QED
        BY <1>21, <2>1, <2>2 DEF Ahead
<1>24. Local(p)'
    BY <1>15, <1>16, <1>19, <1>20, <1>23 DEF Local
<1>25. call' \in [Callers -> Call] /\ seen' \in [Callers -> Seen]
    <2>1. call' \in [Callers -> Call]
        BY <1>2, <1>4, <1>12, <1>13
    <2>2. seen' \in [Callers -> Seen]
        BY <1>3, <1>4, <1>17
    <2>3. QED
        BY <2>1, <2>2
<1>26. \A q \in Callers : q # p => call'[q] = call[q] /\ seen'[q] = seen[q]
    BY <1>2, <1>3, <1>4
<1>27. QED
    BY <1>13, <1>24, <1>25, <1>26
(* A call with nothing begun: what its models declare is still to be seen  *)
(* to, or there, if the call is one that answers for it.                   *)
LEMMA Resting ==
    ASSUME NEW p \in Callers,
           call'[p].work = <<>>, call'[p].stmts = <<>>, call'[p].model = None,
           call'[p].at = "ok" => call'[p].todo = <<>>,
           Answers(p)' => \A x \in ToSet(call'[p].models) : x \in ToSet(call'[p].todo) \/ Made(p, x)'
    PROVE  Local(p)'
<1>1. Work(p)' = {} /\ Stmts(p)' = {} /\ Model(p)' = None /\ None \notin Tables
    BY ModelsAssumption DEF Work, Stmts, Model, ToSet, Tables
<1>2. Fits(p)'
    BY <1>1 DEF Fits
<1>3. InOrder(p)'
    BY DEF InOrder, Ordered
<1>4. SeenStill(p)' /\ IndexesLast(p)'
    BY <1>1 DEF SeenStill, IndexesLast
<1>5. Ahead(p)'
    BY <1>1 DEF Ahead
<1>6. QED
    BY <1>2, <1>3, <1>4, <1>5 DEF Local

LEMMA IdleType ==
    /\ Idle \in Call /\ Idle.at = "idle" /\ Idle.work = <<>> /\ Idle.stmts = <<>> /\ Idle.model = None
<1>1. <<>> \in Seq(Tables) /\ <<>> \in Seq(Item) /\ <<>> \in Seq(Statement)
    OBVIOUS
<1>2. QED
    BY <1>1 DEF Idle, Call

LEMMA IdleCall ==
    ASSUME NEW a \in {"idle", "run", "ok", "failed"}, NEW models \in Seq(Tables), NEW todo \in Seq(Tables)
    PROVE  /\ [Idle EXCEPT !.at = a, !.models = models, !.todo = todo] \in Call
           /\ [Idle EXCEPT !.at = a, !.models = models] \in Call
<1>1. <<>> \in Seq(Tables) /\ <<>> \in Seq(Item) /\ <<>> \in Seq(Statement)
    OBVIOUS
<1>2. QED
    BY <1>1 DEF Idle, Call

(* A step of one caller's.                                                 *)
LEMMA StepOf ==
    ASSUME Inv, NEW p \in Callers, dialect' = dialect,
           Values', Named', Single', Local(p)',
           \A q \in Callers : q # p =>
               /\ call'[q] = call[q] /\ parsed'[q] = parsed[q] /\ seen'[q] = seen[q]
               /\ ghost'[q].added = ghost[q].added /\ (ghost'[q].alone => ghost[q].alone)
               /\ \/ DbKept /\ (dialect = "sqlite" => db' = db)
                  \/ dialect = "sqlite" /\ ~Answers(q)
    PROVE  Inv'
<1>1. ASSUME NEW q \in Callers PROVE Local(q)'
    <2>1. CASE q # p
        BY <2>1, OthersKept
    <2>2. CASE q = p
        BY <2>2
    <2>3. QED
        BY <2>1, <2>2
<1>2. QED
    BY <1>1 DEF Inv

LEMMA NamedKept ==
    ASSUME Named, db' = db
    PROVE  Named'
BY DEF Named, Exists

LEMMA LookInv ==
    ASSUME Inv, NEW p \in Callers, Look(p)
    PROVE  Inv'
<1>1. /\ Runs(p) /\ dialect' = dialect /\ db' = db /\ parsed' = parsed /\ seen' = seen
      /\ bounds' = bounds /\ ghost' = ghost
      /\ call' = [call EXCEPT ![p].work = Tail(@), ![p].stmts = Decide(p, call[p].model, Head(call[p].work))]
    BY DEF Look, Runs
<1>2. Local(p)' /\ call'[p] \in Call
    BY LookCreate, LookOther
<1>3. Values /\ Named /\ Single
    BY DEF Inv
<1>4. \A q \in Callers : q # p => call'[q] = call[q]
    BY <1>1, <1>3 DEF Values
<1>5. call'[p].at = call[p].at
    BY <1>1, <1>3 DEF Values, Call
<1>6. call' \in [Callers -> Call]
    <2>1. DOMAIN call' = Callers /\ call' = [q \in Callers |-> call'[q]]
        BY <1>1, <1>3 DEF Values
    <2>2. \A q \in Callers : call'[q] \in Call
        BY <1>2, <1>3, <1>4 DEF Values
    <2>3. QED
        BY <2>1, <2>2
<1>7. Values'
    BY <1>1, <1>3, <1>6 DEF Values
<1>8. Named' /\ DbKept
    BY <1>1, <1>3, NamedKept, SameKept
<1>9. Single'
    BY <1>1, <1>3, <1>4, <1>5, SingleKept
<1>10. QED
    BY <1>1, <1>2, <1>4, <1>7, <1>8, <1>9, StepOf

LEMMA NextModelInv ==
    ASSUME Inv, NEW p \in Callers, NextModel(p)
    PROVE  Inv'
<1>1. dialect' = dialect /\ db' = db /\ parsed' = parsed /\ bounds' = bounds /\ ghost' = ghost
    BY DEF NextModel
<1>2. /\ Local(p)' /\ call' \in [Callers -> Call] /\ seen' \in [Callers -> Seen]
      /\ call'[p].at = call[p].at
      /\ \A q \in Callers : q # p => call'[q] = call[q] /\ seen'[q] = seen[q]
    BY NextModelLocal
<1>3. Values /\ Named /\ Single
    BY DEF Inv
<1>4. Values'
    BY <1>1, <1>2, <1>3 DEF Values
<1>5. Named' /\ DbKept
    BY <1>1, <1>3, NamedKept, SameKept
<1>6. Single'
    BY <1>1, <1>2, <1>3, SingleKept
<1>7. QED
    BY <1>1, <1>2, <1>4, <1>5, <1>6, StepOf

(* Beside a call that runs none answers for a SQLite database.             *)
LEMMA OneAnswers ==
    ASSUME Inv, NEW p \in Callers, NEW q \in Callers, q # p, Runs(p), dialect = "sqlite"
    PROVE  ~Answers(q)
BY DEF Inv, Single, Answers

LEMMA ExecutesInv ==
    ASSUME Inv, NEW p \in Callers, NEW s, Executes(p, s), bounds' = bounds
    PROVE  Inv'
<1>1. /\ call' \in [Callers -> Call] /\ ghost' \in [Callers -> Ghost]
      /\ call'[p].at = call[p].at
      /\ \A q \in Callers : ghost'[q].alone = ghost[q].alone
      /\ \A q \in Callers : q # p => call'[q] = call[q] /\ ghost'[q] = ghost[q]
    BY ExecCall
<1>2. /\ db' \in [Tables -> Definition \cup {NoTable}]
      /\ Named' /\ (dialect # "sqlite" => DbKept)
    BY ExecDatabase
<1>3. Local(p)'
    BY ExecLocal
<1>4. Runs(p) /\ dialect' = dialect /\ parsed' = parsed /\ seen' = seen
    BY DEF Executes
<1>5. Values /\ Single
    BY DEF Inv
<1>6. Values'
    BY <1>1, <1>2, <1>4, <1>5 DEF Values
<1>7. Single'
    BY <1>1, <1>4, <1>5, SingleKept
<1>8. \A q \in Callers : q # p /\ dialect = "sqlite" => ~Answers(q)
    BY <1>4, OneAnswers
<1>9. QED
    BY <1>1, <1>2, <1>3, <1>4, <1>6, <1>7, <1>8, StepOf

LEMMA FailsInv ==
    ASSUME Inv, NEW p \in Callers, NEW fault \in BOOLEAN, Fails(p, fault),
           dialect' = dialect, parsed' = parsed, seen' = seen,
           bounds' \in [calls : 0..MaxCalls, faults : 0..MaxTrouble, drops : 0..MaxTrouble]
    PROVE  Inv'
<1>1. /\ call' = [call EXCEPT ![p] = [Idle EXCEPT !.at = "failed", !.models = call[p].models]]
      /\ ghost' = [ghost EXCEPT ![p].fault = fault, ![p].ran = TRUE, ![p].settled = 0]
      /\ db' = db
    BY DEF Fails
<1>2. Values /\ Named /\ Single /\ call \in [Callers -> Call] /\ ghost \in [Callers -> Ghost]
    BY DEF Inv, Values
<1>3. call[p].models \in Seq(Tables)
    BY <1>2 DEF Call
<1> DEFINE failed == [Idle EXCEPT !.at = "failed", !.models = call[p].models]
<1>4. /\ failed \in Call /\ failed.at = "failed" /\ failed.work = <<>> /\ failed.stmts = <<>>
      /\ failed.model = None
    BY <1>3, IdleCall DEF Idle
<1> HIDE DEF failed
<1>5. call' = [call EXCEPT ![p] = failed]
    BY <1>1 DEF failed
<1>6. call' \in [Callers -> Call] /\ call'[p] = failed /\ \A q \in Callers : q # p => call'[q] = call[q]
    BY <1>2, <1>4, <1>5
<1>7. /\ ghost' \in [Callers -> Ghost] /\ ghost'[p].alone = ghost[p].alone
      /\ \A q \in Callers : q # p => ghost'[q] = ghost[q]
    <2>1. ghost' = [ghost EXCEPT ![p] = [ghost[p] EXCEPT !.fault = fault, !.ran = TRUE, !.settled = 0]]
        BY <1>1, <1>2
    <2>2. \A g \in Ghost : /\ [g EXCEPT !.fault = fault, !.ran = TRUE, !.settled = 0] \in Ghost
                           /\ [g EXCEPT !.fault = fault, !.ran = TRUE, !.settled = 0].alone = g.alone
        BY DEF Ghost
    <2>3. QED
        BY <1>2, <2>1, <2>2
<1>8. Local(p)'
    <2>1. ~Answers(p)'
        BY <1>4, <1>6 DEF Answers, Runs
    <2>2. QED
        BY <1>4, <1>6, <2>1, Resting
<1>9. Values'
    BY <1>1, <1>2, <1>6, <1>7 DEF Values
<1>10. Named' /\ DbKept
    BY <1>1, <1>2, NamedKept, SameKept
<1>11. Single'
    <2>1. \A q \in Callers : (Runs(q)' => Runs(q)) /\ (call'[q].at = "ok" => call[q].at = "ok")
                             /\ ghost'[q].alone = ghost[q].alone
        BY <1>4, <1>6, <1>7 DEF Runs
    <2>2. QED
        BY <1>2, <2>1 DEF Single
<1>12. QED
    BY <1>1, <1>6, <1>7, <1>8, <1>9, <1>10, <1>11, StepOf

LEMMA ExecInv ==
    ASSUME Inv, NEW p \in Callers, Exec(p)
    PROVE  Inv'
<1> DEFINE s == Head(call[p].stmts)
<1>1. bounds \in [calls : 0..MaxCalls, faults : 0..MaxTrouble, drops : 0..MaxTrouble]
    BY DEF Inv, Values
<1>2. CASE Run(db, s) # {} /\ db' \in Run(db, s) /\ call' = [call EXCEPT ![p].stmts = Tail(@)]
           /\ ghost' = [ghost EXCEPT ![p].ran = TRUE,
                                     ![p].added = IF s.op = "add column" THEN @ \cup {<<s.t, s.c>>} ELSE @]
    <2>1. Executes(p, s) /\ bounds' = bounds
        BY <1>2 DEF Exec, Executes, Runs
    <2>2. QED
        BY <2>1, ExecutesInv
<1>3. CASE Run(db, s) = {} /\ Fails(p, FALSE)
    <2>1. dialect' = dialect /\ parsed' = parsed /\ seen' = seen /\ bounds' = bounds
        BY DEF Exec
    <2>2. QED
        BY <1>1, <1>3, <2>1, FailsInv
<1>4. QED
    BY <1>2, <1>3 DEF Exec

LEMMA StatementFailsInv ==
    ASSUME Inv, NEW p \in Callers, StatementFails(p)
    PROVE  Inv'
<1>1. /\ Fails(p, TRUE) /\ dialect' = dialect /\ parsed' = parsed /\ seen' = seen
      /\ bounds' = [bounds EXCEPT !.faults = @ + 1]
      /\ bounds.faults + bounds.drops < MaxTrouble
    BY DEF StatementFails
<1>2. bounds' \in [calls : 0..MaxCalls, faults : 0..MaxTrouble, drops : 0..MaxTrouble]
    BY <1>1, BoundsAssumption DEF Inv, Values
<1>3. QED
    BY <1>1, <1>2, FailsInv

LEMMA ReturnsInv ==
    ASSUME Inv, NEW p \in Callers, Returns(p)
    PROVE  Inv'
<1>1. /\ Begun(p) /\ Runs(p) /\ call[p].todo = <<>>
      /\ call' = [call EXCEPT ![p] = [Idle EXCEPT !.at = "ok", !.models = call[p].models]]
      /\ ghost' = [ghost EXCEPT ![p].settled = IF ghost[p].alone THEN @ + 1 ELSE 0]
      /\ dialect' = dialect /\ db' = db /\ parsed' = parsed /\ seen' = seen /\ bounds' = bounds
    BY DEF Returns, Begun, Runs
<1>2. Values /\ Named /\ Single /\ call \in [Callers -> Call] /\ ghost \in [Callers -> Ghost]
    BY DEF Inv, Values
<1>3. call[p].models \in Seq(Tables)
    BY <1>2 DEF Call
<1> DEFINE ok == [Idle EXCEPT !.at = "ok", !.models = call[p].models]
<1>4. /\ ok \in Call /\ ok.at = "ok" /\ ok.work = <<>> /\ ok.stmts = <<>>
      /\ ok.model = None /\ ok.todo = <<>> /\ ok.models = call[p].models
    BY <1>3, IdleCall DEF Idle
<1> HIDE DEF ok
<1>5. call' = [call EXCEPT ![p] = ok]
    BY <1>1 DEF ok
<1>6. call' \in [Callers -> Call] /\ call'[p] = ok /\ \A q \in Callers : q # p => call'[q] = call[q]
    BY <1>2, <1>4, <1>5
<1>7. /\ ghost' \in [Callers -> Ghost]
      /\ ghost'[p].alone = ghost[p].alone /\ ghost'[p].added = ghost[p].added
      /\ \A q \in Callers : q # p => ghost'[q] = ghost[q]
    <2> DEFINE n == IF ghost[p].alone THEN ghost[p].settled + 1 ELSE 0
    <2>1. ghost' = [ghost EXCEPT ![p] = [ghost[p] EXCEPT !.settled = n]]
        BY <1>1, <1>2
    <2>2. n \in Nat
        BY <1>2 DEF Ghost
    <2> HIDE DEF n
    <2>3. \A g \in Ghost : /\ [g EXCEPT !.settled = n] \in Ghost
                           /\ [g EXCEPT !.settled = n].alone = g.alone
                           /\ [g EXCEPT !.settled = n].added = g.added
        BY <2>2 DEF Ghost
    <2>4. QED
        BY <1>2, <2>1, <2>3
<1>8. Local(p)'
    <2>1. ASSUME NEW x \in ToSet(call[p].models) PROVE Made(p, x)'
        <3>1. x \notin ToSet(call[p].todo)
            BY <1>1 DEF ToSet
        <3>2. Made(p, x)
            BY <1>1, <3>1, BegunMade
        <3>3. QED
            BY <1>1, <1>7, <3>2 DEF Made, HasIndex, Exists
    <2>2. QED
        BY <1>4, <1>6, <2>1, Resting
<1>9. Values'
    BY <1>1, <1>2, <1>6, <1>7 DEF Values
<1>10. Named' /\ DbKept
    BY <1>1, <1>2, NamedKept, SameKept
<1>11. Single'
    <2>1. ASSUME dialect = "sqlite", NEW q \in Callers PROVE ~Runs(q)'
        <3>1. CASE q = p
            BY <1>4, <1>6, <3>1 DEF Runs
        <3>2. CASE q # p
            BY <1>1, <1>2, <1>6, <2>1, <3>2 DEF Runs, Single
        <3>3. QED
            BY <3>1, <3>2
    <2>2. QED
        BY <1>1, <2>1 DEF Single
<1>12. QED
    BY <1>1, <1>6, <1>7, <1>8, <1>9, <1>10, <1>11, StepOf
-----------------------------------------------------------------------------
(* A call that begins.                                                     *)

LEMMA NewCallType ==
    ASSUME Values, NEW p \in Callers, NEW r
    PROVE  NewCall(p, r) \in Ghost
<1> DEFINE alone   == \A q \in Callers \ {p} : call[q].at # "run"
           learned == r.parsed # parsed[p]
           settled == IF ToSet(r.ordered) \subseteq ToSet(call[p].models) THEN ghost[p].settled ELSE 0
<1>1. NewCall(p, r) = [added |-> {}, fault |-> FALSE, ran |-> FALSE, alone |-> alone,
                       learned |-> learned, settled |-> settled]
    BY Zenon DEF NewCall
<1>2. alone \in BOOLEAN /\ learned \in BOOLEAN
    BY Zenon
<1>3. settled \in Nat
    <2>1. ghost[p].settled \in Nat
        BY DEF Values, Ghost
    <2>2. settled = ghost[p].settled \/ settled = 0
        BY Zenon
    <2>3. QED
        BY <2>1, <2>2
<1> HIDE DEF alone, learned, settled
<1>4. QED
    BY <1>1, <1>2, <1>3 DEF Ghost

LEMMA AutoMigrateInv ==
    ASSUME Inv, NEW p \in Callers, NEW values \in Calls, AutoMigrate(p, values)
    PROVE  Inv'
<1>1. Values /\ Named /\ Single /\ call \in [Callers -> Call] /\ ghost \in [Callers -> Ghost]
      /\ parsed \in [Callers -> SUBSET Models]
    BY DEF Inv, Values
<1>2. PICK r \in Orders[values][parsed[p]] :
          /\ parsed' = [parsed EXCEPT ![p] = r.parsed]
          /\ call' = [call EXCEPT ![p] = [Idle EXCEPT !.at = "run", !.models = r.ordered, !.todo = r.ordered]]
          /\ ghost' = [q \in Callers |-> IF q = p THEN NewCall(p, r)
                                          ELSE [ghost[q] EXCEPT !.alone = FALSE, !.settled = 0]]
    BY DEF AutoMigrate
<1>3. /\ dialect' = dialect /\ db' = db /\ seen' = seen /\ bounds.calls < MaxCalls
      /\ bounds' = [bounds EXCEPT !.calls = @ + 1]
      /\ dialect = "sqlite" => ~Running
    BY DEF AutoMigrate
<1>4. r.parsed \in SUBSET Models /\ r.ordered \in Seq(Tables)
    BY <1>1, OrdersAssumption
<1> DEFINE begun == [Idle EXCEPT !.at = "run", !.models = r.ordered, !.todo = r.ordered]
<1>5. /\ begun \in Call /\ begun.at = "run" /\ begun.work = <<>> /\ begun.stmts = <<>>
      /\ begun.model = None /\ begun.todo = begun.models
    BY <1>4, IdleCall DEF Idle
<1> HIDE DEF begun
<1>6. call' = [call EXCEPT ![p] = begun]
    BY <1>2 DEF begun
<1>7. call' \in [Callers -> Call] /\ call'[p] = begun /\ \A q \in Callers : q # p => call'[q] = call[q]
    BY <1>1, <1>5, <1>6
<1>8. parsed' \in [Callers -> SUBSET Models] /\ \A q \in Callers : q # p => parsed'[q] = parsed[q]
    BY <1>1, <1>2, <1>4
<1>9. \A q \in Callers : q # p => ghost'[q].added = ghost[q].added /\ ghost'[q].alone = FALSE
    BY <1>1, <1>2 DEF Ghost
<1>10. ghost' \in [Callers -> Ghost]
    <2>1. NewCall(p, r) \in Ghost
        BY <1>1, NewCallType
    <2>2. \A g \in Ghost : [g EXCEPT !.alone = FALSE, !.settled = 0] \in Ghost
        BY DEF Ghost
    <2>3. QED
        BY <1>1, <1>2, <2>1, <2>2
<1>11. Local(p)'
    BY <1>5, <1>7, Resting
<1>12. Values'
    <2>1. bounds' \in [calls : 0..MaxCalls, faults : 0..MaxTrouble, drops : 0..MaxTrouble]
        BY <1>1, <1>3, BoundsAssumption DEF Values
    <2>2. QED
        BY <1>1, <1>3, <1>7, <1>8, <1>10, <2>1 DEF Values
<1>13. Named' /\ DbKept
    BY <1>1, <1>3, NamedKept, SameKept
<1>14. Single'
    <2>1. ASSUME dialect = "sqlite", NEW q \in Callers, q # p
          PROVE  ~Runs(q)' /\ ~(call'[q].at = "ok" /\ ghost'[q].alone)
        BY <1>3, <1>7, <1>9, <2>1 DEF Running, Runs
    <2>2. QED
        BY <1>3, <2>1 DEF Single
<1>15. QED
    BY <1>3, <1>7, <1>8, <1>9, <1>11, <1>12, <1>13, <1>14, StepOf

-----------------------------------------------------------------------------
(* What the operator drops: no table comes to be and none gets an index.   *)
Shrunk(d) ==
    /\ d \in [Tables -> Definition \cup {NoTable}]
    /\ \A t \in Tables : Exists(d, t) => Exists(db, t) /\ d[t].indexes \subseteq db[t].indexes

LEMMA DefinitionParts ==
    ASSUME NEW def \in Definition
    PROVE  /\ \A columns : [def EXCEPT !.columns = columns]
                  = [columns |-> columns, constraints |-> def.constraints, indexes |-> def.indexes, rows |-> def.rows]
           /\ \A constraints : [def EXCEPT !.constraints = constraints]
                  = [columns |-> def.columns, constraints |-> constraints, indexes |-> def.indexes, rows |-> def.rows]
           /\ \A a, b, c, d, x :
                /\ [[columns |-> a, constraints |-> b, indexes |-> c, rows |-> d] EXCEPT !.constraints = x]
                      = [columns |-> a, constraints |-> x, indexes |-> c, rows |-> d]
                /\ [[columns |-> a, constraints |-> b, indexes |-> c, rows |-> d] EXCEPT !.indexes = x]
                      = [columns |-> a, constraints |-> b, indexes |-> x, rows |-> d]
<1>1. def = [columns |-> def.columns, constraints |-> def.constraints,
             indexes |-> def.indexes, rows |-> def.rows]
    BY DefinitionFields
<1>2. QED
    BY <1>1

LEMMA ShrunkOne ==
    ASSUME Values, NEW t \in Tables, Exists(db, t), NEW new \in Definition, new.indexes \subseteq db[t].indexes
    PROVE  Shrunk([db EXCEPT ![t] = new])
<1>1. db \in [Tables -> Definition \cup {NoTable}]
    BY DEF Values
<1>2. QED
    BY <1>1 DEF Shrunk, Exists

LEMMA DropTableShrinks ==
    ASSUME Values, NEW t \in Tables
    PROVE  Shrunk(DropOnly(db, t)) /\ Shrunk(DropOnly(DropReferring(db, t), t))
<1>1. db \in [Tables -> Definition \cup {NoTable}]
    BY DEF Values
<1>2. Shrunk(DropOnly(db, t))
    BY <1>1 DEF Shrunk, DropOnly, Exists
<1> DEFINE left(x) == {c \in db[x].constraints : ~(c.kind = "fk" /\ c.ref = t)}
           d == DropReferring(db, t)
<1>3. d = [x \in Tables |-> IF Exists(db, x) THEN [db[x] EXCEPT !.constraints = left(x)] ELSE db[x]]
    BY DEF DropReferring, Without
<1>4. ASSUME NEW x \in Tables, Exists(db, x)
      PROVE  d[x] \in Definition /\ d[x].indexes = db[x].indexes
    <2>1. db[x] \in Definition
        BY <1>1, <1>4 DEF Exists
    <2>2. left(x) \in SUBSET Constraint
        BY <2>1, DefinitionFields
    <2>3. [db[x] EXCEPT !.constraints = left(x)] \in Definition
        BY <2>1, <2>2, DefinitionWith
    <2>4. d[x] = [db[x] EXCEPT !.constraints = left(x)]
        BY <1>3, <1>4
    <2>5. QED
        BY <2>1, <2>3, <2>4 DEF Definition
<1>5. \A x \in Tables : ~Exists(db, x) => d[x] = NoTable
    BY <1>3 DEF Exists
<1>6. d \in [Tables -> Definition \cup {NoTable}]
    <2>1. DOMAIN d = Tables /\ d = [x \in Tables |-> d[x]]
        BY <1>3
    <2> HIDE DEF d
    <2>2. QED
        BY <1>4, <1>5, <2>1
<1> HIDE DEF d
<1>7. Shrunk(DropOnly(d, t))
    BY <1>4, <1>5, <1>6 DEF Shrunk, DropOnly, Exists
<1>8. QED
    BY <1>2, <1>7 DEF d

LEMMA DropColumnShrinks ==
    ASSUME Values, NEW t \in Tables, Exists(db, t), NEW c
    PROVE  /\ \A d \in DropColumnSqlite(t, c) : Shrunk(d)
           /\ \A d \in DropColumnOther(t, c) : Shrunk(d)
<1>1. db[t] \in Definition
    BY DEF Values, Exists
<1>2. /\ db[t].columns \in [DOMAIN db[t].columns -> Attributes(DBTypes)] /\ DOMAIN db[t].columns \in SUBSET Column
      /\ db[t].constraints \in SUBSET Constraint
      /\ db[t].indexes \in SUBSET Index /\ IsFiniteSet(db[t].indexes) /\ db[t].rows \in BOOLEAN
      /\ db[t] = [columns |-> db[t].columns, constraints |-> db[t].constraints,
                  indexes |-> db[t].indexes, rows |-> db[t].rows]
    BY <1>1, DefinitionFields
<1> DEFINE C == DOMAIN db[t].columns \ {c}
           columns == [x \in C |-> db[t].columns[x]]
           constraints == {x \in db[t].constraints : ~(x.column = c)}
           indexes == {x \in db[t].indexes : ~(x.column = c)}
<1>3. /\ C \in SUBSET Column /\ columns \in [C -> Attributes(DBTypes)]
      /\ constraints \in SUBSET Constraint
      /\ indexes \in SUBSET Index /\ IsFiniteSet(indexes) /\ indexes \subseteq db[t].indexes
    BY <1>2, FS_Subset
<1>4. ASSUME NEW d \in DropColumnSqlite(t, c) PROVE Shrunk(d)
    <2> DEFINE new == [columns |-> columns, constraints |-> db[t].constraints, indexes |-> {}, rows |-> db[t].rows]
    <2>1. [DDLRemoveColumn(db[t], c) EXCEPT !.indexes = {}] = new
        <3>1. DDLRemoveColumn(db[t], c) = [db[t] EXCEPT !.columns = columns]
            BY DEF DDLRemoveColumn
        <3> HIDE DEF C, columns
        <3> DEFINE def == DDLRemoveColumn(db[t], c)
        <3>2. def = [columns |-> columns, constraints |-> db[t].constraints,
                     indexes |-> db[t].indexes, rows |-> db[t].rows]
            BY <1>1, <3>1, DefinitionParts
        <3> HIDE DEF def
        <3>3. [def EXCEPT !.indexes = {}] = new
            BY <3>2
        <3>4. QED
            BY <3>3 DEF def
    <2>2. RecreateTable(t, DDLRemoveColumn(db[t], c))[1] = [op |-> "swap", t |-> t, def |-> new]
        BY <2>1 DEF RecreateTable
    <2>3. d \in Run(db, [op |-> "swap", t |-> t, def |-> new])
        BY <2>2 DEF DropColumnSqlite
    <2>4. IsFiniteSet({}) /\ {} \in SUBSET Index
        BY FS_EmptySet
    <2> HIDE DEF C, columns
    <2>5. new \in Definition
        BY <1>2, <1>3, <2>4, DefinitionOf
    <2>6. new.indexes = {}
        OBVIOUS
    <2> HIDE DEF new
    <2>7. d = [db EXCEPT ![t] = new]
        BY <2>3 DEF Run
    <2>8. QED
        BY <2>5, <2>6, <2>7, ShrunkOne
<1>5. ASSUME NEW d \in DropColumnOther(t, c) PROVE Shrunk(d)
    <2> DEFINE new == [columns |-> columns, constraints |-> constraints, indexes |-> indexes, rows |-> db[t].rows]
    <2>1. d = [db EXCEPT ![t].columns = columns, ![t].constraints = constraints, ![t].indexes = indexes]
        BY DEF DropColumnOther, Without
    <2> HIDE DEF C, columns, constraints, indexes
    <2>2. new \in Definition
        BY <1>2, <1>3, DefinitionOf
    <2>3. d = [db EXCEPT ![t] = new]
        <3> DEFINE one == [db[t] EXCEPT !.columns = columns]
        <3>1. d = [db EXCEPT ![t] = [one EXCEPT !.constraints = constraints, !.indexes = indexes]]
            BY <2>1 DEF Values
        <3>2. one = [columns |-> columns, constraints |-> db[t].constraints,
                     indexes |-> db[t].indexes, rows |-> db[t].rows]
            BY <1>1, DefinitionParts
        <3> HIDE DEF one
        <3> DEFINE two == [one EXCEPT !.constraints = constraints]
        <3>3. two = [columns |-> columns, constraints |-> constraints,
                     indexes |-> db[t].indexes, rows |-> db[t].rows]
            BY <3>2
        <3>4. d = [db EXCEPT ![t] = [two EXCEPT !.indexes = indexes]]
            BY <3>1
        <3> HIDE DEF two
        <3>5. [two EXCEPT !.indexes = indexes] = new
            BY <3>3
        <3> HIDE DEF new
        <3>6. QED
            BY <3>4, <3>5
    <2>4. new.indexes \subseteq db[t].indexes
        BY <1>3
    <2> HIDE DEF new
    <2>5. QED
        BY <2>2, <2>3, <2>4, ShrunkOne
<1>6. QED
    BY <1>4, <1>5

LEMMA DropConstraintShrinks ==
    ASSUME Values, NEW t \in Tables, Exists(db, t), NEW con
    PROVE  \A d \in Run(db, DropConstraint(t, con)[1]) : Shrunk(d)
<1>1. db[t] \in Definition
    BY DEF Values, Exists
<1>2. /\ db[t].constraints \in SUBSET Constraint /\ db[t].indexes \in SUBSET Index
      /\ db[t].columns \in [DOMAIN db[t].columns -> Attributes(DBTypes)] /\ DOMAIN db[t].columns \in SUBSET Column
      /\ db[t].rows \in BOOLEAN
      /\ db[t] = [columns |-> db[t].columns, constraints |-> db[t].constraints,
                  indexes |-> db[t].indexes, rows |-> db[t].rows]
    BY <1>1, DefinitionFields
<1>3. ASSUME NEW d \in Run(db, DropConstraint(t, con)[1]), dialect = "sqlite" PROVE Shrunk(d)
    <2> DEFINE constraints == {x \in db[t].constraints : x.name # con.name}
               new == [columns |-> db[t].columns, constraints |-> constraints, indexes |-> {}, rows |-> db[t].rows]
    <2>1. [DDLRemoveConstraint(db[t], con) EXCEPT !.indexes = {}] = new
        <3>1. DDLRemoveConstraint(db[t], con) = [db[t] EXCEPT !.constraints = constraints]
            BY DEF DDLRemoveConstraint
        <3> HIDE DEF constraints
        <3> DEFINE def == DDLRemoveConstraint(db[t], con)
        <3>2. def = [columns |-> db[t].columns, constraints |-> constraints,
                     indexes |-> db[t].indexes, rows |-> db[t].rows]
            BY <1>1, <3>1, DefinitionParts
        <3> HIDE DEF def
        <3>3. [def EXCEPT !.indexes = {}] = new
            BY <3>2
        <3>4. QED
            BY <3>3 DEF def
    <2>2. DropConstraint(t, con)[1] = [op |-> "swap", t |-> t, def |-> new]
        BY <1>3, <2>1 DEF DropConstraint, DropConstraintSqlite, RecreateTable
    <2>3. d \in Run(db, [op |-> "swap", t |-> t, def |-> new])
        BY <1>3, <2>2
    <2>4. IsFiniteSet({}) /\ {} \in SUBSET Index
        BY FS_EmptySet
    <2>5. constraints \in SUBSET Constraint
        BY <1>2
    <2> HIDE DEF constraints
    <2>6. new \in Definition
        BY <1>2, <2>4, <2>5, DefinitionOf
    <2>7. new.indexes = {}
        OBVIOUS
    <2> HIDE DEF new
    <2>8. d = [db EXCEPT ![t] = new]
        BY <2>3 DEF Run
    <2>9. QED
        BY <2>6, <2>7, <2>8, ShrunkOne
<1>4. ASSUME NEW d \in Run(db, DropConstraint(t, con)[1]), dialect # "sqlite" PROVE Shrunk(d)
    <2> DEFINE constraints == db[t].constraints \ {con}
               new == [db[t] EXCEPT !.constraints = constraints]
    <2>1. d \in Run(db, [op |-> "drop constraint", t |-> t, con |-> con])
        BY <1>4 DEF DropConstraint
    <2>2. d = [db EXCEPT ![t].constraints = @ \ {con}]
        BY <2>1 DEF Run
    <2>3. d = [db EXCEPT ![t] = new]
        BY <2>2
    <2>4. constraints \in SUBSET Constraint
        BY <1>2
    <2>5. new.indexes = db[t].indexes
        BY <1>2
    <2> HIDE DEF constraints
    <2>6. new \in Definition
        BY <1>1, <2>4, DefinitionWith
    <2> HIDE DEF new
    <2>7. QED
        BY <2>3, <2>5, <2>6, ShrunkOne
<1>5. QED
    BY <1>3, <1>4

LEMMA DropIndexShrinks ==
    ASSUME Values, NEW t \in Tables, Exists(db, t), NEW i
    PROVE  \A d \in Run(db, DropIndex(t, i)[1]) : Shrunk(d)
<1>1. db[t] \in Definition
    BY DEF Values, Exists
<1>2. /\ db[t].indexes \in SUBSET Index /\ IsFiniteSet(db[t].indexes)
      /\ db[t] = [columns |-> db[t].columns, constraints |-> db[t].constraints,
                  indexes |-> db[t].indexes, rows |-> db[t].rows]
    BY <1>1, DefinitionFields
<1>3. ASSUME NEW d \in Run(db, DropIndex(t, i)[1]) PROVE Shrunk(d)
    <2> DEFINE indexes == db[t].indexes \ {i}
               new == [db[t] EXCEPT !.indexes = indexes]
    <2>1. d \in Run(db, [op |-> "drop index", t |-> t, index |-> i])
        BY <1>3 DEF DropIndex
    <2>2. d = [db EXCEPT ![t].indexes = @ \ {i}]
        BY <2>1 DEF Run
    <2>3. d = [db EXCEPT ![t] = new]
        BY <2>2
    <2>4. indexes \in SUBSET Index /\ IsFiniteSet(indexes) /\ indexes \subseteq db[t].indexes
        BY <1>2, FS_Subset
    <2>5. new.indexes = indexes
        BY <1>2
    <2> HIDE DEF indexes
    <2>6. new \in Definition
        BY <1>1, <2>4, DefinitionWith
    <2> HIDE DEF new
    <2>7. QED
        BY <2>3, <2>4, <2>5, <2>6, ShrunkOne
<1>4. QED
    BY <1>3

LEMMA DropInv ==
    ASSUME Inv, NEW d, Shrunk(d), Drop(d)
    PROVE  Inv'
<1>1. /\ db' = d /\ call' = [p \in Callers |-> Idle] /\ ghost' = [p \in Callers |-> NoGhost]
      /\ bounds' = [bounds EXCEPT !.drops = @ + 1] /\ bounds.faults + bounds.drops < MaxTrouble
      /\ dialect' = dialect /\ parsed' = parsed /\ seen' = seen
    BY DEF Drop
<1>2. Values /\ Named
    BY DEF Inv
<1>3. /\ Idle \in Call /\ Idle.at = "idle" /\ Idle.work = <<>> /\ Idle.stmts = <<>> /\ Idle.model = None
    BY IdleType
<1>4. NoGhost \in Ghost
    BY DEF NoGhost, Ghost
<1>5. \A p \in Callers : call'[p] = Idle
    BY <1>1
<1>6. Values'
    <2>1. bounds' \in [calls : 0..MaxCalls, faults : 0..MaxTrouble, drops : 0..MaxTrouble]
        BY <1>1, <1>2, BoundsAssumption DEF Values
    <2>2. call' \in [Callers -> Call] /\ ghost' \in [Callers -> Ghost]
        BY <1>1, <1>3, <1>4
    <2>3. db' \in [Tables -> Definition \cup {NoTable}]
        BY <1>1 DEF Shrunk
    <2>4. QED
        BY <1>1, <1>2, <2>1, <2>2, <2>3 DEF Values
<1>7. Named'
    <2>1. ASSUME NEW t \in Tables, Exists(d, t)
          PROVE  \A x \in d[t].indexes, i \in Indexes[t] : x.name = i.name => x = i
        <3>1. Exists(db, t) /\ d[t].indexes \subseteq db[t].indexes
            BY <2>1 DEF Shrunk
        <3>2. QED
            BY <1>2, <3>1 DEF Named
    <2>2. QED
        BY <1>1, <2>1 DEF Named, Exists
<1>8. Single'
    BY <1>3, <1>5 DEF Single, Runs
<1>9. ASSUME NEW p \in Callers PROVE Local(p)'
    <2>1. ~Answers(p)' /\ call'[p].at # "ok"
        BY <1>3, <1>5 DEF Answers, Runs
    <2>2. QED
        BY <1>3, <1>5, <2>1, Resting
<1>10. QED
    BY <1>6, <1>7, <1>8, <1>9 DEF Inv

LEMMA OperatorDropsInv ==
    ASSUME Inv, OperatorDrops
    PROVE  Inv'
<1>1. Values /\ dialect \in {"mysql", "postgres", "sqlite", "sqlserver"}
    BY DialectsAssumption DEF Inv, Values
<1>2. PICK t \in Tables :
        \/ DropTable(t)
        \/ \E c \in Columns[t] : DropColumn(t, c) \/ DropDeclared(t, UniqueOn(t, c)) \/ DropDeclared(t, CheckOn(t, c))
        \/ \E i \in Indexes[t] : DropAnIndex(t, i)
    BY DEF OperatorDrops
<1>3. CASE DropTable(t)
    <2>1. Drop(DropOnly(db, t)) \/ Drop(DropOnly(DropReferring(db, t), t))
        BY <1>1, <1>3 DEF DropTable, DropTableMysql, DropTablePostgres, DropTableSqlite, DropTableSqlserver
    <2>2. Shrunk(DropOnly(db, t)) /\ Shrunk(DropOnly(DropReferring(db, t), t))
        BY <1>1, DropTableShrinks
    <2>3. QED
        BY <2>1, <2>2, DropInv
<1>4. ASSUME NEW c \in Columns[t], DropColumn(t, c) PROVE Inv'
    <2>1. Exists(db, t) /\ \E d : (d \in DropColumnSqlite(t, c) \/ d \in DropColumnOther(t, c)) /\ Drop(d)
        BY <1>4 DEF DropColumn
    <2>2. PICK d : (d \in DropColumnSqlite(t, c) \/ d \in DropColumnOther(t, c)) /\ Drop(d)
        BY <2>1
    <2>3. Shrunk(d)
        BY <1>1, <2>1, <2>2, DropColumnShrinks
    <2>4. QED
        BY <2>2, <2>3, DropInv
<1>5. ASSUME NEW con, DropDeclared(t, con) PROVE Inv'
    <2>1. PICK d \in Run(db, DropConstraint(t, con)[1]) : Drop(d) /\ Exists(db, t)
        BY <1>5 DEF DropDeclared
    <2>2. Shrunk(d)
        BY <1>1, <2>1, DropConstraintShrinks
    <2>3. QED
        BY <2>1, <2>2, DropInv
<1>6. ASSUME NEW i, DropAnIndex(t, i) PROVE Inv'
    <2>1. PICK d \in Run(db, DropIndex(t, i)[1]) : Drop(d) /\ Exists(db, t)
        BY <1>6 DEF DropAnIndex
    <2>2. Shrunk(d)
        BY <1>1, <2>1, DropIndexShrinks
    <2>3. QED
        BY <2>1, <2>2, DropInv
<1>7. QED
    BY <1>2, <1>3, <1>4, <1>5, <1>6
-----------------------------------------------------------------------------
(* The invariant of the specification.                                     *)

LEMMA InitInv ==
    ASSUME Init
    PROVE  Inv
<1>1. /\ dialect \in Dialects /\ db \in Databases
      /\ parsed = [p \in Callers |-> {}]
      /\ call = [p \in Callers |-> Idle]
      /\ seen = [p \in Callers |-> [columns |-> << >>, unique |-> {}]]
      /\ bounds = [calls |-> 0, faults |-> 0, drops |-> 0]
      /\ ghost = [p \in Callers |-> NoGhost]
    BY DEF Init
<1>2. /\ db \in [Tables -> {db[t] : t \in Tables}]
      /\ \A t \in Tables : Exists(db, t) =>
            /\ IsTable(db[t])
            /\ \A x \in db[t].indexes, i \in Indexes[t] : x.name = i.name => x = i
    BY <1>1, DatabasesAssumption
<1>3. db \in [Tables -> Definition \cup {NoTable}]
    <2>1. \A t \in Tables : db[t] \in Definition \cup {NoTable}
        BY <1>2, TableIsDefinition DEF Exists
    <2>2. QED
        BY <1>2, <2>1
<1>4. /\ Idle \in Call /\ Idle.at = "idle" /\ Idle.work = <<>> /\ Idle.stmts = <<>> /\ Idle.model = None
    BY IdleType
<1>5. NoGhost \in Ghost
    BY DEF NoGhost, Ghost
<1>6. [columns |-> << >>, unique |-> {}] \in Seen
    <2>1. << >> \in [{} -> Attributes(DBTypes)] /\ {} \in SUBSET Column
        OBVIOUS
    <2>2. << >> \in UNION {[C -> Attributes(DBTypes)] : C \in SUBSET Column}
        BY <2>1
    <2>3. QED
        BY <2>1, <2>2 DEF Seen
<1>7. Values
    BY <1>1, <1>3, <1>4, <1>5, <1>6, BoundsAssumption DEF Values
<1>8. Named
    BY <1>2 DEF Named
<1>9. ASSUME NEW p \in Callers
      PROVE  /\ call[p].at = "idle" /\ call[p].work = <<>> /\ call[p].stmts = <<>> /\ Model(p) = None
             /\ ~Runs(p) /\ ~Answers(p)
    <2>1. call[p] = Idle
        BY <1>1
    <2>2. QED
        BY <1>4, <2>1 DEF Model, Runs, Answers
<1>10. Single
    BY <1>9 DEF Single
<1>11. ASSUME NEW p \in Callers PROVE Local(p)
    <2>1. Work(p) = {} /\ Stmts(p) = {}
        BY <1>9 DEF Work, Stmts, ToSet
    <2>2. Fits(p) /\ InOrder(p) /\ SeenStill(p) /\ IndexesLast(p) /\ Ahead(p)
        BY <1>9, <2>1 DEF Fits, InOrder, Ordered, SeenStill, IndexesLast, Ahead
    <2>3. QED
        BY <2>2 DEF Local
<1>12. QED
    BY <1>7, <1>8, <1>10, <1>11 DEF Inv

LEMMA StutterInv ==
    ASSUME Inv, UNCHANGED vars
    PROVE  Inv'
<1>1. /\ dialect' = dialect /\ db' = db /\ parsed' = parsed /\ call' = call /\ seen' = seen
      /\ bounds' = bounds /\ ghost' = ghost
    BY DEF vars
<1>2. Values /\ Named /\ Single
    BY DEF Inv
<1>3. DbKept
    BY <1>1, SameKept
<1>4. Values' /\ Named' /\ Single'
    BY <1>1, <1>2, NamedKept, SingleKept DEF Values
<1>5. ASSUME NEW q \in Callers PROVE Local(q)'
    BY <1>1, <1>3, OthersKept
<1>6. QED
    BY <1>4, <1>5 DEF Inv

LEMMA NextInv ==
    ASSUME Inv, [Next]_vars
    PROVE  Inv'
<1>1. ASSUME NEW p \in Callers, NEW values \in Calls, AutoMigrate(p, values) PROVE Inv'
    BY <1>1, AutoMigrateInv
<1>2. ASSUME NEW p \in Callers, NextModel(p) PROVE Inv'
    BY <1>2, NextModelInv
<1>3. ASSUME NEW p \in Callers, Look(p) PROVE Inv'
    BY <1>3, LookInv
<1>4. ASSUME NEW p \in Callers, Exec(p) PROVE Inv'
    BY <1>4, ExecInv
<1>5. ASSUME NEW p \in Callers, StatementFails(p) PROVE Inv'
    BY <1>5, StatementFailsInv
<1>6. ASSUME NEW p \in Callers, Returns(p) PROVE Inv'
    BY <1>6, ReturnsInv
<1>7. CASE OperatorDrops
    BY <1>7, OperatorDropsInv
<1>8. CASE Over
    BY <1>8, StutterInv DEF Over
<1>9. CASE UNCHANGED vars
    BY <1>9, StutterInv
<1>10. QED
    BY <1>1, <1>2, <1>3, <1>4, <1>5, <1>6, <1>7, <1>8, <1>9 DEF Next

LEMMA SpecInv == Spec => []Inv
<1>1. Init => Inv
    BY InitInv
<1>2. Inv /\ [Next]_vars => Inv'
    BY NextInv
<1>3. QED
    BY <1>1, <1>2, PTL DEF Spec

(* The variables have their types whatever the models declare, and no      *)
(* statement of a migrator's (CreateTable, AlterColumn, CreateConstraint,  *)
(* recreateTable of SQLite's) leaves something that is not a table.        *)
THEOREM MigrationTypes == Spec => []TypeOK
<1>1. ASSUME Inv PROVE TypeOK
    <2>1. Values
        BY <1>1 DEF Inv
    <2>2. \A t \in Tables : Exists(db, t) => IsTable(db[t])
        BY <2>1, TableIsDefinition DEF Values, Exists
    <2>3. \A p \in Callers : call[p].at \in {"idle", "run", "ok", "failed"} /\ call[p].todo \in Seq(Tables)
        BY <2>1 DEF Values, Call
    <2>4. QED
        BY <2>1, <2>2, <2>3 DEF TypeOK, Values
<1>2. QED
    BY <1>1, SpecInv, PTL

(* Where AutoMigrate (gorm/migrator/migrator.go:121-205) has returned no   *)
(* error, every table of the call has what its model declares, for all     *)
(* models, databases, drivers, faults and other callers.                   *)
THEOREM MigrationComplete == Spec => []Complete
<1>1. ASSUME Inv PROVE Complete
    <2>1. ASSUME NEW p \in Callers, call[p].at = "ok", dialect = "sqlite" => ghost[p].alone,
                 NEW t \in ToSet(call[p].models)
          PROVE  Made(p, t)
        <3>1. Local(p) /\ Values
            BY <1>1 DEF Inv
        <3>2. Answers(p) /\ ~Runs(p)
            BY <2>1 DEF Answers, Runs
        <3>3. Model(p) = None /\ call[p].todo = <<>>
            BY <2>1, <3>1, <3>2 DEF Local, Fits, Ahead
        <3>4. t \in Tables /\ None \notin Tables
            <4>1. call[p].models \in Seq(Tables)
                BY <3>1 DEF Values, Call
            <4>2. QED
                BY <4>1, ModelsAssumption DEF ToSet, Tables
        <3>5. ToSet(call[p].todo) = {}
            BY <3>3 DEF ToSet
        <3>6. QED
            BY <3>1, <3>2, <3>3, <3>4, <3>5 DEF Local, Ahead
    <2>2. QED
        BY <2>1 DEF Complete, Made
<1>2. QED
    BY <1>1, SpecInv, PTL

(* What a statement of AutoMigrate's leaves: with SQLite a table that      *)
(* recreateTable made anew has lost its indexes.                           *)
LEMMA ExecutesKeeps ==
    ASSUME Inv, NEW p \in Callers, NEW s, Executes(p, s), NEW t \in Tables, Exists(db, t)
    PROVE  /\ Exists(db', t)
           /\ DOMAIN db[t].columns \subseteq DOMAIN db'[t].columns
           /\ db'[t].rows = db[t].rows
           /\ \A i \in db[t].indexes : i \in db'[t].indexes \/ dialect = "sqlite" \/ (dialect = "mysql" /\ i.unique)
<1>1. Effect(s, db', Model(p), parsed[p]) /\ Model(p) \in Tables /\ parsed[p] \in SUBSET Models
    BY ExecEffect
<1>2. /\ \A x \in Tables : x # Model(p) => db'[x] = db[x]
      /\ Exists(db', Model(p)) /\ (dialect # "sqlite" => DbKept)
    BY ExecDatabase
<1>3. CASE t # Model(p)
    <2>1. db'[t] = db[t]
        BY <1>2, <1>3
    <2>2. QED
        BY <2>1 DEF Exists
<1>4. CASE t = Model(p)
    <2>1. Keeps(db[t], db'[t], t, parsed[p])
        BY <1>1, <1>4 DEF Effect
    <2>2. dialect # "sqlite" => KeepsIndexes(db[t], db'[t], t)
        BY <1>2 DEF DbKept
    <2>3. QED
        BY <1>2, <1>4, <2>1, <2>2 DEF Keeps, KeepsIndexes
<1>5. QED
    BY <1>3, <1>4

(* No statement of AutoMigrate's (gorm/migrator/migrator.go:121-205 and    *)
(* what it calls of the drivers' migrators) loses a table, a column, rows  *)
(* or, but for the two exceptions, an index that no model declares.        *)
THEOREM MigrationKeepsData == Spec => KeepsData
<1> DEFINE Keeping ==
        bounds'.drops = bounds.drops => \A t \in Tables : Exists(db, t) =>
            /\ Exists(db', t)
            /\ DOMAIN db[t].columns \subseteq DOMAIN db'[t].columns
            /\ db'[t].rows = db[t].rows
            /\ \A i \in db[t].indexes : i \in db'[t].indexes \/ dialect = "sqlite" \/ (dialect = "mysql" /\ i.unique)
<1>1. ASSUME Inv, Next PROVE Keeping
    <2>1. db' = db => Keeping
        BY DEF Exists
    <2>2. ASSUME NEW p \in Callers, Exec(p) PROVE Keeping
        <3> DEFINE s == Head(call[p].stmts)
        <3>1. Executes(p, s) \/ db' = db
            BY <2>2 DEF Exec, Executes, Fails, Runs
        <3>2. Executes(p, s) => Keeping
            BY <1>1, ExecutesKeeps
        <3>3. QED
            BY <2>1, <3>1, <3>2
    <2>3. ASSUME NEW d, Drop(d) PROVE Keeping
        <3>1. bounds' = [bounds EXCEPT !.drops = @ + 1]
            BY <2>3 DEF Drop
        <3>2. bounds \in [calls : 0..MaxCalls, faults : 0..MaxTrouble, drops : 0..MaxTrouble]
            BY <1>1 DEF Inv, Values
        <3>3. bounds'.drops # bounds.drops
            BY <3>1, <3>2, BoundsAssumption
        <3>4. QED
            BY <3>3
    <2>4. OperatorDrops => Keeping
        <3>1. OperatorDrops => \E d : Drop(d)
            BY DEF OperatorDrops, DropTable, DropColumn, DropDeclared, DropAnIndex
        <3>2. QED
            BY <2>3, <3>1
    <2>5. ASSUME NEW p \in Callers,
                 \/ \E values \in Calls : AutoMigrate(p, values)
                 \/ NextModel(p) \/ Look(p) \/ StatementFails(p) \/ Returns(p)
          PROVE  db' = db
        BY <2>5 DEF AutoMigrate, NextModel, Look, StatementFails, Fails, Returns
    <2>6. Over => db' = db
        BY DEF Over, vars
    <2>7. QED
        BY <1>1, <2>1, <2>2, <2>4, <2>5, <2>6 DEF Next
<1>2. Inv /\ [Next]_vars => [Keeping]_vars
    BY <1>1
<1>3. QED
    BY <1>2, SpecInv, PTL DEF Spec, KeepsData

=============================================================================
