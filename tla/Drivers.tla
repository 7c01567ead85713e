------------------------------- MODULE Drivers -------------------------------
(***************************************************************************)
(* The migrators of the four drivers (driver/<name>/migrator.go over       *)
(* gorm/migrator/migrator.go): what each reads of a table and the SQL      *)
(* statements it sends to change one, given as the sequence of statements  *)
(* still to be executed.                                                   *)
(*                                                                         *)
(* A table is its columns but for the primary key, its constraints, its    *)
(* indexes and whether it has rows.  Comments, sizes that are part of a    *)
(* type, views, schemas of a database, and dry runs are left out.          *)
(***************************************************************************)
EXTENDS Relations, TLC

CONSTANTS
    Dialects,      \* drivers to look at
    Declared,      \* model or join table -> column -> Go type, nullable, default
    Uniques,       \* ... -> its columns tagged UNIQUE
    Checks,        \* ... -> its columns tagged CHECK
    Indexes        \* ... -> its indexes

VARIABLES
    dialect,   \* the driver
    db         \* table -> its definition, or NoTable

Tables     == Models \cup JoinTables
Column     == UNION {Columns[t] : t \in Tables}
Attributes(types) == [kind : types, null : BOOLEAN, default : {"", "a", "b"}]
GoTypes    == {"int", "uint", "string", "sized string"}
DBTypes    == {"bigint", "bigint unsigned", "int", "integer", "varchar", "nvarchar", "text", "longtext", "other"}
Names      == ({"unique", "check"} \X Tables \X Column) \cup ({"fk"} \X Tables \X (STRING \cup Models))
Constraint == [kind : {"unique", "check", "fk"}, name : Names, on : Tables, column : Column, ref : Tables \cup {None}]
Index      == [name : STRING, column : Column, unique : BOOLEAN]
NoTable    == [absent |-> TRUE]
IsTable(def) ==
    /\ def \in [columns : [DOMAIN def.columns -> Attributes(DBTypes)], constraints : SUBSET Constraint,
                indexes : SUBSET Index, rows : BOOLEAN]
    /\ DOMAIN def.columns \subseteq Column /\ IsFiniteSet(def.indexes)

ASSUME DialectsAssumption == Dialects \subseteq {"mysql", "postgres", "sqlite", "sqlserver"}
ASSUME DeclaredAssumption ==
    \A t \in Tables : /\ Declared[t] \in [Columns[t] -> Attributes(GoTypes)]
                      /\ Uniques[t] \cup Checks[t] \subseteq Columns[t]
                      /\ Indexes[t] \subseteq Index /\ IsFiniteSet(Indexes[t])
                      /\ \A i, j \in Indexes[t] : i.name = j.name => i = j
(* Foreign keys are named after the relation, of which a schema has one by *)
(* each name.                                                              *)
ASSUME NamesAssumption ==
    \A t \in Tables, cache \in SUBSET Models :
        \A x, y \in ForeignKeys[t][cache] : x.name = y.name => x = y

UniqueOn(t, c) == [kind |-> "unique", name |-> <<"unique", t, c>>, on |-> t, column |-> c, ref |-> None]
CheckOn(t, c)  == [kind |-> "check", name |-> <<"check", t, c>>, on |-> t, column |-> c, ref |-> None]
Exists(d, t)   == d[t] # NoTable
Without(S, P(_)) == {x \in S : ~P(x)}

-----------------------------------------------------------------------------
(* External: what the databases do with a statement, or {} if they refuse  *)
(* it.  SQLite does not look for the table a foreign key refers to.        *)
Create(d, t, def) ==
    IF Exists(d, t) \/ (dialect # "sqlite" /\ \E c \in def.constraints : c.kind = "fk" /\ c.ref # t /\ ~Exists(d, c.ref))
    THEN {} ELSE {[d EXCEPT ![t] = def]}
AddConstraint(d, t, c) ==
    IF c \in d[t].constraints \/ c.column \notin DOMAIN d[t].columns \/ (c.kind = "fk" /\ ~Exists(d, c.ref))
    THEN {} ELSE {[d EXCEPT ![t].constraints = @ \cup {c}]}
AddIndex(d, t, i, ifNotExists) ==
    IF \E x \in d[t].indexes : x.name = i.name THEN (IF ifNotExists THEN {d} ELSE {})
    ELSE {[d EXCEPT ![t].indexes = @ \cup {i}]}

WithColumn(columns, c, to) == [x \in DOMAIN columns \cup {c} |-> IF x = c THEN to ELSE columns[x]]

Run(d, s) ==
    IF s.op = "create"           THEN Create(d, s.t, s.def)
    ELSE IF ~Exists(d, s.t)      THEN {}
    ELSE CASE s.op = "add column" ->
                IF s.c \in DOMAIN d[s.t].columns THEN {} ELSE {[d EXCEPT ![s.t].columns = WithColumn(@, s.c, s.to)]}
           [] s.op = "alter" ->
                IF s.c \notin DOMAIN d[s.t].columns THEN {} ELSE {[d EXCEPT ![s.t].columns[s.c] = s.to]}
           [] s.op = "add constraint"  -> AddConstraint(d, s.t, s.con)
           [] s.op = "drop constraint" ->
                IF s.con \in d[s.t].constraints THEN {[d EXCEPT ![s.t].constraints = @ \ {s.con}]} ELSE {}
           [] s.op = "create index" -> AddIndex(d, s.t, s.index, FALSE)
           [] s.op = "create index if not exists" -> AddIndex(d, s.t, s.index, TRUE)
           [] s.op = "drop index" ->
                IF s.index \in d[s.t].indexes THEN {[d EXCEPT ![s.t].indexes = @ \ {s.index}]} ELSE {}
           [] s.op = "swap" -> {[d EXCEPT ![s.t] = s.def]}

-----------------------------------------------------------------------------
(* DataTypeOf: the column type of a Go type.  MySQL makes a string without *)
(* a size a varchar if it has a default or an index.                       *)
DataTypeOfMysql(t, c) ==
    LET f == Declared[t][c]
        indexed == c \in Uniques[t] \/ \E i \in Indexes[t] : i.column = c
    IN  CASE f.kind = "int" -> "bigint"
          [] f.kind = "uint" -> "bigint unsigned"
          [] f.kind = "string" /\ f.default = "" /\ ~indexed -> "longtext"
          [] OTHER -> "varchar"
DataTypeOfPostgres(t, c) ==
    CASE Declared[t][c].kind \in {"int", "uint"} -> "bigint" [] Declared[t][c].kind = "string" -> "text" [] OTHER -> "varchar"
DataTypeOfSqlite(t, c)    == IF Declared[t][c].kind \in {"int", "uint"} THEN "integer" ELSE "text"
DataTypeOfSqlserver(t, c) == IF Declared[t][c].kind \in {"int", "uint"} THEN "bigint" ELSE "nvarchar"

DataTypeOf(t, c) ==
    CASE dialect = "mysql" -> DataTypeOfMysql(t, c)
      [] dialect = "postgres" -> DataTypeOfPostgres(t, c)
      [] dialect = "sqlite" -> DataTypeOfSqlite(t, c)
      [] dialect = "sqlserver" -> DataTypeOfSqlserver(t, c)

(* Type, NOT NULL and DEFAULT.                                             *)
FullDataTypeOf(t, c) == [Declared[t][c] EXCEPT !.kind = DataTypeOf(t, c)]

(* Mutant: the UNSIGNED of other databases stays.                          *)
PgDBTypeMapOther(t, c) == IF Declared[t][c].kind = "uint" THEN "int unsigned" ELSE "bigint"

(* PgDBTypeMap: with a PostgreSQL driver tables are created with these     *)
(* types alone, neither NOT NULL nor DEFAULT, and columns changed to them. *)
PgDBTypeMap(t, c) ==
    LET kind == Declared[t][c].kind
    IN  CASE kind = "int" -> "bigint" [] kind = "uint" -> "int" [] OTHER -> "text"
CreatedAs(t, c) ==
    IF dialect = "postgres" THEN [kind |-> PgDBTypeMap(t, c), null |-> TRUE, default |-> ""]
    ELSE FullDataTypeOf(t, c)

(* ColumnTypes: what is read of a table's columns, and which are taken to  *)
(* be unique: those with a unique constraint of their own, in MySQL also   *)
(* those with a unique index.  MySQL's data_type does not say UNSIGNED.    *)
ColumnTypesMysql(t, def) ==
    [columns |-> [c \in DOMAIN def.columns |->
                    IF def.columns[c].kind = "bigint unsigned" THEN [def.columns[c] EXCEPT !.kind = "bigint"] ELSE def.columns[c]],
     unique  |-> {c \in DOMAIN def.columns : UniqueOn(t, c) \in def.constraints \/ \E i \in def.indexes : i.unique /\ i.column = c}]
ColumnTypesPostgres(t, def)  == [columns |-> def.columns, unique |-> {c \in DOMAIN def.columns : UniqueOn(t, c) \in def.constraints}]
ColumnTypesSqlserver(t, def) == [columns |-> def.columns, unique |-> {c \in DOMAIN def.columns : UniqueOn(t, c) \in def.constraints}]
(* SQLite's come from parsing the CREATE TABLE and CREATE INDEX statements *)
(* the database keeps; a unique index says nothing.                        *)
ParseDDL(t, def) == {c \in DOMAIN def.columns : UniqueOn(t, c) \in def.constraints}
ColumnTypesSqlite(t, def) == [columns |-> def.columns, unique |-> ParseDDL(t, def)]

ColumnTypes(t) ==
    CASE dialect = "mysql" -> ColumnTypesMysql(t, db[t])
      [] dialect = "postgres" -> ColumnTypesPostgres(t, db[t])
      [] dialect = "sqlite" -> ColumnTypesSqlite(t, db[t])
      [] dialect = "sqlserver" -> ColumnTypesSqlserver(t, db[t])

(* HasConstraint: SQL Server's looks among foreign keys only.              *)
HasConstraintSqlserver(t, con) == con \in db[t].constraints /\ con.kind = "fk"
HasConstraint(t, con) == IF dialect = "sqlserver" THEN HasConstraintSqlserver(t, con) ELSE con \in db[t].constraints
HasIndex(t, i)        == \E x \in db[t].indexes : x.name = i.name

-----------------------------------------------------------------------------
(* Mutant: without INSERT INTO ... SELECT.                                 *)
RecreateTableEmpty(t, def) == <<[op |-> "swap", t |-> t, def |-> [def EXCEPT !.indexes = {}, !.rows = FALSE]]>>

(* recreateTable of SQLite: the definition is read, changed, and then, in  *)
(* a transaction, a table made of it is filled with the rows of the old    *)
(* one, which is dropped with its indexes.                                 *)
RecreateTable(t, def) == <<[op |-> "swap", t |-> t, def |-> [def EXCEPT !.indexes = {}]]>>

(* addConstraint puts a constraint in the place of the one of its name.    *)
DDLAddConstraint(def, con)    == [def EXCEPT !.constraints = {x \in @ : x.name # con.name} \cup {con}]
DDLRemoveConstraint(def, con) == [def EXCEPT !.constraints = {x \in @ : x.name # con.name}]
DDLRemoveColumn(def, c)       == [def EXCEPT !.columns = [x \in DOMAIN @ \ {c} |-> @[x]]]

CreateConstraintSqlite(t, con) == RecreateTable(t, DDLAddConstraint(db[t], con))
DropConstraintSqlite(t, con)   == RecreateTable(t, DDLRemoveConstraint(db[t], con))
CreateConstraint(t, con) ==
    IF dialect = "sqlite" THEN CreateConstraintSqlite(t, con) ELSE <<[op |-> "add constraint", t |-> t, con |-> con]>>
DropConstraint(t, con) ==
    IF dialect = "sqlite" THEN DropConstraintSqlite(t, con) ELSE <<[op |-> "drop constraint", t |-> t, con |-> con]>>

CreateIndexPostgres(t, i) == <<[op |-> "create index if not exists", t |-> t, index |-> i]>>
CreateIndex(t, i) ==
    IF dialect = "postgres" THEN CreateIndexPostgres(t, i) ELSE <<[op |-> "create index", t |-> t, index |-> i]>>
DropIndex(t, i) == <<[op |-> "drop index", t |-> t, index |-> i]>>

DeclaredConstraints(t, cache) ==
    {UniqueOn(t, c) : c \in Uniques[t]} \cup {CheckOn(t, c) : c \in Checks[t]} \cup ForeignKeys[t][cache]

(* CreateTable: one statement; all but MySQL create the indexes after it.  *)
CreateTable(t, cache) ==
    LET inline == dialect = "mysql"
    IN  <<[op |-> "create", t |-> t,
           def |-> [columns |-> [c \in Columns[t] |-> CreatedAs(t, c)],
                    constraints |-> DeclaredConstraints(t, cache),
                    indexes |-> IF inline THEN Indexes[t] ELSE {}, rows |-> FALSE]]>>
        \o IF inline THEN <<>> ELSE SetToSeq({CreateIndex(t, i)[1] : i \in Indexes[t]})

AddColumn(t, c) == <<[op |-> "add column", t |-> t, c |-> c, to |-> FullDataTypeOf(t, c)]>>

-----------------------------------------------------------------------------
Alter(t, c, to) == <<[op |-> "alter", t |-> t, c |-> c, to |-> to]>>

AlterColumnMysql(t, c)     == Alter(t, c, FullDataTypeOf(t, c))
AlterColumnSqlite(t, c)    == RecreateTable(t, [db[t] EXCEPT !.columns[c] = FullDataTypeOf(t, c)])
AlterColumnSqlserver(t, c) == Alter(t, c, [FullDataTypeOf(t, c) EXCEPT !.default = db[t].columns[c].default])

(* PostgreSQL's reads the columns again and has a statement for each       *)
(* difference; modifyColumn changes the type to PgDBTypeMap's.             *)
ModifyColumn(t, c) == [db[t].columns[c] EXCEPT !.kind = PgDBTypeMap(t, c)]
AlterColumnPostgres(t, c) ==
    LET to  == FullDataTypeOf(t, c)
        now == db[t].columns[c]
        typed    == IF now.kind # to.kind THEN ModifyColumn(t, c) ELSE now
        nullable == [typed EXCEPT !.null = to.null]
    IN  (IF now.kind # to.kind THEN Alter(t, c, typed) ELSE <<>>)
        \o (IF now.null # to.null THEN Alter(t, c, nullable) ELSE <<>>)
        \o (IF now.default # to.default THEN Alter(t, c, [nullable EXCEPT !.default = to.default]) ELSE <<>>)

AlterColumn(t, c) ==
    CASE dialect = "mysql" -> AlterColumnMysql(t, c)
      [] dialect = "postgres" -> AlterColumnPostgres(t, c)
      [] dialect = "sqlite" -> AlterColumnSqlite(t, c)
      [] dialect = "sqlserver" -> AlterColumnSqlserver(t, c)

(* The condition MigrateColumn comes to: where either side has a default   *)
(* and both have, whether they differ replaces what was found before.      *)
HasPrefix(full, real) == full = real \/ (full = "bigint unsigned" /\ real = "bigint")
MustAlter(to, was) ==
    LET before == ~HasPrefix(to.kind, was.kind) \/ (to.null /\ ~was.null)
    IN  IF (was.default = "") # (to.default = "") THEN TRUE
        ELSE IF was.default # "" THEN was.default # to.default
        ELSE before
MigrateColumn(t, c, was) == IF MustAlter(FullDataTypeOf(t, c), was) THEN AlterColumn(t, c) ELSE <<>>

(* MigrateColumnUnique.  MySQL's knows that a unique index makes a column  *)
(* unique: it drops the ones the model does not have.                      *)
MigrateColumnUniqueMysql(t, c, unique) ==
    LET con   == UniqueOn(t, c)
        own   == {i \in Indexes[t] : i.unique /\ i.column = c}
        stray == {i \in db[t].indexes : i.unique /\ i.column = c /\ \A x \in own : x.name # i.name}
        adds  == SetToSeq({CreateIndex(t, i)[1] : i \in {x \in own : ~HasIndex(t, x)}})
    IN  IF unique
        THEN SetToSeq({DropIndex(t, i)[1] : i \in stray})
             \o (IF c \notin Uniques[t] /\ HasConstraint(t, con)
                 THEN DropConstraint(t, con) \o SetToSeq({CreateIndex(t, i)[1] : i \in own})
                 ELSE (IF c \in Uniques[t] /\ ~HasConstraint(t, con) THEN CreateConstraint(t, con) ELSE <<>>) \o adds)
        ELSE (IF c \in Uniques[t] THEN CreateConstraint(t, con) ELSE <<>>) \o adds
MigrateColumnUnique(t, c, unique) ==
    CASE dialect = "mysql"              -> MigrateColumnUniqueMysql(t, c, unique)
      [] dialect # "mysql" /\ unique /\ c \notin Uniques[t] -> DropConstraint(t, UniqueOn(t, c))
      [] dialect # "mysql" /\ ~unique /\ c \in Uniques[t]   -> CreateConstraint(t, UniqueOn(t, c))
      [] OTHER -> <<>>

-----------------------------------------------------------------------------
(* DropTable, as the database it leaves.  MySQL's and SQLite's turn the    *)
(* checking of foreign keys off and leave those that refer to the table,   *)
(* PostgreSQL drops them by CASCADE, SQL Server's migrator one by one.     *)
DropOnly(d, t)      == [d EXCEPT ![t] = NoTable]
DropReferring(d, t) ==
    LET refers(c) == c.kind = "fk" /\ c.ref = t
    IN  [x \in Tables |-> IF Exists(d, x) THEN [d[x] EXCEPT !.constraints = Without(@, refers)] ELSE d[x]]
DropTableMysql(t)     == DropOnly(db, t)
DropTableSqlite(t)    == DropOnly(db, t)
DropTablePostgres(t)  == DropOnly(DropReferring(db, t), t)
DropTableSqlserver(t) == DropOnly(DropReferring(db, t), t)

(* DropColumn, as the databases it may leave.  PostgreSQL drops with the   *)
(* column what is on it, MySQL its indexes and refuses for a foreign key   *)
(* or check, SQL Server refuses for any constraint; SQLite makes the table *)
(* anew, which fails if one mentions the column.                           *)
DropColumnSqlite(t, c) ==
    IF \E x \in db[t].constraints : x.column = c THEN {} ELSE Run(db, RecreateTable(t, DDLRemoveColumn(db[t], c))[1])
DropColumnOther(t, c) ==
    LET on(x) == x.column = c
        keeps == CASE dialect = "postgres" -> {} [] dialect = "mysql" -> {"fk", "check"} [] OTHER -> {"unique", "fk", "check"}
    IN  IF \E x \in db[t].constraints : on(x) /\ x.kind \in keeps THEN {}
        ELSE {[db EXCEPT ![t].columns = [x \in DOMAIN @ \ {c} |-> @[x]], ![t].constraints = Without(@, on), ![t].indexes = Without(@, on)]}
=============================================================================
