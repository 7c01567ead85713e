------------------------------ MODULE Migration ------------------------------
(***************************************************************************)
(* AutoMigrate (gorm/migrator/migrator.go and the migrators of the four    *)
(* drivers): callers that bring a database to what the models declare, one *)
(* SQL statement at a time and outside of any transaction, so that a call  *)
(* that fails stops half way and another may run in between.               *)
(*                                                                         *)
(* What the statements are is in Drivers, the order of the models, which   *)
(* is a constant here, in Reorder.                                         *)
(***************************************************************************)
EXTENDS Drivers

CONSTANTS
    Callers,       \* processes that call AutoMigrate, each with its own schema cache
    Calls,         \* the lists of models they pass
    Orders,        \* ReorderModels: a list and what is in the schema cache -> what may
                   \* be in the cache then, and the tables in the order they are seen to
    Databases,     \* what a database may be like at first
    MaxCalls,      \* bound: calls of AutoMigrate
    MaxTrouble     \* bound: statements that fail for a reason of the database's, and
                   \* statements of the operator's that drop something

ASSUME OrdersAssumption ==
    \A values \in Calls, cache \in SUBSET Models : \A r \in Orders[values][cache] :
        r.parsed \in SUBSET Models /\ r.ordered \in Seq(Tables)
(* An index that is there at first by the name of one a model declares is  *)
(* that one.                                                               *)
ASSUME DatabasesAssumption ==
    \A d \in Databases :
        /\ d \in [Tables -> {d[t] : t \in Tables}]
        /\ \A t \in Tables : Exists(d, t) =>
              /\ IsTable(d[t])
              /\ \A x \in d[t].indexes, i \in Indexes[t] : x.name = i.name => x = i
ASSUME BoundsAssumption == MaxCalls \in Nat /\ MaxTrouble \in Nat

VARIABLES
    parsed,    \* caller -> the schemas in its cache
    call,      \* caller -> where its call of AutoMigrate is
    seen,      \* caller -> ColumnTypes and unique columns it has read
    bounds,    \* calls, faults and drops so far
    ghost      \* what the properties remember (see below)

vars == <<dialect, db, parsed, call, seen, bounds, ghost>>

(* todo: models not yet begun; model: the one begun; work: what is left to *)
(* look at; stmts: the statements decided on.                              *)
Idle == [at |-> "idle", models |-> <<>>, todo |-> <<>>, model |-> None, work |-> <<>>, stmts |-> <<>>]

TypeOK ==
    /\ dialect \in Dialects
    /\ \A t \in Tables : Exists(db, t) => IsTable(db[t])
    /\ parsed \in [Callers -> SUBSET Models]
    /\ \A p \in Callers : call[p].at \in {"idle", "run", "ok", "failed"} /\ call[p].todo \in Seq(Tables)
    /\ bounds \in [calls : 0..MaxCalls, faults : 0..MaxTrouble, drops : 0..MaxTrouble]

-----------------------------------------------------------------------------
(* What the body of AutoMigrate's loops does with one column, constraint   *)
(* or index of an existing table.                                          *)
Decide(p, t, w) ==
    CASE w.what = "column" ->
           IF w.c \in DOMAIN seen[p].columns THEN MigrateColumn(t, w.c, seen[p].columns[w.c]) ELSE AddColumn(t, w.c)
      [] w.what = "unique"     -> IF w.c \in DOMAIN seen[p].columns THEN MigrateColumnUnique(t, w.c, w.c \in seen[p].unique) ELSE <<>>
      [] w.what = "constraint" -> IF HasConstraint(t, w.con) THEN <<>> ELSE CreateConstraint(t, w.con)
      [] w.what = "index"      -> IF HasIndex(t, w.i) THEN <<>> ELSE CreateIndex(t, w.i)
      [] w.what = "create"     -> CreateTable(t, parsed[p])

(* Mutant: the checks are forgotten for a table that exists.               *)
WorkOnNoChecks(p, t) ==
    LET columns == SetToSeq(Columns[t])
    IN  [n \in 1..Len(columns) |-> [what |-> "column", c |-> columns[n]]]
        \o SetToSeq({[what |-> "constraint", con |-> con] : con \in ForeignKeys[t][parsed[p]]})
        \o SetToSeq({[what |-> "index", i |-> i] : i \in Indexes[t]})

(* ... in the order of the loops: columns, foreign keys, checks, indexes.  *)
WorkOn(p, t) ==
    LET columns == SetToSeq(Columns[t])
        unique  == DeclaredConstraints(t, parsed[p]) \ {UniqueOn(t, c) : c \in Uniques[t]}
    IN  [n \in 1..(2 * Len(columns)) |-> [what |-> IF n % 2 = 1 THEN "column" ELSE "unique", c |-> columns[(n + 1) \div 2]]]
        \o SetToSeq({[what |-> "constraint", con |-> con] : con \in {x \in unique : x.kind = "fk"}})
        \o SetToSeq({[what |-> "constraint", con |-> con] : con \in {x \in unique : x.kind = "check"}})
        \o SetToSeq({[what |-> "index", i |-> i] : i \in Indexes[t]})

-----------------------------------------------------------------------------
(* ghost[p], of the last call: the columns it added, whether a statement   *)
(* was made to fail, whether one ran at all, whether no other call ran     *)
(* beside or since, and whether it was the first to parse some schema; and *)
(* how many calls in a row, of no more models, were ok and alone.          *)
NewCall(p, r) == [added |-> {}, fault |-> FALSE, ran |-> FALSE, alone |-> \A q \in Callers \ {p} : call[q].at # "run",
                  learned |-> r.parsed # parsed[p],
                  settled |-> IF ToSet(r.ordered) \subseteq ToSet(call[p].models) THEN ghost[p].settled ELSE 0]
NoGhost == [added |-> {}, fault |-> FALSE, ran |-> FALSE, alone |-> TRUE, learned |-> TRUE, settled |-> 0]

Init ==
    /\ dialect \in Dialects
    /\ db \in Databases
    /\ parsed = [p \in Callers |-> {}]
    /\ call = [p \in Callers |-> Idle]
    /\ seen = [p \in Callers |-> [columns |-> << >>, unique |-> {}]]
    /\ bounds = [calls |-> 0, faults |-> 0, drops |-> 0]
    /\ ghost = [p \in Callers |-> NoGhost]

Running == \E p \in Callers : call[p].at = "run"

(* AutoMigrate is called.  Two at a time are left out for SQLite, where    *)
(* recreateTable reads the definition before its transaction.              *)
AutoMigrate(p, values) ==
    /\ call[p].at \in {"idle", "ok", "failed"}
    /\ bounds.calls < MaxCalls
    /\ dialect = "sqlite" => ~Running
    /\ \E r \in Orders[values][parsed[p]] :
         /\ parsed' = [parsed EXCEPT ![p] = r.parsed]
         /\ call' = [call EXCEPT ![p] = [Idle EXCEPT !.at = "run", !.models = r.ordered, !.todo = r.ordered]]
         /\ ghost' = [q \in Callers |-> IF q = p THEN NewCall(p, r)
                                         ELSE [ghost[q] EXCEPT !.alone = FALSE, !.settled = 0]]
    /\ bounds' = [bounds EXCEPT !.calls = @ + 1]
    /\ UNCHANGED <<dialect, db, seen>>

Begun(p) == call[p].at = "run" /\ call[p].work = <<>> /\ call[p].stmts = <<>>

(* The next model: HasTable, and ColumnTypes if it has.                    *)
NextModel(p) ==
    /\ Begun(p) /\ call[p].todo # <<>>
    /\ LET t == Head(call[p].todo)
           rest == [call[p] EXCEPT !.todo = Tail(@), !.model = t]
       IN  IF Exists(db, t)
           THEN /\ call' = [call EXCEPT ![p] = [rest EXCEPT !.work = WorkOn(p, t)]]
                /\ seen' = [seen EXCEPT ![p] = ColumnTypes(t)]
           ELSE /\ call' = [call EXCEPT ![p] = [rest EXCEPT !.work = <<[what |-> "create"]>>]]
                /\ UNCHANGED seen
    /\ UNCHANGED <<dialect, db, parsed, bounds, ghost>>

Look(p) ==
    /\ call[p].at = "run" /\ call[p].stmts = <<>> /\ call[p].work # <<>>
    /\ call' = [call EXCEPT ![p].work = Tail(@), ![p].stmts = Decide(p, call[p].model, Head(call[p].work))]
    /\ UNCHANGED <<dialect, db, parsed, seen, bounds, ghost>>

(* The next statement is executed, or fails: the call returns its error.   *)
Fails(p, fault) ==
    /\ call' = [call EXCEPT ![p] = [Idle EXCEPT !.at = "failed", !.models = call[p].models]]
    /\ ghost' = [ghost EXCEPT ![p].fault = fault, ![p].ran = TRUE, ![p].settled = 0]
    /\ UNCHANGED db

Exec(p) ==
    /\ call[p].at = "run" /\ call[p].stmts # <<>>
    /\ LET s == Head(call[p].stmts)
           results == Run(db, s)
       IN  \/ /\ results # {}
              /\ db' \in results
              /\ call' = [call EXCEPT ![p].stmts = Tail(@)]
              /\ ghost' = [ghost EXCEPT ![p].ran = TRUE,
                                        ![p].added = IF s.op = "add column" THEN @ \cup {<<s.t, s.c>>} ELSE @]
           \/ results = {} /\ Fails(p, FALSE)
    /\ UNCHANGED <<dialect, parsed, seen, bounds>>

StatementFails(p) ==
    /\ call[p].at = "run" /\ call[p].stmts # <<>>
    /\ bounds.faults + bounds.drops < MaxTrouble
    /\ Fails(p, TRUE)
    /\ bounds' = [bounds EXCEPT !.faults = @ + 1]
    /\ UNCHANGED <<dialect, parsed, seen>>

Returns(p) ==
    /\ Begun(p) /\ call[p].todo = <<>>
    /\ call' = [call EXCEPT ![p] = [Idle EXCEPT !.at = "ok", !.models = call[p].models]]
    /\ ghost' = [ghost EXCEPT ![p].settled = IF ghost[p].alone THEN @ + 1 ELSE 0]
    /\ UNCHANGED <<dialect, db, parsed, seen, bounds>>

(* The operator's DropTable, DropColumn, DropConstraint and DropIndex,     *)
(* while no AutoMigrate runs.                                              *)
Drop(d) ==
    /\ ~Running
    /\ bounds.faults + bounds.drops < MaxTrouble
    /\ db' = d
    /\ call' = [p \in Callers |-> Idle]
    /\ ghost' = [p \in Callers |-> NoGhost]
    /\ bounds' = [bounds EXCEPT !.drops = @ + 1]
    /\ UNCHANGED <<dialect, parsed, seen>>

DropTable(t) ==
    Exists(db, t) /\ Drop(CASE dialect = "mysql" -> DropTableMysql(t) [] dialect = "postgres" -> DropTablePostgres(t)
                            [] dialect = "sqlite" -> DropTableSqlite(t) [] dialect = "sqlserver" -> DropTableSqlserver(t))

DropColumn(t, c) ==
    /\ Exists(db, t) /\ c \in DOMAIN db[t].columns
    /\ \E d \in (IF dialect = "sqlite" THEN DropColumnSqlite(t, c) ELSE DropColumnOther(t, c)) : Drop(d)

DropDeclared(t, con) ==
    Exists(db, t) /\ con \in db[t].constraints /\ \E d \in Run(db, DropConstraint(t, con)[1]) : Drop(d)

DropAnIndex(t, i) ==
    Exists(db, t) /\ \E d \in Run(db, DropIndex(t, i)[1]) : Drop(d)

OperatorDrops ==
    \E t \in Tables :
        \/ DropTable(t)
        \/ \E c \in Columns[t] : DropColumn(t, c) \/ DropDeclared(t, UniqueOn(t, c)) \/ DropDeclared(t, CheckOn(t, c))
        \/ \E i \in Indexes[t] : DropAnIndex(t, i)

Over ==
    /\ bounds.calls = MaxCalls /\ ~Running
    /\ UNCHANGED vars

Next ==
    \/ \E p \in Callers :
         \/ \E values \in Calls : AutoMigrate(p, values)
         \/ NextModel(p) \/ Look(p) \/ Exec(p) \/ StatementFails(p) \/ Returns(p)
    \/ OperatorDrops
    \/ Over

Spec == Init /\ [][Next]_vars

-----------------------------------------------------------------------------
(* When AutoMigrate has returned no error, each table it was to see to has *)
(* every column, check, foreign key and index its model declares, and the  *)
(* unique constraints of the columns it did not itself add, whatever was   *)
(* there before, wherever an earlier call failed and whoever ran beside it *)
(* (AutoMigrate and CreateTable, gorm/migrator/migrator.go:121-323; with   *)
(* SQLite until the next call, which may lose the indexes and then fail).  *)
Complete ==
    \A p \in Callers : call[p].at = "ok" /\ (dialect = "sqlite" => ghost[p].alone) => \A t \in ToSet(call[p].models) :
        /\ Exists(db, t)
        /\ Columns[t] \subseteq DOMAIN db[t].columns
        /\ \A con \in DeclaredConstraints(t, parsed[p]) :
              con \in db[t].constraints \/ (con.kind = "unique" /\ <<t, con.column>> \in ghost[p].added)
        /\ \A i \in Indexes[t] : HasIndex(t, i)

(* No statement of AutoMigrate's loses a table, a column or the rows, and  *)
(* an index that no model declares stays, but for SQLite, where a table    *)
(* that is made anew has none, and MySQL's unique ones.                    *)
KeepsData ==
    [][bounds'.drops = bounds.drops => \A t \in Tables : Exists(db, t) =>
         /\ Exists(db', t)
         /\ DOMAIN db[t].columns \subseteq DOMAIN db'[t].columns
         /\ db'[t].rows = db[t].rows
         /\ \A i \in db[t].indexes : i \in db'[t].indexes \/ dialect = "sqlite" \/ (dialect = "mysql" /\ i.unique)]_vars

(* ReorderModels has every table come after the ones it refers to: a call  *)
(* that runs alone and meets no fault of the database's succeeds, however  *)
(* far an earlier one came.  Not so when it is the first to parse a schema *)
(* (a model learns of the relations that lead to it only then), nor for a  *)
(* check on SQL Server, whose HasConstraint does not see it.               *)
Succeeds ==
    \A p \in Callers : call[p].at = "failed" =>
        \/ ghost[p].fault \/ ~ghost[p].alone \/ ghost[p].learned
        \/ dialect = "sqlserver" /\ \E t \in ToSet(call[p].models) : Checks[t] # {}

(* Where two calls in a row have succeeded, a third finds nothing to do    *)
(* (MySQL and SQLite; a first one may leave a unique column it has added   *)
(* for the second).                                                        *)
Settled ==
    dialect \in {"mysql", "sqlite"} =>
        \A p \in Callers : call[p].at = "run" /\ ghost[p].alone /\ ghost[p].settled >= 2 => ~ghost[p].ran

(* Calls repeated until they succeed come to an end of their work: a call  *)
(* that meets no trouble succeeds, and once two have there is nothing left *)
(* to do (AutoMigrate and ReorderModels, migrator.go:121-205, 907-1008).   *)
Converges == Succeeds /\ Settled

(* No column refers to two rows by foreign keys, nor twice to one: the two *)
(* ends of a relation declare one constraint, and polymorphic ones none    *)
(* (ParseConstraint and parseRelation, gorm/schema/relationship.go).       *)
OneParent ==
    \A t \in Tables : Exists(db, t) => \A c1, c2 \in db[t].constraints :
        c1.kind = "fk" /\ c2.kind = "fk" /\ c1.column = c2.column => c1 = c2

(* What gorm/tests/migrate_test.go:1388-1417 and 1502-1510 say: to migrate *)
(* what has just been migrated executes no ALTER TABLE.                    *)
SecondCallQuiet ==
    \A p \in Callers : call[p].at = "run" /\ ghost[p].alone /\ ghost[p].settled >= 1 => ~ghost[p].ran
=============================================================================
