# A TLA+ verification of jx-gorm

jx-gorm is the gorm ORM (`src/gorm`) in one tree with its drivers
(`src/driver`), data types (`src/datatypes`) and the soft-delete plugin
(`src/plugin`).  This directory holds TLA+ specifications of the parts of it
whose behaviour depends on order, on concurrency or on failure, the TLC
configurations that check them on small instances, and TLAPS proofs about six
of them.  Line numbers refer to the files under `src/`.

Contents: [inventory](#inventory) - [what is modelled](#what-is-modelled) -
[the runs](#the-runs) - [proofs](#proofs) -
[where code and documentation disagree](#where-code-and-documentation-disagree) -
[not modelled](#not-modelled) - [plan](#plan) -
[running the checks](#running-the-checks).

## Inventory

### Concurrent and stateful parts

**Expirable LRU cache** (`gorm/internal/lru/lru.go`).  State: a map of entries,
a recency list, a ring of 100 buckets by time of insertion with the expiry of
the newest entry of each, the number of the next bucket to clean.  Operations:
`Add`, `Get`, `Contains`, `Peek`, `Remove`, `RemoveOldest`, `Purge`, `Resize`,
`Keys`, `Values`; a goroutine started by `NewLRU` wakes on a ticker, sleeps
*without the mutex* until the newest entry of a bucket has expired and then
clears that bucket.  Correct when map, list and buckets always describe the
same entries, the size bound holds, the cleaner never removes a live entry and
always removes an expired one, and `onEvict` sees exactly what leaves.

**Prepared statement cache** (`gorm/prepare_stmt.go`,
`gorm/internal/stmt_store/stmt_store.go`).  State: the LRU cache from query to
`*Stmt`, an `RWMutex`, in each `Stmt` a `prepared` channel, an error and a
`database/sql` handle.  `prepare` looks up under the read lock, again under the
write lock, inserts an unprepared `Stmt` and *then* prepares it without the
lock, while others wait on its channel.  Evicted statements are closed by
goroutines of their own.  Shared by all sessions of a `DB` and by its
transactions.  Correct when what is executed is a prepared handle of the right
query, usable where it is used; when no handle leaks; when every call returns.

**Transactions** (`gorm/finisher_api.go` 618-758, `SavePoint` and `RollbackTo`
of the drivers).  State: the database's transaction and its savepoints, the
handle of each block with its sticky error.  `Transaction` begins or sets a
savepoint, calls the user's function and commits or undoes in a deferred
function, so that errors and panics at any depth unwind through it.  Correct
when a failed block takes exactly its own writes with it, the outermost call is
all or nothing, and no transaction stays open.

**Schema cache** (`gorm/schema/schema.go` 116-371, 406-424;
`gorm/schema/relationship.go`).  State: `cacheStore`, a `sync.Map` from type to
schema, and in each schema an `initialized` channel.  `Parse` puts a schema in
the cache *before* its relations are parsed, because models refer to one
another in circles; callers from outside wait on the channel, relations
(`getOrParse`) do not, join tables do.  Correct when goroutines never wait for
one another in a circle, all callers get one complete schema per type, and a
failed schema is not found again.

**DB handles and sessions** (`gorm/gorm.go`, `statement.go`,
`chainable_api.go`, `clause/where.go`).  State: the `clone` mode, statement and
error of each handle; the clauses of a statement, which are slices of
expressions whose arrays several statements may share.  `getInstance` starts a
statement, copies one or goes on with the handle's own; `Session` makes a handle
that can be used again.  Correct when a chain never changes the handle it began
on nor one made from it, and each statement asks for what was said on its chain.

**Finishers** (`finisher_api.go`, `gorm/callbacks/query.go`, `update.go`,
`delete.go`) and **soft delete** (`soft_delete.go`, `plugin/soft_delete`).
State: the rows of a table, and between the statements of `FindInBatches`,
`Save`, `CreateInBatches` and `FirstOrCreate` what the first of them returned.
`FindInBatches` goes on after the last primary key; `Save` updates and, if
nothing was affected, inserts; soft deletion adds a condition to every statement
of a model, for which it wraps the conditions that hold an OR.  Correct when an
update or a delete hits no row but those asked for, batches neither repeat nor
skip a row, and what is reported to be stored is.

**Association mode** (`gorm/association.go`), **preloading**
(`gorm/callbacks/preload.go`) and deletion with `Select`
(`gorm/callbacks/delete.go`).  State: the links of four kinds of relation (a
foreign key here, there, or a row of a join table) and the fields that hold them
in memory.  `Replace` saves the new links and then removes the old ones,
`Delete` removes some, `Preload` reads owners and targets in several queries.
Correct when the links end as asked for, those of other owners are left alone,
and a call that fails half-way has not lost both the old and the new ones.

**Association saving** (`gorm/callbacks/associations.go`) and the **statement
execution** around it (`gorm/callbacks.go` 72-140, `gorm/callbacks/create.go`,
`transaction.go`).  State: the statement and its error, the default transaction,
the visit map of the objects being saved, their keys in memory, the rows.
Correct when graphs of objects terminate and link up, and when a failed hook or
statement rolls the whole operation back.

**Relationships** (`gorm/schema/relationship.go`).  `parseRelation` guesses
which side holds the foreign key and registers relations with the far schema, so
that what a model is known to relate to depends on what was parsed before.

**Migrator** (`gorm/migrator/migrator.go` and the four drivers' `migrator.go`).
State: the tables of the database, the schemas that the process has parsed.
`ReorderModels` sorts the tables by dependency; `AutoMigrate` creates a table or
compares it with its model and applies differences, statement by statement and
without a transaction.  Correct when a call that succeeds leaves all that is
declared, whatever earlier calls left behind, loses no data, and repeated calls
come to rest.

**Callback registration** (`gorm/callbacks.go`).  State: per processor a list
of callbacks with `Before`, `After`, `Match`, `Replace` and `Remove` and the
sorted list of functions.  `compile` re-sorts on each registration.  Correct
when the order respects every constraint and a conflict is reported.

### Parts without such state

Field parsing, naming, indexes and constraints (`gorm/schema`), most clauses and
SQL building (`gorm/clause`), row scanning (`scan.go`), logging, utilities, data
types, and the drivers apart from savepoints and migrators: conversions of
values and text, one call at a time.

### How they interact

A call on a handle (`DB`) runs the callbacks of its processor.  These parse the
model (schema cache), begin a default transaction if there is none, and execute
SQL on `Statement.ConnPool`.  That pool is a `sql.DB`, a `sql.Tx`, or with
`PrepareStmt` a `PreparedStmtDB` or `PreparedStmtTX` around one of these.  The
prepared statement cache stores its statements in the LRU cache, whose
`onEvict` callback starts the goroutine that closes one.  A transaction holds a
connection of the same pool that preparing a statement needs.  Association mode
works through the saving of associations and the finishers on handles it makes
itself; the migrator asks the schema cache for the relations of each model and
for those that other models have registered with it.

### What is hard here

* Waiting: for `prepared` with a lock held, for a connection with a statement
  promised to others, for `initialized` of a schema while one's own is open.
* State used after a lock was released: the cleaner's bucket, a `*Stmt` that was
  looked up, a failed `Stmt` deleted by key.
* Order of deferred functions: a failed schema or statement must leave its
  cache before its channel is closed.
* Failure of one step of several: savepoints, rollbacks, panics in blocks.
* Graphs of objects that refer to one another in circles, saved half-way.
* Sharing: an array of conditions that a group, a clone and a `Session` all hold,
  and that `Build` reorders in place.
* Other clients between two statements of one call: a batch whose rows go, a
  `Save` whose row was deleted, a preload of owners that are relinked.
* Calls that stop half-way without a transaction, and the call that goes on from
  there: migrations, association mode.
* Limits: the one-entry cache, the last connection.

`PROJECT.json` lists each such place with its line and the properties for it.

## What is modelled

| module | models | role |
| --- | --- | --- |
| `Recency` | the linked list of `lru.go` as a total order | used by `Lru`, `PreparedStmt` |
| `ExpirableCache` | what an expirable LRU cache promises | abstract specification |
| `Lru` | `lru.go` with its goroutine | implements `ExpirableCache` |
| `LruProofs` | | theorems about `Lru` |
| `PreparedStmt` | `prepare_stmt.go`, `stmt_store.go` | |
| `PreparedStmtProofs` | | theorems about `PreparedStmt` |
| `NestedTx` | what nested transactions promise | abstract specification |
| `Transaction` | `DB.Transaction` and what it calls | implements `NestedTx` |
| `TransactionProofs` | | theorems about `Transaction` |
| `SchemaCache` | `Parse` and `getOrParse` | |
| `SchemaCacheProofs` | | theorems about `SchemaCache` |
| `SaveGraph` | `DB.Create` with its callbacks and the saving of associations | |
| `SaveGraphProofs` | | theorems about `SaveGraph` |
| `Relations` | `parseRelation` and `ParseConstraint` | used by `Drivers` |
| `Drivers` | what each driver's migrator reads and sends | used by `Migration` |
| `Reorder` | `ReorderModels` | gives `MCMigration` its `Orders` |
| `Migration` | `AutoMigrate` by several processes | composes `Relations` and `Drivers` |
| `MigrationProofs` | | theorems about `Migration` |
| `Chains` | statements, conditions and the arrays they share | used by `Records` |
| `Records` | handles, finishers, batches, soft delete over one table | composes `Chains` with a table and another client |
| `Association` | association mode, preloading, deletion with `Select` | |
| `AssociationProofs` | | theorems about `Association` |
| `MC*` | instances for TLC | |

In all of them an action is a stretch of code that nothing can interleave with:
a whole method where a mutex is held throughout, the code between two waits
otherwise.  Operators marked "Mutant" are the plausible mistakes that
`PROJECT.json` pairs with each property to show that the property notices them.

### Lru

One action per exported method that changes state, since each holds `mu` from
beginning to end.  `AddExisting`, `AddNew` and `AddEvicting` are the paths of
`Add`.  `Get` renews the position in the list, not the expiry.  The goroutine
has three actions: `CleanNow` (a tick, a bucket whose newest entry has expired),
`CleanerSleeps` and `CleanerWakes`, between which the mutex is free.  Time is an
integer clock; `Tick` advances it and puts a tick in the ticker's buffer, which
holds one, so that ticks during a sleep are lost, as in Go.  `BucketID` keeps the
`uint8` arithmetic.  `Contains`, `Peek`, `Len`, `Keys` and `Values` change
nothing and have no action.  `evicted` is a ghost: what the last step gave to
`onEvict`.

### PreparedStmt

`pc` follows `prepare` line by line: `get1`, `wait1` under the read lock, `lock`,
`drain`, `get2`, `wait2`, `new` under the write lock, then `prep`, `forget`,
`publish`, `use`, `exec` without it.  The `RWMutex` is modelled with its writer
preference: a writer keeps new readers out, and its unlocking lets in those that
queued.  The LRU cache is used as `ExpirableCache` describes it, with time
reduced to the set `due` of entries whose ttl is over: `Age` adds to it at any
time, `Get` misses such entries, `Clean` removes them later, and `Keys`, and so
`Close`, does not see them.  `database/sql` is external: a pool of `MaxConns`
connections, handles that close when their transaction ends.  Contexts and their
cancellation are left out.

### Transaction

A frame per running call of `Transaction`, with the error its handle carries.
User code is the environment: between two calls a block may write, have a write
fail and ignore it, nest, return, fail, panic or recover.  `setting` picks the
driver's behaviour: whether the dialect returns the error of `SAVEPOINT` (mysql)
or swallows it (postgres, sqlite, sqlserver), whether a failed statement dooms
the transaction (PostgreSQL), whether `DisableNestedTransaction` is set, whether
savepoint statements may fail by themselves, and whether the outermost handle
already has an error.  Begin, Commit, Rollback, SavePoint and RollbackTo are
modelled as `Transaction` calls them; a program that calls them by hand is not.

### SchemaCache

A stack of calls of `Parse` and `getOrParse` per goroutine, with its place in
each: two lookups before the schema is built, `LoadOrStore`, the loop over the
relations, and the two deferred functions in their order.  What a schema
contains is left out except the schemas its relations refer to (`refs`).
`Worlds` are the sets of models to be parsed: who refers to whom in which
order, which models have an invalid relation, which special table names are
used.  The deletion of a failed schema uses its type as key, as the code does.

### SaveGraph

A frame per running call of `Create`: the outermost one and those that
`saveAssociations` makes.  `at` is the callback that is next, in the order of
`callbacks.go:39-46`: begin, hooks, associations before, INSERT, associations
after (with the join table), hooks, commit or rollback; every callback first
looks at the error of its statement (`Runs`).  Memory (`pk`, `fk`) and database
(`rows`, `joins`, `nextId`) are separate, since the code leaves in memory what a
rollback undoes in the database.  `visited` is the visit map, `linked` a ghost
that records which relations of which objects were not skipped because of it.
`Insert` follows the rows that RETURNING yields back into the objects
(`scan.go`), so it is about SQLite, PostgreSQL and MariaDB, not about databases
that report one insert id.  The order of the relations, and the kinds
"belongs to", "has one", "has many" and "many to many", are part of a `World`,
with the settings `SkipDefaultTransaction`, `FullSaveAssociations` and whether the
database gives out again the ids of a rolled-back INSERT.  Left out: `Select` and
`Omit`, batches, `SkipHooks`, hooks that issue statements of their own,
polymorphic relations and composite keys.

### Relations, Drivers, Reorder and Migration

`Relations` translates the guesses of `guessRelation`, the relations that a join
table gets, those that are registered with the far schema (`RelationsOf`, which
depends on the set of schemas parsed so far) and the constraint each relation
stands for.  `Drivers` has, for each dialect, what `ColumnTypes`,
`HasConstraint` and `HasIndex` see, and `CreateTable`, `MigrateColumn`,
`MigrateColumnUnique`, `AlterColumn`, `CreateConstraint`, `DropTable` and the
others as sequences of statements; `Run` is the external database, which gives
the set of tables a statement may lead to, empty when it is refused.  In
`Migration` a caller's models come in an order that the constant `Orders` gives,
with the schemas that have been parsed by then; the runs take it from
`ReorderModels` in `Reorder`, with either order where Go ranges over a map, and
the proofs from nowhere.  The caller then looks at one column, constraint or index at a time (`Look`) and executes
one statement at a time (`Exec`); others may run in between.  A statement may
fail for a reason of the database's (`StatementFails`), which ends the call where
it is; an operator may drop a table, a column, a constraint or an index between
calls.  `ghost` remembers what each last call added, whether it was disturbed,
and how many in a row succeeded.

### Chains and Records

`Chains` keeps arrays of expressions apart from the statements whose slices they
are, since it is their sharing that can go wrong: `mem.arr` and `mem.stmts` are
functions from the numbers in use, `Put` adds to one and `Swept` leaves only what
the program still reaches.
`GetInstance`, `AddWhere` (`MergeClause` copies), `BuildCondition` with a group,
`ExecuteScopes`, the swap in `Build` and the wrapping of
`SoftDeleteQuery`/`ModifyStatement` are operators on that memory, and `Joined`
and `Holds` give the rows which the text that `buildExprs` writes would select,
with AND binding tighter than OR; `Groups` has the answer for every And and Or at
once.  `Records` is a program with several handles:
an action per chain method (`Where`, `WhereGroup`, `Scopes`, `Unscoped`,
`Session`), per finisher (`Find`, `First`, `Update`, `Delete`), and one last
call, `FindInBatches`, `Save`, `CreateInBatches` or `FirstOrCreate`, with an
action for each statement it sends, between which another client inserts,
deletes and updates.  Each handle remembers the words said on it; `Wanted` is
what a program may expect of them, defined without any of the above: a
condition is the set of contents it is true of, and `Means` joins such sets.  Uses that
the code is known to answer otherwise are named in `KnownHabits` and allowed only
if the constant `Habits` has them.

### Association

A program holds owners with one relation's field (`mem`) and foreign key (`fk`)
in memory.  A call is `save` (the owners' `saveAssociation` one after another),
`unlink` (the UPDATE or DELETE that takes links away), `purge` (the deletion of
targets with `Unscoped`), `delete`, or for `Preload` the queries `owners`,
`joins` and `targets`; a step is one SQL statement or one transaction, may
fail, and lets the other program in.  `links` is one set of pairs for all four
kinds; `kind` decides who may have how many and which statements touch them.
What saving an owner does in detail is `SaveGraph`'s subject.

One call, the unscoped `Clear` of a belongs-to, sends two statements on
`association.DB` (118 and 121), and what the second does depends on that handle
(`clones`).  That of `db.Model(&x)` shares one statement between the two: an
error of the UPDATE ends the call, and after one that succeeded the DELETE still
has the table and the condition of the UPDATE (`statement.go:493`,
`callbacks/update.go:183`), names a column of the other table and is refused
(`Refused`).  That of a `Session` gives each a statement and an error of its own.
Owners and targets are of different tables here; relations of a table to itself
are left out.  A preload of a slice goes on without the owners whose row has
gone; one of a struct fails.

## The runs

| run | configuration | shows |
| --- | --- | --- |
| `lru_safety` | `MCLru.cfg` | map, list and buckets agree within the size; the cleaner is never early; `onEvict` exact; implements `ExpirableCache` |
| `lru_live` | `MCLruLive.cfg` | expired entries go, within twice their lifetime |
| `ps_safety` | `MCPreparedStmt.cfg` | what is executed and what is cached is usable |
| `ps_live` | `MCPreparedStmtLive.cfg` | calls return, evicted statements are closed, no leak without expiry |
| `ps_pool` | `MCPreparedStmtPool.cfg` | counterexample: deadlock on the last connection |
| `tx_safety` | `MCTransaction.cfg` | blocks undone exactly, all or nothing unless SAVEPOINT reports an error, no transaction left open, implements `NestedTx` |
| `sc_safety` | `MCSchemaCache.cfg` | no circular wait, one complete schema per key, failures not cached, good schemas stay, calls return |
| `sg_safety` | `MCSaveGraph.cfg` | Create of a graph of objects is all or nothing, links are stored, foreign keys never dangle, the nesting ends, no needless failure |
| `sg_keys` | `MCSaveGraphKeys.cfg` | counterexample: an object is given the primary key of its neighbour |
| `mig_safety` | `MCMigration.cfg` | a successful AutoMigrate is complete, no data is lost, repeated calls succeed and come to rest, no column refers twice, on four drivers |
| `rec_safety` | `MCRecords.cfg` | every statement hits the rows its own chain asks for; batches exact beside another client; what is reported is stored |
| `assoc_safety` | `MCAssociation.cfg` | links end as asked for, other owners' stay, a failure leaves the old links or the new ones, a preload assigns what was linked meanwhile |

The operators marked `Mutant` show for each property a mistake that it notices.

### Bounds

* `Lru`: three keys against a size of two, so that every eviction order occurs;
  three buckets, the smallest ring in which the bucket that is filled, the one
  that is cleaned and another one differ; a clock of six units, two rounds of
  the ring, and twelve for the run about time, in which the cleaner's delays add
  up over several rounds.  `LastAdd` leaves time for the last entry to expire.
* `PreparedStmt`: a store of one statement and two queries make every insertion
  an eviction; two goroutines outside and one inside a transaction meet in every
  pair of places; `StmtIds` bounds the objects alive at a time, and `Call` waits
  until one is free for it, so that the bound cuts off no call under way.
* `Transaction`: four blocks, up to four deep, and three writes: a write before,
  inside and after a block, and siblings as well as nesting.
* `SchemaCache`: two goroutines and three calls: two at a time, one of which is
  followed by a later one; circles of two and of three models with a
  self-reference, entered anywhere; a join table; an invalid model in a circle,
  with and without a special table name.

* `SaveGraph`: nine graphs of up to five objects: a tree with all kinds of
  relations, parent and children that refer to each other, circles of each kind,
  a diamond, a new object shared by two; each new and partly stored, under each
  setting.  A hook or a statement fails at any place; the call is made twice, so
  that a second one meets the keys of a first that failed, with or without a row
  of somebody else's in between.
* `Migration`: three models and a join table: what a user belongs to, has, is a
  friend of, the other end of one of these, a polymorphic relation, a check, a
  unique column and an index; an empty database, and one with an older table that
  has rows and an index nobody declares; two processes.  `MaxCalls` is three, so
  that a call can go on after two that failed or find nothing left to do, and
  `MaxTrouble` two, so that a fault and a drop meet.  Two calls at a time are left
  out for SQLite, whose `recreateTable` reads the definition before its
  transaction.
* `Records`: three handles, three chain methods, two statements before the last
  call, which begins before anything was sent; four rows, one of them deleted,
  that two conditions tell apart; one step of the other client, batches of two,
  so that a limit cuts one, ends with one and exceeds one.  Arrays and statements
  have no bound.
* `Association`: two owners, three targets of which one has no row at first, each
  kind of relation; two calls, one fault.  A fault happens only when no other
  call runs, and a call that begins beside another is for one owner and at most
  one value: the two cases are looked at apart.

### Fairness

* `Lru`: the clock goes on and the cleanup goroutine runs when it can.  `Prompt`
  adds that it is scheduled without delay, only for the bound in time.
* `PreparedStmt`: weak fairness of each goroutine's own steps; strong fairness
  for getting the mutex and a connection, as Go's mutex does not starve a waiter
  and `database/sql` serves requests in order; strong fairness of the end of a
  transaction, which is an assumption on the user's code: without it nothing
  can promise a connection to the others.
* `SchemaCache`: a goroutine that can go on does so.  No more is needed.
* The others have no liveness property: user blocks, hooks and batch functions
  need not end, and nothing waits.  That the nesting of `SaveGraph` is bounded and
  that migrations come to rest (`Converges`) are safety properties.

## Proofs

`LruProofs` proves for every finite set of keys, every size, ttl, and every
number of buckets from 2 to 128:

| theorem | states |
| --- | --- |
| `LruTypes` | `Spec => []TypeOK` |
| `LruStructure` | `Spec => []Structure`, the next three together |
| `LruConsistent` | map, list and buckets agree |
| `LruSizeBound` | the size bound |
| `LruNewestBound` | `newestEntry` is no earlier than any entry of its bucket |
| `LruCleanerNeverEarly` | the cleaner removes no entry before its expiry |
| `LruEvictedExactly` | `onEvict` sees exactly what leaves |
| `LruImplementsCache` | `Lru` implements `ExpirableCache` |
| `LruWithinTwoLifetimes` | with a cleaner that is never late, an expired entry stays no longer than it lived |

The inductive invariant is `Inv == TypeOK /\ Consistent /\ SizeBound /\
NewestBound`.  `NewestBound` is what makes `CleanerNeverEarly` provable: the
cleaner clears a bucket after a sleep without looking at the time again, which
is right only because `wakeAt` still equals that bucket's `newestEntry`, that
bounds every entry in it, and `addToBucket` never picks the bucket that is
cleaned next.  The last fact is lemma `BucketOther`, the only place where the
`uint8` arithmetic and the bound of 128 buckets matter; `SizeBound` needs
`Consistent`, since it is the list that says which entry leaves.

`LruWithinTwoLifetimes` has an invariant of its own, `InTime`.  The turn of a
bucket is the number of cleanings up to its own.  A cleaner that waits cleans at
the next tick, and the bucket whose turn is n at most n - 1 ticks later, unless it
sleeps in between; then it wakes at the `newestEntry` of the bucket it sleeps for,
and the buckets after that follow tick by tick.  So both the next tick and every
`newestEntry` of a bucket with an earlier turn, plus the ticks between the two
turns, have to be within twice the lifetime of each entry.  No `newestEntry` is
more than a ttl ahead of the clock, which closes the argument but for the bucket
whose turn is last, the one that new entries come to: the next cleaning empties a
bucket and moves the entries there one turn forward, and the last conjunct says
that the cleaning comes before they expire.  Nothing is claimed of a cleaner that
is scheduled late (`Prompt` is the hypothesis of the property).

Assumptions: those of `Lru`, `BucketsAssumption` (the code has 100 buckets),
`TTLAssumption` (a ttl of at least one time unit per bucket: below 100ns the
code's ticker panics), `KeysAssumption` (finitely many keys).  The clock bounds
`MaxTime` and `LastAdd` are constants like any other: the theorems hold for all.

`PreparedStmtProofs` proves for every set of goroutines, transactions and callers of
`Close`, every size of the store and of the pool, and every set of statement objects:

| theorem | states |
| --- | --- |
| `PreparedInv` | `Spec => []Inv`, the inductive invariant below |
| `PreparedTypes` | `Spec => []TypeOK` |
| `PreparedHandlesUsable` | what is executed fits its caller, what is cached fits the next one |
| `PreparedNoLeak` | `~MayExpire => (Spec => []NoLeak)` |

`HandlesUsable` says of a goroutine what it relies on at the end of its call, but it
got the statement before it waited for it, and nothing keeps that statement in the
store until it is executed.  `CallOK` says what holds at each label in between: a
statement that somebody prepares is not prepared yet, has an error exactly from the
failure on, and is out of the store before its channel is closed, so that who waits
for it inside the store never finds it failed there.  It takes `OnePreparer` for
another goroutine's preparation not to disturb this, and in `CachedUsable` that no
statement is cached twice, since an entry is removed by its query, not by its
statement.  That `Add` puts the new key in front of the list, and so never pushes out
the entry it makes, is lemma `NotPushedOut`.  `Conns` counts the connections the
transactions hold, for the type of `conns`.
`NoLeak` needs what only the write lock gives: the second lookup and the insertion
are one step for all others, so `New` replaces nothing but a statement of a
transaction (`HoldOK`, `Tight`).  Without its hypothesis it is false, as the list of
divergences below says.  Assumptions: those of `PreparedStmt`, that goroutines of
different kinds are different and that there are finitely many queries.

`TransactionProofs` proves for every depth of nesting, every number of blocks and
writes and every set of settings:

| theorem | states |
| --- | --- |
| `TransactionInv` | `Spec => []Inv`, the inductive invariant below |
| `TransactionTypes` | `Spec => []TypeOK` |
| `TransactionAtomic` | a block that fails takes exactly its writes with it, and the whole is all or nothing |
| `TransactionNoOpenTx` | the outermost call leaves no transaction open |
| `TransactionImplementsNestedTx` | calls of `Transaction` behave as blocks within blocks (`NestedTx`) |

`Atomic` speaks of what is pending and committed; that it is kept rests on what
the savepoints hold, as a block that fails goes back to its own.  `Saved` says it:
the savepoint of a block that runs holds the writes that count but those in that
block.  It survives the failure of a block inside because of `WritesOK`, what was
written in a block was written in those around it, and the savepoint is found by
name because blocks are numbered as they begin and so are their savepoints
(`FramesOK`, `SavepointsOK`).  A dialect that swallows the error of SAVEPOINT
leaves a block without one.  `Unset` says why this does no harm where a failed
statement dooms the transaction: the block writes nothing, no block inside it has a
savepoint, and so the transaction goes on refusing until a block further out
rolls back, or to its end.  `ErrOK` is the same for a dialect that reports it:
only the innermost handle can have an error, since nothing begins on one that has.
`Exact` is `BlocksUndone` with what can be said when savepoints fail by
themselves, and `Phase` and `Result` carry it over the end.

The refinement mapping reads the layers of `NestedTx` from the database: what a
layer has to its credit is what was pending when the next savepoint was set, or is
now, without what was pending at its own.  `AsParts` turns this around: under `Inv`
the layers are the writes that count, each in the innermost layer it was written
in.  In these terms there is one lemma for each way the layers change: a write
adds to the last one, a nested call appends an empty one, a return joins the last
two (by `WritesOK` nothing of the inner one is elsewhere), a failure takes the last
one away, and plain calls, refused statements and recoveries change none.

Assumptions: those of `Transaction`, which say nothing but the types of the
constants.

`SchemaCacheProofs` proves for every set of goroutines, finite or not, every set
of types, join tables and special table names, every number of calls and every
world of models that refer to one another:

| theorem | states |
| --- | --- |
| `SchemaTypes` | `Spec => []TypeOK` |
| `SchemaNoCircularWait` | no goroutines wait for one another's schemas in a circle |
| `SchemaOneGood` | callers get complete schemas, one per key, and failed ones are not found again |
| `SchemaGoodStays` | nothing removes a good schema from the cache |

Waiting in a circle is excluded by an order: a goroutine that waits, waits for a
schema that was cached after all those it holds (`Newer`), so the youngest schema
that is waited for has nobody to hold it.  `Newer` is about what a call is going
to wait for, not only about what it waits for: a call that has not found its key
may find it a moment later, stored by another goroutine, and then it is younger.
It does not hold for join tables, which `Parse` waits for while the schema of an
owner is open; but who holds the schema of a join table parses no relations and so
does not wait (`Shape`).  `Shape` says where a call can be in its stack,
`HeldOnce` that a schema is parsed by one call only, which `SchemaGoodStays`
needs: the key that a deferred `Delete` removes is the call's own.
`AllGood` and `FailedLeaves` strengthen the two parts of `OneGoodSchema` that
speak of the cache.  The proof has one lemma for each way a stack changes (a new
top, a push, a pop, a first call), one for what each of these keeps of `Inv`,
and one that maps each action to them.  Assumptions: those of `SchemaCache`, of
which only `TypesAssumption` says something of the code: the models built for
join tables have no relations of their own that are parsed further, nor invalid
ones.

`AssociationProofs` proves for any number of programs and calls, and every finite
set of owners and of targets:

| theorem | states |
| --- | --- |
| `AssociationTypes` | `Spec => []TypeOK`; a foreign key holds one value |
| `AssociationExact` | an undisturbed call without an error leaves the links asked for |
| `AssociationNeverNeither` | a replacement that stops leaves all old or all new links of an owner |
| `AssociationPreloadBetween` | a preload assigns what was linked meanwhile, and all that always was |
| `AssociationOthersUntouched` | a step takes only links that its call answers for |

The invariant has, for each program, what its call was asked and where it may
be (`Shape`), what a preload has read compared with what was linked since it
began (`Reads`), and `Tracked`, which for each step of a call says how far the
database and the memory have come: before anything is written both are as they
were and the owners still have their rows (`Untouched`), while owners are saved one after another those before place
`i` are as asked for and the others as before (`SavedTo`), and each later step
has its own line: between the UPDATE and the DELETE of an unscoped belongs-to,
for one, a `Clear` has left no foreign key of its owners.  `Tracked` holds only
of a call that nobody disturbs and none of whose errors is overwritten (`Clean`),
as the properties do.  A step of one
program must leave this true of the others: whoever writes disturbs every call
that runs, so that only their shape and what they have read matter then
(`OthersInv`).  Saving one of several owners is the hard case, as it may take a
target from another one listed: `Taken` says which of an owner's old links the
values of the other owners may claim. `PreloadBetween` compares with the links
themselves, so a foreign key that led nowhere for a while counts as a link
throughout.  Assumptions: those of `Association`: finitely many owners and
targets, `None` is no target, and the links there are at first fit the kind of
relation and lead to rows.

`SaveGraphProofs` proves for every finite set of objects, every graph of relations
between them and any number of retries:

| theorem | states |
| --- | --- |
| `SaveGraphTypes` | `Spec => []TypeOK`, with the bound on the nesting of `Create` |
| `SaveGraphAllOrNothing` | a `Create` that fails, wherever it does, has changed no row |

The invariant is `Values /\ Stored /\ Running /\ Nests /\ Undoable`.  `Nests`
bounds the stack by the objects visited, which holds because a nested call is made
only for objects that were not visited and that are marked first.  `Undoable` says
that a transaction is open from the first callback to the last and that what it
began from is still known, for which `Running` has to say that only the outermost
call begins one and that an error leads to the last callback.  `Stored` gives the
ids of rows, without which what INSERT returns to the objects has no type.  The
operators of `SaveGraph` flatten and filter sequences; what they return is shown by
lemmas over all lengths (`FlattenSeqType`, `NthMember`, `InsertType`), with
induction as the lemma `Induction`: a set of numbers that has 0 and with each
number the next has them all.  That takes no operator as a parameter, so the
provers can use it; it comes from the least member of a set (`Least`).
Assumptions: those of `SaveGraph`: finitely many objects, and worlds in which the
relations that must be saved first come first, as `Create` orders them.

`MigrationProofs` proves for any number of callers, any models with whatever
relations, columns, constraints and indexes, all four drivers, any database to
begin with and any order of the models:

| theorem | states |
| --- | --- |
| `MigrationTypes` | `Spec => []TypeOK`; every table has a definition that is one |
| `MigrationComplete` | a call without an error leaves what its models declare |
| `MigrationKeepsData` | no statement of `AutoMigrate`'s loses a table, a column or rows |

`Complete` says nothing of a call that still runs, so the invariant has to: in
`Ahead`, of a model that is behind it all is there (`Made`), of the one it is at
each declared part is there, or left to look at, or a statement decided on will
bring it (`Underway`), or the table is still to be created (`InCreation`).
What makes this hold is spread over the code of a call.  `ColumnTypes` are read
once for a table and used for all its columns, while the call itself and others
change it: `SeenStill` says that what was read to be there is there, as no
statement takes away a column or a declared constraint.  A unique constraint
that is missing is created only with a column that was read, which is why
`Complete` excepts the columns just added; `SeenStill` traces each one that was not
read to the statement that adds it, and that needs the order of the loops
(`InOrder`).  With SQLite `recreateTable` swaps a definition in that was read
before and has no indexes: it loses none that counts since indexes come last
(`IndexesLast`), and overwrites nobody's work since no two calls run at once
(`Single`, and `Sound` for the definition).  `HasIndex` and `MigrateColumnUnique`
go by the names of indexes: `Named` says that one by a declared name is the
declared one.

The proof goes by statements rather than by drivers.  `RunEffect` says what each
statement does to the one table it is about, `DecideStatements` which statements
the drivers decide on and what they bring, for each column, constraint and
index, and `WorkOnItems` what there is to look at and in which order.  From these
there is one lemma for each action, and `OthersKept` for the callers that do not
move.  Assumptions: those of `Relations`, `Drivers` and `Migration`.  The ones that
say something: models and columns are finitely many, a join table has the columns
that `buildMany2ManyRelation` makes for it, foreign keys of a table are named
differently (`RelationshipFKName` takes the name of the relation, of which a
schema has one by each name) and so are its indexes, and an index that is there
at first by the name of a declared one is that index, which `AutoMigrate` takes for
granted when it asks `HasIndex` alone.

`RecordsProofs` proves for any conditions, rows, words, numbers of handles, calls
and statements, for a program that has none of the `Habits`:

| theorem | states |
| --- | --- |
| `RecordsTypes` | `Spec => []TypeOK`; nothing reached is gone, no batch is empty |
| `RecordsFaithful` | every statement hits the rows that its own chain's words ask for |
| `RecordsBatchesExact` | `FindInBatches` hands out rows in order, none twice, all that are due |
| `RecordsReported` | what `Save`, `CreateInBatches` and `FirstOrCreate` report is in the table |

What a statement selects is a matter of text written from arrays that others
may hold; what it should select, one of the words said on a handle.  The invariant
ties them by `Tell`: the conditions of a statement select a row just when its
contents are in `Means` of the words.  It has four parts.  `Memory` says that
arrays refer to one another without a circle (`Acyclic`), that an Or has one
expression and that no array begins with one; `Handles`, that each handle's
statement `Says` its words, scopes and flags, and that a statement which will be
written to belongs to one handle (`Apart`); `TableInv`, that identifiers are given
out once; `JobOk`, how far a call has come.  That no array begins with Or is why
sharing is harmless: `Build` and `BuildCondition`, which write into arrays that
others hold, then find nothing to swap, and every other operation makes new arrays
(`Extends`).  It is also the point at which the habits come in: `leading_or` breaks
it, `or_after_query` breaks `Says` as the wrapped conditions are no longer the last,
and a run with either finds `Faithful` violated.

That the row `FirstOrCreate` reports is found again needs one more invariant beside
that one, `PInv`, of which expressions there are.  `FirstOrCreate` makes a row from
the Eqs of the chain and from `Attrs` and `Assign`, and the conditions select it as
no handle that calls it has said Not: then a row with one more column is still
selected, and one that has the columns of all Eqs is.

The lemmas go from the inside out.  As arrays do not nest in a circle there is
one answer for each group (`GroupsAre`, by induction on the rank of an array),
the same in every memory that `Extends` this one; what `AddWhere`, `AddConds`,
`BuildGroup`, `ExecuteScopes`, `SoftDeleteQuery` and `Built` do to what a
statement tells is one lemma each; then one for each chain method, finisher and
step of a call.  `BatchesExact` rests on what the rows after the last key are
while others insert and delete (`BatchOk`), and on the sizes of batches, whose
division and remainder have lemmas of their own (`Sizes`).  Assumptions: `Habits
= {}`, and those of `Records`: finitely many rows with different identifiers, at least
one row to a batch.

Only model-checked: liveness (`EventuallyExpired`, `CallsReturn`,
`EvictedGetClosed`), as fairness is beyond the prover; of `SaveGraph`,
`LinksSound` and `OnlyFaultsFail`, for which a theorem would need to say what
graphs it is about, and `KeysReturned`, which fails in some (`sg_keys`); of
`Migration`, `Converges`, which rests on the depth-first sort of `Reorder`, and
`OneParent`, which fails for models that declare two relations with one key.

## Where code and documentation disagree

Shown by a run:

* `ps_pool`: `New` (`stmt_store.go:173`) waits for a connection while others
  wait for its statement.  A transaction that holds the last connection and
  wants the same query waits for ever, although the mutex is released early "to
  prevent deadlocks" (`stmt_store.go:166`).  With one more connection than
  there are transactions every call returns (`ps_live`).
* `sg_keys`: with ON CONFLICT DO NOTHING, `Scan` skips a value that has a primary
  key but not the row RETURNING yields for it (`scan.go:310-317`).  Of two new
  objects of a many-to-many, the first with a key chosen by the caller, the
  second is given the key of the first, and the join table misses its row,
  although `Create` returns "the inserted data's primary key in value's id"
  (`finisher_api.go:18`).

Met while modelling and built into the models as the code has them.  Those with
"check" are found by TLC with the change that is named.

Caches and transactions:

* `Get` misses an entry whose ttl is over; `New` then overwrites it with `Add`,
  which calls no `onEvict`, and the old handle is never closed
  (`stmt_store.go:165` against 91-93; check: `MayExpire = TRUE` in
  `MCPreparedStmtLive.cfg`, `NoLeak`).
* When `SavePoint` of a nested call fails and the dialect reports it, the error
  stays on the outer handle: if the outer block ignores it and returns nil,
  `Commit` succeeds and `Transaction` returns that error all the same, although
  "if an error occurs they are rolled back" (`finisher_api.go:619`; check: the
  invariant `AllOrNothing` in `MCTransaction.cfg`).
* `finisher_api.go:642`: called on a handle with an error, `Transaction` begins
  a transaction and returns without ending it.
* `lru.go:50` says "every 1/100th of ttl value"; the sleeps of the cleaner add
  up, and only `WithinTwoLifetimes` holds.  `lru.go:40` allows up to 256
  buckets; the `uint8` sum in `addToBucket` is right up to 128 only.
* `stmt_store.go:177` deletes by key: a failed preparation may remove another
  goroutine's valid statement, which costs a second preparation.
* `prepare_stmt.go:56`: `Close` leaves entries that are due but not yet cleaned.
* `schema.go:335` deletes by type: a failed schema with a special table name
  stays cached, and one of its type goes instead.  A schema in a circle with an
  invalid model may refer to a failed schema and be good or failed itself
  depending on which model was parsed first.
* `gorm.go:289`: two first sessions with `PrepareStmt` may each make a store.

Saving:

* The visit map (`associations.go:380`) marks objects before they are saved and
  never the outermost one: an object that a second has-one or has-many reaches
  gets its foreign key in memory only, and an object that belongs to one which
  refers back to it is inserted on the way, so that its own INSERT fails.
* Several pointers to one new object in a slice are inserted as several rows:
  only primary keys are compared (`associations.go:76`).
* A panic of a hook leaves the default transaction open (`transaction.go:20`).
* After a rollback objects keep their keys; if the database gives the ids out
  again, a second `Create` may link to the rows of others.

Chains and finishers (check: add the name in parentheses to `Habits` in
`MCRecords.cfg`):

* A chain of a model with soft deletion that was already executed once has its
  conditions wrapped and its "not deleted" condition added; an `Or` said
  afterwards stands beside both and returns deleted rows (`or_after_query`).
* `Where(A).Or(B)` on a value with a primary key becomes `A OR (B AND key)`, so
  that an update or delete hits other rows than the value's (`or_with_key`);
  with `FindInBatches` the condition on the last key is lost likewise, rows come
  twice and the call may never end (`or_in_batches`, `finisher_api.go:174`).
* A chain that begins with `Or`, used as a group, is not grouped as said
  (`leading_or`); scopes on a `Session` handle used as a group are lost
  (`scoped_group`).
* `Save` on a chain with conditions overwrites the row that they exclude
  (`save_with_words`), and one without revives a soft-deleted row.
* `FirstOrCreate` with `Not` creates a row that it does not find again
  (`conds_not_maps`).
* `Build` and `BuildCondition` write into arrays that handles of one `Session`
  share, without synchronisation.  An `Order` of the user's makes `FindInBatches`
  lose rows.  Two callers of `FirstOrCreate` may both create.  After a rollback
  `CreateInBatches` still reports rows.

Association mode:

* An unscoped `Replace` of a belongs-to by the same target deletes the target
  that is still referred to (`association.go:80-93`, 120-122); an unscoped
  `Delete` of a belongs-to deletes the owner's current target whatever was passed
  (235-246), and its result overwrites the error of the UPDATE before (244).
* An unscoped `Clear` of a belongs-to on a handle of `db.Model` always returns an
  error and keeps the target, with the foreign key set to NULL: its DELETE
  reuses table and WHERE of the UPDATE (118-121).  On a handle of a `Session`
  the DELETE works, and its result overwrites an error of the UPDATE.
* `Replace` of a many-to-many over a slice of owners keeps a link of one owner if
  its target is among the new ones of another (186-191).  Its two steps are not
  one transaction.
* `Append` saves the whole field in memory again, and with it links that others
  have removed meanwhile; a value that stands in another listed owner's field is
  taken back when that owner is saved.
* In a slice of owners a later one's success hides an earlier one's error for
  has-one and belongs-to.
* `Preload` leaves the field of a struct whose foreign key became NULL as it was
  (`preload.go:264`), and its queries do not see one snapshot.

Migration:

* Postgres `CreateTable` drops NOT NULL and DEFAULT (`driver/postgres/migrator.go:237`),
  so that the next `AutoMigrate` alters what was just created, although
  `gorm/tests/migrate_test.go:1388-1417` and 1502-1510 expect no ALTER (check:
  the invariant `SecondCallQuiet` in `MCMigration.cfg`); unsigned and sized
  columns are altered each time.
* `MigrateColumn` lets the comparison of defaults overwrite a `true` that the
  one of NOT NULL has found (`migrator.go:559-561`).
* A UNIQUE column that `AutoMigrate` adds gets no constraint in that call.
* SQL Server: `HasConstraint` looks among foreign keys only, so that the second
  `AutoMigrate` of a model with a check fails; defaults are never altered.
* SQLite: `recreateTable` loses all indexes of the table and reads its definition
  before its transaction; not every caller turns the foreign keys off.
* MySQL: `DropTable` returns on an error without turning the foreign key checks
  on again; `MigrateColumnUnique` creates a unique index without asking whether
  it is there.
* `ReorderModels` in a process that has parsed nothing yet knows nothing of
  relations that lead to a model, so that a first call may create a child before
  its owner and fail; join tables of models that it adds itself are not created;
  what its deferred functions append to `dep.Depends` is lost; without `autoAdd`
  it does not sort at all.

## Not modelled

Field parsing, naming, row scanning (apart from the matching of rows with
values), the clauses that only become text, logging, data types and utilities
are conversions of one value or text at a time, without interleavings or failure
protocols, best tested directly.  `compile` and `sortCallbacks` run at start-up
over a fixed list of callbacks; `SaveGraph` uses the order they arrive at.  Of
`database/sql` and the databases only the behaviour the code depends on is
modelled, marked external.

Left out of the parts that are modelled: contexts and their cancellation;
transactions begun and ended by hand; `Joins`, `Select`, `Omit` and `Order` as
words of a chain; hooks that issue statements of their own; composite keys;
conditions, nesting and joins of preloads; renames and views in the migrator.

## Plan

Done, in this order: `Lru` with `ExpirableCache`, `PreparedStmt`, `Transaction`
with `NestedTx`, `SchemaCache`, `SaveGraph`; the theorems about `Lru`;
`Relations`, `Drivers` and `Migration`; `Chains` and `Records`; `Association`;
the theorems about `SchemaCache`, `Transaction` and `PreparedStmt`; those about
`Association` and `SaveGraph`, the bound in time of `Lru`, and that `Transaction`
implements `NestedTx`; those about `Migration`, for which `ReorderModels`, which is
recursive, became a module of its own, and those about `Records`, for which its
recursive operators became functions and sets.

Left, in order of worth:

1. `Select` and `Omit` of associations in `SaveGraph`, with updates, and nested
   preloads in `Association`.
2. `sortCallbacks` as a function, checked against the constraints its callers give.

## Running the checks

`tlc -config MCLru.cfg MCLru` and likewise for the other runs in `PROJECT.json`;
`tlapm LruProofs.tla`, and likewise for `PreparedStmtProofs`, `TransactionProofs`,
`SchemaCacheProofs`, `SaveGraphProofs`, `AssociationProofs`, `MigrationProofs` and
`RecordsProofs`, which take between one and five minutes each, the last one
fifteen.  The longest run, `assoc_safety`, takes two and a half.
