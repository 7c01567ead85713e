----------------------------- MODULE SaveGraph -----------------------------
(***************************************************************************)
(* DB.Create of an object with its associations: the create processor      *)
(* (gorm/callbacks/callbacks.go:39-46, transaction.go, create.go) and the  *)
(* calls of Create that the saving of associations makes on the way        *)
(* (gorm/callbacks/associations.go, the visit map of helper.go).           *)
(*                                                                         *)
(* One call runs at a time.  It saves what the object belongs to, inserts  *)
(* the object, then saves what refers to it, each by a nested Create in    *)
(* the transaction that the outermost one began.  Any hook or statement    *)
(* may fail; a caller whose Create failed may call it again with the same  *)
(* objects.  The database is external: rows, ids that count up, and join   *)
(* rows.  Select, Omit, batches and SkipHooks are left out.                *)
(***************************************************************************)
EXTENDS Integers, Sequences, SequencesExt, FiniteSets

CONSTANTS
    Objs,      \* objects in memory
    Cols,      \* columns that hold foreign keys
    Worlds,    \* sets of objects that refer to one another
    MaxCalls   \* bound: calls of Create with the same root

(* relations: in the order of Execute, those of kind "belongs" first.  col *)
(*   is a column of the object itself ("belongs"), of the objects it       *)
(*   refers to ("one", "many"), or names the join table ("m2m").           *)
(* keyed: objects that have a primary key, their place in the sequence;    *)
(* stored: those of them that have a row.                                  *)
(* transaction: SkipDefaultTransaction is not set, and Create is not       *)
(*   called in a transaction.                                              *)
(* full: FullSaveAssociations.                                             *)
(* reuses: the ids of rows that were rolled back are given out again.      *)
Kinds    == {"belongs", "one", "many", "m2m"}
Relation == [kind : Kinds, col : Cols, to : [Objs -> Seq(Objs)]]
World    == [root : Objs, relations : Seq(Relation),
             keyed : Seq(Objs), stored : SUBSET Objs,
             transaction : BOOLEAN, full : BOOLEAN, reuses : BOOLEAN]

ASSUME WorldsAssumption ==
    \A w \in Worlds :
        /\ w \in World /\ w.stored \subseteq ToSet(w.keyed)
        /\ \A i, j \in DOMAIN w.relations :
               i < j /\ w.relations[j].kind = "belongs" => w.relations[i].kind = "belongs"
ASSUME CallsAssumption == MaxCalls \in Nat /\ IsFiniteSet(Objs)

VARIABLES
    world,      \* a member of Worlds
    pk, fk,     \* primary and foreign keys of the objects in memory
    rows,       \* id -> the object it was inserted from and its columns
    joins,      \* rows of join tables
    nextId,     \* the next id the database gives out
    open,       \* the transaction of the outermost call is open
    saved,      \* what the database held when the call began
    frames,     \* the calls of Create that run, outermost first
    visited,    \* visitMap
    outcome,    \* of the last call that has returned: "none", "ok", "error", "panic"
    calls,      \* how many calls have begun
    faults,     \* ghost: a hook or a statement has failed by itself in this call
    linked      \* ghost: <<r, o>> whose associations were not skipped as visited

memory   == <<pk, fk>>
database == <<rows, joins, nextId>>
vars     == <<world, memory, database, open, saved, frames, visited, outcome, calls,
              faults, linked>>

Rels   == world.relations
RelIds == DOMAIN Rels
Ids    == DOMAIN rows

(* conflict: the ON CONFLICT clause, with the columns DO UPDATE sets.      *)
(* at: the callback that is next; next: the relation that is next in it.   *)
Stages == {"begin", "before", "saveBefore", "insert", "saveAfter", "join", "after", "end"}
Frame  == [values : Seq(Objs), conflict : {"error", "nothing", "update"},
           cols : SUBSET Cols, at : Stages, next : Nat, err : BOOLEAN]

Null == [c \in Cols |-> 0]

Init ==
    /\ world \in Worlds
    /\ pk = [o \in Objs |-> IF Contains(world.keyed, o)
                            THEN CHOOSE i \in DOMAIN world.keyed : world.keyed[i] = o
                            ELSE 0]
    /\ fk = [o \in Objs |-> Null]
    /\ rows = [i \in {j \in DOMAIN world.keyed : world.keyed[j] \in world.stored} |->
                   [obj |-> {world.keyed[i]}, cols |-> Null]]
    /\ joins = {} /\ nextId = Len(world.keyed) + 1
    /\ open = FALSE /\ saved = [rows |-> rows, joins |-> joins, nextId |-> nextId]
    /\ frames = <<>> /\ visited = {} /\ outcome = "none" /\ calls = 0
    /\ faults = FALSE /\ linked = {}

Top      == Last(frames)
At(a)    == frames # <<>> /\ Top.at = a
(* The callbacks look at the error of the statement before anything else,  *)
(* and so do those of the nested calls, to which it is handed on.          *)
Runs(a)  == At(a) /\ ~Top.err

GoTo(a)  == frames' = Front(frames) \o <<[Top EXCEPT !.at = a]>>
Fail     == frames' = Front(frames) \o <<[Top EXCEPT !.err = TRUE, !.at = "end"]>>
Advance  == frames' = Front(frames) \o <<[Top EXCEPT !.next = @ + 1]>>

(* A hook or a statement fails by itself.                                  *)
Fault == Fail /\ faults' = TRUE

-----------------------------------------------------------------------------
Entry(values, conflict, cols, at) ==
    [values |-> values, conflict |-> conflict, cols |-> cols, at |-> at,
     next |-> 1, err |-> FALSE]

Create ==
    /\ frames = <<>> /\ outcome \in {"none", "error"} /\ calls < MaxCalls
    /\ frames' = <<Entry(<<world.root>>, "error", {}, "begin")>>
    /\ saved' = [rows |-> rows, joins |-> joins, nextId |-> nextId]
    /\ visited' = {} /\ outcome' = "none" /\ calls' = calls + 1
    /\ faults' = FALSE /\ linked' = {}
    /\ UNCHANGED <<world, memory, database, open>>

(* Somebody else inserts a row after a call that failed.                   *)
Others ==
    /\ frames = <<>> /\ outcome = "error" /\ calls < MaxCalls
    /\ nextId \leq 2 * Cardinality(Objs)
    /\ rows' = [i \in Ids \cup {nextId} |->
                   IF i = nextId THEN [obj |-> {}, cols |-> Null] ELSE rows[i]]
    /\ nextId' = nextId + 1
    /\ saved' = [rows |-> rows', joins |-> joins, nextId |-> nextId']
    /\ UNCHANGED <<world, memory, joins, open, frames, visited, outcome, calls, faults,
                   linked>>

(* BeginTransaction: in a transaction Begin returns ErrInvalidTransaction, *)
(* which is ignored.                                                       *)
BeginTransaction ==
    /\ Runs("begin")
    /\ \/ open' = world.transaction /\ GoTo("before") /\ UNCHANGED faults
       \/ world.transaction /\ Fault /\ UNCHANGED open
    /\ UNCHANGED <<world, memory, database, saved, visited, outcome, calls, linked>>

(* BeforeSave and BeforeCreate, AfterCreate and AfterSave.                 *)
Hooks ==
    /\ \/ Runs("before") /\ GoTo("saveBefore") /\ UNCHANGED faults
       \/ Runs("after") /\ GoTo("end") /\ UNCHANGED faults
       \/ (Runs("before") \/ Runs("after")) /\ Fault
    /\ UNCHANGED <<world, memory, database, open, saved, visited, outcome, calls, linked>>

(* Nothing recovers from a panic of a hook.                                *)
Panic ==
    /\ Runs("before") \/ Runs("after")
    /\ frames' = <<>> /\ outcome' = "panic"
    /\ UNCHANGED <<world, memory, database, open, saved, visited, calls, faults, linked>>

-----------------------------------------------------------------------------
(* The associations.                                                       *)

Rel == Rels[Top.next]

(* SaveBeforeAssociations is for what the object belongs to, the rest is   *)
(* for SaveAfterAssociations.                                              *)
Before == Rel.kind = "belongs"

(* The objects that those to be saved refer to by a relation.              *)
Targets(r, values) == FlattenSeq([i \in DOMAIN values |-> Rels[r].to[values[i]]])

(* The k-th of some places in a sequence.                                  *)
Nth(places, k) == CHOOSE i \in places : Cardinality({j \in places : j \leq i}) = k

(* Of several with one primary key the first is saved; those without any   *)
(* are all saved.                                                          *)
Distinct(objs) ==
    LET first == {i \in DOMAIN objs :
                     pk[objs[i]] = 0 \/ \A j \in 1..(i - 1) : pk[objs[j]] # pk[objs[i]]}
    IN  [k \in 1..Cardinality(first) |-> objs[Nth(first, k)]]

(* Foreign keys of has-one and has-many relations are set in the objects   *)
(* that are about to be saved, those of belongs-to in the ones that refer. *)
Referenced(r, values) ==
    [o \in Objs |->
        LET owners == {v \in ToSet(values) : Contains(Rels[r].to[v], o)}
        IN  IF Rels[r].kind \in {"one", "many"} /\ owners # {}
            THEN [fk[o] EXCEPT ![Rels[r].col] =
                     pk[values[CHOOSE i \in DOMAIN values :
                          /\ values[i] \in owners
                          /\ \A j \in DOMAIN values : values[j] \in owners => j \leq i]]]
            ELSE fk[o]]

References(r, values) ==
    [o \in Objs |->
        IF o \in ToSet(values) /\ Rels[r].to[o] # <<>>
        THEN [fk[o] EXCEPT ![Rels[r].col] = pk[Last(Rels[r].to[o])]]
        ELSE fk[o]]

(* Mutants: no column is updated; there is no clause.                      *)
OnConflictNothing(r, values) == Entry(values, "nothing", {}, "before")
OnConflictError(r, values)   == Entry(values, "error", {}, "before")

(* onConflictOption.                                                       *)
OnConflict(r, values) ==
    IF world.full THEN Entry(values, "update", Cols, "before")
    ELSE IF Rels[r].kind \in {"one", "many"}
         THEN Entry(values, "update", {Rels[r].col}, "before")
         ELSE Entry(values, "nothing", {}, "before")

(* Mutant: the visit map is not looked at.                                 *)
SavedNever(objs) == FALSE

(* checkAssociationsSaved.                                                 *)
Saved(objs) == ToSet(objs) \subseteq visited

(* The next relation of the kinds that are saved before the object, or of  *)
(* those that are saved after it.                                          *)
Associations ==
    /\ Runs("saveBefore") \/ Runs("saveAfter")
    /\ Top.next \in RelIds
    /\ At("saveBefore") => Before
    /\ LET r    == Top.next
           objs == Targets(r, Top.values)
           todo == IF Rel.kind = "one" THEN objs ELSE Distinct(objs)
       IN  \/ /\ objs = <<>> /\ Advance
              /\ UNCHANGED <<fk, visited, linked>>
           \/ /\ objs # <<>> /\ Saved(todo)
              /\ fk' = IF Before THEN References(r, Top.values)
                       ELSE Referenced(r, Top.values)
              /\ IF Rel.kind = "m2m" THEN GoTo("join") ELSE Advance
              /\ UNCHANGED <<visited, linked>>
           \/ /\ objs # <<>> /\ ~Saved(todo)
              /\ visited' = visited \cup ToSet(todo)
              /\ linked' = linked \cup ({r} \X ToSet(Top.values))
              /\ fk' = Referenced(r, Top.values)
              /\ frames' = Append(frames, OnConflict(r, todo))
    /\ UNCHANGED <<world, pk, database, open, saved, outcome, calls, faults>>

(* There is none left.                                                     *)
AssociationsDone ==
    /\ \/ Runs("saveBefore") /\ ~(Top.next \in RelIds /\ Before) /\ GoTo("insert")
       \/ Runs("saveAfter") /\ Top.next \notin RelIds /\ GoTo("after")
    /\ UNCHANGED <<world, memory, database, open, saved, visited, outcome, calls, faults,
                   linked>>

(* The rows of the join table, with ON CONFLICT DO NOTHING.                *)
Join ==
    /\ Runs("join")
    /\ \/ /\ joins' = joins \cup
                 UNION {{<<Rel.col, pk[o], pk[to]>> : to \in ToSet(Rel.to[o])} :
                           o \in ToSet(Top.values)}
          /\ frames' = Front(frames) \o
                 <<[Top EXCEPT !.at = "saveAfter", !.next = @ + 1]>>
          /\ linked' = linked \cup ({Top.next} \X ToSet(Top.values))
          /\ UNCHANGED faults
       \/ Fault /\ UNCHANGED <<joins, linked>>
    /\ UNCHANGED <<world, memory, rows, nextId, open, saved, visited, outcome, calls>>

-----------------------------------------------------------------------------
(* The INSERT, one row for each value.  A value without a primary key gets *)
(* the next id that is free; one that has a row already is a conflict.     *)
(* The ids that RETURNING hands back are scanned into the values: with DO  *)
(* NOTHING one after the other into those that have none yet, otherwise    *)
(* each into the value at its place.                                       *)
Insert ==
    LET values   == Top.values
        fresh    == {i \in DOMAIN values : pk[values[i]] = 0}
        explicit == {pk[values[i]] : i \in DOMAIN values \ fresh}
        base     == CHOOSE n \in {nextId} \cup {m + 1 : m \in explicit} :
                        n \geq nextId /\ \A m \in explicit : m < n
        id       == [i \in DOMAIN values |->
                        IF i \in fresh THEN base + Cardinality({j \in fresh : j < i})
                        ELSE pk[values[i]]]
        given    == ToSet(id)
        of(n)    == CHOOSE i \in DOMAIN values : id[i] = n
        returned == {i \in DOMAIN values : id[i] \notin Ids}
        first    == {i \in fresh : \A j \in fresh : values[j] = values[i] => i \leq j}
    IN  /\ Top.conflict = "error" => given \cap Ids = {}
        /\ rows' = [n \in Ids \cup given |->
                       IF n \notin Ids
                       THEN [obj |-> {values[of(n)]}, cols |-> fk[values[of(n)]]]
                       ELSE IF n \in given /\ Top.conflict = "update"
                       THEN [rows[n] EXCEPT !.cols =
                                [c \in Cols |-> IF c \in Top.cols
                                                THEN fk[values[of(n)]][c] ELSE @[c]]]
                       ELSE rows[n]]
        /\ pk' = [o \in Objs |->
                     IF \A i \in fresh : values[i] # o THEN pk[o]
                     ELSE IF Top.conflict = "nothing"
                     THEN LET me == CHOOSE i \in first : values[i] = o
                          IN  id[Nth(returned, Cardinality({i \in first : i \leq me}))]
                     ELSE id[CHOOSE i \in fresh :
                                 values[i] = o /\ \A j \in fresh : values[j] = o => j \leq i]]
        /\ nextId' = base + Cardinality(fresh)

InsertValues ==
    /\ Runs("insert")
    /\ \/ Insert /\ GoTo("saveAfter") /\ UNCHANGED faults
       \/ /\ Top.conflict = "error" /\ {pk[o] : o \in ToSet(Top.values)} \cap Ids # {}
          /\ Fail /\ UNCHANGED <<pk, rows, nextId, faults>>
       \/ Fault /\ UNCHANGED <<pk, rows, nextId>>
    /\ UNCHANGED <<world, fk, joins, open, saved, visited, outcome, calls, linked>>

-----------------------------------------------------------------------------
(* A nested call returns to saveAssociations, and its error becomes one of *)
(* the statement that called it.                                           *)
Resumed(caller) ==
    IF Rels[caller.next].kind = "m2m" THEN [caller EXCEPT !.at = "join"]
                                      ELSE [caller EXCEPT !.next = @ + 1]

(* Mutant: the error is dropped.                                           *)
FailedUnnoticed(caller) == Resumed(caller)

(* What the relations that are left would still do in memory is done anew  *)
(* when the caller tries again.                                            *)
Failed(caller) == [caller EXCEPT !.err = TRUE, !.at = "end"]

Return ==
    /\ At("end") /\ Len(frames) > 1
    /\ LET caller == frames[Len(frames) - 1]
       IN  /\ frames' = Append(Front(Front(frames)),
                               IF Top.err THEN Failed(caller) ELSE Resumed(caller))
           /\ fk' = IF ~Top.err /\ Rels[caller.next].kind = "belongs"
                    THEN References(caller.next, caller.values)
                    ELSE fk
    /\ UNCHANGED <<world, pk, database, open, saved, visited, outcome, calls, faults,
                   linked>>

Undo ==
    /\ rows' = saved.rows /\ joins' = saved.joins
    /\ nextId' = IF world.reuses THEN saved.nextId ELSE nextId

(* Mutant: the error is not looked at.                                     *)
CommitAnyway ==
    /\ At("end") /\ Len(frames) = 1
    /\ frames' = <<>> /\ open' = FALSE
    /\ outcome' = IF Top.err THEN "error" ELSE "ok"
    /\ UNCHANGED <<world, memory, database, saved, visited, calls, faults, linked>>

(* CommitOrRollbackTransaction; the COMMIT itself may fail.                *)
CommitOrRollback ==
    /\ At("end") /\ Len(frames) = 1
    /\ frames' = <<>> /\ open' = FALSE
    /\ \/ /\ ~Top.err /\ outcome' = "ok" /\ UNCHANGED <<database, faults>>
       \/ /\ ~Top.err /\ open
          /\ Undo /\ outcome' = "error" /\ faults' = TRUE
       \/ /\ Top.err /\ outcome' = "error" /\ UNCHANGED faults
          /\ IF open THEN Undo ELSE UNCHANGED database
    /\ UNCHANGED <<world, memory, saved, visited, calls, linked>>

Next ==
    \/ Create \/ Others \/ BeginTransaction \/ Hooks \/ Panic
    \/ Associations \/ AssociationsDone \/ Join \/ InsertValues
    \/ Return \/ CommitOrRollback

Spec == Init /\ [][Next]_vars

-----------------------------------------------------------------------------
(* Objects that refer to one another in a circle do not keep Create going  *)
(* for ever: every nested call is for an object not yet visited ("stop     *)
(* save association loop", associations.go:379).                           *)
NestingBound == Len(frames) \leq Cardinality(Objs) + 1

TypeOK ==
    /\ NestingBound
    /\ world \in Worlds
    /\ pk \in [Objs -> Nat] /\ fk \in [Objs -> [Cols -> Nat]]
    /\ \A n \in Ids : /\ n \in 1..(nextId - 1)
                      /\ rows[n] \in [obj : SUBSET Objs, cols : [Cols -> Nat]]
    /\ joins \subseteq Cols \X Nat \X Nat
    /\ open \in BOOLEAN /\ faults \in BOOLEAN
    /\ frames \in Seq(Frame)
    /\ \A i \in DOMAIN frames :
           /\ frames[i].err => frames[i].at = "end"
           /\ i < Len(frames) => /\ frames[i].at \in {"saveBefore", "saveAfter"}
                                /\ frames[i].next \in RelIds
    /\ visited \subseteq Objs
    /\ outcome \in {"none", "ok", "error", "panic"}
    /\ calls \in 0..MaxCalls
    /\ linked \subseteq RelIds \X Objs

Reached == visited \cup {world.root}
New(o)  == pk[o] \notin DOMAIN saved.rows

(* A call that fails, at whatever depth, leaves the database as it found   *)
(* it, and its transaction is over when it returns, unless a hook panicked *)
(* (transaction.go:7-32; saveAssociations hands on the errors,             *)
(* associations.go:431).                                                   *)
AllOrNothing ==
    outcome \in {"ok", "error"} =>
        /\ ~open
        /\ outcome = "error" /\ world.transaction => rows = saved.rows /\ joins = saved.joins

(* After a call that succeeds each object it has reached has the primary   *)
(* key of a row that was inserted from it ("returning the inserted data's  *)
(* primary key in value's id", finisher_api.go:18).  After a failure the   *)
(* objects keep the primary keys they were given, so this holds only if    *)
(* nobody else is given those ids.                                         *)
KeysReturned ==
    outcome = "ok" =>
        \A o \in Reached : pk[o] \in Ids /\ (world.reuses \/ rows[pk[o]].obj = {o})

(* What a call that succeeds has saved for a relation it has also linked:  *)
(* the foreign key in the row, or the row of the join table, has the       *)
(* primary key of the object in memory, whichever of the two came first.   *)
(* A belongs-to of an object that had a row is not written (DO NOTHING).   *)
LinksStored ==
    outcome = "ok" =>
        \A link \in linked : LET r == link[1]  o == link[2] IN
        \A to \in ToSet(Rels[r].to[o]) :
            CASE Rels[r].kind = "belongs" ->
                     (New(o) \/ world.full) => rows[pk[o]].cols[Rels[r].col] = pk[to]
              [] Rels[r].kind \in {"one", "many"} ->
                     rows[pk[to]].cols[Rels[r].col] = pk[o]
              [] OTHER -> <<Rels[r].col, pk[o], pk[to]>> \in joins

(* The objects a first object is saved after, directly or not.             *)
Refers(o) == UNION {ToSet(Rels[r].to[o]) : r \in RelIds}
Closure(S) ==
    LET grow[n \in 0..Cardinality(Objs)] ==
            IF n = 0 THEN S ELSE grow[n - 1] \cup UNION {Refers(o) : o \in grow[n - 1]}
    IN  grow[Cardinality(Objs)]
BelongsTo == UNION {ToSet(Rels[r].to[world.root]) :
                       r \in {q \in RelIds : Rels[q].kind = "belongs"}}

(* At no time does a row refer to one that is not there, or a join row to  *)
(* an object without an id: the order of the statements satisfies foreign  *)
(* key constraints (callbacks.go:41-43).  There is an exception: objects   *)
(* that others refer to more than once keep the foreign keys of a failed   *)
(* attempt, and the second one may insert them with keys rolled back.      *)
ReferredOnce ==
    \A o \in Objs : Cardinality({l \in RelIds \X Objs : Contains(Rels[l[1]].to[l[2]], o)})
                      \leq (IF o = world.root THEN 0 ELSE 1)

NoDangling ==
    calls \leq 1 \/ ReferredOnce =>
        /\ \A n \in Ids : \A c \in Cols : rows[n].cols[c] \in Ids \cup {0}
        /\ \A j \in joins : j[2] \in Ids /\ j[3] \in Ids

(* A Create that succeeded has written the foreign keys and join rows of   *)
(* every relation it followed, and none refers to a row that is not there  *)
(* (callbacks/associations.go:13-349).                                     *)
LinksSound == LinksStored /\ NoDangling

(* A call fails only if a hook or a statement fails by itself, also when   *)
(* it is the second attempt.  There is an exception: an object that is     *)
(* reached from one it belongs to is inserted on the way, and its own      *)
(* INSERT then finds that row.                                             *)
OnlyFaultsFail ==
    outcome = "error" /\ ~world.reuses =>
        \/ faults
        \/ ~New(world.root)
        \/ world.root \in Closure(BelongsTo)
=============================================================================
