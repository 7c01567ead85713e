---------------------------- MODULE Transaction ----------------------------
(***************************************************************************)
(* DB.Transaction (gorm/finisher_api.go:618-758): blocks of user code    *)
(* that run in a database transaction, nested through savepoints.          *)
(*                                                                         *)
(* The user's functions are the environment.  A block may write, handle or *)
(* ignore the error of a write or of an inner Transaction, open inner      *)
(* transactions, return nil, return an error, panic, and recover from the  *)
(* panic of an inner block.  Each block works with the handle it is given, *)
(* a session (clone > 0), so what it runs never leaves an error on that    *)
(* handle; what SavePoint, RollbackTo and Commit run does (AddError).      *)
(*                                                                         *)
(* The database is external: an open transaction with a stack of           *)
(* savepoints.  A statement that fails makes some databases (PostgreSQL)   *)
(* refuse every statement up to the end of the transaction or a rollback   *)
(* to a savepoint.                                                         *)
(***************************************************************************)
EXTENDS Integers, Sequences, SequencesExt, FiniteSets

CONSTANTS
    Settings,    \* the databases and configurations considered
    MaxDepth,    \* bound: blocks inside one another
    MaxBlocks,   \* bound: blocks in a run
    MaxWrites    \* bound: writes in a run

(* reports: SavePoint and RollbackTo of the dialect return the error of    *)
(*   the statement (driver/mysql); postgres, sqlite and sqlserver do not.  *)
(* aborts: a failed statement dooms the transaction (PostgreSQL).          *)
(* nested: DisableNestedTransaction is not set.                            *)
(* fails: SAVEPOINT and ROLLBACK TO may fail by themselves.                *)
(* stale: the handle of the outermost call has an error already.           *)
ASSUME SettingsAssumption ==
    Settings \subseteq [reports : BOOLEAN, aborts : BOOLEAN, nested : BOOLEAN,
                        fails : BOOLEAN, stale : BOOLEAN]
ASSUME BoundsAssumption ==
    MaxDepth \in Nat \ {0} /\ MaxBlocks \in Nat \ {0} /\ MaxWrites \in Nat

Blocks == 1..MaxBlocks
Writes == 1..MaxWrites
Kinds  == {"root", "savepoint", "plain"}

VARIABLES
    setting,      \* a member of Settings
    frames,       \* the calls of Transaction that run, outermost first
    panicking,    \* a panic is on its way through the calls
    open,         \* the database transaction is open
    pending,      \* what it has written
    savepoints,   \* its savepoints, oldest first
    aborted,      \* it refuses statements
    committed,    \* the writes the database has committed
    outcome,      \* what the outermost call has returned
    wrote,        \* ghost: write that succeeded -> the blocks it was in
    entered,      \* ghost: how many blocks have begun
    failed        \* ghost: the blocks with a savepoint, or the outermost
                  \* one, that returned an error or panicked

calls  == <<frames, panicking, outcome, entered, failed>>
db     == <<open, pending, savepoints, aborted, committed>>
vars   == <<setting, calls, db, wrote>>

Frame     == [kind : Kinds, block : Blocks, err : BOOLEAN]
Savepoint == [name : Blocks, writes : SUBSET Writes]

TypeOK ==
    /\ setting \in Settings
    /\ frames \in Seq(Frame) /\ Len(frames) \leq MaxDepth
    /\ panicking \in BOOLEAN /\ open \in BOOLEAN /\ aborted \in BOOLEAN
    /\ pending \in SUBSET Writes /\ committed \in SUBSET Writes
    /\ savepoints \in Seq(Savepoint)
    /\ outcome \in {"none", "ok", "error", "panic"}
    /\ entered \in 0..MaxBlocks /\ failed \in SUBSET Blocks
    /\ DOMAIN wrote \subseteq Writes
    /\ \A w \in DOMAIN wrote : wrote[w] \subseteq Blocks

Init ==
    /\ setting \in Settings
    /\ frames = <<>> /\ panicking = FALSE
    /\ open = FALSE /\ pending = {} /\ savepoints = <<>> /\ aborted = FALSE
    /\ committed = {} /\ outcome = "none"
    /\ wrote = [w \in {} |-> {}] /\ entered = 0 /\ failed = {}

Top       == Last(frames)
Running   == frames # <<>> /\ ~panicking    \* the innermost block is user code
Enclosing == {frames[i].block : i \in DOMAIN frames}

-----------------------------------------------------------------------------
(* The statements, as the database executes them.                          *)

EndDB ==
    /\ open' = FALSE /\ pending' = {} /\ savepoints' = <<>> /\ aborted' = FALSE

(* A statement fails and changes nothing, unless it dooms the transaction. *)
StatementFails ==
    /\ aborted' = (aborted \/ setting.aborts)
    /\ UNCHANGED <<open, pending, savepoints, committed>>

(* RawExec and the other callbacks run nothing on a handle with an error.  *)
Skipped == UNCHANGED db

SavepointSet(name) ==
    /\ ~aborted
    /\ savepoints' = Append(savepoints, [name |-> name, writes |-> pending])
    /\ UNCHANGED <<open, pending, aborted, committed>>

Named(name) == \E i \in DOMAIN savepoints : savepoints[i].name = name

(* The newest savepoint of that name stays; those set after it go.         *)
RolledBackTo(name) ==
    \E i \in DOMAIN savepoints :
        /\ savepoints[i].name = name
        /\ \A j \in DOMAIN savepoints : savepoints[j].name = name => j \leq i
        /\ pending' = savepoints[i].writes
        /\ savepoints' = SubSeq(savepoints, 1, i)
        /\ aborted' = FALSE
        /\ UNCHANGED <<open, committed>>

-----------------------------------------------------------------------------
(* Mutants: the random number of the name is a constant, within the range  *)
(* of the names or not.                                                    *)
SpNameShared(block) == 1
SpNameUnset(block)  == 0

(* Each call of Transaction names its savepoint by a random number.        *)
SpName(block) == block

(* SavePoint and RollbackTo on a handle that has an error or not; an error *)
(* of theirs stays on the handle (`left`) if the dialect returns it.       *)
SavePoint(handleErr, name, left) ==
    \/ ~handleErr /\ SavepointSet(name) /\ left = FALSE
    \/ /\ ~handleErr /\ (aborted \/ setting.fails)
       /\ StatementFails /\ left = setting.reports
    \/ handleErr /\ Skipped /\ left = TRUE

RollbackTo(handleErr, name, left) ==
    \/ ~handleErr /\ RolledBackTo(name) /\ left = FALSE
    \/ /\ ~handleErr /\ (~Named(name) \/ setting.fails)
       /\ StatementFails /\ left = setting.reports
    \/ handleErr /\ Skipped /\ left = TRUE

-----------------------------------------------------------------------------
(* The outermost call.  Begin hands the error of the handle on to the      *)
(* transaction's handle, and Transaction takes any error there for an      *)
(* error of Begin.                                                         *)
Begin ==
    /\ outcome = "none" /\ frames = <<>> /\ ~open
    /\ \/ /\ open' = TRUE
          /\ IF setting.stale
             THEN outcome' = "error" /\ UNCHANGED <<frames, entered>>
             ELSE /\ frames' = <<[kind |-> "root", block |-> 1, err |-> FALSE]>>
                  /\ entered' = 1 /\ UNCHANGED outcome
       \/ outcome' = "error" /\ UNCHANGED <<open, frames, entered>>
    /\ UNCHANGED <<setting, panicking, failed, pending, savepoints, aborted,
                   committed, wrote>>

(* A nested call: a savepoint on the handle of the block that calls, then  *)
(* a new session for the inner block.  If SavePoint leaves an error on the *)
(* handle the call returns it, and the block that called goes on with a    *)
(* handle that executes nothing.                                           *)
Enter(kind, err) ==
    /\ frames' = Append(frames, [kind |-> kind, block |-> entered + 1, err |-> err])
    /\ entered' = entered + 1

Nest ==
    /\ Running /\ Len(frames) < MaxDepth /\ entered < MaxBlocks
    /\ IF setting.nested
       THEN \E left \in BOOLEAN :
                /\ SavePoint(Top.err, SpName(entered + 1), left)
                /\ IF left
                   THEN /\ frames' = [frames EXCEPT ![Len(frames)].err = TRUE]
                        /\ UNCHANGED entered
                   ELSE Enter("savepoint", FALSE)
       ELSE Enter("plain", Top.err) /\ UNCHANGED db
    /\ UNCHANGED <<setting, panicking, outcome, failed, wrote>>

(* The block runs a statement that writes; the user looks at its error or  *)
(* does not.                                                               *)
Write ==
    /\ Running /\ Cardinality(DOMAIN wrote) < MaxWrites
    /\ \/ /\ ~Top.err /\ ~aborted
          /\ LET w == Cardinality(DOMAIN wrote) + 1
             IN  /\ pending' = pending \cup {w}
                 /\ wrote' = [x \in DOMAIN wrote \cup {w} |->
                                IF x = w THEN Enclosing ELSE wrote[x]]
          /\ UNCHANGED <<open, savepoints, aborted, committed>>
       \/ ~Top.err /\ StatementFails /\ UNCHANGED wrote
    /\ UNCHANGED <<setting, calls>>

-----------------------------------------------------------------------------
(* The block returns nil.  The outermost call commits; its own error is    *)
(* what Commit leaves on the handle, which may have been there before.  If *)
(* the COMMIT fails the deferred Rollback finds the transaction over.      *)
Commit ==
    /\ Running /\ Top.kind = "root"
    /\ \/ /\ ~aborted /\ committed' = committed \cup pending
          /\ outcome' = IF Top.err THEN "error" ELSE "ok"
       \/ outcome' = "error" /\ UNCHANGED committed
    /\ EndDB /\ frames' = <<>>
    /\ UNCHANGED <<setting, panicking, entered, failed, wrote>>

(* Mutant: an inner call commits as the outermost one does.                *)
ReturnCommitting ==
    /\ Running /\ Top.kind # "root"
    /\ frames' = Front(frames)
    /\ committed' = pending
    /\ UNCHANGED <<setting, panicking, outcome, entered, failed, open, pending,
                   savepoints, aborted, wrote>>

(* An inner call returns nil; its savepoint stays set.                     *)
Return ==
    /\ Running /\ Top.kind # "root"
    /\ frames' = Front(frames)
    /\ UNCHANGED <<setting, panicking, outcome, entered, failed, db, wrote>>

(* Mutant: the deferred function looks at `panicked` only.                 *)
RollbackIfPanicked(how) ==
    /\ Top.kind = "root"
    /\ IF how = "panic" THEN EndDB
       ELSE UNCHANGED <<open, pending, savepoints, aborted>>
    /\ frames' = <<>> /\ outcome' = how
    /\ failed' = failed \cup {Top.block} /\ UNCHANGED committed

(* The block returns an error or panics, and the deferred function undoes  *)
(* what the call has begun.                                                *)
Rollback(how) ==
    /\ Top.kind = "root"
    /\ EndDB /\ frames' = <<>> /\ outcome' = how
    /\ failed' = failed \cup {Top.block} /\ UNCHANGED committed

Undo ==
    /\ Top.kind = "savepoint"
    /\ \E left \in BOOLEAN :
           LET caller == Len(frames) - 1
           IN  /\ RollbackTo(frames[caller].err, SpName(Top.block), left)
               /\ frames' = [Front(frames) EXCEPT ![caller].err = @ \/ left]
    /\ failed' = failed \cup {Top.block} /\ UNCHANGED outcome

LeavePlain ==
    /\ Top.kind = "plain"
    /\ frames' = Front(frames)
    /\ UNCHANGED <<failed, outcome, db>>

Fail(how) ==
    /\ frames # <<>>
    /\ how = "error" => ~panicking
    /\ Rollback(how) \/ Undo \/ LeavePlain
    /\ panicking' = (how = "panic")
    /\ UNCHANGED <<setting, entered, wrote>>

(* The block recovers from the panic of the call it made.                  *)
Recover ==
    /\ panicking /\ frames # <<>>
    /\ panicking' = FALSE
    /\ UNCHANGED <<setting, frames, outcome, entered, failed, db, wrote>>

Next ==
    \/ Begin \/ Nest \/ Write \/ Commit \/ Return \/ Recover
    \/ Fail("error") \/ Fail("panic")

Spec == Init /\ [][Next]_vars

-----------------------------------------------------------------------------
(* The writes that count: those in no block that failed.                   *)
Kept == {w \in DOMAIN wrote : wrote[w] \cap failed = {}}

(* An inner block that fails takes with it its own writes and those of     *)
(* every block inside it, whether these succeeded or not, and nothing else *)
(* (finisher_api.go:632-637, RollbackTo of the deferred function).         *)
BlocksUndone == frames # <<>> /\ ~setting.fails => pending = Kept

(* "On success the changes are committed; if an error occurs they are      *)
(* rolled back" (finisher_api.go:618-620), whatever the inner blocks and   *)
(* the errors their callers ignored.                                       *)
AllOrNothing ==
    /\ outcome = "ok" => committed = Kept
    /\ outcome \in {"error", "panic"} => committed = {}

(* It holds where savepoints do not fail by themselves, and where a failed *)
(* statement dooms the transaction although the dialect swallows the error.*)
AllOrNothingIfReliable == (setting.fails => setting.aborts) => AllOrNothing

(* Even when SAVEPOINT or ROLLBACK TO fails, or the outermost handle comes *)
(* with an error, a call that returns nil has committed every write that   *)
(* counts, and a panic commits none.                                       *)
NothingLost ==
    /\ outcome = "ok" => Kept \subseteq committed
    /\ outcome = "panic" => committed = {}

(* What Transaction promises of the writes: a failed block takes exactly   *)
(* its own with it, the whole leaves all or nothing where savepoints are   *)
(* reliable, and elsewhere nothing that was reported committed is lost     *)
(* (finisher_api.go:621-661).                                              *)
Atomic == BlocksUndone /\ AllOrNothingIfReliable /\ NothingLost

(* However the outermost call ends, it leaves no transaction open, and so  *)
(* no connection of the pool taken (finisher_api.go:641-656), unless it    *)
(* was made on a handle with an error, which Transaction takes for one of  *)
(* Begin.                                                                  *)
NoOpenTx == outcome # "none" /\ ~setting.stale => ~open

(* The calls that run and the savepoints of the database are the stack of  *)
(* layers of NestedTx; a plain call is part of the layer around it, and    *)
(* only plain calls are inside of it.  Where SAVEPOINT failed unnoticed,   *)
(* in a transaction that refuses statements, the inner layer is empty.     *)
Levels == {i \in DOMAIN frames : frames[i].kind # "plain"}

Base(i) ==
    IF i = 1 THEN {}
    ELSE IF Named(frames[i].block)
         THEN LET s == CHOOSE j \in DOMAIN savepoints :
                           savepoints[j].name = frames[i].block
              IN  savepoints[s].writes
         ELSE pending

Layers ==
    [i \in Levels |-> (IF i + 1 \in Levels THEN Base(i + 1) ELSE pending) \ Base(i)]

(* Nothing is claimed of savepoints that fail by themselves.               *)
Abstract == INSTANCE NestedTx WITH
    layers    <- IF setting.fails THEN <<>> ELSE Layers,
    committed <- IF setting.fails THEN {} ELSE committed,
    outcome   <- IF setting.fails THEN "none" ELSE outcome

(* Nested calls behave as blocks within blocks: every step of Transaction  *)
(* is one of NestedTx or changes nothing there (finisher_api.go:621-661).  *)
ImplementsNestedTx == Abstract!Spec
=============================================================================
