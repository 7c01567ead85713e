---------------------------- MODULE PreparedStmt ----------------------------
(***************************************************************************)
(* The cache of prepared statements shared by all goroutines of a DB:      *)
(* gorm/prepare_stmt.go over gorm/internal/stmt_store/stmt_store.go.       *)
(*                                                                         *)
(* Goroutines execute queries directly (DbProcs, PreparedStmtDB) or inside *)
(* transactions (TxProcs, PreparedStmtTX); Closers call Close.  All share  *)
(* one RWMutex, one statement store and one pool of connections.  The      *)
(* statement store is the cache of ExpirableCache, with the passing of     *)
(* time reduced to the set of entries whose ttl is over.                   *)
(*                                                                         *)
(* database/sql is external: a pool of MaxConns connections, of which a    *)
(* transaction holds one from begin to end; prepared handles that may be   *)
(* closed while others hold them; Commit and Rollback close what the       *)
(* transaction prepared.                                                   *)
(***************************************************************************)
EXTENDS Integers, FiniteSets, Recency

CONSTANTS
    DbProcs, TxProcs, Closers,
    Queries,
    MaxSize,     \* PrepareStmtMaxSize; 0 when unlimited
    MaxConns,    \* connections of the sql.DB pool
    MayExpire,   \* TRUE: the ttl of an entry may run out
    MayFail,     \* TRUE: preparing or executing may fail
    StmtIds,     \* bound: statement objects that may exist at a time
    None

ASSUME ProcsAssumption ==
    /\ DbProcs \cap TxProcs = {} /\ DbProcs \cap Closers = {}
    /\ TxProcs \cap Closers = {}
    /\ None \notin DbProcs \cup TxProcs \cup Closers \cup Queries \cup StmtIds
ASSUME BoundsAssumption ==
    /\ MaxSize \in Nat /\ MaxConns \in Nat \ {0}
    /\ MayExpire \in BOOLEAN /\ MayFail \in BOOLEAN
    /\ IsFiniteSet(Queries) /\ StmtIds \subseteq Nat

Procs == DbProcs \cup TxProcs \cup Closers

VARIABLES
    cached,    \* Stmts: query -> the id of its *Stmt
    order,     \* the recency order of Stmts
    due,       \* the queries whose entry has outlived its ttl
    stmts,     \* id -> what the Stmt object holds
    closing,   \* ids for which onEvicted has started a goroutine v.Close()
    readers,   \* goroutines that hold Mux.RLock
    queued,    \* goroutines that called RLock while a writer was there
    writer,    \* the goroutine that is in Lock, or None
    owned,     \* whether writer has the lock (the readers before it are gone)
    conns,     \* connections not in use
    pc,        \* where each goroutine is
    query,     \* the query of its current call
    ref        \* the *Stmt its current call has got hold of, or None

vars == <<cached, order, due, stmts, closing, readers, queued, writer, owned,
          conns, pc, query, ref>>
store == <<cached, order, due, closing>>
mux   == <<readers, queued, writer, owned>>

Live == DOMAIN cached
CachedIds == {cached[q] : q \in Live}

Unused == [key |-> None, transaction |-> FALSE, owner |-> None,
           prepared |-> FALSE, err |-> FALSE, handle |-> "nil"]

Init ==
    /\ cached = << >> /\ order = {} /\ due = {} /\ closing = {}
    /\ stmts = [i \in StmtIds |-> Unused]
    /\ readers = {} /\ queued = {} /\ writer = None /\ owned = FALSE
    /\ conns = MaxConns
    /\ pc = [p \in Procs |-> "idle"]
    /\ query = [p \in Procs |-> None]
    /\ ref = [p \in Procs |-> None]

-----------------------------------------------------------------------------
(* The store.                                                              *)

(* lru.Get: an entry that is due is not found.                             *)
Hit(q) == q \in Live \ due

(* Mutant: the evicted statement is dropped, but not closed.               *)
DiscardUnclosed(S) ==
    /\ cached' = [q \in Live \ S |-> cached[q]]
    /\ order' = Without(order, S)
    /\ due' = due \ S
    /\ UNCHANGED closing

(* lru.Remove and onEvicted: the value is closed by a goroutine of its own.*)
Discard(S) ==
    /\ cached' = [q \in Live \ S |-> cached[q]]
    /\ order' = Without(order, S)
    /\ due' = due \ S
    /\ closing' = closing \cup {cached[q] : q \in S \cap Live}

(* lru.Add of statement i: a present key gets the new value, which drops   *)
(* the old one without onEvicted; a new key may push out the oldest.       *)
Set(q, i) ==
    LET all   == Live \cup {q}
        fresh == Promote(order, q, all)
        full  == MaxSize > 0 /\ Cardinality(all) > MaxSize
    IN  \E out \in SUBSET Live :
          /\ Cardinality(out) = IF full THEN 1 ELSE 0
          /\ IsOldest(out, fresh, all)
          /\ cached' = [x \in all \ out |-> IF x = q THEN i ELSE cached[x]]
          /\ order' = Without(fresh, out)
          /\ due' = due \ (out \cup {q})
          /\ closing' = closing \cup {cached[x] : x \in out}

(* Statement objects nothing refers to any more.                           *)
Garbage ==
    {i \in StmtIds : /\ i \notin CachedIds \cup closing
                     /\ \A p \in Procs : ref[p] # i
                     /\ stmts[i].handle # "open"}

-----------------------------------------------------------------------------
(* sync.RWMutex.                                                           *)

Goto(p, label) == pc' = [pc EXCEPT ![p] = label]

RLock(p) ==
    /\ IF writer = None THEN readers' = readers \cup {p} /\ UNCHANGED queued
                        ELSE queued' = queued \cup {p} /\ UNCHANGED readers
    /\ UNCHANGED <<writer, owned>>

RUnlock(p) ==
    /\ readers' = readers \ {p}
    /\ UNCHANGED <<queued, writer, owned>>

(* Unlock lets in the readers that queued up before any other writer.      *)
Unlock ==
    /\ readers' = queued
    /\ queued' = {}
    /\ writer' = None
    /\ owned' = FALSE

(* Lock first keeps new readers out ...                                    *)
Lock(p) ==
    /\ pc[p] = "lock"
    /\ writer = None
    /\ writer' = p
    /\ Goto(p, "drain")
    /\ UNCHANGED <<store, stmts, readers, queued, owned, conns, query, ref>>

(* ... and then waits for those that are inside.                           *)
Drain(p) ==
    /\ pc[p] = "drain"
    /\ readers = {}
    /\ owned' = TRUE
    /\ Goto(p, IF p \in Closers THEN "close" ELSE "get2")
    /\ UNCHANGED <<store, stmts, readers, queued, writer, conns, query, ref>>

-----------------------------------------------------------------------------
(* A call of ExecContext, QueryContext or QueryRowContext.                 *)

Rest(p) == IF p \in TxProcs THEN "intx" ELSE "idle"

(* The bound: every call under way may still need a statement object.      *)
Calling == {p \in Procs : pc[p] \notin {"idle", "intx"}}

Call(p, q) ==
    /\ p \in DbProcs \cup TxProcs
    /\ pc[p] = Rest(p)
    /\ Cardinality(Garbage) > Cardinality(Calling)
    /\ query' = [query EXCEPT ![p] = q]
    /\ RLock(p)
    /\ Goto(p, "get1")
    /\ UNCHANGED <<store, stmts, conns, ref>>

Return(p) ==
    /\ Goto(p, Rest(p))
    /\ query' = [query EXCEPT ![p] = None]
    /\ ref' = [ref EXCEPT ![p] = None]

(* prepare: the first Get, under the read lock.  It returns a present      *)
(* statement only when that is prepared.                                   *)
Get1(p) ==
    /\ pc[p] = "get1" /\ p \in readers
    /\ IF Hit(query[p])
       THEN /\ order' = Promote(order, query[p], Live)
            /\ ref' = [ref EXCEPT ![p] = cached[query[p]]]
            /\ Goto(p, "wait1")
            /\ UNCHANGED mux
       ELSE /\ Goto(p, "lock")
            /\ RUnlock(p)
            /\ UNCHANGED <<order, ref>>
    /\ UNCHANGED <<cached, due, closing, stmts, conns, query>>

(* A statement of a transaction is of no use outside of one.               *)
Fits(p) == ~ stmts[ref[p]].transaction \/ p \in TxProcs

Wait1(p) ==
    /\ pc[p] = "wait1"
    /\ stmts[ref[p]].prepared
    /\ RUnlock(p)
    /\ \/ /\ Fits(p) /\ ~ stmts[ref[p]].err
          /\ Goto(p, "use")
          /\ UNCHANGED <<query, ref>>
       \/ /\ Fits(p) /\ stmts[ref[p]].err
          /\ Return(p)
       \/ /\ ~ Fits(p)
          /\ Goto(p, "lock")
          /\ ref' = [ref EXCEPT ![p] = None]
          /\ UNCHANGED query
    /\ UNCHANGED <<store, stmts, conns>>

(* The second Get, under the write lock.                                   *)
Get2(p) ==
    /\ pc[p] = "get2"
    /\ IF Hit(query[p])
       THEN /\ order' = Promote(order, query[p], Live)
            /\ ref' = [ref EXCEPT ![p] = cached[query[p]]]
            /\ Goto(p, "wait2")
       ELSE /\ Goto(p, "new")
            /\ UNCHANGED <<order, ref>>
    /\ UNCHANGED <<cached, due, closing, stmts, mux, conns, query>>

Wait2(p) ==
    /\ pc[p] = "wait2"
    /\ stmts[ref[p]].prepared
    /\ \/ /\ Fits(p) /\ ~ stmts[ref[p]].err
          /\ Unlock
          /\ Goto(p, "use")
          /\ UNCHANGED <<query, ref>>
       \/ /\ Fits(p) /\ stmts[ref[p]].err
          /\ Unlock
          /\ Return(p)
       \/ /\ ~ Fits(p)
          /\ Goto(p, "new")
          /\ ref' = [ref EXCEPT ![p] = None]
          /\ UNCHANGED <<mux, query>>
    /\ UNCHANGED <<store, stmts, conns>>

(* New: a fresh Stmt goes into the store before it is prepared, and the    *)
(* mutex is released.                                                      *)
New(p) ==
    /\ pc[p] = "new"
    /\ \E i \in Garbage :
           /\ \A j \in Garbage : i <= j
           /\ stmts' = [stmts EXCEPT ![i] =
                          [Unused EXCEPT !.key = query[p], !.owner = p,
                                         !.transaction = (p \in TxProcs)]]
           /\ ref' = [ref EXCEPT ![p] = i]
           /\ Set(query[p], i)
    /\ Unlock
    /\ Goto(p, "prep")
    /\ UNCHANGED <<conns, query>>

(* A goroutine prepares on its transaction's connection or on a free one.  *)
HasConn(p) == p \in TxProcs \/ conns > 0

(* Mutant: prepared is not closed after a successful preparation.          *)
PrepareUnpublished(p) ==
    /\ pc[p] = "prep"
    /\ HasConn(p)
    /\ stmts' = [stmts EXCEPT ![ref[p]] = [@ EXCEPT !.handle = "open"]]
    /\ Goto(p, "use")
    /\ UNCHANGED <<store, mux, conns, query, ref>>

(* conn.PrepareContext: outside of a transaction it needs a connection,    *)
(* which it gives back at its end.  A successful New publishes the handle. *)
Prepare(p) ==
    /\ pc[p] = "prep"
    /\ HasConn(p)
    /\ stmts' = [stmts EXCEPT ![ref[p]] =
                   [@ EXCEPT !.handle = "open", !.prepared = TRUE]]
    /\ Goto(p, "use")
    /\ UNCHANGED <<store, mux, conns, query, ref>>

(* Mutant: prepared is closed before the entry is deleted.                 *)
PrepareFailsPublished(p) ==
    /\ pc[p] = "prep"
    /\ MayFail
    /\ HasConn(p)
    /\ stmts' = [stmts EXCEPT ![ref[p]] = [@ EXCEPT !.err = TRUE, !.prepared = TRUE]]
    /\ Goto(p, "forget")
    /\ UNCHANGED <<store, mux, conns, query, ref>>

PrepareFails(p) ==
    /\ pc[p] = "prep"
    /\ MayFail
    /\ HasConn(p)
    /\ stmts' = [stmts EXCEPT ![ref[p]] = [@ EXCEPT !.err = TRUE]]
    /\ Goto(p, "forget")
    /\ UNCHANGED <<store, mux, conns, query, ref>>

(* s.Delete(key), with no lock but that of the lru ...                     *)
Forget(p) ==
    /\ pc[p] = "forget"
    /\ Discard({query[p]})
    /\ Goto(p, "publish")
    /\ UNCHANGED <<stmts, mux, conns, query, ref>>

(* Mutant: prepared stays open after an error.                             *)
PublishNot(p) ==
    /\ pc[p] = "publish"
    /\ Return(p)
    /\ UNCHANGED <<store, stmts, mux, conns>>

(* ... and the deferred close(prepared).                                   *)
Publish(p) ==
    /\ pc[p] = "publish"
    /\ stmts' = [stmts EXCEPT ![ref[p]] = [@ EXCEPT !.prepared = TRUE]]
    /\ Return(p)
    /\ UNCHANGED <<store, mux, conns>>

(* stmt.ExecContext on a handle that was closed meanwhile returns "sql:    *)
(* statement is closed"; otherwise the handle stays open until it is done. *)
Use(p) ==
    /\ pc[p] = "use"
    /\ IF p \in DbProcs /\ stmts[ref[p]].handle # "open"
       THEN Return(p)
       ELSE Goto(p, "exec") /\ UNCHANGED <<query, ref>>
    /\ UNCHANGED <<store, stmts, mux, conns>>

(* The execution, on a free connection or on the transaction's own (where  *)
(* StmtContext prepares the query again if it cannot use the handle).      *)
Exec(p) ==
    /\ pc[p] = "exec"
    /\ HasConn(p)
    /\ Return(p)
    /\ UNCHANGED <<store, stmts, mux, conns>>

(* driver.ErrBadConn: the entry of the query is deleted.                   *)
ExecBadConn(p) ==
    /\ pc[p] = "exec"
    /\ MayFail
    /\ HasConn(p)
    /\ Discard({query[p]})
    /\ Return(p)
    /\ UNCHANGED <<stmts, mux, conns>>

-----------------------------------------------------------------------------
(* Transactions.                                                           *)

BeginTx(p) ==
    /\ p \in TxProcs /\ pc[p] = "idle"
    /\ conns > 0
    /\ conns' = conns - 1
    /\ Goto(p, "intx")
    /\ UNCHANGED <<store, stmts, mux, query, ref>>

(* Mutant: the transaction stays usable after its end.                     *)
EndTxAgain(p) ==
    /\ p \in TxProcs /\ pc[p] = "intx"
    /\ conns' = conns + 1
    /\ UNCHANGED <<store, stmts, mux, pc, query, ref>>

(* Commit or Rollback: database/sql closes what the transaction prepared.  *)
EndTx(p) ==
    /\ p \in TxProcs /\ pc[p] = "intx"
    /\ conns' = conns + 1
    /\ stmts' = [i \in StmtIds |->
                   IF stmts[i].owner = p /\ stmts[i].transaction
                      /\ stmts[i].handle = "open"
                   THEN [stmts[i] EXCEPT !.handle = "closed"] ELSE stmts[i]]
    /\ Goto(p, "idle")
    /\ UNCHANGED <<store, mux, query, ref>>

-----------------------------------------------------------------------------
(* Close, and the goroutines that run in the background.                   *)

CloseCall(p) ==
    /\ p \in Closers /\ pc[p] = "idle"
    /\ Goto(p, "lock")
    /\ UNCHANGED <<store, stmts, mux, conns, query, ref>>

(* Keys leaves out what is due, so Close leaves that in the store.         *)
CloseStore(p) ==
    /\ pc[p] = "close"
    /\ Discard(Live \ due)
    /\ Unlock
    /\ Goto(p, "idle")
    /\ UNCHANGED <<stmts, conns, query, ref>>

(* v.Close(): waits for the preparation, then for executions under way.    *)
CloseStmt(i) ==
    /\ i \in closing
    /\ stmts[i].prepared
    /\ \A p \in DbProcs : ~ (pc[p] = "exec" /\ ref[p] = i)
    /\ closing' = closing \ {i}
    /\ stmts' = [stmts EXCEPT ![i].handle = IF @ = "open" THEN "closed" ELSE @]
    /\ UNCHANGED <<cached, order, due, mux, conns, pc, query, ref>>

Age(q) ==
    /\ MayExpire
    /\ q \in Live \ due
    /\ due' = due \cup {q}
    /\ UNCHANGED <<cached, order, closing, stmts, mux, conns, pc, query, ref>>

(* Mutant: the entry is closed where it is.                                *)
CleanInPlace(q) ==
    /\ q \in due
    /\ closing' = closing \cup {cached[q]}
    /\ UNCHANGED <<cached, order, due, stmts, mux, conns, pc, query, ref>>

(* The cleanup goroutine of the lru.                                       *)
Clean(q) ==
    /\ q \in due
    /\ Discard({q})
    /\ UNCHANGED <<stmts, mux, conns, pc, query, ref>>

-----------------------------------------------------------------------------
Step(p) ==
    \/ Drain(p) \/ Get1(p) \/ Wait1(p) \/ Get2(p) \/ Wait2(p) \/ New(p)
    \/ Forget(p) \/ Publish(p) \/ Use(p) \/ CloseStore(p)
OnConn(p) == Prepare(p) \/ PrepareFails(p) \/ Exec(p) \/ ExecBadConn(p)

Next ==
    \/ \E p \in Procs, q \in Queries : Call(p, q)
    \/ \E p \in Procs : \/ Step(p) \/ Lock(p) \/ OnConn(p)
                        \/ BeginTx(p) \/ EndTx(p) \/ CloseCall(p)
    \/ \E i \in StmtIds : CloseStmt(i)
    \/ \E q \in Queries : Age(q) \/ Clean(q)

Spec == Init /\ [][Next]_vars

(* Goroutines that can go on do.  sync.Mutex and the pool's request queue  *)
(* starve nobody, so who waits for the mutex or for a connection gets it   *)
(* if it is free again and again.  Transactions end.                       *)
FairSpec ==
    /\ Spec
    /\ \A p \in Procs : WF_vars(Step(p)) /\ SF_vars(Lock(p)) /\ SF_vars(OnConn(p))
    /\ \A p \in TxProcs : SF_vars(EndTx(p))
    /\ \A i \in StmtIds : WF_vars(CloseStmt(i))
    /\ \A q \in Queries : WF_vars(Clean(q))

-----------------------------------------------------------------------------
(* The types of the variables.                                             *)
Labels == {"idle", "intx", "get1", "wait1", "lock", "drain", "get2", "wait2", "new",
           "prep", "forget", "publish", "use", "exec", "close"}

Stmt == [key : Queries \cup {None}, transaction : BOOLEAN, owner : Procs \cup {None},
         prepared : BOOLEAN, err : BOOLEAN, handle : {"nil", "open", "closed"}]

TypeOK ==
    /\ Live \subseteq Queries /\ cached \in [Live -> StmtIds]
    /\ order \subseteq Queries \X Queries
    /\ due \subseteq Live
    /\ stmts \in [StmtIds -> Stmt]
    /\ closing \subseteq StmtIds
    /\ readers \subseteq Procs /\ queued \subseteq Procs
    /\ writer \in Procs \cup {None} /\ owned \in BOOLEAN
    /\ conns \in 0 .. MaxConns
    /\ pc \in [Procs -> Labels]
    /\ query \in [Procs -> Queries \cup {None}]
    /\ ref \in [Procs -> StmtIds \cup {None}]

(* A goroutine that executes a statement holds one that was prepared       *)
(* without error, from exactly its query, and outside of a transaction     *)
(* never one that belongs to a transaction, although it read the entry     *)
(* before it waited for the preparation and the entry may be gone since    *)
(* (prepare_stmt.go:66-86, stmt_store.go:123-129).                         *)
Usable ==
    \A p \in Procs : pc[p] \in {"use", "exec"} =>
        /\ ref[p] # None
        /\ stmts[ref[p]].prepared /\ ~ stmts[ref[p]].err
        /\ stmts[ref[p]].handle # "nil"
        /\ stmts[ref[p]].key = query[p]
        /\ p \in DbProcs => ~ stmts[ref[p]].transaction

(* What a lookup can find has not failed, is not about to be closed and,   *)
(* unless a transaction that may be over prepared it, is open: a failed    *)
(* Stmt leaves the store before anybody can see its prepared channel       *)
(* closed, and an evicted one is closed only after it left                 *)
(* (stmt_store.go:107-111, 170-178).                                       *)
CachedUsable ==
    \A q \in Live :
        LET s == stmts[cached[q]]
        IN  /\ s.key = q
            /\ cached[q] \notin closing
            /\ s.prepared => ~ s.err /\ (s.transaction \/ s.handle = "open")

(* Nobody executes a statement of another query, one whose preparation     *)
(* failed or, outside of transactions, one of a transaction, and what the  *)
(* store holds is fit for the next caller (prepare_stmt.go:66-107,         *)
(* stmt_store.go:126-183).                                                 *)
HandlesUsable == Usable /\ CachedUsable

(* "if the evicted value is not nil, its Close method is called to release *)
(* associated resources" (stmt_store.go:91-93), "Statements older than     *)
(* this duration will be automatically removed" (prepare_stmt.go:26): a    *)
(* handle that was opened outside of transactions is either to be found in *)
(* the store or being closed.  It holds while no entry outlives its ttl;   *)
(* with expiry New replaces a due entry without closing it, and Close      *)
(* leaves such entries where they are.                                     *)
NoLeak ==
    \A i \in StmtIds :
        stmts[i].handle = "open" /\ ~ stmts[i].transaction =>
            i \in CachedIds \cup closing

(* Every call comes back: "locker: a synchronization lock that is unlocked *)
(* after initialization to avoid deadlocks" (stmt_store.go:43).  It holds  *)
(* when the pool has a connection more than there are transactions, and    *)
(* fails when transactions can use up the pool.                            *)
CallsReturn == \A p \in Procs : pc[p] = "get1" ~> pc[p] \in {"idle", "intx"}

(* A statement that was evicted is closed in the end, whoever was using or *)
(* preparing it (stmt_store.go:24-31, 107-111).                            *)
EvictedGetClosed == \A i \in StmtIds : i \in closing ~> i \notin closing
=============================================================================
