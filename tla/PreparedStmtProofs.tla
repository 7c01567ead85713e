------------------------ MODULE PreparedStmtProofs --------------------------
(***************************************************************************)
(* What PreparedStmt keeps for any number of goroutines, transactions,     *)
(* callers of Close, queries and connections, and any size of the store.   *)
(***************************************************************************)
EXTENDS PreparedStmt, FiniteSetTheorems, TLAPS

-----------------------------------------------------------------------------
(* The inductive invariant.                                                *)
Preparing == {"prep", "forget", "publish"}
Using     == {"use", "exec"}
WithStmt  == {"wait1", "wait2"} \cup Preparing \cup Using

(* The types, in three parts.                                              *)
StoreTypes ==
    /\ Live \subseteq Queries /\ cached \in [Live -> StmtIds]
    /\ order \subseteq Queries \X Queries
    /\ due \subseteq Live /\ closing \subseteq StmtIds
MuxTypes ==
    /\ readers \subseteq Procs /\ queued \subseteq Procs
    /\ writer \in Procs \cup {None} /\ owned \in BOOLEAN
CallTypes ==
    /\ pc \in [Procs -> Labels]
    /\ query \in [Procs -> Queries \cup {None}]
    /\ ref \in [Procs -> StmtIds \cup {None}]

(* A transaction holds one connection from begin to end.                   *)
Busy  == {p \in TxProcs : pc[p] # "idle"}
Conns == IsFiniteSet(Busy) /\ conns \in Nat /\ conns + Cardinality(Busy) = MaxConns

(* Who is where, and what it has of its statement.  Nobody has seen the    *)
(* end of a preparation that is under way, and one that failed has left    *)
(* the store before it is published.                                       *)
CallOK(p) ==
    /\ pc[p] = "intx" => p \in TxProcs
    /\ pc[p] = "close" => p \in Closers
    /\ p \in Closers => pc[p] \in {"idle", "lock", "drain", "close"}
    /\ pc[p] \notin {"idle", "intx"} /\ p \notin Closers => query[p] \in Queries
    /\ pc[p] \in WithStmt => ref[p] \in StmtIds /\ stmts[ref[p]].key = query[p]
    /\ pc[p] \in Preparing =>
          /\ ~stmts[ref[p]].prepared /\ (stmts[ref[p]].err <=> pc[p] # "prep")
          /\ stmts[ref[p]].transaction <=> p \in TxProcs
    /\ pc[p] = "publish" => ref[p] \notin CachedIds
    /\ pc[p] \in Using =>
          /\ stmts[ref[p]].prepared /\ ~stmts[ref[p]].err
          /\ p \in DbProcs => ~stmts[ref[p]].transaction
Calls == \A p \in Procs : CallOK(p)

(* One goroutine prepares a statement.                                     *)
OnePreparer ==
    \A p, r \in Procs : pc[p] \in Preparing /\ pc[r] \in Preparing /\ ref[p] = ref[r] => p = r

Opened == \A i \in StmtIds : stmts[i].prepared /\ ~stmts[i].err => stmts[i].handle # "nil"

Inv == /\ StoreTypes /\ MuxTypes /\ CallTypes /\ stmts \in [StmtIds -> Stmt]
       /\ Conns /\ Calls /\ OnePreparer /\ Opened /\ CachedUsable

-----------------------------------------------------------------------------
(* Parts of a step.                                                        *)

(* What goroutine p does leaves the calls of the others where they are.    *)
Only(p) ==
    \A r \in Procs \ {p} : pc'[r] = pc[r] /\ query'[r] = query[r] /\ ref'[r] = ref[r]

(* Statement i differs in its handle at most.                              *)
Same(i) ==
    /\ stmts'[i].key = stmts[i].key /\ stmts'[i].transaction = stmts[i].transaction
    /\ stmts'[i].prepared = stmts[i].prepared /\ stmts'[i].err = stmts[i].err

(* Nothing that goroutine r relies on of its statement has changed.        *)
Undisturbed(r) ==
    pc[r] \in WithStmt =>
        /\ stmts'[ref[r]].key = stmts[ref[r]].key
        /\ pc[r] \in Preparing \cup Using => Same(ref[r])
        /\ pc[r] = "publish" => ref[r] \notin CachedIds'

LEMMA Disjoint ==
    \A p : /\ p \in TxProcs => p \notin Closers /\ p \notin DbProcs
           /\ p \in DbProcs => p \notin Closers
           /\ p \in Closers => p \notin TxProcs /\ p \notin DbProcs
           /\ p \in TxProcs \cup DbProcs \cup Closers <=> p \in Procs
  BY ProcsAssumption DEF Procs

LEMMA StmtType ==
    ASSUME stmts \in [StmtIds -> Stmt], NEW i \in StmtIds
    PROVE  /\ stmts[i] \in Stmt /\ stmts[i].key \in Queries \cup {None}
           /\ stmts[i].transaction \in BOOLEAN /\ stmts[i].prepared \in BOOLEAN
           /\ stmts[i].err \in BOOLEAN /\ stmts[i].handle \in {"nil", "open", "closed"}
  BY DEF Stmt

LEMMA Moved ==
    ASSUME CallTypes, NEW p \in Procs, NEW l \in Labels, Goto(p, l), UNCHANGED <<query, ref>>
    PROVE  /\ CallTypes' /\ Only(p) /\ pc'[p] = l /\ query'[p] = query[p] /\ ref'[p] = ref[p]
  BY DEF CallTypes, Goto, Only

LEMMA Referred ==
    ASSUME CallTypes, NEW p \in Procs, NEW l \in Labels, Goto(p, l), UNCHANGED query,
           NEW i \in StmtIds \cup {None}, ref' = [ref EXCEPT ![p] = i]
    PROVE  /\ CallTypes' /\ Only(p) /\ pc'[p] = l /\ query'[p] = query[p] /\ ref'[p] = i
  BY DEF CallTypes, Goto, Only

LEMMA Returned ==
    ASSUME CallTypes, NEW p \in Procs, Return(p)
    PROVE  /\ CallTypes' /\ Only(p) /\ pc'[p] = Rest(p)
           /\ pc'[p] \in {"idle", "intx"} /\ (p \in TxProcs <=> pc'[p] = "intx")
  BY DEF CallTypes, Return, Goto, Only, Rest, Labels

LEMMA MuxKept ==
    ASSUME MuxTypes, NEW p \in Procs, UNCHANGED mux \/ RLock(p) \/ RUnlock(p) \/ Unlock
    PROVE  MuxTypes'
<1>1. CASE UNCHANGED mux
  BY <1>1 DEF MuxTypes, mux
<1>2. CASE RLock(p)
  BY <1>2 DEF MuxTypes, RLock
<1>3. CASE RUnlock(p)
  BY <1>3 DEF MuxTypes, RUnlock
<1>4. CASE Unlock
  BY <1>4 DEF MuxTypes, Unlock
<1> QED
  BY <1>1, <1>2, <1>3, <1>4

LEMMA ConnsKept ==
    ASSUME Conns, NEW p \in Procs, Only(p), conns' = conns,
           p \in TxProcs => (pc'[p] = "idle" <=> pc[p] = "idle")
    PROVE  Conns'
<1>1. Busy' = Busy
  BY DEF Busy, Only, Procs
<1> QED
  BY <1>1 DEF Conns

(* A goroutine that is left alone stays where it was.                      *)
LEMMA CallKept ==
    ASSUME CallTypes, NEW r \in Procs, CallOK(r), Undisturbed(r),
           pc'[r] = pc[r], query'[r] = query[r], ref'[r] = ref[r]
    PROVE  CallOK(r)'
<1>1. /\ pc'[r] = "intx" => r \in TxProcs
      /\ pc'[r] = "close" => r \in Closers
      /\ r \in Closers => pc'[r] \in {"idle", "lock", "drain", "close"}
      /\ pc'[r] \notin {"idle", "intx"} /\ r \notin Closers => query'[r] \in Queries
  BY DEF CallOK
<1>2. pc'[r] \in WithStmt => ref'[r] \in StmtIds /\ stmts'[ref'[r]].key = query'[r]
  BY DEF CallOK, Undisturbed
<1>3. pc'[r] \in Preparing \cup Using => Same(ref'[r]) /\ pc[r] \in Preparing \cup Using
  BY DEF Undisturbed, WithStmt
<1>4. pc'[r] \in Preparing =>
          /\ ~stmts'[ref'[r]].prepared /\ (stmts'[ref'[r]].err <=> pc'[r] # "prep")
          /\ stmts'[ref'[r]].transaction <=> r \in TxProcs
  BY <1>3 DEF CallOK, Same
<1>5. pc'[r] = "publish" => ref'[r] \notin CachedIds'
  BY DEF Undisturbed, WithStmt, Preparing
<1>6. pc'[r] \in Using =>
          /\ stmts'[ref'[r]].prepared /\ ~stmts'[ref'[r]].err
          /\ r \in DbProcs => ~stmts'[ref'[r]].transaction
  BY <1>3 DEF CallOK, Same
<1> QED
  BY <1>1, <1>2, <1>4, <1>5, <1>6 DEF CallOK

LEMMA CallsKept ==
    ASSUME CallTypes, Calls, NEW p \in Procs, Only(p), CallOK(p)',
           \A r \in Procs \ {p} : Undisturbed(r)
    PROVE  Calls'
<1>1. ASSUME NEW r \in Procs \ {p} PROVE CallOK(r)'
  BY <1>1, CallKept DEF Calls, Only
<1>2. ASSUME NEW r \in Procs PROVE CallOK(r)'
  BY <1>1
<1> QED
  BY <1>2 DEF Calls

LEMMA PreparerKept ==
    ASSUME OnePreparer, NEW p \in Procs, Only(p),
           pc'[p] \in Preparing =>
               \A r \in Procs \ {p} : pc[r] \in Preparing => ref[r] # ref'[p]
    PROVE  OnePreparer'
  BY DEF OnePreparer, Only

LEMMA StoreKept ==
    ASSUME StoreTypes, CachedUsable, UNCHANGED <<cached, due, closing>>, UNCHANGED stmts,
           order' \subseteq Queries \X Queries
    PROVE  StoreTypes' /\ CachedUsable' /\ CachedIds' = CachedIds
  BY DEF StoreTypes, CachedUsable, CachedIds, Live

(* No statement is cached for two queries.                                 *)
LEMMA Injective ==
    ASSUME CachedUsable, NEW a \in Live, NEW b \in Live, cached[a] = cached[b]
    PROVE  a = b
  BY DEF CachedUsable

LEMMA DiscardKept ==
    ASSUME StoreTypes, CachedUsable, NEW S, Discard(S), UNCHANGED stmts
    PROVE  /\ StoreTypes' /\ CachedUsable' /\ CachedIds' \subseteq CachedIds
           /\ Live' = Live \ S /\ \A q \in Live' : cached'[q] = cached[q]
<1>1. /\ cached' = [q \in Live \ S |-> cached[q]] /\ order' \subseteq order
      /\ due' = due \ S /\ closing' = closing \cup {cached[q] : q \in S \cap Live}
  BY DEF Discard, Without
<1>2. Live' = Live \ S /\ \A q \in Live' : cached'[q] = cached[q]
  BY <1>1 DEF Live
<1>3. StoreTypes'
  <2>1. Live' \subseteq Queries /\ cached' \in [Live' -> StmtIds]
    BY <1>1, <1>2 DEF StoreTypes
  <2>2. order' \subseteq Queries \X Queries /\ due' \subseteq Live'
    BY <1>1, <1>2 DEF StoreTypes
  <2>3. closing' \subseteq StmtIds
    BY <1>1 DEF StoreTypes
  <2> QED
    BY <2>1, <2>2, <2>3 DEF StoreTypes
<1>4. CachedIds' \subseteq CachedIds
  BY <1>2 DEF CachedIds
<1>5. ASSUME NEW q \in Live'
      PROVE  /\ stmts'[cached'[q]].key = q /\ cached'[q] \notin closing'
             /\ stmts'[cached'[q]].prepared =>
                   ~stmts'[cached'[q]].err
                   /\ (stmts'[cached'[q]].transaction \/ stmts'[cached'[q]].handle = "open")
  <2>1. q \in Live /\ q \notin S /\ cached'[q] = cached[q]
    BY <1>2
  <2>2. cached[q] \notin {cached[x] : x \in S \cap Live}
    BY <2>1, Injective
  <2> QED
    BY <1>1, <2>1, <2>2 DEF CachedUsable
<1>6. CachedUsable'
  BY <1>5 DEF CachedUsable
<1> QED
  BY <1>2, <1>3, <1>4, <1>6

(* Add puts the new key in front, and so never pushes it out itself.       *)
LEMMA NotPushedOut ==
    ASSUME StoreTypes, NEW q \in Queries, NEW out \in SUBSET Live,
           Cardinality(out) =
               IF MaxSize > 0 /\ Cardinality(Live \cup {q}) > MaxSize THEN 1 ELSE 0,
           IsOldest(out, Promote(order, q, Live \cup {q}), Live \cup {q})
    PROVE  q \notin out
<1>1. IsFiniteSet(out) /\ MaxSize \in Nat
  BY BoundsAssumption, FS_Subset DEF StoreTypes
<1> SUFFICES ASSUME q \in out PROVE FALSE
  OBVIOUS
<1>2. \A j \in (Live \cup {q}) \ out : <<j, q>> \in Promote(order, q, Live \cup {q})
  BY DEF IsOldest
<1>3. out = Live \cup {q}
  BY <1>2 DEF Promote
<1>4. Cardinality(out) # 0
  BY <1>1, FS_EmptySet
<1> QED
  BY <1>1, <1>3, <1>4

-----------------------------------------------------------------------------
(* Whole steps.                                                            *)

LEMMA StepKept ==
    ASSUME Inv, NEW p \in Procs, Only(p), CallOK(p)',
           StoreTypes', MuxTypes', CallTypes', stmts' \in [StmtIds -> Stmt],
           conns' = conns, p \in TxProcs => (pc'[p] = "idle" <=> pc[p] = "idle"),
           \A r \in Procs \ {p} : Undisturbed(r),
           pc'[p] \in Preparing =>
               \A r \in Procs \ {p} : pc[r] \in Preparing => ref[r] # ref'[p],
           Opened', CachedUsable'
    PROVE  Inv'
<1> USE DEF Inv
<1>1. Calls'
  BY CallsKept
<1>2. OnePreparer'
  BY PreparerKept
<1>3. Conns'
  BY ConnsKept
<1> QED
  BY <1>1, <1>2, <1>3

(* No statement changes, and the store loses entries at most.              *)
LEMMA QuietStep ==
    ASSUME Inv, NEW p \in Procs, Only(p), CallOK(p)', CallTypes',
           UNCHANGED mux \/ RLock(p) \/ RUnlock(p) \/ Unlock,
           StoreTypes', CachedUsable', CachedIds' \subseteq CachedIds, UNCHANGED <<stmts, conns>>,
           p \in TxProcs => (pc'[p] = "idle" <=> pc[p] = "idle"),
           pc'[p] \in Preparing => pc[p] \in Preparing /\ ref'[p] = ref[p]
    PROVE  Inv'
<1> USE DEF Inv
<1>1. MuxTypes'
  BY MuxKept
<1>2. \A r \in Procs : Undisturbed(r)
  BY DEF Undisturbed, Same, Calls, CallOK
<1>3. pc'[p] \in Preparing =>
          \A r \in Procs \ {p} : pc[r] \in Preparing => ref[r] # ref'[p]
  BY DEF OnePreparer
<1>4. Opened'
  BY DEF Opened
<1> QED
  BY <1>1, <1>2, <1>3, <1>4, StepKept

(* The call of p ends.                                                     *)
LEMMA ReturnStep ==
    ASSUME Inv, NEW p \in Procs, p \notin Closers, Return(p),
           pc[p] \notin {"idle", "intx"},
           UNCHANGED mux \/ RLock(p) \/ RUnlock(p) \/ Unlock,
           StoreTypes', CachedUsable', CachedIds' \subseteq CachedIds, UNCHANGED <<stmts, conns>>
    PROVE  Inv'
<1>1. /\ CallTypes' /\ Only(p) /\ pc'[p] \in {"idle", "intx"}
      /\ (p \in TxProcs <=> pc'[p] = "intx")
  BY Returned DEF Inv
<1>2. CallOK(p)'
  BY <1>1 DEF CallOK, WithStmt, Preparing, Using
<1>3. pc'[p] \notin Preparing
  BY <1>1 DEF Preparing
<1> QED
  BY <1>1, <1>2, <1>3, QuietStep

-----------------------------------------------------------------------------
(* One lemma per action.                                                   *)

LEMMA InitInv == Init => Inv
<1> SUFFICES ASSUME Init PROVE Inv
  OBVIOUS
<1>1. Live = {} /\ cached = << >> /\ order = {} /\ due = {} /\ closing = {}
  BY DEF Init, Live
<1>2. StoreTypes /\ CachedUsable
  BY <1>1 DEF StoreTypes, CachedUsable
<1>3. MuxTypes /\ CallTypes
  BY DEF Init, MuxTypes, CallTypes, Labels
<1>4. stmts \in [StmtIds -> Stmt] /\ Opened
  BY DEF Init, Unused, Stmt, Opened
<1>5. Conns
  <2>1. Busy = {} /\ conns = MaxConns /\ MaxConns \in Nat
    BY BoundsAssumption DEF Init, Busy, Procs
  <2> QED
    BY <2>1, FS_EmptySet DEF Conns
<1>6. \A p \in Procs : pc[p] = "idle"
  BY DEF Init
<1>7. Calls /\ OnePreparer
  BY <1>6 DEF Calls, CallOK, OnePreparer, WithStmt, Preparing, Using
<1> QED
  BY <1>2, <1>3, <1>4, <1>5, <1>7 DEF Inv

LEMMA LockInv ==
    ASSUME Inv, NEW p \in Procs, Lock(p) PROVE Inv'
<1> USE DEF Inv
<1>1. /\ pc[p] = "lock" /\ writer' = p /\ Goto(p, "drain") /\ UNCHANGED <<readers, queued, owned>>
      /\ UNCHANGED <<cached, order, due, closing, stmts, conns, query, ref>>
  BY DEF Lock, store
<1>2. CallTypes' /\ Only(p) /\ pc'[p] = "drain" /\ query'[p] = query[p]
  BY <1>1, Moved DEF Labels
<1>3. MuxTypes'
  BY <1>1 DEF MuxTypes
<1>4. CallOK(p)'
  BY <1>1, <1>2 DEF CallOK, Calls, WithStmt, Preparing, Using
<1>5. StoreTypes' /\ CachedUsable' /\ CachedIds' = CachedIds
  BY <1>1, StoreKept DEF StoreTypes
<1>6. \A r \in Procs : Undisturbed(r)
  BY <1>1, <1>5 DEF Undisturbed, Same, Calls, CallOK
<1>7. Opened' /\ stmts' \in [StmtIds -> Stmt]
  BY <1>1 DEF Opened
<1>8. pc'[p] \notin Preparing /\ pc'[p] # "idle" /\ pc[p] # "idle"
  BY <1>1, <1>2 DEF Preparing
<1> QED
  BY <1>1, <1>2, <1>3, <1>4, <1>5, <1>6, <1>7, <1>8, StepKept

LEMMA DrainInv ==
    ASSUME Inv, NEW p \in Procs, Drain(p) PROVE Inv'
<1> USE DEF Inv
<1>1. PICK l : l = IF p \in Closers THEN "close" ELSE "get2"
  OBVIOUS
<1>2. /\ pc[p] = "drain" /\ Goto(p, l) /\ owned' = TRUE /\ UNCHANGED <<readers, queued, writer>>
      /\ UNCHANGED <<cached, order, due, closing, stmts, conns, query, ref>>
  BY <1>1 DEF Drain, store
<1>3. CallTypes' /\ Only(p) /\ pc'[p] = l /\ query'[p] = query[p]
  BY <1>1, <1>2, Moved DEF Labels
<1>4. MuxTypes'
  BY <1>2 DEF MuxTypes
<1>5. CallOK(p)'
  BY <1>1, <1>2, <1>3 DEF CallOK, Calls, WithStmt, Preparing, Using
<1>6. StoreTypes' /\ CachedUsable' /\ CachedIds' = CachedIds
  BY <1>2, StoreKept DEF StoreTypes
<1>7. \A r \in Procs : Undisturbed(r)
  BY <1>2, <1>6 DEF Undisturbed, Same, Calls, CallOK
<1>8. Opened' /\ stmts' \in [StmtIds -> Stmt]
  BY <1>2 DEF Opened
<1>9. pc'[p] \notin Preparing /\ pc'[p] # "idle" /\ pc[p] # "idle"
  BY <1>1, <1>2, <1>3 DEF Preparing
<1> QED
  BY <1>2, <1>3, <1>4, <1>5, <1>6, <1>7, <1>8, <1>9, StepKept

LEMMA CallInv ==
    ASSUME Inv, NEW p \in Procs, NEW q \in Queries, Call(p, q) PROVE Inv'
<1> USE DEF Inv
<1>1. /\ p \in DbProcs \cup TxProcs /\ pc[p] = Rest(p) /\ RLock(p) /\ Goto(p, "get1")
      /\ query' = [query EXCEPT ![p] = q]
      /\ UNCHANGED <<cached, order, due, closing, stmts, conns, ref>>
  BY DEF Call, store
<1>2. CallTypes' /\ Only(p) /\ pc'[p] = "get1" /\ query'[p] = q
  BY <1>1 DEF CallTypes, Goto, Only, Labels
<1>3. CallOK(p)'
  BY <1>1, <1>2, Disjoint DEF CallOK, WithStmt, Preparing, Using
<1>4. StoreTypes' /\ CachedUsable' /\ CachedIds' = CachedIds
  BY <1>1, StoreKept DEF StoreTypes
<1>5. pc'[p] \notin Preparing /\ (p \in TxProcs => pc'[p] # "idle" /\ pc[p] # "idle")
  BY <1>1, <1>2 DEF Preparing, Rest
<1> QED
  BY <1>1, <1>2, <1>3, <1>4, <1>5, QuietStep

(* Both lookups: what is found is of the query that was asked for.         *)
LEMMA HitStep ==
    ASSUME Inv, NEW p \in Procs, pc[p] \in {"get1", "get2"}, Hit(query[p]),
           order' = Promote(order, query[p], Live),
           ref' = [ref EXCEPT ![p] = cached[query[p]]],
           NEW l \in {"wait1", "wait2"}, Goto(p, l),
           UNCHANGED <<cached, due, closing, stmts, conns, query>>, UNCHANGED mux
    PROVE  Inv'
<1> USE DEF Inv
<1>1. /\ query[p] \in Live /\ cached[query[p]] \in StmtIds
      /\ stmts[cached[query[p]]].key = query[p]
  BY DEF Hit, StoreTypes, CachedUsable
<1>2. /\ CallTypes' /\ Only(p) /\ pc'[p] = l /\ query'[p] = query[p]
      /\ ref'[p] = cached[query[p]]
  <2>1. PICK i \in StmtIds : i = cached[query[p]]
    BY <1>1
  <2>2. l \in Labels /\ ref' = [ref EXCEPT ![p] = i]
    BY <2>1 DEF Labels
  <2> QED
    BY <2>1, <2>2, Referred
<1>3. p \notin Closers /\ query[p] \in Queries
  BY DEF Calls, CallOK
<1>4. CallOK(p)'
  BY <1>1, <1>2, <1>3 DEF CallOK, WithStmt, Preparing, Using
<1>5. order' \subseteq Queries \X Queries
  BY <1>1 DEF Promote, StoreTypes
<1>6. StoreTypes' /\ CachedUsable' /\ CachedIds' = CachedIds
  BY <1>5, StoreKept
<1>7. pc'[p] \notin Preparing /\ pc'[p] # "idle" /\ pc[p] # "idle"
  BY <1>2 DEF Preparing
<1> QED
  BY <1>2, <1>4, <1>6, <1>7, QuietStep

(* Steps of a call between two labels that have no statement.              *)
LEMMA WalkStep ==
    ASSUME Inv, NEW p \in Procs, pc[p] \in {"get1", "wait1", "get2", "wait2"},
           NEW l \in {"lock", "new"}, Goto(p, l), NEW i \in StmtIds \cup {None},
           ref' = [ref EXCEPT ![p] = i], UNCHANGED query,
           UNCHANGED mux \/ RUnlock(p),
           UNCHANGED <<cached, order, due, closing, stmts, conns>>
    PROVE  Inv'
<1> USE DEF Inv
<1>1. CallTypes' /\ Only(p) /\ pc'[p] = l /\ query'[p] = query[p]
  BY Referred DEF Labels
<1>2. p \notin Closers /\ query[p] \in Queries
  BY DEF Calls, CallOK
<1>3. CallOK(p)'
  BY <1>1, <1>2 DEF CallOK, WithStmt, Preparing, Using
<1>4. StoreTypes' /\ CachedUsable' /\ CachedIds' = CachedIds
  BY StoreKept DEF StoreTypes
<1>5. pc'[p] \notin Preparing /\ pc'[p] # "idle" /\ pc[p] # "idle"
  BY <1>1 DEF Preparing
<1> QED
  BY <1>1, <1>3, <1>4, <1>5, QuietStep

LEMMA SameRef ==
    ASSUME CallTypes, NEW p \in Procs, ref' = ref
    PROVE  ref[p] \in StmtIds \cup {None} /\ ref' = [ref EXCEPT ![p] = ref[p]]
  BY DEF CallTypes

LEMMA Get1Inv ==
    ASSUME Inv, NEW p \in Procs, Get1(p) PROVE Inv'
<1>1. pc[p] = "get1" /\ UNCHANGED <<cached, due, closing, stmts, conns, query>>
  BY DEF Get1
<1>2. CASE Hit(query[p])
  BY <1>1, <1>2, HitStep DEF Get1
<1>3. CASE ~Hit(query[p])
  <2>1. Goto(p, "lock") /\ RUnlock(p) /\ UNCHANGED <<order, ref>>
    BY <1>3 DEF Get1
  <2> QED
    BY <1>1, <2>1, SameRef, WalkStep DEF Inv
<1> QED
  BY <1>2, <1>3

LEMMA Get2Inv ==
    ASSUME Inv, NEW p \in Procs, Get2(p) PROVE Inv'
<1>1. pc[p] = "get2" /\ UNCHANGED <<cached, due, closing, stmts, conns, query>> /\ UNCHANGED mux
  BY DEF Get2
<1>2. CASE Hit(query[p])
  BY <1>1, <1>2, HitStep DEF Get2
<1>3. CASE ~Hit(query[p])
  <2>1. Goto(p, "new") /\ UNCHANGED <<order, ref>>
    BY <1>3 DEF Get2
  <2> QED
    BY <1>1, <2>1, SameRef, WalkStep DEF Inv
<1> QED
  BY <1>2, <1>3

(* The preparation that was waited for has succeeded.                      *)
LEMMA FoundStep ==
    ASSUME Inv, NEW p \in Procs, pc[p] \in {"wait1", "wait2"},
           stmts[ref[p]].prepared, ~stmts[ref[p]].err, Fits(p), Goto(p, "use"),
           RUnlock(p) \/ Unlock,
           UNCHANGED <<cached, order, due, closing, stmts, conns, query, ref>>
    PROVE  Inv'
<1> USE DEF Inv
<1>1. CallTypes' /\ Only(p) /\ pc'[p] = "use" /\ query'[p] = query[p] /\ ref'[p] = ref[p]
  BY Moved DEF Labels
<1>2. /\ p \notin Closers /\ query[p] \in Queries /\ ref[p] \in StmtIds
      /\ stmts[ref[p]].key = query[p] /\ (p \in DbProcs => ~stmts[ref[p]].transaction)
  BY Disjoint DEF Calls, CallOK, WithStmt, Fits
<1>3. CallOK(p)'
  BY <1>1, <1>2 DEF CallOK, WithStmt, Preparing, Using
<1>4. StoreTypes' /\ CachedUsable' /\ CachedIds' = CachedIds
  BY StoreKept DEF StoreTypes
<1>5. pc'[p] \notin Preparing /\ pc'[p] # "idle" /\ pc[p] # "idle"
  BY <1>1 DEF Preparing
<1> QED
  BY <1>1, <1>3, <1>4, <1>5, QuietStep

LEMMA WaitInv ==
    ASSUME Inv, NEW p \in Procs, Wait1(p) \/ Wait2(p) PROVE Inv'
<1>1. /\ pc[p] \in {"wait1", "wait2"} /\ stmts[ref[p]].prepared
      /\ UNCHANGED <<cached, order, due, closing, stmts, conns>>
  BY DEF Wait1, Wait2, store
<1>2. \/ /\ Fits(p) /\ ~stmts[ref[p]].err /\ (RUnlock(p) \/ Unlock)
         /\ Goto(p, "use") /\ UNCHANGED <<query, ref>>
      \/ Return(p) /\ (RUnlock(p) \/ Unlock)
      \/ /\ Goto(p, "lock") \/ Goto(p, "new")
         /\ UNCHANGED mux \/ RUnlock(p)
         /\ ref' = [ref EXCEPT ![p] = None] /\ query' = query
  BY DEF Wait1, Wait2
<1>3. p \notin Closers
  BY <1>1 DEF Inv, Calls, CallOK
<1>4. CASE /\ Fits(p) /\ ~stmts[ref[p]].err /\ (RUnlock(p) \/ Unlock)
           /\ Goto(p, "use") /\ UNCHANGED <<query, ref>>
  BY <1>1, <1>4, FoundStep
<1>5. CASE Return(p) /\ (RUnlock(p) \/ Unlock)
  <2>1. StoreTypes' /\ CachedUsable' /\ CachedIds' = CachedIds
    BY <1>1, StoreKept DEF StoreTypes, Inv
  <2> QED
    BY <1>1, <1>3, <1>5, <2>1, ReturnStep
<1>6. CASE /\ Goto(p, "lock") \/ Goto(p, "new")
           /\ UNCHANGED mux \/ RUnlock(p)
           /\ ref' = [ref EXCEPT ![p] = None] /\ query' = query
  BY <1>1, <1>6, WalkStep
<1> QED
  BY <1>2, <1>4, <1>5, <1>6

(* The fresh statement is nobody's, and the store puts it under its query; *)
(* what had to make room is out of the store and about to be closed.       *)
Inserted(p, i, out) ==
    /\ pc[p] = "new" /\ Unlock /\ Goto(p, "prep") /\ UNCHANGED <<conns, query>>
    /\ p \notin Closers /\ query[p] \in Queries
    /\ i \in StmtIds /\ i \notin CachedIds /\ i \notin closing
    /\ \A r \in Procs : ref[r] # i
    /\ ref' = [ref EXCEPT ![p] = i]
    /\ stmts'[i].key = query[p] /\ (stmts'[i].transaction <=> p \in TxProcs)
    /\ ~stmts'[i].prepared /\ ~stmts'[i].err /\ stmts'[i].handle = "nil"
    /\ stmts' \in [StmtIds -> Stmt]
    /\ \A j \in StmtIds \ {i} : stmts'[j] = stmts[j]
    /\ query[p] \notin out
    /\ cached' = [x \in (Live \cup {query[p]}) \ out |-> IF x = query[p] THEN i ELSE cached[x]]
    /\ order' = Without(Promote(order, query[p], Live \cup {query[p]}), out)
    /\ due' = due \ (out \cup {query[p]})
    /\ closing' = closing \cup {cached[x] : x \in out}
    /\ Live' = (Live \cup {query[p]}) \ out /\ cached'[query[p]] = i
    /\ \A x \in Live' \ {query[p]} : x \in Live /\ x \notin out /\ cached'[x] = cached[x]

LEMMA NewInserts ==
    ASSUME Inv, NEW p \in Procs, New(p)
    PROVE  \E i \in StmtIds, out \in SUBSET Live : Inserted(p, i, out)
<1> USE DEF Inv
<1>1. /\ pc[p] = "new" /\ Unlock /\ Goto(p, "prep") /\ UNCHANGED <<conns, query>>
      /\ p \notin Closers /\ query[p] \in Queries
  BY DEF New, Calls, CallOK
<1>2. PICK i \in Garbage :
          /\ stmts' = [stmts EXCEPT ![i] =
                         [Unused EXCEPT !.key = query[p], !.owner = p,
                                        !.transaction = (p \in TxProcs)]]
          /\ ref' = [ref EXCEPT ![p] = i]
          /\ Set(query[p], i)
  BY DEF New
<1>3. /\ i \in StmtIds /\ i \notin CachedIds /\ i \notin closing
      /\ \A r \in Procs : ref[r] # i
  BY <1>2 DEF Garbage
<1>4. /\ stmts'[i].key = query[p] /\ (stmts'[i].transaction <=> p \in TxProcs)
      /\ ~stmts'[i].prepared /\ ~stmts'[i].err /\ stmts'[i].handle = "nil"
      /\ stmts' \in [StmtIds -> Stmt]
      /\ \A j \in StmtIds \ {i} : stmts'[j] = stmts[j]
  <2>1. PICK s : s = [Unused EXCEPT !.key = query[p], !.owner = p,
                                    !.transaction = (p \in TxProcs)]
    OBVIOUS
  <2>2. /\ s \in Stmt /\ s.key = query[p] /\ (s.transaction <=> p \in TxProcs)
        /\ ~s.prepared /\ ~s.err /\ s.handle = "nil"
    <3>1. PICK t \in BOOLEAN : t = (p \in TxProcs)
      <4>1. CASE p \in TxProcs
        <5>1. (p \in TxProcs) = TRUE
          BY <4>1
        <5> QED
          BY <5>1
      <4>2. CASE p \notin TxProcs
        <5>1. (p \in TxProcs) = FALSE
          BY <4>2
        <5> QED
          BY <5>1
      <4> QED
        BY <4>1, <4>2
    <3>2. s = [key |-> query[p], transaction |-> t, owner |-> p,
               prepared |-> FALSE, err |-> FALSE, handle |-> "nil"]
      BY <2>1, <3>1 DEF Unused
    <3>3. s \in Stmt
      BY <1>1, <3>1, <3>2 DEF Stmt
    <3>4. s.key = query[p] /\ s.transaction = t /\ s.prepared = FALSE /\ s.err = FALSE
          /\ s.handle = "nil"
      BY <3>2
    <3>5. s.transaction <=> p \in TxProcs
      BY <3>1, <3>4
    <3> QED
      BY <3>3, <3>4, <3>5
  <2>3. stmts' = [stmts EXCEPT ![i] = s]
    BY <1>2, <2>1
  <2> QED
    BY <1>3, <2>2, <2>3
<1>5. PICK out \in SUBSET Live :
          LET all == Live \cup {query[p]}
          IN  /\ Cardinality(out) =
                     IF MaxSize > 0 /\ Cardinality(all) > MaxSize THEN 1 ELSE 0
              /\ IsOldest(out, Promote(order, query[p], all), all)
              /\ cached' = [x \in all \ out |-> IF x = query[p] THEN i ELSE cached[x]]
              /\ order' = Without(Promote(order, query[p], all), out)
              /\ due' = due \ (out \cup {query[p]})
              /\ closing' = closing \cup {cached[x] : x \in out}
  BY <1>2 DEF Set
<1>6. query[p] \notin out
  BY <1>1, <1>5, NotPushedOut
<1>7. /\ Live' = (Live \cup {query[p]}) \ out /\ cached'[query[p]] = i
      /\ \A x \in Live' \ {query[p]} : x \in Live /\ x \notin out /\ cached'[x] = cached[x]
  BY <1>5, <1>6 DEF Live
<1> QED
  BY <1>1, <1>2, <1>3, <1>4, <1>5, <1>6, <1>7 DEF Inserted

LEMMA NewInv ==
    ASSUME Inv, NEW p \in Procs, New(p) PROVE Inv'
<1> USE DEF Inv
<1>1. PICK i \in StmtIds, out \in SUBSET Live : Inserted(p, i, out)
  BY NewInserts
<1>2. /\ CallTypes' /\ Only(p) /\ pc'[p] = "prep" /\ query'[p] = query[p] /\ ref'[p] = i
  BY <1>1, Referred DEF Labels, Inserted
<1>3. MuxTypes'
  BY <1>1, MuxKept DEF Inserted
<1>4. StoreTypes'
  <2>1. Live' \subseteq Queries /\ cached' \in [Live' -> StmtIds]
    BY <1>1 DEF StoreTypes, Inserted
  <2>2. order' \subseteq Queries \X Queries
    BY <1>1 DEF StoreTypes, Without, Promote, Inserted
  <2>3. due' \subseteq Live' /\ closing' \subseteq StmtIds
    BY <1>1 DEF StoreTypes, Inserted
  <2> QED
    BY <2>1, <2>2, <2>3 DEF StoreTypes
<1>5. CachedUsable'
  <2>1. ASSUME NEW q \in Live'
        PROVE  /\ stmts'[cached'[q]].key = q /\ cached'[q] \notin closing'
               /\ stmts'[cached'[q]].prepared =>
                     ~stmts'[cached'[q]].err
                     /\ (stmts'[cached'[q]].transaction \/ stmts'[cached'[q]].handle = "open")
    <3>1. CASE q = query[p]
      <4>1. i \notin {cached[x] : x \in out}
        BY <1>1 DEF CachedIds, Inserted
      <4> QED
        BY <1>1, <3>1, <4>1 DEF Inserted
    <3>2. CASE q # query[p]
      <4>1. q \in Live /\ q \notin out /\ cached'[q] = cached[q] /\ cached[q] # i
        BY <1>1, <3>2 DEF CachedIds, Inserted
      <4>2. stmts'[cached[q]] = stmts[cached[q]]
        BY <1>1, <4>1 DEF StoreTypes, Inserted
      <4>3. cached[q] \notin {cached[x] : x \in out}
        BY <4>1, Injective
      <4> QED
        BY <1>1, <4>1, <4>2, <4>3 DEF CachedUsable, Inserted
    <3> QED
      BY <3>1, <3>2
  <2> QED
    BY <2>1 DEF CachedUsable
<1>6. CachedIds' \subseteq CachedIds \cup {i}
  BY <1>1 DEF CachedIds, Inserted
<1>7. ASSUME NEW r \in Procs PROVE Undisturbed(r)
  <2>1. pc[r] \in WithStmt => ref[r] \in StmtIds /\ ref[r] # i
    BY <1>1 DEF Calls, CallOK, Inserted
  <2>2. pc[r] \in WithStmt => stmts'[ref[r]] = stmts[ref[r]]
    BY <1>1, <2>1 DEF Inserted
  <2>3. pc[r] = "publish" => ref[r] \notin CachedIds'
    BY <1>1, <1>6 DEF Calls, CallOK, Inserted
  <2> QED
    BY <2>2, <2>3 DEF Undisturbed, Same
<1>8. CallOK(p)'
  BY <1>1, <1>2 DEF CallOK, WithStmt, Preparing, Using, Inserted
<1>9. Opened'
  BY <1>1 DEF Opened, Inserted
<1>10. \A r \in Procs \ {p} : ref[r] # ref'[p]
  BY <1>1, <1>2 DEF Inserted
<1> QED
  BY <1>1, <1>2, <1>3, <1>4, <1>5, <1>7, <1>8, <1>9, <1>10, StepKept DEF Inserted

(* What a step of its only preparer does to a statement that nobody uses   *)
(* yet disturbs nobody.                                                    *)
LEMMA PreparerAlone ==
    ASSUME Inv, NEW p \in Procs, pc[p] \in Preparing, NEW s, s.key = stmts[ref[p]].key,
           stmts' = [stmts EXCEPT ![ref[p]] = s], CachedIds' \subseteq CachedIds
    PROVE  /\ \A r \in Procs \ {p} : Undisturbed(r)
           /\ \A r \in Procs \ {p} : pc[r] \in Preparing => ref[r] # ref[p]
           /\ ref[p] \in StmtIds /\ stmts'[ref[p]] = s
           /\ \A j \in StmtIds \ {ref[p]} : stmts'[j] = stmts[j]
<1> USE DEF Inv
<1>1. /\ ref[p] \in StmtIds /\ ~stmts[ref[p]].prepared
  BY DEF Calls, CallOK, WithStmt
<1>2. stmts'[ref[p]] = s /\ \A j \in StmtIds \ {ref[p]} : stmts'[j] = stmts[j]
  BY <1>1
<1>3. \A r \in Procs \ {p} : pc[r] \in Preparing => ref[r] # ref[p]
  BY DEF OnePreparer
<1>4. ASSUME NEW r \in Procs \ {p} PROVE Undisturbed(r)
  <2>1. pc[r] \in Preparing \cup Using => ref[r] # ref[p]
    BY <1>1, <1>3 DEF Calls, CallOK
  <2>2. pc[r] \in WithStmt => ref[r] \in StmtIds
    BY DEF Calls, CallOK
  <2>3. pc[r] \in WithStmt => stmts'[ref[r]].key = stmts[ref[r]].key
    BY <1>2, <2>2
  <2>4. pc[r] \in Preparing \cup Using => Same(ref[r])
    BY <1>2, <2>1, <2>2 DEF Same, WithStmt
  <2>5. pc[r] = "publish" => ref[r] \notin CachedIds'
    BY DEF Calls, CallOK
  <2> QED
    BY <2>3, <2>4, <2>5 DEF Undisturbed
<1> QED
  BY <1>1, <1>2, <1>3, <1>4

LEMMA PrepareInv ==
    ASSUME Inv, NEW p \in Procs, Prepare(p) PROVE Inv'
<1> USE DEF Inv
<1>1. /\ pc[p] = "prep" /\ Goto(p, "use") /\ UNCHANGED mux
      /\ stmts' = [stmts EXCEPT ![ref[p]] =
                     [stmts[ref[p]] EXCEPT !.handle = "open", !.prepared = TRUE]]
      /\ UNCHANGED <<cached, order, due, closing, conns, query, ref>>
  BY DEF Prepare, store
<1>2. /\ p \notin Closers /\ query[p] \in Queries /\ pc[p] \in Preparing /\ ref[p] \in StmtIds
      /\ stmts[ref[p]].key = query[p] /\ ~stmts[ref[p]].err
      /\ (stmts[ref[p]].transaction <=> p \in TxProcs)
  BY <1>1 DEF Calls, CallOK, WithStmt, Preparing
<1>3. PICK s : s = [stmts[ref[p]] EXCEPT !.handle = "open", !.prepared = TRUE]
  OBVIOUS
<1>4. /\ s \in Stmt /\ s.key = stmts[ref[p]].key /\ s.transaction = stmts[ref[p]].transaction
      /\ s.err = stmts[ref[p]].err /\ s.prepared = TRUE /\ s.handle = "open"
  BY <1>2, <1>3, StmtType DEF Stmt
<1>5. CachedIds' = CachedIds /\ Live' = Live
  BY <1>1 DEF CachedIds, Live
<1>6. /\ \A r \in Procs \ {p} : Undisturbed(r)
      /\ stmts'[ref[p]] = s /\ \A j \in StmtIds \ {ref[p]} : stmts'[j] = stmts[j]
  BY <1>1, <1>2, <1>3, <1>4, <1>5, PreparerAlone
<1>7. CallTypes' /\ Only(p) /\ pc'[p] = "use" /\ query'[p] = query[p] /\ ref'[p] = ref[p]
  BY <1>1, Moved DEF Labels
<1>8. StoreTypes' /\ MuxTypes' /\ stmts' \in [StmtIds -> Stmt]
  BY <1>1, <1>2, <1>3, <1>4, <1>5, MuxKept DEF StoreTypes
<1>9. CachedUsable'
  <2>1. \A q \in Live : cached[q] \in StmtIds
    BY DEF StoreTypes
  <2>2. \A q \in Live :
            /\ stmts'[cached[q]].key = q /\ cached[q] \notin closing
            /\ stmts'[cached[q]].prepared =>
                  ~stmts'[cached[q]].err
                  /\ (stmts'[cached[q]].transaction \/ stmts'[cached[q]].handle = "open")
    BY <1>2, <1>4, <1>6, <2>1 DEF CachedUsable
  <2> QED
    BY <1>1, <1>5, <2>2 DEF CachedUsable
<1>10. Opened'
  BY <1>4, <1>6 DEF Opened
<1>11. CallOK(p)'
  BY <1>2, <1>4, <1>6, <1>7, Disjoint DEF CallOK, WithStmt, Preparing, Using
<1>12. pc'[p] \notin Preparing /\ pc'[p] # "idle" /\ pc[p] # "idle"
  BY <1>1, <1>7 DEF Preparing
<1> QED
  BY <1>1, <1>6, <1>7, <1>8, <1>9, <1>10, <1>11, <1>12, StepKept

LEMMA PrepareFailsInv ==
    ASSUME Inv, NEW p \in Procs, PrepareFails(p) PROVE Inv'
<1> USE DEF Inv
<1>1. /\ pc[p] = "prep" /\ Goto(p, "forget") /\ UNCHANGED mux
      /\ stmts' = [stmts EXCEPT ![ref[p]] = [stmts[ref[p]] EXCEPT !.err = TRUE]]
      /\ UNCHANGED <<cached, order, due, closing, conns, query, ref>>
  BY DEF PrepareFails, store
<1>2. /\ p \notin Closers /\ query[p] \in Queries /\ pc[p] \in Preparing /\ ref[p] \in StmtIds
      /\ stmts[ref[p]].key = query[p] /\ ~stmts[ref[p]].prepared
      /\ (stmts[ref[p]].transaction <=> p \in TxProcs)
  BY <1>1 DEF Calls, CallOK, WithStmt, Preparing
<1>3. PICK s : s = [stmts[ref[p]] EXCEPT !.err = TRUE]
  OBVIOUS
<1>4. /\ s \in Stmt /\ s.key = stmts[ref[p]].key /\ s.transaction = stmts[ref[p]].transaction
      /\ s.err = TRUE /\ s.prepared = stmts[ref[p]].prepared
  BY <1>2, <1>3, StmtType DEF Stmt
<1>5. CachedIds' = CachedIds /\ Live' = Live
  BY <1>1 DEF CachedIds, Live
<1>6. /\ \A r \in Procs \ {p} : Undisturbed(r)
      /\ \A r \in Procs \ {p} : pc[r] \in Preparing => ref[r] # ref[p]
      /\ stmts'[ref[p]] = s /\ \A j \in StmtIds \ {ref[p]} : stmts'[j] = stmts[j]
  BY <1>1, <1>2, <1>3, <1>4, <1>5, PreparerAlone
<1>7. CallTypes' /\ Only(p) /\ pc'[p] = "forget" /\ query'[p] = query[p] /\ ref'[p] = ref[p]
  BY <1>1, Moved DEF Labels
<1>8. StoreTypes' /\ MuxTypes' /\ stmts' \in [StmtIds -> Stmt]
  BY <1>1, <1>2, <1>3, <1>4, <1>5, MuxKept DEF StoreTypes
<1>9. CachedUsable'
  <2>1. \A q \in Live : cached[q] \in StmtIds
    BY DEF StoreTypes
  <2>2. \A q \in Live :
            /\ stmts'[cached[q]].key = q /\ cached[q] \notin closing
            /\ stmts'[cached[q]].prepared =>
                  ~stmts'[cached[q]].err
                  /\ (stmts'[cached[q]].transaction \/ stmts'[cached[q]].handle = "open")
    BY <1>2, <1>4, <1>6, <2>1 DEF CachedUsable
  <2> QED
    BY <1>1, <1>5, <2>2 DEF CachedUsable
<1>10. Opened'
  BY <1>4, <1>6 DEF Opened
<1>11. CallOK(p)'
  BY <1>2, <1>4, <1>6, <1>7 DEF CallOK, WithStmt, Preparing, Using
<1>12. pc'[p] # "idle" /\ pc[p] # "idle"
  BY <1>1, <1>7
<1> QED
  BY <1>1, <1>6, <1>7, <1>8, <1>9, <1>10, <1>11, <1>12, StepKept

(* After the deletion no query leads to the statement that failed.         *)
LEMMA ForgetInv ==
    ASSUME Inv, NEW p \in Procs, Forget(p) PROVE Inv'
<1> USE DEF Inv
<1>1. /\ pc[p] = "forget" /\ Discard({query[p]}) /\ Goto(p, "publish")
      /\ UNCHANGED mux /\ UNCHANGED <<stmts, conns, query, ref>>
  BY DEF Forget
<1>2. /\ p \notin Closers /\ query[p] \in Queries /\ pc[p] \in Preparing /\ ref[p] \in StmtIds
      /\ stmts[ref[p]].key = query[p] /\ ~stmts[ref[p]].prepared /\ stmts[ref[p]].err
      /\ (stmts[ref[p]].transaction <=> p \in TxProcs)
  BY <1>1 DEF Calls, CallOK, WithStmt, Preparing
<1>3. /\ StoreTypes' /\ CachedUsable' /\ CachedIds' \subseteq CachedIds
      /\ Live' = Live \ {query[p]} /\ \A q \in Live' : cached'[q] = cached[q]
  BY <1>1, DiscardKept
<1>4. CallTypes' /\ Only(p) /\ pc'[p] = "publish" /\ query'[p] = query[p] /\ ref'[p] = ref[p]
  BY <1>1, Moved DEF Labels
<1>5. ref[p] \notin CachedIds'
  BY <1>2, <1>3 DEF CachedIds, CachedUsable
<1>6. CallOK(p)'
  BY <1>1, <1>2, <1>4, <1>5 DEF CallOK, WithStmt, Preparing, Using
<1>7. pc'[p] # "idle" /\ pc[p] # "idle"
  BY <1>1, <1>4
<1> QED
  BY <1>1, <1>2, <1>3, <1>4, <1>6, <1>7, QuietStep

LEMMA PublishInv ==
    ASSUME Inv, NEW p \in Procs, Publish(p) PROVE Inv'
<1> USE DEF Inv
<1>1. /\ pc[p] = "publish" /\ Return(p) /\ UNCHANGED mux
      /\ stmts' = [stmts EXCEPT ![ref[p]] = [stmts[ref[p]] EXCEPT !.prepared = TRUE]]
      /\ UNCHANGED <<cached, order, due, closing, conns>>
  BY DEF Publish, store
<1>2. /\ p \notin Closers /\ pc[p] \in Preparing /\ ref[p] \in StmtIds
      /\ stmts[ref[p]].err /\ ref[p] \notin CachedIds
  BY <1>1 DEF Calls, CallOK, WithStmt, Preparing
<1>3. PICK s : s = [stmts[ref[p]] EXCEPT !.prepared = TRUE]
  OBVIOUS
<1>4. s \in Stmt /\ s.key = stmts[ref[p]].key /\ s.err = stmts[ref[p]].err
  BY <1>2, <1>3, StmtType DEF Stmt
<1>5. CachedIds' = CachedIds /\ Live' = Live
  BY <1>1 DEF CachedIds, Live
<1>6. /\ \A r \in Procs \ {p} : Undisturbed(r)
      /\ stmts'[ref[p]] = s /\ \A j \in StmtIds \ {ref[p]} : stmts'[j] = stmts[j]
  BY <1>1, <1>2, <1>3, <1>4, <1>5, PreparerAlone
<1>7. /\ CallTypes' /\ Only(p) /\ pc'[p] \in {"idle", "intx"}
      /\ (p \in TxProcs <=> pc'[p] = "intx")
  BY <1>1, Returned
<1>8. StoreTypes' /\ MuxTypes' /\ stmts' \in [StmtIds -> Stmt]
  BY <1>1, <1>2, <1>3, <1>4, <1>5, MuxKept DEF StoreTypes
<1>9. CachedUsable'
  <2>1. \A q \in Live : cached[q] \in StmtIds \ {ref[p]}
    BY <1>2 DEF StoreTypes, CachedIds
  <2>2. \A q \in Live : stmts'[cached[q]] = stmts[cached[q]]
    BY <1>6, <2>1
  <2>3. \A q \in Live :
            /\ stmts'[cached[q]].key = q /\ cached[q] \notin closing
            /\ stmts'[cached[q]].prepared =>
                  ~stmts'[cached[q]].err
                  /\ (stmts'[cached[q]].transaction \/ stmts'[cached[q]].handle = "open")
    BY <2>2 DEF CachedUsable
  <2> QED
    BY <1>1, <1>5, <2>3 DEF CachedUsable
<1>10. Opened'
  <2>1. s.err = TRUE
    BY <1>2, <1>4, StmtType
  <2>2. \A j \in StmtIds : stmts'[j] = s \/ stmts'[j] = stmts[j]
    BY <1>6
  <2> QED
    BY <2>1, <2>2 DEF Opened
<1>11. CallOK(p)'
  BY <1>2, <1>7 DEF CallOK, WithStmt, Preparing, Using
<1>12. pc'[p] \notin Preparing /\ (p \in TxProcs => pc'[p] # "idle" /\ pc[p] # "idle")
  BY <1>1, <1>7 DEF Preparing
<1> QED
  BY <1>1, <1>6, <1>7, <1>8, <1>9, <1>10, <1>11, <1>12, StepKept

LEMMA UseInv ==
    ASSUME Inv, NEW p \in Procs, Use(p) PROVE Inv'
<1> USE DEF Inv
<1>1. /\ pc[p] = "use" /\ UNCHANGED mux /\ p \notin Closers
      /\ UNCHANGED <<cached, order, due, closing, stmts, conns>>
  BY DEF Use, store, Calls, CallOK
<1>2. StoreTypes' /\ CachedUsable' /\ CachedIds' = CachedIds
  BY <1>1, StoreKept DEF StoreTypes
<1>3. CASE Return(p)
  BY <1>1, <1>2, <1>3, ReturnStep
<1>4. CASE Goto(p, "exec") /\ UNCHANGED <<query, ref>>
  <2>1. CallTypes' /\ Only(p) /\ pc'[p] = "exec" /\ query'[p] = query[p] /\ ref'[p] = ref[p]
    BY <1>4, Moved DEF Labels
  <2>2. CallOK(p)'
    BY <1>1, <2>1 DEF Calls, CallOK, WithStmt, Preparing, Using
  <2>3. pc'[p] \notin Preparing /\ pc'[p] # "idle" /\ pc[p] # "idle"
    BY <1>1, <2>1 DEF Preparing
  <2> QED
    BY <1>1, <1>2, <2>1, <2>2, <2>3, QuietStep
<1> QED
  BY <1>3, <1>4 DEF Use

LEMMA ExecInv ==
    ASSUME Inv, NEW p \in Procs, Exec(p) \/ ExecBadConn(p) PROVE Inv'
<1> USE DEF Inv
<1>1. /\ pc[p] = "exec" /\ Return(p) /\ UNCHANGED mux /\ UNCHANGED <<stmts, conns>>
      /\ UNCHANGED <<cached, order, due, closing>> \/ Discard({query[p]})
      /\ p \notin Closers
  BY DEF Exec, ExecBadConn, store, Calls, CallOK
<1>2. StoreTypes' /\ CachedUsable' /\ CachedIds' \subseteq CachedIds
  BY <1>1, StoreKept, DiscardKept DEF StoreTypes
<1> QED
  BY <1>1, <1>2, ReturnStep

(* The transaction takes a connection from the pool ...                    *)
LEMMA BeginTxInv ==
    ASSUME Inv, NEW p \in Procs, BeginTx(p) PROVE Inv'
<1> USE DEF Inv
<1>1. /\ p \in TxProcs /\ pc[p] = "idle" /\ conns > 0 /\ conns' = conns - 1
      /\ Goto(p, "intx") /\ UNCHANGED mux
      /\ UNCHANGED <<cached, order, due, closing, stmts, query, ref>>
  BY DEF BeginTx, store
<1>2. CallTypes' /\ Only(p) /\ pc'[p] = "intx"
  BY <1>1, Moved DEF Labels
<1>3. StoreTypes' /\ CachedUsable' /\ CachedIds' = CachedIds
  BY <1>1, StoreKept DEF StoreTypes
<1>4. \A r \in Procs : Undisturbed(r)
  <2>1. \A i : Same(i)
    BY <1>1 DEF Same
  <2>2. \A r \in Procs : pc[r] = "publish" => ref[r] \notin CachedIds'
    BY <1>3 DEF Calls, CallOK
  <2> QED
    BY <2>1, <2>2 DEF Undisturbed, Same
<1>5. CallOK(p)' /\ pc'[p] \notin Preparing
  BY <1>1, <1>2, Disjoint DEF CallOK, WithStmt, Preparing, Using
<1>6. Calls' /\ OnePreparer'
  BY <1>2, <1>4, <1>5, CallsKept, PreparerKept
<1>7. Conns'
  <2>1. Busy' = Busy \cup {p} /\ p \notin Busy
    BY <1>1, <1>2 DEF Busy, Only, Procs
  <2>2. IsFiniteSet(Busy') /\ Cardinality(Busy') = Cardinality(Busy) + 1
    BY <2>1, FS_AddElement DEF Conns
  <2>3. Cardinality(Busy) \in Nat
    BY FS_CardinalityType DEF Conns
  <2> QED
    BY <1>1, <2>2, <2>3 DEF Conns
<1>8. Opened' /\ MuxTypes' /\ stmts' \in [StmtIds -> Stmt]
  BY <1>1, MuxKept DEF Opened
<1> QED
  BY <1>2, <1>3, <1>6, <1>7, <1>8

(* ... and gives it back when it ends, which closes what it prepared.      *)
LEMMA EndTxInv ==
    ASSUME Inv, NEW p \in Procs, EndTx(p) PROVE Inv'
<1> USE DEF Inv
<1>1. /\ p \in TxProcs /\ pc[p] = "intx" /\ conns' = conns + 1 /\ Goto(p, "idle")
      /\ UNCHANGED mux /\ UNCHANGED <<cached, order, due, closing, query, ref>>
      /\ stmts' = [i \in StmtIds |->
                     IF stmts[i].owner = p /\ stmts[i].transaction /\ stmts[i].handle = "open"
                     THEN [stmts[i] EXCEPT !.handle = "closed"] ELSE stmts[i]]
  BY DEF EndTx, store
<1>2. CallTypes' /\ Only(p) /\ pc'[p] = "idle"
  BY <1>1, Moved DEF Labels
<1>3. ASSUME NEW i \in StmtIds
      PROVE  /\ stmts'[i] \in Stmt /\ Same(i)
             /\ stmts'[i].handle = "nil" <=> stmts[i].handle = "nil"
             /\ ~stmts[i].transaction => stmts'[i].handle = stmts[i].handle
  <2>1. CASE stmts[i].owner = p /\ stmts[i].transaction /\ stmts[i].handle = "open"
    <3>1. stmts'[i] = [stmts[i] EXCEPT !.handle = "closed"]
      BY <1>1, <2>1
    <3> QED
      BY <2>1, <3>1, StmtType DEF Stmt, Same
  <2>2. CASE ~(stmts[i].owner = p /\ stmts[i].transaction /\ stmts[i].handle = "open")
    <3>1. stmts'[i] = stmts[i]
      BY <1>1, <2>2
    <3> QED
      BY <3>1, StmtType DEF Same
  <2> QED
    BY <2>1, <2>2
<1>4. stmts' \in [StmtIds -> Stmt]
  <2>1. DOMAIN stmts' = StmtIds /\ stmts' = [i \in StmtIds |-> stmts'[i]]
    BY <1>1
  <2> QED
    BY <1>3, <2>1
<1>5. CachedIds' = CachedIds /\ Live' = Live /\ StoreTypes' /\ MuxTypes'
  BY <1>1, MuxKept DEF CachedIds, Live, StoreTypes
<1>6. \A r \in Procs : Undisturbed(r)
  <2> TAKE r \in Procs
  <2>1. pc[r] \in WithStmt => ref[r] \in StmtIds
    BY DEF Calls, CallOK
  <2>2. pc[r] \in WithStmt => Same(ref[r])
    BY <1>3, <2>1
  <2> QED
    BY <1>5, <2>2 DEF Undisturbed, Same, Calls, CallOK
<1>7. CallOK(p)' /\ pc'[p] \notin Preparing
  BY <1>2 DEF CallOK, WithStmt, Preparing, Using
<1>8. Calls' /\ OnePreparer'
  BY <1>2, <1>6, <1>7, CallsKept, PreparerKept
<1>9. Conns'
  <2>1. Busy' = Busy \ {p} /\ p \in Busy
    BY <1>1, <1>2 DEF Busy, Only, Procs
  <2>2. IsFiniteSet(Busy') /\ Cardinality(Busy') = Cardinality(Busy) - 1
    BY <2>1, FS_RemoveElement DEF Conns
  <2>3. Cardinality(Busy) \in Nat /\ Cardinality(Busy') \in Nat
    BY <2>2, FS_CardinalityType DEF Conns
  <2> QED
    BY <1>1, <2>2, <2>3 DEF Conns
<1>10. Opened'
  BY <1>3 DEF Opened, Same
<1>11. CachedUsable'
  <2>1. \A q \in Live : cached[q] \in StmtIds
    BY DEF StoreTypes
  <2>2. ASSUME NEW q \in Live
        PROVE  /\ stmts'[cached[q]].key = q /\ cached[q] \notin closing
               /\ stmts'[cached[q]].prepared =>
                     ~stmts'[cached[q]].err
                     /\ (stmts'[cached[q]].transaction \/ stmts'[cached[q]].handle = "open")
    <3>1. /\ Same(cached[q])
          /\ ~stmts[cached[q]].transaction => stmts'[cached[q]].handle = stmts[cached[q]].handle
      BY <1>3, <2>1
    <3> QED
      BY <3>1 DEF CachedUsable, Same
  <2> QED
    BY <1>1, <1>5, <2>2 DEF CachedUsable
<1> QED
  BY <1>2, <1>4, <1>5, <1>8, <1>9, <1>10, <1>11

LEMMA CloseCallInv ==
    ASSUME Inv, NEW p \in Procs, CloseCall(p) PROVE Inv'
<1> USE DEF Inv
<1>1. /\ p \in Closers /\ p \notin TxProcs /\ Goto(p, "lock") /\ UNCHANGED mux
      /\ UNCHANGED <<cached, order, due, closing, stmts, conns, query, ref>>
  BY Disjoint DEF CloseCall, store
<1>2. CallTypes' /\ Only(p) /\ pc'[p] = "lock"
  BY <1>1, Moved DEF Labels
<1>3. StoreTypes' /\ CachedUsable' /\ CachedIds' = CachedIds
  BY <1>1, StoreKept DEF StoreTypes
<1>4. CallOK(p)' /\ pc'[p] \notin Preparing
  BY <1>1, <1>2 DEF CallOK, WithStmt, Preparing, Using
<1> QED
  BY <1>1, <1>2, <1>3, <1>4, QuietStep

LEMMA CloseStoreInv ==
    ASSUME Inv, NEW p \in Procs, CloseStore(p) PROVE Inv'
<1> USE DEF Inv
<1>1. /\ pc[p] = "close" /\ Discard(Live \ due) /\ Unlock /\ Goto(p, "idle")
      /\ UNCHANGED <<stmts, conns, query, ref>> /\ p \notin TxProcs
  BY Disjoint DEF CloseStore, Calls, CallOK
<1>2. CallTypes' /\ Only(p) /\ pc'[p] = "idle"
  BY <1>1, Moved DEF Labels
<1>3. StoreTypes' /\ CachedUsable' /\ CachedIds' \subseteq CachedIds
  BY <1>1, DiscardKept
<1>4. CallOK(p)' /\ pc'[p] \notin Preparing
  BY <1>2 DEF CallOK, WithStmt, Preparing, Using
<1> QED
  BY <1>1, <1>2, <1>3, <1>4, QuietStep

-----------------------------------------------------------------------------
(* What runs in the background.                                            *)

LEMMA BackStep ==
    ASSUME Inv, UNCHANGED <<pc, query, ref, conns>>, UNCHANGED mux,
           StoreTypes', stmts' \in [StmtIds -> Stmt], \A i \in StmtIds : Same(i),
           CachedIds' \subseteq CachedIds, Opened', CachedUsable'
    PROVE  Inv'
<1> USE DEF Inv
<1>1. CallTypes' /\ MuxTypes'
  BY DEF CallTypes, MuxTypes, mux
<1>2. ASSUME NEW r \in Procs PROVE CallOK(r)'
  <2>1. pc[r] \in WithStmt => ref[r] \in StmtIds
    BY DEF Calls, CallOK
  <2>2. Undisturbed(r)
    BY <2>1 DEF Undisturbed, Same, Calls, CallOK
  <2> QED
    BY <2>2, CallKept DEF Calls
<1>3. Calls' /\ OnePreparer'
  BY <1>2 DEF Calls, OnePreparer
<1>4. Conns'
  BY DEF Conns, Busy
<1> QED
  BY <1>1, <1>3, <1>4

LEMMA CloseStmtInv ==
    ASSUME Inv, NEW i \in StmtIds, CloseStmt(i) PROVE Inv'
<1> USE DEF Inv
<1>1. /\ i \in closing /\ closing' = closing \ {i} /\ UNCHANGED mux
      /\ UNCHANGED <<cached, order, due, conns, pc, query, ref>>
      /\ stmts' = [stmts EXCEPT ![i] = [stmts[i] EXCEPT !.handle =
                     IF stmts[i].handle = "open" THEN "closed" ELSE stmts[i].handle]]
  BY DEF CloseStmt
<1>2. PICK s : s = [stmts[i] EXCEPT !.handle =
                     IF stmts[i].handle = "open" THEN "closed" ELSE stmts[i].handle]
  OBVIOUS
<1>3. /\ s \in Stmt /\ s.key = stmts[i].key /\ s.transaction = stmts[i].transaction
      /\ s.prepared = stmts[i].prepared /\ s.err = stmts[i].err
      /\ s.handle = "nil" <=> stmts[i].handle = "nil"
  BY <1>2, StmtType DEF Stmt
<1>4. /\ stmts' \in [StmtIds -> Stmt] /\ stmts'[i] = s
      /\ \A j \in StmtIds \ {i} : stmts'[j] = stmts[j]
  BY <1>1, <1>2, <1>3
<1>5. \A j \in StmtIds : Same(j)
  BY <1>3, <1>4 DEF Same
<1>6. Live' = Live /\ CachedIds' = CachedIds /\ StoreTypes'
  BY <1>1 DEF CachedIds, Live, StoreTypes
<1>7. Opened'
  BY <1>3, <1>4 DEF Opened
<1>8. CachedUsable'
  <2>1. \A q \in Live : cached[q] \in StmtIds \ {i}
    BY <1>1 DEF StoreTypes, CachedUsable
  <2>2. \A q \in Live : stmts'[cached[q]] = stmts[cached[q]]
    BY <1>4, <2>1
  <2>3. \A q \in Live :
            /\ stmts'[cached[q]].key = q /\ cached[q] \notin closing'
            /\ stmts'[cached[q]].prepared =>
                  ~stmts'[cached[q]].err
                  /\ (stmts'[cached[q]].transaction \/ stmts'[cached[q]].handle = "open")
    BY <1>1, <2>2 DEF CachedUsable
  <2> QED
    BY <1>1, <1>6, <2>3 DEF CachedUsable
<1> QED
  BY <1>1, <1>4, <1>5, <1>6, <1>7, <1>8, BackStep

LEMMA AgeCleanInv ==
    ASSUME Inv, NEW q \in Queries, Age(q) \/ Clean(q) PROVE Inv'
<1> USE DEF Inv
<1>1. /\ UNCHANGED <<stmts, conns, pc, query, ref>> /\ UNCHANGED mux
      /\ \/ q \in Live \ due /\ due' = due \cup {q} /\ UNCHANGED <<cached, order, closing>>
         \/ Discard({q})
  BY DEF Age, Clean
<1>2. StoreTypes' /\ CachedUsable' /\ CachedIds' \subseteq CachedIds
  <2>1. CASE q \in Live \ due /\ due' = due \cup {q} /\ UNCHANGED <<cached, order, closing>>
    BY <1>1, <2>1 DEF StoreTypes, CachedUsable, CachedIds, Live
  <2>2. CASE Discard({q})
    BY <1>1, <2>2, DiscardKept
  <2> QED
    BY <1>1, <2>1, <2>2
<1>3. Opened' /\ stmts' \in [StmtIds -> Stmt] /\ \A i \in StmtIds : Same(i)
  BY <1>1 DEF Opened, Same
<1> QED
  BY <1>1, <1>2, <1>3, BackStep

LEMMA UnchangedInv ==
    ASSUME Inv, UNCHANGED vars PROVE Inv'
<1> USE DEF Inv
<1>1. /\ UNCHANGED <<pc, query, ref, conns, stmts>> /\ UNCHANGED mux
      /\ UNCHANGED <<cached, order, due, closing>>
  BY DEF vars, mux
<1>2. StoreTypes' /\ CachedUsable' /\ CachedIds' = CachedIds
  BY <1>1, StoreKept DEF StoreTypes
<1>3. Opened' /\ \A i \in StmtIds : Same(i)
  BY <1>1 DEF Opened, Same
<1> QED
  BY <1>1, <1>2, <1>3, BackStep

LEMMA StepInv ==
    ASSUME Inv, NEW p \in Procs, Step(p) \/ OnConn(p) PROVE Inv'
<1>1. CASE Drain(p) \/ Get1(p) \/ Wait1(p) \/ Get2(p) \/ Wait2(p)
  BY <1>1, DrainInv, Get1Inv, WaitInv, Get2Inv
<1>2. CASE New(p) \/ Forget(p) \/ Publish(p) \/ Use(p) \/ CloseStore(p)
  BY <1>2, NewInv, ForgetInv, PublishInv, UseInv, CloseStoreInv
<1>3. CASE Prepare(p) \/ PrepareFails(p) \/ Exec(p) \/ ExecBadConn(p)
  BY <1>3, PrepareInv, PrepareFailsInv, ExecInv
<1> QED
  BY <1>1, <1>2, <1>3 DEF Step, OnConn

LEMMA NextInv == Inv /\ [Next]_vars => Inv'
<1> SUFFICES ASSUME Inv, [Next]_vars PROVE Inv'
  OBVIOUS
<1>1. ASSUME NEW p \in Procs, NEW q \in Queries, Call(p, q) PROVE Inv'
  BY <1>1, CallInv
<1>2. ASSUME NEW p \in Procs,
             Step(p) \/ Lock(p) \/ OnConn(p) \/ BeginTx(p) \/ EndTx(p) \/ CloseCall(p)
      PROVE  Inv'
  BY <1>2, StepInv, LockInv, BeginTxInv, EndTxInv, CloseCallInv
<1>3. ASSUME NEW i \in StmtIds, CloseStmt(i) PROVE Inv'
  BY <1>3, CloseStmtInv
<1>4. ASSUME NEW q \in Queries, Age(q) \/ Clean(q) PROVE Inv'
  BY <1>4, AgeCleanInv
<1>5. CASE UNCHANGED vars
  BY <1>5, UnchangedInv
<1> QED
  BY <1>1, <1>2, <1>3, <1>4, <1>5 DEF Next

(* The inductive invariant holds whatever the goroutines, transactions,    *)
(* callers of Close and the cleanup do.                                    *)
THEOREM PreparedInv == Spec => []Inv
  BY InitInv, NextInv, PTL DEF Spec

-----------------------------------------------------------------------------
(* The properties of PreparedStmt.                                         *)

(* Every variable keeps its type; in particular the transactions and the   *)
(* pool account for every connection (prepare_stmt.go:88-107, 156-168).    *)
THEOREM PreparedTypes == Spec => []TypeOK
<1>1. Inv => TypeOK
  <2> SUFFICES ASSUME Inv PROVE TypeOK
    OBVIOUS
  <2>1. conns \in 0..MaxConns
    <3>1. /\ conns \in Nat /\ Cardinality(Busy) \in Nat /\ MaxConns \in Nat
          /\ conns + Cardinality(Busy) = MaxConns
      BY BoundsAssumption, FS_CardinalityType DEF Inv, Conns
    <3> QED
      BY <3>1
  <2> QED
    BY <2>1 DEF Inv, TypeOK, StoreTypes, MuxTypes, CallTypes
<1> QED
  BY <1>1, PreparedInv, PTL

(* Nobody executes a statement of another query, one whose preparation     *)
(* failed or, outside of transactions, one of a transaction; and what the  *)
(* store holds is fit for the next caller, whatever is evicted, expires or *)
(* is closed meanwhile (prepare_stmt.go:66-107, stmt_store.go:126-183).    *)
THEOREM PreparedHandlesUsable == Spec => []HandlesUsable
<1>1. Inv => HandlesUsable
  <2> SUFFICES ASSUME Inv PROVE HandlesUsable
    OBVIOUS
  <2>1. ASSUME NEW p \in Procs, pc[p] \in {"use", "exec"}
        PROVE  /\ ref[p] # None
               /\ stmts[ref[p]].prepared /\ ~ stmts[ref[p]].err
               /\ stmts[ref[p]].handle # "nil"
               /\ stmts[ref[p]].key = query[p]
               /\ p \in DbProcs => ~ stmts[ref[p]].transaction
    <3>1. /\ ref[p] \in StmtIds /\ stmts[ref[p]].key = query[p]
          /\ stmts[ref[p]].prepared /\ ~stmts[ref[p]].err
          /\ p \in DbProcs => ~stmts[ref[p]].transaction
      BY <2>1 DEF Inv, Calls, CallOK, WithStmt, Using
    <3>2. ref[p] # None
      BY <3>1, ProcsAssumption
    <3> QED
      BY <3>1, <3>2 DEF Inv, Opened
  <2>2. Usable
    BY <2>1 DEF Usable
  <2> QED
    BY <2>2 DEF Inv, HandlesUsable
<1> QED
  BY <1>1, PreparedInv, PTL

-----------------------------------------------------------------------------
(* No handle leaks while no entry outlives its ttl.  The write lock is     *)
(* held from the second lookup to the insertion, so that New finds the     *)
(* query still missing, or its statement one of a transaction.             *)
Locked == {"drain", "get2", "wait2", "new", "close"}

HoldOK(p) ==
    /\ pc[p] \in Locked => writer = p
    /\ pc[p] = "wait2" => query[p] \notin Live \/ cached[query[p]] = ref[p]
    /\ pc[p] = "new" => query[p] \notin Live \/ stmts[cached[query[p]]].transaction
    /\ pc[p] = "prep" /\ p \notin TxProcs => ref[p] \in CachedIds \cup closing

Tight == /\ Inv /\ due = {} /\ NoLeak
         /\ \A p \in Procs : HoldOK(p)

LEMMA HoldKept ==
    ASSUME NEW r \in Procs, HoldOK(r), pc'[r] = pc[r], query'[r] = query[r], ref'[r] = ref[r],
           pc[r] \in Locked => writer' = writer,
           pc[r] \in {"wait2", "new"} =>
               \A q \in Live' : /\ q \in Live /\ cached'[q] = cached[q]
                                /\ stmts'[cached[q]].transaction = stmts[cached[q]].transaction,
           pc[r] = "prep" /\ r \notin TxProcs /\ ref[r] \in CachedIds \cup closing =>
               ref[r] \in CachedIds' \cup closing'
    PROVE  HoldOK(r)'
<1>1. pc'[r] \in Locked => writer' = r
  BY DEF HoldOK
<1>2. pc'[r] = "wait2" => query'[r] \notin Live' \/ cached'[query'[r]] = ref'[r]
  BY DEF HoldOK
<1>3. pc'[r] = "new" => query'[r] \notin Live' \/ stmts'[cached'[query'[r]]].transaction
  BY DEF HoldOK
<1>4. pc'[r] = "prep" /\ r \notin TxProcs => ref'[r] \in CachedIds' \cup closing'
  BY DEF HoldOK
<1> QED
  BY <1>1, <1>2, <1>3, <1>4 DEF HoldOK

(* What is discarded is about to be closed.                                *)
LEMMA DiscardCloses ==
    ASSUME NEW S, Discard(S)
    PROVE  /\ CachedIds \cup closing \subseteq CachedIds' \cup closing'
           /\ \A q \in Live' : q \in Live /\ cached'[q] = cached[q]
           /\ due' \subseteq due
<1>1. /\ cached' = [q \in Live \ S |-> cached[q]] /\ due' = due \ S
      /\ closing' = closing \cup {cached[q] : q \in S \cap Live}
  BY DEF Discard
<1>2. Live' = Live \ S /\ \A q \in Live \ S : cached'[q] = cached[q]
  BY <1>1 DEF Live
<1>3. ASSUME NEW q \in Live PROVE cached[q] \in CachedIds' \cup closing'
  <2>1. CASE q \in S
    BY <1>1, <2>1
  <2>2. CASE q \notin S
    BY <1>2, <2>2 DEF CachedIds
  <2> QED
    BY <2>1, <2>2
<1> QED
  BY <1>1, <1>2, <1>3 DEF CachedIds

(* No statement changes, none leaves the store but to be closed, and only  *)
(* p moves, which gives up the write lock only if it has it.               *)
LEMMA TightStep ==
    ASSUME Tight, Inv', NEW p \in Procs, Only(p), HoldOK(p)', UNCHANGED stmts,
           UNCHANGED <<cached, due, closing>> \/ (\E S : Discard(S)),
           writer' = writer \/ writer = None \/ pc[p] \in Locked
    PROVE  Tight'
<1> USE DEF Tight
<1>1. /\ CachedIds \cup closing \subseteq CachedIds' \cup closing'
      /\ \A q \in Live' : q \in Live /\ cached'[q] = cached[q]
      /\ due' \subseteq due
  <2>1. CASE UNCHANGED <<cached, due, closing>>
    BY <2>1 DEF CachedIds, Live
  <2>2. CASE \E S : Discard(S)
    BY <2>2, DiscardCloses
  <2> QED
    BY <2>1, <2>2
<1>2. ASSUME NEW r \in Procs \ {p} PROVE HoldOK(r)'
  <2>1. pc[r] \in Locked => writer = r /\ writer' = writer
    <3>1. pc[r] \in Locked => writer = r
      BY DEF HoldOK
    <3>2. pc[p] \in Locked => writer = p
      BY DEF HoldOK
    <3>3. r # None
      BY ProcsAssumption DEF Procs
    <3> QED
      BY <3>1, <3>2, <3>3
  <2> QED
    BY <1>1, <2>1, HoldKept DEF Only
<1>3. \A r \in Procs : HoldOK(r)'
  BY <1>2
<1>4. NoLeak'
  BY <1>1 DEF NoLeak
<1> QED
  BY <1>1, <1>3, <1>4

(* Goroutine p is where nothing is asked of it.                            *)
LEMMA Free ==
    ASSUME NEW p, pc'[p] \notin Locked \cup {"prep"}
    PROVE  HoldOK(p)'
  BY DEF HoldOK, Locked

LEMMA TightInit == Init => due = {} /\ NoLeak /\ \A p \in Procs : HoldOK(p)
<1> SUFFICES ASSUME Init PROVE due = {} /\ NoLeak /\ \A p \in Procs : HoldOK(p)
  OBVIOUS
<1>1. due = {} /\ \A p \in Procs : pc[p] = "idle"
  BY DEF Init
<1>2. \A i \in StmtIds : stmts[i].handle = "nil"
  BY DEF Init, Unused
<1> QED
  BY <1>1, <1>2 DEF NoLeak, HoldOK, Locked

(* Steps that begin or end a part of a call without the write lock.        *)
LEMMA LooseTight ==
    ASSUME Tight, Inv', NEW p \in Procs,
           \/ \E q \in Queries : Call(p, q)
           \/ Get1(p) \/ Wait1(p) \/ Use(p) \/ Forget(p) \/ Exec(p) \/ ExecBadConn(p)
           \/ BeginTx(p) \/ CloseCall(p) \/ CloseStore(p)
    PROVE  Tight'
<1>1. CallTypes
  BY DEF Tight, Inv
<1>2. UNCHANGED stmts /\ (UNCHANGED <<cached, due, closing>> \/ \E S : Discard(S))
  BY DEF Call, Get1, Wait1, Use, Forget, Exec, ExecBadConn, BeginTx, CloseCall, CloseStore, store
<1>3. writer' = writer \/ pc[p] \in Locked
  BY DEF Call, Get1, Wait1, Use, Forget, Exec, ExecBadConn, BeginTx, CloseCall, CloseStore,
         RLock, RUnlock, mux, Locked
<1>4. Only(p) /\ pc'[p] \notin Locked \cup {"prep"}
  <2>1. CASE Return(p)
    BY <1>1, <2>1, Returned DEF Locked
  <2>2. CASE \E l \in Labels \ (Locked \cup {"prep"}) : Goto(p, l) /\ UNCHANGED <<query, ref>>
    BY <1>1, <2>2, Moved
  <2>3. CASE \E q \in Queries : Call(p, q)
    <3>1. PICK q \in Queries : Goto(p, "get1") /\ query' = [query EXCEPT ![p] = q] /\ ref' = ref
      BY <2>3 DEF Call
    <3> QED
      BY <1>1, <3>1 DEF CallTypes, Goto, Only, Locked
  <2>4. CASE Get1(p) \/ Wait1(p)
    <3>1. CASE \E l \in {"wait1", "lock", "use"} : Goto(p, l) /\ query' = query
               /\ (ref' = ref \/ \E i : ref' = [ref EXCEPT ![p] = i])
      BY <1>1, <3>1 DEF CallTypes, Goto, Only, Locked
    <3> QED
      BY <2>1, <2>4, <3>1 DEF Get1, Wait1
  <2>5. CASE \/ Use(p) \/ Forget(p) \/ Exec(p) \/ ExecBadConn(p)
             \/ BeginTx(p) \/ CloseCall(p) \/ CloseStore(p)
    <3>1. {"exec", "publish", "intx", "lock", "idle"} \subseteq Labels \ (Locked \cup {"prep"})
      BY DEF Labels, Locked
    <3> QED
      BY <2>1, <2>2, <2>5, <3>1 DEF Use, Forget, Exec, ExecBadConn, BeginTx, CloseCall, CloseStore
  <2> QED
    BY <2>3, <2>4, <2>5
<1>5. HoldOK(p)'
  BY <1>4, Free
<1> QED
  BY <1>2, <1>3, <1>4, <1>5, TightStep

(* Taking the write lock.                                                  *)
LEMMA LockTight ==
    ASSUME Tight, Inv', NEW p \in Procs, Lock(p) \/ Drain(p) PROVE Tight'
<1>1. CallTypes /\ UNCHANGED <<stmts, cached, due, closing, query, ref>>
  BY DEF Tight, Inv, Lock, Drain, store
<1>2. PICK l \in {"drain", "close", "get2"} : Goto(p, l)
  BY DEF Lock, Drain
<1>3. Only(p) /\ pc'[p] = l
  BY <1>1, <1>2, Moved DEF Labels
<1>4. writer' = p /\ (writer' = writer \/ writer = None)
  BY DEF Lock, Drain, Tight, HoldOK, Locked
<1>5. HoldOK(p)'
  BY <1>2, <1>3, <1>4 DEF HoldOK
<1> QED
  BY <1>1, <1>3, <1>4, <1>5, TightStep

(* The second lookup finds nothing, or what it waits for.                  *)
LEMMA Get2Tight ==
    ASSUME Tight, Inv', NEW p \in Procs, Get2(p) PROVE Tight'
<1>1. /\ CallTypes /\ pc[p] = "get2" /\ due = {}
      /\ UNCHANGED <<stmts, cached, due, closing, query, writer>>
  BY DEF Tight, Inv, Get2, mux
<1>2. Live' = Live /\ writer = p
  BY <1>1 DEF Live, Tight, HoldOK, Locked
<1>3. CASE Hit(query[p])
  <2>1. Only(p) /\ pc'[p] = "wait2" /\ query'[p] = query[p] /\ ref'[p] = cached[query[p]]
    BY <1>1, <1>3 DEF Get2, CallTypes, Goto, Only
  <2>2. HoldOK(p)'
    BY <1>1, <1>2, <2>1 DEF HoldOK
  <2> QED
    BY <1>1, <2>1, <2>2, TightStep
<1>4. CASE ~Hit(query[p])
  <2>1. Only(p) /\ pc'[p] = "new" /\ query'[p] = query[p]
    BY <1>1, <1>4 DEF Get2, CallTypes, Goto, Only
  <2>2. query[p] \notin Live
    BY <1>1, <1>4 DEF Hit
  <2>3. HoldOK(p)'
    BY <1>1, <1>2, <2>1, <2>2 DEF HoldOK
  <2> QED
    BY <1>1, <2>1, <2>3, TightStep
<1> QED
  BY <1>3, <1>4

LEMMA Wait2Tight ==
    ASSUME Tight, Inv', NEW p \in Procs, Wait2(p) PROVE Tight'
<1>1. /\ CallTypes /\ pc[p] = "wait2" /\ UNCHANGED <<stmts, cached, due, closing>>
      /\ pc[p] \in Locked
  BY DEF Tight, Inv, Wait2, store, Locked
<1>2. CASE Return(p)
  BY <1>1, <1>2, Returned, Free, TightStep DEF Locked
<1>3. CASE Goto(p, "use") /\ UNCHANGED <<query, ref>>
  BY <1>1, <1>3, Moved, Free, TightStep DEF Locked, Labels
<1>4. CASE ~Fits(p) /\ Goto(p, "new") /\ UNCHANGED query /\ ref' = [ref EXCEPT ![p] = None]
           /\ UNCHANGED mux
  <2>1. Only(p) /\ pc'[p] = "new" /\ query'[p] = query[p] /\ writer' = writer
    BY <1>1, <1>4 DEF CallTypes, Goto, Only, mux
  <2>2. writer = p /\ (query[p] \notin Live \/ cached[query[p]] = ref[p])
    BY <1>1 DEF Tight, HoldOK
  <2>3. stmts[ref[p]].transaction /\ Live' = Live
    BY <1>1, <1>4 DEF Fits, Live
  <2>4. HoldOK(p)'
    BY <1>1, <2>1, <2>2, <2>3 DEF HoldOK
  <2> QED
    BY <1>1, <2>1, <2>4, TightStep
<1> QED
  BY <1>2, <1>3, <1>4 DEF Wait2

(* Steps that change statements, and no entry of the store: a handle is    *)
(* opened only where the store, or a goroutine that closes it, has it.     *)
LEMMA HandleTight ==
    ASSUME Tight, Inv', NEW p \in Procs, Only(p), UNCHANGED <<cached, due, closing, writer>>,
           pc'[p] \notin Locked \cup {"prep"},
           \A i \in StmtIds :
               /\ stmts'[i].transaction = stmts[i].transaction
               /\ stmts'[i].handle = "open" /\ ~stmts[i].transaction =>
                      stmts[i].handle = "open" \/ i \in CachedIds \cup closing
    PROVE  Tight'
<1>1. CachedIds' = CachedIds /\ Live' = Live /\ \A q \in Live : cached[q] \in StmtIds
  BY DEF CachedIds, Live, Tight, Inv, StoreTypes
<1>2. ASSUME NEW r \in Procs PROVE HoldOK(r)'
  <2>1. CASE r = p
    BY <2>1, Free
  <2>2. CASE r # p
    BY <1>1, <2>2, HoldKept DEF Only, Tight
  <2> QED
    BY <2>1, <2>2
<1>3. NoLeak'
  BY <1>1 DEF Tight, NoLeak
<1> QED
  BY <1>2, <1>3 DEF Tight

LEMMA PrepareTight ==
    ASSUME Tight, Inv', NEW p \in Procs, Prepare(p) \/ PrepareFails(p) \/ Publish(p)
    PROVE  Tight'
<1>1. /\ UNCHANGED <<cached, due, closing, writer>> /\ CallTypes /\ pc[p] \in {"prep", "publish"}
      /\ stmts \in [StmtIds -> Stmt]
  BY DEF Tight, Inv, Prepare, PrepareFails, Publish, store, mux
<1>2. /\ ref[p] \in StmtIds /\ (stmts[ref[p]].transaction <=> p \in TxProcs)
      /\ (pc[p] = "prep" /\ p \notin TxProcs => ref[p] \in CachedIds \cup closing)
  BY <1>1 DEF Tight, Inv, Calls, CallOK, WithStmt, Preparing, HoldOK
<1>3. Only(p) /\ pc'[p] \notin Locked \cup {"prep"}
  <2>1. CASE Return(p)
    BY <1>1, <2>1, Returned DEF Locked
  <2>2. CASE \E l \in {"use", "forget"} : Goto(p, l) /\ UNCHANGED <<query, ref>>
    BY <1>1, <2>2, Moved DEF Labels, Locked
  <2> QED
    BY <2>1, <2>2 DEF Prepare, PrepareFails, Publish
<1>4. \E s : /\ stmts' = [stmts EXCEPT ![ref[p]] = s]
             /\ s.transaction = stmts[ref[p]].transaction
             /\ s.handle = stmts[ref[p]].handle \/ pc[p] = "prep"
  <2>1. stmts[ref[p]] \in Stmt
    BY <1>1, <1>2
  <2>2. CASE Prepare(p)
    <3>1. PICK s : s = [stmts[ref[p]] EXCEPT !.handle = "open", !.prepared = TRUE]
      OBVIOUS
    <3>2. s.transaction = stmts[ref[p]].transaction
      BY <2>1, <3>1 DEF Stmt
    <3> QED
      BY <2>2, <3>1, <3>2 DEF Prepare
  <2>3. CASE PrepareFails(p)
    <3>1. PICK s : s = [stmts[ref[p]] EXCEPT !.err = TRUE]
      OBVIOUS
    <3>2. s.transaction = stmts[ref[p]].transaction
      BY <2>1, <3>1 DEF Stmt
    <3> QED
      BY <2>3, <3>1, <3>2 DEF PrepareFails
  <2>4. CASE Publish(p)
    <3>1. PICK s : s = [stmts[ref[p]] EXCEPT !.prepared = TRUE]
      OBVIOUS
    <3>2. s.transaction = stmts[ref[p]].transaction /\ s.handle = stmts[ref[p]].handle
      BY <2>1, <3>1 DEF Stmt
    <3> QED
      BY <2>4, <3>1, <3>2 DEF Publish
  <2> QED
    BY <2>2, <2>3, <2>4
<1>5. ASSUME NEW i \in StmtIds
      PROVE  /\ stmts'[i].transaction = stmts[i].transaction
             /\ stmts'[i].handle = "open" /\ ~stmts[i].transaction =>
                    stmts[i].handle = "open" \/ i \in CachedIds \cup closing
  BY <1>1, <1>2, <1>4
<1> QED
  BY <1>1, <1>3, <1>5, HandleTight

LEMMA EndTxTight ==
    ASSUME Tight, Inv', NEW p \in Procs, EndTx(p) PROVE Tight'
<1>1. /\ UNCHANGED <<cached, due, closing, writer>> /\ CallTypes /\ stmts \in [StmtIds -> Stmt]
      /\ Goto(p, "idle") /\ UNCHANGED <<query, ref>>
      /\ stmts' = [i \in StmtIds |->
                     IF stmts[i].owner = p /\ stmts[i].transaction /\ stmts[i].handle = "open"
                     THEN [stmts[i] EXCEPT !.handle = "closed"] ELSE stmts[i]]
  BY DEF Tight, Inv, EndTx, store, mux
<1>2. Only(p) /\ pc'[p] \notin Locked \cup {"prep"}
  BY <1>1, Moved DEF Labels, Locked
<1>3. ASSUME NEW i \in StmtIds
      PROVE  /\ stmts'[i].transaction = stmts[i].transaction
             /\ stmts'[i].handle = "open" => stmts[i].handle = "open"
  BY <1>1, StmtType DEF Stmt
<1> QED
  BY <1>1, <1>2, <1>3, HandleTight

(* What is closed had been prepared, so nobody is preparing it.            *)
LEMMA CloseStmtTight ==
    ASSUME Tight, Inv', NEW i \in StmtIds, CloseStmt(i) PROVE Tight'
<1>1. /\ UNCHANGED <<cached, due, writer, pc, query, ref>> /\ stmts \in [StmtIds -> Stmt]
      /\ closing' = closing \ {i} /\ stmts[i].prepared
      /\ stmts' = [stmts EXCEPT ![i] = [stmts[i] EXCEPT !.handle =
                     IF stmts[i].handle = "open" THEN "closed" ELSE stmts[i].handle]]
  BY DEF Tight, Inv, CloseStmt, mux
<1>2. CachedIds' = CachedIds /\ Live' = Live /\ \A q \in Live : cached[q] \in StmtIds
  BY <1>1 DEF CachedIds, Live, Tight, Inv, StoreTypes
<1>3. /\ stmts'[i].transaction = stmts[i].transaction /\ stmts'[i].handle # "open"
      /\ \A j \in StmtIds \ {i} : stmts'[j] = stmts[j]
  BY <1>1, StmtType DEF Stmt
<1>4. ASSUME NEW r \in Procs PROVE HoldOK(r)'
  <2>1. pc[r] = "prep" => ref[r] # i
    BY <1>1 DEF Tight, Inv, Calls, CallOK, Preparing
  <2> QED
    BY <1>1, <1>2, <1>3, <2>1, HoldKept DEF Tight
<1>5. NoLeak'
  BY <1>1, <1>2, <1>3 DEF Tight, NoLeak
<1> QED
  BY <1>1, <1>4, <1>5 DEF Tight

(* The entry that New replaces, if there is one, is a transaction's.       *)
LEMMA NewTight ==
    ASSUME Tight, Inv', NEW p \in Procs, New(p) PROVE Tight'
<1>1. PICK i \in StmtIds, out \in SUBSET Live : Inserted(p, i, out)
  BY NewInserts DEF Tight
<1>2. /\ CallTypes /\ pc[p] = "new"
  BY <1>1 DEF Tight, Inv, Inserted
<1>3. /\ writer = p
      /\ query[p] \in Live => stmts[cached[query[p]]].transaction
  BY <1>2 DEF Tight, HoldOK, Locked
<1>4. Only(p) /\ pc'[p] = "prep" /\ ref'[p] = i
  BY <1>1, <1>2, Referred DEF Labels, Inserted
<1>5. i \in CachedIds'
  BY <1>1 DEF CachedIds, Inserted
<1>6. ASSUME NEW j \in CachedIds \cup closing, j # i, ~stmts[j].transaction
      PROVE  j \in CachedIds' \cup closing'
  <2>1. CASE j \in closing
    BY <1>1, <2>1 DEF Inserted
  <2>2. CASE j \in CachedIds
    <3>1. PICK q \in Live : j = cached[q] /\ q # query[p]
      BY <1>3, <1>6, <2>2 DEF CachedIds
    <3>2. CASE q \in out
      BY <1>1, <3>1, <3>2 DEF Inserted
    <3>3. CASE q \notin out
      <4>1. q \in Live' /\ cached'[q] = j
        BY <1>1, <3>1, <3>3 DEF Inserted
      <4> QED
        BY <4>1 DEF CachedIds
    <3> QED
      BY <3>2, <3>3
  <2> QED
    BY <1>6, <2>1, <2>2
<1>7. NoLeak'
  BY <1>1, <1>5, <1>6 DEF Tight, NoLeak, Inserted
<1>8. ASSUME NEW r \in Procs \ {p} PROVE HoldOK(r)'
  <2>1. pc[r] \notin Locked
    <3>1. r # None
      BY ProcsAssumption DEF Procs
    <3> QED
      BY <1>3, <3>1 DEF Tight, HoldOK
  <2>2. pc[r] = "prep" /\ r \notin TxProcs =>
            ref[r] \in StmtIds /\ ref[r] # i /\ ~stmts[ref[r]].transaction
    BY <1>1 DEF Tight, Inv, Calls, CallOK, WithStmt, Preparing, Inserted
  <2>3. HoldOK(r) /\ pc[r] \notin {"wait2", "new"}
    BY <2>1 DEF Tight, Locked
  <2> QED
    BY <1>4, <1>6, <2>1, <2>2, <2>3, HoldKept DEF Only
<1>9. HoldOK(p)'
  BY <1>4, <1>5 DEF HoldOK, Locked
<1>10. due' = {}
  BY <1>1 DEF Tight, Inserted
<1> QED
  BY <1>7, <1>8, <1>9, <1>10 DEF Tight

LEMMA TightKept ==
    ASSUME Tight, UNCHANGED vars PROVE Tight'
<1>1. Inv'
  BY UnchangedInv DEF Tight
<1>2. /\ UNCHANGED <<cached, due, closing, stmts, writer, pc, query, ref>>
      /\ CachedIds' = CachedIds /\ Live' = Live
  BY DEF vars, CachedIds, Live
<1>3. NoLeak' /\ \A r \in Procs : HoldOK(r)'
  BY <1>2 DEF Tight, NoLeak, HoldOK
<1> QED
  BY <1>1, <1>2, <1>3 DEF Tight

LEMMA TightNext == ~MayExpire /\ Tight /\ [Next]_vars => Tight'
<1> SUFFICES ASSUME ~MayExpire, Tight, [Next]_vars PROVE Tight'
  OBVIOUS
<1>1. Inv'
  BY NextInv DEF Tight
<1>2. ASSUME NEW p \in Procs, NEW q \in Queries, Call(p, q) PROVE Tight'
  BY <1>1, <1>2, LooseTight
<1>3. ASSUME NEW p \in Procs, Step(p) PROVE Tight'
  BY <1>1, <1>3, LockTight, LooseTight, Get2Tight, Wait2Tight, NewTight, PrepareTight DEF Step
<1>4. ASSUME NEW p \in Procs, Lock(p) \/ OnConn(p) PROVE Tight'
  BY <1>1, <1>4, LockTight, PrepareTight, LooseTight DEF OnConn
<1>5. ASSUME NEW p \in Procs, BeginTx(p) \/ EndTx(p) \/ CloseCall(p) PROVE Tight'
  BY <1>1, <1>5, LooseTight, EndTxTight
<1>6. ASSUME NEW i \in StmtIds, CloseStmt(i) PROVE Tight'
  BY <1>1, <1>6, CloseStmtTight
<1>7. ASSUME NEW q \in Queries, Age(q) \/ Clean(q) PROVE FALSE
  BY <1>7 DEF Age, Clean, Tight
<1>8. CASE UNCHANGED vars
  BY <1>8, TightKept
<1> QED
  BY <1>2, <1>3, <1>4, <1>5, <1>6, <1>7, <1>8 DEF Next

(* A handle that was opened outside of transactions is to be found in the  *)
(* store or is being closed, if no entry outlives its ttl                  *)
(* (prepare_stmt.go:66-86, stmt_store.go:91-93, 107-111).                  *)
THEOREM PreparedNoLeak == ~MayExpire => (Spec => []NoLeak)
<1> SUFFICES ASSUME ~MayExpire PROVE Spec => []NoLeak
  OBVIOUS
<1>1. Init => Tight
  BY InitInv, TightInit DEF Tight
<1>2. Tight /\ [Next]_vars => Tight'
  BY TightNext
<1>3. Tight => NoLeak
  BY DEF Tight
<1> QED
  BY <1>1, <1>2, <1>3, PTL DEF Spec
=============================================================================
