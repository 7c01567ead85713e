------------------------------ MODULE Records ------------------------------
(***************************************************************************)
(* A program that uses one table through gorm: it chains conditions onto   *)
(* handles (chainable_api.go, gorm.go), asks, updates and deletes with     *)
(* them (finisher_api.go and gorm/callbacks), on a model with or without a *)
(* DeletedAt field (soft_delete.go, plugin/soft_delete), and ends with one *)
(* of the calls that take several statements, FindInBatches, Save,         *)
(* CreateInBatches or FirstOrCreate, while another client uses the table.  *)
(*                                                                         *)
(* A handle remembers beside its statement the words the program has said  *)
(* on it; Wanted is what the program may expect from them.                 *)
(***************************************************************************)
EXTENDS Chains

CONSTANTS Rows,       \* the rows of the table at the start
          Assigned,   \* what updates set
          Words,      \* what the program says: <<method, condition>>
          MaxId,      \* identifiers of rows end here
          MaxHandles, \* handles in use at once
          MaxCalls,   \* chain methods called
          MaxSent,    \* statements sent by finishers before the last call
          MaxOther,   \* steps of the other client
          MaxBatch,   \* largest batch
          Habits      \* uses of the API that the code answers wrongly

VARIABLES soft,    \* the model has a DeletedAt field
          mem,     \* statements and arrays
          handles, \* the program's handles
          calls,   \* chain methods called so far
          table,   \* the rows
          lastId,  \* the last identifier given to a row
          sent,    \* how many statements were sent, and the one the last step sent
          job,     \* the last call
          others   \* steps of the other client so far
vars == <<soft, mem, handles, calls, table, lastId, sent, job, others>>

KnownHabits == {"or_after_query", "leading_or", "scoped_group", "or_with_key",
                "or_in_batches", "save_with_words", "conds_not_maps"}
ASSUME BoundsAssumption ==
    /\ {MaxId, MaxHandles, MaxCalls, MaxSent, MaxOther, MaxBatch} \subseteq Nat /\ MaxBatch # 0
    /\ Habits \subseteq KnownHabits /\ Assigned \subseteq Atoms
    /\ Words \subseteq {"where", "or", "not", "scope"} \X Atoms
    /\ IsFiniteSet(Rows) /\ Cardinality(Rows) <= MaxId
    /\ Rows \subseteq [id : 1..Cardinality(Rows), is : SUBSET Atoms, gone : BOOLEAN]
    /\ \A r, q \in Rows : r.id = q.id => r = q

Ids    == 1..MaxId
Row    == [id : Ids, is : SUBSET Atoms, gone : BOOLEAN]
Unused == [clone |-> -1, stmt |-> 0, allow |-> FALSE, words |-> <<>>, scopes |-> <<>>,
           unscoped |-> FALSE, asked |-> FALSE]
Root   == [Unused EXCEPT !.clone = 1]
NoJob  == [kind |-> "none", state |-> "none"]

AllWords(h) == h.words \o [i \in DOMAIN h.scopes |-> <<"where", Having(h.scopes[i])>>]
(* Uses that are left out unless the run is about them.                    *)
Fit(habit, bad) == bad => habit \in Habits

-----------------------------------------------------------------------------
(* What a statement does.                                                  *)

FirstOf(n, rows) == {r \in rows : Cardinality({q \in rows : q.id < r.id}) < n}
Picked(b, rows)  == {r \in rows : b.exprs = <<>> \/ Joined(b.mem.arr, b.exprs, r)}
WithKey(m, s, key) == IF key = 0 THEN m ELSE AddWhere(m, s, << <<"key", key>> >>)
Live(m, s)         == IF soft THEN SoftDeleteQuery(m, s) ELSE m

(* Execute and the query callbacks: the key is read after the clause of    *)
(* soft deletion.  ConvertToAssignments does the same for updates.         *)
QueryOn(m, s, key) ==
    Built(WithKey(Live(ExecuteScopes(m, [clone |-> 0, stmt |-> s]), s), s, key), s)
(* Delete: the key is read before it.                                      *)
DeleteOn(m, s, key) ==
    LET m1 == WithKey(ExecuteScopes(m, [clone |-> 0, stmt |-> s]), s, key)
    IN  Built(Live(m1, s), s)
(* checkMissingWhereConditions: the clause of soft deletion is none.       *)
MissingWhere(m, s, allow) ==
    /\ ~allow
    /\ Len(WhereOf(m, s)) <= (IF m.stmts[s].softDelete THEN 1 ELSE 0)

(* What the program may expect of a statement.                             *)
Wanted(q, rows) ==
    LET words == AllWords(q)
        all   == {r \in rows : /\ q.key # 0 => r.id = q.key
                               /\ r.id > q.after
                               /\ soft /\ ~q.unscoped => ~r.gone
                               /\ r.is \in Means(words)}
        rest  == all \ FirstOf(q.skip, all)
    IN  IF q.writes /\ words = <<>> /\ q.key = 0 /\ ~q.allow THEN {}
        ELSE IF q.limit = 0 THEN rest ELSE FirstOf(q.limit, rest)

(* The statement that a finisher sends for the handle h.                   *)
Said(h, writes, key, limit) ==
    [words |-> h.words, scopes |-> h.scopes, unscoped |-> h.unscoped, allow |-> h.allow,
     writes |-> writes, key |-> key, limit |-> limit, after |-> 0, skip |-> 0]
Quiet         == sent' = [n |-> sent.n]
Send(q, rows) == sent' = [n |-> sent.n + 1, q |-> q, rows |-> rows]
(* Or binds less than AND: the key that is added holds for the last words. *)
KeyFits(h, key, late) == Fit("or_with_key", key # 0 /\ late /\ HasOr(h.words))

-----------------------------------------------------------------------------
(* Chaining.                                                               *)

Working == job.kind = "none"
Used    == {h \in 1..MaxHandles : handles[h].clone # -1}
Free    == {h \in 1..MaxHandles : handles[h].clone = -1}
(* The memory that the program's handles still reach.                      *)
Kept(m, hs) == Swept(m, {hs[h].stmt : h \in {k \in 1..MaxHandles : hs[k].clone \in {0, 2}}})

(* The chain method ends with the statement s of h's instance in m.        *)
Chained(h, m, s, said, drop) ==
    /\ Working /\ calls < MaxCalls
    /\ calls' = calls + 1
    /\ LET dropped == [handles EXCEPT ![drop] = IF @.clone = 0 THEN Unused ELSE @]
           t       == IF handles[h].clone = 0 THEN h ELSE Least(Free)
       IN  /\ handles[h].clone = 0 \/ Free # {}
           /\ handles' = [dropped EXCEPT ![t] = [said EXCEPT !.clone = 0, !.stmt = s]]
           /\ mem' = Kept(m, handles')
    /\ Quiet /\ UNCHANGED <<soft, table, lastId, job, others>>
WordFits(h, op) ==
    /\ Fit("leading_or", op = "or" /\ handles[h].words = <<>>)
    /\ Fit("or_after_query", soft /\ handles[h].asked /\ (op = "or" \/ HasOr(handles[h].words)))

(* Where, Or and Not with a condition on a column.                         *)
Where(h, op, x) ==
    /\ WordFits(h, op)
    /\ LET i == GetInstance(mem, handles[h])
           e == << <<IF op = "not" THEN "not" ELSE "is", x>> >>
       IN  Chained(h, AddConds(i.mem, i.stmt, IF op = "or" THEN "or" ELSE "where", e), i.stmt,
                   [handles[h] EXCEPT !.words = Append(@, <<op, Having(x)>>)], h)

(* Where and Or with another handle: a group of conditions.                *)
WhereGroup(h, op, g) ==
    /\ g # h /\ handles[g].words \o handles[g].scopes # <<>>
    /\ WordFits(h, op)
    /\ Fit("or_after_query", soft /\ handles[g].asked)
    /\ Fit("scoped_group", handles[g].clone # 0 /\ handles[g].scopes # <<>>)
    /\ LET i == GetInstance(mem, handles[h])
           b == BuildGroup(i.mem, handles[g])
       IN  Chained(h, AddConds(b.mem, i.stmt, op, b.exprs), i.stmt,
                   [handles[h] EXCEPT !.words = Append(@, <<op, Means(AllWords(handles[g]))>>)], g)

Scopes(h, x) ==
    /\ WordFits(h, "where")
    /\ LET i == GetInstance(mem, handles[h])
       IN  Chained(h, [i.mem EXCEPT !.stmts[i.stmt].scopes = Append(@, x)], i.stmt,
                   [handles[h] EXCEPT !.scopes = Append(@, x)], h)

Unscoped(h) ==
    /\ soft /\ ~handles[h].unscoped /\ Fit("or_after_query", handles[h].asked)
    /\ LET i == GetInstance(mem, handles[h])
       IN  Chained(h, [i.mem EXCEPT !.stmts[i.stmt].unscoped = TRUE], i.stmt,
                   [handles[h] EXCEPT !.unscoped = TRUE], h)

(* Session.  A plain one shares the statement of h, which the program then *)
(* no longer uses itself; one with a Context copies it; NewDB forgets it.  *)
Session(h, kind, allow) ==
    /\ Working /\ calls < MaxCalls /\ Free # {}
    /\ handles[h].clone # 1 \/ allow
    /\ kind # "plain" => handles[h].clone # 1 /\ ~allow
    /\ calls' = calls + 1
    /\ LET t   == Least(Free)
           s   == FreeId(mem.stmts)
           own == kind = "context" /\ handles[h].clone # 1
           new == IF kind = "newdb" \/ handles[h].clone = 1
                  THEN [Root EXCEPT !.allow = allow \/ handles[h].allow]
                  ELSE [handles[h] EXCEPT !.clone = 2, !.stmt = IF own THEN s ELSE @,
                                          !.allow = @ \/ allow]
       IN  /\ handles' = [handles EXCEPT ![t] = new,
                                         ![h] = IF @.clone = 0 /\ kind = "plain" THEN Unused ELSE @]
           /\ mem' = Kept(IF own THEN [mem EXCEPT !.stmts = Put(@, s, @[handles[h].stmt])] ELSE mem,
                          handles')
    /\ Quiet /\ UNCHANGED <<soft, table, lastId, job, others>>

-----------------------------------------------------------------------------
(* Finishers.                                                              *)

Finish(h, q, b, rows, keep) ==
    /\ Working /\ sent.n < MaxSent
    /\ Send(q, rows)
    /\ handles' = [handles EXCEPT ![h] =
           IF @.clone # 0 THEN @ ELSE IF ~keep THEN Unused
           ELSE [@ EXCEPT !.asked = TRUE, !.scopes = <<>>, !.words = AllWords(handles[h])]]
    /\ mem' = Kept(b.mem, handles')
    /\ UNCHANGED <<soft, calls, lastId, job, others>>

(* Find into a slice, and Count: the handle may be used again.             *)
Find(h) ==
    \E i \in {GetInstance(mem, handles[h])} : \E b \in {QueryOn(i.mem, i.stmt, 0)} :
        /\ Finish(h, Said(handles[h], FALSE, 0, 0), b, Picked(b, table), TRUE)
        /\ UNCHANGED table

(* First, into a struct whose key may be set.                              *)
First(h, key) ==
    \E i \in {GetInstance(mem, handles[h])} : \E b \in {QueryOn(i.mem, i.stmt, key)} :
        /\ KeyFits(handles[h], key, ~soft \/ handles[h].unscoped)
        /\ Finish(h, Said(handles[h], FALSE, key, 1), b, FirstOf(1, Picked(b, table)), FALSE)
        /\ UNCHANGED table

(* Update of a column, on a model whose key may be set.                    *)
Set(rows, hit, is) == {IF r \in hit THEN [r EXCEPT !.is = @ \cup is] ELSE r : r \in rows}
Update(h, key, x) ==
    \E i \in {GetInstance(mem, handles[h])} : \E b \in {QueryOn(i.mem, i.stmt, key)} :
    LET hit == IF MissingWhere(b.mem, i.stmt, handles[h].allow) THEN {} ELSE Picked(b, table)
    IN  /\ KeyFits(handles[h], key, ~soft \/ handles[h].unscoped)
        /\ Finish(h, Said(handles[h], TRUE, key, 0), b, hit, FALSE)
        /\ table' = Set(table, hit, {x})

Delete(h, key) ==
    \E i \in {GetInstance(mem, handles[h])} : \E b \in {DeleteOn(i.mem, i.stmt, key)} :
    LET hit == IF MissingWhere(b.mem, i.stmt, handles[h].allow) THEN {} ELSE Picked(b, table)
    IN  /\ KeyFits(handles[h], key, TRUE)
        /\ Finish(h, Said(handles[h], TRUE, key, 0), b, hit, FALSE)
        /\ table' = IF soft /\ ~handles[h].unscoped
                    THEN {IF r \in hit THEN [r EXCEPT !.gone = TRUE] ELSE r : r \in table}
                    ELSE table \ hit

-----------------------------------------------------------------------------
(* The last call.  Its handle keeps the statement, the others are gone.    *)

Began(h, s) == [handles[h] EXCEPT !.stmt = s]
Begin(m, s, j) ==
    /\ Working /\ sent.n = 0  \* a bound
    /\ job' = j
    /\ handles' = [k \in 1..MaxHandles |-> Unused]
    /\ mem' = Swept(m, {s})
    /\ calls' = MaxCalls /\ Quiet
    /\ UNCHANGED <<soft, table, lastId, others>>
Runs(kind) == job.kind = kind /\ job.state = "run"
Ends(state) == job' = [job EXCEPT !.state = state]
InJob(m)    == /\ mem' = Swept(m, {job.base.stmt})
               /\ UNCHANGED <<soft, handles, calls, others>>
(* A statement of the call fails, or the function that is given a batch,   *)
(* and the call with it.                                                   *)
JobFails(kind) ==
    /\ Runs(kind) /\ Ends("failed")
    /\ Quiet /\ UNCHANGED <<soft, mem, handles, calls, table, lastId, others>>
NextId == lastId + 1

(* FindInBatches.  total is the Limit of the chain, offset its Offset.     *)
FindInBatches(h, size, total, offset) ==
    LET i == GetInstance(mem, handles[h])
    IN  /\ Fit("or_in_batches", HasOr(handles[h].words))
        /\ Begin(i.mem, i.stmt,
                 [kind |-> "batches", state |-> "run", base |-> Began(h, i.stmt), touched |-> {},
                  total |-> total, offset |-> offset, batch |-> 0, last |-> 0,
                  size |-> IF total > 0 /\ size > total THEN total ELSE size,
                  got |-> <<>>, due |-> {}])

Delivered(j)    == {j.got[k] : k \in DOMAIN j.got}
Ascending(rows) == [k \in 1..Cardinality(rows) |->
                       (CHOOSE r \in rows : Cardinality({q \in rows : q.id <= r.id}) = k).id]
(* Whether the batch of n rows was the last one.                           *)
(* Mutant: only a short batch is.                                          *)
LastBatchShort(j, n) == n < j.size
LastBatch(j, n) == n < j.size \/ (j.total > 0 /\ j.total <= Len(j.got) + n)
(* The size of the batch after that.  Mutant: it never changes.            *)
SameSize(j) == j.size
NextSize(j) == IF j.total > 0 /\ j.total \div j.size = j.batch + 1 THEN j.total % j.size ELSE j.size

NextBatch ==
    /\ Runs("batches")
    /\ LET i    == GetInstance(mem, [job.base EXCEPT !.clone = 2])
           m    == IF job.last = 0 THEN i.mem ELSE AddWhere(i.mem, i.stmt, << <<"after", job.last>> >>)
           b    == QueryOn(m, i.stmt, 0)
           all  == Picked(b, table)
           skip == IF job.batch = 0 THEN job.offset ELSE 0
           rest == all \ FirstOf(skip, all)
           rows == FirstOf(job.size, rest)
           n    == Cardinality(rows)
           got  == job.got \o Ascending(rows)
       IN  /\ Send([Said(job.base, FALSE, 0, job.size) EXCEPT !.after = job.last, !.skip = skip], rows)
           /\ job' = [job EXCEPT
                  !.got   = got,
                  !.batch = @ + 1,
                  !.due   = IF job.batch # 0 THEN @
                            ELSE {r.id : r \in IF job.total = 0 THEN rest ELSE FirstOf(job.total, rest)},
                  !.state = IF LastBatch(job, n) THEN "ok" ELSE "run",
                  !.size  = IF LastBatch(job, n) THEN @ ELSE NextSize(job),
                  !.last  = IF LastBatch(job, n) THEN @ ELSE got[Len(got)]]
           /\ InJob(b.mem)
    /\ UNCHANGED <<table, lastId>>

(* Save of a value with the given key and contents.                        *)
Save(h, key, is, selected) ==
    LET i == GetInstance(mem, handles[h])
    IN  /\ Fit("save_with_words", AllWords(handles[h]) # <<>>)
        /\ Begin(i.mem, i.stmt,
                 [kind |-> "save", state |-> "run", base |-> Began(h, i.stmt), touched |-> {},
                  key |-> key, is |-> is, selected |-> selected, affected |-> 0,
                  step |-> IF key = 0 THEN "create" ELSE "update"])

(* RowsAffected may count the changed rows only (MySQL).                   *)
SaveUpdate ==
    /\ Runs("save") /\ job.step = "update"
    /\ LET b   == QueryOn(mem, job.base.stmt, job.key)
           hit == Picked(b, table)
           new == {[r EXCEPT !.is = job.is, !.gone = IF job.selected THEN @ ELSE FALSE] : r \in hit}
       IN  /\ Send(Said(job.base, TRUE, job.key, 0), hit)
           /\ table' = (table \ hit) \cup new
           /\ \E n \in {Cardinality(hit), Cardinality(hit \ new)} :
                job' = [job EXCEPT !.affected = n, !.touched = {},
                                   !.step  = IF n = 0 /\ ~job.selected THEN "create" ELSE "done",
                                   !.state = IF n = 0 /\ ~job.selected THEN "run" ELSE "ok"]
           /\ InJob(b.mem)
    /\ UNCHANGED lastId

(* The Create of Save updates every column when the key exists.            *)
(* Mutant: the row that exists is left as it is.                           *)
Insert(rows, row) == IF \E r \in rows : r.id = row.id THEN rows ELSE rows \cup {row}
Upsert(rows, row) == {r \in rows : r.id # row.id} \cup {row}
SaveCreate ==
    /\ Runs("save") /\ job.step = "create" /\ NextId \in Ids
    /\ LET key == IF job.key = 0 THEN NextId ELSE job.key
       IN  /\ table' = Upsert(table, [id |-> key, is |-> job.is, gone |-> FALSE])
           /\ lastId' = IF key > lastId THEN key ELSE lastId
           /\ job' = [job EXCEPT !.key = key, !.affected = 1, !.touched = {},
                                 !.step = "done", !.state = "ok"]
    /\ InJob(mem) /\ Quiet

(* CreateInBatches of n new records.                                       *)
CreateInBatches(h, n, size, skip) ==
    LET i == GetInstance(mem, handles[h])
    IN  /\ AllWords(handles[h]) = <<>>  \* conditions mean nothing to it
        /\ Begin(i.mem, i.stmt,
              [kind |-> "create", state |-> "run", base |-> Began(h, i.stmt), touched |-> {},
               left |-> n, n |-> n, size |-> size, made |-> {}, reported |-> 0,
               tx |-> ~skip /\ n > size])
CreateBatch ==
    /\ Runs("create") /\ NextId + job.size \in Ids
    /\ LET k    == IF job.left < job.size THEN job.left ELSE job.size
           made == NextId..(NextId + k - 1)
       IN  /\ table' = table \cup {[id |-> i, is |-> {}, gone |-> FALSE] : i \in made}
           /\ lastId' = NextId + k - 1
           /\ job' = [job EXCEPT !.left = @ - k, !.made = @ \cup made, !.reported = @ + k,
                                 !.state = IF job.left = k THEN "ok" ELSE "run"]
    /\ InJob(mem) /\ Quiet
(* Mutant: the batches before the failing one stay.                        *)
AllKept(rows) == rows
AfterFailure(rows) == IF job.tx THEN {r \in rows : r.id \notin job.made} ELSE rows
CreateFails ==
    /\ Runs("create") /\ Ends("failed")
    /\ table' = AfterFailure(table)
    /\ InJob(mem) /\ Quiet /\ UNCHANGED lastId

(* The conditions have a Not somewhere.                                    *)
SaysNot(m, s) ==
    \E i \in Reached(m.arr, Nested, WhereIn(m, s)) :
        \E k \in DOMAIN m.arr[i] : m.arr[i][k][1] = "not"

(* FirstOrCreate, with at most one column to Assign.                       *)
FirstOrCreate(h, assign) ==
    LET i == GetInstance(mem, handles[h])
    IN  /\ Fit("conds_not_maps", SaysNot(i.mem, i.stmt))
        /\ assign # {} => KeyFits(handles[h], 1, ~soft \/ handles[h].unscoped)
        /\ Begin(i.mem, i.stmt,
                 [kind |-> "first", state |-> "run", base |-> Began(h, i.stmt), touched |-> {},
                  assign |-> assign, step |-> "find", key |-> 0, is |-> {}])

(* assignInterfacesToValue: the columns that the conditions give a value,  *)
(* those within Ands included.                                             *)
EqAtoms(m, s) ==
    {x \in Atoms : \E i \in Reached(m.arr, {"and"}, WhereIn(m, s)) :
                      \E k \in DOMAIN m.arr[i] : m.arr[i][k] = <<"is", x>>}

FirstFind ==
    /\ Runs("first") /\ job.step = "find"
    /\ LET i    == GetInstance(mem, [job.base EXCEPT !.clone = 2])
           b    == QueryOn(i.mem, i.stmt, 0)
           rows == FirstOf(1, Picked(b, table))
       IN  /\ Send(Said(job.base, FALSE, 0, 1), rows)
           /\ job' = IF rows = {}
                     THEN [job EXCEPT !.step = "create",
                                      !.is = EqAtoms(b.mem, i.stmt) \cup job.assign]
                     ELSE [job EXCEPT !.key = (CHOOSE r \in rows : TRUE).id,
                                      !.touched = {},
                                      !.step  = IF job.assign = {} THEN "done" ELSE "update",
                                      !.state = IF job.assign = {} THEN "ok" ELSE "run"]
           /\ InJob(b.mem)
    /\ UNCHANGED <<table, lastId>>
FirstCreate ==
    /\ Runs("first") /\ job.step = "create" /\ NextId \in Ids
    /\ table' = table \cup {[id |-> NextId, is |-> job.is, gone |-> FALSE]}
    /\ lastId' = NextId
    /\ job' = [job EXCEPT !.key = NextId, !.touched = {}, !.step = "done", !.state = "ok"]
    /\ InJob(mem) /\ Quiet
FirstUpdate ==
    /\ Runs("first") /\ job.step = "update"
    /\ LET b   == QueryOn(mem, job.base.stmt, job.key)
           hit == Picked(b, table)
       IN  /\ Send(Said(job.base, TRUE, job.key, 0), hit)
           /\ table' = Set(table, hit, job.assign)
           /\ InJob(b.mem)
    /\ job' = [job EXCEPT !.step = "done", !.state = "ok"]
    /\ UNCHANGED lastId

-----------------------------------------------------------------------------
(* The other client, between the statements of the last call; the rows of  *)
(* an open transaction are out of its reach.                               *)
Seen == {r \in table : ~(job.kind = "create" /\ job.tx /\ r.id \in job.made)}
Other(ids, new) ==
    /\ job.state = "run" /\ others < MaxOther
    /\ others' = others + 1
    /\ table' = {r \in table : r.id \notin ids} \cup new
    /\ lastId' = IF \E r \in new : r.id > lastId THEN lastId + 1 ELSE lastId
    /\ job' = [job EXCEPT !.touched = @ \cup ids \cup {r.id : r \in new}]
    /\ Quiet /\ UNCHANGED <<soft, mem, handles, calls>>
OtherInserts(is)   == NextId \in Ids /\ Other({}, {[id |-> NextId, is |-> is, gone |-> FALSE]})
OtherDeletes(r)    == Other({r.id}, {})
OtherSets(r, is)   == r.is # is /\ Other({r.id}, {[r EXCEPT !.is = is]})

-----------------------------------------------------------------------------
Init ==
    /\ soft \in BOOLEAN
    /\ mem = [arr |-> <<>>, stmts |-> <<>>]
    /\ handles = [h \in 1..MaxHandles |-> IF h = 1 THEN Root ELSE Unused]
    /\ calls = 0 /\ others = 0
    /\ table = IF soft THEN Rows ELSE {[r EXCEPT !.gone = FALSE] : r \in Rows}
    /\ lastId = Cardinality(Rows) /\ sent = [n |-> 0] /\ job = NoJob

(* The program may end, but not within its last call.                      *)
Over == job.state # "run" /\ UNCHANGED vars

Chain(h) ==
    \/ \E w \in Words : IF w[1] = "scope" THEN Scopes(h, w[2]) ELSE Where(h, w[1], w[2])
    \/ \E op \in {"where", "or"}, g \in Used : WhereGroup(h, op, g)
    \/ Unscoped(h)
    \/ \E kind \in {"plain", "context", "newdb"}, allow \in BOOLEAN : Session(h, kind, allow)
Finisher(h) ==
    \/ Find(h)
    \/ \E key \in {0, 2} : First(h, key) \/ Delete(h, key) \/ \E x \in Assigned : Update(h, key, x)
LastCall(h) ==
    \/ \E total \in {0, 1, MaxBatch + 1}, offset \in 0..1 : FindInBatches(h, MaxBatch, total, offset)
    \/ \E key \in 0..NextId, selected \in BOOLEAN : Save(h, key, Atoms, selected)
    \/ \E n \in {MaxBatch, MaxBatch + 1}, size \in 1..MaxBatch, skip \in BOOLEAN :
          CreateInBatches(h, n, size, skip)
    \/ \E assign \in {{}} \cup {{x} : x \in Assigned} : FirstOrCreate(h, assign)
Job ==
    \/ NextBatch \/ SaveUpdate \/ SaveCreate \/ CreateBatch \/ CreateFails
    \/ FirstFind \/ FirstCreate \/ FirstUpdate
    \/ \E kind \in {"batches", "save", "first"} : JobFails(kind)
Client ==
    \/ OtherInserts(Atoms)
    \/ \E r \in Seen : OtherDeletes(r) \/ OtherSets(r, Atoms)
Next ==
    \/ \E h \in Used : Chain(h) \/ Finisher(h) \/ LastCall(h)
    \/ Job \/ Client \/ Over
Spec == Init /\ [][Next]_vars

-----------------------------------------------------------------------------
(* Handles, statements and arrays are well formed: nothing that is still   *)
(* reached has been given up or written over, and a batch is never empty.  *)
TypeOK ==
    /\ table \subseteq Row /\ \A r, q \in table : r.id = q.id => r = q
    /\ \A i \in DOMAIN mem.arr : /\ mem.arr[i] \in Seq(Expr) \ {<<>>}
                                /\ Refs(mem.arr[i], Nested) \subseteq DOMAIN mem.arr
    /\ \A s \in DOMAIN mem.stmts : WhereIn(mem, s) \subseteq DOMAIN mem.arr
    /\ \A h \in Used : handles[h].clone # 1 => handles[h].stmt \in DOMAIN mem.stmts
    /\ job.kind = "batches" => job.size \in 1..MaxBatch

(* Every statement hits exactly the rows that the words said on its own    *)
(* handle ask for, whatever was done with the handles it was made from or  *)
(* with those made from it: conditions of one chain never reach another, a *)
(* Session's conditions are not lost, deleted rows stay out of sight, and  *)
(* an update or delete without conditions hits nothing.                    *)
Faithful == [][sent'.n # sent.n => sent'.rows = Wanted(sent'.q, table)]_vars

(* FindInBatches hands out rows in ascending order, none twice, no more    *)
(* than the Limit of the chain, and unless it fails every row that was     *)
(* there at its start and was left alone, though rows come and go.         *)
BatchesExact ==
    job.kind = "batches" =>
        /\ \A j, k \in DOMAIN job.got : j < k => job.got[j] < job.got[k]
        /\ job.total > 0 => Len(job.got) <= job.total
        /\ job.state = "ok" => \/ job.due \ job.touched \subseteq Delivered(job)
                               \/ job.total > 0 /\ Len(job.got) = job.total

(* What a call reports to be stored is: Save stores the value whatever     *)
(* happened to its row before, and CreateInBatches keeps all its batches,  *)
(* or those it reports when it runs without a transaction, or none.        *)
Stored ==
    /\ job.kind = "save" /\ job.state = "ok" /\ (job.selected => job.affected > 0) =>
          job.key \in job.touched \/ \E r \in table :
              r.id = job.key /\ r.is = job.is /\ (~job.selected => ~r.gone)
    /\ job.kind = "create" /\ job.state # "run" =>
          LET kept == {i \in job.made : i \in job.touched \/ \E r \in table : r.id = i}
          IN  Cardinality(kept) = IF job.state = "failed" /\ job.tx THEN 0 ELSE job.reported

(* What FirstOrCreate returns is what it was asked for, with the assigned  *)
(* column: the same conditions find the row again.                         *)
FoundAgain ==
    job.kind = "first" /\ job.state = "ok" =>
        job.key \in job.touched \/ \E r \in table :
            /\ r.id = job.key /\ job.assign \subseteq r.is
            /\ soft /\ ~job.base.unscoped => ~r.gone
            /\ r.is \in Means(AllWords(job.base))

(* What Save, CreateInBatches and FirstOrCreate report is in the table:    *)
(* the value saved, the batches kept, the row asked for                    *)
(* (finisher_api.go:29-116, 347-399).                                      *)
Reported == Stored /\ FoundAgain
=============================================================================
