------------------------------- MODULE Chains -------------------------------
(***************************************************************************)
(* Statements and the conditions that the chain methods of gorm collect in *)
(* them (gorm/statement.go, chainable_api.go, clause/where.go), with the   *)
(* sharing of Go's slices: a clone of a statement, a group of conditions   *)
(* and the wrapping done for soft deletion all keep the array of           *)
(* expressions they are made from, and Build and BuildCondition write into *)
(* arrays that somebody else may still hold.                               *)
(*                                                                         *)
(* mem.arr holds the arrays, mem.stmts the statements, each by a number    *)
(* that is given out again when nothing reaches it any more.  Only the     *)
(* clauses that select rows are kept.                                      *)
(***************************************************************************)
EXTENDS Integers, Sequences, FiniteSets

CONSTANT Atoms    \* conditions on one column, each an Eq

Least(S) == CHOOSE x \in S : \A y \in S : x <= y
FreeId(f)    == Least(1..(Cardinality(DOMAIN f) + 1) \ DOMAIN f)
Put(f, k, v) == [x \in DOMAIN f \cup {k} |-> IF x = k THEN v ELSE f[x]]

NoArray == 0
NewStmt == [where |-> NoArray, unscoped |-> FALSE, softDelete |-> FALSE, scopes |-> <<>>]

(* Parts joined by AND, some of which have OR before them: AND binds more. *)
(* n: how many; ors: those with OR before them; holding: those that hold.  *)
AndBeforeOr(n, ors, holding) ==
    LET starts == {1} \cup ors
    IN  \E s \in starts : \A i \in s..n : (\A t \in starts : t > s => i < t) => i \in holding

-----------------------------------------------------------------------------
(* Expressions: <<op, value>>, or <<op, array>> for And and Or.            *)

Nested  == {"and", "or"}
Refs(exprs, ops) == {exprs[i][2] : i \in {k \in DOMAIN exprs : exprs[k][1] \in ops}}
(* The arrays that those in S lead to by expressions of the kinds ops.     *)
Reached(arr, ops, S) ==
    LET led    == UNION {Refs(arr[j], ops) : j \in DOMAIN arr}
        closed == {C \in {S \cup T : T \in SUBSET led} : \A j \in C : Refs(arr[j], ops) \subseteq C}
    IN  {i \in DOMAIN arr : \A C \in closed : i \in C}

WhereOf(mem, s) == IF mem.stmts[s].where = NoArray THEN <<>> ELSE mem.arr[mem.stmts[s].where]
WhereIn(mem, s) == {mem.stmts[s].where} \ {NoArray}

(* An OrConditions of one expression is written with OR before it.         *)
SingleOr(arr, e) == e[1] = "or" /\ Len(arr[e[2]]) = 1
Ors(arr, exprs)  == {i \in DOMAIN exprs : SingleOr(arr, exprs[i])}

Plain(e, row) ==
    CASE e[1] = "is"    -> e[2] \in row.is
      [] e[1] = "not"   -> e[2] \notin row.is
      [] e[1] = "key"   -> row.id = e[2]
      [] e[1] = "after" -> row.id > e[2]
      [] e[1] = "live"  -> ~row.gone
Expr == ({"is", "not"} \X Atoms) \cup ({"key", "after"} \X Nat) \cup {<<"live">>}
          \cup (Nested \X (Nat \ {NoArray}))
(* Whether the text of the And or Or e selects the row, by what those      *)
(* within do; buildExprs.                                                  *)
GroupHolds(arr, row, group, e) ==
    LET exprs   == arr[e[2]]
        holding == {i \in DOMAIN exprs : IF exprs[i][1] \in Nested THEN group[exprs[i]]
                                         ELSE Plain(exprs[i], row)}
    IN  IF e[1] = "or" THEN holding # {}
        ELSE AndBeforeOr(Len(exprs), Ors(arr, exprs), holding)
Groups(arr, row) ==
    LET group[e \in Nested \X DOMAIN arr] == GroupHolds(arr, row, group, e) IN group
Holds(arr, e, row) == IF e[1] \in Nested THEN Groups(arr, row)[e] ELSE Plain(e, row)
Joined(arr, exprs, row) ==
    AndBeforeOr(Len(exprs), Ors(arr, exprs), {i \in DOMAIN exprs : Holds(arr, exprs[i], row)})

(* AddClause with a Where: MergeClause copies both slices to a new one.    *)
(* Mutant: it appends to the slice of the statement, in place.             *)
AddWhereInPlace(mem, s, exprs) ==
    LET id == IF mem.stmts[s].where = NoArray THEN FreeId(mem.arr) ELSE mem.stmts[s].where
    IN  [mem EXCEPT !.arr = Put(@, id, WhereOf(mem, s) \o exprs), !.stmts[s].where = id]
AddWhere(mem, s, exprs) ==
    LET id == FreeId(mem.arr)
    IN  [mem EXCEPT !.arr = Put(@, id, WhereOf(mem, s) \o exprs), !.stmts[s].where = id]

(* getInstance: a handle of clone 0 is its statement; clone 1 starts a new *)
(* statement, clone 2 a copy of its own.  Returns the memory and the id.   *)
GetInstance(mem, h) ==
    IF h.clone = 0 THEN [mem |-> mem, stmt |-> h.stmt]
    ELSE LET s == FreeId(mem.stmts)
         IN  [mem  |-> [mem EXCEPT !.stmts = Put(@, s, IF h.clone = 1 THEN NewStmt ELSE @[h.stmt])],
              stmt |-> s]

(* executeScopes, for scopes that call Where: on a handle of clone 0 they  *)
(* change its statement, on another their result is a new handle.          *)
ExecuteScopes(mem, h) ==
    LET scopes  == mem.stmts[h.stmt].scopes
        cleared == [mem EXCEPT !.stmts[h.stmt].scopes = <<>>]
    IN  IF scopes = <<>> \/ h.clone # 0 THEN cleared
        ELSE AddWhere(cleared, h.stmt, [i \in DOMAIN scopes |-> <<"is", scopes[i]>>])

(* BuildCondition on a handle, a group: returns what it adds.  A group of  *)
(* one Or becomes an And in the group's own array; And of several shares   *)
(* that array.                                                             *)
BuildGroup(mem, g) ==
    LET m  == ExecuteScopes(mem, g)
        id == m.stmts[g.stmt].where
        xs == WhereOf(m, g.stmt)
        m2 == IF Len(xs) = 1 /\ xs[1][1] = "or" THEN [m EXCEPT !.arr[id][1][1] = "and"] ELSE m
    IN  IF xs = <<>> THEN [mem |-> m, exprs |-> <<>>]
        ELSE [mem |-> m2, exprs |-> <<IF Len(xs) = 1 THEN m2.arr[id][1] ELSE <<"and", id>> >>]

(* Where and Or with a condition that is built already.                    *)
AddConds(mem, s, op, exprs) ==
    IF exprs = <<>> THEN mem
    ELSE IF op = "where" THEN AddWhere(mem, s, exprs)
    ELSE LET id == FreeId(mem.arr)
         IN  AddWhere([mem EXCEPT !.arr = Put(@, id, exprs)], s, << <<"or", id>> >>)

(* SoftDeleteQueryClause.ModifyStatement, once per statement: conditions   *)
(* with an Or are put in parentheses first.                                *)
(* Mutant: they are not.                                                   *)
SoftDeleteBare(mem, s) ==
    IF mem.stmts[s].softDelete \/ mem.stmts[s].unscoped THEN mem
    ELSE [AddWhere(mem, s, << <<"live">> >>) EXCEPT !.stmts[s].softDelete = TRUE]
SoftDeleteQuery(mem, s) ==
    LET id == FreeId(mem.arr)
        m  == IF Ors(mem.arr, WhereOf(mem, s)) = {} THEN mem
              ELSE [mem EXCEPT !.arr = Put(@, id, << <<"and", mem.stmts[s].where>> >>),
                               !.stmts[s].where = id]
    IN  IF mem.stmts[s].softDelete \/ mem.stmts[s].unscoped THEN mem
        ELSE [AddWhere(m, s, << <<"live">> >>) EXCEPT !.stmts[s].softDelete = TRUE]

(* Where.Build: a single And is opened, and the first expression that is   *)
(* not an Or changes places with the first one, in the array itself.       *)
Built(mem, s) ==
    LET xs    == WhereOf(mem, s)
        id    == IF Len(xs) = 1 /\ xs[1][1] = "and" THEN xs[1][2] ELSE mem.stmts[s].where
        ys    == mem.arr[id]
        plain == DOMAIN ys \ Ors(mem.arr, ys)
        first == Least(plain)
    IN  IF xs = <<>> THEN [mem |-> mem, exprs |-> <<>>]
        ELSE LET m == IF plain = {} THEN mem
                      ELSE [mem EXCEPT !.arr[id] = [ys EXCEPT ![1] = ys[first], ![first] = ys[1]]]
             IN  [mem |-> m, exprs |-> m.arr[id]]

(* The memory with only what the given statements reach (Go's collector).  *)
Swept(mem, roots) ==
    LET live == Reached(mem.arr, Nested, UNION {WhereIn(mem, s) : s \in roots})
    IN  [arr   |-> [i \in live |-> mem.arr[i]],
         stmts |-> [s \in roots |-> mem.stmts[s]]]

-----------------------------------------------------------------------------
(* What the words of a chain mean, told apart from memory.  A condition is *)
(* the set of contents of the rows it is true of; a word is <<op,          *)
(* condition>>.  Words are joined from left to right, AND binds more than  *)
(* OR, a leading Or changes places with the first word that is none, and a *)
(* group means the same wherever it stands.                                *)
Having(x) == {is \in SUBSET Atoms : x \in is}
Means(words) ==
    LET plain == {i \in DOMAIN words : words[i][1] # "or"}
        first == Least(plain)
        said  == IF plain = {} THEN words
                 ELSE [words EXCEPT ![1] = words[first], ![first] = words[1]]
        True(is) == {i \in DOMAIN said : is \in said[i][2] <=> said[i][1] # "not"}
    IN  {is \in SUBSET Atoms : words = <<>> \/
            AndBeforeOr(Len(said), {i \in DOMAIN said : said[i][1] = "or"}, True(is))}
HasOr(words) == \E i \in DOMAIN words : words[i][1] = "or"
=============================================================================
