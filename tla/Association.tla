----------------------------- MODULE Association -----------------------------
(***************************************************************************)
(* Association mode (gorm/association.go), preloading                      *)
(* (callbacks/preload.go) and deleting an owner with what it owns          *)
(* (callbacks/delete.go): programs that hold owners in memory, with the    *)
(* targets of one relation of theirs, which are of another table, and      *)
(* change or read the links in the database.  Each SQL statement, or       *)
(* transaction of statements, is a step, may fail, and another program may *)
(* run between two of them.                                                *)
(*                                                                         *)
(* The database has no foreign key constraints.  A link is a foreign key   *)
(* of the owner's row (belongs_to), one of the target's row (has_one,      *)
(* has_many) or a row of the join table (many2many).  Polymorphic          *)
(* relations, composite keys, conditions and hooks are left out; how one   *)
(* owner and its targets are saved is in SaveGraph.                        *)
(***************************************************************************)
EXTENDS Integers, Sequences, FiniteSets, SequencesExt

CONSTANTS
    Owners, Targets,
    Programs,
    Unsaved,     \* targets that have no row at first (their keys the programs choose)
    Starts,      \* kinds of relation to look at, with the links there are at first
    None,        \* no value
    MaxCalls, MaxFaults   \* bounds: calls, and statements that fail

(* A foreign key holds one value.                                          *)
OneKey(k, L) ==
    /\ k = "belongs_to" => \A x, y \in L : x[1] = y[1] => x = y
    /\ k \in {"has_one", "has_many"} => \A x, y \in L : x[2] = y[2] => x = y

ASSUME StartsAssumption ==
    \A start \in Starts :
        /\ start \in [kind : {"belongs_to", "has_one", "has_many", "many_to_many"},
                       links : SUBSET (Owners \X (Targets \ Unsaved))]
        /\ OneKey(start.kind, start.links)
ASSUME ObjectsAssumption ==
    /\ IsFiniteSet(Owners) /\ IsFiniteSet(Targets)
    /\ Unsaved \subseteq Targets /\ None \notin Targets
ASSUME BoundsAssumption == MaxCalls \in Nat /\ MaxFaults \in Nat

VARIABLES
    kind,      \* the kind of the relation
    rows,      \* the owners and targets that have a row
    links,     \* pairs of an owner and a target
    mem,       \* program -> owner -> the targets in its field
    fk,        \* program -> owner -> its foreign key in memory (belongs_to)
    call,      \* program -> where its call is
    bounds,    \* calls and faults so far
    ghost      \* what the properties remember

vars == <<kind, rows, links, mem, fk, call, bounds, ghost>>

Single == kind \in {"belongs_to", "has_one"}
Has    == kind \in {"has_one", "has_many"}

(* list: the struct, or slice of them, passed to Model; values: for each,  *)
(* the values passed; i: the one to be saved next; old: oldBelongsToExpr;  *)
(* clones: association.DB is a Session's (clone 2), of which a statement   *)
(* has a copy and an error of its own; FALSE: it is db.Model's (clone 0),  *)
(* which they share; read: what a query returned; step: what is next.      *)
Ops   == {"append", "replace", "delete", "remove", "preload", "find"}
Steps == {"idle", "ok", "failed", "save", "unlink", "purge", "delete", "owners", "joins", "targets"}
Idle  == [step |-> "idle", op |-> "find", list |-> <<>>, values |-> <<>>, unscoped |-> FALSE, clones |-> FALSE,
          i |-> 0, old |-> {}, read |-> {}]

Running(p)  == call[p].step \notin {"idle", "ok", "failed"}
Listed(p)   == ToSet(call[p].list)
IsSlice(p)  == Len(call[p].list) > 1
Values(p)   == UNION ToSet(call[p].values)
Linked(L, targets, o) == {t \in targets : <<o, t>> \in L}

TypeOK ==
    /\ rows \in [owners : SUBSET Owners, targets : SUBSET Targets]
    /\ links \subseteq Owners \X Targets /\ OneKey(kind, links)
    /\ mem \in [Programs -> [Owners -> SUBSET Targets]]
    /\ fk \in [Programs -> [Owners -> Targets \cup {None}]]
    /\ \A p \in Programs :
         /\ call[p].step \in Steps /\ call[p].op \in Ops /\ call[p].list \in Seq(Owners)
         /\ call[p].step = "save" => call[p].i \in DOMAIN call[p].list
    /\ bounds \in [calls : 0..MaxCalls, faults : 0..MaxFaults]

-----------------------------------------------------------------------------
(* ghost[p], of the call: the links it started with; whether only it wrote *)
(* since; whether its memory agreed with the database; whether a statement *)
(* failed; and, while it runs, the links that were there at some time, and *)
(* those that were there all the time, with the rows of their targets.     *)
NoGhost == [links |-> {}, alone |-> TRUE, fresh |-> TRUE, fault |-> FALSE, ever |-> {}, always |-> {}]
Solid(L, targets) == {x \in L : x[2] \in targets}
Wrote(p) ==
    ghost' = [q \in Programs |->
        IF q = p THEN ghost[q]
        ELSE [ghost[q] EXCEPT !.alone = FALSE,
                 !.ever = IF Running(q) THEN @ \cup links' ELSE @,
                 !.always = IF Running(q) THEN @ \cap Solid(links', rows'.targets) ELSE @]]

Init ==
    /\ \E start \in Starts : kind = start.kind /\ links = start.links
    /\ rows = [owners |-> Owners, targets |-> Targets \ Unsaved]
    /\ mem = [p \in Programs |-> [o \in Owners |-> Linked(links, Targets, o)]]
    /\ fk = [p \in Programs |-> [o \in Owners |->
                IF kind = "belongs_to" /\ Linked(links, Targets, o) # {} THEN CHOOSE t \in Targets : <<o, t>> \in links ELSE None]]
    /\ call = [p \in Programs |-> Idle]
    /\ bounds = [calls |-> 0, faults |-> 0]
    /\ ghost = [p \in Programs |-> NoGhost]

Keys(p, list) == {fk[p][o] : o \in ToSet(list)} \ {None}

(* A call begins; those that have returned are forgotten.  One that begins *)
(* while another runs is for one owner and at most one value (bound).      *)
Begin(p, c) ==
    /\ ~Running(p)
    /\ bounds.calls < MaxCalls
    /\ \A q \in Programs : Running(q) => Len(c.list) = 1
    /\ call' = [q \in Programs |-> IF q = p THEN c ELSE IF Running(q) THEN call[q] ELSE Idle]
    /\ bounds' = [bounds EXCEPT !.calls = @ + 1]
    /\ ghost' = [q \in Programs |->
         IF q # p THEN IF Running(q) THEN ghost[q] ELSE NoGhost
         ELSE [links |-> Solid(links, rows.targets), alone |-> TRUE, fault |-> FALSE,
               fresh |-> \A o \in ToSet(c.list) :
                         /\ o \in rows.owners /\ mem[p][o] = Linked(links, rows.targets, o)
                         /\ kind = "belongs_to" => {fk[p][o]} \ {None} = mem[p][o],
               ever |-> links, always |-> Solid(links, rows.targets)]]
    /\ UNCHANGED <<kind, rows, links>>

(* What may be passed: rows there are, and values not yet stored.          *)
Lists == {<<o>> : o \in Owners} \cup {SetToSeq(Owners)}
Passed(list) ==
    LET most == IF Single \/ Len(list) > 1 \/ \E q \in Programs : Running(q) THEN 1 ELSE 2
        some == {S \in SUBSET (rows.targets \cup Unsaved) : Cardinality(S) <= most}
    IN  {v \in [1..Len(list) -> some] :
            /\ Single => \A i, j \in 1..Len(list) : (v[i] = {}) = (v[j] = {})
            /\ Has => \A i, j \in 1..Len(list) : i # j => v[i] \cap v[j] = {}}
Scopes == IF kind = "many_to_many" THEN {FALSE} ELSE BOOLEAN
Nobody(values) == \A i \in DOMAIN values : values[i] = {}

(* Append: a has_one or belongs_to is replaced.                            *)
Append_(p, list, values) ==
    /\ ~Nobody(values)
    /\ Begin(p, [Idle EXCEPT !.step = "save", !.op = IF Single THEN "replace" ELSE "append",
                             !.list = list, !.values = values, !.i = 1])
    /\ UNCHANGED <<mem, fk>>

(* Replace, and Clear, which is Replace without values: it only clears the *)
(* fields before it goes on to the old links.  An unscoped Clear of a      *)
(* belongs_to is the only call with two statements on association.DB.      *)
Replace(p, list, values, unscoped, clones) ==
    LET clears == Nobody(values)
    IN  /\ clones => clears /\ unscoped /\ kind = "belongs_to"
        /\ Begin(p, [Idle EXCEPT !.step = IF clears THEN "unlink" ELSE "save", !.op = "replace",
                                 !.list = list, !.values = values, !.unscoped = unscoped, !.clones = clones, !.i = 1,
                                 !.old = IF unscoped /\ kind = "belongs_to" THEN Keys(p, list) ELSE {}])
        /\ mem' = [mem EXCEPT ![p] = [o \in Owners |-> IF clears /\ o \in ToSet(list) THEN {} ELSE @[o]]]
        /\ fk' = [fk EXCEPT ![p] = [o \in Owners |-> IF clears /\ o \in ToSet(list) THEN None ELSE @[o]]]

Delete(p, list, values, unscoped) ==
    /\ Begin(p, [Idle EXCEPT !.step = "delete", !.op = "delete", !.list = list, !.unscoped = unscoped,
                             !.values = [i \in 1..Len(list) |-> values],
                             !.old = IF unscoped /\ kind = "belongs_to" THEN Keys(p, list) ELSE {}])
    /\ UNCHANGED <<mem, fk>>

Other(p, op, list) ==
    /\ Begin(p, [Idle EXCEPT !.step = CASE op = "remove" -> "delete" [] op = "preload" -> "owners" [] op = "find" -> "targets",
                             !.op = op, !.list = list])
    /\ UNCHANGED <<mem, fk>>

-----------------------------------------------------------------------------
Goes(p, step) == call' = [call EXCEPT ![p].step = step]

(* A statement fails, at a time when no other call is running (bound).     *)
Faulty(p) ==
    /\ bounds.faults < MaxFaults /\ \A q \in Programs \ {p} : ~Running(q)
    /\ bounds' = [bounds EXCEPT !.faults = @ + 1]
    /\ ghost' = [ghost EXCEPT ![p].fault = TRUE]
    /\ UNCHANGED <<kind, rows, links>>

(* Mutant: the links that are replaced stay.                               *)
LinkAllBeside(L, o, S) ==
    L \cup (IF kind = "belongs_to" /\ o \notin rows.owners THEN {} ELSE {o} \X S)

(* Save of an owner and its field: its targets are inserted if they have   *)
(* no row, and linked, taking them from any other owner where the foreign  *)
(* key is theirs.                                                          *)
LinkAll(L, o, S) ==
    LET stays(x) == CASE kind = "belongs_to" -> x[1] # o [] Has -> x[2] \notin S [] OTHER -> TRUE
        made == IF kind = "belongs_to" /\ o \notin rows.owners THEN {} ELSE {o} \X S
    IN  {x \in L : stays(x)} \cup made

(* Mutant: Append forgets what the field holds.                            *)
FieldAlone(p, o, i) == call[p].values[i]

(* appendToRelations: the field with the values, or they alone.            *)
Field(p, o, i) == IF call[p].op = "append" THEN mem[p][o] \cup call[p].values[i] ELSE call[p].values[i]
Key(S) == IF kind = "belongs_to" /\ S # {} THEN CHOOSE t \in S : TRUE ELSE None

(* saveAssociation: one Updates for each owner.  An error ends it, but for *)
(* has_one and belongs_to the next owner's Field.Set has overwritten it.   *)
SaveNext(p, failed) ==
    LET c == call[p]
    IN  IF c.i < Len(c.list) /\ (~failed \/ Single)
        THEN call' = [call EXCEPT ![p].i = @ + 1]
        ELSE Goes(p, IF failed THEN "failed" ELSE IF c.op = "append" THEN "ok"
                     ELSE IF kind # "belongs_to" THEN "unlink" ELSE IF c.unscoped /\ c.old # {} THEN "purge" ELSE "ok")

SaveOwner(p) ==
    /\ call[p].step = "save"
    /\ LET o == call[p].list[call[p].i]
           S == Field(p, o, call[p].i)
       IN  /\ mem' = [mem EXCEPT ![p][o] = S]
           /\ \/ /\ links' = LinkAll(links, o, S)
                 /\ rows' = [rows EXCEPT !.targets = @ \cup S]
                 /\ fk' = [fk EXCEPT ![p][o] = Key(S)]
                 /\ SaveNext(p, FALSE) /\ Wrote(p)
                 /\ UNCHANGED <<kind, bounds>>
              \/ /\ \E k \in {fk[p][o], Key(S)} : fk' = [fk EXCEPT ![p][o] = k]
                 /\ SaveNext(p, TRUE) /\ Faulty(p)

(* Mutant: the values are not excepted.                                    *)
OldLinksAll(p) == {x \in links : x[1] \in Listed(p)}

(* The links Replace takes away: those of a has relation whose target is   *)
(* in no field of the owners; those of a join table to none of the values. *)
OldLinks(p) ==
    LET kept == IF Has THEN UNION {mem[p][o] : o \in Listed(p)} ELSE Values(p)
    IN  {x \in links : x[1] \in Listed(p) /\ x[2] \notin kept}

(* Mutant: the owner's condition is left out.                              *)
UnlinkAnyone(p) ==
    /\ call[p].step = "unlink"
    /\ links' = {x \in links : x[2] \in Values(p)} /\ UNCHANGED rows
    /\ Goes(p, "ok") /\ Wrote(p) /\ UNCHANGED <<kind, bounds, mem, fk>>

(* "set old associations's foreign key to null": a statement of its own.   *)
(* An error of it stays on a handle that is shared, whose next statement   *)
(* does nothing then; on others the next one's result overwrites it.       *)
Unlink(p) ==
    LET purges == kind = "belongs_to" /\ call[p].unscoped /\ call[p].old # {}
    IN  /\ call[p].step = "unlink"
        /\ \/ /\ links' = links \ OldLinks(p)
              /\ rows' = IF Has /\ call[p].unscoped THEN [rows EXCEPT !.targets = @ \ {x[2] : x \in OldLinks(p)}] ELSE rows
              /\ Goes(p, IF purges THEN "purge" ELSE "ok") /\ Wrote(p)
              /\ UNCHANGED <<kind, bounds>>
           \/ Goes(p, IF purges /\ call[p].clones THEN "purge" ELSE "failed") /\ Faulty(p)
        /\ UNCHANGED <<mem, fk>>

(* cleanUpDeletedRelations: the values leave the fields, and the foreign   *)
(* key of an owner whose field they were goes.                             *)
CleanUp(p) ==
    IF call[p].op # "delete" THEN UNCHANGED <<mem, fk>>
    ELSE LET held(o) == o \in Listed(p) /\ mem[p][o] \cap Values(p) # {}
         IN  /\ mem' = [mem EXCEPT ![p] = [o \in Owners |-> IF held(o) THEN @[o] \ Values(p) ELSE @[o]]]
             /\ fk' = [fk EXCEPT ![p] = [o \in Owners |-> IF held(o) THEN None ELSE @[o]]]

(* On a handle that is shared the UPDATE of Clear has left the table and   *)
(* the WHERE of the owners, which do not go with a column of the targets.  *)
Refused(p) == call[p].op = "replace" /\ Nobody(call[p].values) /\ ~call[p].clones

(* Unscoped, and belongs_to: the targets the owners had in memory are      *)
(* deleted.  Delete, too, overwrites the error of the statement before.    *)
Purge(p) ==
    /\ call[p].step = "purge"
    /\ \/ /\ ~Refused(p)
          /\ rows' = [rows EXCEPT !.targets = @ \ call[p].old]
          /\ Goes(p, "ok") /\ CleanUp(p)
          /\ UNCHANGED <<kind, links, bounds>> /\ Wrote(p)
       \/ Refused(p) /\ Goes(p, "failed") /\ UNCHANGED <<kind, rows, links, bounds, ghost, mem, fk>>
       \/ Goes(p, "failed") /\ Faulty(p) /\ UNCHANGED <<mem, fk>>

DeleteLinks(p) ==
    LET gone   == {x \in links : x[1] \in Listed(p) /\ x[2] \in Values(p)}
        purges == kind = "belongs_to" /\ call[p].unscoped /\ call[p].old # {}
    IN  /\ call[p].step = "delete" /\ call[p].op = "delete"
        /\ \/ /\ links' = links \ gone
              /\ rows' = IF Has /\ call[p].unscoped THEN [rows EXCEPT !.targets = @ \ {x[2] : x \in gone}] ELSE rows
              /\ Goes(p, IF purges THEN "purge" ELSE "ok") /\ Wrote(p)
              /\ IF purges THEN UNCHANGED <<mem, fk>> ELSE CleanUp(p)
              /\ UNCHANGED <<kind, bounds>>
           \/ Goes(p, IF purges THEN "purge" ELSE "failed") /\ Faulty(p) /\ UNCHANGED <<mem, fk>>

(* Select(relation).Delete(owner): what it has, or its rows of the join    *)
(* table, and then its row, in one transaction.                            *)
RemoveOwner(p) ==
    LET gone == {x \in links : x[1] \in Listed(p)}
    IN  /\ call[p].step = "delete" /\ call[p].op = "remove"
        /\ \/ /\ links' = links \ gone
              /\ rows' = [owners |-> rows.owners \ Listed(p),
                          targets |-> IF Has THEN rows.targets \ {x[2] : x \in gone} ELSE rows.targets]
              /\ Goes(p, "ok") /\ Wrote(p)
              /\ UNCHANGED <<kind, bounds>>
           \/ Goes(p, "failed") /\ Faulty(p)
        /\ UNCHANGED <<mem, fk>>

-----------------------------------------------------------------------------
(* ToQueryConditions and buildCondition: the targets of the owners, those  *)
(* of a belongs_to by the foreign keys in memory.                          *)
QueryConditions(p) ==
    IF kind = "belongs_to" THEN Keys(p, call[p].list) \cap rows.targets
    ELSE UNION {Linked(links, rows.targets, o) : o \in Listed(p)}

Find(p) ==
    /\ call[p].step = "targets" /\ call[p].op = "find"
    /\ \/ /\ call' = [call EXCEPT ![p].step = "ok", ![p].read = QueryConditions(p)]
          /\ UNCHANGED <<kind, rows, links, bounds, ghost>>
       \/ Goes(p, "failed") /\ Faulty(p)
    /\ UNCHANGED <<mem, fk>>

(* Preload into the owners in memory: a query for the owners, for a slice  *)
(* into new structs, which leaves out those that have no row, ...          *)
ReadOwners(p) ==
    LET found == Listed(p) \cap rows.owners
    IN  /\ call[p].step = "owners"
        /\ \/ /\ IsSlice(p) \/ found # {}
              /\ fk' = [fk EXCEPT ![p] = [o \in Owners |->
                          IF o \notin found THEN @[o]
                          ELSE IF kind = "belongs_to" /\ Linked(links, Targets, o) # {} THEN CHOOSE t \in Targets : <<o, t>> \in links ELSE None]]
              /\ mem' = [mem EXCEPT ![p] = [o \in Owners |-> IF o \in found /\ IsSlice(p) THEN {} ELSE @[o]]]
              /\ call' = [call EXCEPT ![p].list = IF found = Listed(p) THEN @ ELSE SetToSeq(found),
                                     ![p].step = IF found = {} THEN "ok" ELSE IF kind = "many_to_many" THEN "joins" ELSE "targets"]
              /\ UNCHANGED <<kind, rows, links, bounds, ghost>>
           \/ /\ ~IsSlice(p) /\ found = {}
              /\ Goes(p, "failed") /\ UNCHANGED <<kind, rows, links, bounds, ghost, mem, fk>>
           \/ Goes(p, "failed") /\ Faulty(p) /\ UNCHANGED <<mem, fk>>

(* ... one for the rows of the join table, ...                             *)
ReadJoins(p) ==
    /\ call[p].step = "joins"
    /\ \/ /\ call' = [call EXCEPT ![p].step = "targets", ![p].read = {x \in links : x[1] \in Listed(p)}]
          /\ UNCHANGED <<kind, rows, links, bounds, ghost>>
       \/ Goes(p, "failed") /\ Faulty(p)
    /\ UNCHANGED <<mem, fk>>

(* Mutant: the old values are not cleaned up.                              *)
AssignedAdded(p, o) ==
    mem[p][o] \cup {t \in rows.targets :
        CASE kind = "belongs_to" -> t = fk[p][o] [] Has -> <<o, t>> \in links [] OTHER -> <<o, t>> \in call[p].read}

(* ... and one for the targets, which replace the old values.  Of two rows *)
(* of a has_one the last stays.                                            *)
Assigned(p, o) ==
    {t \in rows.targets :
        CASE kind = "belongs_to" -> t = fk[p][o] [] Has -> <<o, t>> \in links [] OTHER -> <<o, t>> \in call[p].read}
Fitting(S) == IF Single /\ S # {} THEN {{t} : t \in S} ELSE {S}
ReadTargets(p) ==
    LET keyless == kind = "belongs_to" /\ Keys(p, call[p].list) = {}
    IN  /\ call[p].step = "targets" /\ call[p].op = "preload"
        /\ \/ /\ IF keyless THEN UNCHANGED mem
                 ELSE \E f \in [Listed(p) -> SUBSET Targets] :
                        /\ \A o \in Listed(p) : f[o] \in Fitting(Assigned(p, o))
                        /\ mem' = [mem EXCEPT ![p] = [o \in Owners |-> IF o \in Listed(p) THEN f[o] ELSE @[o]]]
              /\ Goes(p, "ok")
              /\ UNCHANGED <<kind, rows, links, bounds, ghost>>
           \/ Goes(p, "failed") /\ Faulty(p) /\ UNCHANGED mem
        /\ UNCHANGED fk

Over ==
    /\ bounds.calls = MaxCalls /\ \A p \in Programs : ~Running(p)
    /\ UNCHANGED vars

Next ==
    \/ \E p \in Programs :
         \/ \E list \in Lists :
              \/ \E values \in Passed(list) :
                   Append_(p, list, values) \/ \E unscoped \in Scopes, clones \in BOOLEAN : Replace(p, list, values, unscoped, clones)
              \/ \E t \in rows.targets, unscoped \in Scopes : Delete(p, list, {t}, unscoped)
              \/ \E op \in Ops \ {"append", "replace", "delete"} : Other(p, op, list)
         \/ SaveOwner(p) \/ Unlink(p) \/ Purge(p) \/ DeleteLinks(p) \/ RemoveOwner(p)
         \/ Find(p) \/ ReadOwners(p) \/ ReadJoins(p) \/ ReadTargets(p)
    \/ Over

Spec == Init /\ [][Next]_vars

-----------------------------------------------------------------------------
Now(o)      == Linked(links, rows.targets, o)
Before(p, o) == Linked(ghost[p].links, Targets, o)
Undisturbed(p) == ghost[p].alone /\ ghost[p].fresh

(* The errors that are overwritten: of a slice's owners but the last, and  *)
(* of the statement before an unscoped belongs_to's DELETE where the two   *)
(* do not share a handle.                                                  *)
Overwrites(p) ==
    LET c == call[p]
    IN  /\ ghost[p].fault
        /\ \/ c.op = "replace" /\ Single /\ IsSlice(p) /\ ~Nobody(c.values)
           \/ c.op = "delete" /\ kind = "belongs_to" /\ c.unscoped
           \/ c.clones

(* The links and fields that a call asks of owner i of its list.  Where    *)
(* slices are replaced many2many keeps what any of the values names, and   *)
(* an unscoped belongs_to deletes the target it had even if it stays.      *)
(* What is cleared or deleted leaves no foreign key, to no row either.     *)
Asked(p, i) ==
    LET c == call[p]
        o == c.list[i]
    IN  CASE c.op = "append"  -> Now(o) = Before(p, o) \cup c.values[i] /\ mem[p][o] = Now(o)
          [] c.op = "replace" ->
               /\ mem[p][o] = c.values[i]
               /\ Now(o) = (c.values[i] \cup (IF kind = "many_to_many" THEN Before(p, o) \cap Values(p) ELSE {})) \ c.old
               /\ Nobody(c.values) => Linked(links, Targets, o) = {}
          [] c.op = "delete"  ->
               /\ mem[p][o] = Before(p, o) \ Values(p) /\ Now(o) = mem[p][o] \ c.old
               /\ Linked(links, Values(p), o) = {}
          [] c.op = "remove"  -> o \notin rows.owners /\ Linked(links, Targets, o) = {}
          [] c.op = "find"    -> Now(o) \subseteq c.read /\ \A t \in c.read : \E x \in Listed(p) : t \in Now(x)
          [] c.op = "preload" -> mem[p][o] \in Fitting(Now(o))

(* A value of Append is in the field of another of the owners, whose save  *)
(* takes it back.                                                          *)
Crossed(p) ==
    LET c == call[p]
    IN  Has /\ c.op = "append" /\ \E i, j \in DOMAIN c.list : i # j /\ c.values[i] \cap Before(p, c.list[j]) # {}

(* When a call that nobody disturbed has returned no error, the links in   *)
(* the database and the fields in memory are those asked for, no more and  *)
(* no less (Append, Replace, Delete, Clear and Find of association.go).    *)
Exact ==
    \A p \in Programs : call[p].step = "ok" /\ Undisturbed(p) /\ ~Overwrites(p) /\ ~Crossed(p) =>
        \A i \in DOMAIN call[p].list : Asked(p, i)

(* Replace saves first and takes away after, in transactions of their own: *)
(* wherever it stops, an owner has all it had, but for what the values of  *)
(* another take, or all it was to have.                                    *)
NeverNeither ==
    \A p \in Programs : call[p].op \in {"append", "replace"} /\ call[p].step # "idle" /\ Undisturbed(p) /\ ~Overwrites(p) =>
        \A i \in DOMAIN call[p].list :
            LET o == call[p].list[i]
                taken == UNION {call[p].values[j] : j \in DOMAIN call[p].list \ {i}}
            IN  Before(p, o) \ taken \subseteq Now(o) \/ call[p].values[i] \ call[p].old \subseteq Now(o)

(* Whoever else runs, a step takes links only from the owners its call     *)
(* lists, or gives them targets that it holds in their fields, and deletes *)
(* only targets they are linked to or were in memory.                      *)
OthersUntouched ==
    [][\A x \in links : x \notin links' \/ x[2] \in rows.targets \ rows'.targets =>
         \E p \in Programs :
            /\ call'[p] # call[p]
            /\ \/ x[1] \in Listed(p)
               \/ Has /\ \E o \in Listed(p) : <<o, x[2]>> \in links'
               \/ x[2] \in call[p].old]_vars

(* A preload is no snapshot, but what it assigns was linked at some time   *)
(* while it ran, and what was linked all that time is assigned; not so for *)
(* a belongs_to without a foreign key, whose field is left as it was       *)
(* (preload, callbacks/preload.go:175-345).                                *)
PreloadBetween ==
    \A p \in Programs : call[p].step = "ok" /\ call[p].op = "preload" =>
        \A o \in Listed(p) :
            \/ kind = "belongs_to" /\ fk[p][o] = None /\ ~IsSlice(p)
            \/ /\ \A t \in mem[p][o] : <<o, t>> \in ghost[p].ever
               /\ (\E t \in Targets : <<o, t>> \in ghost[p].always) => mem[p][o] # {}
               /\ ~Single => \A t \in Targets : <<o, t>> \in ghost[p].always => t \in mem[p][o]
=============================================================================
