---------------------------- MODULE SchemaCache ----------------------------
(***************************************************************************)
(* Parsing of models into schemas by the goroutines that share a DB's      *)
(* cacheStore (gorm/schema/schema.go:116-371 and 406-424, and the calls    *)
(* that gorm/schema/relationship.go makes back into it).                   *)
(*                                                                         *)
(* A schema is put into the cache before its relations are parsed, so that *)
(* models may refer to one another in a circle; whoever asks for it from   *)
(* outside waits for its channel `initialized` to be closed, while a       *)
(* relation takes it as it is.  What the schemas contain is left out, but  *)
(* for the schemas their relations refer to.                               *)
(***************************************************************************)
EXTENDS Integers, Sequences, SequencesExt, FiniteSets

CONSTANTS
    Procs,       \* goroutines
    Types,       \* struct types of models and join tables
    JoinTables,  \* the types built for many2many relations
    Tables,      \* special table names
    NoTable,     \* the absence of one
    Worlds,      \* sets of models that refer to one another
    MaxCalls     \* bound: calls of Parse by all goroutines

(* relations: type -> the types its relations parse, in field order.       *)
(* bad: the types whose last relation is invalid.                          *)
(* tables: the special table names in use.                                 *)
World == [relations : [Types -> Seq(Types)], bad : SUBSET Types, tables : SUBSET Tables]

ASSUME TypesAssumption ==
    /\ JoinTables \subseteq Types
    /\ Worlds \subseteq World
    /\ \A w \in Worlds : /\ w.bad \cap JoinTables = {}
                         /\ \A t \in JoinTables : w.relations[t] = <<>>
ASSUME TablesAssumption == NoTable \notin Tables
ASSUME CallsAssumption == MaxCalls \in Nat

(* schemaCacheKey: the type, or the type and the special table name.       *)
Keys == Types \X (Tables \cup {NoTable})
Plain(t) == <<t, NoTable>>

VARIABLES
    world,     \* a member of Worlds
    cache,     \* cacheStore: key -> schema
    schemas,   \* the *Schema objects that have been in the cache
    stack,     \* goroutine -> its calls of Parse and getOrParse
    calls,     \* calls from outside, counted for the bound
    returned   \* ghost: schemas handed to callers outside, without an error

vars == <<world, cache, schemas, stack, calls, returned>>

Ids    == DOMAIN schemas
Schema == [key : Keys, initialized : BOOLEAN, err : BOOLEAN, refs : SUBSET Nat]

(* at: get, the Load of getOrParse; load and again, the two Loads of Parse;*)
(* store, its LoadOrStore; wait, <-s.initialized; relate, the loop over    *)
(* the relations; delete and close, the deferred functions.                *)
Places == {"get", "load", "again", "store", "wait", "relate", "delete", "close"}
Frame  == [key : Keys, at : Places, id : Nat, next : Nat \ {0}]

TypeOK ==
    /\ world \in Worlds
    /\ DOMAIN cache \subseteq Keys
    /\ \A k \in DOMAIN cache : cache[k] \in Ids /\ schemas[cache[k]].key = k
    /\ schemas \in Seq(Schema)
    /\ stack \in [Procs -> Seq(Frame)]
    /\ calls \in 0..MaxCalls
    /\ returned \subseteq Ids

Init ==
    /\ world \in Worlds
    /\ cache = [k \in {} |-> 0]
    /\ schemas = <<>>
    /\ stack = [p \in Procs |-> <<>>]
    /\ calls = 0
    /\ returned = {}

Top(p)   == Last(stack[p])
At(p, a) == stack[p] # <<>> /\ Top(p).at = a

(* The frame of a call before it has found or made a schema.               *)
Entered(key, at) == [key |-> key, at |-> at, id |-> 0, next |-> 1]

GoTo(p, at) == stack' = [stack EXCEPT ![p] = Front(@) \o <<[Last(@) EXCEPT !.at = at]>>]
WaitFor(p, i) ==
    stack' = [stack EXCEPT
                 ![p] = Front(@) \o <<[Last(@) EXCEPT !.at = "wait", !.id = i]>>]

(* The innermost call returns schema i: to a caller outside, or to the     *)
(* loop over the relations of the call below, which goes on with the next  *)
(* field or, on an error, gives up.                                        *)
Return(p, i, err, after) ==
    LET below == Front(stack[p])
        n     == Len(below)
    IN  IF n = 0
        THEN /\ stack' = [stack EXCEPT ![p] = <<>>]
             /\ schemas' = after
             /\ returned' = IF err THEN returned ELSE returned \cup {i}
        ELSE /\ IF err
                THEN /\ stack' = [stack EXCEPT ![p] = [below EXCEPT ![n].at = "delete"]]
                     /\ schemas' = [after EXCEPT ![below[n].id].err = TRUE]
                ELSE /\ stack' = [stack EXCEPT
                            ![p] = [below EXCEPT ![n].next = below[n].next + 1]]
                     /\ schemas' = [after EXCEPT ![below[n].id].refs = @ \cup {i}]
             /\ UNCHANGED returned

-----------------------------------------------------------------------------
Call(p, key) ==
    /\ stack[p] = <<>> /\ calls < MaxCalls
    /\ key[1] \notin JoinTables /\ key[2] \in world.tables \cup {NoTable}
    /\ stack' = [stack EXCEPT ![p] = <<Entered(key, "load")>>]
    /\ calls' = calls + 1
    /\ UNCHANGED <<world, cache, schemas, returned>>

(* Mutant: getOrParse waits for what it finds, as Parse does.              *)
GetWaits(p) ==
    /\ At(p, "get")
    /\ IF Top(p).key \in DOMAIN cache
       THEN WaitFor(p, cache[Top(p).key])
       ELSE GoTo(p, "load")
    /\ UNCHANGED <<world, cache, schemas, calls, returned>>

(* getOrParse does not wait for what it finds.                             *)
Get(p) ==
    /\ At(p, "get")
    /\ IF Top(p).key \in DOMAIN cache
       THEN Return(p, cache[Top(p).key], FALSE, schemas)
       ELSE GoTo(p, "load") /\ UNCHANGED <<schemas, returned>>
    /\ UNCHANGED <<world, cache, calls>>

(* Parse looks twice before it builds the schema ...                       *)
Load(p) ==
    /\ \E a \in {"load", "again"} :
           /\ At(p, a)
           /\ IF Top(p).key \in DOMAIN cache
              THEN WaitFor(p, cache[Top(p).key])
              ELSE GoTo(p, IF a = "load" THEN "again" ELSE "store")
    /\ UNCHANGED <<world, cache, schemas, calls, returned>>

(* Mutant: the schema of a special table is cached under its type.         *)
StoreByType(p) ==
    /\ At(p, "store")
    /\ LET key == Top(p).key
           i   == Len(schemas) + 1
       IN  IF key \in DOMAIN cache
           THEN WaitFor(p, cache[key]) /\ UNCHANGED <<cache, schemas>>
           ELSE /\ schemas' = Append(schemas,
                       [key |-> key, initialized |-> FALSE, err |-> FALSE, refs |-> {}])
                /\ cache' = [k \in DOMAIN cache \cup {Plain(key[1])} |->
                                IF k = Plain(key[1]) THEN i ELSE cache[k]]
                /\ stack' = [stack EXCEPT ![p] = Front(@) \o
                                <<[Last(@) EXCEPT !.at = "relate", !.id = i]>>]
    /\ UNCHANGED <<world, calls, returned>>

(* ... and a third time when it has built it.                              *)
Store(p) ==
    /\ At(p, "store")
    /\ LET key == Top(p).key
           i   == Len(schemas) + 1
       IN  IF key \in DOMAIN cache
           THEN WaitFor(p, cache[key]) /\ UNCHANGED <<cache, schemas>>
           ELSE /\ schemas' = Append(schemas,
                       [key |-> key, initialized |-> FALSE, err |-> FALSE, refs |-> {}])
                /\ cache' = [k \in DOMAIN cache \cup {key} |->
                                IF k = key THEN i ELSE cache[k]]
                /\ stack' = [stack EXCEPT ![p] = Front(@) \o
                                <<[Last(@) EXCEPT !.at = "relate", !.id = i]>>]
    /\ UNCHANGED <<world, calls, returned>>

(* Mutant: a caller that finds a schema takes it as it is.                 *)
WaitedNot(p) ==
    /\ At(p, "wait")
    /\ Return(p, Top(p).id, schemas[Top(p).id].err, schemas)
    /\ UNCHANGED <<world, cache, calls>>

Waited(p) ==
    /\ At(p, "wait")
    /\ schemas[Top(p).id].initialized
    /\ Return(p, Top(p).id, schemas[Top(p).id].err, schemas)
    /\ UNCHANGED <<world, cache, calls>>

(* The next relation: getOrParse of the model it refers to, or, for a      *)
(* many2many, Parse of its join table.  After the last one the schema is   *)
(* complete, or its invalid relation is found.                             *)
Relate(p) ==
    /\ At(p, "relate")
    /\ LET t    == Top(p).key[1]
           rels == world.relations[t]
       IN  IF Top(p).next \leq Len(rels)
           THEN LET to == rels[Top(p).next]
                    at == IF to \in JoinTables THEN "load" ELSE "get"
                IN  /\ stack' = [stack EXCEPT ![p] = Append(@, Entered(Plain(to), at))]
                    /\ UNCHANGED schemas
           ELSE /\ schemas' = [schemas EXCEPT ![Top(p).id].err = t \in world.bad]
                /\ GoTo(p, IF t \in world.bad THEN "delete" ELSE "close")
    /\ UNCHANGED <<world, cache, calls, returned>>

(* Mutant: a schema that failed takes those it refers to with it.          *)
DeleteRelated(p) ==
    /\ At(p, "delete")
    /\ cache' = [k \in {l \in DOMAIN cache : l[1] # Top(p).key[1]
                          /\ cache[l] \notin schemas[Top(p).id].refs} |-> cache[k]]
    /\ GoTo(p, "close")
    /\ UNCHANGED <<world, schemas, calls, returned>>

(* The deferred functions, last one first.  The schema is deleted by its   *)
(* type, whatever the key it has.                                          *)
Delete(p) ==
    /\ At(p, "delete")
    /\ cache' = [k \in DOMAIN cache \ {Plain(Top(p).key[1])} |-> cache[k]]
    /\ GoTo(p, "close")
    /\ UNCHANGED <<world, schemas, calls, returned>>

(* Mutant: a schema that failed is left unclosed.                          *)
CloseGood(p) ==
    /\ At(p, "close")
    /\ LET i == Top(p).id
       IN  Return(p, i, schemas[i].err,
                  [schemas EXCEPT ![i].initialized = ~schemas[i].err])
    /\ UNCHANGED <<world, cache, calls>>

Close(p) ==
    /\ At(p, "close")
    /\ LET i == Top(p).id
       IN  Return(p, i, schemas[i].err, [schemas EXCEPT ![i].initialized = TRUE])
    /\ UNCHANGED <<world, cache, calls>>

Step(p) ==
    Get(p) \/ Load(p) \/ Store(p) \/ Waited(p) \/ Relate(p) \/ Delete(p) \/ Close(p)

Next == \E p \in Procs : Step(p) \/ \E key \in Keys : Call(p, key)

Spec == Init /\ [][Next]_vars

(* A goroutine that can go on does so.                                     *)
FairSpec == Spec /\ \A p \in Procs : WF_vars(Step(p))

-----------------------------------------------------------------------------
Holds(p) == {stack[p][n].id : n \in {m \in DOMAIN stack[p] :
                                stack[p][m].at \in {"relate", "delete", "close"}}}

(* No goroutines wait for one another's schemas in a circle, though models *)
(* refer to one another in circles and each goroutine enters the circle    *)
(* elsewhere (schema.go:157-163, 419-421).                                 *)
NoCircularWait ==
    \A S \in (SUBSET Procs) \ {{}} :
        \E p \in S : At(p, "wait") => \A q \in S : Top(p).id \notin Holds(q)

(* Every call of Parse returns (schema.go:157-163).                        *)
CallsReturn == \A p \in Procs : []<>(stack[p] = <<>>)

(* A caller outside gets a schema whose initialization is completed and    *)
(* succeeded, whoever parsed it ("Wait for the initialization of other     *)
(* goroutines to complete", schema.go:160).                                *)
ReturnedComplete ==
    \A i \in returned : schemas[i].initialized /\ ~schemas[i].err

(* All callers of one key get the same schema, and relations that refer to *)
(* one type refer to the same schema (relationship.go:104 compares them by *)
(* their address), whichever goroutine has parsed it.  An invalid model    *)
(* ends this: a schema may refer to one that failed.                       *)
OneSchemaPerKey ==
    world.bad = {} =>
        LET used == returned \cup UNION {schemas[i].refs : i \in returned}
        IN  \A i, j \in used : schemas[i].key = schemas[j].key => i = j

(* A schema that failed is not found any more once those who waited for it *)
(* are told (schema.go:332-337).  Under a special table name it stays, for *)
(* Delete takes the key of its type.                                       *)
FailedNotCached ==
    \A t \in Types : Plain(t) \in DOMAIN cache =>
        LET schema == schemas[cache[Plain(t)]]
        IN  schema.initialized => ~schema.err

(* Callers and relations end with one schema for each key, it is complete  *)
(* when a caller gets it, and none that failed is there for the next one   *)
(* (schema.go:122-371, 406-424).                                           *)
OneGoodSchema == ReturnedComplete /\ OneSchemaPerKey /\ FailedNotCached

(* What a caller has got is what the next one gets: nothing removes from   *)
(* the cache a schema that was parsed without an error, as long as no      *)
(* special table name is in use.                                           *)
GoodStays ==
    [][world.tables = {} => \A k \in DOMAIN cache :
          schemas[cache[k]].initialized /\ ~schemas[cache[k]].err =>
              k \in DOMAIN cache' /\ cache'[k] = cache[k]]_vars
=============================================================================
