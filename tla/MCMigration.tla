----------------------------- MODULE MCMigration -----------------------------
(* Instances of Migration for TLC.  A user belongs to a company, has pets  *)
(* and friends; a company has employees, the other end of the former; both *)
(* own mascots, pets again, by a polymorphic relation.                     *)
EXTENDS Migration, Reorder

CONSTANTS c1, c2

MCModels     == {"User", "Pet", "Company"}
MCJoinTables == {"user_friends"}
name  == <<"", "Name">>
age   == <<"", "Age">>
owner == <<"Owner", "ID">>
MCColumns == ("User" :> {<<"Company", "ID">>}) @@ ("Pet" :> {<<"User", "ID">>, owner})
             @@ ("Company" :> {name, age}) @@ ("user_friends" :> {<<"User", "ID">>, <<"Friends", "ID">>})

Plain(field, to, slice) ==
    [name |-> field, slice |-> slice, to |-> to, key |-> None, join |-> None, tag |-> "", off |-> FALSE]
Mascots == [Plain("Mascots", "Pet", TRUE) EXCEPT !.tag = "polymorphic", !.key = owner]
MCFields ==
    ("User" :> {Plain("Company", "Company", FALSE), Plain("Pets", "Pet", TRUE), Mascots,
                [Plain("Friends", "User", TRUE) EXCEPT !.join = "user_friends"]})
    @@ ("Pet" :> {})
    @@ ("Company" :> {Mascots, [Plain("Employees", "User", TRUE) EXCEPT !.key = <<"Company", "ID">>]})

Attr(kind, null, default) == [kind |-> kind, null |-> null, default |-> default]
Id == Attr("uint", TRUE, "")
MCDeclared ==
    ("User" :> (<<"Company", "ID">> :> Id)) @@ ("Pet" :> (<<"User", "ID">> :> Id @@ owner :> Id))
    @@ ("Company" :> (name :> Attr("string", FALSE, "b") @@ age :> Attr("int", TRUE, "")))
    @@ ("user_friends" :> (<<"User", "ID">> :> Id @@ <<"Friends", "ID">> :> Id))
MCUniques == [t \in Tables |-> IF t = "Company" THEN {name} ELSE {}]
MCChecks  == [t \in Tables |-> IF t = "Company" THEN {age} ELSE {}]
MCIndexes == [t \in Tables |-> IF t = "Company" THEN {[name |-> "idx_age", column |-> age, unique |-> FALSE]} ELSE {}]

Nothing == [t \in Tables |-> NoTable]
(* Companies as an earlier program made them: a name of another kind and   *)
(* default, with a unique index nobody declares any more, and rows.        *)
OldCompanies ==
    [columns |-> (name :> Attr("other", FALSE, "a")), constraints |-> {},
     indexes |-> {[name |-> "old", column |-> name, unique |-> TRUE]}, rows |-> TRUE]
MCDatabases == {Nothing, [Nothing EXCEPT !["Company"] = OldCompanies]}
MCCalls == {<<"Pet", "User">>, <<"Company">>}

(* What ReorderModels may find, whatever Go ranges over first.             *)
MCOrders ==
    [values \in MCCalls |-> [cache \in SUBSET MCModels |->
        {LET r == ReorderModels(values, cache, TRUE, back) IN [parsed |-> r.parsed, ordered |-> r.ordered]
         : back \in BOOLEAN}]]

Symmetry == Permutations(Callers)
=============================================================================
