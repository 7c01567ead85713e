--------------------------- MODULE MCTransaction ---------------------------
(* Instances of Transaction for TLC.                                       *)
EXTENDS Transaction

Setting(r, a, n) ==
    [reports |-> r, aborts |-> a, nested |-> n, fails |-> FALSE, stale |-> FALSE]
Failing(s) == [s EXCEPT !.fails = TRUE]
Stale(s)   == [s EXCEPT !.stale = TRUE]

(* driver/mysql; driver/postgres; driver/sqlite and driver/sqlserver; and  *)
(* the latter two with DisableNestedTransaction.                           *)
MySQL    == Setting(TRUE, FALSE, TRUE)
Postgres == Setting(FALSE, TRUE, TRUE)
SQLite   == Setting(FALSE, FALSE, TRUE)
Flat     == Setting(FALSE, FALSE, FALSE)
FlatPg   == Setting(FALSE, TRUE, FALSE)

AllSettings ==
    {MySQL, Postgres, SQLite, Flat, FlatPg, Stale(MySQL),
     Failing(MySQL), Failing(Postgres), Failing(SQLite)}

FailingMySQL == {Failing(MySQL)}
=============================================================================
