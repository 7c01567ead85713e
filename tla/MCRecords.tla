------------------------------ MODULE MCRecords -----------------------------
(* A table of live and deleted rows that two conditions tell apart.        *)
EXTENDS Records

CONSTANTS adult, vip
MCAtoms == {adult, vip}
MCAssigned == {vip}
MCWords == {<<"where", adult>>, <<"where", vip>>, <<"or", vip>>, <<"not", adult>>, <<"scope", vip>>}
MCRows  == {[id |-> 1, is |-> {adult}, gone |-> FALSE], [id |-> 2, is |-> {vip}, gone |-> FALSE],
            [id |-> 3, is |-> {adult, vip}, gone |-> TRUE], [id |-> 4, is |-> {adult}, gone |-> FALSE]}
=============================================================================
