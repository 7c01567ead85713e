--------------------------- MODULE MCSchemaCache ---------------------------
(* Instances of SchemaCache for TLC.                                       *)
EXTENDS SchemaCache, TLC

CONSTANTS p1, p2, user, pet, toy, userPets, tbl

WorldOf(ofUser, ofPet, ofToy, bad, tables) ==
    [relations |-> [t \in Types |-> CASE t = user -> ofUser [] t = pet -> ofPet
                                      [] t = toy -> ofToy [] OTHER -> <<>>],
     bad |-> bad, tables |-> tables]

(* Two models that refer to each other, with a join table and a special    *)
(* table name; three in a circle, one of which refers to itself; the same  *)
(* with an invalid relation; and an invalid model with a special table.    *)
AllWorlds ==
    {WorldOf(<<pet, userPets>>, <<user, userPets>>, <<>>, {}, {tbl}),
     WorldOf(<<pet, user>>, <<toy>>, <<user>>, {}, {}),
     WorldOf(<<pet, user>>, <<toy>>, <<user>>, {toy}, {}),
     WorldOf(<<pet>>, <<user>>, <<>>, {pet}, {tbl})}
=============================================================================
