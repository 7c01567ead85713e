------------------------------ MODULE Recency ------------------------------
(***************************************************************************)
(* The recency list of the LRU cache (LruList, gorm/internal/lru/lru.go).  *)
(*                                                                         *)
(* The doubly-linked list never holds a key twice, and all that its users  *)
(* ask of it is which of two entries was used more recently.  It is        *)
(* therefore a strict total order on the live keys: <<a, b>> \in order     *)
(* when a is nearer to the front than b.                                   *)
(***************************************************************************)

(* PushFront of a new key and MoveToFront of a present one: k precedes all *)
(* other keys of live, which keep their relative order.                    *)
Promote(order, k, live) ==
    {p \in order : p[1] # k /\ p[2] # k} \cup ({k} \X (live \ {k}))

(* Remove of every key of S; the others keep their relative order.         *)
Without(order, S) == {p \in order : p[1] \notin S /\ p[2] \notin S}

(* S is what Cardinality(S) calls of Remove(Back()) take out of the list.  *)
IsOldest(S, order, live) ==
    /\ S \subseteq live
    /\ \A k \in S : \A j \in live \ S : <<j, k>> \in order

(* What a list without duplicates over live looks like as a relation.      *)
IsRecencyOrder(order, live) ==
    /\ order \subseteq live \X live
    /\ \A a \in live : <<a, a>> \notin order
    /\ \A a, b \in live : a # b => (<<a, b>> \in order \/ <<b, a>> \in order)
    /\ \A a, b, c \in live :
          <<a, b>> \in order /\ <<b, c>> \in order => <<a, c>> \in order
=============================================================================
