--------------------------- MODULE ExpirableCache ---------------------------
(***************************************************************************)
(* What an expirable LRU cache promises to its users, without the list,    *)
(* the buckets and the cleanup goroutine that bring it about: a bounded    *)
(* map that forgets the least recently used key when it is full, serves an *)
(* entry up to its expiry and may forget it from that moment on.           *)
(* Lru.tla is shown to implement this specification.                       *)
(***************************************************************************)
EXTENDS Integers, FiniteSets, Recency

CONSTANTS Keys,     \* the keys a caller may use
          Values,   \* the values a caller may store
          Lifetime, \* how long an added entry may be served
          Sizes     \* the arguments of Resize; 0 or less means unlimited

VARIABLES now,      \* the clock
          cap,      \* the capacity, 0 when unlimited
          content,  \* the live entries: key -> [value, expiresAt]
          order,    \* their recency order
          evicted   \* the <<key, value>> pairs given to onEvict by the last call

vars == <<now, cap, content, order, evicted>>

Live == DOMAIN content

(* The pairs onEvict is called with when the keys of S are dropped.        *)
Dropped(S) == {<<k, content[k].value>> : k \in S}

Init ==
    /\ now = 0
    /\ cap \in Nat
    /\ content = << >>
    /\ order = {}
    /\ evicted = {}

(* Dropping S: the keys leave the map and the order, onEvict is told.      *)
Forget(S) ==
    /\ S \subseteq Live
    /\ content' = [k \in Live \ S |-> content[k]]
    /\ order' = Without(order, S)
    /\ evicted' = Dropped(S)

(* Storing a value renews the entry and makes it the most recent one; if   *)
(* this exceeds the capacity exactly the least recent key goes.            *)
Put(k, v) ==
    LET entry == [value |-> v, expiresAt |-> now + Lifetime]
        grown == [j \in Live \cup {k} |-> IF j = k THEN entry ELSE content[j]]
        fresh == Promote(order, k, Live \cup {k})
    IN  /\ UNCHANGED <<now, cap>>
        /\ \/ /\ cap = 0 \/ Cardinality(Live \cup {k}) <= cap
              /\ content' = grown
              /\ order' = fresh
              /\ evicted' = {}
           \/ /\ cap > 0 /\ Cardinality(Live \cup {k}) > cap
              /\ \E old \in Live :
                    /\ IsOldest({old}, fresh, Live \cup {k})
                    /\ content' = [j \in DOMAIN grown \ {old} |-> grown[j]]
                    /\ order' = Without(fresh, {old})
                    /\ evicted' = Dropped({old})

(* Serving an entry: allowed only while it has not expired.                *)
Serve(k) ==
    /\ k \in Live
    /\ now <= content[k].expiresAt
    /\ order' = Promote(order, k, Live)
    /\ evicted' = {}
    /\ UNCHANGED <<now, cap, content>>

(* A call that finds nothing to do.                                        *)
Idle ==
    /\ evicted' = {}
    /\ UNCHANGED <<now, cap, content, order>>

(* An explicit removal of one key, or of all of them.                      *)
Discard ==
    /\ \E S \in {{k} : k \in Live} \cup {Live} : Forget(S)
    /\ UNCHANGED <<now, cap>>

(* Entries may vanish on their own only when their time has come.          *)
Expire ==
    /\ \E S \in SUBSET Live :
          /\ \A k \in S : content[k].expiresAt <= now
          /\ Forget(S)
    /\ UNCHANGED <<now, cap>>

(* A new capacity takes effect at once: the least recent keys go, no more  *)
(* of them than needed.                                                    *)
Resize(n) ==
    /\ cap' = n
    /\ UNCHANGED now
    /\ \E S \in SUBSET Live :
          /\ IsOldest(S, order, Live)
          /\ Cardinality(S) = IF n = 0 \/ Cardinality(Live) <= n
                              THEN 0 ELSE Cardinality(Live) - n
          /\ Forget(S)

Advance ==
    /\ now' = now + 1
    /\ evicted' = {}
    /\ UNCHANGED <<cap, content, order>>

Next ==
    \/ \E k \in Keys, v \in Values : Put(k, v)
    \/ \E k \in Keys : Serve(k)
    \/ Idle
    \/ Discard
    \/ Expire
    \/ \E n \in Sizes : Resize(IF n <= 0 THEN 0 ELSE n)
    \/ Advance

Spec == Init /\ [][Next]_vars
=============================================================================
