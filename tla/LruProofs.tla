----------------------------- MODULE LruProofs -----------------------------
(***************************************************************************)
(* What Lru keeps for every set of keys, size, ttl and number of buckets.  *)
(***************************************************************************)
EXTENDS Lru, FiniteSetTheorems, TLAPS

-----------------------------------------------------------------------------
(* The recency list.                                                       *)

LEMMA PromoteOrder ==
    ASSUME NEW order1, NEW live, NEW k, IsRecencyOrder(order1, live)
    PROVE  IsRecencyOrder(Promote(order1, k, live \cup {k}), live \cup {k})
  BY DEF IsRecencyOrder, Promote

LEMMA WithoutOrder ==
    ASSUME NEW order1, NEW live, NEW S, IsRecencyOrder(order1, live)
    PROVE  IsRecencyOrder(Without(order1, S), live \ S)
  BY DEF IsRecencyOrder, Without

-----------------------------------------------------------------------------
(* The bucket that takes new entries is never the one cleaned next.        *)
LEMMA BucketOther ==
    ASSUME NEW next \in Buckets
    PROVE  BucketID(next) \in Buckets /\ BucketID(next) # next
<1>1. NumBuckets \in 2..128 BY BucketsAssumption
<1>2. CASE next = 0
  <2>1. (NumBuckets + next - 1) % 256 = NumBuckets - 1 BY <1>1, <1>2
  <2>2. (NumBuckets - 1) % NumBuckets = NumBuckets - 1 BY <1>1
  <2> QED BY <1>1, <1>2, <2>1, <2>2 DEF BucketID, Buckets
<1>3. CASE next # 0
  <2>1. (NumBuckets + next - 1) % 256 = NumBuckets + next - 1
    BY <1>1, <1>3 DEF Buckets
  <2>2. (NumBuckets + (next - 1)) % NumBuckets = next - 1
    BY <1>1, <1>3 DEF Buckets
  <2> QED BY <1>1, <1>3, <2>1, <2>2 DEF BucketID, Buckets
<1> QED BY <1>2, <1>3

LEMMA NextBucket ==
    ASSUME NEW next \in Buckets
    PROVE  (next + 1) % NumBuckets \in Buckets
  BY BucketsAssumption DEF Buckets

LEMMA TtlNat == ttl \in Nat /\ ttl > 0
  BY TTLAssumption DEF ttl

-----------------------------------------------------------------------------
(* The inductive invariant.  Consistent alone is not inductive: without    *)
(* the types nothing is known of the entries.  NewestBound needs           *)
(* Consistent, because an entry leaves the bucket it remembers.            *)
Inv == TypeOK /\ Consistent /\ SizeBound /\ NewestBound

LEMMA LiveFinite == ASSUME TypeOK PROVE IsFiniteSet(Live) /\ Cardinality(Live) \in Nat
  BY KeysAssumption, FS_Subset, FS_CardinalityType DEF TypeOK

LEMMA InitInv == Init => Inv
<1> SUFFICES ASSUME Init PROVE Inv OBVIOUS
<1> USE DEF Init
<1>1. Live = {} BY DEF Live
<1>2. TypeOK
  BY <1>1, SizesAssumption, BucketsAssumption
  DEF TypeOK, NewSize, Buckets, Entry, Live
<1>3. Consistent BY <1>1 DEF Consistent, IsRecencyOrder
<1>4. SizeBound BY <1>1, FS_EmptySet, SizesAssumption DEF SizeBound, NewSize
<1>5. NewestBound BY <1>1 DEF NewestBound
<1> QED BY <1>2, <1>3, <1>4, <1>5 DEF Inv

(* removeElement on any set of live keys keeps the three structures        *)
(* consistent and leaves the other entries alone.                          *)
LEMMA Removal ==
    ASSUME Inv, NEW S \in SUBSET Live, RemoveElements(S)
    PROVE  /\ Live' = Live \ S
           /\ \A k \in Live' : items'[k] = items[k]
           /\ items' \in [Live' -> Entry]
           /\ order' \subseteq Keys \X Keys
           /\ entries' \in [Buckets -> SUBSET Keys]
           /\ evicted' \subseteq Keys \X Values
           /\ Consistent'
<1> USE DEF Inv, TypeOK
<1>1. Live' = Live \ S BY DEF RemoveElements, Live
<1>2. \A k \in Live' : items'[k] = items[k] BY <1>1 DEF RemoveElements, Live
<1>3. items' \in [Live' -> Entry] BY <1>1 DEF RemoveElements, Live
<1>4. order' \subseteq Keys \X Keys BY DEF RemoveElements, Without
<1>5. entries' \in [Buckets -> SUBSET Keys] BY DEF RemoveElements, Unbucketed
<1>6. evicted' \subseteq Keys \X Values
  BY DEF RemoveElements, Entry
<1>7. IsRecencyOrder(order', Live')
  BY <1>1, WithoutOrder DEF RemoveElements, Consistent
<1>8. \A b \in Buckets : entries'[b] = {k \in Live' : items'[k].bucket = b}
  BY <1>1, <1>2 DEF RemoveElements, Unbucketed, Consistent
<1> QED BY <1>1, <1>2, <1>3, <1>4, <1>5, <1>6, <1>7, <1>8 DEF Consistent

(* A step that only removes entries preserves the invariant when it leaves *)
(* size, clock, newestEntry and the goroutine alone.                       *)
LEMMA RemovalInv ==
    ASSUME Inv, NEW S \in SUBSET Live, RemoveElements(S),
           UNCHANGED <<size, newestEntry, now, goroutine>>
    PROVE  Inv'
<1>1. /\ Live' = Live \ S
      /\ \A k \in Live' : items'[k] = items[k]
      /\ Consistent'
  BY Removal
<1>2. TypeOK' BY <1>1, Removal DEF Inv, TypeOK, goroutine
<1>3. SizeBound'
  <2>1. Cardinality(Live') <= Cardinality(Live)
    BY <1>1, LiveFinite, FS_Subset DEF Inv
  <2>2. Cardinality(Live') \in Nat /\ Cardinality(Live) \in Nat
    BY <1>2, <1>1, LiveFinite, FS_Subset, FS_CardinalityType DEF Inv
  <2> QED BY <2>1, <2>2 DEF Inv, SizeBound, TypeOK
<1>4. NewestBound' BY <1>1 DEF Inv, NewestBound, goroutine
<1> QED BY <1>1, <1>2, <1>3, <1>4 DEF Inv

-----------------------------------------------------------------------------
(* Storing a value under k while the entries of gone leave: what all three *)
(* forms of Add have in common.                                            *)
Stored(k, v, gone) ==
    /\ items' = [j \in (Live \cup {k}) \ gone |-> WithItem(k, v)[j]]
    /\ order' = Without(Promote(order, k, Live \cup {k}), gone)
    /\ entries' = [Unbucketed(gone \cup ({k} \cap Live))
                     EXCEPT ![BucketID(nextCleanupBucket)] = @ \cup {k}]
    /\ newestEntry' = [newestEntry EXCEPT
                         ![BucketID(nextCleanupBucket)] = Later(@, now + ttl)]
    /\ UNCHANGED <<size, now, goroutine>>

(* The new expiry is below the raised newestEntry, and the bucket that was *)
(* raised is not the one a sleeping cleaner waits for.                     *)
LEMMA Insertion ==
    ASSUME Inv, NEW k \in Keys, NEW v \in Values, NEW gone \in SUBSET (Live \ {k}),
           Stored(k, v, gone)
    PROVE  /\ Live' = (Live \cup {k}) \ gone
           /\ items' \in [Live' -> Entry]
           /\ Live' \subseteq Keys
           /\ order' \subseteq Keys \X Keys
           /\ entries' \in [Buckets -> SUBSET Keys]
           /\ newestEntry' \in [Buckets -> Nat]
           /\ Consistent'
           /\ NewestBound'
<1> DEFINE b == BucketID(nextCleanupBucket)
<1> USE DEF Inv, TypeOK
<1>1. b \in Buckets /\ b # nextCleanupBucket BY BucketOther
<1>2. now + ttl \in Nat BY TtlNat
<1>3. Live' = (Live \cup {k}) \ gone BY DEF Stored, Live
<1>4. /\ k \in Live'
      /\ items'[k] = [value |-> v, expiresAt |-> now + ttl, bucket |-> b]
      /\ \A j \in Live' : j # k => j \in Live /\ items'[j] = items[j]
  BY <1>3 DEF Stored, WithItem, Live
<1>5. items' \in [Live' -> Entry]
  <2>1. items'[k] \in Entry BY <1>1, <1>2, <1>4 DEF Entry
  <2>2. \A j \in Live' : j # k => items'[j] \in Entry BY <1>4
  <2>3. items' = [j \in Live' |-> items'[j]] BY <1>3 DEF Stored, Live
  <2> QED BY <2>1, <2>2, <2>3
<1>6. /\ entries' = [Unbucketed(gone \cup ({k} \cap Live)) EXCEPT ![b] = @ \cup {k}]
      /\ newestEntry' = [newestEntry EXCEPT ![b] = Later(@, now + ttl)]
  BY DEF Stored
<1>7. /\ newestEntry' \in [Buckets -> Nat]
      /\ newestEntry'[b] >= now + ttl
      /\ \A c \in Buckets : newestEntry'[c] >= newestEntry[c]
      /\ \A c \in Buckets : c # b => newestEntry'[c] = newestEntry[c]
  BY <1>1, <1>2, <1>6 DEF Later
<1>8. entries' \in [Buckets -> SUBSET Keys] BY <1>1, <1>6 DEF Unbucketed
<1>9. IsRecencyOrder(order', Live')
  <2>1. IsRecencyOrder(Promote(order, k, Live \cup {k}), Live \cup {k})
    BY PromoteOrder DEF Consistent
  <2> QED BY <2>1, <1>3, WithoutOrder DEF Stored
<1>10. order' \subseteq Keys \X Keys
  BY <1>3, <1>9 DEF IsRecencyOrder
<1>11. ASSUME NEW c \in Buckets
       PROVE  entries'[c] = {j \in Live' : items'[j].bucket = c}
  <2>1. entries[c] = {j \in Live : items[j].bucket = c} BY DEF Consistent
  <2>2. Unbucketed(gone \cup ({k} \cap Live))[c]
          = {j \in Live : items[j].bucket = c /\ j \notin gone /\ j # k}
    BY <2>1 DEF Unbucketed
  <2>3. CASE c = b
    <3>1. entries'[c] = {j \in Live : items[j].bucket = c /\ j \notin gone /\ j # k}
                           \cup {k}
      BY <2>2, <2>3, <1>6 DEF Unbucketed
    <3> QED BY <3>1, <2>3, <1>3, <1>4
  <2>4. CASE c # b
    <3>1. entries'[c] = {j \in Live : items[j].bucket = c /\ j \notin gone /\ j # k}
      BY <2>2, <2>4, <1>6 DEF Unbucketed
    <3> QED BY <3>1, <2>4, <1>3, <1>4
  <2> QED BY <2>3, <2>4
<1>12. Consistent' BY <1>9, <1>11 DEF Consistent
<1>13. NewestBound'
  <2>1. ASSUME NEW j \in Live'
        PROVE  items'[j].expiresAt <= newestEntry'[items'[j].bucket]
    <3>1. CASE j = k BY <3>1, <1>4, <1>7
    <3>2. CASE j # k
      <4>1. j \in Live /\ items'[j] = items[j] BY <3>2, <1>4
      <4>2. items[j] \in Entry BY <4>1
      <4>3. items[j].expiresAt <= newestEntry[items[j].bucket]
        BY <4>1 DEF NewestBound
      <4> QED BY <4>1, <4>2, <4>3, <1>7 DEF Entry
    <3> QED BY <3>1, <3>2
  <2>2. (cleaner = "sleeping" => wakeAt = newestEntry[nextCleanupBucket])'
    BY <1>1, <1>7 DEF Stored, NewestBound, goroutine
  <2> QED BY <2>1, <2>2 DEF NewestBound
<1> QED BY <1>3, <1>4, <1>5, <1>7, <1>8, <1>10, <1>12, <1>13

LEMMA AddExistingStores ==
    ASSUME NEW k \in Keys, NEW v \in Values, AddExisting(k, v)
    PROVE  Stored(k, v, {})
<1> USE DEF AddExisting
<1>1. Live \cup {k} = Live /\ {k} \cap Live = {k} OBVIOUS
<1>2. items' = [j \in (Live \cup {k}) \ {} |-> WithItem(k, v)[j]]
  BY DEF WithItem
<1>3. order' = Without(Promote(order, k, Live \cup {k}), {})
  BY <1>1 DEF Without
<1>4. Unbucketed({} \cup ({k} \cap Live)) = Unbucketed({k}) BY <1>1
<1> QED BY <1>2, <1>3, <1>4 DEF Stored, AddToBucket

LEMMA AddNewStores ==
    ASSUME Inv, NEW k \in Keys, NEW v \in Values, AddNew(k, v)
    PROVE  Stored(k, v, {})
<1> USE DEF AddNew
<1>1. {k} \cap Live = {} OBVIOUS
<1>2. items' = [j \in (Live \cup {k}) \ {} |-> WithItem(k, v)[j]]
  BY DEF WithItem
<1>3. order' = Without(Promote(order, k, Live \cup {k}), {})
  <2>1. order \subseteq Live \X Live BY DEF Inv, Consistent, IsRecencyOrder
  <2> QED BY <2>1 DEF Without, Promote
<1>4. Unbucketed({} \cup ({k} \cap Live)) = entries
  BY <1>1 DEF Unbucketed, Inv, TypeOK
<1> QED BY <1>2, <1>3, <1>4 DEF Stored, AddToBucket

LEMMA AddExistingInv ==
    ASSUME Inv, NEW k \in Keys, NEW v \in Values, AddExisting(k, v) PROVE Inv'
<1> USE DEF AddExisting
<1>1. Live \cup {k} = Live OBVIOUS
<1>5. Stored(k, v, {}) BY AddExistingStores
<1>6. /\ Live' = Live
      /\ items' \in [Live' -> Entry]
      /\ Live' \subseteq Keys
      /\ order' \subseteq Keys \X Keys
      /\ entries' \in [Buckets -> SUBSET Keys]
      /\ newestEntry' \in [Buckets -> Nat]
      /\ Consistent'
      /\ NewestBound'
  <2>1. {} \in SUBSET (Live \ {k}) OBVIOUS
  <2>2. (Live \cup {k}) \ {} = Live BY <1>1
  <2> HIDE DEF AddExisting
  <2> QED BY <1>5, <2>1, <2>2, Insertion
<1>7. TypeOK' BY <1>6 DEF Inv, TypeOK, goroutine
<1>8. SizeBound' BY <1>6 DEF Inv, SizeBound
<1> QED BY <1>6, <1>7, <1>8 DEF Inv

LEMMA AddNewInv ==
    ASSUME Inv, NEW k \in Keys, NEW v \in Values, AddNew(k, v) PROVE Inv'
<1> USE DEF AddNew
<1>5. Stored(k, v, {}) BY AddNewStores
<1>6. /\ Live' = Live \cup {k}
      /\ items' \in [Live' -> Entry]
      /\ Live' \subseteq Keys
      /\ order' \subseteq Keys \X Keys
      /\ entries' \in [Buckets -> SUBSET Keys]
      /\ newestEntry' \in [Buckets -> Nat]
      /\ Consistent'
      /\ NewestBound'
  <2>1. {} \in SUBSET (Live \ {k}) OBVIOUS
  <2>2. (Live \cup {k}) \ {} = Live \cup {k} OBVIOUS
  <2> HIDE DEF AddNew
  <2> QED BY <1>5, <2>1, <2>2, Insertion
<1>7. TypeOK' BY <1>6 DEF Inv, TypeOK, goroutine
<1>8. SizeBound'
  BY <1>6, LiveFinite, FS_AddElement DEF Inv, SizeBound, TypeOK
<1> QED BY <1>6, <1>7, <1>8 DEF Inv

LEMMA AddEvictingInv ==
    ASSUME Inv, NEW k \in Keys, NEW v \in Values, AddEvicting(k, v) PROVE Inv'
<1>1. PICK old \in Live :
        /\ items' = [j \in (Live \cup {k}) \ {old} |-> WithItem(k, v)[j]]
        /\ order' = Without(Promote(order, k, Live \cup {k}), {old})
        /\ AddToBucket(k, Unbucketed({old}))
        /\ evicted' = {<<old, items[old].value>>}
  BY DEF AddEvicting
<1>2. /\ k \notin Live
      /\ Cardinality(Live) + 1 > size
      /\ UNCHANGED <<size, now, goroutine>>
  BY DEF AddEvicting
<1>3. {old} \in SUBSET (Live \ {k}) /\ {old} \cup ({k} \cap Live) = {old}
  BY <1>1, <1>2
<1>4. Stored(k, v, {old}) BY <1>1, <1>2, <1>3 DEF Stored, AddToBucket
<1>5. /\ Live' = (Live \cup {k}) \ {old}
      /\ items' \in [Live' -> Entry]
      /\ Live' \subseteq Keys
      /\ order' \subseteq Keys \X Keys
      /\ entries' \in [Buckets -> SUBSET Keys]
      /\ newestEntry' \in [Buckets -> Nat]
      /\ Consistent'
      /\ NewestBound'
  BY <1>3, <1>4, Insertion
<1>6. TypeOK'
  <2>1. evicted' \subseteq Keys \X Values BY <1>1 DEF Inv, TypeOK, Entry
  <2> QED BY <2>1, <1>2, <1>5 DEF Inv, TypeOK, goroutine
<1>7. SizeBound'
  <2>1. /\ IsFiniteSet(Live \cup {k})
        /\ Cardinality(Live \cup {k}) = Cardinality(Live) + 1
    BY <1>2, LiveFinite, FS_AddElement DEF Inv
  <2>2. Cardinality(Live') = Cardinality(Live \cup {k}) - 1
    BY <2>1, <1>1, <1>5, FS_RemoveElement
  <2> QED BY <2>1, <2>2, <1>2, LiveFinite DEF Inv, SizeBound, TypeOK
<1> QED BY <1>5, <1>6, <1>7 DEF Inv

-----------------------------------------------------------------------------
(* The removing calls.                                                     *)

LEMMA ResizeInv == ASSUME Inv, NEW n \in Sizes, Resize(n) PROVE Inv'
<1>1. PICK S \in SUBSET Live :
        /\ Cardinality(S) = IF n <= 0 \/ Cardinality(Live) <= n
                            THEN 0 ELSE Cardinality(Live) - n
        /\ RemoveElements(S)
  BY DEF Resize
<1>2. /\ Live' = Live \ S
      /\ \A k \in Live' : items'[k] = items[k]
      /\ Consistent'
  BY <1>1, Removal
<1>3. TypeOK'
  <2>1. /\ items' \in [Live' -> Entry]
        /\ order' \subseteq Keys \X Keys
        /\ entries' \in [Buckets -> SUBSET Keys]
        /\ evicted' \subseteq Keys \X Values
    BY <1>1, Removal
  <2>2. size' \in Nat BY SizesAssumption DEF Resize, NewSize
  <2>3. UNCHANGED <<newestEntry, now, goroutine>> BY DEF Resize
  <2> QED BY <1>2, <2>1, <2>2, <2>3 DEF Inv, TypeOK, goroutine
<1>4. SizeBound'
  <2>1. Cardinality(Live') = Cardinality(Live) - Cardinality(S)
    BY <1>2, LiveFinite, FS_Difference, Live \cap S = S DEF Inv
  <2> QED BY <2>1, <1>1, LiveFinite, SizesAssumption
          DEF Inv, SizeBound, Resize, NewSize
<1>5. NewestBound' BY <1>2 DEF Inv, NewestBound, Resize, goroutine
<1> QED BY <1>2, <1>3, <1>4, <1>5 DEF Inv

(* Purge is the removal of everything, written as three clearings.         *)
LEMMA PurgeRemovesAll == ASSUME Inv, Purge PROVE RemoveElements(Live)
<1>1. items' = [k \in Live \ Live |-> items[k]] BY DEF Purge
<1>2. order' = Without(order, Live)
  BY DEF Purge, Without, Inv, Consistent, IsRecencyOrder
<1>3. entries' = Unbucketed(Live)
  BY DEF Purge, Unbucketed, Inv, Consistent
<1> QED BY <1>1, <1>2, <1>3 DEF RemoveElements, Purge

LEMMA RemovalsInv ==
    ASSUME Inv,
           (\E k \in Keys : Remove(k)) \/ RemoveOldest \/ Purge
    PROVE  Inv'
<1>1. ASSUME NEW k \in Keys, Remove(k) PROVE Inv'
  <2>1. {k} \cap Live \in SUBSET Live OBVIOUS
  <2> QED BY <1>1, <2>1, RemovalInv DEF Remove
<1>2. CASE RemoveOldest BY <1>2, RemovalInv DEF RemoveOldest
<1>3. CASE Purge
  <2>1. Live \in SUBSET Live OBVIOUS
  <2>2. UNCHANGED <<size, newestEntry, now, goroutine>> BY <1>3 DEF Purge
  <2> QED BY <1>3, <2>1, <2>2, PurgeRemovesAll, RemovalInv
<1> QED BY <1>1, <1>2, <1>3

-----------------------------------------------------------------------------
(* The cleanup goroutine.                                                  *)

LEMMA CleaningInv ==
    ASSUME Inv, CleanBucket, cleaner' = "waiting", tick' \in BOOLEAN,
           UNCHANGED <<size, newestEntry, wakeAt, now>>
    PROVE  Inv'
<1> DEFINE S == entries[nextCleanupBucket]
<1>1. S \in SUBSET Live BY DEF Inv, TypeOK, Consistent
<1>2. RemoveElements(S) BY DEF CleanBucket
<1>3. /\ Live' = Live \ S
      /\ \A k \in Live' : items'[k] = items[k]
      /\ Consistent'
  BY <1>1, <1>2, Removal
<1>4. TypeOK'
  BY <1>1, <1>2, <1>3, Removal, NextBucket DEF Inv, TypeOK, CleanBucket
<1>5. SizeBound'
  <2>1. /\ Cardinality(Live') <= Cardinality(Live)
        /\ Cardinality(Live') \in Nat
    BY <1>3, LiveFinite, FS_Subset, FS_CardinalityType DEF Inv
  <2> QED BY <2>1, LiveFinite DEF Inv, SizeBound, TypeOK
<1>6. NewestBound' BY <1>3 DEF Inv, NewestBound
<1> QED BY <1>3, <1>4, <1>5, <1>6 DEF Inv

LEMMA CleanerInv == ASSUME Inv, Cleaner PROVE Inv'
<1>1. CASE CleanNow BY <1>1, CleaningInv DEF CleanNow
<1>2. CASE CleanerSleeps
  <2>1. TypeOK' BY <1>2 DEF CleanerSleeps, Live, Inv, TypeOK
  <2>2. Consistent' BY <1>2 DEF CleanerSleeps, Live, Inv, Consistent
  <2>3. SizeBound' BY <1>2 DEF CleanerSleeps, Live, Inv, SizeBound
  <2>4. NewestBound' BY <1>2 DEF CleanerSleeps, Live, Inv, NewestBound
  <2> QED BY <2>1, <2>2, <2>3, <2>4 DEF Inv
<1>3. CASE CleanerWakes BY <1>3, CleaningInv DEF CleanerWakes, Inv, TypeOK
<1> QED BY <1>1, <1>2, <1>3 DEF Cleaner

-----------------------------------------------------------------------------
LEMMA NextInv == ASSUME Inv, [Next]_vars PROVE Inv'
<1>1. ASSUME NEW k \in Keys, NEW v \in Values, Add(k, v) PROVE Inv'
  BY <1>1, AddExistingInv, AddNewInv, AddEvictingInv DEF Add
<1>2. ASSUME NEW k \in Keys, Get(k) PROVE Inv'
  <2>1. Promote(order, k, Live \cup {k}) = Promote(order, k, Live)
          \/ k \notin Live
    BY Live \cup {k} = Live \/ k \notin Live
  <2>2. IsRecencyOrder(order', Live)
    <3>1. CASE order' = order BY <3>1 DEF Inv, Consistent
    <3>2. CASE order' = Promote(order, k, Live) /\ k \in Live
      <4>1. Live \cup {k} = Live BY <3>2
      <4>2. IsRecencyOrder(order, Live) BY DEF Inv, Consistent
      <4> QED BY <3>2, <4>1, <4>2, PromoteOrder
    <3> QED BY <1>2, <3>1, <3>2 DEF Get
  <2>3. UNCHANGED <<size, items, entries, newestEntry, now, goroutine>>
    BY <1>2 DEF Get
  <2>4. TypeOK'
    BY <1>2, <2>2, <2>3 DEF Get, Inv, TypeOK, goroutine, IsRecencyOrder, Live
  <2>5. Consistent' /\ SizeBound' /\ NewestBound'
    BY <2>2, <2>3 DEF Inv, Consistent, SizeBound, NewestBound, goroutine, Live
  <2> QED BY <2>4, <2>5 DEF Inv
<1>3. ASSUME NEW n \in Sizes, Resize(n) PROVE Inv' BY <1>3, ResizeInv
<1>4. CASE (\E k \in Keys : Remove(k)) \/ RemoveOldest \/ Purge
  BY <1>4, RemovalsInv
<1>5. CASE Cleaner BY <1>5, CleanerInv
<1>6. CASE Tick
  <2>1. TypeOK' BY <1>6, BoundsAssumption DEF Tick, Inv, TypeOK, Live
  <2>2. Consistent' /\ SizeBound' /\ NewestBound'
    BY <1>6 DEF Tick, Inv, Consistent, SizeBound, NewestBound, Live
  <2> QED BY <2>1, <2>2 DEF Inv
<1>7. CASE UNCHANGED vars
  BY <1>7 DEF vars, goroutine, Inv, TypeOK, Consistent, SizeBound, NewestBound, Live
<1> QED BY <1>1, <1>2, <1>3, <1>4, <1>5, <1>6, <1>7 DEF Next

LEMMA SpecInv == Spec => []Inv
BY InitInv, NextInv, PTL DEF Spec

(* The types of the cache's structures, for every size, ttl and number of  *)
(* buckets up to 128.                                                      *)
THEOREM LruTypes == Spec => []TypeOK
BY SpecInv, PTL DEF Inv

(* The recency list, the map and the buckets always describe the same      *)
(* entries (lru.go:312-353).                                               *)
THEOREM LruConsistent == Spec => []Consistent
BY SpecInv, PTL DEF Inv

(* The cache never holds more than size entries (lru.go:137-141, 281-288). *)
THEOREM LruSizeBound == Spec => []SizeBound
BY SpecInv, PTL DEF Inv

(* What deleteExpired read before it slept still bounds the expiry of all  *)
(* entries of the bucket it clears (lru.go:325-335).                       *)
THEOREM LruNewestBound == Spec => []NewestBound
BY SpecInv, PTL DEF Inv

(* All three, as the runs check them.                                      *)
THEOREM LruStructure == Spec => []Structure
BY SpecInv, PTL DEF Inv, Structure

(* The cleanup goroutine removes no entry before its time, whatever was    *)
(* added or renewed while it slept without the lock (lru.go:323-338).      *)
THEOREM LruCleanerNeverEarly == Spec => CleanerNeverEarly
<1>1. ASSUME Inv, [Next]_vars
      PROVE  [Cleaner => \A k \in Live : k \notin DOMAIN items' =>
                                            items[k].expiresAt <= now]_vars
  <2> SUFFICES ASSUME Cleaner, NEW k \in Live, k \notin DOMAIN items'
               PROVE  items[k].expiresAt <= now
    OBVIOUS
  <2>1. items[k] \in Entry BY <1>1 DEF Inv, TypeOK
  <2>2. items[k].expiresAt <= newestEntry[items[k].bucket]
    BY <1>1 DEF Inv, NewestBound
  <2>3. ASSUME CleanBucket, newestEntry[nextCleanupBucket] <= now
        PROVE  items[k].expiresAt <= now
    <3>1. k \in entries[nextCleanupBucket]
      BY <2>3 DEF CleanBucket, RemoveElements, Live
    <3>2. items[k].bucket = nextCleanupBucket
      BY <1>1, <3>1 DEF Inv, TypeOK, Consistent
    <3> QED BY <1>1, <2>1, <2>2, <2>3, <3>2 DEF Inv, TypeOK, Entry
  <2>4. CASE CleanNow BY <2>3, <2>4 DEF CleanNow
  <2>5. CASE CleanerSleeps BY <2>5 DEF CleanerSleeps, Live
  <2>6. CASE CleanerWakes
    BY <1>1, <2>3, <2>6 DEF CleanerWakes, Inv, NewestBound
  <2> QED BY <2>4, <2>5, <2>6 DEF Cleaner
<1> QED BY <1>1, SpecInv, PTL DEF Spec, CleanerNeverEarly

-----------------------------------------------------------------------------
(* onEvict.                                                                *)

LEMMA RemovalEvicts ==
    ASSUME NEW S \in SUBSET Live, RemoveElements(S)
    PROVE  evicted' = {<<k, items[k].value>> : k \in Live \ DOMAIN items'}
<1>1. Live \ DOMAIN items' = S BY DEF RemoveElements, Live
<1> QED BY <1>1 DEF RemoveElements

(* Every entry that leaves the cache is handed to onEvict with the value   *)
(* it had, and nothing else is (lru.go:100-105, 316-318): a prepared       *)
(* statement can be dropped without being closed only by being replaced.   *)
THEOREM LruEvictedExactly == Spec => EvictedExactly
<1> DEFINE Gone == {<<k, items[k].value>> : k \in Live \ DOMAIN items'}
<1>1. ASSUME Inv, [Next]_vars
      PROVE  [evicted' = {<<k, items[k].value>> : k \in Live \ DOMAIN items'}]_vars
  <2> SUFFICES ASSUME Next PROVE evicted' = Gone
    BY <1>1
  <2>1. ASSUME Live \subseteq DOMAIN items', evicted' = {} PROVE evicted' = Gone
    <3>1. Live \ DOMAIN items' = {} BY <2>1
    <3> QED BY <2>1, <3>1
  <2>2. ASSUME NEW k \in Keys, NEW v \in Values, Add(k, v) PROVE evicted' = Gone
    <3>1. CASE AddExisting(k, v)
      BY <3>1, <2>1 DEF AddExisting, WithItem, Live
    <3>2. CASE AddNew(k, v) BY <3>2, <2>1 DEF AddNew, WithItem, Live
    <3>3. CASE AddEvicting(k, v)
      <4>1. PICK old \in Live :
              /\ items' = [j \in (Live \cup {k}) \ {old} |-> WithItem(k, v)[j]]
              /\ evicted' = {<<old, items[old].value>>}
        BY <3>3 DEF AddEvicting
      <4>2. Live \ DOMAIN items' = {old} BY <4>1
      <4> QED BY <4>1, <4>2
    <3> QED BY <2>2, <3>1, <3>2, <3>3 DEF Add
  <2>3. ASSUME NEW k \in Keys, Get(k) PROVE evicted' = Gone
    BY <2>1, <2>3 DEF Get, Live
  <2>4. ASSUME NEW k \in Keys, Remove(k) PROVE evicted' = Gone
    <3>1. {k} \cap Live \in SUBSET Live OBVIOUS
    <3> QED BY <2>4, <3>1, RemovalEvicts DEF Remove
  <2>5. CASE RemoveOldest BY <2>5, RemovalEvicts DEF RemoveOldest
  <2>6. ASSUME NEW n \in Sizes, Resize(n) PROVE evicted' = Gone
    BY <2>6, RemovalEvicts DEF Resize
  <2>7. CASE Purge
    <3>1. Live \in SUBSET Live OBVIOUS
    <3> QED BY <1>1, <2>7, <3>1, PurgeRemovesAll, RemovalEvicts
  <2>8. CASE Cleaner
    <3>1. entries[nextCleanupBucket] \in SUBSET Live
      BY <1>1 DEF Inv, TypeOK, Consistent
    <3>2. CASE CleanBucket BY <3>1, <3>2, RemovalEvicts DEF CleanBucket
    <3>3. CASE CleanerSleeps BY <2>1, <3>3 DEF CleanerSleeps, Live
    <3> QED BY <2>8, <3>2, <3>3 DEF Cleaner, CleanNow, CleanerWakes
  <2>9. CASE Tick BY <2>1, <2>9 DEF Tick, Live
  <2> QED BY <2>2, <2>3, <2>4, <2>5, <2>6, <2>7, <2>8, <2>9 DEF Next
<1> QED BY <1>1, SpecInv, PTL DEF Spec, EvictedExactly

-----------------------------------------------------------------------------
(* The cache implements the abstract one.                                  *)

Content == [k \in Live |-> [value |-> items[k].value,
                            expiresAt |-> items[k].expiresAt]]

LEMMA AbstractLive == Abstract!Live = Live
  BY DEF Abstract!Live

LEMMA AbstractRecency ==
    /\ \A r, S : Abstract!Without(r, S) = Without(r, S)
    /\ \A r, k, live : Abstract!Promote(r, k, live) = Promote(r, k, live)
    /\ \A r, S, live : Abstract!IsOldest(S, r, live) <=> IsOldest(S, r, live)
  BY DEF Without, Promote, IsOldest,
         Abstract!Without, Abstract!Promote, Abstract!IsOldest

LEMMA AbstractCardinality == \A S : Abstract!Cardinality(S) = Cardinality(S)
  BY DEF Cardinality, Abstract!Cardinality

LEMMA AbstractForget ==
    ASSUME Inv, NEW S \in SUBSET Live, RemoveElements(S)
    PROVE  Abstract!Forget(S)
<1>1. Live' = Live \ S BY DEF RemoveElements, Live
<1>2. \A k \in Live' : items'[k] = items[k] BY <1>1 DEF RemoveElements, Live
<1>3. Content' = [k \in Live \ S |-> Content[k]]
  BY <1>1, <1>2 DEF Content
<1>4. evicted' = Abstract!Dropped(S)
  BY DEF RemoveElements, Abstract!Dropped
<1>5. order' = Without(order, S) BY DEF RemoveElements
<1> QED BY <1>3, <1>4, <1>5, AbstractLive, AbstractRecency DEF Abstract!Forget, Content

LEMMA AbstractIdle ==
    ASSUME evicted' = {}, UNCHANGED <<size, order, items, now>>
    PROVE  Abstract!Idle
  BY DEF Abstract!Idle, Live

LEMMA AbstractPut ==
    ASSUME Inv, NEW k \in Keys, NEW v \in Values, Add(k, v)
    PROVE  Abstract!Put(k, v)
<1> DEFINE entry == [value |-> v, expiresAt |-> now + ttl]
           grown == [j \in Live \cup {k} |-> IF j = k THEN entry ELSE Content[j]]
           fresh == Promote(order, k, Live \cup {k})
<1>1. \A j \in Live \cup {k} :
        [value |-> WithItem(k, v)[j].value,
         expiresAt |-> WithItem(k, v)[j].expiresAt] = grown[j]
  BY DEF WithItem, Content
<1>2. UNCHANGED <<now, size>> BY DEF Add, AddExisting, AddNew, AddEvicting
<1>3. ASSUME items' = WithItem(k, v), order' = fresh, evicted' = {},
             size = 0 \/ Cardinality(Live \cup {k}) <= size
      PROVE  Abstract!Put(k, v)
  <2>1. Live' = Live \cup {k} BY <1>3 DEF WithItem, Live
  <2>2. Content' = grown BY <1>1, <1>3, <2>1 DEF Content
  <2>3. order' = Abstract!Promote(order, k, Abstract!Live \cup {k})
    BY <1>3, AbstractLive, AbstractRecency
  <2>4. Content' = [j \in Abstract!Live \cup {k} |->
                      IF j = k THEN entry ELSE Content[j]]
    BY <2>2, AbstractLive
  <2>5. size = 0 \/ Abstract!Cardinality(Abstract!Live \cup {k}) <= size
    BY <1>3, AbstractLive, AbstractCardinality
  <2> HIDE DEF fresh, grown
  <2> QED BY <1>2, <1>3, <2>3, <2>4, <2>5 DEF Abstract!Put, Content
<1>4. CASE AddExisting(k, v)
  <2>1. Live \cup {k} = Live BY <1>4 DEF AddExisting
  <2>2. size = 0 \/ Cardinality(Live \cup {k}) <= size
    <3>1. size \in Nat /\ (size > 0 => Cardinality(Live) <= size)
      BY DEF Inv, SizeBound, TypeOK
    <3> QED BY <2>1, <3>1
  <2> QED BY <1>3, <1>4, <2>1, <2>2 DEF AddExisting
<1>5. CASE AddNew(k, v)
  <2>1. Cardinality(Live \cup {k}) = Cardinality(Live) + 1
    BY <1>5, LiveFinite, FS_AddElement DEF AddNew, Inv
  <2> QED BY <1>3, <1>5, <2>1 DEF AddNew
<1>6. CASE AddEvicting(k, v)
  <2>1. PICK old \in Live :
          /\ IsOldest({old}, fresh, Live \cup {k})
          /\ items' = [j \in (Live \cup {k}) \ {old} |-> WithItem(k, v)[j]]
          /\ order' = Without(fresh, {old})
          /\ evicted' = {<<old, items[old].value>>}
    BY <1>6 DEF AddEvicting
  <2>2. Cardinality(Live \cup {k}) = Cardinality(Live) + 1
    BY <1>6, LiveFinite, FS_AddElement DEF AddEvicting, Inv
  <2>3. size > 0 /\ Cardinality(Live \cup {k}) > size
    BY <1>6, <2>2 DEF AddEvicting
  <2>4. Live' = (Live \cup {k}) \ {old} BY <2>1 DEF Live
  <2>5. Content' = [j \in DOMAIN grown \ {old} |-> grown[j]]
    BY <1>1, <2>1, <2>4 DEF Content
  <2>6. evicted' = Abstract!Dropped({old})
    BY <2>1 DEF Abstract!Dropped
  <2> DEFINE agrown == [j \in Abstract!Live \cup {k} |->
                          IF j = k THEN entry ELSE Content[j]]
             afresh == Abstract!Promote(order, k, Abstract!Live \cup {k})
  <2>7. agrown = grown /\ afresh = fresh BY AbstractLive, AbstractRecency
  <2>8. /\ old \in Abstract!Live
        /\ Abstract!IsOldest({old}, afresh, Abstract!Live \cup {k})
        /\ order' = Abstract!Without(afresh, {old})
        /\ size > 0 /\ Abstract!Cardinality(Abstract!Live \cup {k}) > size
    BY <2>1, <2>3, <2>7, AbstractLive, AbstractRecency, AbstractCardinality
  <2>9. Content' = [j \in DOMAIN agrown \ {old} |-> agrown[j]]
    BY <2>5, <2>7
  <2> HIDE DEF grown, fresh
  <2> QED BY <1>2, <2>6, <2>8, <2>9 DEF Abstract!Put, Content
<1> QED BY <1>4, <1>5, <1>6 DEF Add

LEMMA AbstractResize ==
    ASSUME Inv, NEW n \in Sizes, Resize(n)
    PROVE  Abstract!Resize(IF n <= 0 THEN 0 ELSE n)
<1> DEFINE m == IF n <= 0 THEN 0 ELSE n
<1>1. PICK S \in SUBSET Live :
        /\ Cardinality(S) = IF n <= 0 \/ Cardinality(Live) <= n
                            THEN 0 ELSE Cardinality(Live) - n
        /\ IsOldest(S, order, Live)
        /\ RemoveElements(S)
  BY DEF Resize
<1>2. n \in Int BY SizesAssumption
<1>3. size' = m /\ now' = now BY <1>2 DEF Resize, NewSize
<1>4. S \in SUBSET Abstract!Live /\ Abstract!IsOldest(S, order, Abstract!Live)
  BY <1>1, AbstractLive, AbstractRecency
<1>5. Abstract!Cardinality(S) =
        IF m = 0 \/ Abstract!Cardinality(Abstract!Live) <= m
        THEN 0 ELSE Abstract!Cardinality(Abstract!Live) - m
  BY <1>1, <1>2, AbstractLive, AbstractCardinality
<1>6. Abstract!Forget(S) BY <1>1, AbstractForget
<1> HIDE DEF m
<1>7. Abstract!Resize(m) BY <1>3, <1>4, <1>5, <1>6 DEF Abstract!Resize
<1> QED BY <1>7 DEF m

(* The cleaner's removals are allowed because their time has come.         *)
LEMMA AbstractExpire ==
    ASSUME Inv, CleanBucket, UNCHANGED <<size, now>>,
           newestEntry[nextCleanupBucket] <= now
    PROVE  Abstract!Expire
<1>0. PICK S : S = entries[nextCleanupBucket] OBVIOUS
<1>1. S \in SUBSET Live BY <1>0 DEF Inv, TypeOK, Consistent
<1>2. \A k \in S : Content[k].expiresAt <= now
  <2> SUFFICES ASSUME NEW k \in S PROVE Content[k].expiresAt <= now
    OBVIOUS
  <2>1. items[k] \in Entry /\ items[k].bucket = nextCleanupBucket
    BY <1>0, <1>1 DEF Inv, TypeOK, Consistent
  <2>2. items[k].expiresAt <= newestEntry[nextCleanupBucket]
    BY <1>1, <2>1 DEF Inv, NewestBound
  <2>3. items[k].expiresAt <= now
    BY <2>1, <2>2 DEF Inv, TypeOK, Entry
  <2>4. Content[k].expiresAt = items[k].expiresAt BY <1>1 DEF Content
  <2> QED BY <2>3, <2>4
<1>3. RemoveElements(S) BY <1>0 DEF CleanBucket, RemoveElements, Unbucketed
<1>4. S \in SUBSET Abstract!Live BY <1>1, AbstractLive
<1>5. Abstract!Forget(S) BY <1>1, <1>3, AbstractForget
<1> QED BY <1>2, <1>4, <1>5 DEF Abstract!Expire, Content

LEMMA AbstractDiscard ==
    ASSUME Inv, UNCHANGED <<size, now>>, NEW S \in SUBSET Live, RemoveElements(S),
           S = Live \/ \E k \in Live : S = {k}
    PROVE  Abstract!Discard
  BY AbstractForget, AbstractLive DEF Abstract!Discard

LEMMA AbstractGet ==
    ASSUME Inv, NEW k \in Keys, Get(k) PROVE Abstract!Serve(k) \/ Abstract!Idle
<1>1. UNCHANGED <<size, items, now>> /\ evicted' = {} BY DEF Get
<1>2. CASE k \in Live /\ ~ (now > items[k].expiresAt)
  <2>1. order' = Promote(order, k, Live) BY <1>2 DEF Get
  <2>2. order' = Abstract!Promote(order, k, Abstract!Live)
    BY <2>1, AbstractLive, AbstractRecency
  <2>3. k \in Abstract!Live BY <1>2, AbstractLive
  <2>4. UNCHANGED Content BY <1>1 DEF Content, Live
  <2>5. Content[k].expiresAt = items[k].expiresAt BY <1>2 DEF Content
  <2>6. now <= Content[k].expiresAt
    BY <1>2, <2>5 DEF Inv, TypeOK, Entry
  <2> QED BY <1>1, <2>2, <2>3, <2>4, <2>6 DEF Abstract!Serve, Content
<1>3. CASE ~ (k \in Live /\ ~ (now > items[k].expiresAt))
  BY <1>1, <1>3, AbstractIdle DEF Get
<1> QED BY <1>2, <1>3

LEMMA AbstractNext == ASSUME Inv, Next PROVE Abstract!Next
<1>1. ASSUME NEW k \in Keys, NEW v \in Values, Add(k, v) PROVE Abstract!Next
  BY <1>1, AbstractPut DEF Abstract!Next
<1>2. ASSUME NEW k \in Keys, Get(k) PROVE Abstract!Next
  BY <1>2, AbstractGet DEF Abstract!Next
<1>3. ASSUME UNCHANGED <<size, now>>, RemoveElements({}) PROVE Abstract!Idle
  <2>1. items' = items
    BY <1>3 DEF RemoveElements, Inv, TypeOK, Live
  <2>2. order' = order
    BY <1>3 DEF RemoveElements, Without, Inv, TypeOK
  <2>3. evicted' = {} BY <1>3 DEF RemoveElements
  <2> QED BY <1>3, <2>1, <2>2, <2>3, AbstractIdle
<1>4. ASSUME NEW k \in Keys, Remove(k) PROVE Abstract!Next
  <2>1. CASE k \in Live
    <3>1. {k} \cap Live = {k} BY <2>1
    <3> QED BY <1>4, <2>1, <3>1, AbstractDiscard DEF Remove, Abstract!Next
  <2>2. CASE k \notin Live
    <3>1. {k} \cap Live = {} BY <2>2
    <3> QED BY <1>3, <1>4, <3>1 DEF Remove, Abstract!Next
  <2> QED BY <2>1, <2>2
<1>5. CASE RemoveOldest
  <2>1. PICK S \in SUBSET Live :
          /\ Cardinality(S) = (IF Live = {} THEN 0 ELSE 1)
          /\ RemoveElements(S)
    BY <1>5 DEF RemoveOldest
  <2>2. UNCHANGED <<size, now>> BY <1>5 DEF RemoveOldest
  <2>3. IsFiniteSet(S) BY LiveFinite, FS_Subset DEF Inv
  <2>4. CASE Live = {}
    <3>1. S = {} BY <2>4
    <3> QED BY <1>3, <2>1, <2>2, <3>1 DEF Abstract!Next
  <2>5. CASE Live # {}
    <3>1. \E k : S = {k} BY <2>1, <2>3, <2>5, FS_Singleton
    <3>2. \E k \in Live : S = {k} BY <3>1
    <3> QED BY <2>1, <2>2, <3>2, AbstractDiscard DEF Abstract!Next
  <2> QED BY <2>4, <2>5
<1>6. ASSUME NEW n \in Sizes, Resize(n) PROVE Abstract!Next
  BY <1>6, AbstractResize DEF Abstract!Next
<1>7. CASE Purge
  <2>1. Live \in SUBSET Live OBVIOUS
  <2>2. UNCHANGED <<size, now>> BY <1>7 DEF Purge
  <2> QED BY <1>7, <2>1, <2>2, PurgeRemovesAll, AbstractDiscard
          DEF Abstract!Next
<1>8. CASE Cleaner
  <2>1. CASE CleanNow
    BY <2>1, AbstractExpire DEF CleanNow, Abstract!Next
  <2>2. CASE CleanerSleeps
    BY <2>2, AbstractIdle DEF CleanerSleeps, Abstract!Next
  <2>3. CASE CleanerWakes
    <3>1. newestEntry[nextCleanupBucket] <= now
      BY <2>3 DEF CleanerWakes, Inv, NewestBound
    <3> QED BY <2>3, <3>1, AbstractExpire DEF CleanerWakes, Abstract!Next
  <2> QED BY <1>8, <2>1, <2>2, <2>3 DEF Cleaner
<1>9. CASE Tick
  <2>1. UNCHANGED <<size, order, items>> /\ evicted' = {} BY <1>9 DEF Tick
  <2>2. CASE now' = now BY <2>1, <2>2, AbstractIdle DEF Abstract!Next
  <2>3. CASE now' = now + 1
    <3>1. UNCHANGED Content BY <2>1 DEF Content, Live
    <3> QED BY <2>1, <2>3, <3>1 DEF Abstract!Advance, Abstract!Next, Content
  <2> QED BY <1>9, <2>2, <2>3 DEF Tick
<1> QED BY <1>1, <1>2, <1>4, <1>5, <1>6, <1>7, <1>8, <1>9 DEF Next

(* Lists, buckets, uint8 arithmetic and the cleanup goroutine together     *)
(* behave like a bounded map that forgets the least recently used entry    *)
(* when full, serves no expired entry and drops none before its time.      *)
THEOREM LruImplementsCache == Spec => Implements
<1>1. Init => Abstract!Init
  <2> SUFFICES ASSUME Init PROVE Abstract!Init OBVIOUS
  <2>1. Live = {} BY DEF Init, Live
  <2>2. Content = << >> BY <2>1 DEF Content
  <2>3. size \in Nat BY SizesAssumption DEF Init, NewSize
  <2> QED BY <2>2, <2>3 DEF Init, Abstract!Init, Content
<1>2. ASSUME Inv, [Next]_vars PROVE [Abstract!Next]_(Abstract!vars)
  <2>1. CASE Next BY <1>2, <2>1, AbstractNext
  <2>2. CASE UNCHANGED vars
    BY <2>2 DEF vars, Abstract!vars, Live
  <2> QED BY <1>2, <2>1, <2>2
<1> QED BY <1>1, <1>2, SpecInv, PTL DEF Spec, Abstract!Spec, Implements

-----------------------------------------------------------------------------
(* How long an entry may stay after it has expired, when the cleaner is    *)
(* never late.                                                             *)

Timely == Prompt /\ ttl # NoEvictionTTL

(* How many cleanings there are up to that of bucket b.                    *)
Turn(b) == IF b < nextCleanupBucket THEN b - nextCleanupBucket + 1 + NumBuckets
           ELSE b - nextCleanupBucket + 1

(* The time n ticks take, and when the next one comes.                     *)
Ticks(n) == n * Period
NextTick == IF tick THEN now ELSE now + Period - (now % Period)

(* The bucket whose turn is n is cleaned n - 1 ticks after the next one,   *)
(* or, if the cleaner sleeps for a bucket before it, that many ticks later *)
(* as there are turns in between.  Both are within two lifetimes of each   *)
(* of its entries.  An entry that has just come to the last bucket expires *)
(* after the next cleaning, which empties a bucket and makes it the last:  *)
(* the last bucket's own newestEntry is raised only by entries of the same *)
(* turn.                                                                   *)
InTime ==
    /\ \A b \in Buckets : newestEntry[b] <= now + ttl
    /\ cleaner = "sleeping" => now <= wakeAt
    /\ \A k \in Live :
          LET n     == Turn(items[k].bucket)
              limit == items[k].expiresAt + ttl
          IN  /\ cleaner = "waiting" => NextTick + Ticks(n) <= limit + Period
              /\ \A b \in Buckets :
                    Turn(b) <= n => newestEntry[b] + Ticks(n) <= limit + Ticks(Turn(b))
              /\ n = NumBuckets =>
                    /\ newestEntry[nextCleanupBucket] <= items[k].expiresAt
                    /\ cleaner = "waiting" => NextTick <= items[k].expiresAt

(* Remainders grow by one, up to where they start again.                   *)
LEMMA Remainder ==
    ASSUME NEW m \in Nat, NEW p \in Nat \ {0}
    PROVE  /\ m % p \in 0..(p - 1)
           /\ (m + 1) % p # 0 => (m + 1) % p = (m % p) + 1
<1>1. /\ m = p * (m \div p) + (m % p) /\ m % p \in 0..(p - 1) /\ m \div p \in Int
      /\ m + 1 = p * ((m + 1) \div p) + ((m + 1) % p) /\ (m + 1) % p \in 0..(p - 1)
      /\ (m + 1) \div p \in Int
  OBVIOUS
<1> DEFINE q == m \div p
           r == m % p
           s == (m + 1) \div p
           t == (m + 1) % p
<1>2. p * (s - q) = r + 1 - t
  <2>1. p * (s - q) = p * s - p * q  BY <1>1
  <2> QED BY <1>1, <2>1
<1>3. s - q \in Int /\ r + 1 - t \in (1 - (p - 1))..p
  BY <1>1
<1>4. CASE s = q
  BY <1>1, <1>2, <1>4
<1>5. CASE s - q >= 1
  <2>1. p * (s - q) >= p
    BY <1>3, <1>5
  <2> QED BY <1>1, <1>2, <2>1
<1>6. CASE s - q <= -1
  <2>1. p * (s - q) <= -p
    BY <1>3, <1>6
  <2> QED BY <1>1, <1>2, <2>1
<1> QED BY <1>1, <1>3, <1>4, <1>5, <1>6

(* The next multiple of p is not before m.                                 *)
LEMMA Waiting ==
    ASSUME NEW m \in Nat, NEW p \in Nat \ {0}
    PROVE  m + p - (m % p) \in Nat
  BY Remainder

(* With at least one unit of time for each bucket the ticker's period is   *)
(* not zero (NewLRU, lru.go:66-78).                                        *)
LEMMA PeriodType ==
    ASSUME Timely
    PROVE  Period \in Nat \ {0} /\ NumBuckets * Period <= ttl
<1>1. ttl \in Nat /\ NumBuckets \in Nat /\ NumBuckets >= 2 /\ ttl >= NumBuckets
  BY TTLAssumption, BucketsAssumption DEF Timely, ttl
<1>2. Period \in Int /\ ttl = NumBuckets * Period + (ttl % NumBuckets)
      /\ ttl % NumBuckets \in 0..(NumBuckets - 1)
  BY <1>1 DEF Period
<1>3. Period >= 1
  <2>1. SUFFICES ASSUME Period <= 0 PROVE FALSE
    BY <1>2
  <2>2. NumBuckets * Period <= 0
    BY <1>1, <1>2, <2>1
  <2> QED BY <1>1, <1>2, <2>2
<1> QED BY <1>1, <1>2, <1>3

LEMMA TicksAdd ==
    ASSUME Timely, NEW n \in Nat
    PROVE  Ticks(n) \in Nat /\ Ticks(n + 1) = Ticks(n) + Period /\ Ticks(1) = Period
  BY PeriodType DEF Ticks

(* A round of the ring takes no more than a lifetime.                      *)
LEMMA Round ==
    ASSUME Timely
    PROVE  Ticks(NumBuckets) <= ttl
  BY PeriodType DEF Ticks

LEMMA NextTickType ==
    ASSUME Timely, TypeOK
    PROVE  NextTick \in Nat /\ now <= NextTick /\ NextTick <= now + Period
<1>1. now % Period \in 0..(Period - 1) /\ Period \in Nat /\ now \in Nat
  BY PeriodType, Remainder DEF TypeOK
<1> QED
  BY <1>1 DEF NextTick, TypeOK

LEMMA TurnType ==
    ASSUME nextCleanupBucket \in Buckets, NEW b \in Buckets
    PROVE  /\ Turn(b) \in 1..NumBuckets /\ (Turn(b) = 1 <=> b = nextCleanupBucket)
           /\ Turn(nextCleanupBucket) = 1
  BY BucketsAssumption DEF Turn, Buckets

(* New entries go to the bucket whose turn is last.                        *)
LEMMA LastTurn ==
    ASSUME nextCleanupBucket \in Buckets
    PROVE  /\ BucketID(nextCleanupBucket) \in Buckets
           /\ Turn(BucketID(nextCleanupBucket)) = NumBuckets
           /\ \A b \in Buckets : Turn(b) = NumBuckets => b = BucketID(nextCleanupBucket)
<1>1. NumBuckets \in 2..128 /\ nextCleanupBucket \in Nat /\ nextCleanupBucket < NumBuckets
  BY BucketsAssumption DEF Buckets
<1>2. CASE nextCleanupBucket = 0
  <2>1. BucketID(nextCleanupBucket) = NumBuckets - 1
    <3>1. (NumBuckets + nextCleanupBucket - 1) % 256 = NumBuckets - 1 BY <1>1, <1>2
    <3>2. (NumBuckets - 1) % NumBuckets = NumBuckets - 1 BY <1>1
    <3> QED BY <3>1, <3>2 DEF BucketID
  <2> QED BY <1>1, <1>2, <2>1 DEF Turn, Buckets
<1>3. CASE nextCleanupBucket # 0
  <2>1. BucketID(nextCleanupBucket) = nextCleanupBucket - 1
    <3>1. (NumBuckets + nextCleanupBucket - 1) % 256 = NumBuckets + nextCleanupBucket - 1
      BY <1>1, <1>3
    <3>2. (NumBuckets + (nextCleanupBucket - 1)) % NumBuckets = nextCleanupBucket - 1
      BY <1>1, <1>3
    <3> QED BY <1>1, <3>1, <3>2 DEF BucketID
  <2> QED BY <1>1, <1>3, <2>1 DEF Turn, Buckets
<1> QED BY <1>2, <1>3

(* A cleaning brings all turns forward by one, and the cleaned bucket last.*)
LEMMA TurnsMove ==
    ASSUME nextCleanupBucket \in Buckets,
           nextCleanupBucket' = (nextCleanupBucket + 1) % NumBuckets, NEW b \in Buckets
    PROVE  Turn(b)' = IF b = nextCleanupBucket THEN NumBuckets ELSE Turn(b) - 1
<1>1. NumBuckets \in 2..128 /\ nextCleanupBucket \in Nat /\ nextCleanupBucket < NumBuckets
      /\ b \in Nat /\ b < NumBuckets
  BY BucketsAssumption DEF Buckets
<1>2. CASE nextCleanupBucket = NumBuckets - 1
  <2>1. nextCleanupBucket' = 0  BY <1>1, <1>2
  <2> QED BY <1>1, <1>2, <2>1 DEF Turn
<1>3. CASE nextCleanupBucket < NumBuckets - 1
  <2>1. nextCleanupBucket' = nextCleanupBucket + 1  BY <1>1, <1>3
  <2> QED BY <1>1, <1>3, <2>1 DEF Turn
<1> QED BY <1>1, <1>2, <1>3

(* The types of what InTime speaks of.                                     *)
LEMMA ItemType ==
    ASSUME Inv, NEW k \in Live
    PROVE  /\ items[k].expiresAt \in Nat /\ items[k].bucket \in Buckets
           /\ Turn(items[k].bucket) \in 1..NumBuckets
<1>1. items[k] \in Entry  BY DEF Inv, TypeOK
<1> QED BY <1>1, TurnType DEF Entry, Inv, TypeOK

LEMMA InitInTime ==
    ASSUME Init, Timely PROVE InTime
<1>1. Live = {} /\ ttl \in Nat  BY TtlNat DEF Init, Live
<1> QED BY <1>1 DEF Init, InTime

(* Steps that only remove entries.                                         *)
LEMMA RemovalInTime ==
    ASSUME InTime, Live' \subseteq Live, \A k \in Live' : items'[k] = items[k],
           UNCHANGED <<newestEntry, now, goroutine>>
    PROVE  InTime'
<1>1. NextTick' = NextTick /\ \A b : Turn(b)' = Turn(b)
  BY DEF NextTick, Turn, goroutine
<1> QED BY <1>1 DEF InTime, goroutine

(* A new entry has two lifetimes before it, and every bucket's newestEntry *)
(* is within one.                                                          *)
LEMMA InsertionInTime ==
    ASSUME Inv, InTime, Timely, NEW k \in Keys, NEW v \in Values,
           NEW gone \in SUBSET (Live \ {k}), Stored(k, v, gone)
    PROVE  InTime'
<1> DEFINE b == BucketID(nextCleanupBucket)
<1>1. /\ b \in Buckets /\ Turn(b) = NumBuckets /\ b # nextCleanupBucket
      /\ nextCleanupBucket \in Buckets /\ now \in Nat /\ NumBuckets \in 2..128
  BY LastTurn, BucketOther, BucketsAssumption DEF Inv, TypeOK
<1>2. /\ newestEntry \in [Buckets -> Nat] /\ ttl \in Nat
      /\ newestEntry' = [newestEntry EXCEPT ![b] = Later(@, now + ttl)]
  BY TtlNat DEF Inv, TypeOK, Stored
<1>3. /\ Live' = (Live \cup {k}) \ gone
      /\ items'[k].expiresAt = now + ttl /\ items'[k].bucket = b
      /\ \A j \in Live' : j # k => j \in Live /\ items'[j] = items[j]
  BY DEF Stored, WithItem, Live
<1>4. /\ NextTick' = NextTick /\ (\A c : Turn(c)' = Turn(c)) /\ now' = now
      /\ cleaner' = cleaner /\ wakeAt' = wakeAt /\ nextCleanupBucket' = nextCleanupBucket
  BY DEF NextTick, Turn, goroutine, Stored
<1>5. /\ \A c \in Buckets : newestEntry'[c] <= now + ttl
      /\ \A c \in Buckets : c # b => newestEntry'[c] = newestEntry[c]
      /\ newestEntry'[b] = newestEntry[b] \/ newestEntry'[b] = now + ttl
  BY <1>1, <1>2 DEF Later, InTime
<1>6. /\ NextTick \in Nat /\ now <= NextTick /\ NextTick <= now + Period
      /\ Period \in Nat /\ Period <= ttl
      /\ Ticks(NumBuckets) \in Nat /\ Ticks(NumBuckets) <= ttl
  <2>1. NextTick \in Nat /\ now <= NextTick /\ NextTick <= now + Period
    BY NextTickType DEF Inv
  <2>2. Period \in Nat /\ Period <= ttl
    <3>1. Period <= NumBuckets * Period  BY <1>1, PeriodType
    <3> QED BY <1>1, <1>2, <3>1, PeriodType
  <2>3. Ticks(NumBuckets) \in Nat /\ Ticks(NumBuckets) <= ttl
    BY <1>1, TicksAdd, Round
  <2> QED BY <2>1, <2>2, <2>3
<1> DEFINE Good(j) ==
        /\ cleaner = "waiting" =>
             NextTick + Ticks(Turn(items'[j].bucket)) <= items'[j].expiresAt + ttl + Period
        /\ \A c \in Buckets : Turn(c) <= Turn(items'[j].bucket) =>
             newestEntry'[c] + Ticks(Turn(items'[j].bucket))
                <= items'[j].expiresAt + ttl + Ticks(Turn(c))
        /\ Turn(items'[j].bucket) = NumBuckets =>
             /\ newestEntry'[nextCleanupBucket] <= items'[j].expiresAt
             /\ cleaner = "waiting" => NextTick <= items'[j].expiresAt
<1>7. Good(k)
  <2>1. NextTick + Ticks(NumBuckets) <= now + ttl + ttl + Period
    BY <1>1, <1>2, <1>6
  <2>2. ASSUME NEW c \in Buckets
        PROVE  newestEntry'[c] + Ticks(NumBuckets) <= now + ttl + ttl + Ticks(Turn(c))
    <3>1. Ticks(Turn(c)) \in Nat /\ newestEntry'[c] \in Nat
      BY <1>1, <1>2, <1>5, TurnType, TicksAdd
    <3> QED BY <1>1, <1>2, <1>5, <1>6, <3>1
  <2>3. newestEntry'[nextCleanupBucket] <= now + ttl
    BY <1>1, <1>5
  <2>4. NextTick <= now + ttl
    BY <1>1, <1>2, <1>6
  <2> QED BY <1>1, <1>3, <2>1, <2>2, <2>3, <2>4
<1>8. ASSUME NEW j \in Live', j # k PROVE Good(j)
  <2>1. j \in Live /\ items'[j] = items[j]
    BY <1>3, <1>8
  <2> DEFINE n == Turn(items[j].bucket)
             e == items[j].expiresAt
  <2>2. /\ cleaner = "waiting" => NextTick + Ticks(n) <= e + ttl + Period
        /\ \A c \in Buckets : Turn(c) <= n => newestEntry[c] + Ticks(n) <= e + ttl + Ticks(Turn(c))
        /\ n = NumBuckets => /\ newestEntry[nextCleanupBucket] <= e
                             /\ cleaner = "waiting" => NextTick <= e
    BY <2>1 DEF InTime
  <2>3. e \in Nat /\ n \in 1..NumBuckets
    BY <2>1, ItemType
  <2>4. ASSUME NEW c \in Buckets, Turn(c) <= n
        PROVE  newestEntry'[c] + Ticks(n) <= e + ttl + Ticks(Turn(c))
    <3>1. CASE newestEntry'[c] = newestEntry[c]
      BY <2>2, <2>4, <3>1
    <3>2. CASE c = b /\ newestEntry'[b] = now + ttl
      <4>1. n = NumBuckets
        BY <1>1, <2>3, <2>4, <3>2
      <4>2. now <= e
        <5>1. CASE cleaner = "waiting"
          BY <1>1, <1>6, <2>2, <2>3, <4>1, <5>1
        <5>2. CASE cleaner = "sleeping"
          <6>1. now <= wakeAt /\ wakeAt = newestEntry[nextCleanupBucket]
            BY <5>2 DEF InTime, Inv, NewestBound
          <6> QED BY <1>1, <1>2, <2>2, <2>3, <4>1, <6>1
        <5> QED BY <5>1, <5>2 DEF Inv, TypeOK
      <4> QED BY <1>1, <1>2, <1>6, <2>3, <3>2, <4>1, <4>2
    <3> QED BY <1>5, <3>1, <3>2
  <2> QED BY <1>1, <1>5, <2>1, <2>2, <2>4
<1> HIDE DEF Good
<1>9. \A j \in Live' : Good(j)
  BY <1>7, <1>8
<1>10. (cleaner = "sleeping" => now <= wakeAt)'
  BY <1>4 DEF InTime
<1> QED BY <1>4, <1>5, <1>9, <1>10 DEF InTime, Good

LEMMA AddInTime ==
    ASSUME Inv, InTime, Timely, NEW k \in Keys, NEW v \in Values, Add(k, v)
    PROVE  InTime'
<1>1. ASSUME Stored(k, v, {}) PROVE InTime'
  <2>1. {} \in SUBSET (Live \ {k})  OBVIOUS
  <2> QED BY <1>1, <2>1, InsertionInTime
<1>2. CASE AddExisting(k, v)  BY <1>1, <1>2, AddExistingStores
<1>3. CASE AddNew(k, v)  BY <1>1, <1>3, AddNewStores
<1>4. CASE AddEvicting(k, v)
  <2>1. PICK old \in Live :
          /\ items' = [j \in (Live \cup {k}) \ {old} |-> WithItem(k, v)[j]]
          /\ order' = Without(Promote(order, k, Live \cup {k}), {old})
          /\ AddToBucket(k, Unbucketed({old}))
    BY <1>4 DEF AddEvicting
  <2>2. k \notin Live /\ UNCHANGED <<size, now, goroutine>>
    BY <1>4 DEF AddEvicting
  <2>3. {old} \in SUBSET (Live \ {k}) /\ {old} \cup ({k} \cap Live) = {old}
    BY <2>1, <2>2
  <2>4. Stored(k, v, {old})
    BY <2>1, <2>2, <2>3 DEF Stored, AddToBucket
  <2> QED BY <2>3, <2>4, InsertionInTime
<1> QED BY <1>2, <1>3, <1>4 DEF Add

(* A bucket is cleaned, at a tick that has come or at the end of a sleep   *)
(* that all entries but those of the bucket could afford.                  *)
LEMMA CleaningInTime ==
    ASSUME Inv, InTime, Timely, CleanNow \/ CleanerWakes
    PROVE  InTime'
<1> DEFINE next == nextCleanupBucket
<1>1. /\ next \in Buckets /\ now \in Nat /\ NumBuckets \in 2..128 /\ ttl \in Nat
      /\ newestEntry \in [Buckets -> Nat] /\ Period \in Nat \ {0} /\ TypeOK
  BY BucketsAssumption, TtlNat, PeriodType DEF Inv, TypeOK
<1>2. /\ CleanBucket /\ cleaner' = "waiting" /\ now' = now /\ newestEntry' = newestEntry
      /\ next' = (next + 1) % NumBuckets
  BY DEF CleanNow, CleanerWakes, CleanBucket
<1>3. /\ Live' = Live \ entries[next] /\ \A k \in Live' : items'[k] = items[k]
  BY <1>2 DEF CleanBucket, RemoveElements, Live
<1>4. NextTick' \in Nat /\ NextTick' <= now + Period
  <2>1. now % Period \in 0..(Period - 1)
    BY <1>1, Remainder
  <2>2. NextTick' = IF tick' THEN now ELSE now + Period - (now % Period)
    BY <1>2 DEF NextTick, Period, ttl
  <2> QED BY <1>1, <2>1, <2>2
<1> SUFFICES ASSUME NEW k \in Live'
             PROVE  LET m     == Turn(items[k].bucket)'
                        limit == items[k].expiresAt + ttl
                    IN  /\ NextTick' + Ticks(m) <= limit + Period
                        /\ \A b \in Buckets : Turn(b)' <= m =>
                              newestEntry[b] + Ticks(m) <= limit + Ticks(Turn(b)')
                        /\ m # NumBuckets
  BY <1>2, <1>3 DEF InTime
<1> DEFINE n == Turn(items[k].bucket)
           e == items[k].expiresAt
<1>5. k \in Live /\ items[k].bucket # next
  BY <1>1, <1>3 DEF Inv, Consistent
<1>6. /\ e \in Nat /\ items[k].bucket \in Buckets /\ n \in 2..NumBuckets
      /\ Turn(items[k].bucket)' = n - 1
  <2>1. e \in Nat /\ items[k].bucket \in Buckets /\ n \in 1..NumBuckets
    BY <1>5, ItemType
  <2>2. n # 1
    BY <1>1, <1>5, <2>1, TurnType
  <2>3. Turn(items[k].bucket)' = n - 1
    <3>1. items'[k] = items[k]  BY <1>3
    <3>2. PICK b \in Buckets : b = items[k].bucket  BY <2>1
    <3>3. Turn(b)' = Turn(b) - 1
      BY <1>1, <1>2, <1>5, <3>2, TurnsMove
    <3>4. Turn(items[k].bucket)' = Turn(b)'
      BY <3>1, <3>2 DEF Turn
    <3> QED BY <3>2, <3>3, <3>4
  <2> HIDE DEF n
  <2> QED BY <1>1, <2>1, <2>2, <2>3
<1>7. /\ Ticks(n) = Ticks(n - 1) + Period /\ Ticks(n - 1) \in Nat /\ Ticks(n) \in Nat
  <2>1. n - 1 \in Nat /\ (n - 1) + 1 = n  BY <1>6
  <2> QED BY <1>6, <2>1, TicksAdd
<1>8. now + Ticks(n) <= e + ttl + Period
  <2>1. CASE CleanNow
    <3>1. cleaner = "waiting" /\ NextTick = now
      BY <2>1 DEF CleanNow, NextTick
    <3> QED BY <1>5, <3>1 DEF InTime
  <2>2. CASE CleanerWakes
    <3>1. newestEntry[next] = now
      <4>1. cleaner = "sleeping" /\ wakeAt <= now /\ now <= wakeAt
            /\ wakeAt = newestEntry[next]
        BY <2>2 DEF CleanerWakes, InTime, Inv, NewestBound
      <4> QED BY <1>1, <4>1
    <3>2. newestEntry[next] + Ticks(n) <= e + ttl + Ticks(Turn(next))
      <4>1. Turn(next) = 1 /\ 1 <= n  BY <1>1, <1>6, TurnType
      <4> QED BY <1>1, <1>5, <4>1 DEF InTime
    <3>3. Ticks(Turn(next)) = Period
      BY <1>1, TurnType, TicksAdd
    <3> QED BY <3>1, <3>2, <3>3
  <2> QED BY <2>1, <2>2
<1>9. NextTick' + Ticks(n - 1) <= e + ttl + Period
  BY <1>1, <1>4, <1>6, <1>7, <1>8
<1>10. ASSUME NEW b \in Buckets, Turn(b)' <= n - 1
       PROVE  newestEntry[b] + Ticks(n - 1) <= e + ttl + Ticks(Turn(b)')
  <2>1. b # next /\ Turn(b)' = Turn(b) - 1
    BY <1>1, <1>2, <1>6, <1>10, TurnsMove
  <2>2. Turn(b) \in 2..NumBuckets /\ Turn(b) <= n
    BY <1>1, <1>6, <1>10, <2>1, TurnType
  <2>3. newestEntry[b] + Ticks(n) <= e + ttl + Ticks(Turn(b))
    BY <1>5, <2>2 DEF InTime
  <2>4. Ticks(Turn(b)) = Ticks(Turn(b) - 1) + Period /\ Ticks(Turn(b) - 1) \in Nat
    <3>1. Turn(b) - 1 \in Nat /\ (Turn(b) - 1) + 1 = Turn(b)  BY <2>2
    <3> QED BY <3>1, TicksAdd
  <2>5. newestEntry[b] \in Nat  BY <1>1
  <2> HIDE DEF n, e
  <2> QED BY <1>1, <1>6, <1>7, <2>1, <2>3, <2>4, <2>5
<1> QED BY <1>6, <1>9, <1>10

LEMMA CleanerSleepsInTime ==
    ASSUME Inv, InTime, Timely, CleanerSleeps
    PROVE  InTime'
<1>1. /\ UNCHANGED <<items, newestEntry, nextCleanupBucket, now>> /\ cleaner' = "sleeping"
      /\ now <= wakeAt'
  BY DEF CleanerSleeps, Inv, TypeOK
<1>2. Live' = Live /\ \A b : Turn(b)' = Turn(b)
  BY <1>1 DEF Live, Turn
<1> QED BY <1>1, <1>2 DEF InTime

(* Time passes only while the cleaner has nothing to do.                   *)
LEMMA TickInTime ==
    ASSUME Inv, InTime, Timely, Tick
    PROVE  InTime'
<1>1. /\ now \in Nat /\ ttl \in Nat /\ newestEntry \in [Buckets -> Nat] /\ wakeAt \in Nat
      /\ Period \in Nat \ {0} /\ TypeOK
  BY TtlNat, PeriodType DEF Inv, TypeOK
<1>2. /\ UNCHANGED <<items, newestEntry, nextCleanupBucket, cleaner, wakeAt>>
      /\ now' = now \/ now' = now + 1
      /\ cleaner = "waiting" => ~tick
      /\ cleaner = "sleeping" => ~(wakeAt <= now)
  BY DEF Tick, Timely, CleanerDue
<1>3. Live' = Live /\ \A b : Turn(b)' = Turn(b)
  BY <1>2 DEF Live, Turn
<1>4. cleaner = "waiting" => NextTick' <= NextTick
  <2> SUFFICES ASSUME cleaner = "waiting" PROVE NextTick' <= NextTick
    OBVIOUS
  <2>1. NextTick = now + Period - (now % Period) /\ now % Period \in 0..(Period - 1)
    BY <1>1, <1>2, Remainder DEF NextTick
  <2>2. CASE tick'
    BY <1>1, <1>2, <2>1, <2>2 DEF NextTick
  <2>3. CASE ~tick' /\ now' = now
    BY <1>1, <2>1, <2>3 DEF NextTick
  <2>4. CASE ~tick' /\ now' = now + 1
    <3>1. (now + 1) % Period # 0
      BY <2>4 DEF Tick, Timely
    <3>2. now' % Period = (now % Period) + 1
      <4>1. (now + 1) % Period = (now % Period) + 1
        BY <1>1, <3>1, Remainder
      <4> QED BY <2>4, <4>1
    <3>3. NextTick' = now' + Period - (now' % Period)
      BY <2>4 DEF NextTick, Period, ttl
    <3> QED BY <1>1, <2>1, <2>4, <3>2, <3>3
  <2> QED BY <1>2, <2>2, <2>3, <2>4
<1>5. /\ \A b \in Buckets : newestEntry[b] <= now' + ttl
      /\ cleaner = "sleeping" => now' <= wakeAt
  BY <1>1, <1>2 DEF InTime
<1>6. NextTick \in Nat /\ NextTick' \in Nat
  <2>1. Inv'  BY NextInv DEF Next
  <2>2. now' % Period \in 0..(Period - 1) /\ now' \in Nat
    BY <1>1, <2>1, Remainder DEF Inv, TypeOK
  <2>3. NextTick' = IF tick' THEN now' ELSE now' + Period - (now' % Period)
    BY DEF NextTick, Period, ttl
  <2>4. NextTick \in Nat
    BY <1>1, NextTickType
  <2>5. NextTick' \in Nat
    <3>1. now' + Period - (now' % Period) \in Nat
      BY <1>1, <2>2, Waiting
    <3> QED BY <2>2, <2>3, <3>1
  <2> QED BY <2>4, <2>5
<1>7. ASSUME NEW k \in Live
      PROVE  /\ cleaner = "waiting" =>
                  NextTick' + Ticks(Turn(items[k].bucket)) <= items[k].expiresAt + ttl + Period
             /\ cleaner = "waiting" /\ Turn(items[k].bucket) = NumBuckets =>
                  NextTick' <= items[k].expiresAt
  <2>1. items[k].expiresAt \in Nat /\ Ticks(Turn(items[k].bucket)) \in Nat
    BY ItemType, TicksAdd
  <2>2. /\ cleaner = "waiting" =>
             NextTick + Ticks(Turn(items[k].bucket)) <= items[k].expiresAt + ttl + Period
        /\ cleaner = "waiting" /\ Turn(items[k].bucket) = NumBuckets =>
             NextTick <= items[k].expiresAt
    BY DEF InTime
  <2> QED BY <1>1, <1>4, <1>6, <2>1, <2>2
<1> QED BY <1>2, <1>3, <1>5, <1>7 DEF InTime

LEMMA NextInTime ==
    ASSUME Inv, InTime, Timely, [Next]_vars
    PROVE  InTime'
<1>1. ASSUME NEW k \in Keys, NEW v \in Values, Add(k, v) PROVE InTime'
  BY <1>1, AddInTime
<1>2. ASSUME NEW S, RemoveElements(S), UNCHANGED <<newestEntry, now, goroutine>>
      PROVE  InTime'
  <2>1. Live' \subseteq Live /\ \A k \in Live' : items'[k] = items[k]
    BY <1>2 DEF RemoveElements, Live
  <2> QED BY <1>2, <2>1, RemovalInTime
<1>3. ASSUME UNCHANGED <<items, newestEntry, now, goroutine>> PROVE InTime'
  BY <1>3, RemovalInTime DEF Live
<1>4. ASSUME NEW k \in Keys, Get(k) \/ Remove(k) PROVE InTime'
  BY <1>2, <1>3, <1>4 DEF Get, Remove
<1>5. CASE RemoveOldest  BY <1>2, <1>5 DEF RemoveOldest
<1>6. ASSUME NEW m \in Sizes, Resize(m) PROVE InTime'  BY <1>2, <1>6 DEF Resize
<1>7. CASE Purge
  <2>1. UNCHANGED <<newestEntry, now, goroutine>>  BY <1>7 DEF Purge
  <2> QED BY <1>2, <1>7, <2>1, PurgeRemovesAll
<1>8. CASE Cleaner  BY <1>8, CleaningInTime, CleanerSleepsInTime DEF Cleaner
<1>9. CASE Tick  BY <1>9, TickInTime
<1>10. CASE UNCHANGED vars  BY <1>3, <1>10 DEF vars, goroutine
<1> QED BY <1>1, <1>4, <1>5, <1>6, <1>7, <1>8, <1>9, <1>10 DEF Next

(* With a cleaner that is never late, an entry is gone when it has been    *)
(* expired for as long as it lived, for every ttl and number of buckets:   *)
(* what the sleeps of the cleaner delay adds up, but not beyond one ttl    *)
(* (lru.go:323-338).                                                       *)
THEOREM LruWithinTwoLifetimes == Spec => []WithinTwoLifetimes
<1> DEFINE IInv == Inv /\ (Timely => InTime)
<1>1. Init => IInv
  BY InitInv, InitInTime
<1>2. IInv /\ [Next]_vars => IInv'
  <2>1. Timely' <=> Timely  BY DEF Timely, ttl
  <2> QED BY <2>1, NextInv, NextInTime
<1>3. IInv => WithinTwoLifetimes
  <2> SUFFICES ASSUME Inv, InTime, Timely, NEW k \in Live
               PROVE  now <= items[k].expiresAt + ttl
    BY DEF WithinTwoLifetimes, Timely
  <2> DEFINE n == Turn(items[k].bucket)
  <2>1. /\ items[k].expiresAt \in Nat /\ n \in 1..NumBuckets /\ ttl \in Nat /\ now \in Nat
        /\ Period \in Nat /\ nextCleanupBucket \in Buckets /\ newestEntry \in [Buckets -> Nat]
    BY ItemType, TtlNat, PeriodType DEF Inv, TypeOK
  <2>2. Ticks(n) \in Nat /\ Ticks(n) >= Period
    <3>1. n - 1 \in Nat /\ (n - 1) + 1 = n  BY <2>1
    <3>2. Ticks(n) = Ticks(n - 1) + Period /\ Ticks(n - 1) \in Nat
      BY <3>1, TicksAdd
    <3> HIDE DEF n
    <3> QED BY <2>1, <3>2
  <2>3. CASE cleaner = "waiting"
    <3>1. NextTick + Ticks(n) <= items[k].expiresAt + ttl + Period
      BY <2>3 DEF InTime
    <3>2. NextTick \in Nat /\ now <= NextTick
      BY NextTickType DEF Inv
    <3> HIDE DEF n
    <3> QED BY <2>1, <2>2, <3>1, <3>2
  <2>4. CASE cleaner = "sleeping"
    <3>1. now <= newestEntry[nextCleanupBucket]
      BY <2>4 DEF InTime, Inv, NewestBound
    <3>2. Turn(nextCleanupBucket) = 1 /\ Ticks(1) = Period
      BY <2>1, TurnType, TicksAdd
    <3>3. newestEntry[nextCleanupBucket] + Ticks(n) <= items[k].expiresAt + ttl + Period
      BY <2>1, <3>2 DEF InTime
    <3>4. newestEntry[nextCleanupBucket] \in Nat  BY <2>1
    <3> HIDE DEF n
    <3> QED BY <2>1, <2>2, <3>1, <3>3, <3>4
  <2> QED BY <2>3, <2>4 DEF Inv, TypeOK
<1> QED BY <1>1, <1>2, <1>3, PTL DEF Spec
=============================================================================
